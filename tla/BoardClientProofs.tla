------------------------- MODULE BoardClientProofs -------------------------
(***************************************************************************)
(* Proofs about BoardClient, for any edits, cards, users, drags, deletions *)
(* and lost connections, as long as no bootstrap after the first is        *)
(* fetched: that the cache follows the change log; and, when no answer to  *)
(* what the server has stored is lost and no deletion fails either, that   *)
(* the tab keeps showing its own edits and lists its own new cards once.   *)
(***************************************************************************)
EXTENDS BoardClient, ListsProofs, SequenceTheorems

\* The operations that only a card this tab acted on can name.
Own == Ops \cup {Deletion}

\* Nothing is left that would fetch a bootstrap.
NoBootstrap ==
    /\ left \in [errors : Nat, loads : {0}, drags : Nat, drops : Nat, deletes : Nat]
    /\ poll = Idle /\ reset = Idle /\ ~epoch /\ catchUp.pc # "resetting"

\* What has been read, or is on its way, has been committed; no page is asked
\* for from beyond the checkpoint of the cache.
ReadsCommitted ==
    /\ revision <= Rev /\ stream.pos <= Rev
    /\ catchUp.since <= revision /\ catchUp.to <= Rev

\* A board has one card of an iid; another user's operation is on one card
\* and says what it wrote; this tab's are on cards it acted on.
BoardTrue(b, acted) ==
    /\ \A c \in b : /\ c.op \in Own => c.iid \in acted
                    /\ c.op \in Theirs => c.val = c.op
    /\ \A c, d \in b : /\ c.iid = d.iid => c = d
                       /\ c.op = d.op /\ c.op \in Theirs => c = d
BoardsTrue == \A n \in 0..Rev : BoardTrue(Board(n), touched)

\* A commit writes at most one card.
OneWritten(n) == \A c, d \in Written(n) : c = d
OneWrite == \A n \in 1..Rev : OneWritten(n)

\* A list without other cards under this tab's operations, in which a card
\* of others has one place.
ViewTrue(view, acted) ==
    /\ \A j \in DOMAIN view : view[j].op \in Own => view[j].iid \in acted
    /\ \A i, j \in DOMAIN view :
           view[i].iid = view[j].iid /\ view[i].iid \notin acted => i = j

\* The cards the requests and answers of this tab are about.
ActedOn ==
    /\ \A c \in hidden : c.iid \in touched
    /\ \A r \in retrying : r.iid \in touched
    /\ \A d \in deleting : d.iid \in touched
    /\ \A o \in Ops : /\ home[o] # NoIid => home[o] \in touched
                      /\ post[o].pc # "idle" => post[o].iid \in touched
                      /\ post[o].pc = "answered" => post[o].card.iid \in touched

ClientInv ==
    /\ TypeOK /\ NoBootstrap /\ ReadsCommitted /\ BoardsTrue /\ OneWrite
    /\ ViewTrue(cards, touched) /\ ActedOn /\ BoardAtCheckpoint

-----------------------------------------------------------------------------
(* What an update of the list does to the cards of others *)

\* The cards of a list that the tab never acted on.
Rest(view) == {c \in ToSet(view) : c.iid \notin touched}

\* The board of commit n without the cards the tab acted on.
Others(n) == {c \in Board(n) : c.iid \notin touched}

LEMMA Listed ==
    ASSUME NEW view
    PROVE  /\ \A j \in DOMAIN view : view[j].iid \notin touched => view[j] \in Rest(view)
           /\ \A c \in Rest(view) : c.iid \notin touched /\ \E j \in DOMAIN view : view[j] = c
  BY DEF Rest, ToSet

LEMMA LeastIsFound ==
    ASSUME NEW I, I \subseteq Nat, I # {}
    PROVE  Min(I) \in I /\ \A m \in I : Min(I) <= m
  BY LeastOfNat DEF Min

LEMMA KeptView ==
    ASSUME NEW view \in Seq(Card), ViewTrue(view, touched), NEW P \in SUBSET DOMAIN view
    PROVE  /\ KeepPlaces(view, P) \in Seq(Card) /\ ViewTrue(KeepPlaces(view, P), touched)
           /\ Rest(KeepPlaces(view, P)) = {c \in Rest(view) : \E j \in P : view[j] = c}
           /\ \A k \in DOMAIN KeepPlaces(view, P) : \E j \in P : KeepPlaces(view, P)[k] = view[j]
<1> DEFINE r == KeepPlaces(view, P)
<1>1. r \in Seq(Card)
  BY KeptPlaces
<1>2. PICK g : Lists(g, r, view, P)
  BY KeptPlaces
<1> HIDE DEF r
<1>3. \A k \in DOMAIN r : g[k] \in P /\ g[k] \in DOMAIN view /\ r[k] = view[g[k]]
  BY <1>2 DEF Lists
<1>4. ViewTrue(r, touched)
  BY <1>2, <1>3 DEF ViewTrue, Lists
<1>5. \A c : c \in Rest(r) <=> c \in Rest(view) /\ \E j \in P : view[j] = c
  <2> TAKE c
  <2>1. ASSUME c \in Rest(r) PROVE c \in Rest(view) /\ \E j \in P : view[j] = c
    BY <2>1, <1>3, Listed
  <2>2. ASSUME c \in Rest(view), NEW j \in P, view[j] = c PROVE c \in Rest(r)
    <3>1. PICK k \in DOMAIN r : g[k] = j
      BY <1>2 DEF Lists
    <3>2. r[k] = c /\ c.iid \notin touched
      BY <3>1, <2>2, <1>3, Listed
    <3> QED
      BY <3>2, Listed
  <2> QED
    BY <2>1, <2>2
<1> QED
  BY <1>1, <1>3, <1>4, <1>5 DEF r

\* What is left of the others when c is written.
With(others, c) == {d \in others : d.iid # c.iid} \cup {d \in {c} : d.iid \notin touched}

LEMMA PlacedView ==
    ASSUME NEW view \in Seq(Card), ViewTrue(view, touched), NEW at \in DOMAIN view,
           view[at].iid \in touched, NEW c \in Card, c.op \in Own => c.iid \in touched
    PROVE  /\ PutInPlace(view, at, c) \in Seq(Card) /\ ViewTrue(PutInPlace(view, at, c), touched)
           /\ Rest(PutInPlace(view, at, c)) = With(Rest(view), c)
<1> DEFINE v == [view EXCEPT ![at] = c]
           P == {j \in DOMAIN view : j = at \/ view[j].iid # c.iid}
           r == KeepPlaces(v, P)
<1>1. PutInPlace(view, at, c) = r
  BY DEF PutInPlace
<1>2. v \in Seq(Card) /\ DOMAIN v = DOMAIN view
  OBVIOUS
<1>3. \A j \in DOMAIN view : v[j] = IF j = at THEN c ELSE view[j]
  OBVIOUS
<1>4. P \in SUBSET DOMAIN v
  BY <1>2
<1> HIDE DEF v
<1>5. r \in Seq(Card) /\ \E g : Lists(g, r, v, P)
  <2> HIDE DEF P
  <2> QED
    BY <1>2, <1>4, KeptPlaces
<1>6. PICK g : Lists(g, r, v, P)
  BY <1>5
<1> HIDE DEF r
<1>7. \A k \in DOMAIN r : g[k] \in P /\ g[k] \in DOMAIN view /\ r[k] = v[g[k]]
  BY <1>6 DEF Lists
<1>8. \A k \in DOMAIN r : r[k].op \in Own => r[k].iid \in touched
  BY <1>7, <1>3 DEF ViewTrue
<1>9. \A k, m \in DOMAIN r : r[k].iid = r[m].iid /\ r[k].iid \notin touched => k = m
  <2> SUFFICES ASSUME NEW k \in DOMAIN r, NEW m \in DOMAIN r,
                      r[k].iid = r[m].iid, r[k].iid \notin touched
               PROVE  g[k] = g[m]
    BY <1>6 DEF Lists
  <2>1. CASE g[k] = at
    BY <2>1, <1>7, <1>3
  <2>2. CASE g[m] = at
    BY <2>2, <1>7, <1>3
  <2>3. CASE g[k] # at /\ g[m] # at
    BY <2>3, <1>7, <1>3 DEF ViewTrue
  <2> QED
    BY <2>1, <2>2, <2>3
<1>10. ViewTrue(r, touched)
  BY <1>8, <1>9 DEF ViewTrue
<1>11. ASSUME NEW d PROVE d \in Rest(r) <=> d \in With(Rest(view), c)
  <2>1. ASSUME d \in Rest(r) PROVE d \in With(Rest(view), c)
    <3>1. d.iid \notin touched /\ \E k \in DOMAIN r : r[k] = d
      BY <2>1, Listed
    <3>2. PICK j \in P : d = v[j]
      BY <3>1, <1>7
    <3>3. CASE j = at
      BY <3>1, <3>2, <3>3, <1>3 DEF With
    <3>4. CASE j # at
      <4>1. view[j] = d /\ d.iid # c.iid
        BY <3>2, <3>4, <1>3
      <4>2. d \in Rest(view)
        BY <4>1, <3>1, Listed
      <4> QED
        BY <4>1, <4>2 DEF With
    <3> QED
      BY <3>3, <3>4
  <2>2. ASSUME NEW j \in P, d = v[j], d.iid \notin touched PROVE d \in Rest(r)
    <3>1. PICK k \in DOMAIN r : g[k] = j
      BY <1>6 DEF Lists
    <3> QED
      BY <3>1, <2>2, <1>7, Listed
  <2>3. ASSUME d \in With(Rest(view), c) PROVE d \in Rest(r)
    <3>1. CASE d = c
      <4>1. at \in P /\ v[at] = d
        BY <3>1, <1>3
      <4>2. d.iid \notin touched
        BY <2>3, Listed DEF With
      <4> QED
        BY <4>1, <4>2, <2>2
    <3>2. CASE d # c
      <4>1. d \in Rest(view) /\ d.iid # c.iid
        BY <2>3, <3>2 DEF With
      <4>2. PICK j \in DOMAIN view : view[j] = d
        BY <4>1, Listed
      <4>3. d.iid \notin touched
        BY <4>1, Listed
      <4>4. j \in P /\ j # at
        BY <4>1, <4>2, <4>3
      <4>5. v[j] = d
        BY <4>2, <4>4, <1>3
      <4> QED
        BY <4>3, <4>4, <4>5, <2>2
    <3> QED
      BY <3>1, <3>2
  <2> QED
    BY <2>1, <2>3
<1> QED
  BY <1>1, <1>5, <1>10, <1>11 DEF r

LEMMA AppendedView ==
    ASSUME NEW view \in Seq(Card), ViewTrue(view, touched), NEW c \in Card,
           c.op \in Own => c.iid \in touched, \A j \in DOMAIN view : view[j].iid # c.iid
    PROVE  /\ Append(view, c) \in Seq(Card) /\ ViewTrue(Append(view, c), touched)
           /\ Rest(Append(view, c)) = With(Rest(view), c)
<1> DEFINE r == Append(view, c)
<1>1. /\ r \in Seq(Card) /\ DOMAIN r = 1..(Len(view) + 1) /\ DOMAIN view = 1..Len(view)
      /\ r[Len(view) + 1] = c /\ \A j \in DOMAIN view : r[j] = view[j]
      /\ Len(view) \in Nat
  OBVIOUS
<1> HIDE DEF r
<1>2. \A k \in DOMAIN r : \/ k \in DOMAIN view /\ r[k] = view[k]
                          \/ k = Len(view) + 1 /\ r[k] = c
  <2> TAKE k \in DOMAIN r
  <2>1. k \in 1..Len(view) \/ k = Len(view) + 1
    BY <1>1
  <2> QED
    BY <2>1, <1>1
<1>3. \A j \in DOMAIN view : j \in DOMAIN r
  BY <1>1
<1>4. ViewTrue(r, touched)
  BY <1>2 DEF ViewTrue
<1>5. ASSUME NEW d PROVE d \in Rest(r) <=> d \in With(Rest(view), c)
  <2>1. ASSUME d \in Rest(r) PROVE d \in With(Rest(view), c)
    <3>1. PICK k \in DOMAIN r : r[k] = d /\ d.iid \notin touched
      BY <2>1, Listed
    <3>2. CASE d = c
      BY <3>1, <3>2 DEF With
    <3>3. CASE d # c
      <4>1. k \in DOMAIN view /\ view[k] = d
        BY <3>1, <3>3, <1>2
      <4>2. d \in Rest(view) /\ d.iid # c.iid
        BY <4>1, <3>1, Listed
      <4> QED
        BY <4>2 DEF With
    <3> QED
      BY <3>2, <3>3
  <2>2. ASSUME d \in With(Rest(view), c) PROVE d \in Rest(r)
    <3>1. d.iid \notin touched /\ (d = c \/ \E j \in DOMAIN view : view[j] = d)
      BY <2>2, Listed DEF With
    <3>2. \E k \in DOMAIN r : r[k] = d
      <4>1. Len(view) + 1 \in DOMAIN r /\ r[Len(view) + 1] = c
        BY <1>1
      <4> QED
        BY <3>1, <4>1, <1>1, <1>3
    <3> QED
      BY <3>1, <3>2, Listed
  <2> QED
    BY <2>1, <2>2
<1> QED
  BY <1>1, <1>4, <1>5 DEF r

LEMMA ReplacedView ==
    ASSUME NEW view \in Seq(Card), ViewTrue(view, touched), NEW at \in DOMAIN view, NEW c \in Card,
           c.op \in Own => c.iid \in touched, view[at].iid = c.iid
    PROVE  /\ [view EXCEPT ![at] = c] \in Seq(Card) /\ ViewTrue([view EXCEPT ![at] = c], touched)
           /\ Rest([view EXCEPT ![at] = c]) = With(Rest(view), c)
<1> DEFINE r == [view EXCEPT ![at] = c]
<1>1. r \in Seq(Card) /\ DOMAIN r = DOMAIN view
      /\ \A j \in DOMAIN view : r[j] = IF j = at THEN c ELSE view[j]
  OBVIOUS
<1> HIDE DEF r
<1>2. ViewTrue(r, touched)
  BY <1>1 DEF ViewTrue
<1>3. ASSUME NEW d PROVE d \in Rest(r) <=> d \in With(Rest(view), c)
  <2>1. ASSUME d \in Rest(r) PROVE d \in With(Rest(view), c)
    <3>1. PICK j \in DOMAIN r : r[j] = d /\ d.iid \notin touched
      BY <2>1, Listed
    <3>2. CASE j = at
      BY <3>1, <3>2, <1>1 DEF With
    <3>3. CASE j # at
      <4>1. view[j] = d /\ d.iid # c.iid
        BY <3>1, <3>3, <1>1 DEF ViewTrue
      <4>2. d \in Rest(view)
        BY <4>1, <3>1, <1>1, Listed
      <4> QED
        BY <4>1, <4>2 DEF With
    <3> QED
      BY <3>2, <3>3
  <2>2. ASSUME d \in With(Rest(view), c) PROVE d \in Rest(r)
    <3>1. d.iid \notin touched /\ (d = c \/ (d.iid # c.iid /\ \E j \in DOMAIN view : view[j] = d))
      <4>1. \/ d = c /\ c.iid \notin touched
            \/ d \in Rest(view) /\ d.iid # c.iid
        BY <2>2 DEF With
      <4> QED
        BY <4>1, Listed
    <3>2. \E k \in DOMAIN r : r[k] = d
      BY <3>1, <1>1
    <3> QED
      BY <3>1, <3>2, Listed
  <2> QED
    BY <2>1, <2>2
<1> QED
  BY <1>1, <1>2, <1>3 DEF r

LEMMA UpsertedView ==
    ASSUME NEW view \in Seq(Card), ViewTrue(view, touched), mine \subseteq Ops,
           NEW c \in Card, c.op \in Own => c.iid \in touched,
           NEW from, \A j \in DOMAIN view : from # NoIid /\ view[j].iid = from => from \in touched,
           \A j \in DOMAIN view : c.op # NoOp /\ view[j].op = c.op /\ view[j].iid # c.iid
                                      => view[j].iid \in touched
    PROVE  /\ Upsert(view, c, from) \in Seq(Card) /\ ViewTrue(Upsert(view, c, from), touched)
           /\ Rest(Upsert(view, c, from)) = With(Rest(view), c)
<1> DEFINE Olds  == {j \in 1..Len(view) : view[j].iid = from}
           Sames == {j \in 1..Len(view) : view[j].op = c.op /\ view[j].iid # c.iid}
           Heres == {j \in 1..Len(view) : view[j].iid = c.iid}
           old   == IF from = NoIid THEN 0 ELSE IF Olds = {} THEN 0 ELSE Min(Olds)
           same  == IF c.op = NoOp THEN 0 ELSE IF Sames = {} THEN 0 ELSE Min(Sames)
           here  == IF Heres = {} THEN 0 ELSE Min(Heres)
<1>1. Upsert(view, c, from) =
          IF old # 0 THEN PutInPlace(view, old, c)
          ELSE IF same # 0 THEN PutInPlace(view, same, c)
          ELSE IF here = 0 THEN Append(view, c)
          ELSE IF ShouldApply(view[here], c.op) THEN [view EXCEPT ![here] = c]
          ELSE view
  BY DEF Upsert, SelectInSeq
<1>2. DOMAIN view = 1..Len(view) /\ Len(view) \in Nat
  OBVIOUS
<1>3. Olds \subseteq Nat /\ Sames \subseteq Nat /\ Heres \subseteq Nat
  BY <1>2
<1>4. old # 0 => old \in DOMAIN view /\ view[old].iid \in touched
  <2> SUFFICES ASSUME old # 0 PROVE from # NoIid /\ old \in Olds
    BY <1>2
  <2> HIDE DEF Olds
  <2> QED
    BY <1>3, LeastIsFound
<1>5. same # 0 => same \in DOMAIN view /\ view[same].iid \in touched
  <2> SUFFICES ASSUME same # 0 PROVE c.op # NoOp /\ same \in Sames
    BY <1>2
  <2> HIDE DEF Sames
  <2> QED
    BY <1>3, LeastIsFound
<1>6. IF here = 0 THEN \A j \in DOMAIN view : view[j].iid # c.iid
      ELSE here \in DOMAIN view /\ view[here].iid = c.iid
  <2>1. CASE Heres = {}
    BY <2>1, <1>2
  <2>2. CASE Heres # {}
    <3>1. Min(Heres) \in Heres
      <4> HIDE DEF Heres
      <4> QED
        BY <2>2, <1>3, LeastIsFound
    <3> QED
      BY <3>1, <2>2, <1>2
  <2> QED
    BY <2>1, <2>2
<1> HIDE DEF old, same, here
<1>7. CASE old # 0
  BY <1>7, <1>1, <1>4, PlacedView
<1>8. CASE old = 0 /\ same # 0
  BY <1>8, <1>1, <1>5, PlacedView
<1>9. CASE old = 0 /\ same = 0 /\ here = 0
  BY <1>9, <1>1, <1>6, AppendedView
<1>10. CASE old = 0 /\ same = 0 /\ here # 0 /\ ShouldApply(view[here], c.op)
  BY <1>10, <1>1, <1>6, ReplacedView
<1>11. CASE old = 0 /\ same = 0 /\ here # 0 /\ ~ShouldApply(view[here], c.op)
  <2>1. view[here].op \in mine
    BY <1>11 DEF ShouldApply
  <2>2. c.iid \in touched
    BY <2>1, <1>11, <1>6 DEF ViewTrue, Own
  <2>3. Rest(view) = With(Rest(view), c)
    BY <2>2, Listed DEF With
  <2> QED
    BY <2>3, <1>11, <1>1
<1> QED
  BY <1>7, <1>8, <1>9, <1>10, <1>11

LEMMA BoardsTyped ==
    ASSUME TypeOK, NEW n \in 0..Rev
    PROVE  Board(n) \subseteq Card /\ n + 1 \in DOMAIN boards
  BY DEF TypeOK, Rev, Board

\* What commit n leaves of a board and what it adds to it.
LEMMA CommitSplit ==
    ASSUME TypeOK, BoardsTrue, OneWrite, NEW n \in 1..Rev
    PROVE  /\ \A c \in Board(n - 1) : c.iid \notin Deleted(n) =>
                  c \in Board(n) \/ \E w \in Written(n) : w.iid = c.iid
           /\ \A c \in Board(n) :
                  c \in Written(n) \/ (c \in Board(n - 1) /\ c.iid \notin Deleted(n))
           /\ \A w \in Written(n), c \in Board(n) : c.iid = w.iid => c = w
           /\ \A w, x \in Written(n) : w = x
<1>1. BoardTrue(Board(n), touched) /\ BoardTrue(Board(n - 1), touched)
  <2>1. Rev \in Int
    BY DEF TypeOK, Revs
  <2>2. n \in 0..Rev /\ n - 1 \in 0..Rev
    BY <2>1
  <2> QED
    BY <2>2 DEF BoardsTrue
<1>2. Written(n) \subseteq Board(n)
  BY DEF Written
<1>3. \A c \in Board(n - 1) : c.iid \notin Deleted(n) =>
          c \in Board(n) \/ \E w \in Written(n) : w.iid = c.iid
  <2> SUFFICES ASSUME NEW c \in Board(n - 1), c.iid \notin Deleted(n)
               PROVE  c \in Board(n) \/ \E w \in Written(n) : w.iid = c.iid
    OBVIOUS
  <2>1. PICK d \in Board(n) : d.iid = c.iid
    BY DEF Deleted, Iids
  <2>2. CASE d \in Board(n - 1)
    BY <2>1, <2>2, <1>1 DEF BoardTrue
  <2>3. CASE d \notin Board(n - 1)
    BY <2>1, <2>3 DEF Written
  <2> QED
    BY <2>2, <2>3
<1>4. \A c \in Board(n) : c \in Written(n) \/ (c \in Board(n - 1) /\ c.iid \notin Deleted(n))
  BY DEF Written, Deleted, Iids
<1>5. \A w \in Written(n), c \in Board(n) : c.iid = w.iid => c = w
  BY <1>1, <1>2 DEF BoardTrue
<1>6. \A w, x \in Written(n) : w = x
  BY DEF OneWrite, OneWritten
<1> QED
  BY <1>3, <1>4, <1>5, <1>6

LEMMA RekeyIsDeleted == ASSUME NEW n PROVE CompletionRekey(n) \in Deleted(n) \cup {NoIid}
<1> DEFINE gone == {i \in Deleted(n) : i < 0}
<1>1. CASE gone = {}
  <2>1. Cardinality(gone) = 0
    BY <1>1, FS_EmptySet
  <2> QED
    BY <2>1 DEF CompletionRekey
<1>2. CASE gone # {}
  <2>1. (CHOOSE i \in gone : TRUE) \in gone
    BY <1>2
  <2> QED
    BY <2>1 DEF CompletionRekey
<1> QED
  BY <1>1, <1>2

\* A commit takes the cards of others from one board to the next.
LEMMA CommitApplied ==
    ASSUME TypeOK, BoardsTrue, OneWrite, NEW n \in 1..Rev,
           NEW view \in Seq(Card), ViewTrue(view, touched), Rest(view) = Others(n - 1)
    PROVE  /\ ApplyCommit(view, n) \in Seq(Card) /\ ViewTrue(ApplyCommit(view, n), touched)
           /\ Rest(ApplyCommit(view, n)) = Others(n)
<1> DEFINE P    == {j \in DOMAIN view : \/ view[j].iid \notin Deleted(n)
                                        \/ ~ShouldApply(view[j], NoOp)}
           kept == KeepPlaces(view, P)
           w    == CHOOSE c \in Written(n) : TRUE
           from == CompletionRekey(n)
<1>1. ApplyCommit(view, n) = IF Written(n) = {} THEN kept ELSE Upsert(kept, w, from)
  BY DEF ApplyCommit
<1>2. mine \subseteq Ops
  BY DEF TypeOK
<1>3. \A j \in DOMAIN view : view[j].iid \notin touched => view[j].op \notin mine
  BY <1>2 DEF ViewTrue, Own
<1>4. \A j \in DOMAIN view : view[j].iid \notin touched =>
          (j \in P <=> view[j].iid \notin Deleted(n))
  BY <1>3 DEF ShouldApply
<1>5. P \in SUBSET DOMAIN view
  OBVIOUS
<1>6. \A j \in P : view[j].iid \in Deleted(n) => view[j].iid \in touched
  BY <1>4
<1> HIDE DEF P
<1>7. /\ kept \in Seq(Card) /\ ViewTrue(kept, touched)
      /\ Rest(kept) = {c \in Rest(view) : \E j \in P : view[j] = c}
      /\ \A k \in DOMAIN kept : \E j \in P : kept[k] = view[j]
  BY <1>5, KeptView
<1> HIDE DEF kept
<1>8. ASSUME NEW c PROVE c \in Rest(kept) <=> c \in Others(n - 1) /\ c.iid \notin Deleted(n)
  <2>1. ASSUME c \in Rest(kept) PROVE c \in Others(n - 1) /\ c.iid \notin Deleted(n)
    <3>1. PICK j \in P : view[j] = c
      BY <2>1, <1>7
    <3>2. c.iid \notin touched
      BY <2>1, Listed
    <3> QED
      BY <2>1, <3>1, <3>2, <1>6, <1>7
  <2>2. ASSUME c \in Others(n - 1), c.iid \notin Deleted(n) PROVE c \in Rest(kept)
    <3>1. PICK j \in DOMAIN view : view[j] = c
      BY <2>2, Listed
    <3>2. j \in P
      BY <3>1, <2>2, <1>4 DEF Others
    <3> QED
      BY <3>1, <3>2, <2>2, <1>7
  <2> QED
    BY <2>1, <2>2
<1>9. CASE Written(n) = {}
  <2>1. Others(n) = Rest(kept)
    BY <1>9, <1>8, CommitSplit DEF Others
  <2> QED
    BY <2>1, <1>9, <1>1, <1>7
<1>10. CASE Written(n) # {}
  <2>1. w \in Written(n) /\ w \in Board(n)
    BY <1>10 DEF Written
  <2> HIDE DEF w
  <2>2. BoardTrue(Board(n), touched)
    BY DEF BoardsTrue
  <2>3. w \in Card /\ (w.op \in Own => w.iid \in touched)
    BY <2>1, <2>2, BoardsTyped DEF BoardTrue
  <2>4. ASSUME NEW j \in DOMAIN kept, from # NoIid, kept[j].iid = from PROVE from \in touched
    <3>1. PICK i \in P : kept[j] = view[i]
      BY <1>7
    <3> QED
      BY <3>1, <2>4, <1>6, RekeyIsDeleted
  <2>5. ASSUME NEW j \in DOMAIN kept, w.op # NoOp, kept[j].op = w.op, kept[j].iid # w.iid
        PROVE  kept[j].iid \in touched
    <3> SUFFICES ASSUME kept[j].iid \notin touched PROVE FALSE
      OBVIOUS
    <3>1. kept[j] \in Others(n - 1) /\ kept[j].iid \notin Deleted(n)
      BY <1>8, Listed
    <3>2. kept[j] \in Board(n)
      BY <3>1, <2>1, <2>5, CommitSplit DEF Others
    <3>3. w.op \notin Own
      BY <1>7, <2>5 DEF ViewTrue
    <3>4. w.op \in Theirs
      BY <2>3, <2>5, <3>3 DEF Card, AllOps, Own
    <3> QED
      BY <2>1, <2>2, <2>5, <3>2, <3>4 DEF BoardTrue
  <2>6. /\ Upsert(kept, w, from) \in Seq(Card) /\ ViewTrue(Upsert(kept, w, from), touched)
        /\ Rest(Upsert(kept, w, from)) = With(Rest(kept), w)
    <3> HIDE DEF from
    <3> QED
      BY <1>2, <1>7, <2>3, <2>4, <2>5, UpsertedView
  <2>7. ASSUME NEW c PROVE c \in With(Rest(kept), w) <=> c \in Others(n)
    <3>1. ASSUME c \in With(Rest(kept), w) PROVE c \in Others(n)
      <4>1. CASE c = w
        BY <3>1, <4>1, <2>1, Listed DEF With, Others
      <4>2. CASE c # w
        <5>1. c \in Rest(kept) /\ c.iid # w.iid
          BY <3>1, <4>2 DEF With
        <5>2. c \in Board(n - 1) /\ c.iid \notin Deleted(n) /\ c.iid \notin touched
          BY <5>1, <1>8 DEF Others
        <5>3. c \in Board(n)
          BY <5>1, <5>2, <2>1, CommitSplit
        <5> QED
          BY <5>2, <5>3 DEF Others
      <4> QED
        BY <4>1, <4>2
    <3>2. ASSUME c \in Others(n) PROVE c \in With(Rest(kept), w)
      <4>1. c \in Board(n) /\ c.iid \notin touched
        BY <3>2 DEF Others
      <4>2. CASE c = w
        BY <4>1, <4>2 DEF With
      <4>3. CASE c # w
        <5>1. c \in Board(n - 1) /\ c.iid \notin Deleted(n) /\ c.iid # w.iid
          BY <4>1, <4>3, <2>1, CommitSplit
        <5>2. c \in Rest(kept)
          BY <5>1, <4>1, <1>8 DEF Others
        <5> QED
          BY <5>1, <5>2 DEF With
      <4> QED
        BY <4>2, <4>3
    <3> QED
      BY <3>1, <3>2
  <2> QED
    BY <2>6, <2>7, <1>10, <1>1
<1> QED
  BY <1>9, <1>10

\* The list after each commit of a delta.
Folds(f, from, m) ==
    f = [n \in from..m |-> IF n = from THEN cards ELSE ApplyCommit(f[n - 1], n)]

LEMMA FoldsExist ==
    ASSUME NEW from \in Nat, NEW to \in Nat, from <= to
    PROVE  \E f : Folds(f, from, to)
<1> DEFINE Bad == {m \in Nat : from <= m /\ ~\E f : Folds(f, from, m)}
<1> SUFFICES ASSUME Bad # {} PROVE FALSE
  OBVIOUS
<1>1. PICK m \in Bad : \A k \in Bad : m <= k
  BY LeastOfNat
<1>2. m # from
  <2> DEFINE f == [n \in {from} |-> cards]
  <2>1. from..from = {from}
    OBVIOUS
  <2>2. f = [n \in from..from |-> IF n = from THEN cards ELSE ApplyCommit(f[n - 1], n)]
    BY <2>1
  <2>3. Folds(f, from, from)
    BY <2>2 DEF Folds
  <2> QED
    BY <2>3
<1>3. m - 1 \in Nat /\ from <= m - 1
  BY <1>2
<1>4. PICK f : Folds(f, from, m - 1)
  <2>1. ~(m <= m - 1)
    BY <1>3
  <2> QED
    BY <2>1, <1>1, <1>3
<1> DEFINE J(g, n) == IF n = from THEN cards ELSE ApplyCommit(g[n - 1], n)
           G == [n \in from..m |-> J(f, n)]
<1>5. f = [n \in from..(m - 1) |-> J(f, n)]
  BY <1>4 DEF Folds
<1>6. ASSUME NEW n \in from..(m - 1) PROVE G[n] = f[n]
  <2> HIDE DEF J
  <2>1. n \in from..m
    OBVIOUS
  <2> QED
    BY <1>5, <2>1
<1>7. \A n \in from..m : J(G, n) = J(f, n)
  <2> TAKE n \in from..m
  <2>1. CASE n = from
    BY <2>1
  <2>2. CASE n # from
    <3>1. n - 1 \in from..(m - 1)
      BY <2>2
    <3>2. G[n - 1] = f[n - 1]
      BY <3>1, <1>6
    <3> HIDE DEF G
    <3> QED
      BY <3>2
  <2> QED
    BY <2>1, <2>2
<1>8. Folds(G, from, m)
  BY <1>7 DEF Folds
<1> QED
  BY <1>1, <1>8

\* A delta that begins at or before the checkpoint of the cache takes the
\* cards of others to the board of its last commit.
LEMMA DeltaApplied ==
    ASSUME TypeOK, BoardsTrue, OneWrite, ViewTrue(cards, touched), BoardAtCheckpoint,
           NEW lo \in Nat, lo <= revision, NEW to \in Nat, revision <= Rev, to <= Rev,
           ApplySyncActions(lo, to, FALSE)
    PROVE  /\ cards' \in Seq(Card) /\ ViewTrue(cards', touched) /\ Rest(cards') = Others(revision')
           /\ revision' \in Nat /\ revision <= revision' /\ revision' <= Rev /\ to <= revision'
<1>1. revision \in Nat /\ cards \in Seq(Card) /\ Rev \in Nat
  BY DEF TypeOK, Revs
<1>2. Rest(cards) = Others(revision)
  BY DEF BoardAtCheckpoint, OthersCards, Rest, Others
<1>3. CASE to <= revision
  BY <1>1, <1>2, <1>3 DEF ApplySyncActions, cache
<1>4. CASE ~(to <= revision)
  <2> DEFINE start == IF lo < revision THEN revision ELSE lo
             After(from) == CHOOSE f : f = [n \in from..to |->
                                IF n = from THEN cards ELSE ApplyCommit(f[n - 1], n)]
             after == After(revision)
  <2>1. cards' = after[to] /\ revision' = to
    <3>1. cards' = After(start)[to] /\ revision' = to
      BY <1>4 DEF ApplySyncActions
    <3>2. start = revision
      BY <1>1
    <3> HIDE DEF After, start
    <3> QED
      BY <3>1, <3>2
  <2>2. Folds(after, revision, to)
    <3>1. \E f : Folds(f, revision, to)
      BY <1>1, <1>4, FoldsExist
    <3> QED
      BY <3>1 DEF Folds
  <2> HIDE DEF after
  <2>3. after = [n \in revision..to |-> IF n = revision THEN cards ELSE ApplyCommit(after[n - 1], n)]
    BY <2>2 DEF Folds
  <2> DEFINE Good(v, n) == v \in Seq(Card) /\ ViewTrue(v, touched) /\ Rest(v) = Others(n)
             Bad == {n \in revision..to : ~Good(after[n], n)}
  <2>4. Bad = {}
    <3> SUFFICES ASSUME Bad # {} PROVE FALSE
      OBVIOUS
    <3>1. Bad \subseteq Nat
      BY <1>1
    <3>2. PICK n \in Bad : \A m \in Bad : n <= m
      <4> HIDE DEF Bad
      <4> QED
        BY <3>1, LeastOfNat
    <3>3. n \in revision..to /\ ~Good(after[n], n)
      OBVIOUS
    <3>4. n # revision
      <4>1. ASSUME n = revision PROVE after[n] = cards
        BY <4>1, <3>3, <2>3
      <4> QED
        BY <4>1, <3>3, <1>1, <1>2
    <3>5. n - 1 \in revision..to /\ ~(n <= n - 1) /\ n \in 1..Rev
      BY <3>3, <3>4, <1>1
    <3>6. Good(after[n - 1], n - 1)
      <4> HIDE DEF Good
      <4> QED
        BY <3>2, <3>5
    <3>7. after[n] = ApplyCommit(after[n - 1], n)
      BY <2>3, <3>3, <3>4
    <3>8. Good(ApplyCommit(after[n - 1], n), n)
      BY <3>5, <3>6, CommitApplied
    <3> QED
      BY <3>3, <3>7, <3>8
  <2>5. to \in revision..to
    BY <1>1, <1>4
  <2>6. Good(after[to], to)
    <3> HIDE DEF Good
    <3> QED
      BY <2>4, <2>5
  <2> QED
    BY <1>1, <1>4, <2>1, <2>6
<1> QED
  BY <1>3, <1>4

-----------------------------------------------------------------------------
(* What the steps of the server and of the requests keep *)

LEMMA ActedGrows ==
    ASSUME NEW acted, NEW more, acted \subseteq more
    PROVE  /\ \A b : BoardTrue(b, acted) => BoardTrue(b, more)
           /\ \A view : ViewTrue(view, acted) => ViewTrue(view, more)
  BY DEF BoardTrue, ViewTrue

LEMMA PutTrue ==
    ASSUME NEW acted, NEW b, BoardTrue(b, acted), NEW c,
           c.op \in Own => c.iid \in acted, c.op \in Theirs => c.val = c.op,
           \A d \in b : d.op = c.op /\ c.op \in Theirs => d.iid = c.iid
    PROVE  BoardTrue(Put(b, c), acted)
  BY DEF BoardTrue, Put

LEMMA FewerTrue ==
    ASSUME NEW acted, NEW b, BoardTrue(b, acted), NEW d
    PROVE  BoardTrue(b \ {d}, acted)
  BY DEF BoardTrue

\* A commit that writes at most one card and leaves a true board.
LEMMA Recorded ==
    ASSUME TypeOK, BoardsTrue, OneWrite, touched \subseteq touched',
           NEW b, Commit(b), b \subseteq Card, BoardTrue(b, touched'),
           \A c, d \in b \ Now : c = d
    PROVE  /\ boards' \in Seq(SUBSET Card) /\ Rev' = Rev + 1 /\ Rev' \in Revs /\ Rev \in Nat
           /\ \A n \in 0..Rev : boards'[n + 1] = boards[n + 1]
           /\ BoardsTrue' /\ OneWrite'
<1>1. boards \in Seq(SUBSET Card) /\ Len(boards) \in Nat /\ Rev \in Nat /\ MaxRev \in Nat
  BY ConstantsAssumption DEF TypeOK, ConstantsAssumption, Revs
<1>2. boards' = Append(boards, b) /\ Rev < MaxRev
  BY DEF Commit
<1>3. boards' \in Seq(SUBSET Card) /\ Len(boards') = Len(boards) + 1
  BY <1>1, <1>2
<1>4. \A i \in 1..Len(boards) : boards'[i] = boards[i]
  BY <1>1, <1>2
<1>5. boards'[Len(boards) + 1] = b
  BY <1>1, <1>2
<1>6. Rev' = Rev + 1 /\ Rev' \in Revs
  BY <1>1, <1>2, <1>3 DEF Rev, Revs
<1>7. \A n \in 0..Rev : boards'[n + 1] = boards[n + 1]
  BY <1>1, <1>4 DEF Rev
<1>8. boards'[Rev + 2] = b
  BY <1>1, <1>5 DEF Rev
<1>9. BoardsTrue'
  <2> SUFFICES ASSUME NEW n \in 0..(Rev + 1) PROVE BoardTrue(boards'[n + 1], touched')
    BY <1>6 DEF BoardsTrue, Board
  <2>1. CASE n = Rev + 1
    BY <2>1, <1>8, <1>1
  <2>2. CASE n # Rev + 1
    <3>1. n \in 0..Rev
      BY <2>2, <1>1
    <3>2. BoardTrue(boards[n + 1], touched)
      BY <3>1 DEF BoardsTrue, Board
    <3> QED
      BY <3>1, <3>2, <1>7, ActedGrows
  <2> QED
    BY <2>1, <2>2
<1>10. OneWrite'
  <2> SUFFICES ASSUME NEW n \in 1..(Rev + 1),
                      NEW c \in boards'[n + 1] \ boards'[n], NEW d \in boards'[n + 1] \ boards'[n]
               PROVE  c = d
    <3>1. \A n \in 1..(Rev + 1) : (n - 1) + 1 = n
      BY <1>1
    <3> QED
      BY <1>6, <3>1 DEF OneWrite, OneWritten, Written, Board
  <2>1. CASE n = Rev + 1
    <3>1. boards'[n] = Now
      BY <2>1, <1>1, <1>7 DEF Now, Board
    <3> QED
      BY <2>1, <3>1, <1>8, <1>1
  <2>2. CASE n # Rev + 1
    <3>1. n \in 1..Rev /\ n \in 0..Rev /\ n - 1 \in 0..Rev /\ (n - 1) + 1 = n
      BY <2>2, <1>1
    <3>2. boards'[n + 1] = boards[n + 1] /\ boards'[n] = boards[n]
      BY <3>1, <1>7
    <3>3. OneWritten(n)
      BY <3>1 DEF OneWrite
    <3> QED
      BY <3>1, <3>2, <3>3 DEF OneWritten, Written, Board
  <2> QED
    BY <2>1, <2>2
<1> QED
  BY <1>1, <1>3, <1>6, <1>7, <1>9, <1>10

LEMMA NothingRecorded ==
    ASSUME TypeOK, BoardsTrue, OneWrite, touched \subseteq touched', UNCHANGED boards
    PROVE  /\ boards' \in Seq(SUBSET Card) /\ Rev' = Rev /\ Rev' \in Revs /\ Rev \in Nat
           /\ \A n \in 0..Rev : boards'[n + 1] = boards[n + 1]
           /\ BoardsTrue' /\ OneWrite'
<1>1. Rev' = Rev /\ Rev' \in Revs /\ Rev \in Nat /\ boards' \in Seq(SUBSET Card)
  BY DEF TypeOK, Rev, Revs
<1>2. BoardsTrue'
  BY <1>1, ActedGrows DEF BoardsTrue, Board
<1>3. OneWrite'
  BY <1>1 DEF OneWrite, OneWritten, Written, Board
<1> QED
  BY <1>1, <1>2, <1>3

\* The cache stays and the boards it shows stay.
LEMMA CacheStays ==
    ASSUME TypeOK, ReadsCommitted, ViewTrue(cards, touched), BoardAtCheckpoint,
           touched \subseteq touched', \A n \in 0..Rev : boards'[n + 1] = boards[n + 1],
           UNCHANGED cache
    PROVE  ViewTrue(cards', touched') /\ BoardAtCheckpoint'
<1>1. revision \in 0..Rev /\ UNCHANGED <<cards, revision>>
  BY DEF TypeOK, ReadsCommitted, Revs, Rev, cache
<1>2. ViewTrue(cards', touched')
  BY <1>1, ActedGrows
<1>3. BoardAtCheckpoint'
  BY <1>1 DEF BoardAtCheckpoint, OthersCards, Board
<1> QED
  BY <1>2, <1>3

\* Only cards of this tab change, and they stay this tab's.
LEMMA CacheEdited ==
    ASSUME TypeOK, ReadsCommitted, ViewTrue(cards, touched), BoardAtCheckpoint,
           touched \subseteq touched', \A n \in 0..Rev : boards'[n + 1] = boards[n + 1],
           revision' = revision, cards' \in Seq(Card), DOMAIN cards' = DOMAIN cards,
           \A j \in DOMAIN cards : \/ cards'[j] = cards[j]
                                   \/ cards[j].iid \in touched' /\ cards'[j].iid \in touched'
    PROVE  ViewTrue(cards', touched') /\ BoardAtCheckpoint'
<1>1. revision \in 0..Rev /\ boards'[revision + 1] = boards[revision + 1]
  BY DEF TypeOK, ReadsCommitted, Revs, Rev
<1>2. ViewTrue(cards, touched')
  BY ActedGrows
<1>3. ViewTrue(cards', touched')
  BY <1>2 DEF ViewTrue
<1>4. ASSUME NEW c, c.iid \notin touched'
      PROVE  c \in ToSet(cards') <=> c \in ToSet(cards)
  <2>1. \A j \in DOMAIN cards : cards'[j] = c <=> cards[j] = c
    BY <1>4
  <2> QED
    BY <2>1 DEF ToSet
<1>5. OthersCards' = {c \in ToSet(cards) : c.iid \notin touched'}
  BY <1>4 DEF OthersCards
<1>6. BoardAtCheckpoint'
  BY <1>1, <1>5 DEF BoardAtCheckpoint, OthersCards, Board
<1> QED
  BY <1>3, <1>6

\* What a step that commits nothing and leaves the cache keeps by itself.
LEMMA QuietStep ==
    ASSUME ClientInv, touched \subseteq touched', UNCHANGED <<boards, cache>>
    PROVE  /\ boards' \in Seq(SUBSET Card) /\ Rev' = Rev /\ Rev' \in Revs /\ Rev \in Nat
           /\ BoardsTrue' /\ OneWrite' /\ ViewTrue(cards', touched') /\ BoardAtCheckpoint'
<1>1. TypeOK /\ BoardsTrue /\ OneWrite /\ ReadsCommitted
      /\ ViewTrue(cards, touched) /\ BoardAtCheckpoint /\ UNCHANGED boards /\ UNCHANGED cache
  BY DEF ClientInv
<1>2. /\ boards' \in Seq(SUBSET Card) /\ Rev' = Rev /\ Rev' \in Revs /\ Rev \in Nat
      /\ \A n \in 0..Rev : boards'[n + 1] = boards[n + 1]
      /\ BoardsTrue' /\ OneWrite'
  BY <1>1, NothingRecorded
<1>3. ViewTrue(cards', touched') /\ BoardAtCheckpoint'
  BY <1>1, <1>2, CacheStays
<1> QED
  BY <1>2, <1>3

LEMMA OpIsOwn == ASSUME NEW o \in Ops PROVE o \in AllOps /\ o \in Own /\ o \notin Theirs
  BY ConstantsAssumption DEF ConstantsAssumption, AllOps, Own

LEMMA ReadsStay ==
    ASSUME ClientInv, Rev' >= Rev, Rev \in Nat, Rev' \in Nat,
           UNCHANGED <<revision, stream, catchUp>>
    PROVE  ReadsCommitted'
<1>1. /\ revision \in Int /\ stream.pos \in Int /\ catchUp.since \in Int /\ catchUp.to \in Int
      /\ revision <= Rev /\ stream.pos <= Rev /\ catchUp.since <= revision /\ catchUp.to <= Rev
  BY DEF ClientInv, TypeOK, ReadsCommitted, CatchUp, Revs
<1>2. revision' <= Rev' /\ stream'.pos <= Rev' /\ catchUp'.since <= revision' /\ catchUp'.to <= Rev'
  BY <1>1
<1> QED
  BY <1>2 DEF ReadsCommitted

LEMMA CardListed ==
    ASSUME ClientInv, NEW c \in ToSet(cards)
    PROVE  c \in Card /\ c.iid \in Int /\ \E j \in DOMAIN cards : cards[j] = c
<1>1. cards \in Seq(Card)
  BY DEF ClientInv, TypeOK
<1>2. \E j \in DOMAIN cards : cards[j] = c
  BY DEF ToSet
<1>3. c \in Card
  BY <1>1, <1>2
<1> QED
  BY <1>2, <1>3 DEF Card

LEMMA CardCommitted ==
    ASSUME ClientInv
    PROVE  /\ Now \subseteq Card /\ Rev \in Nat /\ \A c \in Card : c.iid \in Int
           /\ BoardTrue(Now, touched) /\ \A d \in Now : Now \ {d} \subseteq Card
<1>1. Rev \in Nat
  BY DEF ClientInv, TypeOK, Revs
<1>2. Now \subseteq Card
  BY <1>1, BoardsTyped DEF ClientInv, Now
<1>3. BoardTrue(Now, touched)
  BY <1>1 DEF ClientInv, BoardsTrue, Now
<1> QED
  BY <1>1, <1>2, <1>3 DEF Card

LEMMA RequestLostKeeps == ASSUME ClientInv, NEW o \in Ops, RequestLost(o) PROVE ClientInv'
<1>1. /\ UNCHANGED <<server, touched, cache, mine, nextTemp, retrying, deleting, feed, reads, drag>>
      /\ post[o].pc \in {"sent", "answered"}
      /\ post' = [post EXCEPT ![o].pc = "failing"]
      /\ left' = [left EXCEPT !.errors = @ - 1] /\ left.errors > 0
  BY DEF RequestLost, Spend
<1>2. /\ boards' \in Seq(SUBSET Card) /\ Rev' >= Rev /\ Rev' \in Revs /\ Rev \in Nat
      /\ BoardsTrue' /\ OneWrite' /\ ViewTrue(cards', touched') /\ BoardAtCheckpoint'
  BY <1>1, QuietStep DEF server, client
<1>3. TypeOK'
  <2>1. post' \in [Ops -> Post]
    BY <1>1 DEF ClientInv, TypeOK, Post
  <2> QED
    BY <1>1, <1>2, <2>1 DEF ClientInv, TypeOK, server, cache, client, feed, reads, drag
<1>4. NoBootstrap'
  BY <1>1 DEF ClientInv, NoBootstrap, client, feed, reads
<1>5. ReadsCommitted'
  BY <1>1, <1>2, ReadsStay DEF Revs, client, cache, feed, reads
<1>6. ActedOn'
  BY <1>1 DEF ClientInv, ActedOn, TypeOK, Post, server
<1> QED
  BY <1>2, <1>3, <1>4, <1>5, <1>6 DEF ClientInv

LEMMA AcceptAgainKeeps == ASSUME ClientInv, NEW o \in Ops, AcceptAgain(o) PROVE ClientInv'
<1>1. /\ UNCHANGED <<server, touched, client, retrying, deleting, left>>
      /\ post[o].pc = "sent" /\ home[o] # NoIid
      /\ \/ /\ home[o] \in Iids(Now)
            /\ post' = [post EXCEPT ![o].pc = "answered", ![o].card = Row(Now, home[o])]
         \/ post' = [post EXCEPT ![o].pc = "failing"]
  BY DEF AcceptAgain
<1>2. /\ boards' \in Seq(SUBSET Card) /\ Rev' >= Rev /\ Rev' \in Revs /\ Rev \in Nat
      /\ BoardsTrue' /\ OneWrite' /\ ViewTrue(cards', touched') /\ BoardAtCheckpoint'
  BY <1>1, QuietStep DEF server, client
<1>3. TypeOK'
  <2>1. home[o] \in Iids(Now) => Row(Now, home[o]) \in Now /\ Row(Now, home[o]).iid = home[o]
    BY DEF Iids, Row
  <2>2. post' \in [Ops -> Post]
    <3>1. post \in [Ops -> Post]
      BY DEF ClientInv, TypeOK
    <3>2. home[o] \in Iids(Now) => Row(Now, home[o]) \in Card
      BY <2>1, CardCommitted
    <3> QED
      BY <1>1, <3>1, <3>2 DEF Post
  <2> QED
    BY <1>1, <1>2, <2>1, <2>2 DEF ClientInv, TypeOK, server, cache, client, feed, reads, drag
<1>4. NoBootstrap'
  BY <1>1 DEF ClientInv, NoBootstrap, client, feed, reads
<1>5. ReadsCommitted'
  BY <1>1, <1>2, ReadsStay DEF Revs, client, cache, feed, reads
<1>6. ActedOn'
  <2>1. home[o] \in Iids(Now) => Row(Now, home[o]).iid = home[o]
    BY DEF Iids, Row
  <2>2. home[o] \in touched
    BY <1>1 DEF ClientInv, ActedOn
  <2>3. post \in [Ops -> Post]
    BY DEF ClientInv, TypeOK
  <2>4. \A p \in Ops : /\ post'[p].pc # "idle" => post'[p].iid \in touched
                       /\ post'[p].pc = "answered" => post'[p].card.iid \in touched
    <3> TAKE p \in Ops
    <3>1. CASE p # o
      BY <3>1, <1>1, <2>3 DEF ClientInv, ActedOn
    <3>2. CASE p = o
      BY <3>2, <1>1, <2>1, <2>2, <2>3 DEF ClientInv, ActedOn, Post
    <3> QED
      BY <3>1, <3>2
  <2> QED
    BY <1>1, <2>4 DEF ClientInv, ActedOn, server
<1> QED
  BY <1>2, <1>3, <1>4, <1>5, <1>6 DEF ClientInv

LEMMA RefuseKeeps == ASSUME ClientInv, NEW o \in Ops, Refuse(o) PROVE ClientInv'
<1>1. /\ UNCHANGED <<server, touched, client, retrying, deleting, left>>
      /\ post[o].pc = "sent"
      /\ post' = [post EXCEPT ![o].pc = "failing"]
  BY DEF Refuse
<1>2. /\ boards' \in Seq(SUBSET Card) /\ Rev' >= Rev /\ Rev' \in Revs /\ Rev \in Nat
      /\ BoardsTrue' /\ OneWrite' /\ ViewTrue(cards', touched') /\ BoardAtCheckpoint'
  BY <1>1, QuietStep DEF server, client
<1>3. TypeOK'
  <2>1. post' \in [Ops -> Post]
    BY <1>1 DEF ClientInv, TypeOK, Post
  <2> QED
    BY <1>1, <1>2, <2>1 DEF ClientInv, TypeOK, server, cache, client, feed, reads, drag
<1>4. NoBootstrap'
  BY <1>1 DEF ClientInv, NoBootstrap, client, feed, reads
<1>5. ReadsCommitted'
  BY <1>1, <1>2, ReadsStay DEF Revs, client, cache, feed, reads
<1>6. ActedOn'
  BY <1>1 DEF ClientInv, ActedOn, TypeOK, Post, server
<1> QED
  BY <1>2, <1>3, <1>4, <1>5, <1>6 DEF ClientInv

LEMMA RetryAnsweredKeeps == ASSUME ClientInv, NEW r \in retrying, RetryAnswered(r) PROVE ClientInv'
<1>1. /\ UNCHANGED <<server, touched, cache, mine, post, nextTemp, deleting, feed, reads, drag, left>>
      /\ retrying' = retrying \ {r}
  BY DEF RetryAnswered
<1>2. /\ boards' \in Seq(SUBSET Card) /\ Rev' >= Rev /\ Rev' \in Revs /\ Rev \in Nat
      /\ BoardsTrue' /\ OneWrite' /\ ViewTrue(cards', touched') /\ BoardAtCheckpoint'
  BY <1>1, QuietStep DEF server, client
<1>3. TypeOK'
  <2> QED
    BY <1>1, <1>2 DEF ClientInv, TypeOK, server, cache, client, feed, reads, drag
<1>4. NoBootstrap'
  BY <1>1 DEF ClientInv, NoBootstrap, client, feed, reads
<1>5. ReadsCommitted'
  BY <1>1, <1>2, ReadsStay DEF Revs, client, cache, feed, reads
<1>6. ActedOn'
  BY <1>1 DEF ClientInv, ActedOn, TypeOK, Post, server
<1> QED
  BY <1>2, <1>3, <1>4, <1>5, <1>6 DEF ClientInv

LEMMA RefuseDeleteKeeps == ASSUME ClientInv, NEW d \in deleting, RefuseDelete(d) PROVE ClientInv'
<1>1. /\ UNCHANGED <<server, touched, client, post, retrying, left>>
      /\ deleting' = deleting \ {d}
  BY DEF RefuseDelete
<1>2. /\ boards' \in Seq(SUBSET Card) /\ Rev' >= Rev /\ Rev' \in Revs /\ Rev \in Nat
      /\ BoardsTrue' /\ OneWrite' /\ ViewTrue(cards', touched') /\ BoardAtCheckpoint'
  BY <1>1, QuietStep DEF server, client
<1>3. TypeOK'
  <2> QED
    BY <1>1, <1>2 DEF ClientInv, TypeOK, server, cache, client, feed, reads, drag
<1>4. NoBootstrap'
  BY <1>1 DEF ClientInv, NoBootstrap, client, feed, reads
<1>5. ReadsCommitted'
  BY <1>1, <1>2, ReadsStay DEF Revs, client, cache, feed, reads
<1>6. ActedOn'
  BY <1>1 DEF ClientInv, ActedOn, TypeOK, Post, server
<1> QED
  BY <1>2, <1>3, <1>4, <1>5, <1>6 DEF ClientInv

LEMMA DeleteKeeps == ASSUME ClientInv, NEW c \in ToSet(cards), Delete(c) PROVE ClientInv'
<1>1. /\ UNCHANGED <<server, cache, mine, post, nextTemp, retrying, feed, reads, drag>>
      /\ deleting' = deleting \cup {[iid |-> c.iid, done |-> FALSE]}
      /\ touched' = touched \cup {c.iid} /\ c \in Card
      /\ left' = [left EXCEPT !.deletes = @ - 1] /\ left.deletes > 0
  BY CardListed DEF Delete, Spend
<1>2. /\ boards' \in Seq(SUBSET Card) /\ Rev' >= Rev /\ Rev' \in Revs /\ Rev \in Nat
      /\ BoardsTrue' /\ OneWrite' /\ ViewTrue(cards', touched') /\ BoardAtCheckpoint'
  BY <1>1, QuietStep DEF server, client
<1>3. TypeOK'
  <2>1. deleting' \subseteq [iid : Int, done : BOOLEAN] /\ touched' \subseteq Int
    <3>1. c.iid \in Int
      BY CardListed
    <3>2. deleting \subseteq [iid : Int, done : BOOLEAN] /\ touched \subseteq Int
      BY DEF ClientInv, TypeOK
    <3>3. [iid |-> c.iid, done |-> FALSE] \in [iid : Int, done : BOOLEAN]
      BY <3>1
    <3> QED
      BY <1>1, <3>1, <3>2, <3>3
  <2> QED
    BY <1>1, <1>2, <2>1 DEF ClientInv, TypeOK, server, cache, client, feed, reads, drag
<1>4. NoBootstrap'
  BY <1>1 DEF ClientInv, NoBootstrap, client, feed, reads
<1>5. ReadsCommitted'
  BY <1>1, <1>2, ReadsStay DEF Revs, client, cache, feed, reads
<1>6. ActedOn'
  BY <1>1 DEF ClientInv, ActedOn, TypeOK, Post, server
<1> QED
  BY <1>2, <1>3, <1>4, <1>5, <1>6 DEF ClientInv

LEMMA DeletionDoneKeeps == ASSUME ClientInv, NEW c \in hidden, DeletionDone(c) PROVE ClientInv'
<1>1. /\ UNCHANGED <<boards, home, given, touched, client, post, retrying, deleting, left>>
      /\ hidden' = hidden \ {c}
  BY DEF DeletionDone
<1>2. /\ boards' \in Seq(SUBSET Card) /\ Rev' >= Rev /\ Rev' \in Revs /\ Rev \in Nat
      /\ BoardsTrue' /\ OneWrite' /\ ViewTrue(cards', touched') /\ BoardAtCheckpoint'
  BY <1>1, QuietStep DEF server, client
<1>3. TypeOK'
  <2> QED
    BY <1>1, <1>2 DEF ClientInv, TypeOK, server, cache, client, feed, reads, drag
<1>4. NoBootstrap'
  BY <1>1 DEF ClientInv, NoBootstrap, client, feed, reads
<1>5. ReadsCommitted'
  BY <1>1, <1>2, ReadsStay DEF Revs, client, cache, feed, reads
<1>6. ActedOn'
  BY <1>1 DEF ClientInv, ActedOn, TypeOK
<1> QED
  BY <1>2, <1>3, <1>4, <1>5, <1>6 DEF ClientInv

LEMMA EditedStep ==
    ASSUME ClientInv, touched \subseteq touched', UNCHANGED <<boards, revision>>,
           NEW iid \in touched', NEW P \in SUBSET PlacesOf(iid), NEW new,
           \A j \in P : new[j] \in Card /\ new[j].iid \in touched',
           cards' = [j \in DOMAIN cards |-> IF j \in P THEN new[j] ELSE cards[j]]
    PROVE  /\ boards' \in Seq(SUBSET Card) /\ Rev' >= Rev /\ Rev' \in Revs /\ Rev \in Nat
           /\ BoardsTrue' /\ OneWrite' /\ ViewTrue(cards', touched') /\ BoardAtCheckpoint'
           /\ cards' \in Seq(Card)
<1>1. TypeOK /\ BoardsTrue /\ OneWrite /\ ReadsCommitted
      /\ ViewTrue(cards, touched) /\ BoardAtCheckpoint
      /\ UNCHANGED boards /\ UNCHANGED revision /\ cards \in Seq(Card)
  BY DEF ClientInv, TypeOK
<1>2. /\ boards' \in Seq(SUBSET Card) /\ Rev' = Rev /\ Rev' \in Revs /\ Rev \in Nat
      /\ \A n \in 0..Rev : boards'[n + 1] = boards[n + 1]
      /\ BoardsTrue' /\ OneWrite'
  BY <1>1, NothingRecorded
<1>3. DOMAIN cards' = DOMAIN cards /\ DOMAIN cards = 1..Len(cards) /\ Len(cards) \in Nat
  BY <1>1
<1>4. \A j \in DOMAIN cards : cards'[j] = (IF j \in P THEN new[j] ELSE cards[j])
  OBVIOUS
<1>5. cards' \in Seq(Card)
  <2>1. \A j \in 1..Len(cards) : cards'[j] \in Card
    BY <1>1, <1>3, <1>4
  <2>2. cards' = [j \in 1..Len(cards) |-> IF j \in P THEN new[j] ELSE cards[j]]
    BY <1>3
  <2> QED
    BY <1>3, <2>1, <2>2, SeqDef
<1>6. \A j \in P : cards[j].iid = iid
  BY DEF PlacesOf
<1>7. \A j \in DOMAIN cards : \/ cards'[j] = cards[j]
                              \/ cards[j].iid \in touched' /\ cards'[j].iid \in touched'
  BY <1>4, <1>6
<1>8. ViewTrue(cards', touched') /\ BoardAtCheckpoint'
  BY <1>1, <1>2, <1>3, <1>5, <1>7, CacheEdited
<1> QED
  BY <1>2, <1>5, <1>8

LEMMA ReplacedStep ==
    ASSUME ClientInv, touched \subseteq touched', UNCHANGED <<boards, revision>>,
           NEW iid \in touched', NEW P \in SUBSET PlacesOf(iid),
           NEW c \in Card, c.iid \in touched', ReplaceCards(P, c)
    PROVE  /\ boards' \in Seq(SUBSET Card) /\ Rev' >= Rev /\ Rev' \in Revs /\ Rev \in Nat
           /\ BoardsTrue' /\ OneWrite' /\ ViewTrue(cards', touched') /\ BoardAtCheckpoint'
           /\ cards' \in Seq(Card)
<1> DEFINE new == [j \in P |-> c]
<1>1. \A j \in P : new[j] = c
  OBVIOUS
<1>2. cards' = [j \in DOMAIN cards |-> IF j \in P THEN new[j] ELSE cards[j]]
  BY DEF ReplaceCards
<1> HIDE DEF new
<1>3. \A j \in P : new[j] \in Card /\ new[j].iid \in touched'
  BY <1>1
<1> QED
  BY <1>2, <1>3, EditedStep

LEMMA PatchedCard ==
    ASSUME NEW c \in Card, NEW state \in {"synced", "pending", "failed"}
    PROVE  [c EXCEPT !.state = state] \in Card /\ [c EXCEPT !.state = state].iid = c.iid
  BY DEF Card

LEMMA PatchedStep ==
    ASSUME ClientInv, touched \subseteq touched', UNCHANGED <<boards, revision>>,
           NEW iid \in touched', NEW P \in SUBSET PlacesOf(iid),
           NEW state \in {"synced", "pending", "failed"}, PatchCards(P, state)
    PROVE  /\ boards' \in Seq(SUBSET Card) /\ Rev' >= Rev /\ Rev' \in Revs /\ Rev \in Nat
           /\ BoardsTrue' /\ OneWrite' /\ ViewTrue(cards', touched') /\ BoardAtCheckpoint'
           /\ cards' \in Seq(Card)
<1> DEFINE new == [j \in P |-> [cards[j] EXCEPT !.state = state]]
<1>1. \A j \in P : new[j] = [cards[j] EXCEPT !.state = state]
  OBVIOUS
<1>2. cards' = [j \in DOMAIN cards |-> IF j \in P THEN new[j] ELSE cards[j]]
  BY DEF PatchCards
<1> HIDE DEF new
<1>3. \A j \in P : cards[j] \in Card /\ cards[j].iid = iid
  BY DEF ClientInv, TypeOK, PlacesOf
<1>4. \A j \in P : new[j] \in Card /\ new[j].iid \in touched'
  <2> TAKE j \in P
  <2>1. cards[j] \in Card /\ cards[j].iid = iid
    BY <1>3
  <2>2. [cards[j] EXCEPT !.state = state] \in Card
        /\ [cards[j] EXCEPT !.state = state].iid = cards[j].iid
    BY <2>1, PatchedCard
  <2> QED
    BY <2>1, <2>2, <1>1
<1> QED
  BY <1>2, <1>4, EditedStep

LEMMA PostSucceedsKeeps == ASSUME ClientInv, NEW o \in Ops, PostSucceeds(o) PROVE ClientInv'
<1>1. /\ UNCHANGED <<server, touched, revision, nextTemp, retrying, deleting, feed, reads, drag, left>>
      /\ post[o].pc = "answered" /\ mine' = mine \ {o}
      /\ ReplaceCards({j \in PlacesOf(post[o].iid) : Completes(cards[j], o)}, post[o].card)
      /\ post' = [post EXCEPT ![o].pc = "done"]
      /\ post[o].card \in Card /\ post[o].card.iid \in touched /\ post[o].iid \in touched
  BY DEF PostSucceeds, ClientInv, TypeOK, Post, ActedOn
<1>2. /\ boards' \in Seq(SUBSET Card) /\ Rev' >= Rev /\ Rev' \in Revs /\ Rev \in Nat
      /\ BoardsTrue' /\ OneWrite' /\ ViewTrue(cards', touched') /\ BoardAtCheckpoint'
      /\ cards' \in Seq(Card)
  BY <1>1, ReplacedStep DEF server
<1>3. TypeOK'
  <2>1. post' \in [Ops -> Post]
    BY <1>1 DEF ClientInv, TypeOK, Post
  <2> QED
    BY <1>1, <1>2, <2>1 DEF ClientInv, TypeOK, server, cache, client, feed, reads, drag
<1>4. NoBootstrap'
  BY <1>1 DEF ClientInv, NoBootstrap, client, feed, reads
<1>5. ReadsCommitted'
  BY <1>1, <1>2, ReadsStay DEF Revs, client, cache, feed, reads
<1>6. ActedOn'
  BY <1>1 DEF ClientInv, ActedOn, TypeOK, Post, server
<1> QED
  BY <1>2, <1>3, <1>4, <1>5, <1>6 DEF ClientInv

LEMMA PostFailsKeeps == ASSUME ClientInv, NEW o \in Ops, PostFails(o) PROVE ClientInv'
<1>1. /\ UNCHANGED <<server, touched, revision, nextTemp, retrying, deleting, feed, reads, drag, left>>
      /\ post[o].pc = "failing" /\ mine' = mine \cup {o}
      /\ PatchCards({j \in PlacesOf(post[o].iid) : cards[j].op = o}, "failed")
      /\ post' = [post EXCEPT ![o].pc = "failed"]
      /\ post[o].iid \in touched
  BY DEF PostFails, ClientInv, ActedOn
<1>2. /\ boards' \in Seq(SUBSET Card) /\ Rev' >= Rev /\ Rev' \in Revs /\ Rev \in Nat
      /\ BoardsTrue' /\ OneWrite' /\ ViewTrue(cards', touched') /\ BoardAtCheckpoint'
      /\ cards' \in Seq(Card)
  BY <1>1, PatchedStep DEF server
<1>3. TypeOK'
  <2>1. post' \in [Ops -> Post]
    BY <1>1 DEF ClientInv, TypeOK, Post
  <2> QED
    BY <1>1, <1>2, <2>1 DEF ClientInv, TypeOK, server, cache, client, feed, reads, drag
<1>4. NoBootstrap'
  BY <1>1 DEF ClientInv, NoBootstrap, client, feed, reads
<1>5. ReadsCommitted'
  BY <1>1, <1>2, ReadsStay DEF Revs, client, cache, feed, reads
<1>6. ActedOn'
  BY <1>1 DEF ClientInv, ActedOn, TypeOK, Post, server
<1> QED
  BY <1>2, <1>3, <1>4, <1>5, <1>6 DEF ClientInv

LEMMA EditKeeps == ASSUME ClientInv, NEW o \in Ops, NEW c \in ToSet(cards), Edit(o, c) PROVE ClientInv'
<1>1. /\ UNCHANGED <<server, revision, nextTemp, retrying, deleting, feed, reads, drag, left>>
      /\ ReplaceCards(PlacesOf(c.iid), CardOf(c.iid, o, "pending", o))
      /\ mine' = mine \cup {o} /\ touched' = touched \cup {c.iid}
      /\ post' = [post EXCEPT ![o] = [pc |-> "sent", iid |-> c.iid, card |-> NoCard]]
      /\ c.iid \in Int
  BY CardListed DEF Edit
<1>2. /\ boards' \in Seq(SUBSET Card) /\ Rev' >= Rev /\ Rev' \in Revs /\ Rev \in Nat
      /\ BoardsTrue' /\ OneWrite' /\ ViewTrue(cards', touched') /\ BoardAtCheckpoint'
      /\ cards' \in Seq(Card)
  <2>1. CardOf(c.iid, o, "pending", o) \in Card /\ CardOf(c.iid, o, "pending", o).iid = c.iid
    BY <1>1, OpIsOwn DEF CardOf, Card
  <2>2. c.iid \in touched' /\ touched \subseteq touched'
    BY <1>1
  <2> QED
    BY <1>1, <2>1, <2>2, ReplacedStep DEF server
<1>3. TypeOK'
  <2>1. [pc |-> "sent", iid |-> c.iid, card |-> NoCard] \in Post
    BY <1>1 DEF Post, NoCard, CardOf, Card, NoIid, AllOps
  <2>2. post' \in [Ops -> Post] /\ touched' \subseteq Int
    BY <1>1, <2>1 DEF ClientInv, TypeOK
  <2> QED
    BY <1>1, <1>2, <2>1, <2>2 DEF ClientInv, TypeOK, server, cache, client, feed, reads, drag
<1>4. NoBootstrap'
  BY <1>1 DEF ClientInv, NoBootstrap, client, feed, reads
<1>5. ReadsCommitted'
  BY <1>1, <1>2, ReadsStay DEF Revs, client, cache, feed, reads
<1>6. ActedOn'
  BY <1>1 DEF ClientInv, ActedOn, TypeOK, Post, server
<1> QED
  BY <1>2, <1>3, <1>4, <1>5, <1>6 DEF ClientInv

LEMMA RetryRefusedKeeps == ASSUME ClientInv, NEW r \in retrying, RetryRefused(r) PROVE ClientInv'
<1>1. /\ UNCHANGED <<server, touched, revision, mine, post, nextTemp, deleting, feed, reads, drag>>
      /\ PatchCards(PlacesOf(r.iid), "failed") /\ retrying' = retrying \ {r}
      /\ r.iid \in touched /\ UNCHANGED left
  BY DEF RetryRefused, RetryFails, ClientInv, ActedOn
<1>2. /\ boards' \in Seq(SUBSET Card) /\ Rev' >= Rev /\ Rev' \in Revs /\ Rev \in Nat
      /\ BoardsTrue' /\ OneWrite' /\ ViewTrue(cards', touched') /\ BoardAtCheckpoint'
      /\ cards' \in Seq(Card)
  BY <1>1, PatchedStep DEF server
<1>3. TypeOK'
  <2> QED
    BY <1>1, <1>2 DEF ClientInv, TypeOK, server, cache, client, feed, reads, drag
<1>4. NoBootstrap'
  BY <1>1 DEF ClientInv, NoBootstrap, client, feed, reads
<1>5. ReadsCommitted'
  BY <1>1, <1>2, ReadsStay DEF Revs, client, cache, feed, reads
<1>6. ActedOn'
  BY <1>1 DEF ClientInv, ActedOn, TypeOK, Post, server
<1> QED
  BY <1>2, <1>3, <1>4, <1>5, <1>6 DEF ClientInv

LEMMA RetryLostKeeps == ASSUME ClientInv, NEW r \in retrying, RetryLost(r) PROVE ClientInv'
<1>1. /\ UNCHANGED <<server, touched, revision, mine, post, nextTemp, deleting, feed, reads, drag>>
      /\ PatchCards(PlacesOf(r.iid), "failed") /\ retrying' = retrying \ {r}
      /\ r.iid \in touched
      /\ left' = [left EXCEPT !.errors = @ - 1] /\ left.errors > 0
  BY DEF RetryLost, RetryFails, Spend, ClientInv, ActedOn
<1>2. /\ boards' \in Seq(SUBSET Card) /\ Rev' >= Rev /\ Rev' \in Revs /\ Rev \in Nat
      /\ BoardsTrue' /\ OneWrite' /\ ViewTrue(cards', touched') /\ BoardAtCheckpoint'
      /\ cards' \in Seq(Card)
  BY <1>1, PatchedStep DEF server
<1>3. TypeOK'
  <2> QED
    BY <1>1, <1>2 DEF ClientInv, TypeOK, server, cache, client, feed, reads, drag
<1>4. NoBootstrap'
  BY <1>1 DEF ClientInv, NoBootstrap, client, feed, reads
<1>5. ReadsCommitted'
  BY <1>1, <1>2, ReadsStay DEF Revs, client, cache, feed, reads
<1>6. ActedOn'
  BY <1>1 DEF ClientInv, ActedOn, TypeOK, Post, server
<1> QED
  BY <1>2, <1>3, <1>4, <1>5, <1>6 DEF ClientInv

LEMMA RetryKeeps == ASSUME ClientInv, NEW c \in ToSet(cards), Retry(c) PROVE ClientInv'
<1>1. /\ UNCHANGED <<server, revision, mine, nextTemp, deleting, feed, reads, drag, left>>
      /\ PatchCards(PlacesOf(c.iid), "pending") /\ touched' = touched \cup {c.iid}
      /\ \/ /\ c.op \in mine /\ post[c.op].pc = "failed"
            /\ post' = [post EXCEPT ![c.op].pc = "sent"]
            /\ UNCHANGED retrying
         \/ /\ retrying' = retrying \cup {[iid |-> c.iid, op |-> c.op, done |-> FALSE]}
            /\ UNCHANGED post
      /\ c.iid \in Int /\ c.op \in AllOps
  BY CardListed DEF Retry, Card
<1>2. /\ boards' \in Seq(SUBSET Card) /\ Rev' >= Rev /\ Rev' \in Revs /\ Rev \in Nat
      /\ BoardsTrue' /\ OneWrite' /\ ViewTrue(cards', touched') /\ BoardAtCheckpoint'
      /\ cards' \in Seq(Card)
  <2>1. c.iid \in touched' /\ touched \subseteq touched'
    BY <1>1
  <2> QED
    BY <1>1, <2>1, PatchedStep DEF server
<1>3. TypeOK'
  <2>1. [iid |-> c.iid, op |-> c.op, done |-> FALSE] \in [iid : Int, op : AllOps, done : BOOLEAN]
    BY <1>1
  <2>2. touched' \subseteq Int /\ retrying' \subseteq [iid : Int, op : AllOps, done : BOOLEAN]
    BY <1>1, <2>1 DEF ClientInv, TypeOK
  <2>3. post' \in [Ops -> Post]
    <3>1. post \in [Ops -> Post] /\ mine \subseteq Ops
      BY DEF ClientInv, TypeOK
    <3>2. ASSUME NEW o \in Ops, post' = [post EXCEPT ![o].pc = "sent"]
          PROVE  post' \in [Ops -> Post]
      BY <3>1, <3>2 DEF Post
    <3> QED
      BY <1>1, <3>1, <3>2
  <2> QED
    BY <1>1, <1>2, <2>1, <2>2, <2>3 DEF ClientInv, TypeOK, server, cache, client, feed, reads, drag
<1>4. NoBootstrap'
  BY <1>1 DEF ClientInv, NoBootstrap, client, feed, reads
<1>5. ReadsCommitted'
  BY <1>1, <1>2, ReadsStay DEF Revs, client, cache, feed, reads
<1>6. ActedOn'
  <2>1. post \in [Ops -> Post] /\ mine \subseteq Ops /\ ActedOn
    BY DEF ClientInv, TypeOK
  <2>2. \A o \in Ops : /\ post'[o].iid = post[o].iid /\ post'[o].card = post[o].card
                       /\ post'[o].pc # "idle" => post[o].pc # "idle"
                       /\ post'[o].pc = "answered" => post[o].pc = "answered"
    BY <1>1, <2>1 DEF Post
  <2>3. \A r \in retrying' : r.iid \in touched'
    BY <1>1, <2>1 DEF ActedOn
  <2> QED
    BY <1>1, <2>1, <2>2, <2>3 DEF ActedOn, server
<1> QED
  BY <1>2, <1>3, <1>4, <1>5, <1>6 DEF ClientInv

LEMMA RecordedStep ==
    ASSUME ClientInv, touched \subseteq touched', UNCHANGED cache,
           NEW b, Commit(b), b \subseteq Card, BoardTrue(b, touched'),
           \A c, d \in b \ Now : c = d
    PROVE  /\ boards' \in Seq(SUBSET Card) /\ Rev' >= Rev /\ Rev' \in Revs /\ Rev \in Nat
           /\ BoardsTrue' /\ OneWrite' /\ ViewTrue(cards', touched') /\ BoardAtCheckpoint'
<1>1. TypeOK /\ BoardsTrue /\ OneWrite /\ ReadsCommitted
      /\ ViewTrue(cards, touched) /\ BoardAtCheckpoint
  BY DEF ClientInv
<1>2. /\ boards' \in Seq(SUBSET Card) /\ Rev' = Rev + 1 /\ Rev' \in Revs /\ Rev \in Nat
      /\ \A n \in 0..Rev : boards'[n + 1] = boards[n + 1]
      /\ BoardsTrue' /\ OneWrite'
  BY <1>1, Recorded
<1>3. ViewTrue(cards', touched') /\ BoardAtCheckpoint'
  BY <1>1, <1>2, CacheStays
<1> QED
  BY <1>2, <1>3

\* A commit that takes cards away.
LEMMA RemovedStep ==
    ASSUME ClientInv, touched \subseteq touched', UNCHANGED cache, NEW b \in SUBSET Now, Commit(b)
    PROVE  /\ boards' \in Seq(SUBSET Card) /\ Rev' >= Rev /\ Rev' \in Revs /\ Rev \in Nat
           /\ BoardsTrue' /\ OneWrite' /\ ViewTrue(cards', touched') /\ BoardAtCheckpoint'
<1>1. b \subseteq Card /\ BoardTrue(b, touched)
  BY CardCommitted DEF BoardTrue
<1>2. BoardTrue(b, touched') /\ \A c, d \in b \ Now : c = d
  BY <1>1, ActedGrows
<1> QED
  BY <1>1, <1>2, RecordedStep

\* A commit that writes card c over a board with some cards taken away.
LEMMA PutStep ==
    ASSUME ClientInv, touched \subseteq touched', UNCHANGED cache,
           NEW b \in SUBSET Now, NEW c \in Card, Commit(Put(b, c)),
           c.op \in Own => c.iid \in touched', c.op \in Theirs => c.val = c.op,
           \A d \in b : d.op = c.op /\ c.op \in Theirs => d.iid = c.iid
    PROVE  /\ boards' \in Seq(SUBSET Card) /\ Rev' >= Rev /\ Rev' \in Revs /\ Rev \in Nat
           /\ BoardsTrue' /\ OneWrite' /\ ViewTrue(cards', touched') /\ BoardAtCheckpoint'
<1>1. b \subseteq Card /\ BoardTrue(b, touched)
  BY CardCommitted DEF BoardTrue
<1>2. BoardTrue(Put(b, c), touched')
  BY <1>1, ActedGrows, PutTrue
<1>3. Put(b, c) \subseteq Card /\ \A d, e \in Put(b, c) \ Now : d = e
  BY <1>1 DEF Put
<1> QED
  BY <1>2, <1>3, RecordedStep

\* A card of the last board, rewritten with the same operation.
LEMMA RewrittenStep ==
    ASSUME ClientInv, touched \subseteq touched', UNCHANGED cache, NEW c \in Now,
           NEW state \in {"synced", "pending", "failed"},
           Commit(Put(Now, [c EXCEPT !.state = state]))
    PROVE  /\ boards' \in Seq(SUBSET Card) /\ Rev' >= Rev /\ Rev' \in Revs /\ Rev \in Nat
           /\ BoardsTrue' /\ OneWrite' /\ ViewTrue(cards', touched') /\ BoardAtCheckpoint'
<1> DEFINE e == [c EXCEPT !.state = state]
<1>1. c \in Card /\ BoardTrue(Now, touched)
  BY CardCommitted
<1>2. e \in Card /\ e.op = c.op /\ e.iid = c.iid /\ e.val = c.val
  BY <1>1 DEF Card
<1> HIDE DEF e
<1>3. /\ e.op \in Own => e.iid \in touched'
      /\ e.op \in Theirs => e.val = e.op
      /\ \A d \in Now : d.op = e.op /\ e.op \in Theirs => d.iid = e.iid
  BY <1>1, <1>2 DEF BoardTrue
<1>4. Commit(Put(Now, e))
  BY DEF e
<1> QED
  BY <1>2, <1>3, <1>4, PutStep

\* An operation that no card has named is on no card of the last board.
LEMMA UnusedIsAbsent ==
    ASSUME ClientInv, NEW o \in Theirs, ~Used(o)
    PROVE  \A d \in Now : d.op # o
<1>1. Rev \in 0..Rev
  BY CardCommitted
<1>2. \A d \in Now : d.val # o
  BY <1>1 DEF Used, Now
<1> QED
  BY <1>2, CardCommitted DEF BoardTrue

LEMMA ElsewhereKeeps == ASSUME ClientInv, Elsewhere PROVE ClientInv'
<1>1. /\ UNCHANGED <<home, given, touched, hidden, client, post, retrying, deleting, left>> /\ Commit(Now)
  BY DEF Elsewhere
<1>2. /\ boards' \in Seq(SUBSET Card) /\ Rev' >= Rev /\ Rev' \in Revs /\ Rev \in Nat
      /\ BoardsTrue' /\ OneWrite' /\ ViewTrue(cards', touched') /\ BoardAtCheckpoint'
  BY <1>1, RemovedStep DEF client
<1>3. TypeOK'
  <2> QED
    BY <1>1, <1>2 DEF ClientInv, TypeOK, server, cache, client, feed, reads, drag
<1>4. NoBootstrap'
  BY <1>1 DEF ClientInv, NoBootstrap, client, feed, reads
<1>5. ReadsCommitted'
  BY <1>1, <1>2, ReadsStay DEF Revs, client, cache, feed, reads
<1>6. ActedOn'
  BY <1>1 DEF ClientInv, ActedOn, client
<1> QED
  BY <1>2, <1>3, <1>4, <1>5, <1>6 DEF ClientInv

LEMMA TheyDeleteKeeps == ASSUME ClientInv, NEW c \in Now, TheyDelete(c) PROVE ClientInv'
<1>1. /\ UNCHANGED <<home, given, touched, hidden, client, post, retrying, deleting>> /\ Commit(Now \ {c})
      /\ left' = [left EXCEPT !.deletes = @ - 1] /\ left.deletes > 0
  BY DEF TheyDelete, Spend
<1>2. /\ boards' \in Seq(SUBSET Card) /\ Rev' >= Rev /\ Rev' \in Revs /\ Rev \in Nat
      /\ BoardsTrue' /\ OneWrite' /\ ViewTrue(cards', touched') /\ BoardAtCheckpoint'
  BY <1>1, RemovedStep DEF client
<1>3. TypeOK'
  <2> QED
    BY <1>1, <1>2 DEF ClientInv, TypeOK, server, cache, client, feed, reads, drag
<1>4. NoBootstrap'
  BY <1>1 DEF ClientInv, NoBootstrap, client, feed, reads
<1>5. ReadsCommitted'
  BY <1>1, <1>2, ReadsStay DEF Revs, client, cache, feed, reads
<1>6. ActedOn'
  BY <1>1 DEF ClientInv, ActedOn, client
<1> QED
  BY <1>2, <1>3, <1>4, <1>5, <1>6 DEF ClientInv

LEMMA FailOperationKeeps == ASSUME ClientInv, NEW c \in Now, FailOperation(c) PROVE ClientInv'
<1>1. /\ UNCHANGED <<home, given, touched, hidden, client, post, retrying, deleting>>
      /\ Commit(Put(Now, [c EXCEPT !.state = "failed"]))
      /\ left' = [left EXCEPT !.errors = @ - 1] /\ left.errors > 0
  BY DEF FailOperation, Spend
<1>2. /\ boards' \in Seq(SUBSET Card) /\ Rev' >= Rev /\ Rev' \in Revs /\ Rev \in Nat
      /\ BoardsTrue' /\ OneWrite' /\ ViewTrue(cards', touched') /\ BoardAtCheckpoint'
  BY <1>1, RewrittenStep DEF client
<1>3. TypeOK'
  <2> QED
    BY <1>1, <1>2 DEF ClientInv, TypeOK, server, cache, client, feed, reads, drag
<1>4. NoBootstrap'
  BY <1>1 DEF ClientInv, NoBootstrap, client, feed, reads
<1>5. ReadsCommitted'
  BY <1>1, <1>2, ReadsStay DEF Revs, client, cache, feed, reads
<1>6. ActedOn'
  BY <1>1 DEF ClientInv, ActedOn, client
<1> QED
  BY <1>2, <1>3, <1>4, <1>5, <1>6 DEF ClientInv

LEMMA TheyEditKeeps == ASSUME ClientInv, NEW o \in Theirs, NEW c \in Now, TheyEdit(o, c) PROVE ClientInv'
<1>1. /\ UNCHANGED <<home, given, touched, hidden, client, post, retrying, deleting, left>> /\ ~Used(o)
      /\ Commit(Put(Now, CardOf(c.iid, o, "pending", o)))
  BY DEF TheyEdit
<1>2. /\ boards' \in Seq(SUBSET Card) /\ Rev' >= Rev /\ Rev' \in Revs /\ Rev \in Nat
      /\ BoardsTrue' /\ OneWrite' /\ ViewTrue(cards', touched') /\ BoardAtCheckpoint'
  <2>1. CardOf(c.iid, o, "pending", o) \in Card
    BY <1>1, CardCommitted DEF CardOf, Card, AllOps
  <2>2. o \notin Own
    BY ConstantsAssumption DEF ConstantsAssumption, Own
  <2>3. \A d \in Now : d.op # o
    BY <1>1, UnusedIsAbsent
  <2>4. CardOf(c.iid, o, "pending", o).op = o /\ CardOf(c.iid, o, "pending", o).val = o
    BY DEF CardOf
  <2> QED
    BY <1>1, <2>1, <2>2, <2>3, <2>4, PutStep DEF client
<1>3. TypeOK'
  <2> QED
    BY <1>1, <1>2 DEF ClientInv, TypeOK, server, cache, client, feed, reads, drag
<1>4. NoBootstrap'
  BY <1>1 DEF ClientInv, NoBootstrap, client, feed, reads
<1>5. ReadsCommitted'
  BY <1>1, <1>2, ReadsStay DEF Revs, client, cache, feed, reads
<1>6. ActedOn'
  BY <1>1 DEF ClientInv, ActedOn, client
<1> QED
  BY <1>2, <1>3, <1>4, <1>5, <1>6 DEF ClientInv

LEMMA TheyCreateKeeps == ASSUME ClientInv, NEW o \in Theirs, TheyCreate(o) PROVE ClientInv'
<1>1. /\ UNCHANGED <<home, touched, hidden, client, post, retrying, deleting, left>>
      /\ ~Used(o) /\ Commit(Put(Now, CardOf(given.temp - 1, o, "pending", o)))
      /\ given' = [given EXCEPT !.temp = @ - 1]
      /\ given \in [temp : Int, iid : Nat] /\ given.temp - 1 \in Int
  BY DEF TheyCreate, ClientInv, TypeOK
<1>2. /\ boards' \in Seq(SUBSET Card) /\ Rev' >= Rev /\ Rev' \in Revs /\ Rev \in Nat
      /\ BoardsTrue' /\ OneWrite' /\ ViewTrue(cards', touched') /\ BoardAtCheckpoint'
  <2>1. CardOf(given.temp - 1, o, "pending", o) \in Card
    BY <1>1, CardCommitted DEF CardOf, Card, AllOps
  <2>2. o \notin Own
    BY ConstantsAssumption DEF ConstantsAssumption, Own
  <2>3. \A d \in Now : d.op # o
    BY <1>1, UnusedIsAbsent
  <2>4. CardOf(given.temp - 1, o, "pending", o).op = o /\ CardOf(given.temp - 1, o, "pending", o).val = o
    BY DEF CardOf
  <2> QED
    BY <1>1, <2>1, <2>2, <2>3, <2>4, PutStep DEF client
<1>3. TypeOK'
  <2>1. given' \in [temp : Int, iid : Nat]
    BY <1>1
  <2> QED
    BY <1>1, <1>2, <2>1 DEF ClientInv, TypeOK, server, cache, client, feed, reads, drag
<1>4. NoBootstrap'
  BY <1>1 DEF ClientInv, NoBootstrap, client, feed, reads
<1>5. ReadsCommitted'
  BY <1>1, <1>2, ReadsStay DEF Revs, client, cache, feed, reads
<1>6. ActedOn'
  BY <1>1 DEF ClientInv, ActedOn, client
<1> QED
  BY <1>2, <1>3, <1>4, <1>5, <1>6 DEF ClientInv

LEMMA RetryAcceptedKeeps == ASSUME ClientInv, NEW r \in retrying, RetryAccepted(r) PROVE ClientInv'
<1>1. /\ UNCHANGED <<home, given, touched, hidden, client, post, deleting, left>>
      /\ \E c \in Now : Commit(Put(Now, [c EXCEPT !.state = "pending"]))
      /\ retrying' = (retrying \ {r}) \cup {[r EXCEPT !.done = TRUE]}
      /\ retrying \subseteq [iid : Int, op : AllOps, done : BOOLEAN]
  BY DEF RetryAccepted, ClientInv, TypeOK
<1>2. /\ boards' \in Seq(SUBSET Card) /\ Rev' >= Rev /\ Rev' \in Revs /\ Rev \in Nat
      /\ BoardsTrue' /\ OneWrite' /\ ViewTrue(cards', touched') /\ BoardAtCheckpoint'
  BY <1>1, RewrittenStep DEF client
<1>3. TypeOK'
  <2>1. retrying' \subseteq [iid : Int, op : AllOps, done : BOOLEAN]
    BY <1>1
  <2> QED
    BY <1>1, <1>2, <2>1 DEF ClientInv, TypeOK, server, cache, client, feed, reads, drag
<1>4. NoBootstrap'
  BY <1>1 DEF ClientInv, NoBootstrap, client, feed, reads
<1>5. ReadsCommitted'
  BY <1>1, <1>2, ReadsStay DEF Revs, client, cache, feed, reads
<1>6. ActedOn'
  <2>1. \A s \in retrying' : s.iid \in touched
    BY <1>1 DEF ClientInv, ActedOn
  <2> QED
    BY <1>1, <2>1 DEF ClientInv, ActedOn, client
<1> QED
  BY <1>2, <1>3, <1>4, <1>5, <1>6 DEF ClientInv

LEMMA AcceptDeleteKeeps == ASSUME ClientInv, NEW d \in deleting, AcceptDelete(d) PROVE ClientInv'
<1>1. /\ UNCHANGED <<home, given, touched, client, post, retrying, left>>
      /\ \E c \in Now : /\ c.iid = d.iid /\ Commit(Now \ {c})
                        /\ hidden' = hidden \cup {c}
      /\ deleting' = (deleting \ {d}) \cup {[d EXCEPT !.done = TRUE]}
      /\ deleting \subseteq [iid : Int, done : BOOLEAN]
      /\ hidden \subseteq Card /\ Now \subseteq Card
  BY CardCommitted DEF AcceptDelete, ClientInv, TypeOK
<1>2. /\ boards' \in Seq(SUBSET Card) /\ Rev' >= Rev /\ Rev' \in Revs /\ Rev \in Nat
      /\ BoardsTrue' /\ OneWrite' /\ ViewTrue(cards', touched') /\ BoardAtCheckpoint'
  BY <1>1, RemovedStep DEF client
<1>3. TypeOK'
  <2>1. deleting' \subseteq [iid : Int, done : BOOLEAN] /\ hidden' \subseteq Card
    BY <1>1
  <2> QED
    BY <1>1, <1>2, <2>1 DEF ClientInv, TypeOK, server, cache, client, feed, reads, drag
<1>4. NoBootstrap'
  BY <1>1 DEF ClientInv, NoBootstrap, client, feed, reads
<1>5. ReadsCommitted'
  BY <1>1, <1>2, ReadsStay DEF Revs, client, cache, feed, reads
<1>6. ActedOn'
  <2>1. \A e \in deleting' : e.iid \in touched
    BY <1>1 DEF ClientInv, ActedOn
  <2>2. \A c \in hidden' : c.iid \in touched
    BY <1>1 DEF ClientInv, ActedOn
  <2> QED
    BY <1>1, <2>1, <2>2 DEF ClientInv, ActedOn, client
<1> QED
  BY <1>2, <1>3, <1>4, <1>5, <1>6 DEF ClientInv

LEMMA DeletionFailsKeeps == ASSUME ClientInv, NEW c \in hidden, DeletionFails(c) PROVE ClientInv'
<1>1. /\ UNCHANGED <<home, given, touched, client, post, retrying, deleting>>
      /\ hidden' = hidden \ {c} /\ c \in Card /\ c.iid \in touched
      /\ Commit(Put(Now, [c EXCEPT !.op = Deletion, !.state = "failed"]))
      /\ left' = [left EXCEPT !.errors = @ - 1] /\ left.errors > 0
  BY DEF DeletionFails, Spend, ClientInv, TypeOK, ActedOn
<1>2. /\ boards' \in Seq(SUBSET Card) /\ Rev' >= Rev /\ Rev' \in Revs /\ Rev \in Nat
      /\ BoardsTrue' /\ OneWrite' /\ ViewTrue(cards', touched') /\ BoardAtCheckpoint'
  <2> DEFINE e == [c EXCEPT !.op = Deletion, !.state = "failed"]
  <2>1. e \in Card /\ e.op = Deletion /\ e.iid = c.iid
    BY <1>1 DEF Card, AllOps
  <2>2. Deletion \notin Theirs
    BY ConstantsAssumption DEF ConstantsAssumption
  <2>3. Commit(Put(Now, e))
    BY <1>1
  <2> HIDE DEF e
  <2> QED
    BY <1>1, <2>1, <2>2, <2>3, PutStep DEF client
<1>3. TypeOK'
  <2> QED
    BY <1>1, <1>2 DEF ClientInv, TypeOK, server, cache, client, feed, reads, drag
<1>4. NoBootstrap'
  BY <1>1 DEF ClientInv, NoBootstrap, client, feed, reads
<1>5. ReadsCommitted'
  BY <1>1, <1>2, ReadsStay DEF Revs, client, cache, feed, reads
<1>6. ActedOn'
  BY <1>1 DEF ClientInv, ActedOn, client
<1> QED
  BY <1>2, <1>3, <1>4, <1>5, <1>6 DEF ClientInv

LEMMA AcceptKeeps == ASSUME ClientInv, NEW o \in Ops, Accept(o) PROVE ClientInv'
<1> DEFINE iid == IF o \in Creates THEN given.temp - 1 ELSE post[o].iid
           c   == CardOf(iid, o, "pending", o)
<1>0. /\ given \in [temp : Int, iid : Nat] /\ post \in [Ops -> Post]
      /\ home \in [Ops -> Int] /\ touched \subseteq Int
  BY DEF ClientInv, TypeOK
<1>1. /\ UNCHANGED <<hidden, client, retrying, deleting, left>>
      /\ Commit(Put(Now, c)) /\ post[o].pc = "sent"
      /\ home' = [home EXCEPT ![o] = iid] /\ touched' = touched \cup {iid}
      /\ given' = IF o \in Creates THEN [given EXCEPT !.temp = iid] ELSE given
      /\ post' = [post EXCEPT ![o].pc = "answered", ![o].card = c]
  BY DEF Accept
<1>7. iid \in Int
  <2>1. post[o].iid \in Int
    BY <1>0 DEF Post
  <2> QED
    BY <1>0, <2>1
<1> HIDE DEF iid
<1>8. c \in Card /\ c.op = o /\ c.iid = iid
  BY <1>7, OpIsOwn DEF CardOf, Card
<1> HIDE DEF c
<1>2. /\ boards' \in Seq(SUBSET Card) /\ Rev' >= Rev /\ Rev' \in Revs /\ Rev \in Nat
      /\ BoardsTrue' /\ OneWrite' /\ ViewTrue(cards', touched') /\ BoardAtCheckpoint'
  <2>1. o \notin Theirs /\ touched \subseteq touched' /\ iid \in touched'
    BY <1>1, OpIsOwn
  <2> QED
    BY <1>1, <1>8, <2>1, PutStep DEF client
<1>3. TypeOK'
  <2>1. home' \in [Ops -> Int] /\ touched' \subseteq Int
    BY <1>0, <1>1, <1>7
  <2>2. given' \in [temp : Int, iid : Nat]
    BY <1>0, <1>1, <1>7
  <2>3. post' \in [Ops -> Post]
    <3>1. post[o] \in Post
      BY <1>0
    <3>2. [post[o] EXCEPT !.pc = "answered", !.card = c] \in Post
      BY <3>1, <1>8 DEF Post
    <3>3. post' = [post EXCEPT ![o] = [post[o] EXCEPT !.pc = "answered", !.card = c]]
      BY <1>0, <1>1
    <3> QED
      BY <1>0, <3>2, <3>3
  <2> QED
    BY <1>1, <1>2, <2>1, <2>2, <2>3 DEF ClientInv, TypeOK, client, cache, feed, reads, drag
<1>4. NoBootstrap'
  BY <1>1 DEF ClientInv, NoBootstrap, client, feed, reads
<1>5. ReadsCommitted'
  BY <1>1, <1>2, ReadsStay DEF Revs, client, cache, feed, reads
<1>6. ActedOn'
  <2>1. \A p \in Ops : /\ home'[p] # NoIid => home'[p] \in touched'
                       /\ post'[p].pc # "idle" => post'[p].iid \in touched'
                       /\ post'[p].pc = "answered" => post'[p].card.iid \in touched'
    <3> TAKE p \in Ops
    <3>1. CASE p # o
      BY <3>1, <1>0, <1>1 DEF ClientInv, ActedOn
    <3>2. CASE p = o
      BY <3>2, <1>0, <1>1, <1>8 DEF ClientInv, ActedOn, Post
    <3> QED
      BY <3>1, <3>2
  <2> QED
    BY <1>1, <2>1 DEF ClientInv, ActedOn
<1> QED
  BY <1>2, <1>3, <1>4, <1>5, <1>6 DEF ClientInv

LEMMA CompleteKeeps == ASSUME ClientInv, NEW c \in Now, Complete(c) PROVE ClientInv'
<1> DEFINE iid  == IF c.iid < 0 THEN given.iid + 1 ELSE c.iid
           done == CardOf(iid, NoOp, "synced", c.val)
           new  == IF c.iid < 0 /\ c.op \in Updates THEN [c EXCEPT !.iid = iid] ELSE done
<1>0. /\ given \in [temp : Int, iid : Nat] /\ home \in [Ops -> Int] /\ touched \subseteq Int
      /\ c \in Card /\ c.iid \in Int
  BY CardCommitted DEF ClientInv, TypeOK
<1>1. /\ UNCHANGED <<hidden, client, post, retrying, deleting, left>>
      /\ Commit(Put(Now \ {c}, new))
      /\ home' = [o \in Ops |-> IF home[o] = c.iid THEN iid ELSE home[o]]
      /\ given' = IF c.iid < 0 THEN [given EXCEPT !.iid = iid] ELSE given
      /\ touched' = IF c.iid \in touched THEN touched \cup {iid} ELSE touched
  BY DEF Complete
<1>7. iid \in Int /\ (c.iid < 0 => iid \in Nat)
  BY <1>0
<1>8. new \in Card /\ (new.op = NoOp \/ (new.op \in Updates /\ new.op = c.op /\ new.iid = iid))
  <2>1. done \in Card /\ done.op = NoOp
    BY <1>0, <1>7 DEF CardOf, Card
  <2>2. [c EXCEPT !.iid = iid] \in Card /\ [c EXCEPT !.iid = iid].op = c.op
        /\ [c EXCEPT !.iid = iid].iid = iid
    BY <1>0, <1>7 DEF Card
  <2> QED
    BY <2>1, <2>2
<1> HIDE DEF iid, new
<1>2. /\ boards' \in Seq(SUBSET Card) /\ Rev' >= Rev /\ Rev' \in Revs /\ Rev \in Nat
      /\ BoardsTrue' /\ OneWrite' /\ ViewTrue(cards', touched') /\ BoardAtCheckpoint'
  <2>1. NoOp \notin Own /\ NoOp \notin Theirs
    BY ConstantsAssumption DEF ConstantsAssumption, AllOps, Own
  <2>2. new.op \in Own => new.iid \in touched'
    <3>1. c.op \in Own => c.iid \in touched
      BY CardCommitted DEF BoardTrue
    <3> QED
      BY <3>1, <2>1, <1>1, <1>8
  <2>3. new.op \notin Theirs
    BY <2>1, <1>8, OpIsOwn DEF Ops
  <2>4. touched \subseteq touched' /\ Now \ {c} \in SUBSET Now
    BY <1>1
  <2> QED
    BY <1>1, <1>8, <2>2, <2>3, <2>4, PutStep DEF client
<1>3. TypeOK'
  <2>1. home' \in [Ops -> Int] /\ touched' \subseteq Int
    BY <1>0, <1>1, <1>7
  <2>2. given' \in [temp : Int, iid : Nat]
    BY <1>0, <1>1, <1>7
  <2> QED
    BY <1>1, <1>2, <2>1, <2>2 DEF ClientInv, TypeOK, client, cache, feed, reads, drag
<1>4. NoBootstrap'
  BY <1>1 DEF ClientInv, NoBootstrap, client, feed, reads
<1>5. ReadsCommitted'
  BY <1>1, <1>2, ReadsStay DEF Revs, client, cache, feed, reads
<1>6. ActedOn'
  <2>1. \A o \in Ops : home'[o] # NoIid => home'[o] \in touched'
    <3> TAKE o \in Ops
    <3>1. home[o] # NoIid => home[o] \in touched
      BY DEF ClientInv, ActedOn
    <3>2. CASE home[o] = c.iid /\ c.iid # NoIid
      BY <3>1, <3>2, <1>1
    <3>3. CASE home[o] # c.iid
      BY <3>1, <3>3, <1>1
    <3>4. CASE home[o] = c.iid /\ c.iid = NoIid
      <4>1. iid = NoIid
        BY <3>4, <1>0 DEF iid, NoIid
      <4> QED
        BY <3>4, <4>1, <1>1
    <3> QED
      BY <3>2, <3>3, <3>4
  <2> QED
    BY <1>1, <2>1 DEF ClientInv, ActedOn, client
<1> QED
  BY <1>2, <1>3, <1>4, <1>5, <1>6 DEF ClientInv

LEMMA CreatedView ==
    ASSUME ClientInv, NEW c \in Card, touched' = touched \cup {c.iid},
           cards' = <<c>> \o cards, UNCHANGED <<boards, revision>>
    PROVE  /\ boards' \in Seq(SUBSET Card) /\ Rev' >= Rev /\ Rev' \in Revs /\ Rev \in Nat
           /\ BoardsTrue' /\ OneWrite' /\ ViewTrue(cards', touched') /\ BoardAtCheckpoint'
           /\ cards' \in Seq(Card)
<1>1. TypeOK /\ BoardsTrue /\ OneWrite /\ ReadsCommitted /\ cards \in Seq(Card)
      /\ ViewTrue(cards, touched) /\ BoardAtCheckpoint /\ UNCHANGED boards /\ UNCHANGED revision
  BY DEF ClientInv, TypeOK
<1>2. /\ boards' \in Seq(SUBSET Card) /\ Rev' >= Rev /\ Rev' \in Revs /\ Rev \in Nat
      /\ BoardsTrue' /\ OneWrite'
  BY <1>1, NothingRecorded
<1>3. /\ cards' \in Seq(Card) /\ Len(cards) \in Nat /\ DOMAIN cards = 1..Len(cards)
      /\ DOMAIN cards' = 1..(Len(cards) + 1)
      /\ cards'[1] = c /\ \A j \in 1..Len(cards) : cards'[j + 1] = cards[j]
  BY <1>1
<1>4. \A k \in DOMAIN cards' : (k = 1) \/ (k - 1 \in DOMAIN cards /\ cards'[k] = cards[k - 1])
  <2> TAKE k \in DOMAIN cards'
  <2>1. CASE k # 1
    <3>1. k - 1 \in 1..Len(cards) /\ (k - 1) + 1 = k
      BY <2>1, <1>3
    <3> QED
      BY <3>1, <1>3
  <2> QED
    BY <2>1
<1>5. ViewTrue(cards, touched') /\ c.iid \in touched'
  BY <1>1, ActedGrows
<1>6. ViewTrue(cards', touched')
  <2>1. \A k \in DOMAIN cards' : cards'[k].op \in Own => cards'[k].iid \in touched'
    BY <1>3, <1>4, <1>5 DEF ViewTrue
  <2>2. ASSUME NEW k \in DOMAIN cards', NEW m \in DOMAIN cards',
               cards'[k].iid = cards'[m].iid, cards'[k].iid \notin touched'
        PROVE  k = m
    <3>1. k # 1 /\ m # 1
      BY <2>2, <1>3, <1>5
    <3>2. k - 1 = m - 1
      BY <3>1, <2>2, <1>4, <1>5 DEF ViewTrue
    <3> QED
      BY <3>2, <1>3
  <2> QED
    BY <2>1, <2>2 DEF ViewTrue
<1>7. \A d : d.iid \notin touched' => (d \in ToSet(cards') <=> d \in ToSet(cards))
  <2> SUFFICES ASSUME NEW d, d.iid \notin touched'
               PROVE  d \in ToSet(cards') <=> d \in ToSet(cards)
    OBVIOUS
  <2>1. ASSUME NEW k \in DOMAIN cards', cards'[k] = d PROVE \E j \in DOMAIN cards : cards[j] = d
    BY <2>1, <1>3, <1>4, <1>5
  <2>2. ASSUME NEW j \in DOMAIN cards, cards[j] = d PROVE \E k \in DOMAIN cards' : cards'[k] = d
    <3>1. j + 1 \in DOMAIN cards'
      BY <1>3
    <3> QED
      BY <3>1, <2>2, <1>3
  <2> QED
    BY <2>1, <2>2 DEF ToSet
<1>8. BoardAtCheckpoint'
  <2>1. OthersCards' = {d \in ToSet(cards) : d.iid \notin touched'}
    BY <1>7 DEF OthersCards
  <2> QED
    BY <2>1, <1>1 DEF BoardAtCheckpoint, OthersCards, Board
<1> QED
  BY <1>2, <1>3, <1>6, <1>8

LEMMA CreateKeeps == ASSUME ClientInv, NEW o \in Ops, Create(o) PROVE ClientInv'
<1>1. /\ UNCHANGED <<server, revision, retrying, deleting, feed, reads, drag, left>>
      /\ cards' = <<CardOf(nextTemp, o, "pending", o)>> \o cards
      /\ nextTemp' = nextTemp - 1 /\ mine' = mine \cup {o} /\ touched' = touched \cup {nextTemp}
      /\ post' = [post EXCEPT ![o] = [pc |-> "sent", iid |-> nextTemp, card |-> NoCard]]
      /\ nextTemp \in Int
  BY DEF Create, ClientInv, TypeOK
<1>2. /\ boards' \in Seq(SUBSET Card) /\ Rev' >= Rev /\ Rev' \in Revs /\ Rev \in Nat
      /\ BoardsTrue' /\ OneWrite' /\ ViewTrue(cards', touched') /\ BoardAtCheckpoint'
      /\ cards' \in Seq(Card)
  <2>1. CardOf(nextTemp, o, "pending", o) \in Card
        /\ CardOf(nextTemp, o, "pending", o).iid = nextTemp
    BY <1>1, OpIsOwn DEF CardOf, Card
  <2> QED
    BY <1>1, <2>1, CreatedView DEF server
<1>3. TypeOK'
  <2>1. [pc |-> "sent", iid |-> nextTemp, card |-> NoCard] \in Post
    BY <1>1 DEF Post, NoCard, CardOf, Card, NoIid, AllOps
  <2>2. post' \in [Ops -> Post] /\ touched' \subseteq Int
    BY <1>1, <2>1 DEF ClientInv, TypeOK
  <2> QED
    BY <1>1, <1>2, <2>1, <2>2 DEF ClientInv, TypeOK, server, cache, client, feed, reads, drag
<1>4. NoBootstrap'
  BY <1>1 DEF ClientInv, NoBootstrap, client, feed, reads
<1>5. ReadsCommitted'
  BY <1>1, <1>2, ReadsStay DEF Revs, client, cache, feed, reads
<1>6. ActedOn'
  BY <1>1 DEF ClientInv, ActedOn, TypeOK, Post, server
<1> QED
  BY <1>2, <1>3, <1>4, <1>5, <1>6 DEF ClientInv

LEMMA DeleteLandsKeeps == ASSUME ClientInv, NEW d \in deleting, DeleteLands(d) PROVE ClientInv'
<1>1. /\ UNCHANGED <<server, touched, revision, mine, post, nextTemp, retrying, feed, reads, drag, left>>
      /\ cards' = KeepPlaces(cards, DOMAIN cards \ PlacesOf(d.iid))
      /\ deleting' = deleting \ {d} /\ d.iid \in touched
  BY DEF DeleteLands, ClientInv, ActedOn
<1>2. /\ boards' \in Seq(SUBSET Card) /\ Rev' >= Rev /\ Rev' \in Revs /\ Rev \in Nat
      /\ BoardsTrue' /\ OneWrite' /\ ViewTrue(cards', touched') /\ BoardAtCheckpoint'
      /\ cards' \in Seq(Card)
  <2>1. TypeOK /\ BoardsTrue /\ OneWrite /\ cards \in Seq(Card) /\ ViewTrue(cards, touched)
        /\ BoardAtCheckpoint /\ UNCHANGED boards /\ touched' = touched /\ revision' = revision
    BY <1>1 DEF ClientInv, TypeOK, server
  <2> DEFINE P == DOMAIN cards \ PlacesOf(d.iid)
  <2>2. /\ cards' \in Seq(Card) /\ ViewTrue(cards', touched)
        /\ Rest(cards') = {c \in Rest(cards) : \E j \in P : cards[j] = c}
    <3>1. P \in SUBSET DOMAIN cards
      OBVIOUS
    <3>2. cards' = KeepPlaces(cards, P)
      BY <1>1
    <3> HIDE DEF P
    <3> QED
      BY <2>1, <3>1, <3>2, KeptView
  <2>3. Rest(cards') = Rest(cards)
    <3>1. ASSUME NEW c \in Rest(cards) PROVE \E j \in P : cards[j] = c
      <4>1. PICK j \in DOMAIN cards : cards[j] = c /\ c.iid \notin touched
        BY Listed
      <4>2. j \in P
        BY <4>1, <1>1 DEF PlacesOf
      <4> QED
        BY <4>1, <4>2
    <3> QED
      BY <2>2, <3>1
  <2>4. BoardAtCheckpoint'
    BY <2>1, <2>3 DEF BoardAtCheckpoint, OthersCards, Rest, Board
  <2> QED
    BY <2>1, <2>2, <2>4, NothingRecorded
<1>3. TypeOK'
  <2> QED
    BY <1>1, <1>2 DEF ClientInv, TypeOK, server, cache, client, feed, reads, drag
<1>4. NoBootstrap'
  BY <1>1 DEF ClientInv, NoBootstrap, client, feed, reads
<1>5. ReadsCommitted'
  BY <1>1, <1>2, ReadsStay DEF Revs, client, cache, feed, reads
<1>6. ActedOn'
  BY <1>1 DEF ClientInv, ActedOn, server
<1> QED
  BY <1>2, <1>3, <1>4, <1>5, <1>6 DEF ClientInv

-----------------------------------------------------------------------------
(* What the steps of the reads keep *)

Left == [errors : Nat, loads : {0}, drags : Nat, drops : Nat, deletes : Nat]

LEMMA CacheKept ==
    ASSUME ClientInv, UNCHANGED cache
    PROVE  /\ cards' \in Seq(Card) /\ ViewTrue(cards', touched) /\ Rest(cards') = Others(revision')
           /\ revision' \in Nat /\ revision' <= Rev /\ revision' = revision
  BY DEF ClientInv, cache, TypeOK, Revs, ReadsCommitted, BoardAtCheckpoint, OthersCards, Rest,
         Others

\* A step of the reads that leaves the cache at a board of the log.
LEMMA ReadStep ==
    ASSUME ClientInv, UNCHANGED <<server, touched, edits, epoch, reset>>, poll' = Idle,
           cards' \in Seq(Card), ViewTrue(cards', touched), Rest(cards') = Others(revision'),
           revision' \in Nat, revision' <= Rev,
           catchUp' \in CatchUp, catchUp'.pc # "resetting",
           catchUp'.since <= revision', catchUp'.to <= Rev,
           stream' \in [open : BOOLEAN, pos : Revs], stream'.pos <= Rev,
           left' \in Left, wanted' \in BOOLEAN, missed' \in BOOLEAN, dragging' \in BOOLEAN
    PROVE  ClientInv'
<1>1. UNCHANGED boards /\ UNCHANGED touched /\ Rev' = Rev /\ Rev \in Revs /\ MaxRev \in Nat
  BY ConstantsAssumption DEF server, Rev, ClientInv, TypeOK, ConstantsAssumption
<1>2. BoardsTrue' /\ OneWrite'
  BY <1>1, NothingRecorded DEF ClientInv
<1>3. revision' \in Revs /\ poll' \in Revs \cup {Idle, Asked}
  BY <1>1 DEF Revs
<1>4. TypeOK'
  BY <1>1, <1>3 DEF ClientInv, TypeOK, server, edits
<1>5. NoBootstrap'
  BY DEF ClientInv, NoBootstrap, Left
<1>6. ReadsCommitted'
  BY <1>1 DEF ReadsCommitted
<1>7. ActedOn'
  BY <1>1 DEF ClientInv, ActedOn, server, edits
<1>8. BoardAtCheckpoint'
  BY <1>1 DEF BoardAtCheckpoint, OthersCards, Rest, Others, Board
<1> QED
  BY <1>1, <1>2, <1>4, <1>5, <1>6, <1>7, <1>8 DEF ClientInv

\* What the reads are before a step.
LEMMA ReadsBefore ==
    ASSUME ClientInv
    PROVE  /\ catchUp \in CatchUp /\ catchUp.pc # "resetting" /\ revision \in Nat /\ Rev \in Nat
           /\ revision \in Revs /\ revision <= Rev
           /\ catchUp.since \in Nat /\ catchUp.to \in Nat
           /\ catchUp.since <= revision /\ catchUp.to <= Rev /\ catchUp.to \in Revs
           /\ stream \in [open : BOOLEAN, pos : Revs] /\ stream.pos <= Rev /\ stream.pos \in Nat
           /\ left \in Left /\ left.loads = 0 /\ poll = Idle /\ reset = Idle /\ ~epoch
           /\ wanted \in BOOLEAN /\ missed \in BOOLEAN /\ dragging \in BOOLEAN
  BY DEF ClientInv, TypeOK, NoBootstrap, ReadsCommitted, CatchUp, Revs, Left

LEMMA AskingTyped ==
    ASSUME NEW n \in Revs
    PROVE  Asking(n) \in CatchUp /\ Asking(n).pc = "asked" /\ Asking(n).since = n /\ Asking(n).to = 0
<1>1. 0 \in Revs
  BY ConstantsAssumption DEF Revs, ConstantsAssumption
<1> QED
  BY <1>1 DEF Asking, CatchUp

LEMMA NoCatchUpTyped ==
    NoCatchUp \in CatchUp /\ NoCatchUp.pc = "idle" /\ NoCatchUp.since = 0 /\ NoCatchUp.to = 0
<1>1. 0 \in Revs
  BY ConstantsAssumption DEF Revs, ConstantsAssumption
<1> QED
  BY <1>1 DEF NoCatchUp, CatchUp

LEMMA Requested ==
    ASSUME ClientInv, RequestCatchUp, UNCHANGED revision
    PROVE  /\ catchUp' \in CatchUp /\ catchUp'.pc # "resetting"
           /\ catchUp'.since <= revision' /\ catchUp'.to <= Rev
           /\ wanted' \in BOOLEAN /\ missed' \in BOOLEAN
<1>1. catchUp' = catchUp \/ catchUp' = Asking(revision)
  BY DEF RequestCatchUp
<1>2. wanted' \in BOOLEAN /\ missed' \in BOOLEAN
  BY ReadsBefore DEF RequestCatchUp
<1> QED
  BY <1>1, <1>2, ReadsBefore, AskingTyped

LEMMA VisibleKeeps == ASSUME ClientInv, Visible PROVE ClientInv'
<1>1. /\ left' = [left EXCEPT !.drops = @ - 1] /\ left.drops > 0 /\ RequestCatchUp
      /\ UNCHANGED <<server, touched, cache, edits, feed, poll, reset, dragging>>
  BY DEF Visible, Spend
<1>2. left' \in Left
  BY <1>1, ReadsBefore DEF Left
<1>3. UNCHANGED <<server, touched, edits, epoch, reset>> /\ UNCHANGED cache /\ UNCHANGED revision
      /\ poll' = Idle /\ stream' = stream /\ dragging' \in BOOLEAN
  BY <1>1, ReadsBefore DEF feed, cache
<1>4. stream' \in [open : BOOLEAN, pos : Revs] /\ stream'.pos <= Rev
  BY <1>3, ReadsBefore
<1> QED
  BY <1>1, <1>2, <1>3, <1>4, CacheKept, Requested, ReadStep

LEMMA HeartbeatKeeps == ASSUME ClientInv, Heartbeat PROVE ClientInv'
<1>1. /\ UNCHANGED <<server, touched, cache, edits, feed, poll, reset, dragging, left>>
      /\ RequestCatchUp
  BY DEF Heartbeat
<1>2. left' \in Left
  BY <1>1, ReadsBefore
<1>3. UNCHANGED <<server, touched, edits, epoch, reset>> /\ UNCHANGED cache /\ UNCHANGED revision
      /\ poll' = Idle /\ stream' = stream /\ dragging' \in BOOLEAN
  BY <1>1, ReadsBefore DEF feed, cache
<1>4. stream' \in [open : BOOLEAN, pos : Revs] /\ stream'.pos <= Rev
  BY <1>3, ReadsBefore
<1> QED
  BY <1>1, <1>2, <1>3, <1>4, CacheKept, Requested, ReadStep

LEMMA PageEndsInLog ==
    ASSUME NEW since \in Nat, Rev \in Nat, since <= Rev
    PROVE  PageEnd(since) \in Nat /\ PageEnd(since) <= Rev
  BY ConstantsAssumption DEF PageEnd, ConstantsAssumption

LEMMA CatchUpAnsweredKeeps == ASSUME ClientInv, CatchUpAnswered PROVE ClientInv'
<1> DEFINE to == PageEnd(catchUp.since)
<1>1. /\ UNCHANGED <<server, touched, cache, edits, feed, wanted, poll, reset, drag, left>>
      /\ catchUp' = [catchUp EXCEPT !.pc = "answered", !.to = to, !.more = to < Rev]
  BY DEF CatchUpAnswered
<1>2. to \in Nat /\ to <= Rev
  BY ReadsBefore, PageEndsInLog
<1>3. Rev \in Revs
  BY DEF ClientInv, TypeOK
<1> HIDE DEF to
<1>4. to \in Revs
  BY <1>2, <1>3, ConstantsAssumption DEF Revs, ConstantsAssumption
<1>5. catchUp' \in CatchUp /\ catchUp'.pc # "resetting" /\ catchUp'.since = catchUp.since
      /\ catchUp'.to = to
  <2>1. (to < Rev) \in BOOLEAN
    OBVIOUS
  <2> QED
    BY <1>1, <1>4, <2>1, ReadsBefore DEF CatchUp
<1>6. UNCHANGED <<server, touched, edits, epoch, reset>> /\ UNCHANGED cache /\ revision' = revision
      /\ UNCHANGED <<poll, stream, left, wanted, missed, dragging>>
  BY <1>1 DEF feed, drag, cache
<1> QED
  BY <1>2, <1>5, <1>6, CacheKept, ReadsBefore, ReadStep

LEMMA CatchUpLandsKeeps == ASSUME ClientInv, CatchUpLands PROVE ClientInv'
<1>1. UNCHANGED <<server, touched, edits, epoch, reset>>
      /\ UNCHANGED <<poll, stream, left, dragging>>
  BY DEF CatchUpLands, feed
<1>2. CASE dragging
  <2>1. missed' = TRUE /\ catchUp' = NoCatchUp /\ UNCHANGED cache /\ UNCHANGED wanted
    BY <1>2 DEF CatchUpLands
  <2> QED
    BY <1>1, <2>1, CacheKept, NoCatchUpTyped, ReadsBefore, ReadStep
<1>3. CASE ~dragging
  <2>1. /\ ApplySyncActions(catchUp.since, catchUp.to, FALSE)
        /\ catchUp' = IF catchUp.more THEN Asking(catchUp.to)
                      ELSE IF wanted THEN Asking(revision') ELSE NoCatchUp
        /\ wanted' = (wanted /\ catchUp.more) /\ UNCHANGED missed
    BY <1>3 DEF CatchUpLands
  <2>2. /\ cards' \in Seq(Card) /\ ViewTrue(cards', touched) /\ Rest(cards') = Others(revision')
        /\ revision' \in Nat /\ revision' <= Rev /\ catchUp.to <= revision'
    BY <2>1, ReadsBefore, DeltaApplied DEF ClientInv
  <2>3. revision' \in Revs
    <3>1. Rev \in Revs
      BY DEF ClientInv, TypeOK
    <3> QED
      BY <2>2, <3>1, ConstantsAssumption DEF Revs, ConstantsAssumption
  <2>4. catchUp' \in CatchUp /\ catchUp'.pc # "resetting"
        /\ catchUp'.since <= revision' /\ catchUp'.to <= Rev
    BY <2>1, <2>2, <2>3, ReadsBefore, AskingTyped, NoCatchUpTyped
  <2>5. wanted' \in BOOLEAN /\ missed' \in BOOLEAN
    BY <2>1, ReadsBefore
  <2> QED
    BY <1>1, <2>2, <2>4, <2>5, ReadsBefore, ReadStep
<1> QED
  BY <1>2, <1>3

LEMMA DeliverKeeps == ASSUME ClientInv, NEW to \in Revs, Deliver(to) PROVE ClientInv'
<1>1. /\ UNCHANGED <<server, touched, edits, epoch, poll, reset, dragging, left>>
      /\ stream.pos < to /\ to <= Rev
      /\ stream' = [stream EXCEPT !.pos = to]
  BY DEF Deliver
<1>2. to \in Nat /\ stream' \in [open : BOOLEAN, pos : Revs] /\ stream'.pos <= Rev
  BY <1>1, ReadsBefore DEF Revs
<1>3. UNCHANGED <<server, touched, edits, epoch, reset>> /\ UNCHANGED <<poll, left, dragging>>
  BY <1>1
<1>4. CASE dragging
  <2>1. missed' = TRUE /\ UNCHANGED cache /\ UNCHANGED <<catchUp, wanted>>
    BY <1>4 DEF Deliver
  <2> QED
    BY <1>2, <1>3, <2>1, CacheKept, ReadsBefore, ReadStep
<1>5. CASE ~dragging /\ to <= revision
  <2>1. UNCHANGED cache /\ UNCHANGED <<catchUp, wanted, missed>>
    BY <1>5 DEF Deliver
  <2> QED
    BY <1>2, <1>3, <2>1, CacheKept, ReadsBefore, ReadStep
<1> DEFINE first == FirstUnseen(stream.pos, to)
<1>6. CASE ~dragging /\ ~(to <= revision) /\ (first = 0 \/ ~IsNext(first))
  <2>1. RequestCatchUp /\ UNCHANGED cache /\ UNCHANGED revision
    BY <1>6 DEF Deliver, cache
  <2> QED
    BY <1>2, <1>3, <2>1, CacheKept, Requested, ReadsBefore, ReadStep
<1>7. CASE ~dragging /\ ~(to <= revision) /\ first # 0 /\ IsNext(first)
  <2>1. ApplySyncActions(stream.pos, to, FALSE) /\ UNCHANGED <<catchUp, wanted, missed>>
    <3>1. ApplySyncActions(stream.pos, to, dragging) /\ UNCHANGED <<catchUp, wanted, missed>>
      BY <1>7 DEF Deliver
    <3>2. dragging = FALSE
      BY <1>7, ReadsBefore
    <3> QED
      BY <3>1, <3>2
  <2> DEFINE Unseen == {n \in (stream.pos + 1)..to : n > revision /\ HasActions(n)}
  <2>2. first \in Unseen
    <3>1. Unseen # {} /\ first = Min(Unseen)
      BY <1>7 DEF FirstUnseen
    <3>2. Unseen \subseteq Nat
      BY <1>2, ReadsBefore
    <3> HIDE DEF Unseen
    <3> QED
      BY <3>1, <3>2, LeastIsFound
  <2>3. stream.pos + 1 <= first /\ first = revision + 1 /\ first \in Int
    BY <2>2, <1>2, <1>7, ReadsBefore DEF IsNext
  <2>4. stream.pos <= revision
    BY <2>3, ReadsBefore
  <2> HIDE DEF first
  <2>5. /\ cards' \in Seq(Card) /\ ViewTrue(cards', touched) /\ Rest(cards') = Others(revision')
        /\ revision' \in Nat /\ revision' <= Rev /\ revision <= revision'
    BY <1>1, <1>2, <2>1, <2>4, ReadsBefore, DeltaApplied DEF ClientInv
  <2>6. catchUp'.since <= revision'
    BY <2>1, <2>5, ReadsBefore
  <2> QED
    BY <1>2, <1>3, <2>1, <2>5, <2>6, ReadsBefore, ReadStep
<1> QED
  BY <1>4, <1>5, <1>6, <1>7

LEMMA StreamKeeps == ASSUME ClientInv, StreamDrops \/ StreamOpens PROVE ClientInv'
<1>1. /\ UNCHANGED <<server, touched, edits, epoch, reset>> /\ UNCHANGED cache
      /\ UNCHANGED <<poll, catchUp, wanted, missed, dragging>>
      /\ \E up \in BOOLEAN : stream' = [stream EXCEPT !.open = up]
      /\ left' = left \/ (left' = [left EXCEPT !.drops = @ - 1] /\ left.drops > 0)
  BY DEF StreamDrops, StreamOpens, Spend, reads, drag
<1>2. stream' \in [open : BOOLEAN, pos : Revs] /\ stream'.pos <= Rev
  BY <1>1, ReadsBefore
<1>3. left' \in Left
  BY <1>1, ReadsBefore DEF Left
<1> QED
  BY <1>1, <1>2, <1>3, CacheKept, ReadsBefore, ReadStep

LEMMA DragKeeps == ASSUME ClientInv, Drag PROVE ClientInv'
<1>1. /\ UNCHANGED <<server, touched, edits, epoch, reset>> /\ UNCHANGED cache
      /\ UNCHANGED revision /\ UNCHANGED stream /\ dragging' \in BOOLEAN /\ poll' = Idle
  BY ReadsBefore DEF Drag, DragStart, DragEnd, feed, cache
<1>2. left' \in Left
  BY ReadsBefore DEF Drag, DragStart, DragEnd, Spend, Left
<1>3. /\ catchUp' = catchUp \/ catchUp' = Asking(revision)
      /\ wanted' \in BOOLEAN /\ missed' \in BOOLEAN
  BY ReadsBefore DEF Drag, DragStart, DragEnd
<1>4. catchUp' \in CatchUp /\ catchUp'.pc # "resetting"
      /\ catchUp'.since <= revision' /\ catchUp'.to <= Rev
  BY <1>1, <1>3, ReadsBefore, AskingTyped
<1> QED
  BY <1>1, <1>2, <1>3, <1>4, CacheKept, ReadsBefore, ReadStep

\* Without a bootstrap left to spend none is fetched.
LEMMA NoBootstrapStep ==
    ASSUME ClientInv
    PROVE  ~(\/ CatchUpTooOld \/ CatchUpFails \/ PollStart \/ StreamReset
             \/ ResetRead \/ ResetLands \/ ResetFails
             \/ PollRead \/ PollLands \/ PollFails \/ Resubscribe)
<1>1. left.loads = 0 /\ reset = Idle /\ poll = Idle /\ ~epoch
  BY ReadsBefore
<1>2. Idle # Asked /\ Idle \notin Revs
  BY ConstantsAssumption DEF Idle, Asked, Revs, ConstantsAssumption
<1> QED
  BY <1>1, <1>2 DEF CatchUpTooOld, CatchUpFails, PollStart, StreamReset, Spend, ResetRead,
     ResetLands, ResetFails, PollRead, PollLands, PollFails, Resubscribe

LEMMA StutterKeeps == ASSUME ClientInv, UNCHANGED vars PROVE ClientInv'
<1>1. UNCHANGED <<server, touched, edits, epoch, reset>> /\ UNCHANGED cache
      /\ UNCHANGED <<poll, stream, left, catchUp, wanted, missed, dragging>>
  BY DEF vars, feed, reads, drag
<1> QED
  BY <1>1, CacheKept, ReadsBefore, ReadStep

LEMMA ReadKeeps == ASSUME ClientInv, Read PROVE ClientInv'
  BY NoBootstrapStep, CatchUpAnsweredKeeps, CatchUpLandsKeeps, VisibleKeeps DEF Read

LEMMA ListenKeeps == ASSUME ClientInv, Listen PROVE ClientInv'
  BY NoBootstrapStep, DeliverKeeps, HeartbeatKeeps, StreamKeeps DEF Listen

LEMMA WorkKeeps == ASSUME ClientInv, Work PROVE ClientInv'
  BY CompleteKeeps, FailOperationKeeps, TheyDeleteKeeps, TheyEditKeeps, TheyCreateKeeps,
     DeletionDoneKeeps, DeletionFailsKeeps, ElsewhereKeeps DEF Work

LEMMA MutateKeeps == ASSUME ClientInv, Mutate PROVE ClientInv'
  BY CreateKeeps, PostSucceedsKeeps, PostFailsKeeps, RequestLostKeeps, AcceptKeeps,
     AcceptAgainKeeps, RefuseKeeps, EditKeeps, RetryKeeps, DeleteKeeps, RetryAcceptedKeeps,
     RetryRefusedKeeps, RetryLostKeeps, RetryAnsweredKeeps, AcceptDeleteKeeps,
     RefuseDeleteKeeps, DeleteLandsKeeps DEF Mutate

LEMMA ClientKeeps == ASSUME ClientInv, [Next]_vars PROVE ClientInv'
  BY ReadKeeps, ListenKeeps, WorkKeeps, MutateKeeps, DragKeeps, StutterKeeps DEF Next

LEMMA ClientBegins == ASSUME MaxLoads = 0, Init PROVE ClientInv
<1> DEFINE c == CardOf(1, NoOp, "synced", Born)
<1>1. /\ boards = <<{c}>> /\ cards = <<c>> /\ revision = 0 /\ touched = {} /\ hidden = {}
      /\ retrying = {} /\ deleting = {} /\ home = [o \in Ops |-> NoIid] /\ epoch = FALSE
      /\ given = [temp |-> -TempsUsed, iid |-> 1] /\ mine = {} /\ nextTemp = -1
      /\ post = [o \in Ops |-> [pc |-> "idle", iid |-> NoIid, card |-> NoCard]]
      /\ stream = [open |-> TRUE, pos |-> 0] /\ catchUp = NoCatchUp /\ wanted = FALSE
      /\ poll = Idle /\ reset = Idle /\ dragging = FALSE /\ missed = FALSE
      /\ left = [errors |-> MaxErrors, loads |-> MaxLoads, drags |-> MaxDrags,
                 drops |-> MaxDrops, deletes |-> MaxDeletes]
  BY DEF Init
<1>2. c \in Card /\ c.op = NoOp /\ c.iid = 1 /\ NoCard \in Card
  BY DEF CardOf, Card, NoCard, NoIid
<1>3. NoOp \notin Own /\ NoOp \notin Theirs
  BY ConstantsAssumption DEF ConstantsAssumption, AllOps, Own
<1> HIDE DEF c
<1>4. Rev = 0 /\ Board(0) = {c} /\ Rev \in Revs /\ boards \in Seq(SUBSET Card)
  BY <1>1, <1>2, ConstantsAssumption DEF Rev, Board, Revs, ConstantsAssumption
<1>5. cards \in Seq(Card) /\ DOMAIN cards = {1} /\ cards[1] = c /\ ToSet(cards) = {c}
  BY <1>1, <1>2 DEF ToSet
<1>6. TypeOK
  <2>1. [pc |-> "idle", iid |-> NoIid, card |-> NoCard] \in Post
    BY <1>2 DEF Post, NoIid
  <2>2. post \in [Ops -> Post] /\ home \in [Ops -> Int]
    BY <1>1, <2>1 DEF NoIid
  <2>3. given \in [temp : Int, iid : Nat] /\ nextTemp \in Int
    BY <1>1, ConstantsAssumption DEF ConstantsAssumption
  <2>4. stream \in [open : BOOLEAN, pos : Revs] /\ revision \in Revs
    BY <1>1, <1>4
  <2> QED
    BY <1>1, <1>4, <1>5, <2>2, <2>3, <2>4, NoCatchUpTyped DEF TypeOK
<1>7. NoBootstrap
  BY <1>1, NoCatchUpTyped, ConstantsAssumption DEF NoBootstrap, ConstantsAssumption
<1>8. ReadsCommitted
  BY <1>1, <1>4, NoCatchUpTyped DEF ReadsCommitted
<1>9. BoardsTrue /\ OneWrite
  <2>1. BoardTrue({c}, touched)
    BY <1>2, <1>3 DEF BoardTrue
  <2>2. (0..Rev) = {0} /\ (1..Rev) = {}
    BY <1>4
  <2>3. BoardsTrue
    BY <2>1, <2>2, <1>4 DEF BoardsTrue
  <2>4. OneWrite
    BY <2>2 DEF OneWrite
  <2> QED
    BY <2>3, <2>4
<1>10. ViewTrue(cards, touched)
  BY <1>5, <1>2, <1>3 DEF ViewTrue
<1>11. ActedOn
  BY <1>1 DEF ActedOn
<1>12. BoardAtCheckpoint
  BY <1>1, <1>4, <1>5 DEF BoardAtCheckpoint, OthersCards
<1> QED
  BY <1>6, <1>7, <1>8, <1>9, <1>10, <1>11, <1>12 DEF ClientInv

\* In every reachable state the cache is the board of its checkpoint in the
\* cards of others, what was read had been committed, and every list and board
\* has one place for a card of others: the strengthening by which frames,
\* pages, optimistic edits and answers in any order keep BoardAtCheckpoint
\* (syncActions.ts applySyncActions, App.tsx requestCatchUp, handleStreamDelta).
THEOREM ClientInvariance == ASSUME MaxLoads = 0 PROVE Spec => []ClientInv
<1>1. Init => ClientInv
  BY ClientBegins
<1>2. ClientInv /\ [Next]_vars => ClientInv'
  BY ClientKeeps
<1> QED
  BY <1>1, <1>2, PTL DEF Spec

\* The cards the tab never acted on are those of its checkpoint
\* (handler_events.go:84).
THEOREM CheckpointInvariance == ASSUME MaxLoads = 0 PROVE Spec => []BoardAtCheckpoint
<1>1. ClientInv => BoardAtCheckpoint
  BY DEF ClientInv
<1> QED
  BY <1>1, ClientInvariance, PTL

-----------------------------------------------------------------------------
(* The cache follows the log *)

\* The boards of the server are appended to, the tab does not unlearn what it
\* acted on, and its checkpoint does not go back.
Forward ==
    /\ boards' = boards \/ \E b : boards' = Append(boards, b)
    /\ touched \subseteq touched'
    /\ revision <= revision'

LEMMA ApplyForward ==
    ASSUME revision \in Nat, NEW lo, NEW to \in Nat, NEW frozen, ApplySyncActions(lo, to, frozen)
    PROVE  revision <= revision'
  BY DEF ApplySyncActions, cache

LEMMA MutateForward == ASSUME ClientInv, Mutate PROVE Forward
<1>0. revision \in Nat
  BY ReadsBefore
<1>1. revision' = revision
  BY DEF Mutate, Create, PostSucceeds, PostFails, RequestLost, Accept, AcceptAgain, Refuse,
     Edit, Retry, Delete, RetryAccepted, RetryRefused, RetryLost, RetryAnswered, RetryFails,
     AcceptDelete, RefuseDelete, DeleteLands, cache, client
<1>2. touched \subseteq touched'
  BY DEF Mutate, Create, PostSucceeds, PostFails, RequestLost, Accept, AcceptAgain, Refuse,
     Edit, Retry, Delete, RetryAccepted, RetryRefused, RetryLost, RetryAnswered, RetryFails,
     AcceptDelete, RefuseDelete, DeleteLands
<1>3. boards' = boards \/ \E b : boards' = Append(boards, b)
  BY DEF Mutate, Create, PostSucceeds, PostFails, RequestLost, Accept, AcceptAgain, Refuse,
     Edit, Retry, Delete, RetryAccepted, RetryRefused, RetryLost, RetryAnswered, RetryFails,
     AcceptDelete, RefuseDelete, DeleteLands, server, Commit
<1> QED
  BY <1>0, <1>1, <1>2, <1>3 DEF Forward

LEMMA WorkForward == ASSUME ClientInv, Work PROVE Forward
<1>0. revision \in Nat
  BY ReadsBefore
<1>1. revision' = revision /\ touched \subseteq touched'
  BY DEF Work, Complete, FailOperation, TheyDelete, TheyEdit, TheyCreate, DeletionDone,
     DeletionFails, Elsewhere, cache, client
<1>2. boards' = boards \/ \E b : boards' = Append(boards, b)
  BY DEF Work, Complete, FailOperation, TheyDelete, TheyEdit, TheyCreate, DeletionDone,
     DeletionFails, Elsewhere, Commit
<1> QED
  BY <1>0, <1>1, <1>2 DEF Forward

LEMMA ReadForward == ASSUME ClientInv, Read PROVE Forward
<1>0. revision \in Nat /\ catchUp.to \in Nat
  BY ReadsBefore
<1>1. CatchUpAnswered \/ CatchUpLands \/ Visible
  BY NoBootstrapStep DEF Read
<1>2. boards' = boards /\ touched' = touched
  BY <1>1 DEF CatchUpAnswered, CatchUpLands, Visible, server
<1>3. CASE CatchUpLands
  <2>1. revision' = revision \/ ApplySyncActions(catchUp.since, catchUp.to, FALSE)
    BY <1>3 DEF CatchUpLands, cache
  <2>2. revision <= revision'
    BY <1>0, <2>1 DEF ApplySyncActions, cache
  <2> QED
    BY <1>2, <2>2 DEF Forward
<1>4. CASE CatchUpAnswered \/ Visible
  BY <1>0, <1>2, <1>4 DEF CatchUpAnswered, Visible, Forward, cache
<1> QED
  BY <1>1, <1>3, <1>4

LEMMA ListenForward == ASSUME ClientInv, Listen PROVE Forward
<1>0. revision \in Nat
  BY ReadsBefore
<1>1. (\E to \in Revs : Deliver(to)) \/ Heartbeat \/ StreamDrops \/ StreamOpens
  BY NoBootstrapStep DEF Listen
<1>2. boards' = boards /\ touched' = touched
  BY <1>1 DEF Deliver, Heartbeat, StreamDrops, StreamOpens, server
<1>3. ASSUME NEW to \in Revs, Deliver(to) PROVE Forward
  <2>1. revision' = revision \/ ApplySyncActions(stream.pos, to, dragging)
    BY <1>3 DEF Deliver, cache
  <2>2. to \in Nat
    BY DEF Revs
  <2> QED
    BY <1>0, <1>2, <2>1, <2>2, ApplyForward DEF Forward
<1>4. CASE Heartbeat \/ StreamDrops \/ StreamOpens
  BY <1>0, <1>2, <1>4 DEF Heartbeat, StreamDrops, StreamOpens, Forward, cache
<1> QED
  BY <1>1, <1>3, <1>4

LEMMA ClientForward == ASSUME ClientInv, Next PROVE Forward
<1>0. revision \in Nat
  BY ReadsBefore
<1>1. Drag => Forward
  BY <1>0 DEF Drag, DragStart, DragEnd, Forward, server, cache
<1> QED
  BY <1>1, MutateForward, WorkForward, ReadForward, ListenForward DEF Next

\* Every step of the tab is a step of the replica or changes nothing it shows.
LEMMA ReplicaSteps ==
    ASSUME ClientInv, ClientInv', [Next]_vars
    PROVE  [Replica!Next]_(<<boards, revision, touched, OthersCards>>)
<1>1. CASE UNCHANGED vars
  <2>1. UNCHANGED <<boards, revision, touched, cards>>
    BY <1>1 DEF vars, server, cache
  <2> QED
    BY <2>1 DEF OthersCards
<1>2. CASE Next
  <2>1. Forward
    BY <1>2, ClientForward
  <2>2. boards' = boards \/ Replica!Commit
    <3>1. boards \in Seq(SUBSET Card)
      BY DEF ClientInv, TypeOK
    <3> QED
      BY <2>1, <3>1 DEF Forward, Replica!Commit
  <2>3. revision' >= revision
    BY <2>1, ReadsBefore, ClientInv' DEF Forward, ClientInv, TypeOK, Revs
  <2>4. revision' < Len(boards')
    <3>1. revision' \in Nat /\ Len(boards') \in Nat /\ revision' <= Len(boards') - 1
      BY DEF ClientInv, ReadsCommitted, TypeOK, Rev, Revs
    <3> QED
      BY <3>1
  <2>5. OthersCards' = {c \in boards'[revision' + 1] : c.iid \notin touched'}
    BY DEF ClientInv, BoardAtCheckpoint, Board
  <2> QED
    BY <2>1, <2>2, <2>3, <2>4, <2>5 DEF Forward, Replica!Next
<1> QED
  BY <1>1, <1>2

\* The tab implements BoardReplica: of the cards it never acted on it shows one
\* board of the server after the other, skipping forward only, whatever frames,
\* pages, drags, faults and edits of its own come in between
\* (handler_events.go:82, App.tsx:72 and 128).
THEOREM FollowingTheLog == ASSUME MaxLoads = 0 PROVE Spec => FollowsTheLog
<1>1. Init => Replica!Init
  <2> SUFFICES ASSUME Init PROVE Replica!Init
    OBVIOUS
  <2>1. ClientInv
    BY ClientBegins
  <2>2. Len(boards) = 1 /\ revision = 0 /\ touched = {}
    BY DEF Init
  <2>3. OthersCards = {c \in boards[0 + 1] : c.iid \notin touched}
    BY <2>1, <2>2 DEF ClientInv, BoardAtCheckpoint, Board
  <2> QED
    BY <2>2, <2>3 DEF Replica!Init, Replica!Others
<1>2. ClientInv /\ ClientInv' /\ [Next]_vars => [Replica!Next]_(<<boards, revision, touched, OthersCards>>)
  BY ReplicaSteps
<1> QED
  BY <1>1, <1>2, ClientInvariance, PTL DEF Spec, FollowsTheLog, Replica!Spec

\* No step between the start and the end of a drag moves the checkpoint: pages
\* and frames that arrive are put off (syncActions.ts:29, App.tsx:105 and 141).
THEOREM DragsSeeOneBoard == ASSUME MaxLoads = 0 PROVE Spec => DragSeesOneBoard
<1>1. ASSUME ClientInv, [Next]_vars PROVE dragging /\ dragging' => revision' = revision
  <2> SUFFICES ASSUME dragging, dragging' PROVE revision' = revision
    OBVIOUS
  <2>1. CASE Mutate
    BY <2>1 DEF Mutate, Create, PostSucceeds, PostFails, RequestLost, Accept, AcceptAgain,
       Refuse, Edit, Retry, Delete, RetryAccepted, RetryRefused, RetryLost, RetryAnswered,
       RetryFails, AcceptDelete, RefuseDelete, DeleteLands, cache, client
  <2>2. CASE Work
    BY <2>2 DEF Work, Complete, FailOperation, TheyDelete, TheyEdit, TheyCreate,
       DeletionDone, DeletionFails, Elsewhere, cache, client
  <2>3. CASE Read
    BY <2>3, <1>1, NoBootstrapStep DEF Read, CatchUpAnswered, CatchUpLands, Visible, cache
  <2>4. CASE Listen
    BY <2>4, <1>1, NoBootstrapStep
       DEF Listen, Deliver, Heartbeat, StreamDrops, StreamOpens, cache
  <2>5. CASE Drag \/ UNCHANGED vars
    BY <2>5 DEF Drag, DragStart, DragEnd, vars, cache
  <2> QED
    BY <1>1, <2>1, <2>2, <2>3, <2>4, <2>5 DEF Next
<1>2. ClientInv /\ [Next]_vars => [dragging /\ dragging' => revision' = revision]_vars
  BY <1>1
<1> QED
  BY <1>2, ClientInvariance, PTL DEF Spec, DragSeesOneBoard

-----------------------------------------------------------------------------
(* The tab's own edits and cards, when the tab hears of what the server has stored *)

\* No bootstrap after the first; and the server has given out more temporary iids than this
\* tab will need, so those of the tab are not the server's.
OrdinaryTab == MaxLoads = 0 /\ IsFiniteSet(Creates) /\ Cardinality(Creates) <= TempsUsed

\* The step loses no answer to an operation the server has stored, and is no failure of a
\* deletion: a request may be lost on its way, an operation fail, a retry be lost.
Heard == /\ \A o \in Ops : RequestLost(o) => home[o] = NoIid
         /\ \A c \in hidden : ~DeletionFails(c)

\* The iid under which the server stored the operation.
Base(o) == post[o].card.iid

OnBoards(i, n) == \E k \in 0..n : i \in Iids(Board(k))
Gone(i, n) == \E m \in 1..n : i \in Deleted(m)

\* Up to commit n the temporary card i got the iid k of GitLab.
Renamed(i, k, n) == \E m \in 1..n : i < 0 /\ i \in Deleted(m) /\ k \in Iids(Written(m))

\* Where the card of the operation may be after commit n.
At(o, i, n) == home[o] # NoIid /\ (i = Base(o) \/ Renamed(Base(o), i, n))

Issued(i) == (given.temp <= i /\ i < -TempsUsed) \/ (0 < i /\ i <= given.iid)

CardTrue(c, n) ==
    /\ Issued(c.iid) /\ c.op # Deletion
    /\ \A o \in Ops : c.op = o \/ c.val = o => At(o, c.iid, n)
CardsTrue == \A n \in 0..Rev : \A c \in Board(n) : CardTrue(c, n)

\* A temporary card goes only when it gets an iid of GitLab, a new one, and never returns.
RenamedOnce(n) ==
    \A i \in Deleted(n) : i < 0 =>
        /\ \A j \in Deleted(n) : j = i
        /\ \E w \in Written(n) : w.iid > 0 /\ ~OnBoards(w.iid, n - 1)
        /\ \A k \in n..Rev : i \notin Iids(Board(k))
RenamesTrue == \A n \in 1..Rev : RenamedOnce(n)

\* The first card under the iid of a new card of this tab is the one it created.
FirstTrue(c, n) ==
    \A o \in Creates : home[o] # NoIid /\ c.iid = Base(o) => c.op = o \/ OnBoards(Base(o), n - 1)
FirstsTrue == \A n \in 0..Rev : \A c \in Board(n) : FirstTrue(c, n)

\* An operation of others stays where it is.
TheirsTrue == \A m, n \in 0..Rev : \A c \in Board(m), d \in Board(n) :
                  c.op = d.op /\ c.op \in Theirs => c.iid = d.iid

Started == {o \in Creates : post[o].pc # "idle"}

RequestTrue(o) ==
    /\ home[o] # NoIid <=> post[o].pc \in {"answered", "done"}
    /\ post[o].pc = "idle" => post[o].iid = NoIid
    /\ o \in mine <=> post[o].pc \in {"sent", "answered", "failing", "failed"}
    /\ home[o] # NoIid => post[o].card.op = o /\ post[o].card.val = o
    /\ home[o] # NoIid /\ o \in Updates => Base(o) = post[o].iid
CreateTrue(o) ==
    /\ post[o].pc # "idle" => nextTemp < post[o].iid /\ post[o].iid < 0
    /\ home[o] # NoIid => given.temp <= Base(o) /\ Base(o) < -TempsUsed
    /\ home[o] # NoIid => home[o] = Base(o) \/ Renamed(Base(o), home[o], Rev)
RequestsTrue ==
    /\ \A o \in Ops : RequestTrue(o)
    /\ \A o \in Creates : CreateTrue(o)
    /\ \A o, p \in Creates : /\ post[o].pc # "idle" /\ post[o].iid = post[p].iid => o = p
                             /\ home[o] # NoIid /\ home[p] # NoIid /\ Base(o) = Base(p) => o = p
    /\ nextTemp = -1 - Cardinality(Started) /\ given.temp <= -TempsUsed

\* An edit or a new card that the server has not stored, of a card only this operation is on.
Waits(o) ==
    /\ post[o].pc \in {"sent", "failing", "failed"} /\ (post[o].iid > 0 \/ o \in Creates)
    /\ \A p \in Ops \ {o} : post[p].iid # post[o].iid

DeletesTrue == \A d \in deleting : d.iid > 0 /\ \A o \in Ops : Waits(o) => d.iid # post[o].iid

\* The list after commit r has been read.
OneEach(view) == \A i, j \in DOMAIN view : view[i].iid = view[j].iid => i = j
Known(c, r) ==
    /\ \/ OnBoards(c.iid, r)
       \/ \E o \in Creates : post[o].pc # "idle" /\ c.iid = post[o].iid
       \/ \E o \in Creates : post[o].pc = "done" /\ c.iid = Base(o)
    /\ c.iid < 0 => ~Gone(c.iid, r)
Named(c, r) ==
    /\ c.op # Deletion
    /\ c.op \in Theirs => \E k \in 0..r : \E b \in Board(k) : b.op = c.op /\ b.iid = c.iid
    /\ \A o \in Ops : c.op = o \/ c.val = o =>
           post[o].pc # "idle" /\ (c.iid = post[o].iid \/ At(o, c.iid, r))
NewCard(c, r) ==
    \A o \in Creates :
        /\ c.val = o /\ c.iid = post[o].iid => c.op = o
        /\ c.op = o /\ c.iid = post[o].iid =>
               post[o].pc # "done" /\ (home[o] # NoIid => ~OnBoards(Base(o), r))
Shows(view, o) == \E j \in DOMAIN view : /\ view[j].iid = post[o].iid
                                         /\ view[j].op = o /\ view[j].val = o
OwnView(view, r) ==
    /\ OneEach(view)
    /\ \A j \in DOMAIN view : Known(view[j], r) /\ Named(view[j], r) /\ NewCard(view[j], r)
    /\ \A o \in Ops : Waits(o) => Shows(view, o)

ServerTrue == CardsTrue /\ RenamesTrue /\ FirstsTrue /\ TheirsTrue

\* What the server has stored of this tab's operations stays stored.
StoredStays == \A o \in Ops : home[o] # NoIid => home'[o] # NoIid /\ Base(o)' = Base(o)

\* The log only grows.
LogGrows == Rev \in Nat /\ Rev' \in Nat /\ Rev <= Rev'
            /\ \A n \in 0..Rev : boards'[n + 1] = boards[n + 1]


LEMMA LogStays ==
    ASSUME LogGrows
    PROVE  /\ \A n \in 0..Rev : Board(n)' = Board(n)
           /\ \A n \in 1..Rev : Deleted(n)' = Deleted(n) /\ Written(n)' = Written(n)
           /\ \A n \in -1..Rev : \A i : (OnBoards(i, n)' <=> OnBoards(i, n)) /\ (Gone(i, n)' <=> Gone(i, n))
           /\ \A n \in 0..Rev : \A i, k : Renamed(i, k, n)' <=> Renamed(i, k, n)
<1>1. \A n \in 0..Rev : Board(n)' = Board(n)
  BY DEF LogGrows, Board
<1>2. ASSUME NEW n \in 1..Rev PROVE Deleted(n)' = Deleted(n) /\ Written(n)' = Written(n)
  <2>1. n \in 0..Rev /\ n - 1 \in 0..Rev
    BY DEF LogGrows
  <2>2. Board(n)' = Board(n) /\ Board(n - 1)' = Board(n - 1)
    BY <2>1, <1>1
  <2> QED
    BY <2>2 DEF Deleted, Written, Iids
<1>3. ASSUME NEW n \in -1..Rev
      PROVE  (\A k \in 0..n : k \in 0..Rev) /\ (\A m \in 1..n : m \in 1..Rev)
  BY DEF LogGrows
<1>4. ASSUME NEW n \in -1..Rev, NEW i PROVE OnBoards(i, n)' <=> OnBoards(i, n)
  <2>1. \A k \in 0..n : Iids(Board(k))' = Iids(Board(k))
    BY <1>1, <1>3 DEF Iids
  <2> QED
    BY <2>1 DEF OnBoards
<1>5. ASSUME NEW n \in -1..Rev, NEW i PROVE Gone(i, n)' <=> Gone(i, n)
  BY <1>2, <1>3 DEF Gone
<1>6. ASSUME NEW n \in 0..Rev, NEW i, NEW k PROVE Renamed(i, k, n)' <=> Renamed(i, k, n)
  <2>1. \A m \in 1..n : /\ Deleted(m)' = Deleted(m)
                        /\ Iids(Written(m))' = Iids(Written(m))
    <3>1. n \in -1..Rev
      BY DEF LogGrows
    <3> QED
      BY <3>1, <1>2, <1>3 DEF Iids
  <2> QED
    BY <2>1 DEF Renamed
<1> QED
  BY <1>1, <1>2, <1>4, <1>5, <1>6

LEMMA LaterLog ==
    ASSUME NEW n \in Nat, NEW m \in Nat, n <= m, NEW i
    PROVE  /\ OnBoards(i, n) => OnBoards(i, m)
           /\ Gone(i, n) => Gone(i, m)
           /\ \A k : Renamed(i, k, n) => Renamed(i, k, m)
           /\ \A o : At(o, i, n) => At(o, i, m)
<1>1. (\A k \in 0..n : k \in 0..m) /\ (\A k \in 1..n : k \in 1..m)
  OBVIOUS
<1>2. \A j, k : Renamed(j, k, n) => Renamed(j, k, m)
  BY <1>1 DEF Renamed
<1> QED
  BY <1>1, <1>2 DEF OnBoards, Gone, At

\* What is deleted or renamed had been on a board.
LEMMA GoneWas ==
    ASSUME NEW n \in Nat, NEW i
    PROVE  /\ Gone(i, n) => OnBoards(i, n)
           /\ n # 0 /\ i \in Deleted(n) => OnBoards(i, n - 1)
           /\ \A k : Renamed(i, k, n) => i < 0 /\ Gone(i, n) /\ OnBoards(k, n)
<1>1. ASSUME NEW m \in 1..n, i \in Deleted(m) PROVE m - 1 \in 0..n /\ i \in Iids(Board(m - 1))
  BY <1>1 DEF Deleted
<1>2. ASSUME NEW m \in 1..n, NEW k \in Iids(Written(m)) PROVE m \in 0..n /\ k \in Iids(Board(m))
  BY <1>2 DEF Written, Iids
<1>3. Gone(i, n) => OnBoards(i, n)
  BY <1>1 DEF Gone, OnBoards
<1>4. n # 0 /\ i \in Deleted(n) => OnBoards(i, n - 1)
  <2>1. ASSUME n # 0, i \in Deleted(n) PROVE OnBoards(i, n - 1)
    <3>1. n \in 1..n /\ n - 1 \in 0..(n - 1)
      BY <2>1
    <3> QED
      BY <3>1, <2>1, <1>1 DEF OnBoards
  <2> QED
    BY <2>1
<1>5. \A k : Renamed(i, k, n) => i < 0 /\ Gone(i, n) /\ OnBoards(k, n)
  BY <1>2 DEF Renamed, Gone, OnBoards
<1> QED
  BY <1>3, <1>4, <1>5

LEMMA AtStays ==
    ASSUME LogGrows, StoredStays, NEW o \in Ops, NEW n \in 0..Rev, NEW i
    PROVE  /\ At(o, i, n) => At(o, i, n)'
           /\ home[o] # NoIid => (At(o, i, n)' <=> At(o, i, n))
<1>1. home[o] # NoIid => home'[o] # NoIid /\ Base(o)' = Base(o)
  BY DEF StoredStays
<1>2. \A b : Renamed(b, i, n)' <=> Renamed(b, i, n)
  BY LogStays
<1>3. home[o] # NoIid => (Renamed(Base(o), i, n)' <=> Renamed(Base(o), i, n))
  <2>1. home[o] # NoIid => (Renamed(Base(o), i, n)' <=> \E m \in 1..n : Base(o) < 0 /\ Base(o) \in Deleted(m)' /\ i \in Iids(Written(m))')
    BY <1>1 DEF Renamed
  <2>2. Renamed(Base(o), i, n) <=> \E m \in 1..n : Base(o) < 0 /\ Base(o) \in Deleted(m)' /\ i \in Iids(Written(m))'
    <3>1. \A m \in 1..n : m \in 1..Rev
      BY DEF LogGrows
    <3>2. \A m \in 1..n : Deleted(m)' = Deleted(m) /\ Iids(Written(m))' = Iids(Written(m))
      BY <3>1, LogStays DEF Iids
    <3> QED
      BY <3>2 DEF Renamed
  <2> QED
    BY <2>1, <2>2
<1> QED
  BY <1>1, <1>3 DEF At

\* r is the list without the cards at the places in gone and with w.
Puts(r, view, gone, w) ==
    /\ OneEach(r)
    /\ \A k \in DOMAIN r : r[k] = w \/ \E j \in DOMAIN view \ gone : r[k] = view[j]
    /\ \A j \in DOMAIN view \ gone : \E k \in DOMAIN r : r[k] = view[j]

LEMMA KeptCards ==
    ASSUME NEW view \in Seq(Card), OneEach(view), NEW P \in SUBSET DOMAIN view
    PROVE  /\ KeepPlaces(view, P) \in Seq(Card) /\ OneEach(KeepPlaces(view, P))
           /\ \A k \in DOMAIN KeepPlaces(view, P) : \E j \in P : KeepPlaces(view, P)[k] = view[j]
           /\ \A j \in P : \E k \in DOMAIN KeepPlaces(view, P) : KeepPlaces(view, P)[k] = view[j]
<1> DEFINE r == KeepPlaces(view, P)
<1>1. r \in Seq(Card) /\ \E g : Lists(g, r, view, P)
  BY KeptPlaces
<1>2. PICK g : Lists(g, r, view, P)
  BY <1>1
<1> HIDE DEF r
<1>3. \A k \in DOMAIN r : g[k] \in P /\ g[k] \in DOMAIN view /\ r[k] = view[g[k]]
  BY <1>2 DEF Lists
<1>4. OneEach(r)
  BY <1>2, <1>3 DEF OneEach, Lists
<1>5. \A j \in P : \E k \in DOMAIN r : r[k] = view[j]
  BY <1>2, <1>3 DEF Lists
<1> QED
  BY <1>1, <1>3, <1>4, <1>5 DEF r

LEMMA PlacedCards ==
    ASSUME NEW view \in Seq(Card), OneEach(view), NEW at \in DOMAIN view, NEW c \in Card
    PROVE  Puts(PutInPlace(view, at, c), view,
                {j \in DOMAIN view : j = at \/ view[j].iid = c.iid}, c)
<1> DEFINE v == [view EXCEPT ![at] = c]
           P == {j \in DOMAIN view : j = at \/ view[j].iid # c.iid}
           r == KeepPlaces(v, P)
           gone == {j \in DOMAIN view : j = at \/ view[j].iid = c.iid}
<1>1. PutInPlace(view, at, c) = r
  BY DEF PutInPlace
<1>2. v \in Seq(Card) /\ DOMAIN v = DOMAIN view
  OBVIOUS
<1>3. \A j \in DOMAIN view : v[j] = IF j = at THEN c ELSE view[j]
  OBVIOUS
<1>4. P \in SUBSET DOMAIN v
  BY <1>2
<1> HIDE DEF v
<1>5. \E g : Lists(g, r, v, P)
  <2> HIDE DEF P
  <2> QED
    BY <1>2, <1>4, KeptPlaces
<1>6. PICK g : Lists(g, r, v, P)
  BY <1>5
<1> HIDE DEF r
<1>7. \A k \in DOMAIN r : g[k] \in P /\ g[k] \in DOMAIN view /\ r[k] = v[g[k]]
  BY <1>6 DEF Lists
<1>8. OneEach(r)
  <2> SUFFICES ASSUME NEW k \in DOMAIN r, NEW m \in DOMAIN r, r[k].iid = r[m].iid
               PROVE  g[k] = g[m]
    BY <1>6 DEF OneEach, Lists
  <2>1. CASE g[k] = at
    BY <2>1, <1>7, <1>3
  <2>2. CASE g[m] = at
    BY <2>2, <1>7, <1>3
  <2>3. CASE g[k] # at /\ g[m] # at
    BY <2>3, <1>7, <1>3 DEF OneEach
  <2> QED
    BY <2>1, <2>2, <2>3
<1>9. \A k \in DOMAIN r : r[k] = c \/ \E j \in DOMAIN view \ gone : r[k] = view[j]
  BY <1>7, <1>3
<1>10. ASSUME NEW j \in DOMAIN view \ gone PROVE \E k \in DOMAIN r : r[k] = view[j]
  <2>1. j \in P /\ v[j] = view[j]
    BY <1>3
  <2>2. PICK k \in DOMAIN r : g[k] = j
    BY <2>1, <1>6 DEF Lists
  <2> QED
    BY <2>1, <2>2, <1>7
<1> QED
  BY <1>1, <1>8, <1>9, <1>10 DEF Puts

LEMMA AppendedCards ==
    ASSUME NEW view \in Seq(Card), OneEach(view), NEW c \in Card,
           \A j \in DOMAIN view : view[j].iid # c.iid
    PROVE  Puts(Append(view, c), view, {}, c)
<1> DEFINE r == Append(view, c)
<1>1. /\ DOMAIN r = 1..(Len(view) + 1) /\ DOMAIN view = 1..Len(view) /\ Len(view) \in Nat
      /\ r[Len(view) + 1] = c /\ \A j \in DOMAIN view : r[j] = view[j]
  OBVIOUS
<1> HIDE DEF r
<1>2. \A k \in DOMAIN r : \/ k \in DOMAIN view /\ r[k] = view[k]
                          \/ k = Len(view) + 1 /\ r[k] = c
  <2> TAKE k \in DOMAIN r
  <2>1. k \in 1..Len(view) \/ k = Len(view) + 1
    BY <1>1
  <2> QED
    BY <2>1, <1>1
<1>3. \A j \in DOMAIN view : j \in DOMAIN r /\ r[j] = view[j]
  BY <1>1
<1>4. OneEach(r)
  BY <1>2 DEF OneEach
<1> QED
  BY <1>2, <1>3, <1>4 DEF r, Puts

LEMMA ReplacedCards ==
    ASSUME NEW view \in Seq(Card), OneEach(view), NEW at \in DOMAIN view, NEW c \in Card,
           view[at].iid = c.iid
    PROVE  Puts([view EXCEPT ![at] = c], view, {at}, c)
<1> DEFINE r == [view EXCEPT ![at] = c]
<1>1. DOMAIN r = DOMAIN view /\ \A j \in DOMAIN view : r[j] = IF j = at THEN c ELSE view[j]
  OBVIOUS
<1> HIDE DEF r
<1>2. OneEach(r)
  BY <1>1 DEF OneEach
<1>3. \A j \in DOMAIN view \ {at} : j \in DOMAIN r /\ r[j] = view[j]
  BY <1>1
<1> QED
  BY <1>1, <1>2, <1>3 DEF r, Puts

\* The card at place j stood for an earlier iid of card c.
IsOld(view, j, from) == from # NoIid /\ view[j].iid = from
\* It shows the same operation under another iid.
IsSame(view, j, c) == c.op # NoOp /\ view[j].op = c.op /\ view[j].iid # c.iid

\* What writing a card takes off the list: the card of its earlier iid, else the card of
\* its operation, else the card of its iid when it may be replaced.
LEMMA UpsertedCards ==
    ASSUME NEW view \in Seq(Card), OneEach(view), NEW c \in Card, NEW from
    PROVE  \E gone \in SUBSET DOMAIN view :
               /\ Puts(Upsert(view, c, from), view, gone, c)
               /\ \/ \E at \in DOMAIN view :
                         /\ \/ IsOld(view, at, from)
                            \/ IsSame(view, at, c) /\ \A j \in DOMAIN view : ~IsOld(view, j, from)
                         /\ gone = {j \in DOMAIN view : j = at \/ view[j].iid = c.iid}
                  \/ /\ \A j \in DOMAIN view : ~IsOld(view, j, from) /\ ~IsSame(view, j, c)
                     /\ \A j \in gone : view[j].iid = c.iid /\ ShouldApply(view[j], c.op)
<1> DEFINE Olds  == {j \in 1..Len(view) : view[j].iid = from}
           Sames == {j \in 1..Len(view) : view[j].op = c.op /\ view[j].iid # c.iid}
           Heres == {j \in 1..Len(view) : view[j].iid = c.iid}
           old   == IF from = NoIid THEN 0 ELSE IF Olds = {} THEN 0 ELSE Min(Olds)
           same  == IF c.op = NoOp THEN 0 ELSE IF Sames = {} THEN 0 ELSE Min(Sames)
           here  == IF Heres = {} THEN 0 ELSE Min(Heres)
<1>1. Upsert(view, c, from) =
          IF old # 0 THEN PutInPlace(view, old, c)
          ELSE IF same # 0 THEN PutInPlace(view, same, c)
          ELSE IF here = 0 THEN Append(view, c)
          ELSE IF ShouldApply(view[here], c.op) THEN [view EXCEPT ![here] = c]
          ELSE view
  BY DEF Upsert, SelectInSeq
<1>2. DOMAIN view = 1..Len(view) /\ Len(view) \in Nat
  OBVIOUS
<1>3. ASSUME NEW I, I \subseteq DOMAIN view
      PROVE  IF I = {} THEN TRUE ELSE Min(I) \in I /\ Min(I) # 0
  <2>1. I \subseteq Nat /\ 0 \notin I
    BY <1>2, <1>3
  <2> QED
    BY <2>1, LeastIsFound
<1>4. IF old = 0 THEN \A j \in DOMAIN view : ~IsOld(view, j, from)
      ELSE old \in DOMAIN view /\ IsOld(view, old, from)
  <2>1. IF Olds = {} THEN TRUE ELSE Min(Olds) \in Olds /\ Min(Olds) # 0
    <3>1. Olds \subseteq DOMAIN view
      BY <1>2
    <3> HIDE DEF Olds
    <3> QED
      BY <3>1, <1>3
  <2>2. CASE from = NoIid
    BY <2>2 DEF IsOld
  <2>3. CASE from # NoIid /\ Olds = {}
    BY <2>3, <1>2 DEF IsOld
  <2>4. CASE from # NoIid /\ Olds # {}
    <3>1. old = Min(Olds) /\ old \in Olds /\ old # 0
      <4> HIDE DEF Olds
      <4> QED
        BY <2>4, <2>1
    <3> HIDE DEF old
    <3> QED
      BY <3>1, <2>4, <1>2 DEF IsOld
  <2> QED
    BY <2>2, <2>3, <2>4
<1>5. IF same = 0 THEN \A j \in DOMAIN view : ~IsSame(view, j, c)
      ELSE same \in DOMAIN view /\ IsSame(view, same, c)
  <2>1. IF Sames = {} THEN TRUE ELSE Min(Sames) \in Sames /\ Min(Sames) # 0
    <3>1. Sames \subseteq DOMAIN view
      BY <1>2
    <3> HIDE DEF Sames
    <3> QED
      BY <3>1, <1>3
  <2>2. CASE c.op = NoOp
    BY <2>2 DEF IsSame
  <2>3. CASE c.op # NoOp /\ Sames = {}
    BY <2>3, <1>2 DEF IsSame
  <2>4. CASE c.op # NoOp /\ Sames # {}
    <3>1. same = Min(Sames) /\ same \in Sames /\ same # 0
      <4> HIDE DEF Sames
      <4> QED
        BY <2>4, <2>1
    <3> HIDE DEF same
    <3> QED
      BY <3>1, <2>4, <1>2 DEF IsSame
  <2> QED
    BY <2>2, <2>3, <2>4
<1>6. IF here = 0 THEN \A j \in DOMAIN view : view[j].iid # c.iid
      ELSE here \in DOMAIN view /\ view[here].iid = c.iid
  <2>1. IF Heres = {} THEN TRUE ELSE Min(Heres) \in Heres /\ Min(Heres) # 0
    <3>1. Heres \subseteq DOMAIN view
      BY <1>2
    <3> HIDE DEF Heres
    <3> QED
      BY <3>1, <1>3
  <2>2. CASE Heres = {}
    BY <2>2, <1>2
  <2>3. CASE Heres # {}
    <3>1. here = Min(Heres) /\ here \in Heres /\ here # 0
      <4> HIDE DEF Heres
      <4> QED
        BY <2>3, <2>1
    <3> HIDE DEF here
    <3> QED
      BY <3>1, <1>2
  <2> QED
    BY <2>2, <2>3
<1> HIDE DEF old, same, here
<1> DEFINE Off(at) == {j \in DOMAIN view : j = at \/ view[j].iid = c.iid}
<1>7. CASE old # 0
  <2>1. old \in DOMAIN view /\ IsOld(view, old, from)
    BY <1>7, <1>4
  <2>2. Puts(Upsert(view, c, from), view, Off(old), c)
    BY <1>7, <1>1, <2>1, PlacedCards
  <2> WITNESS Off(old) \in SUBSET DOMAIN view
  <2> QED
    BY <2>1, <2>2
<1>8. CASE old = 0 /\ same # 0
  <2>1. same \in DOMAIN view /\ IsSame(view, same, c) /\ \A j \in DOMAIN view : ~IsOld(view, j, from)
    BY <1>8, <1>4, <1>5
  <2>2. Puts(Upsert(view, c, from), view, Off(same), c)
    BY <1>8, <1>1, <2>1, PlacedCards
  <2> WITNESS Off(same) \in SUBSET DOMAIN view
  <2> QED
    BY <2>1, <2>2
<1>9. CASE old = 0 /\ same = 0
  <2>1. \A j \in DOMAIN view : ~IsOld(view, j, from) /\ ~IsSame(view, j, c)
    BY <1>9, <1>4, <1>5
  <2>2. CASE here = 0
    <3>1. Puts(Upsert(view, c, from), view, {}, c)
      BY <1>9, <2>2, <1>1, <1>6, AppendedCards
    <3> WITNESS {} \in SUBSET DOMAIN view
    <3> QED
      BY <3>1, <2>1
  <2>3. CASE here # 0 /\ ShouldApply(view[here], c.op)
    <3>1. Puts(Upsert(view, c, from), view, {here}, c)
      BY <1>9, <2>3, <1>1, <1>6, ReplacedCards
    <3>2. {here} \in SUBSET DOMAIN view
      BY <2>3, <1>6
    <3> WITNESS {here} \in SUBSET DOMAIN view
    <3> QED
      BY <3>1, <2>1, <2>3, <1>6
  <2>4. CASE here # 0 /\ ~ShouldApply(view[here], c.op)
    <3>1. Upsert(view, c, from) = view
      BY <1>9, <2>4, <1>1
    <3>2. Puts(Upsert(view, c, from), view, {}, c)
      BY <3>1 DEF Puts
    <3> WITNESS {} \in SUBSET DOMAIN view
    <3> QED
      BY <3>2, <2>1
  <2> QED
    BY <2>2, <2>3, <2>4
<1> QED
  BY <1>7, <1>8, <1>9

\* What the lemmas below need of a state, whatever the list shows.
Told == TypeOK /\ BoardsTrue /\ OneWrite /\ ServerTrue /\ RequestsTrue

LEMMA TempsApart ==
    ASSUME OrdinaryTab, TypeOK, RequestsTrue
    PROVE  /\ IsFiniteSet(Started) /\ Cardinality(Started) \in Nat
           /\ \A p \in Creates : post[p].pc # "idle" =>
                  post[p].iid \in Int /\ -TempsUsed <= post[p].iid /\ post[p].iid < 0
           /\ \A p \in Creates : post[p].pc = "idle" => -TempsUsed <= nextTemp
<1>1. IsFiniteSet(Creates) /\ Cardinality(Creates) <= TempsUsed /\ TempsUsed \in Nat
  BY ConstantsAssumption DEF OrdinaryTab, ConstantsAssumption
<1>2. Started \in SUBSET Creates
  BY DEF Started
<1>3. /\ IsFiniteSet(Started) /\ Cardinality(Started) <= Cardinality(Creates)
      /\ Cardinality(Started) = Cardinality(Creates) => Started = Creates
  BY <1>1, <1>2, FS_Subset
<1>4. Cardinality(Started) \in Nat /\ Cardinality(Creates) \in Nat
  BY <1>1, <1>3, FS_CardinalityType
<1>5. nextTemp = -1 - Cardinality(Started) /\ \A p \in Creates : CreateTrue(p)
  BY DEF RequestsTrue
<1>6. \A p \in Creates : post[p].iid \in Int
  BY DEF TypeOK, Post, Ops
<1>7. \A p \in Creates : post[p].pc # "idle" =>
          post[p].iid \in Int /\ -TempsUsed <= post[p].iid /\ post[p].iid < 0
  BY <1>1, <1>3, <1>4, <1>5, <1>6 DEF CreateTrue
<1>8. \A p \in Creates : post[p].pc = "idle" => -TempsUsed <= nextTemp
  BY <1>1, <1>3, <1>4, <1>5 DEF Started
<1> QED
  BY <1>3, <1>4, <1>7, <1>8

\* An iid of a board is none of the tab's own.
LEMMA BoardIids ==
    ASSUME TypeOK, CardsTrue, NEW n \in 0..Rev, NEW i, OnBoards(i, n)
    PROVE  i \in Int /\ Issued(i) /\ (i < -TempsUsed \/ 0 < i)
<1>1. PICK k \in 0..n : i \in Iids(Board(k))
  BY DEF OnBoards
<1>2. k \in 0..Rev
  BY DEF TypeOK, Revs
<1>3. PICK c \in Board(k) : c.iid = i
  BY <1>1 DEF Iids
<1>4. c \in Card /\ CardTrue(c, k)
  BY <1>2, <1>3, BoardsTyped DEF CardsTrue
<1> QED
  BY <1>3, <1>4 DEF Card, CardTrue, Issued

\* What is known of an operation the server has stored.
LEMMA StoredOps ==
    ASSUME OrdinaryTab, TypeOK, RequestsTrue, NEW o \in Ops, home[o] # NoIid
    PROVE  /\ Base(o) \in Int /\ post[o].pc \in {"answered", "done"} /\ ~Waits(o)
           /\ o \in Updates => Base(o) = post[o].iid
           /\ o \in Creates => /\ Base(o) < -TempsUsed /\ Base(o) < 0
                               /\ \A p \in Creates : post[p].pc # "idle" => Base(o) # post[p].iid
                               /\ \A p \in Creates : home[p] # NoIid /\ Base(o) = Base(p) => o = p
<1>1. RequestTrue(o) /\ (o \in Creates => CreateTrue(o))
  BY DEF RequestsTrue
<1>2. Base(o) \in Int
  BY DEF Base, TypeOK, Post, Card
<1>3. post[o].pc \in {"answered", "done"} /\ ~Waits(o) /\ (o \in Updates => Base(o) = post[o].iid)
  BY <1>1 DEF RequestTrue, Waits
<1>4. ASSUME o \in Creates
      PROVE  /\ Base(o) < -TempsUsed /\ Base(o) < 0
             /\ \A p \in Creates : post[p].pc # "idle" => Base(o) # post[p].iid
             /\ \A p \in Creates : home[p] # NoIid /\ Base(o) = Base(p) => o = p
  <2>1. Base(o) < -TempsUsed
    BY <1>1, <1>4 DEF CreateTrue
  <2>2. TempsUsed \in Nat
    BY ConstantsAssumption DEF ConstantsAssumption
  <2>3. \A p \in Creates : post[p].pc # "idle" => Base(o) # post[p].iid
    BY <1>2, <2>1, <2>2, TempsApart
  <2>4. \A p \in Creates : home[p] # NoIid /\ Base(o) = Base(p) => o = p
    BY <1>4 DEF RequestsTrue
  <2> QED
    BY <1>2, <2>1, <2>2, <2>3, <2>4
<1> QED
  BY <1>2, <1>3, <1>4

\* A temporary card is renamed once, to an iid of GitLab, and does not return.
LEMMA RenamedFacts ==
    ASSUME Rev \in Nat, RenamesTrue, OneWrite, NEW n \in 0..Rev, NEW i
    PROVE  /\ i < 0 /\ Gone(i, n) => \A k \in n..Rev : i \notin Iids(Board(k))
           /\ \A k : Renamed(i, k, n) => k > 0 /\ i # k
           /\ \A k, l, m : m \in 0..Rev /\ Renamed(i, k, n) /\ Renamed(i, l, m) => k = l
           /\ n # 0 /\ i < 0 /\ i \in Deleted(n) => ~Gone(i, n - 1)
<1>1. ASSUME i < 0, Gone(i, n), NEW k \in n..Rev PROVE i \notin Iids(Board(k))
  <2>1. PICK m \in 1..n : i \in Deleted(m)
    BY <1>1 DEF Gone
  <2>2. m \in 1..Rev /\ k \in m..Rev
    OBVIOUS
  <2>3. RenamedOnce(m)
    BY <2>2 DEF RenamesTrue
  <2> QED
    BY <2>1, <2>2, <2>3, <1>1 DEF RenamedOnce
<1>2. ASSUME NEW k, Renamed(i, k, n) PROVE k > 0 /\ i # k
  <2>1. PICK m \in 1..n : i < 0 /\ i \in Deleted(m) /\ k \in Iids(Written(m))
    BY <1>2 DEF Renamed
  <2>2. m \in 1..Rev
    OBVIOUS
  <2>3. RenamedOnce(m) /\ OneWritten(m)
    BY <2>2 DEF RenamesTrue, OneWrite
  <2>4. PICK w \in Written(m) : w.iid > 0
    BY <2>1, <2>3 DEF RenamedOnce
  <2>5. k = w.iid
    BY <2>1, <2>3, <2>4 DEF Iids, OneWritten
  <2>6. i # k
    <3>1. ASSUME i = k PROVE FALSE
      <4>1. i \in Iids(Board(m)) /\ m \in m..Rev
        BY <3>1, <2>1, <2>2 DEF Written, Iids
      <4> QED
        BY <4>1, <2>1, <2>3 DEF RenamedOnce
    <3> QED
      BY <3>1
  <2> QED
    BY <2>4, <2>5, <2>6
<1>3. ASSUME NEW k, NEW l, NEW m \in 0..Rev, Renamed(i, k, n), Renamed(i, l, m) PROVE k = l
  <2>1. PICK a \in 1..n : i < 0 /\ i \in Deleted(a) /\ k \in Iids(Written(a))
    BY <1>3 DEF Renamed
  <2>2. PICK b \in 1..m : i \in Deleted(b) /\ l \in Iids(Written(b))
    BY <1>3 DEF Renamed
  <2>3. a \in 1..Rev /\ b \in 1..Rev
    OBVIOUS
  <2>4. RenamedOnce(a) /\ RenamedOnce(b) /\ OneWritten(a)
    BY <2>3 DEF RenamesTrue, OneWrite
  <2>5. i \in Iids(Board(a - 1)) /\ i \in Iids(Board(b - 1))
    BY <2>1, <2>2 DEF Deleted
  <2>6. ~(b - 1 \in a..Rev) /\ ~(a - 1 \in b..Rev)
    BY <2>1, <2>2, <2>4, <2>5 DEF RenamedOnce
  <2>7. a = b
    BY <2>3, <2>6
  <2> QED
    BY <2>1, <2>2, <2>4, <2>7 DEF Iids, OneWritten
<1>4. ASSUME n # 0, i < 0, i \in Deleted(n) PROVE ~Gone(i, n - 1)
  <2>1. ASSUME Gone(i, n - 1) PROVE FALSE
    <3>1. PICK m \in 1..(n - 1) : i \in Deleted(m)
      BY <2>1 DEF Gone
    <3>2. m \in 1..Rev /\ n - 1 \in m..Rev
      BY <1>4
    <3>3. RenamedOnce(m) /\ i \in Iids(Board(n - 1))
      BY <3>2, <1>4 DEF RenamesTrue, Deleted
    <3> QED
      BY <3>1, <3>2, <3>3, <1>4 DEF RenamedOnce
  <2> QED
    BY <2>1
<1> QED
  BY <1>1, <1>2, <1>3, <1>4

\* The rekey of a commit is the temporary iid it deletes.
LEMMA RekeyIs ==
    ASSUME Rev \in Nat, RenamesTrue, OneWrite, NEW n \in 1..Rev
    PROVE  /\ \A i \in Deleted(n) : i < 0 =>
                  /\ CompletionRekey(n) = i /\ \A j \in Deleted(n) : j = i
                  /\ \E w \in Written(n) : w.iid > 0 /\ ~OnBoards(w.iid, n - 1)
           /\ (\A i \in Deleted(n) : ~(i < 0)) => CompletionRekey(n) = NoIid
<1> DEFINE gone == {i \in Deleted(n) : i < 0}
           new  == {c \in Written(n) : c.iid > 0}
<1>1. CompletionRekey(n) = IF Cardinality(gone) = 1 /\ Cardinality(new) = 1
                           THEN CHOOSE i \in gone : TRUE ELSE NoIid
  BY DEF CompletionRekey
<1>2. ASSUME NEW i \in Deleted(n), i < 0
      PROVE  /\ CompletionRekey(n) = i /\ \A j \in Deleted(n) : j = i
             /\ \E w \in Written(n) : w.iid > 0 /\ ~OnBoards(w.iid, n - 1)
  <2>1. RenamedOnce(n) /\ OneWritten(n)
    BY DEF RenamesTrue, OneWrite
  <2>2. \A j \in Deleted(n) : j = i
    BY <2>1, <1>2 DEF RenamedOnce
  <2>3. PICK w \in Written(n) : w.iid > 0 /\ ~OnBoards(w.iid, n - 1)
    BY <2>1, <1>2 DEF RenamedOnce
  <2>4. gone = {i} /\ new = {w}
    BY <2>1, <2>2, <2>3, <1>2 DEF OneWritten
  <2> HIDE DEF gone, new
  <2>5. Cardinality(gone) = 1 /\ Cardinality(new) = 1
    BY <2>4, FS_Singleton
  <2>6. (CHOOSE j \in gone : TRUE) \in gone
    BY <2>4
  <2>7. CompletionRekey(n) = i
    BY <1>1, <2>4, <2>5, <2>6
  <2> QED
    BY <2>2, <2>3, <2>7
<1>3. ASSUME \A i \in Deleted(n) : ~(i < 0) PROVE CompletionRekey(n) = NoIid
  <2>1. gone = {}
    BY <1>3
  <2>2. Cardinality(gone) = 0
    BY <2>1, FS_EmptySet
  <2> QED
    BY <1>1, <2>2
<1> QED
  BY <1>2, <1>3

\* The card of a list after commit r.
CardOwn(c, r) == Known(c, r) /\ Named(c, r) /\ NewCard(c, r)

\* Card w of commit n is the first of the new card that the tab shows as c.
FirstOf(c, w, n) ==
    /\ w.op \in Creates /\ c.iid = post[w.op].iid /\ w.iid = Base(w.op)
    /\ home[w.op] # NoIid /\ post[w.op].pc # "done" /\ ~OnBoards(Base(w.op), n - 1)

LEMMA WrittenIs ==
    ASSUME Told, NEW n \in 1..Rev, NEW w \in Written(n)
    PROVE  /\ n \in 0..Rev /\ n - 1 \in 0..Rev /\ w \in Board(n) /\ w \in Card /\ CardTrue(w, n)
           /\ FirstTrue(w, n) /\ OnBoards(w.iid, n)
           /\ (w.iid < -TempsUsed \/ 0 < w.iid) /\ \A x \in Written(n) : x = w
<1>1. Rev \in Nat /\ n \in 0..Rev /\ n - 1 \in 0..Rev /\ w \in Board(n)
  BY DEF Told, TypeOK, Revs, Written
<1>2. w \in Card
  BY <1>1, BoardsTyped DEF Told
<1>3. CardTrue(w, n) /\ FirstTrue(w, n)
  BY <1>1 DEF Told, ServerTrue, CardsTrue, FirstsTrue
<1>4. OnBoards(w.iid, n)
  BY <1>1 DEF OnBoards, Iids
<1>5. w.iid < -TempsUsed \/ 0 < w.iid
  BY <1>1, <1>4, BoardIids DEF Told, ServerTrue
<1>6. \A x \in Written(n) : x = w
  BY DEF Told, OneWrite, OneWritten
<1> QED
  BY <1>1, <1>2, <1>3, <1>4, <1>5, <1>6

LEMMA SameCard ==
    ASSUME OrdinaryTab, Told, NEW n \in 1..Rev, NEW w \in Written(n),
           NEW c \in Card, CardOwn(c, n - 1), c.op = w.op, c.op # NoOp, c.iid # w.iid
    PROVE  (c.iid < 0 /\ c.iid \in Deleted(n)) \/ FirstOf(c, w, n)
<1>1. /\ n \in 0..Rev /\ n - 1 \in 0..Rev /\ w \in Board(n) /\ CardTrue(w, n)
  BY WrittenIs
<1>2. TypeOK /\ RenamesTrue /\ OneWrite /\ TheirsTrue /\ RequestsTrue /\ Rev \in Nat
  BY DEF Told, ServerTrue, TypeOK, Revs
<1>3. Known(c, n - 1) /\ Named(c, n - 1) /\ NewCard(c, n - 1)
  BY DEF CardOwn
<1>4. CASE c.op = Deletion
  BY <1>3, <1>4 DEF Named
<1>5. CASE c.op \in Theirs
  <2>1. PICK k \in 0..(n - 1) : \E b \in Board(k) : b.op = c.op /\ b.iid = c.iid
    BY <1>3, <1>5 DEF Named
  <2>2. k \in 0..Rev
    BY <1>2
  <2> QED
    BY <1>1, <1>2, <1>5, <2>1, <2>2 DEF TheirsTrue
<1>6. CASE c.op \in Ops
  <2> DEFINE o == c.op
  <2>1. At(o, w.iid, n)
    BY <1>1, <1>6 DEF CardTrue
  <2>2. home[o] # NoIid /\ (w.iid = Base(o) \/ Renamed(Base(o), w.iid, n))
    BY <2>1 DEF At
  <2>3. c.iid = post[o].iid \/ At(o, c.iid, n - 1)
    BY <1>3, <1>6 DEF Named
  <2>4. CASE c.iid = Base(o)
    <3>1. PICK m \in 1..n : Base(o) < 0 /\ Base(o) \in Deleted(m) /\ w.iid \in Iids(Written(m))
      BY <2>2, <2>4 DEF Renamed
    <3>2. CASE m = n
      BY <2>4, <3>1, <3>2
    <3>3. CASE m # n
      <4>1. m \in 1..(n - 1)
        BY <3>3
      <4>2. Gone(c.iid, n - 1)
        BY <2>4, <3>1, <4>1 DEF Gone
      <4> QED
        BY <1>3, <2>4, <3>1, <4>2 DEF Known
    <3> QED
      BY <3>2, <3>3
  <2>5. CASE Renamed(Base(o), c.iid, n - 1)
    <3>1. Base(o) < 0 /\ Gone(Base(o), n - 1)
      BY <1>1, <2>5, GoneWas
    <3>2. w.iid # Base(o)
      <4>1. Base(o) \notin Iids(Board(n))
        <5>1. n \in (n - 1)..Rev
          BY <1>1
        <5> QED
          BY <1>1, <1>2, <3>1, <5>1, RenamedFacts
      <4> QED
        BY <1>1, <4>1 DEF Iids
    <3>3. Renamed(Base(o), w.iid, n)
      BY <2>2, <3>2
    <3>4. c.iid = w.iid
      BY <1>1, <1>2, <2>5, <3>3, RenamedFacts
    <3> QED
      BY <3>4
  <2>6. CASE c.iid = post[o].iid /\ c.iid # Base(o)
    <3>1. o \in Creates
      BY <1>2, <1>6, <2>2, <2>6, StoredOps DEF Ops
    <3>2. post[o].pc # "done" /\ ~OnBoards(Base(o), n - 1)
      BY <1>3, <2>2, <2>6, <3>1 DEF NewCard
    <3>3. w.iid = Base(o)
      <4> SUFFICES ASSUME Renamed(Base(o), w.iid, n) PROVE FALSE
        BY <2>2
      <4>1. PICK m \in 1..n : Base(o) \in Deleted(m)
        BY DEF Renamed
      <4>2. m - 1 \in 0..(n - 1) /\ Base(o) \in Iids(Board(m - 1))
        BY <4>1 DEF Deleted
      <4> QED
        BY <3>2, <4>2 DEF OnBoards
    <3> QED
      BY <2>2, <2>6, <3>1, <3>2, <3>3 DEF FirstOf
  <2> QED
    BY <2>3, <2>4, <2>5, <2>6 DEF At
<1> QED
  BY <1>4, <1>5, <1>6 DEF Card, AllOps

\* No listed card has an iid the log has not shown before.
LEMMA NewIid ==
    ASSUME OrdinaryTab, Told, NEW r, NEW i, ~OnBoards(i, r),
           \/ i > 0
           \/ \E o \in Creates : i = Base(o) /\ home[o] # NoIid /\ post[o].pc # "done",
           NEW c, Known(c, r)
    PROVE  c.iid # i
<1>1. TypeOK /\ RequestsTrue
  BY DEF Told
<1>2. /\ \A o \in Creates : post[o].pc # "idle" => i # post[o].iid
      /\ \A o \in Creates : post[o].pc = "done" => i # Base(o)
  <2>1. CASE i > 0
    <3>1. \A o \in Creates : post[o].pc = "done" => home[o] # NoIid
      BY <1>1 DEF RequestsTrue, RequestTrue, Ops
    <3>2. \A o \in Creates : post[o].pc # "idle" => post[o].iid \in Int /\ post[o].iid < 0
      BY <1>1, TempsApart
    <3>3. \A o \in Creates : home[o] # NoIid => Base(o) \in Int /\ Base(o) < 0
      BY <1>1, StoredOps DEF Ops
    <3> QED
      BY <2>1, <3>1, <3>2, <3>3
  <2>2. ASSUME NEW o \in Creates, i = Base(o), home[o] # NoIid, post[o].pc # "done"
        PROVE  /\ \A p \in Creates : post[p].pc # "idle" => i # post[p].iid
               /\ \A p \in Creates : post[p].pc = "done" => i # Base(p)
    <3>1. \A p \in Creates : post[p].pc # "idle" => Base(o) # post[p].iid
      BY <1>1, <2>2, StoredOps DEF Ops
    <3>2. \A p \in Creates : home[p] # NoIid /\ Base(o) = Base(p) => o = p
      BY <1>1, <2>2, StoredOps DEF Ops
    <3>3. \A p \in Creates : post[p].pc = "done" => home[p] # NoIid
      BY <1>1 DEF RequestsTrue, RequestTrue, Ops
    <3> QED
      BY <2>2, <3>1, <3>2, <3>3
  <2> QED
    BY <2>1, <2>2
<1> QED
  BY <1>2 DEF Known

LEMMA WrittenOwn ==
    ASSUME OrdinaryTab, Told, NEW n \in 1..Rev, NEW w \in Written(n)
    PROVE  CardOwn(w, n)
<1>1. /\ n \in 0..Rev /\ w \in Board(n) /\ CardTrue(w, n) /\ OnBoards(w.iid, n)
      /\ (w.iid < -TempsUsed \/ 0 < w.iid) /\ w \in Card
  BY WrittenIs
<1>2. TypeOK /\ RenamesTrue /\ OneWrite /\ RequestsTrue /\ Rev \in Nat
  BY DEF Told, ServerTrue, TypeOK, Revs
<1>3. Known(w, n)
  <2>1. w.iid < 0 => ~Gone(w.iid, n)
    <3>1. w.iid \in Iids(Board(n)) /\ n \in n..Rev
      BY <1>1 DEF Iids
    <3> QED
      BY <1>1, <1>2, <3>1, RenamedFacts
  <2> QED
    BY <1>1, <2>1 DEF Known
<1>4. \A o \in Ops : w.op = o \/ w.val = o => At(o, w.iid, n) /\ post[o].pc # "idle"
  <2>1. \A o \in Ops : w.op = o \/ w.val = o => At(o, w.iid, n)
    BY <1>1 DEF CardTrue
  <2>2. \A o \in Ops : home[o] # NoIid => post[o].pc # "idle"
    BY <1>2, StoredOps
  <2> QED
    BY <2>1, <2>2 DEF At
<1>5. Named(w, n)
  <2>1. w.op # Deletion
    BY <1>1 DEF CardTrue
  <2>2. w.op \in Theirs => \E k \in 0..n : \E b \in Board(k) : b.op = w.op /\ b.iid = w.iid
    BY <1>1
  <2> QED
    BY <1>4, <2>1, <2>2 DEF Named
<1>6. NewCard(w, n)
  <2>1. \A o \in Creates : post[o].pc # "idle" => w.iid # post[o].iid
    <3>1. \A o \in Creates : post[o].pc # "idle" =>
              post[o].iid \in Int /\ -TempsUsed <= post[o].iid /\ post[o].iid < 0
      BY <1>2, TempsApart
    <3>2. w.iid \in Int /\ TempsUsed \in Nat
      BY <1>1, ConstantsAssumption DEF Card, ConstantsAssumption
    <3> QED
      BY <1>1, <3>1, <3>2
  <2> QED
    BY <1>4, <2>1 DEF NewCard, Ops
<1> QED
  BY <1>3, <1>5, <1>6 DEF CardOwn

\* What a listed card keeps when commit n is read.
LEMMA StillOwn ==
    ASSUME OrdinaryTab, Told, NEW n \in 1..Rev, NEW c, CardOwn(c, n - 1),
           c.iid < 0 => c.iid \notin Deleted(n),
           \A w \in Written(n) : \A o \in Creates :
               c.op = o /\ w.op = o /\ c.iid = post[o].iid => ~FirstOf(c, w, n)
    PROVE  CardOwn(c, n)
<1>1. Rev \in Nat /\ n \in 0..Rev /\ n - 1 \in Nat /\ n - 1 <= n /\ n \in Nat
  BY DEF Told, TypeOK, Revs
<1>2. Known(c, n - 1) /\ Named(c, n - 1) /\ NewCard(c, n - 1)
  BY DEF CardOwn
<1>3. Known(c, n)
  <2>1. OnBoards(c.iid, n - 1) => OnBoards(c.iid, n)
    BY <1>1, LaterLog
  <2>2. ASSUME c.iid < 0, Gone(c.iid, n) PROVE FALSE
    <3>1. PICK m \in 1..n : c.iid \in Deleted(m)
      BY <2>2 DEF Gone
    <3>2. m # n
      BY <2>2, <3>1
    <3>3. m \in 1..(n - 1)
      BY <1>1, <3>2
    <3> QED
      BY <1>2, <2>2, <3>1, <3>3 DEF Gone, Known
  <2> QED
    BY <1>2, <2>1, <2>2 DEF Known
<1>4. Named(c, n)
  <2>1. \A o : At(o, c.iid, n - 1) => At(o, c.iid, n)
    BY <1>1, LaterLog
  <2>2. \A k \in 0..(n - 1) : k \in 0..n
    BY <1>1
  <2> QED
    BY <1>2, <2>1, <2>2 DEF Named
<1>5. NewCard(c, n)
  <2> SUFFICES ASSUME NEW o \in Creates, c.op = o, c.iid = post[o].iid, home[o] # NoIid,
                      OnBoards(Base(o), n)
               PROVE  FALSE
    BY <1>2 DEF NewCard
  <2>1. post[o].pc # "done" /\ ~OnBoards(Base(o), n - 1)
    BY <1>2 DEF NewCard
  <2>2. PICK k \in 0..n : Base(o) \in Iids(Board(k))
    BY DEF OnBoards
  <2>3. k = n
    <3>1. k \notin 0..(n - 1)
      BY <2>1, <2>2 DEF OnBoards
    <3> QED
      BY <1>1, <3>1
  <2>4. PICK w \in Board(n) : w.iid = Base(o)
    BY <2>2, <2>3 DEF Iids
  <2>5. w \in Written(n)
    <3>1. n - 1 \in 0..(n - 1)
      BY <1>1
    <3>2. w \notin Board(n - 1)
      BY <2>1, <2>4, <3>1 DEF OnBoards, Iids
    <3> QED
      BY <2>4, <3>2 DEF Written
  <2>6. FirstTrue(w, n)
    BY <2>5, WrittenIs
  <2>7. w.op = o
    BY <2>1, <2>4, <2>6 DEF FirstTrue
  <2> QED
    BY <2>1, <2>4, <2>5, <2>7 DEF FirstOf
<1> QED
  BY <1>3, <1>4, <1>5 DEF CardOwn

LEMMA OwnViewIs ==
    ASSUME NEW view, NEW r
    PROVE  OwnView(view, r) <=> /\ OneEach(view) /\ \A j \in DOMAIN view : CardOwn(view[j], r)
                                /\ \A o \in Ops : Waits(o) => Shows(view, o)
  BY DEF OwnView, CardOwn

\* A commit that writes card w, when what it takes off the list is not waited for.
LEMMA PutsOwn ==
    ASSUME OrdinaryTab, Told, NEW n \in 1..Rev, NEW w \in Written(n),
           NEW view, OneEach(view), \A j \in DOMAIN view : CardOwn(view[j], n - 1),
           \A o \in Ops : Waits(o) => Shows(view, o),
           NEW gone \in SUBSET DOMAIN view, NEW r, Puts(r, view, gone, w),
           \A j \in DOMAIN view \ gone :
               /\ view[j].iid < 0 => view[j].iid \notin Deleted(n)
               /\ \A o \in Creates : view[j].op = o /\ w.op = o => ~FirstOf(view[j], w, n),
           \A j \in gone : \A o \in Ops :
               view[j].op = o /\ view[j].iid = post[o].iid => ~Waits(o)
    PROVE  OwnView(r, n)
<1>1. ASSUME NEW j \in DOMAIN view \ gone PROVE CardOwn(view[j], n)
  <2>1. \A x \in Written(n) : x = w
    BY WrittenIs
  <2>2. \A x \in Written(n) : \A o \in Creates :
            view[j].op = o /\ x.op = o /\ view[j].iid = post[o].iid => ~FirstOf(view[j], x, n)
    BY <2>1
  <2>3. CardOwn(view[j], n - 1)
    OBVIOUS
  <2> QED
    BY <2>2, <2>3, StillOwn
<1>2. \A k \in DOMAIN r : CardOwn(r[k], n)
  <2> TAKE k \in DOMAIN r
  <2>1. r[k] = w \/ \E j \in DOMAIN view \ gone : r[k] = view[j]
    BY DEF Puts
  <2> QED
    BY <2>1, <1>1, WrittenOwn
<1>3. ASSUME NEW o \in Ops, Waits(o) PROVE Shows(r, o)
  <2>1. PICK j \in DOMAIN view : view[j].iid = post[o].iid /\ view[j].op = o /\ view[j].val = o
    BY <1>3 DEF Shows
  <2>2. j \notin gone
    BY <1>3, <2>1
  <2>3. PICK k \in DOMAIN r : r[k] = view[j]
    BY <2>2 DEF Puts
  <2> QED
    BY <2>1, <2>3 DEF Shows
<1>4. OneEach(r)
  BY DEF Puts
<1> QED
  BY <1>2, <1>3, <1>4, OwnViewIs

\* A commit that completes a temporary card: its place is the completed card's, and no
\* other card goes.
LEMMA CompletionOwn ==
    ASSUME OrdinaryTab, Told, NEW n \in 1..Rev, NEW w \in Written(n), NEW i \in Deleted(n), i < 0,
           NEW view \in Seq(Card), OneEach(view), \A j \in DOMAIN view : CardOwn(view[j], n - 1),
           \A o \in Ops : Waits(o) => Shows(view, o)
    PROVE  OwnView(Upsert(view, w, i), n)
<1>1. /\ n \in 0..Rev /\ n - 1 \in 0..Rev /\ w \in Card /\ Rev \in Nat
      /\ RenamesTrue /\ OneWrite /\ TypeOK /\ RequestsTrue /\ CardsTrue
  BY WrittenIs DEF Told, ServerTrue, TypeOK, Revs
<1>2. w.iid > 0 /\ ~OnBoards(w.iid, n - 1) /\ \A j \in Deleted(n) : j = i
  BY <1>1, RekeyIs, WrittenIs
<1>3. \A j \in DOMAIN view : view[j].iid # w.iid
  BY <1>2, NewIid DEF CardOwn
<1>4. \A o \in Creates : w.op = o => \A c : ~FirstOf(c, w, n)
  <2>1. ASSUME NEW c, FirstOf(c, w, n) PROVE FALSE
    <3>1. w.op \in Creates /\ w.iid = Base(w.op) /\ home[w.op] # NoIid
      BY <2>1 DEF FirstOf
    <3>2. Base(w.op) < 0 /\ Base(w.op) \in Int
      BY <3>1, <1>1, StoredOps DEF Ops
    <3> QED
      BY <3>1, <3>2, <1>2
  <2> QED
    BY <2>1
<1>5. PICK gone \in SUBSET DOMAIN view :
          /\ Puts(Upsert(view, w, i), view, gone, w)
          /\ \/ \E at \in DOMAIN view :
                    /\ \/ IsOld(view, at, i)
                       \/ IsSame(view, at, w) /\ \A j \in DOMAIN view : ~IsOld(view, j, i)
                    /\ gone = {j \in DOMAIN view : j = at \/ view[j].iid = w.iid}
             \/ /\ \A j \in DOMAIN view : ~IsOld(view, j, i) /\ ~IsSame(view, j, w)
                /\ \A j \in gone : view[j].iid = w.iid /\ ShouldApply(view[j], w.op)
  BY <1>1, UpsertedCards
<1>6. \A j \in DOMAIN view : view[j].iid = i => IsOld(view, j, i)
  BY DEF IsOld, NoIid
<1>7. \A j \in DOMAIN view : ~IsOld(view, j, i) => ~IsSame(view, j, w)
  <2> SUFFICES ASSUME NEW j \in DOMAIN view, ~IsOld(view, j, i), IsSame(view, j, w) PROVE FALSE
    OBVIOUS
  <2>1. view[j].op # NoOp /\ view[j].op = w.op /\ view[j].iid # w.iid /\ view[j] \in Card
    BY DEF IsSame
  <2>2. view[j].iid \in Deleted(n) \/ FirstOf(view[j], w, n)
    BY <2>1, SameCard
  <2>3. w.op \in Creates => ~FirstOf(view[j], w, n)
    BY <1>4
  <2>4. view[j].iid \in Deleted(n)
    BY <2>2, <2>3 DEF FirstOf
  <2> QED
    BY <2>4, <1>2, <1>6
<1>8. \A j \in DOMAIN view \ gone : view[j].iid # i
  <2>1. CASE \E at \in DOMAIN view : IsOld(view, at, i) /\ at \in gone
    BY <2>1 DEF IsOld, OneEach
  <2>2. CASE \A j \in DOMAIN view : ~IsOld(view, j, i)
    BY <2>2, <1>6
  <2> QED
    BY <2>1, <2>2, <1>5
<1>9. \A j \in gone : view[j].iid = i
  BY <1>3, <1>5, <1>7 DEF IsOld
<1>10. \A o \in Ops : Waits(o) => post[o].iid # i
  <2>1. OnBoards(i, n - 1)
    BY <1>1, GoneWas
  <2>2. i \in Int /\ i < -TempsUsed /\ TempsUsed \in Nat
    BY <1>1, <2>1, BoardIids, ConstantsAssumption DEF ConstantsAssumption
  <2>3. ASSUME NEW o \in Ops, Waits(o) PROVE post[o].iid # i
    <3>1. post[o].iid \in Int /\ (post[o].iid > 0 \/ (o \in Creates /\ post[o].pc # "idle"))
      BY <1>1, <2>3 DEF Waits, TypeOK, Post
    <3>2. o \in Creates /\ post[o].pc # "idle" => -TempsUsed <= post[o].iid
      BY <1>1, TempsApart
    <3> QED
      BY <2>2, <3>1, <3>2
  <2> QED
    BY <2>3
<1>11. \A j \in DOMAIN view \ gone : view[j].iid < 0 => view[j].iid \notin Deleted(n)
  BY <1>2, <1>8
<1>12. \A j \in gone : \A o \in Ops : view[j].op = o /\ view[j].iid = post[o].iid => ~Waits(o)
  BY <1>9, <1>10
<1> QED
  BY <1>4, <1>5, <1>11, <1>12, PutsOwn

\* Any other commit that writes a card: the first frame of a new card takes the place the
\* tab gave it, and a card is not replaced while an edit of it waits.
LEMMA WriteOwn ==
    ASSUME OrdinaryTab, Told, NEW n \in 1..Rev, NEW w \in Written(n), \A i \in Deleted(n) : ~(i < 0),
           NEW view \in Seq(Card), OneEach(view), \A j \in DOMAIN view : CardOwn(view[j], n - 1),
           \A o \in Ops : Waits(o) => Shows(view, o)
    PROVE  OwnView(Upsert(view, w, NoIid), n)
<1>1. /\ w \in Card /\ w \in Board(n) /\ TypeOK /\ RequestsTrue /\ CardTrue(w, n)
  BY WrittenIs DEF Told
<1>2. PICK gone \in SUBSET DOMAIN view :
          /\ Puts(Upsert(view, w, NoIid), view, gone, w)
          /\ \/ \E at \in DOMAIN view :
                    /\ \/ IsOld(view, at, NoIid)
                       \/ IsSame(view, at, w) /\ \A j \in DOMAIN view : ~IsOld(view, j, NoIid)
                    /\ gone = {j \in DOMAIN view : j = at \/ view[j].iid = w.iid}
             \/ /\ \A j \in DOMAIN view : ~IsOld(view, j, NoIid) /\ ~IsSame(view, j, w)
                /\ \A j \in gone : view[j].iid = w.iid /\ ShouldApply(view[j], w.op)
  BY <1>1, UpsertedCards
<1>3. \A j \in DOMAIN view : IsSame(view, j, w) => FirstOf(view[j], w, n) /\ view[j].op = w.op
  <2> SUFFICES ASSUME NEW j \in DOMAIN view, IsSame(view, j, w)
               PROVE  FirstOf(view[j], w, n) /\ view[j].op = w.op
    OBVIOUS
  <2>1. view[j].op # NoOp /\ view[j].op = w.op /\ view[j].iid # w.iid /\ view[j] \in Card
    BY DEF IsSame
  <2>2. (view[j].iid < 0 /\ view[j].iid \in Deleted(n)) \/ FirstOf(view[j], w, n)
    BY <2>1, SameCard
  <2> QED
    BY <2>1, <2>2
<1>4. \A o \in Ops : w.op = o => ~Waits(o)
  <2>1. \A o \in Ops : w.op = o => home[o] # NoIid
    BY <1>1 DEF CardTrue, At
  <2> QED
    BY <2>1, <1>1, StoredOps
<1>5. \A c, o : o \in Creates /\ FirstOf(c, w, n) => c.iid # w.iid
  <2> SUFFICES ASSUME NEW c, FirstOf(c, w, n) PROVE c.iid # w.iid
    OBVIOUS
  <2>1. w.op \in Creates /\ c.iid = post[w.op].iid /\ w.iid = Base(w.op) /\ home[w.op] # NoIid
    BY DEF FirstOf
  <2>2. post[w.op].pc # "idle" /\ \A p \in Creates : post[p].pc # "idle" => Base(w.op) # post[p].iid
    BY <2>1, <1>1, StoredOps DEF Ops
  <2> QED
    BY <2>1, <2>2
<1>6. \A j \in DOMAIN view \ gone :
          /\ view[j].iid < 0 => view[j].iid \notin Deleted(n)
          /\ \A o \in Creates : view[j].op = o /\ w.op = o => ~FirstOf(view[j], w, n)
  <2> SUFFICES ASSUME NEW j \in DOMAIN view \ gone, NEW o \in Creates,
                      view[j].op = o, w.op = o, FirstOf(view[j], w, n)
               PROVE  FALSE
    OBVIOUS
  <2>1. IsSame(view, j, w)
    <3>1. o # NoOp
      BY ConstantsAssumption DEF ConstantsAssumption, AllOps, Ops
    <3> QED
      BY <3>1, <1>5 DEF IsSame
  <2>2. PICK at \in DOMAIN view : IsSame(view, at, w) /\ at \in gone
    BY <1>2, <2>1 DEF IsOld
  <2>3. view[at].iid = view[j].iid
    BY <2>1, <2>2, <1>3 DEF FirstOf
  <2> QED
    BY <2>2, <2>3 DEF OneEach
<1>7. ASSUME NEW j \in gone, NEW o \in Ops, view[j].op = o, view[j].iid = post[o].iid, Waits(o)
      PROVE  FALSE
  <2>1. CASE \E at \in DOMAIN view : IsSame(view, at, w) /\ gone = {k \in DOMAIN view : k = at \/ view[k].iid = w.iid}
    <3>1. PICK at \in DOMAIN view : IsSame(view, at, w) /\ gone = {k \in DOMAIN view : k = at \/ view[k].iid = w.iid}
      BY <2>1
    <3>2. view[at].op = w.op /\ FirstOf(view[at], w, n)
      BY <3>1, <1>3
    <3>3. view[j].iid # w.iid
      <4>1. w.op \in Creates /\ w.iid = Base(w.op) /\ home[w.op] # NoIid
            /\ post[w.op].pc # "done" /\ ~OnBoards(w.iid, n - 1)
        BY <3>2 DEF FirstOf
      <4>2. Known(view[j], n - 1)
        BY DEF CardOwn
      <4> QED
        BY <4>1, <4>2, NewIid
    <3>4. j = at
      BY <3>1, <3>3
    <3> QED
      BY <1>4, <1>7, <3>2, <3>4
  <2>2. CASE view[j].iid = w.iid /\ ShouldApply(view[j], w.op)
    <3>1. o \in mine /\ o # NoOp
      <4>1. o \in mine
        BY <1>1, <1>7 DEF Waits, RequestsTrue, RequestTrue
      <4> QED
        BY <4>1, ConstantsAssumption DEF ConstantsAssumption, AllOps
    <3>2. w.op = o
      BY <2>2, <3>1, <1>7 DEF ShouldApply
    <3> QED
      BY <3>2, <1>4, <1>7
  <2> QED
    BY <2>1, <2>2, <1>2 DEF IsOld
<1>8. \A j \in gone : \A o \in Ops : view[j].op = o /\ view[j].iid = post[o].iid => ~Waits(o)
  BY <1>7
<1> QED
  BY <1>2, <1>6, <1>8, PutsOwn

\* A commit takes the list with this tab's cards from one board to the next.
LEMMA ApplyOwn ==
    ASSUME OrdinaryTab, Told, NEW n \in 1..Rev, NEW view \in Seq(Card), OwnView(view, n - 1)
    PROVE  OwnView(ApplyCommit(view, n), n)
<1> DEFINE P    == {j \in DOMAIN view : \/ view[j].iid \notin Deleted(n)
                                        \/ ~ShouldApply(view[j], NoOp)}
           kept == KeepPlaces(view, P)
           w    == CHOOSE c \in Written(n) : TRUE
           from == CompletionRekey(n)
<1>1. ApplyCommit(view, n) = IF Written(n) = {} THEN kept ELSE Upsert(kept, w, from)
  BY DEF ApplyCommit
<1>2. /\ OneEach(view) /\ \A j \in DOMAIN view : CardOwn(view[j], n - 1)
      /\ \A o \in Ops : Waits(o) => Shows(view, o)
  BY OwnViewIs
<1>3. /\ Rev \in Nat /\ RenamesTrue /\ OneWrite /\ RequestsTrue /\ TypeOK
  BY DEF Told, ServerTrue, TypeOK, Revs
<1>4. P \in SUBSET DOMAIN view
  OBVIOUS
<1>5. ASSUME NEW j \in DOMAIN view, NEW o \in Ops, view[j].op = o, Waits(o) PROVE j \in P
  <2>1. o \in mine
    BY <1>3, <1>5 DEF Waits, RequestsTrue, RequestTrue
  <2>2. o # NoOp
    BY ConstantsAssumption DEF ConstantsAssumption, AllOps
  <2> QED
    BY <2>1, <2>2, <1>5 DEF ShouldApply
<1> HIDE DEF P
<1>6. /\ kept \in Seq(Card) /\ OneEach(kept)
      /\ \A k \in DOMAIN kept : \E j \in P : kept[k] = view[j]
      /\ \A j \in P : \E k \in DOMAIN kept : kept[k] = view[j]
  BY <1>2, <1>4, KeptCards
<1> HIDE DEF kept
<1>7. \A k \in DOMAIN kept : CardOwn(kept[k], n - 1)
  BY <1>2, <1>4, <1>6
<1>8. \A o \in Ops : Waits(o) => Shows(kept, o)
  <2> SUFFICES ASSUME NEW o \in Ops, Waits(o) PROVE Shows(kept, o)
    OBVIOUS
  <2>1. PICK j \in DOMAIN view : view[j].iid = post[o].iid /\ view[j].op = o /\ view[j].val = o
    BY <1>2 DEF Shows
  <2>2. PICK k \in DOMAIN kept : kept[k] = view[j]
    BY <2>1, <1>5, <1>6
  <2> QED
    BY <2>1, <2>2 DEF Shows
<1>9. CASE Written(n) = {}
  <2>1. \A i \in Deleted(n) : ~(i < 0)
    BY <1>3, <1>9, RekeyIs
  <2>2. \A k \in DOMAIN kept : CardOwn(kept[k], n)
    BY <1>7, <1>9, <2>1, StillOwn
  <2> QED
    BY <1>1, <1>6, <1>8, <1>9, <2>2, OwnViewIs
<1>10. CASE Written(n) # {}
  <2>1. w \in Written(n)
    BY <1>10
  <2> HIDE DEF w
  <2>2. CASE \E i \in Deleted(n) : i < 0
    <3>1. PICK i \in Deleted(n) : i < 0
      BY <2>2
    <3>2. from = i
      BY <1>3, <3>1, RekeyIs
    <3>3. OwnView(Upsert(kept, w, i), n)
      BY <1>6, <1>7, <1>8, <2>1, <3>1, CompletionOwn
    <3> HIDE DEF from
    <3> QED
      BY <1>1, <1>10, <3>2, <3>3
  <2>3. CASE \A i \in Deleted(n) : ~(i < 0)
    <3>1. from = NoIid
      BY <1>3, <2>3, RekeyIs
    <3>2. OwnView(Upsert(kept, w, NoIid), n)
      BY <1>6, <1>7, <1>8, <2>1, <2>3, WriteOwn
    <3> HIDE DEF from
    <3> QED
      BY <1>1, <1>10, <3>1, <3>2
  <2> QED
    BY <2>2, <2>3
<1> QED
  BY <1>9, <1>10

\* A delta that begins at or before the checkpoint of the cache is read commit by commit.
LEMMA DeltaFolds ==
    ASSUME revision \in Nat, NEW lo \in Nat, lo <= revision, NEW to \in Nat, ~(to <= revision),
           ApplySyncActions(lo, to, FALSE)
    PROVE  revision' = to /\ \E f : Folds(f, revision, to) /\ cards' = f[to]
<1> DEFINE start == IF lo < revision THEN revision ELSE lo
           After(from) == CHOOSE f : f = [n \in from..to |->
                              IF n = from THEN cards ELSE ApplyCommit(f[n - 1], n)]
           after == After(revision)
<1>1. cards' = after[to] /\ revision' = to
  <2>1. cards' = After(start)[to] /\ revision' = to
    BY DEF ApplySyncActions
  <2>2. start = revision
    OBVIOUS
  <2> HIDE DEF After, start
  <2> QED
    BY <2>1, <2>2
<1>2. Folds(after, revision, to)
  <2>1. \E f : Folds(f, revision, to)
    BY FoldsExist
  <2> QED
    BY <2>1 DEF Folds
<1> HIDE DEF after
<1> QED
  BY <1>1, <1>2

LEMMA DeltaOwn ==
    ASSUME OrdinaryTab, Told, ViewTrue(cards, touched), BoardAtCheckpoint, OwnView(cards, revision),
           NEW lo \in Nat, lo <= revision, NEW to \in Nat, revision <= Rev, to <= Rev,
           ApplySyncActions(lo, to, FALSE)
    PROVE  OwnView(cards', revision') /\ revision' \in 0..Rev
<1>1. revision \in Nat /\ cards \in Seq(Card) /\ Rev \in Nat /\ TypeOK /\ BoardsTrue /\ OneWrite
  BY DEF Told, TypeOK, Revs
<1>2. Rest(cards) = Others(revision)
  BY DEF BoardAtCheckpoint, OthersCards, Rest, Others
<1>3. CASE to <= revision
  <2>1. cards' = cards /\ revision' = revision
    BY <1>3 DEF ApplySyncActions, cache
  <2> QED
    BY <2>1, <1>1
<1>4. CASE ~(to <= revision)
  <2>1. revision' = to /\ \E f : Folds(f, revision, to) /\ cards' = f[to]
    BY <1>1, <1>4, DeltaFolds
  <2>2. PICK f : Folds(f, revision, to) /\ cards' = f[to]
    BY <2>1
  <2>3. f = [n \in revision..to |-> IF n = revision THEN cards ELSE ApplyCommit(f[n - 1], n)]
    BY <2>2 DEF Folds
  <2> DEFINE Good(v, n) == v \in Seq(Card) /\ ViewTrue(v, touched) /\ Rest(v) = Others(n)
                           /\ OwnView(v, n)
             Bad == {n \in revision..to : ~Good(f[n], n)}
  <2>4. Bad = {}
    <3> SUFFICES ASSUME Bad # {} PROVE FALSE
      OBVIOUS
    <3>1. Bad \subseteq Nat
      BY <1>1
    <3>2. PICK n \in Bad : \A m \in Bad : n <= m
      <4> HIDE DEF Bad
      <4> QED
        BY <3>1, LeastOfNat
    <3>3. n \in revision..to /\ ~Good(f[n], n)
      OBVIOUS
    <3>4. n # revision
      <4>1. ASSUME n = revision PROVE f[n] = cards
        BY <4>1, <3>3, <2>3
      <4> QED
        BY <4>1, <3>3, <1>1, <1>2
    <3>5. n - 1 \in revision..to /\ ~(n <= n - 1) /\ n \in 1..Rev
      BY <3>3, <3>4, <1>1
    <3>6. Good(f[n - 1], n - 1)
      <4> HIDE DEF Good
      <4> QED
        BY <3>2, <3>5
    <3>7. f[n] = ApplyCommit(f[n - 1], n)
      BY <2>3, <3>3, <3>4
    <3>8. Good(ApplyCommit(f[n - 1], n), n)
      BY <1>1, <3>5, <3>6, CommitApplied, ApplyOwn
    <3> QED
      BY <3>3, <3>7, <3>8
  <2>5. to \in revision..to
    BY <1>1, <1>4
  <2>6. Good(f[to], to)
    <3> HIDE DEF Good
    <3> QED
      BY <2>4, <2>5
  <2> QED
    BY <1>1, <1>4, <2>1, <2>2, <2>6
<1> QED
  BY <1>3, <1>4

OwnInv == /\ ClientInv /\ ServerTrue /\ RequestsTrue /\ DeletesTrue /\ OwnView(cards, revision)

\* The server has stored operation o in this step.
Stores(o) == home[o] = NoIid /\ home'[o] # NoIid

\* Temporary iids go down, those of GitLab up; a new card gets the next temporary one.
GivenGrows ==
    /\ given'.temp <= given.temp /\ given.iid <= given'.iid
    /\ \A o \in Creates : Stores(o) =>
           /\ given'.temp <= Base(o)' /\ Base(o)' < given.temp /\ home'[o] = Base(o)'
           /\ \A p \in Creates : Stores(p) => o = p

\* No request is made; one that waits had waited.
PostStays ==
    \A o \in Ops :
        /\ post'[o].iid = post[o].iid
        /\ post'[o].pc = "idle" <=> post[o].pc = "idle"
        /\ post'[o].pc \in {"sent", "failing", "failed"} => post[o].pc \in {"sent", "failing", "failed"}

\* The answer to no new card is used.
DoneStays == \A o \in Creates : post'[o].pc = "done" <=> post[o].pc = "done"

\* Requests stay made; the cards of the list change at most in their state.
RequestsGo ==
    /\ \A o \in Ops : post[o].pc # "idle" => post'[o].pc # "idle" /\ post'[o].iid = post[o].iid
    /\ \A o \in Creates : post[o].pc = "done" => post'[o].pc = "done"
SameAs(c, d) == c.iid = d.iid /\ c.op = d.op /\ c.val \in {d.val, d.op}
ListStays == DOMAIN cards' = DOMAIN cards /\ \A j \in DOMAIN cards : SameAs(cards'[j], cards[j])

LEMMA OwnIsTold ==
    ASSUME OwnInv
    PROVE  /\ Told /\ TypeOK /\ CardsTrue /\ RenamesTrue /\ FirstsTrue /\ TheirsTrue
           /\ BoardsTrue /\ OneWrite /\ RequestsTrue /\ DeletesTrue
           /\ ViewTrue(cards, touched) /\ BoardAtCheckpoint /\ OwnView(cards, revision)
           /\ OneEach(cards) /\ (\A j \in DOMAIN cards : CardOwn(cards[j], revision))
           /\ (\A o \in Ops : Waits(o) => Shows(cards, o))
           /\ Rev \in Nat /\ revision \in 0..Rev /\ revision \in Nat /\ cards \in Seq(Card)
           /\ given.temp \in Int /\ given.iid \in Nat /\ TempsUsed \in Nat
           /\ given.temp <= -TempsUsed /\ nextTemp \in Int
<1>1. ClientInv /\ ServerTrue /\ RequestsTrue /\ DeletesTrue /\ OwnView(cards, revision)
  BY DEF OwnInv
<1>2. /\ Rev \in Nat /\ revision \in 0..Rev /\ revision \in Nat /\ cards \in Seq(Card)
      /\ given.temp \in Int /\ given.iid \in Nat /\ nextTemp \in Int
  BY <1>1 DEF ClientInv, TypeOK, ReadsCommitted, Revs
<1>3. TempsUsed \in Nat /\ given.temp <= -TempsUsed
  BY <1>1, ConstantsAssumption DEF ConstantsAssumption, RequestsTrue
<1> QED
  BY <1>1, <1>2, <1>3, OwnViewIs DEF ClientInv, ServerTrue, Told

\* What holds of the boards there were goes on holding.
LEMMA OldCards ==
    ASSUME OwnInv, LogGrows, StoredStays, GivenGrows, ClientInv'
    PROVE  \A n \in 0..Rev : \A c \in Board(n) : CardTrue(c, n)' /\ FirstTrue(c, n)'
<1>1. /\ given.temp \in Int /\ given.iid \in Nat /\ given'.temp \in Int /\ given'.iid \in Nat
      /\ given.temp <= -TempsUsed /\ TempsUsed \in Nat /\ TypeOK /\ CardsTrue /\ FirstsTrue
  BY OwnIsTold DEF ClientInv, TypeOK
<1> SUFFICES ASSUME NEW n \in 0..Rev, NEW c \in Board(n) PROVE CardTrue(c, n)' /\ FirstTrue(c, n)'
  OBVIOUS
<1>2. /\ CardTrue(c, n) /\ FirstTrue(c, n) /\ c \in Card /\ c.iid \in Int
  BY <1>1, BoardsTyped DEF CardsTrue, FirstsTrue, Card
<1>3. Issued(c.iid)'
  BY <1>1, <1>2 DEF CardTrue, Issued, GivenGrows
<1>4. \A o \in Ops : c.op = o \/ c.val = o => At(o, c.iid, n)'
  BY <1>2, AtStays DEF CardTrue
<1>5. CardTrue(c, n)'
  BY <1>2, <1>3, <1>4 DEF CardTrue
<1>6. FirstTrue(c, n)'
  <2> SUFFICES ASSUME NEW o \in Creates, home'[o] # NoIid, c.iid = Base(o)'
               PROVE  c.op = o \/ OnBoards(Base(o), n - 1)'
    BY DEF FirstTrue
  <2>1. CASE Stores(o)
    <3>1. Issued(c.iid) /\ Base(o)' < given.temp
      BY <1>2, <2>1 DEF CardTrue, GivenGrows
    <3> QED
      BY <1>1, <1>2, <3>1 DEF Issued
  <2>2. CASE home[o] # NoIid
    <3>1. Base(o)' = Base(o)
      BY <2>2 DEF StoredStays, Ops
    <3>2. c.op = o \/ OnBoards(Base(o), n - 1)
      BY <1>2, <2>2, <3>1 DEF FirstTrue
    <3>3. OnBoards(c.iid, n - 1) => OnBoards(c.iid, n - 1)'
      <4>1. n - 1 \in -1..Rev
        BY DEF LogGrows
      <4> QED
        BY <4>1, LogStays
    <3>4. OnBoards(c.iid, n - 1)' => OnBoards(Base(o), n - 1)'
      BY DEF OnBoards
    <3> QED
      BY <3>1, <3>2, <3>3, <3>4
  <2> QED
    BY <2>1, <2>2 DEF Stores
<1> QED
  BY <1>5, <1>6

LEMMA ServerStays ==
    ASSUME OwnInv, ClientInv', UNCHANGED <<boards, home, given>>, StoredStays
    PROVE  ServerTrue' /\ LogGrows /\ GivenGrows /\ Rev' = Rev
<1>1. Rev' = Rev /\ LogGrows
  BY OwnIsTold DEF LogGrows, Rev
<1>2. GivenGrows
  BY OwnIsTold DEF GivenGrows, Stores
<1>3. \A n \in 0..Rev : \A c \in Board(n) : CardTrue(c, n)' /\ FirstTrue(c, n)'
  BY <1>1, <1>2, OldCards
<1>4. \A n : Board(n)' = Board(n)
  BY DEF Board
<1>5. CardsTrue' /\ FirstsTrue'
  BY <1>1, <1>3, <1>4 DEF CardsTrue, FirstsTrue
<1>6. RenamesTrue' /\ TheirsTrue'
  <2>1. \A n : Deleted(n)' = Deleted(n) /\ Written(n)' = Written(n) /\ Iids(Board(n))' = Iids(Board(n))
    BY <1>4 DEF Deleted, Written, Iids
  <2>2. \A i, n : OnBoards(i, n)' <=> OnBoards(i, n)
    BY <2>1 DEF OnBoards
  <2>3. \A n \in 1..Rev : RenamedOnce(n)' <=> RenamedOnce(n)
    BY <1>1, <2>1, <2>2 DEF RenamedOnce
  <2> QED
    BY <1>1, <1>4, <2>3, OwnIsTold DEF RenamesTrue, TheirsTrue
<1> QED
  BY <1>1, <1>2, <1>5, <1>6 DEF ServerTrue

LEMMA WaitsStays ==
    ASSUME PostStays, NEW o \in Ops, Waits(o)'
    PROVE  Waits(o) /\ post'[o].iid = post[o].iid
  BY DEF PostStays, Waits

LEMMA KnownStays ==
    ASSUME OwnInv, LogGrows, StoredStays, RequestsGo, revision' = revision,
           NEW j \in DOMAIN cards, NEW k, cards'[k].iid = cards[j].iid
    PROVE  Known(cards[k], revision)'
<1> DEFINE c == cards[j]
           d == cards'[k]
<1>1. /\ revision \in 0..Rev /\ Rev \in Nat /\ Known(c, revision)
  BY OwnIsTold DEF CardOwn
<1>2. \A i : OnBoards(i, revision) => \E n \in 0..revision : i \in Iids(Board(n))'
  <2>1. \A n \in 0..revision : n \in 0..Rev
    BY <1>1
  <2>2. \A n \in 0..revision : Iids(Board(n))' = Iids(Board(n))
    BY <2>1, LogStays DEF Iids
  <2> QED
    BY <2>2 DEF OnBoards
<1>3. \/ \E n \in 0..revision : d.iid \in Iids(Board(n))'
      \/ \E o \in Creates : post'[o].pc # "idle" /\ d.iid = post'[o].iid
      \/ \E o \in Creates : post'[o].pc = "done" /\ d.iid = Base(o)'
  <2>1. CASE OnBoards(c.iid, revision)
    BY <2>1, <1>2
  <2>2. ASSUME NEW o \in Creates, post[o].pc # "idle", c.iid = post[o].iid
        PROVE  post'[o].pc # "idle" /\ d.iid = post'[o].iid
    BY <2>2 DEF RequestsGo, Ops
  <2>3. ASSUME NEW o \in Creates, post[o].pc = "done", c.iid = Base(o)
        PROVE  post'[o].pc = "done" /\ d.iid = Base(o)'
    <3>1. home[o] # NoIid
      BY <2>3, OwnIsTold DEF RequestsTrue, RequestTrue, Ops
    <3> QED
      BY <3>1, <2>3 DEF RequestsGo, StoredStays, Ops
  <2> QED
    BY <2>1, <2>2, <2>3, <1>1 DEF Known
<1>4. d.iid < 0 => ~\E m \in 1..revision : d.iid \in Deleted(m)'
  <2>1. \A m \in 1..revision : m \in 1..Rev
    BY <1>1
  <2>2. \A m \in 1..revision : Deleted(m)' = Deleted(m)
    BY <2>1, LogStays
  <2> QED
    BY <2>2, <1>1 DEF Known, Gone
<1> QED
  BY <1>3, <1>4 DEF Known, OnBoards, Gone

LEMMA CardStays ==
    ASSUME OwnInv, LogGrows, StoredStays, GivenGrows, RequestsGo, revision' = revision,
           NEW j \in DOMAIN cards, NEW k, SameAs(cards'[k], cards[j]),
           \A o \in Creates : cards[j].op = o /\ cards[j].iid = post[o].iid =>
               post'[o].pc # "done" \/ post[o].pc = "done"
    PROVE  CardOwn(cards[k], revision)'
<1> DEFINE c == cards[j]
           d == cards'[k]
<1>1. /\ revision \in 0..Rev /\ Rev \in Nat /\ TypeOK /\ CardsTrue
      /\ Named(c, revision) /\ NewCard(c, revision)
  BY OwnIsTold DEF CardOwn
<1>2. d.iid = c.iid /\ d.op = c.op /\ (d.val = c.val \/ d.val = c.op)
  BY DEF SameAs
<1>3. \A n \in 0..revision : n \in 0..Rev
  BY <1>1
<1>4. Known(cards[k], revision)'
  BY <1>2, KnownStays
<1>5. \A o \in Ops : At(o, c.iid, revision) => At(o, cards[k].iid, revision)'
  <2> SUFFICES ASSUME NEW o \in Ops, At(o, c.iid, revision) PROVE At(o, cards[k].iid, revision)'
    OBVIOUS
  <2>1. /\ home'[o] # NoIid /\ Base(o)' = Base(o)
    BY DEF At, StoredStays
  <2>2. CASE c.iid = Base(o)
    BY <2>1, <2>2, <1>2 DEF At
  <2>3. CASE Renamed(Base(o), c.iid, revision)
    <3>1. PICK m \in 1..revision : Base(o) < 0 /\ Base(o) \in Deleted(m) /\ c.iid \in Iids(Written(m))
      BY <2>3 DEF Renamed
    <3>2. m \in 1..Rev /\ m \in 1..revision'
      BY <1>1
    <3>3. Deleted(m)' = Deleted(m) /\ Iids(Written(m))' = Iids(Written(m))
      BY <3>2, LogStays DEF Iids
    <3> QED
      BY <2>1, <3>1, <3>2, <3>3, <1>2 DEF At, Renamed
  <2> QED
    BY <2>2, <2>3 DEF At
<1>6. Named(cards[k], revision)'
  <2>1. d.op # Deletion
    BY <1>1, <1>2 DEF Named
  <2>2. d.op \in Theirs => \E n \in 0..revision' : \E b \in Board(n)' : b.op = d.op /\ b.iid = d.iid
    <3>1. \A n \in 0..revision : Board(n)' = Board(n)
      BY <1>3, LogStays
    <3> QED
      BY <3>1, <1>1, <1>2 DEF Named
  <2>3. \A o \in Ops : d.op = o \/ d.val = o =>
            post'[o].pc # "idle" /\ (d.iid = post'[o].iid \/ At(o, cards[k].iid, revision)')
    BY <1>1, <1>2, <1>5 DEF Named, RequestsGo
  <2> QED
    BY <2>1, <2>2, <2>3 DEF Named
<1>7. NewCard(cards[k], revision)'
  <2> SUFFICES ASSUME NEW o \in Creates, d.op = o \/ d.val = o, d.iid = post'[o].iid
               PROVE  /\ d.op = o
                      /\ post'[o].pc # "done" /\ (home'[o] # NoIid => ~OnBoards(Base(o), revision)')
    BY <1>1, <1>2 DEF NewCard
  <2>1. post[o].pc # "idle" /\ c.iid = post[o].iid
    BY <1>1, <1>2 DEF Named, RequestsGo, Ops
  <2>2. c.op = o
    BY <2>1, <1>1, <1>2 DEF NewCard
  <2>3. post'[o].pc # "done" /\ (home[o] # NoIid => ~OnBoards(Base(o), revision))
    BY <2>1, <2>2, <1>1 DEF NewCard
  <2>4. ASSUME home'[o] # NoIid PROVE ~OnBoards(Base(o), revision)'
    <3>1. \A n \in 0..revision : Iids(Board(n))' = Iids(Board(n))
      BY <1>3, LogStays DEF Iids
    <3>2. OnBoards(Base(o), revision)' => OnBoards(Base(o)', revision)
      BY <3>1 DEF OnBoards
    <3>3. CASE home[o] # NoIid
      <4>1. Base(o)' = Base(o) /\ ~OnBoards(Base(o), revision)
        BY <2>3, <3>3 DEF StoredStays, Ops
      <4> QED
        BY <3>2, <4>1
    <3>4. CASE home[o] = NoIid
      <4>1. Base(o)' < given.temp
        BY <2>4, <3>4 DEF GivenGrows, Stores
      <4>2. ASSUME OnBoards(Base(o)', revision) PROVE FALSE
        <5>1. Base(o)' \in Int /\ Issued(Base(o)')
          BY <4>2, <1>1, BoardIids
        <5>2. given.temp \in Int /\ given.temp <= -TempsUsed /\ TempsUsed \in Nat
          BY OwnIsTold
        <5> QED
          BY <4>1, <5>1, <5>2 DEF Issued
      <4> QED
        BY <3>2, <4>2
    <3> QED
      BY <3>3, <3>4
  <2> QED
    BY <1>2, <2>2, <2>3, <2>4
<1> QED
  BY <1>4, <1>6, <1>7 DEF CardOwn

\* The list keeps its cards while the requests and the server move on.
LEMMA ViewStays ==
    ASSUME OwnInv, LogGrows, StoredStays, GivenGrows, PostStays, DoneStays, ListStays,
           revision' = revision
    PROVE  OwnView(cards, revision)'
<1>1. OneEach(cards) /\ \A o \in Ops : Waits(o) => Shows(cards, o)
  BY OwnIsTold
<1>2. OneEach(cards)'
  BY <1>1 DEF OneEach, ListStays, SameAs
<1>3. RequestsGo
  BY DEF PostStays, DoneStays, RequestsGo, Ops
<1>4. \A j \in DOMAIN cards' : CardOwn(cards[j], revision)'
  <2> TAKE j \in DOMAIN cards'
  <2>1. j \in DOMAIN cards /\ SameAs(cards'[j], cards[j])
    BY DEF ListStays
  <2>2. \A o \in Creates : post'[o].pc # "done" \/ post[o].pc = "done"
    BY DEF DoneStays
  <2> QED
    BY <2>1, <2>2, <1>3, CardStays
<1>5. \A o \in Ops : Waits(o)' => Shows(cards, o)'
  <2> SUFFICES ASSUME NEW o \in Ops, Waits(o)' PROVE Shows(cards, o)'
    OBVIOUS
  <2>1. Waits(o) /\ post'[o].iid = post[o].iid
    BY WaitsStays
  <2>2. PICK j \in DOMAIN cards : cards[j].iid = post[o].iid /\ cards[j].op = o /\ cards[j].val = o
    BY <2>1, <1>1 DEF Shows
  <2>3. j \in DOMAIN cards' /\ cards'[j].iid = post'[o].iid /\ cards'[j].op = o /\ cards'[j].val = o
    BY <2>1, <2>2 DEF ListStays, SameAs
  <2> QED
    BY <2>3 DEF Shows
<1> QED
  BY <1>2, <1>4, <1>5 DEF OwnView, CardOwn

\* A stored operation is where it was, or its temporary card has been completed.
HomesMove == \A o \in Creates : home[o] # NoIid =>
                 home'[o] = home[o] \/ Renamed(Base(o), home[o], Rev)'

LEMMA RequestsStay ==
    ASSUME OwnInv, ClientInv', LogGrows, StoredStays, GivenGrows, HomesMove, nextTemp' = nextTemp,
           \A o \in Creates : /\ post'[o].iid = post[o].iid
                              /\ post'[o].pc = "idle" <=> post[o].pc = "idle",
           \A o \in Ops : RequestTrue(o)'
    PROVE  RequestsTrue'
<1>1. /\ given.temp \in Int /\ given'.temp \in Int /\ given.temp <= -TempsUsed /\ TempsUsed \in Nat
      /\ RequestsTrue /\ TypeOK /\ Rev \in Nat
  BY OwnIsTold DEF ClientInv, TypeOK
<1>2. \A o \in Creates : o \in Ops /\ CreateTrue(o) /\ post'[o].iid = post[o].iid
                         /\ (post'[o].pc = "idle" <=> post[o].pc = "idle")
  BY <1>1 DEF RequestsTrue, Ops
<1>3. \A o \in Creates : home[o] # NoIid => Base(o) \in Int /\ Base(o)' = Base(o)
  BY <1>1, <1>2 DEF StoredStays, Base, TypeOK, Post, Card
<1>9. \A o \in Creates : Base(o)' \in Int
  BY <1>2 DEF ClientInv, Base, TypeOK, Post, Card
<1>4. ASSUME NEW o \in Creates PROVE CreateTrue(o)'
  <2>1. post'[o].pc # "idle" => nextTemp' < post'[o].iid /\ post'[o].iid < 0
    BY <1>2 DEF CreateTrue
  <2>2. ASSUME home'[o] # NoIid PROVE given'.temp <= Base(o)' /\ Base(o)' < -TempsUsed
    <3>1. CASE home[o] # NoIid
      BY <3>1, <1>1, <1>2, <1>3 DEF CreateTrue, GivenGrows
    <3>2. CASE Stores(o)
      BY <3>2, <1>1, <1>9 DEF GivenGrows
    <3> QED
      BY <3>1, <3>2, <2>2 DEF Stores
  <2>3. ASSUME home'[o] # NoIid PROVE (home[o] = Base(o) \/ Renamed(Base(o), home[o], Rev))'
    <3>1. CASE Stores(o)
      BY <3>1 DEF GivenGrows
    <3>2. CASE home[o] # NoIid /\ home'[o] = home[o]
      <4>1. CASE home[o] = Base(o)
        BY <3>2, <4>1, <1>3
      <4>2. CASE Renamed(Base(o), home[o], Rev)
        <5>1. PICK m \in 1..Rev : Base(o) < 0 /\ Base(o) \in Deleted(m) /\ home[o] \in Iids(Written(m))
          BY <4>2 DEF Renamed
        <5>2. Deleted(m)' = Deleted(m) /\ Iids(Written(m))' = Iids(Written(m))
          BY LogStays DEF Iids
        <5>3. m \in 1..Rev'
          BY DEF LogGrows
        <5> QED
          BY <3>2, <5>1, <5>2, <5>3, <1>3 DEF Renamed
      <4> QED
        BY <3>2, <4>1, <4>2, <1>2 DEF CreateTrue
    <3>3. CASE home[o] # NoIid /\ Renamed(Base(o), home[o], Rev)'
      BY <3>3
    <3> QED
      BY <3>1, <3>2, <3>3, <2>3 DEF HomesMove, Stores
  <2> QED
    BY <2>1, <2>2, <2>3 DEF CreateTrue
<1>5. ASSUME NEW o \in Creates, NEW p \in Creates
      PROVE  /\ post'[o].pc # "idle" /\ post'[o].iid = post'[p].iid => o = p
             /\ home'[o] # NoIid /\ home'[p] # NoIid /\ Base(o)' = Base(p)' => o = p
  <2>1. post'[o].pc # "idle" /\ post'[o].iid = post'[p].iid => o = p
    BY <1>1, <1>2 DEF RequestsTrue
  <2>2. ASSUME home'[o] # NoIid, home'[p] # NoIid, Base(o)' = Base(p)' PROVE o = p
    <3>1. CASE Stores(o) /\ Stores(p)
      BY <3>1 DEF GivenGrows
    <3>2. CASE home[o] # NoIid /\ home[p] # NoIid
      BY <3>2, <2>2, <1>1, <1>3 DEF RequestsTrue
    <3>3. CASE Stores(o) /\ home[p] # NoIid
      BY <3>3, <2>2, <1>1, <1>2, <1>3 DEF GivenGrows, CreateTrue
    <3>4. CASE Stores(p) /\ home[o] # NoIid
      BY <3>4, <2>2, <1>1, <1>2, <1>3 DEF GivenGrows, CreateTrue
    <3> QED
      BY <3>1, <3>2, <3>3, <3>4, <2>2 DEF Stores
  <2> QED
    BY <2>1, <2>2
<1>6. Started' = Started
  BY <1>2 DEF Started
<1>7. nextTemp' = -1 - Cardinality(Started') /\ given'.temp <= -TempsUsed
  <2>1. nextTemp = -1 - Cardinality(Started)
    BY <1>1 DEF RequestsTrue
  <2> QED
    BY <2>1, <1>1, <1>6 DEF GivenGrows
<1> QED
  BY <1>4, <1>5, <1>7 DEF RequestsTrue

\* What a step that starts no request leaves to show.
LEMMA OwnStays ==
    ASSUME OwnInv, ClientInv', LogGrows, StoredStays, GivenGrows, PostStays, DoneStays, HomesMove,
           ListStays, UNCHANGED <<revision, nextTemp>>, \A o \in Ops : RequestTrue(o)', ServerTrue',
           \A d \in deleting' : \E e \in deleting : d.iid = e.iid
    PROVE  OwnInv'
<1>1. OwnView(cards, revision)'
  BY ViewStays
<1>2. RequestsTrue'
  BY RequestsStay DEF PostStays, Ops
<1>3. DeletesTrue'
  <2>1. DeletesTrue
    BY OwnIsTold
  <2> SUFFICES ASSUME NEW d \in deleting'
               PROVE  d.iid > 0 /\ \A o \in Ops : Waits(o)' => d.iid # post'[o].iid
    BY DEF DeletesTrue
  <2>2. PICK e \in deleting : d.iid = e.iid
    OBVIOUS
  <2>3. \A o \in Ops : Waits(o)' => d.iid # post'[o].iid
    BY <2>1, <2>2, WaitsStays DEF DeletesTrue
  <2> QED
    BY <2>1, <2>2, <2>3 DEF DeletesTrue
<1> QED
  BY <1>1, <1>2, <1>3 DEF OwnInv

\* A step in which the server commits nothing.
LEMMA QuietOwn ==
    ASSUME OwnInv, ClientInv', UNCHANGED <<boards, home, given>>, PostStays, DoneStays, ListStays,
           UNCHANGED <<revision, nextTemp>>, \A o \in Ops : RequestTrue(o)',
           \A o \in Ops : post'[o].card = post[o].card,
           \A d \in deleting' : \E e \in deleting : d.iid = e.iid
    PROVE  OwnInv'
<1>1. StoredStays
  BY DEF StoredStays, Base
<1>2. ServerTrue' /\ LogGrows /\ GivenGrows
  BY <1>1, ServerStays
<1>3. HomesMove
  BY DEF HomesMove
<1> QED
  BY <1>1, <1>2, <1>3, OwnStays

LEMMA PostUnchanged ==
    ASSUME OwnInv, UNCHANGED <<post, mine, home>>
    PROVE  PostStays /\ DoneStays /\ \A o \in Ops : RequestTrue(o)' /\ post'[o].card = post[o].card
  BY OwnIsTold DEF PostStays, DoneStays, RequestsTrue, RequestTrue, Base

LEMMA ListUnchanged == ASSUME UNCHANGED cards PROVE ListStays
  BY DEF ListStays, SameAs

LEMMA NothingOwn ==
    ASSUME OwnInv, ClientInv', UNCHANGED <<boards, home, given, cards, revision, mine, post, nextTemp>>,
           \A d \in deleting' : \E e \in deleting : d.iid = e.iid
    PROVE  OwnInv'
  BY PostUnchanged, ListUnchanged, QuietOwn

LEMMA OwnIsClient == ASSUME OwnInv PROVE ClientInv
  BY DEF OwnInv

LEMMA PatchedList ==
    ASSUME OwnInv, NEW P, NEW state, PatchCards(P, state)
    PROVE  ListStays
<1>1. cards \in Seq(Card)
  BY OwnIsTold
<1>2. \A j \in DOMAIN cards : cards[j] \in Card
  BY <1>1
<1> QED
  BY <1>2 DEF PatchCards, ListStays, SameAs, Card

\* A request ends unheard before the server has stored its operation.
LEMMA UnheardOwn ==
    ASSUME OwnInv, ClientInv', NEW o \in Ops, home[o] = NoIid, Refuse(o) \/ RequestLost(o)
    PROVE  OwnInv'
<1>1. /\ UNCHANGED <<boards, home, given, cards, revision, mine, nextTemp, deleting>>
      /\ post[o].pc \in {"sent", "answered"}
      /\ post' = [post EXCEPT ![o].pc = "failing"]
  BY DEF Refuse, RequestLost, server, client, cache
<1>2. post \in [Ops -> Post] /\ \A p \in Ops : RequestTrue(p)
  BY OwnIsTold DEF TypeOK, RequestsTrue
<1>3. post[o].pc = "sent"
  BY <1>1, <1>2 DEF RequestTrue
<1>4. \A p \in Ops : /\ post'[p].iid = post[p].iid /\ post'[p].card = post[p].card
                     /\ post'[p].pc = IF p = o THEN "failing" ELSE post[p].pc
  BY <1>1, <1>2 DEF Post
<1>5. PostStays /\ DoneStays
  BY <1>3, <1>4 DEF PostStays, DoneStays, Ops
<1>6. \A p \in Ops : RequestTrue(p)'
  BY <1>1, <1>2, <1>3, <1>4 DEF RequestTrue, Base
<1> QED
  BY <1>1, <1>4, <1>5, <1>6, ListUnchanged, OwnIsClient, QuietOwn

LEMMA PostFailsOwn == ASSUME OwnInv, ClientInv', NEW o \in Ops, PostFails(o) PROVE OwnInv'
<1>1. /\ UNCHANGED <<boards, home, given, revision, nextTemp, deleting>>
      /\ post[o].pc = "failing" /\ mine' = mine \cup {o}
      /\ PatchCards({j \in PlacesOf(post[o].iid) : cards[j].op = o}, "failed")
      /\ post' = [post EXCEPT ![o].pc = "failed"]
  BY DEF PostFails, server
<1>2. post \in [Ops -> Post] /\ \A p \in Ops : RequestTrue(p)
  BY OwnIsTold DEF TypeOK, RequestsTrue
<1>3. \A p \in Ops : /\ post'[p].iid = post[p].iid /\ post'[p].card = post[p].card
                     /\ post'[p].pc = IF p = o THEN "failed" ELSE post[p].pc
  BY <1>1, <1>2 DEF Post
<1>4. PostStays /\ DoneStays
  BY <1>1, <1>3 DEF PostStays, DoneStays, Ops
<1>5. \A p \in Ops : RequestTrue(p)'
  BY <1>1, <1>2, <1>3 DEF RequestTrue, Base
<1>6. ListStays
  BY <1>1, PatchedList
<1> QED
  BY <1>1, <1>3, <1>4, <1>5, <1>6, OwnIsClient, QuietOwn

LEMMA RetryOwn == ASSUME OwnInv, ClientInv', NEW c \in ToSet(cards), Retry(c) PROVE OwnInv'
<1>1. /\ UNCHANGED <<boards, home, given, revision, mine, nextTemp, deleting>>
      /\ PatchCards(PlacesOf(c.iid), "pending")
  BY DEF Retry, server
<1>2. post \in [Ops -> Post] /\ (\A p \in Ops : RequestTrue(p)) /\ mine \subseteq Ops
  BY OwnIsTold DEF TypeOK, RequestsTrue
<1>3. ListStays
  BY <1>1, PatchedList
<1>4. CASE c.op \in mine
  <2>1. post[c.op].pc = "failed" /\ post' = [post EXCEPT ![c.op].pc = "sent"] /\ c.op \in Ops
    BY <1>2, <1>4 DEF Retry
  <2>2. \A p \in Ops : /\ post'[p].iid = post[p].iid /\ post'[p].card = post[p].card
                       /\ post'[p].pc = IF p = c.op THEN "sent" ELSE post[p].pc
    BY <1>2, <2>1 DEF Post
  <2>3. PostStays /\ DoneStays
    BY <2>1, <2>2 DEF PostStays, DoneStays, Ops
  <2>4. \A p \in Ops : RequestTrue(p)'
    BY <1>1, <1>2, <2>1, <2>2 DEF RequestTrue, Base
  <2> QED
    BY <1>1, <1>3, <2>2, <2>3, <2>4, OwnIsClient, QuietOwn
<1>5. CASE c.op \notin mine
  <2>1. UNCHANGED <<post, mine, home>>
    BY <1>1, <1>5 DEF Retry
  <2> QED
    BY <1>1, <1>3, <2>1, PostUnchanged, OwnIsClient, QuietOwn
<1> QED
  BY <1>4, <1>5

LEMMA RetryFailsOwn ==
    ASSUME OwnInv, ClientInv', NEW r \in retrying, RetryRefused(r) \/ RetryLost(r) PROVE OwnInv'
<1>1. /\ UNCHANGED <<boards, home, given, revision, mine, post, nextTemp, deleting>>
      /\ PatchCards(PlacesOf(r.iid), "failed")
  BY DEF RetryRefused, RetryLost, RetryFails, server
<1> QED
  BY <1>1, PatchedList, PostUnchanged, OwnIsClient, QuietOwn

LEMMA RetryAnsweredOwn == ASSUME OwnInv, ClientInv', NEW r \in retrying, RetryAnswered(r) PROVE OwnInv'
<1>1. /\ UNCHANGED <<boards, home, given, cards, revision, mine, post, nextTemp>>
      /\ UNCHANGED deleting
  BY DEF RetryAnswered, server, cache
<1> QED
  BY <1>1, OwnIsClient, NothingOwn

LEMMA DeletionDoneOwn == ASSUME OwnInv, ClientInv', NEW c \in hidden, DeletionDone(c) PROVE OwnInv'
<1>1. /\ UNCHANGED <<boards, home, given, cards, revision, mine, post, nextTemp>>
      /\ UNCHANGED deleting
  BY DEF DeletionDone, client, cache
<1> QED
  BY <1>1, OwnIsClient, NothingOwn

LEMMA RefuseDeleteOwn == ASSUME OwnInv, ClientInv', NEW d \in deleting, RefuseDelete(d) PROVE OwnInv'
<1>1. /\ UNCHANGED <<boards, home, given, cards, revision, mine, post, nextTemp>>
      /\ deleting' = deleting \ {d}
  BY DEF RefuseDelete, server, client, cache
<1>2. \A f \in deleting' : \E e \in deleting : f.iid = e.iid
  BY <1>1
<1> QED
  BY <1>1, <1>2, OwnIsClient, NothingOwn

LEMMA ReadsOwn ==
    ASSUME OwnInv, ClientInv',
           CatchUpAnswered \/ Visible \/ Heartbeat \/ StreamDrops \/ StreamOpens \/ Drag \/ UNCHANGED vars
    PROVE  OwnInv'
<1>1. /\ UNCHANGED <<boards, home, given, cards, revision, mine, post, nextTemp>>
      /\ UNCHANGED deleting
  BY DEF CatchUpAnswered, Visible, Heartbeat, StreamDrops, StreamOpens, Drag, DragStart, DragEnd,
         vars, server, cache, edits
<1> QED
  BY <1>1, NothingOwn

\* A card that is asked to be deleted shows no edit of this tab.
LEMMA DeleteOwn == ASSUME OwnInv, ClientInv', NEW c \in ToSet(cards), Delete(c) PROVE OwnInv'
<1>1. /\ UNCHANGED <<boards, home, given, cards, revision, mine, post, nextTemp>>
      /\ deleting' = deleting \cup {[iid |-> c.iid, done |-> FALSE]}
      /\ c.iid > 0 /\ c.op \notin Ops /\ Spend("deletes")
  BY DEF Delete, server, cache
<1>2. PostStays /\ DoneStays /\ ListStays /\ \A o \in Ops : RequestTrue(o)' /\ post'[o].card = post[o].card
  BY <1>1, PostUnchanged, ListUnchanged
<1>3. LogGrows /\ StoredStays /\ GivenGrows /\ ServerTrue' /\ HomesMove
  <2>1. StoredStays
    BY <1>1, <1>2 DEF StoredStays, Base
  <2> QED
    BY <1>1, <2>1, ServerStays DEF HomesMove
<1>4. OwnView(cards, revision)' /\ RequestsTrue'
  BY <1>1, <1>2, <1>3, ViewStays, RequestsStay DEF PostStays, Ops
<1>5. ASSUME NEW o \in Ops, Waits(o) PROVE c.iid # post[o].iid
  <2>1. PICK j \in DOMAIN cards : cards[j].iid = post[o].iid /\ cards[j].op = o
    BY <1>5, OwnIsTold DEF Shows
  <2>2. PICK k \in DOMAIN cards : cards[k] = c
    BY DEF ToSet
  <2>3. c.iid = post[o].iid => j = k
    BY <2>1, <2>2, OwnIsTold DEF OneEach
  <2> QED
    BY <2>1, <2>2, <2>3, <1>1
<1>6. DeletesTrue'
  <2> SUFFICES ASSUME NEW d \in deleting'
               PROVE  d.iid > 0 /\ \A o \in Ops : Waits(o)' => d.iid # post'[o].iid
    BY DEF DeletesTrue
  <2>1. CASE d \in deleting
    BY <2>1, <1>2, OwnIsTold, WaitsStays DEF DeletesTrue
  <2>2. CASE d = [iid |-> c.iid, done |-> FALSE]
    <3>1. d.iid = c.iid
      BY <2>2
    <3> QED
      BY <3>1, <1>1, <1>2, <1>5, WaitsStays
  <2> QED
    BY <2>1, <2>2, <1>1
<1> QED
  BY <1>3, <1>4, <1>6 DEF OwnInv

LEMMA ViewIs ==
    ASSUME OneEach(cards)', \A k \in DOMAIN cards' : CardOwn(cards[k], revision)',
           \A o \in Ops : Waits(o)' => Shows(cards, o)'
    PROVE  OwnView(cards, revision)'
  BY DEF OwnView, CardOwn

\* An operation that begins has had no iid: another that waits had waited.
LEMMA OthersWaited ==
    ASSUME OwnInv, NEW o \in Ops, post[o].pc = "idle", NEW p \in Ops, p # o,
           \A q \in Ops \ {o} : post'[q] = post[q], Waits(p)'
    PROVE  Waits(p) /\ post'[p].iid = post[p].iid /\ post'[o].iid # post[p].iid
<1>1. /\ post[o].iid = NoIid /\ post'[p] = post[p] /\ post \in [Ops -> Post] /\ RequestsTrue
  BY OwnIsTold DEF RequestsTrue, RequestTrue, TypeOK
<1>2. /\ post[p].pc \in {"sent", "failing", "failed"} /\ (post[p].iid > 0 \/ p \in Creates)
      /\ \A q \in Ops \ {p} : post'[q].iid # post[p].iid
  BY <1>1 DEF Waits
<1>3. post[p].iid # NoIid
  <2>1. p \in Creates => post[p].iid < 0
    BY <1>1, <1>2 DEF RequestsTrue, CreateTrue
  <2>2. post[p].iid \in Int
    BY <1>1 DEF Post
  <2> QED
    BY <1>2, <2>1, <2>2 DEF NoIid
<1>4. \A q \in Ops \ {p} : post[q].iid # post[p].iid
  <2> TAKE q \in Ops \ {p}
  <2>1. CASE q = o
    BY <2>1, <1>1, <1>3
  <2>2. CASE q # o
    <3>1. post'[q] = post[q]
      BY <2>2
    <3> QED
      BY <3>1, <1>2
  <2> QED
    BY <2>1, <2>2
<1> QED
  BY <1>1, <1>2, <1>4 DEF Waits

LEMMA EditOwn ==
    ASSUME OwnInv, ClientInv', NEW o \in Ops, NEW c \in ToSet(cards), Edit(o, c) PROVE OwnInv'
<1> DEFINE n == CardOf(c.iid, o, "pending", o)
<1>1. /\ UNCHANGED <<boards, home, given, revision, nextTemp, deleting>>
      /\ o \in Updates /\ post[o].pc = "idle" /\ ~BeingDeleted(c)
      /\ ReplaceCards(PlacesOf(c.iid), n) /\ mine' = mine \cup {o}
      /\ post' = [post EXCEPT ![o] = [pc |-> "sent", iid |-> c.iid, card |-> NoCard]]
  BY DEF Edit, server
<1>2. post \in [Ops -> Post] /\ RequestsTrue /\ (\A p \in Ops : RequestTrue(p)) /\ o \notin Creates
  BY <1>1, OwnIsTold, ConstantsAssumption DEF TypeOK, RequestsTrue, ConstantsAssumption
<1>3. /\ \A p \in Ops \ {o} : post'[p] = post[p]
      /\ post'[o].pc = "sent" /\ post'[o].iid = c.iid /\ home[o] = NoIid
  <2>1. post'[o] = [pc |-> "sent", iid |-> c.iid, card |-> NoCard]
    BY <1>1, <1>2
  <2> QED
    BY <2>1, <1>1, <1>2 DEF RequestTrue
<1>4. /\ DOMAIN cards' = DOMAIN cards
      /\ \A j \in DOMAIN cards : cards'[j] = IF cards[j].iid = c.iid THEN n ELSE cards[j]
      /\ n.iid = c.iid /\ n.op = o /\ n.val = o
  BY <1>1, OwnIsTold DEF ReplaceCards, PlacesOf, CardOf
<1> HIDE DEF n
<1>5. StoredStays /\ RequestsGo
  BY <1>1, <1>3 DEF StoredStays, RequestsGo, Base, Ops
<1>6. ServerTrue' /\ LogGrows /\ GivenGrows
  BY <1>1, <1>5, ServerStays
<1>7. \A p \in Ops : RequestTrue(p)'
  <2> TAKE p \in Ops
  <2>1. CASE p = o
    BY <2>1, <1>1, <1>3 DEF RequestTrue
  <2>2. CASE p # o
    <3>1. post'[p] = post[p] /\ RequestTrue(p)
      BY <2>2, <1>2, <1>3
    <3> QED
      BY <2>2, <3>1, <1>1 DEF RequestTrue, Base
  <2> QED
    BY <2>1, <2>2
<1>8. RequestsTrue'
  <2>1. HomesMove
    BY <1>1 DEF HomesMove
  <2>2. \A p \in Creates : post'[p].iid = post[p].iid /\ (post'[p].pc = "idle" <=> post[p].pc = "idle")
    BY <1>2, <1>3 DEF Ops
  <2> QED
    BY <2>1, <2>2, <1>1, <1>5, <1>6, <1>7, RequestsStay
<1>9. \A p \in Ops \ {o} : Waits(p)' => Waits(p) /\ post'[p].iid = post[p].iid /\ c.iid # post[p].iid
  BY <1>1, <1>3, OthersWaited
<1>10. \A k \in DOMAIN cards' : CardOwn(cards[k], revision)'
  <2> TAKE k \in DOMAIN cards'
  <2>1. CASE cards[k].iid # c.iid
    <3>1. k \in DOMAIN cards /\ SameAs(cards'[k], cards[k])
      BY <2>1, <1>4 DEF SameAs
    <3>2. \A p \in Creates : post'[p].pc # "done" \/ post[p].pc = "done"
      BY <1>2, <1>3 DEF Ops
    <3> QED
      BY <3>1, <3>2, <1>1, <1>5, <1>6, CardStays
  <2>2. CASE cards[k].iid = c.iid
    <3>1. k \in DOMAIN cards /\ cards'[k].iid = c.iid /\ cards'[k].op = o /\ cards'[k].val = o
      BY <2>2, <1>4
    <3>2. Known(cards[k], revision)'
      BY <3>1, <2>2, <1>1, <1>5, <1>6, KnownStays
    <3>3. o \notin Theirs /\ o # Deletion
      BY OpIsOwn, ConstantsAssumption DEF ConstantsAssumption
    <3>4. Named(cards[k], revision)' /\ NewCard(cards[k], revision)'
      BY <3>1, <3>3, <1>2, <1>3 DEF Named, NewCard
    <3> QED
      BY <3>2, <3>4 DEF CardOwn
  <2> QED
    BY <2>1, <2>2
<1>11. OneEach(cards)'
  <2>1. \A j \in DOMAIN cards : cards'[j].iid = cards[j].iid
    BY <1>4
  <2> QED
    BY <2>1, <1>4, OwnIsTold DEF OneEach
<1>12. \A p \in Ops : Waits(p)' => Shows(cards, p)'
  <2> SUFFICES ASSUME NEW p \in Ops, Waits(p)' PROVE Shows(cards, p)'
    OBVIOUS
  <2>1. CASE p = o
    <3>1. PICK k \in DOMAIN cards : cards[k] = c
      BY DEF ToSet
    <3>2. k \in DOMAIN cards' /\ cards'[k].iid = c.iid /\ cards'[k].op = o /\ cards'[k].val = o
      BY <3>1, <1>4
    <3> QED
      BY <2>1, <3>2, <1>3 DEF Shows
  <2>2. CASE p # o
    <3>1. Waits(p) /\ post'[p].iid = post[p].iid /\ c.iid # post[p].iid
      BY <2>2, <1>9
    <3>2. PICK j \in DOMAIN cards : cards[j].iid = post[p].iid /\ cards[j].op = p /\ cards[j].val = p
      BY <3>1, OwnIsTold DEF Shows
    <3>3. j \in DOMAIN cards' /\ cards'[j] = cards[j]
      BY <3>1, <3>2, <1>4
    <3> QED
      BY <3>1, <3>2, <3>3 DEF Shows
  <2> QED
    BY <2>1, <2>2
<1>13. DeletesTrue'
  <2>1. \A d \in deleting : d.iid > 0 /\ d.iid # c.iid /\ \A p \in Ops : Waits(p) => d.iid # post[p].iid
    BY <1>1, OwnIsTold DEF DeletesTrue, BeingDeleted
  <2>2. \A d \in deleting, p \in Ops : Waits(p)' => d.iid # post'[p].iid
    <3> SUFFICES ASSUME NEW d \in deleting, NEW p \in Ops, Waits(p)' PROVE d.iid # post'[p].iid
      OBVIOUS
    <3>1. CASE p = o
      BY <3>1, <2>1, <1>3
    <3>2. CASE p # o
      BY <3>2, <2>1, <1>9
    <3> QED
      BY <3>1, <3>2
  <2> QED
    BY <2>1, <2>2, <1>1 DEF DeletesTrue
<1> QED
  BY <1>1, <1>6, <1>8, <1>10, <1>11, <1>12, <1>13, ViewIs, OwnIsClient DEF OwnInv

\* The answer to an edit repeats what the card shows.
LEMMA UpdateSucceedsOwn ==
    ASSUME OwnInv, ClientInv', NEW o \in Updates, PostSucceeds(o) PROVE OwnInv'
<1> DEFINE P == {j \in PlacesOf(post[o].iid) : Completes(cards[j], o)}
<1>1. /\ UNCHANGED <<boards, home, given, revision, nextTemp, deleting>>
      /\ post[o].pc = "answered" /\ mine' = mine \ {o}
      /\ ReplaceCards(P, post[o].card) /\ post' = [post EXCEPT ![o].pc = "done"]
  BY DEF PostSucceeds, server
<1>2. /\ post \in [Ops -> Post] /\ (\A p \in Ops : RequestTrue(p))
      /\ o \in Ops /\ o \notin Creates
  BY OwnIsTold, ConstantsAssumption DEF TypeOK, RequestsTrue, Ops, ConstantsAssumption
<1>3. \A p \in Ops : /\ post'[p].iid = post[p].iid /\ post'[p].card = post[p].card
                     /\ post'[p].pc = IF p = o THEN "done" ELSE post[p].pc
  BY <1>1, <1>2 DEF Post
<1>4. PostStays /\ DoneStays
  BY <1>1, <1>2, <1>3 DEF PostStays, DoneStays, Ops
<1>5. \A p \in Ops : RequestTrue(p)'
  BY <1>1, <1>2, <1>3 DEF RequestTrue, Base
<1>6. post[o].card.iid = post[o].iid /\ post[o].card.op = o /\ post[o].card.val = o
  <2>1. RequestTrue(o) /\ home[o] # NoIid
    BY <1>1, <1>2 DEF RequestTrue
  <2> QED
    BY <2>1 DEF RequestTrue, Base
<1>7. ListStays
  <2>1. /\ DOMAIN cards' = DOMAIN cards
        /\ \A j \in DOMAIN cards : cards'[j] = IF j \in P THEN post[o].card ELSE cards[j]
    BY <1>1, OwnIsTold DEF ReplaceCards
  <2>2. \A j \in P : cards[j].iid = post[o].iid /\ cards[j].op = o
    BY DEF PlacesOf, Completes
  <2> QED
    BY <2>1, <2>2, <1>6 DEF ListStays, SameAs
<1> QED
  BY <1>1, <1>3, <1>4, <1>5, <1>7, OwnIsClient, QuietOwn

\* The answer to a new card puts the stored card in the place of the one shown.
LEMMA CreateSucceedsOwn ==
    ASSUME OrdinaryTab, OwnInv, ClientInv', NEW o \in Creates, PostSucceeds(o) PROVE OwnInv'
<1> DEFINE P == {j \in PlacesOf(post[o].iid) : Completes(cards[j], o)}
           w == post[o].card
<1>1. /\ UNCHANGED <<boards, home, given, revision, nextTemp, deleting>>
      /\ post[o].pc = "answered" /\ mine' = mine \ {o}
      /\ ReplaceCards(P, w) /\ post' = [post EXCEPT ![o].pc = "done"]
  BY DEF PostSucceeds, server
<1>2. /\ post \in [Ops -> Post] /\ (\A p \in Ops : RequestTrue(p)) /\ o \in Ops
      /\ Told /\ TypeOK /\ RequestsTrue /\ revision \in 0..Rev /\ Rev \in Nat
  BY OwnIsTold DEF TypeOK, RequestsTrue, Ops
<1>3. \A p \in Ops : /\ post'[p].iid = post[p].iid /\ post'[p].card = post[p].card
                     /\ post'[p].pc = IF p = o THEN "done" ELSE post[p].pc
  BY <1>1, <1>2 DEF Post
<1>4. PostStays
  BY <1>1, <1>3 DEF PostStays
<1>5. \A p \in Ops : RequestTrue(p)'
  BY <1>1, <1>2, <1>3 DEF RequestTrue, Base
<1>6. /\ home[o] # NoIid /\ w.iid = Base(o) /\ w.op = o /\ w.val = o
      /\ \A p \in Creates : post[p].pc # "idle" => Base(o) # post[p].iid
  BY <1>1, <1>2, StoredOps DEF RequestTrue, Base
<1>7. /\ DOMAIN cards' = DOMAIN cards
      /\ \A j \in DOMAIN cards : cards'[j] = IF j \in P THEN w ELSE cards[j]
      /\ \A j \in DOMAIN cards : j \in P <=> cards[j].iid = post[o].iid /\ cards[j].op = o
  BY <1>1, OwnIsTold DEF ReplaceCards, PlacesOf, Completes
<1> HIDE DEF P, w
<1>8. StoredStays /\ RequestsGo
  BY <1>1, <1>3 DEF StoredStays, RequestsGo, Base, Ops
<1>9. ServerTrue' /\ LogGrows /\ GivenGrows
  BY <1>1, <1>8, ServerStays
<1>10. RequestsTrue'
  <2>1. HomesMove
    BY <1>1 DEF HomesMove
  <2>2. \A p \in Creates : post'[p].iid = post[p].iid /\ (post'[p].pc = "idle" <=> post[p].pc = "idle")
    BY <1>1, <1>3 DEF Ops
  <2> QED
    BY <2>1, <2>2, <1>1, <1>5, <1>8, <1>9, RequestsStay
<1>11. \A j \in DOMAIN cards : CardOwn(cards[j], revision)
  BY OwnIsTold
<1>12. \A j \in DOMAIN cards : j \in P => ~OnBoards(Base(o), revision)
  BY <1>6, <1>7, <1>11 DEF CardOwn, NewCard
<1>13. \A k \in DOMAIN cards' : CardOwn(cards[k], revision)'
  <2> TAKE k \in DOMAIN cards'
  <2>1. CASE k \notin P
    <3>1. k \in DOMAIN cards /\ SameAs(cards'[k], cards[k])
      BY <2>1, <1>7 DEF SameAs
    <3>2. \A p \in Creates : cards[k].op = p /\ cards[k].iid = post[p].iid =>
              post'[p].pc # "done" \/ post[p].pc = "done"
      BY <2>1, <3>1, <1>3, <1>7 DEF Ops
    <3> QED
      BY <3>1, <3>2, <1>1, <1>8, <1>9, CardStays
  <2>2. CASE k \in P
    <3>1. cards'[k].iid = Base(o) /\ cards'[k].op = o /\ cards'[k].val = o /\ Base(o)' = Base(o)
      <4>1. cards'[k] = w
        BY <2>2, <1>7
      <4>2. Base(o)' = Base(o)
        BY <1>2, <1>3 DEF Base
      <4> QED
        BY <4>1, <4>2, <1>6
    <3>2. ~OnBoards(Base(o), revision) /\ ~Gone(Base(o), revision)
      BY <2>2, <1>2, <1>7, <1>12, GoneWas
    <3>3. ~Gone(cards[k].iid, revision)'
      <4>1. \A m \in 1..revision : m \in 1..Rev
        BY <1>2
      <4>2. \A m \in 1..revision : Deleted(m)' = Deleted(m)
        BY <4>1, <1>9, LogStays
      <4> QED
        BY <4>2, <3>1, <3>2, <1>1 DEF Gone
    <3>4. Known(cards[k], revision)'
      BY <3>1, <3>3, <1>3 DEF Known, Ops
    <3>5. o \notin Theirs /\ o # Deletion
      BY <1>2, OpIsOwn, ConstantsAssumption DEF ConstantsAssumption
    <3>6. Named(cards[k], revision)'
      BY <3>1, <3>5, <1>1, <1>3, <1>6 DEF Named, At
    <3>7. NewCard(cards[k], revision)'
      <4>1. Base(o) # post'[o].iid
        BY <1>1, <1>2, <1>3, <1>6
      <4> QED
        BY <4>1, <3>1 DEF NewCard
    <3> QED
      BY <3>4, <3>6, <3>7 DEF CardOwn
  <2> QED
    BY <2>1, <2>2
<1>14. OneEach(cards)'
  <2>1. OneEach(cards)
    BY OwnIsTold
  <2>2. \A j \in DOMAIN cards, k \in DOMAIN cards : j \in P => cards[k].iid # Base(o)
    <3> SUFFICES ASSUME NEW j \in DOMAIN cards, NEW k \in DOMAIN cards, j \in P
                 PROVE  cards[k].iid # Base(o)
      OBVIOUS
    <3>1. ~OnBoards(Base(o), revision) /\ Known(cards[k], revision)
      BY <1>11, <1>12 DEF CardOwn
    <3>2. post[o].pc # "done"
      BY <1>1
    <3> QED
      BY <3>1, <3>2, <1>2, <1>6, NewIid
  <2>3. \A j, k \in DOMAIN cards : j \in P /\ k \in P => j = k
    BY <2>1, <1>7 DEF OneEach
  <2> QED
    BY <2>1, <2>2, <2>3, <1>6, <1>7 DEF OneEach
<1>15. \A p \in Ops : Waits(p)' => Shows(cards, p)'
  <2> SUFFICES ASSUME NEW p \in Ops, Waits(p)' PROVE Shows(cards, p)'
    OBVIOUS
  <2>1. Waits(p) /\ post'[p].iid = post[p].iid /\ p # o
    BY <1>3, <1>4, WaitsStays DEF Waits
  <2>2. PICK j \in DOMAIN cards : cards[j].iid = post[p].iid /\ cards[j].op = p /\ cards[j].val = p
    BY <2>1, OwnIsTold DEF Shows
  <2>3. j \in DOMAIN cards' /\ cards'[j] = cards[j]
    BY <2>1, <2>2, <1>7
  <2> QED
    BY <2>1, <2>2, <2>3 DEF Shows
<1>16. DeletesTrue'
  BY <1>1, <1>4, WaitsStays, OwnIsTold DEF DeletesTrue
<1> QED
  BY <1>1, <1>9, <1>10, <1>13, <1>14, <1>15, <1>16, ViewIs, OwnIsClient DEF OwnInv

LEMMA CreateOwn == ASSUME OrdinaryTab, OwnInv, ClientInv', NEW o \in Ops, Create(o) PROVE OwnInv'
<1> DEFINE n == CardOf(nextTemp, o, "pending", o)
<1>1. /\ UNCHANGED <<boards, home, given, revision, deleting>>
      /\ o \in Creates /\ post[o].pc = "idle" /\ nextTemp' = nextTemp - 1
      /\ cards' = <<n>> \o cards /\ mine' = mine \cup {o}
      /\ post' = [post EXCEPT ![o] = [pc |-> "sent", iid |-> nextTemp, card |-> NoCard]]
  BY DEF Create, server
<1>2. /\ post \in [Ops -> Post] /\ RequestsTrue /\ (\A p \in Ops : RequestTrue(p))
      /\ TypeOK /\ CardsTrue /\ revision \in 0..Rev /\ Rev \in Nat /\ cards \in Seq(Card)
      /\ TempsUsed \in Nat /\ nextTemp \in Int /\ DeletesTrue
  BY OwnIsTold DEF TypeOK, RequestsTrue
<1>3. /\ \A p \in Ops \ {o} : post'[p] = post[p]
      /\ post'[o].pc = "sent" /\ post'[o].iid = nextTemp /\ home[o] = NoIid
  <2>1. post'[o] = [pc |-> "sent", iid |-> nextTemp, card |-> NoCard]
    BY <1>1, <1>2
  <2> QED
    BY <2>1, <1>1, <1>2 DEF RequestTrue
<1>4. /\ n \in Card /\ n.iid = nextTemp /\ n.op = o /\ n.val = o
  BY <1>2, OpIsOwn DEF CardOf, Card
<1> HIDE DEF n
<1>5. /\ DOMAIN cards' = 1..(Len(cards) + 1) /\ DOMAIN cards = 1..Len(cards) /\ Len(cards) \in Nat
      /\ cards'[1] = n /\ \A k \in 2..(Len(cards) + 1) : cards'[k] = cards[k - 1]
  BY <1>1, <1>2, <1>4
<1>6. StoredStays /\ RequestsGo
  BY <1>1, <1>3 DEF StoredStays, RequestsGo, Base, Ops
<1>7. ServerTrue' /\ LogGrows /\ GivenGrows
  BY <1>1, <1>6, ServerStays
<1>8. \A p \in Ops : RequestTrue(p)'
  <2> TAKE p \in Ops
  <2>1. CASE p = o
    BY <2>1, <1>1, <1>3 DEF RequestTrue
  <2>2. CASE p # o
    <3>1. post'[p] = post[p] /\ RequestTrue(p)
      BY <2>2, <1>2, <1>3
    <3> QED
      BY <2>2, <3>1, <1>1 DEF RequestTrue, Base
  <2> QED
    BY <2>1, <2>2
<1>9. /\ -TempsUsed <= nextTemp /\ nextTemp < 0 /\ IsFiniteSet(Started)
      /\ nextTemp = -1 - Cardinality(Started) /\ Cardinality(Started) \in Nat
  BY <1>1, <1>2, TempsApart DEF RequestsTrue
<1>10. \A p \in Creates : post[p].pc # "idle" => post[p].iid \in Int /\ nextTemp < post[p].iid
  BY <1>2 DEF RequestsTrue, CreateTrue, Post, Ops
\* The new iid is on no board and on no card of the list.
<1>11. ~OnBoards(nextTemp, revision)
  BY <1>2, <1>9, BoardIids
<1>12. \A j \in DOMAIN cards : cards[j].iid # nextTemp
  <2> SUFFICES ASSUME NEW j \in DOMAIN cards, cards[j].iid = nextTemp PROVE FALSE
    OBVIOUS
  <2>1. Known(cards[j], revision)
    BY OwnIsTold DEF CardOwn
  <2>2. \A p \in Creates : post[p].pc = "done" => Base(p) \in Int /\ Base(p) < -TempsUsed
    BY <1>2, StoredOps DEF RequestTrue, Ops
  <2> QED
    BY <2>1, <2>2, <1>2, <1>9, <1>10, <1>11 DEF Known
<1>13. RequestsTrue'
  <2>1. \A p \in Creates : CreateTrue(p)'
    <3> TAKE p \in Creates
    <3>1. CASE p = o
      BY <3>1, <1>1, <1>2, <1>3, <1>9 DEF CreateTrue
    <3>2. CASE p # o
      <4>1. post'[p] = post[p] /\ CreateTrue(p) /\ Base(p)' = Base(p) /\ post[p].iid \in Int
        BY <3>2, <1>2, <1>3 DEF RequestsTrue, Base, Ops, Post
      <4>2. Rev' = Rev /\ \A i, k : Renamed(i, k, Rev) => Renamed(i, k, Rev)'
        BY <1>1 DEF Rev, Renamed, Deleted, Written, Iids, Board
      <4>3. home[p] # NoIid /\ home[p] # Base(p) => Renamed(Base(p), home[p], Rev)'
        <5>1. home[p] # NoIid /\ home[p] # Base(p) => Renamed(Base(p), home[p], Rev)
          BY <4>1 DEF CreateTrue
        <5>2. Renamed(Base(p), home[p], Rev) => Renamed(Base(p), home[p], Rev)'
          <6>1. Board(0)' = Board(0) /\ \A m : Deleted(m)' = Deleted(m) /\ Written(m)' = Written(m)
            BY <1>1 DEF Deleted, Written, Iids, Board
          <6> QED
            BY <6>1, <4>1, <4>2, <1>1 DEF Renamed, Iids
        <5> QED
          BY <5>1, <5>2
      <4> QED
        BY <4>1, <4>3, <1>1, <1>2 DEF CreateTrue
    <3> QED
      BY <3>1, <3>2
  <2>2. \A p, q \in Creates :
            /\ post'[p].pc # "idle" /\ post'[p].iid = post'[q].iid => p = q
            /\ home'[p] # NoIid /\ home'[q] # NoIid /\ Base(p)' = Base(q)' => p = q
    <3>1. \A p \in Creates \ {o} : post'[p].iid # nextTemp
      <4> TAKE p \in Creates \ {o}
      <4>1. post'[p] = post[p] /\ RequestTrue(p)
        BY <1>2, <1>3 DEF Ops
      <4> QED
        BY <4>1, <1>9, <1>10 DEF RequestTrue, NoIid
    <3>2. \A p \in Creates : home[p] # NoIid => p # o /\ Base(p)' = Base(p)
      BY <1>3 DEF Base, Ops
    <3> QED
      BY <3>1, <3>2, <1>1, <1>2, <1>3 DEF RequestsTrue, Ops
  <2>3. nextTemp' = -1 - Cardinality(Started')
    <3>1. Started' = Started \cup {o} /\ o \notin Started
      BY <1>1, <1>3 DEF Started, Ops
    <3>2. Cardinality(Started \cup {o}) = Cardinality(Started) + 1
      BY <3>1, <1>9, FS_AddElement
    <3> QED
      BY <3>1, <3>2, <1>1, <1>9
  <2>4. given'.temp <= -TempsUsed
    BY <1>1, OwnIsTold
  <2> QED
    BY <2>1, <2>2, <2>3, <2>4, <1>8 DEF RequestsTrue
<1>14. \A p \in Ops \ {o} : Waits(p)' => Waits(p) /\ post'[p].iid = post[p].iid
  BY <1>1, <1>3, OthersWaited
<1>15. \A k \in DOMAIN cards' : CardOwn(cards[k], revision)'
  <2> TAKE k \in DOMAIN cards'
  <2>1. CASE k = 1
    <3>1. cards'[k].iid = nextTemp /\ cards'[k].op = o /\ cards'[k].val = o
      BY <2>1, <1>4, <1>5
    <3>2. ~Gone(cards[k].iid, revision)'
      <4>1. ~Gone(nextTemp, revision)
        BY <1>2, <1>11, GoneWas
      <4>2. \A m : Deleted(m)' = Deleted(m)
        BY <1>1 DEF Deleted, Iids, Board
      <4> QED
        BY <4>1, <4>2, <3>1, <1>1 DEF Gone
    <3>3. Known(cards[k], revision)'
      BY <3>1, <3>2, <1>1, <1>3 DEF Known
    <3>4. o \notin Theirs /\ o # Deletion
      BY OpIsOwn, ConstantsAssumption DEF ConstantsAssumption
    <3>5. Named(cards[k], revision)' /\ NewCard(cards[k], revision)'
      BY <3>1, <3>4, <1>1, <1>3 DEF Named, NewCard
    <3> QED
      BY <3>3, <3>5 DEF CardOwn
  <2>2. CASE k # 1
    <3> DEFINE j == k - 1
    <3>1. j \in DOMAIN cards /\ cards'[k] = cards[j]
      BY <2>2, <1>5
    <3>2. SameAs(cards'[k], cards[j])
      BY <3>1 DEF SameAs
    <3>3. \A p \in Creates : post'[p].pc # "done" \/ post[p].pc = "done"
      BY <1>3 DEF Ops
    <3> HIDE DEF j
    <3> QED
      BY <3>1, <3>2, <3>3, <1>1, <1>6, <1>7, CardStays
  <2> QED
    BY <2>1, <2>2
<1>16. OneEach(cards)'
  <2> SUFFICES ASSUME NEW i \in DOMAIN cards', NEW k \in DOMAIN cards', cards'[i].iid = cards'[k].iid
               PROVE  i = k
    BY DEF OneEach
  <2>1. \A m \in DOMAIN cards' : m # 1 => m - 1 \in DOMAIN cards /\ cards'[m] = cards[m - 1]
    BY <1>5
  <2>2. CASE i # 1 /\ k # 1
    <3>1. i - 1 = k - 1
      BY <2>1, <2>2, OwnIsTold DEF OneEach
    <3> QED
      BY <3>1, <1>5
  <2>3. \A m \in DOMAIN cards' : m # 1 => cards'[m].iid # nextTemp
    BY <2>1, <1>12
  <2> QED
    BY <2>2, <2>3, <1>4, <1>5
<1>17. \A p \in Ops : Waits(p)' => Shows(cards, p)'
  <2> SUFFICES ASSUME NEW p \in Ops, Waits(p)' PROVE Shows(cards, p)'
    OBVIOUS
  <2>1. CASE p = o
    BY <2>1, <1>3, <1>4, <1>5 DEF Shows
  <2>2. CASE p # o
    <3>1. Waits(p) /\ post'[p].iid = post[p].iid
      BY <2>2, <1>14
    <3>2. PICK j \in DOMAIN cards : cards[j].iid = post[p].iid /\ cards[j].op = p /\ cards[j].val = p
      BY <3>1, OwnIsTold DEF Shows
    <3>3. j + 1 \in DOMAIN cards' /\ cards'[j + 1] = cards[j]
      BY <1>5
    <3> QED
      BY <3>1, <3>2, <3>3 DEF Shows
  <2> QED
    BY <2>1, <2>2
<1>18. DeletesTrue'
  <2>1. \A d \in deleting : d.iid > 0 /\ \A p \in Ops : Waits(p) => d.iid # post[p].iid
    BY <1>2 DEF DeletesTrue
  <2>2. \A d \in deleting, p \in Ops : Waits(p)' => d.iid # post'[p].iid
    <3> SUFFICES ASSUME NEW d \in deleting, NEW p \in Ops, Waits(p)' PROVE d.iid # post'[p].iid
      OBVIOUS
    <3>1. CASE p = o
      BY <3>1, <2>1, <1>2, <1>3, <1>9
    <3>2. CASE p # o
      BY <3>2, <2>1, <1>14
    <3> QED
      BY <3>1, <3>2
  <2> QED
    BY <2>1, <2>2, <1>1 DEF DeletesTrue
<1> QED
  BY <1>1, <1>7, <1>13, <1>15, <1>16, <1>17, <1>18, ViewIs, OwnIsClient DEF OwnInv

\* A deletion takes only its own card off the list.
LEMMA DeleteLandsOwn == ASSUME OwnInv, ClientInv', NEW d \in deleting, DeleteLands(d) PROVE OwnInv'
<1> DEFINE P == DOMAIN cards \ PlacesOf(d.iid)
<1>1. /\ UNCHANGED <<boards, home, given, mine, post>> /\ UNCHANGED <<revision, nextTemp, left>>
      /\ deleting' = deleting \ {d} /\ cards' = KeepPlaces(cards, P)
  BY DEF DeleteLands, server
<1>2. PostStays /\ DoneStays /\ \A o \in Ops : RequestTrue(o)' /\ post'[o].card = post[o].card
  BY <1>1, PostUnchanged
<1>3. StoredStays /\ HomesMove /\ RequestsGo
  BY <1>1 DEF StoredStays, HomesMove, Base, RequestsGo
<1>4. ServerTrue' /\ LogGrows /\ GivenGrows
  BY <1>1, <1>3, ServerStays
<1>5. RequestsTrue'
  BY <1>1, <1>2, <1>3, <1>4, RequestsStay DEF PostStays, Ops
<1>6. /\ OneEach(cards') /\ (\A k \in DOMAIN cards' : \E j \in P : cards'[k] = cards[j])
      /\ (\A j \in P : \E k \in DOMAIN cards' : cards'[k] = cards[j])
  <2>1. P \in SUBSET DOMAIN cards
    OBVIOUS
  <2> HIDE DEF P
  <2> QED
    BY <2>1, <1>1, OwnIsTold, KeptCards
<1>7. \A k \in DOMAIN cards' : CardOwn(cards[k], revision)'
  <2> TAKE k \in DOMAIN cards'
  <2>1. PICK j \in P : cards'[k] = cards[j]
    BY <1>6
  <2>2. j \in DOMAIN cards /\ SameAs(cards'[k], cards[j])
    BY <2>1 DEF SameAs
  <2>3. \A o \in Creates : post'[o].pc # "done" \/ post[o].pc = "done"
    BY <1>2 DEF DoneStays
  <2> QED
    BY <2>2, <2>3, <1>1, <1>3, <1>4, CardStays
<1>8. \A o \in Ops : Waits(o)' => Shows(cards, o)'
  <2> SUFFICES ASSUME NEW o \in Ops, Waits(o)' PROVE Shows(cards, o)'
    OBVIOUS
  <2>1. Waits(o) /\ post'[o].iid = post[o].iid
    BY <1>2, WaitsStays
  <2>2. PICK j \in DOMAIN cards : cards[j].iid = post[o].iid /\ cards[j].op = o /\ cards[j].val = o
    BY <2>1, OwnIsTold DEF Shows
  <2>3. j \in P
    BY <2>1, <2>2, OwnIsTold DEF DeletesTrue, PlacesOf
  <2>4. PICK k \in DOMAIN cards' : cards'[k] = cards[j]
    BY <2>3, <1>6
  <2> QED
    BY <2>1, <2>2, <2>4 DEF Shows
<1>9. DeletesTrue'
  BY <1>1, <1>2, WaitsStays, OwnIsTold DEF DeletesTrue
<1>10. OneEach(cards)'
  BY <1>6 DEF OneEach
<1> QED
  BY <1>1, <1>4, <1>5, <1>7, <1>8, <1>9, <1>10, ViewIs, OwnIsClient DEF OwnInv

\* What has been read of the log is in the list.
LEMMA ReadOwn ==
    ASSUME OwnInv, ClientInv', UNCHANGED <<boards, home, given, mine, post, nextTemp>>,
           UNCHANGED deleting, OwnView(cards', revision')
    PROVE  OwnInv'
<1>1. PostStays /\ \A o \in Ops : RequestTrue(o)'
  BY PostUnchanged
<1>2. StoredStays /\ HomesMove
  BY DEF StoredStays, HomesMove, Base
<1>3. ServerTrue' /\ LogGrows /\ GivenGrows
  BY <1>2, ServerStays
<1>4. RequestsTrue'
  BY <1>1, <1>2, <1>3, RequestsStay DEF PostStays, Ops
<1>5. DeletesTrue'
  BY <1>1, WaitsStays, OwnIsTold DEF DeletesTrue
<1>6. OwnView(cards, revision)'
  <2>1. \A n : Board(n)' = Board(n) /\ Deleted(n)' = Deleted(n) /\ Written(n)' = Written(n)
    BY DEF Deleted, Written, Iids, Board
  <2>2. \A o \in Ops : (Waits(o)' <=> Waits(o)) /\ Base(o)' = Base(o)
    BY DEF Waits, Base
  <2>3. ASSUME NEW k \in DOMAIN cards' PROVE CardOwn(cards[k], revision)'
    <3>1. Known(cards'[k], revision') /\ Named(cards'[k], revision') /\ NewCard(cards'[k], revision')
      BY DEF OwnView
    <3>2. Known(cards[k], revision)'
      BY <3>1, <2>1, <2>2 DEF Known, OnBoards, Gone, Iids, Ops
    <3>3. \A o \in Ops : At(o, cards'[k].iid, revision') => At(o, cards[k].iid, revision)'
      BY <2>1, <2>2 DEF At, Renamed, Iids
    <3>4. Named(cards[k], revision)'
      BY <3>1, <3>3, <2>1 DEF Named
    <3>5. NewCard(cards[k], revision)'
      <4>1. \A o \in Creates : OnBoards(Base(o), revision)' => OnBoards(Base(o), revision')
        BY <2>1, <2>2 DEF OnBoards, Iids, Ops
      <4> QED
        BY <3>1, <4>1 DEF NewCard
    <3> QED
      BY <3>2, <3>4, <3>5 DEF CardOwn
  <2>4. OneEach(cards)' /\ \A o \in Ops : Waits(o)' => Shows(cards, o)'
    BY <2>2 DEF OwnView, OneEach, Shows
  <2> QED
    BY <2>3, <2>4, ViewIs
<1> QED
  BY <1>3, <1>4, <1>5, <1>6, OwnIsClient DEF OwnInv

LEMMA AppliedOwn ==
    ASSUME OrdinaryTab, OwnInv, ClientInv', UNCHANGED <<boards, home, given, mine, post, nextTemp>>,
           UNCHANGED deleting, NEW lo \in Nat, lo <= revision, NEW to \in Nat, to <= Rev,
           ApplySyncActions(lo, to, FALSE)
    PROVE  OwnInv'
<1>1. revision <= Rev /\ Told /\ ViewTrue(cards, touched) /\ BoardAtCheckpoint /\ OwnView(cards, revision)
  BY OwnIsTold
<1>2. OwnView(cards', revision')
  BY <1>1, DeltaOwn
<1> QED
  BY <1>2, ReadOwn

LEMMA CatchUpLandsOwn == ASSUME OrdinaryTab, OwnInv, ClientInv', CatchUpLands PROVE OwnInv'
<1>1. /\ UNCHANGED <<boards, home, given, mine, post, nextTemp>> /\ UNCHANGED deleting
      /\ ClientInv
  BY OwnIsClient DEF CatchUpLands, server, edits
<1>2. CASE dragging
  <2>1. UNCHANGED cards /\ UNCHANGED revision
    BY <1>2 DEF CatchUpLands, cache
  <2> QED
    BY <1>1, <2>1, OwnIsClient, NothingOwn
<1>3. CASE ~dragging
  <2>1. ApplySyncActions(catchUp.since, catchUp.to, FALSE)
    BY <1>3 DEF CatchUpLands
  <2> QED
    BY <1>1, <2>1, ReadsBefore, AppliedOwn
<1> QED
  BY <1>2, <1>3

LEMMA DeliverOwn == ASSUME OrdinaryTab, OwnInv, ClientInv', NEW to \in Revs, Deliver(to) PROVE OwnInv'
<1>1. /\ UNCHANGED <<boards, home, given, mine, post, nextTemp>> /\ UNCHANGED deleting
      /\ stream.pos < to /\ to <= Rev /\ ClientInv /\ to \in Nat
  BY OwnIsClient, ConstantsAssumption DEF Deliver, server, edits, Revs, ConstantsAssumption
<1> DEFINE first == FirstUnseen(stream.pos, to)
           Seen == dragging \/ to <= revision \/ first = 0 \/ ~IsNext(first)
<1>2. CASE Seen
  <2>1. UNCHANGED cards /\ UNCHANGED revision
    BY <1>2 DEF Deliver, cache
  <2> QED
    BY <1>1, <2>1, OwnIsClient, NothingOwn
<1>3. CASE ~Seen
  <2>1. ApplySyncActions(stream.pos, to, FALSE)
    <3>1. ApplySyncActions(stream.pos, to, dragging) /\ dragging = FALSE
      BY <1>1, <1>3, ReadsBefore DEF Deliver
    <3> QED
      BY <3>1
  <2> DEFINE Unseen == {n \in (stream.pos + 1)..to : n > revision /\ HasActions(n)}
  <2>2. first \in Unseen
    <3>1. Unseen # {} /\ first = Min(Unseen)
      BY <1>3 DEF FirstUnseen
    <3>2. Unseen \subseteq Nat
      BY <1>1, ReadsBefore
    <3> HIDE DEF Unseen
    <3> QED
      BY <3>1, <3>2, LeastIsFound
  <2>3. stream.pos + 1 <= first /\ first = revision + 1 /\ first \in Int
    BY <2>2, <1>1, <1>3, ReadsBefore DEF IsNext
  <2>4. stream.pos <= revision /\ stream.pos \in Nat
    BY <1>1, <2>3, ReadsBefore
  <2> QED
    BY <1>1, <2>1, <2>4, AppliedOwn
<1> QED
  BY <1>2, <1>3

\* The step commits board b, the one after Now, as number r.
Commits(b, r) == LogGrows /\ r = Rev + 1 /\ Rev' = r /\ Board(r)' = b

LEMMA CommitIs ==
    ASSUME OwnInv, NEW b, Commit(b)
    PROVE  LogGrows /\ \E r \in Nat : Commits(b, r)
<1>1. /\ boards \in Seq(SUBSET Card) /\ boards' = Append(boards, b)
  BY OwnIsTold DEF TypeOK, Commit
<1>2. Len(boards) \in Nat /\ Len(boards') = Len(boards) + 1 /\ boards'[Len(boards) + 1] = b
      /\ \A k \in 1..Len(boards) : boards'[k] = boards[k]
  BY <1>1
<1>3. Rev \in Nat /\ Rev' = Rev + 1 /\ Rev + 1 = Len(boards)
  BY <1>2, OwnIsTold DEF Rev
<1>4. LogGrows
  BY <1>2, <1>3 DEF LogGrows
<1>5. PICK r \in Nat : r = Rev + 1
  BY <1>3
<1>6. Board(r)' = b
  BY <1>2, <1>3, <1>5 DEF Board
<1> QED
  BY <1>3, <1>4, <1>5, <1>6 DEF Commits

\* The boards there were, and the one before the new one.
LEMMA CommitFacts ==
    ASSUME OwnInv, NEW b, NEW r \in Nat, Commits(b, r)
    PROVE  /\ Rev \in 0..Rev /\ r \in 1..Rev' /\ r - 1 \in 0..Rev /\ r # 0
           /\ \A n \in 0..Rev' : n \in 0..Rev \/ n = r
           /\ Board(r - 1) = Now /\ Board(r - 1)' = Now
           /\ Deleted(r)' = Iids(Now) \ Iids(b) /\ Written(r)' = b \ Now
           /\ \A i : OnBoards(i, r - 1)' <=> OnBoards(i, r - 1)
           /\ \A i \in Iids(Now) : OnBoards(i, r - 1)'
<1>1. LogGrows /\ r = Rev + 1 /\ Rev' = r /\ Board(r)' = b /\ Rev \in Nat
  BY OwnIsTold DEF Commits
<1>2. r \in 1..Rev' /\ r - 1 \in 0..Rev /\ r # 0 /\ Rev \in 0..Rev /\ r - 1 \in -1..Rev
  BY <1>1
<1>3. \A n \in 0..Rev' : n \in 0..Rev \/ n = r
  BY <1>1
<1>4. r - 1 = Rev
  BY <1>1
<1>5. Board(r - 1) = Now
  BY <1>4 DEF Now
<1>6. Board(r - 1)' = Now
  BY <1>1, <1>2, <1>5, LogStays
<1>7. Deleted(r)' = Iids(Now) \ Iids(b) /\ Written(r)' = b \ Now
  BY <1>1, <1>6 DEF Deleted, Written, Iids
<1>8. \A i : OnBoards(i, r - 1)' <=> OnBoards(i, r - 1)
  BY <1>1, <1>2, LogStays
<1>9. \A i \in Iids(Now) : OnBoards(i, r - 1)
  BY <1>2, <1>5 DEF OnBoards
<1> QED
  BY <1>2, <1>3, <1>5, <1>6, <1>7, <1>8, <1>9

LEMMA LaterCards ==
    ASSUME NEW n \in Nat, NEW m \in Nat, n <= m, NEW c, CardTrue(c, n)', FirstTrue(c, n)'
    PROVE  CardTrue(c, m)' /\ FirstTrue(c, m)'
<1>1. (\A k \in 1..n : k \in 1..m) /\ (\A k \in 0..(n - 1) : k \in 0..(m - 1))
  OBVIOUS
<1>2. \A o : At(o, c.iid, n)' => At(o, c.iid, m)'
  BY <1>1 DEF At, Renamed
<1>3. \A i : OnBoards(i, n - 1)' => OnBoards(i, m - 1)'
  BY <1>1 DEF OnBoards
<1>4. CardTrue(c, m)'
  BY <1>2 DEF CardTrue
<1>5. \A o : OnBoards(Base(o), n - 1)' => OnBoards(Base(o), m - 1)'
  BY <1>1 DEF OnBoards
<1> QED
  BY <1>4, <1>5 DEF FirstTrue

LEMMA CardsOfNow ==
    ASSUME OwnInv, ClientInv', StoredStays, GivenGrows, NEW b, NEW r \in Nat, Commits(b, r)
    PROVE  \A c \in Now : CardTrue(c, r)' /\ FirstTrue(c, r)'
<1>1. /\ r - 1 \in 0..Rev /\ Board(r - 1) = Now /\ LogGrows
  BY CommitFacts DEF Commits
<1>2. \A c \in Now : CardTrue(c, r - 1)' /\ FirstTrue(c, r - 1)'
  BY <1>1, OldCards
<1>3. r - 1 \in Nat /\ r - 1 <= r
  BY <1>1, OwnIsTold
<1> QED
  BY <1>2, <1>3, LaterCards

\* What a new board has to show.
LEMMA ServerCommits ==
    ASSUME OwnInv, ClientInv', StoredStays, GivenGrows, NEW b, NEW r \in Nat, Commits(b, r),
           \A c \in b \ Now : CardTrue(c, r)' /\ FirstTrue(c, r)',
           \A c \in b : c.iid < 0 => c.iid \in Iids(Now) \/ c.iid < given.temp,
           \A c \in b : c.op \in Theirs =>
               \/ \E d \in Now : d.op = c.op /\ d.iid = c.iid
               \/ \A n \in 0..Rev : \A d \in Board(n) : d.op # c.op,
           RenamedOnce(r)'
    PROVE  ServerTrue'
<1>1. /\ LogGrows /\ r = Rev + 1 /\ Rev' = r /\ Board(r)' = b
      /\ \A n \in 0..Rev : Board(n)' = Board(n)
  BY LogStays DEF Commits
<1>2. /\ r - 1 \in 0..Rev /\ Board(r - 1) = Now /\ Rev \in Nat
      /\ \A n \in 0..Rev' : n \in 0..Rev \/ n = r
  BY CommitFacts, OwnIsTold
<1>3. CardsTrue' /\ FirstsTrue'
  <2>1. \A n \in 0..Rev : \A c \in Board(n) : CardTrue(c, n)' /\ FirstTrue(c, n)'
    BY <1>1, OldCards
  <2>2. \A c \in b : CardTrue(c, r)' /\ FirstTrue(c, r)'
    BY CardsOfNow
  <2>3. \A n \in 0..Rev' : \A c \in Board(n)' : CardTrue(c, n)' /\ FirstTrue(c, n)'
    <3> SUFFICES ASSUME NEW n \in 0..Rev', NEW c \in Board(n)' PROVE CardTrue(c, n)' /\ FirstTrue(c, n)'
      OBVIOUS
    <3>1. CASE n \in 0..Rev
      BY <3>1, <2>1, <1>1
    <3>2. CASE n = r
      BY <3>2, <2>2, <1>1
    <3> QED
      BY <3>1, <3>2, <1>2
  <2> QED
    BY <2>3 DEF CardsTrue, FirstsTrue
<1>4. RenamesTrue'
  <2> SUFFICES ASSUME NEW n \in 1..Rev', n # r PROVE RenamedOnce(n)'
    BY DEF RenamesTrue
  <2>1. n \in 1..Rev /\ n - 1 \in 0..Rev /\ n - 1 \in -1..Rev /\ r - 1 \in n..Rev
    BY <1>1, <1>2
  <2>2. RenamedOnce(n)
    BY <2>1, OwnIsTold DEF RenamesTrue
  <2>3. Deleted(n)' = Deleted(n) /\ Written(n)' = Written(n)
    BY <1>1, <2>1, LogStays
  <2>4. \A i : OnBoards(i, n - 1)' <=> OnBoards(i, n - 1)
    BY <1>1, <2>1, LogStays
  <2>5. ASSUME NEW i \in Deleted(n), i < 0 PROVE \A k \in n..Rev' : i \notin Iids(Board(k))'
    <3>1. \A k \in n..Rev : i \notin Iids(Board(k))
      BY <2>2, <2>5 DEF RenamedOnce
    <3>2. i \notin Iids(b)
      <4> SUFFICES ASSUME NEW c \in b, c.iid = i PROVE FALSE
        BY DEF Iids
      <4>1. i \notin Iids(Now)
        BY <3>1, <2>1, <1>2
      <4>2. OnBoards(i, n - 1)
        BY <2>1, <2>5, GoneWas
      <4>3. i \in Int /\ Issued(i) /\ given.temp \in Int
        BY <2>1, <4>2, BoardIids, OwnIsTold
      <4> QED
        BY <4>1, <4>3, <2>5 DEF Issued
    <3>3. \A k \in n..Rev' : k \in n..Rev \/ k = r
      <4>1. \A k \in n..Rev' : k \in 0..Rev' /\ n <= k
        OBVIOUS
      <4>2. \A k \in n..Rev' : k \in 0..Rev \/ k = r
        BY <4>1, <1>2
      <4> QED
        BY <4>1, <4>2, <1>2
    <3>4. \A k \in n..Rev : Iids(Board(k))' = Iids(Board(k))
      <4>1. \A k \in n..Rev : k \in 0..Rev
        BY <2>1
      <4> QED
        BY <4>1, <1>1 DEF Iids
    <3>5. Iids(Board(r))' = Iids(b)
      BY <1>1 DEF Iids
    <3> QED
      BY <3>1, <3>2, <3>3, <3>4, <3>5
  <2> QED
    BY <2>2, <2>3, <2>4, <2>5 DEF RenamedOnce
<1>5. TheirsTrue'
  <2>1. BoardTrue(b, touched')
    <3>1. r \in 0..Rev'
      BY <1>1
    <3>2. BoardTrue(Board(r), touched)'
      BY <3>1 DEF ClientInv, BoardsTrue
    <3> QED
      BY <3>2, <1>1 DEF BoardTrue
  <2>2. \A c \in b, n \in 0..Rev : \A d \in Board(n) : c.op = d.op /\ c.op \in Theirs => c.iid = d.iid
    BY <1>2, OwnIsTold DEF TheirsTrue
  <2>3. \A c, d \in b : c.op = d.op /\ c.op \in Theirs => c.iid = d.iid
    BY <2>1 DEF BoardTrue
  <2>4. \A m, n \in 0..Rev : \A c \in Board(m), d \in Board(n) :
            c.op = d.op /\ c.op \in Theirs => c.iid = d.iid
    BY OwnIsTold DEF TheirsTrue
  <2> SUFFICES ASSUME NEW m \in 0..Rev', NEW n \in 0..Rev', NEW c \in Board(m)', NEW d \in Board(n)',
                      c.op = d.op, c.op \in Theirs
               PROVE  c.iid = d.iid
    BY DEF TheirsTrue
  <2>5. (c \in b \/ \E k \in 0..Rev : c \in Board(k)) /\ (d \in b \/ \E k \in 0..Rev : d \in Board(k))
    BY <1>1, <1>2
  <2> QED
    BY <2>2, <2>3, <2>4, <2>5
<1> QED
  BY <1>3, <1>4, <1>5 DEF ServerTrue

\* A commit that writes card w and deletes none.
LEMMA PutCommits ==
    ASSUME OwnInv, ClientInv', StoredStays, GivenGrows, NEW w, NEW r \in Nat, Commits(Put(Now, w), r),
           CardTrue(w, r)', FirstTrue(w, r)',
           w.iid < 0 => w.iid \in Iids(Now) \/ w.iid < given.temp,
           w.op \in Theirs => \/ \E d \in Now : d.op = w.op /\ d.iid = w.iid
                              \/ \A n \in 0..Rev : \A d \in Board(n) : d.op # w.op
    PROVE  ServerTrue'
<1>1. \A c \in Put(Now, w) : c \in Now \/ c = w
  BY DEF Put
<1>2. \A c \in Now : c.iid \in Iids(Now)
  BY DEF Iids
<1>3. Iids(Now) \subseteq Iids(Put(Now, w))
  BY DEF Iids, Put
<1>4. RenamedOnce(r)'
  <2>1. Deleted(r)' = {}
    BY <1>3, CommitFacts
  <2> QED
    BY <2>1 DEF RenamedOnce
<1>5. \A c \in Put(Now, w) \ Now : CardTrue(c, r)' /\ FirstTrue(c, r)'
  BY <1>1
<1>6. \A c \in Put(Now, w) : c.iid < 0 => c.iid \in Iids(Now) \/ c.iid < given.temp
  BY <1>1, <1>2
<1>7. \A c \in Put(Now, w) : c.op \in Theirs =>
          \/ \E d \in Now : d.op = c.op /\ d.iid = c.iid
          \/ \A n \in 0..Rev : \A d \in Board(n) : d.op # c.op
  BY <1>1
<1> QED
  BY <1>4, <1>5, <1>6, <1>7, ServerCommits

\* A commit that only takes cards of GitLab off the board.
LEMMA LessCommits ==
    ASSUME OwnInv, ClientInv', StoredStays, GivenGrows, NEW b \in SUBSET Now, NEW r \in Nat,
           Commits(b, r), \A c \in Now \ b : c.iid > 0
    PROVE  ServerTrue'
<1>1. RenamedOnce(r)'
  <2>1. \A i \in Iids(Now) \ Iids(b) : i > 0 /\ i \in Int
    <3>1. \A c \in Now : c.iid \in Int
      BY CardCommitted DEF OwnInv
    <3> QED
      BY <3>1 DEF Iids
  <2>2. Deleted(r)' = Iids(Now) \ Iids(b)
    BY CommitFacts
  <2> QED
    BY <2>1, <2>2 DEF RenamedOnce
<1>2. \A c \in b : c \in Now /\ c.iid \in Iids(Now)
  BY DEF Iids
<1> QED
  BY <1>1, <1>2, ServerCommits

\* A commit of the server that is about no request of this tab.
LEMMA CommittedOwn ==
    ASSUME OwnInv, ClientInv', LogGrows, GivenGrows, HomesMove, ServerTrue',
           UNCHANGED <<cards, revision, mine, post, nextTemp>>,
           \A o \in Ops : home'[o] = NoIid <=> home[o] = NoIid,
           \A d \in deleting' : \E e \in deleting : d.iid = e.iid
    PROVE  OwnInv'
<1>1. StoredStays
  BY DEF StoredStays, Base
<1>2. PostStays /\ DoneStays
  BY DEF PostStays, DoneStays
<1>3. \A o \in Ops : RequestTrue(o)'
  BY OwnIsTold DEF RequestsTrue, RequestTrue, Base
<1> QED
  BY <1>1, <1>2, <1>3, ListUnchanged, OwnStays

\* What holds when home and given stay.
LEMMA HomeStays ==
    ASSUME OwnInv, UNCHANGED <<home, post>>,
           given'.temp \in Int, given'.temp <= given.temp, given'.iid = given.iid
    PROVE  /\ StoredStays /\ GivenGrows /\ HomesMove
           /\ \A o \in Ops : home'[o] = NoIid <=> home[o] = NoIid
  BY OwnIsTold DEF StoredStays, GivenGrows, HomesMove, Stores, Base

LEMMA OldIid ==
    ASSUME OwnInv, NEW b, NEW r \in Nat, Commits(b, r), NEW w, w.iid \in Iids(Now)
    PROVE  FirstTrue(w, r)' /\ \A i, j : i = w.iid => i \in Iids(Now)
<1>1. \A i \in Iids(Now) : OnBoards(i, r - 1)'
  BY CommitFacts
<1>2. \A o : Base(o)' = w.iid => (OnBoards(w.iid, r - 1)' => OnBoards(Base(o), r - 1)')
  BY DEF OnBoards
<1> QED
  BY <1>1, <1>2 DEF FirstTrue

\* The card of an iid is written with what may stand on it already.
LEMMA SameCommits ==
    ASSUME OwnInv, ClientInv', UNCHANGED <<home, given, post, cards, revision, mine, nextTemp>>,
           NEW c \in Now, NEW w, Commit(Put(Now, w)), w.iid = c.iid, w.op # Deletion,
           \A o \in Ops : w.op = o \/ w.val = o => c.op = o \/ c.val = o,
           w.op \in Theirs => \/ c.op = w.op
                              \/ \A n \in 0..Rev : \A d \in Board(n) : d.op # w.op,
           \A d \in deleting' : \E e \in deleting : d.iid = e.iid
    PROVE  OwnInv'
<1>1. /\ StoredStays /\ GivenGrows /\ HomesMove
      /\ \A o \in Ops : home'[o] = NoIid <=> home[o] = NoIid
  BY OwnIsTold, HomeStays
<1>2. LogGrows /\ \E r \in Nat : Commits(Put(Now, w), r)
  BY CommitIs
<1>3. PICK r \in Nat : Commits(Put(Now, w), r)
  BY <1>2
<1>4. w.iid \in Iids(Now)
  BY DEF Iids
<1>5. CardTrue(c, r)'
  BY <1>1, <1>3, CardsOfNow
<1>6. \A o : At(o, c.iid, r)' => At(o, w.iid, r)'
  BY DEF At, Renamed
<1>7. CardTrue(w, r)'
  <2>1. Issued(w.iid)'
    BY <1>5 DEF CardTrue, Issued
  <2>2. \A o \in Ops : w.op = o \/ w.val = o => At(o, w.iid, r)'
    BY <1>5, <1>6 DEF CardTrue
  <2> QED
    BY <2>1, <2>2 DEF CardTrue
<1>8. FirstTrue(w, r)'
  BY <1>3, <1>4, OldIid
<1>9. ServerTrue'
  BY <1>1, <1>3, <1>4, <1>7, <1>8, PutCommits
<1> QED
  BY <1>1, <1>2, <1>9, CommittedOwn

LEMMA UnusedOp ==
    ASSUME OwnInv, NEW o \in Theirs, ~Used(o)
    PROVE  \A n \in 0..Rev : \A d \in Board(n) : d.op # o
<1>1. \A n \in 0..Rev : BoardTrue(Board(n), touched)
  BY DEF OwnInv, ClientInv, BoardsTrue
<1> QED
  BY <1>1 DEF BoardTrue, Used

LEMMA TheyEditOwn ==
    ASSUME OwnInv, ClientInv', NEW o \in Theirs, NEW c \in Now, TheyEdit(o, c) PROVE OwnInv'
<1> DEFINE w == CardOf(c.iid, o, "pending", o)
<1>1. /\ UNCHANGED <<home, given, post, cards, revision, mine, nextTemp>> /\ UNCHANGED deleting
      /\ ~Used(o) /\ Commit(Put(Now, w))
  BY DEF TheyEdit, client, cache
<1>2. /\ w.iid = c.iid /\ w.op = o /\ w.val = o /\ o # Deletion /\ o \notin Ops
      /\ \A n \in 0..Rev : \A d \in Board(n) : d.op # o
  BY <1>1, UnusedOp, ConstantsAssumption DEF CardOf, ConstantsAssumption
<1> HIDE DEF w
<1> QED
  BY <1>1, <1>2, OwnIsClient, SameCommits

\* The card of an operation that fails, or is tried again, changes its state only.
LEMMA TriedOwn ==
    ASSUME OwnInv, ClientInv',
           (\E r \in retrying : RetryAccepted(r)) \/ (\E c \in Now : FailOperation(c))
    PROVE  OwnInv'
<1>1. /\ UNCHANGED <<home, given, post, cards, revision, mine, nextTemp>>
      /\ \E c \in Now : \E s \in {"pending", "failed"} : Commit(Put(Now, [c EXCEPT !.state = s]))
      /\ UNCHANGED deleting
  BY DEF RetryAccepted, FailOperation, client, cache
<1>2. PICK c \in Now, s \in {"pending", "failed"} : Commit(Put(Now, [c EXCEPT !.state = s]))
  BY <1>1
<1> DEFINE w == [c EXCEPT !.state = s]
<1>3. c \in Card /\ CardTrue(c, Rev)
  <2>1. Rev \in 0..Rev /\ c \in Board(Rev)
    BY OwnIsTold DEF Now
  <2> QED
    BY <2>1, OwnIsTold, BoardsTyped DEF CardsTrue
<1>4. w.iid = c.iid /\ w.op = c.op /\ w.val = c.val /\ w.op # Deletion
  BY <1>3 DEF Card, CardTrue
<1>5. Commit(Put(Now, w))
  BY <1>2
<1> HIDE DEF w
<1> QED
  BY <1>1, <1>4, <1>5, OwnIsClient, SameCommits

\* A commit that removes cards of GitLab or none.
LEMMA RemovedOwn ==
    ASSUME OwnInv, ClientInv', UNCHANGED <<home, given, post, cards, revision, mine, nextTemp>>,
           NEW b \in SUBSET Now, Commit(b), \A c \in Now \ b : c.iid > 0,
           \A d \in deleting' : \E e \in deleting : d.iid = e.iid
    PROVE  OwnInv'
<1>1. /\ StoredStays /\ GivenGrows /\ HomesMove
      /\ \A o \in Ops : home'[o] = NoIid <=> home[o] = NoIid
  BY OwnIsTold, HomeStays
<1>2. LogGrows /\ \E r \in Nat : Commits(b, r)
  BY CommitIs
<1>3. ServerTrue'
  BY <1>1, <1>2, LessCommits
<1> QED
  BY <1>1, <1>2, <1>3, CommittedOwn

LEMMA ElsewhereOwn == ASSUME OwnInv, ClientInv', Elsewhere PROVE OwnInv'
<1>1. /\ UNCHANGED <<home, given, post, cards, revision, mine, nextTemp>> /\ UNCHANGED deleting
      /\ Commit(Now)
  BY DEF Elsewhere, client, cache
<1> QED
  BY <1>1, OwnIsClient, RemovedOwn

LEMMA TheyDeleteOwn == ASSUME OwnInv, ClientInv', NEW c \in Now, TheyDelete(c) PROVE OwnInv'
<1>1. /\ UNCHANGED <<home, given, post, cards, revision, mine, nextTemp>> /\ UNCHANGED deleting
      /\ c.iid > 0 /\ Spend("deletes") /\ Commit(Now \ {c})
  BY DEF TheyDelete, client, cache
<1> QED
  BY <1>1, RemovedOwn

LEMMA AcceptDeleteOwn == ASSUME OwnInv, ClientInv', NEW d \in deleting, AcceptDelete(d) PROVE OwnInv'
<1>1. /\ UNCHANGED <<home, given, post, cards, revision, mine, nextTemp>>
      /\ \E c \in Now : c.iid = d.iid /\ Commit(Now \ {c})
      /\ deleting' = (deleting \ {d}) \cup {[d EXCEPT !.done = TRUE]}
  BY DEF AcceptDelete, client, cache
<1>2. PICK c \in Now : c.iid = d.iid /\ Commit(Now \ {c})
  BY <1>1
<1>3. d \in [iid : Int, done : BOOLEAN] /\ d.iid > 0
  BY OwnIsTold DEF TypeOK, DeletesTrue
<1>4. \A f \in deleting' : \E e \in deleting : f.iid = e.iid
  BY <1>1, <1>3
<1> QED
  BY <1>1, <1>2, <1>3, <1>4, OwnIsClient, RemovedOwn

LEMMA TheyCreateOwn == ASSUME OrdinaryTab, OwnInv, ClientInv', NEW o \in Theirs, TheyCreate(o) PROVE OwnInv'
<1>0. PICK w : w = CardOf(given.temp - 1, o, "pending", o)
  OBVIOUS
<1>1. /\ UNCHANGED <<home, post, cards, revision, mine, nextTemp>> /\ UNCHANGED deleting
      /\ ~Used(o) /\ Commit(Put(Now, w)) /\ given' = [given EXCEPT !.temp = @ - 1]
  BY <1>0 DEF TheyCreate, client, cache
<1>2. /\ given.temp \in Int /\ given \in [temp : Int, iid : Nat] /\ given.temp <= -TempsUsed
      /\ TempsUsed \in Nat /\ RequestsTrue /\ TypeOK
  BY OwnIsTold DEF TypeOK
<1>3. given'.temp = given.temp - 1 /\ given'.iid = given.iid
  BY <1>1, <1>2
<1>4. /\ w.iid = given.temp - 1 /\ w.op = o /\ w.val = o /\ o # Deletion /\ o \notin Ops
      /\ \A n \in 0..Rev : \A d \in Board(n) : d.op # o
  BY <1>0, <1>1, UnusedOp, ConstantsAssumption DEF CardOf, ConstantsAssumption
<1>5. /\ StoredStays /\ GivenGrows /\ HomesMove
      /\ \A p \in Ops : home'[p] = NoIid <=> home[p] = NoIid
  BY <1>1, <1>2, <1>3, HomeStays
<1>6. LogGrows /\ \E r \in Nat : Commits(Put(Now, w), r)
  BY <1>1, CommitIs
<1>7. PICK r \in Nat : Commits(Put(Now, w), r)
  BY <1>6
<1>8. CardTrue(w, r)'
  <2>1. Issued(w.iid)'
    BY <1>2, <1>3, <1>4 DEF Issued
  <2> QED
    BY <2>1, <1>4 DEF CardTrue
<1>9. FirstTrue(w, r)'
  <2> SUFFICES ASSUME NEW p \in Creates, home'[p] # NoIid, w.iid = Base(p)' PROVE FALSE
    BY DEF FirstTrue
  <2>1. home[p] # NoIid /\ Base(p)' = Base(p)
    BY <1>1 DEF Base
  <2>2. given.temp <= Base(p) /\ Base(p) \in Int
    BY <2>1, <1>2, StoredOps DEF RequestsTrue, CreateTrue, Ops
  <2> QED
    BY <2>1, <2>2, <1>2, <1>4
<1>10. ServerTrue'
  <2>1. w.iid < given.temp
    BY <1>2, <1>4
  <2> QED
    BY <2>1, <1>4, <1>5, <1>7, <1>8, <1>9, PutCommits
<1> QED
  BY <1>1, <1>5, <1>6, <1>10, OwnIsClient, CommittedOwn

\* What the server stores, and that it is stored once and nothing else of it moves.
LEMMA AcceptStores ==
    ASSUME OwnInv, ClientInv', NEW o \in Ops, Accept(o)
    PROVE  \E c : /\ Commit(Put(Now, c)) /\ c.op = o /\ c.val = o /\ c.iid \in Int /\ c.iid # NoIid
                  /\ IF o \in Creates THEN c.iid = given.temp - 1 /\ given'.temp = c.iid
                                      ELSE c.iid = post[o].iid /\ c.iid \in Iids(Now) /\ given' = given
                  /\ given'.iid = given.iid /\ home[o] = NoIid /\ home'[o] = c.iid
                  /\ \A p \in Ops \ {o} : home'[p] = home[p] /\ post'[p] = post[p]
                  /\ post[o].pc = "sent" /\ post'[o].pc = "answered"
                  /\ post'[o].iid = post[o].iid /\ post'[o].card = c
                  /\ UNCHANGED <<cards, revision, mine, nextTemp>> /\ UNCHANGED deleting
<1>1. PICK iid : iid = IF o \in Creates THEN given.temp - 1 ELSE post[o].iid
  OBVIOUS
<1>2. PICK c : c = CardOf(iid, o, "pending", o)
  OBVIOUS
<1>3. /\ UNCHANGED <<cards, revision, mine, nextTemp>> /\ UNCHANGED deleting
      /\ post[o].pc = "sent" /\ home[o] = NoIid /\ Commit(Put(Now, c))
      /\ o \in Updates => iid \in Iids(Now)
      /\ home' = [home EXCEPT ![o] = iid]
      /\ given' = IF o \in Creates THEN [given EXCEPT !.temp = iid] ELSE given
      /\ post' = [post EXCEPT ![o].pc = "answered", ![o].card = c]
  BY <1>1, <1>2 DEF Accept, client, cache
<1>4. /\ post \in [Ops -> Post] /\ home \in [Ops -> Int] /\ given \in [temp : Int, iid : Nat]
      /\ given.temp <= -TempsUsed /\ TempsUsed \in Nat
  BY OwnIsTold DEF TypeOK
<1>5. c.iid = iid /\ c.op = o /\ c.val = o
  BY <1>2 DEF CardOf
<1>6. iid \in Int /\ iid # NoIid
  <2>1. CASE o \in Creates
    BY <2>1, <1>1, <1>4 DEF NoIid
  <2>2. CASE o \in Updates
    <3>1. Rev \in 0..Rev /\ OnBoards(iid, Rev)
      BY <2>2, <1>3, OwnIsTold DEF OnBoards, Now
    <3> QED
      BY <3>1, <1>4, OwnIsTold, BoardIids DEF NoIid
  <2> QED
    BY <2>1, <2>2 DEF Ops
<1>7. home'[o] = iid /\ \A p \in Ops \ {o} : home'[p] = home[p]
  BY <1>3, <1>4
<1>8. (\A p \in Ops \ {o} : post'[p] = post[p]) /\ post'[o] = [[post[o] EXCEPT !.pc = "answered"] EXCEPT !.card = c]
  BY <1>3, <1>4
<1>9. post'[o].pc = "answered" /\ post'[o].iid = post[o].iid /\ post'[o].card = c
  BY <1>4, <1>8 DEF Post
<1>10. /\ given'.iid = given.iid
       /\ IF o \in Creates THEN iid = given.temp - 1 /\ given'.temp = iid
                           ELSE iid = post[o].iid /\ iid \in Iids(Now) /\ given' = given
  <2>1. CASE o \in Creates
    BY <2>1, <1>1, <1>3, <1>4
  <2>2. CASE o \notin Creates
    BY <2>2, <1>1, <1>3 DEF Ops
  <2> QED
    BY <2>1, <2>2
<1> QED
  BY <1>3, <1>5, <1>6, <1>7, <1>8, <1>9, <1>10

LEMMA AcceptOwn == ASSUME OrdinaryTab, OwnInv, ClientInv', NEW o \in Ops, Accept(o) PROVE OwnInv'
<1>1. PICK c : /\ Commit(Put(Now, c)) /\ c.op = o /\ c.val = o /\ c.iid \in Int /\ c.iid # NoIid
               /\ IF o \in Creates THEN c.iid = given.temp - 1 /\ given'.temp = c.iid
                                   ELSE c.iid = post[o].iid /\ c.iid \in Iids(Now) /\ given' = given
               /\ given'.iid = given.iid /\ home[o] = NoIid /\ home'[o] = c.iid
               /\ \A p \in Ops \ {o} : home'[p] = home[p] /\ post'[p] = post[p]
               /\ post[o].pc = "sent" /\ post'[o].pc = "answered"
               /\ post'[o].iid = post[o].iid /\ post'[o].card = c
               /\ UNCHANGED <<cards, revision, mine, nextTemp>> /\ UNCHANGED deleting
  BY AcceptStores
<1>2. /\ given.temp \in Int /\ given.iid \in Nat /\ given.temp <= -TempsUsed /\ TempsUsed \in Nat
      /\ RequestsTrue /\ TypeOK /\ CardsTrue /\ (\A p \in Ops : RequestTrue(p)) /\ Updates \cap Creates = {}
  BY OwnIsTold, ConstantsAssumption DEF RequestsTrue, ConstantsAssumption
<1>3. Base(o)' = c.iid /\ \A p \in Ops \ {o} : Base(p)' = Base(p)
  BY <1>1 DEF Base
<1>4. StoredStays
  BY <1>1, <1>3 DEF StoredStays
<1>5. GivenGrows
  <2>1. given'.temp <= given.temp /\ given.iid <= given'.iid
    BY <1>1, <1>2
  <2>2. \A p \in Creates : Stores(p) => p = o
    BY <1>1 DEF Stores, Ops
  <2>3. o \in Creates => given'.temp <= Base(o)' /\ Base(o)' < given.temp /\ home'[o] = Base(o)'
    BY <1>1, <1>2, <1>3
  <2> QED
    BY <2>1, <2>2, <2>3 DEF GivenGrows
<1>6. LogGrows /\ \E r \in Nat : Commits(Put(Now, c), r)
  BY <1>1, CommitIs
<1>7. PICK r \in Nat : Commits(Put(Now, c), r)
  BY <1>6
<1>8. CardTrue(c, r)'
  <2>1. Issued(c.iid)'
    <3>1. CASE o \in Creates
      BY <3>1, <1>1, <1>2 DEF Issued
    <3>2. CASE o \notin Creates
      <4>1. Rev \in 0..Rev /\ OnBoards(c.iid, Rev)
        BY <3>2, <1>1, OwnIsTold DEF OnBoards, Now
      <4>2. Issued(c.iid) /\ given' = given
        BY <3>2, <4>1, <1>1, <1>2, BoardIids
      <4> QED
        BY <4>2 DEF Issued
    <3> QED
      BY <3>1, <3>2
  <2>2. o # Deletion
    BY ConstantsAssumption DEF ConstantsAssumption
  <2>3. At(o, c.iid, r)'
    BY <1>1, <1>3 DEF At
  <2> QED
    BY <2>1, <2>2, <2>3, <1>1 DEF CardTrue
<1>9. FirstTrue(c, r)'
  <2>1. CASE o \notin Creates
    BY <2>1, <1>1, <1>7, OldIid
  <2>2. CASE o \in Creates
    <3> SUFFICES ASSUME NEW p \in Creates, home'[p] # NoIid, c.iid = Base(p)', p # o PROVE FALSE
      BY <1>1 DEF FirstTrue
    <3>1. home[p] # NoIid /\ Base(p)' = Base(p)
      BY <1>1, <1>3 DEF Ops
    <3>2. given.temp <= Base(p) /\ Base(p) \in Int
      BY <3>1, <1>2, StoredOps DEF RequestsTrue, CreateTrue, Ops
    <3> QED
      BY <2>2, <3>1, <3>2, <1>1, <1>2
  <2> QED
    BY <2>1, <2>2
<1>10. ServerTrue'
  <2>1. c.iid \in Iids(Now) \/ c.iid < given.temp
    BY <1>1, <1>2
  <2>2. o \notin Theirs
    BY OpIsOwn
  <2> QED
    BY <2>1, <2>2, <1>1, <1>4, <1>5, <1>7, <1>8, <1>9, PutCommits
<1>11. PostStays /\ DoneStays
  <2>1. PostStays
    <3>1. \A p \in Ops : p = o \/ post'[p] = post[p]
      BY <1>1
    <3> QED
      BY <3>1, <1>1 DEF PostStays
  <2>2. DoneStays
    BY <1>1 DEF DoneStays, Ops
  <2> QED
    BY <2>1, <2>2
<1>12. \A p \in Ops : RequestTrue(p)'
  <2> TAKE p \in Ops
  <2>1. CASE p = o
    BY <2>1, <1>1, <1>2, <1>3 DEF RequestTrue
  <2>2. CASE p # o
    <3>1. post'[p] = post[p] /\ home'[p] = home[p] /\ Base(p)' = Base(p) /\ RequestTrue(p)
      BY <2>2, <1>1, <1>2, <1>3
    <3> QED
      BY <3>1, <1>1 DEF RequestTrue
  <2> QED
    BY <2>1, <2>2
<1>13. HomesMove
  BY <1>1 DEF HomesMove, Ops
<1> QED
  BY <1>1, <1>4, <1>5, <1>6, <1>10, <1>11, <1>12, <1>13, ListUnchanged, OwnIsClient, OwnStays

\* The completion of a card of GitLab.
LEMMA CompleteOldOwn ==
    ASSUME OwnInv, ClientInv', NEW c \in Now, Complete(c), c.iid > 0 PROVE OwnInv'
<1>1. c \in Card /\ c.iid \in Int /\ ~(c.iid < 0) /\ BoardTrue(Now, touched) /\ home \in [Ops -> Int]
  BY CardCommitted, OwnIsClient, OwnIsTold DEF TypeOK
<1> DEFINE w == CardOf(c.iid, NoOp, "synced", c.val)
<1>2. /\ UNCHANGED <<given, post, cards, revision, mine, nextTemp>> /\ UNCHANGED deleting
      /\ Commit(Put(Now \ {c}, w))
      /\ home' = [o \in Ops |-> IF home[o] = c.iid THEN c.iid ELSE home[o]]
  BY <1>1 DEF Complete, client, cache
<1>3. home' = home
  BY <1>1, <1>2
<1>4. w.iid = c.iid /\ w.op = NoOp /\ w.val = c.val /\ NoOp # Deletion /\ NoOp \notin Ops /\ NoOp \notin Theirs
  BY ConstantsAssumption DEF CardOf, ConstantsAssumption, AllOps
<1> HIDE DEF w
<1>5. Put(Now \ {c}, w) = Put(Now, w)
  BY <1>4 DEF Put
<1>6. Commit(Put(Now, w))
  BY <1>2, <1>5
<1> QED
  BY <1>2, <1>3, <1>4, <1>6, OwnIsClient, SameCommits

\* The completion of a temporary card gives it an iid that no board has shown.
LEMMA CompleteNewOwn ==
    ASSUME OrdinaryTab, OwnInv, ClientInv', NEW c \in Now, Complete(c), c.iid < 0 PROVE OwnInv'
<1>1. PICK iid : iid = given.iid + 1
  OBVIOUS
<1>2. PICK w : w = IF c.op \in Updates THEN [c EXCEPT !.iid = iid]
                   ELSE CardOf(iid, NoOp, "synced", c.val)
  OBVIOUS
<1>3. /\ UNCHANGED <<post, cards, revision, mine, nextTemp>> /\ UNCHANGED deleting
      /\ Commit(Put(Now \ {c}, w))
      /\ home' = [o \in Ops |-> IF home[o] = c.iid THEN iid ELSE home[o]]
      /\ given' = [given EXCEPT !.iid = iid]
  BY <1>1, <1>2 DEF Complete, client, cache
<1>4. /\ given \in [temp : Int, iid : Nat] /\ given.temp <= -TempsUsed /\ TempsUsed \in Nat
      /\ given.iid \in Nat /\ Rev \in Nat /\ RenamesTrue /\ OneWrite /\ Rev \in 0..Rev /\ c \in Board(Rev)
      /\ RequestsTrue /\ TypeOK /\ CardsTrue /\ (\A p \in Ops : RequestTrue(p))
  BY OwnIsTold DEF TypeOK, RequestsTrue, Now
<1>5. /\ c \in Card /\ c.iid \in Int /\ BoardTrue(Now, touched) /\ CardTrue(c, Rev)
      /\ \A d \in Now : d.iid \in Int
  BY <1>4, CardCommitted, OwnIsClient DEF CardsTrue
<1>6. iid \in Nat /\ iid > 0 /\ iid > given.iid
  BY <1>1, <1>4
<1>7. /\ w.iid = iid /\ w.op # Deletion /\ w.op \notin Theirs
      /\ \A o \in Ops : w.op = o \/ w.val = o => c.op = o \/ c.val = o
  <2>1. NoOp # Deletion /\ NoOp \notin Ops /\ NoOp \notin Theirs
    BY ConstantsAssumption DEF ConstantsAssumption, AllOps
  <2>2. CASE c.op \in Updates
    <3>1. c.op \notin Theirs
      BY <2>2, ConstantsAssumption DEF ConstantsAssumption, Ops
    <3> QED
      BY <2>2, <3>1, <1>2, <1>5 DEF Card, CardTrue
  <2>3. CASE c.op \notin Updates
    <3>1. w = CardOf(iid, NoOp, "synced", c.val)
      BY <2>3, <1>2
    <3> QED
      BY <2>1, <3>1 DEF CardOf
  <2> QED
    BY <2>2, <2>3
\* The operations of the temporary card were stored under its iid.
<1>8. \A o \in Ops : c.op = o \/ c.val = o => home[o] # NoIid /\ Base(o) = c.iid
  <2> SUFFICES ASSUME NEW o \in Ops, c.op = o \/ c.val = o PROVE home[o] # NoIid /\ Base(o) = c.iid
    OBVIOUS
  <2>1. home[o] # NoIid /\ (c.iid = Base(o) \/ Renamed(Base(o), c.iid, Rev))
    BY <1>5 DEF CardTrue, At
  <2>2. Renamed(Base(o), c.iid, Rev) => c.iid > 0
    BY <1>4, RenamedFacts
  <2> QED
    BY <2>1, <2>2, <1>5
<1>9. /\ \A o \in Ops : home'[o] = IF home[o] = c.iid THEN iid ELSE home[o]
      /\ \A o \in Ops : home'[o] = NoIid <=> home[o] = NoIid
      /\ \A o \in Ops : Base(o)' = Base(o)
      /\ given'.temp = given.temp /\ given'.iid = iid
  <2>1. \A o \in Ops : home'[o] = IF home[o] = c.iid THEN iid ELSE home[o]
    BY <1>3
  <2> QED
    BY <2>1, <1>3, <1>4, <1>6 DEF NoIid, Base
<1>10. StoredStays
  BY <1>9 DEF StoredStays
<1>11. GivenGrows
  BY <1>4, <1>6, <1>9 DEF GivenGrows, Stores, Ops
<1>12. LogGrows /\ \E r \in Nat : Commits(Put(Now \ {c}, w), r)
  BY <1>3, CommitIs
<1>13. PICK r \in Nat : Commits(Put(Now \ {c}, w), r)
  BY <1>12
<1>14. /\ r \in 1..Rev' /\ r - 1 \in 0..Rev /\ Rev' = r /\ Board(r - 1) = Now
       /\ Deleted(r)' = Iids(Now) \ Iids(Put(Now \ {c}, w))
       /\ Written(r)' = Put(Now \ {c}, w) \ Now
       /\ \A i : OnBoards(i, r - 1)' <=> OnBoards(i, r - 1)
  BY <1>13, CommitFacts DEF Commits
<1>15. ~OnBoards(iid, r - 1) /\ iid \notin Iids(Now)
  <2>1. ~OnBoards(iid, r - 1)
    BY <1>4, <1>6, <1>14, BoardIids DEF Issued
  <2>2. \A i \in Iids(Now) : OnBoards(i, r - 1)
    BY <1>14 DEF OnBoards
  <2> QED
    BY <2>1, <2>2
<1>16. Deleted(r)' = {c.iid}
  <2>1. \A d \in Now : d.iid = c.iid => d = c
    BY <1>5 DEF BoardTrue
  <2>2. \A i : i \in Iids(Put(Now \ {c}, w)) <=> i = iid \/ (i \in Iids(Now) /\ i # c.iid)
    <3>1. \A d : d \in Put(Now \ {c}, w) <=> d = w \/ (d \in Now /\ d # c /\ d.iid # iid)
      BY <1>7 DEF Put
    <3>2. \A d \in Now : d.iid # iid
      BY <1>15 DEF Iids
    <3> QED
      BY <3>1, <3>2, <2>1, <1>7 DEF Iids
  <2>3. c.iid \in Iids(Now) /\ c.iid # iid
    BY <1>6 DEF Iids
  <2> QED
    BY <2>2, <2>3, <1>14, <1>15
<1>17. w \in Written(r)' /\ \A d \in Written(r)' : d = w
  <2>1. w \in Put(Now \ {c}, w) /\ \A d \in Put(Now \ {c}, w) : d = w \/ d \in Now
    BY DEF Put
  <2>2. w \notin Now
    BY <1>7, <1>15 DEF Iids
  <2> QED
    BY <2>1, <2>2, <1>14
<1>18. iid \in Iids(Written(r))'
  BY <1>7, <1>17 DEF Iids
<1>19. \A i : i = c.iid => Renamed(i, iid, r)'
  <2>1. r \in 1..r
    BY <1>14
  <2> QED
    BY <2>1, <1>16, <1>18 DEF Renamed
<1>20. CardTrue(w, r)'
  <2>1. Issued(w.iid)'
    BY <1>6, <1>7, <1>9 DEF Issued
  <2>2. ASSUME NEW o \in Ops, w.op = o \/ w.val = o PROVE At(o, w.iid, r)'
    <3>1. home'[o] # NoIid /\ Base(o)' = c.iid
      BY <2>2, <1>7, <1>8, <1>9
    <3>2. Renamed(Base(o), w.iid, r)'
      BY <3>1, <1>14, <1>16, <1>18, <1>7 DEF Renamed
    <3> QED
      BY <3>1, <3>2 DEF At
  <2> QED
    BY <2>1, <2>2, <1>7 DEF CardTrue
<1>21. FirstTrue(w, r)'
  <2> SUFFICES ASSUME NEW p \in Creates, home'[p] # NoIid, w.iid = Base(p)' PROVE FALSE
    BY DEF FirstTrue
  <2>1. Base(p)' = Base(p) /\ Base(p) \in Int /\ Base(p) < 0
    BY <1>4, <1>9, StoredOps DEF Ops
  <2> QED
    BY <2>1, <1>6, <1>7
<1>22. RenamedOnce(r)'
  <2>1. \A k \in r..Rev' : c.iid \notin Iids(Board(k))'
    <3>1. c.iid \notin Iids(Board(r))'
      BY <1>16 DEF Deleted
    <3>2. \A k \in r..Rev' : k = r
      BY <1>14
    <3> QED
      BY <3>1, <3>2
  <2>2. w.iid > 0 /\ ~OnBoards(w.iid, r - 1)'
    BY <1>6, <1>7, <1>14, <1>15
  <2> QED
    BY <2>1, <2>2, <1>16, <1>17 DEF RenamedOnce
<1>23. ServerTrue'
  <2>1. \A d \in Put(Now \ {c}, w) : d \in Now \/ d = w
    BY DEF Put
  <2>2. \A d \in Now : d.iid \in Iids(Now)
    BY DEF Iids
  <2>3. \A d \in Put(Now \ {c}, w) \ Now : CardTrue(d, r)' /\ FirstTrue(d, r)'
    BY <2>1, <1>20, <1>21
  <2>4. \A d \in Put(Now \ {c}, w) : d.iid < 0 => d.iid \in Iids(Now) \/ d.iid < given.temp
    BY <2>1, <2>2, <1>6, <1>7
  <2>5. \A d \in Put(Now \ {c}, w) : d.op \in Theirs => d \in Now
    BY <2>1, <1>7
  <2> QED
    BY <2>3, <2>4, <2>5, <1>10, <1>11, <1>13, <1>22, ServerCommits
<1>24. HomesMove
  <2> SUFFICES ASSUME NEW o \in Creates, home[o] # NoIid, home'[o] # home[o]
               PROVE  Renamed(Base(o), home[o], Rev)'
    BY DEF HomesMove
  <2>1. home[o] = c.iid /\ home'[o] = iid
    BY <1>9 DEF Ops
  <2>2. Base(o) = c.iid
    <3>1. home[o] = Base(o) \/ Renamed(Base(o), home[o], Rev)
      BY <1>4 DEF RequestsTrue, CreateTrue
    <3>2. Renamed(Base(o), home[o], Rev) => home[o] > 0
      BY <1>4, RenamedFacts
    <3> QED
      BY <2>1, <3>1, <3>2, <1>5
  <2>3. Base(o)' = c.iid
    BY <2>2, <1>9 DEF Ops
  <2> QED
    BY <2>1, <2>3, <1>14, <1>16, <1>18 DEF Renamed
<1> QED
  BY <1>3, <1>9, <1>11, <1>12, <1>23, <1>24, OwnIsClient, CommittedOwn

LEMMA OwnBegins == ASSUME OrdinaryTab, Init PROVE OwnInv
<1>1. PICK c : c = CardOf(1, NoOp, "synced", Born)
  OBVIOUS
<1>2. /\ boards = <<{c}>> /\ cards = <<c>> /\ revision = 0 /\ deleting = {} /\ mine = {} /\ nextTemp = -1
      /\ home = [o \in Ops |-> NoIid] /\ given = [temp |-> -TempsUsed, iid |-> 1]
      /\ post = [o \in Ops |-> [pc |-> "idle", iid |-> NoIid, card |-> NoCard]]
      /\ left = [errors |-> MaxErrors, loads |-> MaxLoads, drags |-> MaxDrags,
                 drops |-> MaxDrops, deletes |-> MaxDeletes]
  BY <1>1 DEF Init
<1>3. MaxLoads = 0 /\ TempsUsed \in Nat
  BY ConstantsAssumption DEF OrdinaryTab, ConstantsAssumption
<1>4. /\ c.iid = 1 /\ c.op \notin AllOps /\ c.val \notin AllOps
  BY <1>1, ConstantsAssumption DEF CardOf, ConstantsAssumption
<1>5. c.op # Deletion /\ c.op \notin Theirs /\ \A o \in Ops : c.op # o /\ c.val # o
  BY <1>4 DEF AllOps
<1>6. ClientInv
  BY <1>2, <1>3, ClientBegins
<1>7. Rev = 0 /\ Board(0) = {c} /\ 0..0 = {0} /\ 1..0 = {}
  BY <1>2 DEF Rev, Board
<1>8. /\ given.temp = -TempsUsed /\ given.iid = 1 /\ (\A o \in Ops : home[o] = NoIid)
      /\ \A o \in Ops : post[o].pc = "idle" /\ post[o].iid = NoIid
  BY <1>2
<1>9. ServerTrue
  <2>1. CardsTrue
    <3>1. Issued(c.iid)
      BY <1>3, <1>4, <1>8 DEF Issued
    <3>2. CardTrue(c, 0)
      BY <3>1, <1>5 DEF CardTrue
    <3> QED
      BY <3>2, <1>7 DEF CardsTrue
  <2>2. FirstsTrue
    BY <1>8 DEF FirstsTrue, FirstTrue, Ops
  <2>3. RenamesTrue
    BY <1>7 DEF RenamesTrue
  <2>4. TheirsTrue
    BY <1>7 DEF TheirsTrue
  <2> QED
    BY <2>1, <2>2, <2>3, <2>4 DEF ServerTrue
<1>10. RequestsTrue
  <2>1. \A o \in Ops : RequestTrue(o)
    BY <1>2, <1>8 DEF RequestTrue
  <2>2. \A o \in Creates : CreateTrue(o)
    BY <1>8 DEF CreateTrue, Ops
  <2>3. Started = {}
    BY <1>8 DEF Started, Ops
  <2>4. Cardinality(Started) = 0
    BY <2>3, FS_EmptySet
  <2>5. nextTemp = -1 - Cardinality(Started) /\ given.temp <= -TempsUsed
    BY <2>4, <1>2, <1>3, <1>8
  <2>6. \A o \in Creates : post[o].pc = "idle" /\ home[o] = NoIid
    BY <1>8 DEF Ops
  <2> QED
    BY <2>1, <2>2, <2>5, <2>6 DEF RequestsTrue
<1>11. DeletesTrue
  BY <1>2 DEF DeletesTrue
<1>12. OwnView(cards, revision)
  <2>1. DOMAIN cards = {1} /\ cards[1] = c
    BY <1>2
  <2>2. OneEach(cards)
    BY <2>1 DEF OneEach
  <2>3. c.iid \in Iids(Board(0)) /\ 0 \in 0..0
    BY <1>7 DEF Iids
  <2>4. OnBoards(c.iid, 0)
    BY <2>3 DEF OnBoards
  <2>5. Known(c, 0)
    BY <2>4, <1>4 DEF Known
  <2>6. Named(c, 0) /\ NewCard(c, 0)
    BY <1>5 DEF Named, NewCard, Ops
  <2>7. \A o \in Ops : ~Waits(o)
    BY <1>8 DEF Waits
  <2> QED
    BY <2>1, <2>2, <2>5, <2>6, <2>7, <1>2 DEF OwnView
<1> QED
  BY <1>6, <1>9, <1>10, <1>11, <1>12 DEF OwnInv

LEMMA MutateOwn == ASSUME OrdinaryTab, OwnInv, ClientInv', Mutate, Heard PROVE OwnInv'
<1>1. ASSUME NEW o \in Ops,
             \/ Create(o) \/ PostSucceeds(o) \/ PostFails(o) \/ RequestLost(o)
             \/ Accept(o) \/ AcceptAgain(o) \/ Refuse(o) \/ \E c \in ToSet(cards) : Edit(o, c)
      PROVE  OwnInv'
  <2>1. CASE Refuse(o) \/ RequestLost(o)
    BY <2>1, UnheardOwn DEF Refuse, Heard
  <2>2. ~AcceptAgain(o)
    BY OwnIsTold DEF AcceptAgain, RequestsTrue, RequestTrue
  <2>3. CASE PostSucceeds(o)
    BY <2>3, UpdateSucceedsOwn, CreateSucceedsOwn DEF Ops
  <2> QED
    BY <1>1, <2>1, <2>2, <2>3, CreateOwn, PostFailsOwn, AcceptOwn, EditOwn
<1>2. ASSUME NEW r \in retrying,
             RetryAccepted(r) \/ RetryRefused(r) \/ RetryLost(r) \/ RetryAnswered(r)
      PROVE  OwnInv'
  BY <1>2, TriedOwn, RetryFailsOwn, RetryAnsweredOwn
<1>3. ASSUME NEW c \in ToSet(cards), Retry(c) \/ Delete(c) PROVE OwnInv'
  BY <1>3, RetryOwn, DeleteOwn
<1>4. ASSUME NEW d \in deleting, AcceptDelete(d) \/ RefuseDelete(d) \/ DeleteLands(d) PROVE OwnInv'
  BY <1>4, AcceptDeleteOwn, RefuseDeleteOwn, DeleteLandsOwn
<1> QED
  BY <1>1, <1>2, <1>3, <1>4 DEF Mutate

LEMMA WorkOwn == ASSUME OrdinaryTab, OwnInv, ClientInv', Work, Heard PROVE OwnInv'
<1>1. ASSUME NEW c \in Now, Complete(c) PROVE OwnInv'
  <2>1. c.iid > 0 \/ c.iid < 0
    <3>1. Rev \in 0..Rev /\ OnBoards(c.iid, Rev)
      BY OwnIsTold DEF OnBoards, Now, Iids
    <3> QED
      BY <3>1, OwnIsTold, BoardIids
  <2> QED
    BY <1>1, <2>1, CompleteOldOwn, CompleteNewOwn
<1>2. \A c \in hidden : ~DeletionFails(c)
  BY DEF Heard
<1> QED
  BY <1>1, <1>2, TriedOwn, TheyDeleteOwn, TheyEditOwn, TheyCreateOwn, DeletionDoneOwn, ElsewhereOwn
     DEF Work

LEMMA OwnKeeps == ASSUME OrdinaryTab, OwnInv, [Next]_vars, [Heard]_vars PROVE OwnInv'
<1>1. ClientInv /\ ClientInv'
  BY OwnIsClient, ClientKeeps
<1>2. Read => OwnInv'
  BY <1>1, NoBootstrapStep, ReadsOwn, CatchUpLandsOwn DEF Read
<1>3. Listen => OwnInv'
  BY <1>1, NoBootstrapStep, ReadsOwn, DeliverOwn DEF Listen
<1>4. Drag \/ UNCHANGED vars => OwnInv'
  BY <1>1, ReadsOwn
<1>5. CASE Heard
  BY <1>1, <1>2, <1>3, <1>4, <1>5, MutateOwn, WorkOwn DEF Next
<1> QED
  BY <1>4, <1>5

\* When the tab hears of what the server stores, the list shows of this tab's own operations
\* the edits the server has not stored, in their places, and of the stored ones what the
\* log has said of them: the strengthening by which answers, frames and pages in any order
\* keep UnsentEditShown and CreatedOnce (syncActions.ts upsertCard, shouldApplyIncomingCard,
\* BoardPage.tsx replaceCardForOperation).
THEOREM OwnInvariance ==
    ASSUME OrdinaryTab PROVE Spec /\ [][Heard]_vars => []OwnInv
<1>1. Init => OwnInv
  BY OwnBegins
<1>2. OwnInv /\ [Next]_vars /\ [Heard]_vars => OwnInv'
  BY OwnKeeps
<1> QED
  BY <1>1, <1>2, PTL DEF Spec

\* An edit of a card of GitLab and a new card stay on the screen until the server has stored
\* them, whatever frames, pages, answers and edits come between (syncActions.ts:14).
THEOREM EditsStayShown ==
    ASSUME OrdinaryTab PROVE Spec /\ [][Heard]_vars => []UnsentEditShown
<1>1. OwnInv => UnsentEditShown
  <2> SUFFICES ASSUME OwnInv, NEW o \in mine, post[o].iid > 0 \/ o \in Creates, Lost(o) PROVE FALSE
    BY DEF UnsentEditShown
  <2>1. o \in Ops /\ RequestTrue(o)
    BY OwnIsTold DEF TypeOK, RequestsTrue
  <2>2. home[o] = NoIid /\ post[o].pc \in {"sent", "failing", "failed"}
    BY <2>1 DEF Lost, RequestTrue
  <2>3. Waits(o)
    BY <2>2 DEF Waits, Lost
  <2>4. PICK j \in DOMAIN cards : cards[j].op = o /\ cards[j].val = o
    BY <2>1, <2>3, OwnIsTold DEF Shows
  <2> QED
    BY <2>4 DEF Lost, ToSet
<1> QED
  BY <1>1, OwnInvariance, PTL

LEMMA AtMostOne ==
    ASSUME NEW S, \A x, y \in S : x = y
    PROVE  Cardinality(S) <= 1
<1>1. CASE S = {}
  BY <1>1, FS_EmptySet
<1>2. CASE S # {}
  <2>1. PICK x : S = {x}
    BY <1>2
  <2> QED
    BY <2>1, FS_Singleton
<1> QED
  BY <1>1, <1>2

\* A stored new card is listed once under the iids the server has given it.
LEMMA OnePlace ==
    ASSUME OwnInv, NEW o \in Creates, NEW j \in DOMAIN cards, NEW k \in DOMAIN cards,
           At(o, cards[j].iid, revision), At(o, cards[k].iid, revision)
    PROVE  j = k
<1>1. /\ RenamesTrue /\ OneWrite /\ Rev \in Nat /\ revision \in 0..Rev /\ revision \in Nat /\ OneEach(cards)
      /\ Known(cards[j], revision) /\ Known(cards[k], revision)
  BY OwnIsTold DEF CardOwn
<1>2. \A i : Renamed(Base(o), i, revision) => Base(o) < 0 /\ Gone(Base(o), revision)
  BY <1>1, GoneWas
<1>3. \A i, l : Renamed(Base(o), i, revision) /\ Renamed(Base(o), l, revision) => i = l
  BY <1>1, RenamedFacts
<1>4. cards[j].iid = cards[k].iid
  BY <1>1, <1>2, <1>3 DEF At, Known
<1> QED
  BY <1>1, <1>4 DEF OneEach

\* While the tab shows its own new card, the log it has read has not shown the stored one.
LEMMA StillUnseen ==
    ASSUME OrdinaryTab, OwnInv, NEW o \in Creates, NEW j \in DOMAIN cards,
           cards[j].op = o, cards[j].iid = post[o].iid
    PROVE  \A k \in DOMAIN cards : ~At(o, cards[k].iid, revision)
<1>1. /\ RenamesTrue /\ OneWrite /\ Rev \in Nat /\ revision \in 0..Rev /\ revision \in Nat /\ Told
      /\ \A k \in DOMAIN cards : Known(cards[k], revision) /\ NewCard(cards[k], revision)
  BY OwnIsTold DEF CardOwn
<1> SUFFICES ASSUME NEW k \in DOMAIN cards, At(o, cards[k].iid, revision) PROVE FALSE
  OBVIOUS
<1>2. home[o] # NoIid /\ post[o].pc # "done" /\ ~OnBoards(Base(o), revision)
  BY <1>1 DEF NewCard, At
<1>3. cards[k].iid = Base(o)
  <2>1. ~Renamed(Base(o), cards[k].iid, revision)
    BY <1>1, <1>2, GoneWas
  <2> QED
    BY <2>1 DEF At
<1>4. cards[k].iid # Base(o)
  <2>1. Known(cards[k], revision)
    BY <1>1
  <2> QED
    BY <2>1, <1>1, <1>2, NewIid
<1> QED
  BY <1>3, <1>4

\* A new card is never listed twice as pending, and not at all twice once the tab has read
\* its completion, in whatever order the answer, the frame of its temporary row and that of
\* its completion come (syncActions.ts:149).
THEOREM NewCardsAreListedOnce ==
    ASSUME OrdinaryTab PROVE Spec /\ [][Heard]_vars => []CreatedOnce
<1>1. OwnInv => CreatedOnce
  <2> SUFFICES ASSUME OwnInv, NEW o \in Creates
               PROVE  /\ Cardinality({j \in DOMAIN cards : cards[j].op = o}) <= 1
                      /\ home[o] > 0 /\ (\E n \in 1..revision : home[o] \in Iids(Written(n))) =>
                             Cardinality({j \in DOMAIN cards : cards[j].val = o}) <= 1
    BY DEF CreatedOnce
  <2>1. /\ RenamesTrue /\ OneWrite /\ Rev \in Nat /\ revision \in 0..Rev /\ revision \in Nat
        /\ RequestsTrue /\ TypeOK /\ OneEach(cards) /\ o \in Ops /\ CreateTrue(o)
    BY OwnIsTold DEF RequestsTrue, Ops
  <2>2. \A j \in DOMAIN cards : Named(cards[j], revision) /\ NewCard(cards[j], revision)
    BY OwnIsTold DEF CardOwn
  <2>3. ASSUME NEW j \in DOMAIN cards, NEW k \in DOMAIN cards, cards[j].op = o, cards[k].op = o
        PROVE  j = k
    <3>1. /\ cards[j].iid = post[o].iid \/ At(o, cards[j].iid, revision)
          /\ cards[k].iid = post[o].iid \/ At(o, cards[k].iid, revision)
      BY <2>1, <2>2, <2>3 DEF Named
    <3>2. CASE cards[j].iid = post[o].iid
      BY <2>1, <2>3, <3>1, <3>2, StillUnseen DEF OneEach
    <3>3. CASE cards[k].iid = post[o].iid
      BY <2>1, <2>3, <3>1, <3>3, StillUnseen DEF OneEach
    <3>4. CASE At(o, cards[j].iid, revision) /\ At(o, cards[k].iid, revision)
      BY <3>4, OnePlace
    <3> QED
      BY <3>1, <3>2, <3>3, <3>4
  <2>4. ASSUME home[o] > 0, \E n \in 1..revision : home[o] \in Iids(Written(n)),
               NEW j \in DOMAIN cards, NEW k \in DOMAIN cards, cards[j].val = o, cards[k].val = o
        PROVE  j = k
    <3>1. PICK n \in 1..revision : home[o] \in Iids(Written(n))
      BY <2>4
    <3>2. home[o] # NoIid /\ Base(o) \in Int /\ Base(o) < 0
      BY <2>1, <2>4, StoredOps DEF NoIid
    <3>3. PICK m \in 1..Rev : Base(o) \in Deleted(m) /\ home[o] \in Iids(Written(m))
      BY <2>1, <2>4, <3>2 DEF CreateTrue, Renamed
    <3>4. m <= n
      <4>1. RenamedOnce(m) /\ OneWritten(m)
        BY <2>1 DEF RenamesTrue, OneWrite
      <4>2. ~OnBoards(home[o], m - 1)
        BY <4>1, <3>2, <3>3 DEF RenamedOnce, OneWritten, Iids
      <4>3. home[o] \in Iids(Board(n))
        BY <3>1 DEF Written, Iids
      <4>4. ~(n \in 0..(m - 1))
        BY <4>2, <4>3 DEF OnBoards
      <4> QED
        BY <2>1, <4>4
    <3>5. m \in 1..revision
      BY <2>1, <3>4
    <3>6. OnBoards(Base(o), revision)
      <4>1. Gone(Base(o), revision)
        BY <3>3, <3>5 DEF Gone
      <4> QED
        BY <2>1, <4>1, GoneWas
    <3>7. \A i \in DOMAIN cards : cards[i].val = o => At(o, cards[i].iid, revision)
      <4> SUFFICES ASSUME NEW i \in DOMAIN cards, cards[i].val = o, cards[i].iid = post[o].iid
                   PROVE  FALSE
        BY <2>1, <2>2 DEF Named
      <4> QED
        BY <2>2, <3>2, <3>6 DEF NewCard
    <3> QED
      BY <2>4, <3>7, OnePlace
  <2>5. Cardinality({j \in DOMAIN cards : cards[j].op = o}) <= 1
    BY <2>3, AtMostOne
  <2>6. ASSUME home[o] > 0, \E n \in 1..revision : home[o] \in Iids(Written(n))
        PROVE  Cardinality({j \in DOMAIN cards : cards[j].val = o}) <= 1
    BY <2>4, <2>6, AtMostOne
  <2> QED
    BY <2>5, <2>6
<1> QED
  BY <1>1, OwnInvariance, PTL

=============================================================================
