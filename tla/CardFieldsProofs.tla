------------------------- MODULE CardFieldsProofs -------------------------
(***************************************************************************)
(* An edit survives the edits of other fields, for any number of edits on  *)
(* the board and in GitLab and of reads, and any kinds of operations:      *)
(* EditsSurvive of CardFields.                                             *)
(***************************************************************************)
EXTENDS CardFields, TLAPS

Card(n) == [CardFieldNames -> 0 .. n]
Snapshot(n) == [card : Card(n), ver : Int, knows : SUBSET (1 .. n)]
Row(n) == [card : Card(n), op : 0 .. n, ver : Int, knows : SUBSET (1 .. n)]
EditState(n) ==
    [kind : EditKinds \cup {"in_gitlab"}, fields : SUBSET CardFieldNames,
     at : {"read", "stamped", "queued", "claimed", "applied", "done"},
     base : Card(n), claimed : Card(n), answer : Snapshot(n), knew : SUBSET (1 .. n)]

EditTypes == /\ edits \in Seq(EditState(Len(edits))) /\ stamped \in Seq(Nat)
             /\ cached \in Row(Len(edits))
             /\ issue \in Snapshot(Len(edits)) /\ observed \in Snapshot(Len(edits))

-----------------------------------------------------------------------------
(* What is known *)

OnBoard(e) == edits[e].kind # "in_gitlab"
Stored(e) == edits[e].at \in {"queued", "claimed", "applied", "done"}
Reached(e) == edits[e].at \in {"applied", "done"}
Claimed(e) == edits[e].at \in {"claimed", "applied", "done"}

\* Who knows an edit knows what its user knew.
Closed(known) == \A e \in known : e \in DOMAIN edits /\ edits[e].knew \subseteq known

\* Nothing takes field f of edit e away; and no edit was made at the same time as e.
Kept(e, f) == f \in edits[e].fields /\ ~Endangered(e, f) /\ ~Superseded(e, f)
NoneBeside(e) == \A d \in DOMAIN edits : ~Concurrent(d, e)

\* A card has what nothing takes away of the edits it knows.
Holds(card, known) == \A e \in known : \A f \in CardFieldNames : Kept(e, f) => card[f] = e

\* What has been read of the issue, by whomever.
Found == {NothingObserved, issue, observed} \cup {edits[e].answer : e \in DOMAIN edits}

-----------------------------------------------------------------------------
(* The invariant *)

\* The operations of what an edit knew are stored before its own, and done before its
\* own is claimed; what GitLab has is what was carried out.
Ordered(e) ==
    /\ OnBoard(e) => edits[e].fields = Changes(edits[e].kind)
    /\ ~OnBoard(e) => edits[e].at = "done" /\ \A d \in edits[e].knew : Reached(d)
    /\ Reached(e) <=> e \in issue.knows
    /\ edits[e].at = "applied" => e \in edits[e].answer.knows
    /\ OnBoard(e) /\ edits[e].at # "read" => \E k \in DOMAIN stamped : stamped[k] = e
    /\ \A d \in edits[e].knew : Stored(d)
    /\ OnBoard(e) /\ edits[e].at # "read" => \A d \in edits[e].knew : OnBoard(d) => Before(d, e)
    /\ OnBoard(e) /\ Claimed(e) => \A d \in edits[e].knew : edits[d].at = "done"
EditOrder == \A e \in DOMAIN edits : Ordered(e)

\* A request has read, and a worker has claimed, what they knew of.
EditHolds(e) ==
    /\ Closed(edits[e].knew) /\ Holds(edits[e].base, edits[e].knew)
    /\ edits[e].at = "claimed" =>
           \A d \in edits[e].knew : \A f \in CardFieldNames :
               NoneBeside(d) /\ Kept(d, f) => edits[e].claimed[f] = d
EditsHold == \A e \in DOMAIN edits : EditHolds(e)

\* Readings of the issue are ordered by version: a later one knows more.
Precedes(y, x) == \A e \in x.knows \ y.knows : y.ver < x.ver
FoundInOrder ==
    \A x \in Found : /\ x.knows \subseteq issue.knows /\ x.ver <= issue.ver
                     /\ Closed(x.knows) /\ Holds(x.card, x.knows)
                     /\ \A y \in Found : Precedes(y, x)

\* What only its own edits send: an edit that was not carried out is not in GitLab.
OwnFields == {"description", "assignees", "due", "status"}
OwnSent == \A f \in OwnFields : issue.card[f] \in {0} \cup issue.knows

\* The edits on the board that are e or know of it.
Later(e) == {s \in DOMAIN edits : OnBoard(s) /\ (s = e \/ e \in edits[s].knew)}

\* Once such an edit is stored, the card in the cache knows of e: it has one of their
\* operations, or is newer than all that was read before e and no earlier edit is left
\* whose answer could replace it.
Settled(e) == /\ cached.op = 0 /\ Reached(e) /\ \A d \in edits[e].knew : edits[d].at = "done"
              /\ \A x \in Found : e \notin x.knows => x.ver < cached.ver
CacheKnowsOf(e) == NoneBeside(e) /\ (\E s \in Later(e) : Stored(s)) =>
                       e \in cached.knows /\ (cached.op \in Later(e) \/ Settled(e))
CacheKnows == \A e \in DOMAIN edits : CacheKnowsOf(e)

CacheHolds == /\ Closed(cached.knows) /\ Holds(cached.card, cached.knows)
              /\ \A e \in cached.knows : Stored(e)

FieldsInv == EditTypes /\ EditOrder /\ EditsHold /\ FoundInOrder /\ OwnSent /\ CacheKnows /\ CacheHolds

-----------------------------------------------------------------------------
(* Types *)

LEMMA KindsChange ==
    /\ \A kind \in EditKinds : /\ Changes(kind) \subseteq CardFieldNames /\ kind # "in_gitlab"
                               /\ \E f \in OwnFields : f \in Changes(kind)
                               /\ Sends(kind) \subseteq Changes(kind) \cup SentAlong(kind)
                               /\ Changes(kind) \subseteq Sends(kind)
                               /\ SentAlong(kind) \subseteq {"title", "team", "labels"}
    /\ OwnFields \cap {"title", "team", "labels"} = {} /\ OwnFields \subseteq CardFieldNames
<1>1. ASSUME NEW kind \in EditKinds
      PROVE  kind \in {"details", "team", "labels", "assignee", "due_date", "move"}
  BY FieldsAssumption DEF FieldsAssumption
<1>2. ASSUME NEW kind \in EditKinds
      PROVE  /\ Changes(kind) \subseteq CardFieldNames /\ kind # "in_gitlab"
             /\ \E f \in OwnFields : f \in Changes(kind)
             /\ Sends(kind) \subseteq Changes(kind) \cup SentAlong(kind)
             /\ Changes(kind) \subseteq Sends(kind)
             /\ SentAlong(kind) \subseteq {"title", "team", "labels"}
  <2>1. CASE kind = "details"
    BY <2>1 DEF Changes, Sends, SentAlong, CardFieldNames, OwnFields
  <2>2. CASE kind = "team"
    BY <2>2 DEF Changes, Sends, SentAlong, CardFieldNames, OwnFields
  <2>3. CASE kind = "labels"
    BY <2>3 DEF Changes, Sends, SentAlong, CardFieldNames, OwnFields
  <2>4. CASE kind = "assignee"
    BY <2>4 DEF Changes, Sends, SentAlong, CardFieldNames, OwnFields
  <2>5. CASE kind = "due_date"
    BY <2>5 DEF Changes, Sends, SentAlong, CardFieldNames, OwnFields
  <2>6. CASE kind = "move"
    BY <2>6 DEF Changes, Sends, SentAlong, CardFieldNames, OwnFields
  <2> QED BY <1>1, <1>2, <2>1, <2>2, <2>3, <2>4, <2>5, <2>6
<1> QED BY <1>2 DEF OwnFields, CardFieldNames

\* Cards with the contents of the first n edits, and with those of more.
LEMMA Wider ==
    ASSUME NEW n \in Nat, NEW m \in Nat, n <= m
    PROVE  /\ Card(n) \subseteq Card(m) /\ Snapshot(n) \subseteq Snapshot(m)
           /\ Row(n) \subseteq Row(m) /\ EditState(n) \subseteq EditState(m)
<1>1. 0 .. n \subseteq 0 .. m /\ 1 .. n \subseteq 1 .. m
  OBVIOUS
<1>2. Card(n) \subseteq Card(m)
  BY <1>1 DEF Card
<1>3. Snapshot(n) \subseteq Snapshot(m)
  BY <1>1, <1>2 DEF Snapshot
<1>4. Row(n) \subseteq Row(m)
  BY <1>1, <1>2 DEF Row
<1>5. EditState(n) \subseteq EditState(m)
  BY <1>1, <1>2, <1>3 DEF EditState
<1> QED BY <1>2, <1>3, <1>4, <1>5

LEMMA Blank == ASSUME NEW n \in Nat PROVE Unedited \in Card(n) /\ NothingObserved \in Snapshot(n)
BY DEF Unedited, NothingObserved, Card, Snapshot

LEMMA EditTyped ==
    ASSUME EditTypes, NEW e \in DOMAIN edits
    PROVE  /\ edits[e] \in EditState(Len(edits)) /\ e \in 1 .. Len(edits) /\ e \in Nat \ {0}
           /\ edits[e].kind \in EditKinds \cup {"in_gitlab"} /\ edits[e].fields \subseteq CardFieldNames
           /\ edits[e].at \in {"read", "stamped", "queued", "claimed", "applied", "done"}
           /\ edits[e].base \in Card(Len(edits)) /\ edits[e].claimed \in Card(Len(edits))
           /\ edits[e].answer \in Snapshot(Len(edits)) /\ edits[e].knew \subseteq DOMAIN edits
<1>1. edits[e] \in EditState(Len(edits)) /\ e \in 1 .. Len(edits) /\ DOMAIN edits = 1 .. Len(edits)
  BY DEF EditTypes
<1> QED BY <1>1 DEF EditState

\* What a step does with the edits that are there: it moves them on.
EditsGo ==
    /\ DOMAIN edits \subseteq DOMAIN edits'
    /\ \A e \in DOMAIN edits :
          /\ edits'[e].kind = edits[e].kind /\ edits'[e].fields = edits[e].fields
          /\ edits'[e].base = edits[e].base /\ edits'[e].knew = edits[e].knew

\* One edit is at another point of its way, with its card claimed or its answer.
MovedOn(e, at, claimed, answer) ==
    /\ DOMAIN edits' = DOMAIN edits /\ Len(edits') = Len(edits)
    /\ edits' \in Seq(EditState(Len(edits)))
    /\ edits'[e].at = at /\ edits'[e].claimed = claimed /\ edits'[e].answer = answer
    /\ \A d \in DOMAIN edits : d # e => edits'[d] = edits[d]
    /\ EditsGo

\* One edit more.
Added(new) ==
    /\ Len(edits') = Len(edits) + 1 /\ DOMAIN edits' = DOMAIN edits \cup {Len(edits) + 1}
    /\ Len(edits) + 1 \notin DOMAIN edits
    /\ edits' \in Seq(EditState(Len(edits) + 1))
    /\ edits'[Len(edits) + 1] = new
    /\ \A d \in DOMAIN edits : edits'[d] = edits[d]
    /\ EditsGo

LEMMA Moving ==
    ASSUME EditTypes, NEW e \in DOMAIN edits, NEW r, edits' = [edits EXCEPT ![e] = r],
           r \in EditState(Len(edits)),
           r.kind = edits[e].kind, r.fields = edits[e].fields,
           r.base = edits[e].base, r.knew = edits[e].knew
    PROVE  MovedOn(e, r.at, r.claimed, r.answer)
<1>1. /\ edits \in Seq(EditState(Len(edits))) /\ e \in 1 .. Len(edits)
      /\ DOMAIN edits = 1 .. Len(edits)
  BY EditTyped DEF EditTypes
<1>2. /\ edits' \in Seq(EditState(Len(edits))) /\ DOMAIN edits' = DOMAIN edits
      /\ Len(edits') = Len(edits) /\ edits'[e] = r
      /\ \A d \in DOMAIN edits : d # e => edits'[d] = edits[d]
  BY <1>1
<1> QED BY <1>2 DEF MovedOn, EditsGo

LEMMA Adding ==
    ASSUME EditTypes, NEW new \in EditState(Len(edits) + 1), edits' = Append(edits, new)
    PROVE  Added(new)
<1> DEFINE n == Len(edits)
<1>1. n \in Nat /\ edits \in Seq(EditState(n)) /\ DOMAIN edits = 1 .. n
  BY DEF EditTypes
<1>2. edits \in Seq(EditState(n + 1))
  <2>1. EditState(n) \subseteq EditState(n + 1)
    BY <1>1, Wider
  <2> QED BY <1>1, <2>1
<1>3. /\ edits' \in Seq(EditState(n + 1)) /\ Len(edits') = n + 1
      /\ edits'[n + 1] = new /\ \A d \in 1 .. n : edits'[d] = edits[d]
      /\ DOMAIN edits' = 1 .. n + 1
  BY <1>1, <1>2
<1>4. 1 .. n + 1 = 1 .. n \cup {n + 1} /\ n + 1 \notin 1 .. n
  BY <1>1
<1> QED BY <1>1, <1>3, <1>4 DEF Added, EditsGo

-----------------------------------------------------------------------------
(* What every step leaves true *)

\* More edits can only take more away.
LEMMA FewerKept ==
    ASSUME EditTypes, EditsGo, NEW e \in DOMAIN edits
    PROVE  /\ NoneBeside(e)' => NoneBeside(e)
           /\ \A f : Kept(e, f)' => Kept(e, f)
<1>1. \A d \in DOMAIN edits : /\ d \in DOMAIN edits' /\ Concurrent(d, e)' <=> Concurrent(d, e)
                              /\ d \in OfBoard => d \in OfBoard'
  BY DEF EditsGo, Concurrent, OfBoard
<1>2. NoneBeside(e)' => NoneBeside(e)
  BY <1>1 DEF NoneBeside
<1>3. ASSUME NEW f, Endangered(e, f) PROVE Endangered(e, f)'
  <2>1. PICK d \in DOMAIN edits :
            /\ Concurrent(d, e)
            /\ \/ f \in edits[d].fields \cup SentAlong(edits[d].kind)
               \/ \E g \in OfBoard : f \in {"title", "team"} \cap SentAlong(edits[g].kind)
    BY <1>3 DEF Endangered
  <2>2. CASE f \in edits[d].fields \cup SentAlong(edits[d].kind)
    BY <1>1, <2>1, <2>2 DEF Endangered, EditsGo
  <2>3. CASE \E g \in OfBoard : f \in {"title", "team"} \cap SentAlong(edits[g].kind)
    <3>1. PICK g \in OfBoard : f \in {"title", "team"} \cap SentAlong(edits[g].kind)
      BY <2>3
    <3>2. g \in OfBoard' /\ edits'[g].kind = edits[g].kind
      BY <1>1, <3>1 DEF OfBoard, EditsGo
    <3> QED BY <1>1, <2>1, <3>1, <3>2 DEF Endangered
  <2> QED BY <2>1, <2>2, <2>3
<1>4. ASSUME NEW f, Superseded(e, f) PROVE Superseded(e, f)'
  BY <1>4 DEF Superseded, EditsGo
<1>5. ASSUME NEW f, Kept(e, f)' PROVE Kept(e, f)
  BY <1>3, <1>4, <1>5 DEF Kept, EditsGo
<1> QED BY <1>2, <1>5

\* What a card holds it goes on holding.
LEMMA HoldsOn ==
    ASSUME EditTypes, EditsGo, NEW card, NEW known, Closed(known)
    PROVE  Closed(known)' /\ (Holds(card, known) => Holds(card, known)')
<1>1. Closed(known)'
  BY DEF Closed, EditsGo
<1>2. ASSUME Holds(card, known) PROVE Holds(card, known)'
  BY <1>2, FewerKept DEF Closed, Holds
<1> QED BY <1>1, <1>2

LEMMA FoundTyped ==
    ASSUME EditTypes
    PROVE  \A x \in Found : /\ x \in Snapshot(Len(edits)) /\ x.ver \in Int /\ x.card \in Card(Len(edits))
                            /\ x.knows \subseteq 1 .. Len(edits)
<1>1. Len(edits) \in Nat
  BY DEF EditTypes
<1>2. \A x \in Found : x \in Snapshot(Len(edits))
  BY <1>1, Blank, EditTyped DEF EditTypes, Found
<1> QED BY <1>2 DEF Snapshot

LEMMA FoundStays ==
    ASSUME EditTypes, EditsGo, FoundInOrder, Found' \subseteq Found, issue' = issue
    PROVE  FoundInOrder'
<1>1. ASSUME NEW x \in Found' PROVE Closed(x.knows)' /\ Holds(x.card, x.knows)'
  <2>1. Closed(x.knows) /\ Holds(x.card, x.knows)
    BY DEF FoundInOrder
  <2> QED BY <2>1, HoldsOn
<1>2. ASSUME NEW x \in Found'
      PROVE  /\ x.knows \subseteq issue'.knows /\ x.ver <= issue'.ver
             /\ \A y \in Found' : Precedes(y, x)
  BY DEF FoundInOrder
<1> QED BY <1>1, <1>2 DEF FoundInOrder, Precedes

\* An edit reaches the issue: its version is newer than all that was found.
LEMMA FoundGrows ==
    ASSUME EditTypes, EditsGo, FoundInOrder, Found' \subseteq Found \cup {issue'},
           NEW e, issue'.knows = issue.knows \cup {e}, issue'.ver = issue.ver + 1,
           Closed(issue.knows)', Holds(issue.card, issue.knows)'
    PROVE  FoundInOrder'
<1>0. issue \in Found /\ issue.ver \in Int /\ \A x \in Found : x.ver \in Int
  BY FoundTyped DEF Found
<1>1. ASSUME NEW x \in Found' PROVE Closed(x.knows)' /\ Holds(x.card, x.knows)'
  <2>1. CASE x \in Found
    <3>1. Closed(x.knows) /\ Holds(x.card, x.knows)
      BY <2>1 DEF FoundInOrder
    <3> QED BY <3>1, HoldsOn
  <2>2. CASE x = issue'
    BY <2>2 DEF Closed, Holds
  <2> QED BY <2>1, <2>2
<1>2. ASSUME NEW x \in Found' PROVE x.knows \subseteq issue'.knows /\ x.ver <= issue'.ver
  <2>1. CASE x \in Found
    <3>1. x.knows \subseteq issue.knows /\ x.ver <= issue.ver /\ x.ver \in Int
      BY <1>0, <2>1 DEF FoundInOrder
    <3> QED BY <1>0, <3>1
  <2>2. CASE x = issue'
    BY <1>0, <2>2
  <2> QED BY <2>1, <2>2
<1>3. ASSUME NEW x \in Found', NEW y \in Found', NEW d \in x.knows \ y.knows PROVE y.ver < x.ver
  <2>1. y # issue' /\ y \in Found /\ y.ver \in Int
    BY <1>0, <1>2, <1>3
  <2>2. CASE x \in Found
    BY <2>1, <2>2 DEF FoundInOrder, Precedes
  <2>3. CASE x = issue'
    <3>1. y.ver <= issue.ver
      BY <2>1 DEF FoundInOrder
    <3> QED BY <1>0, <2>1, <2>3, <3>1
  <2> QED BY <2>2, <2>3
<1> QED BY <1>1, <1>2, <1>3 DEF FoundInOrder, Precedes

\* An edit that is not claimed in this step has, and was claimed with, what it had.
LEMMA EditHoldsOn ==
    ASSUME EditTypes, EditsHold, EditsGo, NEW e \in DOMAIN edits,
           edits'[e].at = "claimed" => edits[e].at = "claimed" /\ edits'[e].claimed = edits[e].claimed
    PROVE  EditHolds(e)'
<1>1. PICK base, known : base = edits[e].base /\ known = edits[e].knew
  OBVIOUS
<1>2. EditHolds(e) /\ edits'[e].base = base /\ edits'[e].knew = known /\ known \subseteq DOMAIN edits
  BY <1>1, EditTyped DEF EditsHold, EditsGo
<1>3. Closed(known)' /\ Holds(base, known)'
  BY <1>1, <1>2, HoldsOn DEF EditHolds
<1>4. \A d \in known : \A f \in CardFieldNames :
         edits'[e].at = "claimed" /\ NoneBeside(d)' /\ Kept(d, f)' => edits'[e].claimed[f] = d
  BY <1>1, <1>2, FewerKept DEF EditHolds
<1>5. Closed(edits[e].knew)' /\ Holds(edits[e].base, edits[e].knew)'
  BY <1>2, <1>3 DEF Closed, Holds
<1> QED BY <1>2, <1>4, <1>5 DEF EditHolds

LEMMA MovedHolds ==
    ASSUME EditTypes, EditsHold, NEW e \in DOMAIN edits, NEW at, NEW claimed, NEW answer,
           MovedOn(e, at, claimed, answer), at # "claimed"
    PROVE  EditsHold'
BY EditHoldsOn DEF EditsHold, MovedOn

LEMMA AddedHolds ==
    ASSUME EditTypes, EditsHold, NEW new, Added(new), new.at # "claimed",
           Closed(new.knew), Holds(new.base, new.knew)
    PROVE  EditsHold'
<1>1. ASSUME NEW e \in DOMAIN edits PROVE EditHolds(e)'
  BY EditHoldsOn DEF Added
<1>2. ASSUME NEW e, e = Len(edits) + 1 PROVE EditHolds(e)'
  <2>1. PICK base, known : base = new.base /\ known = new.knew
    OBVIOUS
  <2>2. EditsGo /\ edits'[e].base = base /\ edits'[e].knew = known /\ edits'[e].at # "claimed"
    BY <1>2, <2>1 DEF Added
  <2>3. Closed(known)' /\ Holds(base, known)'
    BY <2>1, <2>2, HoldsOn
  <2>4. Closed(edits[e].knew)' /\ Holds(edits[e].base, edits[e].knew)'
    BY <2>2, <2>3 DEF Closed, Holds
  <2> QED BY <2>2, <2>4 DEF EditHolds
<1> QED BY <1>1, <1>2 DEF EditsHold, Added

-----------------------------------------------------------------------------
(* The order of edits *)

\* Edits are never taken back.
Forward ==
    /\ EditsGo
    /\ \A d \in DOMAIN edits : /\ Stored(d) => Stored(d)'
                               /\ Reached(d) => Reached(d)'
                               /\ edits[d].at = "done" => edits'[d].at = "done"

LEMMA MovedForward ==
    ASSUME NEW e \in DOMAIN edits, NEW at, NEW claimed, NEW answer, MovedOn(e, at, claimed, answer),
           Stored(e) => at \in {"queued", "claimed", "applied", "done"},
           Reached(e) => at \in {"applied", "done"},
           edits[e].at # "done"
    PROVE  Forward
<1>1. ASSUME NEW d \in DOMAIN edits
      PROVE  /\ Stored(d) => Stored(d)'
             /\ Reached(d) => Reached(d)'
             /\ edits[d].at = "done" => edits'[d].at = "done"
  <2>1. CASE d = e
    BY <2>1 DEF MovedOn, Stored, Reached
  <2>2. CASE d # e
    BY <2>2 DEF MovedOn, Stored, Reached
  <2> QED BY <2>1, <2>2
<1> QED BY <1>1 DEF Forward, MovedOn

LEMMA AddedForward == ASSUME NEW new, Added(new) PROVE Forward
BY DEF Added, Forward, Stored, Reached

\* The order of created_at only grows.
LEMMA StillBefore ==
    ASSUME EditTypes, NEW e \in Nat, stamped' = stamped \/ stamped' = Append(stamped, e)
    PROVE  /\ \A d : \A b : Before(d, b) => Before(d, b)'
           /\ \A d : (\E k \in DOMAIN stamped : stamped[k] = d) => \E k \in DOMAIN stamped' : stamped'[k] = d
           /\ stamped' \in Seq(Nat)
<1>1. /\ DOMAIN stamped \subseteq DOMAIN stamped' /\ stamped' \in Seq(Nat)
      /\ \A k \in DOMAIN stamped : stamped'[k] = stamped[k]
  <2>1. stamped \in Seq(Nat) /\ DOMAIN stamped = 1 .. Len(stamped) /\ Len(stamped) \in Nat
    BY DEF EditTypes
  <2>2. CASE stamped' = Append(stamped, e)
    <3>1. /\ stamped' \in Seq(Nat) /\ Len(stamped') = Len(stamped) + 1
          /\ \A k \in 1 .. Len(stamped) : stamped'[k] = stamped[k]
      BY <2>1, <2>2
    <3>2. DOMAIN stamped' = 1 .. Len(stamped) + 1 /\ 1 .. Len(stamped) \subseteq 1 .. Len(stamped) + 1
      BY <2>1, <3>1
    <3> QED BY <2>1, <3>1, <3>2
  <2> QED BY <2>1, <2>2
<1>2. ASSUME NEW d, NEW b, Before(d, b) PROVE Before(d, b)'
  <2>1. PICK k \in DOMAIN stamped, m \in DOMAIN stamped : stamped[k] = d /\ stamped[m] = b /\ k < m
    BY <1>2 DEF Before
  <2>2. k \in DOMAIN stamped' /\ m \in DOMAIN stamped' /\ stamped'[k] = d /\ stamped'[m] = b
    BY <1>1, <2>1
  <2> QED BY <2>1, <2>2 DEF Before
<1> QED BY <1>1, <1>2

\* An edit that stays where it is.
LEMMA OrderedOn ==
    ASSUME EditTypes, EditOrder, Forward, NEW e \in DOMAIN edits, NEW x \in Nat,
           stamped' = stamped \/ stamped' = Append(stamped, x),
           edits'[e].at = edits[e].at, edits'[e].answer = edits[e].answer,
           e \in issue'.knows <=> e \in issue.knows
    PROVE  Ordered(e)'
<1>1. PICK known : known = edits[e].knew
  OBVIOUS
<1>2. /\ Ordered(e) /\ known \subseteq DOMAIN edits /\ edits'[e].knew = known
      /\ edits'[e].kind = edits[e].kind /\ edits'[e].fields = edits[e].fields
      /\ (OnBoard(e)' <=> OnBoard(e)) /\ (Reached(e)' <=> Reached(e)) /\ (Claimed(e)' <=> Claimed(e))
  BY <1>1, EditTyped DEF EditOrder, Forward, EditsGo, OnBoard, Reached, Claimed
<1>3. \A d \in known : /\ Stored(d) => Stored(d)'
                       /\ Reached(d) => Reached(d)'
                       /\ edits[d].at = "done" => edits'[d].at = "done"
                       /\ OnBoard(d)' <=> OnBoard(d)
  BY <1>2 DEF Forward, EditsGo, OnBoard
<1>4. /\ \A d \in known : Before(d, e) => Before(d, e)'
      /\ (\E k \in DOMAIN stamped : stamped[k] = e) => \E k \in DOMAIN stamped' : stamped'[k] = e
  BY StillBefore
<1> QED BY <1>1, <1>2, <1>3, <1>4 DEF Ordered

-----------------------------------------------------------------------------
(* The cache while it is left alone *)

LEMMA CacheOn ==
    ASSUME FieldsInv, Forward, cached' = cached,
           Found' \subseteq Found \cup {issue'}, issue.knows \subseteq issue'.knows,
           \A d \in DOMAIN edits : Stored(d)' => Stored(d),
           \A d \in DOMAIN edits' \ DOMAIN edits : ~(Stored(d)' /\ OnBoard(d)')
    PROVE  CacheKnows' /\ CacheHolds'
<1> USE DEF FieldsInv
<1>0. EditsGo /\ \A d \in DOMAIN edits : edits[d].knew \subseteq DOMAIN edits
  BY EditTyped DEF Forward
<1>1. CacheHolds'
  <2>1. PICK card, known : card = cached.card /\ known = cached.knows
    OBVIOUS
  <2>2. Closed(known)' /\ Holds(card, known)' /\ known \subseteq DOMAIN edits
    BY <1>0, <2>1, HoldsOn DEF CacheHolds, Closed
  <2>3. \A e \in known : Stored(e)'
    BY <2>1, <2>2 DEF CacheHolds, Forward
  <2> QED BY <2>1, <2>2, <2>3 DEF CacheHolds, Closed, Holds
<1>2. ASSUME NEW e \in DOMAIN edits', NoneBeside(e)', NEW s \in Later(e)', Stored(s)'
      PROVE  (e \in cached.knows)' /\ ((cached.op \in Later(e))' \/ Settled(e)')
  <2>1. s \in DOMAIN edits /\ Stored(s) /\ OnBoard(s) /\ (s = e \/ e \in edits[s].knew)
    BY <1>0, <1>2 DEF Later, EditsGo, OnBoard
  <2>2. e \in DOMAIN edits /\ s \in Later(e)
    BY <1>0, <2>1 DEF Later
  <2>3. e \in cached.knows /\ (cached.op \in Later(e) \/ Settled(e))
    BY <1>0, <1>2, <2>1, <2>2, FewerKept DEF CacheKnows, CacheKnowsOf
  <2>4. ASSUME cached.op \in Later(e) PROVE (cached.op \in Later(e))'
    BY <1>0, <2>4 DEF Later, EditsGo, OnBoard
  <2>5. ASSUME Settled(e) PROVE Settled(e)'
    <3>1. e \in issue.knows /\ Reached(e)' /\ cached'.op = 0
      BY <2>2, <2>5 DEF EditOrder, Ordered, Settled, Forward
    <3>2. edits'[e].knew = edits[e].knew /\ \A d \in edits[e].knew : edits'[d].at = "done"
      BY <1>0, <2>2, <2>5 DEF Settled, Forward, EditsGo
    <3>3. \A x \in Found' : e \notin x.knows => x.ver < cached'.ver
      BY <2>5, <3>1 DEF Settled
    <3> QED BY <3>1, <3>2, <3>3 DEF Settled
  <2> QED BY <2>3, <2>4, <2>5
<1> QED BY <1>1, <1>2 DEF CacheKnows, CacheKnowsOf

-----------------------------------------------------------------------------
(* Requests *)

LEMMA FieldsBegin == FieldsInit => FieldsInv
<1> SUFFICES ASSUME FieldsInit PROVE FieldsInv
  OBVIOUS
<1>1. edits = <<>> /\ stamped = <<>> /\ Len(edits) = 0 /\ DOMAIN edits = {}
  BY DEF FieldsInit
<1>2. cached.knows = {} /\ issue.knows = {} /\ issue.ver = 0 /\ observed = NothingObserved
  BY DEF FieldsInit
<1>3. Unedited \in Card(0) /\ NothingObserved \in Snapshot(0)
  BY Blank
<1>4. EditTypes
  BY <1>1, <1>3 DEF FieldsInit, EditTypes, Row, Snapshot
<1>5. EditOrder /\ EditsHold /\ CacheKnows /\ CacheHolds
  BY <1>1, <1>2 DEF EditOrder, EditsHold, CacheKnows, CacheHolds, Closed, Holds
<1>6. FoundInOrder
  <2>1. \A x \in Found : x.knows = {} /\ x.ver <= 0
    BY <1>1, <1>2 DEF Found, NothingObserved
  <2> QED BY <1>2, <2>1 DEF FoundInOrder, Closed, Holds, Precedes
<1>7. OwnSent
  BY KindsChange DEF FieldsInit, OwnSent, Unedited
<1> QED BY <1>4, <1>5, <1>6, <1>7 DEF FieldsInv

LEMMA Lengths ==
    ASSUME EditTypes
    PROVE  Len(edits) \in Nat /\ DOMAIN edits = 1 .. Len(edits) /\ Len(edits) + 1 \notin DOMAIN edits
BY DEF EditTypes

\* Answers and readings while one edit more is there.
LEMMA AddedFound ==
    ASSUME EditTypes, NEW new, Added(new), new.answer = NothingObserved, observed' = observed
    PROVE  Found' \subseteq Found \cup {issue'}
<1>1. ASSUME NEW e \in DOMAIN edits' PROVE edits'[e].answer \in Found
  <2>1. e \in DOMAIN edits \/ e = Len(edits) + 1
    BY DEF Added
  <2> QED BY <2>1 DEF Added, Found
<1> QED BY <1>1 DEF Found

LEMMA BeginKeeps == ASSUME FieldsInv, NEW kind \in EditKinds, BeginUpdate(kind) PROVE FieldsInv'
<1> DEFINE n == Len(edits)
           new == Edit(kind, Changes(kind), "read", cached.card, cached.knows)
<1> USE DEF FieldsInv
<1>0. n \in Nat /\ n + 1 \in Nat /\ n <= n + 1 /\ DOMAIN edits = 1 .. n
  BY Lengths
<1>1. /\ new \in EditState(n + 1) /\ new.kind = kind /\ new.fields = Changes(kind) /\ new.at = "read"
      /\ new.base = cached.card /\ new.knew = cached.knows /\ new.answer = NothingObserved
  <2>1. cached.card \in Card(n + 1) /\ cached.knows \subseteq 1 .. n + 1
    BY <1>0, Wider DEF EditTypes, Row
  <2>2. Unedited \in Card(n + 1) /\ NothingObserved \in Snapshot(n + 1)
    BY <1>0, Blank
  <2> QED BY <2>1, <2>2, KindsChange DEF Edit, EditState
<1> HIDE DEF new
<1>2. Added(new) /\ UNCHANGED <<stamped, cached, issue, observed>>
  <2>1. edits' = Append(edits, new) /\ UNCHANGED <<stamped, cached, issue, observed>>
    BY DEF BeginUpdate, new
  <2> QED BY <1>1, <2>1, Adding
<1>3. EditTypes'
  <2>1. /\ Len(edits') = n + 1 /\ edits' \in Seq(EditState(n + 1))
        /\ Snapshot(n) \subseteq Snapshot(n + 1) /\ Row(n) \subseteq Row(n + 1)
    BY <1>0, <1>2, Wider DEF Added
  <2> QED BY <1>2, <2>1 DEF EditTypes
<1>4. Forward /\ EditsGo
  BY <1>2, AddedForward DEF Forward
<1>5. EditsHold'
  BY <1>1, <1>2, AddedHolds DEF CacheHolds
<1>6. FoundInOrder' /\ OwnSent'
  <2>1. issue \in Found
    BY DEF Found
  <2>2. Found' \subseteq Found
    BY <1>1, <1>2, <2>1, AddedFound
  <2> QED BY <1>2, <1>4, <2>2, FoundStays DEF OwnSent
<1>7. CacheKnows' /\ CacheHolds'
  <2>1. \A d \in DOMAIN edits : Stored(d)' => Stored(d)
    BY <1>2 DEF Added, Stored
  <2>2. \A d \in DOMAIN edits' \ DOMAIN edits : ~Stored(d)'
    BY <1>1, <1>2 DEF Added, Stored
  <2>3. Found' \subseteq Found \cup {issue'}
    BY <1>1, <1>2, AddedFound
  <2> QED BY <1>2, <1>4, <2>1, <2>2, <2>3, CacheOn
<1>8. EditOrder'
  <2>1. ASSUME NEW e \in DOMAIN edits PROVE Ordered(e)'
    <3>1. 0 \in Nat /\ edits'[e] = edits[e]
      BY <1>2 DEF Added
    <3> QED BY <1>2, <1>4, <3>1, OrderedOn
  <2>2. ASSUME NEW e, e = n + 1 PROVE Ordered(e)'
    <3>1. edits'[e] = new /\ e \notin issue.knows
      BY <1>0, <1>2, <2>2 DEF Added, EditTypes, Snapshot
    <3>2. \A d \in cached.knows : Stored(d)'
      BY <1>4 DEF CacheHolds, Closed, Forward
    <3>3. OnBoard(e)' /\ ~Reached(e)' /\ ~Claimed(e)'
      BY <1>1, <3>1, KindsChange DEF OnBoard, Reached, Claimed
    <3> QED BY <1>1, <1>2, <3>1, <3>2, <3>3 DEF Ordered
  <2> QED BY <1>2, <2>1, <2>2 DEF EditOrder, Added
<1> QED BY <1>3, <1>5, <1>6, <1>7, <1>8

\* An edit at another point of its way.
LEMMA AtTyped ==
    ASSUME EditTypes, NEW e \in DOMAIN edits,
           NEW at \in {"read", "stamped", "queued", "claimed", "applied", "done"},
           NEW claimed \in Card(Len(edits)), NEW answer \in Snapshot(Len(edits)),
           edits' = [edits EXCEPT ![e] = [edits[e] EXCEPT !.at = at, !.claimed = claimed, !.answer = answer]]
    PROVE  MovedOn(e, at, claimed, answer)
<1> DEFINE r == [edits[e] EXCEPT !.at = at, !.claimed = claimed, !.answer = answer]
<1>1. edits[e] \in EditState(Len(edits))
  BY EditTyped
<1>2. /\ r \in EditState(Len(edits)) /\ r.at = at /\ r.claimed = claimed /\ r.answer = answer
      /\ r.kind = edits[e].kind /\ r.fields = edits[e].fields
      /\ r.base = edits[e].base /\ r.knew = edits[e].knew
  BY <1>1 DEF EditState
<1> QED BY <1>2, Moving

\* A step of one edit that only moves it.
LEMMA AtMoves ==
    ASSUME EditTypes, NEW e \in DOMAIN edits,
           NEW at \in {"read", "stamped", "queued", "claimed", "applied", "done"},
           edits' = [edits EXCEPT ![e].at = at]
    PROVE  MovedOn(e, at, edits[e].claimed, edits[e].answer)
<1> DEFINE r == [edits[e] EXCEPT !.at = at]
<1>1. edits[e] \in EditState(Len(edits))
  BY EditTyped
<1>2. /\ r \in EditState(Len(edits)) /\ r.at = at /\ r.claimed = edits[e].claimed
      /\ r.answer = edits[e].answer /\ r.kind = edits[e].kind /\ r.fields = edits[e].fields
      /\ r.base = edits[e].base /\ r.knew = edits[e].knew
  BY <1>1 DEF EditState
<1>3. edits' = [edits EXCEPT ![e] = r]
  OBVIOUS
<1> HIDE DEF r
<1> QED BY <1>2, <1>3, Moving

\* The answers that are about while one edit is moved.
LEMMA MovedFound ==
    ASSUME EditTypes, NEW e \in DOMAIN edits, NEW at, NEW claimed, NEW answer,
           MovedOn(e, at, claimed, answer), answer \in Found \cup {issue'},
           observed' \in Found \cup {issue'}
    PROVE  Found' \subseteq Found \cup {issue'}
<1>1. ASSUME NEW d \in DOMAIN edits PROVE edits'[d].answer \in Found \cup {issue'}
  BY DEF MovedOn, Found
<1> QED BY <1>1 DEF Found, MovedOn

LEMMA StampKeeps == ASSUME FieldsInv, NEW e \in DOMAIN edits, StampUpdate(e) PROVE FieldsInv'
<1> USE DEF FieldsInv
<1> DEFINE claimed == edits[e].claimed
           answer == edits[e].answer
<1>1. /\ edits[e].at = "read" /\ MovedOn(e, "stamped", claimed, answer)
      /\ stamped' = Append(stamped, e) /\ UNCHANGED <<cached, issue, observed>>
  BY AtMoves DEF StampUpdate
<1>2. answer \in Found /\ issue \in Found /\ observed \in Found
  BY DEF Found
<1> HIDE DEF claimed, answer
<1>3. Forward /\ EditsGo /\ e \in Nat
  <2>1. ~Stored(e) /\ ~Reached(e) /\ edits[e].at # "done" /\ e \in Nat
    BY <1>1, EditTyped DEF Stored, Reached
  <2> QED BY <1>1, <2>1, MovedForward DEF Forward
<1>4. EditTypes'
  <2>1. stamped' \in Seq(Nat)
    BY <1>1, <1>3, StillBefore
  <2> QED BY <1>1, <2>1 DEF EditTypes, MovedOn
<1>5. Found' \subseteq Found
  BY <1>1, <1>2, MovedFound
<1>6. FoundInOrder' /\ OwnSent'
  BY <1>1, <1>3, <1>5, FoundStays DEF OwnSent
<1>7. EditsHold'
  BY <1>1, MovedHolds
<1>8. CacheKnows' /\ CacheHolds'
  <2>1. \A d \in DOMAIN edits : Stored(d)' => Stored(d)
    BY <1>1 DEF MovedOn, Stored
  <2> QED BY <1>1, <1>3, <1>5, <2>1, CacheOn DEF MovedOn
<1>9. EditOrder'
  <2>1. ASSUME NEW d \in DOMAIN edits, d # e PROVE Ordered(d)'
    BY <1>1, <1>3, <2>1, OrderedOn DEF MovedOn
  <2>2. Ordered(e)'
    <3>1. PICK known : known = edits[e].knew
      OBVIOUS
    <3>2. /\ edits'[e].knew = known /\ known \subseteq DOMAIN edits /\ edits'[e].at = "stamped"
          /\ edits'[e].kind = edits[e].kind /\ edits'[e].fields = edits[e].fields /\ OnBoard(e) /\ Ordered(e)
      BY <1>1, <3>1, EditTyped DEF MovedOn, EditsGo, EditOrder, Ordered
    <3>3. \A d \in known : Stored(d)' /\ (OnBoard(d)' <=> OnBoard(d)) /\ Stored(d)
      BY <1>3, <3>1, <3>2 DEF Ordered, Forward, EditsGo, OnBoard
    <3>4. /\ stamped \in Seq(Nat) /\ Len(stamped) \in Nat /\ DOMAIN stamped = 1 .. Len(stamped)
          /\ Len(stamped') = Len(stamped) + 1 /\ DOMAIN stamped' = 1 .. Len(stamped) + 1
          /\ stamped'[Len(stamped) + 1] = e /\ \A k \in 1 .. Len(stamped) : stamped'[k] = stamped[k]
      BY <1>1, <1>3 DEF EditTypes
    <3>5. ASSUME NEW d \in known, OnBoard(d) PROVE Before(d, e)'
      <4>1. Ordered(d) /\ edits[d].at # "read"
        BY <3>2, <3>3 DEF EditOrder, Stored
      <4>2. PICK k \in DOMAIN stamped : stamped[k] = d
        BY <3>5, <4>1 DEF Ordered
      <4>3. PICK m : m = Len(stamped) + 1
        OBVIOUS
      <4>4. /\ k \in DOMAIN stamped' /\ m \in DOMAIN stamped' /\ k < m
            /\ stamped'[k] = d /\ stamped'[m] = e
        BY <3>4, <4>2, <4>3
      <4> QED BY <4>4 DEF Before
    <3>6. \E k \in DOMAIN stamped' : stamped'[k] = e
      BY <3>4
    <3>7. ~Reached(e)' /\ ~Claimed(e)' /\ ~Reached(e) /\ (OnBoard(e)' <=> OnBoard(e))
      BY <1>1, <3>2 DEF Reached, Claimed, OnBoard
    <3> QED BY <1>1, <3>2, <3>3, <3>5, <3>6, <3>7 DEF Ordered
  <2> QED BY <1>1, <2>1, <2>2 DEF EditOrder, MovedOn
<1> QED BY <1>4, <1>6, <1>7, <1>8, <1>9

\* The order of an edit that is stored, claimed, carried out or done.
LEMMA OrderedMoves ==
    ASSUME EditTypes, EditOrder, Forward, NEW e \in DOMAIN edits, OnBoard(e), edits[e].at # "read",
           UNCHANGED stamped, edits'[e].at # "read",
           Reached(e)' <=> e \in issue'.knows,
           edits'[e].at = "applied" => e \in edits'[e].answer.knows,
           Claimed(e)' => \A d \in edits[e].knew : edits[d].at = "done"
    PROVE  Ordered(e)'
<1>1. PICK known : known = edits[e].knew
  OBVIOUS
<1>2. /\ Ordered(e) /\ known \subseteq DOMAIN edits /\ edits'[e].knew = known
      /\ edits'[e].kind = edits[e].kind /\ edits'[e].fields = edits[e].fields /\ OnBoard(e)'
  BY <1>1, EditTyped DEF EditOrder, Forward, EditsGo, OnBoard
<1>3. \A d \in known : /\ Stored(d) => Stored(d)'
                       /\ edits[d].at = "done" => edits'[d].at = "done"
                       /\ OnBoard(d)' <=> OnBoard(d)
                       /\ Before(d, e)' <=> Before(d, e)
  BY <1>2 DEF Forward, EditsGo, OnBoard, Before
<1> QED BY <1>1, <1>2, <1>3 DEF Ordered

LEMMA StoreKeeps == ASSUME FieldsInv, NEW e \in DOMAIN edits, StoreUpdate(e) PROVE FieldsInv'
<1> USE DEF FieldsInv
<1> DEFINE claimed == edits[e].claimed
           answer == edits[e].answer
<1>1. /\ edits[e].at = "stamped" /\ MovedOn(e, "queued", claimed, answer)
      /\ UNCHANGED <<stamped, issue, observed>>
      /\ cached' = [cached EXCEPT !.card = WithEdit(edits[e].base, edits[e].fields, e), !.op = e,
                                  !.knows = edits[e].knew \cup {e}]
  BY AtMoves DEF StoreUpdate
<1>2. answer \in Found /\ issue \in Found /\ observed \in Found
  BY DEF Found
<1> HIDE DEF claimed, answer
<1>3. Forward /\ EditsGo /\ e \in Nat /\ OnBoard(e) /\ Ordered(e)
  <2>1. ~Stored(e) /\ ~Reached(e) /\ edits[e].at # "done" /\ e \in Nat
    BY <1>1, EditTyped DEF Stored, Reached
  <2> QED BY <1>1, <2>1, MovedForward DEF Forward, EditOrder, Ordered
<1>4. PICK base, fields, known : /\ base = edits[e].base /\ fields = edits[e].fields
                                 /\ known = edits[e].knew
  OBVIOUS
<1>5. PICK card : card = WithEdit(base, fields, e)
  OBVIOUS
<1>6. /\ cached' \in Row(Len(edits)) /\ cached'.card = card /\ cached'.op = e
      /\ cached'.knows = known \cup {e}
  <2>1. card \in Card(Len(edits)) /\ e \in 1 .. Len(edits) /\ known \cup {e} \subseteq 1 .. Len(edits)
    <3>1. base \in Card(Len(edits)) /\ e \in 1 .. Len(edits) /\ known \subseteq DOMAIN edits
      BY <1>4, EditTyped
    <3>2. Len(edits) \in Nat /\ e \in 0 .. Len(edits) /\ DOMAIN edits = 1 .. Len(edits)
      BY <3>1, Lengths
    <3>3. card \in [CardFieldNames -> 0 .. Len(edits)]
      BY <1>5, <3>1, <3>2 DEF WithEdit, Card
    <3> QED BY <3>1, <3>2, <3>3 DEF Card
  <2>2. cached \in Row(Len(edits)) /\ e \in 0 .. Len(edits)
    BY <2>1, Lengths DEF EditTypes
  <2>3. cached' = [cached EXCEPT !.card = card, !.op = e, !.knows = known \cup {e}]
    BY <1>1, <1>4, <1>5
  <2> HIDE DEF FieldsInv
  <2> QED BY <2>1, <2>2, <2>3 DEF Row
<1>7. EditTypes'
  BY <1>1, <1>6 DEF EditTypes, MovedOn
<1>8. Found' \subseteq Found
  BY <1>1, <1>2, MovedFound
<1>9. FoundInOrder' /\ OwnSent'
  BY <1>1, <1>3, <1>8, FoundStays DEF OwnSent
<1>10. EditsHold'
  BY <1>1, MovedHolds
<1>11. EditOrder'
  <2>1. ASSUME NEW d \in DOMAIN edits, d # e PROVE Ordered(d)'
    BY <1>1, <1>3, <2>1, OrderedOn DEF MovedOn
  <2>2. Ordered(e)'
    <3>1. ~Reached(e)' /\ ~Claimed(e)' /\ edits'[e].at = "queued" /\ ~Reached(e)
      BY <1>1 DEF Reached, Claimed, MovedOn
    <3>2. e \notin issue'.knows
      BY <1>1, <1>3, <3>1 DEF Ordered
    <3> QED BY <1>1, <1>3, <3>1, <3>2, OrderedMoves
  <2> QED BY <1>1, <2>1, <2>2 DEF EditOrder, MovedOn
<1>12. CacheHolds'
  <2>1. known \subseteq DOMAIN edits /\ Closed(known) /\ Holds(base, known)
    BY <1>4, EditTyped DEF EditsHold, EditHolds
  <2>2. Closed(known \cup {e})
    BY <1>4, <2>1 DEF Closed
  <2>3. Holds(card, known \cup {e})
    <3>1. ASSUME NEW d \in known, NEW f \in CardFieldNames, Kept(d, f) PROVE card[f] = d \/ d = e
      <4>1. f \notin fields
        BY <1>4, <3>1 DEF Kept, Superseded
      <4> QED BY <1>5, <2>1, <3>1, <4>1 DEF Holds, WithEdit
    <3>2. \A f \in CardFieldNames : Kept(e, f) => card[f] = e
      BY <1>4, <1>5 DEF Kept, WithEdit
    <3> QED BY <3>1, <3>2 DEF Holds
  <2>4. PICK knows : knows = known \cup {e}
    OBVIOUS
  <2>5. Closed(knows)' /\ Holds(card, knows)'
    BY <1>3, <2>2, <2>3, <2>4, HoldsOn
  <2>6. \A d \in knows : Stored(d)'
    <3>1. \A d \in known : Stored(d)'
      BY <1>3, <1>4, <2>1 DEF Ordered, Forward
    <3>2. Stored(e)'
      BY <1>1 DEF Stored, MovedOn
    <3> QED BY <2>4, <3>1, <3>2
  <2> QED BY <1>6, <2>4, <2>5, <2>6 DEF CacheHolds, Closed, Holds
<1>13. CacheKnows'
  <2> SUFFICES ASSUME NEW d \in DOMAIN edits', NoneBeside(d)', NEW s \in Later(d)', Stored(s)'
               PROVE  (d \in cached.knows)' /\ (cached.op \in Later(d))'
    BY DEF CacheKnows, CacheKnowsOf
  <2>1. d \in DOMAIN edits /\ NoneBeside(d)
    BY <1>1, <1>3, FewerKept DEF MovedOn
  <2>2. e = d \/ d \in edits[e].knew \/ e \in edits[d].knew
    BY <2>1 DEF NoneBeside, Concurrent
  <2>3. e \notin edits[d].knew
    BY <1>1, <2>1 DEF EditOrder, Ordered, Stored
  <2>4. e = d \/ d \in edits[e].knew
    BY <2>2, <2>3
  <2>5. (e \in Later(d))'
    BY <1>1, <1>3, <2>4 DEF Later, OnBoard, EditsGo
  <2> QED BY <1>4, <1>6, <2>4, <2>5 DEF Later
<1> QED BY <1>7, <1>9, <1>10, <1>11, <1>12, <1>13

-----------------------------------------------------------------------------
(* Workers *)

LEMMA ClaimKeeps == ASSUME FieldsInv, NEW e \in DOMAIN edits, ClaimUpdate(e) PROVE FieldsInv'
<1> USE DEF FieldsInv
<1> DEFINE claimed == cached.card
           answer == edits[e].answer
<1>1. /\ edits[e].at = "queued" /\ Claimable(e) /\ MovedOn(e, "claimed", claimed, answer)
      /\ UNCHANGED <<stamped, cached, issue, observed>>
  <2>1. edits[e] \in EditState(Len(edits)) /\ answer \in Snapshot(Len(edits)) /\ claimed \in Card(Len(edits))
    BY EditTyped DEF EditTypes, Row
  <2>2. [edits[e] EXCEPT !.at = "claimed", !.claimed = claimed, !.answer = answer]
        = [edits[e] EXCEPT !.at = "claimed", !.claimed = claimed]
    BY <2>1 DEF EditState
  <2>3. edits' = [edits EXCEPT ![e] = [edits[e] EXCEPT !.at = "claimed", !.claimed = claimed]]
    BY DEF ClaimUpdate
  <2> QED BY <2>1, <2>2, <2>3, AtTyped DEF ClaimUpdate
<1>2. answer \in Found /\ issue \in Found /\ observed \in Found
  BY DEF Found
<1>3. Forward /\ EditsGo /\ e \in Nat /\ OnBoard(e) /\ Ordered(e)
  <2>1. Stored(e) /\ ~Reached(e) /\ edits[e].at # "done" /\ e \in Nat
    BY <1>1, EditTyped DEF Stored, Reached
  <2> QED BY <1>1, <2>1, MovedForward DEF Forward, EditOrder, Ordered
<1>4. PICK card, found : card = claimed /\ found = answer
  OBVIOUS
<1> HIDE DEF claimed, answer
<1>5. EditTypes'
  BY <1>1 DEF EditTypes, MovedOn
<1>6. Found' \subseteq Found
  BY <1>1, <1>2, MovedFound
<1>7. FoundInOrder' /\ OwnSent'
  BY <1>1, <1>3, <1>6, FoundStays DEF OwnSent
<1>8. CacheKnows' /\ CacheHolds'
  <2>1. \A d \in DOMAIN edits : Stored(d)' => Stored(d)
    BY <1>1 DEF MovedOn, Stored
  <2> QED BY <1>1, <1>3, <1>6, <2>1, CacheOn DEF MovedOn
<1>9. EditsHold'
  <2>1. ASSUME NEW d \in DOMAIN edits, d # e PROVE EditHolds(d)'
    BY <1>1, <1>3, <2>1, EditHoldsOn DEF MovedOn
  <2>2. EditHolds(e)'
    <3>1. PICK base, known : base = edits[e].base /\ known = edits[e].knew
      OBVIOUS
    <3>2. EditHolds(e) /\ edits'[e].base = base /\ edits'[e].knew = known /\ known \subseteq DOMAIN edits
      BY <1>3, <3>1, EditTyped DEF EditsHold, EditsGo
    <3>3. Closed(known)' /\ Holds(base, known)'
      BY <1>3, <3>1, <3>2, HoldsOn DEF EditHolds
    <3>4. ASSUME NEW d \in known, NEW f \in CardFieldNames, NoneBeside(d), Kept(d, f) PROVE card[f] = d
      <4>1. d \in DOMAIN edits /\ e \in Later(d) /\ Stored(e)
        BY <1>1, <1>3, <3>1, <3>2 DEF Later, Stored
      <4>2. d \in cached.knows
        BY <3>4, <4>1 DEF CacheKnows, CacheKnowsOf
      <4> QED BY <1>4, <3>4, <4>2 DEF CacheHolds, Holds, claimed
    <3>5. \A d \in known : \A f \in CardFieldNames : NoneBeside(d)' /\ Kept(d, f)' => edits'[e].claimed[f] = d
      BY <1>1, <1>3, <1>4, <3>2, <3>4, FewerKept DEF MovedOn
    <3>6. Closed(edits[e].knew)' /\ Holds(edits[e].base, edits[e].knew)'
      BY <3>2, <3>3 DEF Closed, Holds
    <3> QED BY <3>2, <3>5, <3>6 DEF EditHolds
  <2> QED BY <1>1, <2>1, <2>2 DEF EditsHold, MovedOn
<1>10. EditOrder'
  <2>1. ASSUME NEW d \in DOMAIN edits, d # e PROVE Ordered(d)'
    BY <1>1, <1>3, <2>1, OrderedOn DEF MovedOn
  <2>2. Ordered(e)'
    <3>1. ~Reached(e)' /\ edits'[e].at = "claimed" /\ ~Reached(e)
      BY <1>1 DEF Reached, MovedOn
    <3>2. e \notin issue'.knows
      BY <1>1, <1>3, <3>1 DEF Ordered
    <3>3. ASSUME NEW d \in edits[e].knew PROVE edits[d].at = "done"
      <4>1. d \in DOMAIN edits /\ Stored(d) /\ Ordered(d)
        BY <1>3, EditTyped DEF Ordered, EditOrder
      <4>2. CASE ~OnBoard(d)
        BY <4>1, <4>2 DEF Ordered
      <4>3. CASE OnBoard(d)
        <5>1. Before(d, e)
          BY <1>1, <1>3, <4>3 DEF Ordered
        <5> QED BY <1>1, <4>1, <5>1 DEF Claimable, Stored
      <4> QED BY <4>2, <4>3
    <3> QED BY <1>1, <1>3, <3>1, <3>2, <3>3, OrderedMoves
  <2> QED BY <1>1, <2>1, <2>2 DEF EditOrder, MovedOn
<1> QED BY <1>5, <1>7, <1>8, <1>9, <1>10

\* What an operation sends of an edit that GitLab has and nothing takes away.
LEMMA SendsWhatItKnew ==
    ASSUME FieldsInv, NEW e \in DOMAIN edits, OnBoard(e), edits[e].at = "claimed",
           NEW d \in issue.knows, d # e, NEW f \in CardFieldNames, f \in Sends(edits[e].kind), Kept(d, f)
    PROVE  SentContent(e, f) = d
<1> USE DEF FieldsInv
<1>1. Ordered(e) /\ EditHolds(e) /\ edits[e].kind \in EditKinds
  BY EditTyped DEF EditOrder, EditsHold, OnBoard
<1>2. d \in DOMAIN edits /\ Ordered(d) /\ Reached(d)
  BY DEF FoundInOrder, Found, Closed, EditOrder, Ordered
<1>3. e \notin edits[d].knew
  <2>1. CASE OnBoard(d)
    BY <1>2, <2>1 DEF Ordered, Reached, Claimed
  <2>2. CASE ~OnBoard(d)
    BY <1>2, <2>2 DEF Ordered, Reached
  <2> QED BY <2>1, <2>2
<1>4. f \in edits[e].fields \cup SentAlong(edits[e].kind)
  BY <1>1, KindsChange DEF Ordered
<1>5. ~Concurrent(e, d)
  BY <1>4 DEF Kept, Endangered
<1>6. d \in edits[e].knew
  BY <1>3, <1>5 DEF Concurrent
<1>7. f \notin edits[e].fields
  BY <1>6 DEF Kept, Superseded
<1>8. CASE f = "labels"
  BY <1>1, <1>6, <1>7, <1>8 DEF SentContent, EditHolds, Holds
<1>9. CASE f # "labels"
  <2>1. f \in {"title", "team"} \cap SentAlong(edits[e].kind)
    BY <1>1, <1>4, <1>7, <1>9, KindsChange
  <2>2. NoneBeside(d)
    <3>1. e \in OfBoard
      BY DEF OfBoard, OnBoard
    <3> QED BY <2>1, <3>1 DEF Kept, Endangered, NoneBeside
  <2>3. edits[e].claimed[f] = d
    BY <1>1, <1>6, <2>2 DEF EditHolds
  <2> QED BY <1>7, <1>9, <2>3 DEF SentContent
<1> QED BY <1>8, <1>9

LEMMA ApplyKeeps == ASSUME FieldsInv, NEW e \in DOMAIN edits, ApplyUpdate(e) PROVE FieldsInv'
<1> USE DEF FieldsInv
<1> DEFINE n == Len(edits)
           kind == edits[e].kind
           sent == [f \in CardFieldNames |-> IF f \in Sends(kind) THEN SentContent(e, f) ELSE issue.card[f]]
<1>0. /\ n \in Nat /\ DOMAIN edits = 1 .. n /\ e \in 1 .. n /\ e # 0 /\ e \in Nat
      /\ edits[e].at = "claimed" /\ Ordered(e)
      /\ OnBoard(e) /\ kind \in EditKinds /\ edits[e].fields = Changes(kind)
      /\ e \notin issue.knows
  <2>1. e \in 1 .. n /\ e \in Nat \ {0} /\ Ordered(e) /\ kind \in EditKinds \cup {"in_gitlab"}
    BY EditTyped DEF EditOrder
  <2>2. edits[e].at = "claimed" /\ OnBoard(e) /\ ~Reached(e)
    BY <2>1 DEF ApplyUpdate, Ordered, Reached
  <2> QED BY <2>1, <2>2, Lengths DEF Ordered, OnBoard
<1>1. PICK card, known : card = sent /\ known = issue.knows \cup {e}
  OBVIOUS
<1>2. card \in Card(n) /\ known \subseteq 1 .. n /\ e \in known
  <2>1. /\ issue.card \in Card(n) /\ issue.knows \subseteq 1 .. n
        /\ edits[e].base \in Card(n) /\ edits[e].claimed \in Card(n)
    BY EditTyped DEF EditTypes, Snapshot
  <2>2. \A f \in CardFieldNames : SentContent(e, f) \in 0 .. n
    BY <1>0, <2>1 DEF SentContent, Card
  <2> QED BY <1>0, <1>1, <2>1, <2>2 DEF Card
<1>3. card # issue.card
  <2>1. PICK f \in OwnFields : f \in Changes(kind)
    BY <1>0, KindsChange
  <2>2. f \in CardFieldNames /\ f \in Sends(kind) /\ f \in edits[e].fields
    BY <1>0, <2>1, KindsChange
  <2>3. card[f] = e
    BY <1>1, <2>2 DEF SentContent
  <2>4. issue.card[f] \in {0} \cup issue.knows
    BY DEF OwnSent
  <2> QED BY <1>0, <2>3, <2>4
<1>4. PICK after : after = [card |-> card, knows |-> known, ver |-> issue.ver + 1]
  OBVIOUS
<1>5. /\ after \in Snapshot(n) /\ after.card = card /\ after.knows = known
      /\ after.ver = issue.ver + 1 /\ issue' = after
  <2>1. issue.ver \in Int
    BY DEF EditTypes, Snapshot
  <2>2. issue' = IssueWith(card, e)
    BY <1>1 DEF ApplyUpdate
  <2> QED BY <1>1, <1>2, <1>3, <1>4, <2>1, <2>2 DEF IssueWith, Snapshot
<1>6. MovedOn(e, "applied", edits[e].claimed, after) /\ UNCHANGED <<stamped, cached, observed>>
  <2>1. edits[e] \in EditState(n) /\ edits[e].claimed \in Card(n)
    BY EditTyped
  <2>2. [edits[e] EXCEPT !.at = "applied", !.claimed = edits[e].claimed, !.answer = after]
        = [edits[e] EXCEPT !.at = "applied", !.answer = after]
    BY <2>1 DEF EditState
  <2>3. edits' = [edits EXCEPT ![e] = [edits[e] EXCEPT !.at = "applied", !.answer = after]]
    BY <1>5 DEF ApplyUpdate
  <2>4. edits' = [edits EXCEPT ![e] = [edits[e] EXCEPT !.at = "applied", !.claimed = edits[e].claimed,
                                                       !.answer = after]]
    BY <2>2, <2>3
  <2> QED BY <1>5, <2>1, <2>4, AtTyped DEF ApplyUpdate
<1> HIDE DEF sent, kind
<1>7. Forward /\ EditsGo
  <2>1. ~Reached(e) /\ edits[e].at # "done"
    BY <1>0 DEF Reached
  <2> QED BY <1>6, <2>1, MovedForward DEF Forward
<1>8. EditTypes'
  BY <1>5, <1>6 DEF EditTypes, MovedOn
<1>9. Found' \subseteq Found \cup {issue'}
  BY <1>5, <1>6, MovedFound DEF Found
<1>10. Closed(known) /\ Holds(card, known)
  <2>1. Closed(issue.knows) /\ Holds(issue.card, issue.knows)
    BY DEF FoundInOrder, Found
  <2>2. edits[e].knew \subseteq issue.knows
    <3> SUFFICES ASSUME NEW d \in edits[e].knew PROVE d \in issue.knows
      OBVIOUS
    <3>1. d \in DOMAIN edits /\ edits[d].at = "done"
      BY <1>0, EditTyped DEF Ordered, Claimed
    <3> QED BY <3>1 DEF EditOrder, Ordered, Reached
  <2>3. Closed(known)
    BY <1>1, <2>1, <2>2 DEF Closed
  <2>4. ASSUME NEW d \in known, NEW f \in CardFieldNames, Kept(d, f) PROVE card[f] = d
    <3>1. CASE d = e
      <4>1. f \in edits[e].fields /\ f \in Sends(edits[e].kind)
        BY <1>0, <2>4, <3>1, KindsChange DEF Kept, kind
      <4> QED BY <1>1, <3>1, <4>1 DEF SentContent, sent, kind
    <3>2. CASE d # e /\ f \in Sends(edits[e].kind)
      BY <1>0, <1>1, <2>4, <3>2, SendsWhatItKnew DEF sent, kind
    <3>3. CASE d # e /\ f \notin Sends(edits[e].kind)
      BY <1>1, <2>1, <2>4, <3>3 DEF Holds, sent, kind
    <3> QED BY <3>1, <3>2, <3>3
  <2> QED BY <2>3, <2>4 DEF Holds
<1>11. FoundInOrder'
  <2>1. Closed(known)' /\ Holds(card, known)'
    BY <1>7, <1>10, HoldsOn
  <2>2. Closed(issue.knows)' /\ Holds(issue.card, issue.knows)'
    BY <1>5, <2>1 DEF Closed, Holds
  <2> QED BY <1>1, <1>5, <1>7, <1>9, <2>2, FoundGrows
<1>12. OwnSent'
  <2> SUFFICES ASSUME NEW f \in OwnFields PROVE card[f] \in {0} \cup known
    BY <1>5 DEF OwnSent
  <2>1. f \in CardFieldNames /\ (f \in Sends(edits[e].kind) => f \in edits[e].fields)
    BY <1>0, KindsChange DEF kind
  <2>2. issue.card[f] \in {0} \cup issue.knows
    BY DEF OwnSent
  <2> QED BY <1>1, <2>1, <2>2 DEF SentContent, sent, kind
<1>13. EditsHold'
  BY <1>6, MovedHolds
<1>14. CacheKnows' /\ CacheHolds'
  <2>1. \A d \in DOMAIN edits : Stored(d)' => Stored(d)
    BY <1>0, <1>6 DEF MovedOn, Stored
  <2> QED BY <1>1, <1>5, <1>6, <1>7, <1>9, <2>1, CacheOn DEF MovedOn
<1>15. EditOrder'
  <2>1. ASSUME NEW d \in DOMAIN edits, d # e PROVE Ordered(d)'
    <3>1. edits'[d] = edits[d] /\ (d \in issue'.knows <=> d \in issue.knows)
      BY <1>1, <1>5, <1>6, <2>1 DEF MovedOn
    <3> QED BY <1>0, <1>6, <1>7, <3>1, OrderedOn
  <2>2. Ordered(e)'
    <3>1. /\ Reached(e)' /\ edits'[e].at = "applied" /\ e \in issue'.knows /\ e \in edits'[e].answer.knows
          /\ Claimed(e)
      BY <1>0, <1>2, <1>5, <1>6 DEF Reached, MovedOn, Claimed
    <3> QED BY <1>0, <1>6, <1>7, <3>1, OrderedMoves DEF Ordered
  <2> QED BY <1>6, <2>1, <2>2 DEF EditOrder, MovedOn
<1> QED BY <1>8, <1>11, <1>12, <1>13, <1>14, <1>15

\* The merge takes the reading or leaves the row, and leaves a row that is owned.
LEMMA Merging ==
    ASSUME NEW n \in Nat, NEW r \in Row(n), NEW found \in Snapshot(n)
    PROVE  LET m == MergedInto(r, found)
           IN  /\ m \in Row(n)
               /\ r.op # 0 \/ r.ver > found.ver => m = r
               /\ \/ m = r /\ (r.op # 0 \/ r.ver > found.ver
                               \/ (SameScalars(r.card, found.card) /\ r.ver = found.ver))
                  \/ m.card = found.card /\ m.op = 0 /\ m.ver = found.ver /\ m.knows = found.knows
<1>1. [card |-> found.card, op |-> 0, ver |-> found.ver, knows |-> found.knows] \in Row(n)
  BY DEF Row, Snapshot
<1> QED BY <1>1 DEF MergedInto

\* What a completion makes of the row.
LEMMA Completing ==
    ASSUME NEW n \in Nat, NEW r \in Row(n), NEW found \in Snapshot(n), NEW e \in DOMAIN edits,
           found = edits[e].answer
    PROVE  LET m == Completed(r, e)
           IN  /\ m \in Row(n) /\ m.ver = found.ver /\ m.op = IF r.op = e THEN 0 ELSE r.op
               /\ \/ r.op # e /\ m.card = r.card /\ m.knows = r.knows
                  \/ m.card = found.card /\ m.knows = found.knows
               /\ r.op \notin {0, e} => m.knows = r.knows
               /\ r.op = e => m.knows = found.knows
<1>1. PICK s : s = [r EXCEPT !.op = IF r.op = e THEN 0 ELSE r.op, !.ver = found.ver]
  OBVIOUS
<1>2. /\ s \in Row(n) /\ s.card = r.card /\ s.knows = r.knows /\ s.ver = found.ver
      /\ s.op = IF r.op = e THEN 0 ELSE r.op
  <2>1. PICK op : op = IF r.op = e THEN 0 ELSE r.op
    OBVIOUS
  <2>2. r.op \in 0 .. n /\ found.ver \in Int
    BY DEF Row, Snapshot
  <2>3. op \in 0 .. n
    BY <2>1, <2>2
  <2>4. s = [r EXCEPT !.op = op, !.ver = found.ver]
    BY <1>1, <2>1
  <2> QED BY <2>1, <2>2, <2>3, <2>4 DEF Row
<1>3. PICK m : m = MergedInto(s, found)
  OBVIOUS
<1>4. /\ m \in Row(n)
      /\ s.op # 0 => m = s
      /\ \/ m = s /\ (s.op # 0 \/ s.ver > found.ver \/ SameScalars(s.card, found.card))
         \/ m.card = found.card /\ m.op = 0 /\ m.ver = found.ver /\ m.knows = found.knows
  BY <1>2, <1>3, Merging
<1>5. m.ver = found.ver /\ m.op = s.op
  <2>1. CASE m = s
    BY <1>2, <2>1
  <2>2. CASE m # s
    BY <1>2, <1>4, <2>2
  <2> QED BY <2>1, <2>2
<1>6. CASE r.op = e
  <2>1. PICK w : w = [m EXCEPT !.card.assignees = found.card.assignees, !.knows = found.knows]
    OBVIOUS
  <2>2. Completed(r, e) = w
    BY <1>1, <1>3, <1>6, <2>1 DEF Completed
  <2>3. PICK c : c = [m.card EXCEPT !["assignees"] = found.card["assignees"]]
    OBVIOUS
  <2>4. /\ m \in Row(n) /\ m.card \in Card(n) /\ found.card \in Card(n)
        /\ found.knows \subseteq 1 .. n
    BY <1>4 DEF Row, Snapshot
  <2>5. c = found.card
    <3>1. \A f \in CardFieldNames \ {"assignees"} : m.card[f] = found.card[f]
      <4>1. s.op = 0 /\ s.ver = found.ver /\ found.ver \in Int
        BY <1>2, <1>6 DEF Snapshot
      <4>2. CASE m = s
        BY <1>4, <4>1, <4>2 DEF SameScalars
      <4>3. CASE m # s
        BY <1>4, <4>3
      <4> QED BY <4>2, <4>3
    <3>2. "assignees" \in CardFieldNames
      BY DEF CardFieldNames
    <3> QED BY <2>3, <2>4, <3>1, <3>2 DEF Card
  <2>6. /\ w.card = c /\ w.knows = found.knows /\ w.op = m.op /\ w.ver = m.ver
        /\ w = [m EXCEPT !.card = c, !.knows = found.knows]
    BY <2>1, <2>3, <2>4 DEF Row
  <2>7. w \in Row(n)
    BY <2>4, <2>5, <2>6 DEF Row
  <2> QED BY <1>2, <1>5, <1>6, <2>2, <2>5, <2>6, <2>7
<1>7. CASE r.op # e
  <2>1. Completed(r, e) = m
    BY <1>1, <1>3, <1>7 DEF Completed
  <2> QED BY <1>2, <1>4, <1>5, <1>7, <2>1
<1> QED BY <1>6, <1>7

LEMMA CompleteKeeps == ASSUME FieldsInv, NEW e \in DOMAIN edits, CompleteUpdate(e) PROVE FieldsInv'
<1> USE DEF FieldsInv
<1> DEFINE claimed == edits[e].claimed
           answer == edits[e].answer
<1>1. /\ edits[e].at = "applied" /\ MovedOn(e, "done", claimed, answer)
      /\ UNCHANGED <<stamped, issue, observed>> /\ cached' = Completed(cached, e)
  BY AtMoves DEF CompleteUpdate
<1>2. answer \in Found /\ issue \in Found /\ observed \in Found
  BY DEF Found
<1> HIDE DEF claimed, answer
<1>3. /\ Forward /\ EditsGo /\ e \in Nat \ {0} /\ OnBoard(e) /\ Ordered(e) /\ Reached(e) /\ Claimed(e)
      /\ DOMAIN edits' = DOMAIN edits
  <2>1. Stored(e) /\ Reached(e) /\ Claimed(e) /\ edits[e].at # "done" /\ e \in Nat \ {0}
    BY <1>1, EditTyped DEF Stored, Reached, Claimed
  <2> QED BY <1>1, <2>1, MovedForward DEF Forward, EditOrder, Ordered, MovedOn
<1>4. PICK found : found = edits[e].answer
  OBVIOUS
<1>5. found \in Found /\ found \in Snapshot(Len(edits)) /\ e \in found.knows
  BY <1>1, <1>3, <1>4, EditTyped DEF Found, Ordered
<1>6. /\ cached' \in Row(Len(edits)) /\ cached'.ver = found.ver
      /\ cached'.op = IF cached.op = e THEN 0 ELSE cached.op
      /\ \/ cached.op # e /\ cached'.card = cached.card /\ cached'.knows = cached.knows
         \/ cached'.card = found.card /\ cached'.knows = found.knows
      /\ cached.op \notin {0, e} => cached'.knows = cached.knows
      /\ cached.op = e => cached'.knows = found.knows
  <2>1. Len(edits) \in Nat /\ cached \in Row(Len(edits))
    BY Lengths DEF EditTypes
  <2> QED BY <1>1, <1>4, <1>5, <2>1, Completing
<1>7. EditTypes'
  BY <1>1, <1>6 DEF EditTypes, MovedOn
<1>8. Found' \subseteq Found
  BY <1>1, <1>2, MovedFound
<1>9. FoundInOrder' /\ OwnSent'
  BY <1>1, <1>3, <1>8, FoundStays DEF OwnSent
<1>10. EditsHold'
  BY <1>1, MovedHolds
<1>11. EditOrder'
  <2>1. ASSUME NEW d \in DOMAIN edits, d # e PROVE Ordered(d)'
    BY <1>1, <1>3, <2>1, OrderedOn DEF MovedOn
  <2>2. Ordered(e)'
    <3>1. Reached(e)' /\ edits'[e].at = "done" /\ e \in issue'.knows
      BY <1>1, <1>3 DEF Reached, MovedOn, Ordered
    <3> QED BY <1>1, <1>3, <3>1, OrderedMoves DEF Ordered
  <2> QED BY <1>1, <2>1, <2>2 DEF EditOrder, MovedOn
<1>12. CacheHolds'
  <2>1. PICK card, knows : card = cached'.card /\ knows = cached'.knows
    OBVIOUS
  <2>2. Closed(knows) /\ Holds(card, knows) /\ \A d \in knows : Stored(d)
    <3>1. CASE card = cached.card /\ knows = cached.knows
      BY <3>1 DEF CacheHolds
    <3>2. CASE card = found.card /\ knows = found.knows
      <4>1. knows \subseteq issue.knows /\ Closed(knows) /\ Holds(card, knows)
        BY <1>5, <3>2 DEF FoundInOrder
      <4>2. \A d \in knows : Stored(d)
        BY <4>1 DEF Closed, EditOrder, Ordered, Reached, Stored
      <4> QED BY <4>1, <4>2
    <3> QED BY <1>6, <2>1, <3>1, <3>2
  <2>3. Closed(knows)' /\ Holds(card, knows)'
    BY <1>3, <2>2, HoldsOn
  <2>4. \A d \in knows : Stored(d)'
    BY <1>3, <2>2 DEF Closed, Forward
  <2> QED BY <2>1, <2>3, <2>4 DEF CacheHolds, Closed, Holds
<1>13. CacheKnows'
  <2> SUFFICES ASSUME NEW d \in DOMAIN edits, NoneBeside(d)', NEW s \in Later(d)', Stored(s)'
               PROVE  (d \in cached.knows)' /\ ((cached.op \in Later(d))' \/ Settled(d)')
    BY <1>3 DEF CacheKnows, CacheKnowsOf
  <2>1. Later(d)' = Later(d) /\ NoneBeside(d)
    BY <1>3, FewerKept DEF Later, OnBoard, EditsGo
  <2>2. s \in DOMAIN edits /\ Stored(s)
    <3>1. s \in DOMAIN edits
      BY <2>1 DEF Later
    <3>2. edits[e].at = "applied" /\ \A b \in DOMAIN edits : b # e => edits'[b] = edits[b]
      BY <1>1 DEF MovedOn
    <3> QED BY <3>1, <3>2 DEF Stored
  <2>3. d \in cached.knows /\ (cached.op \in Later(d) \/ Settled(d))
    BY <2>1, <2>2 DEF CacheKnows, CacheKnowsOf
  <2>4. CASE cached.op \in Later(d) /\ cached.op # e
    <3>1. cached'.knows = cached.knows /\ cached'.op = cached.op
      <4>1. cached.op # 0
        BY <2>4, EditTyped DEF Later
      <4> QED BY <1>6, <2>4, <4>1
    <3> QED BY <2>1, <2>3, <2>4, <3>1
  <2>5. ASSUME e \in Later(d), \A b \in edits[d].knew : edits[b].at = "done",
               cached.op \in {0, e}, d \in cached'.knows
        PROVE  Settled(d)'
    <3>1. d \in found.knows
      <4>1. e = d \/ d \in edits[e].knew
        BY <2>5 DEF Later
      <4> QED BY <1>5, <4>1 DEF FoundInOrder, Closed
    <3>2. Reached(d)
      BY <1>5, <3>1 DEF FoundInOrder, Closed, EditOrder, Ordered
    <3>3. /\ Reached(d)' /\ edits'[d].knew = edits[d].knew
          /\ \A b \in edits[d].knew : edits'[b].at = "done"
      BY <1>3, <2>5, <3>2, EditTyped DEF Forward, EditsGo
    <3>4. cached'.op = 0
      BY <1>6, <2>5
    <3>5. ASSUME NEW x \in Found', d \notin x.knows PROVE x.ver < cached'.ver
      <4>1. x \in Found /\ Precedes(x, found)
        BY <1>5, <1>8 DEF FoundInOrder
      <4> QED BY <1>6, <3>1, <3>5, <4>1 DEF Precedes
    <3> QED BY <3>3, <3>4, <3>5 DEF Settled
  <2>6. CASE cached.op = e /\ e \in Later(d)
    <3>1. d \in found.knows
      <4>1. e = d \/ d \in edits[e].knew
        BY <2>6 DEF Later
      <4> QED BY <1>5, <4>1 DEF FoundInOrder, Closed
    <3>2. \A b \in edits[d].knew : b \in edits[e].knew
      <4>1. e = d \/ d \in edits[e].knew
        BY <2>6 DEF Later
      <4>2. Closed(edits[e].knew)
        BY DEF EditsHold, EditHolds
      <4> QED BY <4>1, <4>2 DEF Closed
    <3>3. \A b \in edits[d].knew : edits[b].at = "done"
      BY <1>3, <3>2 DEF Ordered
    <3> QED BY <1>6, <2>5, <2>6, <3>1, <3>3
  <2>7. CASE Settled(d)
    <3>1. e \in Later(d)
      <4>1. e \notin edits[d].knew
        BY <1>1, <2>7 DEF Settled
      <4>2. e = d \/ d \in edits[e].knew
        BY <2>1, <4>1 DEF NoneBeside, Concurrent
      <4> QED BY <1>3, <4>2 DEF Later
    <3>2. d \in found.knows
      <4>1. e = d \/ d \in edits[e].knew
        BY <3>1 DEF Later
      <4> QED BY <1>5, <4>1 DEF FoundInOrder, Closed
    <3>3. d \in cached'.knows
      BY <1>6, <2>3, <3>2
    <3> QED BY <2>5, <2>7, <3>1, <3>3 DEF Settled
  <2> QED BY <2>3, <2>4, <2>6, <2>7
<1> QED BY <1>7, <1>9, <1>10, <1>11, <1>12, <1>13

-----------------------------------------------------------------------------
(* GitLab, and the readings of the issue *)

LEMMA EditInGitLabKeeps ==
    ASSUME FieldsInv, NEW f \in CardFieldNames, EditInGitLab(f)
    PROVE  FieldsInv'
<1> USE DEF FieldsInv
<1>0. PICK n, e : n = Len(edits) /\ e = n + 1
  OBVIOUS
<1>1. /\ n \in Nat /\ n + 1 \in Nat /\ n <= n + 1 /\ DOMAIN edits = 1 .. n /\ e \notin DOMAIN edits /\ e # 0
      /\ issue \in Snapshot(n) /\ issue.card \in Card(n) /\ issue.knows \subseteq DOMAIN edits
      /\ issue.ver \in Int
  BY <1>0, Lengths DEF EditTypes, Snapshot
<1>2. PICK new : new = Edit("in_gitlab", {f}, "done", issue.card, issue.knows)
  OBVIOUS
<1>3. /\ new \in EditState(n + 1) /\ new.kind = "in_gitlab" /\ new.fields = {f} /\ new.at = "done"
      /\ new.base = issue.card /\ new.knew = issue.knows /\ new.answer = NothingObserved
  <2>1. issue.card \in Card(n + 1) /\ issue.knows \subseteq 1 .. n + 1
    BY <1>1, Wider
  <2>2. Unedited \in Card(n + 1) /\ NothingObserved \in Snapshot(n + 1)
    BY <1>1, Blank
  <2> QED BY <1>2, <2>1, <2>2 DEF Edit, EditState
<1>4. Added(new) /\ UNCHANGED <<stamped, cached, observed>>
  <2>1. edits' = Append(edits, new) /\ UNCHANGED <<stamped, cached, observed>>
    BY <1>2 DEF EditInGitLab
  <2> QED BY <1>0, <1>3, <2>1, Adding
<1>5. PICK card, known : card = WithEdit(issue.card, {f}, e) /\ known = issue.knows \cup {e}
  OBVIOUS
<1>6. /\ card \in Card(n + 1) /\ known \subseteq 1 .. n + 1 /\ card[f] = e
      /\ \A g \in CardFieldNames : g # f => card[g] = issue.card[g]
  <2>1. e \in 0 .. n + 1 /\ e \in 1 .. n + 1 /\ issue.card \in Card(n + 1)
    BY <1>0, <1>1, Wider
  <2> QED BY <1>1, <1>5, <2>1 DEF WithEdit, Card
<1>7. card # issue.card
  BY <1>0, <1>1, <1>6 DEF Card
<1>8. PICK after : after = [card |-> card, knows |-> known, ver |-> issue.ver + 1]
  OBVIOUS
<1>9. /\ after \in Snapshot(n + 1) /\ after.card = card /\ after.knows = known
      /\ after.ver = issue.ver + 1 /\ issue' = after
  <2>1. issue' = IssueWith(card, e)
    BY <1>0, <1>5 DEF EditInGitLab
  <2> QED BY <1>1, <1>5, <1>6, <1>7, <1>8, <2>1 DEF IssueWith, Snapshot
<1>10. Forward /\ EditsGo /\ DOMAIN edits' = DOMAIN edits \cup {e} /\ edits'[e] = new
  BY <1>0, <1>4, AddedForward DEF Forward, Added
<1>11. EditTypes'
  <2>1. /\ Len(edits') = n + 1 /\ edits' \in Seq(EditState(n + 1))
        /\ Snapshot(n) \subseteq Snapshot(n + 1) /\ Row(n) \subseteq Row(n + 1)
    BY <1>0, <1>1, <1>4, Wider DEF Added
  <2> QED BY <1>0, <1>4, <1>9, <2>1 DEF EditTypes
<1>12. Found' \subseteq Found \cup {issue'}
  BY <1>3, <1>4, AddedFound
<1>13. Closed(issue.knows) /\ Holds(issue.card, issue.knows)
  BY DEF FoundInOrder, Found
<1>14. EditsHold'
  BY <1>3, <1>4, <1>13, AddedHolds
<1>15. Closed(known)' /\ Holds(card, known)'
  <2>1. PICK old, knows : old = issue.card /\ knows = issue.knows
    OBVIOUS
  <2>2. Closed(knows)' /\ Holds(old, knows)' /\ e \notin knows
    BY <1>1, <1>10, <1>13, <2>1, HoldsOn
  <2>3. Closed(known)'
    BY <1>3, <1>5, <1>10, <2>1, <2>2 DEF Closed
  <2>4. ASSUME NEW d \in known, NEW g \in CardFieldNames, Kept(d, g)' PROVE card[g] = d
    <3>1. CASE d = e
      BY <1>3, <1>6, <1>10, <2>4, <3>1 DEF Kept
    <3>2. CASE d # e
      <4>1. d \in knows /\ d \in edits'[e].knew /\ edits'[e].fields = {f} /\ e \in DOMAIN edits'
        BY <1>3, <1>5, <1>10, <2>1, <3>2
      <4>2. g # f
        BY <2>4, <4>1 DEF Kept, Superseded
      <4>3. old[g] = d
        BY <2>2, <2>4, <4>1 DEF Holds
      <4> QED BY <1>6, <2>1, <4>2, <4>3
    <3> QED BY <3>1, <3>2
  <2> QED BY <2>3, <2>4 DEF Holds
<1>16. FoundInOrder'
  <2>1. Closed(issue.knows)' /\ Holds(issue.card, issue.knows)'
    BY <1>9, <1>15 DEF Closed, Holds
  <2> QED BY <1>5, <1>9, <1>10, <1>12, <2>1, FoundGrows
<1>17. OwnSent'
  <2> SUFFICES ASSUME NEW g \in OwnFields PROVE card[g] \in {0} \cup known
    BY <1>9 DEF OwnSent
  <2> QED BY <1>5, <1>6, KindsChange DEF OwnSent
<1>18. CacheKnows' /\ CacheHolds'
  <2>1. \A d \in DOMAIN edits : Stored(d)' => Stored(d)
    BY <1>4 DEF Added, Stored
  <2>2. \A d \in DOMAIN edits' \ DOMAIN edits : ~OnBoard(d)'
    BY <1>3, <1>10 DEF OnBoard
  <2> QED BY <1>4, <1>5, <1>9, <1>10, <1>12, <2>1, <2>2, CacheOn
<1>19. EditOrder'
  <2>1. ASSUME NEW d \in DOMAIN edits PROVE Ordered(d)'
    <3>1. 0 \in Nat /\ edits'[d] = edits[d] /\ (d \in issue'.knows <=> d \in issue.knows)
      BY <1>1, <1>4, <1>5, <1>9 DEF Added
    <3> QED BY <1>4, <1>10, <3>1, OrderedOn
  <2>2. Ordered(e)'
    <3>1. \A d \in issue.knows : Reached(d)' /\ Stored(d)'
      BY <1>1, <1>10 DEF EditOrder, Ordered, Forward, Stored, Reached
    <3>2. ~OnBoard(e)' /\ Reached(e)' /\ e \in issue'.knows
      BY <1>3, <1>5, <1>9, <1>10 DEF OnBoard, Reached
    <3> QED BY <1>3, <1>10, <3>1, <3>2 DEF Ordered
  <2> QED BY <1>10, <2>1, <2>2 DEF EditOrder
<1> QED BY <1>11, <1>14, <1>16, <1>17, <1>18, <1>19

\* Edits stay where they are.
LEMMA SameEdits == ASSUME UNCHANGED edits PROVE Forward /\ EditsGo
BY DEF Forward, EditsGo, Stored, Reached

LEMMA WaitingKeeps ==
    ASSUME FieldsInv, UNCHANGED <<edits, stamped, issue>>
    PROVE  EditOrder' /\ EditsHold' /\ OwnSent'
<1> USE DEF FieldsInv
<1>1. Forward /\ EditsGo
  BY SameEdits
<1>2. ASSUME NEW e \in DOMAIN edits PROVE Ordered(e)' /\ EditHolds(e)'
  <2>1. 0 \in Nat
    OBVIOUS
  <2> QED BY <1>1, <2>1, OrderedOn, EditHoldsOn
<1> QED BY <1>2 DEF EditOrder, EditsHold, OwnSent

LEMMA ReadKeeps == ASSUME FieldsInv, ReadCard \/ UNCHANGED fieldsVars PROVE FieldsInv'
<1> USE DEF FieldsInv
<1>1. UNCHANGED <<edits, stamped, cached, issue>> /\ observed' \in {observed, issue}
  BY DEF ReadCard, fieldsVars
<1>2. Found' \subseteq Found /\ Forward /\ EditsGo
  BY <1>1, SameEdits DEF Found
<1>3. EditTypes'
  BY <1>1 DEF EditTypes
<1>4. FoundInOrder'
  BY <1>1, <1>2, FoundStays
<1>5. CacheKnows' /\ CacheHolds'
  BY <1>1, <1>2, CacheOn DEF Stored
<1> QED BY <1>1, <1>3, <1>4, <1>5, WaitingKeeps

\* A reading that is merged into a row without operation is newer than what the row
\* knows of, or knows of it too.
LEMMA MergeKeeps == ASSUME FieldsInv, MergeCard PROVE FieldsInv'
<1> USE DEF FieldsInv
<1>1. /\ UNCHANGED <<edits, stamped, issue>> /\ observed' = NothingObserved
      /\ cached' = MergedInto(cached, observed)
  BY DEF MergeCard
<1>2. Found' \subseteq Found /\ Forward /\ EditsGo /\ observed \in Found
  BY <1>1, SameEdits DEF Found
<1>3. /\ cached' \in Row(Len(edits))
      /\ cached.op # 0 \/ cached.ver > observed.ver => cached' = cached
      /\ \/ cached' = cached
         \/ /\ cached'.card = observed.card /\ cached'.op = 0
            /\ cached'.ver = observed.ver /\ cached'.knows = observed.knows
  <2>1. Len(edits) \in Nat /\ cached \in Row(Len(edits)) /\ observed \in Snapshot(Len(edits))
    BY Lengths DEF EditTypes
  <2> QED BY <1>1, <2>1, Merging
<1>4. EditTypes'
  <2>1. NothingObserved \in Snapshot(Len(edits))
    BY Lengths, Blank
  <2> QED BY <1>1, <1>3, <2>1 DEF EditTypes
<1>5. FoundInOrder'
  BY <1>1, <1>2, FoundStays
<1>6. CASE cached' = cached
  <2>1. CacheKnows' /\ CacheHolds'
    BY <1>1, <1>2, <1>6, CacheOn DEF Stored
  <2> QED BY <1>1, <1>4, <1>5, <2>1, WaitingKeeps
<1>7. CASE cached' # cached
  <2>1. /\ cached'.card = observed.card /\ cached'.op = 0 /\ cached.op = 0
        /\ cached'.ver = observed.ver /\ cached'.knows = observed.knows /\ ~(cached.ver > observed.ver)
    BY <1>3, <1>7
  <2>2. /\ observed.knows \subseteq issue.knows /\ Closed(observed.knows)
        /\ Holds(observed.card, observed.knows)
    BY <1>2 DEF FoundInOrder
  <2>3. CacheHolds'
    <3>1. PICK card, knows : card = observed.card /\ knows = observed.knows
      OBVIOUS
    <3>2. Closed(knows)' /\ Holds(card, knows)'
      BY <1>2, <2>2, <3>1, HoldsOn
    <3>3. \A d \in knows : Stored(d)'
      BY <1>1, <2>2, <3>1 DEF Closed, EditOrder, Ordered, Reached, Stored
    <3> QED BY <2>1, <3>1, <3>2, <3>3 DEF CacheHolds, Closed, Holds
  <2>4. CacheKnows'
    <3> SUFFICES ASSUME NEW d \in DOMAIN edits, NoneBeside(d)', NEW s \in Later(d)', Stored(s)'
                 PROVE  (d \in cached.knows)' /\ Settled(d)'
      BY <1>1 DEF CacheKnows, CacheKnowsOf
    <3>1. NoneBeside(d) /\ s \in Later(d) /\ Stored(s)
      BY <1>1, <1>2, FewerKept DEF Later, OnBoard, Stored
    <3>2. Settled(d)
      <4>1. cached.op \notin Later(d)
        BY <2>1, EditTyped DEF Later
      <4> QED BY <3>1, <4>1 DEF CacheKnows, CacheKnowsOf
    <3>3. d \in observed.knows
      <4>1. cached.ver \in Int /\ observed.ver \in Int
        BY DEF EditTypes, Row, Snapshot
      <4> QED BY <1>2, <2>1, <3>2, <4>1 DEF Settled
    <3>4. ASSUME NEW x \in Found', d \notin x.knows PROVE x.ver < cached'.ver
      BY <1>2, <2>1, <3>3, <3>4 DEF FoundInOrder, Precedes
    <3> QED BY <1>1, <2>1, <3>2, <3>3, <3>4 DEF Settled, Reached
  <2> QED BY <1>1, <1>4, <1>5, <2>3, <2>4, WaitingKeeps
<1> QED BY <1>6, <1>7

-----------------------------------------------------------------------------
(* The theorem *)

LEMMA FieldsStep == ASSUME FieldsInv, [FieldsNext]_fieldsVars PROVE FieldsInv'
BY BeginKeeps, StampKeeps, StoreKeeps, ClaimKeeps, ApplyKeeps, CompleteKeeps, EditInGitLabKeeps,
   ReadKeeps, MergeKeeps DEF FieldsNext

LEMMA AllSurvive == FieldsInv => EditsSurvive
<1> USE DEF FieldsInv
<1> SUFFICES ASSUME FieldsInv, \A d \in DOMAIN edits : edits[d].at = "done",
                    NEW e \in DOMAIN edits, NEW f \in edits[e].fields,
                    ~Endangered(e, f), ~Superseded(e, f)
             PROVE  /\ issue.card[f] = e
                    /\ cached.card[f] = e \/ e \notin OfBoard \/ \E d \in DOMAIN edits : Concurrent(d, e)
  BY DEF EditsSurvive
<1>1. Kept(e, f) /\ f \in CardFieldNames
  BY EditTyped DEF Kept
<1>2. issue.card[f] = e
  <2>1. e \in issue.knows
    BY DEF EditOrder, Ordered, Reached
  <2> QED BY <1>1, <2>1 DEF FoundInOrder, Found, Holds
<1>3. ASSUME e \in OfBoard, NoneBeside(e) PROVE cached.card[f] = e
  <2>1. e \in Later(e) /\ Stored(e)
    BY <1>3 DEF Later, OfBoard, OnBoard, Stored
  <2>2. e \in cached.knows
    BY <1>3, <2>1 DEF CacheKnows, CacheKnowsOf
  <2> QED BY <1>1, <2>2 DEF CacheHolds, Holds
<1> QED BY <1>2, <1>3 DEF NoneBeside

\* When all is done GitLab has of every field the last edit, and the board shows it,
\* unless one made at the same time changes or sends that field, however requests,
\* operations, answers and reads interleave (board/service.go UpdateCard,
\* sync/service.go ProcessOne, cardobservations.go).
THEOREM EditsAlwaysSurvive == FieldsSpec => []EditsSurvive
BY FieldsBegin, FieldsStep, AllSurvive, PTL DEF FieldsSpec

===========================================================================
