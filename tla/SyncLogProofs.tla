--------------------------- MODULE SyncLogProofs ---------------------------
(***************************************************************************)
(* The change log is sound for every number of transactions, users,        *)
(* streams and pulling clients, every catch-up budget and page limit, as   *)
(* long as no pruning removes what a running read still needs.             *)
(***************************************************************************)
EXTENDS SyncLog, TLAPS

LEMMA Bounds ==
    /\ 0 \in Contents /\ Unread \notin Contents
    /\ \A n \in Contents : n \in Nat /\ n <= MaxRev /\ (n # 0 => n \in Ids)
    /\ \A n \in Ids : n \in Nat /\ n # 0 /\ n \in Contents
    /\ \A n \in Nat : n <= MaxRev => n \in Contents
    /\ MaxRev \in Nat
BY ConstantsAssumption DEF Contents, Ids, Unread

LEMMA Audience == \A u \in Clients : u \in Users /\ Sees[u] = Public \cup {u} /\ Sees[u] \subseteq Keys
BY ConstantsAssumption DEF Clients, Sees, Keys

LEMMA NothingTyped == Nothing \in [Keys -> Contents \cup {Unread}] /\ \A k \in Keys : Nothing[k] = Unread
BY DEF Nothing

LEMMA AskTyped ==
    ASSUME NEW pc \in Steps, NEW bound \in Contents, NEW edge \in Contents,
           NEW more \in BOOLEAN, NEW limit \in 1..Budget
    PROVE  /\ Ask(pc, bound, edge, more, limit) \in Req
           /\ Ask(pc, bound, edge, more, limit).pc = pc
           /\ Ask(pc, bound, edge, more, limit).bound = bound
           /\ Ask(pc, bound, edge, more, limit).edge = edge
           /\ Ask(pc, bound, edge, more, limit).more = more
           /\ Ask(pc, bound, edge, more, limit).limit = limit
BY NothingTyped DEF Ask, Req

LEMMA LoadTyped ==
    ASSUME NEW bound \in Contents, NEW got \in [Keys -> Contents \cup {Unread}]
    PROVE  /\ Load(bound, got) \in Req
           /\ Load(bound, got).pc = "booting"
           /\ Load(bound, got).bound = bound
           /\ Load(bound, got).got = got
BY Bounds, ConstantsAssumption DEF Load, Req, Steps, Reading

LEMMA AtTyped ==
    ASSUME NEW pc \in {"idle", "waiting", "reset"}
    PROVE  At(pc) \in Req /\ At(pc).pc = pc
<1>1. pc \in Steps /\ 0 \in Contents /\ Budget \in 1..Budget
  BY Bounds, ConstantsAssumption DEF Steps
<1> QED BY <1>1, NothingTyped DEF At, Ask, Req

LEMMA SampleTyped ==
    ASSUME NEW limit \in 1..Budget
    PROVE  Sample(limit) \in Req /\ Sample(limit).pc = "sampling"
<1>1. "sampling" \in Steps /\ 0 \in Contents
  BY Bounds DEF Steps, Reading
<1> QED BY <1>1, NothingTyped DEF Sample, Ask, Req

\* What the steps of a client leave as it is.
Untouched == UNCHANGED <<txn, lock, revision, floor, log, data, wrote>>

\* What has to be shown of a step of client u, and no more.
LEMMA ClientStepKeeps ==
    ASSUME IInv, Untouched, NEW u \in Clients,
           NEW r \in Req, req' = [req EXCEPT ![u] = r],
           NEW s \in Screen, screen' = [screen EXCEPT ![u] = s],
           notified' \in BOOLEAN, listening' \in BOOLEAN, wake' \in [Clients -> BOOLEAN],
           left' \in [prunes : 0..MaxPrunes, drops : 0..MaxDrops],
           ReaderInv(u)', BootInv(u)',
           History!IsBoard(u, s.rev, s.view)
    PROVE  IInv'
<1>1. TypeOK'
  BY DEF IInv, TypeOK, Untouched
<1>2. LogComplete' /\ DataIsCurrent' /\ LockHolds'
  BY DEF IInv, LogComplete, DataIsCurrent, LockHolds, Untouched, History!IsContent
<1>3. ASSUME NEW v \in Clients PROVE ReaderInv(v)' /\ BootInv(v)'
  <2>1. CASE v = u
    BY <2>1
  <2>2. CASE v # u
    <3>1. req'[v] = req[v] /\ screen'[v] = screen[v]
      BY <2>2 DEF IInv, TypeOK
    <3>2. ReaderInv(v) /\ BootInv(v)
      BY DEF IInv
    <3> QED BY <3>1, <3>2 DEF ReaderInv, BootInv, Untouched
  <2> QED BY <2>1, <2>2
<1>4. ViewIsPast'
  <2>1. ASSUME NEW v \in Clients
        PROVE  History!IsBoard(v, screen[v].rev, screen[v].view)
               /\ History!IsBoard(v, screen'[v].rev, screen'[v].view)
    <3>1. History!IsBoard(v, screen[v].rev, screen[v].view)
      BY DEF IInv, ViewIsPast
    <3>2. screen'[v] = IF v = u THEN s ELSE screen[v]
      BY DEF IInv, TypeOK
    <3> QED BY <3>1, <3>2
  <2> QED BY <2>1 DEF ViewIsPast, Untouched, History!IsBoard, History!IsContent
<1> QED BY <1>1, <1>2, <1>3, <1>4 DEF IInv

LEMMA RowsMember ==
    ASSUME NEW u \in Clients, NEW a \in Contents, NEW b \in Contents,
           NEW n \in Ids, NEW k \in Keys
    PROVE  <<n, k>> \in Rows(u, a, b) <=> a < n /\ n <= b /\ k \in log[n] /\ k \in Sees[u]
BY DEF Rows

LEMMA ReqTyped ==
    ASSUME IInv, NEW u \in Clients
    PROVE  /\ req[u] \in Req /\ req[u].pc \in Steps
           /\ req[u].bound \in Contents /\ req[u].edge \in Contents
           /\ req[u].bound \in Nat /\ req[u].edge \in Nat
           /\ req[u].more \in BOOLEAN /\ req[u].limit \in 1..Budget
           /\ req[u].got \in [Keys -> Contents \cup {Unread}]
           /\ screen[u] \in Screen /\ screen[u].rev \in Contents
           /\ screen[u].view \in [Keys -> Contents]
           /\ revision \in Contents /\ floor \in Contents
           /\ revision \in Nat /\ floor \in Nat /\ screen[u].rev \in Nat
           /\ ReaderInv(u) /\ BootInv(u)
           /\ History!IsBoard(u, screen[u].rev, screen[u].view)
BY Bounds DEF IInv, TypeOK, Req, Screen, ViewIsPast

\* The rows a reader has not seen are all still there.
LEMMA RowsAreHistory ==
    ASSUME IInv, NEW u \in Clients, req[u].pc \in Reading \ {"sampling"},
           NEW n \in Ids, n > screen[u].rev
    PROVE  log[n] = wrote[n]
BY Bounds, ReqTyped DEF IInv, LogComplete, ReaderInv

\* Steps that leave the screen and only move the request on.
LEMMA RequestStepKeeps ==
    ASSUME IInv, Untouched, NEW u \in Clients,
           NEW r \in Req, req' = [req EXCEPT ![u] = r], screen' = screen,
           notified' \in BOOLEAN, listening' \in BOOLEAN, wake' \in [Clients -> BOOLEAN],
           left' \in [prunes : 0..MaxPrunes, drops : 0..MaxDrops],
           r.pc \in Reading \ {"sampling"} =>
              screen[u].rev <= r.bound /\ r.bound <= revision /\ floor <= screen[u].rev,
           r.pc \in {"checking", "paging"} => screen[u].rev <= r.edge /\ r.edge <= r.bound,
           r.pc = "paging" /\ ~r.more =>
              \A n \in Ids, k \in Sees[u] : r.edge < n /\ n <= r.bound => k \notin wrote[n],
           r.pc = "booting" =>
              /\ screen[u].rev <= r.bound /\ r.bound <= revision
              /\ r.bound = revision => \A k \in Keys : r.got[k] # Unread => r.got[k] = data[k]
    PROVE  IInv'
<1>1. req'[u] = r /\ screen' = [screen EXCEPT ![u] = screen[u]] /\ screen[u].rev <= revision
  BY ReqTyped DEF IInv, TypeOK, ReaderInv
<1>2. ReaderInv(u)'
  BY <1>1 DEF ReaderInv, Untouched
<1>3. BootInv(u)'
  BY <1>1 DEF BootInv, Untouched
<1>4. screen[u] \in Screen /\ History!IsBoard(u, screen[u].rev, screen[u].view)
  BY ReqTyped
<1> QED BY <1>1, <1>2, <1>3, <1>4, ClientStepKeeps

\* A request that has sampled nothing.
LEMMA FreshRequestKeeps ==
    ASSUME IInv, Untouched, NEW u \in Clients, screen' = screen,
           NEW r \in Req, r.pc \in {"idle", "waiting", "reset", "sampling"},
           req' = [req EXCEPT ![u] = r],
           notified' \in BOOLEAN, listening' \in BOOLEAN, wake' \in [Clients -> BOOLEAN],
           left' \in [prunes : 0..MaxPrunes, drops : 0..MaxDrops]
    PROVE  IInv'
BY RequestStepKeeps DEF Reading

LEMMA Budgets ==
    ASSUME IInv
    PROVE  /\ notified \in BOOLEAN /\ listening \in BOOLEAN
           /\ wake \in [Clients -> BOOLEAN]
           /\ left \in [prunes : 0..MaxPrunes, drops : 0..MaxDrops]
           /\ left.drops > 0 =>
                 [prunes |-> left.prunes, drops |-> left.drops - 1]
                     \in [prunes : 0..MaxPrunes, drops : 0..MaxDrops]
           /\ left.prunes > 0 =>
                 [prunes |-> left.prunes - 1, drops |-> left.drops]
                     \in [prunes : 0..MaxPrunes, drops : 0..MaxDrops]
BY ConstantsAssumption DEF IInv, TypeOK

LEMMA StreamStepsKeep ==
    ASSUME IInv, NEW u \in Clients,
           Connect(u) \/ Wake(u) \/ Heartbeat(u) \/ Disconnect(u)
    PROVE  IInv'
<1>1. Untouched /\ screen' = screen
  BY DEF Connect, Wake, Heartbeat, Disconnect, server, feed, Untouched
<1>2. /\ notified' \in BOOLEAN /\ listening' \in BOOLEAN /\ wake' \in [Clients -> BOOLEAN]
      /\ left' \in [prunes : 0..MaxPrunes, drops : 0..MaxDrops]
  BY Budgets DEF Connect, Wake, Heartbeat, Disconnect, feed
<1>3. Budget \in 1..Budget
  BY ConstantsAssumption
<1>4. \/ req' = [req EXCEPT ![u] = Sample(Budget)]
      \/ req' = [req EXCEPT ![u] = At("idle")]
  BY DEF Connect, Wake, Heartbeat, Disconnect
<1>5. Sample(Budget) \in Req /\ Sample(Budget).pc = "sampling"
  BY <1>3, SampleTyped
<1>6. At("idle") \in Req /\ At("idle").pc = "idle"
  BY AtTyped
<1>7. CASE req' = [req EXCEPT ![u] = Sample(Budget)]
  BY <1>1, <1>2, <1>5, <1>7, FreshRequestKeeps
<1>8. CASE req' = [req EXCEPT ![u] = At("idle")]
  BY <1>1, <1>2, <1>6, <1>8, FreshRequestKeeps
<1> QED BY <1>4, <1>7, <1>8

LEMMA PullKeeps ==
    ASSUME IInv, NEW u \in Clients, NEW l \in Limits, Pull(u, l)
    PROVE  IInv'
<1>1. Untouched /\ screen' = screen
  BY DEF Pull, server, Untouched
<1>2. Sample(l) \in Req /\ Sample(l).pc = "sampling"
  BY SampleTyped, ConstantsAssumption
<1> QED BY <1>1, <1>2, Budgets, FreshRequestKeeps DEF Pull, feed

LEMMA SampleBoundsKeeps ==
    ASSUME IInv, NEW u \in Clients, SampleBounds(u)
    PROVE  IInv'
<1>1. Untouched /\ UNCHANGED <<screen, notified, listening, wake, left>>
  BY DEF SampleBounds, server, feed, Untouched
<1> DEFINE r == Ask("counting", revision, 0, FALSE, req[u].limit)
<1>2. r \in Req /\ r.pc = "counting" /\ r.bound = revision
  BY ReqTyped, NothingTyped, Bounds DEF Ask, Req, Steps, Reading
<1>3. At("reset") \in Req /\ At("reset").pc = "reset"
  BY AtTyped
<1>4. CASE screen[u].rev > revision \/ screen[u].rev < floor
  <2>1. req' = [req EXCEPT ![u] = At("reset")]
    BY <1>4 DEF SampleBounds
  <2> QED BY <1>1, <1>3, <2>1, Budgets, FreshRequestKeeps
<1>5. CASE ~(screen[u].rev > revision \/ screen[u].rev < floor)
  <2>1. req' = [req EXCEPT ![u] = r]
    BY <1>5 DEF SampleBounds
  <2>2. screen[u].rev <= revision /\ revision <= revision /\ floor <= screen[u].rev
    BY <1>5, ReqTyped, Bounds
  <2> HIDE DEF r
  <2> QED BY <1>1, <1>2, <2>1, <2>2, Budgets, RequestStepKeeps
<1> QED BY <1>4, <1>5

LEMMA CountBacklogKeeps ==
    ASSUME IInv, NEW u \in Clients, CountBacklog(u)
    PROVE  IInv'
<1>1. Untouched /\ UNCHANGED <<screen, notified, listening, wake, left>>
  BY DEF CountBacklog, server, feed, Untouched
<1> DEFINE r == Ask("bounding", req[u].bound, 0, FALSE, req[u].limit)
<1>2. r \in Req /\ r.pc = "bounding" /\ r.bound = req[u].bound
  BY ReqTyped, NothingTyped, Bounds DEF Ask, Req, Steps, Reading
<1>3. At("reset") \in Req /\ At("reset").pc = "reset"
  BY AtTyped
<1>4. \/ req' = [req EXCEPT ![u] = At("reset")]
      \/ req' = [req EXCEPT ![u] = r]
  BY DEF CountBacklog
<1>5. screen[u].rev <= r.bound /\ r.bound <= revision /\ floor <= screen[u].rev
  BY <1>2, ReqTyped DEF CountBacklog, ReaderInv, Reading
<1> HIDE DEF r
<1>6. CASE req' = [req EXCEPT ![u] = At("reset")]
  BY <1>1, <1>3, <1>6, Budgets, FreshRequestKeeps
<1>7. CASE req' = [req EXCEPT ![u] = r]
  BY <1>1, <1>2, <1>5, <1>7, Budgets, RequestStepKeeps
<1> QED BY <1>4, <1>6, <1>7

LEMMA FindBoundaryKeeps ==
    ASSUME IInv, NEW u \in Clients, FindBoundary(u)
    PROVE  IInv'
<1>1. Untouched /\ UNCHANGED <<screen, notified, listening, wake, left>>
  BY DEF FindBoundary, server, feed, Untouched
<1>2. PICK e \in screen[u].rev..req[u].bound :
         req' = [req EXCEPT ![u] = Ask("checking", req[u].bound, e, FALSE, req[u].limit)]
  BY DEF FindBoundary
<1> DEFINE r == Ask("checking", req[u].bound, e, FALSE, req[u].limit)
<1>3. e \in Contents /\ screen[u].rev <= e /\ e <= req[u].bound
  BY ReqTyped, Bounds
<1>4. r \in Req /\ r.pc = "checking" /\ r.bound = req[u].bound /\ r.edge = e
  BY <1>3, ReqTyped, NothingTyped DEF Ask, Req, Steps, Reading
<1>5. screen[u].rev <= r.bound /\ r.bound <= revision /\ floor <= screen[u].rev
  BY <1>4, ReqTyped DEF FindBoundary, ReaderInv, Reading
<1> HIDE DEF r
<1>6. req' = [req EXCEPT ![u] = r]
  BY <1>2 DEF r
<1> QED BY <1>1, <1>3, <1>4, <1>5, <1>6, Budgets, RequestStepKeeps

LEMMA CheckMoreKeeps ==
    ASSUME IInv, NEW u \in Clients, CheckMore(u)
    PROVE  IInv'
<1>1. Untouched /\ UNCHANGED <<screen, notified, listening, wake, left>>
  BY DEF CheckMore, server, feed, Untouched
<1> DEFINE more == Rows(u, req[u].edge, req[u].bound) # {}
           r    == Ask("paging", req[u].bound, req[u].edge, more, req[u].limit)
<1>2. r \in Req /\ r.pc = "paging" /\ r.bound = req[u].bound /\ r.edge = req[u].edge
  BY ReqTyped, NothingTyped DEF Ask, Req, Steps, Reading
<1>3. r.more = more
  BY DEF Ask
<1>4. /\ screen[u].rev <= r.bound /\ r.bound <= revision /\ floor <= screen[u].rev
      /\ screen[u].rev <= r.edge /\ r.edge <= r.bound
  BY <1>2, ReqTyped DEF CheckMore, ReaderInv, Reading
<1>5. ASSUME ~r.more, NEW n \in Ids, NEW k \in Sees[u], r.edge < n, n <= r.bound
      PROVE  k \notin wrote[n]
  <2>1. Rows(u, req[u].edge, req[u].bound) = {}
    BY <1>3, <1>5
  <2>2. k \in Keys /\ req[u].edge < n /\ n <= req[u].bound
    BY <1>2, <1>5, Audience
  <2>3. k \notin log[n]
    BY <2>1, <2>2, ReqTyped, RowsMember
  <2>4. n > screen[u].rev
    BY <1>4, <1>5, <1>2, ReqTyped, Bounds
  <2>5. req[u].pc \in Reading \ {"sampling"}
    BY DEF CheckMore, Reading
  <2> QED BY <2>3, <2>4, <2>5, RowsAreHistory
<1>6. req' = [req EXCEPT ![u] = r]
  BY DEF CheckMore
<1> HIDE DEF r
<1> QED BY <1>1, <1>2, <1>4, <1>5, <1>6, Budgets, RequestStepKeeps

\* Applying a page to a board of the past gives the board of its checkpoint.
LEMMA PageIsBoard ==
    ASSUME IInv, NEW u \in Clients, req[u].pc = "paging",
           NEW view \in [Keys -> Contents],
           IsApplied(u, screen[u].rev, req[u].edge, view)
    PROVE  History!IsBoard(u, Checkpoint(req[u]), view)
<1> DEFINE a == screen[u].rev
           e == req[u].edge
           c == Checkpoint(req[u])
<1>1. a \in Contents /\ e \in Contents /\ c \in Contents /\ a <= e /\ e <= c
  BY ReqTyped, Bounds DEF Checkpoint, ReaderInv
<1>2. ASSUME NEW n \in Ids, n > a PROVE log[n] = wrote[n]
  BY <1>2, RowsAreHistory DEF Reading
<1>3. ASSUME NEW n \in Ids, NEW k \in Sees[u], e < n, n <= c PROVE k \notin wrote[n]
  BY <1>3, ReqTyped, Bounds DEF Checkpoint, ReaderInv
<1> SUFFICES ASSUME NEW k \in Keys
             PROVE  IF k \in Sees[u] THEN History!IsContent(k, c, view[k]) ELSE view[k] = 0
  BY DEF History!IsBoard
<1> DEFINE ids == {n \in Ids : <<n, k>> \in Rows(u, a, e)}
<1>4. \A n \in Ids : n \in ids <=> a < n /\ n <= e /\ k \in log[n] /\ k \in Sees[u]
  BY <1>1, RowsMember
<1>5. IF ids = {} THEN view[k] = screen[u].view[k]
                  ELSE view[k] \in ids /\ \A n \in ids : n <= view[k]
  BY DEF IsApplied
<1>6. IF k \in Sees[u] THEN History!IsContent(k, a, screen[u].view[k])
                        ELSE screen[u].view[k] = 0
  BY ReqTyped DEF History!IsBoard
<1> HIDE DEF a, e, c, ids
<1>7. CASE k \notin Sees[u]
  <2>1. ids = {}
    BY <1>4, <1>7 DEF ids
  <2> QED BY <2>1, <1>5, <1>6, <1>7
<1>8. CASE k \in Sees[u] /\ ids = {}
  <2>1. History!IsContent(k, a, view[k])
    BY <1>5, <1>6, <1>8
  <2>2. ASSUME NEW n \in (view[k] + 1)..c PROVE k \notin wrote[n]
    <3>1. view[k] \in 0..a /\ \A m \in (view[k] + 1)..a : k \notin wrote[m]
      BY <2>1 DEF History!IsContent
    <3>2. n \in Ids
      BY <3>1, <1>1, Bounds
    <3>3. CASE n <= a
      BY <3>1, <3>3, <1>1, Bounds
    <3>4. CASE a < n /\ n <= e
      BY <3>2, <3>4, <1>2, <1>4, <1>8
    <3>5. CASE e < n
      BY <3>2, <3>5, <1>3, <1>8
    <3> QED BY <3>2, <3>3, <3>4, <3>5, <1>1, Bounds
  <2>3. view[k] \in 0..c /\ (view[k] # 0 => k \in wrote[view[k]])
    BY <2>1, <1>1, Bounds DEF History!IsContent
  <2> QED BY <2>2, <2>3, <1>8 DEF History!IsContent
<1>9. CASE k \in Sees[u] /\ ids # {}
  <2>1. view[k] \in Ids /\ a < view[k] /\ view[k] <= e /\ k \in wrote[view[k]]
    <3>1. view[k] \in ids /\ view[k] \in Ids
      BY <1>5, <1>9 DEF ids
    <3> QED BY <3>1, <1>2, <1>4
  <2>2. ASSUME NEW n \in (view[k] + 1)..c PROVE k \notin wrote[n]
    <3>1. n \in Ids /\ n > a /\ ~(n <= view[k]) /\ n <= c
      BY <2>1, <1>1, Bounds
    <3>2. CASE n <= e
      <4>1. n \notin ids
        BY <3>1, <1>5, <1>9
      <4> QED BY <4>1, <3>1, <3>2, <1>2, <1>4, <1>9
    <3>3. CASE e < n
      BY <3>1, <3>3, <1>3, <1>9
    <3> QED BY <3>1, <3>2, <3>3, <1>1, Bounds
  <2>3. view[k] \in 0..c
    BY <2>1, <1>1, Bounds
  <2> QED BY <2>1, <2>2, <2>3, <1>9 DEF History!IsContent
<1> QED BY <1>7, <1>8, <1>9

LEMMA ReadPageKeeps ==
    ASSUME IInv, NEW u \in Clients, ReadPage(u)
    PROVE  IInv'
<1>1. Untouched /\ UNCHANGED <<notified, listening, wake, left>>
  BY DEF ReadPage, server, feed, Untouched
<1>2. PICK view \in [Keys -> Contents] :
         /\ IsApplied(u, screen[u].rev, req[u].edge, view)
         /\ screen' = [screen EXCEPT ![u] = [rev |-> Checkpoint(req[u]), view |-> view]]
  BY DEF ReadPage
<1> DEFINE s == [rev |-> Checkpoint(req[u]), view |-> view]
           r == AfterPage(u)
<1>3. req[u].pc = "paging" /\ req' = [req EXCEPT ![u] = r]
  BY DEF ReadPage
<1>4. r \in Req /\ r.pc \in {"idle", "waiting", "sampling"}
  BY ReqTyped, AtTyped, SampleTyped DEF AfterPage
<1>5. Checkpoint(req[u]) \in Contents /\ Checkpoint(req[u]) <= revision
  BY <1>3, ReqTyped, Bounds DEF Checkpoint, ReaderInv, Reading
<1>6. s \in Screen /\ s.rev = Checkpoint(req[u]) /\ s.view = view
  BY <1>5 DEF Screen
<1>7. History!IsBoard(u, s.rev, s.view)
  BY <1>2, <1>3, <1>6, PageIsBoard
<1> HIDE DEF r, s
<1>8. screen' = [screen EXCEPT ![u] = s]
  BY <1>2 DEF s
<1>9. screen'[u] = s /\ req'[u] = r
  BY <1>3, <1>8 DEF IInv, TypeOK
<1>10. ReaderInv(u)' /\ BootInv(u)'
  BY <1>1, <1>4, <1>5, <1>6, <1>9 DEF ReaderInv, BootInv, Untouched, Reading
<1> QED BY <1>1, <1>3, <1>4, <1>6, <1>7, <1>8, <1>10, Budgets, ClientStepKeeps

LEMMA BootBeginKeeps ==
    ASSUME IInv, NEW u \in Clients, BootBegin(u)
    PROVE  IInv'
<1>1. Untouched /\ UNCHANGED <<screen, notified, listening, wake, left>>
  BY DEF BootBegin, server, feed, Untouched
<1> DEFINE r == Load(revision, Nothing)
<1>2. r \in Req /\ r.pc = "booting" /\ r.bound = revision /\ r.got = Nothing
  BY ReqTyped, NothingTyped, LoadTyped
<1>3. screen[u].rev <= revision /\ revision <= revision
  BY ReqTyped, Bounds DEF ReaderInv
<1>4. \A k \in Keys : r.got[k] = Unread
  BY <1>2, NothingTyped
<1>5. req' = [req EXCEPT ![u] = r]
  BY DEF BootBegin
<1>6. r.pc \notin Reading
  BY <1>2 DEF Reading
<1> HIDE DEF r
<1> QED BY <1>1, <1>2, <1>3, <1>4, <1>5, <1>6, Budgets, RequestStepKeeps DEF Reading

LEMMA BootReadKeeps ==
    ASSUME IInv, NEW u \in Clients, NEW k \in Keys, BootRead(u, k)
    PROVE  IInv'
<1>1. Untouched /\ UNCHANGED <<screen, notified, listening, wake, left>>
  BY DEF BootRead, server, feed, Untouched
<1> DEFINE got == [req[u].got EXCEPT ![k] = data[k]]
           r   == Load(req[u].bound, got)
<1>2. got \in [Keys -> Contents \cup {Unread}]
  BY ReqTyped DEF IInv, TypeOK
<1>3. \A j \in Keys : got[j] = IF j = k THEN data[k] ELSE req[u].got[j]
  BY ReqTyped
<1>4. r \in Req /\ r.pc = "booting" /\ r.bound = req[u].bound /\ r.got = got
  BY <1>2, ReqTyped, LoadTyped
<1>5. /\ screen[u].rev <= r.bound /\ r.bound <= revision
      /\ r.bound = revision => \A j \in Keys : r.got[j] # Unread => r.got[j] = data[j]
  BY <1>3, <1>4, ReqTyped DEF BootRead, BootInv
<1>6. req' = [req EXCEPT ![u] = r]
  BY DEF BootRead
<1>7. r.pc \notin Reading
  BY <1>4 DEF Reading
<1> HIDE DEF r, got
<1> QED BY <1>1, <1>4, <1>5, <1>6, <1>7, Budgets, RequestStepKeeps DEF Reading

LEMMA BootAgainKeeps ==
    ASSUME IInv, NEW u \in Clients, BootAgain(u)
    PROVE  IInv'
<1>1. Untouched /\ UNCHANGED <<screen, notified, listening, wake, left>>
  BY DEF BootAgain, server, feed, Untouched
<1>2. At("reset") \in Req /\ At("reset").pc = "reset"
  BY AtTyped
<1> QED BY <1>1, <1>2, Budgets, FreshRequestKeeps DEF BootAgain

\* A bootstrap framed by one revision is the board of that revision.
LEMMA BootIsBoard ==
    ASSUME IInv, NEW u \in Clients, BootEnd(u)
    PROVE  /\ Shown(u, req[u].got) \in [Keys -> Contents]
           /\ History!IsBoard(u, revision, Shown(u, req[u].got))
<1> DEFINE view == Shown(u, req[u].got)
<1>1. ASSUME NEW k \in Keys
      PROVE  view[k] = IF k \in Sees[u] THEN data[k] ELSE 0
  BY ReqTyped, Audience DEF Shown, BootEnd, AllRead, Unmoved, BootInv
<1>2. \A k \in Keys : data[k] \in Contents /\ History!IsContent(k, revision, data[k])
  BY DEF IInv, TypeOK, DataIsCurrent
<1>3. view = [k \in Keys |-> view[k]]
  BY DEF Shown
<1> HIDE DEF view
<1>4. view \in [Keys -> Contents]
  BY <1>1, <1>2, <1>3, Bounds
<1>5. History!IsBoard(u, revision, view)
  BY <1>1, <1>2 DEF History!IsBoard
<1> QED BY <1>4, <1>5 DEF view

LEMMA BootEndKeeps ==
    ASSUME IInv, NEW u \in Clients, BootEnd(u)
    PROVE  IInv'
<1>1. Untouched /\ UNCHANGED <<notified, listening, wake, left>>
  BY DEF BootEnd, server, feed, Untouched
<1> DEFINE s == [rev |-> revision, view |-> Shown(u, req[u].got)]
<1>2. s \in Screen /\ s.rev = revision /\ s.view = Shown(u, req[u].got)
  BY BootIsBoard, ReqTyped DEF Screen
<1>3. History!IsBoard(u, s.rev, s.view)
  BY <1>2, BootIsBoard
<1>4. screen' = [screen EXCEPT ![u] = s] /\ req' = [req EXCEPT ![u] = At("idle")]
  BY DEF BootEnd
<1>5. At("idle") \in Req /\ At("idle").pc = "idle"
  BY AtTyped
<1> HIDE DEF s
<1>6. screen'[u] = s /\ req'[u] = At("idle")
  BY <1>4 DEF IInv, TypeOK
<1>7. ReaderInv(u)' /\ BootInv(u)'
  BY <1>1, <1>2, <1>5, <1>6, ReqTyped, Bounds DEF ReaderInv, BootInv, Untouched, Reading
<1> QED BY <1>1, <1>2, <1>3, <1>4, <1>5, <1>7, Budgets, ClientStepKeeps

-----------------------------------------------------------------------------
(* The server's steps *)

\* Steps that touch neither the tables nor the clients.
LEMMA TablesKept ==
    ASSUME IInv, UNCHANGED <<revision, floor, log, data, wrote, req, screen>>,
           TypeOK', LockHolds'
    PROVE  IInv'
<1>1. LogComplete' /\ DataIsCurrent' /\ ViewIsPast'
  BY DEF IInv, LogComplete, DataIsCurrent, ViewIsPast, History!IsBoard, History!IsContent
<1>2. ASSUME NEW u \in Clients PROVE ReaderInv(u)' /\ BootInv(u)'
  BY ReqTyped DEF ReaderInv, BootInv
<1> QED BY <1>1, <1>2 DEF IInv

LEMMA WriteKeeps ==
    ASSUME IInv, NEW w \in Writers, NEW K \in Changes, Write(w, K)
    PROVE  IInv'
<1>1. [pc |-> "writing", keys |-> K, id |-> 0] \in Txn
  BY Bounds, ConstantsAssumption DEF Txn
<1>2. TypeOK'
  BY <1>1 DEF Write, client, feed, IInv, TypeOK
<1>3. LockHolds'
  BY DEF Write, IInv, TypeOK, LockHolds
<1> QED BY <1>2, <1>3, TablesKept DEF Write, client

LEMMA FlushKeeps ==
    ASSUME IInv, NEW w \in Writers, Flush(w)
    PROVE  IInv'
<1>1. revision + 1 \in Contents /\ txn[w].keys \in SUBSET Keys
  BY Bounds DEF Flush, IInv, TypeOK, Txn
<1>2. [pc |-> "flushed", keys |-> txn[w].keys, id |-> revision + 1] \in Txn
  BY <1>1 DEF Txn
<1>3. TypeOK'
  BY <1>2 DEF Flush, client, feed, IInv, TypeOK
<1>4. ASSUME NEW v \in Writers
      PROVE  /\ txn'[v].pc = "flushed" <=> lock' = v
             /\ txn'[v].pc = "flushed" => txn'[v].id = revision' + 1
  BY ConstantsAssumption DEF Flush, MayLock, IInv, TypeOK, LockHolds
<1> QED BY <1>3, <1>4, TablesKept DEF Flush, client, LockHolds

LEMMA RollBackKeeps ==
    ASSUME IInv, NEW w \in Writers, RollBack(w)
    PROVE  IInv'
<1>1. NoTxn \in Txn /\ NoTxn.pc = "none"
  BY Bounds DEF NoTxn, Txn
<1>2. TypeOK'
  BY <1>1 DEF RollBack, client, feed, IInv, TypeOK
<1>3. ASSUME NEW v \in Writers
      PROVE  /\ txn'[v].pc = "flushed" <=> lock' = v
             /\ txn'[v].pc = "flushed" => txn'[v].id = revision' + 1
  BY <1>1, ConstantsAssumption DEF RollBack, IInv, TypeOK, LockHolds
<1> QED BY <1>2, <1>3, TablesKept DEF RollBack, client, LockHolds

LEMMA FeedKeeps ==
    ASSUME IInv, Broadcast \/ ListenerDrops \/ ListenerReconnects
    PROVE  IInv'
<1>1. UNCHANGED <<txn, lock, revision, floor, log, data, wrote, req, screen>>
  BY DEF Broadcast, ListenerDrops, ListenerReconnects, server, client
<1>2. wake' \in [Clients -> BOOLEAN]
  BY Budgets DEF Broadcast, ListenerDrops, ListenerReconnects, WakeAll, Subscribed
<1>3. /\ notified' \in BOOLEAN /\ listening' \in BOOLEAN
      /\ left' \in [prunes : 0..MaxPrunes, drops : 0..MaxDrops]
  BY Budgets DEF Broadcast, ListenerDrops, ListenerReconnects
<1>4. TypeOK' /\ LockHolds'
  BY <1>1, <1>2, <1>3 DEF IInv, TypeOK, LockHolds
<1> QED BY <1>1, <1>4, TablesKept

LEMMA PruneKeeps ==
    ASSUME ~PruneUnderReader, IInv, NEW S \in SUBSET Ids, Prune(S)
    PROVE  IInv'
<1>1. PICK top \in Contents : IsFloor(S, top) /\ floor' = top
  BY DEF Prune
<1>2. /\ UNCHANGED <<txn, lock, revision, data, wrote, req, screen, notified, listening, wake>>
      /\ log' = [n \in Ids |-> IF n \in S THEN {} ELSE log[n]]
      /\ left' \in [prunes : 0..MaxPrunes, drops : 0..MaxDrops]
  BY Budgets DEF Prune, client, feed
<1>3. TypeOK'
  BY <1>1, <1>2 DEF IInv, TypeOK
<1>4. revision \in Nat /\ floor \in Nat /\ top \in Nat /\ floor <= revision
  BY Bounds DEF IInv, TypeOK, LogComplete
<1>5. floor <= top /\ \A n \in S : n <= top
  BY <1>1 DEF IsFloor
<1>6. LogComplete'
  <2>1. top <= revision
    <3>1. CASE top = floor
      BY <3>1, <1>4
    <3>2. CASE top \in S
      <4>1. log[top] # {} /\ top \in Ids
        BY <3>2 DEF Prune
      <4>2. top > revision => log[top] = wrote[top] /\ wrote[top] = {}
        BY <4>1, <1>4 DEF IInv, LogComplete
      <4> QED BY <4>1, <4>2, <1>4
    <3> QED BY <3>1, <3>2, <1>1 DEF IsFloor
  <2>2. ASSUME NEW n \in Ids, n > top PROVE log'[n] = wrote[n]
    <3>1. n \notin S /\ n > floor
      BY <2>2, <1>4, <1>5, Bounds
    <3> QED BY <3>1, <1>2 DEF IInv, LogComplete
  <2> QED BY <2>1, <2>2, <1>1, <1>2 DEF IInv, LogComplete
<1>7. DataIsCurrent' /\ LockHolds' /\ ViewIsPast'
  BY <1>2 DEF IInv, DataIsCurrent, LockHolds, ViewIsPast, History!IsBoard, History!IsContent
<1>8. ASSUME NEW u \in Clients PROVE ReaderInv(u)' /\ BootInv(u)'
  <2>1. req[u].pc \in Reading \ {"sampling"} => top <= screen[u].rev
    BY <1>1, ReqTyped DEF Prune, IsFloor, ReaderInv
  <2> QED BY <2>1, <1>1, <1>2, ReqTyped DEF ReaderInv, BootInv
<1> QED BY <1>3, <1>6, <1>7, <1>8 DEF IInv

\* A commit adds to the past and changes nothing of it.
LEMMA PastKept ==
    ASSUME NEW id \in Ids, NEW K, wrote \in [Ids -> SUBSET Keys],
           wrote' = [wrote EXCEPT ![id] = K],
           NEW k \in Keys, NEW r \in Nat, r < id, NEW c, History!IsContent(k, r, c)
    PROVE  History!IsContent(k, r, c)'
<1>1. c \in 0..r /\ id \in Nat /\ id <= MaxRev
  BY Bounds DEF History!IsContent
<1>2. ASSUME NEW n \in 0..r, n # 0 PROVE wrote'[n] = wrote[n]
  BY <1>1, <1>2, Bounds
<1> QED BY <1>1, <1>2 DEF History!IsContent

LEMMA CommitKeeps ==
    ASSUME IInv, NEW w \in Writers, Commit(w)
    PROVE  IInv'
<1> DEFINE id == txn[w].id
           K  == txn[w].keys
<1>1. /\ id \in Ids /\ id = revision + 1 /\ K \in SUBSET Keys
      /\ revision \in Nat /\ floor \in Nat /\ floor <= revision
  BY Bounds DEF Commit, IInv, TypeOK, Txn, LockHolds, LogComplete
<1>2. /\ revision' = id
      /\ log' = [log EXCEPT ![id] = K]
      /\ wrote' = [wrote EXCEPT ![id] = K]
      /\ data' = [k \in Keys |-> IF k \in K THEN id ELSE data[k]]
      /\ txn' = [txn EXCEPT ![w] = NoTxn] /\ lock' = NoWriter
      /\ UNCHANGED <<floor, req, screen, listening, wake, left>>
      /\ notified' = listening
  BY DEF Commit, client
<1>3. lock = w
  BY DEF Commit, IInv, LockHolds
<1> HIDE DEF id, K
<1>4. TypeOK'
  <2>1. id \in Contents
    BY <1>1, Bounds
  <2>2. NoTxn \in Txn
    BY Bounds DEF NoTxn, Txn
  <2> QED BY <1>1, <1>2, <2>1, <2>2 DEF IInv, TypeOK
<1>5. LogComplete'
  <2>1. ASSUME NEW n \in Ids
        PROVE  /\ n > floor => log'[n] = wrote'[n]
               /\ n > id => wrote'[n] = {}
    BY <1>1, <1>2, Bounds DEF IInv, TypeOK, LogComplete
  <2> QED BY <2>1, <1>1, <1>2 DEF LogComplete
<1>6. DataIsCurrent'
  <2> SUFFICES ASSUME NEW k \in Keys
               PROVE  History!IsContent(k, revision, data[k])'
    BY DEF DataIsCurrent
  <2>1. wrote'[id] = K
    BY <1>1, <1>2 DEF IInv, TypeOK
  <2>2. CASE k \in K
    <3>1. data'[k] = id /\ k \in wrote'[id] /\ id \in 0..id
      BY <2>1, <2>2, <1>1, <1>2
    <3>2. \A n \in (id + 1)..id : k \notin wrote'[n]
      BY <1>1
    <3> QED BY <3>1, <3>2, <1>2 DEF History!IsContent
  <2>3. CASE k \notin K
    <3>1. data'[k] = data[k] /\ data[k] \in Nat
      BY <2>3, <1>2, Bounds DEF IInv, TypeOK
    <3>2. History!IsContent(k, revision, data[k])
      BY DEF IInv, DataIsCurrent
    <3>3. data[k] \in 0..revision
      BY <3>2 DEF History!IsContent
    <3>4. ASSUME NEW n \in Ids, n <= revision PROVE wrote'[n] = wrote[n]
      BY <3>4, <1>1, <1>2, Bounds DEF IInv, TypeOK
    <3>5. data[k] \in 0..id /\ (data[k] # 0 => k \in wrote'[data[k]])
      BY <3>2, <3>3, <3>4, <1>1, Bounds DEF History!IsContent
    <3>6. ASSUME NEW n \in (data[k] + 1)..id PROVE k \notin wrote'[n]
      <4>1. n \in Ids /\ n \in Nat /\ n > data[k] /\ n <= id
        BY <3>1, <1>1, Bounds
      <4>2. CASE n = id
        BY <4>2, <2>1, <2>3
      <4>3. CASE n <= revision
        BY <4>1, <4>3, <3>1, <3>2, <3>4, <1>1 DEF History!IsContent
      <4> QED BY <4>1, <4>2, <4>3, <1>1
    <3> QED BY <3>1, <3>5, <3>6, <1>2 DEF History!IsContent
  <2> QED BY <2>2, <2>3
<1>7. LockHolds'
  <2>1. ASSUME NEW v \in Writers PROVE txn'[v].pc # "flushed" /\ lock' # v
    BY <1>2, <1>3, ConstantsAssumption DEF IInv, TypeOK, LockHolds, NoTxn
  <2> QED BY <2>1 DEF LockHolds
<1>8. ASSUME NEW u \in Clients PROVE ReaderInv(u)' /\ BootInv(u)'
  <2>1. ASSUME NEW n \in Ids, n <= revision PROVE wrote'[n] = wrote[n]
    BY <2>1, <1>1, <1>2, Bounds DEF IInv, TypeOK
  <2>2. ReaderInv(u)'
    <3>1. req[u].pc \in Reading => req[u].pc # "booting"
      BY DEF Reading
    <3>2. screen[u].rev <= id
      BY ReqTyped, <1>1 DEF ReaderInv
    <3>3. req[u].pc \in Reading \ {"sampling"} =>
             screen[u].rev <= req[u].bound /\ req[u].bound <= id /\ floor <= screen[u].rev
      BY ReqTyped, <1>1 DEF ReaderInv
    <3>4. req[u].pc = "paging" => req[u].bound <= revision
      BY ReqTyped DEF ReaderInv, Reading
    <3>5. req[u].pc = "paging" /\ ~req[u].more =>
             \A n \in Ids, k \in Sees[u] :
                req[u].edge < n /\ n <= req[u].bound => k \notin wrote'[n]
      BY <2>1, <3>4, ReqTyped, <1>1, Bounds DEF ReaderInv
    <3> QED BY <3>2, <3>3, <3>5, <1>2, ReqTyped DEF ReaderInv
  <2>3. BootInv(u)'
    BY ReqTyped, <1>1, <1>2 DEF BootInv
  <2> QED BY <2>2, <2>3
<1>9. ViewIsPast'
  <2> SUFFICES ASSUME NEW u \in Clients, NEW k \in Keys
               PROVE  IF k \in Sees[u]
                      THEN History!IsContent(k, screen[u].rev, screen[u].view[k])'
                      ELSE screen'[u].view[k] = 0
    BY <1>2 DEF ViewIsPast, History!IsBoard
  <2>1. IF k \in Sees[u] THEN History!IsContent(k, screen[u].rev, screen[u].view[k])
                         ELSE screen[u].view[k] = 0
    BY ReqTyped DEF History!IsBoard
  <2>2. screen[u].rev \in Nat /\ screen[u].rev < id
    BY ReqTyped, <1>1 DEF ReaderInv
  <2>3. wrote \in [Ids -> SUBSET Keys]
    BY DEF IInv, TypeOK
  <2>4. PICK r, c : r = screen[u].rev /\ c = screen[u].view[k]
    OBVIOUS
  <2>5. k \in Sees[u] => History!IsContent(k, r, c)'
    BY <2>1, <2>2, <2>3, <2>4, <1>1, <1>2, PastKept
  <2>6. r = screen'[u].rev /\ c = screen'[u].view[k]
    BY <2>4, <1>2
  <2> QED BY <2>1, <2>5, <2>6, <2>4 DEF History!IsContent
<1> QED BY <1>4, <1>5, <1>6, <1>7, <1>8, <1>9 DEF IInv

-----------------------------------------------------------------------------
(* The invariant *)

LEMMA InitIInv == Init => IInv
<1> SUFFICES ASSUME Init PROVE IInv
  OBVIOUS
<1>1. At("idle") \in Req /\ At("idle").pc = "idle"
  BY AtTyped
<1>2. [rev |-> 0, view |-> [k \in Keys |-> 0]] \in Screen /\ NoTxn \in Txn /\ NoTxn.pc = "none"
  BY Bounds DEF Screen, NoTxn, Txn
<1>3. TypeOK
  <2>1. left \in [prunes : 0..MaxPrunes, drops : 0..MaxDrops]
    BY ConstantsAssumption DEF Init
  <2>2. wake \in [Clients -> BOOLEAN] /\ notified \in BOOLEAN /\ listening \in BOOLEAN
    BY DEF Init
  <2>3. /\ txn \in [Writers -> Txn] /\ lock \in Writers \cup {NoWriter}
        /\ req \in [Clients -> Req] /\ screen \in [Clients -> Screen]
    BY <1>1, <1>2 DEF Init
  <2>4. /\ revision \in Contents /\ floor \in Contents /\ data \in [Keys -> Contents]
        /\ log \in [Ids -> SUBSET Keys] /\ wrote \in [Ids -> SUBSET Keys]
    BY Bounds DEF Init
  <2> QED BY <2>1, <2>2, <2>3, <2>4 DEF TypeOK
<1>4. LogComplete /\ LockHolds
  BY <1>2, ConstantsAssumption DEF Init, LogComplete, LockHolds
<1>5. \A k \in Keys : History!IsContent(k, 0, 0)
  BY DEF History!IsContent
<1>6. DataIsCurrent /\ ViewIsPast
  BY <1>5 DEF Init, DataIsCurrent, ViewIsPast, History!IsBoard
<1>7. ASSUME NEW u \in Clients PROVE ReaderInv(u) /\ BootInv(u)
  BY <1>1 DEF Init, ReaderInv, BootInv, Reading
<1> QED BY <1>3, <1>4, <1>6, <1>7 DEF IInv

LEMMA NextKeeps ==
    ASSUME ~PruneUnderReader, IInv, [Next]_vars
    PROVE  IInv'
<1>1. CASE UNCHANGED vars
  <2>1. TypeOK' /\ LockHolds'
    BY <1>1 DEF vars, IInv, TypeOK, LockHolds
  <2> QED BY <1>1, <2>1, TablesKept DEF vars
<1>2. ASSUME NEW w \in Writers, NEW K \in Changes, Write(w, K) PROVE IInv'
  BY <1>2, WriteKeeps
<1>3. ASSUME NEW w \in Writers, Flush(w) \/ Commit(w) \/ RollBack(w) PROVE IInv'
  BY <1>3, FlushKeeps, CommitKeeps, RollBackKeeps
<1>4. ASSUME NEW S \in SUBSET Ids, Prune(S) PROVE IInv'
  BY <1>4, PruneKeeps
<1>5. CASE Broadcast \/ ListenerDrops \/ ListenerReconnects
  BY <1>5, FeedKeeps
<1>6. ASSUME NEW u \in Clients, ClientStep(u) PROVE IInv'
  BY <1>6, StreamStepsKeep, SampleBoundsKeeps, CountBacklogKeeps, FindBoundaryKeeps,
     CheckMoreKeeps, ReadPageKeeps, BootBeginKeeps, BootReadKeeps, BootEndKeeps,
     BootAgainKeeps DEF ClientStep
<1>7. ASSUME NEW u \in Clients, Disconnect(u) PROVE IInv'
  BY <1>7, StreamStepsKeep
<1>8. ASSUME NEW u \in Clients, NEW l \in Limits, Pull(u, l) PROVE IInv'
  BY <1>8, PullKeeps
<1> QED BY <1>1, <1>2, <1>3, <1>4, <1>5, <1>6, <1>7, <1>8 DEF Next

\* IInv is an invariant: what the log, the readers between their statements and
\* the half-loaded bootstraps owe one another (flush, Prune, SyncActions).
THEOREM Invariance ==
    ASSUME ~PruneUnderReader
    PROVE  Spec => []IInv
<1>1. IInv /\ [Next]_vars => IInv'
  BY NextKeeps
<1> QED BY InitIInv, <1>1, PTL DEF Spec

\* Every variable keeps its type (the tables of the log and the requests).
THEOREM TypeCorrect ==
    ASSUME ~PruneUnderReader
    PROVE  Spec => []TypeOK
<1>1. IInv => TypeOK
  BY DEF IInv
<1> QED BY <1>1, Invariance, PTL

\* A client always shows the board as of its checkpoint, with nothing skipped
\* or overtaken, whatever route brought it there (SyncActions, bootstrap).
THEOREM NothingSkipped ==
    ASSUME ~PruneUnderReader
    PROVE  Spec => []ViewIsPast
<1>1. IInv => ViewIsPast
  BY DEF IInv
<1> QED BY <1>1, Invariance, PTL

-----------------------------------------------------------------------------
(* The log implements the history of boards *)

LEMMA CommitIsCommit ==
    ASSUME IInv, NEW w \in Writers, Commit(w)
    PROVE  History!Next
<1> DEFINE K == txn[w].keys
<1>1. K \in SUBSET Keys /\ txn[w].id = revision + 1 /\ revision < MaxRev
  BY Bounds DEF Commit, IInv, TypeOK, Txn, LockHolds
<1>2. History!Commit(K)
  BY <1>1 DEF Commit, client, History!Commit
<1> QED BY <1>1, <1>2 DEF History!Next

LEMMA NewScreenIsRefresh ==
    ASSUME IInv, UNCHANGED <<revision, wrote>>, NEW u \in Clients,
           NEW r \in Nat, screen[u].rev <= r, r <= revision,
           NEW view \in [Keys -> Contents], History!IsBoard(u, r, view),
           screen' = [screen EXCEPT ![u] = [rev |-> r, view |-> view]]
    PROVE  History!Next
<1>1. r \in screen[u].rev..revision /\ view \in [Keys -> 0..MaxRev]
  BY ReqTyped DEF Contents
<1>2. History!Refresh(u)
  BY <1>1 DEF History!Refresh
<1> QED BY <1>2 DEF History!Next

LEMMA ReadPageIsRefresh ==
    ASSUME IInv, NEW u \in Clients, ReadPage(u)
    PROVE  History!Next
<1>1. PICK view \in [Keys -> Contents] :
         /\ IsApplied(u, screen[u].rev, req[u].edge, view)
         /\ screen' = [screen EXCEPT ![u] = [rev |-> Checkpoint(req[u]), view |-> view]]
  BY DEF ReadPage
<1>2. /\ Checkpoint(req[u]) \in Nat /\ screen[u].rev <= Checkpoint(req[u])
      /\ Checkpoint(req[u]) <= revision
  BY ReqTyped, Bounds DEF ReadPage, Checkpoint, ReaderInv, Reading
<1>3. History!IsBoard(u, Checkpoint(req[u]), view)
  BY <1>1, PageIsBoard DEF ReadPage
<1>4. UNCHANGED <<revision, wrote>>
  BY DEF ReadPage, server
<1> QED BY <1>1, <1>2, <1>3, <1>4, NewScreenIsRefresh

LEMMA BootEndIsRefresh ==
    ASSUME IInv, NEW u \in Clients, BootEnd(u)
    PROVE  History!Next
<1>1. revision \in Nat /\ screen[u].rev <= revision
  BY ReqTyped DEF ReaderInv
<1>2. UNCHANGED <<revision, wrote>>
  BY DEF BootEnd, server
<1>3. revision <= revision
  BY <1>1
<1>4. screen' = [screen EXCEPT ![u] = [rev |-> revision, view |-> Shown(u, req[u].got)]]
  BY DEF BootEnd
<1> QED BY <1>1, <1>2, <1>3, <1>4, BootIsBoard, NewScreenIsRefresh

LEMMA NextImplements ==
    ASSUME IInv, [Next]_vars
    PROVE  [History!Next]_<<revision, wrote, screen>>
<1> DEFINE same == UNCHANGED <<revision, wrote, screen>>
<1>1. CASE UNCHANGED vars
  BY <1>1 DEF vars
<1>2. ASSUME NEW w \in Writers, NEW K \in Changes, Write(w, K) PROVE same
  BY <1>2 DEF Write, client
<1>3. ASSUME NEW w \in Writers, Flush(w) \/ RollBack(w) PROVE same
  BY <1>3 DEF Flush, RollBack, client
<1>4. ASSUME NEW w \in Writers, Commit(w) PROVE History!Next
  BY <1>4, CommitIsCommit
<1>5. ASSUME NEW S \in SUBSET Ids, Prune(S) PROVE same
  BY <1>5 DEF Prune, client
<1>6. CASE Broadcast \/ ListenerDrops \/ ListenerReconnects
  BY <1>6 DEF Broadcast, ListenerDrops, ListenerReconnects, server, client
<1>7. ASSUME NEW u \in Clients, ClientStep(u) PROVE same \/ History!Next
  <2>1. CASE ReadPage(u)
    BY <2>1, ReadPageIsRefresh
  <2>2. CASE BootEnd(u)
    BY <2>2, BootEndIsRefresh
  <2>3. CASE Connect(u) \/ Wake(u) \/ Heartbeat(u)
    BY <2>3 DEF Connect, Wake, Heartbeat, server
  <2>4. CASE SampleBounds(u) \/ CountBacklog(u) \/ FindBoundary(u) \/ CheckMore(u)
    BY <2>4 DEF SampleBounds, CountBacklog, FindBoundary, CheckMore, server
  <2>5. CASE BootBegin(u) \/ (\E k \in Keys : BootRead(u, k)) \/ BootAgain(u)
    BY <2>5 DEF BootBegin, BootRead, BootAgain, server
  <2> QED BY <1>7, <2>1, <2>2, <2>3, <2>4, <2>5 DEF ClientStep
<1>8. ASSUME NEW u \in Clients, Disconnect(u) PROVE same
  BY <1>8 DEF Disconnect, server
<1>9. ASSUME NEW u \in Clients, NEW l \in Limits, Pull(u, l) PROVE same
  BY <1>9 DEF Pull, server
<1> QED BY <1>1, <1>2, <1>3, <1>4, <1>5, <1>6, <1>7, <1>8, <1>9 DEF Next

\* Clients show boards of the past and only move forward, and see nothing that
\* was recorded for somebody else (SyncActions, syncEvents, bootstrap).
THEOREM Implements ==
    ASSUME ~PruneUnderReader
    PROVE  Spec => ImplementsHistory
<1>1. Init => History!Init
  BY DEF Init, History!Init, Ids
<1>2. IInv /\ [Next]_vars => [History!Next]_<<revision, wrote, screen>>
  BY NextImplements
<1> QED BY <1>1, <1>2, Invariance, PTL DEF Spec, ImplementsHistory, History!Spec

-----------------------------------------------------------------------------
(* No wake-up is lost *)

WakeFact(u) ==
    /\ req[u].pc \in Reading \ {"sampling"} /\ listening /\ req[u].bound < revision
          => wake[u] \/ notified
    /\ req[u].pc = "waiting" /\ listening /\ screen[u].rev < revision
          => wake[u] \/ notified

LEMMA WakeInvIs == WakeInv <=> (notified => listening) /\ \A u \in Streams : WakeFact(u)
BY DEF WakeInv, NoLostWakeUp, WakeFact

\* A client's step, for the streams it is not about.
LEMMA WakeKept ==
    ASSUME IInv, WakeInv, NEW u \in Clients, NEW r, req' = [req EXCEPT ![u] = r],
           NEW s, screen' = [screen EXCEPT ![u] = s],
           UNCHANGED <<revision, notified, listening>>,
           wake' = wake \/ wake' = [wake EXCEPT ![u] = FALSE],
           u \in Streams => WakeFact(u)'
    PROVE  WakeInv'
<1>1. ASSUME NEW v \in Streams, v # u PROVE WakeFact(v)'
  <2>1. v \in Clients
    BY DEF Clients
  <2>2. req'[v] = req[v] /\ screen'[v] = screen[v] /\ wake'[v] = wake[v]
    BY <1>1, <2>1 DEF IInv, TypeOK
  <2> QED BY <2>2, WakeInvIs DEF WakeFact
<1>2. notified' => listening'
  BY WakeInvIs
<1>3. WakeInv' <=> (notified' => listening') /\ \A v \in Streams : WakeFact(v)'
  BY WakeInvIs DEF WakeInv, NoLostWakeUp, WakeFact
<1> QED BY <1>1, <1>2, <1>3

\* A request that is not between two statements, and does not wait.
LEMMA WakeNotNeeded ==
    ASSUME IInv, NEW u \in Clients, NEW r \in Req, req' = [req EXCEPT ![u] = r],
           r.pc \notin (Reading \ {"sampling"}) \cup {"waiting"}
    PROVE  WakeFact(u)'
BY DEF IInv, TypeOK, WakeFact

LEMMA ClientKeepsWake ==
    ASSUME IInv, WakeInv, NEW u \in Clients, ClientStep(u)
    PROVE  WakeInv'
<1>1. Budget \in 1..Budget
  BY ConstantsAssumption
<1>2. screen' = screen => screen' = [screen EXCEPT ![u] = screen[u]]
  BY DEF IInv, TypeOK
<1>3. u \in Streams => WakeFact(u)
  BY WakeInvIs
<1>4. CASE Connect(u) \/ Wake(u) \/ Heartbeat(u)
  <2>1. req' = [req EXCEPT ![u] = Sample(Budget)] /\ screen' = screen
        /\ UNCHANGED <<revision, notified, listening>>
        /\ (wake' = wake \/ wake' = [wake EXCEPT ![u] = FALSE])
    BY <1>4 DEF Connect, Wake, Heartbeat, server, feed
  <2>2. Sample(Budget) \in Req /\ Sample(Budget).pc = "sampling"
    BY <1>1, SampleTyped
  <2> QED BY <2>1, <2>2, <1>2, WakeNotNeeded, WakeKept
<1>5. CASE SampleBounds(u)
  <2>1. UNCHANGED <<screen, revision, notified, listening, wake>>
    BY <1>5 DEF SampleBounds, server, feed
  <2> DEFINE r == req'[u]
  <2>2. req' = [req EXCEPT ![u] = r]
    BY <1>5 DEF SampleBounds, IInv, TypeOK
  <2>3. r = At("reset") \/ r = Ask("counting", revision, 0, FALSE, req[u].limit)
    BY <1>5 DEF SampleBounds, IInv, TypeOK
  <2>4. r.pc = "reset" \/ (r.pc = "counting" /\ r.bound = revision)
    BY <2>3 DEF At, Ask
  <2>5. WakeFact(u)'
    BY <2>1, <2>4, ReqTyped DEF WakeFact, Reading
  <2> HIDE DEF r
  <2> QED BY <2>1, <2>2, <2>5, <1>2, WakeKept
<1>6. CASE CountBacklog(u) \/ FindBoundary(u) \/ CheckMore(u)
  <2>1. UNCHANGED <<screen, revision, notified, listening, wake>>
    BY <1>6 DEF CountBacklog, FindBoundary, CheckMore, server, feed
  <2> DEFINE r == req'[u]
  <2>2. req' = [req EXCEPT ![u] = r]
    BY <1>6 DEF CountBacklog, FindBoundary, CheckMore, IInv, TypeOK
  <2>3. r.pc = "reset" \/ (r.bound = req[u].bound /\ r.pc \in {"bounding", "checking", "paging"})
    <3>1. CASE CountBacklog(u)
      BY <3>1 DEF CountBacklog, IInv, TypeOK, At, Ask
    <3>2. CASE FindBoundary(u)
      BY <3>2 DEF FindBoundary, IInv, TypeOK, Ask
    <3>3. CASE CheckMore(u)
      BY <3>3 DEF CheckMore, IInv, TypeOK, Ask
    <3> QED BY <1>6, <3>1, <3>2, <3>3
  <2>4. req[u].pc \in Reading \ {"sampling"}
    BY <1>6 DEF CountBacklog, FindBoundary, CheckMore, Reading
  <2>5. u \in Streams => WakeFact(u)'
    BY <2>1, <2>3, <2>4, <1>3 DEF WakeFact, Reading
  <2> HIDE DEF r
  <2> QED BY <2>1, <2>2, <2>5, <1>2, WakeKept
<1>7. CASE ReadPage(u)
  <2>1. UNCHANGED <<revision, notified, listening, wake>>
    BY <1>7 DEF ReadPage, server, feed
  <2>2. PICK view : screen' = [screen EXCEPT ![u] =
                                  [rev |-> Checkpoint(req[u]), view |-> view]]
    BY <1>7 DEF ReadPage
  <2>3. req' = [req EXCEPT ![u] = AfterPage(u)] /\ req[u].pc = "paging"
    BY <1>7 DEF ReadPage
  <2>4. req'[u] = AfterPage(u) /\ screen'[u].rev = Checkpoint(req[u])
    BY <2>2, <2>3 DEF IInv, TypeOK
  <2>5. AfterPage(u).pc \notin Reading \ {"sampling"}
    BY DEF AfterPage, Sample, At, Ask, Reading
  <2>6. AfterPage(u).pc = "waiting" => Checkpoint(req[u]) = req[u].bound
    BY DEF AfterPage, Sample, At, Ask, Checkpoint
  <2>7. u \in Streams => WakeFact(u)'
    BY <2>1, <2>3, <2>4, <2>5, <2>6, <1>3 DEF WakeFact, Reading
  <2> QED BY <2>1, <2>2, <2>3, <2>7, WakeKept
<1>8. CASE BootBegin(u) \/ (\E k \in Keys : BootRead(u, k)) \/ BootAgain(u)
  <2>1. UNCHANGED <<screen, revision, notified, listening, wake>>
    BY <1>8 DEF BootBegin, BootRead, BootAgain, server, feed
  <2> DEFINE r == req'[u]
  <2>2. req' = [req EXCEPT ![u] = r]
    BY <1>8 DEF BootBegin, BootRead, BootAgain, IInv, TypeOK
  <2>3. r.pc \in {"booting", "reset"}
    BY <1>8 DEF BootBegin, BootRead, BootAgain, IInv, TypeOK, Load, At, Ask
  <2>4. WakeFact(u)'
    BY <2>3 DEF WakeFact, Reading
  <2> HIDE DEF r
  <2> QED BY <2>1, <2>2, <2>4, <1>2, WakeKept
<1>9. CASE BootEnd(u)
  <2>1. UNCHANGED <<revision, notified, listening, wake>>
    BY <1>9 DEF BootEnd, server, feed
  <2>2. req' = [req EXCEPT ![u] = At("idle")]
        /\ screen' = [screen EXCEPT ![u] = [rev |-> revision, view |-> Shown(u, req[u].got)]]
    BY <1>9 DEF BootEnd
  <2>3. At("idle") \in Req /\ At("idle").pc = "idle"
    BY AtTyped
  <2>4. At("idle").pc \notin (Reading \ {"sampling"}) \cup {"waiting"}
    BY <2>3 DEF Reading
  <2> QED BY <2>1, <2>2, <2>3, <2>4, WakeNotNeeded, WakeKept
<1> QED BY <1>4, <1>5, <1>6, <1>7, <1>8, <1>9 DEF ClientStep

LEMMA NextKeepsWake ==
    ASSUME ~QuietReconnect, IInv, WakeInv, [Next]_vars
    PROVE  WakeInv'
<1>1. WakeInv' <=> (notified' => listening') /\ \A u \in Streams : WakeFact(u)'
  BY WakeInvIs DEF WakeInv, NoLostWakeUp, WakeFact
<1>2. (notified => listening) /\ \A u \in Streams : WakeFact(u)
  BY WakeInvIs
<1>3. CASE UNCHANGED <<req, screen, revision, notified, listening, wake>>
  BY <1>1, <1>2, <1>3 DEF WakeFact
<1>4. ASSUME NEW w \in Writers, Commit(w) PROVE WakeInv'
  BY <1>1, <1>4 DEF Commit, WakeFact
<1>5. CASE Broadcast \/ ListenerReconnects
  <2>1. \A u \in Streams : u \in Clients
    BY DEF Clients
  <2>2. wake' = [u \in Clients |-> Subscribed(u)] /\ req' = req
    BY <1>5 DEF Broadcast, ListenerReconnects, WakeAll, client
  <2>3. notified' => listening'
    BY <1>5, <1>2 DEF Broadcast, ListenerReconnects
  <2> QED BY <1>1, <2>1, <2>2, <2>3 DEF WakeFact, Subscribed
<1>6. CASE ListenerDrops
  BY <1>1, <1>6 DEF ListenerDrops, WakeFact
<1>7. ASSUME NEW u \in Clients, ClientStep(u) PROVE WakeInv'
  BY <1>7, ClientKeepsWake
<1>8. ASSUME NEW u \in Clients, Disconnect(u) PROVE WakeInv'
  <2>1. req' = [req EXCEPT ![u] = At("idle")]
        /\ UNCHANGED <<screen, revision, notified, listening, wake>>
    BY <1>8 DEF Disconnect, server, feed
  <2>2. At("idle") \in Req /\ At("idle").pc \notin (Reading \ {"sampling"}) \cup {"waiting"}
    BY AtTyped DEF Reading
  <2>3. screen' = [screen EXCEPT ![u] = screen[u]]
    BY <2>1 DEF IInv, TypeOK
  <2> QED BY <2>1, <2>2, <2>3, WakeNotNeeded, WakeKept
<1>9. ASSUME NEW u \in Clients, NEW l \in Limits, Pull(u, l) PROVE WakeInv'
  <2>1. req' = [req EXCEPT ![u] = Sample(l)]
        /\ UNCHANGED <<screen, revision, notified, listening, wake>>
    BY <1>9 DEF Pull, server, feed
  <2>2. Sample(l) \in Req /\ Sample(l).pc \notin (Reading \ {"sampling"}) \cup {"waiting"}
    BY SampleTyped, ConstantsAssumption
  <2>3. screen' = [screen EXCEPT ![u] = screen[u]]
    BY <2>1 DEF IInv, TypeOK
  <2> QED BY <2>1, <2>2, <2>3, WakeNotNeeded, WakeKept
<1>10. ASSUME NEW w \in Writers,
              (\E K \in Changes : Write(w, K)) \/ Flush(w) \/ RollBack(w)
       PROVE  UNCHANGED <<req, screen, revision, notified, listening, wake>>
  BY <1>10 DEF Write, Flush, RollBack, client, feed
<1>11. ASSUME NEW S \in SUBSET Ids, Prune(S)
       PROVE  UNCHANGED <<req, screen, revision, notified, listening, wake>>
  BY <1>11 DEF Prune, client, feed
<1>12. CASE UNCHANGED vars
  BY <1>3, <1>12 DEF vars
<1> QED BY <1>3, <1>4, <1>5, <1>6, <1>7, <1>8, <1>9, <1>10, <1>11, <1>12 DEF Next

\* While the listener is up a stream that waits for a wake-up has read the whole
\* log or will be woken (SubscribeRevisions, broadcastRevision, syncEvents).
THEOREM NoWakeUpLost ==
    ASSUME ~PruneUnderReader, ~QuietReconnect
    PROVE  Spec => []NoLostWakeUp
<1>1. Init => WakeInv
  <2>1. At("idle").pc = "idle"
    BY AtTyped
  <2> QED BY <2>1 DEF Init, WakeInv, NoLostWakeUp, Reading, Clients
<1>2. IInv /\ WakeInv /\ [Next]_vars => WakeInv'
  BY NextKeepsWake
<1>3. WakeInv => NoLostWakeUp
  BY DEF WakeInv
<1> QED BY <1>1, <1>2, <1>3, Invariance, PTL DEF Spec

=============================================================================
