--------------------------- MODULE CardOpsProofs ---------------------------
(***************************************************************************)
(* The safety invariants of CardOps hold for every number of operations,   *)
(* issues and workers and every budget of failures.  IInv is inductive:    *)
(* one lemma per action of Next, and under it one step per conjunct.       *)
(***************************************************************************)
EXTENDS CardOps, TLAPS

\* Temporary keys are negative, GitLab's are positive, zero is neither.
LEMMA Keys ==
    /\ OpIds \subseteq Nat \ {0} /\ Issues \subseteq Nat \ {0}
    /\ Issues \subseteq Iids /\ NoIid \notin Iids /\ NoOp \notin OpIds
    /\ \A o \in OpIds : -o \in Iids /\ -o \notin Issues /\ -o < 0
    /\ \A o, p \in OpIds : -o = -p => o = p
    /\ \A i \in Iids : i \in Int /\ (i > 0 => i \in Issues)
                       /\ (i \notin Issues => \E o \in OpIds : i = -o)
BY ConstantsAssumption, SMT DEF OpIds, Issues, Iids, Temps, NoIid, NoOp

LEMMA Types ==
    ASSUME IInv
    PROVE  /\ ops \in [OpIds -> Op] /\ rows \in [Iids -> Row] /\ gl \in [Issues -> Issue]
           /\ worker \in [Workers -> Worker] /\ read \in Answer
           /\ opCount \in Nat /\ 1..opCount \subseteq OpIds
BY ConstantsAssumption DEF IInv, TypeOK, OpIds

\* What a worker remembers stays true as long as kinds do not change, operations keep
\* their card or lose it, and nothing returns from deletion.
History ==
    /\ opCount \in Nat /\ opCount' \in Nat /\ opCount <= opCount'
    /\ reached \subseteq reached'
    /\ \A i \in Issues : gl[i].st = "gone" => gl'[i].st = "gone"
    /\ \A p \in 1..opCount :
          /\ ops'[p].kind = ops[p].kind
          /\ ops[p].iid \in Issues \cup {NoIid} => ops'[p].iid \in {ops[p].iid, NoIid}

LEMMA WorkerKept ==
    ASSUME NEW w \in Workers, WorkerFacts(w), worker'[w] = worker[w], History
    PROVE  WorkerFacts(w)'
<1> DEFINE k == worker[w]
<1>1. CASE k.pc = "idle"
    BY <1>1 DEF WorkerFacts
<1>2. CASE k.pc # "idle"
  <2>1. Claimed(k) /\ worker'[w] = k
      BY <1>2 DEF WorkerFacts
  <2>2. k.op \in 1..opCount /\ k.op \in 1..opCount' /\ ops'[k.op].kind = ops[k.op].kind
      BY <2>1 DEF Claimed, History
  <2>3. Claimed(k)'
      BY <2>1, <2>2 DEF Claimed, History
  <2>4. k.pc = "answered" => Told(k)'
      BY <1>2, <2>1, <2>2 DEF WorkerFacts, Told, Claimed, History
  <2> QED
      BY <2>1, <2>3, <2>4 DEF WorkerFacts, Claimed, Told
<1> QED
    BY <1>1, <1>2

LEMMA InitIInv == Init => IInv
<1> SUFFICES ASSUME Init PROVE IInv
    OBVIOUS
<1> USE Keys, ConstantsAssumption DEF Init
<1>1. TypeOK
    BY DEF TypeOK, Op, Row, NoRow, Issue, Answer, NoAnswer, Worker, Idle, OpStates, Kinds,
           Content, NoIid, NoOp
<1>2. OpsNameRows /\ Numbering /\ CreateKeys
    BY DEF OpsNameRows, Numbering, CreateKeys
<1>3. ChipTruth
    BY DEF ChipTruth, Truthful, NoRow
<1>4. TempRows
    BY DEF TempRows, Present, NoRow
<1>5. WorkerInv
    BY DEF WorkerInv, WorkerFacts, Idle
<1>6. SyncedReached /\ DeletedIsGone
    BY DEF SyncedReached, DeletedIsGone
<1> QED
    BY <1>1, <1>2, <1>3, <1>4, <1>5, <1>6 DEF IInv

\* What CreateCard, UpdateCard and DeleteCard have in common: a new operation becomes
\* the current one of a card.
Submitted(o, i, kind) ==
    /\ o = opCount + 1 /\ o \in OpIds /\ opCount' = o
    /\ i \in Iids /\ kind \in Kinds
    /\ kind = "create" => i = -o
    /\ kind # "create" => Present(i)
    /\ kind = "delete" => i \in Issues
    /\ \E at \in Stamps :
          /\ ops' = [ops EXCEPT ![o] = NewOp(kind, i, at)]
          /\ i \in Issues /\ Overtakes(i, at) => i \in late'
    /\ late \subseteq late' /\ late' \subseteq Issues
    /\ \E r \in Row : /\ r.sync = "pending" /\ r.ptr = o
                      /\ kind # "create" => r.ver = rows[i].ver
                      /\ kind # "delete" => r.val = o
                      /\ rows' = [rows EXCEPT ![i] = r]
    /\ UNCHANGED <<gl, worker, read, reached, deleted, budget>>

LEMMA SubmittedStep ==
    ASSUME IInv, NEW o, NEW i, NEW kind, Submitted(o, i, kind)
    PROVE  IInv'
<1> USE Keys
<1>c. PICK at \in Stamps : ops' = [ops EXCEPT ![o] = NewOp(kind, i, at)]
    BY DEF Submitted
<1>d. o = opCount + 1 /\ o \in OpIds /\ i \in Iids
    BY DEF Submitted
<1>0. /\ o \in OpIds /\ ops[o].iid = NoIid
      /\ i \in Iids /\ i # NoIid /\ opCount \in Nat
      /\ ops \in [OpIds -> Op] /\ rows \in [Iids -> Row]
      /\ ops' = [ops EXCEPT ![o] = NewOp(kind, i, at)]
    BY <1>c, <1>d DEF IInv, TypeOK, Numbering, OpIds
<1>a. NewOp(kind, i, at) \in Op
    BY <1>0 DEF Submitted, NewOp, Op, OpStates, Stamps, OpIds
<1>b. \A k \in Iids : rows[k].ptr # o
    BY <1>0 DEF IInv, ChipTruth, Truthful, Row, NoOp
<1>1. PICK r \in Row : r.sync = "pending" /\ r.ptr = o /\ rows' = [rows EXCEPT ![i] = r]
    BY DEF Submitted
<1>2. TypeOK'
    BY <1>0, <1>a, <1>b, <1>1 DEF IInv, TypeOK, Submitted, OpIds
<1>3. OpsNameRows'
    BY <1>0, <1>a, <1>b, <1>1 DEF IInv, NewOp, OpsNameRows, Present, Op, Row
<1>4. ChipTruth'
    BY <1>0, <1>a, <1>b, <1>1 DEF IInv, NewOp, ChipTruth, Truthful, Unfinished, Row, Op
<1>5. Numbering'
    BY <1>0, <1>a DEF IInv, Submitted, Numbering, Op, OpIds
<1>6. CreateKeys'
    BY <1>0, <1>a DEF IInv, Submitted, NewOp, CreateKeys, Op
<1>7. TempRows'
    BY <1>0, <1>a, <1>b, <1>1 DEF IInv, Submitted, NewOp, TempRows, Present, Op, Row
<1>8. WorkerInv'
  <2>1. History
      BY <1>0, <1>a, Types DEF Submitted, History, NewOp, OpIds
  <2> QED
      BY <2>1, WorkerKept DEF IInv, WorkerInv, Submitted
<1>9. (SyncedReached /\ DeletedIsGone)'
    BY <1>0, <1>a DEF IInv, Submitted, NewOp, SyncedReached, DeletedIsGone, Op
<1> QED
    BY <1>2, <1>3, <1>4, <1>5, <1>6, <1>7, <1>8, <1>9 DEF IInv

LEMMA EnqueueJoins ==
    ASSUME IInv, NEW i, NEW kind, Enqueue(kind, i)
    PROVE  /\ late \subseteq late' /\ late' \subseteq Issues
           /\ \E at \in Stamps : /\ ops' = [ops EXCEPT ![opCount + 1] = NewOp(kind, i, at)]
                                 /\ i \in Issues /\ Overtakes(i, at) => i \in late'
<1>1. PICK at \in Stamps :
        /\ ops' = [ops EXCEPT ![opCount + 1] = NewOp(kind, i, at)]
        /\ late' = IF Overtakes(i, at) THEN late \cup ({i} \cap Issues) ELSE late
    BY DEF Enqueue
<1>2. late \subseteq Issues
    BY DEF IInv, TypeOK
<1> QED
    BY <1>1, <1>2

LEMMA MutationSubmits ==
    ASSUME IInv, Mutation
    PROVE  \E o, i, kind : Submitted(o, i, kind)
<1> DEFINE o == opCount + 1
<1>1. CASE CreateCard
  <2>1. o \in OpIds /\ Queued(NoRow, o, o) \in Row
      BY <1>1 DEF CreateCard, Queued, NoRow, Row, Content, OpIds
  <2>2. Submitted(o, -o, "create")
      BY <2>1, <1>1, Keys DEF CreateCard, Submitted, Queued, Kinds, IInv, TypeOK
  <2> QED
      BY <2>2
<1>2. ASSUME NEW i \in Iids, UpdateCard(i) PROVE Submitted(o, i, "update")
  <2>1. o \in OpIds /\ o \in Content /\ rows[i] \in Row
      BY <1>2 DEF UpdateCard, IInv, TypeOK, Content, OpIds
  <2>2. Queued(rows[i], o, o) \in Row
      BY <2>1 DEF Queued, Row
  <2>3. /\ late \subseteq late' /\ late' \subseteq Issues
        /\ \E at \in Stamps : /\ ops' = [ops EXCEPT ![o] = NewOp("update", i, at)]
                              /\ i \in Issues /\ Overtakes(i, at) => i \in late'
      BY <1>2, EnqueueJoins DEF UpdateCard
  <2> QED
      BY <1>2, <2>1, <2>2, <2>3 DEF UpdateCard, Submitted, Queued, Kinds
<1>3. ASSUME NEW i \in Iids, DeleteCard(i) PROVE Submitted(o, i, "delete")
  <2>1. o \in OpIds /\ rows[i] \in Row
      BY <1>3 DEF DeleteCard, IInv, TypeOK
  <2>2. Queued(rows[i], o, rows[i].val) \in Row
      BY <2>1 DEF Queued, Row
  <2>3. /\ late \subseteq late' /\ late' \subseteq Issues
        /\ \E at \in Stamps : /\ ops' = [ops EXCEPT ![o] = NewOp("delete", i, at)]
                              /\ i \in Issues /\ Overtakes(i, at) => i \in late'
      BY <1>3, EnqueueJoins DEF DeleteCard
  <2> QED
      BY <1>3, <2>1, <2>2, <2>3 DEF DeleteCard, Submitted, Queued, Kinds, Present
<1> QED
    BY <1>1, <1>2, <1>3 DEF Mutation

LEMMA RetryOperationStep == ASSUME IInv, NEW o \in OpIds, RetryOperation(o) PROVE IInv'
<1> USE Keys
<1> DEFINE i == ops[o].iid
<1>a. ops \in [OpIds -> Op] /\ rows \in [Iids -> Row]
    BY DEF IInv, TypeOK
<1>b. ops' = [ops EXCEPT ![o] = Marked(ops[o], "pending", FALSE)] /\ ops[o].state = "failed"
    BY DEF RetryOperation
<1>c. i \in Iids \cup {NoIid} /\ (i # NoIid => i \in Iids /\ Present(i))
    BY <1>a DEF RetryOperation, Op
<1>0. /\ ops' \in [OpIds -> Op] /\ ops'[o].state = "pending"
      /\ \A p \in OpIds : /\ ops'[p].iid = ops[p].iid /\ ops'[p].kind = ops[p].kind
                          /\ (p # o => ops'[p].state = ops[p].state)
    BY <1>a, <1>b DEF Marked, Op, OpStates
<1>d. UNCHANGED <<opCount, gl, worker, read, reached, deleted, late>>
    BY DEF RetryOperation
<1>1. /\ rows' \in [Iids -> Row]
      /\ \A k \in Iids : k # i => rows'[k] = rows[k]
      /\ (i # NoIid => rows'[i].sync = "pending" /\ rows'[i].ptr = o)
    BY <1>a, <1>b, <1>c, <1>0 DEF RetryOperation, Queued, Row
<1>2. budget' \in [fault : Nat, retry : Nat, ext : Nat]
    BY DEF IInv, TypeOK, RetryOperation
<1>3. TypeOK'
    BY <1>a, <1>b, <1>c, <1>0, <1>d, <1>1, <1>2 DEF IInv, TypeOK
<1>4. OpsNameRows'
  <2> SUFFICES ASSUME NEW p \in OpIds, ops'[p].iid # NoIid PROVE Present(ops[p].iid)'
      BY DEF OpsNameRows
  <2>1. ops'[p].iid = ops[p].iid /\ ops[p].iid \in Iids /\ Present(ops[p].iid)
      BY <1>a, <1>0 DEF IInv, OpsNameRows, Op
  <2> QED
      BY <2>1, <1>1 DEF Present
<1>5. ChipTruth'
  <2> SUFFICES ASSUME NEW k \in Iids PROVE Truthful(k)'
      BY DEF ChipTruth
  <2>1. rows[k] \in Row
      BY <1>a
  <2>2. CASE k = i
      BY <2>2, <1>c, <1>0, <1>1, Keys DEF Truthful, Unfinished
  <2>3. CASE k # i
    <3>1. rows'[k] = rows[k] /\ (rows[k].ptr # NoOp => rows[k].ptr \in OpIds)
        BY <2>3, <2>1, <1>1 DEF Row
    <3>2. rows[k].sync \in {"pending", "failed"} => rows[k].ptr # o
        BY <2>3 DEF IInv, ChipTruth, Truthful
    <3> QED
        BY <3>1, <3>2, <1>0 DEF IInv, ChipTruth, Truthful, Unfinished
  <2> QED
      BY <2>2, <2>3
<1>6. (Numbering /\ CreateKeys)'
    BY <1>b, <1>d, <1>0 DEF IInv, Numbering, CreateKeys
<1>7. TempRows'
    BY <1>0, <1>1, <1>c DEF IInv, TempRows, Present
<1>8. WorkerInv'
  <2>1. History
      BY <1>0, <1>d, Types DEF History
  <2> QED
      BY <2>1, <1>d, WorkerKept DEF IInv, WorkerInv
<1>9. (SyncedReached /\ DeletedIsGone)'
    BY <1>a, <1>b, <1>d, <1>0 DEF IInv, SyncedReached, DeletedIsGone
<1> QED
    BY <1>3, <1>4, <1>5, <1>6, <1>7, <1>8, <1>9 DEF IInv

LEMMA ChipKept ==
    ASSUME IInv, rows' = rows,
           \A p \in OpIds : /\ ops'[p].iid = ops[p].iid
                            /\ Unfinished(p) => Unfinished(p)'
                            /\ ops[p].state = "failed" => ops'[p].state = "failed"
    PROVE  ChipTruth'
<1> SUFFICES ASSUME NEW i \in Iids PROVE Truthful(i)'
    BY DEF ChipTruth
<1>1. rows[i] \in Row
    BY Types
<1> QED
    BY <1>1 DEF IInv, ChipTruth, Truthful, Row

LEMMA NoAnswerType == NoAnswer \in Answer /\ Idle \in Worker
BY ConstantsAssumption DEF NoAnswer, Answer, Content, Idle, Worker

LEMMA LeaseLapsesStep == ASSUME IInv, NEW o \in OpIds, LeaseLapses(o) PROVE IInv'
<1> USE Keys, Types
<1>1. UNCHANGED <<opCount, rows, gl, worker, read, reached, deleted, late, budget>>
    BY DEF LeaseLapses
<1>2. /\ ops' \in [OpIds -> Op]
      /\ \A p \in OpIds : /\ ops'[p].iid = ops[p].iid /\ ops'[p].kind = ops[p].kind
                          /\ ops'[p].state = ops[p].state
    BY DEF LeaseLapses, Marked, Op, OpStates
<1>3. TypeOK' /\ OpsNameRows' /\ Numbering' /\ CreateKeys' /\ TempRows'
    BY <1>1, <1>2 DEF IInv, TypeOK, OpsNameRows, Numbering, CreateKeys, TempRows, Present
<1>4. ChipTruth'
    BY <1>1, <1>2, ChipKept DEF Unfinished
<1>5. WorkerInv'
  <2>1. History
      BY <1>1, <1>2 DEF History
  <2> QED
      BY <2>1, <1>1, WorkerKept DEF IInv, WorkerInv
<1>6. SyncedReached' /\ DeletedIsGone'
    BY <1>1, <1>2 DEF IInv, SyncedReached, DeletedIsGone
<1> QED
    BY <1>3, <1>4, <1>5, <1>6 DEF IInv

LEMMA ClaimOperationStep == ASSUME IInv, NEW w \in Workers, ClaimOperation(w) PROVE IInv'
<1> USE Keys, Types
<1>1. PICK o \in OpIds :
        /\ Claimable(o) /\ ops[o].iid # NoIid
        /\ ops' = [ops EXCEPT ![o] = Marked(ops[o], "processing", FALSE)]
        /\ worker' = [worker EXCEPT ![w] =
                        [pc |-> "calling", op |-> o, iid |-> ops[o].iid, ans |-> NoAnswer]]
    BY DEF ClaimOperation
<1>2. UNCHANGED <<opCount, rows, gl, read, reached, deleted, late, budget>>
    BY DEF ClaimOperation
<1>3. /\ ops' \in [OpIds -> Op] /\ ops'[o].state = "processing"
      /\ ops[o].state \in {"pending", "processing"}
      /\ \A p \in OpIds : /\ ops'[p].iid = ops[p].iid /\ ops'[p].kind = ops[p].kind
                          /\ (p # o => ops'[p].state = ops[p].state)
    BY <1>1 DEF Marked, Op, OpStates, Claimable
<1>4. ops[o].iid \in Iids /\ o \in 1..opCount /\ (ops[o].kind = "create" \/ ops[o].iid \in Issues)
  <2>1. ops[o].iid \in Iids
      BY <1>1 DEF Op
  <2>2. o \in 1..opCount
      BY <1>1 DEF Claimable, OpIds
  <2>3. ops[o].kind = "create" \/ ops[o].iid \in Issues
      BY <2>1, <1>1 DEF Claimable
  <2> QED
      BY <2>1, <2>2, <2>3
<1>5. worker' \in [Workers -> Worker]
    BY <1>1, <1>4, NoAnswerType DEF Worker
<1>6. TypeOK' /\ OpsNameRows' /\ Numbering' /\ TempRows'
    BY <1>2, <1>3, <1>5 DEF IInv, TypeOK, OpsNameRows, Numbering, TempRows, Present
<1>7. ChipTruth'
    BY <1>2, <1>3, ChipKept DEF Unfinished
<1>8. CreateKeys'
    BY <1>3 DEF IInv, CreateKeys
<1>9. WorkerInv'
  <2> SUFFICES ASSUME NEW v \in Workers PROVE WorkerFacts(v)'
      BY DEF WorkerInv
  <2>1. History
      BY <1>2, <1>3 DEF History
  <2>2. CASE v # w
      BY <2>1, <2>2, <1>1, WorkerKept DEF IInv, WorkerInv
  <2>3. CASE v = w
    <3>1. ops[o].kind = "create" => ops[o].iid = -o
        BY <1>1, <1>3, <1>4 DEF IInv, CreateKeys
    <3>2. /\ worker'[v].pc = "calling" /\ worker'[v].op = o /\ worker'[v].iid = ops[o].iid
          /\ ops'[o].kind = ops[o].kind /\ ops'[o].iid = ops[o].iid
        BY <2>3, <1>1, <1>3
    <3>3. Claimed(worker[v])'
        BY <3>1, <3>2, <1>2, <1>4 DEF Claimed
    <3> QED
        BY <3>2, <3>3 DEF WorkerFacts
  <2> QED
      BY <2>2, <2>3
<1>10. SyncedReached' /\ DeletedIsGone'
    BY <1>2, <1>3 DEF IInv, SyncedReached, DeletedIsGone
<1> QED
    BY <1>6, <1>7, <1>8, <1>9, <1>10 DEF IInv

\* Steps that touch neither table: GitLab is called, or a worker gives up.
GitLabMoves ==
    /\ gl' \in [Issues -> Issue]
    /\ \A i \in Issues : gl[i].st = "gone" => gl'[i].st = "gone"

LEMMA TablesUntouched ==
    ASSUME IInv, GitLabMoves, WorkerInv', worker' \in [Workers -> Worker],
           read' \in Answer, budget' \in [fault : Nat, retry : Nat, ext : Nat],
           reached \subseteq reached', reached' \subseteq OpIds,
           UNCHANGED <<ops, opCount, rows, deleted, late>>
    PROVE  IInv'
<1>1. TypeOK' /\ OpsNameRows' /\ Numbering' /\ CreateKeys' /\ TempRows'
    BY DEF IInv, TypeOK, OpsNameRows, Numbering, CreateKeys, TempRows, Present, GitLabMoves
<1>2. ChipTruth'
    BY DEF IInv, ChipTruth, Truthful, Unfinished
<1>3. SyncedReached' /\ DeletedIsGone'
    BY DEF IInv, TypeOK, SyncedReached, DeletedIsGone, GitLabMoves
<1> QED
    BY <1>1, <1>2, <1>3 DEF IInv

\* The worker that moves either forgets its claim or learns something about it.
LEMMA OneWorkerMoves ==
    ASSUME IInv, GitLabMoves, NEW w \in Workers, NEW k \in Worker,
           worker' = [worker EXCEPT ![w] = k],
           k.pc # "idle" => (/\ worker[w].pc # "idle"
                             /\ k.op = worker[w].op /\ k.iid = worker[w].iid),
           k.pc = "answered" => Told(k)',
           reached \subseteq reached', UNCHANGED <<ops, opCount>>
    PROVE  WorkerInv' /\ worker' \in [Workers -> Worker]
<1> USE Types
<1>1. worker' \in [Workers -> Worker]
    OBVIOUS
<1>2. History
    BY DEF History, GitLabMoves
<1>3. ASSUME NEW v \in Workers PROVE WorkerFacts(v)'
  <2>1. CASE v # w
      BY <2>1, <1>2, WorkerKept DEF IInv, WorkerInv
  <2>2. CASE v = w
    <3>1. worker'[v] = k
        BY <2>2
    <3>2. k.pc # "idle" => Claimed(k)
        BY DEF IInv, WorkerInv, WorkerFacts, Claimed
    <3> QED
        BY <3>1, <3>2 DEF WorkerFacts, Claimed, Told
  <2> QED
      BY <2>1, <2>2
<1> QED
    BY <1>1, <1>3 DEF WorkerInv

LEMMA FailingMoves ==
    ASSUME IInv, GitLabMoves, NEW w \in Workers, worker[w].pc # "idle",
           worker' = [worker EXCEPT ![w] = Failing(worker[w])],
           reached \subseteq reached', UNCHANGED <<ops, opCount>>
    PROVE  WorkerInv' /\ worker' \in [Workers -> Worker]
<1>1. Failing(worker[w]) \in Worker
    BY Types, NoAnswerType DEF Failing, Worker
<1>2. PICK k \in Worker : /\ worker' = [worker EXCEPT ![w] = k]
                          /\ k.pc = "failing" /\ k.op = worker[w].op /\ k.iid = worker[w].iid
    BY <1>1 DEF Failing
<1> QED
    BY <1>2, OneWorkerMoves

LEMMA IdleMoves ==
    ASSUME IInv, GitLabMoves, NEW w \in Workers, worker' = [worker EXCEPT ![w] = Idle],
           reached \subseteq reached', UNCHANGED <<ops, opCount>>
    PROVE  WorkerInv' /\ worker' \in [Workers -> Worker]
<1>1. PICK k \in Worker : worker' = [worker EXCEPT ![w] = k] /\ k.pc = "idle"
    BY NoAnswerType DEF Idle
<1> QED
    BY <1>1, OneWorkerMoves

LEMMA EffectOnGitLab ==
    ASSUME IInv, NEW o \in OpIds, NEW i \in Issues, Effect(o, i)
    PROVE  /\ GitLabMoves
           /\ Saw(i)' \in Answer
           /\ ops[o].kind = "delete" => gl'[i].st = "gone"
<1> USE Types, Keys
<1>1. o \in Content /\ 0 \in Content /\ Content \subseteq Nat
    BY ConstantsAssumption DEF Content, OpIds
<1>2. PICK g \in Issue : /\ gl' = [gl EXCEPT ![i] = g]
                         /\ gl[i].st = "gone" => g.st = "gone"
                         /\ ops[o].kind = "delete" => g.st = "gone"
  <2>1. CASE ops[o].kind = "create"
      BY <2>1, <1>1 DEF Effect, Issue
  <2>2. CASE ops[o].kind = "update"
      BY <2>2, <1>1 DEF Effect, Issue
  <2>3. CASE ops[o].kind = "delete"
    <3>1. gl' = [gl EXCEPT ![i] = Gone(gl[i])] /\ Gone(gl[i]) \in Issue
        BY <2>3 DEF Effect, Issue, Gone
    <3> QED
        BY <3>1 DEF Gone
  <2> QED
      BY <2>1, <2>2, <2>3 DEF Effect
<1>3. GitLabMoves
    BY <1>2 DEF GitLabMoves
<1>4. gl'[i] \in Issue
    BY <1>2
<1>5. Saw(i)' \in Answer
    BY <1>4 DEF Saw, Answer, Issue
<1> QED
    BY <1>2, <1>3, <1>5

\* Where a call is addressed: a create to any issue number, any other to its claim's card.
LEMMA TargetIsIssue ==
    ASSUME IInv, NEW w \in Workers, worker[w].pc # "idle"
    PROVE  /\ worker[w].op \in OpIds /\ Target(w) \subseteq Issues
           /\ ops[worker[w].op].kind # "create" => Target(w) = {worker[w].iid}
BY Types DEF IInv, WorkerInv, WorkerFacts, Claimed, Target

LEMMA CallGitLabStep == ASSUME IInv, NEW w \in Workers, CallGitLab(w) PROVE IInv'
<1> USE Types
<1> DEFINE o == worker[w].op
<1>1. PICK i \in Target(w) :
        /\ Effect(o, i)
        /\ worker' = [worker EXCEPT ![w] = Answered(worker[w], Saw(i)')]
    BY DEF CallGitLab
<1>2. /\ worker[w].pc = "calling" /\ reached' = reached \cup {o}
      /\ UNCHANGED <<ops, opCount, rows, read, deleted, late, budget>>
    BY DEF CallGitLab
<1>3. o \in OpIds /\ i \in Issues /\ (ops[o].kind # "create" => i = worker[w].iid)
    BY <1>1, <1>2, TargetIsIssue
<1>4. GitLabMoves /\ Saw(i)' \in Answer /\ (ops[o].kind = "delete" => gl'[i].st = "gone")
    BY <1>1, <1>3, EffectOnGitLab
<1>5. Answered(worker[w], Saw(i)') \in Worker
    BY <1>4 DEF Answered, Worker
<1>6. PICK k \in Worker : /\ worker' = [worker EXCEPT ![w] = k]
                          /\ k.pc = "answered" /\ k.op = o /\ k.iid = worker[w].iid
                          /\ k.ans.iid = i
    BY <1>1, <1>5 DEF Answered, Saw
<1>7. Told(k)'
    BY <1>2, <1>3, <1>4, <1>6 DEF Told
<1>8. WorkerInv' /\ worker' \in [Workers -> Worker]
    BY <1>2, <1>4, <1>6, <1>7, OneWorkerMoves
<1> QED
    BY <1>2, <1>3, <1>4, <1>8, TablesUntouched DEF IInv, TypeOK

LEMMA CallLosesAnswerStep == ASSUME IInv, NEW w \in Workers, CallLosesAnswer(w) PROVE IInv'
<1> USE Types
<1>1. PICK i \in Target(w) : Effect(worker[w].op, i)
    BY DEF CallLosesAnswer
<1>2. /\ worker[w].pc = "calling" /\ reached' = reached \cup {worker[w].op}
      /\ worker' = [worker EXCEPT ![w] = Failing(worker[w])]
      /\ UNCHANGED <<ops, opCount, rows, read, deleted, late>>
    BY DEF CallLosesAnswer
<1>3. worker[w].op \in OpIds /\ GitLabMoves
    BY <1>1, <1>2, TargetIsIssue, EffectOnGitLab
<1>4. WorkerInv' /\ worker' \in [Workers -> Worker]
    BY <1>2, <1>3, FailingMoves
<1>5. budget' \in [fault : Nat, retry : Nat, ext : Nat]
    BY DEF CallLosesAnswer, IInv, TypeOK
<1> QED
    BY <1>2, <1>3, <1>4, <1>5, TablesUntouched DEF IInv, TypeOK

LEMMA CallRejectedStep == ASSUME IInv, NEW w \in Workers, CallRejected(w) PROVE IInv'
<1>1. /\ worker[w].pc = "calling"
      /\ worker' = [worker EXCEPT ![w] = Failing(worker[w])]
      /\ UNCHANGED <<ops, opCount, rows, gl, read, reached, deleted, late>>
    BY DEF CallRejected
<1>2. GitLabMoves
    BY <1>1, Types DEF GitLabMoves
<1>3. WorkerInv' /\ worker' \in [Workers -> Worker]
    BY <1>1, <1>2, FailingMoves
<1>4. budget' \in [fault : Nat, retry : Nat, ext : Nat]
    BY DEF CallRejected, IInv, TypeOK
<1> QED
    BY <1>1, <1>2, <1>3, <1>4, TablesUntouched DEF IInv, TypeOK

LEMMA CallFindsNothingStep == ASSUME IInv, NEW w \in Workers, CallFindsNothing(w) PROVE IInv'
<1>1. /\ worker[w].pc = "calling"
      /\ worker' = [worker EXCEPT ![w] = Failing(worker[w])]
      /\ UNCHANGED <<ops, opCount, rows, gl, read, reached, deleted, late, budget>>
    BY DEF CallFindsNothing
<1>2. GitLabMoves
    BY <1>1, Types DEF GitLabMoves
<1>3. WorkerInv' /\ worker' \in [Workers -> Worker]
    BY <1>1, <1>2, FailingMoves
<1> QED
    BY <1>1, <1>2, <1>3, TablesUntouched DEF IInv, TypeOK

LEMMA WorkerCrashStep == ASSUME IInv, NEW w \in Workers, WorkerCrash(w) PROVE IInv'
<1>1. /\ worker' = [worker EXCEPT ![w] = Idle]
      /\ UNCHANGED <<ops, opCount, rows, gl, read, reached, deleted, late>>
    BY DEF WorkerCrash
<1>2. GitLabMoves
    BY <1>1, Types DEF GitLabMoves
<1>3. WorkerInv' /\ worker' \in [Workers -> Worker]
    BY <1>1, <1>2, IdleMoves
<1>4. budget' \in [fault : Nat, retry : Nat, ext : Nat]
    BY DEF WorkerCrash, IInv, TypeOK
<1> QED
    BY <1>1, <1>2, <1>3, <1>4, TablesUntouched DEF IInv, TypeOK

LEMMA RollBackStep == ASSUME IInv, NEW w \in Workers, RollBack(w) PROVE IInv'
<1>1. /\ worker' = [worker EXCEPT ![w] = Idle]
      /\ UNCHANGED <<ops, opCount, rows, gl, read, reached, deleted, late, budget>>
    BY DEF RollBack
<1>2. GitLabMoves
    BY <1>1, Types DEF GitLabMoves
<1>3. WorkerInv' /\ worker' \in [Workers -> Worker]
    BY <1>1, <1>2, IdleMoves
<1> QED
    BY <1>1, <1>2, <1>3, TablesUntouched DEF IInv, TypeOK

LEMMA ReadIssueStep == ASSUME IInv, NEW i \in Issues, ReadIssue(i) PROVE IInv'
<1>1. read' = Saw(i) /\ UNCHANGED <<ops, opCount, rows, gl, worker, reached, deleted, late, budget>>
    BY DEF ReadIssue
<1>2. read' \in Answer
    BY <1>1, Types DEF Saw, Answer, Issue
<1>3. GitLabMoves /\ History
    BY <1>1, Types DEF GitLabMoves, History
<1>4. WorkerInv'
    BY <1>1, <1>3, WorkerKept DEF IInv, WorkerInv
<1> QED
    BY <1>1, <1>2, <1>3, <1>4, TablesUntouched DEF IInv, TypeOK

LEMMA ExternalChangeStep == ASSUME IInv, NEW i \in Issues, ExternalChange(i) PROVE IInv'
<1> USE Types
<1>1. UNCHANGED <<ops, opCount, rows, worker, read, reached, deleted, late>>
    BY DEF ExternalChange
<1>2. budget' \in [fault : Nat, retry : Nat, ext : Nat]
    BY DEF ExternalChange, IInv, TypeOK
<1>3. \E g \in Issue : gl' = [gl EXCEPT ![i] = g] /\ (gl[i].st = "gone" => g.st = "gone")
  <2>1. gl[i] \in Issue /\ 0 \in Content /\ gl[i].st # "gone" /\ Gone(gl[i]) \in Issue
      BY ConstantsAssumption DEF ExternalChange, Issue, Content, Gone
  <2>2. ASSUME NEW st \in {"live", "offboard"}
        PROVE  [st |-> st, val |-> 0, ver |-> gl[i].ver + 1] \in Issue
      BY <2>1 DEF Issue
  <2> QED
      BY <2>1, <2>2 DEF ExternalChange
<1>4. GitLabMoves
    BY <1>3 DEF GitLabMoves
<1>5. History
    BY <1>1, <1>4 DEF GitLabMoves, History
<1>6. WorkerInv'
    BY <1>1, <1>5, WorkerKept DEF IInv, WorkerInv
<1> QED
    BY <1>1, <1>2, <1>4, <1>6, TablesUntouched DEF IInv, TypeOK

-----------------------------------------------------------------------------
(* Steps that settle a card.                                               *)

\* The foreign key moves or clears the card an operation names and nothing else.
LEMMA RekeyKeeps ==
    ASSUME NEW f \in [OpIds -> Op], NEW old, NEW new \in Iids \cup {NoIid}
    PROVE  /\ Rekey(f, old, new) \in [OpIds -> Op]
           /\ \A p \in OpIds :
                /\ Rekey(f, old, new)[p].kind = f[p].kind
                /\ Rekey(f, old, new)[p].state = f[p].state
                /\ Rekey(f, old, new)[p].lapsed = f[p].lapsed
                /\ Rekey(f, old, new)[p].at = f[p].at
                /\ f[p].iid = old => Rekey(f, old, new)[p].iid = new
                /\ f[p].iid # old => Rekey(f, old, new)[p].iid = f[p].iid
BY DEF Rekey, Op

LEMMA Follow ==
    ASSUME NEW f \in [OpIds -> Op], NEW i, NEW j \in Iids \cup {NoIid}
    PROVE  LET g == Rekey(f, i, j)
           IN  /\ g \in [OpIds -> Op]
               /\ \A p \in OpIds : /\ g[p].kind = f[p].kind /\ g[p].state = f[p].state
                                   /\ g[p].lapsed = f[p].lapsed /\ g[p].at = f[p].at
                                   /\ f[p].iid = i => g[p].iid = j
                                   /\ f[p].iid # i => g[p].iid = f[p].iid
BY RekeyKeeps

LEMMA Detach ==
    ASSUME NEW f \in [OpIds -> Op], NEW i
    PROVE  LET g == Rekey(f, i, NoIid)
           IN  /\ g \in [OpIds -> Op]
               /\ \A p \in OpIds : /\ g[p].kind = f[p].kind /\ g[p].state = f[p].state
                                   /\ g[p].lapsed = f[p].lapsed /\ g[p].at = f[p].at
                                   /\ f[p].iid = i => g[p].iid = NoIid
                                   /\ f[p].iid # i => g[p].iid = f[p].iid
<1>1. NoIid \in Iids \cup {NoIid}
    OBVIOUS
<1> QED
    BY <1>1, RekeyKeeps

\* A merge leaves an owned row alone and otherwise leaves a row nobody owns.
LEMMA MergedKeeps ==
    ASSUME NEW r \in Row, NEW a \in Answer, r.sync \in {"absent", "synced"} => r.ptr = NoOp
    PROVE  /\ Merged(r, a) \in Row
           /\ r.sync \in {"pending", "failed"} => Merged(r, a) = r
           /\ r.sync \notin {"pending", "failed"} =>
                /\ Merged(r, a).ptr = NoOp
                /\ Merged(r, a).sync = "synced" \/ Merged(r, a) = NoRow
BY ConstantsAssumption DEF Merged, Row, Answer, NoRow, Content, NoOp

\* The current operation of a row is an operation of that row.
LEMMA PointerNames ==
    ASSUME IInv, NEW i \in Iids, NEW o \in OpIds, rows[i].ptr = o
    PROVE  ops[o].iid = i /\ rows[i].sync \in {"pending", "failed"}
BY Types, Keys DEF IInv, ChipTruth, Truthful, Row

LEMMA TruthfulKept ==
    ASSUME IInv, NEW k \in Iids, rows'[k] = rows[k],
           LET p == rows[k].ptr
           IN  p \in OpIds => ops'[p].iid = ops[p].iid /\ ops'[p].state = ops[p].state
    PROVE  Truthful(k)'
<1>1. rows[k] \in Row /\ Truthful(k)
    BY Types DEF IInv, ChipTruth
<1> QED
    BY <1>1 DEF Truthful, Unfinished, Row

\* What the merge of an answer about card i does: a row that is owned stays, any other
\* becomes r, and operations lose a card that is removed.
Reconciled(i, r) ==
    /\ i \in Issues /\ i \in Iids /\ rows[i] \in Row /\ r \in Row
    /\ rows[i].sync \in {"absent", "synced"} => rows[i].ptr = NoOp
    /\ rows' = [rows EXCEPT ![i] = r]
    /\ rows[i].sync \in {"pending", "failed"} => r = rows[i] /\ r # NoRow
    /\ rows[i].sync \notin {"pending", "failed"} =>
          r.ptr = NoOp /\ (r.sync = "synced" \/ r = NoRow)
    /\ r = NoRow \/ r.ver \in {rows[i].ver, read.ver}
    /\ rows[i].sync # "absent" /\ r # NoRow => rows[i].ver <= r.ver
    /\ ops' \in [OpIds -> Op]
    /\ \A p \in OpIds : /\ ops'[p].kind = ops[p].kind /\ ops'[p].at = ops[p].at
                        /\ ops'[p].state = ops[p].state /\ ops'[p].lapsed = ops[p].lapsed
                        /\ ops[p].iid # i => ops'[p].iid = ops[p].iid
                        /\ ops[p].iid = i =>
                              IF r = NoRow THEN ops'[p].iid = NoIid ELSE ops'[p].iid = i
    /\ read' = NoAnswer
    /\ UNCHANGED <<opCount, gl, worker, reached, deleted, late, budget>>

LEMMA ReconcileEffect == ASSUME IInv, ReconcileIssue PROVE \E r \in Row : Reconciled(read.iid, r)
<1> USE Types, Keys
<1> DEFINE i == read.iid
           r == Merged(rows[i], read)
<1>1. /\ i \in Issues /\ i \in Iids /\ rows[i] \in Row
      /\ rows[i].sync \in {"absent", "synced"} => rows[i].ptr = NoOp
    BY DEF ReconcileIssue, Answer, IInv, ChipTruth, Truthful
<1>2. /\ rows' = [rows EXCEPT ![i] = r]
      /\ ops' = IF r = NoRow THEN Rekey(ops, i, NoIid) ELSE ops
      /\ read' = NoAnswer
      /\ UNCHANGED <<opCount, gl, worker, reached, deleted, late, budget>>
    BY DEF ReconcileIssue
<1>3. /\ r \in Row
      /\ rows[i].sync \in {"pending", "failed"} => r = rows[i]
      /\ rows[i].sync \notin {"pending", "failed"} =>
            r.ptr = NoOp /\ (r.sync = "synced" \/ r = NoRow)
    BY <1>1, MergedKeeps
<1>4. rows[i].sync \in {"pending", "failed"} => r # NoRow
    BY <1>3 DEF NoRow
<1>5. /\ r = NoRow \/ r.ver \in {rows[i].ver, read.ver}
      /\ rows[i].sync # "absent" /\ r # NoRow => rows[i].ver <= r.ver
  <2>1. rows[i].ver \in Nat /\ read.ver \in Nat /\ rows[i].sync \in {"absent", "synced", "pending", "failed"}
      BY <1>1 DEF Row, Answer
  <2> QED
      BY <2>1 DEF Merged
<1>6. /\ ops' \in [OpIds -> Op]
      /\ \A p \in OpIds : /\ ops'[p].kind = ops[p].kind /\ ops'[p].state = ops[p].state
                          /\ ops'[p].lapsed = ops[p].lapsed /\ ops'[p].at = ops[p].at
                          /\ ops[p].iid # i => ops'[p].iid = ops[p].iid
                          /\ ops[p].iid = i =>
                                IF r = NoRow THEN ops'[p].iid = NoIid ELSE ops'[p].iid = i
  <2>1. CASE r = NoRow
    <3>1. ops' = Rekey(ops, i, NoIid) /\ ops \in [OpIds -> Op] /\ NoIid \in Iids \cup {NoIid}
        BY <2>1, <1>2
    <3> HIDE DEF r, i
    <3> DEFINE g == Rekey(ops, i, NoIid)
    <3>2. /\ g \in [OpIds -> Op]
          /\ \A p \in OpIds : /\ g[p].kind = ops[p].kind /\ g[p].state = ops[p].state
                              /\ g[p].lapsed = ops[p].lapsed /\ g[p].at = ops[p].at
                              /\ ops[p].iid = i => g[p].iid = NoIid
                              /\ ops[p].iid # i => g[p].iid = ops[p].iid
        BY <3>1, Detach
    <3> HIDE DEF g
    <3> QED
        BY <2>1, <3>1, <3>2 DEF g
  <2>2. CASE r # NoRow
      BY <2>2, <1>2
  <2> QED
      BY <2>1, <2>2
<1> HIDE DEF r
<1>7. Reconciled(i, r)
    BY <1>1, <1>2, <1>3, <1>4, <1>5, <1>6 DEF Reconciled
<1> QED
    BY <1>3, <1>7

LEMMA ReconcileIssueStep == ASSUME IInv, ReconcileIssue PROVE IInv'
<1> USE Types, Keys
<1> DEFINE i == read.iid
<1>0. PICK r \in Row : Reconciled(i, r)
    BY ReconcileEffect
<1>1. /\ i \in Issues /\ i \in Iids /\ rows[i] \in Row
      /\ rows[i].sync \in {"absent", "synced"} => rows[i].ptr = NoOp
    BY <1>0 DEF Reconciled
<1>2. /\ rows' = [rows EXCEPT ![i] = r] /\ read' = NoAnswer
      /\ UNCHANGED <<opCount, gl, worker, reached, deleted, late, budget>>
    BY <1>0 DEF Reconciled
<1>3. /\ r \in Row
      /\ rows[i].sync \in {"pending", "failed"} => r = rows[i] /\ r # NoRow
      /\ rows[i].sync \notin {"pending", "failed"} =>
            r.ptr = NoOp /\ (r.sync = "synced" \/ r = NoRow)
    BY <1>0 DEF Reconciled
<1>5. /\ ops' \in [OpIds -> Op]
      /\ \A p \in OpIds : /\ ops'[p].kind = ops[p].kind /\ ops'[p].state = ops[p].state
                          /\ ops[p].iid # i => ops'[p].iid = ops[p].iid
                          /\ ops[p].iid = i =>
                                IF r = NoRow THEN ops'[p].iid = NoIid ELSE ops'[p].iid = i
    BY <1>0 DEF Reconciled
<1> HIDE DEF i
<1>6. TypeOK'
    BY <1>1, <1>2, <1>3, <1>5, NoAnswerType DEF IInv, TypeOK
<1>7. OpsNameRows'
  <2> SUFFICES ASSUME NEW p \in OpIds, ops'[p].iid # NoIid PROVE rows'[ops'[p].iid].sync # "absent"
      BY DEF OpsNameRows, Present
  <2>1. CASE ops[p].iid # i
      BY <2>1, <1>2, <1>5 DEF IInv, OpsNameRows, Present, Op
  <2>2. CASE ops[p].iid = i
    <3>1. r # NoRow /\ ops'[p].iid = i /\ rows[i].sync # "absent"
        BY <2>2, <1>1, <1>5 DEF IInv, OpsNameRows, Present
    <3>2. r.sync # "absent"
        BY <3>1, <1>3
    <3> QED
        BY <3>1, <3>2, <1>1, <1>2
  <2> QED
      BY <2>1, <2>2
<1>8. ChipTruth'
  <2> SUFFICES ASSUME NEW k \in Iids PROVE Truthful(k)'
      BY DEF ChipTruth
  <2>0. Truthful(k) /\ rows[k] \in Row
      BY DEF IInv, ChipTruth
  <2>1. CASE k # i
      BY <2>0, <2>1, <1>1, <1>2, <1>5 DEF Truthful, Unfinished, Row
  <2>2. CASE k = i /\ rows[i].sync \in {"pending", "failed"}
    <3>1. rows'[k] = rows[k] /\ r # NoRow
        BY <2>2, <1>1, <1>2, <1>3
    <3>2. rows[k].ptr \in OpIds => ops'[rows[k].ptr].iid = ops[rows[k].ptr].iid
        BY <3>1, <1>5
    <3>3. rows[k].ptr \in OpIds => ops'[rows[k].ptr].state = ops[rows[k].ptr].state
        BY <1>5
    <3> QED
        BY <3>1, <3>2, <3>3, TruthfulKept
  <2>3. CASE k = i /\ rows[i].sync \notin {"pending", "failed"}
      BY <2>3, <1>1, <1>2, <1>3 DEF Truthful, NoRow
  <2> QED
      BY <2>1, <2>2, <2>3
<1>9. Numbering' /\ CreateKeys'
    BY <1>1, <1>2, <1>5 DEF IInv, Numbering, CreateKeys
<1>10. TempRows'
    BY <1>1, <1>2, <1>5 DEF IInv, TempRows, Present
<1>11. WorkerInv'
  <2>1. History
      BY <1>2, <1>5 DEF History
  <2> QED
      BY <2>1, <1>2, WorkerKept DEF IInv, WorkerInv
<1>12. SyncedReached' /\ DeletedIsGone'
    BY <1>2, <1>5 DEF IInv, SyncedReached, DeletedIsGone
<1> QED
    BY <1>6, <1>7, <1>8, <1>9, <1>10, <1>11, <1>12 DEF IInv

\* A worker that ends its attempt becomes idle; the others keep what they know.
LEMMA EndOfAttempt ==
    ASSUME IInv, NEW w \in Workers, worker' = [worker EXCEPT ![w] = Idle], History
    PROVE  WorkerInv' /\ worker' \in [Workers -> Worker]
<1>1. worker' \in [Workers -> Worker]
    BY Types, NoAnswerType
<1>2. ASSUME NEW v \in Workers PROVE WorkerFacts(v)'
  <2>1. CASE v = w
      BY <2>1, Types DEF WorkerFacts, Idle
  <2>2. CASE v # w
      BY <2>2, Types, WorkerKept DEF IInv, WorkerInv
  <2> QED
      BY <2>1, <2>2
<1> QED
    BY <1>1, <1>2 DEF WorkerInv

\* As long as its card exists, no other card waits for a claimed operation.
LEMMA ClaimOwnsNoOtherCard ==
    ASSUME IInv, NEW w \in Workers, worker[w].pc # "idle", Present(worker[w].iid)
    PROVE  \A k \in Iids : k # worker[w].iid => rows[k].ptr # worker[w].op
<1> DEFINE o == worker[w].op
           i == worker[w].iid
<1>1. Claimed(worker[w]) /\ o \in OpIds
    BY Types DEF IInv, WorkerInv, WorkerFacts, Claimed
<1>2. ops[o].iid \in {i, NoIid}
    BY <1>1, Keys DEF Claimed, IInv, TempRows
<1> HIDE DEF o, i
<1>3. ASSUME NEW k \in Iids, k # i PROVE rows[k].ptr # o
    BY <1>1, <1>2, <1>3, Keys, PointerNames
<1> QED
    BY <1>3 DEF o, i

\* What the end of deletion o does: card i is gone, and operations lose it.
Removed(o, i) ==
    /\ o \in OpIds /\ i \in Issues /\ i \in Iids /\ o \in reached /\ gl[i].st = "gone"
    /\ rows[i].ptr = o /\ rows' = [rows EXCEPT ![i] = NoRow]
    /\ ops' \in [OpIds -> Op]
    /\ \A p \in OpIds : /\ ops'[p].kind = ops[p].kind /\ ops'[p].at = ops[p].at
                        /\ ops'[p].state = IF p = o THEN "synced" ELSE ops[p].state
                        /\ p # o => ops'[p].lapsed = ops[p].lapsed
                        /\ ops[p].iid = i => ops'[p].iid = NoIid
                        /\ ops[p].iid # i => ops'[p].iid = ops[p].iid
    /\ deleted' = deleted \cup {i}
    /\ UNCHANGED <<opCount, gl, read, reached, late, budget>>

LEMMA RemovalEffect ==
    ASSUME IInv, NEW w \in Workers, CompleteDeleteOperation(w)
    PROVE  Removed(worker[w].op, worker[w].iid)
<1> USE Types, Keys
<1> DEFINE o == worker[w].op
           i == worker[w].iid
           f == [ops EXCEPT ![o] = Marked(ops[o], "synced", FALSE)]
<1>1. /\ worker[w].pc = "answered" /\ ops[o].kind = "delete"
      /\ rows[i].ptr = o
      /\ rows' = [rows EXCEPT ![i] = NoRow]
      /\ ops' = Rekey(f, i, NoIid)
      /\ deleted' = deleted \cup {i}
      /\ UNCHANGED <<opCount, gl, read, reached, late, budget>>
    BY DEF CompleteDeleteOperation
<1>2. /\ o \in OpIds /\ i \in Issues /\ i \in Iids /\ o \in reached /\ gl[i].st = "gone"
    BY <1>1 DEF IInv, WorkerInv, WorkerFacts, Claimed, Told
<1>3. /\ f \in [OpIds -> Op]
      /\ \A p \in OpIds : /\ f[p].kind = ops[p].kind /\ f[p].iid = ops[p].iid
                          /\ f[p].state = IF p = o THEN "synced" ELSE ops[p].state
                          /\ f[p].at = ops[p].at
                          /\ p # o => f[p].lapsed = ops[p].lapsed
    BY <1>2 DEF Marked, Op, OpStates
<1> HIDE DEF f
<1>4. /\ ops' \in [OpIds -> Op]
      /\ \A p \in OpIds : /\ ops'[p].kind = f[p].kind /\ ops'[p].state = f[p].state
                          /\ ops'[p].lapsed = f[p].lapsed /\ ops'[p].at = f[p].at
                          /\ f[p].iid = i => ops'[p].iid = NoIid
                          /\ f[p].iid # i => ops'[p].iid = f[p].iid
  <2> DEFINE g == Rekey(f, i, NoIid)
  <2>1. /\ g \in [OpIds -> Op]
        /\ \A p \in OpIds : /\ g[p].kind = f[p].kind /\ g[p].state = f[p].state
                            /\ g[p].lapsed = f[p].lapsed /\ g[p].at = f[p].at
                            /\ f[p].iid = i => g[p].iid = NoIid
                            /\ f[p].iid # i => g[p].iid = f[p].iid
      BY <1>3, Detach
  <2>2. ops' = g
      BY <1>1
  <2> HIDE DEF g
  <2> QED
      BY <2>1, <2>2
<1> HIDE DEF o, i
<1>5. Removed(o, i)
    BY <1>1, <1>2, <1>3, <1>4 DEF Removed
<1> QED
    BY <1>5 DEF o, i

LEMMA CompleteDeleteOperationStep ==
    ASSUME IInv, NEW w \in Workers, CompleteDeleteOperation(w) PROVE IInv'
<1> USE Types, Keys
<1> DEFINE o == worker[w].op
           i == worker[w].iid
<1>0. Removed(o, i)
    BY RemovalEffect
<1>1. /\ worker[w].pc = "answered" /\ Present(i)
      /\ rows[i].ptr = o /\ rows' = [rows EXCEPT ![i] = NoRow]
      /\ deleted' = deleted \cup {i}
      /\ worker' = [worker EXCEPT ![w] = Idle]
      /\ UNCHANGED <<opCount, gl, read, reached, late, budget>>
    BY DEF CompleteDeleteOperation
<1>2. /\ o \in OpIds /\ i \in Issues /\ i \in Iids /\ o \in reached /\ gl[i].st = "gone"
    BY <1>0 DEF Removed
<1>a. \A k \in Iids : k # i => rows[k].ptr # o
    BY <1>1, ClaimOwnsNoOtherCard
<1>4. /\ ops' \in [OpIds -> Op]
      /\ \A p \in OpIds : /\ ops'[p].kind = ops[p].kind
                          /\ ops'[p].state = IF p = o THEN "synced" ELSE ops[p].state
                          /\ ops[p].iid = i => ops'[p].iid = NoIid
                          /\ ops[p].iid # i => ops'[p].iid = ops[p].iid
    BY <1>0 DEF Removed
<1> HIDE DEF o, i
<1>5. NoRow \in Row
    BY ConstantsAssumption DEF NoRow, Row, Content
<1>6. WorkerInv' /\ worker' \in [Workers -> Worker]
  <2>1. History
      BY <1>1, <1>4 DEF History
  <2> QED
      BY <2>1, <1>1, EndOfAttempt
<1>7. TypeOK'
    BY <1>1, <1>2, <1>4, <1>5, <1>6 DEF IInv, TypeOK
<1>8. OpsNameRows'
  <2> SUFFICES ASSUME NEW p \in OpIds, ops'[p].iid # NoIid PROVE Present(ops[p].iid)'
      BY <1>4 DEF OpsNameRows
  <2> QED
      BY <1>1, <1>2, <1>4 DEF IInv, OpsNameRows, Present, Op
<1>9. ChipTruth'
  <2> SUFFICES ASSUME NEW k \in Iids PROVE Truthful(k)'
      BY DEF ChipTruth
  <2>1. CASE k = i
      BY <2>1, <1>1, <1>2 DEF Truthful, NoRow
  <2>2. CASE k # i
    <3>1. rows'[k] = rows[k] /\ rows[k] \in Row /\ Truthful(k)
        BY <2>2, <1>1, <1>2 DEF IInv, ChipTruth
    <3>2. rows[k].ptr # o
        BY <2>2, <1>a
    <3>3. rows[k].ptr \in OpIds => ops[rows[k].ptr].iid = k
        BY PointerNames
    <3> QED
        BY <3>1, <3>2, <3>3, <2>2, <1>4, TruthfulKept
  <2> QED
      BY <2>1, <2>2
<1>10. Numbering' /\ CreateKeys' /\ TempRows'
  <2>1. Numbering' /\ CreateKeys'
      BY <1>1, <1>4 DEF IInv, Numbering, CreateKeys
  <2>2. TempRows'
      BY <1>1, <1>2, <1>4 DEF IInv, TempRows, Present
  <2> QED
      BY <2>1, <2>2
<1>11. SyncedReached' /\ DeletedIsGone'
    BY <1>1, <1>2, <1>4 DEF IInv, SyncedReached, DeletedIsGone
<1> QED
    BY <1>6, <1>7, <1>8, <1>9, <1>10, <1>11 DEF IInv

\* What the failure of operation o of card i does: the card's row becomes r.
FailedAs(o, i, r) ==
    /\ o \in OpIds /\ i \in Iids /\ Present(i)
    /\ ops[o].kind = "create" => i = -o /\ ops[o].iid = -o
    /\ ops' \in [OpIds -> Op]
    /\ \A p \in OpIds : /\ ops'[p].kind = ops[p].kind /\ ops'[p].at = ops[p].at
                        /\ ops'[p].iid = ops[p].iid
                        /\ ops'[p].state = IF p = o THEN "failed" ELSE ops[p].state
                        /\ p # o => ops'[p].lapsed = ops[p].lapsed
    /\ r \in Row /\ r.sync # "absent"
    /\ r.ver = rows[i].ver /\ r.val = rows[i].val
    /\ ops[o].kind = "create" \/ rows[i].ptr = o => r.sync = "failed" /\ r.ptr = o
    /\ ~(ops[o].kind = "create" \/ rows[i].ptr = o) =>
          r.sync = rows[i].sync /\ r.ptr = rows[i].ptr
    /\ rows' = [rows EXCEPT ![i] = r]
    /\ UNCHANGED <<opCount, gl, read, reached, deleted, late, budget>>

LEMMA FailureEffect ==
    ASSUME IInv, NEW w \in Workers, FailOperation(w)
    PROVE  \E r \in Row : FailedAs(worker[w].op, worker[w].iid, r)
<1> USE Types, Keys
<1> DEFINE o == worker[w].op
           i == worker[w].iid
           r == FailedRow(rows[i], o)
<1>1. /\ worker[w].pc = "failing" /\ Present(i)
      /\ ops' = [ops EXCEPT ![o] = Marked(ops[o], "failed", FALSE)]
      /\ rows' = [rows EXCEPT ![i] = r]
      /\ UNCHANGED <<opCount, gl, read, reached, deleted, late, budget>>
    BY DEF FailOperation
<1>2. o \in OpIds /\ i \in Iids /\ (ops[o].kind = "create" => i = -o)
  <2>1. Claimed(worker[w])
      BY <1>1 DEF IInv, WorkerInv, WorkerFacts
  <2>2. o \in OpIds /\ (ops[o].kind = "create" => i = -o)
      BY <2>1 DEF Claimed
  <2>3. ops[o].kind # "create" => i \in Issues
      BY <2>1 DEF Claimed
  <2> QED
      BY <2>2, <2>3, Keys
<1>3. /\ ops' \in [OpIds -> Op]
      /\ \A p \in OpIds : /\ ops'[p].kind = ops[p].kind /\ ops'[p].iid = ops[p].iid
                          /\ ops'[p].state = IF p = o THEN "failed" ELSE ops[p].state
                          /\ ops'[p].at = ops[p].at
                          /\ p # o => ops'[p].lapsed = ops[p].lapsed
    BY <1>1, <1>2 DEF Marked, Op, OpStates
<1>4. /\ r \in Row /\ r.sync # "absent"
      /\ r.ver = rows[i].ver /\ r.val = rows[i].val
      /\ ops[o].kind = "create" \/ rows[i].ptr = o => r.sync = "failed" /\ r.ptr = o
      /\ ~(ops[o].kind = "create" \/ rows[i].ptr = o) =>
            r.sync = rows[i].sync /\ r.ptr = rows[i].ptr
  <2>1. rows[i] \in Row /\ rows[i].sync # "absent"
      BY <1>1, <1>2 DEF Present
  <2>2. CASE ops[o].kind = "create"
      BY <2>1, <2>2, <1>2 DEF FailedRow, Row
  <2>3. CASE ops[o].kind # "create"
      BY <2>1, <2>3, <1>2 DEF FailedRow, Settled, Row
  <2> QED
      BY <2>2, <2>3
<1>5. ASSUME ops[o].kind = "create" PROVE ops[o].iid = -o
  <2>1. Present(-o) /\ o \in OpIds
      BY <1>1, <1>2, <1>5
  <2> QED
      BY <2>1 DEF IInv, TempRows
<1> HIDE DEF o, i, r
<1>6. FailedAs(o, i, r)
    BY <1>1, <1>2, <1>3, <1>4, <1>5 DEF FailedAs
<1> QED
    BY <1>4, <1>6 DEF o, i

LEMMA FailOperationStep == ASSUME IInv, NEW w \in Workers, FailOperation(w) PROVE IInv'
<1> USE Types, Keys
<1> DEFINE o == worker[w].op
           i == worker[w].iid
<1>0. PICK r \in Row : FailedAs(o, i, r)
    BY FailureEffect
<1>1. Present(i) /\ rows' = [rows EXCEPT ![i] = r]
    BY <1>0 DEF FailedAs
<1>u. /\ worker[w].pc = "failing" /\ worker' = [worker EXCEPT ![w] = Idle]
      /\ UNCHANGED <<opCount, gl, read, reached, deleted, late, budget>>
    BY DEF FailOperation
<1>2. o \in OpIds /\ i \in Iids /\ (ops[o].kind = "create" => i = -o)
    BY <1>0 DEF FailedAs
<1>3. /\ ops' \in [OpIds -> Op]
      /\ \A p \in OpIds : /\ ops'[p].kind = ops[p].kind /\ ops'[p].iid = ops[p].iid
                          /\ ops'[p].state = IF p = o THEN "failed" ELSE ops[p].state
    BY <1>0 DEF FailedAs
<1>4. /\ r \in Row /\ r.sync # "absent"
      /\ ops[o].kind = "create" \/ rows[i].ptr = o => r.sync = "failed" /\ r.ptr = o
      /\ ~(ops[o].kind = "create" \/ rows[i].ptr = o) =>
            r.sync = rows[i].sync /\ r.ptr = rows[i].ptr
    BY <1>0 DEF FailedAs
<1>5. ops[o].kind = "create" => ops[o].iid = -o
    BY <1>0 DEF FailedAs
<1>a. \A k \in Iids : k # i => rows[k].ptr # o
    BY <1>1, <1>u, ClaimOwnsNoOtherCard
<1> HIDE DEF o, i
<1>6. WorkerInv' /\ worker' \in [Workers -> Worker]
  <2>1. History
      BY <1>u, <1>3 DEF History
  <2> QED
      BY <2>1, <1>u, EndOfAttempt
<1>7. TypeOK'
  <2>1. rows' \in [Iids -> Row]
      BY <1>1, <1>2, <1>4
  <2> QED
      BY <2>1, <1>u, <1>3, <1>6 DEF IInv, TypeOK
<1>8. OpsNameRows'
  <2> SUFFICES ASSUME NEW p \in OpIds, ops'[p].iid # NoIid PROVE Present(ops[p].iid)'
      BY <1>3 DEF OpsNameRows
  <2>1. ops[p].iid \in Iids /\ Present(ops[p].iid)
      BY <1>3 DEF IInv, OpsNameRows, Op
  <2> QED
      BY <2>1, <1>1, <1>2, <1>3, <1>4 DEF Present
<1>9. ChipTruth'
  <2> SUFFICES ASSUME NEW k \in Iids PROVE Truthful(k)'
      BY DEF ChipTruth
  <2>0. Truthful(k) /\ rows[k] \in Row
      BY DEF IInv, ChipTruth
  <2>1. CASE k # i
    <3>1. rows'[k] = rows[k]
        BY <2>1, <1>1, <1>2
    <3>2. rows[k].ptr # o
        BY <2>1, <1>a
    <3>3. \A p \in OpIds : p # o => ops'[p].iid = ops[p].iid /\ ops'[p].state = ops[p].state
        BY <1>3
    <3> QED
        BY <3>1, <3>2, <3>3, TruthfulKept
  <2>2. CASE k = i /\ r.sync = "failed" /\ r.ptr = o
    <3>1. ops[o].iid = i
        BY <2>2, <1>2, <1>4, <1>5, PointerNames
    <3> QED
        BY <2>2, <3>1, <1>1, <1>2, <1>3 DEF Truthful
  <2>3. CASE k = i /\ r.sync = rows[i].sync /\ r.ptr = rows[i].ptr /\ rows[i].ptr # o
    <3>1. rows'[k].sync = rows[k].sync /\ rows'[k].ptr = rows[k].ptr /\ rows[k].ptr # o
        BY <2>3, <1>1, <1>2
    <3>2. rows[k].ptr \in OpIds => /\ ops'[rows[k].ptr].iid = ops[rows[k].ptr].iid
                                   /\ ops'[rows[k].ptr].state = ops[rows[k].ptr].state
        BY <3>1, <1>3
    <3> QED
        BY <3>1, <3>2, <2>0 DEF Truthful, Unfinished, Row
  <2> QED
      BY <2>1, <2>2, <2>3, <1>4
<1>10. Numbering' /\ TempRows'
    BY <1>1, <1>u, <1>2, <1>3, <1>4 DEF IInv, Numbering, TempRows, Present
<1>11. CreateKeys'
    BY <1>3, <1>5 DEF IInv, CreateKeys
<1>12. SyncedReached' /\ DeletedIsGone'
    BY <1>u, <1>3 DEF IInv, SyncedReached, DeletedIsGone
<1> QED
    BY <1>6, <1>7, <1>8, <1>9, <1>10, <1>11, <1>12 DEF IInv

\* Where an operation's card goes when the answer about card i is committed under the
\* IID j: j's old claimants lose it, i's follow the card to j, and nobody keeps a card
\* that the merge removed.
Moved(x, i, j, r) == IF i # j /\ x = j THEN NoIid
                     ELSE IF x = i THEN IF r = NoRow THEN NoIid ELSE j ELSE x

\* What the end of a create or an edit o does; ver is the version of the answer.
Settles(o, i, j, r, ver) ==
    /\ o \in OpIds /\ i \in Iids /\ j \in Issues /\ j \in Iids /\ o \in reached
    /\ ops[o].kind # "delete" /\ Present(i)
    /\ ops[o].kind = "create" => i = -o
    /\ ops[o].kind # "create" => i = j
    /\ i # j => rows[j].sync \in {"absent", "synced"} /\ rows[j].ptr = NoOp
    /\ r \in Row
    /\ r = NoRow \/ r.ver = ver
    /\ \/ rows[i].ptr = o /\ (r = NoRow \/ (r.sync = "synced" /\ r.ptr = NoOp))
       \/ rows[i].ptr = NoOp /\ (r = NoRow \/ (r.sync = "synced" /\ r.ptr = NoOp))
       \/ /\ r.sync = rows[i].sync /\ r.ptr = rows[i].ptr /\ r.ptr \notin {o, NoOp}
          /\ r.val = rows[i].val /\ r.sync \in {"pending", "failed"}
    /\ ops' \in [OpIds -> Op]
    /\ \A p \in OpIds : /\ ops'[p].kind = ops[p].kind /\ ops'[p].at = ops[p].at
                        /\ ops'[p].state = IF p = o THEN "synced" ELSE ops[p].state
                        /\ p # o => ops'[p].lapsed = ops[p].lapsed
                        /\ ops'[p].iid = Moved(ops[p].iid, i, j, r)
    /\ rows' = [rows EXCEPT ![i] = NoRow, ![j] = r]
    /\ UNCHANGED <<opCount, gl, read, reached, deleted, late, budget>>

LEMMA CompletionEffect ==
    ASSUME IInv, NEW w \in Workers, CompleteOperation(w)
    PROVE  \E r \in Row : Settles(worker[w].op, worker[w].iid, worker[w].ans.iid, r, worker[w].ans.ver)
<1> USE Types, Keys
<1> DEFINE o == worker[w].op
           i == worker[w].iid
           a == worker[w].ans
           j == a.iid
           s == Settled(rows[i], o, "synced", a.ver)
           r == Merged(s, a)
           f == [ops EXCEPT ![o] = Marked(ops[o], "synced", FALSE)]
           g == IF i = j THEN f ELSE Rekey(Rekey(f, j, NoIid), i, j)
<1>1. /\ worker[w].pc = "answered" /\ ops[o].kind # "delete"
      /\ Present(i) /\ ~KeyTaken(w)
      /\ rows' = [rows EXCEPT ![i] = NoRow, ![j] = r]
      /\ ops' = IF r = NoRow THEN Rekey(g, j, NoIid) ELSE g
    BY DEF CompleteOperation
<1>u. UNCHANGED <<opCount, gl, read, reached, deleted, late, budget>>
    BY DEF CompleteOperation
<1>c. Claimed(worker[w]) /\ Told(worker[w])
    BY <1>1 DEF IInv, WorkerInv, WorkerFacts
<1>2. /\ o \in OpIds /\ i \in Iids /\ j \in Issues /\ j \in Iids /\ a \in Answer /\ o \in reached
      /\ ops[o].kind = "create" => i = -o
      /\ ops[o].kind # "create" => i = j
  <2>1. a \in Answer
      BY DEF Worker
  <2>2. o \in OpIds /\ o \in reached /\ j \in Issues /\ j \in Iids
      BY <1>c DEF Claimed, Told
  <2>3. /\ ops[o].kind = "create" => i = -o
        /\ ops[o].kind # "create" => i = j
      BY <1>c DEF Claimed, Told
  <2>4. i \in Iids
      BY <2>2, <2>3
  <2> QED
      BY <2>1, <2>2, <2>3, <2>4
<1>3. i # j => rows[j].sync \in {"absent", "synced"} /\ rows[j].ptr = NoOp
  <2>1. i # j => rows[j].sync \notin {"pending", "failed"}
      BY <1>1 DEF KeyTaken
  <2>2. rows[j] \in Row /\ Truthful(j)
      BY <1>2 DEF IInv, ChipTruth
  <2> QED
      BY <2>1, <2>2 DEF Truthful, Row
<1>4. /\ s \in Row /\ s.sync # "absent" /\ s.ver = a.ver
      /\ \/ rows[i].ptr \in {o, NoOp} /\ s.sync = "synced" /\ s.ptr = NoOp
         \/ /\ s.sync = rows[i].sync /\ s.ptr = rows[i].ptr /\ s.ptr \notin {o, NoOp}
            /\ s.val = rows[i].val /\ s.sync \in {"pending", "failed"}
  <2>1. /\ rows[i] \in Row /\ rows[i].sync # "absent" /\ Truthful(i) /\ a.ver \in Nat
        /\ rows[i].sync \in {"synced", "pending", "failed"}
      BY <1>1, <1>2 DEF Present, IInv, ChipTruth, Answer, Row
  <2>2. CASE rows[i].ptr = o
      BY <2>1, <2>2 DEF Settled, Row
  <2>3. CASE rows[i].ptr # o
      BY <2>1, <2>3 DEF Settled, Row, Truthful
  <2> QED
      BY <2>2, <2>3
<1> HIDE DEF s
<1>5. /\ r \in Row
      /\ r = NoRow \/ r.ver = a.ver
      /\ \/ rows[i].ptr \in {o, NoOp} /\ (r = NoRow \/ (r.sync = "synced" /\ r.ptr = NoOp))
         \/ /\ r.sync = rows[i].sync /\ r.ptr = rows[i].ptr /\ r.ptr \notin {o, NoOp}
            /\ r.val = rows[i].val /\ r.sync \in {"pending", "failed"}
  <2>1. s.sync \in {"absent", "synced"} => s.ptr = NoOp
      BY <1>4
  <2>2. /\ r \in Row
        /\ s.sync \in {"pending", "failed"} => r = s
        /\ s.sync \notin {"pending", "failed"} =>
              r.ptr = NoOp /\ (r.sync = "synced" \/ r = NoRow)
      BY <2>1, <1>2, <1>4, MergedKeeps
  <2>3. r = NoRow \/ r.ver = a.ver
      BY <1>4 DEF Merged
  <2> HIDE DEF r
  <2> QED
      BY <2>2, <2>3, <1>4
<1> HIDE DEF r
<1>6. /\ f \in [OpIds -> Op]
      /\ \A p \in OpIds : /\ f[p].kind = ops[p].kind /\ f[p].iid = ops[p].iid
                          /\ f[p].state = IF p = o THEN "synced" ELSE ops[p].state
                          /\ f[p].at = ops[p].at
                          /\ p # o => f[p].lapsed = ops[p].lapsed
  <2>1. Marked(ops[o], "synced", FALSE) \in Op
      BY <1>2 DEF Marked, Op, OpStates
  <2> QED
      BY <2>1, <1>2 DEF Marked
<1> HIDE DEF f
<1>7. /\ ops' \in [OpIds -> Op]
      /\ \A p \in OpIds : /\ ops'[p].kind = ops[p].kind
                          /\ ops'[p].state = IF p = o THEN "synced" ELSE ops[p].state
                          /\ ops'[p].at = ops[p].at
                          /\ p # o => ops'[p].lapsed = ops[p].lapsed
                          /\ ops'[p].iid = Moved(ops[p].iid, i, j, r)
  <2>1. /\ g \in [OpIds -> Op]
        /\ \A p \in OpIds : /\ g[p].kind = f[p].kind /\ g[p].state = f[p].state
                            /\ g[p].lapsed = f[p].lapsed /\ g[p].at = f[p].at
                            /\ g[p].iid = IF i # j /\ f[p].iid = j THEN NoIid
                                          ELSE IF f[p].iid = i THEN j ELSE f[p].iid
    <3>1. CASE i = j
        BY <3>1, <1>6
    <3>2. CASE i # j
      <4> DEFINE h == Rekey(f, j, NoIid)
      <4>1. /\ h \in [OpIds -> Op]
            /\ \A p \in OpIds : /\ h[p].kind = f[p].kind /\ h[p].state = f[p].state
                                /\ h[p].lapsed = f[p].lapsed /\ h[p].at = f[p].at
                                /\ f[p].iid = j => h[p].iid = NoIid
                                /\ f[p].iid # j => h[p].iid = f[p].iid
          BY <1>6, Detach
      <4> HIDE DEF h
      <4>2. j \in Iids \cup {NoIid} /\ i # NoIid
          BY <1>2
      <4>3. g = Rekey(h, i, j)
          BY <3>2 DEF h
      <4> HIDE DEF g, i, j
      <4>4. /\ g \in [OpIds -> Op]
            /\ \A p \in OpIds : /\ g[p].kind = h[p].kind /\ g[p].state = h[p].state
                                /\ g[p].lapsed = h[p].lapsed /\ g[p].at = h[p].at
                                /\ h[p].iid = i => g[p].iid = j
                                /\ h[p].iid # i => g[p].iid = h[p].iid
          BY <4>1, <4>2, <4>3, Follow
      <4> QED
          BY <3>2, <4>1, <4>2, <4>3, <4>4
    <3> QED
        BY <3>1, <3>2
  <2> HIDE DEF g
  <2>2. CASE r # NoRow
    <3>1. ops' = g
        BY <2>2, <1>1
    <3>2. \A p \in OpIds : g[p].iid = Moved(ops[p].iid, i, j, r)
        BY <2>1, <2>2, <1>6 DEF Moved
    <3>3. \A p \in OpIds : /\ g[p].kind = ops[p].kind /\ g[p].at = ops[p].at
                           /\ g[p].state = IF p = o THEN "synced" ELSE ops[p].state
                           /\ p # o => g[p].lapsed = ops[p].lapsed
      <4> TAKE p \in OpIds
      <4>1. /\ g[p].kind = f[p].kind /\ g[p].at = f[p].at
            /\ g[p].state = f[p].state /\ g[p].lapsed = f[p].lapsed
          BY <2>1
      <4>2. /\ f[p].kind = ops[p].kind /\ f[p].at = ops[p].at
            /\ f[p].state = IF p = o THEN "synced" ELSE ops[p].state
            /\ p # o => f[p].lapsed = ops[p].lapsed
          BY <1>6
      <4> QED
          BY <4>1, <4>2
    <3> QED
        BY <3>1, <3>2, <3>3, <2>1
  <2>3. CASE r = NoRow
    <3>1. /\ Rekey(g, j, NoIid) \in [OpIds -> Op]
          /\ \A p \in OpIds : /\ Rekey(g, j, NoIid)[p].kind = g[p].kind
                              /\ Rekey(g, j, NoIid)[p].state = g[p].state
                              /\ Rekey(g, j, NoIid)[p].lapsed = g[p].lapsed
                              /\ Rekey(g, j, NoIid)[p].at = g[p].at
                              /\ g[p].iid = j => Rekey(g, j, NoIid)[p].iid = NoIid
                              /\ g[p].iid # j => Rekey(g, j, NoIid)[p].iid = g[p].iid
        BY <2>1, Detach
    <3>2. ops' = Rekey(g, j, NoIid)
        BY <2>3, <1>1
    <3> QED
        BY <3>1, <3>2, <2>1, <2>3, <1>6 DEF Moved
  <2> QED
      BY <2>2, <2>3
<1> HIDE DEF o, i, a, j
<1>8. Settles(o, i, j, r, a.ver)
    BY <1>1, <1>u, <1>2, <1>3, <1>5, <1>7 DEF Settles
<1> QED
    BY <1>5, <1>8 DEF o, i, a, j

LEMMA CompleteOperationStep ==
    ASSUME IInv, NEW w \in Workers, CompleteOperation(w) PROVE IInv'
<1> USE Types, Keys
<1> DEFINE o == worker[w].op
           i == worker[w].iid
           j == worker[w].ans.iid
<1>0. PICK r \in Row : Settles(o, i, j, r, worker[w].ans.ver)
    BY CompletionEffect
<1>1. Present(i) /\ rows' = [rows EXCEPT ![i] = NoRow, ![j] = r]
    BY <1>0 DEF Settles
<1>u. /\ worker[w].pc = "answered" /\ worker' = [worker EXCEPT ![w] = Idle]
      /\ UNCHANGED <<opCount, gl, read, reached, deleted, late, budget>>
    BY DEF CompleteOperation
<1>c. Claimed(worker[w])
    BY <1>u DEF IInv, WorkerInv, WorkerFacts
<1>2. /\ o \in OpIds /\ i \in Iids /\ j \in Issues /\ j \in Iids /\ o \in reached
      /\ ops[o].kind = "create" => i = -o
      /\ ops[o].kind # "create" => i = j
    BY <1>0 DEF Settles
<1>a. \A k \in Iids : k # i => rows[k].ptr # o
    BY <1>1, <1>u, ClaimOwnsNoOtherCard
<1>5. /\ r \in Row
      /\ r = NoRow \/ (r.sync = "synced" /\ r.ptr = NoOp)
         \/ /\ r.sync = rows[i].sync /\ r.ptr = rows[i].ptr /\ r.ptr # o
            /\ r.sync \in {"pending", "failed"}
    BY <1>0 DEF Settles
<1>7. /\ ops' \in [OpIds -> Op]
      /\ \A p \in OpIds : /\ ops'[p].kind = ops[p].kind
                          /\ ops'[p].state = IF p = o THEN "synced" ELSE ops[p].state
                          /\ ops'[p].iid = IF i # j /\ ops[p].iid = j THEN NoIid
                                           ELSE IF ops[p].iid = i
                                           THEN IF r = NoRow THEN NoIid ELSE j
                                           ELSE ops[p].iid
    BY <1>0 DEF Settles, Moved
<1>8. /\ rows' \in [Iids -> Row]
      /\ rows'[j] = r /\ (i # j => rows'[i] = NoRow)
      /\ \A k \in Iids : k # i /\ k # j => rows'[k] = rows[k]
  <2>1. NoRow \in Row
      BY ConstantsAssumption DEF NoRow, Row, Content
  <2> QED
      BY <2>1, <1>1, <1>2, <1>5
<1>9. WorkerInv' /\ worker' \in [Workers -> Worker]
  <2>1. ASSUME NEW p \in OpIds, ops[p].iid \in Issues \cup {NoIid}
        PROVE  ops'[p].iid \in {ops[p].iid, NoIid}
      BY <2>1, <1>2, <1>c, <1>7 DEF Claimed
  <2>2. History
      BY <2>1, <1>u, <1>7 DEF History
  <2> QED
      BY <2>2, <1>u, EndOfAttempt
<1>10. TypeOK'
    BY <1>u, <1>7, <1>8, <1>9 DEF IInv, TypeOK
<1> HIDE DEF o, i, j
<1>11. OpsNameRows'
  <2> SUFFICES ASSUME NEW p \in OpIds, ops'[p].iid # NoIid
               PROVE  rows'[ops'[p].iid].sync # "absent"
      BY DEF OpsNameRows, Present
  <2>1. ops[p].iid # NoIid /\ ops[p].iid \in Iids /\ rows[ops[p].iid].sync # "absent"
      BY <1>2, <1>7 DEF IInv, OpsNameRows, Present, Op
  <2>2. CASE ops[p].iid = i
    <3>1. ops'[p].iid = j /\ r # NoRow
        BY <2>2, <1>7
    <3>2. r.sync # "absent"
        BY <3>1, <1>5
    <3> QED
        BY <3>1, <3>2, <1>8
  <2>3. CASE ops[p].iid # i
    <3>1. ops'[p].iid = ops[p].iid /\ ops[p].iid # j
        BY <2>3, <1>7
    <3> QED
        BY <3>1, <2>1, <2>3, <1>8
  <2> QED
      BY <2>2, <2>3
<1>12. ChipTruth'
  <2> SUFFICES ASSUME NEW k \in Iids PROVE Truthful(k)'
      BY DEF ChipTruth
  <2>1. CASE k # i /\ k # j
    <3>1. rows'[k] = rows[k] /\ rows[k].ptr # o
        BY <2>1, <1>8, <1>a
    <3>2. rows[k].ptr \in OpIds => ops[rows[k].ptr].iid = k
        BY PointerNames
    <3>3. rows[k].ptr \in OpIds => /\ ops'[rows[k].ptr].iid = ops[rows[k].ptr].iid
                                   /\ ops'[rows[k].ptr].state = ops[rows[k].ptr].state
        BY <2>1, <3>1, <3>2, <1>7
    <3> QED
        BY <3>1, <3>3, TruthfulKept
  <2>2. CASE k = i /\ i # j
      BY <2>2, <1>8 DEF Truthful, NoRow
  <2>3. CASE k = j
    <3>1. CASE r = NoRow \/ (r.sync = "synced" /\ r.ptr = NoOp)
        BY <2>3, <3>1, <1>8 DEF Truthful, NoRow
    <3>2. CASE /\ r.sync = rows[i].sync /\ r.ptr = rows[i].ptr /\ r.ptr # o
               /\ r.sync \in {"pending", "failed"}
      <4>1. /\ r # NoRow /\ rows[i].ptr \in OpIds /\ rows[i].ptr # o
            /\ ops[rows[i].ptr].iid = i
            /\ rows[i].sync = "pending" => Unfinished(rows[i].ptr)
            /\ rows[i].sync = "failed" => ops[rows[i].ptr].state = "failed"
          BY <3>2, <1>2 DEF NoRow, IInv, ChipTruth, Truthful, Row
      <4>2. ops'[r.ptr].iid = j /\ ops'[r.ptr].state = ops[r.ptr].state
          BY <3>2, <4>1, <1>7
      <4> QED
          BY <2>3, <3>2, <4>1, <4>2, <1>8 DEF Truthful, Unfinished
    <3> QED
        BY <3>1, <3>2, <1>5
  <2> QED
      BY <2>1, <2>2, <2>3
<1>13. Numbering'
    BY <1>2, <1>u, <1>7 DEF IInv, Numbering
<1>14. CreateKeys'
  <2> SUFFICES ASSUME NEW p \in OpIds, ops'[p].kind = "create", ops'[p].state # "synced"
               PROVE  ops'[p].iid \in {-p, NoIid}
      BY DEF CreateKeys
  <2>1. p # o /\ ops[p].iid \in {-p, NoIid}
      BY <1>7 DEF IInv, CreateKeys
  <2>2. ops[p].iid = i => i = j
      BY <2>1, <1>2
  <2> QED
      BY <2>1, <2>2, <1>2, <1>7
<1>15. TempRows'
  <2> SUFFICES ASSUME NEW p \in OpIds, rows'[-p].sync # "absent"
               PROVE  ops'[p].kind = "create" /\ ops'[p].iid = -p
      BY DEF TempRows, Present
  <2>1. -p \in Iids /\ -p # j /\ -p # i
      BY <1>2, <1>8 DEF NoRow
  <2>2. ops[p].kind = "create" /\ ops[p].iid = -p
      BY <2>1, <1>8 DEF IInv, TempRows, Present
  <2> QED
      BY <2>1, <2>2, <1>7
<1>16. SyncedReached' /\ DeletedIsGone'
    BY <1>2, <1>u, <1>7 DEF IInv, SyncedReached, DeletedIsGone
<1> QED
    BY <1>9, <1>10, <1>11, <1>12, <1>13, <1>14, <1>15, <1>16 DEF IInv

-----------------------------------------------------------------------------
(* The theorems.                                                           *)

LEMMA NextIInv == IInv /\ [Next]_vars => IInv'
<1> SUFFICES ASSUME IInv, [Next]_vars PROVE IInv'
    OBVIOUS
<1>1. CASE Mutation
    BY <1>1, MutationSubmits, SubmittedStep
<1>2. CASE Retry
    BY <1>2, RetryOperationStep DEF Retry
<1>3. CASE Reader
    BY <1>3, ReconcileIssueStep, ReadIssueStep DEF Reader
<1>4. CASE External
    BY <1>4, ExternalChangeStep DEF External
<1>5. ASSUME NEW w \in Workers, Advance(w) PROVE IInv'
    BY <1>5, ClaimOperationStep, CallGitLabStep, CallFindsNothingStep, CompleteOperationStep,
       CompleteDeleteOperationStep, FailOperationStep, RollBackStep DEF Advance
<1>6. ASSUME NEW w \in Workers, Fault(w) PROVE IInv'
    BY <1>6, CallLosesAnswerStep, CallRejectedStep, WorkerCrashStep DEF Fault
<1>7. ASSUME NEW o \in OpIds, LeaseLapses(o) PROVE IInv'
    BY <1>7, LeaseLapsesStep
<1>8. CASE UNCHANGED vars
  <2>1. /\ TypeOK' /\ OpsNameRows' /\ ChipTruth' /\ Numbering' /\ CreateKeys'
        /\ TempRows' /\ SyncedReached' /\ DeletedIsGone'
      BY <1>8 DEF vars, IInv, TypeOK, OpsNameRows, ChipTruth, Truthful, Numbering, CreateKeys,
                  TempRows, SyncedReached, DeletedIsGone, Unfinished, Present
  <2>2. History
      BY <1>8, Types DEF vars, History
  <2>3. WorkerInv'
      BY <1>8, <2>2, WorkerKept DEF vars, IInv, WorkerInv
  <2> QED
      BY <2>1, <2>3 DEF IInv
<1> QED
    BY <1>1, <1>2, <1>3, <1>4, <1>5, <1>6, <1>7, <1>8 DEF Next

\* Every reachable state satisfies the inductive invariant.
THEOREM Invariance == Spec => []IInv
BY InitIInv, NextIInv, PTL DEF Spec

\* Every variable keeps its type: no operation, row or answer ever holds a value the
\* tables do not admit (issue_cache, durable_operations and the worker's memory).
THEOREM TypeCorrect == Spec => []TypeOK
<1>1. IInv => TypeOK
    BY DEF IInv
<1> QED
    BY <1>1, Invariance, PTL

\* The sync chip of a card (issue_cache.sync_state and pending_operation_id) never
\* disagrees with the operation queue, whatever is lost, retried or overtaken.
THEOREM ChipsAreTrue == Spec => []ChipTruth
<1>1. IInv => ChipTruth
    BY DEF IInv
<1> QED
    BY <1>1, Invariance, PTL

\* CompleteOperation and CompleteDeleteOperation report only what reached GitLab.
THEOREM SyncedMeansReached == Spec => []SyncedReached
<1>1. IInv => SyncedReached
    BY DEF IInv
<1> QED
    BY <1>1, Invariance, PTL

\* CompleteDeleteOperation removes a card only once its issue is gone from GitLab.
THEOREM DeletedMeansGone == Spec => []DeletedIsGone
<1>1. IInv => DeletedIsGone
    BY DEF IInv
<1> QED
    BY <1>1, Invariance, PTL

-----------------------------------------------------------------------------
(* A card shows its newest edit.                                           *)

\* The strengthening of IntentShown: the card of a create waits or shows the failure
\* until GitLab has it, so that a failed create takes it back from an edit only, and
\* deletions are of issues.
TempsWait == \A o \in OpIds : rows[-o].sync # "synced"
DeletesOfIssues == \A o \in OpIds : ops[o].kind = "delete" => ops[o].iid \in Issues \cup {NoIid}
IntentInv == IntentShown /\ TempsWait /\ DeletesOfIssues

\* A card that waits for an edit, or shows the failure of one.
InEdit(i) == rows[i].sync \in {"pending", "failed"} /\ ops[rows[i].ptr].kind # "delete"

\* The card after the step is one there was before it, with the same edits.
Continues(i, k) ==
    /\ InEdit(k) /\ rows'[i].val = rows[k].val
    /\ \A o \in OpIds : o <= opCount /\ ops'[o].iid = i <=> o <= opCount /\ ops[o].iid = k

LEMMA IntentCarried ==
    ASSUME IntentShown, opCount' = opCount,
           \A o \in OpIds : ops'[o].kind = ops[o].kind,
           \A i \in Iids : InEdit(i)' => \E k \in Iids : Continues(i, k)
    PROVE  IntentShown'
<1> SUFFICES ASSUME NEW i \in Iids, InEdit(i)'
             PROVE  /\ rows'[i].val \in Newest(i)'
                    /\ \A o \in Newest(i)' : o <= rows'[i].val
    BY DEF IntentShown, InEdit
<1>1. PICK k \in Iids : Continues(i, k)
    OBVIOUS
<1>2. Newest(i)' = Newest(k)
    BY <1>1 DEF Continues, Newest
<1>3. rows[k].val \in Newest(k) /\ \A o \in Newest(k) : o <= rows[k].val
    BY <1>1 DEF Continues, InEdit, IntentShown
<1> QED
    BY <1>1, <1>2, <1>3 DEF Continues

\* Nothing that concerns the edits of a card changes.
LEMMA IntentUntouched ==
    ASSUME IntentInv, UNCHANGED <<rows, opCount>>,
           \A o \in OpIds : ops'[o].kind = ops[o].kind /\ ops'[o].iid = ops[o].iid, IInv
    PROVE  IntentInv'
<1>1. ASSUME NEW i \in Iids, InEdit(i)' PROVE Continues(i, i)
  <2>1. rows[i].ptr \in OpIds
      BY <1>1, Types DEF InEdit, IInv, ChipTruth, Truthful, Row
  <2> QED
      BY <1>1, <2>1 DEF InEdit, Continues
<1>2. IntentShown'
    BY <1>1, IntentCarried DEF IntentInv
<1> QED
    BY <1>2 DEF IntentInv, TempsWait, DeletesOfIssues

LEMMA SubmittedIntent ==
    ASSUME IInv, IntentInv, NEW o, NEW i, NEW kind, Submitted(o, i, kind)
    PROVE  IntentInv'
<1> USE Keys, Types
<1>1. /\ o \in OpIds /\ o = opCount + 1 /\ opCount' = o /\ i \in Iids /\ ops[o].iid = NoIid
      /\ kind \in Kinds /\ (kind = "create" => i = -o) /\ (kind = "delete" => i \in Issues)
    BY DEF Submitted, IInv, Numbering
<1>2. /\ ops'[o].kind = kind /\ ops'[o].iid = i
      /\ \A p \in OpIds : p # o => ops'[p] = ops[p]
  <2>1. PICK at \in Stamps : ops' = [ops EXCEPT ![o] = NewOp(kind, i, at)]
      BY DEF Submitted
  <2> QED
      BY <1>1, <2>1 DEF NewOp
<1>3. PICK r \in Row : /\ r.sync = "pending" /\ r.ptr = o /\ (kind # "delete" => r.val = o)
                       /\ rows' = [rows EXCEPT ![i] = r]
    BY DEF Submitted
<1>4. \A p \in OpIds : p <= opCount' <=> p <= opCount \/ p = o
    BY <1>1
<1>5. ASSUME NEW k \in Iids, InEdit(k)'
      PROVE  rows'[k].val \in Newest(k)' /\ \A p \in Newest(k)' : p <= rows'[k].val
  <2>1. CASE k = i
    <3>1. rows'[k] = r /\ kind # "delete" /\ r.val = o
        BY <2>1, <1>1, <1>2, <1>3, <1>5 DEF InEdit
    <3> QED
        BY <2>1, <3>1, <1>1, <1>2, <1>4 DEF Newest
  <2>2. CASE k # i
    <3>1. rows'[k] = rows[k] /\ rows[k].ptr \in OpIds /\ rows[k].ptr # o
      <4>1. rows'[k] = rows[k]
          BY <2>2, <1>3
      <4>2. rows[k].ptr \in OpIds /\ ops[rows[k].ptr].iid = k
          BY <4>1, <1>5 DEF InEdit, IInv, ChipTruth, Truthful, Row
      <4> QED
          BY <4>1, <4>2, <1>1
    <3>2. InEdit(k)
        BY <3>1, <1>2, <1>5 DEF InEdit
    <3>3. Newest(k)' = Newest(k)
        BY <2>2, <1>1, <1>2, <1>4 DEF Newest
    <3> QED
        BY <3>1, <3>2, <3>3 DEF IntentInv, IntentShown, InEdit
  <2> QED
      BY <2>1, <2>2
<1>6. IntentShown'
    BY <1>5 DEF IntentShown, InEdit
<1>7. TempsWait'
    BY <1>3 DEF IntentInv, TempsWait
<1>8. DeletesOfIssues'
    BY <1>1, <1>2 DEF IntentInv, DeletesOfIssues
<1> QED
    BY <1>6, <1>7, <1>8 DEF IntentInv

\* On a current screen the operation that is retried is the card's own.
LEMMA RetriedIsCurrent ==
    ASSUME IInv, ~StaleScreens, NEW o \in OpIds, RetryOperation(o)
    PROVE  ops[o].iid \in Iids /\ rows[ops[o].iid].ptr = o /\ rows[ops[o].iid].sync = "failed"
<1>1. PICK k \in Iids : rows[k].sync = "failed" /\ rows[k].ptr = o
    BY DEF RetryOperation, OnScreen
<1>2. ops[o].iid = k
    BY <1>1, PointerNames
<1> QED
    BY <1>1, <1>2

LEMMA RetryEffect ==
    ASSUME IInv, ~StaleScreens, NEW o \in OpIds, RetryOperation(o)
    PROVE  LET i == ops[o].iid
           IN  /\ i \in Iids /\ rows[i].ptr = o /\ rows[i].sync = "failed"
               /\ rows'[i].sync = "pending" /\ rows'[i].ptr = o
               /\ rows'[i].val = rows[i].val /\ rows'[i].ver = rows[i].ver
               /\ \A k \in Iids : k # i => rows'[k] = rows[k]
               /\ ops[o].state = "failed" /\ ops'[o].state = "pending"
               /\ \A p \in OpIds : /\ ops'[p].kind = ops[p].kind /\ ops'[p].iid = ops[p].iid
                                   /\ ops'[p].at = ops[p].at
                                   /\ p # o => ops'[p] = ops[p]
               /\ UNCHANGED <<opCount, gl, worker, read, reached, deleted, late>>
<1> USE Keys, Types
<1> DEFINE i == ops[o].iid
<1>1. i \in Iids /\ rows[i].ptr = o /\ rows[i].sync = "failed" /\ i # NoIid
    BY RetriedIsCurrent
<1>2. /\ ops' = [ops EXCEPT ![o] = Marked(ops[o], "pending", FALSE)] /\ ops[o].state = "failed"
      /\ rows' = [rows EXCEPT ![i] = Queued(rows[i], o, rows[i].val)]
      /\ UNCHANGED <<opCount, gl, worker, read, reached, deleted, late>>
    BY <1>1 DEF RetryOperation
<1> QED
    BY <1>1, <1>2 DEF Marked, Queued

LEMMA RetryIntent ==
    ASSUME IInv, IntentInv, ~StaleScreens, NEW o \in OpIds, RetryOperation(o)
    PROVE  IntentInv'
<1> DEFINE i == ops[o].iid
<1>1. /\ i \in Iids /\ rows[i].ptr = o /\ rows[i].sync = "failed"
      /\ rows'[i].sync = "pending" /\ rows'[i].ptr = o /\ rows'[i].val = rows[i].val
      /\ \A k \in Iids : k # i => rows'[k] = rows[k]
      /\ \A p \in OpIds : ops'[p].kind = ops[p].kind /\ ops'[p].iid = ops[p].iid
      /\ opCount' = opCount
    BY RetryEffect
<1> USE Keys, Types
<1>2. ASSUME NEW k \in Iids, InEdit(k)' PROVE Continues(k, k)
  <2>1. CASE k = i
      BY <2>1, <1>1, <1>2 DEF InEdit, Continues
  <2>2. CASE k # i
    <3>1. rows'[k] = rows[k] /\ rows[k].ptr \in OpIds
        BY <2>2, <1>1, <1>2 DEF InEdit, IInv, ChipTruth, Truthful, Row
    <3> QED
        BY <3>1, <1>1, <1>2 DEF InEdit, Continues
  <2> QED
      BY <2>1, <2>2
<1>3. IntentShown'
    BY <1>1, <1>2, IntentCarried DEF IntentInv
<1>4. TempsWait'
  <2> SUFFICES ASSUME NEW p \in OpIds PROVE rows'[-p].sync # "synced"
      BY DEF TempsWait
  <2> QED
      BY <1>1 DEF IntentInv, TempsWait
<1> QED
    BY <1>1, <1>3, <1>4 DEF IntentInv, DeletesOfIssues

LEMMA ReconcileIntent == ASSUME IInv, IntentInv, ReconcileIssue PROVE IntentInv'
<1> USE Keys, Types
<1> DEFINE i == read.iid
<1>1. PICK r \in Row : Reconciled(i, r)
    BY ReconcileEffect
<1>2. ASSUME NEW k \in Iids, InEdit(k)' PROVE Continues(k, k)
  <2>1. rows'[k] = rows[k]
    <3>1. CASE k = i
      <4>1. rows'[k] = r
          BY <3>1, <1>1 DEF Reconciled
      <4>2. r.sync \in {"pending", "failed"}
          BY <4>1, <1>2 DEF InEdit
      <4> QED
          BY <3>1, <4>1, <4>2, <1>1 DEF Reconciled, NoRow
    <3>2. CASE k # i
        BY <3>2, <1>1 DEF Reconciled
    <3> QED
        BY <3>1, <3>2
  <2>2. rows[k].ptr \in OpIds
      BY <2>1, <1>2 DEF InEdit, IInv, ChipTruth, Truthful, Row
  <2>3. k = i => r # NoRow
      BY <2>1, <1>1, <1>2 DEF InEdit, Reconciled
  <2>4. \A p \in OpIds : ops'[p].kind = ops[p].kind /\ (ops'[p].iid = k <=> ops[p].iid = k)
      BY <2>3, <1>1 DEF Reconciled
  <2> QED
      BY <2>1, <2>2, <2>4, <1>2 DEF InEdit, Continues
<1>3. opCount' = opCount /\ \A p \in OpIds : ops'[p].kind = ops[p].kind
    BY <1>1 DEF Reconciled
<1>4. IntentShown'
    BY <1>2, <1>3, IntentCarried DEF IntentInv
<1>5. TempsWait'
    BY <1>1 DEF Reconciled, IntentInv, TempsWait
<1>6. DeletesOfIssues'
    BY <1>1 DEF Reconciled, IntentInv, DeletesOfIssues
<1> QED
    BY <1>4, <1>5, <1>6 DEF IntentInv

LEMMA RemovalIntent ==
    ASSUME IInv, IntentInv, NEW w \in Workers, CompleteDeleteOperation(w) PROVE IntentInv'
<1> USE Keys, Types
<1> DEFINE o == worker[w].op
           i == worker[w].iid
<1>1. Removed(o, i)
    BY RemovalEffect
<1>2. ASSUME NEW k \in Iids, InEdit(k)' PROVE Continues(k, k)
  <2>1. k # i /\ rows'[k] = rows[k]
      BY <1>1, <1>2 DEF Removed, InEdit, NoRow
  <2>2. rows[k].ptr \in OpIds
      BY <2>1, <1>2 DEF InEdit, IInv, ChipTruth, Truthful, Row
  <2>3. \A p \in OpIds : ops'[p].kind = ops[p].kind /\ (ops'[p].iid = k <=> ops[p].iid = k)
      BY <2>1, <1>1 DEF Removed
  <2> QED
      BY <2>1, <2>2, <2>3, <1>2 DEF InEdit, Continues
<1>3. opCount' = opCount /\ \A p \in OpIds : ops'[p].kind = ops[p].kind
    BY <1>1 DEF Removed
<1>4. IntentShown'
    BY <1>2, <1>3, IntentCarried DEF IntentInv
<1>5. TempsWait' /\ DeletesOfIssues'
    BY <1>1 DEF Removed, IntentInv, TempsWait, DeletesOfIssues, NoRow
<1> QED
    BY <1>4, <1>5 DEF IntentInv

LEMMA FailureIntent ==
    ASSUME IInv, IntentInv, NEW w \in Workers, FailOperation(w) PROVE IntentInv'
<1> USE Keys, Types
<1> DEFINE o == worker[w].op
           i == worker[w].iid
<1>1. PICK r \in Row : FailedAs(o, i, r)
    BY FailureEffect
<1>2. ASSUME NEW k \in Iids, InEdit(k)' PROVE Continues(k, k)
  <2>1. \A p \in OpIds : ops'[p].kind = ops[p].kind /\ ops'[p].iid = ops[p].iid
      BY <1>1 DEF FailedAs
  <2>2. CASE k # i
    <3>1. rows'[k] = rows[k] /\ rows[k].ptr \in OpIds
        BY <2>2, <1>1, <1>2 DEF FailedAs, InEdit, IInv, ChipTruth, Truthful, Row
    <3> QED
        BY <3>1, <2>1, <1>2 DEF InEdit, Continues
  <2>3. CASE k = i
    <3>1. rows'[k] = r /\ r.val = rows[k].val /\ r.sync \in {"pending", "failed"}
          /\ ops'[r.ptr].kind # "delete"
      <4>1. rows'[k] = r /\ r.val = rows[k].val
          BY <2>3, <1>1 DEF FailedAs
      <4> QED
          BY <4>1, <1>2 DEF InEdit
    <3>2. InEdit(k)
      <4>1. CASE ops[o].kind = "create"
        <5>1. k = -o /\ o \in OpIds /\ Present(k)
            BY <4>1, <2>3, <1>1 DEF FailedAs
        <5>2. rows[k].sync \in {"pending", "failed"}
            BY <5>1 DEF IntentInv, TempsWait, Present, Row
        <5>3. rows[k].ptr \in OpIds /\ ops[rows[k].ptr].iid = k
            BY <5>2 DEF IInv, ChipTruth, Truthful, Row
        <5>4. k \notin Issues \cup {NoIid}
            BY <5>1
        <5> QED
            BY <5>2, <5>3, <5>4 DEF IntentInv, DeletesOfIssues, InEdit
      <4>2. CASE ops[o].kind # "create" /\ rows[i].ptr = o
        <5>1. rows[i].sync \in {"pending", "failed"} /\ o \in OpIds /\ r.ptr = o
            BY <4>2, <1>1, PointerNames DEF FailedAs
        <5> QED
            BY <2>1, <2>3, <3>1, <4>2, <5>1 DEF InEdit
      <4>3. CASE ops[o].kind # "create" /\ rows[i].ptr # o
        <5>1. r.sync = rows[i].sync /\ r.ptr = rows[i].ptr
            BY <4>3, <1>1 DEF FailedAs
        <5>2. rows[i].ptr \in OpIds
            BY <2>3, <3>1, <5>1 DEF IInv, ChipTruth, Truthful, Row
        <5> QED
            BY <2>1, <2>3, <3>1, <5>1, <5>2 DEF InEdit
      <4> QED
          BY <4>1, <4>2, <4>3
    <3> QED
        BY <2>1, <3>1, <3>2 DEF Continues
  <2> QED
      BY <2>2, <2>3
<1>3. opCount' = opCount /\ \A p \in OpIds : ops'[p].kind = ops[p].kind
    BY <1>1 DEF FailedAs
<1>4. IntentShown'
    BY <1>2, <1>3, IntentCarried DEF IntentInv
<1>5. TempsWait'
  <2> SUFFICES ASSUME NEW p \in OpIds PROVE rows'[-p].sync # "synced"
      BY DEF TempsWait
  <2>1. rows[-p].sync # "synced"
      BY DEF IntentInv, TempsWait
  <2>2. -p = i => r.sync # "synced"
      BY <2>1, <1>1 DEF FailedAs
  <2> QED
      BY <2>1, <2>2, <1>1 DEF FailedAs
<1>6. DeletesOfIssues'
    BY <1>1 DEF FailedAs, IntentInv, DeletesOfIssues
<1> QED
    BY <1>4, <1>5, <1>6 DEF IntentInv

LEMMA CompletionIntent ==
    ASSUME IInv, IntentInv, NEW w \in Workers, CompleteOperation(w) PROVE IntentInv'
<1> USE Keys, Types
<1> DEFINE o == worker[w].op
           i == worker[w].iid
           j == worker[w].ans.iid
<1>1. PICK r \in Row : Settles(o, i, j, r, worker[w].ans.ver)
    BY CompletionEffect
<1> HIDE DEF o, i, j
<1>2. /\ i \in Iids /\ j \in Iids /\ j \in Issues /\ rows'[j] = r
      /\ (i # j => rows'[i] = NoRow)
      /\ \A k \in Iids : k # i /\ k # j => rows'[k] = rows[k]
    BY <1>1 DEF Settles
<1>3. opCount' = opCount /\ \A p \in OpIds : ops'[p].kind = ops[p].kind
                                         /\ ops'[p].iid = Moved(ops[p].iid, i, j, r)
    BY <1>1 DEF Settles
<1>4. ASSUME NEW k \in Iids, InEdit(k)' PROVE \E m \in Iids : Continues(k, m)
  <2>1. CASE k # i /\ k # j
    <3>1. rows'[k] = rows[k] /\ rows[k].ptr \in OpIds
        BY <2>1, <1>2, <1>4 DEF InEdit, IInv, ChipTruth, Truthful, Row
    <3>2. \A p \in OpIds : ops'[p].iid = k <=> ops[p].iid = k
        BY <2>1, <1>3 DEF Moved
    <3> QED
        BY <3>1, <3>2, <1>3, <1>4 DEF InEdit, Continues
  <2>2. CASE k = i /\ i # j
      BY <2>2, <1>2, <1>4 DEF InEdit, NoRow
  <2>3. CASE k = j
    <3>1. r.sync \in {"pending", "failed"} /\ ops'[r.ptr].kind # "delete" /\ r # NoRow
        BY <2>3, <1>2, <1>4 DEF InEdit, NoRow
    <3>2. r.sync = rows[i].sync /\ r.ptr = rows[i].ptr /\ r.val = rows[i].val
        BY <3>1, <1>1 DEF Settles
    <3>3. rows[i].ptr \in OpIds
        BY <3>1, <3>2, <1>2 DEF IInv, ChipTruth, Truthful, Row
    <3>4. \A p \in OpIds : ops'[p].iid = j <=> ops[p].iid = i
        BY <3>1, <1>2, <1>3 DEF Moved
    <3>5. InEdit(i)
        BY <3>1, <3>2, <3>3, <1>3 DEF InEdit
    <3>6. Continues(k, i)
        BY <2>3, <3>2, <3>4, <3>5, <1>2 DEF Continues
    <3> QED
        BY <3>6, <1>2
  <2> QED
      BY <2>1, <2>2, <2>3
<1>5. IntentShown'
    BY <1>3, <1>4, IntentCarried DEF IntentInv
<1>6. TempsWait'
  <2> SUFFICES ASSUME NEW p \in OpIds PROVE rows'[-p].sync # "synced"
      BY DEF TempsWait
  <2>1. rows[-p].sync # "synced" /\ -p \in Iids /\ -p # j
      BY <1>2 DEF IntentInv, TempsWait
  <2> QED
      BY <2>1, <1>2 DEF NoRow
<1>7. DeletesOfIssues'
    BY <1>2, <1>3 DEF Moved, IntentInv, DeletesOfIssues
<1> QED
    BY <1>5, <1>6, <1>7 DEF IntentInv

LEMMA IntentKept ==
    ASSUME ~StaleScreens, IInv, IntentInv, [Next]_vars PROVE IntentInv'
<1>1. CASE Mutation
    BY <1>1, MutationSubmits, SubmittedIntent
<1>2. CASE Retry
    BY <1>2, RetryIntent DEF Retry
<1>3. CASE ReconcileIssue
    BY <1>3, ReconcileIntent
<1>4. ASSUME NEW w \in Workers,
             CompleteOperation(w) \/ CompleteDeleteOperation(w) \/ FailOperation(w)
      PROVE  IntentInv'
    BY <1>4, CompletionIntent, RemovalIntent, FailureIntent
<1>5. ASSUME UNCHANGED <<ops, opCount, rows>> PROVE IntentInv'
    BY <1>5, IntentUntouched
<1>6. CASE (\E i \in Issues : ReadIssue(i)) \/ External \/ UNCHANGED vars
    BY <1>5, <1>6 DEF ReadIssue, External, ExternalChange, vars
<1>7. ASSUME NEW w \in Workers,
             \/ CallGitLab(w) \/ CallFindsNothing(w) \/ RollBack(w) \/ Fault(w)
      PROVE  IntentInv'
    BY <1>5, <1>7 DEF CallGitLab, CallFindsNothing, RollBack, Fault, CallLosesAnswer,
       CallRejected, WorkerCrash
<1>8. ASSUME NEW w \in Workers, ClaimOperation(w) PROVE IntentInv'
  <2>1. UNCHANGED <<opCount, rows>> /\ \A o \in OpIds : ops'[o].kind = ops[o].kind
                                                       /\ ops'[o].iid = ops[o].iid
      BY <1>8, Types DEF ClaimOperation, Marked
  <2> QED
      BY <2>1, IntentUntouched
<1>9. ASSUME NEW p \in OpIds, LeaseLapses(p) PROVE IntentInv'
  <2>1. UNCHANGED <<opCount, rows>> /\ \A o \in OpIds : ops'[o].kind = ops[o].kind
                                                       /\ ops'[o].iid = ops[o].iid
      BY <1>9, Types DEF LeaseLapses, Marked
  <2> QED
      BY <2>1, IntentUntouched
<1> QED
    BY <1>1, <1>2, <1>3, <1>4, <1>6, <1>7, <1>8, <1>9 DEF Next, Reader, Advance

\* As long as nobody presses Retry on a screen that is behind, a card that waits or
\* shows a failure shows the newest edit anybody made: no merge, answer or failure of
\* an older operation replaces it (repository.go CompleteOperation, FailOperation).
THEOREM IntentStaysShown == ASSUME ~StaleScreens PROVE Spec => []IntentShown
<1>1. Init => IntentInv
  <2> SUFFICES ASSUME Init PROVE IntentInv
      OBVIOUS
  <2>1. IntentShown /\ TempsWait
      BY Keys, ConstantsAssumption DEF Init, IntentShown, TempsWait, NoRow
  <2>2. DeletesOfIssues
      BY DEF Init, DeletesOfIssues
  <2> QED
      BY <2>1, <2>2 DEF IntentInv
<1>2. IInv /\ IntentInv /\ [Next]_vars => IntentInv'
    BY IntentKept
<1>3. IntentInv => IntentShown
    BY DEF IntentInv
<1> QED
    BY <1>1, <1>2, <1>3, Invariance, PTL DEF Spec

-----------------------------------------------------------------------------
(* The queue of a card that no create brought in.                          *)

\* GitLab has the card and is never behind its row.
KnownIssues == \A i \in Known : gl[i].st # "unborn" /\ rows[i].ver <= gl[i].ver

CreatesElsewhere == \A o \in OpIds : ops[o].kind = "create" => ops[o].iid \notin Known

\* While an operation is in its card's queue, those stored after it have later stamps
\* and have not been started.
Waits(p, q) == Unfinished(p) => ops[q].state = "pending" /\ ops[p].at < ops[q].at
QueueOrder ==
    \A p, q \in OpIds : p < q /\ ops[p].iid = ops[q].iid /\ ops[q].iid \in InOrder => Waits(p, q)

\* The card's current operation is its newest; of a card without one the newest operation
\* has not failed, and if its requests came in order nothing is in the queue.
Last(p) == \A q \in OpIds : ops[q].iid = ops[p].iid => q <= p
CurrentIsNewest ==
    \A i \in Known : \A p \in OpIds : ops[p].iid = i =>
        IF rows[i].ptr = NoOp
        THEN (Last(p) => ops[p].state = "synced") /\ (i \in InOrder => ~Unfinished(p))
        ELSE p <= rows[i].ptr

\* What has been read of the card is not newer than GitLab.
ReadIsOld == read.iid \in Known => read.ver <= gl[read.iid].ver

\* A worker alone has its operation, which is in processing and whose lease stands.
Holds(w) ==
    worker[w].pc # "idle" =>
        /\ ops[worker[w].op].state = "processing" /\ ~ops[worker[w].op].lapsed
        /\ \A v \in Workers : v # w /\ worker[v].pc # "idle" => worker[v].op # worker[w].op

\* The card stays while a worker has an operation of it, and what the worker was
\* answered is not older than the row.
AtWork(w) ==
    /\ worker[w].pc # "idle" /\ worker[w].iid \in InOrder =>
          /\ ops[worker[w].op].iid = worker[w].iid
          /\ worker[w].pc = "answered" => rows[worker[w].iid].ver <= worker[w].ans.ver
    /\ worker[w].pc = "answered" /\ worker[w].ans.iid \in Known =>
          /\ ops[worker[w].op].kind # "create"
          /\ worker[w].ans.ver <= gl[worker[w].ans.iid].ver

QueueInv ==
    /\ KnownIssues /\ CreatesElsewhere /\ QueueOrder /\ CurrentIsNewest /\ ReadIsOld
    /\ \A w \in Workers : Holds(w) /\ AtWork(w)

LEMMA KnownKeys ==
    /\ Known \subseteq Issues /\ Known \subseteq Iids /\ NoIid \notin Known
    /\ \A o \in OpIds : -o \notin Known
    /\ InOrder \subseteq Known
BY Keys, ConstantsAssumption DEF InOrder

\* A worker on a card of GitLab has an edit or a deletion.
LEMMA WorkerOnKnown ==
    ASSUME IInv, NEW w \in Workers, worker[w].pc # "idle"
    PROVE  /\ worker[w].op \in OpIds /\ worker[w].op <= opCount /\ worker[w].iid \in Iids
           /\ worker[w].iid \in Known => ops[worker[w].op].kind # "create"
           /\ ops[worker[w].op].kind # "create" => ops[worker[w].op].iid \in {worker[w].iid, NoIid}
           /\ worker[w].pc = "answered" => /\ worker[w].ans.iid \in Issues
                                           /\ ops[worker[w].op].kind # "create" =>
                                                 worker[w].ans.iid = worker[w].iid
<1>1. Claimed(worker[w]) /\ (worker[w].pc = "answered" => Told(worker[w]))
    BY DEF IInv, WorkerInv, WorkerFacts
<1>2. worker[w].op \in OpIds /\ worker[w].op <= opCount
    BY <1>1, Types DEF Claimed
<1>3. worker[w].iid \in Iids
    BY <1>1, <1>2, Keys DEF Claimed
<1> QED
    BY <1>1, <1>2, <1>3, KnownKeys DEF Claimed, Told

\* Two operations of one card are never both being carried out.
LEMMA OneInProcessing ==
    ASSUME QueueInv, NEW p \in OpIds, NEW q \in OpIds, ops[p].state = "processing",
           ops[q].state = "processing", ops[p].iid = ops[q].iid, ops[q].iid \in InOrder
    PROVE  p = q
<1>1. ~(p < q) /\ ~(q < p)
    BY DEF QueueInv, QueueOrder, Waits, Unfinished
<1> QED
    BY <1>1, Keys

LEMMA AloneOnCard ==
    ASSUME IInv, QueueInv, NEW v \in Workers, NEW w \in Workers, v # w,
           worker[v].pc # "idle", worker[w].pc # "idle", worker[v].iid \in InOrder
    PROVE  worker[v].iid # worker[w].iid
<1>1. /\ Holds(v) /\ Holds(w) /\ AtWork(v) /\ AtWork(w)
    BY DEF QueueInv
<1>2. worker[v].op \in OpIds /\ worker[w].op \in OpIds
    BY WorkerOnKnown
<1>3. /\ ops[worker[v].op].state = "processing" /\ ops[worker[w].op].state = "processing"
      /\ worker[w].op # worker[v].op
    BY <1>1 DEF Holds
<1>4. ASSUME worker[v].iid = worker[w].iid PROVE FALSE
  <2>1. ops[worker[v].op].iid = worker[v].iid /\ ops[worker[w].op].iid = worker[v].iid
      BY <1>1, <1>4 DEF AtWork
  <2> QED
      BY <2>1, <1>2, <1>3, OneInProcessing
<1> QED
    BY <1>4

\* GitLab only moves on.
GitLabGrows ==
    \A i \in Known : /\ gl[i].st # "unborn" => gl'[i].st # "unborn"
                     /\ gl[i].ver <= gl'[i].ver /\ gl'[i].ver \in Nat

\* A worker that moves without the tables keeps its claim or forgets it; what it is
\* told of a card is the card as GitLab has it now.
LEMMA WorkerMoves ==
    ASSUME IInv, QueueInv, NEW w \in Workers, NEW k \in Worker,
           worker' = [worker EXCEPT ![w] = k], UNCHANGED <<ops, rows, read, late>>, GitLabGrows,
           k.pc # "idle" => /\ worker[w].pc # "idle"
                            /\ k.op = worker[w].op /\ k.iid = worker[w].iid,
           k.pc = "answered" =>
               /\ k.ans.iid \in Known => ops[k.op].kind # "create" /\ k.ans.ver = gl'[k.ans.iid].ver
               /\ k.iid \in Known => k.ans.iid = k.iid
    PROVE  QueueInv'
<1> USE Types, KnownKeys
<1>1. KnownIssues' /\ ReadIsOld'
  <2>1. \A i \in Known : rows[i].ver \in Nat /\ gl[i].ver \in Nat /\ gl[i].st # "unborn" /\ rows[i].ver <= gl[i].ver
      BY DEF QueueInv, KnownIssues, Row, Issue, GitLabGrows
  <2>2. read.ver \in Nat
      BY DEF Answer
  <2>3. KnownIssues'
      BY <2>1 DEF KnownIssues, GitLabGrows
  <2>4. ReadIsOld'
      BY <2>1, <2>2 DEF QueueInv, ReadIsOld, GitLabGrows
  <2> QED
      BY <2>3, <2>4
<1>2. CreatesElsewhere' /\ QueueOrder' /\ CurrentIsNewest'
    BY DEF QueueInv, CreatesElsewhere, QueueOrder, Waits, CurrentIsNewest, Last, Unfinished,
       InOrder
<1>3. ASSUME NEW v \in Workers PROVE Holds(v)'
  <2>1. \A u \in Workers : worker'[u].pc # "idle" => worker[u].pc # "idle" /\ worker'[u].op = worker[u].op
      OBVIOUS
  <2> QED
      BY <2>1 DEF QueueInv, Holds
<1>4. ASSUME NEW v \in Workers PROVE AtWork(v)'
  <2>1. CASE v # w
    <3>1. worker'[v] = worker[v] /\ AtWork(v)
        BY <2>1 DEF QueueInv
    <3>2. worker[v] \in Worker
        OBVIOUS
    <3>3. worker[v].ans.ver \in Nat
        BY <3>2 DEF Worker, Answer
    <3>4. \A i \in Known : gl[i].ver \in Nat /\ gl'[i].ver \in Nat /\ gl[i].ver <= gl'[i].ver
        BY DEF Issue, GitLabGrows
    <3>5. InOrder' = InOrder
        BY DEF InOrder
    <3> QED
        BY <3>1, <3>3, <3>4, <3>5 DEF AtWork
  <2>2. CASE v = w
    <3>1. worker'[v] = k /\ AtWork(w)
        BY <2>2 DEF QueueInv
    <3>2. k.pc = "answered" /\ k.iid \in Known => rows[k.iid].ver <= gl'[k.iid].ver
      <4>1. \A i \in Known : rows[i].ver <= gl'[i].ver
          BY <1>1 DEF KnownIssues
      <4> QED
          BY <4>1
    <3>3. ASSUME k.pc # "idle", k.iid \in InOrder
          PROVE  /\ ops[k.op].iid = k.iid
                 /\ k.pc = "answered" => rows[k.iid].ver <= k.ans.ver
        BY <3>1, <3>2, <3>3 DEF AtWork
    <3>4. ASSUME k.pc = "answered", k.ans.iid \in Known
          PROVE  ops[k.op].kind # "create" /\ k.ans.ver <= gl'[k.ans.iid].ver
      <4>1. gl'[k.ans.iid].ver \in Nat /\ k.ans.ver = gl'[k.ans.iid].ver
          BY <3>4 DEF GitLabGrows
      <4> QED
          BY <3>4, <4>1
    <3>5. InOrder' = InOrder
        BY DEF InOrder
    <3> QED
        BY <3>1, <3>3, <3>4, <3>5 DEF AtWork
  <2> QED
      BY <2>1, <2>2
<1> QED
    BY <1>1, <1>2, <1>3, <1>4 DEF QueueInv

LEMMA EffectGrows ==
    ASSUME IInv, QueueInv, NEW o \in OpIds, NEW i \in Issues, Effect(o, i)
    PROVE  GitLabGrows /\ (ops[o].kind = "create" => i \notin Known)
<1> USE Types, KnownKeys
<1>1. gl[i] \in Issue /\ gl[i].ver \in Nat /\ \A k \in Known : gl[k].ver \in Nat
    BY DEF Issue
<1>2. ASSUME i \in Known PROVE gl[i].st # "unborn"
    BY <1>2 DEF QueueInv, KnownIssues
<1>3. /\ i \in Known => gl'[i].st # "unborn" /\ gl[i].ver <= gl'[i].ver
      /\ \A k \in Issues : k # i => gl'[k] = gl[k]
      /\ ops[o].kind = "create" => i \notin Known
  <2>1. CASE ops[o].kind = "create"
      BY <2>1, <1>2 DEF Effect
  <2>2. CASE ops[o].kind = "update"
      BY <2>2, <1>1 DEF Effect
  <2>3. CASE ops[o].kind = "delete"
    <3>1. gl' = [gl EXCEPT ![i] = Gone(gl[i])]
        BY <2>3 DEF Effect
    <3> QED
        BY <3>1, <2>3, <1>1 DEF Gone
  <2> QED
      BY <2>1, <2>2, <2>3 DEF Effect
<1>4. gl'[i].ver \in Nat
    BY <1>1, EffectOnGitLab DEF GitLabMoves, Issue
<1> QED
    BY <1>1, <1>3, <1>4 DEF GitLabGrows

LEMMA CallQueue ==
    ASSUME IInv, QueueInv, NEW w \in Workers, CallGitLab(w) \/ CallLosesAnswer(w)
    PROVE  QueueInv'
<1> USE Types, KnownKeys
<1> DEFINE o == worker[w].op
<1>1. /\ worker[w].pc = "calling" /\ UNCHANGED <<ops, rows, read, late>>
    BY DEF CallGitLab, CallLosesAnswer
<1>2. PICK i \in Target(w) :
        /\ Effect(o, i)
        /\ \/ worker' = [worker EXCEPT ![w] = Answered(worker[w], Saw(i)')]
           \/ worker' = [worker EXCEPT ![w] = Failing(worker[w])]
    BY DEF CallGitLab, CallLosesAnswer
<1>3. o \in OpIds /\ i \in Issues /\ (ops[o].kind # "create" => i = worker[w].iid)
    BY <1>1, <1>2, TargetIsIssue
<1>4. GitLabGrows /\ (ops[o].kind = "create" => i \notin Known) /\ Saw(i)' \in Answer
    BY <1>2, <1>3, EffectGrows, EffectOnGitLab
<1>5. worker[w].iid \in Known => ops[o].kind # "create"
    BY <1>1, WorkerOnKnown
<1>6. Answered(worker[w], Saw(i)') \in Worker /\ Failing(worker[w]) \in Worker
    BY <1>4, NoAnswerType DEF Answered, Failing, Worker
<1>7. PICK k \in Worker : /\ worker' = [worker EXCEPT ![w] = k]
                          /\ k.op = o /\ k.iid = worker[w].iid
                          /\ k.pc = "answered" => k.ans.iid = i /\ k.ans.ver = gl'[i].ver
  <2>1. CASE worker' = [worker EXCEPT ![w] = Answered(worker[w], Saw(i)')]
      BY <2>1, <1>6 DEF Answered, Saw
  <2>2. CASE worker' = [worker EXCEPT ![w] = Failing(worker[w])]
      BY <2>2, <1>6 DEF Failing
  <2> QED
      BY <2>1, <2>2, <1>2
<1> QED
    BY <1>1, <1>3, <1>4, <1>5, <1>7, WorkerMoves

LEMMA GivesUpQueue ==
    ASSUME IInv, QueueInv, NEW w \in Workers,
           CallRejected(w) \/ CallFindsNothing(w) \/ WorkerCrash(w) \/ RollBack(w)
    PROVE  QueueInv'
<1>1. UNCHANGED <<ops, rows, gl, read, late>>
    BY DEF CallRejected, CallFindsNothing, WorkerCrash, RollBack
<1>2. GitLabGrows
    BY <1>1, Types, KnownKeys DEF GitLabGrows, Issue
<1>3. PICK k \in Worker : /\ worker' = [worker EXCEPT ![w] = k]
                          /\ k.pc # "answered"
                          /\ k.pc # "idle" => /\ worker[w].pc # "idle" /\ k.op = worker[w].op
                                              /\ k.iid = worker[w].iid
  <2>1. CASE worker' = [worker EXCEPT ![w] = Idle]
      BY <2>1, NoAnswerType DEF Idle
  <2>2. CASE worker' = [worker EXCEPT ![w] = Failing(worker[w])] /\ worker[w].pc = "calling"
    <3>1. Failing(worker[w]) \in Worker
        BY Types, NoAnswerType DEF Failing, Worker
    <3> QED
        BY <2>2, <3>1 DEF Failing
  <2> QED
      BY <2>1, <2>2 DEF CallRejected, CallFindsNothing, WorkerCrash, RollBack
<1> QED
    BY <1>1, <1>2, <1>3, WorkerMoves

\* Steps of the tables that leave GitLab alone.  On the card of one issue, or on none,
\* rows and operations change as the step's own lemma says; on every other card nothing
\* does.
OnlyCard(i) ==
    /\ UNCHANGED gl /\ late \subseteq late'
    /\ \A k \in Known : k # i => rows'[k] = rows[k]
    /\ \A p \in OpIds : /\ ops'[p].iid \in Known /\ ops'[p].iid # i => ops'[p] = ops[p]
                        /\ ops[p].iid \in Known /\ ops[p].iid # i => ops'[p] = ops[p]

\* The queue and the row of one card after a step.
CardQueue(i) ==
    /\ rows[i].ver <= gl[i].ver
    /\ \A p, q \in OpIds :
          i \in InOrder /\ p < q /\ ops[p].iid = i /\ ops[q].iid = i => Waits(p, q)
    /\ \A p \in OpIds : ops[p].iid = i =>
          /\ ops[p].kind # "create"
          /\ IF rows[i].ptr = NoOp
             THEN (Last(p) => ops[p].state = "synced") /\ (i \in InOrder => ~Unfinished(p))
             ELSE p <= rows[i].ptr

LEMMA QueueOfEach ==
    ASSUME IInv, KnownIssues, CreatesElsewhere, QueueOrder, CurrentIsNewest, NEW i \in Known
    PROVE  CardQueue(i)
  BY DEF KnownIssues, CreatesElsewhere, QueueOrder, CurrentIsNewest, CardQueue

\* What is left to show of such a step is the queue of its own card.
LEMMA OneCardQueue ==
    ASSUME IInv, QueueInv, NEW i, OnlyCard(i), i \in Known => CardQueue(i)'
    PROVE  (KnownIssues /\ CreatesElsewhere /\ QueueOrder /\ CurrentIsNewest)'
<1>1. \A k \in Known : CardQueue(k)'
  <2> TAKE k \in Known
  <2>1. CASE k = i
      BY <2>1
  <2>2. CASE k # i
    <3>1. CardQueue(k)
        BY QueueOfEach DEF QueueInv
    <3>2. \A p \in OpIds : /\ ops'[p].iid = k <=> ops[p].iid = k
                           /\ ops[p].iid = k => ops'[p] = ops[p]
        BY <2>2 DEF OnlyCard
    <3>0. k \in InOrder' => k \in InOrder
        BY DEF OnlyCard, InOrder
    <3>3. rows'[k] = rows[k] /\ gl' = gl
        BY <2>2 DEF OnlyCard
    <3>4. ASSUME NEW p \in OpIds, ops[p].iid = k
          PROVE  /\ ops'[p] = ops[p] /\ ops'[p].iid = k
                 /\ Last(p)' => Last(p)
                 /\ Unfinished(p)' => Unfinished(p)
      <4>1. ops'[p] = ops[p] /\ ops'[p].iid = k
          BY <3>2, <3>4
      <4>2. ASSUME Last(p)', NEW q \in OpIds, ops[q].iid = k PROVE q <= p
          BY <4>1, <4>2, <3>2 DEF Last
      <4> QED
          BY <3>4, <4>1, <4>2 DEF Last, Unfinished
    <3>5. rows'[k].ver <= gl'[k].ver
        BY <3>1, <3>3 DEF CardQueue
    <3>6. ASSUME NEW p \in OpIds, NEW q \in OpIds, k \in InOrder', p < q, ops'[p].iid = k,
                 ops'[q].iid = k
          PROVE  Waits(p, q)'
      <4>1. ops[p].iid = k /\ ops[q].iid = k /\ ops'[q] = ops[q] /\ ops'[p] = ops[p]
          BY <3>2, <3>6
      <4>2. Waits(p, q)
          BY <3>0, <3>1, <3>6, <4>1 DEF CardQueue
      <4> QED
          BY <4>1, <4>2 DEF Waits, Unfinished
    <3>7. ASSUME NEW p \in OpIds, ops'[p].iid = k
          PROVE  /\ ops'[p].kind # "create"
                 /\ IF rows'[k].ptr = NoOp
                    THEN /\ Last(p)' => ops'[p].state = "synced"
                         /\ k \in InOrder' => ~Unfinished(p)'
                    ELSE p <= rows'[k].ptr
      <4>1. ops[p].iid = k
          BY <3>2, <3>7
      <4> QED
          BY <3>0, <3>1, <3>3, <3>4, <4>1 DEF CardQueue
    <3> QED
        BY <3>5, <3>6, <3>7 DEF CardQueue
  <2> QED
      BY <2>1, <2>2
<1>2. \A k \in Known : gl'[k].st # "unborn"
    BY DEF QueueInv, KnownIssues, OnlyCard
<1>3. KnownIssues'
    BY <1>1, <1>2 DEF KnownIssues, CardQueue
<1>4. CreatesElsewhere'
    BY <1>1 DEF CreatesElsewhere, CardQueue
<1>5. QueueOrder'
    BY <1>1, KnownKeys DEF QueueOrder, CardQueue, InOrder
<1>6. CurrentIsNewest'
    BY <1>1 DEF CurrentIsNewest, CardQueue
<1> QED
    BY <1>3, <1>4, <1>5, <1>6

\* The workers that go on know what they knew, if their own operations are left alone
\* and no version of their cards' rows has changed.
LEMMA WorkersGoOn ==
    ASSUME IInv, QueueInv, UNCHANGED gl, late \subseteq late',
           \A w \in Workers : worker'[w].pc # "idle" =>
               /\ worker'[w] = worker[w]
               /\ ops'[worker[w].op].state = "processing" /\ ~ops'[worker[w].op].lapsed
               /\ ops'[worker[w].op].kind = ops[worker[w].op].kind
               /\ worker[w].iid \in InOrder =>
                     /\ ops'[worker[w].op].iid = worker[w].iid
                     /\ rows'[worker[w].iid].ver = rows[worker[w].iid].ver
    PROVE  \A w \in Workers : Holds(w)' /\ AtWork(w)'
<1> SUFFICES ASSUME NEW w \in Workers PROVE Holds(w)' /\ AtWork(w)'
    OBVIOUS
<1>1. Holds(w)'
    BY DEF QueueInv, Holds
<1>2. AtWork(w)'
    BY DEF QueueInv, AtWork, InOrder
<1> QED
    BY <1>1, <1>2

LEMMA SubmittedQueue ==
    ASSUME IInv, QueueInv, NEW o, NEW i, NEW kind, Submitted(o, i, kind)
    PROVE  QueueInv'
<1> USE Keys, Types, KnownKeys
<1>1. /\ o \in OpIds /\ o = opCount + 1 /\ i \in Iids /\ ops[o].iid = NoIid
      /\ (kind = "create" => i = -o) /\ late \subseteq late'
      /\ UNCHANGED <<gl, worker, read>>
    BY DEF Submitted, IInv, Numbering
<1>c. PICK at \in Stamps : /\ ops' = [ops EXCEPT ![o] = NewOp(kind, i, at)]
                           /\ i \in Issues /\ Overtakes(i, at) => i \in late'
    BY DEF Submitted
<1>2. /\ ops'[o].kind = kind /\ ops'[o].iid = i /\ ops'[o].state = "pending" /\ ops'[o].at = at
      /\ \A p \in OpIds : p # o => ops'[p] = ops[p]
    BY <1>1, <1>c DEF NewOp
<1>3. PICK r \in Row : /\ r.ptr = o /\ (kind # "create" => r.ver = rows[i].ver)
                       /\ rows' = [rows EXCEPT ![i] = r]
    BY DEF Submitted
<1>4. \A p \in OpIds : ops[p].iid # NoIid => p < o
  <2>1. \A p \in OpIds : ops[p].iid # NoIid => p <= opCount
      BY DEF IInv, Numbering
  <2> QED
      BY <2>1, <1>1
<1>e. ASSUME i \in InOrder', NEW p \in OpIds, ops[p].iid = i, Unfinished(p)
      PROVE  ops[p].at < at
  <2>1. i \in Issues /\ i \notin late'
      BY <1>e DEF InOrder
  <2>2. p \in 1..opCount
      BY <1>1, <1>4, <1>e
  <2>3. ~(ops[p].at > at) /\ ops[p].at # at
      BY <1>e, <1>c, <2>1, <2>2 DEF Overtakes, Stamps
  <2>4. ops[p].at \in Nat /\ at \in Nat
      BY <1>c DEF Op, Stamps
  <2> QED
      BY <2>3, <2>4
<1>5. OnlyCard(i)
    BY <1>1, <1>2, <1>3 DEF OnlyCard
<1>6. ASSUME i \in Known PROVE CardQueue(i)'
  <2>1. kind # "create" /\ rows'[i] = r
      BY <1>1, <1>3, <1>6
  <2>2. rows'[i].ver <= gl'[i].ver
      BY <2>1, <1>1, <1>3, <1>6 DEF QueueInv, KnownIssues
  <2>3. CardQueue(i)
      BY <1>6, QueueOfEach DEF QueueInv
  <2>4. ASSUME NEW p \in OpIds, NEW q \in OpIds, i \in InOrder', p < q, ops'[p].iid = i,
               ops'[q].iid = i
        PROVE  Waits(p, q)'
    <3>1. q # o => ops[q].iid = i /\ ops'[q] = ops[q] /\ q < o
      <4>1. q # o => ops'[q] = ops[q]
          BY <1>2
      <4> QED
          BY <4>1, <2>4, <1>1, <1>4
    <3>2. p # o /\ ops'[p] = ops[p] /\ ops[p].iid = i
        BY <2>4, <3>1, <1>1, <1>2
    <3>3. CASE q = o
        BY <3>2, <3>3, <2>4, <1>2, <1>e DEF Waits, Unfinished
    <3>4. CASE q # o
      <4>1. i \in InOrder
          BY <2>4, <1>1 DEF InOrder
      <4>2. Waits(p, q)
          BY <3>1, <3>2, <3>4, <4>1, <2>3, <2>4 DEF CardQueue
      <4> QED
          BY <4>2, <3>1, <3>2, <3>4 DEF Waits, Unfinished
    <3> QED
        BY <3>3, <3>4
  <2>5. ASSUME NEW p \in OpIds, ops'[p].iid = i
        PROVE  ops'[p].kind # "create" /\ rows'[i].ptr # NoOp /\ p <= rows'[i].ptr
    <3>1. p # o => ops[p].iid = i /\ ops'[p] = ops[p] /\ p < o /\ ops[p].kind # "create"
        BY <2>3, <2>5, <1>2, <1>4, <1>6 DEF CardQueue
    <3>2. rows'[i].ptr = o /\ o # NoOp
        BY <2>1, <1>1, <1>3
    <3>3. CASE p = o
        BY <3>2, <3>3, <2>1, <1>1, <1>2
    <3>4. CASE p # o
        BY <3>1, <3>2, <3>4, <1>1
    <3> QED
        BY <3>3, <3>4
  <2> QED
      BY <2>2, <2>4, <2>5 DEF CardQueue
<1>7. (KnownIssues /\ CreatesElsewhere /\ QueueOrder /\ CurrentIsNewest)'
    BY <1>5, <1>6, OneCardQueue
<1>8. ReadIsOld'
    BY <1>1 DEF QueueInv, ReadIsOld
<1>9. \A w \in Workers : Holds(w)' /\ AtWork(w)'
  <2>1. ASSUME NEW w \in Workers, worker'[w].pc # "idle"
        PROVE  /\ worker'[w] = worker[w]
               /\ ops'[worker[w].op].state = "processing" /\ ~ops'[worker[w].op].lapsed
               /\ ops'[worker[w].op].kind = ops[worker[w].op].kind
               /\ worker[w].iid \in InOrder =>
                     /\ ops'[worker[w].op].iid = worker[w].iid
                     /\ rows'[worker[w].iid].ver = rows[worker[w].iid].ver
    <3>1. worker'[w] = worker[w] /\ Holds(w) /\ AtWork(w)
        BY <1>1 DEF QueueInv
    <3>2. worker[w].op \in OpIds /\ worker[w].op # o
        BY <2>1, <3>1, <1>1, WorkerOnKnown
    <3>3. ops'[worker[w].op] = ops[worker[w].op]
        BY <3>2, <1>2
    <3>4. ASSUME worker[w].iid \in InOrder
          PROVE  rows'[worker[w].iid].ver = rows[worker[w].iid].ver
        BY <3>4, <1>1, <1>3
    <3> QED
        BY <2>1, <3>1, <3>3, <3>4 DEF Holds, AtWork
  <2> QED
      BY <2>1, <1>1, WorkersGoOn
<1> QED
    BY <1>7, <1>8, <1>9 DEF QueueInv

\* Operation o may end; every worker that goes on has another one, and finds it, its
\* card and the version of the card's row as they were.
LeftAlone(o) ==
    /\ UNCHANGED <<gl, late>>
    /\ \A w \in Workers : worker'[w].pc # "idle" =>
          /\ worker'[w] = worker[w] /\ worker[w].op # o
          /\ worker[w].iid \in InOrder =>
                /\ rows'[worker[w].iid].ver = rows[worker[w].iid].ver
                /\ ops'[worker[w].op].iid = ops[worker[w].op].iid
    /\ \A p \in OpIds : p # o => /\ ops'[p].kind = ops[p].kind /\ ops'[p].state = ops[p].state
                                 /\ ops'[p].lapsed = ops[p].lapsed

LEMMA OthersGoOn ==
    ASSUME IInv, QueueInv, NEW o, LeftAlone(o)
    PROVE  \A w \in Workers : Holds(w)' /\ AtWork(w)'
<1>1. ASSUME NEW w \in Workers, worker'[w].pc # "idle"
      PROVE  /\ worker'[w] = worker[w]
             /\ ops'[worker[w].op].state = "processing" /\ ~ops'[worker[w].op].lapsed
             /\ ops'[worker[w].op].kind = ops[worker[w].op].kind
             /\ worker[w].iid \in InOrder =>
                   /\ ops'[worker[w].op].iid = worker[w].iid
                   /\ rows'[worker[w].iid].ver = rows[worker[w].iid].ver
  <2>1. worker'[w] = worker[w] /\ worker[w].op # o /\ Holds(w) /\ AtWork(w)
      BY <1>1 DEF QueueInv, LeftAlone
  <2>2. worker[w].pc # "idle" /\ worker[w].op \in OpIds
      BY <1>1, <2>1, WorkerOnKnown
  <2> QED
      BY <1>1, <2>1, <2>2 DEF Holds, AtWork, LeftAlone
<1>2. gl' = gl /\ late \subseteq late'
    BY DEF LeftAlone
<1> QED
    BY <1>1, <1>2, WorkersGoOn

LEMMA RetryQueue ==
    ASSUME IInv, QueueInv, ~StaleScreens, NEW o \in OpIds, RetryOperation(o)
    PROVE  QueueInv'
<1> USE Keys, Types, KnownKeys
<1>1. PICK i \in Iids :
      /\ i = ops[o].iid /\ rows[i].ptr = o
      /\ rows'[i].ptr = o /\ rows'[i].ver = rows[i].ver
      /\ \A k \in Iids : k # i => rows'[k] = rows[k]
      /\ ops[o].state = "failed" /\ ops'[o].state = "pending"
      /\ \A p \in OpIds : /\ ops'[p].kind = ops[p].kind /\ ops'[p].iid = ops[p].iid
                          /\ ops'[p].at = ops[p].at
                          /\ p # o => ops'[p] = ops[p]
      /\ UNCHANGED <<gl, worker, read, late>>
  <2> DEFINE c == ops[o].iid
  <2>1. /\ c \in Iids /\ rows[c].ptr = o
        /\ rows'[c].ptr = o /\ rows'[c].ver = rows[c].ver
        /\ \A k \in Iids : k # c => rows'[k] = rows[k]
        /\ ops[o].state = "failed" /\ ops'[o].state = "pending"
        /\ \A p \in OpIds : /\ ops'[p].kind = ops[p].kind /\ ops'[p].iid = ops[p].iid
                            /\ ops'[p].at = ops[p].at
                            /\ p # o => ops'[p] = ops[p]
        /\ gl' = gl /\ worker' = worker /\ read' = read /\ late' = late
      BY RetryEffect
  <2>2. c = ops[o].iid
      OBVIOUS
  <2> HIDE DEF c
  <2> QED
      BY <2>1, <2>2
<1>2. OnlyCard(i)
    BY <1>1 DEF OnlyCard
<1>3. ASSUME i \in Known PROVE CardQueue(i)'
  <2>1. CardQueue(i)
      BY <1>3, QueueOfEach DEF QueueInv
  <2>2. rows'[i].ver <= gl'[i].ver
      BY <2>1, <1>1 DEF CardQueue
  <2>3. \A p \in OpIds : ops[p].iid = i => p <= o
      BY <2>1, <1>1 DEF CardQueue
  <2>4. ASSUME NEW p \in OpIds, NEW q \in OpIds, i \in InOrder', p < q, ops'[p].iid = i,
               ops'[q].iid = i
        PROVE  Waits(p, q)'
    <3>1. ops[q].iid = i /\ ops[p].iid = i /\ i \in InOrder
        BY <2>4, <1>1 DEF InOrder
    <3>2. p # o /\ ops'[p] = ops[p]
        BY <2>3, <2>4, <3>1, <1>1
    <3>3. Waits(p, q)
        BY <2>1, <2>4, <3>1 DEF CardQueue
    <3>4. ops[q].state = "pending" => ops'[q].state = "pending"
        BY <1>1
    <3> QED
        BY <3>2, <3>3, <3>4, <1>1 DEF Waits, Unfinished
  <2>5. ASSUME NEW p \in OpIds, ops'[p].iid = i
        PROVE  ops'[p].kind # "create" /\ rows'[i].ptr # NoOp /\ p <= rows'[i].ptr
      BY <2>1, <2>3, <2>5, <1>1 DEF CardQueue
  <2> QED
      BY <2>2, <2>4, <2>5 DEF CardQueue
<1>4. (KnownIssues /\ CreatesElsewhere /\ QueueOrder /\ CurrentIsNewest)'
    BY <1>2, <1>3, OneCardQueue
<1>5. ReadIsOld'
    BY <1>1 DEF QueueInv, ReadIsOld
<1>6. \A w \in Workers : Holds(w)' /\ AtWork(w)'
  <2>1. ASSUME NEW w \in Workers, worker'[w].pc # "idle"
        PROVE  /\ worker'[w] = worker[w] /\ worker[w].op # o
               /\ worker[w].iid \in InOrder => rows'[worker[w].iid].ver = rows[worker[w].iid].ver
               /\ ops'[worker[w].op].iid = ops[worker[w].op].iid
    <3>1. worker'[w] = worker[w] /\ Holds(w)
        BY <1>1 DEF QueueInv
    <3>2. worker[w].op \in OpIds /\ worker[w].op # o
        BY <2>1, <3>1, <1>1, WorkerOnKnown DEF Holds
    <3>3. ASSUME worker[w].iid \in InOrder
          PROVE  rows'[worker[w].iid].ver = rows[worker[w].iid].ver
        BY <3>3, <1>1
    <3> QED
        BY <3>1, <3>2, <3>3, <1>1
  <2>2. LeftAlone(o)
      BY <2>1, <1>1 DEF LeftAlone
  <2> QED
      BY <2>2, OthersGoOn
<1> QED
    BY <1>4, <1>5, <1>6 DEF QueueInv

LEMMA ReconcileQueue == ASSUME IInv, QueueInv, ReconcileIssue PROVE QueueInv'
<1> USE Keys, Types, KnownKeys
<1>1. PICK r \in Row, i \in Iids : Reconciled(i, r) /\ i = read.iid
    BY ReconcileEffect DEF Reconciled
<1>2. OnlyCard(i)
  <2>1. \A p \in OpIds : ops[p].iid # i => ops'[p] = ops[p]
    <3>1. \A p \in OpIds : ops[p] \in Op /\ ops'[p] \in Op
        BY <1>1 DEF Reconciled
    <3> QED
        BY <3>1, <1>1 DEF Reconciled, Op
  <2> QED
      BY <2>1, <1>1 DEF OnlyCard, Reconciled
<1>3. ASSUME i \in Known, rows[i].ptr # NoOp PROVE r = rows[i] /\ r # NoRow
    BY <1>1, <1>3 DEF Reconciled, Row
<1>4. ASSUME i \in Known PROVE CardQueue(i)'
  <2>1. CardQueue(i)
      BY <1>4, QueueOfEach DEF QueueInv
  <2>2. rows'[i] = r /\ gl' = gl
      BY <1>1 DEF Reconciled
  <2>3. rows'[i].ver <= gl'[i].ver
    <3>1. rows[i].ver <= gl[i].ver /\ read.ver <= gl[i].ver
        BY <1>1, <1>4 DEF QueueInv, KnownIssues, ReadIsOld
    <3>2. gl[i] \in Issue /\ gl[i].ver \in Nat
        BY <1>4 DEF Issue
    <3>3. r.ver \in {0, rows[i].ver, read.ver}
        BY <1>1 DEF Reconciled, NoRow
    <3> QED
        BY <2>2, <3>1, <3>2, <3>3
  <2>4. r.ptr = rows[i].ptr
      BY <1>1 DEF Reconciled, Row
  <2>5. \A p \in OpIds : ops'[p].iid = i => /\ ops[p].iid = i /\ r # NoRow
                                            /\ ops'[p].state = ops[p].state
                                            /\ ops'[p].at = ops[p].at
                                            /\ ops'[p].kind = ops[p].kind
      BY <1>1, <1>4 DEF Reconciled
  <2>6. ASSUME r # NoRow, NEW p \in OpIds, ops[p].iid = i, Last(p)' PROVE Last(p)
    <3>1. \A q \in OpIds : ops[q].iid = i => ops'[q].iid = i
        BY <2>6, <1>1 DEF Reconciled
    <3> QED
        BY <2>6, <3>1 DEF Last
  <2> QED
    <3>0. InOrder' = InOrder
        BY <1>1 DEF Reconciled, InOrder
    <3>1. ASSUME NEW p \in OpIds, NEW q \in OpIds, i \in InOrder', p < q, ops'[p].iid = i,
                 ops'[q].iid = i
          PROVE  Waits(p, q)'
        BY <3>0, <3>1, <2>1, <2>5 DEF CardQueue, Waits, Unfinished
    <3>2. ASSUME NEW p \in OpIds, ops'[p].iid = i
          PROVE  /\ ops'[p].kind # "create"
                 /\ IF rows'[i].ptr = NoOp
                    THEN /\ Last(p)' => ops'[p].state = "synced"
                         /\ i \in InOrder' => ~Unfinished(p)'
                    ELSE p <= rows'[i].ptr
        BY <3>0, <3>2, <2>1, <2>2, <2>4, <2>5, <2>6 DEF CardQueue, Unfinished
    <3> QED
        BY <2>3, <3>1, <3>2 DEF CardQueue
<1>5. (KnownIssues /\ CreatesElsewhere /\ QueueOrder /\ CurrentIsNewest)'
    BY <1>2, <1>4, OneCardQueue
<1>6. ReadIsOld'
    BY <1>1 DEF Reconciled, ReadIsOld, NoAnswer
<1>7. \A w \in Workers : Holds(w)' /\ AtWork(w)'
  <2>1. ASSUME NEW w \in Workers, worker'[w].pc # "idle"
        PROVE  /\ worker'[w] = worker[w]
               /\ worker[w].iid \in InOrder =>
                     /\ rows'[worker[w].iid].ver = rows[worker[w].iid].ver
                     /\ ops'[worker[w].op].iid = ops[worker[w].op].iid
    <3>1. worker'[w] = worker[w] /\ Holds(w) /\ AtWork(w)
        BY <1>1 DEF QueueInv, Reconciled
    <3>2. worker[w].op \in OpIds
        BY <2>1, <3>1, WorkerOnKnown
    <3>3. ASSUME worker[w].iid \in InOrder, worker[w].iid = i PROVE r = rows[i] /\ r # NoRow
      <4>1. ops[worker[w].op].iid = i /\ Unfinished(worker[w].op)
          BY <2>1, <3>1, <3>3 DEF Holds, AtWork, Unfinished
      <4>2. rows[i].ptr # NoOp
          BY <3>2, <3>3, <4>1 DEF QueueInv, CurrentIsNewest
      <4> QED
          BY <3>3, <4>2, <1>3
    <3>4. ASSUME worker[w].iid \in InOrder
          PROVE  /\ rows'[worker[w].iid].ver = rows[worker[w].iid].ver
                 /\ ops'[worker[w].op].iid = ops[worker[w].op].iid
      <4>1. ops[worker[w].op].iid = worker[w].iid
          BY <2>1, <3>1, <3>4 DEF AtWork
      <4> QED
          BY <3>2, <3>3, <3>4, <4>1, <1>1 DEF Reconciled
    <3> QED
        BY <3>1, <3>4
  <2>2. \A w \in Workers : worker'[w].pc # "idle" => worker[w].op # NoOp
    <3>1. worker' = worker
        BY <1>1 DEF Reconciled
    <3> QED
        BY <3>1, WorkerOnKnown
  <2>3. \A p \in OpIds : /\ ops'[p].kind = ops[p].kind /\ ops'[p].state = ops[p].state
                         /\ ops'[p].lapsed = ops[p].lapsed
      BY <1>1 DEF Reconciled
  <2>4. gl' = gl /\ late' = late
      BY <1>1 DEF Reconciled
  <2>5. LeftAlone(NoOp)
      BY <2>1, <2>2, <2>3, <2>4 DEF LeftAlone
  <2> QED
      BY <2>5, OthersGoOn
<1> QED
    BY <1>5, <1>6, <1>7 DEF QueueInv

\* Two busy workers have different operations, and different cards of GitLab's.
LEMMA Apart ==
    ASSUME IInv, QueueInv, NEW v \in Workers, NEW w \in Workers, v # w,
           worker[v].pc # "idle", worker[w].pc # "idle"
    PROVE  /\ worker[v].op \in OpIds /\ worker[v].op # worker[w].op
           /\ worker[v].iid \in InOrder => /\ worker[v].iid # worker[w].iid
                                           /\ ops[worker[v].op].iid = worker[v].iid
<1>1. Holds(w) /\ AtWork(v)
    BY DEF QueueInv
<1>2. worker[v].op # worker[w].op
    BY <1>1 DEF Holds
<1>3. worker[v].iid \in InOrder => ops[worker[v].op].iid = worker[v].iid
    BY <1>1 DEF AtWork
<1> QED
    BY <1>2, <1>3, AloneOnCard, WorkerOnKnown

\* The card of GitLab's that a worker has an operation of waits for some operation.
LEMMA OwnCard ==
    ASSUME IInv, QueueInv, NEW w \in Workers, worker[w].pc # "idle", worker[w].iid \in InOrder
    PROVE  /\ ops[worker[w].op].iid = worker[w].iid /\ ops[worker[w].op].kind # "create"
           /\ rows[worker[w].iid].ptr # NoOp
<1>1. ops[worker[w].op].iid = worker[w].iid /\ Unfinished(worker[w].op)
    BY DEF QueueInv, Holds, AtWork, Unfinished
<1>2. worker[w].op \in OpIds /\ ops[worker[w].op].kind # "create"
    BY WorkerOnKnown, KnownKeys
<1> QED
    BY <1>1, <1>2, KnownKeys DEF QueueInv, CurrentIsNewest

LEMMA ClaimQueue ==
    ASSUME IInv, QueueInv, NEW w \in Workers, ClaimOperation(w) PROVE QueueInv'
<1> USE Keys, Types, KnownKeys
<1>1. PICK o \in OpIds :
        /\ Claimable(o)
        /\ ops' = [ops EXCEPT ![o] = Marked(ops[o], "processing", FALSE)]
        /\ worker' = [worker EXCEPT ![w] =
                        [pc |-> "calling", op |-> o, iid |-> ops[o].iid, ans |-> NoAnswer]]
    BY DEF ClaimOperation
<1>2. worker[w].pc = "idle" /\ UNCHANGED <<rows, gl, read, late>> /\ InOrder' = InOrder
    BY DEF ClaimOperation, InOrder
<1>3. /\ ops'[o].state = "processing" /\ ~ops'[o].lapsed /\ Unfinished(o)
      /\ \A p \in OpIds : /\ ops'[p].kind = ops[p].kind /\ ops'[p].iid = ops[p].iid
                          /\ ops'[p].at = ops[p].at
                          /\ p # o => ops'[p] = ops[p]
    BY <1>1 DEF Marked, Claimable, Unfinished
<1>4. \A p \in OpIds : Unfinished(p)' => Unfinished(p)
    BY <1>3 DEF Unfinished
<1>5. KnownIssues' /\ CreatesElsewhere' /\ ReadIsOld'
    BY <1>2, <1>3 DEF QueueInv, KnownIssues, CreatesElsewhere, ReadIsOld
<1>6. QueueOrder'
  <2> SUFFICES ASSUME NEW p \in OpIds, NEW q \in OpIds, p < q, ops[p].iid = ops[q].iid,
                      ops[q].iid \in InOrder, Unfinished(p)
               PROVE  ops'[q].state = "pending" /\ ops[p].at < ops[q].at
      BY <1>2, <1>3, <1>4 DEF QueueOrder, Waits
  <2>1. ops[q].state = "pending" /\ ops[p].at < ops[q].at
      BY DEF QueueInv, QueueOrder, Waits
  <2>2. q # o
    <3>1. ASSUME q = o PROVE FALSE
      <4>1. o <= opCount /\ p < o
          BY <1>1, <3>1 DEF Claimable
      <4>2. p \in Nat /\ o \in Nat /\ opCount \in Nat
          OBVIOUS
      <4>3. Earlier(p, o)
          BY <4>1, <4>2, <2>1, <3>1 DEF Earlier
      <4> QED
          BY <1>1, <3>1, <4>3 DEF Claimable
    <3> QED
        BY <3>1
  <2> QED
      BY <2>1, <2>2, <1>3
<1>7. CurrentIsNewest'
  <2> SUFFICES ASSUME NEW i \in Known, NEW p \in OpIds, ops[p].iid = i
               PROVE  IF rows[i].ptr = NoOp
                      THEN /\ Last(p)' => ops'[p].state = "synced"
                           /\ i \in InOrder => ~Unfinished(p)'
                      ELSE p <= rows[i].ptr
      BY <1>2, <1>3 DEF CurrentIsNewest
  <2>1. IF rows[i].ptr = NoOp
        THEN (Last(p) => ops[p].state = "synced") /\ (i \in InOrder => ~Unfinished(p))
        ELSE p <= rows[i].ptr
      BY DEF QueueInv, CurrentIsNewest
  <2>2. Last(p)' => Last(p)
      BY <1>3 DEF Last
  <2>3. ops[p].state = "synced" => ops'[p].state = "synced"
      BY <1>3 DEF Unfinished
  <2> QED
      BY <2>1, <2>2, <2>3, <1>4
<1>8. ASSUME NEW v \in Workers, v # w
      PROVE  worker'[v] = worker[v] /\ (worker[v].pc # "idle" => worker[v].op \in OpIds /\ worker[v].op # o)
  <2>1. worker[v].pc # "idle" =>
            ops[worker[v].op].state = "processing" /\ ~ops[worker[v].op].lapsed
      BY DEF QueueInv, Holds
  <2>2. ops[o].state # "processing" \/ ops[o].lapsed
      BY <1>1 DEF Claimable
  <2> QED
      BY <1>1, <1>8, <2>1, <2>2, WorkerOnKnown
<1>9. /\ worker'[w].pc = "calling" /\ worker'[w].op = o /\ worker'[w].iid = ops[o].iid
    BY <1>1
<1>10. ASSUME NEW v \in Workers PROVE Holds(v)' /\ AtWork(v)'
  <2>1. CASE v = w
    <3>1. \A u \in Workers : u # w /\ worker'[u].pc # "idle" => worker'[u].op # o
        BY <1>8
    <3> QED
        BY <2>1, <3>1, <1>3, <1>9 DEF Holds, AtWork
  <2>2. CASE v # w
    <3>1. Holds(v) /\ AtWork(v)
        BY DEF QueueInv
    <3>2. worker'[v] = worker[v] /\ (worker[v].pc # "idle" => ops'[worker[v].op] = ops[worker[v].op])
        BY <2>2, <1>3, <1>8
    <3>3. worker[v].pc # "idle" =>
              \A u \in Workers : u # v /\ worker'[u].pc # "idle" => worker'[u].op # worker[v].op
        BY <2>2, <3>1, <1>8, <1>9 DEF Holds
    <3>4. Holds(v)'
        BY <3>1, <3>2, <3>3 DEF Holds
    <3>5. AtWork(v)'
        BY <3>1, <3>2, <1>2, WorkerOnKnown DEF AtWork
    <3> QED
        BY <3>4, <3>5
  <2> QED
      BY <2>1, <2>2
<1> QED
    BY <1>5, <1>6, <1>7, <1>10 DEF QueueInv

LEMMA LapseQueue ==
    ASSUME IInv, QueueInv, ~LeaseOutlived, NEW o \in OpIds, LeaseLapses(o) PROVE QueueInv'
<1> USE Keys, Types, KnownKeys
<1>1. /\ \A p \in OpIds : /\ ops'[p].kind = ops[p].kind /\ ops'[p].iid = ops[p].iid
                          /\ ops'[p].state = ops[p].state /\ ops'[p].at = ops[p].at
                          /\ p # o => ops'[p] = ops[p]
      /\ \A w \in Workers : worker[w].op # o
      /\ UNCHANGED <<rows, gl, read, worker, late>> /\ InOrder' = InOrder
    BY DEF LeaseLapses, Marked, InOrder
<1>2. \A p \in OpIds : /\ Unfinished(p)' <=> Unfinished(p)
                       /\ Last(p)' <=> Last(p)
    BY <1>1 DEF Unfinished, Last
<1>3. KnownIssues' /\ CreatesElsewhere' /\ ReadIsOld'
    BY <1>1 DEF QueueInv, KnownIssues, CreatesElsewhere, ReadIsOld
<1>4. QueueOrder' /\ CurrentIsNewest'
    BY <1>1, <1>2 DEF QueueInv, QueueOrder, Waits, CurrentIsNewest
<1>5. \A w \in Workers : worker'[w].pc # "idle" =>
          worker'[w] = worker[w] /\ ops'[worker[w].op].iid = ops[worker[w].op].iid
    BY <1>1, WorkerOnKnown
<1>6. \A w \in Workers : Holds(w)' /\ AtWork(w)'
  <2>1. LeftAlone(o)
      BY <1>1, <1>5 DEF LeftAlone
  <2> QED
      BY <2>1, OthersGoOn
<1> QED
    BY <1>3, <1>4, <1>6 DEF QueueInv

LEMMA ReaderQueue ==
    ASSUME IInv, QueueInv, NEW i \in Issues, ReadIssue(i) PROVE QueueInv'
<1> USE Keys, Types, KnownKeys
<1>1. UNCHANGED <<ops, rows, gl, worker, late>> /\ read' = Saw(i)
    BY DEF ReadIssue
<1>2. ReadIsOld'
  <2>1. read'.iid = i /\ read'.ver = gl[i].ver /\ gl[i].ver \in Nat
      BY <1>1 DEF Saw, Issue
  <2> QED
      BY <1>1, <2>1 DEF ReadIsOld
<1> QED
    BY <1>1, <1>2 DEF QueueInv, KnownIssues, CreatesElsewhere, QueueOrder, Waits,
       CurrentIsNewest, Last, Unfinished, Holds, AtWork, InOrder

LEMMA ExternalQueue ==
    ASSUME IInv, QueueInv, NEW i \in Issues, ExternalChange(i) PROVE QueueInv'
<1> USE Keys, Types, KnownKeys
<1>1. UNCHANGED <<ops, rows, worker, read, late>> /\ InOrder' = InOrder
    BY DEF ExternalChange, InOrder
<1>2. GitLabGrows
  <2>1. \A k \in Issues : gl[k].ver \in Nat
      BY DEF Issue
  <2>2. \E g : /\ gl' = [gl EXCEPT ![i] = g] /\ g.st # "unborn"
               /\ g.ver \in {gl[i].ver, gl[i].ver + 1}
      BY DEF ExternalChange, Gone
  <2> QED
      BY <2>1, <2>2 DEF GitLabGrows
<1>3. KnownIssues'
  <2>1. ASSUME NEW k \in Known PROVE gl'[k].st # "unborn" /\ rows[k].ver <= gl'[k].ver
    <3>1. rows[k].ver \in Nat /\ gl[k].ver \in Nat /\ gl'[k].ver \in Nat
        BY <1>2 DEF Row, Issue, GitLabGrows
    <3> QED
        BY <3>1, <1>2 DEF QueueInv, KnownIssues, GitLabGrows
  <2> QED
      BY <2>1, <1>1 DEF KnownIssues
<1>4. ReadIsOld'
  <2>1. \A k \in Known : gl[k].ver \in Nat /\ gl'[k].ver \in Nat /\ gl[k].ver <= gl'[k].ver
      BY <1>2 DEF Issue, GitLabGrows
  <2>2. read.ver \in Nat
      BY DEF Answer
  <2>3. ASSUME read.iid \in Known PROVE read.ver <= gl'[read.iid].ver
    <3>1. read.ver <= gl[read.iid].ver
        BY <2>3 DEF QueueInv, ReadIsOld
    <3> QED
        BY <2>1, <2>2, <2>3, <3>1
  <2> QED
      BY <1>1, <2>3 DEF ReadIsOld
<1>5. CreatesElsewhere' /\ QueueOrder' /\ CurrentIsNewest'
    BY <1>1 DEF QueueInv, CreatesElsewhere, QueueOrder, Waits, CurrentIsNewest, Last,
       Unfinished
<1>6. ASSUME NEW w \in Workers PROVE Holds(w)' /\ AtWork(w)'
  <2>1. Holds(w) /\ AtWork(w) /\ worker[w] \in Worker
      BY DEF QueueInv
  <2>2. worker[w].ans.ver \in Nat
      BY <2>1 DEF Worker, Answer
  <2>3. \A k \in Known : gl[k].ver \in Nat /\ gl'[k].ver \in Nat /\ gl[k].ver <= gl'[k].ver
      BY <1>2 DEF Issue, GitLabGrows
  <2>4. Holds(w)'
      BY <2>1, <1>1 DEF Holds
  <2>5. ASSUME worker[w].pc = "answered", worker[w].ans.iid \in Known
        PROVE  worker[w].ans.ver <= gl'[worker[w].ans.iid].ver
    <3>1. worker[w].ans.ver <= gl[worker[w].ans.iid].ver
        BY <2>1, <2>5 DEF AtWork
    <3>2. PICK k \in Known : k = worker[w].ans.iid
        BY <2>5
    <3>3. worker[w].ans.ver <= gl'[k].ver
        BY <2>2, <2>3, <3>1, <3>2
    <3> QED
        BY <3>2, <3>3
  <2>6. AtWork(w)'
      BY <2>1, <2>5, <1>1 DEF AtWork
  <2> QED
      BY <2>4, <2>6
<1> QED
    BY <1>3, <1>4, <1>5, <1>6 DEF QueueInv

LEMMA RemovalQueue ==
    ASSUME IInv, QueueInv, NEW w \in Workers, CompleteDeleteOperation(w) PROVE QueueInv'
<1> USE Keys, Types, KnownKeys
<1>1. PICK o \in OpIds, i \in Issues : Removed(o, i) /\ o = worker[w].op /\ i = worker[w].iid
  <2>1. Removed(worker[w].op, worker[w].iid)
      BY RemovalEffect
  <2>2. worker[w].op \in OpIds /\ worker[w].iid \in Issues
      BY <2>1 DEF Removed
  <2> QED
      BY <2>1, <2>2
<1>2. worker[w].pc # "idle" /\ worker' = [worker EXCEPT ![w] = Idle]
    BY DEF CompleteDeleteOperation
<1>3. ops[o].iid = i /\ i \in Iids
    BY <1>1 DEF Removed, IInv, ChipTruth, Truthful, Row
<1>4. gl' = gl /\ read' = read /\ late' = late
    BY <1>1 DEF Removed
<1>5. OnlyCard(i)
  <2>1. \A p \in OpIds : ops[p] \in Op /\ ops'[p] \in Op
      BY <1>1 DEF Removed
  <2>2. \A p \in OpIds : ops[p].iid # i => ops'[p] = ops[p]
      BY <2>1, <1>1, <1>3 DEF Removed, Op
  <2>3. \A p \in OpIds : ops'[p].iid \in Known => ops[p].iid # i
      BY <1>1 DEF Removed
  <2> QED
      BY <2>2, <2>3, <1>1, <1>4 DEF OnlyCard, Removed
<1>6. ASSUME i \in Known PROVE CardQueue(i)'
  <2>1. rows'[i] = NoRow /\ gl[i].ver \in Nat
      BY <1>1, <1>3 DEF Removed, Issue
  <2>2. \A p \in OpIds : ops'[p].iid # i
      BY <1>1, <1>3 DEF Removed
  <2> QED
      BY <2>1, <2>2, <1>4 DEF CardQueue, NoRow
<1>7. (KnownIssues /\ CreatesElsewhere /\ QueueOrder /\ CurrentIsNewest)'
    BY <1>5, <1>6, OneCardQueue
<1>8. ReadIsOld'
    BY <1>4 DEF QueueInv, ReadIsOld
<1>9. ASSUME NEW v \in Workers, worker'[v].pc # "idle"
      PROVE  /\ worker'[v] = worker[v] /\ worker[v].op # o
             /\ worker[v].iid \in InOrder => /\ rows'[worker[v].iid].ver = rows[worker[v].iid].ver
                                             /\ ops'[worker[v].op].iid = ops[worker[v].op].iid
  <2>1. v # w /\ worker'[v] = worker[v]
      BY <1>2, <1>9 DEF Idle
  <2>2. /\ worker[v].op \in OpIds /\ worker[v].op # o
        /\ worker[v].iid \in InOrder => worker[v].iid # i /\ ops[worker[v].op].iid = worker[v].iid
      BY <1>1, <1>2, <1>9, <2>1, Apart
  <2> QED
      BY <2>1, <2>2, <1>1 DEF Removed
<1>10. \A p \in OpIds : p # o => /\ ops'[p].kind = ops[p].kind /\ ops'[p].state = ops[p].state
                                 /\ ops'[p].lapsed = ops[p].lapsed
    BY <1>1 DEF Removed
<1>11. \A v \in Workers : Holds(v)' /\ AtWork(v)'
  <2>1. LeftAlone(o)
      BY <1>4, <1>9, <1>10 DEF LeftAlone
  <2> QED
      BY <2>1, OthersGoOn
<1> QED
    BY <1>7, <1>8, <1>11 DEF QueueInv

LEMMA FailureQueue ==
    ASSUME IInv, QueueInv, NEW w \in Workers, FailOperation(w) PROVE QueueInv'
<1> USE Keys, Types, KnownKeys
<1>1. PICK r \in Row, o \in OpIds, i \in Iids :
          FailedAs(o, i, r) /\ o = worker[w].op /\ i = worker[w].iid
  <2>1. PICK r \in Row : FailedAs(worker[w].op, worker[w].iid, r)
      BY FailureEffect
  <2>2. worker[w].op \in OpIds /\ worker[w].iid \in Iids
      BY <2>1 DEF FailedAs
  <2> QED
      BY <2>1, <2>2
<1>2. worker[w].pc # "idle" /\ worker' = [worker EXCEPT ![w] = Idle]
    BY DEF FailOperation
<1>3. gl' = gl /\ read' = read /\ late' = late /\ InOrder' = InOrder
    BY <1>1 DEF FailedAs, InOrder
<1>4. /\ \A p \in OpIds : /\ ops'[p].kind = ops[p].kind /\ ops'[p].iid = ops[p].iid
                          /\ ops'[p].at = ops[p].at
      /\ ops'[o].state = "failed"
      /\ \A p \in OpIds : p # o => ops'[p] = ops[p]
  <2>1. \A p \in OpIds : ops[p] \in Op /\ ops'[p] \in Op
      BY <1>1 DEF FailedAs
  <2> QED
      BY <2>1, <1>1 DEF FailedAs, Op
<1>5. ops[o].iid \in {i, NoIid} \/ ops[o].iid \notin Known
    BY <1>1, <1>2, WorkerOnKnown DEF QueueInv, CreatesElsewhere
<1>6. OnlyCard(i)
    BY <1>1, <1>3, <1>4, <1>5 DEF OnlyCard, FailedAs
<1>7. ASSUME i \in Known PROVE CardQueue(i)'
  <2>1. CardQueue(i)
      BY <1>7, QueueOfEach DEF QueueInv
  <2>2. ops[o].kind # "create" /\ ops[o].iid \in {i, NoIid}
      BY <1>1, <1>2, <1>7, WorkerOnKnown
  <2>3. rows'[i] = r /\ r.ver = rows[i].ver /\ r.ptr = rows[i].ptr
      BY <2>2, <1>1 DEF FailedAs
  <2>4. ops[o].state = "processing"
      BY <1>1, <1>2 DEF QueueInv, Holds
  <2>5. \A p \in OpIds : Unfinished(p)' => Unfinished(p)
      BY <1>4 DEF Unfinished
  <2>6. ASSUME NEW p \in OpIds, NEW q \in OpIds, i \in InOrder, p < q, ops[p].iid = i,
               ops[q].iid = i
        PROVE  Waits(p, q)'
    <3>1. Waits(p, q)
        BY <2>1, <2>6 DEF CardQueue
    <3>2. ops[q].state = "pending" => ops'[q].state = "pending"
        BY <1>4, <2>4
    <3> QED
        BY <3>1, <3>2, <2>5, <1>4 DEF Waits
  <2>7. ASSUME rows[i].ptr = NoOp, NEW p \in OpIds, ops[p].iid = i, Last(p)'
        PROVE  ops'[p].state = "synced"
    <3>1. Last(p)
        BY <2>7, <1>4 DEF Last
    <3>2. ops[p].state = "synced"
        BY <2>1, <2>7, <3>1 DEF CardQueue
    <3> QED
        BY <3>2, <2>4, <1>4
  <2> QED
      BY <2>1, <2>3, <2>5, <2>6, <2>7, <1>3, <1>4 DEF CardQueue
<1>8. (KnownIssues /\ CreatesElsewhere /\ QueueOrder /\ CurrentIsNewest)'
    BY <1>6, <1>7, OneCardQueue
<1>9. ReadIsOld'
    BY <1>3 DEF QueueInv, ReadIsOld
<1>10. ASSUME NEW v \in Workers, worker'[v].pc # "idle"
       PROVE  /\ worker'[v] = worker[v] /\ worker[v].op # o
              /\ worker[v].iid \in InOrder => /\ rows'[worker[v].iid].ver = rows[worker[v].iid].ver
                                              /\ ops'[worker[v].op].iid = ops[worker[v].op].iid
  <2>1. v # w /\ worker'[v] = worker[v]
      BY <1>2, <1>10 DEF Idle
  <2>2. worker[v].op \in OpIds /\ worker[v].op # o
      BY <1>1, <1>2, <1>10, <2>1, Apart
  <2>3. \A k \in Iids : rows'[k].ver = rows[k].ver
      BY <1>1 DEF FailedAs
  <2> QED
      BY <2>1, <2>2, <2>3, <1>4
<1>11. \A v \in Workers : Holds(v)' /\ AtWork(v)'
  <2>1. LeftAlone(o)
      BY <1>3, <1>4, <1>10 DEF LeftAlone
  <2> QED
      BY <2>1, OthersGoOn
<1> QED
    BY <1>8, <1>9, <1>11 DEF QueueInv

LEMMA CompletionQueue ==
    ASSUME IInv, QueueInv, NEW w \in Workers, CompleteOperation(w) PROVE QueueInv'
<1> USE Keys, Types, KnownKeys
<1>1. PICK r \in Row, o \in OpIds, i \in Iids, j \in Issues, ver \in Nat :
          /\ Settles(o, i, j, r, ver)
          /\ o = worker[w].op /\ i = worker[w].iid /\ j = worker[w].ans.iid
          /\ ver = worker[w].ans.ver
  <2>1. worker[w].ans.ver \in Nat
      BY DEF Worker, Answer
  <2>2. PICK r \in Row :
            Settles(worker[w].op, worker[w].iid, worker[w].ans.iid, r, worker[w].ans.ver)
      BY CompletionEffect
  <2>3. worker[w].op \in OpIds /\ worker[w].iid \in Iids /\ worker[w].ans.iid \in Issues
      BY <2>2 DEF Settles
  <2> QED
      BY <2>1, <2>2, <2>3
<1>2. worker[w].pc = "answered" /\ worker' = [worker EXCEPT ![w] = Idle]
    BY DEF CompleteOperation
<1>3. gl' = gl /\ read' = read /\ j \in Iids /\ late' = late /\ InOrder' = InOrder
    BY <1>1 DEF Settles, InOrder
<1>4. \A p \in OpIds : /\ ops'[p].kind = ops[p].kind
                       /\ ops'[p].state = IF p = o THEN "synced" ELSE ops[p].state
                       /\ ops'[p].at = ops[p].at
                       /\ p # o => ops'[p].lapsed = ops[p].lapsed
                       /\ ops'[p].iid = Moved(ops[p].iid, i, j, r)
                       /\ ops[p] \in Op /\ ops'[p] \in Op
    BY <1>1 DEF Settles
<1>5. i \in Known \/ j \in Known => i = j /\ ops[o].kind # "create"
  <2>1. j \in Known => ops[o].kind # "create"
      BY <1>1, <1>2 DEF QueueInv, AtWork
  <2>2. i \in Known => ops[o].kind # "create"
      BY <1>1, <1>2, WorkerOnKnown
  <2> QED
      BY <2>1, <2>2, <1>1 DEF Settles
<1>6. ops[o].iid \in {i, NoIid} \/ ops[o].iid \notin Known
    BY <1>1, <1>2, WorkerOnKnown DEF QueueInv, CreatesElsewhere
<1>7. \A k \in Iids : k # i /\ k # j => rows'[k] = rows[k]
    BY <1>1 DEF Settles
<1>8. OnlyCard(i)
  <2>1. ASSUME NEW p \in OpIds, ops'[p].iid \in Known \/ ops[p].iid \in Known,
               ops'[p].iid # i, ops[p].iid # i
        PROVE  ops'[p] = ops[p]
    <3>1. ops'[p].iid = ops[p].iid
        BY <2>1, <1>4, <1>5 DEF Moved
    <3> QED
        BY <2>1, <3>1, <1>4, <1>6 DEF Op
  <2>2. \A p \in OpIds : /\ ops[p].iid = i /\ ops'[p].iid \in Known => ops'[p].iid = i
                         /\ ops'[p].iid = i /\ ops[p].iid \in Known => ops[p].iid = i
      BY <1>4, <1>5 DEF Moved
  <2> QED
      BY <2>1, <2>2, <1>3, <1>5, <1>7 DEF OnlyCard
<1>9. ASSUME i \in Known PROVE CardQueue(i)'
  <2>1. CardQueue(i) /\ i = j /\ ops[o].kind # "create"
      BY <1>5, <1>9, QueueOfEach DEF QueueInv
  <2>2. ops[o].state = "processing" /\ ver <= gl[i].ver
    <3>1. Holds(w) /\ AtWork(w)
        BY DEF QueueInv
    <3> QED
        BY <2>1, <3>1, <1>1, <1>2, <1>9 DEF Holds, AtWork
  <2>3. rows'[i] = r /\ gl[i].ver \in Nat
    <3>1. rows' = [rows EXCEPT ![i] = NoRow, ![j] = r]
        BY <1>1 DEF Settles
    <3>2. gl[i] \in Issue
        BY <1>9
    <3> QED
        BY <2>1, <3>1, <3>2 DEF Issue
  <2>4. rows'[i].ver <= gl'[i].ver
      BY <2>2, <2>3, <1>1, <1>3 DEF Settles, NoRow
  <2>5. CASE r = NoRow
    <3>1. \A p \in OpIds : ops'[p].iid # i
        BY <2>1, <2>5, <1>4 DEF Moved
    <3> QED
        BY <3>1, <2>4 DEF CardQueue
  <2>6. CASE r # NoRow
    <3>1. \A p \in OpIds : ops'[p].iid = i <=> ops[p].iid = i
        BY <2>1, <2>6, <1>4 DEF Moved
    <3>2. \A p \in OpIds : /\ Unfinished(p)' => Unfinished(p) /\ p # o
                           /\ ops[p].state = "pending" => ops'[p].state = "pending"
        BY <2>2, <1>4 DEF Unfinished
    <3>a. ASSUME NEW p \in OpIds, NEW q \in OpIds, i \in InOrder, p < q, ops[p].iid = i,
                 ops[q].iid = i
          PROVE  Waits(p, q)'
      <4>1. Waits(p, q)
          BY <2>1, <3>a DEF CardQueue
      <4> QED
          BY <4>1, <3>2, <1>4 DEF Waits
    <3>b. \A p \in OpIds : ops[p].iid = i /\ Last(p)' => Last(p)
        BY <3>1 DEF Last
    <3>3. CASE rows[i].ptr = o
      <4>1. r.ptr = NoOp /\ ops[o].iid = i
        <5>1. r.ptr = NoOp
            BY <3>3, <2>6, <1>1 DEF Settles
        <5>2. ops[o].iid = i
            BY <3>3, <1>1, PointerNames
        <5> QED
            BY <5>1, <5>2
      <4>2. ASSUME NEW p \in OpIds, i \in InOrder, ops[p].iid = i, Unfinished(p)' PROVE FALSE
        <5>1. Unfinished(p) /\ p # o /\ p <= o
            BY <4>2, <3>2, <3>3, <2>1 DEF CardQueue
        <5>2. p < o
            BY <5>1
        <5>3. Waits(p, o)
            BY <4>1, <4>2, <5>2, <2>1 DEF CardQueue
        <5> QED
            BY <5>1, <5>3, <2>2 DEF Waits
      <4>3. ASSUME NEW p \in OpIds, ops[p].iid = i, Last(p)' PROVE ops'[p].state = "synced"
        <5>1. o <= p
            BY <4>1, <4>3, <3>b DEF Last
        <5>2. p <= o
            BY <4>3, <3>3, <2>1 DEF CardQueue
        <5>3. p = o
            BY <5>1, <5>2
        <5> QED
            BY <5>3, <1>4
      <4> QED
          BY <4>1, <4>2, <4>3, <3>1, <3>a, <2>1, <2>3, <2>4, <1>3, <1>4 DEF CardQueue
    <3>c. CASE rows[i].ptr = NoOp
      <4>1. r.ptr = NoOp
          BY <3>c, <2>6, <1>1 DEF Settles
      <4>2. ASSUME NEW p \in OpIds, ops[p].iid = i
            PROVE  /\ Last(p)' => ops'[p].state = "synced"
                   /\ i \in InOrder => ~Unfinished(p)'
          BY <4>2, <3>2, <3>b, <3>c, <2>1, <1>4 DEF CardQueue
      <4> QED
          BY <4>1, <4>2, <3>1, <3>a, <2>1, <2>3, <2>4, <1>3, <1>4 DEF CardQueue
    <3>4. CASE rows[i].ptr # o /\ rows[i].ptr # NoOp
      <4>1. r.ptr = rows[i].ptr
          BY <3>4, <1>1 DEF Settles
      <4> QED
          BY <4>1, <3>1, <3>a, <3>4, <2>1, <2>3, <2>4, <1>3, <1>4 DEF CardQueue
    <3> QED
        BY <3>3, <3>c, <3>4
  <2> QED
      BY <2>5, <2>6
<1>10. (KnownIssues /\ CreatesElsewhere /\ QueueOrder /\ CurrentIsNewest)'
    BY <1>8, <1>9, OneCardQueue
<1>11. ReadIsOld'
    BY <1>3 DEF QueueInv, ReadIsOld
<1>12. ASSUME NEW v \in Workers, worker'[v].pc # "idle"
       PROVE  /\ worker'[v] = worker[v] /\ worker[v].op # o
              /\ worker[v].iid \in InOrder => /\ rows'[worker[v].iid].ver = rows[worker[v].iid].ver
                                              /\ ops'[worker[v].op].iid = ops[worker[v].op].iid
  <2>1. v # w /\ worker'[v] = worker[v]
      BY <1>2, <1>12 DEF Idle
  <2>2. /\ worker[v].op \in OpIds /\ worker[v].op # o
        /\ worker[v].iid \in InOrder => worker[v].iid # i /\ ops[worker[v].op].iid = worker[v].iid
      BY <1>1, <1>2, <1>12, <2>1, Apart
  <2>3. worker[v].iid \in InOrder => worker[v].iid # j
      BY <2>2, <1>5
  <2>4. ASSUME worker[v].iid \in InOrder
        PROVE  ops'[worker[v].op].iid = ops[worker[v].op].iid
      BY <2>2, <2>3, <2>4, <1>4 DEF Moved
  <2> QED
      BY <2>1, <2>2, <2>3, <2>4, <1>7
<1>13. \A v \in Workers : Holds(v)' /\ AtWork(v)'
  <2>1. LeftAlone(o)
      BY <1>3, <1>4, <1>12 DEF LeftAlone
  <2> QED
      BY <2>1, OthersGoOn
<1> QED
    BY <1>10, <1>11, <1>13 DEF QueueInv

\* A worker between two operations has no card.
IdleForgets == \A w \in Workers : worker[w].pc = "idle" => worker[w].iid = NoIid

LEMMA IdleKept == ASSUME IInv, IdleForgets, [Next]_vars PROVE IdleForgets'
<1>1. CASE UNCHANGED worker
    BY <1>1 DEF IdleForgets
<1>2. ASSUME NEW w \in Workers, Advance(w) \/ Fault(w) PROVE IdleForgets'
  <2>1. ASSUME NEW k, worker' = [worker EXCEPT ![w] = k], k.pc = "idle" => k.iid = NoIid
        PROVE  IdleForgets'
      BY <2>1, Types DEF IdleForgets
  <2>2. CASE \/ CompleteOperation(w) \/ CompleteDeleteOperation(w) \/ FailOperation(w)
             \/ RollBack(w) \/ WorkerCrash(w)
      BY <2>1, <2>2 DEF CompleteOperation, CompleteDeleteOperation, FailOperation, RollBack,
         WorkerCrash, Idle
  <2>3. CASE CallFindsNothing(w) \/ CallLosesAnswer(w) \/ CallRejected(w)
      BY <2>1, <2>3 DEF CallFindsNothing, CallLosesAnswer, CallRejected, Failing
  <2>4. CASE CallGitLab(w)
      BY <2>1, <2>4 DEF CallGitLab, Answered
  <2>5. CASE ClaimOperation(w)
      BY <2>1, <2>5 DEF ClaimOperation
  <2> QED
      BY <1>2, <2>2, <2>3, <2>4, <2>5 DEF Advance, Fault
<1>3. CASE Mutation \/ Retry \/ Reader \/ External \/ UNCHANGED vars
    BY <1>1, <1>3 DEF Mutation, Retry, Reader, External, CreateCard, UpdateCard, DeleteCard,
       RetryOperation, ReconcileIssue, ReadIssue, ExternalChange, vars
<1>4. ASSUME NEW o \in OpIds, LeaseLapses(o) PROVE IdleForgets'
    BY <1>1, <1>4 DEF LeaseLapses
<1> QED
    BY <1>2, <1>3, <1>4 DEF Next

LEMMA QueueKept ==
    ASSUME ~StaleScreens, ~LeaseOutlived, IInv, QueueInv, [Next]_vars PROVE QueueInv'
<1>1. CASE Mutation
    BY <1>1, MutationSubmits, SubmittedQueue
<1>2. CASE Retry
    BY <1>2, RetryQueue DEF Retry
<1>3. CASE Reader
    BY <1>3, ReconcileQueue, ReaderQueue DEF Reader
<1>4. CASE External
    BY <1>4, ExternalQueue DEF External
<1>5. ASSUME NEW w \in Workers, Advance(w) \/ Fault(w) PROVE QueueInv'
    BY <1>5, ClaimQueue, CallQueue, GivesUpQueue, CompletionQueue, RemovalQueue, FailureQueue
       DEF Advance, Fault
<1>6. ASSUME NEW o \in OpIds, LeaseLapses(o) PROVE QueueInv'
    BY <1>6, LapseQueue
<1>7. CASE UNCHANGED vars
    BY <1>7 DEF vars, QueueInv, KnownIssues, CreatesElsewhere, QueueOrder, Waits,
       CurrentIsNewest, InOrder, ReadIsOld, Last, Unfinished, Holds, AtWork
<1> QED
    BY <1>1, <1>2, <1>3, <1>4, <1>5, <1>6, <1>7 DEF Next

LEMMA InitQueue == Init => QueueInv
<1> SUFFICES ASSUME Init PROVE QueueInv
    OBVIOUS
<1> USE Keys, KnownKeys
<1>1. /\ \A o \in OpIds : ops[o].iid = NoIid /\ ops[o].kind = "none"
      /\ \A i \in Known : gl[i].st = "live" /\ gl[i].ver = 1 /\ rows[i].ver = 1
      /\ read.iid = NoIid
      /\ \A w \in Workers : worker[w].pc = "idle"
    BY DEF Init, NoAnswer, Idle
<1>2. KnownIssues /\ CreatesElsewhere /\ ReadIsOld
    BY <1>1 DEF KnownIssues, CreatesElsewhere, ReadIsOld
<1>3. CurrentIsNewest
  <2>1. \A p \in OpIds : ops[p].iid \notin Known
      BY <1>1
  <2> QED
      BY <2>1 DEF CurrentIsNewest
<1>4. QueueOrder
  <2>1. \A q \in OpIds : ops[q].iid \notin InOrder
      BY <1>1
  <2> QED
      BY <2>1 DEF QueueOrder
<1>5. \A w \in Workers : Holds(w) /\ AtWork(w)
    BY <1>1 DEF Holds, AtWork
<1> QED
    BY <1>2, <1>3, <1>4, <1>5 DEF QueueInv

\* As long as Retry is pressed on fresh screens and no worker outlasts its lease, the
\* queue of a card in InOrder is worked off in order, by one worker at a time, and every
\* card's row knows the operation stored last (repository.go ClaimOperation,
\* FailOperation).
THEOREM QueueInvariance ==
    ASSUME ~StaleScreens, ~LeaseOutlived PROVE Spec => [](IInv /\ QueueInv)
<1>1. IInv /\ QueueInv /\ [Next]_vars => IInv' /\ QueueInv'
    BY QueueKept, NextIInv
<1>2. Init => IInv /\ QueueInv
    BY InitQueue, InitIInv
<1> QED
    BY <1>1, <1>2, PTL DEF Spec

\* Two instances never carry out operations of one card of GitLab's at the same time: the
\* claim query's lock and its older-operation test suffice as long as the card's requests
\* are stored in the order of their stamps (repository.go ClaimOperation; InOrder says
\* for which cards that is so).
THEOREM OneWorkerAtATime ==
    ASSUME ~StaleScreens, ~LeaseOutlived PROVE Spec => []OneWorkerPerCard
<1>1. IInv /\ QueueInv /\ IdleForgets => OneWorkerPerCard
  <2> SUFFICES ASSUME IInv, QueueInv, IdleForgets, NEW v \in Workers, NEW w \in Workers, v # w,
                      worker[v].pc # "idle", worker[v].iid \in InOrder,
                      worker[v].iid = worker[w].iid
               PROVE  FALSE
      BY DEF OneWorkerPerCard
  <2>1. worker[w].pc # "idle"
      BY KnownKeys DEF IdleForgets
  <2> QED
      BY <2>1, AloneOnCard
<1>2. IInv /\ IdleForgets /\ [Next]_vars => IdleForgets'
    BY IdleKept
<1>3. Init => IdleForgets
    BY DEF Init, IdleForgets, Idle
<1> QED
    BY <1>1, <1>2, <1>3, QueueInvariance, PTL DEF Spec

\* The operation of a card of GitLab's that was stored last never fails behind a card that
\* looks healthy, in whatever order the queue is worked off: its failure is the card's
\* (repository.go FailOperation, RetryOperation).
THEOREM FailuresAreShown ==
    ASSUME ~StaleScreens, ~LeaseOutlived PROVE Spec => []FailureIsVisibleOnIssues
<1>1. IInv /\ QueueInv => FailureIsVisibleOnIssues
  <2> SUFFICES ASSUME IInv, QueueInv, NEW o \in OpIds, ops[o].iid \in Known, HiddenFailure(o)
               PROVE  FALSE
      BY DEF FailureIsVisibleOnIssues
  <2> USE Keys, KnownKeys, Types
  <2>1. PICK i \in Known : i = ops[o].iid
      OBVIOUS
  <2>2. Last(o) /\ ops[o].state = "failed"
      BY <2>1 DEF HiddenFailure, Last
  <2>3. rows[i].ptr # NoOp /\ o <= rows[i].ptr
      BY <2>1, <2>2 DEF QueueInv, CurrentIsNewest
  <2>4. rows[i].ptr \in OpIds /\ ops[rows[i].ptr].iid = i /\ Truthful(i)
      BY <2>3 DEF IInv, ChipTruth, Truthful, Row
  <2>5. rows[i].ptr = o
    <3>1. rows[i].ptr <= o
        BY <2>1, <2>2, <2>4 DEF Last
    <3>2. rows[i].ptr \in Nat /\ o \in Nat
        BY <2>4
    <3> QED
        BY <2>3, <3>1, <3>2
  <2>6. rows[i].sync = "failed"
      BY <2>2, <2>3, <2>4, <2>5 DEF Truthful, Unfinished, Row
  <2> QED
      BY <2>1, <2>5, <2>6 DEF HiddenFailure
<1> QED
    BY <1>1, QueueInvariance, PTL

\* No step takes the row of a card in InOrder back to an older version.
LEMMA VersionsGrow ==
    ASSUME ~StaleScreens, IInv, QueueInv, [Next]_vars
    PROVE  \A c \in InOrder : NeverGoesBack(c)
<1> SUFFICES ASSUME NEW c \in InOrder, Present(c), Present(c)'
             PROVE  rows[c].ver <= rows'[c].ver /\ rows'[c].ver \in Nat /\ rows[c].ver \in Nat
    BY DEF NeverGoesBack
<1> USE Keys, KnownKeys
<1>1. rows \in [Iids -> Row] /\ rows' \in [Iids -> Row]
    BY NextIInv DEF IInv, TypeOK
<1>2. rows[c].ver \in Nat /\ rows'[c].ver \in Nat /\ c \in Iids
    BY <1>1 DEF Row
<1>4. CASE Mutation
  <2>1. PICK o, i, kind : Submitted(o, i, kind)
      BY <1>4, MutationSubmits
  <2>2. /\ i \in Iids /\ o \in OpIds /\ (kind = "create" => i = -o)
      BY <2>1 DEF Submitted
  <2>3. PICK r \in Row : /\ kind # "create" => r.ver = rows[i].ver
                         /\ rows' = [rows EXCEPT ![i] = r]
      BY <2>1 DEF Submitted
  <2>4. i = c => kind # "create"
      BY <2>2
  <2> QED
      BY <2>2, <2>3, <2>4, <1>1, <1>2
<1>5. ASSUME NEW o \in OpIds, RetryOperation(o) PROVE rows[c].ver <= rows'[c].ver
  <2> DEFINE i == ops[o].iid
  <2>1. i \in Iids /\ rows'[i].ver = rows[i].ver /\ \A m \in Iids : m # i => rows'[m] = rows[m]
      BY <1>5, RetryEffect
  <2> QED
      BY <2>1, <1>2
<1>6. CASE ReconcileIssue
  <2>1. PICK r \in Row, i \in Iids : Reconciled(i, r) /\ i = read.iid
    <3>1. PICK r \in Row : Reconciled(read.iid, r)
        BY <1>6, ReconcileEffect
    <3>2. read.iid \in Iids
        BY <3>1 DEF Reconciled
    <3> QED
        BY <3>1, <3>2
  <2>2. rows' = [rows EXCEPT ![i] = r]
      BY <2>1 DEF Reconciled
  <2>3. CASE i = c
    <3>1. rows'[c] = r /\ r # NoRow
        BY <2>2, <2>3, <1>1 DEF Present, NoRow
    <3>2. rows[c].sync # "absent"
        BY DEF Present
    <3>3. rows[c].ver <= r.ver
        BY <2>1, <2>3, <3>1, <3>2 DEF Reconciled
    <3> QED
        BY <3>1, <3>3, <1>2
  <2>4. CASE i # c
      BY <2>2, <2>4, <1>1, <1>2
  <2> QED
      BY <2>3, <2>4
<1>7. ASSUME NEW w \in Workers, CompleteDeleteOperation(w) PROVE rows[c].ver <= rows'[c].ver
  <2>1. rows' = [rows EXCEPT ![worker[w].iid] = NoRow]
      BY <1>7 DEF CompleteDeleteOperation
  <2>2. worker[w].iid # c
      BY <2>1, <1>1 DEF Present, NoRow
  <2> QED
      BY <2>1, <2>2, <1>1, <1>2
<1>8. ASSUME NEW w \in Workers, FailOperation(w) PROVE rows[c].ver <= rows'[c].ver
  <2>1. PICK r \in Row : FailedAs(worker[w].op, worker[w].iid, r)
      BY <1>8, FailureEffect
  <2>2. rows' = [rows EXCEPT ![worker[w].iid] = r] /\ r.ver = rows[worker[w].iid].ver
      BY <2>1 DEF FailedAs
  <2> QED
      BY <2>2, <1>1, <1>2
<1>9. ASSUME NEW w \in Workers, CompleteOperation(w) PROVE rows[c].ver <= rows'[c].ver
  <2> DEFINE o == worker[w].op
             i == worker[w].iid
             j == worker[w].ans.iid
             ver == worker[w].ans.ver
  <2>1. PICK r \in Row : Settles(o, i, j, r, ver)
      BY <1>9, CompletionEffect
  <2>2. worker[w].pc = "answered"
      BY <1>9 DEF CompleteOperation
  <2>3. rows' = [rows EXCEPT ![i] = NoRow, ![j] = r]
      BY <2>1 DEF Settles
  <2>4. CASE c # i /\ c # j
      BY <2>3, <2>4, <1>1, <1>2
  <2>5. CASE c = i
    <3>1. ops[o].kind # "create"
        BY <2>2, <2>5, WorkerOnKnown
    <3>2. i = j
        BY <2>1, <3>1 DEF Settles
    <3>3. rows'[c] = r /\ r # NoRow
        BY <2>3, <2>5, <3>2, <1>1, <1>2 DEF Present, NoRow
    <3>4. r.ver = ver
        BY <2>1, <3>3 DEF Settles
    <3>5. rows[c].ver <= ver
        BY <2>2, <2>5 DEF QueueInv, AtWork
    <3> QED
        BY <3>3, <3>4, <3>5
  <2>6. CASE c = j /\ c # i
    <3>1. ops[o].kind # "create"
        BY <2>2, <2>6 DEF QueueInv, AtWork
    <3> QED
        BY <2>1, <2>6, <3>1 DEF Settles
  <2> QED
      BY <2>4, <2>5, <2>6
<1>10. CASE rows' = rows
    BY <1>2, <1>10
<1>11. ASSUME NEW w \in Workers, Advance(w) \/ Fault(w) PROVE rows[c].ver <= rows'[c].ver
  <2>1. CASE CompleteOperation(w) \/ CompleteDeleteOperation(w) \/ FailOperation(w)
      BY <1>7, <1>8, <1>9, <2>1
  <2>2. CASE \/ ClaimOperation(w) \/ CallGitLab(w) \/ CallFindsNothing(w) \/ RollBack(w)
             \/ Fault(w)
      BY <1>10, <2>2 DEF ClaimOperation, CallGitLab, CallFindsNothing, RollBack, Fault,
         CallLosesAnswer, CallRejected, WorkerCrash
  <2> QED
      BY <1>11, <2>1, <2>2 DEF Advance
<1>12. CASE (\E i \in Issues : ReadIssue(i)) \/ External \/ (\E o \in OpIds : LeaseLapses(o))
            \/ UNCHANGED vars
    BY <1>10, <1>12 DEF ReadIssue, External, ExternalChange, LeaseLapses, vars
<1> QED
    BY <1>2, <1>4, <1>5, <1>6, <1>11, <1>12 DEF Next, Retry, Reader

\* Neither a late merge nor a late answer takes the row of a card of GitLab's back to an
\* older version of it, as long as the card's requests are stored in the order of their
\* stamps (repository.go applyCardObservations, CompleteOperation).
THEOREM VersionsNeverGoBack ==
    ASSUME ~StaleScreens, ~LeaseOutlived PROVE Spec => VersionMonotoneOnIssues
<1>1. IInv /\ QueueInv /\ [Next]_vars => \A i \in InOrder : NeverGoesBack(i)
    BY VersionsGrow
<1>2. IInv /\ QueueInv /\ [Next]_vars => [\A i \in InOrder : NeverGoesBack(i)]_vars
    BY <1>1
<1> QED
    BY <1>2, QueueInvariance, PTL DEF Spec, VersionMonotoneOnIssues, NeverGoesBack

=============================================================================
