----------------------------- MODULE FieldSaves -----------------------------
(***************************************************************************)
(* The save markers of a card's fields (useFieldSaveState.ts,              *)
(* SaveIndicator.tsx) and the mutations that drive them (runCardMutation,  *)
(* handleStatusMove and handleRetry of BoardPage.tsx), for one card.       *)
(*                                                                         *)
(* A field's marker is settled by the answer to its own request, while the *)
(* card shows the state of one operation only, the last this tab began or  *)
(* the server reported.                                                    *)
(***************************************************************************)
EXTENDS Integers, Sequences

CONSTANTS Fields,       \* SaveField
          MaxEdits,     \* bound: edits
          MaxSends      \* bound: requests, first ones and repeated ones

ASSUME SavesAssumption == MaxEdits \in Nat /\ MaxSends \in Nat

VARIABLES ops,          \* the field of each operation, in the order of the edits
          saves,        \* the marker of each field
          timers,       \* the operation whose saved marker a timer will remove, 0 if none
          shown,        \* the card: its pendingOperationId and syncState
          localRetries, \* operations this tab can send again
          sends,        \* requests of operations, in the order they were sent
          retries,      \* operations with POST /operations/{id}/retry under way
          server        \* the server: the state of each operation, and the card's row

savesVars == <<ops, saves, timers, shown, localRetries, sends, retries, server>>

NoOp == 0
Ops == 1 .. MaxEdits
Row == [op : Ops \cup {NoOp}, state : {"synced", "pending", "failed"}]
Settled == [op |-> NoOp, state |-> "synced"]
NoMarker == [state |-> "none", op |-> NoOp]
Marker == [state : {"saving", "saved", "failed"}, op : Ops]
Sent == [op : Ops, answer : {"none", "ok", "taken"}, row : Row]

SavesInit ==
    /\ ops = <<>>
    /\ saves = [f \in Fields |-> NoMarker]
    /\ timers = [f \in Fields |-> NoOp]
    /\ shown = Settled /\ localRetries = {}
    /\ sends = <<>> /\ retries = {}
    /\ server = [op |-> [o \in Ops |-> "unknown"], row |-> Settled]

-----------------------------------------------------------------------------
(* useFieldSaveState *)

Begin(field, op) ==
    /\ saves' = [saves EXCEPT ![field] = [state |-> "saving", op |-> op]]
    /\ timers' = [timers EXCEPT ![field] = NoOp]

\* Mutant: a field is settled by whichever of its requests is answered.
SettleTheField(op, state) ==
    /\ saves' = [saves EXCEPT ![ops[op]].state = state]
    /\ timers' = [timers EXCEPT ![ops[op]] = IF state = "saved" THEN saves[ops[op]].op ELSE @]

\* The field whose marker belongs to the operation is settled; the answer to
\* an edit that was followed by another of that field finds none.
Settle(op, state) ==
    LET owners == {f \in Fields : saves[f].op = op}
    IN  /\ saves' = [f \in Fields |-> IF f \in owners THEN [saves[f] EXCEPT !.state = state] ELSE saves[f]]
        /\ timers' = [f \in Fields |-> IF f \in owners /\ state = "saved" THEN op ELSE timers[f]]

\* A saved marker goes away after a moment, unless another edit owns the field.
SavedTimer(field) ==
    /\ timers[field] # NoOp
    /\ timers' = [timers EXCEPT ![field] = NoOp]
    /\ saves' = [saves EXCEPT ![field] = IF @.op = timers[field] THEN NoMarker ELSE @]
    /\ UNCHANGED <<ops, shown, localRetries, sends, retries, server>>

RetryMarker(op) ==
    saves' = [f \in Fields |-> IF saves[f].op = op THEN [saves[f] EXCEPT !.state = "saving"] ELSE saves[f]]

-----------------------------------------------------------------------------
(* The mutations of BoardPage *)

Send(op) ==
    /\ Len(sends) < MaxSends
    /\ sends' = Append(sends, [op |-> op, answer |-> "none", row |-> Settled])

\* The card shows the edit at once, as this operation's.
EditField(field) ==
    LET op == Len(ops) + 1
    IN  /\ op \in Ops
        /\ ops' = Append(ops, field)
        /\ shown' = [op |-> op, state |-> "pending"]
        /\ localRetries' = localRetries \cup {op}
        /\ Begin(field, op)
        /\ Send(op)
        /\ UNCHANGED <<retries, server>>

Answered(k) == sends' = [sends EXCEPT ![k].answer = "taken"]

\* The answer replaces the card only while the card still shows this operation.
SaveSucceeds(k) ==
    LET op == sends[k].op
    IN  /\ sends[k].answer = "ok"
        /\ Answered(k)
        /\ localRetries' = localRetries \ {op}
        /\ shown' = IF shown.op = op THEN sends[k].row ELSE shown
        /\ Settle(op, "saved")
        /\ UNCHANGED <<ops, retries, server>>

\* Refused, or lost before or after the server stored it.
SaveFails(k) ==
    LET op == sends[k].op
    IN  /\ sends[k].answer # "taken"
        /\ Answered(k)
        /\ localRetries' = localRetries \cup {op}
        /\ shown' = IF shown.op = op THEN [shown EXCEPT !.state = "failed"] ELSE shown
        /\ Settle(op, "failed")
        /\ UNCHANGED <<ops, retries, server>>

\* Mutant: the marker turns to saving, but nothing is sent.
RetryCardSilently ==
    /\ shown.state = "failed" /\ shown.op # NoOp
    /\ shown' = [shown EXCEPT !.state = "pending"]
    /\ RetryMarker(shown.op)
    /\ retries' = retries \cup {shown.op}
    /\ UNCHANGED <<ops, timers, localRetries, sends, server>>

\* The card's Retry: the request again, or a retry of the operation in the
\* server when this tab has none.
RetryCard ==
    /\ shown.state = "failed" /\ shown.op # NoOp
    /\ shown' = [shown EXCEPT !.state = "pending"]
    /\ RetryMarker(shown.op)
    /\ IF shown.op \in localRetries
       THEN Send(shown.op) /\ UNCHANGED retries
       ELSE retries' = retries \cup {shown.op} /\ UNCHANGED sends
    /\ UNCHANGED <<ops, timers, localRetries, server>>

\* The answer changes nothing; a failure marks the card as failed.
RetryEnds(op) ==
    /\ op \in retries
    /\ retries' = retries \ {op}
    /\ \/ /\ server' = IF server.op[op] # "failed" THEN server
                       ELSE [op |-> [server.op EXCEPT ![op] = "pending"],
                             row |-> IF server.row.op = op THEN [server.row EXCEPT !.state = "pending"]
                                     ELSE server.row]
          /\ UNCHANGED shown
       \/ shown' = [shown EXCEPT !.state = "failed"] /\ UNCHANGED server
    /\ UNCHANGED <<ops, saves, timers, localRetries, sends>>

-----------------------------------------------------------------------------
(* The server, and the frames that report its row *)

\* An operation it knows already is answered with the card as it is.
ServerTakes(k) ==
    LET op == sends[k].op
        taken == server.op[op] = "unknown"
    IN  /\ sends[k].answer = "none"
        /\ server' = IF taken THEN [op |-> [server.op EXCEPT ![op] = "pending"],
                                   row |-> [op |-> op, state |-> "pending"]]
                     ELSE server
        /\ sends' = [sends EXCEPT ![k] = [op |-> op, answer |-> "ok", row |-> server'.row]]
        /\ UNCHANGED <<ops, saves, timers, shown, localRetries, retries>>

ServerEnds(op, state) ==
    /\ server.op[op] = "pending"
    /\ server' = [op |-> [server.op EXCEPT ![op] = state],
                  row |-> IF server.row.op # op THEN server.row
                          ELSE IF state = "done" THEN Settled ELSE [op |-> op, state |-> "failed"]]
    /\ UNCHANGED <<ops, saves, timers, shown, localRetries, sends, retries>>

\* A frame does not replace a card whose operation this tab owns.
RowSeen ==
    /\ shown.op \in {NoOp, server.row.op} \/ shown.op \notin localRetries
    /\ shown' = server.row
    /\ UNCHANGED <<ops, saves, timers, localRetries, sends, retries, server>>

-----------------------------------------------------------------------------
SavesNext ==
    \/ \E f \in Fields : EditField(f) \/ SavedTimer(f)
    \/ \E k \in DOMAIN sends : SaveSucceeds(k) \/ SaveFails(k) \/ ServerTakes(k)
    \/ RetryCard \/ RowSeen
    \/ \E o \in Ops : RetryEnds(o) \/ ServerEnds(o, "done") \/ ServerEnds(o, "failed")

SavesSpec == SavesInit /\ [][SavesNext]_savesVars

-----------------------------------------------------------------------------
(* Properties *)

\* Markers, card, requests and the server's row keep their types.
SavesTypeOK ==
    /\ ops \in Seq(Fields) /\ Len(ops) <= MaxEdits
    /\ saves \in [Fields -> Marker \cup {NoMarker}]
    /\ timers \in [Fields -> Ops \cup {NoOp}]
    /\ shown \in Row /\ localRetries \subseteq Ops
    /\ sends \in Seq(Sent) /\ retries \subseteq Ops
    /\ server \in [op : [Ops -> {"unknown", "pending", "failed", "done"}], row : Row]

\* A field marked as saved: the server has stored the last edit of that field,
\* not an earlier one whose answer came late.
SavedIsStored ==
    \A f \in Fields : saves[f].state = "saved" =>
        \E o \in DOMAIN ops : /\ ops[o] = f /\ \A p \in DOMAIN ops : ops[p] = f => p <= o
                              /\ server.op[o] # "unknown"

\* No marker hangs on saving: its request is unanswered, or a timer removes it.
SavingEnds ==
    \A f \in Fields : saves[f].state = "saving" =>
        \/ \E k \in DOMAIN sends : sends[k].op = saves[f].op /\ sends[k].answer # "taken"
        \/ timers[f] = saves[f].op

\* A field marked as failed can be retried: the card shows the failure of that
\* field's operation, or the retry under way.
FailedFieldIsRetryable ==
    \A f \in Fields : saves[f].state = "failed" => shown.op = saves[f].op
=============================================================================
