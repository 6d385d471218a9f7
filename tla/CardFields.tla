---------------------------- MODULE CardFields ----------------------------
(***************************************************************************)
(* The fields of one card between requests, the cache and GitLab: a        *)
(* request reads the whole card, changes some fields and writes the whole  *)
(* card back (board/service.go, UpdateCard); a worker sends the fields of  *)
(* its operation's kind, from the operation where it has them and else     *)
(* from the card it claimed (ProcessOne, ApplyIssue), and merges what      *)
(* GitLab answers.                                                         *)
(*                                                                         *)
(* The content of a field is the number of the edit that wrote it, 0 at    *)
(* first.  Every call succeeds and no lease is outlived: CardOps has the   *)
(* faults.  BoardDrag has positions.                                       *)
(***************************************************************************)
EXTENDS Integers, Sequences, FiniteSets

CONSTANTS EditKinds,      \* the kinds of operations this board is used for
          MaxBoardEdits,  \* bound: edits on the board
          MaxTheirEdits,  \* bound: edits in GitLab
          MaxCardReads    \* bound: reads of the issue

ASSUME FieldsAssumption ==
    /\ EditKinds \subseteq {"details", "team", "labels", "assignee", "due_date", "move"}
    /\ MaxBoardEdits \in Nat /\ MaxTheirEdits \in Nat /\ MaxCardReads \in Nat

VARIABLES edits,     \* the edits, in the order their requests read the card
          stamped,   \* the edits with a created_at, in its order
          cached,       \* the card in issue_cache
          issue,     \* the issue in GitLab
          observed,  \* what a board read or a webhook has read and not merged
          reads      \* counts those reads

fieldsVars == <<edits, stamped, cached, issue, observed, reads>>

CardFieldNames == {"title", "description", "team", "labels", "assignees", "due", "status"}
Content == [CardFieldNames -> 0 .. MaxBoardEdits + MaxTheirEdits]
Unedited == [f \in CardFieldNames |-> 0]
NothingObserved == [card |-> Unedited, ver |-> -1, knows |-> {}]

\* What the user asks for.  Tags are the team and the labels; another team
\* brings the assignees into line.
Changes(kind) ==
    CASE kind = "details" -> {"title", "description"}
      [] kind = "team" -> {"team", "assignees"}
      [] kind = "labels" -> {"team", "labels", "assignees"}
      [] kind = "assignee" -> {"assignees"}
      [] kind = "due_date" -> {"due"}
      [] kind = "move" -> {"status"}

\* Mutant: every operation sends the dates of the card along.
SendsDates(kind) == {"due"} \cup Changes(kind)

\* mutation.Fields: the title has the team's prefix; a move sends the tags.
Sends(kind) ==
    CASE kind \in {"team", "labels"} -> {"title", "team", "labels", "assignees"}
      [] kind = "move" -> {"team", "labels", "status"}
      [] OTHER -> Changes(kind)

FieldsInit ==
    /\ edits = <<>> /\ stamped = <<>>
    /\ cached = [card |-> Unedited, op |-> 0, ver |-> 0, knows |-> {}]
    /\ issue = [card |-> Unedited, ver |-> 0, knows |-> {}]
    /\ observed = NothingObserved /\ reads = 0

-----------------------------------------------------------------------------
(* Requests *)

Edit(kind, fields, at, base, knew) ==
    [kind |-> kind, fields |-> fields, at |-> at, base |-> base, claimed |-> Unedited,
     answer |-> NothingObserved, knew |-> knew]

WithEdit(card, fields, e) == [f \in CardFieldNames |-> IF f \in fields THEN e ELSE card[f]]

OfBoard == {e \in DOMAIN edits : edits[e].kind # "in_gitlab"}

\* update: the card is read, and changed in memory.
BeginUpdate(kind) ==
    /\ Cardinality(OfBoard) < MaxBoardEdits
    /\ edits' = Append(edits, Edit(kind, Changes(kind), "read", cached.card, cached.knows))
    /\ UNCHANGED <<stamped, cached, issue, observed, reads>>

\* newOperation takes the time, by which operations are carried out.
StampUpdate(e) ==
    /\ edits[e].at = "read"
    /\ edits' = [edits EXCEPT ![e].at = "stamped"] /\ stamped' = Append(stamped, e)
    /\ UNCHANGED <<cached, issue, observed, reads>>

\* UpdateCard writes all fields of the card it was given.
StoreUpdate(e) ==
    /\ edits[e].at = "stamped" /\ edits' = [edits EXCEPT ![e].at = "queued"]
    /\ cached' = [cached EXCEPT !.card = WithEdit(edits[e].base, edits[e].fields, e), !.op = e,
                          !.knows = edits[e].knew \cup {e}]
    /\ UNCHANGED <<stamped, issue, observed, reads>>

-----------------------------------------------------------------------------
(* Operations *)

Before(d, e) == \E k, n \in DOMAIN stamped : stamped[k] = d /\ stamped[n] = e /\ k < n

\* Mutant: the oldest operation that is free, whatever another worker holds.
FreeToClaim(e) == ~\E d \in DOMAIN edits : Before(d, e) /\ edits[d].at = "queued"

Claimable(e) ==
    ~\E d \in DOMAIN edits : Before(d, e) /\ edits[d].at \in {"queued", "claimed", "applied"}

\* ClaimOperation: no earlier operation of the card in the table is
\* unfinished.  Two workers may hold operations of the card, when the earlier
\* one is stored last.
ClaimUpdate(e) ==
    /\ edits[e].at = "queued"
    /\ Claimable(e)
    /\ edits' = [edits EXCEPT ![e].at = "claimed", ![e].claimed = cached.card]
    /\ UNCHANGED <<stamped, cached, issue, observed, reads>>

\* operationString, operationStrings, operationInt64s: from the payload, which
\* holds the labels of a move or a team too, or else from the claimed card.
SentContent(e, f) ==
    IF f \in edits[e].fields THEN e
    ELSE IF f = "labels" THEN edits[e].base[f] ELSE edits[e].claimed[f]

IssueWith(card, e) ==
    [card |-> card, knows |-> issue.knows \cup {e},
     ver |-> IF card = issue.card THEN issue.ver ELSE issue.ver + 1]

\* ApplyIssue, and its answer.
ApplyUpdate(e) ==
    /\ edits[e].at = "claimed"
    /\ issue' = IssueWith([f \in CardFieldNames |-> IF f \in Sends(edits[e].kind) THEN SentContent(e, f)
                                                    ELSE issue.card[f]], e)
    /\ edits' = [edits EXCEPT ![e].at = "applied", ![e].answer = issue']
    /\ UNCHANGED <<stamped, cached, observed, reads>>

SameScalars(c, d) == \A f \in CardFieldNames \ {"assignees"} : c[f] = d[f]

\* applyCardObservations for one card: skipped while an operation owns the row
\* or when it is older; written when a column differs, which assignees are not.
MergedInto(r, found) ==
    IF r.op # 0 \/ r.ver > found.ver \/ (SameScalars(r.card, found.card) /\ r.ver = found.ver)
    THEN r
    ELSE [card |-> found.card, op |-> 0, ver |-> found.ver, knows |-> found.knows]

\* CompleteOperation: the version first, then the merge; and the assignees,
\* if no later operation has the card.
Completed(r, e) ==
    LET found == edits[e].answer
        merged == MergedInto([r EXCEPT !.op = IF r.op = e THEN 0 ELSE r.op, !.ver = found.ver], found)
    IN IF r.op = e THEN [merged EXCEPT !.card.assignees = found.card.assignees, !.knows = found.knows]
       ELSE merged

CompleteUpdate(e) ==
    /\ edits[e].at = "applied" /\ edits' = [edits EXCEPT ![e].at = "done"]
    /\ cached' = Completed(cached, e)
    /\ UNCHANGED <<stamped, issue, observed, reads>>

-----------------------------------------------------------------------------
(* GitLab *)

EditInGitLab(f) ==
    LET e == Len(edits) + 1 IN
    /\ Len(edits) - Cardinality(OfBoard) < MaxTheirEdits
    /\ edits' = Append(edits, Edit("in_gitlab", {f}, "done", issue.card, issue.knows))
    /\ issue' = IssueWith(WithEdit(issue.card, {f}, e), e)
    /\ UNCHANGED <<stamped, cached, observed, reads>>

ReadCard ==
    /\ observed = NothingObserved /\ reads < MaxCardReads /\ reads' = reads + 1
    /\ observed' = issue
    /\ UNCHANGED <<edits, stamped, cached, issue>>

MergeCard ==
    /\ observed # NothingObserved /\ observed' = NothingObserved
    /\ cached' = MergedInto(cached, observed)
    /\ UNCHANGED <<edits, stamped, issue, reads>>

FieldsNext ==
    \/ \E kind \in EditKinds : BeginUpdate(kind)
    \/ \E e \in DOMAIN edits : StampUpdate(e) \/ StoreUpdate(e) \/ ClaimUpdate(e)
                               \/ ApplyUpdate(e) \/ CompleteUpdate(e)
    \/ \E f \in CardFieldNames : EditInGitLab(f)
    \/ ReadCard \/ MergeCard

FieldsSpec == FieldsInit /\ [][FieldsNext]_fieldsVars

-----------------------------------------------------------------------------
(* Properties *)

\* The types of the card in its three places.
FieldsTypeOK ==
    /\ \A e \in DOMAIN edits : /\ edits[e].at \in {"read", "stamped", "queued", "claimed", "applied", "done"}
                               /\ edits[e].base \in Content /\ edits[e].claimed \in Content
                               /\ edits[e].knew \subseteq DOMAIN edits
    /\ cached.card \in Content /\ cached.op \in {0} \cup OfBoard /\ cached.ver \in Nat
    /\ issue.card \in Content /\ issue.ver \in Nat

\* Neither of the two was begun with the other in sight.
Concurrent(d, e) == d # e /\ d \notin edits[e].knew /\ e \notin edits[d].knew

\* Fields an operation sends that its user did not change.
SentAlong(kind) ==
    CASE kind = "team" -> {"title", "labels"}
      [] kind = "labels" -> {"title"}
      [] kind = "move" -> {"team", "labels"}
      [] OTHER -> {}

\* Another edit may take the field of this one away: it was begun without it
\* and changes the field or sends it along; or what it wrote into the cache
\* is what a third one sends as the title, or as the team.
Endangered(e, f) ==
    \E d \in DOMAIN edits :
        /\ Concurrent(d, e)
        /\ \/ f \in edits[d].fields \cup SentAlong(edits[d].kind)
           \/ \E g \in OfBoard : f \in {"title", "team"} \cap SentAlong(edits[g].kind)

Superseded(e, f) == \E d \in DOMAIN edits : e \in edits[d].knew /\ f \in edits[d].fields

\* Operations send their own fields (ARCHITECTURE.md:27): however requests,
\* operations, answers and reads interleave, when all is done GitLab has of
\* every field the last edit, and the board shows it, unless an edit that was
\* made at the same time changes or sends that field as well.
EditsSurvive ==
    (\A e \in DOMAIN edits : edits[e].at = "done") =>
        \A e \in DOMAIN edits : \A f \in edits[e].fields :
            \/ Endangered(e, f) \/ Superseded(e, f)
            \/ /\ issue.card[f] = e
               /\ cached.card[f] = e \/ e \notin OfBoard \/ \E d \in DOMAIN edits : Concurrent(d, e)

\* The same where only edits of the same field at the same time count.
OwnFieldsOnly ==
    (\A e \in DOMAIN edits : edits[e].at = "done") =>
        \A e \in DOMAIN edits : \A f \in edits[e].fields :
            \/ Superseded(e, f) \/ \E d \in DOMAIN edits : Concurrent(d, e) /\ f \in edits[d].fields
            \/ issue.card[f] = e
=============================================================================
