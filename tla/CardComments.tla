---------------------------- MODULE CardComments ----------------------------
(***************************************************************************)
(* The comments of the open card (BoardPage.tsx, boardApi.ts): the list    *)
(* read from GitLab, the composer with its draft, and the submission that  *)
(* stores a note or runs quick actions.                                    *)
(***************************************************************************)
EXTENDS Integers, FiniteSets, Sequences

CONSTANTS Texts,        \* what may be written
          EmptyBody,        \* the empty draft
          QuickActions, \* the texts GitLab executes and stores no note of
          MaxSubmits,   \* bound: submissions
          MaxReads      \* bound: reads of the list

ASSUME CommentsAssumption == /\ EmptyBody \notin Texts /\ QuickActions \subseteq Texts
                             /\ MaxSubmits \in Nat /\ MaxReads \in Nat

VARIABLES notes,        \* in GitLab: the text of each note
          shownNotes,   \* the query's data: numbers of notes
          noteRead,     \* the read under way: its state, and the notes in its answer
          noteReads,    \* counts the reads
          body,         \* the draft in the composer
          submissions,  \* the mutations: state, text, and the note each has created
          current,      \* the mutation of the composer that is mounted, 0 if none
          kept,         \* history: the text submitted last, until the user edits the draft
          executed      \* history: quick actions GitLab has executed

commentsVars == <<notes, shownNotes, noteRead, noteReads, body, submissions, current, kept, executed>>

NoRead == [at |-> "none", notes |-> <<>>]
Numbers(s) == [n \in 1 .. Len(s) |-> n]

CommentsInit ==
    /\ notes \in {<<>>} \cup {<<t>> : t \in Texts \ QuickActions}
    /\ shownNotes = <<>> /\ noteRead = [NoRead EXCEPT !.at = "sent"] /\ noteReads = 1
    /\ body = EmptyBody /\ submissions = <<>> /\ current = 0
    /\ kept = EmptyBody /\ executed = {}

Composer == <<body, submissions, current, kept>>

-----------------------------------------------------------------------------
(* The list *)

\* refetch, and invalidateQueries by a removed or added relation or by a
\* submission: the answer to an earlier read is dropped.
ReadAgain == /\ noteReads < MaxReads /\ noteReads' = noteReads + 1
             /\ noteRead' = [NoRead EXCEPT !.at = "sent"]

InvalidateComments == ReadAgain /\ UNCHANGED <<notes, shownNotes, Composer, executed>>

ReadComments ==
    /\ noteRead.at = "sent"
    /\ noteRead' = [at |-> "answered", notes |-> Numbers(notes)]
    /\ UNCHANGED <<notes, shownNotes, noteReads, Composer, executed>>

CommentsLand ==
    /\ noteRead.at = "answered" /\ noteRead' = NoRead
    /\ \/ shownNotes' = noteRead.notes
       \/ UNCHANGED shownNotes                      \* the read failed
    /\ UNCHANGED <<notes, noteReads, Composer, executed>>

-----------------------------------------------------------------------------
(* The composer *)

State(n) == IF n = 0 THEN "idle" ELSE submissions[n].at
IsPending == State(current) \in {"sent", "done"}

\* onValueChange: an edit also takes away the error of the last submission.
TypeComment(text) ==
    /\ text # body /\ body' = text
    /\ current' = IF State(current) = "failed" THEN 0 ELSE current
    /\ kept' = EmptyBody
    /\ UNCHANGED <<notes, shownNotes, noteRead, noteReads, submissions, executed>>

Mutate ==
    /\ body # EmptyBody /\ ~IsPending /\ Len(submissions) < MaxSubmits
    /\ submissions' = Append(submissions, [at |-> "sent", text |-> body, note |-> 0])
    /\ current' = Len(submissions) + 1 /\ kept' = body
    /\ UNCHANGED <<notes, shownNotes, noteRead, noteReads, executed>>

\* Mutant: the composer is emptied when the comment is sent.
SubmitAndClear == Mutate /\ body' = EmptyBody

\* submit, by the button or by the keyboard: never while one is under way.
Submit == Mutate /\ UNCHANGED body

GitLabComments(s) ==
    /\ State(s) = "sent"
    /\ IF submissions[s].text \in QuickActions
       THEN /\ executed' = executed \cup {submissions[s].text}
            /\ submissions' = [submissions EXCEPT ![s].at = "done"]
            /\ UNCHANGED notes
       ELSE /\ notes' = Append(notes, submissions[s].text)
            /\ submissions' = [submissions EXCEPT ![s] = [at |-> "done", text |-> @.text, note |-> Len(notes) + 1]]
            /\ UNCHANGED executed
    /\ UNCHANGED <<shownNotes, noteRead, noteReads, body, current, kept>>

\* onSuccess: a note joins the list as it is by then, quick actions have the
\* list read again; and the draft, whatever it is by then, is emptied, if the
\* composer that sent it is still there.
CommentLands(s) ==
    /\ State(s) = "done"
    /\ submissions' = [submissions EXCEPT ![s].at = "landed"]
    /\ IF submissions[s].note = 0
       THEN noteRead' = [NoRead EXCEPT !.at = "sent"] /\ UNCHANGED shownNotes
       ELSE shownNotes' = Append(shownNotes, submissions[s].note) /\ UNCHANGED noteRead
    /\ body' = IF s = current THEN EmptyBody ELSE body
    /\ UNCHANGED <<notes, noteReads, current, kept, executed>>

\* The request, or the answer to it, is lost: the draft and an error stay.
CommentFails(s) ==
    /\ State(s) \in {"sent", "done"}
    /\ submissions' = [submissions EXCEPT ![s].at = "failed"]
    /\ UNCHANGED <<notes, shownNotes, noteRead, noteReads, body, current, kept, executed>>

\* The drawer is closed and opened again: a new composer.  Nothing asks about
\* the draft, and a submission that is under way goes on without it.
ReopenComposer ==
    /\ <<body, current>> # <<EmptyBody, 0>>
    /\ body' = EmptyBody /\ current' = 0 /\ kept' = EmptyBody
    /\ IF noteRead = NoRead THEN ReadAgain ELSE UNCHANGED <<noteRead, noteReads>>
    /\ UNCHANGED <<notes, shownNotes, submissions, executed>>

TheyComment(text) ==
    /\ Len(notes) <= MaxSubmits           \* bound
    /\ notes' = Append(notes, text)
    /\ UNCHANGED <<shownNotes, noteRead, noteReads, Composer, executed>>

CommentsNext ==
    \/ InvalidateComments \/ ReadComments \/ CommentsLand \/ Submit \/ ReopenComposer
    \/ \E s \in DOMAIN submissions : GitLabComments(s) \/ CommentLands(s) \/ CommentFails(s)
    \/ \E t \in Texts \cup {EmptyBody} : TypeComment(t)
    \/ \E t \in Texts \ QuickActions : TheyComment(t)

CommentsSpec == CommentsInit /\ [][CommentsNext]_commentsVars

-----------------------------------------------------------------------------
(* Properties *)

\* The types; every note the browser lists, or was told it created, exists.
CommentsTypeOK ==
    /\ \A n \in 1 .. Len(notes) : notes[n] \in Texts \ QuickActions
    /\ \A k \in 1 .. Len(shownNotes) : shownNotes[k] \in 1 .. Len(notes)
    /\ noteRead.at \in {"none", "sent", "answered"}
    /\ body \in Texts \cup {EmptyBody} /\ kept \in Texts \cup {EmptyBody}
    /\ current \in 0 .. Len(submissions) /\ Len(submissions) <= MaxSubmits
    /\ \A n \in DOMAIN submissions : /\ submissions[n].at \in {"sent", "done", "landed", "failed"}
                                     /\ submissions[n].note \in 0 .. Len(notes)
    /\ executed \subseteq QuickActions

\* What the user submitted is stored or executed by GitLab, or still in the
\* composer to be sent again: a failed submission leaves the draft available,
\* as long as the drawer stays open.
SubmittedTextSurvives ==
    kept # EmptyBody => \/ body = kept
                    \/ kept \in executed
                    \/ \E n \in 1 .. Len(notes) : notes[n] = kept
=============================================================================
