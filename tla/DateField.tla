----------------------------- MODULE DateField -----------------------------
(***************************************************************************)
(* The date field of the Start and Due dates (packages/ui DateField.tsx):  *)
(* a text input that sends a date as soon as it is complete, and a         *)
(* calendar with its own keyboard focus.  The value is the card's, shown   *)
(* at once when sent; other users may change it while the field is edited. *)
(*                                                                         *)
(* Dates are numbers of days; a text is a date, blank, or neither yet.     *)
(***************************************************************************)
EXTENDS Integers, Sequences

CONSTANTS MonthStarts,     \* the first day of each month, and of the month after the last
          Week,            \* days of a week; day 0 begins one
          CalendarStart, CalendarEnd,
          Today,
          Entries,         \* the dates a user types
          NoDate,
          MaxEntries,      \* bound: texts typed, dates chosen
          MaxTheirDates    \* bound: changes of the date by others

Months == 1 .. Len(MonthStarts) - 1
Days == MonthStarts[1] .. MonthStarts[Len(MonthStarts)] - 1

ASSUME DateAssumption == /\ {CalendarStart, CalendarEnd, Today} \cup Entries \subseteq Days
                         /\ CalendarStart <= CalendarEnd /\ Week \in Nat \ {0}
                         /\ \A k \in Months : MonthStarts[k] < MonthStarts[k + 1]

VARIABLES value,           \* the card's date
          editing,         \* EditingDate; its draft is a text
          calendar,        \* the popover: open, focusedDate and visibleMonth
          entries, theirs, \* count what the bounds bound
          meant,           \* history: the date the user entered last
          excuse           \* history: why it may not be the card's, see Excuses

dateVars == <<value, editing, calendar, entries, theirs, meant, excuse>>

Nowhere == [on |-> FALSE, draft |-> [is |-> "blank", day |-> NoDate], last |-> [set |-> FALSE, day |-> NoDate]]
BlankDate == [is |-> "blank", day |-> NoDate]
Incomplete == [is |-> "incomplete", day |-> NoDate]
Complete(d) == [is |-> "date", day |-> d]
Shows(d) == IF d = NoDate THEN BlankDate ELSE Complete(d)

-----------------------------------------------------------------------------
(* calendarDate.ts *)

CalendarMonth(d) == IF d < MonthStarts[1] THEN 0
                    ELSE IF d \notin Days THEN Len(MonthStarts)
                    ELSE CHOOSE k \in Months : MonthStarts[k] <= d /\ d < MonthStarts[k + 1]

ClampDate(d) == IF d < CalendarStart THEN CalendarStart ELSE IF d > CalendarEnd THEN CalendarEnd ELSE d

\* addMonths: the last day of a shorter month takes the place of a missing one.
AddMonths(d, n) ==
    LET to == CalendarMonth(d) + n
        day == d - MonthStarts[CalendarMonth(d)]
    IN  IF to < 1 THEN MonthStarts[1] - 1
        ELSE IF to \notin Months THEN MonthStarts[Len(MonthStarts)]
        ELSE IF MonthStarts[to] + day < MonthStarts[to + 1] THEN MonthStarts[to] + day
        ELSE MonthStarts[to + 1] - 1

StartOfWeek(d) == d - (d % Week)
EndOfWeek(d) == StartOfWeek(d) + Week - 1

InitialCalendarDate == ClampDate(Today)

-----------------------------------------------------------------------------
DateInit ==
    /\ value \in Entries \cup {NoDate} /\ editing = Nowhere
    /\ calendar = [open |-> FALSE, focused |-> InitialCalendarDate, month |-> CalendarMonth(InitialCalendarDate)]
    /\ entries = 0 /\ theirs = 0 /\ meant = NoDate /\ excuse = "theirs"

\* emit: nothing is sent twice, nor the date the field already has.
Emit(d) == value' = IF d # value /\ ~(editing.last.set /\ editing.last.day = d) THEN d ELSE value

\* History: "theirs": somebody has changed the date since it was entered; "repeated":
\* somebody changed it and the user has entered the date again that this edit had sent
\* before, which emit drops.
Excuses == {"none", "theirs", "repeated"}

Entered(d) ==
    /\ meant' = d
    /\ excuse' = IF excuse # "none" /\ editing.last.set /\ editing.last.day = d
                 THEN "repeated" ELSE "none"

Enters == entries < MaxEntries /\ entries' = entries + 1

FocusInput ==
    /\ ~editing.on /\ ~calendar.open
    /\ editing' = [on |-> TRUE, draft |-> Shows(value), last |-> Nowhere.last]
    /\ UNCHANGED <<value, calendar, entries, theirs, meant, excuse>>

\* changeDraft: a complete date is sent at once.
ChangeDraft(text) ==
    /\ ~calendar.open /\ Enters /\ (editing.on => editing.draft # text)
    /\ IF text.is = "date"
       THEN /\ Emit(text.day) /\ Entered(text.day)
            /\ editing' = [on |-> TRUE, draft |-> text, last |-> [set |-> TRUE, day |-> text.day]]
       ELSE /\ editing' = [on |-> TRUE, draft |-> text, last |-> editing.last]
            /\ UNCHANGED <<value, meant, excuse>>
    /\ UNCHANGED <<calendar, theirs>>

\* Enter, or leaving the field: a blank text clears the date, a date is sent,
\* anything else gives way to the card's date.
CommitDraft ==
    /\ editing.on /\ ~calendar.open /\ editing' = Nowhere
    /\ CASE editing.draft.is = "blank" -> Emit(NoDate) /\ Entered(NoDate)
         [] editing.draft.is = "date" -> Emit(editing.draft.day) /\ UNCHANGED <<meant, excuse>>
         [] OTHER -> UNCHANGED <<value, meant, excuse>>
    /\ UNCHANGED <<calendar, entries, theirs>>

\* Escape: what was sent stays sent.
AbandonDraft ==
    /\ editing.on /\ ~calendar.open /\ editing' = Nowhere
    /\ UNCHANGED <<value, calendar, entries, theirs, meant, excuse>>

-----------------------------------------------------------------------------
(* The calendar *)

FocusOn(d) == calendar' = [calendar EXCEPT !.focused = d, !.month = CalendarMonth(d)]

\* The trigger is part of the field: the draft waits.
OpenCalendar ==
    /\ ~calendar.open
    /\ calendar' = [open |-> TRUE, focused |-> InitialCalendarDate, month |-> CalendarMonth(InitialCalendarDate)]
    /\ UNCHANGED <<value, editing, entries, theirs, meant, excuse>>

CloseCalendar ==
    /\ calendar.open /\ calendar' = [calendar EXCEPT !.open = FALSE]
    /\ UNCHANGED <<value, editing, entries, theirs, meant, excuse>>

\* moveDayFocus: arrows, Home and End.
MoveDay(to) ==
    /\ calendar.open /\ FocusOn(ClampDate(to))
    /\ UNCHANGED <<value, editing, entries, theirs, meant, excuse>>

\* moveByMonths.
MoveByMonths(from, n) == FocusOn(ClampDate(AddMonths(from, n)))

PageMonths(n) ==
    /\ calendar.open /\ MoveByMonths(calendar.focused, n)
    /\ UNCHANGED <<value, editing, entries, theirs, meant, excuse>>

\* The buttons move from the middle of the visible month.
MonthButton(n) ==
    /\ calendar.open
    /\ IF n < 0 THEN calendar.month > CalendarMonth(CalendarStart) ELSE calendar.month < CalendarMonth(CalendarEnd)
    /\ \E middle \in Days : /\ CalendarMonth(middle) = calendar.month
                            /\ middle = MonthStarts[calendar.month]
                                        + (MonthStarts[calendar.month + 1] - MonthStarts[calendar.month]) \div 2
                            /\ MoveByMonths(middle, n)
    /\ UNCHANGED <<value, editing, entries, theirs, meant, excuse>>

\* Scrolling changes the visible month, to that of the first day of a week.
Scroll(week) ==
    /\ calendar.open /\ week \in {StartOfWeek(d) : d \in CalendarStart .. CalendarEnd} \cap Days
    /\ calendar' = [calendar EXCEPT !.month = CalendarMonth(week)]
    /\ UNCHANGED <<value, editing, entries, theirs, meant, excuse>>

\* Mutant: a draft survives the choice and is committed after it.
KeepsDraft == editing' = [editing EXCEPT !.last = Nowhere.last]

DropsDraft == editing' = Nowhere

\* selectDate: a day of the calendar, "clear" or "today".
SelectDate(d) ==
    /\ calendar.open /\ Enters
    /\ Emit(d) /\ Entered(d) /\ DropsDraft
    /\ calendar' = [calendar EXCEPT !.open = FALSE]
    /\ UNCHANGED theirs

TheyChangeDate(d) ==
    /\ d # value /\ theirs < MaxTheirDates /\ theirs' = theirs + 1
    /\ value' = d /\ excuse' = "theirs"
    /\ UNCHANGED <<editing, calendar, entries, meant>>

DateNext ==
    \/ FocusInput \/ CommitDraft \/ AbandonDraft \/ OpenCalendar \/ CloseCalendar
    \/ \E text \in {BlankDate, Incomplete} \cup {Complete(d) : d \in Entries} : ChangeDraft(text)
    \/ \E step \in {-1, 1, -Week, Week} : MoveDay(calendar.focused + step)
    \/ MoveDay(StartOfWeek(calendar.focused)) \/ MoveDay(EndOfWeek(calendar.focused))
    \/ \E n \in {-1, 1} : PageMonths(n) \/ MonthButton(n)
    \/ \E week \in Days : Scroll(week)
    \/ \E d \in Entries \cup {NoDate, Today} : SelectDate(d)
    \/ \E d \in Entries \cup {NoDate} : TheyChangeDate(d)

DateSpec == DateInit /\ [][DateNext]_dateVars

-----------------------------------------------------------------------------
(* Properties *)

\* The types; and a day that can be chosen has the keyboard focus of the
\* calendar, within its months but for the week the first month begins in.
DateTypeOK ==
    /\ value \in Days \cup {NoDate} /\ meant \in Days \cup {NoDate} /\ excuse \in Excuses
    /\ editing.draft.is \in {"blank", "incomplete", "date"}
    /\ calendar.focused \in CalendarStart .. CalendarEnd
    /\ calendar.month \in CalendarMonth(CalendarStart) - 1 .. CalendarMonth(CalendarEnd)

\* Whether typed, committed or chosen, and in whatever order, the date entered
\* last is the card's, and no draft that is left in the field replaces it:
\* unless somebody else has changed the date since, or changed it before and
\* the date entered last is the one this edit had sent already: the field
\* takes that entry for one that is under way, and drops it.
LastEntryIsKept == excuse # "none" \/ value = meant
=============================================================================
