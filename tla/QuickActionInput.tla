-------------------------- MODULE QuickActionInput --------------------------
(***************************************************************************)
(* The text area with GitLab's autocompletion, of descriptions and         *)
(* comments (GitLabAutocompleteTextarea.tsx, quickActionAutocomplete.ts):  *)
(* the text and its caret, what is offered at the caret, the suggestions   *)
(* that are fetched for it, and the choice that is put into the text.      *)
(*                                                                         *)
(* A text is a sequence of symbols.  The names of commands and the names   *)
(* that can be referred to have one letter, so that a query that is        *)
(* included in a name is empty or equals it.                               *)
(***************************************************************************)
EXTENDS Lists, FiniteSetsExt

CONSTANTS Letters, Slash, Blank, NewLine,
          Member,        \* "@", whose queries are letters only
          References,    \* sequence: "@" and the other signs that refer, in the order they are tried
          QuickCommands, \* sequence of [name, params], params a sequence of signs
          Known,         \* Known[sign]: sequence of the names this page knows
          Drafts,        \* the texts it is mounted over
          MaxText,       \* bound: length of the text when typing and choosing
          MaxRequests    \* bound: requests asked or answered

Signs == ToSet(References)
Symbols == Letters \cup Signs \cup {Slash, Blank, NewLine}

ASSUME InputAssumption == /\ References \in Seq(Signs) /\ Member \in Signs /\ IsInjective(References)
                          /\ QuickCommands \in Seq([name : Letters, params : Seq(Signs)])
                          /\ Known \in [Signs -> Seq(Letters)]
                          /\ {Slash, Blank, NewLine} \cap (Letters \cup Signs) = {}
                          /\ Drafts \subseteq Seq(Symbols)
                          /\ MaxText \in Nat /\ MaxRequests \in Nat

VARIABLES content,          \* value
          box,           \* cursor, the caret of the element, focused, activeIndex, dismissed, frame;
                         \* told is history: an event has told the cursor of the caret
          commandsKnown, \* commandsQuery has data
          deferred,      \* deferredRequest
          asked,         \* the requests under way
          suggested      \* the answers, by request

inputVars == <<content, box, commandsKnown, deferred, asked, suggested>>

NoRequest == <<>>
NoFrame == -1
NoMenu == <<>>

\* The cursor starts at the end of the text, the caret of a new element before it.
InputInit ==
    /\ content \in Drafts
    /\ box = [cursor |-> Len(content), caret |-> 0, told |-> FALSE, focused |-> FALSE, active |-> 0,
              dismissed |-> NoMenu, frame |-> NoFrame]
    /\ commandsKnown = FALSE /\ deferred = NoRequest /\ asked = {} /\ suggested = <<>>

-----------------------------------------------------------------------------
(* What is asked for at the cursor *)

SafeCursor == Min({box.cursor, Len(content)})
LineStart == Max({0} \cup {i \in 1 .. SafeCursor : content[i] = NewLine})
Line == SubSeq(content, LineStart + 1, SafeCursor)

EndOfLine(n) == SubSeq(Line, Len(Line) - n + 1, Len(Line))
QuerySymbols(sign) == IF sign = Member THEN Letters ELSE Symbols \ {Blank, sign}

\* The patterns of references: the line ends with the sign and a query.
RefersAt(sign, n) ==
    /\ n < Len(Line) /\ Line[Len(Line) - n] = sign
    /\ ToSet(EndOfLine(n)) \subseteq QuerySymbols(sign)

\* explicitReference: the first that matches, as <<sign, length of the query>>
Explicit ==
    LET matched == {m \in (1 .. Len(References)) \X (0 .. Len(Line)) : RefersAt(References[m[1]], m[2])}
        first == CHOOSE m \in matched : \A o \in matched : m[1] <= o[1]
    IN  IF matched = {} THEN <<>> ELSE <<References[first[1]], first[2]>>

\* commandPattern
IsCommand == Line # <<>> /\ Line[1] = Slash /\ ToSet(Tail(Line)) \subseteq Letters

\* findCommand
Commands == IF commandsKnown THEN ToSet(QuickCommands) ELSE {}
Typed == {c \in Commands : Len(Line) > 2 /\ SubSeq(Line, 1, 3) = <<Slash, c.name, Blank>>}

ArgumentCount == Cardinality({i \in 4 .. Len(Line) : Line[i] # Blank /\ Line[i - 1] = Blank})

\* The sign that the parameter at the cursor hints at.
Hint == IF Line = <<>> \/ Line[Len(Line)] # Blank THEN {}
        ELSE {c.params[Min({ArgumentCount + 1, Len(c.params)})] : c \in {t \in Typed : t.params # <<>>}}

\* suggestionRequestAt
Request == LET refers == Explicit
           IN  IF refers # <<>> THEN <<refers[1], EndOfLine(refers[2])>>
               ELSE IF Hint # {} THEN <<CHOOSE sign \in Hint : TRUE, <<>>>>
               ELSE NoRequest

-----------------------------------------------------------------------------
(* What is offered at the cursor *)

Found(query, names) == Only(names, {n \in ToSet(names) : query \in {<<>>, <<n>>}})
Insert(sign, names) == [k \in DOMAIN names |-> <<sign, names[k]>>]

\* remoteItems: of the request the page has rendered last, maybe not of this one
Remote(sign) ==
    IF deferred # NoRequest /\ deferred[1] = sign /\ deferred \in DOMAIN suggested
    THEN Insert(sign, suggested[deferred]) ELSE <<>>

\* mergeItems
Merge(mine, others) == mine \o Only(others, ToSet(others) \ ToSet(mine))
Offered(sign, query) == Merge(Insert(sign, Found(query, Known[sign])), Remote(sign))

\* commandItem: a command is inserted with a blank and the sign of its parameter
CommandItems ==
    LET found == Only(IF commandsKnown THEN QuickCommands ELSE <<>>,
                      {c \in Commands : Len(Line) = 1 \/ Tail(Line) = <<c.name>>})
    IN  [k \in DOMAIN found |->
            <<Slash, found[k].name>> \o (IF found[k].params = <<>> THEN <<>> ELSE <<Blank, found[k].params[1]>>)]

\* autocompleteAt
Offer ==
    LET refers == Explicit
        hint == Hint
    IN  IF IsCommand THEN [start |-> LineStart, items |-> CommandItems]
        ELSE IF refers # <<>>
        THEN [start |-> SafeCursor - refers[2] - 1, items |-> Offered(refers[1], EndOfLine(refers[2]))]
        ELSE IF hint # {}
        THEN [start |-> SafeCursor, items |-> Offered(CHOOSE sign \in hint : TRUE, <<>>)]
        ELSE [start |-> 0, items |-> <<>>]

SignatureOf(offer) == <<offer.start, SafeCursor, SubSeq(content, offer.start + 1, SafeCursor)>>
Signature == SignatureOf(Offer)
Pops(offer) == box.focused /\ offer.items # <<>> /\ box.dismissed # SignatureOf(offer)
MenuOpen == LET offer == Offer IN Pops(offer)
Selected == Min({box.active + 1, Len(Offer.items)})

-----------------------------------------------------------------------------
(* The user *)

\* The query is enabled: it asks for what it has no answer to.
Asks(request, focused) ==
    /\ asked' = IF focused /\ request # NoRequest /\ request \notin DOMAIN suggested
                THEN asked \cup {request} ELSE asked
    /\ Cardinality(asked' \cup DOMAIN suggested) <= MaxRequests     \* bound

\* change
Edited(t, at) ==
    /\ content' = t
    /\ box' = [box EXCEPT !.cursor = at, !.caret = at, !.told = TRUE, !.active = 0, !.dismissed = NoMenu]
    /\ UNCHANGED <<commandsKnown, deferred, asked, suggested>>

\* While the menu is open, Enter chooses.
Type(s) ==
    /\ box.focused /\ Len(content) < MaxText /\ ~(s = NewLine /\ MenuOpen)
    /\ Edited(InsertAt(content, box.caret + 1, s), box.caret + 1)

Erase == /\ box.focused /\ box.caret > 0
         /\ Edited(RemoveAt(content, box.caret), box.caret - 1)

\* Mutant: a click does not tell the cursor.
MoveUnseen(at) ==
    /\ at \in 0 .. Len(content) /\ box' = [box EXCEPT !.caret = at, !.told = TRUE, !.active = 0]
    /\ UNCHANGED <<content, commandsKnown, deferred, asked, suggested>>

\* updateCursor, after a click, a key or a selection: also one that leaves the
\* caret where it is.
MoveCaret(at) ==
    /\ at \in 0 .. Len(content)
    /\ box' = [box EXCEPT !.caret = at, !.cursor = at, !.told = TRUE, !.active = 0]
    /\ UNCHANGED <<content, commandsKnown, deferred, asked, suggested>>

\* The mouse goes down in the text: that moves the caret, and focuses the element; the
\* cursor is told with the click, or the selection, that follows.
Press(at) ==
    /\ at \in 0 .. Len(content)
    /\ box' = [box EXCEPT !.caret = at, !.told = FALSE, !.focused = TRUE]
    /\ Asks(deferred, TRUE) /\ UNCHANGED <<content, commandsKnown, deferred, suggested>>

\* By autoFocus, the keyboard or a script: the caret stays where it was left.
Focused(is) ==
    /\ box.focused # is /\ box' = [box EXCEPT !.focused = is]
    /\ Asks(deferred, is) /\ UNCHANGED <<content, commandsKnown, deferred, suggested>>

Arrow(step) ==
    /\ MenuOpen /\ box' = [box EXCEPT !.active = (@ + step) % Len(Offer.items)]
    /\ UNCHANGED <<content, commandsKnown, deferred, asked, suggested>>

Escape == /\ MenuOpen /\ box' = [box EXCEPT !.dismissed = Signature]
          /\ UNCHANGED <<content, commandsKnown, deferred, asked, suggested>>

\* choose: the element's caret goes to the end with the new value, and to the
\* end of what was inserted in the next frame.
Choose(k) ==
    /\ Len(content) <= MaxText                          \* bound
    /\ LET offer == Offer
           next == offer.start + Len(offer.items[k])
       IN  /\ Pops(offer) /\ k \in DOMAIN offer.items
           /\ content' = SubSeq(content, 1, offer.start) \o offer.items[k] \o SubSeq(content, SafeCursor + 1, Len(content))
           /\ box' = [box EXCEPT !.cursor = next, !.caret = Len(content'), !.dismissed = NoMenu, !.frame = next]
    /\ UNCHANGED <<commandsKnown, deferred, asked, suggested>>

Enter == Choose(Selected)

Frame ==
    /\ box.frame # NoFrame
    /\ LET at == Min({box.frame, Len(content)})
       IN  box' = [box EXCEPT !.focused = TRUE, !.caret = at, !.cursor = at, !.told = TRUE, !.active = 0, !.frame = NoFrame]
    /\ Asks(deferred, TRUE) /\ UNCHANGED <<content, commandsKnown, deferred, suggested>>

-----------------------------------------------------------------------------
(* The page and the server *)

\* The submitted comment has landed, or an edit of a blank description is reverted
\* (any other description goes to its preview then): the value is replaced, and the
\* cursor is not told.
Emptied ==
    /\ content # <<>> /\ content' = <<>>
    /\ box' = [box EXCEPT !.caret = 0]
    /\ UNCHANGED <<commandsKnown, deferred, asked, suggested>>

CommandsLand == /\ ~commandsKnown /\ commandsKnown' = TRUE
                /\ UNCHANGED <<content, box, deferred, asked, suggested>>

\* useDeferredValue: the request of an earlier text is asked until React
\* renders again.
Defer == /\ deferred # Request /\ deferred' = Request /\ Asks(Request, box.focused)
         /\ UNCHANGED <<content, box, commandsKnown, suggested>>

\* GitLab knows some names, or the request fails.
SuggestionsLand(request, names) ==
    /\ request \in asked /\ asked' = asked \ {request}
    /\ \/ suggested' = [r \in DOMAIN suggested \cup {request} |-> IF r = request THEN names ELSE suggested[r]]
       \/ UNCHANGED suggested
    /\ UNCHANGED <<content, box, commandsKnown, deferred>>

InputNext ==
    \/ \E s \in Symbols : Type(s)
    \/ \E at \in 0 .. Len(content) : MoveCaret(at) \/ Press(at)
    \/ \E is \in BOOLEAN : Focused(is)
    \/ \E request \in asked, name \in Letters : SuggestionsLand(request, <<name>>)
    \/ Erase \/ Frame \/ Emptied \/ CommandsLand \/ Defer
    \/ /\ MenuOpen
       /\ \/ Escape \/ Enter
          \/ \E step \in {1, -1} : Arrow(step)
          \/ \E k \in DOMAIN Offer.items : Choose(k)

InputSpec == InputInit /\ [][InputNext]_inputVars

-----------------------------------------------------------------------------
(* Properties *)

\* The types; what is being asked has no answer yet, and is offered once.
InputTypeOK ==
    /\ ToSet(content) \subseteq Symbols
    /\ box.caret \in 0 .. Len(content) /\ box.cursor \in Nat /\ box.frame \in Nat \cup {NoFrame}
    /\ \A request \in asked \cup DOMAIN suggested : request[1] \in Signs
    /\ asked \cap DOMAIN suggested = {}
    /\ MenuOpen => IsInjective(Offer.items)

\* What the menu offers, and a choice replaces, is what stands at the caret: a
\* cursor left behind by a choice or by a value that was replaced opens no menu.
\* Two times are excepted, and the frame after a choice, in which the caret is
\* behind: after the text area is mounted over a text, and while the mouse is
\* down, no event has told the cursor of the caret yet (box.told).
MenuIsAtCaret == box.told /\ box.frame = NoFrame /\ MenuOpen => SafeCursor = box.caret
=============================================================================
