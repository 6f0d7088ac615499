--------------------------- MODULE CommandPalette ---------------------------
(***************************************************************************)
(* The search palette, web/src/components/command-palette.ts.  Typing      *)
(* paints the local hits at once and fetches the lesson hits after a       *)
(* pause; answers come back in any order, and a token says which of them   *)
(* is still wanted.                                                        *)
(***************************************************************************)
EXTENDS Naturals, Sequences, FiniteSets

CONSTANTS
  Queries,        \* what may be typed, Empty included
  Empty,          \* the query that trims to nothing
  Entities,       \* Entities[q]: the local hits of a query, in order
  LessonHits,        \* Lessons[q]: the hits the server has for it
  MaxTokens       \* bound of the exploration on queryToken

ASSUME EmptyIsAQuery == Empty \in Queries
ASSUME HitsOfEveryQuery ==
  DOMAIN Entities = Queries /\ DOMAIN LessonHits = Queries /\ Entities[Empty] = <<>>
ASSUME HitsAreSequences ==
  \A q \in Queries : \A hits \in {Entities[q], LessonHits[q]} :
    hits \in Seq({hits[k] : k \in DOMAIN hits})
ASSUME TokensAreBounded == MaxTokens \in Nat

VARIABLES
  open,        \* is the overlay shown
  input,       \* the text in the field
  queryToken,
  debounce,    \* the armed timer: its query and token, or NoTimer
  fetches,     \* lesson searches under way: query and token
  items,       \* the hits painted
  pending,     \* is "searching..." painted in place of the lessons
  sel          \* the index of the selected hit, from 0; -1 for none

paletteVars == <<open, input, queryToken, debounce, fetches, items, pending, sel>>

NoTimer == [armed |-> FALSE]
Timer(q, t) == [armed |-> TRUE, query |-> q, token |-> t]
NoSelection == 0 - 1

Min2(x, y) == IF x < y THEN x ELSE y

\* Mutant of Paint: every repaint selects the first hit.
PaintFromTheTop(entities, lessons, lessonsPending) ==
  /\ items' = entities \o lessons
  /\ pending' = (lessonsPending /\ lessons = <<>>)
  /\ sel' = IF entities \o lessons = <<>> THEN NoSelection ELSE 0

\* `paint`: entity hits first, lessons last, and the selection kept valid.
Paint(entities, lessons, lessonsPending) ==
  LET hits == entities \o lessons
  IN  /\ items' = hits
      /\ pending' = (lessonsPending /\ lessons = <<>>)
      /\ sel' = IF hits = <<>> THEN NoSelection
                ELSE Min2(IF sel < 0 THEN 0 ELSE sel, Len(hits) - 1)

PaletteInit ==
  /\ open = FALSE
  /\ input = Empty
  /\ queryToken = 0
  /\ debounce = NoTimer
  /\ fetches = {}
  /\ items = <<>>
  /\ pending = FALSE
  /\ sel = NoSelection

Open ==
  /\ ~open
  /\ open' = TRUE
  /\ input' = Empty
  /\ items' = <<>>
  /\ pending' = FALSE
  /\ sel' = NoSelection
  /\ UNCHANGED <<queryToken, debounce, fetches>>

\* Mutant of Close: the answers under way stay wanted.
CloseOnly ==
  /\ open /\ queryToken < MaxTokens
  /\ open' = FALSE
  /\ debounce' = NoTimer
  /\ UNCHANGED <<queryToken, input, fetches, items, pending, sel>>

\* Escape, a click on the backdrop, the shortcut, or opening a hit.
Close ==
  /\ open
  /\ queryToken < MaxTokens
  /\ open' = FALSE
  /\ debounce' = NoTimer
  /\ queryToken' = queryToken + 1
  /\ UNCHANGED <<input, fetches, items, pending, sel>>

\* `onQuery`; a key that changes only the white space asks the same query again.
Type(q) ==
  /\ open
  /\ queryToken < MaxTokens
  /\ input' = q
  /\ Paint(Entities[q], <<>>, q # Empty)
  /\ queryToken' = queryToken + 1
  /\ debounce' = IF q = Empty THEN NoTimer ELSE Timer(q, queryToken')
  /\ UNCHANGED <<open, fetches>>

\* 140 ms without typing.
Fetch ==
  /\ debounce.armed
  /\ fetches' = fetches \cup {[query |-> debounce.query, token |-> debounce.token]}
  /\ debounce' = NoTimer
  /\ UNCHANGED <<open, input, queryToken, items, pending, sel>>

\* Mutant of Answer: whatever arrives is painted.
AnswerAlways(f, lessons) ==
  /\ fetches' = fetches \ {f}
  /\ Paint(Entities[f.query], lessons, FALSE)
  /\ UNCHANGED <<open, input, queryToken, debounce>>

\* The server answers, or the search fails and counts as no lessons
\* (`searchLessonHits` catches).  An answer to an older query is dropped.
Answer(f, lessons) ==
  /\ fetches' = fetches \ {f}
  /\ IF f.token = queryToken
       THEN Paint(Entities[f.query], lessons, FALSE)
       ELSE UNCHANGED <<items, pending, sel>>
  /\ UNCHANGED <<open, input, queryToken, debounce>>

LessonAnswers == \E f \in fetches : Answer(f, LessonHits[f.query])

\* Mutant of Fails: the rejection is not caught.
FailsUncaught ==
  \E f \in fetches :
    /\ fetches' = fetches \ {f}
    /\ UNCHANGED <<open, input, queryToken, debounce, items, pending, sel>>

Fails == \E f \in fetches : Answer(f, <<>>)

ArrowDown ==
  /\ open /\ items # <<>>
  /\ sel' = (sel + 1) % Len(items)
  /\ UNCHANGED <<open, input, queryToken, debounce, fetches, items, pending>>

ArrowUp ==
  /\ open /\ items # <<>>
  /\ sel' = (sel - 1 + Len(items)) % Len(items)
  /\ UNCHANGED <<open, input, queryToken, debounce, fetches, items, pending>>

\* The pointer moves over a hit.
Hover ==
  /\ open
  /\ sel' \in 0 .. Len(items) - 1
  /\ UNCHANGED <<open, input, queryToken, debounce, fetches, items, pending>>

PaletteNext ==
  \/ Open \/ Close \/ (\E q \in Queries : Type(q))
  \/ Fetch \/ LessonAnswers \/ Fails \/ ArrowDown \/ ArrowUp \/ Hover

\* The timer fires and every fetch settles (the server times a request out);
\* nothing obliges the user.
PaletteSpec ==
  /\ PaletteInit /\ [][PaletteNext]_paletteVars
  /\ WF_paletteVars(Fetch)
  /\ \A q \in Queries, t \in 1 .. MaxTokens :
       WF_paletteVars(\E f \in fetches : f = [query |-> q, token |-> t]
                                    /\ (Answer(f, LessonHits[q]) \/ Answer(f, <<>>)))

-----------------------------------------------------------------------------
\* What is on the screen belongs to the text in the field: local hits of that
\* query, followed by all or none of its lessons, whatever answers arrive late.
HitsMatchTheQuery ==
  open => items \in {Entities[input], Entities[input] \o LessonHits[input]}

\* Late lessons do not move the highlight to another hit under the finger
\* that is about to press Enter.
LateHitsKeepTheSelection ==
  [][fetches' \subseteq fetches /\ fetches' # fetches /\ items' # items /\ items # <<>> =>
       sel' = sel /\ items'[sel' + 1] = items[sel + 1]]_paletteVars

\* A closed palette is not repainted.
ClosedIsQuiet ==
  [][~open /\ ~open' => UNCHANGED <<items, pending, sel>>]_paletteVars

\* A palette that is left alone stops searching.
SearchingEnds == [](pending => <>(~pending \/ ~open))
=============================================================================
