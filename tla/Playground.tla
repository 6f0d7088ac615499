----------------------------- MODULE Playground -----------------------------
(***************************************************************************)
(* The playground page: the code editor of web/src/components/             *)
(* code-editor.ts and the panels of web/src/pages/playground.ts.  Every    *)
(* edit arms a timer, the timer assembles, what was assembled is listed,   *)
(* disassembled and explained by requests of their own, and no response    *)
(* says which question it answers.  Responses come in any order, or not at *)
(* all: a request may fail.                                                *)
(*                                                                         *)
(* A text stands for the program it assembles to.  A listing row is a pair *)
(* of the text and the row's number.                                       *)
(***************************************************************************)
EXTENDS Naturals, Sequences, FiniteSets

CONSTANTS
  Texts,         \* what the editor may hold
  Bad,           \* the texts that do not assemble
  Rowless,         \* the texts that assemble to nothing
  FirstText,     \* the sample the page opens with
  Rows,          \* rows in a listing
  Nothing,       \* no text, no row
  Unavailable,   \* what a panel shows of a request that failed
  MaxActs        \* bound of the exploration on what the user does

ASSUME TextsAssemble ==
  /\ FirstText \in Texts \ Bad /\ Bad \subseteq Texts /\ Rowless \subseteq Texts \ Bad
  /\ Nothing \notin Texts /\ Unavailable \notin Texts \cup {Nothing}
ASSUME RowsArePositive == Rows \in Nat \ {0}
ASSUME ActsAreCounted == MaxActs \in Nat

VARIABLES
  source,      \* the editor's text
  timer,       \* is the assemble timer armed?
  underWay,    \* requests under way, oldest first: what is asked, of what
  acts,        \* how many edits and clicks there were
  marker,      \* whose error is underlined: a text's, a failed request's, or Nothing
  assembled,   \* lastAssembled: the text of the last good response, or Nothing
  selected,    \* the row selected in the listing, or Nothing
  explained,   \* the row the explainer shows, its error, or Nothing
  disasm,      \* what the disassembly panel holds: listings, an error
  traced,      \* the text of the run the trace tab shows
  codeOf,      \* the text whose length bounds the code range of that trace
  asked,       \* history: the text of the last run asked for
  runFailed,   \* history: did the run answered last fail?
  overtaken,   \* history: the kinds of request whose last one was answered first
  alone        \* history: was the last disassembly asked for with no other under way?

panels == <<marker, assembled, selected, explained, disasm, traced, codeOf>>
history == <<asked, runFailed, overtaken, alone>>
playgroundVars == <<source, timer, underWay, acts, panels, history>>

Request(what, of) == [what |-> what, of |-> of]
OfKind(what) == {i \in DOMAIN underWay : underWay[i].what = what}

PlaygroundInit ==
  /\ source = FirstText
  /\ timer = TRUE
  /\ underWay = <<>>
  /\ acts = 0
  /\ marker = Nothing /\ assembled = Nothing
  /\ selected = Nothing /\ explained = Nothing
  /\ disasm = <<>>
  /\ traced = Nothing /\ codeOf = Nothing
  /\ asked = Nothing /\ runFailed = FALSE /\ overtaken = {} /\ alone = TRUE

UserActs == acts < MaxActs /\ acts' = acts + 1

(***************************************************************************)
(* What the user and the timer do.                                         *)
(***************************************************************************)
\* Mutant of Edit: the timer is not armed again.
EditUntimed(t) ==
  /\ UserActs
  /\ t # source
  /\ source' = t
  /\ UNCHANGED <<timer, underWay, panels, history>>

Edit(t) ==
  /\ UserActs
  /\ t # source
  /\ source' = t
  /\ timer' = TRUE
  /\ UNCHANGED <<underWay, panels, history>>

\* `runAssemble`, 400 ms after the last edit.
Assemble ==
  /\ timer
  /\ timer' = FALSE
  /\ underWay' = Append(underWay, Request("assemble", source))
  /\ overtaken' = overtaken \ {"assemble"}
  /\ UNCHANGED <<source, acts, panels, asked, runFailed, alone>>

\* Mutant of SelectRow: a selection nobody explains.
SelectQuietly(k) ==
  /\ UserActs
  /\ assembled \in Texts \ Rowless
  /\ selected' = <<assembled, k>>
  /\ UNCHANGED <<source, timer, underWay, marker, assembled, explained, disasm, traced,
                 codeOf, history>>

\* A click on a row of the listing, which is that of the last good response.
SelectRow(k) ==
  /\ UserActs
  /\ assembled \in Texts \ Rowless
  /\ selected' = <<assembled, k>>
  /\ underWay' = Append(underWay, Request("explain", <<assembled, k>>))
  /\ overtaken' = overtaken \ {"explain"}
  /\ UNCHANGED <<source, timer, marker, assembled, explained, disasm, traced, codeOf,
                 asked, runFailed, alone>>

\* Mutant of ClickRun: what was last assembled is run, not what is in the editor.
RunAssembled ==
  /\ UserActs
  /\ assembled # Nothing
  /\ underWay' = Append(underWay, Request("run", assembled))
  /\ asked' = source
  /\ overtaken' = overtaken \ {"run"}
  /\ UNCHANGED <<source, timer, panels, runFailed, alone>>

\* The run button does not wait for the editor's timer.
ClickRun ==
  /\ UserActs
  /\ underWay' = Append(underWay, Request("run", source))
  /\ asked' = source
  /\ overtaken' = overtaken \ {"run"}
  /\ UNCHANGED <<source, timer, panels, runFailed, alone>>

(***************************************************************************)
(* Responses.                                                              *)
(***************************************************************************)
Others(i) == [j \in 1 .. Len(underWay) - 1 |-> underWay[IF j < i THEN j ELSE j + 1]]

Arrives(i, what) == i \in DOMAIN underWay /\ underWay[i].what = what

\* The kinds of which the newest request is answered and an older one is not.
Overtakes(i) ==
  IF \E j \in DOMAIN underWay : j < i /\ underWay[j].what = underWay[i].what
       /\ \A k \in OfKind(underWay[i].what) : k <= i
  THEN {underWay[i].what} ELSE {}

\* The text assembled: the markers go, the listing is redrawn, and the
\* disassembly panel is emptied and asked for anew.
Redraws(i, t) ==
  /\ Arrives(i, "assemble")
  /\ underWay[i].of = t
  /\ marker' = Nothing
  /\ assembled' = t
  /\ disasm' = <<>>
  /\ alone' = (OfKind("disassemble") = {})
  /\ UNCHANGED <<source, acts, timer, explained, traced, codeOf, asked, runFailed>>

\* `renderAssembled` of a listing with rows clicks the first of them.
Assembles(i) ==
  \E t \in Texts \ (Bad \cup Rowless) :
    /\ Redraws(i, t)
    /\ selected' = <<t, 1>>
    /\ underWay' =
         Others(i) \o <<Request("explain", <<t, 1>>), Request("disassemble", t)>>
    /\ overtaken' = (overtaken \cup Overtakes(i)) \ {"explain", "disassemble"}

\* A listing of no row has nothing to click; the explainer keeps what it shows.
AssemblesToNothing(i) ==
  \E t \in Rowless :
    /\ Redraws(i, t)
    /\ selected' = Nothing
    /\ underWay' = Append(Others(i), Request("disassemble", t))
    /\ overtaken' = (overtaken \cup Overtakes(i)) \ {"disassemble"}

\* It did not assemble, and the error is underlined; the listing stays.
Rejects(i) ==
  /\ Arrives(i, "assemble")
  /\ underWay[i].of \in Bad
  /\ marker' = underWay[i].of
  /\ underWay' = Others(i)
  /\ overtaken' = overtaken \cup Overtakes(i)
  /\ UNCHANGED <<source, timer, acts, assembled, selected, explained, disasm, traced,
                 codeOf, asked, runFailed, alone>>

Explains(i) ==
  /\ Arrives(i, "explain")
  /\ explained' = underWay[i].of
  /\ underWay' = Others(i)
  /\ overtaken' = overtaken \cup Overtakes(i)
  /\ UNCHANGED <<source, timer, acts, marker, assembled, selected, disasm, traced, codeOf,
                 asked, runFailed, alone>>

\* Mutant of Disassembles: the answer goes in front of what the panel has.
DisassemblesInFront(i) ==
  /\ Arrives(i, "disassemble")
  /\ disasm' = <<underWay[i].of>> \o disasm
  /\ underWay' = Others(i)
  /\ overtaken' = overtaken \cup Overtakes(i)
  /\ UNCHANGED <<source, timer, acts, marker, assembled, selected, explained, traced,
                 codeOf, asked, runFailed, alone>>

\* The panel was emptied when the question was asked; the answer is appended.
Disassembles(i) ==
  /\ Arrives(i, "disassemble")
  /\ disasm' = Append(disasm, underWay[i].of)
  /\ underWay' = Others(i)
  /\ overtaken' = overtaken \cup Overtakes(i)
  /\ UNCHANGED <<source, timer, acts, marker, assembled, selected, explained, traced,
                 codeOf, asked, runFailed, alone>>

\* The server assembled the text again; one that does not assemble, or to
\* nothing, is refused and leaves the trace alone.  The length of the code is
\* that of the last good assembly.
Runs(i) ==
  LET t == underWay[i].of
      runs == t \notin Bad \cup Rowless
  IN  /\ Arrives(i, "run")
      /\ traced' = IF runs THEN t ELSE traced
      /\ codeOf' = IF runs THEN assembled ELSE codeOf
      /\ runFailed' = FALSE
      /\ underWay' = Others(i)
      /\ overtaken' = overtaken \cup Overtakes(i)
      /\ UNCHANGED <<source, timer, acts, marker, assembled, selected, explained, disasm,
                     asked, alone>>

\* A request fails: the editor underlines its first line, the explainer says so,
\* the disassembly panel is emptied to say so, and a run leaves its trace.
RequestFails(i) ==
  LET what == underWay[i].what IN
  /\ marker' = IF what = "assemble" THEN Unavailable ELSE marker
  /\ explained' = IF what = "explain" THEN Unavailable ELSE explained
  /\ disasm' = IF what = "disassemble" THEN <<Unavailable>> ELSE disasm
  /\ runFailed' = IF what = "run" THEN TRUE ELSE runFailed
  /\ underWay' = Others(i)
  /\ overtaken' = overtaken \cup Overtakes(i)
  /\ UNCHANGED <<source, timer, acts, assembled, selected, traced, codeOf, asked, alone>>

Responds(i) ==
  \/ Assembles(i) \/ AssemblesToNothing(i) \/ Rejects(i)
  \/ Explains(i) \/ Disassembles(i) \/ Runs(i)

PlaygroundNext ==
  \/ (\E t \in Texts : Edit(t)) \/ Assemble
  \/ (\E k \in 1 .. Rows : SelectRow(k)) \/ ClickRun
  \/ \E i \in DOMAIN underWay : Responds(i) \/ RequestFails(i)

PlaygroundSpec == PlaygroundInit /\ [][PlaygroundNext]_playgroundVars

-----------------------------------------------------------------------------
Quiet == ~timer /\ underWay = <<>>

\* What is underlined for a text: its error, if it does not assemble.
Verdict(t) == IF t \in Bad THEN t ELSE Nothing

\* Live diagnostics (README.md:67): when nothing is under way, the error that is
\* underlined is that of the text in the editor, or of the request, if it failed,
\* and a good text is the one that is listed; unless the answer about it came
\* before that about an older text.
DiagnosticsAreLive ==
  Quiet /\ "assemble" \notin overtaken =>
    \/ marker = Unavailable
    \/ marker = Verdict(source) /\ (source \notin Bad => assembled = source)

\* The explainer shows the selected instruction (playground.ts:2) or says that it
\* is unavailable, unless an older explanation came after that.
TheSelectionIsExplained ==
  Quiet /\ "explain" \notin overtaken /\ selected # Nothing =>
    explained \in {selected, Unavailable}

\* The trace tab shows the last run asked for, unless that was refused, failed, or
\* was answered before an older one.
TheLastRunIsTraced ==
  Quiet /\ "run" \notin overtaken /\ ~runFailed /\ asked \notin Bad \cup Rowless =>
    traced = asked

\* What was put into the disassembly panel last is about the assembled text,
\* unless it came before an older answer; and there is nothing else in the panel,
\* if no other disassembly was under way when that was asked for.
TheDisassemblyIsCurrent ==
  Quiet /\ assembled # Nothing /\ "disassemble" \notin overtaken =>
    /\ disasm # <<>> /\ disasm[Len(disasm)] \in {assembled, Unavailable}
    /\ alone => Len(disasm) = 1

(***************************************************************************)
(* What is said of the page without regard to the order of the responses.  *)
(***************************************************************************)
\* README.md:67, "live diagnostics".
MarkersAreOfTheText == Quiet /\ marker # Unavailable => marker = Verdict(source)
=============================================================================
