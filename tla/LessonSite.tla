----------------------------- MODULE LessonSite -----------------------------
(***************************************************************************)
(* The lessons of the site: the server that loads, validates and serves a  *)
(* curriculum (crates/server/src/main.rs, routes/lessons.rs) and a browser *)
(* on its lesson pages (web/src/main.ts, web/src/pages/lessons.ts).        *)
(*                                                                         *)
(* A request may be answered or fail, at any time and in any order; the    *)
(* server may be stopped and started again with other lessons on the disk  *)
(* while a page stays open.  The handlers read what never changes while    *)
(* the server is up, so that handling and delivery are one step.           *)
(***************************************************************************)
EXTENDS Curriculum

CONSTANTS
  Disks,         \* what the lesson directory may hold
  Answers,       \* what a student may type
  Ids,           \* the lesson ids a link or a typed address may name
  MaxGestures,   \* bounds of the exploration: what the user does,
  MaxBoots       \* and how often the server is started

ASSUME BoundsAreNumbers == MaxGestures \in Nat /\ MaxBoots \in Nat

\* What is on a disk is listed.
IsList(s) == DOMAIN s \subseteq Nat /\ None \notin Range(s)

ASSUME DisksAreListed ==
  \A disk \in Disks : Load(disk) # None =>
    /\ IsList(Lessons(Load(disk)))
    /\ \A l \in Range(Lessons(Load(disk))) :
         IsList(l.exercises)

ASSUME RunsStop ==
  \A t \in Answers : t.run \notin {None, Panicked} => t.run.stop \in Stops

VARIABLES
  server,        \* "down", "serving", or why it gave up
  boots,         \* how often it was started
  curriculum,    \* what is served, or None
  hash,          \* the route in the address bar
  mount,         \* which rendering of a route the view holds
  page,          \* the status of that rendering and what it shows
  cards,         \* the verdict box of each exercise shown
  requests,      \* requests under way
  gestures,      \* how often the user did something
  sent,          \* history: the answers submitted from each card
  lone,          \* history: no two answers of the card were under way at once
  graders        \* history: the curricula served since the page was rendered

vars == <<server, boots, curriculum, hash, mount, page, cards, requests, gestures, sent,
          lone, graders>>
browser == <<hash, mount, page, cards, requests, gestures, sent, lone>>
backend == <<server, boots, curriculum>>

Routes == [name : {"elsewhere", "index"}, id : {None}] \cup [name : {"lesson"}, id : Ids]
Elsewhere == [name |-> "elsewhere", id |-> None]

HiddenCard == [text |-> "hidden", verdict |-> None, classes |-> {}]

Init ==
  /\ server = "down" /\ boots = 0 /\ curriculum = None
  /\ hash = Elsewhere /\ mount = 0
  /\ page = [status |-> "closed", shows |-> None]
  /\ cards = <<>> /\ requests = <<>> /\ gestures = 0
  /\ sent = <<>> /\ lone = <<>> /\ graders = {}

(***************************************************************************)
(* The server.                                                             *)
(***************************************************************************)
\* `main`: load, validate, and serve only what validates.
Outcome(c) ==
  IF c = None THEN "could not load"
  ELSE IF ValidationPanics(c) THEN "panicked"
  ELSE IF Validate(c) # {} THEN "refused"
  ELSE "serving"

Loaded == [disk \in Disks |-> Load(disk)]
Outcomes == [disk \in Disks |-> Outcome(Loaded[disk])]

Boot(disk) ==
  /\ server = "down" /\ boots < MaxBoots
  /\ boots' = boots + 1
  /\ server' = Outcomes[disk]
  /\ curriculum' = IF server' = "serving" THEN Loaded[disk] ELSE None
  /\ graders' = IF server' = "serving" THEN graders \cup {Loaded[disk]} ELSE graders
  /\ UNCHANGED browser

Shutdown ==
  /\ server = "serving" /\ boots < MaxBoots
  /\ server' = "down" /\ curriculum' = None
  /\ UNCHANGED <<boots, browser, graders>>

\* `index`: the summaries, in the order of the curriculum.
Index(c) ==
  [p \in DOMAIN c |->
     [number |-> c[p].number,
      lessons |-> [k \in DOMAIN c[p].lessons |->
                     [id |-> c[p].lessons[k].id, order |-> c[p].lessons[k].order]]]]

\* `check`: the verdict, or None for every error the handler has: an answer
\* that is too large, no such lesson or exercise, a grading task that panicked.
CheckReply(c, id, exercise, answer) ==
  LET lesson == LessonOf(c, id)
      found == IF lesson = None THEN None ELSE ExerciseOf(lesson, exercise)
  IN IF answer.big \/ found = None THEN None
     ELSE IF Grade(found, answer) = Panicked THEN None
     ELSE Grade(found, answer)

\* What the server answers to a request, None for an error.
Reply(c, r) ==
  CASE r.what = "index" -> Index(c)
    [] r.what = "lesson" -> IF LessonOf(c, r.id) = None THEN None
                            ELSE PublicLesson(LessonOf(c, r.id))
    [] OTHER -> CheckReply(c, r.id, r.exercise, r.answer)

(***************************************************************************)
(* The user.                                                               *)
(***************************************************************************)
Gesture == page.status # "closed" /\ gestures < MaxGestures /\ gestures' = gestures + 1

Ask(what, id) ==
  [what |-> what, mount |-> mount + 1, id |-> id, card |-> None, exercise |-> None,
   answer |-> None]
Asked(n, r) == [Ask("check", n.shows.id) EXCEPT !.mount = mount, !.card = r.card,
                                                !.exercise = r.exercise, !.answer = r.answer]

\* The application is loaded from the server and opens elsewhere.
OpenSite ==
  /\ server = "serving" /\ page.status = "closed"
  /\ page' = [status |-> "shown", shows |-> None]
  /\ UNCHANGED <<backend, graders, hash, mount, cards, requests, gestures, sent, lone>>

\* `hashchange`: `route` renders anew; what it replaces is detached and stays so.
Navigate(r) ==
  /\ Gesture
  /\ r # hash
  /\ hash' = r
  /\ mount' = mount + 1
  /\ page' = [status |-> IF r.name = "elsewhere" THEN "shown" ELSE "loading", shows |-> None]
  /\ cards' = <<>> /\ sent' = <<>> /\ lone' = <<>>
  /\ graders' = IF server = "serving" THEN {curriculum} ELSE {}
  /\ requests' = IF r.name = "elsewhere" THEN requests ELSE Append(requests, Ask(r.name, r.id))
  /\ UNCHANGED backend

CheckOf(k) == {i \in DOMAIN requests : requests[i].mount = mount /\ requests[i].card = k}

\* Mutant of Submit: the class of the verdict before is left on.
SubmitOver(k, t) ==
  /\ Gesture
  /\ t \in Answers /\ page.shows.exercises[k].kind # "quiz"
  /\ cards' = [cards EXCEPT ![k] = [@ EXCEPT !.text = "checking", !.verdict = None]]
  /\ requests' = Append(requests, Asked(page, [card |-> k, answer |-> t,
                                               exercise |-> page.shows.exercises[k].id]))
  /\ sent' = [sent EXCEPT ![k] = Append(@, t)]
  /\ lone' = [lone EXCEPT ![k] = @ /\ CheckOf(k) = {}]
  /\ UNCHANGED <<backend, graders, hash, mount, page>>

\* `submit`: nothing keeps the user from submitting again before the verdict.
Submit(k, t) ==
  /\ Gesture
  /\ IF page.shows.exercises[k].kind = "quiz"
     THEN t \in {ChoiceText(n) : n \in 0 .. page.shows.exercises[k].choices - 1}
     ELSE t \in Answers
  /\ cards' = [cards EXCEPT ![k] = [text |-> "checking", verdict |-> None, classes |-> {}]]
  /\ requests' = Append(requests, Asked(page, [card |-> k, answer |-> t,
                                               exercise |-> page.shows.exercises[k].id]))
  /\ sent' = [sent EXCEPT ![k] = Append(@, t)]
  /\ lone' = [lone EXCEPT ![k] = @ /\ CheckOf(k) = {}]
  /\ UNCHANGED <<backend, graders, hash, mount, page>>

\* The button of a quiz with nothing selected; a radio button cannot be cleared again.
PickNothing(k) ==
  /\ Gesture
  /\ page.shows.exercises[k].kind = "quiz" /\ sent[k] = <<>>
  /\ cards' = [cards EXCEPT ![k] = [HiddenCard EXCEPT !.text = "pick an answer first"]]
  /\ UNCHANGED <<backend, graders, hash, mount, page, requests, sent, lone>>

(***************************************************************************)
(* Responses.  One for a rendering that is gone writes into nodes that     *)
(* nobody sees.                                                            *)
(***************************************************************************)
Drop(i) == requests' = RemoveAt(requests, i)

ShowPage(reply) ==
  /\ page' = [status |-> IF reply = None THEN "failed" ELSE "shown", shows |-> reply]
  /\ LET exercises == IF reply # None /\ hash.name = "lesson" THEN reply.exercises ELSE <<>> IN
     /\ cards' = [k \in DOMAIN exercises |-> HiddenCard]
     /\ sent' = [k \in DOMAIN exercises |-> <<>>]
     /\ lone' = [k \in DOMAIN exercises |-> TRUE]

\* Mutant of ShowVerdict: a request that fails is not caught.
ShowVerdictUncaught(k, reply) ==
  IF reply = None THEN UNCHANGED cards
  ELSE cards' = [cards EXCEPT ![k] =
                   [text |-> "verdict", verdict |-> reply,
                    classes |-> {IF reply.correct THEN "ok" ELSE "bad"}]]

\* The class is added to whatever classes an earlier answer left.
ShowVerdict(k, reply) ==
  cards' = [cards EXCEPT ![k] =
              [text |-> IF reply = None THEN "failed" ELSE "verdict",
               verdict |-> reply,
               classes |-> @.classes \cup {IF reply = None THEN "bad"
                                           ELSE IF reply.correct THEN "ok" ELSE "bad"}]]

\* Mutants of Render: a verdict goes to the card in this place of whatever page there
\* is, or a lesson to whatever lesson page is loading.
VerdictInView(r, reply) ==
  IF r.what = "check" /\ r.card \in DOMAIN cards
  THEN ShowVerdict(r.card, reply) /\ UNCHANGED <<page, sent, lone>>
  ELSE IF r.mount # mount THEN UNCHANGED <<page, cards, sent, lone>> ELSE ShowPage(reply)

LessonInView(r, reply) ==
  IF r.what = hash.name /\ page.status = "loading" THEN ShowPage(reply)
  ELSE IF r.mount # mount THEN UNCHANGED <<page, cards, sent, lone>>
  ELSE IF r.what = "check" THEN ShowVerdict(r.card, reply) /\ UNCHANGED <<page, sent, lone>>
  ELSE ShowPage(reply)

Render(r, reply) ==
  IF r.mount # mount THEN UNCHANGED <<page, cards, sent, lone>>
  ELSE IF r.what = "check" THEN ShowVerdict(r.card, reply) /\ UNCHANGED <<page, sent, lone>>
  ELSE ShowPage(reply)

Deliver(i) ==
  /\ server = "serving"
  /\ Render(requests[i], Reply(curriculum, requests[i]))
  /\ Drop(i)
  /\ UNCHANGED <<backend, graders, hash, mount, gestures>>

\* No connection, the server's timeout, or a server that is gone.
Fail(i) ==
  /\ Render(requests[i], None)
  /\ Drop(i)
  /\ UNCHANGED <<backend, graders, hash, mount, gestures>>

Resolve == \E i \in DOMAIN requests : Fail(i) \/ Deliver(i)

Next ==
  \/ \E disk \in Disks : Boot(disk)
  \/ Shutdown
  \/ OpenSite
  \/ \E r \in Routes : Navigate(r)
  \/ \E k \in DOMAIN cards : \E t \in Answers \cup {ChoiceText(n) : n \in 0 .. 1} : Submit(k, t)
  \/ \E k \in DOMAIN cards : PickNothing(k)
  \/ Resolve

Spec == Init /\ [][Next]_vars /\ WF_vars(Resolve)

(***************************************************************************)
(* Properties.                                                             *)
(***************************************************************************)
\* What of an answer an exercise looks at.
ReadAs(e, t) ==
  CASE e.kind = "quiz" -> t.choice
    [] e.kind \in {"assemble", "disassemble"} -> t.bytes
    [] OTHER -> t.run

\* What validation is for: through the ids by which the API addresses it, every
\* exercise that is served accepts the reference answer of its author, unless that
\* is larger than what the API takes, and gives a verdict on every answer, unless
\* that is too large or the assembler or the run panics on it (validate.rs,
\* Curriculum::lesson, check).
ServedExercisesAreSolvable ==
  server = "serving" =>
    \A l \in Range(Lessons(curriculum)) : \A e \in Range(l.exercises) :
      /\ Grade(e, Solution(e)) = Correct
      /\ ~Solution(e).big => CheckReply(curriculum, l.id, e.id, Solution(e)) = Correct
      /\ \A t \in Answers :
           CheckReply(curriculum, l.id, e.id, t) = None => t.big \/ ReadAs(e, t) = Panicked

\* Grades(v, t, k): t, submitted from card k, gets the verdict v from a curriculum
\* that was served while the page was there.
Grades(v, t, k) ==
  \E c \in graders :
    v = CheckReply(c, page.shows.id, page.shows.exercises[k].id, t)

\* A tick, in words or in colour, is never shown on a card unless an answer given on
\* this card is right: not for an answer to another exercise, to another page or
\* to none (renderExercise, route).
PraiseIsEarned ==
  \A k \in DOMAIN cards :
    cards[k].verdict = Correct \/ "ok" \in cards[k].classes =>
      \E t \in Range(sent[k]) : Grades(Correct, t, k)

\* While answers are submitted one at a time, a card at rest speaks of the last one,
\* and its colour says the same as its text (renderExercise).
QuietCardSpeaksOfTheLastAnswer ==
  \A k \in DOMAIN cards :
    LET card == cards[k] IN
    CheckOf(k) = {} /\ lone[k] /\ sent[k] # <<>> =>
      /\ card.classes = {IF card.verdict = Correct THEN "ok" ELSE "bad"}
      /\ \/ card.text = "failed"
         \/ card.text = "verdict" /\ Grades(card.verdict, Last(sent[k]), k)

\* A page that is shown is the one the address bar names, whatever came late for the
\* pages before it, and it has one card for each of its exercises (route, renderLesson).
ThePageIsTheOneAskedFor ==
  /\ page.status = "shown" /\ hash.name = "lesson" =>
       page.shows.id = hash.id /\ DOMAIN cards = DOMAIN page.shows.exercises
  /\ page.status # "shown" \/ hash.name # "lesson" => cards = <<>>

\* Nothing is left loading and no card is left checking (renderLessonIndex,
\* renderLesson, submit), provided requests are answered or fail.
SettlesDown ==
  <>[](page.status # "loading" /\ \A k \in DOMAIN cards : cards[k].text # "checking")
=============================================================================
