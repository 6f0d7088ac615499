----------------------------- MODULE PageProofs -----------------------------
(***************************************************************************)
(* Three pages that show what was asked for.  A lesson page shows the      *)
(* lesson its address names, for every disk, every set of answers and ids  *)
(* and every bound of LessonSite: however many requests are under way, in  *)
(* whatever order they are answered or fail, and whether or not the server *)
(* is started again in between; what its cards say is true, and every      *)
(* exercise that is served can be solved.  The palette shows the hits of   *)
(* the text in its field, and late hits move nothing, for all queries,     *)
(* catalogs and lessons.  And a playground at rest shows what its editor,  *)
(* its selection and its last run say, or that the request for it failed,  *)
(* for all texts, any number of rows and of gestures, and responses in any *)
(* order, unless the last request of a kind is answered before an older    *)
(* one.                                                                    *)
(***************************************************************************)
EXTENDS LessonSite, CommandPalette, Playground, SequenceTheorems, TLAPS

(***************************************************************************)
(* The lesson page: its inductive invariant.                               *)
(***************************************************************************)
\* A request belongs to a rendering there has been, or to the present one; of the
\* present rendering there is the request for its content while it is loading, and
\* otherwise there are the submissions of its cards.
Belongs(i) ==
  /\ requests[i].mount \in 0 .. mount
  /\ requests[i].mount = mount /\ requests[i].what = "check" =>
       page.status = "shown" /\ hash.name = "lesson"
  /\ requests[i].mount = mount /\ requests[i].what # "check" =>
       /\ page.status = "loading"
       /\ requests[i].what = hash.name /\ requests[i].id = hash.id
       /\ \A j \in DOMAIN requests : requests[j].mount = mount => j = i

RequestsBelong ==
  /\ mount \in Nat
  /\ requests \in Seq(Range(requests))
  /\ \A i \in DOMAIN requests : Belongs(i)

ClosedIsElsewhere == page.status = "closed" => hash.name # "lesson"

PageInv == RequestsBelong /\ ClosedIsElsewhere /\ ThePageIsTheOneAskedFor

(***************************************************************************)
(* Sequences.                                                              *)
(***************************************************************************)
\* A sequence is one over its own elements.
LEMMA SeqOfItsRange ==
  ASSUME NEW S, NEW s \in Seq(S)
  PROVE  s \in Seq(Range(s))
<1>1. DOMAIN s = 1 .. Len(s) /\ Len(s) \in Nat /\ s = [k \in 1 .. Len(s) |-> s[k]]
  BY LenProperties
<1>2. \A k \in 1 .. Len(s) : s[k] \in Range(s)
  BY <1>1 DEF Range
<1> QED
  BY <1>1, <1>2

\* Append: one element more, the others where they were.
LEMMA AppendKeeps ==
  ASSUME NEW s, s \in Seq(Range(s)), NEW e
  PROVE  /\ Append(s, e) \in Seq(Range(Append(s, e)))
         /\ Len(s) \in Nat /\ DOMAIN s = 1 .. Len(s)
         /\ DOMAIN Append(s, e) = 1 .. Len(s) + 1
         /\ Append(s, e)[Len(s) + 1] = e
         /\ \A k \in DOMAIN s : Append(s, e)[k] = s[k]
<1> DEFINE S == Range(s) \cup {e}
<1>1. s \in Seq(S) /\ e \in S
  BY SeqMonotonic
<1>2. /\ Append(s, e) \in Seq(S) /\ Len(Append(s, e)) = Len(s) + 1
      /\ \A k \in 1 .. Len(s) : Append(s, e)[k] = s[k]
      /\ Append(s, e)[Len(s) + 1] = e
  BY <1>1, AppendProperties
<1>3. Len(s) \in Nat /\ DOMAIN s = 1 .. Len(s)
  BY <1>1, LenProperties
<1>4. DOMAIN Append(s, e) = 1 .. Len(s) + 1
  BY <1>2, LenProperties
<1>5. Append(s, e) \in Seq(Range(Append(s, e)))
  BY <1>2, SeqOfItsRange
<1> QED
  BY <1>2, <1>3, <1>4, <1>5

\* RemoveAt: one element fewer, each of the others from where it was or from the
\* place behind, and no two from the same.
LEMMA RemoveAtKeeps ==
  ASSUME NEW s, s \in Seq(Range(s)), NEW i \in DOMAIN s
  PROVE  /\ RemoveAt(s, i) \in Seq(Range(RemoveAt(s, i)))
         /\ Len(s) \in Nat /\ DOMAIN s = 1 .. Len(s)
         /\ DOMAIN RemoveAt(s, i) = 1 .. Len(s) - 1
         /\ \A k \in 1 .. Len(s) - 1 : RemoveAt(s, i)[k] = s[IF k < i THEN k ELSE k + 1]
<1> DEFINE S == Range(s)
           before == SubSeq(s, 1, i - 1)
           after == SubSeq(s, i + 1, Len(s))
<1>1. Len(s) \in Nat /\ DOMAIN s = 1 .. Len(s) /\ i \in 1 .. Len(s)
  BY LenProperties
<1>2. \A k \in 1 .. Len(s) : s[k] \in S
  BY <1>1 DEF Range
<1>3. /\ before \in Seq(S) /\ Len(before) = i - 1
      /\ \A k \in 1 .. i - 1 : before[k] = s[k]
  <2>1. \A k \in 1 .. i - 1 : s[k] \in S
    BY <1>1, <1>2
  <2>2. /\ before \in Seq(S)
        /\ Len(before) = IF 1 <= i - 1 THEN (i - 1) - 1 + 1 ELSE 0
        /\ \A k \in 1 .. (i - 1) - 1 + 1 : before[k] = s[1 + k - 1]
    BY <1>1, <2>1, SubSeqProperties
  <2> QED
    BY <1>1, <2>2
<1>4. /\ after \in Seq(S) /\ Len(after) = Len(s) - i
      /\ \A k \in 1 .. Len(s) - i : after[k] = s[k + i]
  <2>1. \A k \in i + 1 .. Len(s) : s[k] \in S
    BY <1>1, <1>2
  <2>2. /\ after \in Seq(S)
        /\ Len(after) = IF i + 1 <= Len(s) THEN Len(s) - (i + 1) + 1 ELSE 0
        /\ \A k \in 1 .. Len(s) - (i + 1) + 1 : after[k] = s[(i + 1) + k - 1]
    BY <1>1, <2>1, SubSeqProperties
  <2>3. \A k \in 1 .. Len(s) - i : after[k] = s[k + i]
    <3> TAKE k \in 1 .. Len(s) - i
    <3>1. k \in 1 .. Len(s) - (i + 1) + 1 /\ (i + 1) + k - 1 = k + i
      BY <1>1
    <3> QED
      BY <2>2, <3>1
  <2>4. Len(after) = Len(s) - i
    BY <1>1, <2>2
  <2> QED
    BY <2>2, <2>3, <2>4
<1>5. RemoveAt(s, i) = before \o after
  BY DEF RemoveAt
<1> HIDE DEF before, after, S
<1>6. /\ before \o after \in Seq(S)
      /\ Len(before \o after) = Len(before) + Len(after)
      /\ \A k \in 1 .. Len(before) + Len(after) :
           (before \o after)[k] =
             IF k <= Len(before) THEN before[k] ELSE after[k - Len(before)]
  BY <1>3, <1>4, ConcatProperties
<1>7. Len(before) + Len(after) = Len(s) - 1
  BY <1>1, <1>3, <1>4
<1>8. DOMAIN RemoveAt(s, i) = 1 .. Len(s) - 1
  BY <1>5, <1>6, <1>7, LenProperties
<1>9. ASSUME NEW k \in 1 .. Len(s) - 1
      PROVE  RemoveAt(s, i)[k] = s[IF k < i THEN k ELSE k + 1]
  <2>1. CASE k < i
    BY <1>1, <1>3, <1>5, <1>6, <1>7, <2>1
  <2>2. CASE ~ k < i
    <3>1. k - (i - 1) \in 1 .. Len(s) - i /\ k - (i - 1) + i = k + 1
      BY <1>1, <2>2
    <3>2. RemoveAt(s, i)[k] = after[k - (i - 1)]
      BY <1>1, <1>3, <1>5, <1>6, <1>7, <2>2
    <3> QED
      BY <1>4, <2>2, <3>1, <3>2
  <2> QED
    BY <2>1, <2>2
<1>10. RemoveAt(s, i) \in Seq(Range(RemoveAt(s, i)))
  BY <1>5, <1>6, SeqOfItsRange
<1> QED
  BY <1>1, <1>8, <1>9, <1>10

(***************************************************************************)
(* The present rendering keeps its requests when one is added or gone.     *)
(***************************************************************************)
\* A lesson found under an id has this id (Curriculum::lesson, PublicLesson).
LEMMA ReplyIsTheLesson ==
  ASSUME NEW c, NEW r, r.what = "lesson", Reply(c, r) # None
  PROVE  Reply(c, r).id = r.id
<1>1. LessonOf(c, r.id) # None /\ Reply(c, r) = PublicLesson(LessonOf(c, r.id))
  BY DEF Reply
<1>2. LessonOf(c, r.id).id = r.id
  BY <1>1 DEF LessonOf, FirstWith
<1>3. PublicLesson(LessonOf(c, r.id)).id = LessonOf(c, r.id).id
  BY DEF PublicLesson
<1> QED
  BY <1>1, <1>2, <1>3

\* A response is dropped, and the present rendering keeps its status: the other
\* requests belong as before.
LEMMA DropKeepsRequests ==
  ASSUME PageInv, NEW i \in DOMAIN requests, Drop(i),
         UNCHANGED <<hash, mount>>, page'.status = page.status
  PROVE  RequestsBelong'
<1> USE DEF PageInv, RequestsBelong
<1>1. /\ requests' \in Seq(Range(requests')) /\ mount' \in Nat
      /\ Len(requests) \in Nat /\ DOMAIN requests = 1 .. Len(requests)
      /\ DOMAIN requests' = 1 .. Len(requests) - 1
      /\ \A k \in DOMAIN requests' : requests'[k] = requests[IF k < i THEN k ELSE k + 1]
  BY RemoveAtKeeps DEF Drop
<1>2. ASSUME NEW k \in DOMAIN requests'
      PROVE  Belongs(k)'
  <2> DEFINE Old(n) == IF n < i THEN n ELSE n + 1
  <2>1. \A n \in DOMAIN requests' : Old(n) \in DOMAIN requests /\ requests'[n] = requests[Old(n)]
    BY <1>1
  <2>2. \A n \in DOMAIN requests' : Old(n) = Old(k) => n = k
    BY <1>1
  <2>3. Belongs(Old(k)) /\ Old(k) \in DOMAIN requests /\ requests'[k] = requests[Old(k)]
    BY <2>1
  <2> HIDE DEF Old
  <2> QED
    BY <2>1, <2>2, <2>3 DEF Belongs
<1> QED
  BY <1>1, <1>2

\* The content of the present rendering arrives: no other request of it is left, so
\* that whatever its status becomes nothing is loading for it.
LEMMA ContentIsTheLast ==
  ASSUME PageInv, NEW i \in DOMAIN requests, Drop(i),
         requests[i].mount = mount, requests[i].what # "check", UNCHANGED mount
  PROVE  RequestsBelong'
<1> USE DEF PageInv, RequestsBelong
<1>1. /\ requests' \in Seq(Range(requests')) /\ mount' \in Nat
      /\ Len(requests) \in Nat /\ DOMAIN requests = 1 .. Len(requests)
      /\ DOMAIN requests' = 1 .. Len(requests) - 1
      /\ \A k \in DOMAIN requests' : requests'[k] = requests[IF k < i THEN k ELSE k + 1]
  BY RemoveAtKeeps DEF Drop
<1>2. \A j \in DOMAIN requests : requests[j].mount = mount => j = i
  BY DEF Belongs
<1>3. ASSUME NEW k \in DOMAIN requests'
      PROVE  Belongs(k)'
  <2> DEFINE old == IF k < i THEN k ELSE k + 1
  <2>1. old \in DOMAIN requests /\ old # i /\ requests'[k] = requests[old]
    BY <1>1
  <2>2. Belongs(old) /\ requests[old].mount # mount
    BY <1>2, <2>1
  <2> HIDE DEF old
  <2> QED
    BY <2>1, <2>2 DEF Belongs
<1> QED
  BY <1>1, <1>3

\* A request is sent for the present rendering by one of its cards.
LEMMA SubmitKeepsRequests ==
  ASSUME PageInv, NEW e, requests' = Append(requests, e), e.mount = mount,
         e.what = "check", page.status = "shown", hash.name = "lesson",
         UNCHANGED <<hash, mount, page>>
  PROVE  RequestsBelong'
<1> USE DEF PageInv, RequestsBelong
<1>1. /\ requests' \in Seq(Range(requests')) /\ mount' \in Nat
      /\ Len(requests) \in Nat /\ DOMAIN requests = 1 .. Len(requests)
      /\ DOMAIN requests' = 1 .. Len(requests) + 1
      /\ requests'[Len(requests) + 1] = e
      /\ \A k \in DOMAIN requests : requests'[k] = requests[k]
  BY AppendKeeps
<1>2. ASSUME NEW k \in DOMAIN requests'
      PROVE  Belongs(k)'
  <2>1. CASE k = Len(requests) + 1
    BY <1>1, <2>1 DEF Belongs
  <2>2. CASE k \in DOMAIN requests
    <3>1. Belongs(k) /\ requests'[k] = requests[k]
      BY <1>1, <2>2
    <3> QED
      BY <3>1 DEF Belongs
  <2> QED
    BY <1>1, <2>1, <2>2
<1> QED
  BY <1>1, <1>2

\* A new rendering: what is under way belongs to those before it.
LEMMA NavigateKeepsRequests ==
  ASSUME PageInv, NEW r \in Routes, Navigate(r)
  PROVE  RequestsBelong'
<1> USE DEF PageInv, RequestsBelong
<1>1. mount' = mount + 1 /\ mount \in Nat /\ mount' \in Nat /\ hash' = r
  BY DEF Navigate
<1>2. \A k \in DOMAIN requests : requests[k].mount \in 0 .. mount
  BY DEF Belongs
<1>3. CASE r.name = "elsewhere"
  <2>1. requests' = requests
    BY <1>3 DEF Navigate
  <2>2. requests' \in Seq(Range(requests'))
    BY <2>1
  <2>3. ASSUME NEW k \in DOMAIN requests'
        PROVE  Belongs(k)'
    <3>1. requests[k].mount \in 0 .. mount /\ requests'[k] = requests[k]
      BY <1>2, <2>1
    <3> QED
      BY <1>1, <3>1 DEF Belongs
  <2> QED
    BY <1>1, <2>2, <2>3
<1>4. CASE r.name # "elsewhere"
  <2> DEFINE e == Ask(r.name, r.id)
  <2>1. requests' = Append(requests, e) /\ page'.status = "loading"
    BY <1>4 DEF Navigate
  <2>2. e.mount = mount + 1 /\ e.what = r.name /\ e.id = r.id
    BY DEF Ask
  <2>3. e.what # "check"
    BY <2>2 DEF Routes
  <2> HIDE DEF e
  <2>4. /\ requests' \in Seq(Range(requests'))
        /\ Len(requests) \in Nat /\ DOMAIN requests = 1 .. Len(requests)
        /\ DOMAIN requests' = 1 .. Len(requests) + 1
        /\ requests'[Len(requests) + 1] = e
        /\ \A k \in DOMAIN requests : requests'[k] = requests[k]
    BY <2>1, AppendKeeps
  <2>5. \A k \in DOMAIN requests' : requests'[k].mount = mount' => k = Len(requests) + 1
    BY <1>1, <1>2, <2>4
  <2>6. ASSUME NEW k \in DOMAIN requests'
        PROVE  Belongs(k)'
    <3>1. CASE k = Len(requests) + 1
      BY <1>1, <2>1, <2>2, <2>3, <2>4, <2>5, <3>1 DEF Belongs
    <3>2. CASE k \in DOMAIN requests
      <4>1. requests'[k] = requests[k] /\ requests[k].mount \in 0 .. mount
        BY <1>2, <2>4, <3>2
      <4> QED
        BY <1>1, <4>1 DEF Belongs
    <3> QED
      BY <2>4, <3>1, <3>2
  <2> QED
    BY <1>1, <2>4, <2>6
<1> QED
  BY <1>3, <1>4

(***************************************************************************)
(* The invariant.                                                          *)
(***************************************************************************)
\* The site is closed and nothing is under way.
LEMMA PageInvInit == Init => PageInv
<1> SUFFICES ASSUME Init PROVE PageInv
  OBVIOUS
<1>1. requests = <<>> /\ mount = 0 /\ cards = <<>> /\ hash.name = "elsewhere"
  BY DEF Init, Elsewhere
<1>2. RequestsBelong
  BY <1>1, EmptySeq DEF RequestsBelong
<1> QED
  BY <1>1, <1>2 DEF PageInv, ClosedIsElsewhere, ThePageIsTheOneAskedFor

\* What leaves the address, the rendering, its requests and its cards alone.
LEMMA PageInvUnread ==
  ASSUME PageInv, UNCHANGED <<hash, mount, page, cards, requests>>
  PROVE  PageInv'
BY DEF PageInv, RequestsBelong, Belongs, ClosedIsElsewhere, ThePageIsTheOneAskedFor

\* The site is opened.
LEMMA OpenSiteKeepsPageInv ==
  ASSUME PageInv, OpenSite
  PROVE  PageInv'
<1>1. /\ UNCHANGED <<hash, mount, cards, requests>>
      /\ page.status = "closed" /\ page'.status = "shown"
  BY DEF OpenSite
<1>2. hash.name # "lesson" /\ cards = <<>>
  BY <1>1 DEF PageInv, ClosedIsElsewhere, ThePageIsTheOneAskedFor
<1>3. RequestsBelong'
  BY <1>1, <1>2 DEF PageInv, RequestsBelong, Belongs
<1> QED
  BY <1>1, <1>2, <1>3 DEF PageInv, ClosedIsElsewhere, ThePageIsTheOneAskedFor

\* The address changes: an empty page, or one that is loading.
LEMMA NavigateKeepsPageInv ==
  ASSUME PageInv, NEW r \in Routes, Navigate(r)
  PROVE  PageInv'
<1>1. RequestsBelong'
  BY NavigateKeepsRequests
<1>2. /\ hash' = r /\ cards' = <<>>
      /\ page'.status = IF r.name = "elsewhere" THEN "shown" ELSE "loading"
  BY DEF Navigate
<1> QED
  BY <1>1, <1>2 DEF PageInv, ClosedIsElsewhere, ThePageIsTheOneAskedFor

\* There are cards only on a lesson page that is shown.
LEMMA CardsAreOfALesson ==
  ASSUME PageInv, NEW k \in DOMAIN cards
  PROVE  page.status = "shown" /\ hash.name = "lesson"
BY DEF PageInv, ThePageIsTheOneAskedFor

\* A card is submitted.
LEMMA SubmitKeepsPageInv ==
  ASSUME PageInv, NEW k \in DOMAIN cards, NEW t, Submit(k, t)
  PROVE  PageInv'
<1> DEFINE e == Asked(page, [card |-> k, answer |-> t, exercise |-> page.shows.exercises[k].id])
<1>1. page.status = "shown" /\ hash.name = "lesson"
  BY CardsAreOfALesson
<1>2. /\ UNCHANGED <<hash, mount, page>> /\ requests' = Append(requests, e)
      /\ DOMAIN cards' = DOMAIN cards
  BY DEF Submit
<1>3. e.mount = mount /\ e.what = "check"
  BY DEF Asked, Ask
<1> HIDE DEF e
<1>4. RequestsBelong'
  BY <1>1, <1>2, <1>3, SubmitKeepsRequests
<1> QED
  BY <1>1, <1>2, <1>4 DEF PageInv, ClosedIsElsewhere, ThePageIsTheOneAskedFor

\* A quiz is submitted with nothing picked.
LEMMA PickNothingKeepsPageInv ==
  ASSUME PageInv, NEW k \in DOMAIN cards, PickNothing(k)
  PROVE  PageInv'
<1>1. page.status = "shown" /\ hash.name = "lesson"
  BY CardsAreOfALesson
<1>2. UNCHANGED <<hash, mount, page, requests>> /\ DOMAIN cards' = DOMAIN cards
  BY DEF PickNothing
<1>3. RequestsBelong'
  BY <1>2 DEF PageInv, RequestsBelong, Belongs
<1> QED
  BY <1>1, <1>2, <1>3 DEF PageInv, ClosedIsElsewhere, ThePageIsTheOneAskedFor

\* A request is answered, or fails: for a rendering that is gone, for a card, or with
\* the content of the page.
LEMMA RenderKeepsPageInv ==
  ASSUME PageInv, NEW i \in DOMAIN requests, NEW reply, Render(requests[i], reply), Drop(i),
         UNCHANGED <<hash, mount>>,
         requests[i].what = "lesson" /\ reply # None => reply.id = requests[i].id
  PROVE  PageInv'
<1> DEFINE r == requests[i]
<1>1. CASE r.mount # mount
  <2>1. UNCHANGED <<page, cards>>
    BY <1>1 DEF Render
  <2>2. RequestsBelong'
    BY <2>1, DropKeepsRequests
  <2> QED
    BY <2>1, <2>2 DEF PageInv, ClosedIsElsewhere, ThePageIsTheOneAskedFor
<1>2. CASE r.mount = mount /\ r.what = "check"
  <2>1. page.status = "shown" /\ hash.name = "lesson"
    BY <1>2 DEF PageInv, RequestsBelong, Belongs
  <2>2. UNCHANGED page /\ DOMAIN cards' = DOMAIN cards
    BY <1>2 DEF Render, ShowVerdict
  <2>3. RequestsBelong'
    BY <2>2, DropKeepsRequests
  <2> QED
    BY <2>1, <2>2, <2>3 DEF PageInv, ClosedIsElsewhere, ThePageIsTheOneAskedFor
<1>3. CASE r.mount = mount /\ r.what # "check"
  <2> DEFINE exercises == IF reply # None /\ hash.name = "lesson" THEN reply.exercises ELSE <<>>
  <2>1. r.what = hash.name /\ r.id = hash.id
    BY <1>3 DEF PageInv, RequestsBelong, Belongs
  <2>2. /\ page' = [status |-> IF reply = None THEN "failed" ELSE "shown", shows |-> reply]
        /\ cards' = [k \in DOMAIN exercises |-> HiddenCard]
    BY <1>3 DEF Render, ShowPage
  <2>3. RequestsBelong'
    BY <1>3, ContentIsTheLast
  <2>4. ClosedIsElsewhere'
    BY <2>2 DEF ClosedIsElsewhere
  <2>5. CASE reply # None /\ hash.name = "lesson"
    <3>1. page'.status = "shown" /\ page'.shows = reply /\ reply.id = hash.id
      BY <2>1, <2>2, <2>5
    <3>2. DOMAIN cards' = DOMAIN reply.exercises
      BY <2>2, <2>5
    <3>3. ThePageIsTheOneAskedFor'
      BY <2>5, <3>1, <3>2 DEF ThePageIsTheOneAskedFor
    <3> QED
      BY <2>3, <2>4, <3>3 DEF PageInv
  <2>6. CASE ~ (reply # None /\ hash.name = "lesson")
    <3>1. exercises = <<>>
      BY <2>6
    <3>2. cards' = <<>>
      BY <2>2, <3>1
    <3>3. ThePageIsTheOneAskedFor'
      BY <2>2, <2>6, <3>2 DEF ThePageIsTheOneAskedFor
    <3> QED
      BY <2>3, <2>4, <3>3 DEF PageInv
  <2> QED
    BY <2>5, <2>6
<1> QED
  BY <1>1, <1>2, <1>3

\* Every step keeps the invariant.
LEMMA PageInvNext == PageInv /\ [Next]_vars => PageInv'
<1> SUFFICES ASSUME PageInv, [Next]_vars PROVE PageInv'
  OBVIOUS
<1>1. ASSUME NEW disk \in Disks, Boot(disk) PROVE PageInv'
  BY <1>1, PageInvUnread DEF Boot, browser
<1>2. CASE Shutdown
  BY <1>2, PageInvUnread DEF Shutdown, browser
<1>3. CASE OpenSite
  BY <1>3, OpenSiteKeepsPageInv
<1>4. ASSUME NEW r \in Routes, Navigate(r) PROVE PageInv'
  BY <1>4, NavigateKeepsPageInv
<1>5. ASSUME NEW k \in DOMAIN cards, NEW t, Submit(k, t) PROVE PageInv'
  BY <1>5, SubmitKeepsPageInv
<1>6. ASSUME NEW k \in DOMAIN cards, PickNothing(k) PROVE PageInv'
  BY <1>6, PickNothingKeepsPageInv
<1>7. ASSUME NEW i \in DOMAIN requests, Fail(i) PROVE PageInv'
  <2>1. Render(requests[i], None) /\ Drop(i) /\ UNCHANGED <<hash, mount>>
    BY <1>7 DEF Fail
  <2> QED
    BY <2>1, RenderKeepsPageInv
<1>8. ASSUME NEW i \in DOMAIN requests, Deliver(i) PROVE PageInv'
  <2> DEFINE reply == Reply(curriculum, requests[i])
  <2>1. Render(requests[i], reply) /\ Drop(i) /\ UNCHANGED <<hash, mount>>
    BY <1>8 DEF Deliver
  <2>2. requests[i].what = "lesson" /\ reply # None => reply.id = requests[i].id
    BY ReplyIsTheLesson
  <2> HIDE DEF reply
  <2> QED
    BY <2>1, <2>2, RenderKeepsPageInv
<1>9. CASE UNCHANGED vars
  BY <1>9, PageInvUnread DEF vars
<1> QED
  BY <1>1, <1>2, <1>3, <1>4, <1>5, <1>6, <1>7, <1>8, <1>9 DEF Next, Resolve

\* A page that is shown is the one the address bar names, with one card for each of
\* its exercises, and no other page has cards (route, renderLesson).
THEOREM ThePageIsAlwaysTheOneAskedFor == Spec => []ThePageIsTheOneAskedFor
<1>1. PageInv => ThePageIsTheOneAskedFor
  BY DEF PageInv
<1> QED
  BY PageInvInit, PageInvNext, <1>1, PTL DEF Spec

-----------------------------------------------------------------------------
(***************************************************************************)
(* Cards.  A card praises only what was answered on it and was graded as   *)
(* right, and at rest it speaks of the last answer.                        *)
(***************************************************************************)
\* What is served has been served since the page was rendered.
GraderIsKnown == server = "serving" => curriculum \in graders

\* Every card remembers its answers.
CardsRemember ==
  /\ DOMAIN sent = DOMAIN cards
  /\ \A k \in DOMAIN cards : sent[k] \in Seq(Range(sent[k]))

\* A submission under way in the present rendering is of an answer given on a card of
\* it, and asks about the exercise of this card.
OfACard(r) ==
  /\ r.card \in DOMAIN cards
  /\ r.id = page.shows.id /\ r.exercise = page.shows.exercises[r.card].id
  /\ r.answer \in Range(sent[r.card])

SubmissionsAreOfCards ==
  \A i \in DOMAIN requests :
    requests[i].mount = mount /\ requests[i].what = "check" => OfACard(requests[i])

Praised(k) == cards[k].verdict = Correct \/ "ok" \in cards[k].classes
Earned(k) == \E t \in Range(sent[k]) : Grades(Correct, t, k)

PraiseInv ==
  /\ PageInv
  /\ GraderIsKnown /\ CardsRemember /\ SubmissionsAreOfCards
  /\ \A k \in DOMAIN cards : Praised(k) => Earned(k)

(***************************************************************************)
(* Verdicts.                                                               *)
(***************************************************************************)
\* A sentinel is no verdict.
LEMMA NoneIsNotCorrect == None # Correct
BY SentinelsAreNoVerdicts DEF Correct, Verdicts, Reasons

\* Of all that the grader says only Correct says that the answer is correct (check).
LEMMA OnlyCorrectIsCorrect ==
  ASSUME NEW e, NEW t, Grade(e, t) # Panicked, Grade(e, t).correct
  PROVE  Grade(e, t) = Correct
<1>1. \A why : Wrong(why).correct = FALSE
  BY DEF Wrong
<1>2. CASE e.kind = "quiz"
  <2>1. Grade(e, t) = GradeQuiz(e, t)
    BY <1>2 DEF Grade
  <2> QED
    BY <1>1, <2>1 DEF GradeQuiz
<1>3. CASE e.kind = "assemble"
  <2>1. Grade(e, t) = GradeAssemble(e, t)
    BY <1>3 DEF Grade
  <2> QED
    BY <1>1, <2>1 DEF GradeAssemble
<1>4. CASE e.kind = "disassemble"
  <2>1. Grade(e, t) = GradeDisassemble(e, t)
    BY <1>4 DEF Grade
  <2> QED
    BY <1>1, <2>1 DEF GradeDisassemble
<1>5. CASE e.kind \notin {"quiz", "assemble", "disassemble"}
  <2>1. Grade(e, t) = GradeEmulate(e, t)
    BY <1>5 DEF Grade
  <2> QED
    BY <1>1, <2>1 DEF GradeEmulate
<1> QED
  BY <1>2, <1>3, <1>4, <1>5

\* So a reply of the server is Correct if it says so.
LEMMA CorrectReply ==
  ASSUME NEW c, NEW id, NEW exercise, NEW answer,
         CheckReply(c, id, exercise, answer) # None,
         CheckReply(c, id, exercise, answer).correct
  PROVE  CheckReply(c, id, exercise, answer) = Correct
<1> DEFINE lesson == LessonOf(c, id)
           found == IF lesson = None THEN None ELSE ExerciseOf(lesson, exercise)
<1>1. /\ CheckReply(c, id, exercise, answer) = Grade(found, answer)
      /\ Grade(found, answer) # Panicked
  BY DEF CheckReply
<1> HIDE DEF found
<1> QED
  BY <1>1, OnlyCorrectIsCorrect

(***************************************************************************)
(* One card, and the submissions.                                          *)
(***************************************************************************)
\* What was earned stays so while answers and graders are only added.
LEMMA EarnedStays ==
  ASSUME NEW k, Earned(k), page'.shows = page.shows, graders \subseteq graders',
         Range(sent[k]) \subseteq Range(sent'[k])
  PROVE  Earned(k)'
BY DEF Earned, Grades

\* Without cards there is nothing to keep.
LEMMA NoCards ==
  ASSUME PageInv', GraderIsKnown', cards' = <<>>, sent' = <<>>,
         \A i \in DOMAIN requests' : requests'[i].mount = mount' => requests'[i].what # "check"
  PROVE  PraiseInv'
<1>1. DOMAIN cards' = {}
  OBVIOUS
<1> QED
  BY <1>1 DEF PraiseInv, CardsRemember, SubmissionsAreOfCards

\* A response is dropped: the other submissions are of the cards they were of.
LEMMA DropKeepsSubmissions ==
  ASSUME PraiseInv, NEW i \in DOMAIN requests, Drop(i), UNCHANGED <<page, mount, sent>>,
         DOMAIN cards' = DOMAIN cards
  PROVE  SubmissionsAreOfCards'
<1>1. /\ Len(requests) \in Nat /\ DOMAIN requests = 1 .. Len(requests)
      /\ DOMAIN requests' = 1 .. Len(requests) - 1
      /\ \A k \in DOMAIN requests' : requests'[k] = requests[IF k < i THEN k ELSE k + 1]
  BY RemoveAtKeeps DEF Drop, PraiseInv, PageInv, RequestsBelong
<1>2. \A k \in DOMAIN requests' : \E old \in DOMAIN requests : requests'[k] = requests[old]
  <2> TAKE k \in DOMAIN requests'
  <2>1. (IF k < i THEN k ELSE k + 1) \in DOMAIN requests
    BY <1>1
  <2> QED
    BY <1>1, <2>1
<1> QED
  BY <1>2 DEF PraiseInv, SubmissionsAreOfCards, OfACard

(***************************************************************************)
(* The steps.                                                              *)
(***************************************************************************)
\* The site is closed and nothing is under way.
LEMMA PraiseInvInit == Init => PraiseInv
<1> SUFFICES ASSUME Init PROVE PraiseInv
  OBVIOUS
<1>1. requests = <<>> /\ cards = <<>> /\ sent = <<>> /\ server = "down" /\ PageInv
  BY PageInvInit DEF Init
<1>2. DOMAIN cards = {} /\ DOMAIN requests = {}
  BY <1>1
<1> QED
  BY <1>1, <1>2 DEF PraiseInv, GraderIsKnown, CardsRemember, SubmissionsAreOfCards

\* The server is started or stopped: a curriculum served is one more that may grade.
LEMMA BackendKeepsPraise ==
  ASSUME PraiseInv, PageInv', UNCHANGED browser, GraderIsKnown', graders \subseteq graders'
  PROVE  PraiseInv'
<1>1. UNCHANGED <<mount, page, cards, requests, sent>>
  BY DEF browser
<1>2. CardsRemember' /\ SubmissionsAreOfCards'
  BY <1>1 DEF PraiseInv, CardsRemember, SubmissionsAreOfCards, OfACard
<1>3. ASSUME NEW k \in DOMAIN cards', Praised(k)'
      PROVE  Earned(k)'
  <2>1. Praised(k) /\ k \in DOMAIN cards
    BY <1>1, <1>3 DEF Praised
  <2>2. Earned(k)
    BY <2>1 DEF PraiseInv
  <2> QED
    BY <1>1, <2>2, EarnedStays
<1> QED
  BY <1>2, <1>3 DEF PraiseInv

\* The site is opened.
LEMMA OpenSiteKeepsPraise ==
  ASSUME PraiseInv, PageInv', OpenSite
  PROVE  PraiseInv'
<1>1. /\ UNCHANGED <<server, curriculum, graders, mount, cards, requests, sent>>
      /\ page.status = "closed"
  BY DEF OpenSite, backend
<1>2. cards = <<>>
  BY <1>1 DEF PraiseInv, PageInv, ThePageIsTheOneAskedFor
<1>3. DOMAIN cards = {}
  BY <1>2
<1>4. GraderIsKnown' /\ CardsRemember'
  BY <1>1 DEF PraiseInv, GraderIsKnown, CardsRemember
<1>5. SubmissionsAreOfCards'
  BY <1>1, <1>3 DEF PraiseInv, SubmissionsAreOfCards, OfACard
<1> QED
  BY <1>1, <1>3, <1>4, <1>5 DEF PraiseInv

\* The address changes: the cards are gone, and no submission under way is of the new
\* rendering.
LEMMA NavigateKeepsPraise ==
  ASSUME PraiseInv, PageInv', NEW r \in Routes, Navigate(r)
  PROVE  PraiseInv'
<1>1. cards' = <<>> /\ sent' = <<>> /\ UNCHANGED <<server, curriculum>>
  BY DEF Navigate, backend
<1>2. GraderIsKnown'
  BY DEF Navigate, backend, GraderIsKnown
<1>3. page'.status # "shown" \/ hash'.name # "lesson"
  BY DEF Navigate
<1>4. \A i \in DOMAIN requests' : requests'[i].mount = mount' => requests'[i].what # "check"
  BY <1>3 DEF PageInv, RequestsBelong, Belongs
<1> QED
  BY <1>1, <1>2, <1>4, NoCards

\* A card is submitted: it remembers the answer it asks about, and shows no verdict.
LEMMA SubmitKeepsPraise ==
  ASSUME PraiseInv, PageInv', NEW k \in DOMAIN cards, NEW t, Submit(k, t)
  PROVE  PraiseInv'
<1> DEFINE e == Asked(page, [card |-> k, answer |-> t, exercise |-> page.shows.exercises[k].id])
           checking == [text |-> "checking", verdict |-> None, classes |-> {}]
<1>1. /\ UNCHANGED <<server, curriculum, graders, mount, page>>
      /\ requests' = Append(requests, e)
      /\ cards' = [cards EXCEPT ![k] = checking]
      /\ sent' = [sent EXCEPT ![k] = Append(sent[k], t)]
  BY DEF Submit, backend
<1>2. /\ e.card = k /\ e.answer = t
      /\ e.id = page.shows.id /\ e.exercise = page.shows.exercises[k].id
  BY DEF Asked, Ask
<1> HIDE DEF e
<1>3. /\ DOMAIN sent = DOMAIN cards /\ sent[k] \in Seq(Range(sent[k]))
      /\ \A j \in DOMAIN cards : sent[j] \in Seq(Range(sent[j]))
  BY DEF PraiseInv, CardsRemember
<1>4. /\ Append(sent[k], t) \in Seq(Range(Append(sent[k], t)))
      /\ Len(sent[k]) \in Nat /\ DOMAIN sent[k] = 1 .. Len(sent[k])
      /\ DOMAIN Append(sent[k], t) = 1 .. Len(sent[k]) + 1
      /\ Append(sent[k], t)[Len(sent[k]) + 1] = t
      /\ \A n \in DOMAIN sent[k] : Append(sent[k], t)[n] = sent[k][n]
  BY <1>3, AppendKeeps
<1>5. t \in Range(Append(sent[k], t)) /\ Range(sent[k]) \subseteq Range(Append(sent[k], t))
  BY <1>4 DEF Range
<1>6. /\ DOMAIN sent' = DOMAIN cards /\ DOMAIN cards' = DOMAIN cards
      /\ sent'[k] = Append(sent[k], t)
      /\ \A j \in DOMAIN cards \ {k} : sent'[j] = sent[j] /\ cards'[j] = cards[j]
  BY <1>1, <1>3
<1>7. \A j \in DOMAIN cards : Range(sent[j]) \subseteq Range(sent'[j])
  <2> TAKE j \in DOMAIN cards
  <2>1. CASE j = k
    BY <1>5, <1>6, <2>1
  <2>2. CASE j # k
    BY <1>6, <2>2
  <2> QED
    BY <2>1, <2>2
<1>8. GraderIsKnown'
  BY <1>1 DEF PraiseInv, GraderIsKnown
<1>9. CardsRemember'
  <2>1. ASSUME NEW j \in DOMAIN cards
        PROVE  sent'[j] \in Seq(Range(sent'[j]))
    <3>1. CASE j = k
      BY <1>4, <1>6, <3>1
    <3>2. CASE j # k
      BY <1>3, <1>6, <3>2
    <3> QED
      BY <3>1, <3>2
  <2> QED
    BY <1>6, <2>1 DEF CardsRemember
<1>10. SubmissionsAreOfCards'
  <2>1. /\ Len(requests) \in Nat /\ DOMAIN requests = 1 .. Len(requests)
        /\ DOMAIN requests' = 1 .. Len(requests) + 1
        /\ requests'[Len(requests) + 1] = e
        /\ \A n \in DOMAIN requests : requests'[n] = requests[n]
    BY <1>1, AppendKeeps DEF PraiseInv, PageInv, RequestsBelong
  <2>2. ASSUME NEW n \in DOMAIN requests', requests'[n].mount = mount', requests'[n].what = "check"
        PROVE  OfACard(requests[n])'
    <3>1. CASE n = Len(requests) + 1
      BY <1>1, <1>2, <1>5, <1>6, <2>1, <3>1 DEF OfACard
    <3>2. CASE n \in DOMAIN requests
      <4>1. OfACard(requests[n]) /\ requests'[n] = requests[n]
        BY <1>1, <2>1, <2>2, <3>2 DEF PraiseInv, SubmissionsAreOfCards
      <4> QED
        BY <1>1, <1>6, <1>7, <4>1 DEF OfACard
    <3> QED
      BY <2>1, <3>1, <3>2
  <2> QED
    BY <2>2 DEF SubmissionsAreOfCards
<1>11. ASSUME NEW j \in DOMAIN cards', Praised(j)'
       PROVE  Earned(j)'
  <2>1. j # k
    <3> SUFFICES ASSUME j = k PROVE FALSE
      OBVIOUS
    <3>1. cards'[j].verdict = None /\ cards'[j].classes = {}
      BY <1>1, <1>6, <1>11
    <3> QED
      BY <1>11, <3>1, NoneIsNotCorrect DEF Praised
  <2>2. Praised(j) /\ j \in DOMAIN cards
    BY <1>6, <1>11, <2>1 DEF Praised
  <2>3. Earned(j)
    BY <2>2 DEF PraiseInv
  <2> QED
    BY <1>1, <1>7, <2>2, <2>3, EarnedStays
<1> QED
  BY <1>8, <1>9, <1>10, <1>11 DEF PraiseInv

\* A quiz is submitted with nothing picked: the card says so and shows no verdict.
LEMMA PickNothingKeepsPraise ==
  ASSUME PraiseInv, PageInv', NEW k \in DOMAIN cards, PickNothing(k)
  PROVE  PraiseInv'
<1>1. /\ UNCHANGED <<server, curriculum, graders, mount, page, requests, sent>>
      /\ cards' = [cards EXCEPT ![k] = [HiddenCard EXCEPT !.text = "pick an answer first"]]
  BY DEF PickNothing, backend
<1>2. DOMAIN cards' = DOMAIN cards /\ cards'[k].verdict = None /\ cards'[k].classes = {}
  BY <1>1 DEF HiddenCard
<1>3. GraderIsKnown' /\ CardsRemember' /\ SubmissionsAreOfCards'
  BY <1>1, <1>2 DEF PraiseInv, GraderIsKnown, CardsRemember, SubmissionsAreOfCards, OfACard
<1>4. ASSUME NEW j \in DOMAIN cards', Praised(j)'
      PROVE  Earned(j)'
  <2>1. j # k
    BY <1>2, <1>4, NoneIsNotCorrect DEF Praised
  <2>2. Praised(j) /\ j \in DOMAIN cards
    BY <1>1, <1>2, <1>4, <2>1 DEF Praised
  <2>3. Earned(j)
    BY <2>2 DEF PraiseInv
  <2> QED
    BY <1>1, <2>3, EarnedStays
<1> QED
  BY <1>3, <1>4 DEF PraiseInv

\* A request is answered, or fails.  A verdict goes to the card that submitted the
\* answer; a lesson has cards with nothing on them.
LEMMA RenderKeepsPraise ==
  ASSUME PraiseInv, PageInv', NEW i \in DOMAIN requests, NEW reply,
         Render(requests[i], reply), Drop(i),
         UNCHANGED <<server, curriculum, graders, hash, mount>>,
         ASSUME requests[i].what = "check", reply # None,
                reply = Correct \/ reply.correct
         PROVE  /\ server = "serving" /\ reply = Correct
                /\ reply = CheckReply(curriculum, requests[i].id, requests[i].exercise,
                                      requests[i].answer)
  PROVE  PraiseInv'
<1> DEFINE r == requests[i]
<1>1. GraderIsKnown'
  BY DEF PraiseInv, GraderIsKnown
<1>2. CASE r.mount # mount
  <2>1. UNCHANGED <<page, cards, sent>>
    BY <1>2 DEF Render
  <2>2. CardsRemember' /\ SubmissionsAreOfCards'
    BY <2>1, DropKeepsSubmissions DEF PraiseInv, CardsRemember
  <2>3. ASSUME NEW j \in DOMAIN cards', Praised(j)'
        PROVE  Earned(j)'
    <3>1. Earned(j)
      BY <2>1, <2>3 DEF PraiseInv, Praised
    <3> QED
      BY <2>1, <3>1, EarnedStays
  <2> QED
    BY <1>1, <2>2, <2>3 DEF PraiseInv
<1>3. CASE r.mount = mount /\ r.what = "check"
  <2> DEFINE k == r.card
             colour == IF reply = None THEN "bad" ELSE IF reply.correct THEN "ok" ELSE "bad"
  <2>1. /\ UNCHANGED <<page, sent>>
        /\ cards' = [cards EXCEPT ![k] =
             [text |-> IF reply = None THEN "failed" ELSE "verdict", verdict |-> reply,
              classes |-> cards[k].classes \cup {colour}]]
    BY <1>3 DEF Render, ShowVerdict
  <2>2. OfACard(r)
    BY <1>3 DEF PraiseInv, SubmissionsAreOfCards
  <2> HIDE DEF colour
  <2>3. /\ DOMAIN cards' = DOMAIN cards /\ k \in DOMAIN cards
        /\ cards'[k].verdict = reply /\ cards'[k].classes = cards[k].classes \cup {colour}
        /\ \A j \in DOMAIN cards \ {k} : cards'[j] = cards[j]
    BY <2>1, <2>2 DEF OfACard
  <2>4. CardsRemember' /\ SubmissionsAreOfCards'
    BY <2>1, <2>3, DropKeepsSubmissions DEF PraiseInv, CardsRemember
  <2>5. ASSUME NEW j \in DOMAIN cards', Praised(j)'
        PROVE  Earned(j)'
    <3>1. CASE Praised(j)
      <4>1. Earned(j)
        BY <2>3, <2>5, <3>1 DEF PraiseInv
      <4> QED
        BY <2>1, <4>1, EarnedStays
    <3>2. CASE ~ Praised(j)
      <4>1. j = k
        BY <2>3, <2>5, <3>2 DEF Praised
      <4>2. reply = Correct \/ colour = "ok"
        BY <2>3, <2>5, <3>2, <4>1 DEF Praised
      <4>3. reply # None /\ (reply = Correct \/ reply.correct)
        BY <4>2, NoneIsNotCorrect DEF colour
      <4>4. /\ server = "serving"
            /\ Correct = CheckReply(curriculum, r.id, r.exercise, r.answer)
        BY <1>3, <4>3
      <4>5. curriculum \in graders /\ r.answer \in Range(sent[j])
        BY <2>2, <4>1, <4>4 DEF PraiseInv, GraderIsKnown, OfACard
      <4>6. r.id = page.shows.id /\ r.exercise = page.shows.exercises[j].id
        BY <2>2, <4>1 DEF OfACard
      <4>7. Grades(Correct, r.answer, j)
        BY <4>4, <4>5, <4>6 DEF Grades
      <4>8. Earned(j)
        BY <4>5, <4>7 DEF Earned
      <4> QED
        BY <2>1, <4>8, EarnedStays
    <3> QED
      BY <3>1, <3>2
  <2> QED
    BY <1>1, <2>4, <2>5 DEF PraiseInv
<1>4. CASE r.mount = mount /\ r.what # "check"
  <2> DEFINE exercises == IF reply # None /\ hash.name = "lesson" THEN reply.exercises ELSE <<>>
  <2>1. /\ cards' = [n \in DOMAIN exercises |-> HiddenCard]
        /\ sent' = [n \in DOMAIN exercises |-> <<>>]
    BY <1>4 DEF Render, ShowPage
  <2> HIDE DEF exercises
  <2>2. <<>> \in Seq(Range(<<>>))
    BY EmptySeq
  <2>3. CardsRemember'
    BY <2>1, <2>2 DEF CardsRemember
  <2>4. SubmissionsAreOfCards'
    <3>1. /\ Len(requests) \in Nat /\ DOMAIN requests = 1 .. Len(requests)
          /\ DOMAIN requests' = 1 .. Len(requests) - 1
          /\ \A n \in DOMAIN requests' : requests'[n] = requests[IF n < i THEN n ELSE n + 1]
      BY RemoveAtKeeps DEF Drop, PraiseInv, PageInv, RequestsBelong
    <3>2. \A n \in DOMAIN requests : requests[n].mount = mount => n = i
      BY <1>4 DEF PraiseInv, PageInv, RequestsBelong, Belongs
    <3>3. \A n \in DOMAIN requests' : requests'[n].mount # mount
      <4> TAKE n \in DOMAIN requests'
      <4> DEFINE old == IF n < i THEN n ELSE n + 1
      <4>1. old \in DOMAIN requests /\ old # i /\ requests'[n] = requests[old]
        BY <3>1
      <4> HIDE DEF old
      <4> QED
        BY <3>2, <4>1
    <3> QED
      BY <3>3 DEF SubmissionsAreOfCards
  <2>5. \A j \in DOMAIN cards' : cards'[j].verdict = None /\ cards'[j].classes = {}
    BY <2>1 DEF HiddenCard
  <2>6. \A j \in DOMAIN cards' : ~ Praised(j)'
    BY <2>5, NoneIsNotCorrect DEF Praised
  <2> QED
    BY <1>1, <2>3, <2>4, <2>6 DEF PraiseInv
<1> QED
  BY <1>2, <1>3, <1>4

\* Every step keeps the invariant.
LEMMA PraiseInvNext == PraiseInv /\ [Next]_vars => PraiseInv'
<1> SUFFICES ASSUME PraiseInv, [Next]_vars PROVE PraiseInv'
  OBVIOUS
<1>0. PageInv'
  BY PageInvNext DEF PraiseInv
<1>1. ASSUME NEW disk \in Disks, Boot(disk) PROVE PraiseInv'
  <2>1. UNCHANGED browser /\ GraderIsKnown' /\ graders \subseteq graders'
    BY <1>1 DEF Boot, GraderIsKnown
  <2> QED
    BY <1>0, <2>1, BackendKeepsPraise
<1>2. CASE Shutdown
  <2>1. UNCHANGED browser /\ GraderIsKnown' /\ graders \subseteq graders'
    BY <1>2 DEF Shutdown, GraderIsKnown
  <2> QED
    BY <1>0, <2>1, BackendKeepsPraise
<1>3. CASE OpenSite
  BY <1>0, <1>3, OpenSiteKeepsPraise
<1>4. ASSUME NEW r \in Routes, Navigate(r) PROVE PraiseInv'
  BY <1>0, <1>4, NavigateKeepsPraise
<1>5. ASSUME NEW k \in DOMAIN cards, NEW t, Submit(k, t) PROVE PraiseInv'
  BY <1>0, <1>5, SubmitKeepsPraise
<1>6. ASSUME NEW k \in DOMAIN cards, PickNothing(k) PROVE PraiseInv'
  BY <1>0, <1>6, PickNothingKeepsPraise
<1>7. ASSUME NEW i \in DOMAIN requests, Fail(i) PROVE PraiseInv'
  <2>1. /\ Render(requests[i], None) /\ Drop(i)
        /\ UNCHANGED <<server, curriculum, graders, hash, mount>>
    BY <1>7 DEF Fail, backend
  <2> QED
    BY <1>0, <2>1, RenderKeepsPraise
<1>8. ASSUME NEW i \in DOMAIN requests, Deliver(i) PROVE PraiseInv'
  <2> DEFINE r == requests[i]
             reply == Reply(curriculum, r)
  <2>1. /\ Render(r, reply) /\ Drop(i) /\ server = "serving"
        /\ UNCHANGED <<server, curriculum, graders, hash, mount>>
    BY <1>8 DEF Deliver, backend
  <2>2. ASSUME r.what = "check", reply # None, reply = Correct \/ reply.correct
        PROVE  /\ server = "serving" /\ reply = Correct
               /\ reply = CheckReply(curriculum, r.id, r.exercise, r.answer)
    <3>1. reply = CheckReply(curriculum, r.id, r.exercise, r.answer)
      BY <2>2 DEF Reply
    <3> QED
      BY <2>1, <2>2, <3>1, CorrectReply
  <2> HIDE DEF reply
  <2> QED
    BY <1>0, <2>1, <2>2, RenderKeepsPraise
<1>9. CASE UNCHANGED vars
  <2>1. UNCHANGED browser /\ GraderIsKnown' /\ graders \subseteq graders'
    BY <1>9 DEF vars, browser, GraderIsKnown, PraiseInv
  <2> QED
    BY <1>0, <2>1, BackendKeepsPraise
<1> QED
  BY <1>1, <1>2, <1>3, <1>4, <1>5, <1>6, <1>7, <1>8, <1>9 DEF Next, Resolve

\* A tick, in words or in colour, is never shown on a card unless an answer given on
\* this card is right (renderExercise, route).
THEOREM PraiseIsAlwaysEarned == Spec => []PraiseIsEarned
<1>1. PraiseInv => PraiseIsEarned
  BY DEF PraiseInv, PraiseIsEarned, Praised, Earned
<1> QED
  BY PraiseInvInit, PraiseInvNext, <1>1, PTL DEF Spec
-----------------------------------------------------------------------------
(***************************************************************************)
(* A card at rest speaks of the last answer.                               *)
(***************************************************************************)
\* What a card shows once its only answer under way has come back.
AtRest(k) ==
  /\ cards[k].classes = {IF cards[k].verdict = Correct THEN "ok" ELSE "bad"}
  /\ \/ cards[k].text = "failed"
     \/ cards[k].text = "verdict" /\ Grades(cards[k].verdict, Last(sent[k]), k)

\* A card whose answers were submitted one at a time waits for the last of them with
\* nothing left of an earlier verdict, or is at rest.
Orderly(k) ==
  /\ \A i, j \in CheckOf(k) : i = j
  /\ \A i \in CheckOf(k) :
       /\ sent[k] # <<>> /\ requests[i].answer = Last(sent[k])
       /\ cards[k].classes = {}
  /\ CheckOf(k) = {} /\ sent[k] # <<>> => AtRest(k)

QuietInv ==
  /\ PraiseInv
  /\ DOMAIN lone = DOMAIN cards
  /\ \A k \in DOMAIN cards : lone[k] => Orderly(k)

\* A card that a step leaves alone stays orderly: what is under way for it afterwards
\* was so before, at a place of its own, and is nothing only if it was nothing.
LEMMA OrderlyStays ==
  ASSUME NEW k, Orderly(k), cards'[k] = cards[k], sent'[k] = sent[k],
         page'.shows = page.shows, graders \subseteq graders',
         NEW f \in [CheckOf(k)' -> CheckOf(k)],
         \A n, p \in CheckOf(k)' : f[n] = f[p] => n = p,
         \A n \in CheckOf(k)' : requests'[n] = requests[f[n]],
         CheckOf(k)' = {} => CheckOf(k) = {}
  PROVE  Orderly(k)'
<1> DEFINE before == CheckOf(k)
           after == CheckOf(k)'
<1>1. \A n \in after : f[n] \in before
  OBVIOUS
<1> HIDE DEF before, after
<1>2. \A n, p \in after : n = p
  BY <1>1 DEF Orderly, before, after
<1>3. \A n \in after :
        /\ sent'[k] # <<>> /\ requests'[n].answer = Last(sent'[k])
        /\ cards'[k].classes = {}
  BY <1>1 DEF Orderly, before, after
<1>4. ASSUME after = {}, sent'[k] # <<>>
      PROVE  AtRest(k)'
  <2>1. AtRest(k)
    BY <1>4 DEF Orderly, before, after
  <2> QED
    BY <2>1 DEF AtRest, Grades
<1> QED
  BY <1>2, <1>3, <1>4 DEF Orderly, after

\* So does every card when the requests and the rendering stay.
LEMMA SameRequestsStayOrderly ==
  ASSUME NEW k, Orderly(k), cards'[k] = cards[k], sent'[k] = sent[k],
         UNCHANGED <<page, mount, requests>>, graders \subseteq graders'
  PROVE  Orderly(k)'
<1> DEFINE f == [n \in CheckOf(k)' |-> n]
<1>1. CheckOf(k)' = CheckOf(k)
  BY DEF CheckOf
<1>2. f \in [CheckOf(k)' -> CheckOf(k)] /\ \A n \in CheckOf(k)' : f[n] = n
  BY <1>1
<1> HIDE DEF f
<1> QED
  BY <1>1, <1>2, OrderlyStays

\* So does a card for which the response that is dropped was not.
LEMMA OthersDropStaysOrderly ==
  ASSUME PraiseInv, NEW k, Orderly(k), cards'[k] = cards[k], sent'[k] = sent[k],
         UNCHANGED <<page, mount, graders>>,
         NEW i \in DOMAIN requests, Drop(i), i \notin CheckOf(k)
  PROVE  Orderly(k)'
<1> DEFINE Old(n) == IF n < i THEN n ELSE n + 1
           f == [n \in CheckOf(k)' |-> Old(n)]
<1>1. /\ Len(requests) \in Nat /\ DOMAIN requests = 1 .. Len(requests)
      /\ DOMAIN requests' = 1 .. Len(requests) - 1
      /\ \A n \in DOMAIN requests' : requests'[n] = requests[Old(n)]
  BY RemoveAtKeeps DEF Drop, PraiseInv, PageInv, RequestsBelong
<1>2. ASSUME NEW n \in CheckOf(k)'
      PROVE  Old(n) \in CheckOf(k) /\ requests'[n] = requests[Old(n)] /\ n \in Nat
  <2>1. n \in DOMAIN requests' /\ requests'[n].mount = mount /\ requests'[n].card = k
    BY DEF CheckOf
  <2>2. n \in Nat /\ Old(n) \in DOMAIN requests
    BY <1>1, <2>1
  <2> QED
    BY <1>1, <2>1, <2>2 DEF CheckOf
<1>3. f \in [CheckOf(k)' -> CheckOf(k)] /\ \A n \in CheckOf(k)' : f[n] = Old(n)
  BY <1>2
<1>4. \A n, p \in CheckOf(k)' : f[n] = f[p] => n = p
  BY <1>1, <1>2, <1>3
<1>5. ASSUME NEW o \in CheckOf(k)
      PROVE  \E n \in CheckOf(k)' : TRUE
  <2> DEFINE n == IF o < i THEN o ELSE o - 1
  <2>1. o \in DOMAIN requests /\ o # i /\ requests[o].mount = mount /\ requests[o].card = k
    BY DEF CheckOf
  <2>2. n \in DOMAIN requests' /\ Old(n) = o
    BY <1>1, <2>1
  <2>3. requests'[n] = requests[o]
    BY <1>1, <2>2
  <2> HIDE DEF n
  <2>4. n \in CheckOf(k)'
    BY <2>1, <2>2, <2>3 DEF CheckOf
  <2> QED
    BY <2>4
<1> HIDE DEF f
<1>6. \A n \in CheckOf(k)' : requests'[n] = requests[f[n]]
  BY <1>2, <1>3
<1>7. CheckOf(k)' = {} => CheckOf(k) = {}
  BY <1>5
<1> QED
  BY <1>3, <1>4, <1>6, <1>7, OrderlyStays

\* Without cards there is nothing to keep in order.
LEMMA NoCardsAreOrderly ==
  ASSUME PraiseInv', cards' = <<>>, lone' = <<>>
  PROVE  QuietInv'
<1>1. DOMAIN cards' = {}
  OBVIOUS
<1> QED
  BY <1>1 DEF QuietInv

\* A card is submitted: if nothing was under way for it, now this answer is, and the
\* verdict before is gone.
LEMMA SubmitKeepsOrder ==
  ASSUME QuietInv, PraiseInv', NEW k \in DOMAIN cards, NEW t, Submit(k, t)
  PROVE  QuietInv'
<1> DEFINE e == Asked(page, [card |-> k, answer |-> t, exercise |-> page.shows.exercises[k].id])
           checking == [text |-> "checking", verdict |-> None, classes |-> {}]
<1>1. /\ UNCHANGED <<graders, mount, page>>
      /\ requests' = Append(requests, e)
      /\ cards' = [cards EXCEPT ![k] = checking]
      /\ sent' = [sent EXCEPT ![k] = Append(sent[k], t)]
      /\ lone' = [lone EXCEPT ![k] = lone[k] /\ CheckOf(k) = {}]
  BY DEF Submit, backend
<1>2. e.card = k /\ e.answer = t
  BY DEF Asked, Ask
<1> HIDE DEF e
<1>3. DOMAIN sent = DOMAIN cards /\ DOMAIN lone = DOMAIN cards /\ sent[k] \in Seq(Range(sent[k]))
  BY DEF QuietInv, PraiseInv, CardsRemember
<1>4. /\ Len(requests) \in Nat /\ DOMAIN requests = 1 .. Len(requests)
      /\ DOMAIN requests' = 1 .. Len(requests) + 1
      /\ requests'[Len(requests) + 1] = e
      /\ \A n \in DOMAIN requests : requests'[n] = requests[n]
  BY <1>1, AppendKeeps DEF QuietInv, PraiseInv, PageInv, RequestsBelong
<1>5. DOMAIN lone' = DOMAIN cards' /\ DOMAIN cards' = DOMAIN cards
  BY <1>1, <1>3
<1>6. ASSUME NEW j \in DOMAIN cards, lone'[j]
      PROVE  Orderly(j)'
  <2>1. CASE j = k
    <3>1. CheckOf(k) = {}
      BY <1>1, <1>3, <1>6, <2>1
    <3>2. CheckOf(k)' \subseteq {Len(requests) + 1}
      <4> SUFFICES ASSUME NEW n \in CheckOf(k)' PROVE n = Len(requests) + 1
        OBVIOUS
      <4>1. n \in DOMAIN requests' /\ requests'[n].mount = mount /\ requests'[n].card = k
        BY <1>1 DEF CheckOf
      <4>2. n \notin DOMAIN requests
        BY <1>4, <3>1, <4>1 DEF CheckOf
      <4> QED
        BY <1>4, <4>1, <4>2
    <3>3. Len(requests) + 1 \in CheckOf(k)'
      <4>1. e.mount = mount
        BY DEF e, Asked, Ask
      <4> QED
        BY <1>1, <1>2, <1>4, <4>1 DEF CheckOf
    <3>4. /\ Append(sent[k], t) # <<>>
          /\ Last(Append(sent[k], t)) = t
      <4>1. /\ Len(sent[k]) \in Nat /\ DOMAIN Append(sent[k], t) = 1 .. Len(sent[k]) + 1
            /\ Append(sent[k], t)[Len(sent[k]) + 1] = t
            /\ Append(sent[k], t) \in Seq(Range(Append(sent[k], t)))
        BY <1>3, AppendKeeps
      <4>2. Len(Append(sent[k], t)) = Len(sent[k]) + 1
        BY <4>1, LenProperties
      <4> QED
        BY <4>1, <4>2 DEF Last
    <3>5. sent'[k] = Append(sent[k], t) /\ cards'[k].classes = {}
      BY <1>1, <1>3
    <3> QED
      BY <1>2, <1>4, <2>1, <3>2, <3>3, <3>4, <3>5 DEF Orderly
  <2>2. CASE j # k
    <3> DEFINE f == [n \in CheckOf(j)' |-> n]
    <3>1. lone[j] /\ cards'[j] = cards[j] /\ sent'[j] = sent[j]
      BY <1>1, <1>3, <1>6, <2>2
    <3>2. Orderly(j)
      BY <3>1 DEF QuietInv
    <3>3. CheckOf(j)' = CheckOf(j)
      <4>1. ASSUME NEW n \in DOMAIN requests', requests'[n].card = j
            PROVE  n \in DOMAIN requests
        BY <1>2, <1>4, <2>2, <4>1
      <4>2. \A n \in DOMAIN requests : n \in DOMAIN requests'
        BY <1>4
      <4> QED
        BY <1>1, <1>4, <4>1, <4>2 DEF CheckOf
    <3>4. /\ f \in [CheckOf(j)' -> CheckOf(j)]
          /\ \A n \in CheckOf(j)' : f[n] = n /\ requests'[n] = requests[n]
      BY <1>4, <3>3 DEF CheckOf
    <3> HIDE DEF f
    <3>5. /\ \A n, p \in CheckOf(j)' : f[n] = f[p] => n = p
          /\ \A n \in CheckOf(j)' : requests'[n] = requests[f[n]]
          /\ page'.shows = page.shows /\ graders \subseteq graders'
      BY <1>1, <3>4
    <3> QED
      BY <3>1, <3>2, <3>3, <3>4, <3>5, OrderlyStays
  <2> QED
    BY <2>1, <2>2
<1> QED
  BY <1>5, <1>6 DEF QuietInv

\* A response: the answer under way for the card, its only one, is graded, and the card
\* takes the colour of the verdict; on every other card nothing changes.
LEMMA RenderKeepsOrder ==
  ASSUME QuietInv, PraiseInv', NEW i \in DOMAIN requests, NEW reply,
         Render(requests[i], reply), Drop(i),
         UNCHANGED <<curriculum, graders, hash, mount>>,
         ASSUME requests[i].what = "check", reply # None
         PROVE  /\ curriculum \in graders
                /\ reply.correct <=> reply = Correct
                /\ reply = CheckReply(curriculum, requests[i].id, requests[i].exercise,
                                      requests[i].answer)
  PROVE  QuietInv'
<1> DEFINE r == requests[i]
<1>1. PraiseInv /\ DOMAIN lone = DOMAIN cards
  BY DEF QuietInv
<1>2. CASE r.mount # mount
  <2>1. UNCHANGED <<page, cards, sent, lone>>
    BY <1>2 DEF Render
  <2>2. ASSUME NEW k \in DOMAIN cards, lone[k]
        PROVE  Orderly(k)'
    <3>1. Orderly(k) /\ i \notin CheckOf(k)
      BY <1>2, <2>2 DEF QuietInv, CheckOf
    <3> QED
      BY <1>1, <2>1, <3>1, OthersDropStaysOrderly
  <2> QED
    BY <1>1, <2>1, <2>2 DEF QuietInv
<1>3. CASE r.mount = mount /\ r.what = "check"
  <2> DEFINE c == r.card
             colour == IF reply = None THEN "bad" ELSE IF reply.correct THEN "ok" ELSE "bad"
  <2>1. /\ UNCHANGED <<page, sent, lone>>
        /\ cards' = [cards EXCEPT ![c] =
             [text |-> IF reply = None THEN "failed" ELSE "verdict", verdict |-> reply,
              classes |-> cards[c].classes \cup {colour}]]
    BY <1>3 DEF Render, ShowVerdict
  <2>2. OfACard(r) /\ c \in DOMAIN cards
    BY <1>1, <1>3 DEF PraiseInv, SubmissionsAreOfCards, OfACard
  <2>3. colour = IF reply = Correct THEN "ok" ELSE "bad"
    BY <1>3, NoneIsNotCorrect
  <2> HIDE DEF colour
  <2>4. /\ DOMAIN cards' = DOMAIN cards
        /\ cards'[c].verdict = reply /\ cards'[c].classes = cards[c].classes \cup {colour}
        /\ cards'[c].text = IF reply = None THEN "failed" ELSE "verdict"
        /\ \A j \in DOMAIN cards \ {c} : cards'[j] = cards[j]
    BY <2>1, <2>2
  <2>5. i \in CheckOf(c)
    BY <1>3 DEF CheckOf
  <2>6. ASSUME NEW k \in DOMAIN cards, lone[k]
        PROVE  Orderly(k)'
    <3>1. Orderly(k)
      BY <2>6 DEF QuietInv
    <3>2. CASE k = c
      <4>1. CheckOf(k)' = {}
        <5>1. /\ Len(requests) \in Nat /\ DOMAIN requests = 1 .. Len(requests)
              /\ DOMAIN requests' = 1 .. Len(requests) - 1
              /\ \A n \in DOMAIN requests' : requests'[n] = requests[IF n < i THEN n ELSE n + 1]
          BY <1>1, RemoveAtKeeps DEF Drop, PraiseInv, PageInv, RequestsBelong
        <5>2. ASSUME NEW n \in CheckOf(k)'
              PROVE  FALSE
          <6> DEFINE old == IF n < i THEN n ELSE n + 1
          <6>1. n \in DOMAIN requests' /\ requests'[n].mount = mount /\ requests'[n].card = k
            BY DEF CheckOf
          <6>2. old \in DOMAIN requests /\ old # i /\ requests'[n] = requests[old]
            BY <5>1, <6>1
          <6> HIDE DEF old
          <6>3. old \in CheckOf(k)
            BY <6>1, <6>2 DEF CheckOf
          <6> QED
            BY <2>5, <3>1, <3>2, <6>2, <6>3 DEF Orderly
        <5> QED
          BY <5>2
      <4>2. /\ sent[k] # <<>> /\ r.answer = Last(sent[k]) /\ cards[k].classes = {}
        BY <2>5, <3>1, <3>2 DEF Orderly
      <4>3. cards'[k].classes = {IF cards'[k].verdict = Correct THEN "ok" ELSE "bad"}
        BY <2>3, <2>4, <3>2, <4>2
      <4>4. ASSUME reply # None
            PROVE  Grades(reply, Last(sent[k]), k)'
        <5>1. /\ curriculum \in graders
              /\ reply = CheckReply(curriculum, r.id, r.exercise, r.answer)
          BY <1>3, <4>4
        <5>2. r.id = page.shows.id /\ r.exercise = page.shows.exercises[k].id
          BY <2>2, <3>2 DEF OfACard
        <5>3. Grades(reply, Last(sent[k]), k)
          BY <4>2, <5>1, <5>2 DEF Grades
        <5> QED
          BY <2>1, <5>3 DEF Grades
      <4>5. AtRest(k)'
        BY <2>1, <2>4, <3>2, <4>3, <4>4 DEF AtRest
      <4> QED
        BY <4>1, <4>5 DEF Orderly
    <3>3. CASE k # c
      <4>1. i \notin CheckOf(k)
        BY <3>3 DEF CheckOf
      <4> QED
        BY <1>1, <2>1, <2>4, <3>1, <3>3, <4>1, OthersDropStaysOrderly
    <3> QED
      BY <3>2, <3>3
  <2> QED
    BY <1>1, <2>1, <2>4, <2>6 DEF QuietInv
<1>4. CASE r.mount = mount /\ r.what # "check"
  <2> DEFINE exercises == IF reply # None /\ hash.name = "lesson" THEN reply.exercises ELSE <<>>
  <2>1. /\ cards' = [n \in DOMAIN exercises |-> HiddenCard]
        /\ sent' = [n \in DOMAIN exercises |-> <<>>]
        /\ lone' = [n \in DOMAIN exercises |-> TRUE]
    BY <1>4 DEF Render, ShowPage
  <2> HIDE DEF exercises
  <2>2. /\ Len(requests) \in Nat /\ DOMAIN requests = 1 .. Len(requests)
        /\ DOMAIN requests' = 1 .. Len(requests) - 1
        /\ \A n \in DOMAIN requests' : requests'[n] = requests[IF n < i THEN n ELSE n + 1]
    BY <1>1, RemoveAtKeeps DEF Drop, PraiseInv, PageInv, RequestsBelong
  <2>3. \A n \in DOMAIN requests : requests[n].mount = mount => n = i
    BY <1>1, <1>4 DEF PraiseInv, PageInv, RequestsBelong, Belongs
  <2>4. \A n \in DOMAIN requests' : requests'[n].mount # mount
    <3> TAKE n \in DOMAIN requests'
    <3> DEFINE old == IF n < i THEN n ELSE n + 1
    <3>1. old \in DOMAIN requests /\ old # i /\ requests'[n] = requests[old]
      BY <2>2
    <3> HIDE DEF old
    <3> QED
      BY <2>3, <3>1
  <2>5. ASSUME NEW k \in DOMAIN cards'
        PROVE  Orderly(k)'
    <3>1. CheckOf(k)' = {} /\ sent'[k] = <<>>
      BY <2>1, <2>4 DEF CheckOf
    <3> QED
      BY <3>1 DEF Orderly
  <2> QED
    BY <2>1, <2>5 DEF QuietInv
<1> QED
  BY <1>2, <1>3, <1>4

\* Every step keeps the cards orderly.
LEMMA QuietInvNext == QuietInv /\ [Next]_vars => QuietInv'
<1> SUFFICES ASSUME QuietInv, [Next]_vars PROVE QuietInv'
  OBVIOUS
<1>0. PraiseInv /\ PraiseInv' /\ DOMAIN lone = DOMAIN cards
  BY PraiseInvNext DEF QuietInv
<1>1. ASSUME UNCHANGED browser, graders \subseteq graders' PROVE QuietInv'
  <2>1. UNCHANGED <<mount, page, cards, requests, sent, lone>>
    BY <1>1 DEF browser
  <2>2. \A k \in DOMAIN cards : lone[k] => Orderly(k)'
    BY <1>1, <2>1, SameRequestsStayOrderly DEF QuietInv
  <2> QED
    BY <1>0, <2>1, <2>2 DEF QuietInv
<1>2. ASSUME NEW disk \in Disks, Boot(disk) PROVE QuietInv'
  <2>1. UNCHANGED browser /\ graders \subseteq graders'
    BY <1>2 DEF Boot
  <2> QED
    BY <1>1, <2>1
<1>3. CASE Shutdown
  BY <1>1, <1>3 DEF Shutdown
<1>4. CASE OpenSite
  <2>1. UNCHANGED <<cards, lone>> /\ cards = <<>>
    BY <1>0, <1>4 DEF OpenSite, PraiseInv, PageInv, ThePageIsTheOneAskedFor
  <2>2. DOMAIN cards = {}
    BY <2>1
  <2> QED
    BY <1>0, <2>1, <2>2 DEF QuietInv
<1>5. ASSUME NEW r \in Routes, Navigate(r) PROVE QuietInv'
  <2>1. cards' = <<>> /\ lone' = <<>>
    BY <1>5 DEF Navigate
  <2> QED
    BY <1>0, <2>1, NoCardsAreOrderly
<1>6. ASSUME NEW k \in DOMAIN cards, NEW t, Submit(k, t) PROVE QuietInv'
  BY <1>0, <1>6, SubmitKeepsOrder
<1>7. ASSUME NEW k \in DOMAIN cards, PickNothing(k) PROVE QuietInv'
  <2>1. /\ UNCHANGED <<graders, mount, page, requests, sent, lone>> /\ sent[k] = <<>>
        /\ cards' = [cards EXCEPT ![k] = [HiddenCard EXCEPT !.text = "pick an answer first"]]
    BY <1>7 DEF PickNothing
  <2>2. ASSUME NEW j \in DOMAIN cards, lone[j]
        PROVE  Orderly(j)'
    <3>1. Orderly(j)
      BY <2>2 DEF QuietInv
    <3>2. CASE j = k
      <4>1. CheckOf(j)' = {} /\ sent'[j] = <<>>
        BY <2>1, <3>1, <3>2 DEF Orderly, CheckOf
      <4> QED
        BY <4>1 DEF Orderly
    <3>3. CASE j # k
      BY <2>1, <3>1, <3>3, SameRequestsStayOrderly
    <3> QED
      BY <3>2, <3>3
  <2> QED
    BY <1>0, <2>1, <2>2 DEF QuietInv
<1>8. ASSUME NEW i \in DOMAIN requests, Fail(i) PROVE QuietInv'
  <2>1. /\ Render(requests[i], None) /\ Drop(i)
        /\ UNCHANGED <<curriculum, graders, hash, mount>>
    BY <1>8 DEF Fail, backend
  <2> QED
    BY <1>0, <2>1, RenderKeepsOrder
<1>9. ASSUME NEW i \in DOMAIN requests, Deliver(i) PROVE QuietInv'
  <2> DEFINE r == requests[i]
             reply == Reply(curriculum, r)
  <2>1. /\ Render(r, reply) /\ Drop(i) /\ server = "serving"
        /\ UNCHANGED <<curriculum, graders, hash, mount>>
    BY <1>9 DEF Deliver, backend
  <2>2. ASSUME r.what = "check", reply # None
        PROVE  /\ curriculum \in graders
               /\ reply.correct <=> reply = Correct
               /\ reply = CheckReply(curriculum, r.id, r.exercise, r.answer)
    <3>1. reply = CheckReply(curriculum, r.id, r.exercise, r.answer)
      BY <2>2 DEF Reply
    <3>2. curriculum \in graders
      BY <1>0, <2>1 DEF PraiseInv, GraderIsKnown
    <3> HIDE DEF reply
    <3>3. reply.correct <=> reply = Correct
      <4>1. reply.correct => reply = Correct
        BY <2>2, <3>1, CorrectReply
      <4> QED
        BY <4>1 DEF Correct
    <3> QED
      BY <3>1, <3>2, <3>3
  <2> HIDE DEF reply
  <2> QED
    BY <1>0, <2>1, <2>2, RenderKeepsOrder
<1>10. CASE UNCHANGED vars
  BY <1>1, <1>10 DEF vars, browser
<1> QED
  BY <1>2, <1>3, <1>4, <1>5, <1>6, <1>7, <1>8, <1>9, <1>10 DEF Next, Resolve

\* While answers are submitted one at a time, a card at rest speaks of the last one, and
\* its colour says the same as its text (renderExercise).
THEOREM QuietCardsSpeakOfTheLastAnswer == Spec => []QuietCardSpeaksOfTheLastAnswer
<1>1. Init => QuietInv
  <2> SUFFICES ASSUME Init PROVE QuietInv
    OBVIOUS
  <2>1. cards = <<>> /\ lone = <<>>
    BY DEF Init
  <2>2. DOMAIN cards = {}
    BY <2>1
  <2> QED
    BY <2>1, <2>2, PraiseInvInit DEF QuietInv
<1>2. QuietInv => QuietCardSpeaksOfTheLastAnswer
  BY DEF QuietInv, Orderly, AtRest, QuietCardSpeaksOfTheLastAnswer
<1> QED
  BY <1>1, <1>2, QuietInvNext, PTL DEF Spec

-----------------------------------------------------------------------------
(***************************************************************************)
(* What the validation at the start of the server is for: every exercise of *)
(* a curriculum that is served can be solved through the API, and no answer *)
(* makes its grader panic.  The validation grades each solution on the     *)
(* exercise itself; the API finds the exercise by two ids, and refuses     *)
(* answers that are too large.                                             *)
(***************************************************************************)
\* The first with an id is the one itself where nothing before it has the same id.
LEMMA FirstIsItself ==
  ASSUME NEW s, IsList(s), NEW i \in DOMAIN s,
         \A k, j \in DOMAIN s : j < k => s[j].id # s[k].id
  PROVE  FirstWith(s[i].id, s) = s[i] /\ s[i] # None
<1> DEFINE First(k) == s[k].id = s[i].id /\ \A j \in DOMAIN s : s[j].id = s[i].id => k <= j
<1>1. \A k \in DOMAIN s : s[k].id = s[i].id => k = i
  BY DEF IsList
<1>2. First(i)
  BY <1>1 DEF IsList
<1>3. \A k \in DOMAIN s : First(k) => k = i
  BY <1>1
<1>4. FirstWith(s[i].id, s) = s[CHOOSE k \in DOMAIN s : First(k)]
  BY <1>2 DEF FirstWith
<1>5. (CHOOSE k \in DOMAIN s : First(k)) = i
  BY <1>2, <1>3
<1>6. s[i] # None
  BY DEF IsList, Range
<1> QED
  BY <1>4, <1>5, <1>6

\* The grader gives a verdict, and panics only over the hex string of an exercise or
\* over an answer that is assembled or run.
LEMMA OnlyHexAndAnswersPanic ==
  ASSUME NEW e, NEW t, t.run \notin {None, Panicked} => t.run.stop \in Stops,
         e.kind \in {"assemble", "disassemble"} => FromHex(e.hex) # Panicked,
         ReadAs(e, t) # Panicked
  PROVE  Grade(e, t) # Panicked /\ Grade(e, t) # None
<1>1. Correct \in Verdicts /\ \A why \in Reasons : Wrong(why) \in Verdicts
  BY DEF Correct, Wrong, Verdicts, Reasons
<1> SUFFICES Grade(e, t) \in Verdicts
  BY SentinelsAreNoVerdicts
<1>2. CASE e.kind = "quiz"
  <2>1. Grade(e, t) = GradeQuiz(e, t)
    BY <1>2 DEF Grade
  <2> QED
    BY <1>1, <2>1 DEF GradeQuiz, Reasons
<1>3. CASE e.kind = "assemble"
  <2>1. Grade(e, t) = GradeAssemble(e, t)
    BY <1>3 DEF Grade
  <2> QED
    BY <1>1, <1>3, <2>1 DEF GradeAssemble, Reasons, ReadAs
<1>4. CASE e.kind = "disassemble"
  <2>1. Grade(e, t) = GradeDisassemble(e, t)
    BY <1>4 DEF Grade
  <2> QED
    BY <1>1, <1>4, <2>1 DEF GradeDisassemble, Reasons, ReadAs
<1>5. CASE e.kind \notin {"quiz", "assemble", "disassemble"}
  <2>1. Grade(e, t) = GradeEmulate(e, t)
    BY <1>5 DEF Grade
  <2>2. GradeRegisters(e, t.run) \in Verdicts
    BY <1>1 DEF GradeRegisters, Reasons
  <2> QED
    BY <1>1, <1>5, <2>1, <2>2 DEF GradeEmulate, Reasons, ReadAs
<1> QED
  BY <1>2, <1>3, <1>4, <1>5

\* What validates has no two lessons of one id, no two exercises of one id in a
\* lesson, and only solutions that pass.
LEMMA WhatValidationSays ==
  ASSUME NEW c, Validate(c) = {}, NEW i \in DOMAIN Lessons(c)
  PROVE  /\ \A j \in DOMAIN Lessons(c) : j < i => Lessons(c)[j].id # Lessons(c)[i].id
         /\ \A k \in DOMAIN Lessons(c)[i].exercises :
              LET e == Lessons(c)[i].exercises[k] IN
              /\ Grade(e, Solution(e)) = Correct
              /\ \A j \in DOMAIN Lessons(c)[i].exercises :
                   j < k => Lessons(c)[i].exercises[j].id # e.id
<1> DEFINE ls == Lessons(c)
           l == ls[i]
<1>1. LessonIssues(ls, i) = {}
  BY DEF Validate
<1> HIDE DEF ls
<1>2. /\ {"duplicate lesson id" : j \in {k \in DOMAIN ls : k < i /\ ls[k].id = l.id}} = {}
      /\ \A k \in DOMAIN l.exercises : ExerciseIssues(l, k) = {}
  BY <1>1 DEF LessonIssues
<1>3. \A j \in DOMAIN ls : j < i => ls[j].id # l.id
  BY <1>2
<1>4. ASSUME NEW k \in DOMAIN l.exercises
      PROVE  /\ Grade(l.exercises[k], Solution(l.exercises[k])) = Correct
             /\ \A j \in DOMAIN l.exercises : j < k => l.exercises[j].id # l.exercises[k].id
  <2> DEFINE e == l.exercises[k]
             duplicates == {j \in DOMAIN l.exercises : j < k /\ l.exercises[j].id = e.id}
  <2>1. ExerciseIssues(l, k) = {}
    BY <1>2, <1>4
  <2>2. /\ {"duplicate exercise id" : j \in duplicates} = {}
        /\ Malformed(e) = {}
        /\ (IF Malformed(e) = {} /\ Grade(e, Solution(e)) # Correct
            THEN {"the solution does not pass"} ELSE {}) = {}
    BY <2>1 DEF ExerciseIssues
  <2>3. duplicates = {}
    BY <2>2
  <2>4. Grade(e, Solution(e)) = Correct
    BY <2>2
  <2> QED
    BY <2>3, <2>4
<1> QED
  BY <1>3, <1>4 DEF ls

\* So what validates, and does not panic meanwhile, can be solved.
LEMMA ValidIsSolvable ==
  ASSUME NEW disk \in Disks, NEW c, c = Load(disk), c # None,
         Validate(c) = {}, ~ValidationPanics(c),
         NEW l \in Range(Lessons(c)), NEW e \in Range(l.exercises)
  PROVE  /\ Grade(e, Solution(e)) = Correct
         /\ ~Solution(e).big => CheckReply(c, l.id, e.id, Solution(e)) = Correct
         /\ \A t \in Answers :
              CheckReply(c, l.id, e.id, t) = None => t.big \/ ReadAs(e, t) = Panicked
<1>1. PICK i \in DOMAIN Lessons(c) : l = Lessons(c)[i]
  BY DEF Range
<1>2. PICK k \in DOMAIN l.exercises : e = l.exercises[k]
  BY DEF Range
<1>3. IsList(Lessons(c)) /\ IsList(l.exercises)
  BY DisksAreListed
<1>4. e.kind \in {"assemble", "disassemble"} => FromHex(e.hex) # Panicked
  BY DEF ValidationPanics, ExercisePanics
<1>5. LessonOf(c, l.id) = l /\ l # None
  <2>1. \A n, j \in DOMAIN Lessons(c) : j < n => Lessons(c)[j].id # Lessons(c)[n].id
    BY WhatValidationSays
  <2> QED
    BY <1>1, <1>3, <2>1, FirstIsItself DEF LessonOf
<1>6. ExerciseOf(l, e.id) = e /\ e # None
  <2>1. \A n, j \in DOMAIN l.exercises : j < n => l.exercises[j].id # l.exercises[n].id
    BY <1>1, WhatValidationSays
  <2> QED
    BY <1>2, <1>3, <2>1, FirstIsItself DEF ExerciseOf
<1>7. \A t : ~t.big /\ Grade(e, t) # Panicked =>
              CheckReply(c, l.id, e.id, t) = Grade(e, t)
  BY <1>5, <1>6 DEF CheckReply
<1>8. Grade(e, Solution(e)) = Correct
  BY <1>1, <1>2, WhatValidationSays
<1>9. ~Solution(e).big => CheckReply(c, l.id, e.id, Solution(e)) = Correct
  <2>1. Correct # Panicked
    BY SentinelsAreNoVerdicts DEF Correct, Verdicts, Reasons
  <2> QED
    BY <1>7, <1>8, <2>1
<1>10. ASSUME NEW t \in Answers, ~t.big, ReadAs(e, t) # Panicked
       PROVE  CheckReply(c, l.id, e.id, t) # None
  <2>1. Grade(e, t) # Panicked /\ Grade(e, t) # None
    BY <1>4, <1>10, OnlyHexAndAnswersPanic, RunsStop
  <2> QED
    BY <1>7, <1>10, <2>1
<1> QED
  BY <1>8, <1>9, <1>10

(***************************************************************************)
(* The server.                                                             *)
(***************************************************************************)
\* What is served came from a disk and has been validated.
ServedIsValid ==
  server = "serving" =>
    /\ \E disk \in Disks : curriculum = Load(disk)
    /\ curriculum # None /\ ~ValidationPanics(curriculum) /\ Validate(curriculum) = {}

\* Only a start changes what is served.
LEMMA ServedIsValidNext == ServedIsValid /\ [Next]_vars => ServedIsValid'
<1> SUFFICES ASSUME ServedIsValid, [Next]_vars PROVE ServedIsValid'
  OBVIOUS
<1>1. ASSUME NEW disk \in Disks, Boot(disk) PROVE ServedIsValid'
  <2> SUFFICES ASSUME server' = "serving"
               PROVE  /\ curriculum' = Load(disk) /\ curriculum' # None
                      /\ ~ValidationPanics(curriculum') /\ Validate(curriculum') = {}
    BY DEF ServedIsValid
  <2>1. curriculum' = Load(disk) /\ Outcome(Load(disk)) = "serving"
    BY <1>1 DEF Boot, Outcomes, Loaded
  <2>2. Load(disk) # None /\ ~ValidationPanics(Load(disk)) /\ Validate(Load(disk)) = {}
    BY <2>1 DEF Outcome
  <2> QED
    BY <2>1, <2>2
<1>2. CASE Shutdown
  BY <1>2 DEF Shutdown, ServedIsValid
<1>3. CASE UNCHANGED <<server, curriculum>>
  BY <1>3 DEF ServedIsValid
<1>4. (\E disk \in Disks : Boot(disk)) \/ Shutdown \/ UNCHANGED <<server, curriculum>>
  BY DEF Next, OpenSite, Navigate, Submit, PickNothing, Resolve, Deliver, Fail, backend, vars
<1> QED
  BY <1>1, <1>2, <1>3, <1>4

\* Through the ids by which the API addresses it, every exercise that is served accepts
\* the reference answer of its author, if that is not too large, and gives a verdict on
\* every answer that is not too large and does not make the assembler or the run panic
\* (validate.rs, Curriculum::lesson, check).
THEOREM ServedIsAlwaysSolvable == Spec => []ServedExercisesAreSolvable
<1>1. Init => ServedIsValid
  BY DEF Init, ServedIsValid
<1>2. ServedIsValid => ServedExercisesAreSolvable
  BY ValidIsSolvable DEF ServedIsValid, ServedExercisesAreSolvable
<1> QED
  BY <1>1, <1>2, ServedIsValidNext, PTL DEF Spec

-----------------------------------------------------------------------------
(***************************************************************************)
(* The palette: its inductive invariant.                                   *)
(***************************************************************************)
\* The token of a search tells whether it is wanted.
Wanted(f) == f.token = queryToken

\* A search is never newer than the token; the one that is wanted is for the text in
\* the field of an open palette, whose lessons are not painted yet.
SearchesAreOld ==
  /\ queryToken \in Nat
  /\ \A f \in fetches :
       /\ f.query \in Queries /\ f.token \in 0 .. queryToken
       /\ f = [query |-> f.query, token |-> f.token]
       /\ Wanted(f) => open /\ f.query = input /\ items = Entities[input]

\* While the timer is armed there is no search that is wanted yet.
TimerIsForTheInput ==
  debounce.armed =>
    /\ open /\ debounce.query = input /\ debounce.token = queryToken
    /\ items = Entities[input]
    /\ \A f \in fetches : ~ Wanted(f)

\* The highlight of an open palette is on one of its hits.
SelectionIsAHit ==
  open => IF items = <<>> THEN sel = NoSelection ELSE sel \in 0 .. Len(items) - 1

PaletteInv ==
  /\ input \in Queries
  /\ SearchesAreOld /\ TimerIsForTheInput /\ SelectionIsAHit /\ HitsMatchTheQuery

(***************************************************************************)
(* What is painted.                                                        *)
(***************************************************************************)
\* Hits of the catalogs followed by lessons, or by none, are a sequence that begins
\* with the former.
LEMMA PaintedHits ==
  ASSUME NEW q \in Queries, NEW lessons \in {LessonHits[q], <<>>}
  PROVE  /\ Len(Entities[q] \o lessons) \in Nat
         /\ Len(Entities[q]) \in Nat /\ Len(Entities[q]) <= Len(Entities[q] \o lessons)
         /\ Entities[q] \o <<>> = Entities[q]
         /\ Entities[q] # <<>> => Len(Entities[q]) > 0
         /\ Entities[q] \o lessons # <<>> => Len(Entities[q] \o lessons) > 0
         /\ \A k \in 1 .. Len(Entities[q]) : (Entities[q] \o lessons)[k] = Entities[q][k]
<1> DEFINE Of(s) == {s[k] : k \in DOMAIN s}
           S == Of(Entities[q]) \cup Of(LessonHits[q])
<1>1. Entities[q] \in Seq(Of(Entities[q])) /\ LessonHits[q] \in Seq(Of(LessonHits[q]))
  BY HitsAreSequences
<1> HIDE DEF Of
<1>2. Entities[q] \in Seq(S) /\ lessons \in Seq(S)
  BY <1>1, SeqMonotonic, EmptySeq
<1> HIDE DEF S
<1>3. /\ Entities[q] \o lessons \in Seq(S)
      /\ Len(Entities[q] \o lessons) = Len(Entities[q]) + Len(lessons)
      /\ \A k \in 1 .. Len(Entities[q]) + Len(lessons) :
           (Entities[q] \o lessons)[k] =
             IF k <= Len(Entities[q]) THEN Entities[q][k] ELSE lessons[k - Len(Entities[q])]
  BY <1>2, ConcatProperties
<1>4. Len(Entities[q]) \in Nat /\ Len(lessons) \in Nat
  BY <1>2, LenProperties
<1>5. Entities[q] \o <<>> = Entities[q]
  BY <1>2, ConcatEmptySeq
<1>6. /\ Entities[q] # <<>> => Len(Entities[q]) > 0
      /\ Entities[q] \o lessons # <<>> => Len(Entities[q] \o lessons) > 0
  BY <1>2, <1>3, EmptySeq
<1>7. \A k \in 1 .. Len(Entities[q]) : (Entities[q] \o lessons)[k] = Entities[q][k]
  BY <1>3, <1>4
<1> QED
  BY <1>3, <1>4, <1>5, <1>6, <1>7

\* Whatever is painted, the highlight is on a hit afterwards, and where it was if
\* there is still a hit.
LEMMA PaintSelects ==
  ASSUME NEW q \in Queries, NEW lessons \in {LessonHits[q], <<>>}, NEW p,
         Paint(Entities[q], lessons, p),
         sel \in Nat \/ sel = NoSelection
  PROVE  IF items' = <<>> THEN sel' = NoSelection ELSE sel' \in 0 .. Len(items') - 1
<1> DEFINE hits == Entities[q] \o lessons
<1>1. /\ items' = hits
      /\ sel' = IF hits = <<>> THEN NoSelection
                ELSE Min2(IF sel < 0 THEN 0 ELSE sel, Len(hits) - 1)
  BY DEF Paint
<1>2. Len(hits) \in Nat /\ (hits # <<>> => Len(hits) > 0)
  BY PaintedHits
<1> HIDE DEF hits
<1> QED
  BY <1>1, <1>2 DEF Min2, NoSelection

\* An open palette shows a sequence of hits with the highlight on one of them.
LEMMA OpenPalette ==
  ASSUME PaletteInv, open
  PROVE  /\ Len(items) \in Nat /\ (items # <<>> => Len(items) > 0)
         /\ sel \in Nat \/ sel = NoSelection
<1>1. PICK lessons \in {LessonHits[input], <<>>} : items = Entities[input] \o lessons
  BY PaintedHits DEF PaletteInv, HitsMatchTheQuery
<1>2. Len(items) \in Nat /\ (items # <<>> => Len(items) > 0)
  BY <1>1, PaintedHits DEF PaletteInv
<1> QED
  BY <1>2 DEF PaletteInv, SelectionIsAHit

(***************************************************************************)
(* The steps.                                                              *)
(***************************************************************************)
\* A closed palette and nothing under way.
LEMMA PaletteInvInit == PaletteInit => PaletteInv
<1> SUFFICES ASSUME PaletteInit PROVE PaletteInv
  OBVIOUS
<1>1. ~open /\ ~debounce.armed /\ fetches = {} /\ queryToken = 0 /\ input = Empty
  BY DEF PaletteInit, NoTimer
<1> QED
  BY <1>1, EmptyIsAQuery
  DEF PaletteInv, SearchesAreOld, TimerIsForTheInput, SelectionIsAHit, HitsMatchTheQuery

\* It opens empty; what is under way was not wanted any more.
LEMMA OpenKeepsInv ==
  ASSUME PaletteInv, Open
  PROVE  PaletteInv'
<1>1. /\ ~open /\ open' /\ input' = Empty /\ items' = <<>> /\ sel' = NoSelection
      /\ UNCHANGED <<queryToken, debounce, fetches>>
  BY DEF Open
<1>2. ~debounce.armed /\ \A f \in fetches : ~ Wanted(f)
  BY <1>1 DEF PaletteInv, SearchesAreOld, TimerIsForTheInput
<1>3. input' \in Queries /\ HitsMatchTheQuery'
  BY <1>1, EmptyIsAQuery, HitsOfEveryQuery DEF HitsMatchTheQuery
<1>4. SearchesAreOld'
  BY <1>1, <1>2 DEF PaletteInv, SearchesAreOld, Wanted
<1>5. TimerIsForTheInput' /\ SelectionIsAHit'
  BY <1>1, <1>2 DEF TimerIsForTheInput, SelectionIsAHit
<1> QED
  BY <1>3, <1>4, <1>5 DEF PaletteInv

\* It closes, and the new token makes every search unwanted.
LEMMA CloseKeepsInv ==
  ASSUME PaletteInv, Close
  PROVE  PaletteInv'
<1>1. /\ ~open' /\ ~debounce'.armed /\ queryToken' = queryToken + 1
      /\ UNCHANGED <<input, fetches, items, sel>>
  BY DEF Close, NoTimer
<1>2. SearchesAreOld'
  BY <1>1 DEF PaletteInv, SearchesAreOld, Wanted
<1> QED
  BY <1>1, <1>2 DEF PaletteInv, TimerIsForTheInput, SelectionIsAHit, HitsMatchTheQuery

\* A key: the local hits are painted, and what is under way is for an older token.
LEMMA TypeKeepsInv ==
  ASSUME PaletteInv, NEW q \in Queries, Type(q)
  PROVE  PaletteInv'
<1>1. /\ open /\ open' /\ input' = q /\ Paint(Entities[q], <<>>, q # Empty)
      /\ queryToken' = queryToken + 1 /\ fetches' = fetches
      /\ debounce' = IF q = Empty THEN NoTimer ELSE Timer(q, queryToken')
  BY DEF Type
<1>2. items' = Entities[q]
  BY <1>1, PaintedHits DEF Paint
<1>3. SelectionIsAHit'
  BY <1>1, OpenPalette, PaintSelects DEF SelectionIsAHit
<1>4. SearchesAreOld' /\ \A f \in fetches' : f.token # queryToken'
  BY <1>1 DEF PaletteInv, SearchesAreOld, Wanted
<1>5. debounce'.armed => debounce'.query = q /\ debounce'.token = queryToken'
  BY <1>1 DEF NoTimer, Timer
<1>6. TimerIsForTheInput'
  BY <1>1, <1>2, <1>4, <1>5 DEF TimerIsForTheInput, Wanted
<1> QED
  BY <1>1, <1>2, <1>3, <1>4, <1>6 DEF PaletteInv, HitsMatchTheQuery

\* The timer fires: its query becomes the search that is wanted.
LEMMA FetchKeepsInv ==
  ASSUME PaletteInv, Fetch
  PROVE  PaletteInv'
<1> DEFINE g == [query |-> debounce.query, token |-> debounce.token]
<1>1. /\ fetches' = fetches \cup {g} /\ debounce.armed /\ ~debounce'.armed
      /\ UNCHANGED <<open, input, queryToken, items, sel>>
  BY DEF Fetch, NoTimer
<1>2. /\ open /\ g.query = input /\ g.token = queryToken /\ items = Entities[input]
      /\ g = [query |-> g.query, token |-> g.token]
  BY <1>1 DEF PaletteInv, TimerIsForTheInput
<1> HIDE DEF g
<1>3. SearchesAreOld'
  BY <1>1, <1>2 DEF PaletteInv, SearchesAreOld, Wanted
<1> QED
  BY <1>1, <1>3 DEF PaletteInv, TimerIsForTheInput, SelectionIsAHit, HitsMatchTheQuery

\* A search ends.  If it was wanted there is no other that is.
LEMMA AnswerKeepsInv ==
  ASSUME PaletteInv, NEW f \in fetches, NEW lessons \in {LessonHits[f.query], <<>>},
         Answer(f, lessons)
  PROVE  PaletteInv'
<1>1. fetches' = fetches \ {f} /\ UNCHANGED <<open, input, queryToken, debounce>>
  BY DEF Answer
<1>2. CASE ~ Wanted(f)
  <2>1. UNCHANGED <<items, sel>>
    BY <1>2 DEF Answer, Wanted
  <2> QED
    BY <1>1, <2>1 DEF PaletteInv, SearchesAreOld, TimerIsForTheInput, SelectionIsAHit,
                      HitsMatchTheQuery, Wanted
<1>3. CASE Wanted(f)
  <2>1. Paint(Entities[f.query], lessons, FALSE)
    BY <1>3 DEF Answer, Wanted
  <2>2. open /\ f.query = input /\ f.query \in Queries
    BY <1>3 DEF PaletteInv, SearchesAreOld
  <2>3. items' = Entities[input] \o lessons
    BY <2>1, <2>2 DEF Paint
  <2>4. HitsMatchTheQuery'
    BY <1>1, <2>2, <2>3, PaintedHits DEF HitsMatchTheQuery
  <2>5. SelectionIsAHit'
    BY <2>1, <2>2, OpenPalette, PaintSelects DEF SelectionIsAHit
  <2>6. \A g \in fetches' : ~ Wanted(g)
    BY <1>1, <1>3 DEF PaletteInv, SearchesAreOld, Wanted
  <2>7. SearchesAreOld'
    BY <1>1, <2>6 DEF PaletteInv, SearchesAreOld, Wanted
  <2>8. ~debounce.armed
    BY <1>3 DEF PaletteInv, TimerIsForTheInput
  <2>9. TimerIsForTheInput'
    BY <1>1, <2>8 DEF TimerIsForTheInput
  <2> QED
    BY <1>1, <2>4, <2>5, <2>7, <2>9 DEF PaletteInv
<1> QED
  BY <1>2, <1>3

\* An arrow key or the pointer moves the highlight to a hit.
LEMMA MovingKeepsInv ==
  ASSUME PaletteInv, ArrowDown \/ ArrowUp \/ Hover
  PROVE  PaletteInv'
<1>1. open /\ UNCHANGED <<open, input, queryToken, debounce, fetches, items>>
  BY DEF ArrowDown, ArrowUp, Hover
<1>2. Len(items) \in Nat /\ (items # <<>> => Len(items) > 0)
  BY <1>1, OpenPalette
<1>3. items # <<>> => sel \in 0 .. Len(items) - 1
  BY <1>1 DEF PaletteInv, SelectionIsAHit
<1>4. items # <<>> /\ sel' \in 0 .. Len(items) - 1
  <2>1. CASE ArrowDown
    <3>1. items # <<>> /\ sel' = (sel + 1) % Len(items)
      BY <2>1 DEF ArrowDown
    <3> QED
      BY <1>2, <1>3, <3>1
  <2>2. CASE ArrowUp
    <3>1. items # <<>> /\ sel' = (sel - 1 + Len(items)) % Len(items)
      BY <2>2 DEF ArrowUp
    <3> QED
      BY <1>2, <1>3, <3>1
  <2>3. CASE Hover
    <3>1. sel' \in 0 .. Len(items) - 1
      BY <2>3 DEF Hover
    <3>2. items = <<>> => Len(items) = 0
      OBVIOUS
    <3> QED
      BY <1>2, <3>1, <3>2
  <2> QED
    BY <2>1, <2>2, <2>3
<1> QED
  BY <1>1, <1>4 DEF PaletteInv, SearchesAreOld, TimerIsForTheInput, SelectionIsAHit,
                    HitsMatchTheQuery, Wanted

\* Every step keeps the invariant.
LEMMA PaletteInvNext == PaletteInv /\ [PaletteNext]_paletteVars => PaletteInv'
<1> SUFFICES ASSUME PaletteInv, [PaletteNext]_paletteVars PROVE PaletteInv'
  OBVIOUS
<1>1. CASE Open
  BY <1>1, OpenKeepsInv
<1>2. CASE Close
  BY <1>2, CloseKeepsInv
<1>3. ASSUME NEW q \in Queries, Type(q) PROVE PaletteInv'
  BY <1>3, TypeKeepsInv
<1>4. CASE Fetch
  BY <1>4, FetchKeepsInv
<1>5. CASE LessonAnswers
  BY <1>5, AnswerKeepsInv DEF LessonAnswers
<1>6. CASE Fails
  BY <1>6, AnswerKeepsInv DEF Fails
<1>7. CASE ArrowDown \/ ArrowUp \/ Hover
  BY <1>7, MovingKeepsInv
<1>8. CASE UNCHANGED paletteVars
  BY <1>8 DEF paletteVars, PaletteInv, SearchesAreOld, TimerIsForTheInput, SelectionIsAHit,
              HitsMatchTheQuery, Wanted
<1> QED
  BY <1>1, <1>2, <1>3, <1>4, <1>5, <1>6, <1>7, <1>8 DEF PaletteNext

(***************************************************************************)
(* The theorems.                                                           *)
(***************************************************************************)
\* So the invariant always holds.
LEMMA PaletteInvHolds == PaletteSpec => []PaletteInv
<1>1. PaletteSpec => PaletteInit /\ [][PaletteNext]_paletteVars
  BY PTL DEF PaletteSpec
<1> QED
  BY PaletteInvInit, PaletteInvNext, <1>1, PTL

\* What is on the screen belongs to the text in the field, whatever answers arrive late.
THEOREM HitsAlwaysMatch == PaletteSpec => []HitsMatchTheQuery
<1>1. PaletteInv => HitsMatchTheQuery
  BY DEF PaletteInv
<1> QED
  BY PaletteInvHolds, <1>1, PTL

\* Late lessons do not move the highlight to another hit.
LEMMA AnswerMovesNothing ==
  ASSUME PaletteInv, [PaletteNext]_paletteVars,
         fetches' \subseteq fetches, fetches' # fetches, items' # items, items # <<>>
  PROVE  sel' = sel /\ items'[sel' + 1] = items[sel + 1]
<1>1. PICK f \in fetches : \E lessons \in {LessonHits[f.query], <<>>} : Answer(f, lessons)
  BY DEF PaletteNext, Open, Close, Type, Fetch, LessonAnswers, Fails, ArrowDown, ArrowUp, Hover, paletteVars
<1> PICK lessons \in {LessonHits[f.query], <<>>} : Answer(f, lessons)
  BY <1>1
<1>2. Wanted(f)
  BY DEF Answer, Wanted
<1>3. /\ open /\ f.query = input /\ items = Entities[input] /\ input \in Queries
      /\ Paint(Entities[input], lessons, FALSE)
  BY <1>2 DEF PaletteInv, SearchesAreOld, Answer, Wanted
<1> DEFINE hits == Entities[input] \o lessons
<1>4. /\ items' = hits
      /\ sel' = IF hits = <<>> THEN NoSelection
                ELSE Min2(IF sel < 0 THEN 0 ELSE sel, Len(hits) - 1)
  BY <1>3 DEF Paint
<1>5. /\ Len(hits) \in Nat /\ Len(items) \in Nat /\ Len(items) <= Len(hits) /\ Len(items) > 0
      /\ \A k \in 1 .. Len(items) : hits[k] = items[k]
  BY <1>3, PaintedHits
<1>6. sel \in 0 .. Len(items) - 1
  BY <1>3 DEF PaletteInv, SelectionIsAHit
<1>7. hits # <<>>
  BY <1>5
<1> HIDE DEF hits
<1>8. sel' = sel /\ sel + 1 \in 1 .. Len(items)
  BY <1>4, <1>5, <1>6, <1>7 DEF Min2
<1> QED
  BY <1>4, <1>5, <1>8

\* Late lessons do not move the highlight to another hit under the finger that is
\* about to press Enter (paint).
THEOREM LateHitsNeverMoveIt == PaletteSpec => LateHitsKeepTheSelection
<1> DEFINE A == fetches' \subseteq fetches /\ fetches' # fetches /\ items' # items
                  /\ items # <<>> => sel' = sel /\ items'[sel' + 1] = items[sel + 1]
<1>1. PaletteInv /\ [PaletteNext]_paletteVars => [A]_paletteVars
  BY AnswerMovesNothing
<1>2. PaletteSpec => [][PaletteNext]_paletteVars
  BY PTL DEF PaletteSpec
<1>3. PaletteSpec => [][A]_paletteVars
  BY PaletteInvHolds, <1>1, <1>2, PTL
<1> QED
  BY <1>3 DEF LateHitsKeepTheSelection

\* A closed palette is not repainted, by whatever is still under way (close).
THEOREM ClosedStaysQuiet == PaletteSpec => ClosedIsQuiet
<1> DEFINE A == ~open /\ ~open' => UNCHANGED <<items, pending, sel>>
<1>1. PaletteInv /\ [PaletteNext]_paletteVars => [A]_paletteVars
  <2> SUFFICES ASSUME PaletteInv, [PaletteNext]_paletteVars, ~open, ~open'
               PROVE  UNCHANGED <<items, pending, sel>>
    OBVIOUS
  <2>1. \A f \in fetches : f.token # queryToken
    BY DEF PaletteInv, SearchesAreOld, Wanted
  <2> QED
    BY <2>1 DEF PaletteNext, Open, Close, Type, Fetch, LessonAnswers, Fails, Answer, ArrowDown, ArrowUp,
                Hover, paletteVars
<1>2. PaletteSpec => [][PaletteNext]_paletteVars
  BY PTL DEF PaletteSpec
<1>3. PaletteSpec => [][A]_paletteVars
  BY PaletteInvHolds, <1>1, <1>2, PTL
<1> QED
  BY <1>3 DEF ClosedIsQuiet

-----------------------------------------------------------------------------
(***************************************************************************)
(* The playground: its requests, and the last one of each kind.            *)
(***************************************************************************)
\* The last request of a kind, if there is one, asks about v.
LastIs(s, kind, v) ==
  \A i \in DOMAIN s :
    s[i].what = kind /\ (\A j \in DOMAIN s : i < j => s[j].what # kind) => s[i].of = v

NoneOf(s, kind) == \A i \in DOMAIN s : s[i].what # kind

AtMostOne(s, kind) ==
  \A i, j \in DOMAIN s : s[i].what = kind /\ s[j].what = kind => i = j

IsSequence(s) == Len(s) \in Nat /\ s = [i \in 1 .. Len(s) |-> s[i]]

\* Append, element by element.
LEMMA Pushed ==
  ASSUME NEW s, IsSequence(s), NEW r
  PROVE  /\ IsSequence(Append(s, r))
         /\ DOMAIN s = 1 .. Len(s) /\ Len(s) \in Nat
         /\ DOMAIN Append(s, r) = 1 .. Len(s) + 1
         /\ Append(s, r)[Len(s) + 1] = r
         /\ \A i \in DOMAIN s : Append(s, r)[i] = s[i]
<1> DEFINE S == {s[i] : i \in DOMAIN s} \cup {r}
<1>1. DOMAIN s = 1 .. Len(s) /\ Len(s) \in Nat
  BY DEF IsSequence
<1>2. s \in Seq(S) /\ r \in S
  BY <1>1 DEF IsSequence
<1> HIDE DEF S
<1>3. /\ Append(s, r) \in Seq(S) /\ Len(Append(s, r)) = Len(s) + 1
      /\ \A i \in 1 .. Len(s) : Append(s, r)[i] = s[i]
      /\ Append(s, r)[Len(s) + 1] = r
  BY <1>2, AppendProperties
<1>4. /\ DOMAIN Append(s, r) = 1 .. Len(s) + 1
      /\ Append(s, r) = [i \in 1 .. Len(s) + 1 |-> Append(s, r)[i]]
  BY <1>3, LenProperties
<1>5. IsSequence(Append(s, r))
  BY <1>1, <1>3, <1>4 DEF IsSequence
<1> QED
  BY <1>1, <1>3, <1>4, <1>5

\* A request that is sent is the last of its kind, the only one if there was none, and
\* changes nothing of the others.
LEMMA PushedIsLast ==
  ASSUME NEW s, IsSequence(s), NEW kind, NEW v
  PROVE  LET t == Append(s, Request(kind, v)) IN
         /\ IsSequence(t) /\ LastIs(t, kind, v) /\ ~ NoneOf(t, kind)
         /\ NoneOf(s, kind) => AtMostOne(t, kind)
         /\ \A other : other # kind =>
              /\ NoneOf(t, other) <=> NoneOf(s, other)
              /\ AtMostOne(s, other) => AtMostOne(t, other)
              /\ \A w : LastIs(s, other, w) => LastIs(t, other, w)
<1> DEFINE t == Append(s, Request(kind, v))
           n == Len(s) + 1
<1>1. Request(kind, v).what = kind /\ Request(kind, v).of = v
  BY DEF Request
<1>2. /\ IsSequence(t) /\ DOMAIN s = 1 .. Len(s) /\ Len(s) \in Nat /\ DOMAIN t = 1 .. n
      /\ t[n].what = kind /\ t[n].of = v
      /\ \A i \in DOMAIN s : t[i] = s[i]
  BY <1>1, Pushed
<1> HIDE DEF t
<1>3. LastIs(t, kind, v) /\ ~ NoneOf(t, kind)
  BY <1>2 DEF LastIs, NoneOf
<1>4. NoneOf(s, kind) => AtMostOne(t, kind)
  <2>1. ASSUME NoneOf(s, kind), NEW i \in DOMAIN t, t[i].what = kind
        PROVE  i = n
    BY <1>2, <2>1 DEF NoneOf
  <2> QED
    BY <2>1 DEF AtMostOne
<1>5. ASSUME NEW other, other # kind
      PROVE  /\ NoneOf(t, other) <=> NoneOf(s, other)
             /\ AtMostOne(s, other) => AtMostOne(t, other)
             /\ \A w : LastIs(s, other, w) => LastIs(t, other, w)
  <2>1. \A i \in DOMAIN t : t[i].what = other => i \in DOMAIN s /\ s[i].what = other
    BY <1>2, <1>5
  <2>2. \A i \in DOMAIN s : i \in DOMAIN t
    BY <1>2
  <2>3. NoneOf(t, other) <=> NoneOf(s, other)
    BY <1>2, <2>1, <2>2 DEF NoneOf
  <2>4. AtMostOne(s, other) => AtMostOne(t, other)
    BY <2>1 DEF AtMostOne
  <2>5. ASSUME NEW w, LastIs(s, other, w), NEW i \in DOMAIN t, t[i].what = other,
               \A j \in DOMAIN t : i < j => t[j].what # other
        PROVE  t[i].of = w
    <3>1. \A j \in DOMAIN s : i < j => s[j].what # other
      BY <1>2, <2>2, <2>5
    <3> QED
      BY <1>2, <2>1, <2>5, <3>1 DEF LastIs
  <2> QED
    BY <2>3, <2>4, <2>5 DEF LastIs
<1> QED
  BY <1>2, <1>3, <1>4, <1>5 DEF t

\* A request is answered, whichever it is.  What was last of its kind stays last, unless
\* it was the answered one and an older one overtakes it.
LEMMA OneIsAnswered ==
  ASSUME IsSequence(underWay), NEW i \in DOMAIN underWay
  PROVE  LET kind == underWay[i].what IN
         /\ IsSequence(Others(i))
         /\ \A other : other # kind =>
              /\ other \notin Overtakes(i)
              /\ NoneOf(Others(i), other) <=> NoneOf(underWay, other)
         /\ \A other : AtMostOne(underWay, other) => AtMostOne(Others(i), other)
         /\ AtMostOne(underWay, kind) => NoneOf(Others(i), kind)
         /\ \A other : \A v : LastIs(underWay, other, v) /\ other \notin Overtakes(i) =>
              LastIs(Others(i), other, v)
         /\ \A v : LastIs(underWay, kind, v) /\ NoneOf(Others(i), kind) => underWay[i].of = v
<1> DEFINE kind == underWay[i].what
           rest == Others(i)
           m == Len(underWay) - 1
           Up(j) == IF j < i THEN j ELSE j + 1
           Down(j) == IF j < i THEN j ELSE j - 1
<1>1. /\ Len(underWay) \in Nat \ {0} /\ DOMAIN underWay = 1 .. Len(underWay)
      /\ i \in 1 .. Len(underWay) /\ m \in Nat
      /\ DOMAIN rest = 1 .. m /\ rest = [j \in 1 .. m |-> underWay[Up(j)]]
  BY DEF IsSequence, Others
<1>2. \A j \in DOMAIN rest : rest[j] = underWay[Up(j)] /\ Up(j) \in DOMAIN underWay /\ Up(j) # i
  BY <1>1
<1>3. \A j \in DOMAIN underWay : j # i => Down(j) \in DOMAIN rest /\ rest[Down(j)] = underWay[j]
  BY <1>1
<1>4. \A j, k \in DOMAIN rest : (Up(j) = Up(k) => j = k) /\ (j < k <=> Up(j) < Up(k))
  BY <1>1
<1>5. \A j \in DOMAIN rest : \A k \in DOMAIN underWay : k # i /\ Up(j) < k => j < Down(k)
  BY <1>1
<1>6. IsSequence(rest)
  <2> DEFINE S == {underWay[j] : j \in DOMAIN underWay}
  <2>1. rest \in [1 .. m -> S]
    BY <1>1, <1>2
  <2> HIDE DEF S, rest
  <2>2. rest \in Seq(S) /\ Len(rest) = m
    BY <1>1, <2>1
  <2> QED
    BY <1>1, <2>2 DEF IsSequence
<1> HIDE DEF rest, kind, m, Up, Down
<1>7. ASSUME NEW other, other # kind
      PROVE  other \notin Overtakes(i) /\ (NoneOf(rest, other) <=> NoneOf(underWay, other))
  <2>1. other \notin Overtakes(i)
    BY <1>7 DEF Overtakes, kind
  <2>2. NoneOf(rest, other) => NoneOf(underWay, other)
    BY <1>3, <1>7 DEF NoneOf, kind
  <2>3. NoneOf(underWay, other) => NoneOf(rest, other)
    BY <1>2 DEF NoneOf
  <2> QED
    BY <2>1, <2>2, <2>3
<1>8. \A other : AtMostOne(underWay, other) => AtMostOne(rest, other)
  BY <1>2, <1>4 DEF AtMostOne
<1>9. AtMostOne(underWay, kind) => NoneOf(rest, kind)
  BY <1>2 DEF AtMostOne, NoneOf, kind
<1>10. ASSUME NEW other, NEW v, LastIs(underWay, other, v), other \notin Overtakes(i)
       PROVE  LastIs(rest, other, v)
  <2> SUFFICES ASSUME NEW j \in DOMAIN rest, rest[j].what = other,
                      \A k \in DOMAIN rest : j < k => rest[k].what # other
               PROVE  rest[j].of = v
    BY DEF LastIs
  <2>1. ASSUME NEW k \in DOMAIN underWay, k # i, Up(j) < k
        PROVE  underWay[k].what # other
    BY <1>3, <1>5, <2>1
  <2>2. ASSUME Up(j) < i, underWay[i].what = other
        PROVE  FALSE
    <3>1. \A k \in OfKind(other) : k <= i
      <4>1. ASSUME NEW k \in DOMAIN underWay, underWay[k].what = other, ~ (k <= i)
            PROVE  FALSE
        <5>1. Up(j) < k /\ k # i
          BY <1>1, <1>2, <2>2, <4>1
        <5> QED
          BY <2>1, <4>1, <5>1
      <4> QED
        BY <4>1 DEF OfKind
    <3>2. underWay[Up(j)].what = other /\ Up(j) \in DOMAIN underWay
      BY <1>2
    <3> QED
      BY <1>10, <2>2, <3>1, <3>2 DEF Overtakes
  <2>3. \A k \in DOMAIN underWay : Up(j) < k => underWay[k].what # other
    BY <2>1, <2>2
  <2> QED
    BY <1>2, <1>10, <2>3 DEF LastIs
<1>11. ASSUME NEW v, LastIs(underWay, kind, v), NoneOf(rest, kind)
       PROVE  underWay[i].of = v
  <2>1. \A k \in DOMAIN underWay : k # i => underWay[k].what # kind
    BY <1>3, <1>11 DEF NoneOf
  <2>2. \A k \in DOMAIN underWay : i < k => underWay[k].what # kind
    BY <1>1, <2>1
  <2> QED
    BY <1>11, <2>2 DEF LastIs, kind
<1> QED
  BY <1>6, <1>7, <1>8, <1>9, <1>10, <1>11 DEF rest, kind

\* Two requests sent at once.
LEMMA PushedTwice ==
  ASSUME NEW s, IsSequence(s), NEW a, NEW b
  PROVE  s \o <<a, b>> = Append(Append(s, a), b)
<1> DEFINE S == {s[i] : i \in DOMAIN s} \cup {a, b}
<1>1. s \in Seq(S) /\ a \in S /\ b \in S
  BY DEF IsSequence
<1> HIDE DEF S
<1>2. /\ Append(s, a) = s \o <<a>> /\ Append(s, a) \in Seq(S)
      /\ Append(Append(s, a), b) = Append(s, a) \o <<b>>
  BY <1>1, AppendIsConcat, AppendProperties
<1>3. <<a>> \in Seq(S) /\ <<b>> \in Seq(S) /\ <<a, b>> \in Seq(S)
  BY <1>1
<1>4. <<a>> \o <<b>> = <<a, b>>
  <2> DEFINE both == <<a>> \o <<b>>
             pair == <<a, b>>
  <2>1. Len(<<a>>) = 1 /\ Len(<<b>>) = 1 /\ Len(pair) = 2
    OBVIOUS
  <2>2. both \in Seq(S) /\ Len(both) = Len(pair) /\ both[1] = a /\ both[2] = b
    BY <1>3, <2>1, ConcatProperties
  <2>3. pair \in Seq(S) /\ pair[1] = a /\ pair[2] = b
    BY <1>3
  <2> HIDE DEF both, pair
  <2>4. \A k \in 1 .. Len(both) : both[k] = pair[k]
    BY <2>1, <2>2, <2>3
  <2>5. both = pair
    BY <2>2, <2>3, <2>4, SeqEqual
  <2> QED
    BY <2>5 DEF both, pair
<1>5. (s \o <<a>>) \o <<b>> = s \o (<<a>> \o <<b>>)
  BY <1>1, <1>3, ConcatAssociative
<1> QED
  BY <1>2, <1>4, <1>5

(***************************************************************************)
(* The inductive invariant: of every panel, what it will show when the     *)
(* last request for it is answered, unless an older one of its kind is     *)
(* then still to be.                                                       *)
(***************************************************************************)
DiagnosticsFollow ==
  ~timer /\ "assemble" \notin overtaken =>
    /\ LastIs(underWay, "assemble", source)
    /\ NoneOf(underWay, "assemble") =>
         \/ marker = Unavailable
         \/ marker = Verdict(source) /\ (source \notin Bad => assembled = source)

ExplainerFollows ==
  "explain" \notin overtaken /\ selected # Nothing =>
    /\ LastIs(underWay, "explain", selected)
    /\ NoneOf(underWay, "explain") => explained \in {selected, Unavailable}

DisassemblyFollows ==
  "disassemble" \notin overtaken =>
    /\ LastIs(underWay, "disassemble", assembled)
    /\ NoneOf(underWay, "disassemble") /\ assembled # Nothing =>
         Len(disasm) > 0 /\ disasm[Len(disasm)] \in {assembled, Unavailable}

\* One that was asked for alone comes into an empty panel.
ListingIsAlone ==
  /\ IsSequence(disasm)
  /\ alone =>
       /\ AtMostOne(underWay, "disassemble")
       /\ ~ NoneOf(underWay, "disassemble") => disasm = <<>>
       /\ Len(disasm) <= 1

TraceFollows ==
  "run" \notin overtaken =>
    /\ LastIs(underWay, "run", asked)
    /\ NoneOf(underWay, "run") /\ ~runFailed /\ asked \notin Bad \cup Rowless =>
         traced = asked

PlayInv ==
  /\ IsSequence(underWay)
  /\ DiagnosticsFollow /\ ExplainerFollows /\ DisassemblyFollows /\ ListingIsAlone
  /\ TraceFollows

\* Sequences of no element and of one.
LEMMA ShortSequences ==
  /\ IsSequence(<<>>) /\ Len(<<>>) = 0
  /\ \A e : IsSequence(<<e>>) /\ Len(<<e>>) = 1 /\ <<e>>[1] = e
  BY DEF IsSequence

(***************************************************************************)
(* The user and the timer.                                                 *)
(***************************************************************************)
\* Nothing is under way, and the timer is about to assemble the sample.
LEMMA PlayInvInit == PlaygroundInit => PlayInv
<1> SUFFICES ASSUME PlaygroundInit PROVE PlayInv
  OBVIOUS
<1>1. underWay = <<>> /\ disasm = <<>> /\ IsSequence(<<>>) /\ Len(disasm) = 0
  BY ShortSequences DEF PlaygroundInit
<1>2. /\ \A kind, v : LastIs(underWay, kind, v)
      /\ \A kind : NoneOf(underWay, kind) /\ AtMostOne(underWay, kind)
  BY <1>1 DEF LastIs, NoneOf, AtMostOne
<1>3. DiagnosticsFollow /\ ExplainerFollows /\ TraceFollows
  BY <1>2 DEF PlaygroundInit, DiagnosticsFollow, ExplainerFollows, TraceFollows
<1>4. DisassemblyFollows /\ ListingIsAlone
  BY <1>1, <1>2 DEF PlaygroundInit, DisassemblyFollows, ListingIsAlone
<1> QED
  BY <1>1, <1>3, <1>4 DEF PlayInv

\* The text is edited: the timer will assemble it.
LEMMA EditKeepsInv ==
  ASSUME PlayInv, NEW t, Edit(t)
  PROVE  PlayInv'
<1>1. timer' /\ UNCHANGED <<underWay, panels, history>>
  BY DEF Edit
<1> QED
  BY <1>1
  DEF panels, history, PlayInv, DiagnosticsFollow, ExplainerFollows, DisassemblyFollows,
      ListingIsAlone, TraceFollows

\* A request of a kind is sent: the panels of the other kinds follow as they did.
LEMMA OthersFollow ==
  ASSUME PlayInv, NEW kind, NEW v,
         underWay' = Append(underWay, Request(kind, v)), overtaken' = overtaken \ {kind}
  PROVE  /\ IsSequence(underWay') /\ LastIs(underWay', kind, v) /\ ~ NoneOf(underWay', kind)
         /\ kind # "assemble" /\ UNCHANGED <<timer, source, marker, assembled>> =>
              DiagnosticsFollow'
         /\ kind # "explain" /\ UNCHANGED <<selected, explained>> => ExplainerFollows'
         /\ kind # "disassemble" /\ UNCHANGED <<assembled, disasm, alone>> =>
              DisassemblyFollows' /\ ListingIsAlone'
         /\ kind # "run" /\ UNCHANGED <<asked, runFailed, traced>> => TraceFollows'
<1>1. /\ IsSequence(underWay') /\ LastIs(underWay', kind, v) /\ ~ NoneOf(underWay', kind)
      /\ \A other : other # kind =>
           /\ NoneOf(underWay', other) <=> NoneOf(underWay, other)
           /\ AtMostOne(underWay, other) => AtMostOne(underWay', other)
           /\ \A w : LastIs(underWay, other, w) => LastIs(underWay', other, w)
  BY PushedIsLast DEF PlayInv
<1>2. \A other : other # kind => (other \in overtaken' <=> other \in overtaken)
  OBVIOUS
<1>3. kind # "assemble" /\ UNCHANGED <<timer, source, marker, assembled>> => DiagnosticsFollow'
  BY <1>1, <1>2 DEF PlayInv, DiagnosticsFollow, Verdict
<1>4. kind # "explain" /\ UNCHANGED <<selected, explained>> => ExplainerFollows'
  BY <1>1, <1>2 DEF PlayInv, ExplainerFollows
<1>5. kind # "disassemble" /\ UNCHANGED <<assembled, disasm, alone>> =>
        DisassemblyFollows' /\ ListingIsAlone'
  BY <1>1, <1>2 DEF PlayInv, DisassemblyFollows, ListingIsAlone
<1>6. kind # "run" /\ UNCHANGED <<asked, runFailed, traced>> => TraceFollows'
  BY <1>1, <1>2 DEF PlayInv, TraceFollows
<1> QED
  BY <1>1, <1>3, <1>4, <1>5, <1>6

\* The timer fires: the text of the editor is what was asked last.
LEMMA AssembleKeepsInv ==
  ASSUME PlayInv, Assemble
  PROVE  PlayInv'
<1>1. /\ underWay' = Append(underWay, Request("assemble", source))
      /\ overtaken' = overtaken \ {"assemble"}
      /\ UNCHANGED <<source, panels, asked, runFailed, alone>>
  BY DEF Assemble
<1>2. UNCHANGED <<assembled, selected, explained, disasm, traced>>
  BY <1>1 DEF panels
<1>3. /\ IsSequence(underWay') /\ LastIs(underWay', "assemble", source)
      /\ ~ NoneOf(underWay', "assemble")
      /\ ExplainerFollows' /\ DisassemblyFollows' /\ ListingIsAlone' /\ TraceFollows'
  BY <1>1, <1>2, OthersFollow
<1>4. DiagnosticsFollow'
  BY <1>1, <1>3 DEF DiagnosticsFollow
<1> QED
  BY <1>3, <1>4 DEF PlayInv

\* A row is selected: it is what the explainer is asked for last.
LEMMA SelectRowKeepsInv ==
  ASSUME PlayInv, NEW k, SelectRow(k)
  PROVE  PlayInv'
<1>1. /\ underWay' = Append(underWay, Request("explain", selected'))
      /\ overtaken' = overtaken \ {"explain"}
      /\ UNCHANGED <<source, timer, marker, assembled, disasm, traced, asked, runFailed, alone>>
  BY DEF SelectRow
<1>2. /\ IsSequence(underWay') /\ LastIs(underWay', "explain", selected')
      /\ ~ NoneOf(underWay', "explain")
      /\ DiagnosticsFollow' /\ DisassemblyFollows' /\ ListingIsAlone' /\ TraceFollows'
  BY <1>1, OthersFollow
<1>3. ExplainerFollows'
  BY <1>2 DEF ExplainerFollows
<1> QED
  BY <1>2, <1>3 DEF PlayInv

\* A run is asked for.
LEMMA ClickRunKeepsInv ==
  ASSUME PlayInv, ClickRun
  PROVE  PlayInv'
<1>1. /\ underWay' = Append(underWay, Request("run", source)) /\ asked' = source
      /\ overtaken' = overtaken \ {"run"}
      /\ UNCHANGED <<source, timer, panels, runFailed, alone>>
  BY DEF ClickRun
<1>2. UNCHANGED <<marker, assembled, selected, explained, disasm>>
  BY <1>1 DEF panels
<1>3. /\ IsSequence(underWay') /\ LastIs(underWay', "run", source)
      /\ ~ NoneOf(underWay', "run")
      /\ DiagnosticsFollow' /\ ExplainerFollows' /\ DisassemblyFollows' /\ ListingIsAlone'
  BY <1>1, <1>2, OthersFollow
<1>4. TraceFollows'
  BY <1>1, <1>3 DEF TraceFollows
<1> QED
  BY <1>3, <1>4 DEF PlayInv

(***************************************************************************)
(* The responses, in any order.                                            *)
(***************************************************************************)
\* A request is answered and nothing is sent: the panels of the other kinds follow as
\* they did, and of its own kind, if it was not overtaken, the last is still to come or
\* was this.
LEMMA OthersStillFollow ==
  ASSUME PlayInv, NEW i \in DOMAIN underWay, underWay' = Others(i),
         overtaken' = overtaken \cup Overtakes(i)
  PROVE  LET kind == underWay[i].what IN
         /\ IsSequence(underWay')
         /\ kind \notin overtaken' => kind \notin overtaken
         /\ AtMostOne(underWay, kind) => NoneOf(underWay', kind)
         /\ AtMostOne(underWay, kind) => AtMostOne(underWay', kind)
         /\ kind \notin overtaken' =>
              \A v : LastIs(underWay, kind, v) =>
                /\ LastIs(underWay', kind, v)
                /\ NoneOf(underWay', kind) => underWay[i].of = v
         /\ kind # "assemble" /\ UNCHANGED <<timer, source, marker, assembled>> =>
              DiagnosticsFollow'
         /\ kind # "explain" /\ UNCHANGED <<selected, explained>> => ExplainerFollows'
         /\ kind # "disassemble" /\ UNCHANGED <<assembled, disasm, alone>> =>
              DisassemblyFollows' /\ ListingIsAlone'
         /\ kind # "run" /\ UNCHANGED <<asked, runFailed, traced>> => TraceFollows'
<1> DEFINE kind == underWay[i].what
<1>1. /\ IsSequence(underWay')
      /\ \A other : other # kind =>
           /\ other \notin Overtakes(i)
           /\ NoneOf(underWay', other) <=> NoneOf(underWay, other)
      /\ \A other : AtMostOne(underWay, other) => AtMostOne(underWay', other)
      /\ AtMostOne(underWay, kind) => NoneOf(underWay', kind)
      /\ \A other : \A v : LastIs(underWay, other, v) /\ other \notin Overtakes(i) =>
           LastIs(underWay', other, v)
      /\ \A v : LastIs(underWay, kind, v) /\ NoneOf(underWay', kind) => underWay[i].of = v
  BY OneIsAnswered DEF PlayInv
<1> HIDE DEF kind
<1>2. \A other : other # kind => (other \in overtaken' <=> other \in overtaken)
  BY <1>1
<1>3. kind # "assemble" /\ UNCHANGED <<timer, source, marker, assembled>> => DiagnosticsFollow'
  BY <1>1, <1>2 DEF PlayInv, DiagnosticsFollow, Verdict
<1>4. kind # "explain" /\ UNCHANGED <<selected, explained>> => ExplainerFollows'
  BY <1>1, <1>2 DEF PlayInv, ExplainerFollows
<1>5. kind # "disassemble" /\ UNCHANGED <<assembled, disasm, alone>> =>
        DisassemblyFollows' /\ ListingIsAlone'
  BY <1>1, <1>2 DEF PlayInv, DisassemblyFollows, ListingIsAlone
<1>6. kind # "run" /\ UNCHANGED <<asked, runFailed, traced>> => TraceFollows'
  BY <1>1, <1>2 DEF PlayInv, TraceFollows
<1>7. kind \notin overtaken' => kind \notin overtaken /\ kind \notin Overtakes(i)
  OBVIOUS
<1> QED
  BY <1>1, <1>3, <1>4, <1>5, <1>6, <1>7 DEF kind

\* The text that is listed is new and its disassembly is asked for last, behind what was
\* sent before, if anything.
LEMMA RedrawsKeepInv ==
  ASSUME PlayInv, NEW i, NEW t, t \notin Bad, Redraws(i, t), NEW before,
         \/ before = Others(i)
         \/ \E v : before = Append(Others(i), Request("explain", v)),
         underWay' = Append(before, Request("disassemble", t)),
         \A kind \in {"assemble", "run"} :
           kind \in overtaken' <=> kind \in overtaken \cup Overtakes(i)
  PROVE  /\ IsSequence(underWay')
         /\ DiagnosticsFollow' /\ DisassemblyFollows' /\ ListingIsAlone' /\ TraceFollows'
         /\ \A v : LastIs(before, "explain", v) => LastIs(underWay', "explain", v)
         /\ NoneOf(underWay', "explain") => NoneOf(before, "explain")
<1>1. /\ i \in DOMAIN underWay /\ underWay[i].what = "assemble" /\ underWay[i].of = t
      /\ marker' = Nothing /\ assembled' = t /\ disasm' = <<>>
      /\ alone' = (OfKind("disassemble") = {})
      /\ UNCHANGED <<source, timer, traced, asked, runFailed>>
  BY DEF Redraws, Arrives
<1>2. /\ IsSequence(Others(i))
      /\ \A kind : kind # "assemble" =>
           /\ kind \notin Overtakes(i)
           /\ NoneOf(Others(i), kind) <=> NoneOf(underWay, kind)
      /\ \A kind : \A v : LastIs(underWay, kind, v) /\ kind \notin Overtakes(i) =>
           LastIs(Others(i), kind, v)
      /\ \A v : LastIs(underWay, "assemble", v) /\ NoneOf(Others(i), "assemble") => t = v
  BY <1>1, OneIsAnswered DEF PlayInv
<1>3. /\ IsSequence(before)
      /\ \A kind : kind # "explain" =>
           /\ NoneOf(before, kind) <=> NoneOf(Others(i), kind)
           /\ \A v : LastIs(Others(i), kind, v) => LastIs(before, kind, v)
  <2>1. CASE before = Others(i)
    BY <1>2, <2>1
  <2>2. ASSUME NEW v, before = Append(Others(i), Request("explain", v))
        PROVE  <1>3!1 /\ <1>3!2
    BY <1>2, <2>2, PushedIsLast
  <2> QED
    BY <2>1, <2>2
<1>4. /\ IsSequence(underWay') /\ LastIs(underWay', "disassemble", t)
      /\ ~ NoneOf(underWay', "disassemble")
      /\ NoneOf(before, "disassemble") => AtMostOne(underWay', "disassemble")
      /\ \A kind : kind # "disassemble" =>
           /\ NoneOf(underWay', kind) <=> NoneOf(before, kind)
           /\ \A v : LastIs(before, kind, v) => LastIs(underWay', kind, v)
  BY <1>3, PushedIsLast
<1>5. DiagnosticsFollow'
  <2> SUFFICES ASSUME ~timer, "assemble" \notin overtaken'
               PROVE  /\ LastIs(underWay', "assemble", source)
                      /\ NoneOf(underWay', "assemble") =>
                           source \notin Bad /\ marker' = Nothing /\ assembled' = source
    BY <1>1 DEF DiagnosticsFollow, Verdict
  <2>1. "assemble" \notin overtaken /\ "assemble" \notin Overtakes(i)
    OBVIOUS
  <2>2. LastIs(underWay, "assemble", source)
    BY <2>1 DEF PlayInv, DiagnosticsFollow
  <2>3. LastIs(underWay', "assemble", source)
    BY <1>2, <1>3, <1>4, <2>1, <2>2
  <2>4. NoneOf(underWay', "assemble") => t = source
    BY <1>2, <1>3, <1>4, <2>2
  <2> QED
    BY <1>1, <2>3, <2>4
<1>6. DisassemblyFollows'
  BY <1>1, <1>4 DEF DisassemblyFollows
<1>7. ListingIsAlone'
  <2>1. alone' => NoneOf(underWay, "disassemble")
    BY <1>1 DEF OfKind, NoneOf
  <2>2. alone' => AtMostOne(underWay', "disassemble")
    BY <1>2, <1>3, <1>4, <2>1
  <2>3. IsSequence(disasm') /\ Len(disasm') = 0
    BY <1>1, ShortSequences
  <2> QED
    BY <1>1, <2>2, <2>3 DEF ListingIsAlone
<1>8. TraceFollows'
  <2>1. "run" \notin overtaken' => "run" \notin overtaken
    OBVIOUS
  <2> QED
    BY <1>1, <1>2, <1>3, <1>4, <2>1 DEF PlayInv, TraceFollows
<1> QED
  BY <1>4, <1>5, <1>6, <1>7, <1>8

\* A listing with rows: its first is selected and asked for.
LEMMA AssemblesKeepsInv ==
  ASSUME PlayInv, NEW i, Assembles(i)
  PROVE  PlayInv'
<1>1. PICK t \in Texts \ (Bad \cup Rowless) :
        /\ Redraws(i, t)
        /\ selected' = <<t, 1>>
        /\ underWay' = Others(i) \o <<Request("explain", <<t, 1>>), Request("disassemble", t)>>
        /\ overtaken' = (overtaken \cup Overtakes(i)) \ {"explain", "disassemble"}
  BY DEF Assembles
<1> DEFINE before == Append(Others(i), Request("explain", <<t, 1>>))
<1>2. IsSequence(Others(i))
  BY <1>1, OneIsAnswered DEF PlayInv, Redraws, Arrives
<1>3. underWay' = Append(before, Request("disassemble", t))
  <2> DEFINE a == Request("explain", <<t, 1>>)
             b == Request("disassemble", t)
  <2> HIDE DEF a, b
  <2>1. Others(i) \o <<a, b>> = Append(Append(Others(i), a), b)
    BY <1>2, PushedTwice
  <2> QED
    BY <1>1, <2>1 DEF a, b
<1>4. LastIs(before, "explain", <<t, 1>>) /\ ~ NoneOf(before, "explain")
  BY <1>2, PushedIsLast
<1>5. \A kind \in {"assemble", "run"} :
        kind \in overtaken' <=> kind \in overtaken \cup Overtakes(i)
  BY <1>1
<1>6. \E v : before = Append(Others(i), Request("explain", v))
  OBVIOUS
<1> HIDE DEF before
<1>7. /\ IsSequence(underWay')
      /\ DiagnosticsFollow' /\ DisassemblyFollows' /\ ListingIsAlone' /\ TraceFollows'
      /\ LastIs(underWay', "explain", <<t, 1>>) /\ ~ NoneOf(underWay', "explain")
  BY <1>1, <1>3, <1>4, <1>5, <1>6, RedrawsKeepInv
<1>8. ExplainerFollows'
  BY <1>1, <1>7 DEF ExplainerFollows
<1> QED
  BY <1>7, <1>8 DEF PlayInv

\* A listing of no row: nothing is selected.
LEMMA AssemblesToNothingKeepsInv ==
  ASSUME PlayInv, NEW i, AssemblesToNothing(i)
  PROVE  PlayInv'
<1>1. PICK t \in Rowless :
        /\ Redraws(i, t)
        /\ selected' = Nothing
        /\ underWay' = Append(Others(i), Request("disassemble", t))
        /\ overtaken' = (overtaken \cup Overtakes(i)) \ {"disassemble"}
  BY DEF AssemblesToNothing
<1>2. t \notin Bad
  BY TextsAssemble
<1>3. \A kind \in {"assemble", "run"} :
        kind \in overtaken' <=> kind \in overtaken \cup Overtakes(i)
  BY <1>1
<1>4. /\ IsSequence(underWay')
      /\ DiagnosticsFollow' /\ DisassemblyFollows' /\ ListingIsAlone' /\ TraceFollows'
  BY <1>1, <1>2, <1>3, RedrawsKeepInv
<1>5. ExplainerFollows'
  BY <1>1 DEF ExplainerFollows
<1> QED
  BY <1>4, <1>5 DEF PlayInv

\* The text does not assemble: it is underlined if nothing newer was asked.
LEMMA RejectsKeepsInv ==
  ASSUME PlayInv, NEW i, Rejects(i)
  PROVE  PlayInv'
<1>1. /\ i \in DOMAIN underWay /\ underWay[i].what = "assemble" /\ underWay[i].of \in Bad
      /\ marker' = underWay[i].of /\ underWay' = Others(i)
      /\ overtaken' = overtaken \cup Overtakes(i)
      /\ UNCHANGED <<source, timer, assembled, selected, explained, disasm, traced, asked,
                     runFailed, alone>>
  BY DEF Rejects, Arrives
<1>2. /\ IsSequence(underWay')
      /\ ExplainerFollows' /\ DisassemblyFollows' /\ ListingIsAlone' /\ TraceFollows'
  BY <1>1, OthersStillFollow
<1>3. "assemble" \notin overtaken' =>
        /\ "assemble" \notin overtaken
        /\ \A v : LastIs(underWay, "assemble", v) =>
             /\ LastIs(underWay', "assemble", v)
             /\ NoneOf(underWay', "assemble") => underWay[i].of = v
  BY <1>1, OthersStillFollow
<1>4. DiagnosticsFollow'
  BY <1>1, <1>3 DEF PlayInv, DiagnosticsFollow, Verdict
<1> QED
  BY <1>2, <1>4 DEF PlayInv

\* An explanation comes: it is the selected row's if none is to follow.
LEMMA ExplainsKeepsInv ==
  ASSUME PlayInv, NEW i, Explains(i)
  PROVE  PlayInv'
<1>1. /\ i \in DOMAIN underWay /\ underWay[i].what = "explain"
      /\ explained' = underWay[i].of /\ underWay' = Others(i)
      /\ overtaken' = overtaken \cup Overtakes(i)
      /\ UNCHANGED <<source, timer, marker, assembled, selected, disasm, traced, asked,
                     runFailed, alone>>
  BY DEF Explains, Arrives
<1>2. /\ IsSequence(underWay')
      /\ DiagnosticsFollow' /\ DisassemblyFollows' /\ ListingIsAlone' /\ TraceFollows'
  BY <1>1, OthersStillFollow
<1>3. "explain" \notin overtaken' =>
        /\ "explain" \notin overtaken
        /\ \A v : LastIs(underWay, "explain", v) =>
             /\ LastIs(underWay', "explain", v)
             /\ NoneOf(underWay', "explain") => underWay[i].of = v
  BY <1>1, OthersStillFollow
<1>4. ExplainerFollows'
  BY <1>1, <1>3 DEF PlayInv, ExplainerFollows
<1> QED
  BY <1>2, <1>4 DEF PlayInv

\* A listing comes and is appended; one that was asked for alone is then the only one.
LEMMA DisassemblesKeepsInv ==
  ASSUME PlayInv, NEW i, Disassembles(i)
  PROVE  PlayInv'
<1>1. /\ i \in DOMAIN underWay /\ underWay[i].what = "disassemble"
      /\ disasm' = Append(disasm, underWay[i].of) /\ underWay' = Others(i)
      /\ overtaken' = overtaken \cup Overtakes(i)
      /\ UNCHANGED <<source, timer, marker, assembled, selected, explained, traced, asked,
                     runFailed, alone>>
  BY DEF Disassembles, Arrives
<1>2. IsSequence(underWay') /\ DiagnosticsFollow' /\ ExplainerFollows' /\ TraceFollows'
  BY <1>1, OthersStillFollow
<1>3. "disassemble" \notin overtaken' =>
        /\ "disassemble" \notin overtaken
        /\ \A v : LastIs(underWay, "disassemble", v) =>
             /\ LastIs(underWay', "disassemble", v)
             /\ NoneOf(underWay', "disassemble") => underWay[i].of = v
  BY <1>1, OthersStillFollow
<1>4. /\ IsSequence(disasm') /\ DOMAIN disasm' = 1 .. Len(disasm) + 1 /\ Len(disasm) \in Nat
      /\ disasm'[Len(disasm) + 1] = underWay[i].of
  BY <1>1, Pushed DEF PlayInv, ListingIsAlone
<1>5. Len(disasm') = Len(disasm) + 1
  <2>1. DOMAIN disasm' = 1 .. Len(disasm') /\ Len(disasm') \in Nat
    BY <1>4 DEF IsSequence
  <2> QED
    BY <1>4, <2>1
<1>6. DisassemblyFollows'
  BY <1>1, <1>3, <1>4, <1>5 DEF PlayInv, DisassemblyFollows
<1>7. ListingIsAlone'
  <2>1. AtMostOne(underWay, "disassemble") =>
          AtMostOne(underWay', "disassemble") /\ NoneOf(underWay', "disassemble")
    BY <1>1, OthersStillFollow
  <2>2. ~ NoneOf(underWay, "disassemble")
    BY <1>1 DEF NoneOf
  <2>3. alone => Len(disasm) = 0
    BY <2>2, ShortSequences DEF PlayInv, ListingIsAlone
  <2> QED
    BY <1>1, <1>4, <1>5, <2>1, <2>3 DEF PlayInv, ListingIsAlone
<1> QED
  BY <1>2, <1>6, <1>7 DEF PlayInv

\* A run comes back, and is traced unless it was refused.
LEMMA RunsKeepsInv ==
  ASSUME PlayInv, NEW i, Runs(i)
  PROVE  PlayInv'
<1> DEFINE t == underWay[i].of
<1>1. /\ i \in DOMAIN underWay /\ underWay[i].what = "run"
      /\ traced' = IF t \notin Bad \cup Rowless THEN t ELSE traced
      /\ underWay' = Others(i) /\ overtaken' = overtaken \cup Overtakes(i)
      /\ UNCHANGED <<source, timer, marker, assembled, selected, explained, disasm, asked,
                     alone>>
  BY DEF Runs, Arrives
<1>2. /\ IsSequence(underWay')
      /\ DiagnosticsFollow' /\ ExplainerFollows' /\ DisassemblyFollows' /\ ListingIsAlone'
  BY <1>1, OthersStillFollow
<1>3. "run" \notin overtaken' =>
        /\ "run" \notin overtaken
        /\ \A v : LastIs(underWay, "run", v) =>
             /\ LastIs(underWay', "run", v)
             /\ NoneOf(underWay', "run") => t = v
  BY <1>1, OthersStillFollow
<1>4. TraceFollows'
  BY <1>1, <1>3 DEF PlayInv, TraceFollows
<1> QED
  BY <1>2, <1>4 DEF PlayInv

\* A request fails: its own panel says so, the others are as they were.
LEMMA RequestFailsKeepsInv ==
  ASSUME PlayInv, NEW i \in DOMAIN underWay, RequestFails(i)
  PROVE  PlayInv'
<1> DEFINE what == underWay[i].what
<1>1. /\ marker' = (IF what = "assemble" THEN Unavailable ELSE marker)
      /\ explained' = (IF what = "explain" THEN Unavailable ELSE explained)
      /\ disasm' = (IF what = "disassemble" THEN <<Unavailable>> ELSE disasm)
      /\ runFailed' = (IF what = "run" THEN TRUE ELSE runFailed)
      /\ underWay' = Others(i) /\ overtaken' = overtaken \cup Overtakes(i)
      /\ UNCHANGED <<source, timer, assembled, selected, traced, asked, alone>>
  BY DEF RequestFails
<1>2. /\ IsSequence(underWay')
      /\ what \notin overtaken' =>
           what \notin overtaken
           /\ \A v : LastIs(underWay, what, v) => LastIs(underWay', what, v)
      /\ AtMostOne(underWay, what) => AtMostOne(underWay', what) /\ NoneOf(underWay', what)
      /\ what # "assemble" => DiagnosticsFollow'
      /\ what # "explain" => ExplainerFollows'
      /\ what # "disassemble" => DisassemblyFollows' /\ ListingIsAlone'
      /\ what # "run" => TraceFollows'
  BY <1>1, OthersStillFollow
<1> HIDE DEF what
<1>3. CASE what = "assemble"
  BY <1>1, <1>2, <1>3 DEF PlayInv, DiagnosticsFollow
<1>4. CASE what = "explain"
  BY <1>1, <1>2, <1>4 DEF PlayInv, ExplainerFollows
<1>5. CASE what = "disassemble"
  <2>1. IsSequence(disasm') /\ Len(disasm') = 1 /\ disasm'[1] = Unavailable
    BY <1>1, <1>5, ShortSequences
  <2>2. DisassemblyFollows'
    BY <1>1, <1>2, <1>5, <2>1 DEF PlayInv, DisassemblyFollows
  <2>3. ListingIsAlone'
    BY <1>1, <1>2, <1>5, <2>1 DEF PlayInv, ListingIsAlone
  <2> QED
    BY <1>2, <1>5, <2>2, <2>3 DEF PlayInv
<1>6. CASE what = "run"
  BY <1>1, <1>2, <1>6 DEF PlayInv, TraceFollows
<1>7. CASE what \notin {"assemble", "explain", "disassemble", "run"}
  BY <1>2, <1>7 DEF PlayInv
<1> QED
  BY <1>3, <1>4, <1>5, <1>6, <1>7

\* Every step keeps the invariant.
LEMMA PlayInvNext == PlayInv /\ [PlaygroundNext]_playgroundVars => PlayInv'
<1> SUFFICES ASSUME PlayInv, [PlaygroundNext]_playgroundVars PROVE PlayInv'
  OBVIOUS
<1>1. ASSUME NEW t \in Texts, Edit(t) PROVE PlayInv'
  BY <1>1, EditKeepsInv
<1>2. CASE Assemble
  BY <1>2, AssembleKeepsInv
<1>3. ASSUME NEW k \in 1 .. Rows, SelectRow(k) PROVE PlayInv'
  BY <1>3, SelectRowKeepsInv
<1>4. CASE ClickRun
  BY <1>4, ClickRunKeepsInv
<1>5. ASSUME NEW i \in DOMAIN underWay, Responds(i) PROVE PlayInv'
  BY <1>5, AssemblesKeepsInv, AssemblesToNothingKeepsInv, RejectsKeepsInv, ExplainsKeepsInv,
     DisassemblesKeepsInv, RunsKeepsInv DEF Responds
<1>6. ASSUME NEW i \in DOMAIN underWay, RequestFails(i) PROVE PlayInv'
  BY <1>6, RequestFailsKeepsInv
<1>7. CASE UNCHANGED playgroundVars
  BY <1>7
  DEF playgroundVars, panels, history, PlayInv, DiagnosticsFollow, ExplainerFollows,
      DisassemblyFollows, ListingIsAlone, TraceFollows, Verdict
<1> QED
  BY <1>1, <1>2, <1>3, <1>4, <1>5, <1>6, <1>7 DEF PlaygroundNext

(***************************************************************************)
(* The theorems: a page at rest.                                           *)
(***************************************************************************)
\* With nothing under way every panel shows what it follows.
LEMMA WhenQuiet ==
  PlayInv => /\ DiagnosticsAreLive /\ TheSelectionIsExplained
             /\ TheLastRunIsTraced /\ TheDisassemblyIsCurrent
<1> SUFFICES ASSUME PlayInv, Quiet
             PROVE  /\ DiagnosticsAreLive /\ TheSelectionIsExplained
                    /\ TheLastRunIsTraced /\ TheDisassemblyIsCurrent
  BY DEF DiagnosticsAreLive, TheSelectionIsExplained, TheLastRunIsTraced,
         TheDisassemblyIsCurrent
<1>1. ~timer /\ \A kind : NoneOf(underWay, kind)
  BY DEF Quiet, NoneOf
<1>2. DiagnosticsAreLive
  BY <1>1 DEF PlayInv, DiagnosticsFollow, DiagnosticsAreLive
<1>3. TheSelectionIsExplained
  BY <1>1 DEF PlayInv, ExplainerFollows, TheSelectionIsExplained
<1>4. TheLastRunIsTraced
  BY <1>1 DEF PlayInv, TraceFollows, TheLastRunIsTraced
<1>5. TheDisassemblyIsCurrent
  <2>1. disasm = <<>> => Len(disasm) = 0
    BY ShortSequences
  <2>2. Len(disasm) \in Nat
    BY DEF PlayInv, ListingIsAlone, IsSequence
  <2> QED
    BY <1>1, <2>1, <2>2 DEF PlayInv, DisassemblyFollows, ListingIsAlone, TheDisassemblyIsCurrent
<1> QED
  BY <1>2, <1>3, <1>4, <1>5

\* What is underlined when the page is at rest is the text in the editor if it does not
\* assemble, and a good text is the one that is listed, unless the request failed or was
\* answered before one about an older text (runAssemble).
THEOREM DiagnosticsStayLive == PlaygroundSpec => []DiagnosticsAreLive
<1>1. PlayInv => DiagnosticsAreLive
  BY WhenQuiet
<1> QED
  BY PlayInvInit, PlayInvNext, <1>1, PTL DEF PlaygroundSpec

\* The explainer of a page at rest shows the selected row or that its explanation
\* failed, unless an older explanation came after that (showExplain).
THEOREM TheSelectionGetsExplained == PlaygroundSpec => []TheSelectionIsExplained
<1>1. PlayInv => TheSelectionIsExplained
  BY WhenQuiet
<1> QED
  BY PlayInvInit, PlayInvNext, <1>1, PTL DEF PlaygroundSpec

\* The trace of a page at rest is that of the last run asked for, unless that was
\* refused, failed, or was answered before an older one (doRun).
THEOREM TheLastRunGetsTraced == PlaygroundSpec => []TheLastRunIsTraced
<1>1. PlayInv => TheLastRunIsTraced
  BY WhenQuiet
<1> QED
  BY PlayInvInit, PlayInvNext, <1>1, PTL DEF PlaygroundSpec

\* The last thing in the disassembly tab of a page at rest is about the assembled text,
\* unless it came before an older answer, and it is the only thing in it if it was asked
\* for with no other under way (renderDisasm).
THEOREM TheDisassemblyGetsCurrent == PlaygroundSpec => []TheDisassemblyIsCurrent
<1>1. PlayInv => TheDisassemblyIsCurrent
  BY WhenQuiet
<1> QED
  BY PlayInvInit, PlayInvNext, <1>1, PTL DEF PlaygroundSpec
=============================================================================
