--------------------------- MODULE RingingProofs ---------------------------
(***************************************************************************)
(* Proofs about Ringing, for any number of users, conversations, acts and  *)
(* lost connections.                                                       *)
(*                                                                         *)
(* That every ringtone ends is inductive as a property of one page (Rings): *)
(* a page that rings outside a call has the timer of the bar running, for  *)
(* the conversation of the bar, so that the timer will find what it looks  *)
(* for.  It rests on the types: a page never rings, and never shows a bar, *)
(* for no conversation, because no message of either kind comes without.   *)
(*                                                                         *)
(* That no page shows a call the server knows nothing of (NoGhostCall)     *)
(* relates a page, its queue and the server: GInv says that a page with a  *)
(* partner is about to ask for the room, has a message on its way that     *)
(* will enter it (Enters), or is in it, with nothing on its way that would *)
(* take it out again (Stays) unseen.                                       *)
(*                                                                         *)
(* That nobody is dragged into a call (NobodyDraggedIn) and that two who   *)
(* talk know it (TalkersKnow) hold for users who have never had two calls  *)
(* open at once (mixed).  DInv says of each of them that the page obeys    *)
(* the user (Lawful), that whoever is in a room has moved there, or shows  *)
(* it, or is to hear so (Seen), and that no refusal of a page that talks   *)
(* is on its way (Backed).  KInv adds what two users in one room have      *)
(* still to hear (Knows).  All three speak of one conversation at a time:  *)
(* what a page, its queues and the server say of another one does not      *)
(* touch them, unless its call is open too (Open).                         *)
(***************************************************************************)
EXTENDS Ringing, SequenceTheorems, TLAPS

\* The timers and the bar have a conversation; a job and a message too, but
\* for the two that concern none.
Bars(u) == [dm : Of(u) \cup {None}, caller : Users \cup {None}, waiting : BOOLEAN, shown : BOOLEAN]
JobsOf(u) ==
    {j \in [then : {"start", "accept", "wait", "refresh"}, dm : Of(u) \cup {None},
            list : [Dms -> Users \cup {None}]] :
        j.then # "refresh" => j.dm # None}
Pages(u) ==
    [room : Of(u) \cup {None}, connected : BOOLEAN, active : BOOLEAN, answered : BOOLEAN,
     waiting : BOOLEAN, partner : Users \cup {None}, members : SUBSET Users, bar : Bars(u),
     ringing : BOOLEAN, ringTimer : Of(u) \cup {None}, barTimer : Of(u) \cup {None},
     marker : [Dms -> Waiters], listed : [Dms -> Waiters], jobs : SUBSET JobsOf(u)]

\* A page that rings outside a call has its thirty seconds running.
Rings(p) ==
    p.ringing /\ ~p.active => p.barTimer # None /\ p.bar.dm = p.barTimer /\ ~p.bar.waiting
PageFits(u, p) ==
    /\ p \in Pages(u) /\ (p.bar.shown => p.bar.dm # None) /\ Rings(p)
    /\ p.partner # None => p.room # None

Bodies(types, u) ==
    [type : types, dm : Of(u) \cup {None}, who : Waiters, list : SUBSET Users]
ToServer(u) ==
    {m \in Bodies({"join", "leave", "leave_all", "ring", "waiting", "end"}, u) :
        m.type # "leave_all" => m.dm # None}
ToPage(u) ==
    {m \in Bodies({"members", "joined", "ring", "waiting", "cleared", "declined", "ended"}, u) :
        m.dm # None /\ (m.type = "ring" => m.who \in Users)}

ServerFits ==
    /\ members \in [Dms -> SUBSET Users] /\ \A d \in Dms : members[d] \subseteq d
    /\ stored \in [Dms -> Users \cup {None}]
    /\ grace \subseteq [dm : Dms, who : Users] /\ leaving \subseteq Users
QueuesFit ==
    /\ out \in [Users -> Seq(Messages)] /\ inbox \in [Users -> Seq(Messages)]
    /\ \A u \in Users :
        /\ out[u] \in Seq(ToServer(u)) /\ Len(out[u]) <= MaxQueue
        /\ inbox[u] \in Seq(ToPage(u))
IInv ==
    /\ ServerFits /\ QueuesFit
    /\ up \in [Users -> BOOLEAN]
    /\ DOMAIN page = Users /\ \A u \in Users : PageFits(u, page[u])
    /\ acts \in 0..MaxActs /\ drops \in 0..MaxDrops
    /\ willing \in [Users -> Dms \cup {None}] /\ evicted \subseteq Users /\ crossed \subseteq Dms

-----------------------------------------------------------------------------
(* Conversations *)

\* There is another one in every conversation.
LEMMA OtherOne ==
    ASSUME NEW d \in Dms, NEW u
    PROVE  Other(d, u) \in d /\ Other(d, u) \in Users /\ Other(d, u) # u
  BY DmAssumption DEF Other

LEMMA NoneApart == None \notin Users /\ None \notin Dms
  BY DmAssumption

-----------------------------------------------------------------------------
(* The functions of a page *)

\* The operators on a page keep its type and its timer (the lemmas ...Fits).
LEMMA NewPageFits == ASSUME NEW u \in Users PROVE PageFits(u, NewPage)
  BY DEF PageFits, Pages, NewPage, NoBar, Bars, Rings, Waiters

LEMMA UnmarkedFits ==
    ASSUME NEW u \in Users, NEW p, PageFits(u, p), NEW d
    PROVE  /\ PageFits(u, Unmarked(p, d))
           /\ Unmarked(p, d).ringing = p.ringing /\ Unmarked(p, d).room = p.room
           /\ Unmarked(p, d).partner = p.partner /\ Unmarked(p, d).jobs = p.jobs
  BY ZenonT(60) DEF PageFits, Pages, Rings, Waiters, Unmarked

LEMMA MarkedFits ==
    ASSUME NEW u \in Users, NEW p, PageFits(u, p), NEW d, NEW who \in Waiters
    PROVE  PageFits(u, Marked(p, d, who))
  BY DEF PageFits, Pages, Rings, Marked

LEMMA SyncedFits ==
    ASSUME NEW u \in Users, NEW p, PageFits(u, p), NEW d
    PROVE  PageFits(u, Synced(u, p))
<1> DEFINE new == [e \in Dms |->
        IF p.listed[e] = Absent \/ (p.listed[e] = u /\ ~(p.active /\ p.room = e))
        THEN None ELSE p.listed[e]]
<1>1. new \in [Dms -> Waiters]
  BY DEF PageFits, Pages, Waiters
<1>2. Synced(u, p) = [p EXCEPT !.marker = new]
  BY DEF Synced
<1> HIDE DEF new
<1> QED
  BY <1>1, <1>2 DEF PageFits, Pages, Rings

\* A page that does not ring needs no timer.
LEMMA SilentFits ==
    ASSUME NEW u \in Users, NEW p, PageFits(u, p)
    PROVE  /\ PageFits(u, [p EXCEPT !.ringing = FALSE])
           /\ PageFits(u, [NoIncoming(p) EXCEPT !.ringing = FALSE])
           /\ p.active => PageFits(u, NoIncoming(p)) /\ NoIncoming(p).active
           /\ ~p.ringing => PageFits(u, Hidden(p))
           /\ NoIncoming(p).room = p.room
           /\ NoIncoming(p).active = p.active
<1>1. PageFits(u, [p EXCEPT !.ringing = FALSE])
  BY DEF PageFits, Pages, Rings
<1>2. Hidden(p) = [p EXCEPT !.barTimer = None, !.bar = [p.bar EXCEPT !.shown = FALSE]]
  BY DEF Hidden, PageFits, Pages
<1>3. ~p.ringing => PageFits(u, Hidden(p))
  <2> DEFINE b == [p.bar EXCEPT !.shown = FALSE]
  <2>1. b \in Bars(u) /\ ~b.shown
    BY DEF PageFits, Pages, Bars
  <2> HIDE DEF b
  <2>2. ~p.ringing => PageFits(u, [p EXCEPT !.barTimer = None, !.bar = b])
    BY <2>1 DEF PageFits, Pages, Rings
  <2> QED
    BY <1>2, <2>2 DEF b
<1>4. NoBar \in Bars(u) /\ ~NoBar.shown
  BY DEF NoBar, Bars
<1>5. NoIncoming(p) = [p EXCEPT !.barTimer = None, !.bar = NoBar]
  BY <1>2 DEF NoIncoming, PageFits, Pages
<1>6. PageFits(u, [NoIncoming(p) EXCEPT !.ringing = FALSE])
  BY <1>4, <1>5 DEF PageFits, Pages, Rings
<1>7. p.active => PageFits(u, NoIncoming(p)) /\ NoIncoming(p).active
  BY <1>4, <1>5 DEF PageFits, Pages, Rings
<1>8. NoIncoming(p).room = p.room /\ NoIncoming(p).active = p.active
  BY <1>5 DEF PageFits, Pages
<1> QED
  BY <1>1, <1>3, <1>6, <1>7, <1>8

LEMMA TornDownFits ==
    ASSUME NEW u \in Users, NEW p, PageFits(u, p)
    PROVE  PageFits(u, TornDown(p)) /\ ~TornDown(p).ringing /\ TornDown(p).partner = None
<1> DEFINE q == [p EXCEPT !.room = None, !.connected = FALSE, !.active = FALSE,
                       !.answered = FALSE, !.waiting = FALSE, !.partner = None,
                       !.members = {}, !.ringing = FALSE, !.ringTimer = None,
                       !.barTimer = None]
<1>1. PageFits(u, q) /\ ~q.ringing /\ q.partner = None
  BY DEF PageFits, Pages, Rings
<1>2. TornDown(p) = Unmarked(q, p.room)
  BY DEF TornDown
<1> HIDE DEF q
<1> QED
  BY <1>1, <1>2, UnmarkedFits

LEMMA LeftFits ==
    ASSUME NEW u \in Users, NEW p, PageFits(u, p)
    PROVE  PageFits(u, Left(p)) /\ PageFits(u, Free(p))
  BY TornDownFits, SilentFits DEF Left, Free

LEMMA EnteringFits ==
    ASSUME NEW u \in Users, NEW p, PageFits(u, p), NEW d \in Of(u),
           NEW then \in {"start", "accept", "wait"}
    PROVE  PageFits(u, Entering(p, d, u, then))
<1>1. Job(then, d) \in JobsOf(u)
  BY NoneApart DEF Job, JobsOf, NoList, Of
<1>2. Other(d, u) \in Users
  BY OtherOne DEF Of
<1>3. PICK a \in BOOLEAN : a = (then = "accept")
  OBVIOUS
<1>4. PICK w \in BOOLEAN : w = (then = "wait")
  OBVIOUS
<1>5. Entering(p, d, u, then) =
        [p EXCEPT !.room = d, !.partner = Other(d, u), !.active = TRUE,
                  !.answered = a, !.waiting = w, !.jobs = p.jobs \cup {Job(then, d)}]
  BY <1>3, <1>4 DEF Entering
<1> QED
  <2> DEFINE jobs == p.jobs \cup {Job(then, d)}
             q == [p EXCEPT !.room = d, !.partner = Other(d, u), !.active = TRUE,
                            !.answered = a, !.waiting = w, !.jobs = jobs]
  <2>1. jobs \in SUBSET JobsOf(u)
    BY <1>1 DEF PageFits, Pages
  <2>2. PageFits(u, q)
    <3> HIDE DEF jobs
    <3> QED
      BY ZenonT(60), <1>2, <2>1, NoneApart DEF PageFits, Pages, Rings, Of
  <2> QED
    BY <1>5, <2>2

LEMMA MarkAnsweredFits ==
    ASSUME NEW u \in Users, NEW p, PageFits(u, p)
    PROVE  PageFits(u, MarkAnswered(p))
<1> DEFINE q == [p EXCEPT !.answered = p.answered \/ p.active, !.waiting = FALSE,
                   !.ringTimer = IF p.active /\ ~p.answered THEN None ELSE p.ringTimer]
<1>1. PageFits(u, q)
  BY ZenonT(60) DEF PageFits, Pages, Rings
<1>2. MarkAnswered(p) = p \/ MarkAnswered(p) = Unmarked(q, p.room)
  BY DEF MarkAnswered
<1> HIDE DEF q
<1> QED
  BY <1>1, <1>2, UnmarkedFits

LEMMA OnWaitingFits ==
    ASSUME NEW u \in Users, NEW p, PageFits(u, p), NEW d, NEW who \in Waiters
    PROVE  PageFits(u, OnWaiting(p, d, who))
<1>1. PageFits(u, FlipCall(p))
  BY DEF PageFits, Pages, Rings, FlipCall
<1>2. PageFits(u, [p EXCEPT !.bar.waiting = TRUE, !.ringing = FALSE])
  BY ZenonT(60) DEF PageFits, Pages, Bars, Rings
<1> QED
  BY <1>1, <1>2, MarkedFits DEF OnWaiting, FlipBar

\* The one who was declined waits again.
LEMMA WaitsAgain ==
    ASSUME NEW u \in Users, NEW x, PageFits(u, x)
    PROVE  /\ PageFits(u, [x EXCEPT !.waiting = TRUE, !.answered = FALSE])
           /\ [x EXCEPT !.waiting = TRUE, !.answered = FALSE].room = x.room
           /\ [x EXCEPT !.waiting = TRUE, !.answered = FALSE].partner = x.partner
           /\ [x EXCEPT !.waiting = TRUE, !.answered = FALSE].jobs = x.jobs
<1> DEFINE y == [x EXCEPT !.waiting = TRUE, !.answered = FALSE]
<1>1. x \in Pages(u)
  BY DEF PageFits
<1>2. y \in Pages(u)
  BY <1>1 DEF Pages
<1>3. y.room = x.room /\ y.partner = x.partner /\ y.jobs = x.jobs
  BY <1>1 DEF Pages
<1>4. y.ringing = x.ringing /\ y.active = x.active /\ y.barTimer = x.barTimer /\ y.bar = x.bar
  BY <1>1 DEF Pages
<1> HIDE DEF y
<1>5. PageFits(u, y)
  BY <1>2, <1>3, <1>4 DEF PageFits, Rings
<1> QED
  BY <1>3, <1>5 DEF y

LEMMA OnEndFits ==
    ASSUME NEW u \in Users, NEW p, PageFits(u, p), NEW d, NEW declined \in BOOLEAN
    PROVE  PageFits(u, OnEnd(u, p, d, declined))
<1> DEFINE q == OnBarEnd(p, d)
           r == IF ~declined /\ ~q.active /\ q.marker[d] # None THEN Unmarked(q, d) ELSE q
           s == [r EXCEPT !.ringTimer = None, !.barTimer = None, !.ringing = FALSE]
           t == [s EXCEPT !.waiting = TRUE, !.answered = FALSE]
<1>1. PageFits(u, q)
  BY SilentFits DEF OnBarEnd
<1>2. PageFits(u, r)
  BY <1>1, UnmarkedFits
<1>3. PageFits(u, s)
  <2> HIDE DEF r
  <2> QED
    BY <1>2 DEF PageFits, Pages, Rings
<1>4. PageFits(u, t)
  <2> HIDE DEF q, r, s
  <2> QED
    BY <1>3, WaitsAgain DEF t
<1>5. OnEnd(u, p, d, declined) \in {r, Marked(t, d, u), TornDown(s)}
  <2> HIDE DEF q
  <2> QED
    BY DEF OnEnd, q
<1> HIDE DEF q, r, s, t
<1>6. u \in Waiters
  BY DEF Waiters
<1> QED
  BY <1>2, <1>3, <1>4, <1>5, <1>6, MarkedFits, TornDownFits

LEMMA OnClearedFits ==
    ASSUME NEW u \in Users, NEW p, PageFits(u, p), NEW d
    PROVE  PageFits(u, OnCleared(p, d))
<1> DEFINE q == [p EXCEPT !.marker[d] = None, !.listed[d] = None]
<1>1. PageFits(u, q)
  BY DEF PageFits, Pages, Rings, Waiters
<1> HIDE DEF q
<1> QED
  BY <1>1, SilentFits DEF OnCleared, q

LEMMA OnMembersFits ==
    ASSUME NEW u \in Users, NEW p, PageFits(u, p), NEW list \in SUBSET Users
    PROVE  PageFits(u, OnMembers(u, p, list))
<1>1. PageFits(u, [p EXCEPT !.members = list])
  BY DEF PageFits, Pages, Rings
<1> QED
  BY <1>1, MarkAnsweredFits DEF OnMembers

LEMMA OnJoinedFits ==
    ASSUME NEW u \in Users, NEW p, PageFits(u, p), NEW d \in Of(u), NEW list \in SUBSET Users
    PROVE  PageFits(u, OnJoined(u, p, d, list))
<1> DEFINE a == [p EXCEPT !.room = d, !.connected = TRUE, !.active = TRUE]
           q == NoIncoming(a)
           r == IF list \ {u} # {} THEN MarkAnswered(q) ELSE q
<1>1. PageFits(u, a) /\ a.active
  BY NoneApart DEF PageFits, Pages, Rings, Of
<1>2. PageFits(u, q)
  BY <1>1, SilentFits
<1>3. PageFits(u, r)
  BY <1>2, MarkAnsweredFits
<1>4. OnJoined(u, p, d, list) = [r EXCEPT !.members = list]
  BY DEF OnJoined
<1> HIDE DEF r
<1> QED
  BY <1>3, <1>4 DEF PageFits, Pages, Rings

-----------------------------------------------------------------------------
(* Messages and queues *)

\* Every message has a conversation, except the one that leaves all rooms.
LEMMA GoodMessages ==
    ASSUME NEW u \in Users, NEW d \in Of(u)
    PROVE  /\ \A type \in {"join", "leave", "leave_all", "ring", "waiting", "end"} :
                 Msg(type, d) \in ToServer(u)
           /\ Msg("leave_all", None) \in ToServer(u)
           /\ \A type \in {"cleared", "declined", "ended"} : Msg(type, d) \in ToPage(u)
           /\ \A who \in Waiters : From("waiting", d, who) \in ToPage(u)
           /\ \A who \in Users : From("ring", d, who) \in ToPage(u)
           /\ \A type \in {"members", "joined"}, list \in SUBSET Users :
                 Listing(type, d, list) \in ToPage(u)
  BY NoneApart DEF Of, Msg, From, Listing, ToServer, ToPage, Bodies, Waiters

LEMMA MessagesTyped ==
    ASSUME NEW u \in Users
    PROVE  ToServer(u) \subseteq Messages /\ ToPage(u) \subseteq Messages
  BY DEF ToServer, ToPage, Bodies, Messages, Of

\* A page that fits takes the place of an old one and sends what it may.
LEMMA PageStepFits ==
    ASSUME IInv, NEW u \in Users, NEW p, PageFits(u, p), NEW msgs \in Seq(ToServer(u)),
           PageStep(u, p, msgs)
    PROVE  /\ DOMAIN page' = Users /\ \A v \in Users : PageFits(v, page'[v])
           /\ out' \in [Users -> Seq(Messages)]
           /\ \A v \in Users : out'[v] \in Seq(ToServer(v)) /\ Len(out'[v]) <= MaxQueue
<1>1. page' = [page EXCEPT ![u] = p]
  BY DEF PageStep
<1>2. DOMAIN page' = Users /\ \A v \in Users : PageFits(v, page'[v])
  BY <1>1 DEF IInv
<1> DEFINE q == IF up[u] THEN out[u] \o msgs ELSE out[u]
<1>3. q \in Seq(ToServer(u)) /\ Len(q) <= MaxQueue
  <2>1. out[u] \in Seq(ToServer(u)) /\ Len(out[u]) <= MaxQueue
    BY DEF IInv, QueuesFit
  <2>2. out[u] \o msgs \in Seq(ToServer(u)) /\ Len(out[u] \o msgs) = Len(out[u]) + Len(msgs)
    BY <2>1, ConcatProperties
  <2> QED
    BY <2>1, <2>2 DEF PageStep
<1>4. q \in Seq(Messages)
  BY <1>3, MessagesTyped, SeqMonotonic
<1>5. out' = [out EXCEPT ![u] = q]
  BY DEF PageStep
<1>6. out \in [Users -> Seq(Messages)]
      /\ \A v \in Users : out[v] \in Seq(ToServer(v)) /\ Len(out[v]) <= MaxQueue
  BY DEF IInv, QueuesFit
<1> HIDE DEF q
<1>7. out' \in [Users -> Seq(Messages)]
      /\ \A v \in Users : out'[v] \in Seq(ToServer(v)) /\ Len(out'[v]) <= MaxQueue
  BY <1>3, <1>4, <1>5, <1>6
<1> QED
  BY <1>2, <1>7

\* A delivery of what fits leaves inboxes that fit.
LEMMA DeliveredFits ==
    ASSUME IInv, NEW to, \A v \in Users : to[v] \in Seq(ToPage(v)), Delivered(to)
    PROVE  /\ inbox' \in [Users -> Seq(Messages)]
           /\ \A v \in Users : inbox'[v] \in Seq(ToPage(v))
<1>1. ASSUME NEW v \in Users PROVE inbox'[v] \in Seq(ToPage(v)) /\ inbox'[v] \in Seq(Messages)
  <2>1. inbox[v] \in Seq(ToPage(v))
    BY DEF IInv, QueuesFit
  <2>2. inbox[v] \o to[v] \in Seq(ToPage(v))
    BY <2>1, ConcatProperties
  <2>3. inbox'[v] \in Seq(ToPage(v))
    BY <2>1, <2>2 DEF Delivered
  <2> QED
    BY <2>3, MessagesTyped, SeqMonotonic
<1>2. inbox' = [v \in Users |-> IF up[v] THEN inbox[v] \o to[v] ELSE inbox[v]]
  BY DEF Delivered
<1> QED
  BY <1>1, <1>2

\* What reaches a page fits it if what is sent does.
LEMMA OneDelivered ==
    ASSUME IInv, NEW v \in Users, NEW msgs \in Seq(ToPage(v)), Delivered(ToOnly(v, msgs))
    PROVE  /\ inbox' \in [Users -> Seq(Messages)]
           /\ \A w \in Users : inbox'[w] \in Seq(ToPage(w))
<1>1. \A w \in Users : ToOnly(v, msgs)[w] \in Seq(ToPage(w))
  BY EmptySeq DEF ToOnly
<1> QED
  BY <1>1, DeliveredFits

-----------------------------------------------------------------------------
(* What the users do *)

\* What is left when the page of a user has taken its step and nothing else
\* has, but for the counters and the histories.
LEMMA PageStepInv ==
    ASSUME IInv, NEW u \in Users, NEW p, PageFits(u, p), NEW msgs \in Seq(ToServer(u)),
           PageStep(u, p, msgs), ServerFits',
           inbox' \in [Users -> Seq(Messages)],
           \A v \in Users : inbox'[v] \in Seq(ToPage(v)),
           up' = up, acts' \in 0..MaxActs, drops' = drops,
           willing' \in [Users -> Dms \cup {None}], crossed' \subseteq Dms, evicted' = evicted
    PROVE  IInv'
<1>1. /\ DOMAIN page' = Users /\ \A v \in Users : PageFits(v, page'[v])
      /\ out' \in [Users -> Seq(Messages)]
      /\ \A v \in Users : out'[v] \in Seq(ToServer(v)) /\ Len(out'[v]) <= MaxQueue
  BY PageStepFits
<1>2. QueuesFit'
  BY <1>1 DEF QueuesFit
<1> QED
  BY <1>1, <1>2 DEF IInv

LEMMA ServerSame == IInv /\ UNCHANGED server => ServerFits' /\ evicted' = evicted
  BY DEF IInv, ServerFits, server

LEMMA ActCounts == IInv /\ Act => acts' \in 0..MaxActs /\ drops' = drops
  BY BoundAssumption DEF IInv, Act

LEMMA InboxSame ==
    IInv /\ inbox' = inbox =>
        /\ inbox' \in [Users -> Seq(Messages)]
        /\ \A v \in Users : inbox'[v] \in Seq(ToPage(v))
  BY DEF IInv, QueuesFit

\* The user of a page acts.
LEMMA ActInv ==
    ASSUME IInv, NEW u \in Users, NEW p, PageFits(u, p), NEW msgs \in Seq(ToServer(u)),
           PageStep(u, p, msgs), Act, NEW d \in Dms \cup {None},
           willing' = willing \/ Wants(u, d), crossed' \subseteq Dms
    PROVE  IInv'
<1>1. ServerFits' /\ evicted' = evicted /\ acts' \in 0..MaxActs /\ drops' = drops
      /\ up' = up /\ inbox' = inbox
  BY ServerSame, ActCounts DEF Act
<1>2. willing' \in [Users -> Dms \cup {None}]
  BY DEF IInv, Wants
<1> QED
  BY <1>1, <1>2, InboxSame, PageStepInv

\* What a page sends when it leaves.
LEMMA GoodbyeFits ==
    ASSUME NEW u \in Users, NEW p, PageFits(u, p)
    PROVE  Goodbye(p) \in Seq(ToServer(u)) /\ Freeing(p) \in Seq(ToServer(u))
<1>1. p.room # None => p.room \in Of(u)
  BY DEF PageFits, Pages
<1>2. Goodbye(p) \in Seq(ToServer(u))
  BY <1>1, GoodMessages DEF Goodbye
<1> QED
  BY <1>2 DEF Freeing

LEMMA JoinWaitingInv ==
    ASSUME IInv, NEW u \in Users, NEW d \in Of(u), Act, JoinWaiting(u, d), crossed' = crossed
    PROVE  IInv'
<1>1. PageFits(u, Entering(page[u], d, u, "wait"))
  BY EnteringFits DEF IInv
<1>2. crossed' \subseteq Dms /\ d \in Dms \cup {None}
  BY DEF IInv, Of
<1>3. <<>> \in Seq(ToServer(u))
  BY EmptySeq
<1> QED
  BY <1>1, <1>2, <1>3, ActInv DEF JoinWaiting

LEMMA CallButtonInv ==
    ASSUME IInv, NEW u \in Users, NEW d \in Of(u), CallButton(u, d), crossed' = crossed
    PROVE  IInv'
<1>0. PageFits(u, page[u]) /\ crossed' \subseteq Dms /\ d \in Dms \cup {None} /\ Act
  BY DEF IInv, Of, CallButton
<1>1. CASE PageStep(u, page[u], <<Msg("ring", d)>>) /\ UNCHANGED willing
  <2>1. <<Msg("ring", d)>> \in Seq(ToServer(u))
    BY GoodMessages
  <2> QED
    BY <1>0, <1>1, <2>1, ActInv
<1>2. CASE JoinWaiting(u, d)
  BY <1>0, <1>2, JoinWaitingInv
<1>3. CASE StartCall(u, d)
  <2>1. PageFits(u, Entering(Free(page[u]), d, u, "start"))
    BY <1>0, LeftFits, EnteringFits
  <2>2. Freeing(page[u]) \in Seq(ToServer(u))
    BY <1>0, GoodbyeFits
  <2> QED
    BY <1>0, <1>3, <2>1, <2>2, ActInv DEF StartCall
<1> QED
  BY <1>1, <1>2, <1>3, Zenon DEF CallButton

LEMMA AcceptInv ==
    ASSUME IInv, NEW u \in Users, Accept(u), crossed' = crossed
    PROVE  IInv'
<1> DEFINE p == page[u]
           d == p.bar.dm
           s == [NoIncoming(p) EXCEPT !.ringing = FALSE]
           e == Entering(Free(s), d, u, "accept")
<1>0. PageFits(u, p) /\ crossed' \subseteq Dms /\ Act /\ d \in Of(u) /\ d \in Dms
  BY DEF IInv, Accept, PageFits, Pages, Bars, Of
<1>1. PageFits(u, s)
  BY <1>0, SilentFits
<1>2. PageFits(u, e)
  <2> HIDE DEF s
  <2> QED
    BY <1>0, <1>1, LeftFits, EnteringFits
<1>3. PageFits(u, Unmarked(e, d))
  <2> HIDE DEF e
  <2> QED
    BY <1>2, UnmarkedFits
<1>4. Freeing(p) \in Seq(ToServer(u))
  BY <1>0, GoodbyeFits
<1>5. PageStep(u, Unmarked(e, d), Freeing(p)) /\ Wants(u, d)
  BY DEF Accept
<1> QED
  <2> HIDE DEF d, e, s, p
  <2> QED
    BY <1>0, <1>3, <1>4, <1>5, ActInv

LEMMA DeclineInv ==
    ASSUME IInv, NEW u \in Users, Decline(u)
    PROVE  IInv'
<1> DEFINE p == page[u]
           d == p.bar.dm
<1>0. PageFits(u, p) /\ Act /\ d \in Of(u) /\ d \in Dms
  BY DEF IInv, Decline, PageFits, Pages, Bars, Of
<1>1. crossed' \subseteq Dms
  BY <1>0 DEF Decline, IInv
<1>2. PageFits(u, Declined(p))
  BY <1>0, SilentFits DEF Declined
<1>3. <<Msg("end", d)>> \in Seq(ToServer(u))
  BY <1>0, GoodMessages
<1>4. PageStep(u, Declined(p), <<Msg("end", d)>>) /\ (willing' = willing \/ Wants(u, None))
  BY DEF Decline
<1> QED
  <2> HIDE DEF d, p
  <2> QED
    BY <1>0, <1>1, <1>2, <1>3, <1>4, ActInv

LEMMA HangUpInv ==
    ASSUME IInv, NEW u \in Users, HangUp(u), crossed' = crossed
    PROVE  IInv'
<1>1. PageFits(u, page[u]) /\ crossed' \subseteq Dms
  BY DEF IInv
<1>2. PageFits(u, Left(page[u])) /\ Goodbye(page[u]) \in Seq(ToServer(u))
  BY <1>1, LeftFits, GoodbyeFits
<1> QED
  BY <1>1, <1>2, ActInv DEF HangUp

\* The list of conversations that has been asked for.
LEMMA AskedFits ==
    ASSUME IInv, NEW u \in Users, NEW p, PageFits(u, p)
    PROVE  PageFits(u, [p EXCEPT !.jobs = p.jobs \cup {Fetched}])
<1>1. Fetched \in JobsOf(u)
  BY DEF Fetched, JobsOf, IInv, ServerFits
<1> DEFINE jobs == p.jobs \cup {Fetched}
<1>2. jobs \in SUBSET JobsOf(u)
  BY <1>1 DEF PageFits, Pages
<1> HIDE DEF jobs
<1>3. PageFits(u, [p EXCEPT !.jobs = jobs])
  BY <1>2 DEF PageFits, Pages, Rings
<1> QED
  BY <1>3 DEF jobs

LEMMA OpenListInv ==
    ASSUME IInv, NEW u \in Users, OpenList(u), crossed' = crossed
    PROVE  IInv'
<1> DEFINE p == [page[u] EXCEPT !.jobs = page[u].jobs \cup {Fetched}]
<1>1. PageFits(u, p)
  BY AskedFits DEF IInv
<1>2. page' = [page EXCEPT ![u] = p]
  BY DEF OpenList, IInv
<1>3. DOMAIN page' = Users /\ \A v \in Users : PageFits(v, page'[v])
  <2> HIDE DEF p
  <2> QED
    BY <1>1, <1>2 DEF IInv
<1>4. ServerFits' /\ evicted' = evicted /\ acts' \in 0..MaxActs /\ drops' = drops
      /\ up' = up /\ inbox' = inbox
  BY ServerSame, ActCounts DEF OpenList, Act
<1>5. QueuesFit'
  BY <1>4 DEF IInv, QueuesFit, OpenList
<1> QED
  BY <1>3, <1>4, <1>5 DEF IInv, OpenList

LEMMA UserStepInv ==
    ASSUME IInv, NEW u \in Users, UserStep(u)
    PROVE  IInv'
<1>1. ASSUME NEW d \in Of(u), Banner(u, d), crossed' = crossed PROVE IInv'
  BY <1>1, JoinWaitingInv DEF Banner
<1> QED
  BY <1>1, CallButtonInv, AcceptInv, DeclineInv, HangUpInv, OpenListInv DEF UserStep

-----------------------------------------------------------------------------
(* What the page does by itself *)

LEMMA OwnInv ==
    ASSUME IInv, NEW u \in Users, NEW p, PageFits(u, p), NEW msgs \in Seq(ToServer(u)),
           PageStep(u, p, msgs), Own
    PROVE  IInv'
<1>1. ServerFits' /\ evicted' = evicted /\ acts' \in 0..MaxActs /\ drops' = drops /\ up' = up
      /\ willing' \in [Users -> Dms \cup {None}] /\ crossed' \subseteq Dms /\ inbox' = inbox
  BY ServerSame DEF Own, IInv
<1> QED
  BY <1>1, InboxSame, PageStepInv

LEMMA ContinueInv ==
    ASSUME IInv, NEW u \in Users, Continue(u)
    PROVE  IInv'
<1>1. PICK j \in page[u].jobs : Goes(u, j)
  BY DEF Continue
<1> DEFINE p == [page[u] EXCEPT !.jobs = page[u].jobs \ {j}]
<1>2. PageFits(u, page[u]) /\ Own
  BY DEF IInv, Continue
<1>3. j \in JobsOf(u)
  BY <1>2 DEF PageFits, Pages
<1>4. PageFits(u, p)
  BY <1>2 DEF PageFits, Pages, Rings
<1>5. j.then # "refresh" => j.dm \in Of(u)
  BY <1>3 DEF JobsOf
<1>6. Goes(u, j) <=>
        CASE j.then = "start" ->
               PageStep(u, [p EXCEPT !.ringTimer = j.dm], <<Msg("join", j.dm), Msg("ring", j.dm)>>)
          [] j.then = "accept" -> PageStep(u, p, <<Msg("join", j.dm)>>)
          [] j.then = "wait" -> PageStep(u, Unmarked(p, j.dm), <<Msg("join", j.dm)>>)
          [] j.then = "refresh" -> PageStep(u, Synced(u, [p EXCEPT !.listed = j.list]), <<>>)
  BY DEF Goes
<1> HIDE DEF p
<1>7. CASE j.then = "start"
  <2>1. PageFits(u, [p EXCEPT !.ringTimer = j.dm])
    BY <1>4, <1>5, <1>7 DEF PageFits, Pages, Rings
  <2>2. <<Msg("join", j.dm), Msg("ring", j.dm)>> \in Seq(ToServer(u))
    BY <1>5, <1>7, GoodMessages
  <2> QED
    BY <1>1, <1>2, <1>6, <1>7, <2>1, <2>2, OwnInv
<1>8. CASE j.then = "accept" \/ j.then = "wait"
  <2>1. PageFits(u, Unmarked(p, j.dm))
    BY <1>4, UnmarkedFits
  <2>2. <<Msg("join", j.dm)>> \in Seq(ToServer(u))
    BY <1>5, <1>8, GoodMessages
  <2> QED
    BY <1>1, <1>2, <1>4, <1>6, <1>8, <2>1, <2>2, OwnInv
<1>9. CASE j.then = "refresh"
  <2>1. PageFits(u, [p EXCEPT !.listed = j.list])
    BY <1>3, <1>4 DEF PageFits, Pages, Rings, JobsOf, Waiters
  <2>2. PageFits(u, Synced(u, [p EXCEPT !.listed = j.list]))
    BY <2>1, SyncedFits
  <2> QED
    BY <1>1, <1>2, <1>6, <1>9, <2>2, EmptySeq, OwnInv
<1> QED
  BY <1>3, <1>7, <1>8, <1>9 DEF JobsOf

LEMMA RingTimeoutInv ==
    ASSUME IInv, NEW u \in Users, RingTimeout(u)
    PROVE  IInv'
<1> DEFINE p == [page[u] EXCEPT !.ringTimer = None]
           d == page[u].ringTimer
<1>1. PageFits(u, page[u]) /\ Own /\ d \in Of(u)
  BY DEF IInv, RingTimeout, PageFits, Pages
<1>2. PageFits(u, p)
  BY <1>1 DEF PageFits, Pages, Rings
<1>3. PageStep(u, [p EXCEPT !.waiting = TRUE, !.ringing = FALSE], <<Msg("waiting", d)>>)
      \/ PageStep(u, p, <<>>)
  BY DEF RingTimeout
<1> HIDE DEF p, d
<1>4. PageFits(u, [p EXCEPT !.waiting = TRUE, !.ringing = FALSE])
  BY <1>2 DEF PageFits, Pages, Rings
<1>5. <<Msg("waiting", d)>> \in Seq(ToServer(u)) /\ <<>> \in Seq(ToServer(u))
  BY <1>1, GoodMessages
<1> QED
  BY <1>1, <1>2, <1>3, <1>4, <1>5, OwnInv

\* The timer of the bar finds the bar it was set for.
LEMMA BarTimeoutInv ==
    ASSUME IInv, NEW u \in Users, BarTimeout(u)
    PROVE  IInv'
<1> DEFINE p == [page[u] EXCEPT !.barTimer = None]
           d == page[u].barTimer
           who == page[u].bar.caller
<1>1. PageFits(u, page[u]) /\ Own /\ d \in Of(u) /\ who \in Waiters
  BY DEF IInv, BarTimeout, PageFits, Pages, Bars, Waiters
<1>2. CASE p.bar.dm = d /\ ~p.bar.waiting
  <2> DEFINE q == [p EXCEPT !.bar.waiting = TRUE, !.ringing = FALSE]
  <2>1. PageFits(u, q)
    BY <1>1 DEF PageFits, Pages, Bars, Rings
  <2>2. p.bar.caller = who
    BY <1>1 DEF PageFits, Pages
  <2>3. OnWaiting(p, d, p.bar.caller) = Marked(q, d, who)
    BY <1>2, <2>2 DEF OnWaiting, FlipBar
  <2>4. PageStep(u, Marked(q, d, who), <<>>)
    BY <1>2, <2>3 DEF BarTimeout
  <2> HIDE DEF q, p, d, who
  <2>5. PageFits(u, Marked(q, d, who))
    BY <1>1, <2>1, MarkedFits
  <2> QED
    BY <1>1, <2>4, <2>5, EmptySeq, OwnInv
<1>3. CASE ~(p.bar.dm = d /\ ~p.bar.waiting)
  <2>1. PageFits(u, p)
    BY <1>1, <1>3 DEF PageFits, Pages, Bars, Rings
  <2>2. PageStep(u, p, <<>>)
    BY <1>3 DEF BarTimeout
  <2> QED
    BY <1>1, <2>1, <2>2, EmptySeq, OwnInv
<1> QED
  BY <1>2, <1>3

\* What a message makes of a page, and what the page sends.
LEMMA HandleFits ==
    ASSUME IInv, NEW u \in Users, NEW m \in ToPage(u), Handle(u, m)
    PROVE  \E p : PageFits(u, p) /\ PageStep(u, p, <<>>)
<1> DEFINE p == page[u]
<1>0. PageFits(u, p) /\ m.dm \in Of(u) /\ m.who \in Waiters /\ m.list \in SUBSET Users
      /\ (m.type = "ring" => m.who \in Users)
  BY DEF IInv, ToPage, Bodies
<1>1. CASE m.type = "members"
  BY <1>0, <1>1, OnMembersFits DEF Handle
<1>2. CASE m.type = "joined"
  BY <1>0, <1>2, OnJoinedFits DEF Handle
<1>3. CASE m.type = "waiting"
  BY <1>0, <1>3, OnWaitingFits DEF Handle
<1>4. CASE m.type = "cleared"
  BY <1>0, <1>4, OnClearedFits DEF Handle
<1>5. CASE m.type = "declined"
  BY <1>0, <1>5, OnEndFits DEF Handle
<1>6. CASE m.type = "ended"
  BY <1>0, <1>6, OnEndFits DEF Handle
<1>7. CASE m.type = "ring"
  <2> DEFINE r == [p EXCEPT !.bar = Bar(m.dm, m.who), !.ringing = TRUE, !.barTimer = m.dm]
  <2>1. OnRing(u, m.dm, m.who)
    BY <1>7 DEF Handle
  <2>2. Bar(m.dm, m.who) \in Bars(u) /\ Bar(m.dm, m.who).dm = m.dm /\ ~Bar(m.dm, m.who).waiting
    BY <1>0, <1>7 DEF Bar, Bars
  <2>3. m.dm # None
    BY DEF ToPage
  <2>4. PageFits(u, r)
    BY <1>0, <2>2, <2>3 DEF PageFits, Pages, Rings
  <2>5. PageFits(u, Entering(p, m.dm, u, "wait"))
    BY <1>0, EnteringFits
  <2>6. \/ PageStep(u, p, <<>>) \/ PageStep(u, Entering(p, m.dm, u, "wait"), <<>>)
        \/ PageStep(u, r, <<>>)
    BY <2>1, Zenon DEF OnRing
  <2> QED
    BY <1>0, <2>4, <2>5, <2>6
<1> QED
  BY <1>1, <1>2, <1>3, <1>4, <1>5, <1>6, <1>7 DEF ToPage, Bodies

LEMMA ReceiveInv ==
    ASSUME IInv, NEW u \in Users, Receive(u)
    PROVE  IInv'
<1> DEFINE m == Head(inbox[u])
<1>0. inbox[u] \in Seq(ToPage(u)) /\ inbox[u] # <<>>
  BY DEF IInv, QueuesFit, Receive
<1>1. m \in ToPage(u) /\ Tail(inbox[u]) \in Seq(ToPage(u))
  BY <1>0, HeadTailProperties
<1>2. inbox' = [inbox EXCEPT ![u] = Tail(inbox[u])]
  BY DEF Receive
<1>3. inbox' \in [Users -> Seq(Messages)] /\ \A v \in Users : inbox'[v] \in Seq(ToPage(v))
  <2>1. Tail(inbox[u]) \in Seq(Messages)
    BY <1>1, MessagesTyped, SeqMonotonic
  <2> QED
    BY <1>1, <1>2, <2>1 DEF IInv, QueuesFit
<1>4. ServerFits' /\ evicted' = evicted /\ drops' = drops /\ up' = up
      /\ willing' \in [Users -> Dms \cup {None}] /\ crossed' \subseteq Dms
  BY ServerSame DEF Receive, IInv
<1>5. acts' \in 0..MaxActs
  BY BoundAssumption DEF IInv, Receive
<1>6. \E p, msgs : PageFits(u, p) /\ msgs \in Seq(ToServer(u)) /\ PageStep(u, p, msgs)
  <2>1. CASE Handle(u, m)
    BY <1>1, <2>1, HandleFits, EmptySeq
  <2>2. CASE Muted(u, m.dm)
    <3>1. m.dm \in Of(u)
      BY <1>1 DEF ToPage, Bodies
    <3>2. <<Msg("end", m.dm)>> \in Seq(ToServer(u))
      BY <3>1, GoodMessages
    <3> QED
      BY <2>2, <3>2 DEF Muted, IInv
  <2> QED
    BY <2>1, <2>2 DEF Receive
<1> HIDE DEF m
<1> QED
  BY <1>3, <1>4, <1>5, <1>6, PageStepInv

-----------------------------------------------------------------------------
(* Connections *)

\* A connection is made or lost, and with it the queues of its page.
LEMMA SocketInv ==
    ASSUME IInv, NEW u \in Users, NEW p, PageFits(u, p),
           page' = page \/ page' = [page EXCEPT ![u] = p],
           NEW msgs, msgs \in Seq(ToServer(u)), Len(msgs) <= MaxQueue,
           out' = [out EXCEPT ![u] = msgs],
           inbox' = inbox \/ inbox' = [inbox EXCEPT ![u] = <<>>],
           NEW b \in BOOLEAN, up' = [up EXCEPT ![u] = b],
           ServerFits', evicted' = evicted, acts' = acts, drops' \in 0..MaxDrops,
           willing' \in [Users -> Dms \cup {None}], crossed' = crossed
    PROVE  IInv'
<1>1. DOMAIN page' = Users /\ \A v \in Users : PageFits(v, page'[v])
  BY DEF IInv
<1>2. msgs \in Seq(Messages)
  BY MessagesTyped, SeqMonotonic
<1>3. out' \in [Users -> Seq(Messages)]
      /\ \A v \in Users : out'[v] \in Seq(ToServer(v)) /\ Len(out'[v]) <= MaxQueue
  BY <1>2 DEF IInv, QueuesFit
<1>4. inbox' \in [Users -> Seq(Messages)] /\ \A v \in Users : inbox'[v] \in Seq(ToPage(v))
  <2>1. inbox \in [Users -> Seq(Messages)] /\ \A v \in Users : inbox[v] \in Seq(ToPage(v))
    BY DEF IInv, QueuesFit
  <2>2. <<>> \in Seq(Messages) /\ <<>> \in Seq(ToPage(u))
    BY EmptySeq
  <2> QED
    BY <2>1, <2>2
<1>5. up' \in [Users -> BOOLEAN] /\ acts' \in 0..MaxActs /\ evicted' \subseteq Users
      /\ crossed' \subseteq Dms
  BY DEF IInv
<1> QED
  BY <1>1, <1>3, <1>4, <1>5 DEF IInv, QueuesFit

LEMMA ConnectInv ==
    ASSUME IInv, NEW u \in Users, Connect(u)
    PROVE  IInv'
<1> DEFINE s == Synced(u, page[u])
           p == [s EXCEPT !.jobs = s.jobs \cup {Fetched}]
<1>1. PageFits(u, page[u])
  BY DEF IInv
<1>2. PageFits(u, s)
  BY <1>1, SyncedFits
<1>3. PageFits(u, p)
  <2> HIDE DEF s
  <2> QED
    BY <1>2, AskedFits
<1>4. page' = [page EXCEPT ![u] = p]
  BY DEF Connect
<1>5. Rejoin(page[u]) \in Seq(ToServer(u)) /\ Len(Rejoin(page[u])) <= MaxQueue
  <2>1. page[u].room # None => page[u].room \in Of(u)
    BY <1>1 DEF PageFits, Pages
  <2>2. Msg("leave_all", None) \in ToServer(u)
    BY DEF Msg, ToServer, Bodies, Waiters
  <2> QED
    BY <2>1, <2>2, GoodMessages, BoundAssumption DEF Rejoin
<1>6. ServerFits' /\ evicted' = evicted /\ drops' \in 0..MaxDrops
      /\ willing' \in [Users -> Dms \cup {None}]
  BY ServerSame DEF Connect, IInv
<1> HIDE DEF p
<1> QED
  BY <1>3, <1>4, <1>5, <1>6, SocketInv DEF Connect

LEMMA CutInv ==
    ASSUME IInv, NEW u \in Users, Cut(u), NEW p, PageFits(u, p),
           page' = page \/ page' = [page EXCEPT ![u] = p],
           willing' \in [Users -> Dms \cup {None}]
    PROVE  IInv'
<1>1. ServerFits' /\ evicted' = evicted
  BY DEF Cut, IInv, ServerFits
<1>2. drops' \in 0..MaxDrops
  BY BoundAssumption DEF Cut, IInv
<1>3. <<>> \in Seq(ToServer(u)) /\ Len(<<>>) <= MaxQueue
  BY EmptySeq, BoundAssumption
<1> QED
  BY <1>1, <1>2, <1>3, SocketInv DEF Cut

LEMMA LossInv ==
    ASSUME IInv, NEW u \in Users, LoseSocket(u) \/ Reload(u)
    PROVE  IInv'
<1>1. CASE LoseSocket(u)
  <2>1. PageFits(u, page[u]) /\ page' = page
    BY <1>1 DEF LoseSocket, IInv
  <2>2. willing' \in [Users -> Dms \cup {None}]
    BY <1>1 DEF LoseSocket, IInv
  <2> QED
    BY <1>1, <2>1, <2>2, CutInv DEF LoseSocket
<1>2. CASE Reload(u)
  <2>1. willing' \in [Users -> Dms \cup {None}]
    BY <1>2 DEF Reload, IInv, Wants
  <2> QED
    BY <1>2, <2>1, NewPageFits, CutInv DEF Reload
<1> QED
  BY <1>1, <1>2

-----------------------------------------------------------------------------
(* The server *)

\* What is left when the server has taken a step: it touches no page.
LEMMA ServerStepInv ==
    ASSUME IInv, ServerFits', page' = page, up' = up, acts' = acts, drops' = drops,
           willing' = willing, crossed' = crossed, evicted' \subseteq Users,
           out' \in [Users -> Seq(Messages)],
           \A v \in Users : out'[v] \in Seq(ToServer(v)) /\ Len(out'[v]) <= MaxQueue,
           inbox' \in [Users -> Seq(Messages)], \A v \in Users : inbox'[v] \in Seq(ToPage(v))
    PROVE  IInv'
  BY DEF IInv, QueuesFit

LEMMA OutSame ==
    IInv /\ out' = out =>
        /\ out' \in [Users -> Seq(Messages)]
        /\ \A v \in Users : out'[v] \in Seq(ToServer(v)) /\ Len(out'[v]) <= MaxQueue
  BY DEF IInv, QueuesFit

\* The handlers of the server, one by one.
LEMMA JoinFits ==
    ASSUME IInv, NEW u \in Users, NEW d \in Of(u), Join(u, d), leaving' \subseteq Users
    PROVE  /\ ServerFits' /\ inbox' \in [Users -> Seq(Messages)]
           /\ \A v \in Users : inbox'[v] \in Seq(ToPage(v))
<1> DEFINE now == members[d] \cup {u}
           list == Listing("members", d, now)
           to == [v \in Users |->
              IF v \notin now THEN <<>>
              ELSE IF v = u THEN <<list, Listing("joined", d, now)>> ELSE <<list>>]
<1>1. d \in Dms /\ u \in d /\ members[d] \subseteq d /\ now \subseteq d /\ d \subseteq Users
  BY DmAssumption DEF Of, IInv, ServerFits
<1>2. ASSUME NEW v \in Users PROVE to[v] \in Seq(ToPage(v))
  <2>1. CASE v \in now
    <3>1. d \in Of(v)
      BY <1>1, <2>1 DEF Of
    <3>2. list \in ToPage(v) /\ Listing("joined", d, now) \in ToPage(v)
      BY <1>1, <3>1, GoodMessages
    <3> HIDE DEF list, now
    <3> QED
      BY <3>2
  <2>2. CASE v \notin now
    BY <2>2, EmptySeq
  <2> QED
    BY <2>1, <2>2
<1>3. Delivered(to)
  BY DEF Join
<1>4. members' = [members EXCEPT ![d] = now] /\ grace' = grace
      /\ stored' = [stored EXCEPT ![d] = IF now = d THEN None ELSE u]
  BY DEF Join
<1>5. ServerFits'
  <2> HIDE DEF now
  <2> QED
    BY <1>1, <1>4 DEF IInv, ServerFits
<1> HIDE DEF to
<1> QED
  BY <1>2, <1>3, <1>5, DeliveredFits

LEMMA RemoveFits ==
    ASSUME IInv, NEW u \in Users, NEW d \in Of(u), NEW explicit, Remove(u, d, explicit),
           leaving' \subseteq Users
    PROVE  /\ ServerFits' /\ inbox' \in [Users -> Seq(Messages)]
           /\ \A v \in Users : inbox'[v] \in Seq(ToPage(v))
<1> DEFINE now == members[d] \ {u}
           v == Other(d, u)
<1>1. d \in Dms /\ now \subseteq d /\ d \subseteq Users /\ v \in d /\ v \in Users /\ d \in Of(v)
  BY DmAssumption, OtherOne DEF Of, IInv, ServerFits
<1>2. members' = [members EXCEPT ![d] = now]
  BY DEF Remove
<1> HIDE DEF v
<1>3. CASE now # {}
  <2>1. stored' = [stored EXCEPT ![d] = v] /\ grace' = grace
        /\ Delivered(ToOnly(v, <<Listing("members", d, now), From("waiting", d, Absent)>>))
    BY <1>3 DEF Remove, v
  <2> HIDE DEF now
  <2>2. ServerFits'
    BY <1>1, <1>2, <2>1 DEF IInv, ServerFits
  <2>3. <<Listing("members", d, now), From("waiting", d, Absent)>> \in Seq(ToPage(v))
    <3>1. Listing("members", d, now) \in ToPage(v) /\ From("waiting", d, Absent) \in ToPage(v)
      BY <1>1, GoodMessages DEF Waiters
    <3> QED
      BY <3>1
  <2> QED
    BY <1>1, <2>1, <2>2, <2>3, OneDelivered
<1>4. CASE now = {} /\ explicit
  <2>1. stored' = [stored EXCEPT ![d] = None] /\ grace' = grace
        /\ Delivered(ToOnly(v, <<Msg("ended", d)>>))
    BY <1>4 DEF Remove, v
  <2>2. ServerFits'
    BY <1>1, <1>2, <1>4, <2>1 DEF IInv, ServerFits
  <2>3. <<Msg("ended", d)>> \in Seq(ToPage(v))
    BY <1>1, GoodMessages
  <2> QED
    BY <1>1, <2>1, <2>2, <2>3, OneDelivered
<1>5. CASE now = {} /\ ~explicit
  <2>1. grace' = grace \cup {[dm |-> d, who |-> u]} /\ stored' = stored /\ Delivered(Nothing)
    BY <1>5 DEF Remove
  <2>2. ServerFits'
    BY <1>1, <1>2, <1>5, <2>1 DEF IInv, ServerFits
  <2>3. \A w \in Users : Nothing[w] \in Seq(ToPage(w))
    BY EmptySeq DEF Nothing
  <2> QED
    BY <2>1, <2>2, <2>3, DeliveredFits
<1> QED
  BY <1>3, <1>4, <1>5

LEMMA ToldFits ==
    ASSUME IInv, NEW u \in Users, NEW d \in Of(u),
           Ring(u, d) \/ CallWaiting(u, d) \/ CallDeclined(u, d), leaving' \subseteq Users
    PROVE  /\ ServerFits' /\ inbox' \in [Users -> Seq(Messages)]
           /\ \A v \in Users : inbox'[v] \in Seq(ToPage(v))
<1> DEFINE v == Other(d, u)
<1>1. d \in Dms /\ v \in Users /\ d \in Of(v) /\ v # u /\ u \in Waiters /\ v \in Waiters
  BY OtherOne DEF Of, Waiters
<1>2. ServerFits'
  <2>1. members' = members /\ grace' = grace
        /\ \E w \in Users : stored' = stored \/ stored' = [stored EXCEPT ![d] = w]
    BY <1>1 DEF Ring, CallWaiting, CallDeclined
  <2> QED
    BY <1>1, <2>1 DEF IInv, ServerFits
<1>3. CASE Ring(u, d)
  <2>1. <<From("ring", d, u)>> \in Seq(ToPage(v))
    BY <1>1, GoodMessages
  <2> QED
    BY <1>1, <1>2, <1>3, <2>1, OneDelivered DEF Ring
<1>4. CASE CallWaiting(u, d)
  <2>1. <<From("waiting", d, u)>> \in Seq(ToPage(v))
    BY <1>1, GoodMessages
  <2> QED
    BY <1>1, <1>2, <1>4, <2>1, OneDelivered DEF CallWaiting
<1>5. CASE CallDeclined(u, d)
  <2> DEFINE to == [w \in Users |-> CASE w = v -> <<Msg("declined", d)>>
                                    [] w = u -> <<From("waiting", d, v)>>
                                    [] OTHER -> <<>>]
  <2>1. <<Msg("declined", d)>> \in Seq(ToPage(v)) /\ <<From("waiting", d, v)>> \in Seq(ToPage(u))
    BY <1>1, GoodMessages
  <2>2. Delivered(to)
    BY <1>5 DEF CallDeclined
  <2>3. \A w \in Users : to[w] \in Seq(ToPage(w))
    <3> HIDE DEF v
    <3> QED
      BY <2>1, EmptySeq
  <2> HIDE DEF to
  <2> QED
    BY <1>2, <2>2, <2>3, DeliveredFits
<1> QED
  BY <1>3, <1>4, <1>5

LEMMA SameFits ==
    ASSUME IInv, Same, leaving' \subseteq Users
    PROVE  /\ ServerFits' /\ inbox' \in [Users -> Seq(Messages)]
           /\ \A v \in Users : inbox'[v] \in Seq(ToPage(v))
  BY DEF Same, IInv, ServerFits, QueuesFit

LEMMA RoomsFit ==
    ASSUME IInv, NEW u \in Users
    PROVE  Rooms(u) \subseteq Of(u)
  BY DEF Rooms, Of, IInv, ServerFits

\* A message of a page is handled.
LEMMA ServeInv ==
    ASSUME IInv, NEW u \in Users, Serve(u)
    PROVE  IInv'
<1> DEFINE m == Head(out[u])
<1>0. out[u] \in Seq(ToServer(u)) /\ out[u] # <<>> /\ Len(out[u]) <= MaxQueue
  BY DEF IInv, QueuesFit, Serve
<1>1. m \in ToServer(u) /\ Tail(out[u]) \in Seq(ToServer(u))
      /\ Len(Tail(out[u])) <= MaxQueue
  BY <1>0, HeadTailProperties, LenProperties, BoundAssumption
<1>2. m.type # "leave_all" => m.dm \in Of(u)
  BY <1>1 DEF ToServer, Bodies
<1>3. leaving' \subseteq Users /\ evicted' \subseteq Users
  BY DEF Serve, IInv, ServerFits
<1>4. page' = page /\ up' = up /\ acts' = acts /\ drops' = drops
      /\ willing' = willing /\ crossed' = crossed
  BY DEF Serve
<1>5. out' \in [Users -> Seq(Messages)]
      /\ \A v \in Users : out'[v] \in Seq(ToServer(v)) /\ Len(out'[v]) <= MaxQueue
  <2>1. PICK q \in {out[u], Tail(out[u])} : out' = [out EXCEPT ![u] = q]
    <3> DEFINE c == m.type = "leave_all" /\ Cardinality(Rooms(u)) > 1
    <3>1. out' = [out EXCEPT ![u] = IF c THEN out[u] ELSE Tail(out[u])]
      BY DEF Serve, IInv, QueuesFit
    <3> HIDE DEF c
    <3> QED
      BY <3>1
  <2>2. q \in Seq(Messages)
    BY <1>0, <1>1, <2>1, MessagesTyped, SeqMonotonic
  <2> QED
    BY <1>0, <1>1, <2>1, <2>2 DEF IInv, QueuesFit
<1>6. /\ ServerFits' /\ inbox' \in [Users -> Seq(Messages)]
      /\ \A v \in Users : inbox'[v] \in Seq(ToPage(v))
  <2>1. CASE m.type = "join"
    BY <1>2, <1>3, <2>1, JoinFits DEF Serve
  <2>2. CASE m.type = "leave"
    BY <1>2, <1>3, <2>2, RemoveFits, SameFits DEF Serve
  <2>3. CASE m.type = "leave_all"
    BY <1>3, <2>3, RoomsFit, RemoveFits, SameFits DEF Serve
  <2>4. CASE m.type \in {"ring", "waiting", "end"}
    BY <1>2, <1>3, <2>4, ToldFits DEF Serve
  <2> QED
    BY <1>1, <2>1, <2>2, <2>3, <2>4 DEF ToServer, Bodies
<1> QED
  BY <1>3, <1>4, <1>5, <1>6, ServerStepInv

LEMMA CleanupInv ==
    ASSUME IInv, NEW u \in Users, Cleanup(u)
    PROVE  IInv'
<1>1. leaving' \subseteq Users /\ evicted' \subseteq Users
  BY DEF Cleanup, IInv, ServerFits
<1>2. /\ ServerFits' /\ inbox' \in [Users -> Seq(Messages)]
      /\ \A v \in Users : inbox'[v] \in Seq(ToPage(v))
  BY <1>1, RoomsFit, RemoveFits, SameFits DEF Cleanup
<1> QED
  BY <1>1, <1>2, OutSame, ServerStepInv DEF Cleanup

LEMMA TimersInv ==
    ASSUME IInv, GraceOver \/ SweepWaiting
    PROVE  IInv'
<1>1. leaving' \subseteq Users /\ evicted' \subseteq Users
  BY DEF GraceOver, SweepWaiting, IInv, ServerFits
<1>2. ASSUME NEW d \in Dms, NEW who, Delivered(ToOnly(Other(d, who), <<Msg("cleared", d)>>))
      PROVE  /\ inbox' \in [Users -> Seq(Messages)]
             /\ \A v \in Users : inbox'[v] \in Seq(ToPage(v))
  <2> DEFINE v == Other(d, who)
  <2>1. v \in Users /\ d \in Of(v)
    BY OtherOne DEF Of
  <2>2. <<Msg("cleared", d)>> \in Seq(ToPage(v))
    BY <2>1, GoodMessages
  <2> HIDE DEF v
  <2> QED
    BY <1>2, <2>1, <2>2, OneDelivered DEF v
<1>3. CASE GraceOver
  <2>1. PICK g \in grace :
          /\ grace' = grace \ {g}
          /\ IF members[g.dm] = {}
             THEN /\ stored' = [stored EXCEPT ![g.dm] = None]
                  /\ Delivered(ToOnly(Other(g.dm, g.who), <<Msg("cleared", g.dm)>>))
             ELSE UNCHANGED <<stored, inbox>>
    BY <1>3 DEF GraceOver
  <2>2. g.dm \in Dms
    BY DEF IInv, ServerFits
  <2>3. ServerFits'
    BY <1>3, <2>1, <2>2 DEF IInv, ServerFits, GraceOver
  <2>4. /\ inbox' \in [Users -> Seq(Messages)]
        /\ \A v \in Users : inbox'[v] \in Seq(ToPage(v))
    BY <1>2, <2>1, <2>2, InboxSame
  <2> QED
    BY <1>1, <1>3, <2>3, <2>4, OutSame, ServerStepInv DEF GraceOver
<1>4. CASE SweepWaiting
  <2>1. PICK d \in Dms : /\ stored' = [stored EXCEPT ![d] = None]
                         /\ Delivered(ToOnly(Other(d, stored[d]), <<Msg("cleared", d)>>))
    BY <1>4 DEF SweepWaiting
  <2>2. ServerFits'
    BY <1>4, <2>1 DEF IInv, ServerFits, SweepWaiting
  <2> QED
    BY <1>1, <1>2, <1>4, <2>1, <2>2, OutSame, ServerStepInv DEF SweepWaiting
<1> QED
  BY <1>3, <1>4

-----------------------------------------------------------------------------
(* No ghost calls: a page with a partner is in its room, or will be *)

\* A message to the server that changes whether its sender is in d.
Moves(m, d) == m.type \in {"join", "leave_all"} \/ (m.type = "leave" /\ m.dm = d)
Stays(q, d) == \A i \in 1..Len(q) : ~Moves(q[i], d)

\* The queue ends in the room of d, and tells the page so.
Enters(q, d) ==
    \E i \in 1..Len(q) :
        q[i].type = "join" /\ q[i].dm = d /\ \A k \in i + 1..Len(q) : ~Moves(q[k], d)
Quietly(q) == \A i \in 1..Len(q) : q[i].type # "joined"
Shows(q, d) ==
    \E i \in 1..Len(q) :
        q[i].type = "joined" /\ q[i].dm = d /\ \A k \in i + 1..Len(q) : q[k].type # "joined"

\* A function of the page is about to enter a room.
Coming(p) == \E j \in p.jobs : j.then # "refresh"

\* The page of u has entered d, or has been thrown out by the clean-up of its
\* old connection, and will show d when it has read its messages.
In(u, d) ==
    /\ Stays(out[u], d) /\ (u \in members[d] \/ u \in evicted)
    /\ Shows(inbox[u], d) \/ (Quietly(inbox[u]) /\ page[u].room = d)
Present(u) ==
    up[u] /\ page[u].partner # None =>
        Coming(page[u]) \/ \E d \in Of(u) : Enters(out[u], d) \/ In(u, d)
GInv == \A u \in Users : Present(u)

-----------------------------------------------------------------------------
(* Queues *)

\* Appending messages: whoever stays in d, or ends there, still does when
\* nothing appended moves it.
LEMMA StaysOn ==
    ASSUME NEW S, NEW q \in Seq(S), NEW r \in Seq(S), NEW d, Stays(r, d)
    PROVE  /\ Stays(q, d) => Stays(q \o r, d)
           /\ Enters(q, d) => Enters(q \o r, d)
<1>1. /\ Len(q) \in Nat /\ Len(r) \in Nat /\ Len(q \o r) = Len(q) + Len(r)
      /\ \A i \in 1..Len(q) + Len(r) :
            (q \o r)[i] = IF i <= Len(q) THEN q[i] ELSE r[i - Len(q)]
  BY ConcatProperties, LenProperties
<1>2. \A i \in 1..Len(q \o r) : i > Len(q) => i - Len(q) \in 1..Len(r)
  BY <1>1
<1>3. \A i \in 1..Len(q \o r) : i > Len(q) => ~Moves((q \o r)[i], d)
  BY <1>1, <1>2 DEF Stays
<1>4. Stays(q, d) => Stays(q \o r, d)
  BY <1>1, <1>3 DEF Stays
<1>5. ASSUME Enters(q, d) PROVE Enters(q \o r, d)
  <2>1. PICK i \in 1..Len(q) :
          q[i].type = "join" /\ q[i].dm = d /\ \A k \in i + 1..Len(q) : ~Moves(q[k], d)
    BY <1>5 DEF Enters
  <2>2. i \in 1..Len(q \o r) /\ (q \o r)[i] = q[i]
    BY <1>1
  <2>3. ASSUME NEW k \in i + 1..Len(q \o r) PROVE ~Moves((q \o r)[k], d)
    <3>1. k \in 1..Len(q \o r)
      BY <1>1
    <3>2. CASE k > Len(q)
      BY <1>3, <3>1, <3>2
    <3>3. CASE k <= Len(q)
      BY <1>1, <2>1, <3>1, <3>3
    <3> QED
      BY <1>1, <3>2, <3>3
  <2> QED
    BY <2>1, <2>2, <2>3 DEF Enters
<1> QED
  BY <1>4, <1>5

\* Whatever was queued before, the end decides.
LEMMA EntersAfter ==
    ASSUME NEW S, NEW q \in Seq(S), NEW r \in Seq(S), NEW d, Enters(r, d)
    PROVE  Enters(q \o r, d)
<1>1. /\ Len(q) \in Nat /\ Len(r) \in Nat /\ Len(q \o r) = Len(q) + Len(r)
      /\ \A i \in 1..Len(q) + Len(r) :
            (q \o r)[i] = IF i <= Len(q) THEN q[i] ELSE r[i - Len(q)]
  BY ConcatProperties, LenProperties
<1>2. PICK i \in 1..Len(r) :
        r[i].type = "join" /\ r[i].dm = d /\ \A k \in i + 1..Len(r) : ~Moves(r[k], d)
  BY DEF Enters
<1>3. /\ Len(q) + i \in 1..Len(q \o r) /\ ~(Len(q) + i <= Len(q))
      /\ (Len(q) + i) - Len(q) = i
  BY <1>1
<1>4. (q \o r)[Len(q) + i] = r[i]
  BY <1>1, <1>3
<1>5. ASSUME NEW k \in Len(q) + i + 1..Len(q \o r) PROVE ~Moves((q \o r)[k], d)
  <2>1. k \in 1..Len(q) + Len(r) /\ ~(k <= Len(q)) /\ k - Len(q) \in i + 1..Len(r)
    BY <1>1
  <2>2. (q \o r)[k] = r[k - Len(q)]
    BY <1>1, <2>1
  <2> QED
    BY <1>2, <2>1, <2>2
<1> QED
  BY <1>2, <1>3, <1>4, <1>5 DEF Enters

\* What is left when the first message has been handled.
LEMMA TailIndex ==
    ASSUME NEW S, NEW q \in Seq(S), q # <<>>
    PROVE  /\ Tail(q) \in Seq(S) /\ Len(q) \in Nat /\ Len(q) > 0
           /\ Len(Tail(q)) = Len(q) - 1 /\ Head(q) = q[1]
           /\ \A i \in 1..Len(Tail(q)) : i + 1 \in 1..Len(q) /\ Tail(q)[i] = q[i + 1]
  BY HeadTailProperties, LenProperties, EmptySeq

\* The server handles the first message: the page is then in d, or what makes
\* it enter d is still queued.
LEMMA TailEnters ==
    ASSUME NEW S, NEW q \in Seq(S), q # <<>>, NEW d
    PROVE  /\ Stays(q, d) => Stays(Tail(q), d) /\ ~Moves(Head(q), d)
           /\ Enters(q, d) => \/ Enters(Tail(q), d)
                              \/ Head(q).type = "join" /\ Head(q).dm = d /\ Stays(Tail(q), d)
<1>1. /\ Len(q) \in Nat /\ Len(q) > 0 /\ Len(Tail(q)) = Len(q) - 1 /\ Head(q) = q[1]
      /\ \A i \in 1..Len(Tail(q)) : i + 1 \in 1..Len(q) /\ Tail(q)[i] = q[i + 1]
  BY TailIndex
<1>2. Stays(q, d) => Stays(Tail(q), d) /\ ~Moves(Head(q), d)
  BY <1>1 DEF Stays
<1>3. ASSUME Enters(q, d)
      PROVE  \/ Enters(Tail(q), d)
             \/ Head(q).type = "join" /\ Head(q).dm = d /\ Stays(Tail(q), d)
  <2>1. PICK i \in 1..Len(q) :
          q[i].type = "join" /\ q[i].dm = d /\ \A k \in i + 1..Len(q) : ~Moves(q[k], d)
    BY <1>3 DEF Enters
  <2>2. CASE i = 1
    BY <1>1, <2>1, <2>2 DEF Stays
  <2>3. CASE i > 1
    <3>1. i - 1 \in 1..Len(Tail(q)) /\ (i - 1) + 1 = i
      BY <1>1, <2>3
    <3>2. Tail(q)[i - 1] = q[i]
      BY <1>1, <3>1
    <3>3. ASSUME NEW k \in (i - 1) + 1..Len(Tail(q)) PROVE ~Moves(Tail(q)[k], d)
      <4>1. k \in 1..Len(Tail(q)) /\ k + 1 \in i + 1..Len(q)
        BY <1>1, <2>3
      <4> QED
        BY <1>1, <2>1, <4>1
    <3> QED
      BY <2>1, <3>1, <3>2, <3>3 DEF Enters
  <2> QED
    BY <2>2, <2>3
<1> QED
  BY <1>2, <1>3

\* The same for the queue to the page.
LEMMA QuietlyOn ==
    ASSUME NEW S, NEW q \in Seq(S), NEW r \in Seq(S), NEW d, Quietly(r)
    PROVE  /\ Quietly(q) => Quietly(q \o r)
           /\ Shows(q, d) => Shows(q \o r, d)
<1>1. /\ Len(q) \in Nat /\ Len(r) \in Nat /\ Len(q \o r) = Len(q) + Len(r)
      /\ \A i \in 1..Len(q) + Len(r) :
            (q \o r)[i] = IF i <= Len(q) THEN q[i] ELSE r[i - Len(q)]
  BY ConcatProperties, LenProperties
<1>2. \A i \in 1..Len(q \o r) : i > Len(q) => i - Len(q) \in 1..Len(r)
  BY <1>1
<1>3. \A i \in 1..Len(q \o r) : i > Len(q) => (q \o r)[i].type # "joined"
  BY <1>1, <1>2 DEF Quietly
<1>4. Quietly(q) => Quietly(q \o r)
  BY <1>1, <1>3 DEF Quietly
<1>5. ASSUME Shows(q, d) PROVE Shows(q \o r, d)
  <2>1. PICK i \in 1..Len(q) :
          q[i].type = "joined" /\ q[i].dm = d /\ \A k \in i + 1..Len(q) : q[k].type # "joined"
    BY <1>5 DEF Shows
  <2>2. i \in 1..Len(q \o r) /\ (q \o r)[i] = q[i]
    BY <1>1
  <2>3. ASSUME NEW k \in i + 1..Len(q \o r) PROVE (q \o r)[k].type # "joined"
    <3>1. k \in 1..Len(q \o r)
      BY <1>1
    <3>2. CASE k > Len(q)
      BY <1>3, <3>1, <3>2
    <3>3. CASE k <= Len(q)
      BY <1>1, <2>1, <3>1, <3>3
    <3> QED
      BY <1>1, <3>2, <3>3
  <2> QED
    BY <2>1, <2>2, <2>3 DEF Shows
<1> QED
  BY <1>4, <1>5

\* The last "joined" decides which room the page shows.
LEMMA ShowsAfter ==
    ASSUME NEW S, NEW q \in Seq(S), NEW m \in S, NEW n \in S, NEW d,
           n.type = "joined", n.dm = d
    PROVE  Shows(q \o <<m, n>>, d)
<1> DEFINE r == q \o <<m, n>>
<1>1. <<m, n>> \in Seq(S) /\ Len(<<m, n>>) = 2 /\ <<m, n>>[2] = n /\ Len(q) \in Nat
  BY LenProperties
<1>2. /\ Len(r) = Len(q) + 2
      /\ r[Len(q) + 2] = n
  BY <1>1, ConcatProperties
<1>3. Len(q) + 2 \in 1..Len(r) /\ \A k \in Len(q) + 2 + 1..Len(r) : FALSE
  BY <1>1, <1>2
<1> HIDE DEF r
<1>4. Shows(r, d)
  BY <1>2, <1>3 DEF Shows
<1> QED
  BY <1>4 DEF r

\* The page reads the first message: it then shows d, or will later.
LEMMA TailShows ==
    ASSUME NEW S, NEW q \in Seq(S), q # <<>>, NEW d
    PROVE  /\ Quietly(q) => Quietly(Tail(q)) /\ Head(q).type # "joined"
           /\ Shows(q, d) => \/ Shows(Tail(q), d)
                             \/ Head(q).type = "joined" /\ Head(q).dm = d /\ Quietly(Tail(q))
<1>1. /\ Len(q) \in Nat /\ Len(q) > 0 /\ Len(Tail(q)) = Len(q) - 1 /\ Head(q) = q[1]
      /\ \A i \in 1..Len(Tail(q)) : i + 1 \in 1..Len(q) /\ Tail(q)[i] = q[i + 1]
  BY TailIndex
<1>2. Quietly(q) => Quietly(Tail(q)) /\ Head(q).type # "joined"
  BY <1>1 DEF Quietly
<1>3. ASSUME Shows(q, d)
      PROVE  \/ Shows(Tail(q), d)
             \/ Head(q).type = "joined" /\ Head(q).dm = d /\ Quietly(Tail(q))
  <2>1. PICK i \in 1..Len(q) :
          q[i].type = "joined" /\ q[i].dm = d /\ \A k \in i + 1..Len(q) : q[k].type # "joined"
    BY <1>3 DEF Shows
  <2>2. CASE i = 1
    BY <1>1, <2>1, <2>2 DEF Quietly
  <2>3. CASE i > 1
    <3>1. i - 1 \in 1..Len(Tail(q)) /\ (i - 1) + 1 = i
      BY <1>1, <2>3
    <3>2. Tail(q)[i - 1] = q[i]
      BY <1>1, <3>1
    <3>3. ASSUME NEW k \in (i - 1) + 1..Len(Tail(q)) PROVE Tail(q)[k].type # "joined"
      <4>1. k \in 1..Len(Tail(q)) /\ k + 1 \in i + 1..Len(q)
        BY <1>1, <2>3
      <4> QED
        BY <1>1, <2>1, <4>1
    <3> QED
      BY <2>1, <3>1, <3>2, <3>3 DEF Shows
  <2> QED
    BY <2>2, <2>3
<1> QED
  BY <1>2, <1>3

-----------------------------------------------------------------------------
(* Steps of the page *)

\* The page stays where it is, or gives up its partner, or is about to enter.
Alike(p, q) == q.room = p.room /\ q.partner = p.partner /\ (Coming(p) => Coming(q))
Follows(p, q) == Alike(p, q) \/ q.partner = None \/ Coming(q)

\* Which operators leave room, partner and entering jobs as they are (the
\* lemmas ...Alike), and which end a call (...Follows).
LEMMA SameAlike == ASSUME NEW p, NEW q, q.room = p.room, q.partner = p.partner, q.jobs = p.jobs
                   PROVE  Alike(p, q)
  BY DEF Alike, Coming

LEMMA LeftFollows ==
    ASSUME NEW u \in Users, NEW p, PageFits(u, p)
    PROVE  Left(p).partner = None
<1>1. PageFits(u, TornDown(p)) /\ TornDown(p).partner = None
  BY TornDownFits
<1> QED
  BY <1>1 DEF Left, Hidden, PageFits, Pages

LEMMA EnteringComes ==
    ASSUME NEW u \in Users, NEW p, PageFits(u, p), NEW d,
           NEW then \in {"start", "accept", "wait"}
    PROVE  Coming(Entering(p, d, u, then))
<1>1. Job(then, d) \in Entering(p, d, u, then).jobs
  BY DEF Entering, PageFits, Pages
<1> QED
  BY <1>1 DEF Coming, Job

LEMMA UnmarkedAlike ==
    ASSUME NEW u \in Users, NEW p, PageFits(u, p), NEW d
    PROVE  Alike(p, Unmarked(p, d))
  BY UnmarkedFits, SameAlike

LEMMA MarkedAlike ==
    ASSUME NEW u \in Users, NEW p, PageFits(u, p), NEW d, NEW who
    PROVE  Alike(p, Marked(p, d, who))
<1>1. LET q == Marked(p, d, who) IN q.room = p.room /\ q.partner = p.partner /\ q.jobs = p.jobs
  BY DEF Marked, PageFits, Pages
<1> QED
  BY <1>1, SameAlike

LEMMA AlikeTwice ==
    ASSUME NEW p, NEW q, NEW r, Alike(p, q), Alike(q, r)
    PROVE  Alike(p, r)
  BY DEF Alike

LEMMA NoIncomingAlike ==
    ASSUME NEW u \in Users, NEW p, PageFits(u, p)
    PROVE  Alike(p, NoIncoming(p)) /\ Alike(p, [NoIncoming(p) EXCEPT !.ringing = FALSE])
<1>1. /\ NoIncoming(p) = [p EXCEPT !.barTimer = None, !.bar = NoBar]
      /\ [NoIncoming(p) EXCEPT !.ringing = FALSE] =
            [p EXCEPT !.barTimer = None, !.bar = NoBar, !.ringing = FALSE]
  BY DEF NoIncoming, Hidden, PageFits, Pages
<1>2. Alike(p, [p EXCEPT !.barTimer = None, !.bar = NoBar])
  BY DEF PageFits, Pages, Alike, Coming
<1>3. Alike(p, [p EXCEPT !.barTimer = None, !.bar = NoBar, !.ringing = FALSE])
  BY DEF PageFits, Pages, Alike, Coming
<1> QED
  BY <1>1, <1>2, <1>3

LEMMA MarkAnsweredAlike ==
    ASSUME NEW u \in Users, NEW p, PageFits(u, p)
    PROVE  Alike(p, MarkAnswered(p))
<1> DEFINE q == [p EXCEPT !.answered = p.answered \/ p.active, !.waiting = FALSE,
                   !.ringTimer = IF p.active /\ ~p.answered THEN None ELSE p.ringTimer]
<1>1. PageFits(u, q) /\ Alike(p, q) /\ Alike(p, p)
  BY ZenonT(60) DEF PageFits, Pages, Rings, Alike, Coming
<1>2. MarkAnswered(p) = p \/ MarkAnswered(p) = Unmarked(q, p.room)
  BY DEF MarkAnswered
<1> HIDE DEF q
<1> QED
  BY <1>1, <1>2, UnmarkedAlike, AlikeTwice

LEMMA OnWaitingAlike ==
    ASSUME NEW u \in Users, NEW p, PageFits(u, p), NEW d, NEW who
    PROVE  Alike(p, OnWaiting(p, d, who))
<1> DEFINE q == [p EXCEPT !.bar.waiting = TRUE, !.ringing = FALSE]
<1>1. PageFits(u, FlipCall(p)) /\ Alike(p, FlipCall(p)) /\ Alike(p, p)
  BY DEF PageFits, Pages, Rings, FlipCall, Alike, Coming
<1>2. PageFits(u, q)
  BY ZenonT(60) DEF PageFits, Pages, Bars, Rings
<1>3. Alike(p, q)
  BY DEF PageFits, Pages, Alike, Coming
<1>4. OnWaiting(p, d, who) \in {p, Marked(q, d, who), Marked(p, d, who), Marked(FlipCall(p), d, who)}
  BY DEF OnWaiting, FlipBar
<1> HIDE DEF q
<1> QED
  BY <1>1, <1>2, <1>3, <1>4, MarkedAlike, AlikeTwice

LEMMA OnEndFollows ==
    ASSUME NEW u \in Users, NEW p, PageFits(u, p), NEW d, NEW declined \in BOOLEAN
    PROVE  Follows(p, OnEnd(u, p, d, declined))
<1> DEFINE q == OnBarEnd(p, d)
           r == IF ~declined /\ ~q.active /\ q.marker[d] # None THEN Unmarked(q, d) ELSE q
           s == [r EXCEPT !.ringTimer = None, !.barTimer = None, !.ringing = FALSE]
           t == [s EXCEPT !.waiting = TRUE, !.answered = FALSE]
<1>0. \A x : Alike(x, x)
  BY DEF Alike
<1>1. PageFits(u, q) /\ Alike(p, q)
  BY <1>0, SilentFits, NoIncomingAlike DEF OnBarEnd
<1>2. PageFits(u, r) /\ Alike(p, r)
  <2> HIDE DEF q
  <2> QED
    BY <1>1, UnmarkedFits, UnmarkedAlike, AlikeTwice
<1>3. PageFits(u, s) /\ Alike(r, s)
  <2> HIDE DEF q, r
  <2> QED
    BY ZenonT(60), <1>2 DEF PageFits, Pages, Rings, Alike, Coming
<1>4. PageFits(u, t) /\ Alike(s, t)
  <2> HIDE DEF q, r, s
  <2>1. PageFits(u, t) /\ t.room = s.room /\ t.partner = s.partner /\ t.jobs = s.jobs
    BY <1>3, WaitsAgain DEF t
  <2> QED
    BY <2>1, SameAlike
<1>5. OnEnd(u, p, d, declined) \in {r, Marked(t, d, u), TornDown(s)}
  <2> HIDE DEF q
  <2> QED
    BY DEF OnEnd, q
<1> HIDE DEF q, r, s, t
<1>6. Alike(p, Marked(t, d, u))
  BY <1>2, <1>3, <1>4, MarkedAlike, AlikeTwice
<1>7. TornDown(s).partner = None
  BY <1>3, TornDownFits
<1> QED
  BY <1>2, <1>5, <1>6, <1>7 DEF Follows

LEMMA OnClearedAlike ==
    ASSUME NEW u \in Users, NEW p, PageFits(u, p), NEW d
    PROVE  Alike(p, OnCleared(p, d))
<1> DEFINE q == [p EXCEPT !.marker[d] = None, !.listed[d] = None]
<1>1. PageFits(u, q)
  BY DEF PageFits, Pages, Rings, Waiters
<1>2. Alike(p, q)
  BY DEF PageFits, Pages, Alike, Coming
<1> HIDE DEF q
<1> QED
  BY <1>1, <1>2, NoIncomingAlike, AlikeTwice DEF OnCleared, q

LEMMA OnMembersAlike ==
    ASSUME NEW u \in Users, NEW p, PageFits(u, p), NEW list \in SUBSET Users
    PROVE  Alike(p, OnMembers(u, p, list))
<1>1. /\ PageFits(u, [p EXCEPT !.members = list]) /\ Alike(p, [p EXCEPT !.members = list])
      /\ Alike(p, p)
  BY DEF PageFits, Pages, Rings, Alike, Coming
<1> QED
  BY <1>1, MarkAnsweredAlike, AlikeTwice DEF OnMembers

\* A page that learns that it has entered shows the room it has entered.
LEMMA OnJoinedMoves ==
    ASSUME NEW u \in Users, NEW p, PageFits(u, p), NEW d \in Of(u), NEW list \in SUBSET Users
    PROVE  LET q == OnJoined(u, p, d, list)
           IN  q.room = d /\ q.partner = p.partner /\ (Coming(p) => Coming(q))
<1> DEFINE a == [p EXCEPT !.room = d, !.connected = TRUE, !.active = TRUE]
           q == NoIncoming(a)
           r == IF list \ {u} # {} THEN MarkAnswered(q) ELSE q
<1>1. /\ PageFits(u, a) /\ a.active /\ a.room = d /\ a.partner = p.partner
      /\ (Coming(p) => Coming(a))
  BY NoneApart DEF PageFits, Pages, Rings, Of, Coming
<1>2. PageFits(u, q) /\ Alike(a, q) /\ Alike(q, q)
  BY <1>1, SilentFits, NoIncomingAlike DEF Alike
<1>3. PageFits(u, r) /\ Alike(q, r)
  <2> HIDE DEF q
  <2> QED
    BY <1>2, MarkAnsweredFits, MarkAnsweredAlike
<1>4. OnJoined(u, p, d, list) = [r EXCEPT !.members = list]
  BY DEF OnJoined
<1> HIDE DEF r, q, a
<1>5. Alike(r, [r EXCEPT !.members = list])
  BY <1>3 DEF PageFits, Pages, Alike, Coming
<1> QED
  BY <1>1, <1>2, <1>3, <1>4, <1>5 DEF Alike

\* What the page of u does leaves it present, if it follows where it was and
\* its messages do not move it.
LEMMA FollowPresent ==
    ASSUME IInv, GInv, NEW u \in Users, NEW p, Follows(page[u], p), NEW msgs \in Seq(ToServer(u)),
           ~Coming(p) /\ p.partner # None => \A d : Stays(msgs, d),
           PageStep(u, p, msgs), up' = up, members' = members, evicted' = evicted,
           \A v \in Users : inbox'[v] = inbox[v]
    PROVE  GInv'
<1>1. /\ page' = [page EXCEPT ![u] = p] /\ page'[u] = p
      /\ up[u] => out'[u] = out[u] \o msgs
      /\ \A v \in Users : v # u => page'[v] = page[v] /\ out'[v] = out[v]
  BY DEF PageStep, IInv, QueuesFit
<1>2. ASSUME NEW v \in Users, v # u PROVE Present(v)'
  BY <1>1, <1>2 DEF GInv, Present, In
<1>3. Present(u)'
  <2>1. SUFFICES ASSUME up[u], p.partner # None, ~Coming(p)
                 PROVE  \E d \in Of(u) : Enters(out'[u], d) \/ In(u, d)'
    BY <1>1 DEF Present
  <2>2. Alike(page[u], p)
    BY <2>1 DEF Follows
  <2>3. PICK d \in Of(u) : Enters(out[u], d) \/ In(u, d)
    BY <2>1, <2>2 DEF Alike, GInv, Present
  <2>4. out[u] \in Seq(ToServer(u)) /\ Stays(msgs, d)
    BY <2>1 DEF IInv, QueuesFit
  <2>5. /\ Stays(out[u], d) => Stays(out[u] \o msgs, d)
        /\ Enters(out[u], d) => Enters(out[u] \o msgs, d)
    BY <2>4, StaysOn
  <2>6. In(u, d) => In(u, d)'
    BY <1>1, <2>1, <2>2, <2>5 DEF In, Alike
  <2> QED
    BY <1>1, <2>1, <2>3, <2>5, <2>6
<1> QED
  BY <1>2, <1>3 DEF GInv

\* Messages that move nobody.
LEMMA Still ==
    ASSUME NEW d, NEW type, type \notin {"join", "leave_all", "leave"}, NEW e
    PROVE  Stays(<<Msg(type, e)>>, d) /\ Stays(<<>>, d)
  BY DEF Stays, Moves, Msg

LEMMA NothingStill == \A d : Stays(<<>>, d)
  BY DEF Stays

\* The steps keep GInv: those of the user, of the page and of the server.
LEMMA UserGhost ==
    ASSUME IInv, GInv, NEW u \in Users, UserStep(u)
    PROVE  GInv'
<1>0. /\ PageFits(u, page[u]) /\ Alike(page[u], page[u]) /\ up' = up /\ members' = members
      /\ evicted' = evicted /\ \A v \in Users : inbox'[v] = inbox[v]
  BY DEF IInv, Alike, UserStep, CallButton, Banner, Accept, Decline, HangUp, OpenList, Act, server
<1>1. ASSUME NEW p, Coming(p) \/ p.partner = None,
             NEW msgs \in Seq(ToServer(u)), PageStep(u, p, msgs)
      PROVE  GInv'
  BY <1>0, <1>1, FollowPresent DEF Follows
<1>2. ASSUME NEW d \in Of(u), JoinWaiting(u, d) PROVE GInv'
  BY <1>0, <1>1, <1>2, EnteringComes, EmptySeq DEF JoinWaiting
<1>3. ASSUME NEW d \in Of(u), CallButton(u, d) PROVE GInv'
  <2>1. CASE PageStep(u, page[u], <<Msg("ring", d)>>)
    <3>1. <<Msg("ring", d)>> \in Seq(ToServer(u)) /\ \A e : Stays(<<Msg("ring", d)>>, e)
      BY GoodMessages, Still
    <3> QED
      BY <1>0, <2>1, <3>1, FollowPresent DEF Follows
  <2>2. CASE StartCall(u, d)
    <3>1. PageFits(u, Free(page[u])) /\ Freeing(page[u]) \in Seq(ToServer(u))
      BY <1>0, LeftFits, GoodbyeFits
    <3>2. Coming(Entering(Free(page[u]), d, u, "start"))
      BY <3>1, EnteringComes
    <3> QED
      BY <1>1, <2>2, <3>1, <3>2 DEF StartCall
  <2> QED
    BY <1>2, <1>3, <2>1, <2>2, Zenon DEF CallButton
<1>4. CASE Accept(u)
  <2> DEFINE p == page[u]
             d == p.bar.dm
             s == [NoIncoming(p) EXCEPT !.ringing = FALSE]
             e == Entering(Free(s), d, u, "accept")
  <2>1. d \in Of(u) /\ Freeing(p) \in Seq(ToServer(u))
    BY <1>0, <1>4, GoodbyeFits DEF Accept, PageFits, Pages, Bars
  <2>2. PageFits(u, Free(s))
    BY <1>0, SilentFits, LeftFits
  <2>3. PageFits(u, e) /\ Coming(e)
    BY <2>1, <2>2, EnteringFits, EnteringComes
  <2>4. PageStep(u, Unmarked(e, d), Freeing(p))
    BY <1>4 DEF Accept
  <2> HIDE DEF e, d, p, s
  <2>5. Coming(Unmarked(e, d))
    BY <2>3, UnmarkedAlike DEF Alike
  <2> QED
    BY <1>1, <2>1, <2>4, <2>5
<1>5. CASE Decline(u)
  <2> DEFINE d == page[u].bar.dm
  <2>1. d \in Of(u)
    BY <1>0, <1>5 DEF Decline, PageFits, Pages, Bars
  <2>2. <<Msg("end", d)>> \in Seq(ToServer(u)) /\ \A e : Stays(<<Msg("end", d)>>, e)
    BY <2>1, GoodMessages, Still
  <2>3. Alike(page[u], Declined(page[u]))
    BY <1>0, NoIncomingAlike DEF Declined
  <2>4. PageStep(u, Declined(page[u]), <<Msg("end", d)>>)
    BY <1>5 DEF Decline
  <2> HIDE DEF d
  <2> QED
    BY <1>0, <2>2, <2>3, <2>4, FollowPresent DEF Follows
<1>6. CASE HangUp(u)
  BY <1>0, <1>1, <1>6, LeftFollows, GoodbyeFits DEF HangUp
<1>7. CASE OpenList(u)
  <2> DEFINE q == [page[u] EXCEPT !.jobs = page[u].jobs \cup {Fetched}]
  <2>1. page' = [page EXCEPT ![u] = q] /\ out' = out
    BY <1>7 DEF OpenList
  <2>2. Alike(page[u], q)
    BY <1>0 DEF PageFits, Pages, Alike, Coming
  <2>3. \A v \in Users : v # u => page'[v] = page[v]
    BY <2>1
  <2>4. page'[u] = q
    BY <2>1 DEF IInv
  <2> HIDE DEF q
  <2> QED
    BY <1>0, <2>1, <2>2, <2>3, <2>4 DEF GInv, Present, In, Alike
<1> QED
  BY <1>2, <1>3, <1>4, <1>5, <1>6, <1>7 DEF UserStep, Banner

LEMMA ContinueGhost ==
    ASSUME IInv, GInv, NEW u \in Users, Continue(u)
    PROVE  GInv'
<1>1. PICK j \in page[u].jobs : Goes(u, j)
  BY DEF Continue
<1> DEFINE p == [page[u] EXCEPT !.jobs = page[u].jobs \ {j}]
<1>2. /\ PageFits(u, page[u]) /\ up' = up /\ members' = members /\ evicted' = evicted
      /\ \A v \in Users : inbox'[v] = inbox[v]
  BY DEF IInv, Continue, Own, server
<1>3. j \in JobsOf(u)
  BY <1>2 DEF PageFits, Pages
<1>4. PageFits(u, p) /\ p.room = page[u].room /\ p.partner = page[u].partner
  BY <1>2 DEF PageFits, Pages, Rings
<1>5. j.then # "refresh" => j.dm \in Of(u)
  BY <1>3 DEF JobsOf
<1>6. Goes(u, j) <=>
        CASE j.then = "start" ->
               PageStep(u, [p EXCEPT !.ringTimer = j.dm], <<Msg("join", j.dm), Msg("ring", j.dm)>>)
          [] j.then = "accept" -> PageStep(u, p, <<Msg("join", j.dm)>>)
          [] j.then = "wait" -> PageStep(u, Unmarked(p, j.dm), <<Msg("join", j.dm)>>)
          [] j.then = "refresh" -> PageStep(u, Synced(u, [p EXCEPT !.listed = j.list]), <<>>)
  BY DEF Goes
\* Whoever has asked to enter will.
<1>7. ASSUME NEW q, NEW msgs \in Seq(ToServer(u)), Enters(msgs, j.dm), j.dm \in Of(u),
             PageStep(u, q, msgs)
      PROVE  GInv'
  <2>1. /\ page' = [page EXCEPT ![u] = q]
        /\ up[u] => out'[u] = out[u] \o msgs
        /\ \A v \in Users : v # u => page'[v] = page[v] /\ out'[v] = out[v]
    BY <1>7 DEF PageStep, IInv, QueuesFit
  <2>2. out[u] \in Seq(ToServer(u))
    BY DEF IInv, QueuesFit
  <2>3. Enters(out[u] \o msgs, j.dm)
    BY <1>7, <2>2, EntersAfter
  <2>4. Present(u)'
    BY <1>2, <1>7, <2>1, <2>3 DEF Present
  <2>5. ASSUME NEW v \in Users, v # u PROVE Present(v)'
    BY <1>2, <2>1, <2>5 DEF GInv, Present, In
  <2> QED
    BY <2>4, <2>5 DEF GInv
<1>8. CASE j.then = "refresh"
  <2> DEFINE q == [p EXCEPT !.listed = j.list]
             s == Synced(u, q)
  <2>1. Coming(page[u]) => Coming(p)
    BY <1>2, <1>8 DEF Coming, PageFits, Pages
  <2>2. q.room = p.room /\ q.partner = p.partner /\ q.jobs = p.jobs /\ PageFits(u, q)
    <3> HIDE DEF p
    <3> QED
      BY <1>3, <1>4 DEF PageFits, Pages, Rings, JobsOf, Waiters
  <2>3. s.room = q.room /\ s.partner = q.partner /\ s.jobs = q.jobs
    <3> HIDE DEF q
    <3> QED
      BY <2>2 DEF Synced, PageFits, Pages
  <2>4. PageStep(u, s, <<>>)
    BY <1>1, <1>6, <1>8
  <2> HIDE DEF p, q, s
  <2>5. Alike(page[u], s)
    BY <1>4, <2>1, <2>2, <2>3 DEF Alike, Coming
  <2>6. \A e : Stays(<<>>, e)
    BY NothingStill
  <2> QED
    BY <1>2, <2>4, <2>5, <2>6, EmptySeq, FollowPresent DEF Follows
<1>9. CASE j.then # "refresh"
  <2> DEFINE one == <<Msg("join", j.dm)>>
             two == <<Msg("join", j.dm), Msg("ring", j.dm)>>
  <2>1. one \in Seq(ToServer(u)) /\ two \in Seq(ToServer(u))
    BY <1>5, <1>9, GoodMessages
  <2>2. Enters(one, j.dm)
    BY DEF Enters, Moves, Msg
  <2>3. Enters(two, j.dm)
    <3>1. Len(two) = 2 /\ two[1].type = "join" /\ two[1].dm = j.dm /\ two[2].type = "ring"
      BY DEF Msg
    <3> HIDE DEF two
    <3>2. \A k \in 1 + 1..Len(two) : ~Moves(two[k], j.dm)
      BY <3>1 DEF Moves
    <3> QED
      BY <3>1, <3>2 DEF Enters
  <2> HIDE DEF p
  <2>4. j.then \in {"start", "accept", "wait"}
    BY <1>3, <1>9 DEF JobsOf
  <2>5. \E q, msgs : msgs \in {one, two} /\ PageStep(u, q, msgs)
    BY <1>1, <1>6, <2>4
  <2> QED
    BY <1>5, <1>7, <1>9, <2>1, <2>2, <2>3, <2>5
<1> QED
  BY <1>8, <1>9

LEMMA TimeoutGhost ==
    ASSUME IInv, GInv, NEW u \in Users, RingTimeout(u) \/ BarTimeout(u)
    PROVE  GInv'
<1>0. /\ PageFits(u, page[u]) /\ up' = up /\ members' = members /\ evicted' = evicted
      /\ \A v \in Users : inbox'[v] = inbox[v]
  BY DEF IInv, RingTimeout, BarTimeout, Own, server
<1>1. ASSUME NEW q, Alike(page[u], q), NEW msgs \in Seq(ToServer(u)), \A e : Stays(msgs, e),
             PageStep(u, q, msgs)
      PROVE  GInv'
  BY <1>0, <1>1, FollowPresent DEF Follows
<1>2. CASE RingTimeout(u)
  <2> DEFINE p == [page[u] EXCEPT !.ringTimer = None]
             q == [p EXCEPT !.waiting = TRUE, !.ringing = FALSE]
             d == page[u].ringTimer
  <2>1. d \in Of(u)
    BY <1>0, <1>2 DEF RingTimeout, PageFits, Pages
  <2>2. <<Msg("waiting", d)>> \in Seq(ToServer(u)) /\ <<>> \in Seq(ToServer(u))
        /\ \A e : Stays(<<Msg("waiting", d)>>, e) /\ Stays(<<>>, e)
    BY <2>1, GoodMessages, Still
  <2>3. Alike(page[u], p) /\ Alike(page[u], q)
    BY <1>0 DEF PageFits, Pages, Alike, Coming
  <2>4. PageStep(u, q, <<Msg("waiting", d)>>) \/ PageStep(u, p, <<>>)
    BY <1>2 DEF RingTimeout
  <2> HIDE DEF p, q, d
  <2> QED
    BY <1>1, <2>2, <2>3, <2>4
<1>3. CASE BarTimeout(u)
  <2> DEFINE p == [page[u] EXCEPT !.barTimer = None]
             q == [p EXCEPT !.bar.waiting = TRUE, !.ringing = FALSE]
             d == page[u].barTimer
  <2>1. Alike(page[u], p) /\ Alike(page[u], q)
    BY <1>0 DEF PageFits, Pages, Alike, Coming
  <2>2. PageFits(u, q)
    BY <1>0 DEF PageFits, Pages, Bars, Rings
  <2>3. \E s \in {p, Marked(q, d, p.bar.caller)} : PageStep(u, s, <<>>)
    BY <1>3 DEF BarTimeout, OnWaiting, FlipBar
  <2>4. Alike(page[u], Marked(q, d, p.bar.caller))
    <3> HIDE DEF p, q
    <3> QED
      BY <2>1, <2>2, MarkedAlike, AlikeTwice
  <2>5. <<>> \in Seq(ToServer(u)) /\ \A e : Stays(<<>>, e)
    BY EmptySeq, NothingStill
  <2> HIDE DEF p, q, d
  <2> QED
    BY <1>1, <2>1, <2>3, <2>4, <2>5
<1> QED
  BY <1>2, <1>3

\* A message is read: one that tells of a room entered is what the page shows
\* then, unless another follows.
LEMMA ReadPresent ==
    ASSUME IInv, GInv, NEW u \in Users, inbox[u] # <<>>,
           inbox' = [inbox EXCEPT ![u] = Tail(inbox[u])],
           up' = up, members' = members, evicted' = evicted,
           NEW p, NEW msgs \in Seq(ToServer(u)), PageStep(u, p, msgs),
           ~Coming(p) /\ p.partner # None => \A d : Stays(msgs, d),
           LET m == Head(inbox[u])
           IN  \/ m.type # "joined" /\ Follows(page[u], p)
               \/ /\ m.type = "joined" /\ p.room = m.dm /\ p.partner = page[u].partner
                  /\ Coming(page[u]) => Coming(p)
    PROVE  GInv'
<1>1. /\ page' = [page EXCEPT ![u] = p] /\ page'[u] = p
      /\ up[u] => out'[u] = out[u] \o msgs
      /\ inbox'[u] = Tail(inbox[u])
      /\ \A v \in Users : v # u =>
            page'[v] = page[v] /\ out'[v] = out[v] /\ inbox'[v] = inbox[v]
  BY DEF PageStep, IInv, QueuesFit
<1>2. ASSUME NEW v \in Users, v # u PROVE Present(v)'
  BY <1>1, <1>2 DEF GInv, Present, In
<1>3. Present(u)'
  <2>1. SUFFICES ASSUME up[u], p.partner # None, ~Coming(p)
                 PROVE  \E d \in Of(u) : Enters(out'[u], d) \/ In(u, d)'
    BY <1>1 DEF Present
  <2>2. page[u].partner = p.partner /\ ~Coming(page[u])
    BY <2>1 DEF Follows, Alike
  <2>3. PICK d \in Of(u) : Enters(out[u], d) \/ In(u, d)
    BY <2>1, <2>2 DEF GInv, Present
  <2>4. out[u] \in Seq(ToServer(u)) /\ inbox[u] \in Seq(ToPage(u)) /\ Stays(msgs, d)
    BY <2>1 DEF IInv, QueuesFit
  <2>5. /\ Stays(out[u], d) => Stays(out[u] \o msgs, d)
        /\ Enters(out[u], d) => Enters(out[u] \o msgs, d)
    BY <2>4, StaysOn
  <2>6. ASSUME In(u, d) PROVE In(u, d)'
    <3>1. /\ Quietly(inbox[u]) => Quietly(Tail(inbox[u])) /\ Head(inbox[u]).type # "joined"
          /\ Shows(inbox[u], d) =>
                \/ Shows(Tail(inbox[u]), d)
                \/ /\ Head(inbox[u]).type = "joined" /\ Head(inbox[u]).dm = d
                   /\ Quietly(Tail(inbox[u]))
      BY <2>4, TailShows
    <3>2. Shows(Tail(inbox[u]), d) \/ (Quietly(Tail(inbox[u])) /\ p.room = d)
      BY <2>1, <2>6, <3>1 DEF In, Follows, Alike
    <3> QED
      BY <1>1, <2>1, <2>5, <2>6, <3>2 DEF In
  <2> QED
    BY <1>1, <2>1, <2>3, <2>5, <2>6
<1> QED
  BY <1>2, <1>3 DEF GInv

LEMMA ReceiveGhost ==
    ASSUME IInv, GInv, NEW u \in Users, Receive(u)
    PROVE  GInv'
<1> DEFINE m == Head(inbox[u])
           p == page[u]
<1>0. inbox[u] \in Seq(ToPage(u)) /\ inbox[u] # <<>>
  BY DEF IInv, QueuesFit, Receive
<1>1. m \in ToPage(u)
  BY <1>0, HeadTailProperties
<1>2. /\ inbox' = [inbox EXCEPT ![u] = Tail(inbox[u])] /\ up' = up /\ members' = members
      /\ evicted' = evicted
  BY DEF Receive, server
<1>3. /\ PageFits(u, p) /\ Alike(p, p) /\ m.dm \in Of(u) /\ m.who \in Waiters
      /\ m.list \in SUBSET Users
  BY <1>1 DEF IInv, ToPage, Bodies, Alike
<1>4. <<>> \in Seq(ToServer(u)) /\ \A e : Stays(<<>>, e)
  BY EmptySeq, NothingStill
<1>5. ASSUME NEW q, Follows(p, q), m.type # "joined", PageStep(u, q, <<>>)
      PROVE  GInv'
  BY <1>0, <1>2, <1>4, <1>5, ReadPresent
<1>6. CASE Muted(u, m.dm) /\ m.type = "ring"
  <2>1. <<Msg("end", m.dm)>> \in Seq(ToServer(u)) /\ \A e : Stays(<<Msg("end", m.dm)>>, e)
    BY <1>3, GoodMessages, Still
  <2>2. PageStep(u, page[u], <<Msg("end", m.dm)>>)
    BY <1>6 DEF Muted
  <2> HIDE DEF m
  <2> QED
    BY <1>0, <1>2, <1>3, <1>6, <2>1, <2>2, ReadPresent DEF Follows, m
<1>7. CASE Handle(u, m)
  <2>1. CASE m.type = "joined"
    <3> DEFINE q == OnJoined(u, p, m.dm, m.list)
    <3>1. PageStep(u, q, <<>>)
      BY <1>7, <2>1 DEF Handle
    <3>2. q.room = m.dm /\ q.partner = p.partner /\ (Coming(p) => Coming(q))
      BY <1>3, OnJoinedMoves
    <3> HIDE DEF q
    <3> QED
      BY <1>0, <1>2, <1>4, <2>1, <3>1, <3>2, ReadPresent
  <2>2. CASE m.type = "members"
    BY <1>3, <1>5, <1>7, <2>2, OnMembersAlike DEF Handle, Follows
  <2>3. CASE m.type = "waiting"
    BY <1>3, <1>5, <1>7, <2>3, OnWaitingAlike DEF Handle, Follows
  <2>4. CASE m.type = "cleared"
    BY <1>3, <1>5, <1>7, <2>4, OnClearedAlike DEF Handle, Follows
  <2>5. CASE m.type \in {"declined", "ended"}
    <3>1. \E b \in BOOLEAN : PageStep(u, OnEnd(u, p, m.dm, b), <<>>)
      BY <1>7, <2>5 DEF Handle
    <3> QED
      BY <1>3, <1>5, <2>5, <3>1, OnEndFollows
  <2>6. CASE m.type = "ring"
    <3> DEFINE r == [p EXCEPT !.bar = Bar(m.dm, m.who), !.ringing = TRUE, !.barTimer = m.dm]
    <3>1. OnRing(u, m.dm, m.who)
      BY <1>7, <2>6 DEF Handle
    <3>2. \/ PageStep(u, p, <<>>) \/ PageStep(u, Entering(p, m.dm, u, "wait"), <<>>)
          \/ PageStep(u, r, <<>>)
      BY <3>1, Zenon DEF OnRing
    <3>3. Follows(p, r)
      BY <1>3 DEF PageFits, Pages, Follows, Alike, Coming
    <3>4. Follows(p, Entering(p, m.dm, u, "wait"))
      BY <1>3, EnteringComes DEF Follows
    <3> HIDE DEF r
    <3> QED
      BY <1>3, <1>5, <2>6, <3>2, <3>3, <3>4 DEF Follows
  <2> QED
    BY <1>1, <2>1, <2>2, <2>3, <2>4, <2>5, <2>6 DEF ToPage, Bodies
<1> QED
  BY <1>6, <1>7 DEF Receive

\* A connection that is made again begins with the room of the page.
LEMMA SocketGhost ==
    ASSUME IInv, GInv, NEW u \in Users, Connect(u) \/ LoseSocket(u) \/ Reload(u)
    PROVE  GInv'
<1>1. ASSUME NEW v \in Users, v # u PROVE Present(v)'
  <2>1. page'[v] = page[v] /\ out'[v] = out[v] /\ inbox'[v] = inbox[v] /\ up'[v] = up[v]
        /\ members' = members /\ evicted' = evicted
    BY <1>1 DEF Connect, LoseSocket, Reload, Cut, server, IInv, QueuesFit
  <2> QED
    BY <2>1 DEF GInv, Present, In
<1>2. CASE Connect(u)
  <2> DEFINE s == Synced(u, page[u])
  <2>1. PageFits(u, page[u])
    BY DEF IInv
  <2>2. s.room = page[u].room /\ s.partner = page[u].partner /\ PageFits(u, s)
    BY <2>1, SyncedFits DEF Synced, PageFits, Pages
  <2>3. page'[u] = [s EXCEPT !.jobs = s.jobs \cup {Fetched}] /\ out'[u] = Rejoin(page[u])
    BY <1>2 DEF Connect, IInv, QueuesFit
  <2> HIDE DEF s
  <2>4. page'[u].partner = page[u].partner
    BY <2>2, <2>3 DEF PageFits, Pages
  <2>5. ASSUME page[u].partner # None
        PROVE  page[u].room \in Of(u) /\ Enters(out'[u], page[u].room)
    <3>1. page[u].room # None /\ page[u].room \in Of(u)
      BY <2>1, <2>5 DEF PageFits, Pages
    <3>2. out'[u] = <<Msg("join", page[u].room)>>
      BY <2>3, <3>1 DEF Rejoin
    <3> QED
      BY <3>1, <3>2 DEF Enters, Moves, Msg
  <2>6. Present(u)'
    BY <2>4, <2>5 DEF Present
  <2> QED
    BY <1>1, <2>6 DEF GInv
<1>3. CASE LoseSocket(u) \/ Reload(u)
  <2>1. ~up'[u]
    BY <1>3 DEF LoseSocket, Reload, Cut, IInv
  <2> QED
    BY <1>1, <2>1 DEF GInv, Present
<1> QED
  BY <1>2, <1>3

-----------------------------------------------------------------------------
(* Steps of the server *)

\* Nothing that reaches v tells of a room entered.
Told(v) ==
    \/ inbox'[v] = inbox[v]
    \/ \E r \in Seq(ToPage(v)) : Quietly(r) /\ inbox'[v] = inbox[v] \o r

\* Messages that show no room do not disturb where a page is.
LEMMA DeliveredTold ==
    ASSUME NEW to, Delivered(to), NEW v \in Users, to[v] \in Seq(ToPage(v)), Quietly(to[v])
    PROVE  Told(v)
  BY DEF Delivered, Told

LEMMA NothingQuiet == Quietly(<<>>)
  BY DEF Quietly

LEMMA OneQuiet == ASSUME NEW m, m.type # "joined" PROVE Quietly(<<m>>)
  BY DEF Quietly

LEMMA OneTold ==
    ASSUME NEW w \in Users, NEW msgs \in Seq(ToPage(w)), Quietly(msgs), Delivered(ToOnly(w, msgs))
    PROVE  \A v \in Users : Told(v)
<1>1. \A v \in Users : ToOnly(w, msgs)[v] \in Seq(ToPage(v)) /\ Quietly(ToOnly(w, msgs)[v])
  BY EmptySeq, NothingQuiet DEF ToOnly
<1> QED
  BY <1>1, DeliveredTold

\* Who is not removed, or has been removed by a clean-up, is as present as before.
LEMMA ToldPresent ==
    ASSUME IInv, NEW v \in Users, Present(v), page' = page, up' = up, out'[v] = out[v], Told(v),
           \A d \in Of(v) : v \in members[d] \/ v \in evicted => v \in members'[d] \/ v \in evicted'
    PROVE  Present(v)'
<1>1. SUFFICES ASSUME up[v], page[v].partner # None, ~Coming(page[v])
               PROVE  \E d \in Of(v) : Enters(out'[v], d) \/ In(v, d)'
  BY DEF Present
<1>2. PICK d \in Of(v) : Enters(out[v], d) \/ In(v, d)
  BY <1>1 DEF Present
<1>3. ASSUME In(v, d) PROVE In(v, d)'
  <2>1. inbox[v] \in Seq(ToPage(v))
    BY DEF IInv, QueuesFit
  <2>2. (Quietly(inbox[v]) => Quietly(inbox'[v])) /\ (Shows(inbox[v], d) => Shows(inbox'[v], d))
    BY <2>1, QuietlyOn DEF Told
  <2> QED
    BY <1>3, <2>2 DEF In
<1> QED
  BY <1>2, <1>3

\* What each handler says, and whom it removes.
LEMMA RemoveTells ==
    ASSUME IInv, NEW u \in Users, NEW d \in Of(u), NEW explicit, Remove(u, d, explicit)
    PROVE  /\ \A v \in Users : Told(v)
           /\ \A v \in Users, e \in Dms : v \in members[e] => v \in members'[e] \/ (v = u /\ e = d)
<1> DEFINE now == members[d] \ {u}
           w == Other(d, u)
<1>1. d \in Dms /\ now \subseteq Users /\ w \in Users /\ d \in Of(w)
  BY OtherOne DEF Of, IInv, ServerFits
<1>2. \A v \in Users, e \in Dms : v \in members[e] => v \in members'[e] \/ (v = u /\ e = d)
  BY <1>1 DEF Remove, IInv, ServerFits
<1> HIDE DEF w
<1>3. CASE now # {}
  <2> DEFINE a == Listing("members", d, now)
             b == From("waiting", d, Absent)
  <2>1. Delivered(ToOnly(w, <<a, b>>))
    BY <1>3 DEF Remove, w
  <2>2. a \in ToPage(w) /\ b \in ToPage(w) /\ a.type # "joined" /\ b.type # "joined"
    BY <1>1, GoodMessages DEF Waiters, Listing, From, Msg
  <2> HIDE DEF a, b
  <2>3. <<a, b>> \in Seq(ToPage(w)) /\ Quietly(<<a, b>>)
    BY <2>2 DEF Quietly
  <2> QED
    BY <1>1, <1>2, <2>1, <2>3, OneTold
<1>4. CASE now = {} /\ explicit
  <2>1. Delivered(ToOnly(w, <<Msg("ended", d)>>))
    BY <1>4 DEF Remove, w
  <2>2. Msg("ended", d) \in ToPage(w) /\ Msg("ended", d).type # "joined"
    BY <1>1, GoodMessages DEF Msg
  <2>3. <<Msg("ended", d)>> \in Seq(ToPage(w)) /\ Quietly(<<Msg("ended", d)>>)
    BY <2>2, OneQuiet
  <2> QED
    BY <1>1, <1>2, <2>1, <2>3, OneTold
<1>5. CASE now = {} /\ ~explicit
  <2>1. Delivered(Nothing)
    BY <1>5 DEF Remove
  <2>2. \A v \in Users : Nothing[v] \in Seq(ToPage(v)) /\ Quietly(Nothing[v])
    BY EmptySeq, NothingQuiet DEF Nothing
  <2> QED
    BY <1>2, <2>1, <2>2, DeliveredTold
<1> QED
  BY <1>3, <1>4, <1>5

\* Ringing, waiting and declining move nobody.
LEMMA SignalTells ==
    ASSUME IInv, NEW u \in Users, NEW d \in Of(u),
           Ring(u, d) \/ CallWaiting(u, d) \/ CallDeclined(u, d)
    PROVE  members' = members /\ \A v \in Users : Told(v)
<1> DEFINE w == Other(d, u)
<1>1. d \in Dms /\ w \in Users /\ d \in Of(w) /\ w # u /\ u \in Waiters /\ w \in Waiters
  BY OtherOne DEF Of, Waiters
<1>2. members' = members
  BY DEF Ring, CallWaiting, CallDeclined
<1>3. CASE Ring(u, d)
  <2>1. From("ring", d, u) \in ToPage(w)
    BY <1>1, GoodMessages
  <2>2. From("ring", d, u).type # "joined"
    BY DEF From, Msg
  <2>3. <<From("ring", d, u)>> \in Seq(ToPage(w)) /\ Quietly(<<From("ring", d, u)>>)
    BY <2>1, <2>2, OneQuiet
  <2> QED
    BY <1>1, <1>2, <1>3, <2>3, OneTold DEF Ring
<1>4. CASE CallWaiting(u, d)
  <2>1. From("waiting", d, u) \in ToPage(w)
    BY <1>1, GoodMessages
  <2>2. From("waiting", d, u).type # "joined"
    BY DEF From, Msg
  <2>3. <<From("waiting", d, u)>> \in Seq(ToPage(w)) /\ Quietly(<<From("waiting", d, u)>>)
    BY <2>1, <2>2, OneQuiet
  <2> QED
    BY <1>1, <1>2, <1>4, <2>3, OneTold DEF CallWaiting
<1>5. CASE CallDeclined(u, d)
  <2> DEFINE a == <<Msg("declined", d)>>
             b == <<From("waiting", d, w)>>
             to == [v \in Users |-> CASE v = w -> a [] v = u -> b [] OTHER -> <<>>]
  <2>1. a \in Seq(ToPage(w)) /\ b \in Seq(ToPage(u))
    BY <1>1, GoodMessages
  <2>2. Quietly(a) /\ Quietly(b) /\ Quietly(<<>>)
    BY OneQuiet, NothingQuiet DEF Msg, From
  <2>3. Delivered(to)
    BY <1>5 DEF CallDeclined
  <2>4. \A v \in Users : to[v] \in Seq(ToPage(v)) /\ Quietly(to[v])
    <3> HIDE DEF w, a, b
    <3> QED
      BY <2>1, <2>2, EmptySeq
  <2> HIDE DEF to
  <2> QED
    BY <1>2, <2>3, <2>4, DeliveredTold
<1> QED
  BY <1>3, <1>4, <1>5

\* Joining moves nobody else, and the page will show the room it joined.
LEMMA JoinTells ==
    ASSUME IInv, NEW u \in Users, NEW d \in Of(u), Join(u, d)
    PROVE  /\ \A v \in Users : v # u => Told(v)
           /\ up[u] => Shows(inbox'[u], d)
           /\ u \in members'[d]
           /\ \A e \in Dms : members[e] \subseteq members'[e]
<1> DEFINE now == members[d] \cup {u}
           list == Listing("members", d, now)
           mine == Listing("joined", d, now)
           to == [v \in Users |->
              IF v \notin now THEN <<>>
              ELSE IF v = u THEN <<list, mine>> ELSE <<list>>]
<1>1. d \in Dms /\ u \in d /\ now \subseteq d /\ d \subseteq Users
  BY DmAssumption DEF Of, IInv, ServerFits
<1>2. u \in members'[d] /\ \A e \in Dms : members[e] \subseteq members'[e]
  BY <1>1 DEF Join, IInv, ServerFits
<1>3. Delivered(to)
  BY DEF Join
<1>4. ASSUME NEW v \in Users, v # u PROVE Told(v)
  <2>1. to[v] = <<>> \/ (to[v] = <<list>> /\ v \in now)
    BY <1>4
  <2>2. CASE v \in now
    <3>1. list \in ToPage(v) /\ list.type # "joined"
      BY <1>1, <2>2, GoodMessages DEF Of, Listing, Msg
    <3> HIDE DEF list, to, now
    <3>2. <<list>> \in Seq(ToPage(v)) /\ Quietly(<<list>>)
      BY <3>1, OneQuiet
    <3>3. to[v] \in Seq(ToPage(v)) /\ Quietly(to[v])
      BY <2>1, <3>2, NothingQuiet, EmptySeq
    <3> QED
      BY <1>3, <3>3, DeliveredTold
  <2>3. CASE v \notin now
    <3> HIDE DEF to, now
    <3>1. to[v] \in Seq(ToPage(v)) /\ Quietly(to[v])
      BY <2>1, <2>3, NothingQuiet, EmptySeq
    <3> QED
      BY <1>3, <3>1, DeliveredTold
  <2> QED
    BY <2>2, <2>3
<1>5. ASSUME up[u] PROVE Shows(inbox'[u], d)
  <2>1. inbox'[u] = inbox[u] \o <<list, mine>>
    BY <1>3, <1>5 DEF Delivered
  <2>2. /\ list \in ToPage(u) /\ mine \in ToPage(u) /\ mine.type = "joined" /\ mine.dm = d
        /\ inbox[u] \in Seq(ToPage(u))
    BY <1>1, GoodMessages DEF Of, Listing, Msg, IInv, QueuesFit
  <2> HIDE DEF list, mine
  <2> QED
    BY <2>1, <2>2, ShowsAfter
<1> QED
  BY <1>2, <1>4, <1>5

LEMMA ServeGhost ==
    ASSUME IInv, GInv, NEW u \in Users, Serve(u)
    PROVE  GInv'
<1> DEFINE m == Head(out[u])
<1>0. out[u] \in Seq(ToServer(u)) /\ out[u] # <<>>
  BY DEF IInv, QueuesFit, Serve
<1>1. m \in ToServer(u)
  BY <1>0, HeadTailProperties
<1>2. m.type # "leave_all" => m.dm \in Of(u)
  BY <1>1 DEF ToServer, Bodies
<1>3. /\ page' = page /\ up' = up /\ \A v \in Users : v # u => out'[v] = out[v]
      /\ \A v \in Users : v # u /\ v \in evicted => v \in evicted'
      /\ m.type # "leave_all" => out'[u] = Tail(out[u])
      /\ m.type # "join" => evicted' = evicted
  BY DEF Serve, IInv, QueuesFit
\* The others are told and stay; so it is enough to look at the sender.
<1>4. /\ \A v \in Users : v # u => Told(v)
      /\ \A v \in Users, e \in Dms : v # u /\ v \in members[e] => v \in members'[e]
      /\ m.type # "join" => Told(u)
      /\ m.type \notin {"leave", "leave_all"} => \A e \in Dms : members[e] \subseteq members'[e]
      /\ m.type = "leave" => \A e \in Dms : u \in members[e] /\ e # m.dm => u \in members'[e]
  <2>1. CASE m.type = "join"
    <3>1. Join(u, m.dm)
      BY <2>1 DEF Serve
    <3> QED
      BY <1>2, <2>1, <3>1, JoinTells
  <2>2. ASSUME Same PROVE members' = members /\ \A v \in Users : Told(v)
    BY <2>2 DEF Same, Told
  <2>3. CASE m.type = "leave"
    <3>1. Same \/ Remove(u, m.dm, TRUE)
      BY <2>3 DEF Serve
    <3> QED
      BY <1>2, <2>2, <2>3, <3>1, RemoveTells
  <2>4. CASE m.type = "leave_all"
    <3>1. Same \/ \E d \in Rooms(u) : Remove(u, d, FALSE)
      BY <2>4 DEF Serve
    <3> QED
      BY <2>2, <2>4, <3>1, RoomsFit, RemoveTells
  <2>5. CASE m.type \in {"ring", "waiting", "end"}
    <3>1. Ring(u, m.dm) \/ CallWaiting(u, m.dm) \/ CallDeclined(u, m.dm)
      BY <2>5 DEF Serve
    <3> QED
      BY <1>2, <2>5, <3>1, SignalTells
  <2> QED
    BY <1>1, <2>1, <2>3, <2>4, <2>5 DEF ToServer, Bodies
<1>5. ASSUME NEW v \in Users, v # u PROVE Present(v)'
  BY <1>3, <1>4, <1>5, ToldPresent DEF GInv, Of
<1>6. Present(u)'
  <2>1. SUFFICES ASSUME up[u], page[u].partner # None, ~Coming(page[u])
                 PROVE  \E d \in Of(u) : Enters(out'[u], d) \/ In(u, d)'
    BY <1>3 DEF Present
  <2>2. PICK d \in Of(u) : Enters(out[u], d) \/ In(u, d)
    BY <2>1 DEF GInv, Present
  <2>3. /\ Stays(out[u], d) => Stays(Tail(out[u]), d) /\ ~Moves(m, d)
        /\ Enters(out[u], d) =>
              \/ Enters(Tail(out[u]), d)
              \/ m.type = "join" /\ m.dm = d /\ Stays(Tail(out[u]), d)
    BY <1>0, TailEnters
  <2>4. CASE Enters(out[u], d) /\ m.type = "leave_all"
    <3>1. out'[u] \in {out[u], Tail(out[u])}
      BY DEF Serve, IInv, QueuesFit
    <3> QED
      BY <2>2, <2>3, <2>4, <3>1
  <2>5. CASE Enters(out[u], d) /\ m.type # "leave_all" /\ Enters(Tail(out[u]), d)
    BY <1>3, <2>5
  <2>6. CASE m.type = "join" /\ m.dm = d /\ Stays(Tail(out[u]), d)
    <3>1. Join(u, d)
      BY <2>6 DEF Serve
    <3>2. Shows(inbox'[u], d) /\ u \in members'[d]
      BY <2>1, <3>1, JoinTells
    <3>3. In(u, d)'
      BY <1>3, <2>6, <3>2 DEF In
    <3> QED
      BY <3>3
  <2>7. CASE In(u, d)
    <3>1. ~Moves(m, d) /\ Stays(Tail(out[u]), d)
      BY <2>3, <2>7 DEF In
    <3>2. out'[u] = Tail(out[u]) /\ evicted' = evicted /\ Told(u)
      BY <1>3, <1>4, <3>1 DEF Moves
    <3>3. u \in members[d] => u \in members'[d]
      BY <1>4, <3>1 DEF Moves, Of
    <3>4. inbox[u] \in Seq(ToPage(u))
      BY DEF IInv, QueuesFit
    <3>5. (Quietly(inbox[u]) => Quietly(inbox'[u])) /\ (Shows(inbox[u], d) => Shows(inbox'[u], d))
      BY <3>2, <3>4, QuietlyOn DEF Told
    <3>6. In(u, d)'
      BY <1>3, <2>7, <3>1, <3>2, <3>3, <3>5 DEF In
    <3> QED
      BY <3>6
  <2> QED
    BY <2>2, <2>3, <2>4, <2>5, <2>6, <2>7
<1> QED
  BY <1>5, <1>6 DEF GInv

\* The clean-up of an old connection removes its user, and says so.
LEMMA CleanupGhost ==
    ASSUME IInv, GInv, NEW u \in Users, Cleanup(u)
    PROVE  GInv'
<1>1. page' = page /\ up' = up /\ out' = out /\ evicted \subseteq evicted'
  BY DEF Cleanup
<1>2. CASE Rooms(u) = {}
  <2>1. members' = members /\ \A v \in Users : Told(v)
    BY <1>2 DEF Cleanup, Same, Told
  <2> QED
    BY <1>1, <2>1, ToldPresent DEF GInv
<1>3. CASE Rooms(u) # {}
  <2>1. PICK e \in Rooms(u) : Remove(u, e, FALSE)
    BY <1>3 DEF Cleanup
  <2>2. e \in Of(u)
    BY RoomsFit
  <2>3. \A v \in Users : Told(v)
    BY <2>1, <2>2, RemoveTells
  <2>4. \A v \in Users, d \in Dms : v \in members[d] => v \in members'[d] \/ v = u
    BY <2>1, <2>2, RemoveTells
  <2>5. up[u] => u \in evicted'
    BY <1>3 DEF Cleanup
  <2>6. ASSUME NEW v \in Users, v # u PROVE Present(v)'
    BY <1>1, <2>3, <2>4, <2>6, ToldPresent DEF GInv, Of
  <2>7. CASE up[u]
    <3>1. Present(u)'
      BY <1>1, <2>3, <2>5, <2>7, ToldPresent DEF GInv
    <3> QED
      BY <2>6, <3>1 DEF GInv
  <2>8. CASE ~up[u]
    BY <1>1, <2>6, <2>8 DEF GInv, Present
  <2> QED
    BY <2>7, <2>8
<1> QED
  BY <1>2, <1>3

LEMMA TimersGhost ==
    ASSUME IInv, GInv, GraceOver \/ SweepWaiting
    PROVE  GInv'
<1>1. page' = page /\ up' = up /\ out' = out /\ evicted' = evicted /\ members' = members
  BY DEF GraceOver, SweepWaiting
<1>2. \A v \in Users : Told(v)
  <2>1. ASSUME NEW d \in Dms, NEW who, Delivered(ToOnly(Other(d, who), <<Msg("cleared", d)>>))
        PROVE  \A v \in Users : Told(v)
    <3> DEFINE w == Other(d, who)
    <3>1. w \in Users /\ d \in Of(w)
      BY OtherOne DEF Of
    <3>2. Msg("cleared", d) \in ToPage(w)
      BY <3>1, GoodMessages
    <3>3. Msg("cleared", d).type # "joined"
      BY DEF Msg
    <3>4. <<Msg("cleared", d)>> \in Seq(ToPage(w)) /\ Quietly(<<Msg("cleared", d)>>)
      BY <3>2, <3>3, OneQuiet
    <3> HIDE DEF w
    <3> QED
      BY <2>1, <3>1, <3>4, OneTold DEF w
  <2>2. CASE GraceOver
    <3>1. PICK g \in grace :
              \/ Delivered(ToOnly(Other(g.dm, g.who), <<Msg("cleared", g.dm)>>))
              \/ inbox' = inbox
      BY <2>2 DEF GraceOver
    <3>2. g.dm \in Dms
      BY DEF IInv, ServerFits
    <3> QED
      BY <2>1, <3>1, <3>2 DEF Told
  <2>3. CASE SweepWaiting
    BY <2>1, <2>3 DEF SweepWaiting
  <2> QED
    BY <2>2, <2>3
<1> QED
  BY <1>1, <1>2, ToldPresent DEF GInv

-----------------------------------------------------------------------------
(* The theorems *)

\* In every state of every behaviour what is on its way between pages and
\* server fits its receiver, and a page that rings outside a call has its timer.
THEOREM Invariance == Spec => []IInv
<1>1. ASSUME Init PROVE IInv
  <2>1. ServerFits /\ up \in [Users -> BOOLEAN] /\ acts \in 0..MaxActs /\ drops \in 0..MaxDrops
        /\ willing \in [Users -> Dms \cup {None}] /\ evicted \subseteq Users /\ crossed \subseteq Dms
    BY <1>1, BoundAssumption DEF Init, ServerFits
  <2>2. QueuesFit
    BY <1>1, EmptySeq, BoundAssumption DEF Init, QueuesFit
  <2>3. DOMAIN page = Users /\ \A u \in Users : PageFits(u, page[u])
    BY <1>1, NewPageFits DEF Init
  <2> QED
    BY <2>1, <2>2, <2>3 DEF IInv
<1>2. ASSUME IInv, [Next]_vars PROVE IInv'
  <2>1. CASE UNCHANGED vars
    BY <1>2, <2>1 DEF vars, IInv, ServerFits, QueuesFit
  <2>2. ASSUME NEW u \in Users, PageOwn(u) PROVE IInv'
    BY <1>2, <2>2, ContinueInv, RingTimeoutInv, BarTimeoutInv, ReceiveInv, ConnectInv DEF PageOwn
  <2>3. CASE Next
    BY <1>2, <2>2, <2>3, UserStepInv, LossInv, ServeInv, CleanupInv, TimersInv DEF Next, Step
  <2> QED
    BY <1>2, <2>1, <2>3
<1> QED
  BY <1>1, <1>2, PTL DEF Spec

\* Whoever is not among the mixed has at most one call open.
MixedInv ==
    mixed \subseteq Users /\ \A u \in Users : u \notin mixed => ~Double(u)
LEMMA MixedAlways == Spec => []MixedInv
<1>1. ASSUME Init PROVE MixedInv
  <2>1. ASSUME NEW u \in Users, NEW d \in Of(u) PROVE ~Open(u, d) /\ u \notin members[d]
    BY <1>1, <2>1, NoneApart DEF Init, NewPage, Of, Open, Sent, Answered
  <2> QED
    BY <1>1, <2>1 DEF Init, MixedInv, Double
<1>2. ASSUME MixedInv, [Next]_vars PROVE MixedInv'
  <2>1. CASE UNCHANGED vars
    BY <1>2, <2>1 DEF vars, MixedInv, Double, Open, Sent, Answered
  <2>2. CASE Next
    BY <1>2, <2>2 DEF Next, MixedInv
  <2> QED
    BY <1>2, <2>1, <2>2
<1> QED
  BY <1>1, <1>2, PTL DEF Spec

\* Type correctness of every variable, for any number of users and
\* conversations; a page never queues more than it may.
THEOREM TypeCorrect == Spec => []TypeOK
<1>1. IInv /\ MixedInv => TypeOK
  <2>1. ASSUME NEW u \in Users PROVE JobsOf(u) \subseteq Jobs
    BY DEF JobsOf, Jobs, Of
  <2>2. ASSUME NEW u \in Users, NEW p, PageFits(u, p)
        PROVE  /\ p.room \in Of(u) \cup {None} /\ p.members \subseteq Users
               /\ p.partner \in Users \cup {None}
               /\ {p.connected, p.active, p.answered, p.waiting, p.ringing} \subseteq BOOLEAN
               /\ p.bar \in [dm : Of(u) \cup {None}, caller : Users \cup {None},
                             waiting : BOOLEAN, shown : BOOLEAN]
               /\ {p.ringTimer, p.barTimer} \subseteq Of(u) \cup {None}
               /\ p.marker \in [Dms -> Waiters] /\ p.listed \in [Dms -> Waiters]
               /\ p.jobs \subseteq Jobs
    BY <2>1, <2>2 DEF PageFits, Pages, Bars
  <2> QED
    BY <2>2 DEF IInv, MixedInv, ServerFits, QueuesFit, TypeOK
<1> QED
  BY <1>1, Invariance, MixedAlways, PTL

\* Every ringtone ends: when nothing is on its way and no timer runs, only a
\* page in a call still rings, whichever messages crossed or were lost.
THEOREM RingCorrect == Spec => []RingEnds
<1>1. IInv => RingEnds
  BY DEF IInv, PageFits, Rings, RingEnds, Quiet
<1> QED
  BY <1>1, Invariance, PTL

\* Whoever shows a call with a partner is on the way into its room, or in it.
LEMMA PresentAlways == Spec => []GInv
<1>1. ASSUME Init PROVE GInv
  BY <1>1 DEF Init, GInv, Present, NewPage
<1>2. ASSUME IInv, GInv, [Next]_vars PROVE GInv'
  <2>1. CASE UNCHANGED vars
    BY <1>2, <2>1 DEF vars, GInv, Present, In
  <2>2. ASSUME NEW u \in Users, PageOwn(u) PROVE GInv'
    BY <1>2, <2>2, ContinueGhost, TimeoutGhost, ReceiveGhost, SocketGhost DEF PageOwn
  <2>3. CASE Next
    BY <1>2, <2>2, <2>3, UserGhost, SocketGhost, ServeGhost, CleanupGhost, TimersGhost DEF Next, Step
  <2> QED
    BY <1>2, <2>1, <2>3
<1> QED
  BY <1>1, <1>2, Invariance, PTL DEF Spec

\* When everything has settled, a page that shows a call is in its room on the
\* server: lost connections, clean-ups and grace periods, calls in several
\* conversations and stale messages notwithstanding.
THEOREM GhostCorrect == Spec => []NoGhostCall
<1>1. IInv /\ GInv => NoGhostCall
  <2>1. SUFFICES ASSUME IInv, GInv, Quiet, NEW u \in Users, page[u].active,
                        ~Revived(u), u \notin evicted
                 PROVE  u \in members[page[u].room]
    BY DEF NoGhostCall
  <2>2. up[u] /\ out[u] = <<>> /\ inbox[u] = <<>> /\ ~Coming(page[u]) /\ page[u].partner # None
    BY <2>1 DEF Quiet, Coming, Revived
  <2>3. PICK d \in Of(u) : Enters(<<>>, d) \/ In(u, d)
    BY <2>1, <2>2 DEF GInv, Present
  <2>4. ~Enters(<<>>, d) /\ ~Shows(<<>>, d)
    BY DEF Enters, Shows
  <2> QED
    BY <2>1, <2>2, <2>3, <2>4 DEF In
<1> QED
  BY <1>1, Invariance, PresentAlways, PTL


-----------------------------------------------------------------------------
(* In no call one has not decided to be in, and in none without knowing *)

\* A step as a user sees it who has never had two calls open.
Steady == \A u \in Users : u \notin mixed' => u \notin mixed /\ ~Double(u) /\ ~Double(u)'

LEMMA NextSteady == ASSUME MixedInv, Next PROVE Steady
  BY DEF MixedInv, Next, Steady

\* With one call open, before the step and after it.
LEMMA OneOpen ==
    ASSUME NEW u, NEW d \in Of(u), NEW e \in Of(u)
    PROVE  /\ ~Double(u) /\ Open(u, d) /\ Open(u, e) => d = e
           /\ ~Double(u)' /\ Open(u, d)' /\ Open(u, e)' => d = e
           /\ ~Double(u) /\ u \in members[d] /\ u \in members[e] => d = e
           /\ ~Double(u)' /\ u \in members'[d] /\ u \in members'[e] => d = e
  BY DEF Double

LEMMA RoomOpen ==
    ASSUME NEW u, NEW d
    PROVE  /\ page[u].room = d \/ page[u].marker[d] = u => Open(u, d)
           /\ page'[u].room = d \/ page'[u].marker[d] = u => Open(u, d)'
           /\ (\E j \in page[u].jobs : j.then # "refresh" /\ j.dm = d) => Open(u, d)
  BY DEF Open

\* A page in a room shows a call, and with a partner it is the one its user
\* has decided on; a page that waits for itself by its marker is in the call,
\* so that no ring calls back (CallsBack); nobody is called by itself.
Lawful(u, p, d) ==
    /\ p.active <=> p.room # None
    /\ p.connected => p.active
    /\ p.partner # None => p.room = d /\ p.partner = Other(d, u)
    /\ \A e \in Of(u) : p.marker[e] = u => p.room = e
    /\ p.bar.caller # u

\* A function that does not touch the call.
SameCall(p, q) ==
    /\ q.room = p.room /\ q.connected = p.connected /\ q.active = p.active
    /\ q.partner = p.partner /\ q.members = p.members /\ q.jobs = p.jobs
    /\ q.answered = p.answered /\ q.waiting = p.waiting
Tame(u, p, q) ==
    /\ SameCall(p, q)
    /\ \A e \in Of(u) : q.marker[e] = u => p.marker[e] = u \/ p.room = e
    /\ q.bar.caller = u => p.bar.caller = u

LEMMA TameTwice ==
    ASSUME NEW u, NEW p, NEW q, NEW r, Tame(u, p, q), Tame(u, q, r)
    PROVE  Tame(u, p, r)
  BY DEF Tame, SameCall

LEMMA TameOnce == ASSUME NEW u, NEW p PROVE Tame(u, p, p)
  BY DEF Tame, SameCall

LEMMA TameLawful ==
    ASSUME NEW u, NEW p, NEW q, NEW d, Lawful(u, p, d), Tame(u, p, q)
    PROVE  Lawful(u, q, d)
  BY DEF Tame, SameCall, Lawful

\* The fields that have no part in it.
LEMMA TameFields ==
    ASSUME NEW u \in Users, NEW p, PageFits(u, p), NEW x
    PROVE  /\ Tame(u, p, [p EXCEPT !.ringing = x])
           /\ Tame(u, p, [p EXCEPT !.ringTimer = x])
           /\ Tame(u, p, [p EXCEPT !.barTimer = x])
           /\ Tame(u, p, [p EXCEPT !.listed = x])
           /\ x.caller # u => Tame(u, p, [p EXCEPT !.bar = x])
  BY DEF PageFits, Pages, Tame, SameCall

LEMMA TameUnmarked ==
    ASSUME NEW u \in Users, NEW p, PageFits(u, p), NEW d
    PROVE  Tame(u, p, Unmarked(p, d)) /\ (d \in Of(u) => Unmarked(p, d).marker[d] # u)
<1>1. p \in Pages(u) /\ u # None
  BY NoneApart DEF PageFits
<1>2. CASE d = None
  BY <1>1, <1>2, NoneApart, TameOnce DEF Unmarked, Of
<1>3. CASE d # None
  <2> DEFINE k == [p.marker EXCEPT ![d] = None]
             l == [p.listed EXCEPT ![d] = None]
             q == [p EXCEPT !.marker = k, !.listed = l]
  <2>1. Unmarked(p, d) = q
    BY <1>1, <1>3 DEF Unmarked, Pages
  <2>2. \A e \in Of(u) : (k[e] = u => p.marker[e] = u) /\ (e = d => k[e] = None)
    BY <1>1 DEF Pages, Of
  <2> HIDE DEF k, l
  <2>3. SameCall(p, q) /\ q.marker = k /\ q.bar = p.bar
    BY <1>1 DEF Pages, SameCall
  <2> QED
    BY <1>1, <2>1, <2>2, <2>3 DEF Tame
<1> QED
  BY <1>2, <1>3

LEMMA TameMarked ==
    ASSUME NEW u \in Users, NEW p, PageFits(u, p), NEW d, NEW who, who = u => p.room = d
    PROVE  Tame(u, p, Marked(p, d, who))
<1> DEFINE k == [p.marker EXCEPT ![d] = who]
           l == [p.listed EXCEPT ![d] = who]
           q == [p EXCEPT !.marker = k, !.listed = l]
<1>1. p \in Pages(u)
  BY DEF PageFits
<1>2. Marked(p, d, who) = q
  BY <1>1 DEF Marked, Pages
<1>3. \A e \in Of(u) : k[e] = u => p.marker[e] = u \/ p.room = e
  BY <1>1 DEF Pages, Of
<1> HIDE DEF k, l
<1>4. SameCall(p, q) /\ q.marker = k /\ q.bar = p.bar
  BY <1>1 DEF Pages, SameCall
<1> QED
  BY <1>2, <1>3, <1>4 DEF Tame

LEMMA TameHidden ==
    ASSUME NEW u \in Users, NEW p, PageFits(u, p)
    PROVE  /\ Tame(u, p, Hidden(p)) /\ Tame(u, p, NoIncoming(p))
           /\ Tame(u, p, Declined(p))
<1>1. p \in Pages(u) /\ u # None
  BY NoneApart DEF PageFits
<1>2. Hidden(p) = [p EXCEPT !.barTimer = None, !.bar = [p.bar EXCEPT !.shown = FALSE]]
  BY <1>1 DEF Hidden, Pages
<1>3. [p.bar EXCEPT !.shown = FALSE].caller = p.bar.caller
  BY <1>1 DEF Pages, Bars
<1>4. Tame(u, p, Hidden(p))
  BY <1>1, <1>2, <1>3 DEF Tame, SameCall, Pages
<1>5. NoIncoming(p) = [p EXCEPT !.barTimer = None, !.bar = NoBar]
  BY <1>1, <1>2 DEF NoIncoming, Pages
<1>6. Declined(p) = [p EXCEPT !.barTimer = None, !.bar = NoBar, !.ringing = FALSE]
  BY <1>1, <1>5 DEF Declined, Pages
<1>7. NoBar.caller # u
  BY <1>1 DEF NoBar
<1>8. Tame(u, p, NoIncoming(p)) /\ Tame(u, p, Declined(p))
  BY <1>1, <1>5, <1>6, <1>7 DEF Tame, SameCall, Pages
<1> QED
  BY <1>4, <1>8

LEMMA TameSynced ==
    ASSUME NEW u \in Users, NEW p, PageFits(u, p)
    PROVE  Tame(u, p, Synced(u, p))
<1> DEFINE k == [e \in Dms |->
        IF p.listed[e] = Absent \/ (p.listed[e] = u /\ ~(p.active /\ p.room = e))
        THEN None ELSE p.listed[e]]
<1>1. Synced(u, p) = [p EXCEPT !.marker = k] /\ p \in Pages(u) /\ u # None
  BY NoneApart DEF Synced, PageFits
<1>2. \A e \in Of(u) : k[e] = u => p.room = e
  BY <1>1 DEF Of
<1> HIDE DEF k
<1> QED
  BY <1>1, <1>2 DEF Tame, SameCall, Pages

LEMMA TameCleared ==
    ASSUME NEW u \in Users, NEW p, PageFits(u, p), NEW d \in Of(u)
    PROVE  Tame(u, p, OnCleared(p, d)) /\ Tame(u, p, OnBarEnd(p, d))
<1> DEFINE q == Unmarked(p, d)
<1>1. d # None
  BY NoneApart DEF Of
<1>2. OnCleared(p, d) = IF q.bar.dm = d /\ q.bar.waiting THEN Declined(q) ELSE q
  BY <1>1 DEF OnCleared, Unmarked, Declined
<1>3. OnBarEnd(p, d) = IF p.bar.dm = d THEN Declined(p) ELSE p
  BY DEF OnBarEnd, Declined
<1>4. PageFits(u, q) /\ Tame(u, p, q)
  BY UnmarkedFits, TameUnmarked
<1> HIDE DEF q
<1>5. Tame(u, q, Declined(q)) /\ Tame(u, p, Declined(p)) /\ Tame(u, p, p)
  BY <1>4, TameHidden, TameOnce
<1> QED
  BY <1>2, <1>3, <1>4, <1>5, TameTwice

\* Leaving: any decision agrees with a page outside.
LEMMA TornDownLawful ==
    ASSUME NEW u \in Users, NEW p, PageFits(u, p), NEW d, Lawful(u, p, d), NEW e
    PROVE  /\ Lawful(u, TornDown(p), e) /\ Lawful(u, Left(p), e)
           /\ TornDown(p).partner = None /\ TornDown(p).jobs = p.jobs
           /\ Left(p).partner = None
<1> DEFINE q == [p EXCEPT !.room = None, !.connected = FALSE, !.active = FALSE,
                       !.answered = FALSE, !.waiting = FALSE, !.partner = None,
                       !.members = {}, !.ringing = FALSE, !.ringTimer = None,
                       !.barTimer = None]
           t == Unmarked(q, p.room)
<1>1. TornDown(p) = t
  BY DEF TornDown
<1>2. /\ PageFits(u, q) /\ q.room = None /\ ~q.active /\ ~q.connected /\ q.partner = None
      /\ q.jobs = p.jobs /\ q.marker = p.marker /\ q.bar = p.bar
  BY DEF PageFits, Pages, Rings
<1> HIDE DEF q
<1>3. Tame(u, q, t) /\ (p.room \in Of(u) => t.marker[p.room] # u)
  BY <1>2, TameUnmarked
<1> HIDE DEF t
<1>4. /\ t.room = None /\ ~t.active /\ ~t.connected /\ t.partner = None /\ t.jobs = p.jobs
      /\ t.bar.caller # u
  BY <1>2, <1>3 DEF Tame, SameCall, Lawful
<1>5. ASSUME NEW f \in Of(u), t.marker[f] = u PROVE FALSE
  <2>1. p.marker[f] = u \/ q.room = f
    BY <1>2, <1>3, <1>5 DEF Tame
  <2>2. p.room = f
    BY <1>2, <2>1, NoneApart DEF Lawful, Of
  <2> QED
    BY <1>3, <1>5, <2>2
<1>6. Lawful(u, t, e)
  BY <1>4, <1>5 DEF Lawful
<1>7. PageFits(u, t)
  BY <1>1, TornDownFits
<1>8. Tame(u, t, Hidden(t)) /\ Left(p) = Hidden(t)
  BY <1>1, <1>7, TameHidden DEF Left
<1>9. Lawful(u, Left(p), e) /\ Left(p).partner = None
  BY <1>4, <1>6, <1>8, TameLawful DEF Tame, SameCall
<1> QED
  BY <1>1, <1>4, <1>6, <1>9

LEMMA FreeLawful ==
    ASSUME NEW u \in Users, NEW p, PageFits(u, p), NEW d, Lawful(u, p, d)
    PROVE  Lawful(u, Free(p), d)
  BY TornDownLawful DEF Free

\* Entering the room one has decided on.
LEMMA EnteringLawful ==
    ASSUME NEW u \in Users, NEW p, PageFits(u, p), NEW d \in Of(u), NEW e,
           Lawful(u, p, e), NEW then \in {"start", "accept", "wait"}
    PROVE  /\ (\A f \in Of(u) : p.marker[f] = u => f = d) =>
                 Lawful(u, Entering(p, d, u, then), d)
           /\ Entering(p, d, u, then).connected = p.connected
           /\ Entering(p, d, u, then).room = d
           /\ Entering(p, d, u, then).marker = p.marker
           /\ Coming(Entering(p, d, u, then))
<1>1. PICK a \in BOOLEAN : a = (then = "accept")
  OBVIOUS
<1>2. PICK w \in BOOLEAN : w = (then = "wait")
  OBVIOUS
<1>3. PICK q : q = Entering(p, d, u, then)
  OBVIOUS
<1>4. q = [p EXCEPT !.room = d, !.partner = Other(d, u), !.active = TRUE,
                    !.answered = a, !.waiting = w, !.jobs = p.jobs \cup {Job(then, d)}]
  BY <1>1, <1>2, <1>3 DEF Entering
<1>5. q.room = d /\ q.active /\ q.partner = Other(d, u) /\ q.connected = p.connected
      /\ q.marker = p.marker /\ q.bar = p.bar
  BY <1>4 DEF PageFits, Pages
<1>6. d # None
  BY NoneApart DEF Of
<1>7. Coming(q)
  BY <1>3, EnteringComes
<1> QED
  BY <1>3, <1>5, <1>6, <1>7 DEF Lawful

\* What does not leave the room keeps the page lawful, and in the call.
Calm(u, p, q) ==
    /\ q.room = p.room /\ q.connected = p.connected /\ q.active = p.active
    /\ q.partner = p.partner /\ q.jobs = p.jobs
    /\ \A e \in Of(u) : q.marker[e] = u => p.marker[e] = u \/ p.room = e
    /\ q.bar.caller = u => p.bar.caller = u

LEMMA CalmLawful ==
    ASSUME NEW u, NEW p, NEW q, NEW d, Lawful(u, p, d), Calm(u, p, q)
    PROVE  Lawful(u, q, d)
  BY DEF Calm, Lawful

LEMMA CalmTwice ==
    ASSUME NEW u, NEW p, NEW q, NEW r
    PROVE  /\ Tame(u, p, q) => Calm(u, p, q)
           /\ Calm(u, p, q) /\ Calm(u, q, r) => Calm(u, p, r)
           /\ Calm(u, p, p)
  BY DEF Calm, Tame, SameCall

\* Somebody is there: the call is answered.
LEMMA MarkAnsweredCalm ==
    ASSUME NEW u \in Users, NEW p, PageFits(u, p)
    PROVE  /\ Calm(u, p, MarkAnswered(p)) /\ MarkAnswered(p).members = p.members
           /\ p.active => MarkAnswered(p).answered /\ ~MarkAnswered(p).waiting
<1> DEFINE a == p.answered \/ p.active
           t == IF p.active /\ ~p.answered THEN None ELSE p.ringTimer
           q == [p EXCEPT !.answered = a, !.waiting = FALSE, !.ringTimer = t]
<1>1. MarkAnswered(p) = IF ~p.waiting /\ (p.answered \/ ~p.active) THEN p ELSE Unmarked(q, p.room)
  BY DEF MarkAnswered
<1>2. PageFits(u, q)
  BY ZenonT(60) DEF PageFits, Pages, Rings
<1>3. a \in BOOLEAN /\ (p.active => a)
  BY DEF PageFits, Pages
<1> HIDE DEF a, t
<1>4. Calm(u, p, q) /\ q.members = p.members /\ q.answered = a /\ ~q.waiting
  BY <1>3 DEF PageFits, Pages, Calm
<1> HIDE DEF q
<1>5. Tame(u, q, Unmarked(q, p.room))
  BY <1>2, TameUnmarked
<1>6. CASE ~p.waiting /\ (p.answered \/ ~p.active)
  BY <1>1, <1>6, CalmTwice
<1>7. CASE ~(~p.waiting /\ (p.answered \/ ~p.active))
  <2>1. MarkAnswered(p) = Unmarked(q, p.room)
    BY <1>1, <1>7
  <2> QED
    BY <1>3, <1>4, <1>5, <2>1, CalmTwice DEF Tame, SameCall
<1> QED
  BY <1>6, <1>7

\* What the messages make of a page.  Who talks does not see the other wait.
LEMMA OnWaitingCalm ==
    ASSUME NEW u \in Users, NEW p, PageFits(u, p), NEW d \in Of(u), NEW who \in Waiters, who # u
    PROVE  /\ Calm(u, p, OnWaiting(p, d, who))
           /\ PartnerListed(p) => SameCall(p, OnWaiting(p, d, who))
<1> DEFINE b == [p.bar EXCEPT !.waiting = TRUE]
           f == [p EXCEPT !.bar = b, !.ringing = FALSE]
<1>1. PageFits(u, f) /\ Tame(u, p, f)
  <2>1. b \in Bars(u) /\ b.caller = p.bar.caller /\ b.waiting /\ b.dm = p.bar.dm
        /\ b.shown = p.bar.shown
    BY DEF PageFits, Pages, Bars
  <2> HIDE DEF b
  <2> QED
    BY <2>1 DEF PageFits, Pages, Rings, Tame, SameCall
<1>2. FlipBar(p, d, who) = Marked(f, d, who)
  BY DEF FlipBar, PageFits, Pages
<1>3. Tame(u, p, FlipBar(p, d, who))
  <2> HIDE DEF f
  <2> QED
    BY <1>1, <1>2, TameMarked, TameTwice
<1>4. Tame(u, p, Marked(p, d, who))
  BY TameMarked
<1>5. PageFits(u, FlipCall(p)) /\ Calm(u, p, FlipCall(p))
  BY DEF PageFits, Pages, Rings, FlipCall, Calm
<1>6. Calm(u, p, Marked(FlipCall(p), d, who))
  BY <1>5, TameMarked, CalmTwice
<1>7. SameCall(p, p)
  BY DEF SameCall
<1> QED
  BY <1>3, <1>4, <1>6, <1>7, CalmTwice DEF OnWaiting, Tame

LEMMA OnEndCalm ==
    ASSUME NEW u \in Users, NEW p, PageFits(u, p), NEW d \in Of(u), NEW e, Lawful(u, p, e)
    PROVE  /\ Calm(u, p, OnEnd(u, p, d, TRUE))
           /\ Lawful(u, OnEnd(u, p, d, FALSE), e)
           /\ OnEnd(u, p, d, FALSE).jobs = p.jobs
           /\ OnEnd(u, p, d, FALSE).partner \in {p.partner, None}
<1>1. PICK q : q = OnBarEnd(p, d)
  OBVIOUS
<1>2. PageFits(u, q) /\ Tame(u, p, q)
  BY <1>1, SilentFits, TameCleared DEF OnBarEnd
<1>3. ASSUME NEW r, PageFits(u, r), Tame(u, p, r)
      PROVE  /\ PageFits(u, [r EXCEPT !.ringTimer = None, !.barTimer = None, !.ringing = FALSE])
             /\ Tame(u, p, [r EXCEPT !.ringTimer = None, !.barTimer = None, !.ringing = FALSE])
  <2>1. PICK s : s = [r EXCEPT !.ringTimer = None, !.barTimer = None, !.ringing = FALSE]
    OBVIOUS
  <2>2. PageFits(u, s)
    BY <1>3, <2>1 DEF PageFits, Pages, Rings
  <2>3. Tame(u, r, s)
    BY <1>3, <2>1 DEF PageFits, Pages, Tame, SameCall
  <2> QED
    BY <1>3, <2>1, <2>2, <2>3, TameTwice
<1>4. Calm(u, p, OnEnd(u, p, d, TRUE))
  <2>1. PICK s : s = [q EXCEPT !.ringTimer = None, !.barTimer = None, !.ringing = FALSE]
    OBVIOUS
  <2>2. PageFits(u, s) /\ Tame(u, p, s)
    BY <1>2, <1>3, <2>1
  <2>3. PICK t : t = [s EXCEPT !.waiting = TRUE, !.answered = FALSE]
    OBVIOUS
  <2>4. PageFits(u, t)
    BY <2>2, <2>3, WaitsAgain
  <2>5. Calm(u, s, t)
    BY <2>2, <2>3 DEF PageFits, Pages, Calm
  <2>6. OnEnd(u, p, d, TRUE) = IF ~(q.active /\ q.room = d) THEN q ELSE Marked(t, d, u)
    BY <1>1, <2>1, <2>3 DEF OnEnd
  <2>7. CASE q.active /\ q.room = d
    <3>1. t.room = d
      BY <2>7, <2>1, <2>3, <1>2 DEF PageFits, Pages
    <3>2. Tame(u, t, Marked(t, d, u))
      BY <2>4, <3>1, TameMarked
    <3>3. Calm(u, t, Marked(t, d, u)) /\ Calm(u, p, s)
      BY <2>2, <3>2, CalmTwice
    <3>4. Calm(u, p, t)
      BY <2>5, <3>3, CalmTwice
    <3>5. Calm(u, p, Marked(t, d, u))
      BY <3>3, <3>4, CalmTwice
    <3> QED
      BY <2>6, <2>7, <3>5
  <2>8. CASE ~(q.active /\ q.room = d)
    BY <1>2, <2>6, <2>8, CalmTwice
  <2> QED
    BY <2>7, <2>8
<1>5. /\ Lawful(u, OnEnd(u, p, d, FALSE), e)
      /\ OnEnd(u, p, d, FALSE).jobs = p.jobs
      /\ OnEnd(u, p, d, FALSE).partner \in {p.partner, None}
  <2>1. PICK r : r = IF ~q.active /\ q.marker[d] # None THEN Unmarked(q, d) ELSE q
    OBVIOUS
  <2>2. PageFits(u, r) /\ Tame(u, p, r)
    BY <1>2, <2>1, UnmarkedFits, TameUnmarked, TameTwice
  <2>3. PICK s : s = [r EXCEPT !.ringTimer = None, !.barTimer = None, !.ringing = FALSE]
    OBVIOUS
  <2>4. PageFits(u, s) /\ Tame(u, p, s)
    BY <1>3, <2>2, <2>3
  <2>5. OnEnd(u, p, d, FALSE) = IF ~(r.active /\ r.room = d) THEN r ELSE TornDown(s)
    BY <1>1, <2>1, <2>3 DEF OnEnd
  <2>6. Lawful(u, r, e) /\ Lawful(u, s, e)
    BY <2>2, <2>4, TameLawful
  <2>7. r.jobs = p.jobs /\ r.partner = p.partner /\ s.jobs = p.jobs
    BY <2>2, <2>4 DEF Tame, SameCall
  <2>8. Lawful(u, TornDown(s), e) /\ TornDown(s).partner = None /\ TornDown(s).jobs = s.jobs
    BY <2>4, <2>6, TornDownLawful
  <2> QED
    BY <2>5, <2>6, <2>7, <2>8
<1> QED
  BY <1>4, <1>5

\* The end of another call, or that of one the page does not show.
LEMMA OnEndElsewhere ==
    ASSUME NEW u \in Users, NEW p, PageFits(u, p), NEW d \in Of(u), NEW x \in BOOLEAN, p.room # d
    PROVE  SameCall(p, OnEnd(u, p, d, x))
<1>1. PICK q : q = OnBarEnd(p, d)
  OBVIOUS
<1>2. PageFits(u, q) /\ Tame(u, p, q)
  BY <1>1, SilentFits, TameCleared DEF OnBarEnd
<1>3. PICK r : r = IF ~x /\ ~q.active /\ q.marker[d] # None THEN Unmarked(q, d) ELSE q
  OBVIOUS
<1>4. Tame(u, p, r)
  BY <1>2, <1>3, TameUnmarked, TameTwice
<1>5. OnEnd(u, p, d, x) = r
  BY <1>1, <1>3, <1>4 DEF OnEnd, Tame, SameCall
<1> QED
  BY <1>4, <1>5 DEF Tame

LEMMA OnMembersCalm ==
    ASSUME NEW u \in Users, NEW p, PageFits(u, p), NEW list \in SUBSET Users
    PROVE  /\ Calm(u, p, OnMembers(u, p, list))
           /\ p.connected /\ p.active /\ list \ {u} # {} =>
                 LET q == OnMembers(u, p, list)
                 IN  q.members = list /\ q.answered /\ ~q.waiting
<1>1. PICK q : q = [p EXCEPT !.members = list]
  OBVIOUS
<1>2. PageFits(u, q) /\ Calm(u, p, q) /\ q.members = list
  BY <1>1 DEF PageFits, Pages, Rings, Calm
<1>3. /\ Calm(u, q, MarkAnswered(q)) /\ MarkAnswered(q).members = list
      /\ q.active => MarkAnswered(q).answered /\ ~MarkAnswered(q).waiting
  BY <1>2, MarkAnsweredCalm
<1>4. OnMembers(u, p, list) =
        IF ~p.connected THEN p ELSE IF list \ {u} # {} THEN MarkAnswered(q) ELSE q
  BY <1>1 DEF OnMembers
<1> QED
  BY <1>2, <1>3, <1>4, CalmTwice DEF Calm

LEMMA OnJoinedLawful ==
    ASSUME NEW u \in Users, NEW p, PageFits(u, p), NEW d \in Of(u),
           NEW list \in SUBSET Users, NEW e, Lawful(u, p, e),
           p.partner # None => p.room = d, \A f \in Of(u) : p.marker[f] = u => f = d
    PROVE  LET q == OnJoined(u, p, d, list)
           IN  /\ Lawful(u, q, e) /\ q.connected /\ q.partner = p.partner /\ q.jobs = p.jobs
               /\ q.room = d
               /\ list \ {u} # {} => q.members = list /\ q.answered /\ ~q.waiting
<1>1. PICK a : a = [p EXCEPT !.room = d, !.connected = TRUE, !.active = TRUE]
  OBVIOUS
<1>2. /\ PageFits(u, a) /\ a.active /\ a.connected /\ a.room = d /\ a.partner = p.partner
      /\ a.jobs = p.jobs /\ a.marker = p.marker /\ a.bar = p.bar
  BY <1>1, NoneApart DEF PageFits, Pages, Rings, Of
<1>3. Lawful(u, a, e)
  <2>1. d # None
    BY NoneApart DEF Of
  <2> QED
    BY <1>2, <2>1 DEF Lawful
<1>4. PICK q : q = NoIncoming(a)
  OBVIOUS
<1>5. PageFits(u, q) /\ Tame(u, a, q)
  BY <1>2, <1>4, SilentFits, TameHidden
<1>6. PICK r : r = IF list \ {u} # {} THEN MarkAnswered(q) ELSE q
  OBVIOUS
<1>7. PageFits(u, r) /\ Calm(u, a, r) /\ (list \ {u} # {} => r.answered /\ ~r.waiting)
  <2>1. q.active
    BY <1>2, <1>5 DEF Tame, SameCall
  <2> QED
    BY <1>5, <1>6, <2>1, MarkAnsweredFits, MarkAnsweredCalm, CalmTwice
<1>8. PICK s : s = [r EXCEPT !.members = list]
  OBVIOUS
<1>9. Calm(u, r, s) /\ s.members = list /\ s.answered = r.answered /\ s.waiting = r.waiting
  BY <1>7, <1>8 DEF PageFits, Pages, Calm
<1>10. Calm(u, a, s)
  BY <1>7, <1>9, CalmTwice
<1>11. Lawful(u, s, e) /\ s.connected /\ s.partner = p.partner /\ s.jobs = p.jobs /\ s.room = d
  BY <1>2, <1>3, <1>10, CalmLawful DEF Calm
<1>12. OnJoined(u, p, d, list) = s
  BY <1>1, <1>4, <1>6, <1>8 DEF OnJoined
<1> QED
  BY <1>7, <1>9, <1>11, <1>12

-----------------------------------------------------------------------------
(* What is on its way, once more: all of a kind, or since one of a kind *)

All(q, M) == \A i \in 1..Len(q) : q[i] \in M
Since(q, A, M) == \E i \in 1..Len(q) : q[i] \in A /\ \A k \in i + 1..Len(q) : q[k] \in M

LEMMA SinceOn ==
    ASSUME NEW S, NEW q \in Seq(S), NEW r \in Seq(S), NEW A, NEW M, All(r, M)
    PROVE  /\ All(q, M) => All(q \o r, M)
           /\ Since(q, A, M) => Since(q \o r, A, M)
<1>1. /\ Len(q) \in Nat /\ Len(r) \in Nat /\ Len(q \o r) = Len(q) + Len(r)
      /\ \A i \in 1..Len(q) + Len(r) :
            (q \o r)[i] = IF i <= Len(q) THEN q[i] ELSE r[i - Len(q)]
  BY ConcatProperties, LenProperties
<1>2. \A i \in 1..Len(q \o r) : i > Len(q) => i - Len(q) \in 1..Len(r)
  BY <1>1
<1>3. \A i \in 1..Len(q \o r) : i > Len(q) => (q \o r)[i] \in M
  BY <1>1, <1>2 DEF All
<1>4. \A i \in 1..Len(q) : i \in 1..Len(q \o r) /\ (q \o r)[i] = q[i]
  BY <1>1
<1>5. \A i \in 1..Len(q \o r) : i > Len(q) \/ i \in 1..Len(q)
  BY <1>1
<1>6. All(q, M) => All(q \o r, M)
  BY <1>3, <1>4, <1>5 DEF All
<1>7. ASSUME Since(q, A, M) PROVE Since(q \o r, A, M)
  <2>1. PICK i \in 1..Len(q) : q[i] \in A /\ \A k \in i + 1..Len(q) : q[k] \in M
    BY <1>7 DEF Since
  <2>2. \A k \in i + 1..Len(q \o r) : k \in 1..Len(q \o r) /\ (k > Len(q) \/ k \in i + 1..Len(q))
    BY <1>1
  <2>3. \A k \in i + 1..Len(q) : k \in 1..Len(q)
    BY <1>1
  <2>4. \A k \in i + 1..Len(q \o r) : (q \o r)[k] \in M
    BY <1>3, <1>4, <2>1, <2>2, <2>3
  <2> QED
    BY <1>4, <2>1, <2>4 DEF Since
<1> QED
  BY <1>6, <1>7

LEMMA SinceAfter ==
    ASSUME NEW S, NEW q \in Seq(S), NEW r \in Seq(S), NEW A, NEW M, Since(r, A, M)
    PROVE  Since(q \o r, A, M)
<1>1. /\ Len(q) \in Nat /\ Len(r) \in Nat /\ Len(q \o r) = Len(q) + Len(r)
      /\ \A i \in 1..Len(q) + Len(r) :
            (q \o r)[i] = IF i <= Len(q) THEN q[i] ELSE r[i - Len(q)]
  BY ConcatProperties, LenProperties
<1>2. PICK i \in 1..Len(r) : r[i] \in A /\ \A k \in i + 1..Len(r) : r[k] \in M
  BY DEF Since
<1>3. /\ Len(q) + i \in 1..Len(q \o r) /\ ~(Len(q) + i <= Len(q))
      /\ (Len(q) + i) - Len(q) = i
  BY <1>1
<1>4. (q \o r)[Len(q) + i] = r[i]
  BY <1>1, <1>3
<1>5. ASSUME NEW k \in Len(q) + i + 1..Len(q \o r) PROVE (q \o r)[k] \in M
  <2>1. k \in 1..Len(q) + Len(r) /\ ~(k <= Len(q)) /\ k - Len(q) \in i + 1..Len(r)
    BY <1>1
  <2>2. (q \o r)[k] = r[k - Len(q)]
    BY <1>1, <2>1
  <2> QED
    BY <1>2, <2>1, <2>2
<1> QED
  BY <1>2, <1>3, <1>4, <1>5 DEF Since

LEMMA SinceTail ==
    ASSUME NEW S, NEW q \in Seq(S), q # <<>>, NEW A, NEW M
    PROVE  /\ All(q, M) => All(Tail(q), M) /\ Head(q) \in M
           /\ Since(q, A, M) => Since(Tail(q), A, M) \/ (Head(q) \in A /\ All(Tail(q), M))
<1>1. /\ Len(q) \in Nat /\ Len(q) > 0 /\ Len(Tail(q)) = Len(q) - 1 /\ Head(q) = q[1]
      /\ \A i \in 1..Len(Tail(q)) : i + 1 \in 1..Len(q) /\ Tail(q)[i] = q[i + 1]
  BY TailIndex
<1>2. All(q, M) => All(Tail(q), M) /\ Head(q) \in M
  BY <1>1 DEF All
<1>3. ASSUME Since(q, A, M)
      PROVE  Since(Tail(q), A, M) \/ (Head(q) \in A /\ All(Tail(q), M))
  <2>1. PICK i \in 1..Len(q) : q[i] \in A /\ \A k \in i + 1..Len(q) : q[k] \in M
    BY <1>3 DEF Since
  <2>2. CASE i = 1
    <3>1. ASSUME NEW k \in 1..Len(Tail(q)) PROVE Tail(q)[k] \in M
      <4>1. k + 1 \in i + 1..Len(q)
        BY <1>1, <2>2
      <4> QED
        BY <1>1, <2>1, <4>1
    <3> QED
      BY <1>1, <2>1, <2>2, <3>1 DEF All
  <2>3. CASE i > 1
    <3>1. i - 1 \in 1..Len(Tail(q)) /\ (i - 1) + 1 = i
      BY <1>1, <2>3
    <3>2. Tail(q)[i - 1] = q[i]
      BY <1>1, <3>1
    <3>3. ASSUME NEW k \in (i - 1) + 1..Len(Tail(q)) PROVE Tail(q)[k] \in M
      <4>1. k \in 1..Len(Tail(q)) /\ k + 1 \in i + 1..Len(q)
        BY <1>1, <2>3
      <4> QED
        BY <1>1, <2>1, <4>1
    <3> QED
      BY <2>1, <3>1, <3>2, <3>3 DEF Since
  <2> QED
    BY <2>2, <2>3
<1> QED
  BY <1>2, <1>3

\* Short queues, and larger kinds.
LEMMA AllShort ==
    ASSUME NEW M, NEW A, NEW m, NEW n
    PROVE  /\ All(<<>>, M) /\ ~Since(<<>>, A, M)
           /\ m \in M => All(<<m>>, M)
           /\ m \in M /\ n \in M => All(<<m, n>>, M)
           /\ m \in A => Since(<<m>>, A, M)
           /\ n \in A => Since(<<m, n>>, A, M)
           /\ m \in A /\ n \in M => Since(<<m, n>>, A, M)
  BY DEF All, Since

LEMMA AllIn ==
    ASSUME NEW S, NEW q \in Seq(S)
    PROVE  All(q, S)
  BY DEF All

LEMMA SinceMore ==
    ASSUME NEW q, NEW A, NEW B, NEW M, NEW N, \A m : m \in M => m \in N, \A m : m \in A => m \in B
    PROVE  /\ All(q, M) => All(q, N)
           /\ Since(q, A, M) => Since(q, B, N)
  BY DEF All, Since

-----------------------------------------------------------------------------
(* The invariants *)

\* What a message means for the call of d.
Foreign(u) == {m \in ToPage(u) : m.who # u}
Movers(u, d) ==
    {m \in ToServer(u) : m.type = "leave_all" \/ (m.type \in {"join", "leave"} /\ m.dm = d)}
Joins(u, d) == {m \in ToServer(u) : m.type = "join" /\ m.dm = d}
Mild(u, d, C) == {m \in ToServer(u) : m.type = "end" /\ m.dm = d => d \in C}
Lasting(u, d) == {m \in ToPage(u) : ~(m.type = "ended" /\ m.dm = d)}
Opening(u, d) == {m \in ToPage(u) : m.type = "joined" /\ m.dm = d}

\* The server will hear of the room of d from u, or its page shows it, or will.
Going(u, d) == Since(out[u], Movers(u, d), ToServer(u))
Shown(p, d) == p.connected /\ p.room = d
Showing(u, d) ==
    \/ Shown(page[u], d) /\ All(inbox[u], Lasting(u, d))
    \/ Since(inbox[u], Opening(u, d), Lasting(u, d))

\* Whoever is in a room sees its call, or will.
Seen(u) == \A d \in Of(u) : u \in members[d] /\ up[u] => Going(u, d) \/ Showing(u, d)

\* A page with a partner has not declined its call: it did so across its own
\* call (crossed), or before it asked for the room once more.
Partnered(p, d) == p.room = d /\ p.partner # None /\ ~Coming(p)
Backs(u, d, q, C) == All(q, Mild(u, d, C)) \/ Since(q, Joins(u, d), Mild(u, d, C))
Backed(u) == \A d \in Of(u) : Partnered(page[u], d) => Backs(u, d, out[u], crossed)

Sound(u) ==
    /\ Lawful(u, page[u], willing[u]) /\ inbox[u] \in Seq(Foreign(u))
    /\ ~up[u] => inbox[u] = <<>> /\ out[u] = <<>>
    /\ Seen(u) /\ Backed(u)
DInv == \A u \in Users : u \notin mixed => Sound(u)

\* A page that talks in d, and messages that leave it at that, or say so.
Talks(u, d, p) == p.connected /\ p.answered /\ ~p.waiting /\ Other(d, u) \in p.members
Lists(u, d) == {m \in ToPage(u) : m.type \in {"members", "joined"} /\ m.dm = d /\ m.list = d}
Clear(u, d) ==
    {m \in ToPage(u) : /\ ~(m.type \in {"declined", "ended"} /\ m.dm = d)
                       /\ m.type \in {"members", "joined"} => m.dm = d /\ m.list = d}
Knows(u, d) ==
    \/ Talks(u, d, page[u]) /\ All(inbox[u], Clear(u, d))
    \/ Since(inbox[u], Lists(u, d), Clear(u, d))
Settled(u, d) == up[u] /\ Partnered(page[u], d) /\ ~Going(u, d)

\* Two in a room, both settled, know that they talk, or are about to.
KInv ==
    \A d \in Dms :
        /\ members[d] = d /\ d \notin crossed
        /\ \A u \in d : u \notin mixed /\ Settled(u, d)
        => \A u \in d : Knows(u, d)

\* Whoever is in a room and sends nothing that leaves it has its call open.
LEMMA LeavesMove ==
    ASSUME NEW u, NEW d, NEW q \in Seq(ToServer(u)), NEW i \in 1..Len(q),
           q[i].type \in {"leave", "leave_all"}, q[i].dm \in {d, None}
    PROVE  Since(q, Movers(u, d), ToServer(u))
<1>1. q[i] \in ToServer(u) /\ Len(q) \in Nat
  BY LenProperties
<1>2. q[i] \in Movers(u, d)
  BY <1>1 DEF Movers, ToServer
<1>3. \A k \in i + 1..Len(q) : q[k] \in ToServer(u)
  BY <1>1
<1> QED
  BY <1>2, <1>3 DEF Since

LEMMA RoomOrGoing ==
    ASSUME IInv, NEW u \in Users, NEW d
    PROVE  u \in members[d] => Going(u, d) \/ Open(u, d)
<1>1. out[u] \in Seq(ToServer(u))
  BY DEF IInv, QueuesFit
<1> QED
  BY <1>1, LeavesMove DEF Going, Open, Sent

LEMMA RoomOrGoingNext ==
    ASSUME NEW u \in Users, out'[u] \in Seq(ToServer(u)), NEW d
    PROVE  u \in members'[d] => Going(u, d)' \/ Open(u, d)'
  BY LeavesMove DEF Going, Open, Sent

-----------------------------------------------------------------------------
(* Steps of the page that read no message *)

\* The page stays in its call, and knows what it knew.
Keeps(u, p, q) ==
    /\ p.connected => q.connected
    /\ Coming(p) => Coming(q)
    /\ q.partner # None => p.partner # None /\ p.room = q.room
    /\ \A d \in Of(u) : Talks(u, d, p) => Talks(u, d, q)

\* The page of u becomes q and sends msgs: it enters or leaves, or keeps.
Acted(u, q, msgs) ==
    /\ PageStep(u, q, msgs) /\ msgs \in Seq(ToServer(u)) /\ Lawful(u, q, willing'[u])
    /\ \A d \in Of(u) : Shown(page[u], d) /\ u \in members[d] =>
          Shown(q, d) \/ Since(msgs, Movers(u, d), ToServer(u)) \/ Going(u, d)
    /\ \/ Coming(q) \/ q.partner = None
       \/ Since(msgs, Joins(u, q.room), Mild(u, q.room, crossed'))
       \/ Keeps(u, page[u], q) /\ All(msgs, Mild(u, q.room, crossed'))
Around(u) ==
    /\ members' = members /\ up' = up /\ crossed \subseteq crossed'
    /\ \A v \in Users : inbox'[v] = inbox[v]
    /\ \A v \in Users : v # u =>
          willing'[v] = willing[v] /\ page'[v] = page[v] /\ out'[v] = out[v]

LEMMA TameKeeps ==
    ASSUME NEW u, NEW p, NEW q, Tame(u, p, q) \/ SameCall(p, q)
    PROVE  Keeps(u, p, q) /\ \A d : Shown(p, d) => Shown(q, d)
  BY DEF Tame, SameCall, Keeps, Talks, Coming, Shown

\* What a page step makes of the queue.
LEMMA ActedQueue ==
    ASSUME IInv, NEW u \in Users, NEW q, NEW msgs \in Seq(ToServer(u)), PageStep(u, q, msgs)
    PROVE  /\ page'[u] = q /\ \A v \in Users : v # u => page'[v] = page[v] /\ out'[v] = out[v]
           /\ out'[u] = IF up[u] THEN out[u] \o msgs ELSE out[u]
           /\ out[u] \in Seq(ToServer(u)) /\ out'[u] \in Seq(ToServer(u))
           /\ All(out[u], ToServer(u)) /\ All(msgs, ToServer(u))
<1>1. out[u] \in Seq(ToServer(u))
  BY DEF IInv, QueuesFit
<1>2. out[u] \o msgs \in Seq(ToServer(u))
  BY <1>1, ConcatProperties
<1>3. out'[u] = IF up[u] THEN out[u] \o msgs ELSE out[u]
  BY DEF PageStep, IInv, QueuesFit
<1> QED
  BY <1>1, <1>2, <1>3, AllIn DEF PageStep, IInv, QueuesFit

LEMMA PageStepElse ==
    ASSUME IInv, NEW u \in Users, NEW q, NEW msgs, PageStep(u, q, msgs)
    PROVE  page'[u] = q /\ \A v \in Users : v # u => page'[v] = page[v] /\ out'[v] = out[v]
  BY DEF PageStep, IInv, QueuesFit

\* More of them are mild.
LEMMA MildMore ==
    ASSUME NEW u, NEW d, crossed \subseteq crossed', NEW q, Backs(u, d, q, crossed)
    PROVE  Backs(u, d, q, crossed')
  BY SinceMore DEF Mild, Backs

LEMMA ActedBacked ==
    ASSUME IInv, NEW u \in Users, NEW q, NEW msgs, Acted(u, q, msgs), Backed(u),
           crossed \subseteq crossed', ~up[u] => out[u] = <<>>
    PROVE  Backed(u)'
<1>1. SUFFICES ASSUME NEW d \in Of(u), Partnered(q, d)
               PROVE  Backs(u, d, out'[u], crossed')
  BY ActedQueue DEF Backed, Acted
<1>2. msgs \in Seq(ToServer(u)) /\ out[u] \in Seq(ToServer(u))
  BY ActedQueue DEF Acted
<1>3. out'[u] = IF up[u] THEN out[u] \o msgs ELSE out[u]
  BY ActedQueue DEF Acted
<1>4. CASE ~up[u]
  BY <1>3, <1>4, AllShort DEF Backs
<1>5. CASE up[u] /\ Since(msgs, Joins(u, d), Mild(u, d, crossed'))
  BY <1>2, <1>3, <1>5, SinceAfter DEF Backs
<1>6. CASE up[u] /\ Keeps(u, page[u], q) /\ All(msgs, Mild(u, d, crossed'))
  <2>1. Backs(u, d, out[u], crossed)
    BY <1>1, <1>6 DEF Backed, Keeps, Partnered
  <2>2. Backs(u, d, out[u], crossed')
    BY <2>1, MildMore
  <2> QED
    BY <1>2, <1>3, <1>6, <2>2, SinceOn DEF Backs
<1> QED
  BY <1>1, <1>4, <1>5, <1>6 DEF Acted, Partnered

LEMMA GoingOn ==
    ASSUME NEW u, NEW d, NEW q \in Seq(ToServer(u)), NEW r \in Seq(ToServer(u)),
           Since(q, Movers(u, d), ToServer(u)) \/ Since(r, Movers(u, d), ToServer(u))
    PROVE  Since(q \o r, Movers(u, d), ToServer(u))
<1>1. All(r, ToServer(u))
  BY AllIn
<1> QED
  BY <1>1, SinceOn, SinceAfter

\* Whoever does nothing is as sound as before.
LEMMA RestingSound ==
    ASSUME NEW v \in Users, Sound(v), page'[v] = page[v], out'[v] = out[v], inbox'[v] = inbox[v],
           up'[v] = up[v], willing'[v] = willing[v], members' = members, crossed \subseteq crossed'
    PROVE  Sound(v)'
<1>1. Seen(v)'
  BY DEF Sound, Seen, Going, Showing
<1>2. Backed(v)'
  BY MildMore DEF Sound, Backed
<1> QED
  BY <1>1, <1>2 DEF Sound

LEMMA ActedSound ==
    ASSUME IInv, DInv, Steady, NEW u \in Users, Around(u),
           u \notin mixed' => \E q, msgs : Acted(u, q, msgs)
    PROVE  DInv'
<1>1. SUFFICES ASSUME NEW v \in Users, v \notin mixed', Sound(v) PROVE Sound(v)'
  BY DEF DInv, Steady
<1>2. CASE v # u
  BY <1>1, <1>2, RestingSound DEF Around
<1>3. CASE v = u
  <2>1. Sound(u) /\ inbox'[u] = inbox[u] /\ up'[u] = up[u] /\ members' = members
        /\ crossed \subseteq crossed'
    BY <1>1, <1>3 DEF Around
  <2>2. PICK q, msgs : Acted(u, q, msgs)
    BY <1>1, <1>3
  <2>3. /\ page'[u] = q /\ out'[u] = IF up[u] THEN out[u] \o msgs ELSE out[u]
        /\ out[u] \in Seq(ToServer(u)) /\ msgs \in Seq(ToServer(u))
    BY <2>2, ActedQueue DEF Acted
  <2>4. Backed(u)'
    BY <2>1, <2>2, ActedBacked DEF Sound
  <2>5. ASSUME NEW d \in Of(u), u \in members[d], up[u] PROVE Going(u, d)' \/ Showing(u, d)'
    <3>1. Going(u, d) \/ Since(msgs, Movers(u, d), ToServer(u)) => Going(u, d)'
      BY <2>3, <2>5, GoingOn DEF Going
    <3>2. Showing(u, d) /\ ~Since(msgs, Movers(u, d), ToServer(u)) /\ ~Going(u, d) => Showing(u, d)'
      BY <2>1, <2>2, <2>3, <2>5 DEF Showing, Acted
    <3> QED
      BY <2>1, <2>5, <3>1, <3>2 DEF Sound, Seen
  <2>6. Seen(u)'
    BY <2>1, <2>5 DEF Seen
  <2> QED
    BY <1>3, <2>1, <2>2, <2>3, <2>4, <2>6 DEF Sound, Acted
<1> QED
  BY <1>2, <1>3

LEMMA ActedKnown ==
    ASSUME IInv, KInv, Steady, NEW u \in Users, Around(u),
           u \notin mixed' => \E q, msgs : Acted(u, q, msgs)
    PROVE  KInv'
<1>1. SUFFICES ASSUME NEW d \in Dms, members[d] = d, d \notin crossed',
                      \A v \in d : v \notin mixed' /\ Settled(v, d)'
               PROVE  \A v \in d : Knows(v, d)'
  BY DEF KInv, Around
<1>2. d \subseteq Users /\ d \notin crossed /\ \A v \in d : v \notin mixed
  BY <1>1, DmAssumption DEF Around, Steady
<1>3. ASSUME NEW v \in d, v # u PROVE Settled(v, d) /\ (Knows(v, d) => Knows(v, d)')
  <2>1. page'[v] = page[v] /\ out'[v] = out[v] /\ inbox'[v] = inbox[v] /\ up'[v] = up[v]
    BY <1>2, <1>3 DEF Around
  <2> QED
    BY <1>1, <2>1 DEF Settled, Going, Knows
<1>4. ASSUME u \in d PROVE Settled(u, d) /\ (Knows(u, d) => Knows(u, d)')
  <2>1. PICK q, msgs : Acted(u, q, msgs)
    BY <1>1, <1>4
  <2>2. /\ page'[u] = q /\ out'[u] = IF up[u] THEN out[u] \o msgs ELSE out[u]
        /\ out[u] \in Seq(ToServer(u)) /\ msgs \in Seq(ToServer(u))
    BY <2>1, ActedQueue DEF Acted
  <2>3. up[u] /\ Partnered(q, d) /\ ~Going(u, d)' /\ inbox'[u] = inbox[u]
    BY <1>1, <1>4, <2>2 DEF Settled, Around
  <2>4. ~Going(u, d) /\ ~Since(msgs, Movers(u, d), ToServer(u))
    BY <2>2, <2>3, GoingOn DEF Going
  <2>5. ~Since(msgs, Joins(u, d), Mild(u, d, crossed'))
    BY <2>4, SinceMore DEF Joins, Movers, Mild
  <2>6. Keeps(u, page[u], q)
    BY <2>1, <2>3, <2>5 DEF Acted, Partnered
  <2>7. Settled(u, d)
    BY <2>3, <2>4, <2>6 DEF Keeps, Settled, Partnered
  <2>8. d \in Of(u)
    BY <1>4 DEF Of
  <2> QED
    BY <2>2, <2>3, <2>6, <2>7, <2>8 DEF Keeps, Knows
<1>5. \A v \in d : v \notin mixed /\ Settled(v, d) /\ (Knows(v, d) => Knows(v, d)')
  BY <1>2, <1>3, <1>4
<1> QED
  BY <1>1, <1>2, <1>5 DEF KInv

\* A page in a call that leaves says so.
LEMMA GoodbyeMoves ==
    ASSUME NEW u \in Users, NEW p, PageFits(u, p), NEW d, Shown(p, d), d \in Of(u)
    PROVE  /\ Since(Goodbye(p), Movers(u, d), ToServer(u))
           /\ Since(Freeing(p), Movers(u, d), ToServer(u))
<1>1. d # None /\ p.room = d /\ p.connected
  BY NoneApart DEF Of, Shown
<1>2. Msg("leave", d) \in Movers(u, d)
  BY <1>1, GoodMessages DEF Movers, Msg
<1>3. Since(<<Msg("leave", d)>>, Movers(u, d), ToServer(u))
  BY <1>2, AllShort
<1> QED
  BY <1>1, <1>3 DEF Goodbye, Freeing

\* Who enters d, with one call open, leaves no other room in silence.
LEMMA EnteredOnce ==
    ASSUME IInv, NEW u \in Users, ~Double(u)', NEW q, PageStep(u, q, <<>>), members' = members,
           NEW d \in Of(u), q.room = d, NEW c \in Of(u), u \in members[c], ~Going(u, c)
    PROVE  c = d
<1>1. <<>> \in Seq(ToServer(u))
  BY EmptySeq
<1>2. /\ page'[u] = q /\ out'[u] \in Seq(ToServer(u)) /\ out[u] \in Seq(ToServer(u))
      /\ out'[u] = IF up[u] THEN out[u] \o <<>> ELSE out[u]
  BY <1>1, ActedQueue
<1>3. out'[u] = out[u]
  BY <1>2, ConcatEmptySeq
<1>4. Open(u, c)'
  BY <1>2, <1>3, RoomOrGoingNext DEF Going
<1>5. Open(u, d)'
  BY <1>2, RoomOpen
<1> QED
  BY <1>4, <1>5, OneOpen

LEMMA UserAround ==
    ASSUME IInv, NEW u \in Users, UserStep(u)
    PROVE  Around(u)
<1>1. members' = members /\ up' = up /\ crossed \subseteq crossed' /\ inbox' = inbox
      /\ \A v \in Users : v # u => willing'[v] = willing[v]
  BY DEF IInv, UserStep, CallButton, Banner, Accept, Decline, HangUp, OpenList, JoinWaiting,
         StartCall, Wants, Act, server
<1>2. (\E q, msgs : PageStep(u, q, msgs)) \/ OpenList(u)
  BY DEF UserStep, CallButton, Banner, Accept, Decline, HangUp, JoinWaiting, StartCall
<1>3. \A v \in Users : v # u => page'[v] = page[v] /\ out'[v] = out[v]
  BY <1>2, PageStepElse DEF OpenList, IInv
<1> QED
  BY <1>1, <1>3 DEF Around

LEMMA UserActed ==
    ASSUME IInv, DInv, Steady, NEW u \in Users, u \notin mixed', UserStep(u)
    PROVE  \E q, msgs : Acted(u, q, msgs)
<1>0. /\ PageFits(u, page[u]) /\ Lawful(u, page[u], willing[u])
      /\ willing \in [Users -> Dms \cup {None}] /\ <<>> \in Seq(ToServer(u))
      /\ ~Double(u) /\ ~Double(u)'
  BY EmptySeq DEF IInv, DInv, Sound, Steady
<1>1. Around(u)
  BY UserAround
\* Whoever enters d has no marker of its own elsewhere.
<1>M. ASSUME NEW d \in Of(u), page'[u].room = d
      PROVE  \A f \in Of(u) : page'[u].marker[f] = u => f = d
  BY <1>0, <1>M, RoomOpen, OneOpen
<1>2. ASSUME NEW d \in Of(u), JoinWaiting(u, d) PROVE \E q, msgs : Acted(u, q, msgs)
  <2>1. PICK q : q = Entering(page[u], d, u, "wait")
    OBVIOUS
  <2>2. PageStep(u, q, <<>>) /\ willing'[u] = d /\ page'[u] = q
    BY <1>0, <1>2, <2>1, PageStepElse DEF JoinWaiting, Wants
  <2>3. q.connected = page[u].connected /\ Coming(q) /\ q.room = d /\ q.marker = page[u].marker
    BY <1>0, <2>1, EnteringLawful
  <2>4. Lawful(u, q, d)
    BY <1>0, <1>M, <2>1, <2>2, <2>3, EnteringLawful
  <2>5. ASSUME NEW c \in Of(u), Shown(page[u], c), u \in members[c], ~Going(u, c) PROVE Shown(q, c)
    <3>1. c = d
      BY <1>0, <1>1, <2>2, <2>3, <2>5, EnteredOnce DEF Around
    <3> QED
      BY <2>3, <2>5, <3>1 DEF Shown
  <2> QED
    BY <1>0, <2>2, <2>3, <2>4, <2>5 DEF Acted
<1>3. ASSUME NEW d \in Of(u), CallButton(u, d) PROVE \E q, msgs : Acted(u, q, msgs)
  <2>1. CASE PageStep(u, page[u], <<Msg("ring", d)>>) /\ UNCHANGED willing
    <3>0. Msg("ring", d) \in ToServer(u) /\ Msg("ring", d).type = "ring"
      BY GoodMessages DEF Msg
    <3>1. <<Msg("ring", d)>> \in Seq(ToServer(u))
      BY <3>0
    <3>2. \A c : All(<<Msg("ring", d)>>, Mild(u, c, crossed'))
      BY <3>0, AllShort DEF Mild
    <3>3. Keeps(u, page[u], page[u])
      BY TameOnce, TameKeeps
    <3>4. page'[u] = page[u] /\ willing' = willing
      BY <2>1, PageStepElse
    <3> QED
      BY <1>0, <2>1, <3>0, <3>1, <3>2, <3>3, <3>4 DEF Acted
  <2>2. CASE StartCall(u, d)
    <3>1. PICK f : f = Free(page[u])
      OBVIOUS
    <3>2. PICK q : q = Entering(f, d, u, "start")
      OBVIOUS
    <3>3. PageFits(u, f) /\ Lawful(u, f, willing[u])
      BY <1>0, <3>1, LeftFits, FreeLawful
    <3>4. Coming(q) /\ q.room = d /\ q.marker = f.marker
      BY <3>2, <3>3, EnteringLawful
    <3>5. PageStep(u, q, Freeing(page[u])) /\ willing'[u] = d /\ Freeing(page[u]) \in Seq(ToServer(u))
          /\ page'[u] = q
      BY <1>0, <2>2, <3>1, <3>2, GoodbyeFits, PageStepElse DEF StartCall, Wants
    <3>6. Lawful(u, q, d)
      BY <1>M, <3>2, <3>3, <3>4, <3>5, EnteringLawful
    <3>7. \A c \in Of(u) : Shown(page[u], c) => Since(Freeing(page[u]), Movers(u, c), ToServer(u))
      BY <1>0, GoodbyeMoves
    <3> QED
      BY <3>4, <3>5, <3>6, <3>7 DEF Acted
  <2> QED
    BY <1>2, <1>3, <2>1, <2>2, Zenon DEF CallButton
<1>4. CASE Accept(u)
  <2>1. PICK p, d : p = page[u] /\ d = p.bar.dm
    OBVIOUS
  <2>2. PICK s : s = Declined(p)
    OBVIOUS
  <2>3. PICK f : f = Free(s)
    OBVIOUS
  <2>4. PICK e : e = Entering(f, d, u, "accept")
    OBVIOUS
  <2>5. d \in Of(u) /\ PageStep(u, Unmarked(e, d), Freeing(p)) /\ willing'[u] = d
    BY <1>0, <1>4, <2>1, <2>2, <2>3, <2>4 DEF Accept, Declined, Wants, PageFits, Pages, Bars
  <2>6. PageFits(u, s) /\ Lawful(u, s, willing[u])
    BY <1>0, <2>1, <2>2, SilentFits, TameHidden, TameLawful DEF Declined
  <2>7. PageFits(u, f) /\ Lawful(u, f, willing[u])
    BY <2>3, <2>6, LeftFits, FreeLawful
  <2>8. PageFits(u, e) /\ Coming(e) /\ e.room = d /\ e.marker = f.marker
    BY <2>4, <2>5, <2>7, EnteringFits, EnteringLawful
  <2>9. PICK q : q = Unmarked(e, d)
    OBVIOUS
  <2>10. Tame(u, e, q) /\ \A g \in Of(u) : g # d => q.marker[g] = e.marker[g]
    <3>1. q = [e EXCEPT !.marker[d] = None, !.listed[d] = None] /\ e \in Pages(u)
      BY <2>5, <2>8, <2>9, NoneApart DEF Unmarked, Of, PageFits
    <3>2. q.marker = [e.marker EXCEPT ![d] = None] /\ e.marker \in [Dms -> Waiters]
      BY <3>1 DEF Pages
    <3>3. \A g \in Of(u) : g # d => q.marker[g] = e.marker[g]
      BY <3>2 DEF Of
    <3> QED
      BY <2>8, <2>9, <3>3, TameUnmarked
  <2>11. page'[u] = q /\ q.room = d
    BY <2>5, <2>8, <2>9, <2>10, PageStepElse DEF Tame, SameCall
  <2>12. \A g \in Of(u) : f.marker[g] = u => g = d
    BY <1>M, <2>5, <2>8, <2>10, <2>11
  <2>13. Lawful(u, e, d)
    BY <2>4, <2>5, <2>7, <2>12, EnteringLawful
  <2>14. Lawful(u, q, d) /\ Coming(q)
    BY <2>8, <2>10, <2>13, TameLawful DEF Tame, SameCall, Coming
  <2>15. \A c \in Of(u) : Shown(page[u], c) => Since(Freeing(p), Movers(u, c), ToServer(u))
    BY <1>0, <2>1, GoodbyeMoves
  <2>16. Freeing(p) \in Seq(ToServer(u))
    BY <1>0, <2>1, GoodbyeFits
  <2>17. Acted(u, q, Freeing(p))
    BY <2>5, <2>9, <2>14, <2>15, <2>16 DEF Acted
  <2> QED
    BY <2>17
<1>5. CASE Decline(u)
  <2>1. PICK p, d : p = page[u] /\ d = p.bar.dm
    OBVIOUS
  <2>2. PICK s : s = Declined(p)
    OBVIOUS
  <2>3. /\ d \in Of(u) /\ PageStep(u, s, <<Msg("end", d)>>)
        /\ IF p.active THEN willing' = willing ELSE willing'[u] = None
        /\ InCall(p, d) => d \in crossed'
    BY <1>0, <1>5, <2>1, <2>2 DEF Decline, Wants, PageFits, Pages, Bars
  <2>4. Tame(u, p, s) /\ Lawful(u, s, willing[u])
    BY <1>0, <2>1, <2>2, TameHidden, TameLawful
  <2>5. Msg("end", d) \in ToServer(u) /\ Msg("end", d).dm = d
    BY <2>3, GoodMessages DEF Msg
  <2>6. \A c : Shown(page[u], c) => Shown(s, c)
    BY <2>1, <2>4, TameKeeps
  <2>7. CASE p.active
    <3>1. Msg("end", d) \in Mild(u, p.room, crossed')
      BY <2>3, <2>5, <2>7 DEF InCall, Mild
    <3>2. All(<<Msg("end", d)>>, Mild(u, p.room, crossed'))
      BY <3>1, AllShort
    <3>3. Keeps(u, p, s) /\ s.room = p.room
      BY <2>4, TameKeeps DEF Tame, SameCall
    <3>4. Lawful(u, s, willing'[u]) /\ PageStep(u, s, <<Msg("end", d)>>)
          /\ <<Msg("end", d)>> \in Seq(ToServer(u))
      BY <2>3, <2>4, <2>5, <2>7
    <3>5. Keeps(u, page[u], s) /\ All(<<Msg("end", d)>>, Mild(u, s.room, crossed'))
      BY <2>1, <3>2, <3>3
    <3>6. Acted(u, s, <<Msg("end", d)>>)
      BY <2>6, <3>4, <3>5 DEF Acted
    <3> QED
      BY <3>6
  <2>8. CASE ~p.active
    <3>1. s.partner = None
      BY <1>0, <2>1, <2>4, <2>8 DEF Lawful, PageFits, Tame, SameCall
    <3>2. Lawful(u, s, None)
      BY <2>4, <3>1 DEF Lawful
    <3>3. willing'[u] = None
      BY <2>3, <2>8
    <3>4. Acted(u, s, <<Msg("end", d)>>)
      BY <2>3, <2>5, <2>6, <3>1, <3>2, <3>3 DEF Acted
    <3> QED
      BY <3>4
  <2> QED
    BY <2>7, <2>8
<1>6. CASE HangUp(u)
  <2>1. PICK q, msgs : q = Left(page[u]) /\ msgs = Goodbye(page[u])
    OBVIOUS
  <2>2. PageStep(u, q, msgs) /\ msgs \in Seq(ToServer(u))
    BY <1>0, <1>6, <2>1, GoodbyeFits DEF HangUp
  <2>3. Lawful(u, q, willing'[u]) /\ q.partner = None
    BY <1>0, <2>1, TornDownLawful
  <2>4. \A c \in Of(u) : Shown(page[u], c) => Since(msgs, Movers(u, c), ToServer(u))
    BY <1>0, <2>1, GoodbyeMoves
  <2>5. Acted(u, q, msgs)
    BY <2>2, <2>3, <2>4 DEF Acted
  <2> QED
    BY <2>5
<1>7. CASE OpenList(u)
  <2>1. PICK q : q = [page[u] EXCEPT !.jobs = page[u].jobs \cup {Fetched}]
    OBVIOUS
  <2>2. page' = [page EXCEPT ![u] = q] /\ out' = out /\ willing' = willing
    BY <1>7, <2>1 DEF OpenList
  <2>3. out[u] \in Seq(ToServer(u)) /\ Len(out[u]) <= MaxQueue /\ out \in [Users -> Seq(Messages)]
    BY DEF IInv, QueuesFit
  <2>4. out[u] \o <<>> = out[u] /\ Len(<<>>) = 0 /\ Len(out[u]) \in Nat
    BY <2>3, ConcatEmptySeq, LenProperties
  <2>5. PageStep(u, q, <<>>)
    BY <2>2, <2>3, <2>4 DEF PageStep
  <2>6. Calm(u, page[u], [q EXCEPT !.jobs = page[u].jobs]) /\ q.connected = page[u].connected
        /\ q.partner = page[u].partner /\ q.room = page[u].room /\ q.active = page[u].active
        /\ q.marker = page[u].marker /\ q.bar = page[u].bar /\ q.answered = page[u].answered
        /\ q.waiting = page[u].waiting /\ q.members = page[u].members
        /\ q.jobs = page[u].jobs \cup {Fetched}
    BY <1>0, <2>1 DEF PageFits, Pages, Calm
  <2>7. Lawful(u, q, willing[u]) /\ Keeps(u, page[u], q)
    BY <1>0, <2>6 DEF Lawful, Keeps, Talks, Coming
  <2>8. All(<<>>, Mild(u, q.room, crossed'))
    BY AllShort
  <2>9. Acted(u, q, <<>>)
    BY <1>0, <2>2, <2>5, <2>6, <2>7, <2>8 DEF Acted, Shown
  <2> QED
    BY <2>9
<1> QED
  BY <1>1, <1>2, <1>3, <1>4, <1>5, <1>6, <1>7 DEF UserStep, Banner

\* What the page does by itself.
LEMMA OwnAround ==
    ASSUME IInv, NEW u \in Users, Continue(u) \/ RingTimeout(u) \/ BarTimeout(u)
    PROVE  Around(u) /\ willing' = willing
<1>1. Own
  BY DEF Continue, RingTimeout, BarTimeout
<1>2. ASSUME Continue(u) PROVE \E q, msgs : PageStep(u, q, msgs)
  <2>1. PICK j \in page[u].jobs : Goes(u, j)
    BY <1>2 DEF Continue
  <2>2. j.then \in {"start", "accept", "wait", "refresh"}
    BY DEF IInv, PageFits, Pages, JobsOf
  <2> QED
    BY <2>1, <2>2 DEF Goes
<1>3. \E q, msgs : PageStep(u, q, msgs)
  BY <1>2 DEF RingTimeout, BarTimeout
<1>4. \A v \in Users : v # u => page'[v] = page[v] /\ out'[v] = out[v]
  BY <1>3, PageStepElse
<1> QED
  BY <1>1, <1>4 DEF Own, Around, server

LEMMA ContinueActed ==
    ASSUME IInv, DInv, Steady, NEW u \in Users, u \notin mixed', Continue(u)
    PROVE  \E q, msgs : Acted(u, q, msgs)
<1>0. /\ PageFits(u, page[u]) /\ Lawful(u, page[u], willing[u]) /\ <<>> \in Seq(ToServer(u))
      /\ ~Double(u)
  BY EmptySeq DEF IInv, DInv, Sound, Steady
<1>1. willing' = willing
  BY OwnAround
<1>2. PICK j \in page[u].jobs : Goes(u, j)
  BY DEF Continue
<1>3. PICK p : p = [page[u] EXCEPT !.jobs = page[u].jobs \ {j}]
  OBVIOUS
<1>4. /\ PageFits(u, p) /\ p.jobs = page[u].jobs \ {j} /\ p.room = page[u].room
      /\ p.connected = page[u].connected /\ p.active = page[u].active
      /\ p.partner = page[u].partner /\ p.members = page[u].members
      /\ p.answered = page[u].answered /\ p.waiting = page[u].waiting
      /\ p.marker = page[u].marker /\ p.bar = page[u].bar
  BY <1>0, <1>3 DEF PageFits, Pages, Rings
<1>5. Lawful(u, p, willing[u])
  BY <1>0, <1>4 DEF Lawful
<1>6. j \in JobsOf(u)
  BY <1>0 DEF PageFits, Pages
<1>7. Goes(u, j) <=>
        CASE j.then = "start" ->
               PageStep(u, [p EXCEPT !.ringTimer = j.dm], <<Msg("join", j.dm), Msg("ring", j.dm)>>)
          [] j.then = "accept" -> PageStep(u, p, <<Msg("join", j.dm)>>)
          [] j.then = "wait" -> PageStep(u, Unmarked(p, j.dm), <<Msg("join", j.dm)>>)
          [] j.then = "refresh" -> PageStep(u, Synced(u, [p EXCEPT !.listed = j.list]), <<>>)
  BY <1>3 DEF Goes
<1>8. ASSUME j.then # "refresh"
      PROVE  \E q, msgs : /\ Tame(u, p, q) /\ PageStep(u, q, msgs) /\ msgs \in Seq(ToServer(u))
                          /\ Since(msgs, Joins(u, j.dm), Mild(u, j.dm, crossed'))
  <2>1. j.dm \in Of(u)
    BY <1>6, <1>8 DEF JobsOf
  <2>2. PICK m, n : m = Msg("join", j.dm) /\ n = Msg("ring", j.dm)
    OBVIOUS
  <2>3. m \in ToServer(u) /\ n \in ToServer(u) /\ m.type = "join" /\ n.type = "ring"
        /\ m.dm = j.dm
    BY <2>1, <2>2, GoodMessages DEF Msg
  <2>4. m \in Joins(u, j.dm) /\ n \in Mild(u, j.dm, crossed')
    BY <2>3 DEF Joins, Mild
  <2>5. /\ Since(<<m>>, Joins(u, j.dm), Mild(u, j.dm, crossed')) /\ <<m>> \in Seq(ToServer(u))
        /\ Since(<<m, n>>, Joins(u, j.dm), Mild(u, j.dm, crossed'))
        /\ <<m, n>> \in Seq(ToServer(u))
    BY <2>3, <2>4, AllShort
  <2>6. CASE j.then = "start"
    <3>1. PICK q : q = [p EXCEPT !.ringTimer = j.dm]
      OBVIOUS
    <3>2. Tame(u, p, q) /\ PageStep(u, q, <<m, n>>)
      BY <1>2, <1>4, <1>7, <2>2, <2>6, <3>1, TameFields
    <3> QED
      BY <2>5, <3>2
  <2>7. CASE j.then = "accept"
    <3>1. Tame(u, p, p) /\ PageStep(u, p, <<m>>)
      BY <1>2, <1>7, <2>2, <2>7, TameOnce
    <3> QED
      BY <2>5, <3>1
  <2>8. CASE j.then = "wait"
    <3>1. PICK q : q = Unmarked(p, j.dm)
      OBVIOUS
    <3>2. Tame(u, p, q) /\ PageStep(u, q, <<m>>)
      BY <1>2, <1>4, <1>7, <2>2, <2>8, <3>1, TameUnmarked
    <3> QED
      BY <2>5, <3>2
  <2> QED
    BY <1>6, <1>8, <2>6, <2>7, <2>8 DEF JobsOf
<1>9. CASE j.then # "refresh"
  <2>1. PICK q, msgs : /\ Tame(u, p, q) /\ PageStep(u, q, msgs) /\ msgs \in Seq(ToServer(u))
                       /\ Since(msgs, Joins(u, j.dm), Mild(u, j.dm, crossed'))
    BY <1>8, <1>9
  <2>2. Lawful(u, q, willing[u]) /\ q.connected = page[u].connected /\ q.room = page[u].room
    BY <1>4, <1>5, <2>1, TameLawful DEF Tame, SameCall
  <2>3. q.partner # None => q.room = j.dm
    <3>1. j.dm \in Of(u) /\ Open(u, j.dm)
      BY <1>2, <1>6, <1>9, RoomOpen DEF JobsOf
    <3>2. SUFFICES ASSUME q.partner # None PROVE page[u].room = j.dm
      BY <2>2
    <3>3. page[u].room \in Of(u) /\ Open(u, page[u].room)
      BY <1>0, <1>4, <2>1, <3>2, RoomOpen DEF PageFits, Pages, Tame, SameCall
    <3> QED
      BY <1>0, <3>1, <3>3, OneOpen
  <2>4. q.partner = None \/ Since(msgs, Joins(u, q.room), Mild(u, q.room, crossed'))
    BY <2>1, <2>3
  <2>5. \A c : Shown(page[u], c) => Shown(q, c)
    BY <2>2 DEF Shown
  <2>6. Acted(u, q, msgs)
    BY <1>1, <2>1, <2>2, <2>4, <2>5 DEF Acted
  <2> QED
    BY <2>6
<1>10. CASE j.then = "refresh"
  <2>1. PICK l : l = [p EXCEPT !.listed = j.list]
    OBVIOUS
  <2>2. PageFits(u, l)
    BY <1>4, <1>6, <2>1 DEF PageFits, Pages, Rings, JobsOf, Waiters
  <2>3. PICK q : q = Synced(u, l)
    OBVIOUS
  <2>4. Tame(u, p, l) /\ Tame(u, l, q)
    BY <1>4, <2>1, <2>2, <2>3, TameFields, TameSynced
  <2>5. Tame(u, p, q)
    BY <2>4, TameTwice
  <2>6. PageStep(u, q, <<>>)
    BY <1>2, <1>7, <1>10, <2>1, <2>3
  <2>7. Lawful(u, q, willing[u]) /\ q.connected = page[u].connected /\ q.room = page[u].room
    BY <1>4, <1>5, <2>5, TameLawful DEF Tame, SameCall
  <2>8. Keeps(u, page[u], q)
    BY <1>4, <1>10, <2>5 DEF Keeps, Coming, Talks, Tame, SameCall
  <2>9. All(<<>>, Mild(u, q.room, crossed'))
    BY AllShort
  <2>10. Acted(u, q, <<>>)
    BY <1>0, <1>1, <2>6, <2>7, <2>8, <2>9 DEF Acted, Shown
  <2> QED
    BY <2>10
<1> QED
  BY <1>9, <1>10

LEMMA TimeoutActed ==
    ASSUME IInv, DInv, Steady, NEW u \in Users, u \notin mixed', RingTimeout(u) \/ BarTimeout(u)
    PROVE  \E q, msgs : Acted(u, q, msgs)
<1>0. /\ PageFits(u, page[u]) /\ Lawful(u, page[u], willing[u]) /\ <<>> \in Seq(ToServer(u))
      /\ \A c : All(<<>>, Mild(u, c, crossed'))
  BY EmptySeq, AllShort DEF IInv, DInv, Sound, Steady
<1>1. willing' = willing
  BY OwnAround
<1>2. ASSUME NEW q, Tame(u, page[u], q), PageStep(u, q, <<>>)
      PROVE  Acted(u, q, <<>>)
  BY <1>0, <1>1, <1>2, TameLawful, TameKeeps DEF Acted, Tame, SameCall
<1>3. CASE RingTimeout(u)
  <2>1. PICK p : p = [page[u] EXCEPT !.ringTimer = None]
    OBVIOUS
  <2>2. PICK d : d = page[u].ringTimer
    OBVIOUS
  <2>3. PageFits(u, p) /\ Tame(u, page[u], p) /\ d \in Of(u)
    BY <1>0, <1>3, <2>1, <2>2, TameFields DEF PageFits, Pages, Rings, RingTimeout
  <2>4. \/ /\ ~p.answered
           /\ PageStep(u, [p EXCEPT !.waiting = TRUE, !.ringing = FALSE], <<Msg("waiting", d)>>)
        \/ PageStep(u, p, <<>>)
    BY <1>3, <2>1, <2>2 DEF RingTimeout
  <2>5. ASSUME ~p.answered,
               PageStep(u, [p EXCEPT !.waiting = TRUE, !.ringing = FALSE], <<Msg("waiting", d)>>)
        PROVE  \E q, msgs : Acted(u, q, msgs)
    <3>1. PICK q, m : q = [p EXCEPT !.waiting = TRUE, !.ringing = FALSE] /\ m = Msg("waiting", d)
      OBVIOUS
    <3>2. m \in ToServer(u) /\ m.type = "waiting"
      BY <2>3, <3>1, GoodMessages DEF Msg
    <3>3. m \in Mild(u, q.room, crossed') /\ <<m>> \in Seq(ToServer(u))
      BY <3>2 DEF Mild
    <3>4. All(<<m>>, Mild(u, q.room, crossed'))
      BY <3>3, AllShort
    <3>5. Calm(u, p, q)
      BY <2>3, <3>1 DEF PageFits, Pages, Calm
    <3>6. Calm(u, page[u], q)
      BY <2>3, <3>5, CalmTwice
    <3>7. Keeps(u, page[u], q)
      BY <2>3, <2>5, <3>6 DEF Keeps, Calm, Talks, Coming, Tame, SameCall
    <3>8. Acted(u, q, <<m>>)
      BY <1>0, <1>1, <2>5, <3>1, <3>3, <3>4, <3>6, <3>7, CalmLawful DEF Acted, Calm, Shown
    <3> QED
      BY <3>8
  <2> QED
    BY <1>2, <2>3, <2>4, <2>5
<1>4. CASE BarTimeout(u)
  <2>1. PICK p : p = [page[u] EXCEPT !.barTimer = None]
    OBVIOUS
  <2>2. PICK d : d = page[u].barTimer
    OBVIOUS
  <2>3. PICK who : who = page[u].bar.caller
    OBVIOUS
  <2>4. Tame(u, page[u], p) /\ p.bar = page[u].bar /\ who # u
    BY <1>0, <2>1, <2>3, TameFields DEF PageFits, Pages, Lawful
  <2>5. PageStep(u, IF p.bar.dm = d /\ ~p.bar.waiting THEN OnWaiting(p, d, p.bar.caller) ELSE p, <<>>)
    BY <1>4, <2>1, <2>2 DEF BarTimeout
  <2>6. CASE p.bar.dm = d /\ ~p.bar.waiting
    <3>1. PICK b : b = [page[u].bar EXCEPT !.waiting = TRUE]
      OBVIOUS
    <3>2. PICK q : q = [p EXCEPT !.bar = b, !.ringing = FALSE]
      OBVIOUS
    <3>3. b \in Bars(u) /\ b.caller = who /\ b.dm = page[u].bar.dm /\ b.shown = page[u].bar.shown
      BY <1>0, <2>3, <3>1 DEF PageFits, Pages, Bars
    <3>4. PageFits(u, q)
      BY <1>0, <2>1, <3>2, <3>3 DEF PageFits, Pages, Rings
    <3>5. p \in Pages(u)
      BY <1>0, <2>1 DEF PageFits, Pages
    <3>6. q.bar = b /\ q.marker = p.marker /\ SameCall(p, q)
      BY <3>2, <3>5 DEF Pages, SameCall
    <3>7. Tame(u, page[u], q)
      BY <2>3, <2>4, <3>3, <3>6 DEF Tame, SameCall
    <3>8. OnWaiting(p, d, p.bar.caller) = Marked(q, d, who)
      BY <1>0, <2>1, <2>3, <2>4, <2>6, <3>1, <3>2 DEF OnWaiting, FlipBar, PageFits, Pages
    <3>9. Tame(u, page[u], Marked(q, d, who))
      BY <2>4, <3>4, <3>7, TameMarked, TameTwice
    <3> QED
      BY <1>2, <2>5, <2>6, <3>8, <3>9
  <2>7. CASE ~(p.bar.dm = d /\ ~p.bar.waiting)
    <3>1. PageStep(u, p, <<>>)
      BY <2>5, <2>7
    <3>2. Acted(u, p, <<>>)
      BY <1>2, <2>4, <3>1
    <3> QED
      BY <3>2
  <2> QED
    BY <2>6, <2>7
<1> QED
  BY <1>3, <1>4

-----------------------------------------------------------------------------
(* Steps of the page that read a message *)

\* What the page of u does with m: it becomes q and sends msgs.
Read(u, m, q, msgs) ==
    /\ PageStep(u, q, msgs) /\ msgs \in Seq(ToServer(u)) /\ Lawful(u, q, willing[u])
    /\ Coming(page[u]) => Coming(q)
    /\ q.partner # None => /\ page[u].partner # None /\ page[u].room = q.room
                           /\ All(msgs, Mild(u, q.room, crossed))
    /\ \A d \in Of(u) :
        /\ Shown(page[u], d) /\ m \in Lasting(u, d) => Shown(q, d)
        /\ m \in Opening(u, d) => Shown(q, d)
        /\ Partnered(page[u], d) /\ Talks(u, d, page[u]) /\ m \in Clear(u, d) => Talks(u, d, q)
        /\ m \in Lists(u, d) /\ (m.type = "joined" \/ page[u].connected) => Talks(u, d, q)

\* A page that did not get a partner has its room, or none.
LEMMA RoomLawful ==
    ASSUME NEW u, NEW p, NEW q, NEW d, Lawful(u, p, d), Lawful(u, q, d),
           p.partner # None, q.partner # None
    PROVE  p.room = q.room
  BY DEF Lawful

LEMMA HandleReads ==
    ASSUME IInv, DInv, NEW u \in Users, u \notin mixed, ~Double(u), NEW m \in Foreign(u),
           m.type = "joined" => Open(u, m.dm), Handle(u, m)
    PROVE  \E q : Read(u, m, q, <<>>)
<1>0. /\ PageFits(u, page[u]) /\ Lawful(u, page[u], willing[u]) /\ <<>> \in Seq(ToServer(u))
      /\ \A c : All(<<>>, Mild(u, c, crossed))
  BY EmptySeq, AllShort DEF IInv, DInv, Sound
<1>1. PICK p : p = page[u]
  OBVIOUS
<1>2. PageFits(u, p) /\ Lawful(u, p, willing[u])
  BY <1>0, <1>1
<1>3. /\ m.dm \in Of(u) /\ m.who \in Waiters /\ m.list \in SUBSET Users /\ m.who # u
      /\ m.type = "ring" => m.who \in Users
  BY DEF Foreign, ToPage, Bodies
<1>4. \A d \in Of(u) : Other(d, u) \in d /\ Other(d, u) # u /\ d \ {u} # {}
  BY OtherOne DEF Of
<1>5. ASSUME NEW q, Tame(u, p, q), m.type \in {"ring", "cleared"}, PageStep(u, q, <<>>)
      PROVE  Read(u, m, q, <<>>)
  <2>1. Lawful(u, q, willing[u]) /\ Keeps(u, p, q) /\ \A d : Shown(p, d) => Shown(q, d)
    BY <1>2, <1>5, TameLawful, TameKeeps
  <2> QED
    BY <1>0, <1>1, <1>5, <2>1 DEF Read, Keeps, Lists, Opening
<1>6. CASE m.type = "members"
  <2>1. PICK q : q = OnMembers(u, p, m.list)
    OBVIOUS
  <2>2. PageStep(u, q, <<>>)
    BY <1>1, <1>6, <2>1 DEF Handle
  <2>3. /\ Calm(u, p, q)
        /\ p.connected /\ p.active /\ m.list \ {u} # {} =>
              q.members = m.list /\ q.answered /\ ~q.waiting
    BY <1>2, <1>3, <2>1, OnMembersCalm
  <2>4. Lawful(u, q, willing[u])
    BY <1>2, <2>3, CalmLawful
  <2>5. ASSUME NEW d \in Of(u), m.list = d, p.connected PROVE Talks(u, d, q)
    BY <1>2, <1>4, <2>3, <2>5 DEF Talks, Calm, Lawful
  <2>6. ASSUME NEW d \in Of(u)
        PROVE  /\ Talks(u, d, p) /\ m \in Clear(u, d) => Talks(u, d, q)
               /\ m \in Lists(u, d) /\ p.connected => Talks(u, d, q)
    BY <1>6, <2>5 DEF Clear, Lists, Talks
  <2>7. Read(u, m, q, <<>>)
    BY <1>0, <1>1, <1>6, <2>2, <2>3, <2>4, <2>6 DEF Read, Calm, Coming, Shown, Opening
  <2> QED
    BY <2>7
<1>7. CASE m.type = "joined"
  <2>1. PICK q : q = OnJoined(u, p, m.dm, m.list)
    OBVIOUS
  <2>2. PageStep(u, q, <<>>)
    BY <1>1, <1>7, <2>1 DEF Handle
  <2>3. p.room \in {m.dm, None} /\ \A f \in Of(u) : p.marker[f] = u => f = m.dm
    <3>1. \A f \in Of(u) : p.room = f \/ p.marker[f] = u => f = m.dm
      BY <1>1, <1>3, <1>7, RoomOpen, OneOpen
    <3> QED
      BY <1>2, <3>1 DEF PageFits, Pages
  <2>4. p.partner # None => p.room = m.dm
    BY <1>2, <2>3 DEF PageFits
  <2>5. /\ Lawful(u, q, willing[u]) /\ q.connected /\ q.partner = p.partner /\ q.jobs = p.jobs
        /\ q.room = m.dm
        /\ m.list \ {u} # {} => q.members = m.list /\ q.answered /\ ~q.waiting
    BY <1>2, <1>3, <2>1, <2>3, <2>4, OnJoinedLawful
  <2>6. ASSUME NEW d \in Of(u), m.list = d PROVE Talks(u, d, q)
    BY <1>4, <2>5, <2>6 DEF Talks
  <2>7. ASSUME NEW d \in Of(u)
        PROVE  /\ Shown(p, d) => Shown(q, d)
               /\ m \in Opening(u, d) => Shown(q, d)
               /\ m \in Clear(u, d) => Talks(u, d, q)
               /\ m \in Lists(u, d) => Talks(u, d, q)
    <3>1. Shown(p, d) => Shown(q, d)
      BY <2>3, <2>5, NoneApart DEF Shown, Of
    <3>2. m \in Opening(u, d) => Shown(q, d)
      BY <2>5 DEF Shown, Opening
    <3> QED
      BY <1>7, <2>6, <3>1, <3>2 DEF Clear, Lists
  <2>8. q.partner # None => p.partner # None /\ p.room = q.room
    BY <2>4, <2>5
  <2>9. Coming(p) => Coming(q)
    BY <2>5 DEF Coming
  <2>10. Read(u, m, q, <<>>)
    BY <1>0, <1>1, <2>2, <2>5, <2>7, <2>8, <2>9 DEF Read
  <2> QED
    BY <2>10
<1>8. CASE m.type = "waiting"
  <2>1. PICK q : q = OnWaiting(p, m.dm, m.who)
    OBVIOUS
  <2>2. PageStep(u, q, <<>>)
    BY <1>1, <1>8, <2>1 DEF Handle
  <2>3. Calm(u, p, q) /\ (PartnerListed(p) => SameCall(p, q))
    BY <1>2, <1>3, <2>1, OnWaitingCalm
  <2>4. Lawful(u, q, willing[u])
    BY <1>2, <2>3, CalmLawful
  <2>5. ASSUME NEW d \in Of(u), Partnered(p, d), Talks(u, d, p) PROVE Talks(u, d, q)
    <3>1. p.partner = Other(d, u)
      BY <1>2, <2>5 DEF Lawful, Partnered
    <3>2. PartnerListed(p)
      BY <2>5, <3>1 DEF PartnerListed, Talks, Partnered
    <3> QED
      BY <2>3, <2>5, <3>2 DEF SameCall, Talks
  <2>6. Read(u, m, q, <<>>)
    BY <1>0, <1>1, <1>8, <2>2, <2>3, <2>4, <2>5 DEF Read, Calm, Coming, Lists, Shown, Opening
  <2> QED
    BY <2>6
<1>9. CASE m.type = "cleared"
  <2>1. PICK q : q = OnCleared(p, m.dm)
    OBVIOUS
  <2>2. PageStep(u, q, <<>>) /\ Tame(u, p, q)
    BY <1>1, <1>2, <1>3, <1>9, <2>1, TameCleared DEF Handle
  <2> QED
    BY <1>5, <1>9, <2>2
<1>10. CASE m.type = "declined"
  <2>1. PICK q : q = OnEnd(u, p, m.dm, TRUE)
    OBVIOUS
  <2>2. PageStep(u, q, <<>>)
    BY <1>1, <1>10, <2>1 DEF Handle
  <2>3. Calm(u, p, q)
    BY <1>2, <1>3, <2>1, OnEndCalm
  <2>4. Lawful(u, q, willing[u])
    BY <1>2, <2>3, CalmLawful
  <2>5. ASSUME NEW d \in Of(u), Partnered(p, d), Talks(u, d, p), m \in Clear(u, d)
        PROVE  Talks(u, d, q)
    <3>1. p.room # m.dm
      BY <1>10, <2>5 DEF Clear, Partnered
    <3>2. SameCall(p, q)
      BY <1>2, <1>3, <2>1, <3>1, OnEndElsewhere
    <3> QED
      BY <2>5, <3>2 DEF SameCall, Talks
  <2>6. Read(u, m, q, <<>>)
    BY <1>0, <1>1, <1>10, <2>2, <2>3, <2>4, <2>5 DEF Read, Calm, Coming, Lists, Shown, Opening
  <2> QED
    BY <2>6
<1>11. CASE m.type = "ended"
  <2>1. PICK q : q = OnEnd(u, p, m.dm, FALSE)
    OBVIOUS
  <2>2. PageStep(u, q, <<>>)
    BY <1>1, <1>11, <2>1 DEF Handle
  <2>3. Lawful(u, q, willing[u]) /\ q.jobs = p.jobs /\ q.partner \in {p.partner, None}
    BY <1>2, <1>3, <2>1, OnEndCalm
  <2>4. p.room # m.dm => SameCall(p, q)
    BY <1>2, <1>3, <2>1, OnEndElsewhere
  <2>5. ASSUME NEW d \in Of(u)
        PROVE  /\ Shown(p, d) /\ m \in Lasting(u, d) => Shown(q, d)
               /\ m \notin Opening(u, d) /\ m \notin Lists(u, d)
               /\ Partnered(p, d) /\ Talks(u, d, p) /\ m \in Clear(u, d) => Talks(u, d, q)
    <3>1. (p.room = d /\ m \in Lasting(u, d) \cup Clear(u, d)) => SameCall(p, q)
      BY <1>11, <2>4 DEF Lasting, Clear
    <3> QED
      BY <1>11, <3>1 DEF Shown, Partnered, SameCall, Talks, Opening, Lists
  <2>6. q.partner # None => p.partner # None /\ p.room = q.room
    BY <1>2, <2>3, RoomLawful
  <2>7. Read(u, m, q, <<>>)
    BY <1>0, <1>1, <2>2, <2>3, <2>5, <2>6 DEF Read, Coming
  <2> QED
    BY <2>7
<1>12. CASE m.type = "ring"
  <2>1. PICK b : b = Bar(m.dm, m.who)
    OBVIOUS
  <2>2. PICK r : r = [p EXCEPT !.bar = b, !.ringing = TRUE, !.barTimer = m.dm]
    OBVIOUS
  <2>3. Tame(u, p, r)
    BY <1>2, <1>3, <2>1, <2>2 DEF PageFits, Pages, Bar, Tame, SameCall
  <2>4. ~CallsBack(u, p, m.dm)
    BY <1>2, <1>3, NoneApart DEF CallsBack, Lawful, Of
  <2>5. OnRing(u, m.dm, m.who)
    BY <1>12 DEF Handle
  <2>6. PageStep(u, p, <<>>) \/ PageStep(u, r, <<>>)
    BY <1>1, <2>1, <2>2, <2>4, <2>5 DEF OnRing
  <2> QED
    BY <1>5, <1>12, <2>3, <2>6, TameOnce
<1> QED
  BY <1>6, <1>7, <1>8, <1>9, <1>10, <1>11, <1>12 DEF Foreign, ToPage, Bodies

LEMMA ReceiveReads ==
    ASSUME IInv, DInv, NEW u \in Users, u \notin mixed, ~Double(u), Receive(u)
    PROVE  \E q, msgs : Read(u, Head(inbox[u]), q, msgs)
<1>1. PICK m : m = Head(inbox[u])
  OBVIOUS
<1>2. /\ inbox[u] \in Seq(Foreign(u)) /\ inbox[u] # <<>> /\ m \in Foreign(u)
      /\ m = inbox[u][1] /\ 1 \in 1..Len(inbox[u])
  <2>1. inbox[u] \in Seq(Foreign(u)) /\ inbox[u] # <<>>
    BY DEF DInv, Sound, Receive
  <2> QED
    BY <1>1, <2>1, TailIndex, HeadTailProperties
<1>X. m.type = "joined" => Open(u, m.dm)
  BY <1>2 DEF Open, Answered
<1>3. CASE Handle(u, m)
  BY <1>1, <1>2, <1>3, <1>X, HandleReads
<1>4. CASE m.type = "ring" /\ Muted(u, m.dm)
  <2>1. /\ PageFits(u, page[u]) /\ Lawful(u, page[u], willing[u]) /\ m.dm \in Of(u)
    BY <1>2 DEF IInv, DInv, Sound, Foreign, ToPage, Bodies
  <2>2. PICK n : n = Msg("end", m.dm)
    OBVIOUS
  <2>3. <<n>> \in Seq(ToServer(u)) /\ PageStep(u, page[u], <<n>>) /\ ~InCall(page[u], m.dm)
    BY <1>4, <2>1, <2>2, GoodMessages DEF Muted
  <2>4. ASSUME page[u].partner # None PROVE All(<<n>>, Mild(u, page[u].room, crossed))
    <3>1. page[u].room # m.dm
      BY <2>1, <2>3, <2>4 DEF InCall, Lawful, PageFits
    <3>2. n \in ToServer(u) /\ n.dm = m.dm
      BY <2>1, <2>2, GoodMessages DEF Msg
    <3>3. n \in Mild(u, page[u].room, crossed)
      BY <3>1, <3>2 DEF Mild
    <3> QED
      BY <3>3, AllShort
  <2>5. Read(u, m, page[u], <<n>>)
    BY <1>4, <2>1, <2>3, <2>4 DEF Read, Lists, Opening
  <2> QED
    BY <1>1, <2>5
<1> QED
  BY <1>1, <1>3, <1>4 DEF Receive

\* The step of u that reads m.
Reading(u, m, q, msgs) ==
    /\ Read(u, m, q, msgs) /\ page'[u] = q /\ out'[u] = out[u] \o msgs
    /\ out[u] \in Seq(ToServer(u)) /\ msgs \in Seq(ToServer(u))
    /\ Sound(u) /\ up[u] /\ u \notin mixed
    /\ inbox[u] \in Seq(Foreign(u)) /\ m \in Foreign(u) /\ inbox'[u] \in Seq(Foreign(u))
    /\ \A d : Going(u, d) => Going(u, d)'

LEMMA ReadSound ==
    ASSUME IInv, DInv, Steady, NEW u \in Users, Receive(u)
    PROVE  DInv' /\ (KInv => KInv')
<1> DEFINE m == Head(inbox[u])
<1>1. \A v \in Users : v # u => page'[v] = page[v] /\ out'[v] = out[v]
  <2>1. \E q, msgs : PageStep(u, q, msgs)
    <3>1. ASSUME Handle(u, m) PROVE \E q, msgs : PageStep(u, q, msgs)
      <4>1. m \in ToPage(u)
        BY HeadTailProperties DEF IInv, QueuesFit, Receive
      <4>2. m.type \in {"members", "joined", "ring", "waiting", "cleared", "declined", "ended"}
        BY <4>1 DEF ToPage, Bodies
      <4>3. OnRing(u, m.dm, m.who) => \E q, msgs : PageStep(u, q, msgs)
        BY DEF OnRing
      <4> HIDE DEF m
      <4> QED
        BY <3>1, <4>2, <4>3 DEF Handle
    <3> QED
      BY <3>1 DEF Receive, Muted
  <2> QED
    BY <2>1, PageStepElse
<1>2. /\ members' = members /\ up' = up /\ crossed' = crossed /\ willing' = willing
      /\ inbox'[u] = Tail(inbox[u]) /\ inbox[u] # <<>>
      /\ \A v \in Users : v # u => inbox'[v] = inbox[v]
  BY DEF Receive, server, IInv, QueuesFit
<1> HIDE DEF m
\* What u makes of it, unless it has two calls.
<1>3. ASSUME u \notin mixed'
      PROVE  \E q, msgs : Reading(u, m, q, msgs)
  <2>1. u \notin mixed /\ ~Double(u)
    BY <1>3 DEF Steady
  <2>2. PICK q, msgs : Read(u, m, q, msgs)
    BY <2>1, ReceiveReads DEF m
  <2>3. Sound(u) /\ up[u]
    BY <1>2, <2>1 DEF DInv, Sound
  <2>4. /\ page'[u] = q /\ out'[u] = out[u] \o msgs
        /\ out[u] \in Seq(ToServer(u)) /\ msgs \in Seq(ToServer(u))
    BY <2>2, <2>3, ActedQueue DEF Read
  <2>5. inbox[u] \in Seq(Foreign(u)) /\ m \in Foreign(u) /\ inbox'[u] \in Seq(Foreign(u))
    BY <1>2, <2>3, HeadTailProperties DEF Sound, m
  <2>6. \A d : Going(u, d) => Going(u, d)'
    BY <2>4, GoingOn DEF Going
  <2> QED
    BY <2>1, <2>2, <2>3, <2>4, <2>5, <2>6 DEF Reading
<1>4. ASSUME NEW v \in Users, v # u, Sound(v) PROVE Sound(v)'
  BY <1>1, <1>2, <1>4, RestingSound
<1>5. ASSUME u \notin mixed' PROVE Sound(u)'
  <2>1. PICK q, msgs : Reading(u, m, q, msgs)
    BY <1>3, <1>5
  <2>2. ASSUME NEW d \in Of(u), Showing(u, d) PROVE Showing(u, d)'
    <3>1. /\ All(inbox[u], Lasting(u, d)) => All(inbox'[u], Lasting(u, d)) /\ m \in Lasting(u, d)
          /\ Since(inbox[u], Opening(u, d), Lasting(u, d)) =>
                \/ Since(inbox'[u], Opening(u, d), Lasting(u, d))
                \/ m \in Opening(u, d) /\ All(inbox'[u], Lasting(u, d))
      <4>1. PICK w : w = inbox[u] /\ w \in Seq(Foreign(u)) /\ w # <<>>
        BY <1>2, <2>1 DEF Reading
      <4>2. inbox'[u] = Tail(w) /\ m = Head(w)
        BY <1>2, <4>1 DEF m
      <4>3. /\ All(w, Lasting(u, d)) => All(Tail(w), Lasting(u, d)) /\ Head(w) \in Lasting(u, d)
            /\ Since(w, Opening(u, d), Lasting(u, d)) =>
                  \/ Since(Tail(w), Opening(u, d), Lasting(u, d))
                  \/ Head(w) \in Opening(u, d) /\ All(Tail(w), Lasting(u, d))
        BY <4>1, SinceTail
      <4> QED
        BY <4>1, <4>2, <4>3
    <3> QED
      BY <2>1, <2>2, <3>1 DEF Showing, Reading, Read
  <2>3. Seen(u)'
    BY <1>2, <2>1, <2>2 DEF Sound, Seen, Reading
  <2>4. Backed(u)'
    <3>1. SUFFICES ASSUME NEW d \in Of(u), Partnered(q, d)
                   PROVE  Backs(u, d, out'[u], crossed)
      BY <1>2, <2>1 DEF Backed, Reading
    <3>2. All(msgs, Mild(u, d, crossed)) /\ Partnered(page[u], d)
      BY <2>1, <3>1 DEF Reading, Read, Partnered
    <3>3. Backs(u, d, out[u], crossed)
      BY <2>1, <3>2 DEF Reading, Sound, Backed
    <3> QED
      BY <2>1, <3>2, <3>3, SinceOn DEF Backs, Reading
  <2> QED
    BY <1>2, <2>1, <2>3, <2>4 DEF Sound, Reading, Read
<1>6. DInv'
  BY <1>4, <1>5 DEF DInv, Steady
<1>7. ASSUME KInv PROVE KInv'
  <2>1. SUFFICES ASSUME NEW d \in Dms, members[d] = d, d \notin crossed,
                        \A v \in d : v \notin mixed' /\ Settled(v, d)'
                 PROVE  \A v \in d : Knows(v, d)'
    BY <1>2 DEF KInv
  <2>2. d \subseteq Users /\ \A v \in d : v \notin mixed
    BY <2>1, DmAssumption DEF Steady
  <2>3. ASSUME NEW v \in d, v # u PROVE Settled(v, d) /\ (Knows(v, d) => Knows(v, d)')
    <3>1. page'[v] = page[v] /\ out'[v] = out[v] /\ inbox'[v] = inbox[v]
      BY <1>1, <1>2, <2>2, <2>3
    <3> QED
      BY <1>2, <2>1, <3>1 DEF Settled, Going, Knows
  <2>4. ASSUME u \in d PROVE Settled(u, d) /\ (Knows(u, d) => Knows(u, d)')
    <3>0. PICK q, msgs : Reading(u, m, q, msgs)
      BY <1>3, <2>1, <2>4
    <3>1. d \in Of(u) /\ Settled(u, d)
      BY <3>0, <2>1, <2>4 DEF Settled, Partnered, Reading, Read, Of
    <3>2. /\ All(inbox[u], Clear(u, d)) => All(inbox'[u], Clear(u, d)) /\ m \in Clear(u, d)
          /\ Since(inbox[u], Lists(u, d), Clear(u, d)) =>
                \/ Since(inbox'[u], Lists(u, d), Clear(u, d))
                \/ m \in Lists(u, d) /\ All(inbox'[u], Clear(u, d))
      <4>1. inbox[u] \in Seq(Foreign(u))
        BY <3>0 DEF Reading
      <4> QED
        BY <1>2, <4>1, SinceTail DEF m
    <3>3. CASE Talks(u, d, page[u]) /\ All(inbox[u], Clear(u, d))
      BY <3>0, <3>1, <3>2, <3>3 DEF Knows, Reading, Read, Settled
    <3>4. CASE m \in Lists(u, d) /\ All(inbox'[u], Clear(u, d))
      <4>1. CASE m.type = "joined" \/ page[u].connected
        BY <3>0, <3>1, <3>4, <4>1 DEF Knows, Reading, Read
      <4>2. CASE m.type # "joined" /\ ~page[u].connected
        <5>1. Showing(u, d)
          BY <3>0, <2>1, <2>4, <3>1 DEF Reading, Sound, Seen, Settled
        <5>2. Since(inbox[u], Opening(u, d), Lasting(u, d)) /\ m \notin Opening(u, d)
          BY <4>2, <5>1 DEF Showing, Shown, Opening
        <5>3. Since(inbox'[u], Opening(u, d), Lasting(u, d))
          BY <1>2, <3>0, <5>2, SinceTail DEF m, Reading
        <5>4. Since(inbox'[u], Lists(u, d), Clear(u, d))
          <6>1. PICK i \in 1..Len(inbox'[u]) : inbox'[u][i] \in Opening(u, d)
            BY <5>3 DEF Since
          <6>2. inbox'[u][i] \in Clear(u, d)
            BY <3>4 DEF All
          <6>3. inbox'[u][i] \in Lists(u, d)
            BY <6>1, <6>2 DEF Opening, Clear, Lists
          <6>4. i \in Nat /\ \A k \in i + 1..Len(inbox'[u]) : k \in 1..Len(inbox'[u])
            BY <3>0, LenProperties DEF Reading
          <6> QED
            BY <3>4, <6>3, <6>4 DEF All, Since
        <5> QED
          BY <3>1, <5>4 DEF Knows
      <4> QED
        BY <4>1, <4>2
    <3> QED
      BY <3>1, <3>2, <3>3, <3>4 DEF Knows
  <2>5. \A v \in d : v \notin mixed /\ Settled(v, d) /\ (Knows(v, d) => Knows(v, d)')
    BY <2>2, <2>3, <2>4
  <2> QED
    BY <2>1, <2>5, <1>7 DEF KInv
<1> QED
  BY <1>6, <1>7

-----------------------------------------------------------------------------
(* Connections, once more *)

LEMMA ConnectSound ==
    ASSUME IInv, DInv, Steady, NEW u \in Users, u \notin mixed', Connect(u)
    PROVE  Sound(u)' /\ \A d \in Of(u) : ~Settled(u, d)'
<1>0. PageFits(u, page[u]) /\ Lawful(u, page[u], willing[u]) /\ Sound(u)
  BY DEF IInv, DInv, Sound, Steady
<1>1. PICK s : s = Synced(u, page[u])
  OBVIOUS
<1>2. PageFits(u, s) /\ Tame(u, page[u], s)
  BY <1>0, <1>1, SyncedFits, TameSynced
<1>3. PICK q : q = [s EXCEPT !.jobs = s.jobs \cup {Fetched}]
  OBVIOUS
<1>4. /\ page'[u] = q /\ out'[u] = Rejoin(page[u]) /\ up'[u] /\ willing' = willing
      /\ inbox' = inbox /\ crossed' = crossed /\ members' = members
  BY <1>1, <1>3 DEF Connect, IInv, QueuesFit, server
<1>5. /\ q.room = s.room /\ q.connected = s.connected /\ q.active = s.active
      /\ q.partner = s.partner /\ q.marker = s.marker /\ q.bar = s.bar
  BY <1>2, <1>3 DEF PageFits, Pages
<1>6. Lawful(u, q, willing[u])
  BY <1>0, <1>2, <1>5, TameLawful DEF Lawful
<1>7. PICK r : r = page[u].room
  OBVIOUS
<1>8. r \in Of(u) \cup {None} /\ page'[u].room = r
  BY <1>0, <1>2, <1>4, <1>5, <1>7 DEF PageFits, Pages, Tame, SameCall
<1>9. PICK m \in ToServer(u) : /\ Rejoin(page[u]) = <<m>> /\ m.type # "end"
                               /\ r = None => \A d : m \in Movers(u, d)
                               /\ r # None => m \in Movers(u, r)
  <2>1. CASE r # None
    <3>1. PICK m : m = Msg("join", r)
      OBVIOUS
    <3>2. m \in ToServer(u) /\ m.type = "join" /\ m.dm = r
      BY <1>8, <2>1, <3>1, GoodMessages DEF Msg
    <3> QED
      BY <1>7, <2>1, <3>1, <3>2 DEF Rejoin, Movers
  <2>2. CASE r = None
    <3>1. PICK m : m = Msg("leave_all", None)
      OBVIOUS
    <3>2. m \in ToServer(u) /\ m.type = "leave_all"
      BY <3>1 DEF Msg, ToServer, Bodies, Waiters
    <3> QED
      BY <1>0, <1>7, <2>2, <3>1, <3>2 DEF Rejoin, Movers, Lawful
  <2> QED
    BY <2>1, <2>2
<1>10. out'[u] = <<m>> /\ out'[u] \in Seq(ToServer(u))
  BY <1>4, <1>9
<1>11. ASSUME NEW d \in Of(u), m \in Movers(u, d) PROVE Going(u, d)'
  BY <1>10, <1>11, AllShort DEF Going
<1>12. Backed(u)'
  <2>1. \A d : All(<<m>>, Mild(u, d, crossed'))
    BY <1>9, AllShort DEF Mild
  <2> QED
    BY <1>10, <2>1 DEF Backed, Backs
<1>13. Seen(u)'
  <2>1. SUFFICES ASSUME NEW d \in Of(u), u \in members'[d] PROVE Going(u, d)'
    BY DEF Seen
  <2>2. CASE r = None
    BY <1>9, <1>11, <2>2
  <2>3. CASE r # None
    <3>1. Open(u, r)' /\ (Going(u, d)' \/ Open(u, d)')
      BY <1>8, <1>10, <2>1, RoomOpen, RoomOrGoingNext
    <3>2. Going(u, d)' \/ d = r
      BY <1>8, <2>3, <3>1, OneOpen DEF Steady
    <3> QED
      BY <1>9, <1>11, <2>3, <3>2
  <2> QED
    BY <2>2, <2>3
<1>14. ASSUME NEW d \in Of(u), Settled(u, d)' PROVE FALSE
  <2>1. r = d /\ ~Going(u, d)' /\ d # None
    BY <1>8, <1>14, NoneApart DEF Settled, Partnered, Of
  <2> QED
    BY <1>9, <1>11, <2>1
<1>15. inbox'[u] \in Seq(Foreign(u))
  BY <1>0, <1>4 DEF Sound
<1> QED
  BY <1>4, <1>6, <1>12, <1>13, <1>14, <1>15 DEF Sound

LEMMA LossSound ==
    ASSUME IInv, DInv, Steady, NEW u \in Users, u \notin mixed', LoseSocket(u) \/ Reload(u)
    PROVE  Sound(u)' /\ \A d \in Of(u) : ~Settled(u, d)'
<1>1. /\ ~up'[u] /\ out'[u] = <<>> /\ inbox'[u] = <<>>
  BY DEF LoseSocket, Reload, Cut, IInv, QueuesFit
<1>2. Lawful(u, page'[u], willing'[u])
  <2>1. CASE LoseSocket(u)
    BY <2>1 DEF LoseSocket, DInv, Sound, Steady
  <2>2. CASE Reload(u)
    <3>1. page'[u] = NewPage
      BY <2>2 DEF Reload, IInv
    <3>2. NewPage.room = None /\ ~NewPage.active /\ ~NewPage.connected /\ NewPage.partner = None
          /\ NewPage.bar.caller = None /\ \A d \in Of(u) : NewPage.marker[d] = None
      BY DEF NewPage, NoBar, Of
    <3> QED
      BY <3>1, <3>2, NoneApart DEF Lawful
  <2> QED
    BY <2>1, <2>2
<1>3. \A d : All(out'[u], Mild(u, d, crossed'))
  BY <1>1, AllShort
<1> QED
  BY <1>1, <1>2, <1>3, EmptySeq DEF Sound, Seen, Backed, Backs, Settled

LEMMA SocketSound ==
    ASSUME IInv, DInv, Steady, NEW u \in Users, Connect(u) \/ LoseSocket(u) \/ Reload(u)
    PROVE  DInv' /\ (KInv => KInv')
<1>1. /\ members' = members /\ crossed' = crossed
      /\ \A v \in Users : v # u =>
            /\ page'[v] = page[v] /\ out'[v] = out[v] /\ inbox'[v] = inbox[v]
            /\ up'[v] = up[v] /\ willing'[v] = willing[v]
  BY DEF Connect, LoseSocket, Reload, Cut, Wants, server, IInv, QueuesFit
<1>2. ASSUME NEW v \in Users, v # u, Sound(v) PROVE Sound(v)'
  BY <1>1, <1>2, RestingSound
<1>3. u \notin mixed' => Sound(u)' /\ \A d \in Of(u) : ~Settled(u, d)'
  BY ConnectSound, LossSound
<1>4. DInv'
  BY <1>2, <1>3 DEF DInv, Steady
<1>5. ASSUME KInv PROVE KInv'
  <2>1. SUFFICES ASSUME NEW d \in Dms, members[d] = d, d \notin crossed,
                        \A v \in d : v \notin mixed' /\ Settled(v, d)'
                 PROVE  \A v \in d : Knows(v, d)'
    BY <1>1 DEF KInv
  <2>2. \A v \in d : v \in Users /\ v # u /\ v \notin mixed
    BY <1>3, <2>1, DmAssumption DEF Of, Steady
  <2>3. \A v \in d : Settled(v, d) /\ (Knows(v, d) => Knows(v, d)')
    BY <1>1, <2>1, <2>2 DEF Settled, Going, Knows
  <2> QED
    BY <1>5, <2>1, <2>2, <2>3 DEF KInv
<1> QED
  BY <1>4, <1>5

-----------------------------------------------------------------------------
(* What the server says, once more *)

\* What v hears does not end the call of a room v is in, nor disturb two who
\* talk, unless v is in two rooms, and but for a conversation e that somebody
\* has declined.
Hears(v, e) ==
    \/ inbox'[v] = inbox[v]
    \/ up[v] /\ \E r \in Seq(Foreign(v)) :
          /\ inbox'[v] = inbox[v] \o r
          /\ \A d \in Of(v) :
                /\ v \in members'[d] => All(r, Lasting(v, d))
                /\ d # e /\ members'[d] = d /\ ~Double(v)' => All(r, Clear(v, d))

LEMMA OneHears ==
    ASSUME NEW w \in Users, NEW r \in Seq(Foreign(w)), Delivered(ToOnly(w, r)), NEW e,
           \A d \in Of(w) : /\ w \in members'[d] => All(r, Lasting(w, d))
                            /\ d # e /\ members'[d] = d /\ ~Double(w)' => All(r, Clear(w, d))
    PROVE  \A v \in Users : Hears(v, e)
<1>1. ASSUME NEW v \in Users, v # w PROVE Hears(v, e)
  <2>1. inbox'[v] = IF up[v] THEN inbox[v] \o <<>> ELSE inbox[v]
    BY <1>1 DEF Delivered, ToOnly
  <2>2. <<>> \in Seq(Foreign(v)) /\ \A d : All(<<>>, Lasting(v, d)) /\ All(<<>>, Clear(v, d))
    BY EmptySeq, AllShort
  <2> QED
    BY <2>1, <2>2 DEF Hears
<1>2. Hears(w, e)
  <2>1. inbox'[w] = IF up[w] THEN inbox[w] \o r ELSE inbox[w]
    BY DEF Delivered, ToOnly
  <2> QED
    BY <2>1 DEF Hears
<1> QED
  BY <1>1, <1>2

LEMMA RemoveHears ==
    ASSUME IInv, NEW u \in Users, NEW d \in Of(u), NEW explicit, Remove(u, d, explicit)
    PROVE  /\ \A v \in Users : Hears(v, None)
           /\ u \notin members'[d] /\ \A e \in Dms : e # d => members'[e] = members[e]
           /\ \A e \in Dms : members'[e] \subseteq members[e]
<1>1. PICK w : w = Other(d, u)
  OBVIOUS
<1>2. PICK now : now = members[d] \ {u}
  OBVIOUS
<1>3. d \in Dms /\ now \subseteq Users /\ w \in Users /\ d \in Of(w) /\ u \in d
  BY <1>1, <1>2, OtherOne DEF Of, IInv, ServerFits
<1>4. /\ members'[d] = now /\ u \notin now /\ \A e \in Dms : e # d => members'[e] = members[e]
  BY <1>2, <1>3 DEF Remove, IInv, ServerFits
<1>5. /\ u \notin members'[d] /\ \A e \in Dms : e # d => members'[e] = members[e]
      /\ \A e \in Dms : members'[e] \subseteq members[e]
  BY <1>2, <1>4
<1>6. d = {u, w} /\ members'[d] # d
  <2>1. PICK a, b \in Users : a # b /\ d = {a, b}
    BY <1>3, DmAssumption
  <2>2. w \in d /\ w # u
    BY <1>1, <1>3, OtherOne DEF Of
  <2> QED
    BY <1>3, <1>4, <2>1, <2>2
<1>7. w # None /\ w # Absent
  BY <1>3, DmAssumption
<1>8. CASE now # {}
  <2>1. PICK a : a = Listing("members", d, now)
    OBVIOUS
  <2>2. PICK b : b = From("waiting", d, Absent)
    OBVIOUS
  <2>3. Delivered(ToOnly(w, <<a, b>>))
    BY <1>1, <1>2, <1>8, <2>1, <2>2 DEF Remove
  <2>4. /\ a \in ToPage(w) /\ b \in ToPage(w) /\ a.type = "members" /\ b.type = "waiting"
        /\ a.who = None /\ b.who = Absent
    BY <1>3, <2>1, <2>2, GoodMessages DEF Waiters, Listing, From, Msg
  <2>5. <<a, b>> \in Seq(Foreign(w)) /\ \A e : a \in Lasting(w, e) /\ b \in Lasting(w, e)
    BY <1>7, <2>4 DEF Foreign, Lasting
  <2>6. \A e : All(<<a, b>>, Lasting(w, e))
    BY <2>5, AllShort
  <2>7. w \in members'[d]
    <3>1. now \subseteq d
      BY <1>2, <1>3 DEF IInv, ServerFits
    <3> QED
      BY <1>4, <1>6, <1>8, <3>1
  <2>8. \A e \in Of(w) : ~(members'[e] = e /\ ~Double(w)')
    BY <1>3, <1>6, <2>7, OneOpen DEF Of
  <2> QED
    BY <1>3, <1>5, <2>3, <2>5, <2>6, <2>8, OneHears
<1>9. CASE now = {} /\ explicit
  <2>1. PICK a : a = Msg("ended", d)
    OBVIOUS
  <2>2. Delivered(ToOnly(w, <<a>>))
    BY <1>1, <1>2, <1>9, <2>1 DEF Remove
  <2>3. a \in ToPage(w) /\ a.who = None /\ a.type = "ended" /\ a.dm = d
    BY <1>3, <2>1, GoodMessages DEF Msg
  <2>4. <<a>> \in Seq(Foreign(w))
    BY <1>7, <2>3 DEF Foreign
  <2>5. \A e : e # d => a \in Lasting(w, e) /\ a \in Clear(w, e)
    BY <2>3 DEF Lasting, Clear
  <2>6. \A e : e # d => All(<<a>>, Lasting(w, e)) /\ All(<<a>>, Clear(w, e))
    BY <2>5, AllShort
  <2>7. w \notin members'[d]
    BY <1>4, <1>9
  <2> QED
    BY <1>3, <1>5, <1>6, <2>2, <2>4, <2>6, <2>7, OneHears
<1>10. CASE now = {} /\ ~explicit
  <2>1. Delivered(Nothing)
    BY <1>2, <1>10 DEF Remove
  <2>2. ToOnly(w, <<>>) = Nothing
    BY DEF ToOnly, Nothing
  <2>3. <<>> \in Seq(Foreign(w)) /\ \A e : All(<<>>, Lasting(w, e)) /\ All(<<>>, Clear(w, e))
    BY EmptySeq, AllShort
  <2> QED
    BY <1>3, <1>5, <2>1, <2>2, <2>3, OneHears
<1> QED
  BY <1>8, <1>9, <1>10

\* A ring, a call for patience, and a declined call.
LEMMA SignalHears ==
    ASSUME IInv, NEW u \in Users, NEW d \in Of(u)
    PROVE  /\ Ring(u, d) \/ CallWaiting(u, d) => \A v \in Users : Hears(v, None)
           /\ CallDeclined(u, d) => \A v \in Users : Hears(v, d)
<1>1. PICK w : w = Other(d, u)
  OBVIOUS
<1>2. /\ w \in Users /\ w # u /\ d \in Of(w) /\ u \in Waiters /\ w \in Waiters
      /\ w # None /\ u # None
  BY <1>1, OtherOne, NoneApart DEF Of, Waiters
<1>4. ASSUME NEW m, m \in {From("ring", d, u), From("waiting", d, u)},
             Delivered(ToOnly(w, <<m>>))
      PROVE  \A v \in Users : Hears(v, None)
  <2>0. /\ From("ring", d, u) \in ToPage(w) /\ From("waiting", d, u) \in ToPage(w)
        /\ From("ring", d, u).type = "ring" /\ From("ring", d, u).who = u
        /\ From("waiting", d, u).type = "waiting" /\ From("waiting", d, u).who = u
    BY <1>2, GoodMessages DEF From, Msg
  <2>1. m \in ToPage(w) /\ m.type \in {"ring", "waiting"} /\ m.who = u
    BY <1>4, <2>0
  <2>2. <<m>> \in Seq(Foreign(w)) /\ \A e : m \in Lasting(w, e) /\ m \in Clear(w, e)
    BY <1>2, <2>1 DEF Foreign, Lasting, Clear
  <2>3. \A e : All(<<m>>, Lasting(w, e)) /\ All(<<m>>, Clear(w, e))
    BY <2>2, AllShort
  <2> QED
    BY <1>2, <1>4, <2>2, <2>3, OneHears
<1>5. Ring(u, d) \/ CallWaiting(u, d) => \A v \in Users : Hears(v, None)
  BY <1>1, <1>4 DEF Ring, CallWaiting
<1>6. ASSUME CallDeclined(u, d) PROVE \A v \in Users : Hears(v, d)
  <2>1. PICK a : a = Msg("declined", d)
    OBVIOUS
  <2>2. PICK b : b = From("waiting", d, w)
    OBVIOUS
  <2>3. PICK to : to = [v \in Users |-> CASE v = w -> <<a>> [] v = u -> <<b>> [] OTHER -> <<>>]
    OBVIOUS
  <2>4. Delivered(to)
    BY <1>1, <1>6, <2>1, <2>2, <2>3 DEF CallDeclined
  <2>5. /\ a \in ToPage(w) /\ a.type = "declined" /\ a.who = None /\ a.dm = d
        /\ b \in ToPage(u) /\ b.type = "waiting" /\ b.who = w
    BY <1>2, <2>1, <2>2, GoodMessages DEF From, Msg
  <2>6. /\ <<a>> \in Seq(Foreign(w)) /\ <<b>> \in Seq(Foreign(u))
        /\ \A e : a \in Lasting(w, e) /\ b \in Lasting(u, e) /\ b \in Clear(u, e)
        /\ \A e : e # d => a \in Clear(w, e)
    BY <1>2, <2>5 DEF Foreign, Lasting, Clear
  <2>7. /\ \A e : All(<<a>>, Lasting(w, e)) /\ All(<<b>>, Lasting(u, e)) /\ All(<<b>>, Clear(u, e))
        /\ \A e : e # d => All(<<a>>, Clear(w, e))
    BY <2>6, AllShort
  <2>8. \A v \in Users : inbox'[v] = IF up[v] THEN inbox[v] \o to[v] ELSE inbox[v]
    BY <2>4 DEF Delivered
  <2>9. Hears(w, d)
    <3>1. to[w] = <<a>>
      BY <1>2, <2>3
    <3> QED
      BY <1>2, <2>6, <2>7, <2>8, <3>1 DEF Hears
  <2>10. Hears(u, d)
    <3>1. to[u] = <<b>>
      BY <1>2, <2>3
    <3> QED
      BY <2>6, <2>7, <2>8, <3>1 DEF Hears
  <2>11. ASSUME NEW v \in Users, v # u, v # w PROVE Hears(v, d)
    <3>1. to[v] = <<>>
      BY <2>3, <2>11
    <3>2. <<>> \in Seq(Foreign(v)) /\ \A e : All(<<>>, Lasting(v, e)) /\ All(<<>>, Clear(v, e))
      BY EmptySeq, AllShort
    <3> QED
      BY <2>8, <3>1, <3>2 DEF Hears
  <2> QED
    BY <2>9, <2>10, <2>11
<1> QED
  BY <1>5, <1>6

\* Joining: everybody in the room hears who is in it, and the one who joined
\* that it has.
LEMMA JoinHears ==
    ASSUME IInv, NEW u \in Users, NEW d \in Of(u), Join(u, d)
    PROVE  /\ \A v \in Users : Hears(v, None)
           /\ \A e \in Dms : e # d => members'[e] = members[e]
           /\ \A v \in Users, e \in Dms : v # u /\ v \in members'[e] => v \in members[e]
           /\ up[u] => Since(inbox'[u], Opening(u, d), Lasting(u, d))
           /\ u \in members'[d]
           /\ members'[d] = d =>
                 \A v \in d : up[v] => Since(inbox'[v], Lists(v, d), Clear(v, d))
<1>1. PICK now : now = members[d] \cup {u}
  OBVIOUS
<1>2. PICK a : a = Listing("members", d, now)
  OBVIOUS
<1>3. PICK b : b = Listing("joined", d, now)
  OBVIOUS
<1>4. PICK to : to = [v \in Users |->
              IF v \notin now THEN <<>> ELSE IF v = u THEN <<a, b>> ELSE <<a>>]
  OBVIOUS
<1>5. d \in Dms /\ u \in d /\ now \subseteq d /\ d \subseteq Users
  BY <1>1, DmAssumption DEF Of, IInv, ServerFits
<1>6. members'[d] = now /\ \A e \in Dms : e # d => members'[e] = members[e]
  BY <1>1, <1>5 DEF Join, IInv, ServerFits
<1>7. \A v \in Users, e \in Dms : v # u /\ v \in members'[e] => v \in members[e]
  BY <1>1, <1>6
<1>8. \A v \in Users : inbox'[v] = IF up[v] THEN inbox[v] \o to[v] ELSE inbox[v]
  BY <1>1, <1>2, <1>3, <1>4 DEF Join, Delivered
<1>9. ASSUME NEW v \in now
      PROVE  /\ <<a>> \in Seq(Foreign(v)) /\ <<a, b>> \in Seq(Foreign(v))
             /\ \A c : All(<<a>>, Lasting(v, c)) /\ All(<<a, b>>, Lasting(v, c))
             /\ b \in Opening(v, d)
             /\ now = d => /\ All(<<a>>, Clear(v, d)) /\ All(<<a, b>>, Clear(v, d))
                           /\ Since(<<a>>, Lists(v, d), Clear(v, d))
                           /\ Since(<<a, b>>, Lists(v, d), Clear(v, d))
  <2>1. v \in Users /\ d \in Of(v) /\ v # None /\ now \in SUBSET Users
    BY <1>5, <1>9, NoneApart DEF Of
  <2>2. /\ a \in ToPage(v) /\ b \in ToPage(v) /\ a.type = "members" /\ b.type = "joined"
        /\ a.who = None /\ b.who = None /\ a.list = now /\ b.list = now
        /\ a.dm = d /\ b.dm = d
    BY <1>2, <1>3, <2>1, GoodMessages DEF Listing, Msg
  <2>3. /\ a \in Foreign(v) /\ b \in Foreign(v)
        /\ \A c : a \in Lasting(v, c) /\ b \in Lasting(v, c)
        /\ b \in Opening(v, d)
        /\ now = d => a \in Clear(v, d) /\ b \in Clear(v, d) /\ a \in Lists(v, d) /\ b \in Lists(v, d)
    BY <2>1, <2>2 DEF Foreign, Lasting, Opening, Clear, Lists
  <2>4. <<a>> \in Seq(Foreign(v)) /\ <<a, b>> \in Seq(Foreign(v))
    BY <2>3
  <2>5. \A c : All(<<a>>, Lasting(v, c)) /\ All(<<a, b>>, Lasting(v, c))
    BY <2>3, AllShort
  <2>6. ASSUME now = d
        PROVE  /\ All(<<a>>, Clear(v, d)) /\ All(<<a, b>>, Clear(v, d))
               /\ Since(<<a>>, Lists(v, d), Clear(v, d))
               /\ Since(<<a, b>>, Lists(v, d), Clear(v, d))
    BY <2>3, <2>6, AllShort
  <2> QED
    BY <2>3, <2>4, <2>5, <2>6
<1>10. ASSUME NEW v \in Users PROVE Hears(v, None)
  <2>1. CASE v \in now
    <3>1. to[v] \in {<<a>>, <<a, b>>}
      BY <1>4, <2>1
    <3>2. v \in Users /\ d \in Of(v)
      BY <1>5, <2>1 DEF Of
    <3>3. \A e \in Of(v) : members'[e] = e /\ ~Double(v)' => e = d /\ now = d
      BY <1>6, <2>1, <3>2, OneOpen DEF Of
    <3> QED
      BY <1>8, <1>9, <2>1, <3>1, <3>3 DEF Hears
  <2>2. CASE v \notin now
    <3>1. to[v] = <<>>
      BY <1>4, <2>2
    <3>2. <<>> \in Seq(Foreign(v)) /\ \A e : All(<<>>, Lasting(v, e)) /\ All(<<>>, Clear(v, e))
      BY EmptySeq, AllShort
    <3> QED
      BY <1>8, <3>1, <3>2 DEF Hears
  <2> QED
    BY <2>1, <2>2
<1>11. ASSUME NEW v \in Users PROVE inbox[v] \in Seq(ToPage(v)) /\ Foreign(v) \subseteq ToPage(v)
  BY DEF IInv, QueuesFit, Foreign
<1>12. ASSUME up[u] PROVE Since(inbox'[u], Opening(u, d), Lasting(u, d))
  <2>1. u \in now /\ to[u] = <<a, b>> /\ <<a, b>> \in Seq(ToPage(u))
    BY <1>1, <1>4, <1>9, <1>11, SeqMonotonic
  <2>2. Since(<<a, b>>, Opening(u, d), Lasting(u, d))
    BY <1>9, <2>1, AllShort
  <2> QED
    BY <1>8, <1>11, <1>12, <2>1, <2>2, SinceAfter
<1>13. ASSUME members'[d] = d, NEW v \in d, up[v]
       PROVE  Since(inbox'[v], Lists(v, d), Clear(v, d))
  <2>1. v \in now /\ v \in Users /\ to[v] \in {<<a>>, <<a, b>>}
    BY <1>4, <1>5, <1>6, <1>13
  <2>2. to[v] \in Seq(ToPage(v)) /\ Since(to[v], Lists(v, d), Clear(v, d))
    BY <1>6, <1>9, <1>11, <1>13, <2>1, SeqMonotonic
  <2> QED
    BY <1>8, <1>11, <1>13, <2>1, <2>2, SinceAfter
<1> QED
  BY <1>1, <1>6, <1>7, <1>10, <1>12, <1>13

\* Whoever only hears what the server says stays as sound, and knows.
LEMMA HearsShows ==
    ASSUME NEW v \in Users, Sound(v), NEW e, Hears(v, e), page' = page, up' = up
    PROVE  /\ inbox'[v] \in Seq(Foreign(v)) /\ (~up[v] => inbox'[v] = <<>>)
           /\ \A d \in Of(v) : v \in members'[d] /\ Showing(v, d) => Showing(v, d)'
<1>1. CASE inbox'[v] = inbox[v]
  BY <1>1 DEF Sound, Showing
<1>2. CASE up[v] /\ inbox'[v] # inbox[v]
  <2>1. PICK r \in Seq(Foreign(v)) :
          /\ inbox'[v] = inbox[v] \o r
          /\ \A d \in Of(v) : v \in members'[d] => All(r, Lasting(v, d))
    BY <1>2 DEF Hears
  <2>2. inbox[v] \in Seq(Foreign(v))
    BY DEF Sound
  <2>3. inbox'[v] \in Seq(Foreign(v))
    BY <2>1, <2>2, ConcatProperties
  <2>4. ASSUME NEW d \in Of(v), v \in members'[d], Showing(v, d) PROVE Showing(v, d)'
    <3>1. All(r, Lasting(v, d))
      BY <2>1, <2>4
    <3> QED
      BY <2>1, <2>2, <2>4, <3>1, SinceOn DEF Showing
  <2> QED
    BY <1>2, <2>3, <2>4
<1> QED
  BY <1>1, <1>2 DEF Hears

LEMMA HearsSound ==
    ASSUME NEW v \in Users, Sound(v), NEW e, Hears(v, e), page' = page, up' = up,
           out'[v] = out[v], crossed' = crossed, willing' = willing,
           \A d \in Of(v) : v \in members'[d] => v \in members[d]
    PROVE  Sound(v)'
<1>1. /\ inbox'[v] \in Seq(Foreign(v)) /\ (~up[v] => inbox'[v] = <<>>)
      /\ \A d \in Of(v) : v \in members'[d] /\ Showing(v, d) => Showing(v, d)'
  BY HearsShows
<1>2. Seen(v)'
  BY <1>1 DEF Sound, Seen, Going
<1> QED
  BY <1>1, <1>2 DEF Sound, Backed

LEMMA HearsKnows ==
    ASSUME IInv, NEW v \in Users, NEW e, Hears(v, e), page' = page, NEW d \in Of(v), d # e,
           members'[d] = d, ~Double(v)', Knows(v, d)
    PROVE  Knows(v, d)'
<1>1. CASE inbox'[v] = inbox[v]
  BY <1>1 DEF Knows
<1>2. CASE inbox'[v] # inbox[v]
  <2>1. PICK r \in Seq(Foreign(v)) : inbox'[v] = inbox[v] \o r /\ All(r, Clear(v, d))
    BY <1>2 DEF Hears
  <2>2. inbox[v] \in Seq(ToPage(v)) /\ Foreign(v) \subseteq ToPage(v)
    BY DEF IInv, QueuesFit, Foreign
  <2>3. r \in Seq(ToPage(v))
    BY <2>1, <2>2, SeqMonotonic
  <2> QED
    BY <2>1, <2>2, <2>3, SinceOn DEF Knows
<1> QED
  BY <1>1, <1>2

\* The server takes a message of u from its queue.
LEMMA ServeQueue ==
    ASSUME NEW u \in Users, out[u] \in Seq(ToServer(u)), out[u] # <<>>,
           out'[u] \in {out[u], Tail(out[u])}, crossed' = crossed, page' = page, Backed(u)
    PROVE  Backed(u)'
<1>1. SUFFICES ASSUME NEW d \in Of(u), Partnered(page[u], d)
               PROVE  Backs(u, d, out'[u], crossed)
  BY DEF Backed
<1>2. /\ All(out[u], Mild(u, d, crossed)) => All(Tail(out[u]), Mild(u, d, crossed))
      /\ Since(out[u], Joins(u, d), Mild(u, d, crossed)) =>
            \/ Since(Tail(out[u]), Joins(u, d), Mild(u, d, crossed))
            \/ All(Tail(out[u]), Mild(u, d, crossed))
  BY SinceTail
<1> QED
  BY <1>1, <1>2 DEF Backed, Backs

LEMMA ServeJoins ==
    ASSUME IInv, DInv, Steady, NEW u \in Users, NEW d \in Of(u), Join(u, d),
           out[u] \in Seq(ToServer(u)), out[u] # <<>>, out'[u] = Tail(out[u]),
           \A v \in Users : v # u => out'[v] = out[v],
           page' = page, up' = up, crossed' = crossed, willing' = willing
    PROVE  DInv' /\ (KInv => KInv')
<1>1. /\ \A v \in Users : Hears(v, None)
      /\ \A e \in Dms : e # d => members'[e] = members[e]
      /\ \A v \in Users, e \in Dms : v # u /\ v \in members'[e] => v \in members[e]
      /\ up[u] => Since(inbox'[u], Opening(u, d), Lasting(u, d))
      /\ u \in members'[d]
      /\ members'[d] = d => \A v \in d : up[v] => Since(inbox'[v], Lists(v, d), Clear(v, d))
  BY JoinHears
<1>2. ASSUME u \notin mixed' PROVE \A c \in Of(u) : u \in members'[c] => c = d
  BY <1>1, <1>2, OneOpen DEF Steady
<1>3. ASSUME NEW v \in Users, v # u, Sound(v) PROVE Sound(v)'
  BY <1>1, <1>3, HearsSound DEF Of
<1>4. ASSUME u \notin mixed' PROVE Sound(u)'
  <2>1. Sound(u)
    BY <1>4 DEF DInv, Steady
  <2>2. inbox'[u] \in Seq(Foreign(u)) /\ (~up[u] => inbox'[u] = <<>>)
    BY <1>1, <2>1, HearsShows
  <2>3. Seen(u)'
    BY <1>1, <1>2, <1>4 DEF Seen, Showing
  <2>4. Backed(u)'
    BY <2>1, ServeQueue DEF Sound
  <2> QED
    BY <2>1, <2>2, <2>3, <2>4 DEF Sound
<1>5. DInv'
  BY <1>3, <1>4 DEF DInv, Steady
<1>6. ASSUME KInv PROVE KInv'
  <2>1. SUFFICES ASSUME NEW c \in Dms, members'[c] = c, c \notin crossed,
                        \A v \in c : v \notin mixed' /\ Settled(v, c)'
                 PROVE  \A v \in c : Knows(v, c)'
    BY DEF KInv
  <2>2. c \subseteq Users /\ c # None /\ \A v \in c : c \in Of(v) /\ v \notin mixed /\ ~Double(v)'
    BY <2>1, DmAssumption DEF Of, Steady
  <2>3. CASE c = d
    BY <1>1, <2>1, <2>3 DEF Knows, Settled
  <2>4. CASE c # d
    <3>1. u \notin c
      BY <1>2, <2>1, <2>2, <2>4
    <3>2. \A v \in c : Settled(v, c)
      BY <2>1, <2>2, <3>1 DEF Settled, Going
    <3>3. \A v \in c : Knows(v, c)
      BY <1>1, <1>6, <2>1, <2>2, <2>4, <3>2 DEF KInv
    <3> QED
      BY <1>1, <2>1, <2>2, <3>3, HearsKnows
  <2> QED
    BY <2>3, <2>4
<1> QED
  BY <1>5, <1>6

\* A message m of u that joins no room, and leaves none that u is still in.
LEMMA ServeOther ==
    ASSUME IInv, DInv, Steady, NEW u \in Users, out[u] \in Seq(ToServer(u)), out[u] # <<>>,
           NEW m, m = Head(out[u]), m.type # "join", out'[u] \in {out[u], Tail(out[u])},
           \A v \in Users : v # u => out'[v] = out[v],
           page' = page, up' = up, crossed' = crossed, willing' = willing,
           NEW e \in Of(u) \cup {None}, \A v \in Users : Hears(v, e),
           e = None \/ (e = m.dm /\ m.type = "end"),
           \A f \in Dms : members'[f] \subseteq members[f],
           u \notin mixed' => \A d \in Of(u) : u \in members'[d] =>
                 m \notin Movers(u, d) /\ out'[u] = Tail(out[u])
    PROVE  DInv' /\ (KInv => KInv')
<1>1. ASSUME NEW v \in Users, v # u, Sound(v) PROVE Sound(v)'
  BY <1>1, HearsSound DEF Of
<1>2. ASSUME u \notin mixed', NEW d \in Of(u), u \in members'[d], Going(u, d) PROVE Going(u, d)'
  BY <1>2, SinceTail DEF Going
<1>3. ASSUME u \notin mixed' PROVE Sound(u)'
  <2>1. Sound(u)
    BY <1>3 DEF DInv, Steady
  <2>2. /\ inbox'[u] \in Seq(Foreign(u)) /\ up[u]
        /\ \A d \in Of(u) : u \in members'[d] /\ Showing(u, d) => Showing(u, d)'
    BY <2>1, HearsShows DEF Sound
  <2>3. Seen(u)'
    BY <1>2, <1>3, <2>1, <2>2 DEF Sound, Seen, Of
  <2>4. Backed(u)'
    BY <2>1, ServeQueue DEF Sound
  <2> QED
    BY <2>1, <2>2, <2>3, <2>4 DEF Sound
<1>4. DInv'
  BY <1>1, <1>3 DEF DInv, Steady
<1>5. ASSUME KInv PROVE KInv'
  <2>1. SUFFICES ASSUME NEW c \in Dms, members'[c] = c, c \notin crossed,
                        \A v \in c : v \notin mixed' /\ Settled(v, c)'
                 PROVE  \A v \in c : Knows(v, c)'
    BY DEF KInv
  <2>2. c \subseteq Users /\ c # None /\ \A v \in c : c \in Of(v) /\ v \notin mixed /\ ~Double(v)'
    BY <2>1, DmAssumption DEF Of, Steady
  <2>3. members[c] = c
    <3>1. members[c] \subseteq c /\ members'[c] \subseteq members[c]
      BY DEF IInv, ServerFits
    <3> QED
      BY <2>1, <3>1
  <2>4. \A v \in c : v # u => Settled(v, c)
    BY <2>1, <2>2 DEF Settled, Going
  <2>5. ASSUME u \in c PROVE Settled(u, c) /\ c # e
    <3>1. Settled(u, c)
      BY <1>2, <2>1, <2>2, <2>5 DEF Settled
    <3>2. ASSUME m.type = "end", m.dm = c PROVE FALSE
      <4>1. m \notin Mild(u, c, crossed) /\ m \notin Joins(u, c)
        BY <2>1, <3>2 DEF Mild, Joins
      <4>2. Backs(u, c, out[u], crossed)
        BY <2>2, <2>5, <3>1 DEF DInv, Sound, Backed, Settled
      <4>3. Since(Tail(out[u]), Joins(u, c), Mild(u, c, crossed))
        BY <4>1, <4>2, SinceTail DEF Backs
      <4>4. Since(Tail(out[u]), Movers(u, c), ToServer(u))
        BY <4>3, SinceMore DEF Joins, Movers, Mild
      <4>5. Going(u, c)'
        BY <2>1, <2>2, <2>5, <4>4 DEF Going
      <4> QED
        BY <2>1, <2>5, <4>5 DEF Settled
    <3> QED
      BY <2>2, <3>1, <3>2
  <2>6. \A v \in c : Knows(v, c)
    BY <1>5, <2>1, <2>2, <2>3, <2>4, <2>5 DEF KInv
  <2>7. ASSUME u \notin c PROVE c # e
    BY <2>2, <2>7 DEF Of
  <2> QED
    BY <2>1, <2>2, <2>5, <2>6, <2>7, HearsKnows
<1> QED
  BY <1>4, <1>5

\* The server handles a message of u.
LEMMA ServeSound ==
    ASSUME IInv, DInv, Steady, NEW u \in Users, Serve(u)
    PROVE  DInv' /\ (KInv => KInv')
<1>1. PICK m : m = Head(out[u])
  OBVIOUS
<1>2. out[u] \in Seq(ToServer(u)) /\ out[u] # <<>> /\ m \in ToServer(u)
  BY <1>1, HeadTailProperties DEF IInv, QueuesFit, Serve
<1>3. m.type # "leave_all" => m.dm \in Of(u)
  BY <1>2 DEF ToServer, Bodies
<1>4. /\ page' = page /\ up' = up /\ crossed' = crossed /\ willing' = willing
      /\ \A v \in Users : v # u => out'[v] = out[v]
      /\ out'[u] \in {out[u], Tail(out[u])}
      /\ m.type # "leave_all" => out'[u] = Tail(out[u])
  BY <1>1 DEF Serve, IInv, QueuesFit
<1>5. CASE m.type = "join"
  <2>1. Join(u, m.dm)
    BY <1>1, <1>5 DEF Serve
  <2> QED
    BY <1>2, <1>3, <1>4, <1>5, <2>1, ServeJoins
<1>6. ASSUME NEW d \in Of(u), u \in members[d], NEW explicit, Remove(u, d, explicit),
             m.type = "leave_all" \/ (m.type = "leave" /\ m.dm = d)
      PROVE  DInv' /\ (KInv => KInv')
  <2>1. /\ \A v \in Users : Hears(v, None)
        /\ u \notin members'[d] /\ \A f \in Dms : members'[f] \subseteq members[f]
    BY <1>6, RemoveHears
  <2>2. ASSUME u \notin mixed' PROVE \A f \in Of(u) : u \notin members'[f]
    <3>1. ASSUME NEW f \in Of(u), u \in members'[f] PROVE FALSE
      <4>1. u \in members[f] /\ f # d
        BY <2>1, <3>1 DEF Of
      <4> QED
        BY <1>6, <2>2, <4>1, OneOpen DEF Steady
    <3> QED
      BY <3>1
  <2>3. m.type # "join"
    BY <1>6
  <2> QED
    BY <1>1, <1>2, <1>4, <2>1, <2>2, <2>3, ServeOther
<1>7. ASSUME NEW e \in Of(u) \cup {None}, \A v \in Users : Hears(v, e),
             e = None \/ (e = m.dm /\ m.type = "end"),
             members' = members, m.type # "join",
             \A d \in Of(u) : u \in members[d] =>
                   m.type # "leave_all" /\ ~(m.type = "leave" /\ m.dm = d)
      PROVE  DInv' /\ (KInv => KInv')
  <2>1. \A d \in Of(u) : u \in members'[d] => m \notin Movers(u, d) /\ out'[u] = Tail(out[u])
    BY <1>4, <1>7 DEF Movers
  <2> QED
    BY <1>1, <1>2, <1>4, <1>7, <2>1, ServeOther
<1>8. CASE m.type = "leave"
  <2>1. IF u \in members[m.dm] THEN Remove(u, m.dm, TRUE) ELSE Same
    BY <1>1, <1>8 DEF Serve
  <2>2. Same => members' = members /\ \A v \in Users : Hears(v, None)
    BY DEF Same, Hears
  <2> QED
    BY <1>3, <1>6, <1>7, <1>8, <2>1, <2>2
<1>9. CASE m.type = "leave_all"
  <2>1. IF Rooms(u) = {} THEN Same ELSE \E d \in Rooms(u) : Remove(u, d, FALSE)
    BY <1>1, <1>9 DEF Serve
  <2>2. Same => members' = members /\ \A v \in Users : Hears(v, None)
    BY DEF Same, Hears
  <2>3. /\ Rooms(u) = {} => \A d \in Of(u) : u \notin members[d]
        /\ \A d \in Rooms(u) : d \in Of(u) /\ u \in members[d]
    BY RoomsFit DEF Rooms, Of
  <2> QED
    BY <1>6, <1>7, <1>9, <2>1, <2>2, <2>3
<1>10. CASE m.type \in {"ring", "waiting", "end"}
  <2>1. m.dm \in Of(u)
    BY <1>3, <1>10
  <2>2. IF m.type = "end" THEN CallDeclined(u, m.dm) ELSE Ring(u, m.dm) \/ CallWaiting(u, m.dm)
    BY <1>1, <1>10 DEF Serve
  <2>3. members' = members
    BY <2>2 DEF CallDeclined, Ring, CallWaiting
  <2>4. CASE m.type = "end"
    <3>1. \A v \in Users : Hears(v, m.dm)
      BY <2>1, <2>2, <2>4, SignalHears
    <3> QED
      BY <1>7, <2>1, <2>3, <2>4, <3>1
  <2>5. CASE m.type # "end"
    <3>1. \A v \in Users : Hears(v, None)
      BY <2>1, <2>2, <2>5, SignalHears
    <3> QED
      BY <1>7, <1>10, <2>3, <2>5, <3>1
  <2> QED
    BY <2>4, <2>5
<1> QED
  BY <1>2, <1>5, <1>8, <1>9, <1>10 DEF ToServer, Bodies

\* A clean-up and the timers touch no page and no queue to the server.
LEMMA RestSound ==
    ASSUME IInv, DInv, Steady, page' = page, up' = up, out' = out, crossed' = crossed,
           willing' = willing, \A v \in Users : Hears(v, None),
           \A d \in Dms : members'[d] \subseteq members[d]
    PROVE  DInv' /\ (KInv => KInv')
<1>1. ASSUME NEW v \in Users, v \notin mixed' PROVE Sound(v)'
  BY <1>1, HearsSound DEF DInv, Of, Steady
<1>2. ASSUME KInv PROVE KInv'
  <2>1. SUFFICES ASSUME NEW c \in Dms, members'[c] = c, c \notin crossed,
                        \A v \in c : v \notin mixed' /\ Settled(v, c)'
                 PROVE  \A v \in c : Knows(v, c)'
    BY DEF KInv
  <2>2. c \subseteq Users /\ c # None /\ \A v \in c : c \in Of(v) /\ v \notin mixed /\ ~Double(v)'
    BY <2>1, DmAssumption DEF Of, Steady
  <2>3. members[c] = c
    <3>1. members[c] \subseteq c /\ members'[c] \subseteq members[c]
      BY DEF IInv, ServerFits
    <3> QED
      BY <2>1, <3>1
  <2>4. \A v \in c : Settled(v, c)
    BY <2>1 DEF Settled, Going
  <2>5. \A v \in c : Knows(v, c)
    BY <1>2, <2>1, <2>2, <2>3, <2>4 DEF KInv
  <2> QED
    BY <2>1, <2>2, <2>5, HearsKnows
<1> QED
  BY <1>1, <1>2 DEF DInv

LEMMA CleanupSound ==
    ASSUME IInv, DInv, Steady, NEW u \in Users, Cleanup(u)
    PROVE  DInv' /\ (KInv => KInv')
<1>1. page' = page /\ up' = up /\ out' = out /\ crossed' = crossed /\ willing' = willing
  BY DEF Cleanup
<1>2. CASE Rooms(u) = {}
  <2>1. members' = members /\ \A v \in Users : Hears(v, None)
    BY <1>2 DEF Cleanup, Same, Hears
  <2> QED
    BY <1>1, <2>1, RestSound
<1>3. CASE Rooms(u) # {}
  <2>1. PICK d \in Of(u) : Remove(u, d, FALSE)
    BY <1>3, RoomsFit DEF Cleanup
  <2>2. \A v \in Users : Hears(v, None)
    BY <2>1, RemoveHears
  <2>3. \A e \in Dms : members'[e] \subseteq members[e]
    BY <2>1, RemoveHears
  <2> QED
    BY <1>1, <2>2, <2>3, RestSound
<1> QED
  BY <1>2, <1>3

LEMMA TimersSound ==
    ASSUME IInv, DInv, Steady, GraceOver \/ SweepWaiting
    PROVE  DInv' /\ (KInv => KInv')
<1>1. /\ page' = page /\ up' = up /\ out' = out /\ crossed' = crossed /\ willing' = willing
      /\ members' = members
  BY DEF GraceOver, SweepWaiting
<1>2. ASSUME NEW d \in Dms, NEW who, Delivered(ToOnly(Other(d, who), <<Msg("cleared", d)>>))
      PROVE  \A v \in Users : Hears(v, None)
  <2>1. PICK w : w = Other(d, who)
    OBVIOUS
  <2>2. w \in Users /\ d \in Of(w) /\ w # None
    BY <2>1, OtherOne, NoneApart DEF Of
  <2>3. PICK m : m = Msg("cleared", d)
    OBVIOUS
  <2>4. m \in ToPage(w) /\ m.type = "cleared" /\ m.who = None
    BY <2>2, <2>3, GoodMessages DEF Msg
  <2>5. <<m>> \in Seq(Foreign(w)) /\ \A e : m \in Lasting(w, e) /\ m \in Clear(w, e)
    BY <2>2, <2>4 DEF Foreign, Lasting, Clear
  <2>6. \A e : All(<<m>>, Lasting(w, e)) /\ All(<<m>>, Clear(w, e))
    BY <2>5, AllShort
  <2> QED
    BY <1>2, <2>1, <2>2, <2>3, <2>5, <2>6, OneHears
<1>3. \A v \in Users : Hears(v, None)
  <2>1. CASE GraceOver
    <3>1. PICK g \in grace : \/ Delivered(ToOnly(Other(g.dm, g.who), <<Msg("cleared", g.dm)>>))
                             \/ inbox' = inbox
      BY <2>1 DEF GraceOver
    <3>2. g.dm \in Dms
      BY DEF IInv, ServerFits
    <3> QED
      BY <1>2, <3>1, <3>2 DEF Hears
  <2>2. CASE SweepWaiting
    BY <1>2, <2>2 DEF SweepWaiting
  <2> QED
    BY <2>1, <2>2
<1> QED
  BY <1>1, <1>3, RestSound

-----------------------------------------------------------------------------
(* The theorems about two in a call *)

\* Whoever is in a room sees a call or is on the way, and two in a room who
\* are not know that they talk, or are about to.
LEMMA SoundAlways == Spec => [](DInv /\ KInv)
<1>1. ASSUME Init PROVE DInv /\ KInv
  <2>1. ASSUME NEW u \in Users PROVE Sound(u)
    <3>1. page[u].room = None /\ ~page[u].active /\ ~page[u].connected /\ page[u].partner = None
          /\ page[u].bar.caller = None /\ \A d \in Of(u) : page[u].marker[d] = None
      BY <1>1 DEF Init, NewPage, NoBar, Of
    <3>2. inbox[u] = <<>> /\ up[u] /\ \A d \in Of(u) : u \notin members[d]
      BY <1>1 DEF Init, Of
    <3> QED
      BY <3>1, <3>2, NoneApart, EmptySeq DEF Sound, Lawful, Seen, Backed, Partnered
  <2>2. \A d \in Dms : members[d] # d
    BY <1>1, DmAssumption DEF Init
  <2> QED
    BY <2>1, <2>2 DEF DInv, KInv
<1>2. ASSUME IInv, MixedInv, DInv, KInv, [Next]_vars PROVE DInv' /\ KInv'
  <2>1. CASE UNCHANGED vars
    <3>1. DInv'
      BY <1>2, <2>1 DEF vars, DInv, Sound, Seen, Going, Showing, Backed
    <3>2. KInv'
      BY <1>2, <2>1 DEF vars, KInv, Settled, Going, Knows
    <3> QED
      BY <3>1, <3>2
  <2>2. ASSUME Steady, NEW u \in Users, Around(u),
               u \notin mixed' => \E q, msgs : Acted(u, q, msgs)
        PROVE  DInv' /\ KInv'
    BY <1>2, <2>2, ActedSound, ActedKnown
  <2>3. ASSUME Steady, NEW u \in Users, UserStep(u) PROVE DInv' /\ KInv'
    BY <1>2, <2>2, <2>3, UserAround, UserActed
  <2>4. ASSUME Steady, NEW u \in Users, PageOwn(u) PROVE DInv' /\ KInv'
    <3>1. CASE Continue(u)
      BY <1>2, <2>2, <2>4, <3>1, OwnAround, ContinueActed
    <3>2. CASE RingTimeout(u) \/ BarTimeout(u)
      BY <1>2, <2>2, <2>4, <3>2, OwnAround, TimeoutActed
    <3>3. CASE Receive(u)
      BY <1>2, <2>4, <3>3, ReadSound
    <3>4. CASE Connect(u)
      BY <1>2, <2>4, <3>4, SocketSound
    <3> QED
      BY <2>4, <3>1, <3>2, <3>3, <3>4 DEF PageOwn
  <2>5. CASE Next
    <3>1. Steady
      BY <1>2, <2>5, NextSteady
    <3> QED
      BY <1>2, <2>3, <2>4, <2>5, <3>1, SocketSound, ServeSound, CleanupSound, TimersSound
         DEF Next, Step
  <2> QED
    BY <1>2, <2>1, <2>5
<1> QED
  BY <1>1, <1>2, Invariance, MixedAlways, PTL DEF Spec

\* What a user in a room sees when everything has settled.
LEMMA QuietSees ==
    ASSUME IInv, DInv, Quiet, NEW u \in Users, u \notin mixed, NEW d \in Of(u), u \in members[d]
    PROVE  page[u].connected /\ page[u].active /\ page[u].room = d
<1>1. up[u] /\ out[u] = <<>> /\ inbox[u] = <<>>
  BY DEF Quiet
<1>2. Going(u, d) \/ Showing(u, d)
  BY <1>1 DEF DInv, Sound, Seen
<1>3. Shown(page[u], d)
  BY <1>1, <1>2, AllShort DEF Going, Showing
<1> QED
  BY <1>3 DEF DInv, Sound, Lawful, Shown

\* When everything has settled, nobody is in a room whose last decision was
\* another: whatever rings, markers, lost connections and clean-ups have
\* crossed, in however many conversations; but for a user who has had two
\* calls open at once.
THEOREM DraggedCorrect == Spec => []NobodyDraggedIn
<1>1. IInv /\ DInv => NobodyDraggedIn
  <2>1. SUFFICES ASSUME IInv, DInv, Quiet, NEW d \in Dms, NEW u \in members[d], ~Revived(u),
                        u \notin mixed
                 PROVE  willing[u] = d
    BY DEF NobodyDraggedIn
  <2>2. u \in Users /\ d \in Of(u)
    BY <2>1 DEF IInv, ServerFits, Of
  <2>3. page[u].active /\ page[u].room = d /\ page[u].partner # None
    BY <2>1, <2>2, QuietSees DEF Revived
  <2>4. Lawful(u, page[u], willing[u])
    BY <2>1, <2>2 DEF DInv, Sound
  <2> QED
    BY <2>3, <2>4 DEF Lawful
<1> QED
  BY <1>1, Invariance, SoundAlways, PTL

\* When everything has settled, two who are in the room of their conversation
\* both see that they talk; but for one who has had two calls open at once.
THEOREM TalkersCorrect == Spec => []TalkersKnow
<1>1. IInv /\ DInv /\ KInv => TalkersKnow
  <2>1. SUFFICES ASSUME IInv, DInv, KInv, Quiet, NEW d \in Dms, members[d] = d,
                        ~AnyRevived(d), d \notin crossed, d \cap mixed = {}
                 PROVE  Talking(d)
    BY DEF TalkersKnow
  <2>2. ASSUME NEW u \in d
        PROVE  /\ page[u].active /\ page[u].room = d /\ u \notin mixed /\ Settled(u, d)
    <3>1. u \in Users /\ d \in Of(u) /\ u \in members[d] /\ u \notin mixed
      BY <2>1, <2>2 DEF IInv, ServerFits, Of
    <3>2. page[u].active /\ page[u].room = d
      BY <2>1, <3>1, QuietSees
    <3>3. page[u].partner # None /\ up[u] /\ out[u] = <<>> /\ ~Coming(page[u])
      BY <2>1, <2>2, <3>1, <3>2 DEF AnyRevived, Revived, Quiet, Coming
    <3>4. ~Going(u, d)
      BY <3>3, AllShort DEF Going
    <3> QED
      BY <3>1, <3>2, <3>3, <3>4 DEF Settled, Partnered
  <2>3. ASSUME NEW u \in d PROVE page[u].answered /\ ~page[u].waiting
    <3>1. Knows(u, d) /\ inbox[u] = <<>>
      <4>1. u \in Users
        BY <2>3, DmAssumption
      <4> QED
        BY <2>1, <2>2, <2>3, <4>1 DEF KInv, Quiet
    <3> QED
      BY <3>1, AllShort DEF Knows, Talks
  <2> QED
    BY <2>2, <2>3 DEF Talking
<1> QED
  BY <1>1, Invariance, SoundAlways, PTL
=============================================================================
