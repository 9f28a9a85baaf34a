------------------------------ MODULE Ringing ------------------------------
(***************************************************************************)
(* Calling somebody in a direct conversation: what the pages of the two    *)
(* (voice.js) know of the call, and the server's part (ws.rs) in telling   *)
(* each what the other did.                                                *)
(*                                                                         *)
(* A conversation is the set of its two users.  A page talks to the server *)
(* through one socket, in order in both directions.  A handler of the      *)
(* server is one step here; VoiceRooms has its lock holds, and the devices *)
(* of an account.  A page's function is one step up to its await: before   *)
(* a page enters a room it waits for the key of the other one.  The timers *)
(* (30 s for caller and callee, 10 s of grace) run off in any order.       *)
(***************************************************************************)
EXTENDS Naturals, Sequences, FiniteSets

CONSTANTS
    Users,
    Dms,        \* the conversations: sets of two users
    None,       \* nobody, no conversation
    Absent,     \* the caller_id of a message that has none
    Fragile,    \* bound: the users whose connection may be lost
    Openers,    \* bound: the users who open the list of conversations
    MaxActs,    \* bound: what the users do (calls, answers, hanging up, ...),
                \* rings that a muted page declines by itself and connections
                \* lost, together
    MaxDrops,   \* bound: connections lost and pages reloaded
    MaxQueue    \* bound: messages on their way to the server, per page

ASSUME DmAssumption ==
    /\ None \notin Users \cup Dms /\ Absent \notin Users \cup {None}
    /\ \A d \in Dms : \E u, v \in Users : u # v /\ d = {u, v}
ASSUME BoundAssumption ==
    /\ Fragile \cup Openers \subseteq Users /\ {MaxActs, MaxDrops, MaxQueue} \subseteq Nat
    /\ MaxQueue > 0

VARIABLES
    members,    \* server: who is in the voice room of a conversation
    stored,     \* server: dm_call_waiting, the one who waits in it
    grace,      \* server: tasks that wait after a connection was lost
    leaving,    \* server: accounts whose old connection has not been cleaned up
    up,         \* the page's socket is open and authenticated
    out,        \* messages on their way to the server
    inbox,      \* messages on their way to the page
    page,       \* what a page knows (S)
    acts, drops,\* counters
    willing,    \* history: the call a user decided to be in last
    evicted,    \* history: users whom the clean-up of an old connection has
                \* removed from a room they had entered again
    crossed,    \* history: conversations in which somebody pressed Decline on
                \* the bar of a call while in it, having called back
    mixed       \* history: users with two calls open at once (Double)

vars == <<members, stored, grace, leaving, up, out, inbox, page, acts, drops, willing, evicted,
          crossed, mixed>>
server == <<members, stored, grace, leaving, evicted>>

Other(d, u) == CHOOSE v \in d : v # u
Of(u) == {d \in Dms : u \in d}
Waiters == Users \cup {None, Absent}

Bar(d, caller) == [dm |-> d, caller |-> caller, waiting |-> FALSE, shown |-> TRUE]
NoBar == [dm |-> None, caller |-> None, waiting |-> FALSE, shown |-> FALSE]

\* S at the start.  marker is S.waitingCalls, listed the same in the list of
\* conversations, jobs what goes on after an await.
NewPage ==
    [room |-> None, connected |-> FALSE, active |-> FALSE, answered |-> FALSE,
     waiting |-> FALSE, partner |-> None, members |-> {}, bar |-> NoBar,
     ringing |-> FALSE, ringTimer |-> None, barTimer |-> None,
     marker |-> [d \in Dms |-> None], listed |-> [d \in Dms |-> None], jobs |-> {}]

NoList == [d \in Dms |-> None]
Job(then, d) == [then |-> then, dm |-> d, list |-> NoList]
Fetched == [then |-> "refresh", dm |-> None, list |-> stored]

Msg(type, d) == [type |-> type, dm |-> d, who |-> None, list |-> {}]
From(type, d, who) == [Msg(type, d) EXCEPT !.who = who]
Listing(type, d, list) == [Msg(type, d) EXCEPT !.list = list]

Init ==
    /\ members = [d \in Dms |-> {}] /\ stored = [d \in Dms |-> None]
    /\ grace = {} /\ leaving = {}
    /\ up = [u \in Users |-> TRUE]
    /\ out = [u \in Users |-> <<>>] /\ inbox = [u \in Users |-> <<>>]
    /\ page = [u \in Users |-> NewPage]
    /\ acts = 0 /\ drops = 0 /\ willing = [u \in Users |-> None]
    /\ evicted = {} /\ crossed = {} /\ mixed = {}

-----------------------------------------------------------------------------
(* The page: functions that only touch S *)

\* clearWaitingMarkerForChannel
Unmarked(p, d) ==
    IF d = None THEN p
    ELSE [p EXCEPT !.marker[d] = None, !.listed[d] = None]
Marked(p, d, who) == [p EXCEPT !.marker[d] = who, !.listed[d] = who]

\* syncWaitingCalls, for the page of u: what the list of conversations says,
\* but for one's own marker of a call one is not in.
Synced(u, p) ==
    [p EXCEPT !.marker = [d \in Dms |->
        IF p.listed[d] = Absent \/ (p.listed[d] = u /\ ~(p.active /\ p.room = d))
        THEN None ELSE p.listed[d]]]

\* hideIncomingCall: the bar goes out of sight, S.incomingCall stays.
Hidden(p) == [p EXCEPT !.barTimer = None, !.bar.shown = FALSE]
NoIncoming(p) == [Hidden(p) EXCEPT !.bar = NoBar]

TornDown(p) ==
    Unmarked([p EXCEPT !.room = None, !.connected = FALSE, !.active = FALSE,
                       !.answered = FALSE, !.waiting = FALSE, !.partner = None,
                       !.members = {}, !.ringing = FALSE, !.ringTimer = None,
                       !.barTimer = None], p.room)

\* leaveVoice, with what it sends.
Left(p) == Hidden(TornDown(p))
Goodbye(p) == IF p.room # None THEN <<Msg("leave", p.room)>> ELSE <<>>

\* startDmCall and acceptDmCall leave only a room they are connected to.
Free(p) == IF p.connected /\ p.room # None THEN Left(p) ELSE p
Freeing(p) == IF p.connected THEN Goodbye(p) ELSE <<>>

Entering(p, d, u, then) ==
    [p EXCEPT !.room = d, !.partner = Other(d, u), !.active = TRUE,
              !.answered = (then = "accept"), !.waiting = (then = "wait"),
              !.jobs = @ \cup {Job(then, d)}]

\* markDmCallAnswered
MarkAnswered(p) ==
    IF ~p.waiting /\ (p.answered \/ ~p.active) THEN p
    ELSE Unmarked([p EXCEPT !.answered = @ \/ p.active, !.waiting = FALSE,
                            !.ringTimer = IF p.active /\ ~p.answered THEN None ELSE @],
                  p.room)

\* handleDmCallWaiting: the bar, the call, or neither.
FlipBar(p, d, who) ==
    Marked([p EXCEPT !.bar.waiting = TRUE, !.ringing = FALSE], d, who)
PartnerListed(p) == p.partner # None /\ p.partner \in p.members
FlipCall(p) == [p EXCEPT !.waiting = TRUE, !.answered = FALSE, !.ringing = FALSE]

\* Mutant: without the look at who is in the room.
OnWaitingAnyway(p, d, who) ==
    IF p.bar.dm = d /\ ~p.bar.waiting THEN FlipBar(p, d, who)
    ELSE IF ~(p.active /\ p.room = d) THEN Marked(p, d, who)
    ELSE Marked(FlipCall(p), d, who)

OnWaiting(p, d, who) ==
    IF p.bar.dm = d /\ ~p.bar.waiting THEN FlipBar(p, d, who)
    ELSE IF ~(p.active /\ p.room = d) THEN Marked(p, d, who)
    ELSE IF PartnerListed(p) THEN p
    ELSE Marked(FlipCall(p), d, who)

\* Mutant: the bar goes, the ringtone goes on.
OnBarEndRings(p, d) == IF p.bar.dm = d THEN NoIncoming(p) ELSE p

\* handleDmCallEnd
OnBarEnd(p, d) ==
    IF p.bar.dm = d THEN [NoIncoming(p) EXCEPT !.ringing = FALSE] ELSE p
OnEnd(u, p, d, declined) ==
    LET q == OnBarEnd(p, d)
        r == IF ~declined /\ ~q.active /\ q.marker[d] # None THEN Unmarked(q, d) ELSE q
        s == [r EXCEPT !.ringTimer = None, !.barTimer = None, !.ringing = FALSE]
    IN  IF ~(r.active /\ r.room = d) THEN r
        ELSE IF declined
        THEN Marked([s EXCEPT !.waiting = TRUE, !.answered = FALSE], d, u)
        ELSE TornDown(s)

\* handleDmWaitingCleared
OnCleared(p, d) ==
    LET q == [p EXCEPT !.marker[d] = None, !.listed[d] = None]
    IN  IF q.bar.dm = d /\ q.bar.waiting
        THEN [NoIncoming(q) EXCEPT !.ringing = FALSE] ELSE q

OnMembers(u, p, list) ==
    IF ~p.connected THEN p
    ELSE LET q == [p EXCEPT !.members = list]
         IN  IF list \ {u} # {} THEN MarkAnswered(q) ELSE q

\* handleVoiceJoined
OnJoined(u, p, d, list) ==
    LET q == NoIncoming([p EXCEPT !.room = d, !.connected = TRUE, !.active = TRUE])
        r == IF list \ {u} # {} THEN MarkAnswered(q) ELSE q
    IN  [r EXCEPT !.members = list]

-----------------------------------------------------------------------------
(* What the users do *)

\* The page of u becomes p and sends msgs, if its socket is open.
PageStep(u, p, msgs) ==
    /\ page' = [page EXCEPT ![u] = p]
    /\ up[u] => Len(out[u]) + Len(msgs) <= MaxQueue
    /\ out' = [out EXCEPT ![u] = IF up[u] THEN @ \o msgs ELSE @]

Act ==
    /\ acts + drops < MaxActs /\ acts' = acts + 1
    /\ UNCHANGED <<server, up, inbox, drops>>
Wants(u, d) == willing' = [willing EXCEPT ![u] = d]

InCall(p, d) == p.active /\ p.room = d
Waited(u, d) == page[u].marker[d] \notin {None, u}

\* joinWaitingCall leaves a server room only, not another direct call.
JoinWaiting(u, d) ==
    /\ PageStep(u, Entering(page[u], d, u, "wait"), <<>>)
    /\ Wants(u, d)

StartCall(u, d) ==
    /\ PageStep(u, Entering(Free(page[u]), d, u, "start"), Freeing(page[u]))
    /\ Wants(u, d)

\* The call button of an open conversation.
CallButton(u, d) ==
    /\ Act
    /\ CASE InCall(page[u], d) ->
              PageStep(u, page[u], <<Msg("ring", d)>>) /\ UNCHANGED willing
         [] ~InCall(page[u], d) /\ Waited(u, d) /\ ~page[u].active -> JoinWaiting(u, d)
         [] OTHER -> StartCall(u, d)

\* The button of the banner in the conversation.
Banner(u, d) == Act /\ Waited(u, d) /\ JoinWaiting(u, d)

\* acceptDmCall, also "Join" once the caller waits.
Accept(u) ==
    LET p == page[u]
        d == p.bar.dm
        q == Free([NoIncoming(p) EXCEPT !.ringing = FALSE])
    IN  /\ Act /\ p.bar.shown
        /\ PageStep(u, Unmarked(Entering(q, d, u, "accept"), d), Freeing(p))
        /\ Wants(u, d)

Declined(p) == [NoIncoming(p) EXCEPT !.ringing = FALSE]

\* declineDmCall; the button is hidden once the caller waits.
Decline(u) ==
    LET p == page[u] IN
    /\ Act /\ p.bar.shown /\ ~p.bar.waiting
    /\ PageStep(u, Declined(p), <<Msg("end", p.bar.dm)>>)
    /\ IF p.active THEN UNCHANGED willing ELSE Wants(u, None)
    /\ crossed' = IF InCall(p, p.bar.dm) THEN crossed \cup {p.bar.dm} ELSE crossed

HangUp(u) ==
    /\ Act /\ page[u].active
    /\ PageStep(u, Left(page[u]), Goodbye(page[u]))
    /\ Wants(u, None)

\* loadDmConversations: the answer is on its way.
OpenList(u) ==
    /\ u \in Openers /\ Act /\ up[u]
    /\ page' = [page EXCEPT ![u].jobs = @ \cup {Fetched}]
    /\ UNCHANGED <<out, willing>>

UserStep(u) ==
    \/ /\ UNCHANGED crossed
       /\ \/ \E d \in Of(u) : CallButton(u, d) \/ Banner(u, d)
          \/ Accept(u) \/ HangUp(u) \/ OpenList(u)
    \/ Decline(u)

-----------------------------------------------------------------------------
(* What the page does by itself *)

Own == UNCHANGED <<server, up, inbox, acts, drops, willing, crossed>>

\* After ensureDmCallKey: the room is entered, whatever has happened since.
Goes(u, j) ==
    LET p == [page[u] EXCEPT !.jobs = @ \ {j}] IN
    CASE j.then = "start" ->
           PageStep(u, [p EXCEPT !.ringTimer = j.dm], <<Msg("join", j.dm), Msg("ring", j.dm)>>)
      [] j.then = "accept" -> PageStep(u, p, <<Msg("join", j.dm)>>)
      [] j.then = "wait" -> PageStep(u, Unmarked(p, j.dm), <<Msg("join", j.dm)>>)
      [] j.then = "refresh" -> PageStep(u, Synced(u, [p EXCEPT !.listed = j.list]), <<>>)

Continue(u) == Own /\ \E j \in page[u].jobs : Goes(u, j)

\* Thirty seconds without an answer.
RingTimeout(u) ==
    LET p == [page[u] EXCEPT !.ringTimer = None]
        d == page[u].ringTimer
    IN  /\ Own /\ d # None
        /\ IF p.active /\ ~p.answered /\ p.room = d
           THEN PageStep(u, [p EXCEPT !.waiting = TRUE, !.ringing = FALSE], <<Msg("waiting", d)>>)
           ELSE PageStep(u, p, <<>>)

BarTimeout(u) ==
    LET p == [page[u] EXCEPT !.barTimer = None]
        d == page[u].barTimer
    IN  /\ Own /\ d # None
        /\ PageStep(u, IF p.bar.dm = d /\ ~p.bar.waiting
                       THEN OnWaiting(p, d, p.bar.caller) ELSE p, <<>>)

\* Mutant: whoever waits, not oneself.
CallsBackAny(u, p, d) == p.marker[d] # None /\ ~p.active

\* handleDmCallRing: the other one, whom this one waits for by its marker, is
\* called back; a caller or a conversation may be muted.
CallsBack(u, p, d) == p.marker[d] = u /\ ~p.active
OnRing(u, d, caller) ==
    LET p == page[u]
        r == [p EXCEPT !.bar = Bar(d, caller), !.ringing = TRUE, !.barTimer = d]
    IN  CASE InCall(p, d) -> PageStep(u, p, <<>>)
          [] ~InCall(p, d) /\ CallsBack(u, p, d) -> PageStep(u, Entering(p, d, u, "wait"), <<>>)
          [] OTHER -> PageStep(u, r, <<>>)
Muted(u, d) ==
    /\ ~InCall(page[u], d) /\ ~CallsBack(u, page[u], d)
    /\ PageStep(u, page[u], <<Msg("end", d)>>)

\* onmessage
Handle(u, m) ==
    LET p == page[u]
        Becomes(q) == PageStep(u, q, <<>>)
    IN  CASE m.type = "members" -> Becomes(OnMembers(u, p, m.list))
          [] m.type = "joined" -> Becomes(OnJoined(u, p, m.dm, m.list))
          [] m.type = "ring" -> OnRing(u, m.dm, m.who)
          [] m.type = "waiting" -> Becomes(OnWaiting(p, m.dm, m.who))
          [] m.type = "cleared" -> Becomes(OnCleared(p, m.dm))
          [] m.type = "declined" -> Becomes(OnEnd(u, p, m.dm, TRUE))
          [] m.type = "ended" -> Becomes(OnEnd(u, p, m.dm, FALSE))

Receive(u) ==
    /\ inbox[u] # <<>>
    /\ \/ Handle(u, Head(inbox[u])) /\ UNCHANGED acts
       \/ /\ Head(inbox[u]).type = "ring" /\ Muted(u, Head(inbox[u]).dm)
          /\ acts + drops < MaxActs /\ acts' = acts + 1
    /\ inbox' = [inbox EXCEPT ![u] = Tail(@)]
    /\ UNCHANGED <<server, up, drops, willing, crossed>>

\* Mutant: the room is not entered again.
RejoinNever(p) == IF p.active THEN <<>> ELSE <<Msg("leave_all", None)>>

\* reconnect and leaveAllStaleRooms.
Rejoin(p) ==
    IF p.room # None THEN <<Msg("join", p.room)>>
    ELSE IF p.active THEN <<>> ELSE <<Msg("leave_all", None)>>

\* auth_ok after a connection was lost, or at the start of a page, with
\* refreshDmWaitingState.
Connect(u) ==
    LET p == page[u] IN
    /\ ~up[u]
    /\ up' = [up EXCEPT ![u] = TRUE]
    /\ page' = [page EXCEPT ![u] = [Synced(u, p) EXCEPT !.jobs = @ \cup {Fetched}]]
    /\ out' = [out EXCEPT ![u] = Rejoin(p)]
    /\ UNCHANGED <<server, inbox, acts, drops, willing, crossed>>

\* The connection is lost, with what was on its way.
Cut(u) ==
    /\ u \in Fragile /\ drops < MaxDrops /\ acts + drops < MaxActs
    /\ drops' = drops + 1
    /\ u \notin leaving /\ leaving' = leaving \cup {u}
    /\ up' = [up EXCEPT ![u] = FALSE]
    /\ out' = [out EXCEPT ![u] = <<>>] /\ inbox' = [inbox EXCEPT ![u] = <<>>]
    /\ UNCHANGED <<members, stored, grace, evicted, acts, crossed>>
LoseSocket(u) == up[u] /\ Cut(u) /\ UNCHANGED <<page, willing>>
Reload(u) ==
    /\ up[u] /\ Cut(u)
    /\ page' = [page EXCEPT ![u] = NewPage]
    /\ Wants(u, None)

-----------------------------------------------------------------------------
(* The server *)

\* What reaches the users: to[v] goes to v, if v is connected.
Delivered(to) ==
    inbox' = [v \in Users |-> IF up[v] THEN inbox[v] \o to[v] ELSE inbox[v]]
ToOnly(v, msgs) == [w \in Users |-> IF w = v THEN msgs ELSE <<>>]
Nothing == [w \in Users |-> <<>>]

Join(u, d) ==
    LET now == members[d] \cup {u}
        list == Listing("members", d, now)
    IN  /\ members' = [members EXCEPT ![d] = now]
        /\ stored' = [stored EXCEPT ![d] = IF now = d THEN None ELSE u]
        /\ Delivered([v \in Users |->
              IF v \notin now THEN <<>>
              ELSE IF v = u THEN <<list, Listing("joined", d, now)>> ELSE <<list>>])
        /\ UNCHANGED grace

\* voice_remove_from_room; explicit is clear_waiting_on_empty.
Remove(u, d, explicit) ==
    LET now == members[d] \ {u}
        v == Other(d, u)
    IN  /\ members' = [members EXCEPT ![d] = now]
        /\ CASE now # {} ->
                  /\ stored' = [stored EXCEPT ![d] = v] /\ UNCHANGED grace
                  /\ Delivered(ToOnly(v, <<Listing("members", d, now), From("waiting", d, Absent)>>))
             [] now = {} /\ explicit ->
                  /\ stored' = [stored EXCEPT ![d] = None] /\ UNCHANGED grace
                  /\ Delivered(ToOnly(v, <<Msg("ended", d)>>))
             [] now = {} /\ ~explicit ->
                  /\ grace' = grace \cup {[dm |-> d, who |-> u]}
                  /\ UNCHANGED stored /\ Delivered(Nothing)

Ring(u, d) ==
    Delivered(ToOnly(Other(d, u), <<From("ring", d, u)>>)) /\ UNCHANGED <<members, stored, grace>>

\* handle_dm_call_waiting
CallWaiting(u, d) ==
    /\ stored' = IF u \in members[d] THEN [stored EXCEPT ![d] = u] ELSE stored
    /\ Delivered(ToOnly(Other(d, u), <<From("waiting", d, u)>>))
    /\ UNCHANGED <<members, grace>>

\* handle_dm_call_end with reason "declined", the only one a page sends.
CallDeclined(u, d) ==
    LET v == Other(d, u) IN
    /\ stored' = [stored EXCEPT ![d] = v]
    /\ Delivered([w \in Users |-> CASE w = v -> <<Msg("declined", d)>>
                                    [] w = u -> <<From("waiting", d, v)>>
                                    [] OTHER -> <<>>])
    /\ UNCHANGED <<members, grace>>

Rooms(u) == {d \in Dms : u \in members[d]}
Same == UNCHANGED <<members, stored, grace, inbox>>

Serve(u) ==
    /\ out[u] # <<>>
    /\ LET m == Head(out[u]) IN
       CASE m.type = "join" -> Join(u, m.dm)
         [] m.type = "leave" -> IF u \in members[m.dm] THEN Remove(u, m.dm, TRUE) ELSE Same
         [] m.type = "leave_all" ->
               IF Rooms(u) = {} THEN Same ELSE \E d \in Rooms(u) : Remove(u, d, FALSE)
         [] m.type = "ring" -> Ring(u, m.dm)
         [] m.type = "waiting" -> CallWaiting(u, m.dm)
         [] m.type = "end" -> CallDeclined(u, m.dm)
    /\ out' = [out EXCEPT ![u] = IF Head(@).type = "leave_all" /\ Cardinality(Rooms(u)) > 1
                                 THEN @ ELSE Tail(@)]
    /\ evicted' = IF Head(out[u]).type = "join" THEN evicted \ {u} ELSE evicted
    /\ UNCHANGED <<leaving, up, page, acts, drops, willing, crossed>>

\* voice_remove_user_all_for_device after the end of a connection: rooms of
\* the same device, also those it has entered again through a new connection.
Cleanup(u) ==
    /\ u \in leaving
    /\ IF Rooms(u) = {} THEN leaving' = leaving \ {u} /\ Same
       ELSE UNCHANGED leaving /\ \E d \in Rooms(u) : Remove(u, d, FALSE)
    /\ evicted' = IF up[u] /\ Rooms(u) # {} THEN evicted \cup {u} ELSE evicted
    /\ UNCHANGED <<up, out, page, acts, drops, willing, crossed>>

\* A grace task: its room is still empty.
GraceOver ==
    /\ \E g \in grace :
          /\ grace' = grace \ {g}
          /\ IF members[g.dm] = {}
             THEN /\ stored' = [stored EXCEPT ![g.dm] = None]
                  /\ Delivered(ToOnly(Other(g.dm, g.who), <<Msg("cleared", g.dm)>>))
             ELSE UNCHANGED <<stored, inbox>>
    /\ UNCHANGED <<members, leaving, evicted, up, out, page, acts, drops, willing, crossed>>

\* sweep_stale_waiting: a marker, older than the grace period, of somebody who
\* is not there.
SweepWaiting ==
    /\ \E d \in Dms :
          LET w == stored[d] IN
          /\ w # None /\ ~(up[w] /\ w \in members[d])
          /\ stored' = [stored EXCEPT ![d] = None]
          /\ Delivered(ToOnly(Other(d, w), <<Msg("cleared", d)>>))
    /\ UNCHANGED <<members, grace, leaving, evicted, up, out, page, acts, drops, willing, crossed>>

PageOwn(u) == Continue(u) \/ RingTimeout(u) \/ BarTimeout(u) \/ Receive(u) \/ Connect(u)

Step ==
    \/ \E u \in Users :
          UserStep(u) \/ PageOwn(u) \/ LoseSocket(u) \/ Reload(u) \/ Serve(u) \/ Cleanup(u)
    \/ GraceOver \/ SweepWaiting

\* The call of conversation d is open for u: on its page, which shows it, is
\* about to enter it or waits in it by its marker; on its way to or from the
\* server; or on the server, and nothing is on its way that leaves it.
Sent(u, types, d) ==
    \E i \in 1..Len(out[u]) : out[u][i].type \in types /\ out[u][i].dm \in {d, None}
Answered(u, d) ==
    \E i \in 1..Len(inbox[u]) : inbox[u][i].type = "joined" /\ inbox[u][i].dm = d
Open(u, d) ==
    \/ page[u].room = d \/ page[u].marker[d] = u
    \/ \E j \in page[u].jobs : j.then # "refresh" /\ j.dm = d
    \/ Sent(u, {"join"}, d) \/ Answered(u, d)
    \/ u \in members[d] /\ ~Sent(u, {"leave", "leave_all"}, d)
Double(u) ==
    \E d, e \in Of(u) :
        /\ d # e
        /\ \/ Open(u, d) /\ Open(u, e)
           \/ u \in members[d] /\ u \in members[e]

Next == Step /\ mixed' = mixed \cup {u \in Users : Double(u)'}

Spec == Init /\ [][Next]_vars

-----------------------------------------------------------------------------
(* Properties *)

Messages == [type : {"join", "leave", "leave_all", "ring", "waiting", "end", "members", "joined",
                     "cleared", "declined", "ended"},
             dm : Dms \cup {None}, who : Waiters, list : SUBSET Users]
Jobs == [then : {"start", "accept", "wait", "refresh"}, dm : Dms \cup {None},
         list : [Dms -> Users \cup {None}]]

\* Type correctness of every variable.
TypeOK ==
    /\ members \in [Dms -> SUBSET Users] /\ \A d \in Dms : members[d] \subseteq d
    /\ stored \in [Dms -> Users \cup {None}]
    /\ grace \subseteq [dm : Dms, who : Users] /\ leaving \subseteq Users
    /\ up \in [Users -> BOOLEAN]
    /\ \A u \in Users :
        /\ out[u] \in Seq(Messages) /\ Len(out[u]) <= MaxQueue
        /\ inbox[u] \in Seq(Messages)
        /\ LET p == page[u] IN
           /\ p.room \in Of(u) \cup {None} /\ p.members \subseteq Users
           /\ p.partner \in Users \cup {None}
           /\ {p.connected, p.active, p.answered, p.waiting, p.ringing} \subseteq BOOLEAN
           /\ p.bar \in [dm : Of(u) \cup {None}, caller : Users \cup {None},
                         waiting : BOOLEAN, shown : BOOLEAN]
           /\ {p.ringTimer, p.barTimer} \subseteq Of(u) \cup {None}
           /\ p.marker \in [Dms -> Waiters] /\ p.listed \in [Dms -> Waiters]
           /\ p.jobs \subseteq Jobs
    /\ acts \in 0..MaxActs /\ drops \in 0..MaxDrops
    /\ willing \in [Users -> Dms \cup {None}] /\ evicted \subseteq Users /\ crossed \subseteq Dms
    /\ mixed \subseteq Users

\* Nothing is on its way or about to happen by itself.
Quiet ==
    /\ leaving = {} /\ grace = {}
    /\ \A u \in Users :
        /\ up[u] /\ out[u] = <<>> /\ inbox[u] = <<>> /\ page[u].jobs = {}
        /\ page[u].ringTimer = None /\ page[u].barTimer = None

\* Every ringtone ends: the call is answered, declined, ended, taken back or
\* timed out, or its message is lost, and what is left is a page that is in a
\* call.  (A page that calls back while it rings goes on ringing in the call.)
RingEnds == Quiet => \A u \in Users : page[u].ringing => page[u].active

\* The page has left and the answer to its earlier joining brought the call
\* back, without a partner.
Revived(u) == page[u].active /\ page[u].partner = None
AnyRevived(d) == \E u \in d : Revived(u)

\* Two who are both in the room of their conversation both see that they talk:
\* none shows a call that nobody answered, or one who waits.  Not if one has
\* pressed Decline on the bar of the call it had entered itself.
Talking(d) == \A u \in d : page[u].active /\ page[u].room = d /\ page[u].answered /\ ~page[u].waiting
TalkersKnow ==
    Quiet => \A d \in Dms :
        members[d] = d => Talking(d) \/ AnyRevived(d) \/ d \in crossed \/ d \cap mixed # {}

\* Nobody is in a room, microphone open, whose last decision was another:
\* neither a ring, nor a stale marker, nor a connection made again brings
\* somebody in.
NobodyDraggedIn ==
    Quiet => \A d \in Dms : \A u \in members[d] : willing[u] = d \/ Revived(u) \/ u \in mixed

\* A page that shows a call is in its room on the server, after lost
\* connections, grace periods and clean-ups.  Not if the clean-up of the old
\* connection came after the page had entered again.
NoGhostCall ==
    Quiet => \A u \in Users :
        page[u].active => Revived(u) \/ u \in evicted \/ u \in members[page[u].room]

\* What the code does not keep (see the README): a page that says somebody
\* waits is right, the ringtone is heard with the bar only, and a user is in
\* one call.
NoPhantomWaiter ==
    Quiet => \A u \in Users, d \in Dms :
        page[u].marker[d] \in Users \ {u} => page[u].marker[d] \in members[d]
RingsWithBar == \A u \in Users : page[u].ringing => page[u].bar.dm # None
OneCall == Quiet => \A u \in Users : Cardinality(Rooms(u)) <= 1

=============================================================================
