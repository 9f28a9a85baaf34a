------------------------------ MODULE CallEdge ------------------------------
(***************************************************************************)
(* One edge of the mesh of a voice call (voice.js): the pages of two       *)
(* members, the peer connection each opens for the other, and the          *)
(* offer/answer exchange between them, which the server relays.            *)
(*                                                                         *)
(* The peer connection is the browser's (RTCPeerConnection), modelled by   *)
(* its specification: operations are queued and settle one by one, in the  *)
(* order they were asked for, and what waits for one runs when it settles. *)
(* A session description is the transport credentials of its author (a     *)
(* number: new ones for a first description and for an ICE restart) and    *)
(* its media lines, of which the first carry the author's tracks.  ICE     *)
(* candidates, gating, bitrates and the encryption transforms are left     *)
(* out.                                                                    *)
(*                                                                         *)
(* What the server sends to one page arrives in order (one socket).        *)
(* Signals may be lost: the relay drops what exceeds 300 in 10 seconds.    *)
(***************************************************************************)
EXTENDS Naturals, Sequences, FiniteSets, Functions

CONSTANTS
    Impolite, Polite,   \* the member with the lower id and the other one
    None,               \* no peer connection
    MaxTracks,          \* bound: tracks of a member
    MaxCreds,           \* bound: transport credentials in use at a time
    MaxFaults,          \* bound: what goes wrong: devices that lack the server
                        \* key at first, signals lost, connections that break,
                        \* timers that fire while something is under way
    MaxJoins            \* bound: joins of the two members together

ASSUME MemberAssumption ==
    Impolite # Polite /\ None \notin {Impolite, Polite}
ASSUME BoundAssumption ==
    {MaxTracks, MaxCreds, MaxFaults, MaxJoins} \subseteq Nat

Members == {Impolite, Polite}
Other(x) == CHOOSE y \in Members : y # x
Lesser(m, n) == IF m < n THEN m ELSE n
Greater(m, n) == IF m < n THEN n ELSE m

VARIABLES
    room,       \* server: the members of the voice room
    inbox,      \* messages on their way to each page, in order
    connected,  \* S.connected
    sees,       \* the other one is in S.members
    keyAt,      \* the server key has reached the device
    roomKey,    \* S.roomKeyB64 (and the signalling key derived from it)
    waiting,    \* S._pendingPeerUids has the other one
    opening,    \* a schedulePeerCreation timeout is pending
    tracks,     \* local tracks: microphone, camera and screen, as they were started
    peer,       \* S.peers[the other one]
    deferred,   \* offers put off for 150 ms, with the peer they are for
    faults, joins,  \* counters
    missed      \* history: members who could not read an offer, for want of
                \* the key

page == <<connected, sees, roomKey, waiting, opening, tracks>>
counts == <<faults, joins>>
vars == <<room, inbox, page, keyAt, peer, deferred, counts, missed>>

\* A description: the author's credentials, the media lines, and how many
\* tracks of its author it carries.
Sdp(c, l, s) == [cred |-> c, lines |-> l, sent |-> s]
NoSdp == Sdp(0, 0, 0)

\* The pair in force: one's own description and the other one's credentials.
NoPair == [set |-> FALSE, mine |-> NoSdp, theirs |-> 0]
Pair(own, other) == [set |-> TRUE, mine |-> own, theirs |-> other.cred]

Alive(x) == peer[x] # None
Stable(p) == p.sig = "stable"

\* The browser's negotiation-needed condition.
Needs(p) == p.tracks > p.now.mine.sent \/ p.restart # {}

\* restartIce: the credentials that are to be replaced.
RestartIce(p) == [p EXCEPT !.restart = {p.now.mine.cred, p.local.cred} \ {0}]

Init ==
    /\ room = {} /\ inbox = [x \in Members |-> <<>>]
    /\ connected = [x \in Members |-> FALSE]
    /\ sees = [x \in Members |-> FALSE]
    /\ keyAt \in [Members -> BOOLEAN]
    /\ roomKey = [x \in Members |-> FALSE]
    /\ waiting = [x \in Members |-> FALSE]
    /\ opening = [x \in Members |-> FALSE]
    /\ tracks = [x \in Members |-> 0]
    /\ peer = [x \in Members |-> None]
    /\ deferred = [x \in Members |-> <<>>]
    /\ faults = Cardinality({x \in Members : ~keyAt[x]}) /\ faults <= MaxFaults
    /\ joins = 0 /\ missed = {}

-----------------------------------------------------------------------------
(* The peer connection and the functions that only touch it *)

\* The operations op is asked for on p.
Asked(p, op) == [p EXCEPT !.ops = Append(@, op)]
Do(what) == [do |-> what, sdp |-> NoSdp, then |-> ""]
DoWith(what, sdp, then) == [do |-> what, sdp |-> sdp, then |-> then]

\* onnegotiationneeded.
Negotiated(p) ==
    Asked([p EXCEPT !.making = TRUE, !.queued = FALSE], Do("createOffer"))
Renegotiate(p) ==
    IF p.making \/ ~Stable(p) THEN [p EXCEPT !.queued = TRUE] ELSE Negotiated(p)

\* finally: what has been asked for in the meantime.
Offered(p) ==
    LET q == [p EXCEPT !.making = FALSE] IN
    IF q.queued /\ Stable(q) THEN Renegotiate(q) ELSE q

\* A pair comes into force: the signalling state is stable again and the
\* browser re-evaluates whether negotiation is needed.
Settled(p, pair) ==
    [p EXCEPT !.sig = "stable", !.now = pair, !.local = NoSdp, !.remote = NoSdp,
              !.restart = IF pair.mine.cred \in @ THEN @ ELSE {}, !.fired = FALSE,
              !.conn = IF @ = "failed" /\ pair.theirs # p.now.theirs THEN "new" ELSE @]

RolledBack(p) ==
    [p EXCEPT !.sig = "stable", !.local = NoSdp, !.remote = NoSdp, !.fired = FALSE]

\* createPeer for a page with n local tracks.  Mutant: without watchPeer.
NewPeerUnwatched(n) ==
    [sig |-> "stable", now |-> NoPair, local |-> NoSdp, remote |-> NoSdp,
     ops |-> <<>>, making |-> FALSE, queued |-> FALSE, fired |-> FALSE,
     restart |-> {}, tracks |-> n, conn |-> "new", watch |-> FALSE, net |-> TRUE]
NewPeer(n) ==
    [sig |-> "stable", now |-> NoPair, local |-> NoSdp, remote |-> NoSdp,
     ops |-> <<>>, making |-> FALSE, queued |-> FALSE, fired |-> FALSE,
     restart |-> {}, tracks |-> n, conn |-> "new", watch |-> TRUE, net |-> TRUE]

\* Each end has the credentials of the other one: media can flow.
Reaches(x) == peer[x].now.theirs # 0 /\ peer[x].now.theirs = peer[Other(x)].now.mine.cred
Matched == (\A x \in Members : Alive(x)) /\ (\A x \in Members : Reaches(x))

\* Everything the page, the browser or the network is about to do is done.
Quiet ==
    /\ \A x \in Members :
        /\ inbox[x] = <<>> /\ deferred[x] = <<>> /\ ~opening[x]
        /\ Alive(x) => peer[x].ops = <<>> /\ (Needs(peer[x]) /\ Stable(peer[x]) => peer[x].fired)
    /\ \E x \in Members : tracks[x] > 0
    /\ Matched => \A x \in Members : peer[x].conn = "connected"

\* A timer of some seconds: after everything else, but for a fault.
Timer ==
    \/ Quiet /\ UNCHANGED faults
    \/ ~Quiet /\ faults < MaxFaults /\ faults' = faults + 1

-----------------------------------------------------------------------------
(* Joining and leaving *)

Signal(kind, sdp) == [type |-> "signal", kind |-> kind, sdp |-> sdp]
Roster(type, there) == [type |-> type, there |-> there]

\* joinServerVoice, and voice_join at the server: voice_joined to the page
\* and voice_members to the other one.
Join(x) ==
    /\ x \notin room /\ joins < MaxJoins
    /\ joins' = joins + 1
    /\ room' = room \cup {x}
    /\ inbox' = [y \in Members |->
         IF y = x THEN Append(inbox[x], Roster("joined", Other(x) \in room))
         ELSE IF y \in room THEN Append(inbox[y], Roster("members", TRUE))
         ELSE inbox[y]]
    /\ waiting' = [waiting EXCEPT ![x] = FALSE]
    /\ roomKey' = [roomKey EXCEPT ![x] = keyAt[x]]
    /\ UNCHANGED <<connected, sees, opening, tracks, keyAt, peer, deferred, faults, missed>>

\* leaveVoice with teardownRoom, and voice_leave at the server.
Leave(x) ==
    /\ x \in room /\ connected[x]
    /\ room' = room \ {x}
    /\ inbox' = [y \in Members |->
         IF y # x /\ y \in room THEN Append(inbox[y], Roster("members", FALSE)) ELSE inbox[y]]
    /\ connected' = [connected EXCEPT ![x] = FALSE]
    /\ sees' = [sees EXCEPT ![x] = FALSE]
    /\ roomKey' = [roomKey EXCEPT ![x] = FALSE]
    /\ waiting' = [waiting EXCEPT ![x] = FALSE]
    /\ tracks' = [tracks EXCEPT ![x] = 0]
    /\ peer' = [peer EXCEPT ![x] = None]
    /\ deferred' = [deferred EXCEPT ![x] = <<>>]
    /\ UNCHANGED <<opening, keyAt, counts, missed>>

\* The server key arrives (key_grant), in time for the fetch of ensureRoomKey
\* or for the poll of handleVoiceJoined (20 times in 10 seconds): deriveRoomKey
\* is run and the peers that wait are scheduled.
KeyArrives(x) ==
    /\ ~keyAt[x]
    /\ keyAt' = [keyAt EXCEPT ![x] = TRUE]
    /\ roomKey' = [roomKey EXCEPT ![x] = x \in room]
    /\ opening' = [opening EXCEPT ![x] = @ \/ waiting[x]]
    /\ waiting' = [waiting EXCEPT ![x] = FALSE]
    /\ UNCHANGED <<room, inbox, connected, sees, tracks, peer, deferred, counts, missed>>

\* handleVoiceJoined.
HandleJoined(x) ==
    /\ inbox[x] # <<>> /\ Head(inbox[x]).type = "joined"
    /\ inbox' = [inbox EXCEPT ![x] = Tail(@)]
    /\ connected' = [connected EXCEPT ![x] = TRUE]
    /\ sees' = [sees EXCEPT ![x] = Head(inbox[x]).there]
    /\ roomKey' = [roomKey EXCEPT ![x] = keyAt[x]]
    /\ opening' = [opening EXCEPT ![x] = @ \/ (sees'[x] /\ ~Alive(x))]
    /\ UNCHANGED <<room, waiting, tracks, keyAt, peer, deferred, counts, missed>>

\* handleVoiceMembers: a peer for a newcomer, and none for who has left.
HandleMembers(x) ==
    /\ inbox[x] # <<>> /\ Head(inbox[x]).type = "members"
    /\ inbox' = [inbox EXCEPT ![x] = Tail(@)]
    /\ IF connected[x]
       THEN LET there == Head(inbox[x]).there IN
            /\ sees' = [sees EXCEPT ![x] = there]
            /\ opening' = [opening EXCEPT ![x] = @ \/ (there /\ ~Alive(x))]
            /\ peer' = IF there THEN peer ELSE [peer EXCEPT ![x] = None]
            /\ deferred' = IF there THEN deferred ELSE [deferred EXCEPT ![x] = <<>>]
       ELSE UNCHANGED <<sees, opening, peer, deferred>>
    /\ UNCHANGED <<room, connected, roomKey, waiting, tracks, keyAt, counts, missed>>

\* The timeout of schedulePeerCreation.  Mutant: without the key.
OpenPeerKeyless(x) ==
    /\ opening[x]
    /\ opening' = [opening EXCEPT ![x] = FALSE]
    /\ peer' = IF connected[x] /\ sees[x] /\ ~Alive(x)
               THEN [peer EXCEPT ![x] = NewPeer(tracks[x])] ELSE peer
    /\ UNCHANGED <<room, inbox, connected, sees, roomKey, waiting, tracks, keyAt, deferred, counts, missed>>
OpenPeer(x) ==
    /\ opening[x]
    /\ opening' = [opening EXCEPT ![x] = FALSE]
    /\ LET due == connected[x] /\ sees[x] /\ ~Alive(x) IN
       /\ waiting' = [waiting EXCEPT ![x] = @ \/ (due /\ ~roomKey[x])]
       /\ peer' = IF due /\ roomKey[x] THEN [peer EXCEPT ![x] = NewPeer(tracks[x])] ELSE peer
    /\ UNCHANGED <<room, inbox, connected, sees, roomKey, tracks, keyAt, deferred, counts, missed>>

\* startMic, startCamera, startScreen: addLocalTracksToAllPeers.
AddTrack(x) ==
    /\ connected[x] /\ tracks[x] < MaxTracks
    /\ tracks' = [tracks EXCEPT ![x] = @ + 1]
    /\ peer' = IF Alive(x) THEN [peer EXCEPT ![x].tracks = tracks'[x]] ELSE peer
    /\ UNCHANGED <<room, inbox, connected, sees, roomKey, waiting, opening, keyAt, deferred, counts, missed>>

-----------------------------------------------------------------------------
(* Signals *)

\* What handleSignal does to a peer that exists: an offer, when there is a
\* local offer, is for the polite side to accept and for the other one to
\* ignore.
OfferHandled(x, p, sdp) ==
    IF p.sig = "local"
    THEN IF x = Polite THEN Asked(p, DoWith("rollback", sdp, "accept")) ELSE p
    ELSE Asked(p, DoWith("remoteOffer", sdp, ""))

\* voice_signal, decryptSignalPayload and handleSignal: without a key the
\* payload cannot be read; without a peer one is created.
HandleSignal(x) ==
    /\ inbox[x] # <<>> /\ Head(inbox[x]).type = "signal"
    /\ inbox' = [inbox EXCEPT ![x] = Tail(@)]
    /\ LET m == Head(inbox[x])
           p == IF Alive(x) THEN peer[x] ELSE NewPeer(tracks[x]) IN
       IF ~roomKey[x]
       THEN /\ missed' = IF x \in room /\ m.kind = "offer" THEN missed \cup {x} ELSE missed
            /\ UNCHANGED <<peer, deferred>>
       ELSE /\ UNCHANGED missed
            /\ IF m.kind = "offer" /\ p.sig # "local" /\ p.making
               THEN deferred' = [deferred EXCEPT ![x] = Append(@, m.sdp)] /\ UNCHANGED peer
               ELSE /\ peer' = [peer EXCEPT ![x] =
                         IF m.kind = "offer" THEN OfferHandled(x, p, m.sdp)
                         ELSE Asked(p, DoWith("remoteAnswer", m.sdp, "retry"))]
                    /\ UNCHANGED deferred
    /\ UNCHANGED <<room, page, keyAt, counts>>

\* The 150 ms are over.
HandleDeferred(x) ==
    /\ deferred[x] # <<>>
    /\ LET sdp == Head(deferred[x]) IN
       IF Alive(x) /\ peer[x].sig # "local" /\ peer[x].making
       THEN deferred' = [deferred EXCEPT ![x] = Append(Tail(@), sdp)] /\ UNCHANGED peer
       ELSE /\ deferred' = [deferred EXCEPT ![x] = Tail(@)]
            /\ peer' = IF Alive(x) THEN [peer EXCEPT ![x] = OfferHandled(x, @, sdp)] ELSE peer
    /\ UNCHANGED <<room, inbox, page, keyAt, counts, missed>>

\* The relay's limiter drops a signal.
Lose(x) ==
    /\ faults < MaxFaults
    /\ inbox[x] # <<>> /\ Head(inbox[x]).type = "signal"
    /\ inbox' = [inbox EXCEPT ![x] = Tail(@)]
    /\ faults' = faults + 1
    /\ UNCHANGED <<room, page, keyAt, peer, deferred, joins, missed>>

-----------------------------------------------------------------------------
(* The operations of the peer connection, in the order they were asked for, *)
(* each with what runs when it settles                                      *)

Settles(x, op) == Alive(x) /\ peer[x].ops # <<>> /\ Head(peer[x].ops).do = op
Given(x) == Head(peer[x].ops).sdp
Then(x) == Head(peer[x].ops).then
Rest(x) == [peer[x] EXCEPT !.ops = Tail(@)]
Becomes(x, p) ==
    /\ peer' = [peer EXCEPT ![x] = p]
    /\ UNCHANGED <<room, page, keyAt, deferred, counts, missed>>

\* The server forwards a signal if both are in the room.
Sent(x, kind, sdp) ==
    inbox' = IF Members \subseteq room
             THEN [inbox EXCEPT ![Other(x)] = Append(@, Signal(kind, sdp))] ELSE inbox

\* New credentials: a number that no description in use has.
InUse ==
    (UNION {{m.sdp.cred : m \in {k \in Range(inbox[x]) : k.type = "signal"}}
              \cup {sdp.cred : sdp \in Range(deferred[x])} : x \in Members})
    \cup (UNION {LET p == peer[x] IN
                  {p.now.mine.cred, p.now.theirs, p.local.cred, p.remote.cred} \cup p.restart
                    \cup {op.sdp.cred : op \in Range(p.ops)} : x \in {y \in Members : Alive(y)}})
FreshCred == CHOOSE c \in 1..MaxCreds + 1 : c \notin InUse /\ \A d \in 1..c - 1 : d \in InUse

\* A description with l lines and s tracks is made, with the credentials in
\* force or, if there are none or they are not kept, with new ones.
Made(x, keep, l, s, op) ==
    LET c == CASE l = 0 -> 0
               [] l > 0 /\ keep /\ peer[x].now.mine.cred # 0 -> peer[x].now.mine.cred
               [] OTHER -> FreshCred IN
    /\ c <= MaxCreds
    /\ Becomes(x, Asked(Rest(x), DoWith(op, Sdp(c, l, s), "")))

\* createOffer: refused while a remote offer is pending.
CreateOffer(x) ==
    /\ Settles(x, "createOffer")
    /\ LET p == peer[x] IN
       IF p.sig = "remote" THEN Becomes(x, Offered(Rest(x)))
       ELSE Made(x, p.restart = {}, Greater(p.tracks, p.now.mine.lines), p.tracks, "setOffer")
    /\ UNCHANGED inbox

\* setLocalDescription(offer), then the offer is sent.  Refused while a remote
\* offer is pending, and when lines of the pair in force are missing.
SetOffer(x) ==
    /\ Settles(x, "setOffer")
    /\ IF peer[x].sig = "remote" \/ Given(x).lines < peer[x].now.mine.lines
       THEN Becomes(x, Offered(Rest(x))) /\ UNCHANGED inbox
       ELSE /\ Becomes(x, Offered([Rest(x) EXCEPT !.sig = "local", !.local = Given(x)]))
            /\ Sent(x, "offer", Given(x))


\* setRemoteDescription(offer), which undoes a local offer, then createAnswer.
\* Refused when lines of the pair in force are missing.
SetRemoteOffer(x) ==
    /\ Settles(x, "remoteOffer")
    /\ LET p == [Rest(x) EXCEPT !.sig = "remote", !.local = NoSdp, !.remote = Given(x)] IN
       Becomes(x, IF Given(x).lines < p.now.mine.lines THEN Rest(x) ELSE Asked(p, Do("createAnswer")))
    /\ UNCHANGED inbox

CreateAnswer(x) ==
    /\ Settles(x, "createAnswer")
    /\ LET p == peer[x] IN
       IF p.sig = "remote"
       THEN Made(x, p.remote.cred = p.now.theirs, p.remote.lines, Lesser(p.tracks, p.remote.lines), "setAnswer")
       ELSE Becomes(x, Rest(x))
    /\ UNCHANGED inbox

\* setLocalDescription(answer), then the answer is sent.
SetAnswer(x) ==
    /\ Settles(x, "setAnswer")
    /\ IF peer[x].sig = "remote" /\ peer[x].remote.lines = Given(x).lines
       THEN Becomes(x, Settled(Rest(x), Pair(Given(x), peer[x].remote))) /\ Sent(x, "answer", Given(x))
       ELSE Becomes(x, Rest(x)) /\ UNCHANGED inbox


\* setRemoteDescription(answer).  The browser takes any answer that has the
\* lines of its offer.  When it fails: once more after a rollback, or a new
\* offer.
SetRemoteAnswer(x) ==
    /\ Settles(x, "remoteAnswer")
    /\ LET p == peer[x] IN
       Becomes(x, CASE p.sig = "local" /\ p.local.lines = Given(x).lines -> Settled(Rest(x), Pair(p.local, Given(x)))
                    [] p.sig = "local" /\ p.local.lines # Given(x).lines /\ Then(x) = "retry"
                        -> Asked(Rest(x), DoWith("rollback", Given(x), "answer"))
                    [] OTHER -> Renegotiate(Rest(x)))
    /\ UNCHANGED inbox

\* setLocalDescription(rollback), refused when stable.
Rollback(x) ==
    /\ Settles(x, "rollback")
    /\ LET done == ~Stable(peer[x])
           p == IF done THEN RolledBack(Rest(x)) ELSE Rest(x) IN
       Becomes(x, CASE Then(x) = "accept" -> IF done THEN Asked(p, DoWith("remoteOffer", Given(x), "")) ELSE p
                    [] Then(x) = "answer" -> IF done THEN Asked(p, DoWith("remoteAnswer", Given(x), "")) ELSE Renegotiate(p)
                    [] Then(x) = "nudge" -> Renegotiate(p))
    /\ UNCHANGED inbox

\* The browser fires negotiationneeded, once until the state settles again.
NegotiationNeeded(x) ==
    /\ Alive(x)
    /\ LET p == peer[x] IN
       /\ Stable(p) /\ p.ops = <<>> /\ Needs(p) /\ ~p.fired
       /\ Becomes(x, Renegotiate([p EXCEPT !.fired = TRUE]))
    /\ UNCHANGED inbox

\* onconnectionstatechange: "connected" (to begin with, or again), and
\* "failed" or "disconnected" when the network is interrupted: restartIce.
Connect(x) ==
    /\ Matched /\ peer[x].conn # "connected"
    /\ Becomes(x, [peer[x] EXCEPT !.conn = "connected"])
    /\ UNCHANGED inbox

\* Mutant: no restart.
BrokenIdle(p) == [p EXCEPT !.conn = "failed"]
Broken(p) == RestartIce([p EXCEPT !.conn = "failed"])
Interrupt(x) ==
    /\ Alive(x) /\ peer[x].conn = "connected" /\ faults < MaxFaults
    /\ faults' = faults + 1
    /\ peer' = [peer EXCEPT ![x] = Broken(@)]
    /\ UNCHANGED <<room, inbox, page, keyAt, deferred, joins, missed>>

-----------------------------------------------------------------------------
(* Timers *)

TimerStep(x, p) ==
    /\ Timer
    /\ peer' = [peer EXCEPT ![x] = p]
    /\ UNCHANGED <<room, inbox, page, keyAt, deferred, joins, missed>>

\* watchPeer, on a connection that is not established: a stale offer is
\* rolled back before the next one.  Mutant: it is not.
Restarted(p) == Renegotiate(RestartIce(p))
NudgedBare(p) == Restarted(p)
Nudged(p) ==
    IF p.sig = "local" THEN Asked(p, DoWith("rollback", NoSdp, "nudge")) ELSE Restarted(p)
WatchPeer(x) ==
    /\ Alive(x) /\ peer[x].watch
    /\ IF peer[x].conn = "new" THEN TimerStep(x, Nudged(peer[x]))
       ELSE Becomes(x, [peer[x] EXCEPT !.watch = FALSE]) /\ UNCHANGED inbox

\* Also "failed" or "disconnected", when the other end cannot be reached.
Disconnect(x) ==
    /\ Alive(x) /\ peer[x].now.theirs # 0 /\ ~Matched
    /\ peer[x].conn = "connected" \/ (peer[x].conn = "new" /\ ~peer[x].watch)
    /\ TimerStep(x, Broken(peer[x]))

\* The stuck-peer safety net, once, 4 seconds after createPeer.
SafetyNet(x) ==
    /\ Alive(x) /\ peer[x].net /\ x = Impolite
    /\ LET p == [peer[x] EXCEPT !.net = FALSE] IN
       TimerStep(x, IF ~p.now.set /\ p.sig # "remote" /\ p.conn = "new" THEN Renegotiate(p) ELSE p)

\* The video watchdog: a camera that is on and was never encoded, or a medium
\* that was negotiated and of which nothing is received.  It does nothing while
\* an offer is pending.  Nor does it while the tab is hidden, when it is turned
\* off, when the other one is muted or this end deafened, and for a feed that
\* the user has not loaded: it may act, and no progress rests on it.  Which of
\* the tracks are video is left open.
Starved(x) ==
    \/ tracks[x] > 0 /\ (peer[x].now.mine.sent < tracks[x] \/ peer[x].conn = "new")
    \/ peer[x].now.theirs # 0 /\ peer[x].conn # "connected"
VideoWatchdog(x) ==
    /\ Alive(x) /\ Starved(x)
    /\ Stable(peer[x])
    /\ TimerStep(x, Renegotiate(peer[x]))

-----------------------------------------------------------------------------
Page(x) ==
    \/ KeyArrives(x) \/ AddTrack(x)
    \/ HandleJoined(x) \/ HandleMembers(x) \/ OpenPeer(x)
    \/ HandleSignal(x) \/ HandleDeferred(x)
Browser(x) ==
    \/ CreateOffer(x) \/ SetOffer(x) \/ SetRemoteOffer(x) \/ CreateAnswer(x)
    \/ SetAnswer(x) \/ SetRemoteAnswer(x) \/ Rollback(x)
    \/ NegotiationNeeded(x) \/ Connect(x)
Timers(x) == WatchPeer(x) \/ Disconnect(x) \/ SafetyNet(x) \/ VideoWatchdog(x)
Next ==
    \E x \in Members :
        \/ Join(x) \/ Leave(x) \/ Lose(x) \/ Interrupt(x)
        \/ Page(x) \/ Browser(x) \/ Timers(x)

Spec == Init /\ [][Next]_vars

\* Messages are handled, operations settle and timers fire.  Nobody has to
\* join, to leave, to add a track or to be given the key, and the video watchdog
\* may be off.
Fairness ==
    \A x \in Members :
        /\ WF_vars(HandleJoined(x) \/ HandleMembers(x) \/ HandleSignal(x))
        /\ WF_vars(OpenPeer(x)) /\ WF_vars(HandleDeferred(x))
        /\ WF_vars(Browser(x))
        /\ SF_vars(WatchPeer(x)) /\ SF_vars(Disconnect(x))
        /\ WF_vars(SafetyNet(x))
FairSpec == Spec /\ Fairness

-----------------------------------------------------------------------------
(* Properties *)

Sdps == [cred : 0..MaxCreds, lines : 0..MaxTracks, sent : 0..MaxTracks]
Ops == [do : {"createOffer", "setOffer", "remoteOffer", "createAnswer", "setAnswer",
              "remoteAnswer", "rollback"},
        sdp : Sdps, then : {"", "accept", "answer", "nudge", "retry"}]
Peers ==
    [sig : {"stable", "local", "remote"}, local : Sdps, remote : Sdps,
     now : [set : BOOLEAN, mine : Sdps, theirs : 0..MaxCreds],
     ops : Seq(Ops), making : BOOLEAN, queued : BOOLEAN, fired : BOOLEAN,
     restart : SUBSET (1..MaxCreds), tracks : 0..MaxTracks, conn : {"new", "connected", "failed"},
     watch : BOOLEAN, net : BOOLEAN]
Messages ==
    [type : {"joined", "members"}, there : BOOLEAN]
      \cup [type : {"signal"}, kind : {"offer", "answer"}, sdp : Sdps]

\* The variables have their types.
TypeOK ==
    /\ room \subseteq Members
    /\ inbox \in [Members -> Seq(Messages)]
    /\ {connected, sees, keyAt, roomKey, waiting, opening} \subseteq [Members -> BOOLEAN]
    /\ tracks \in [Members -> 0..MaxTracks]
    /\ peer \in [Members -> Peers \cup {None}]
    /\ deferred \in [Members -> Seq(Sdps)]
    /\ faults \in 0..MaxFaults /\ joins \in 0..MaxJoins
    /\ missed \subseteq Members

\* No peer connection is open without the room key (what schedulePeerCreation
\* and handleSignal are to guarantee: its media could not be decrypted).
NoKeylessPeer == \A x \in Members : Alive(x) => roomKey[x]

\* Glare resolution: when nothing is under way and both ends are stable, they
\* hold the same pair, unless watchPeer or the browser's detection of a dead
\* connection is going to do it again.  Of one edge with few faults: after more
\* of them both ends may have failed (FailedRepaired).
OnePair ==
    Quiet /\ (\A x \in Members : Alive(x) /\ Stable(peer[x])) =>
        \/ \A x \in Members : Reaches(x)
        \/ \E x \in Members :
              \/ peer[x].conn = "new" /\ peer[x].watch
              \/ peer[x].conn # "failed" /\ peer[x].now.theirs # 0

\* A page does not give up on a connection before it has failed: when nothing
\* is under way and its end is stable but the two do not match, watchPeer is
\* going to negotiate again, or the browser is going to report the transport
\* that cannot reach the other end (which restarts ICE), whatever was lost or
\* crossed before.
Repairs(x) ==
    \/ peer[x].conn = "new" /\ peer[x].watch
    \/ peer[x].now.theirs # 0
NeverGivenUp ==
    \A x \in Members :
        Quiet /\ ~Matched /\ Alive(x) /\ Stable(peer[x]) /\ peer[x].conn # "failed" => Repairs(x)

\* The same of a connection that has failed: nothing but the video watchdog is
\* left then, and it may be off.
FailedRepaired ==
    \A x \in Members : Quiet /\ ~Matched /\ Alive(x) /\ Stable(peer[x]) => peer[x].conn # "failed"

InCall == Members \subseteq room /\ (\A x \in Members : roomKey[x]) /\ (\E x \in Members : tracks[x] > 0)

\* Two members in the call, with the key and something to send, whose peer
\* connections are still to be opened or are being negotiated for the first
\* time, are connected in the end, whichever signals are lost (watchPeer),
\* unless one of them leaves.
Watched(x) == ~Alive(x) \/ (peer[x].conn = "new" /\ peer[x].watch)
EdgeConnects == (InCall /\ \A x \in Members : Watched(x)) ~> (Matched \/ ~InCall)

\* A track that is added is negotiated in the end.
TracksArrive ==
    \A x \in Members : <>[]InCall => <>[](Alive(x) /\ peer[x].now.mine.sent = tracks[x])

\* A page has a peer connection only for who is in its member list.
PeersAreMembers == \A x \in Members : connected[x] /\ Alive(x) => sees[x]

\* queuePendingSignal: "signals that arrived before the room key was
\* derivable" are held and replayed, none is thrown away.
SignalsHeld == missed = {}

=============================================================================
