--------------------------- MODULE CallEdgeProofs ---------------------------
(***************************************************************************)
(* Proofs about CallEdge, for any number of tracks, credentials, faults    *)
(* and joins.                                                              *)
(*                                                                         *)
(* That no peer connection is open without the room key is inductive only  *)
(* with what the device keeps: a page that joins again derives the room    *)
(* key anew from the server key of the device, and an old peer connection  *)
(* is still there if the answer to the joining or the key comes late.      *)
(*                                                                         *)
(* That a page never gives up on a connection that does not match rests on *)
(* what an end holds: it has had no credentials of the other one only as   *)
(* long as its first watch runs, and what it once had it never loses,      *)
(* because a description always has the lines of the pair in force.        *)
(***************************************************************************)
EXTENDS CallEdge, FiniteSetTheorems, WellFoundedInduction, TLAPS

IInv ==
    /\ roomKey \in [Members -> BOOLEAN] /\ keyAt \in [Members -> BOOLEAN]
    /\ DOMAIN peer = Members
    /\ NoKeylessPeer
    /\ \A x \in Members : roomKey[x] => keyAt[x]

-----------------------------------------------------------------------------
(* Steps that leave the keys alone *)

\* Peers are opened with the key at hand or kept, and keys stay.
LEMMA PeersKept ==
    ASSUME IInv, roomKey' = roomKey, keyAt' = keyAt, DOMAIN peer' = Members,
           \A x \in Members : Alive(x)' => Alive(x) \/ roomKey[x]
    PROVE  IInv'
  BY DEF IInv, NoKeylessPeer

\* Only the peer of one member is replaced.
LEMMA PeerReplaced ==
    ASSUME IInv, roomKey' = roomKey, keyAt' = keyAt, NEW x \in Members, Alive(x) \/ roomKey[x],
           NEW p, peer' = [peer EXCEPT ![x] = p]
    PROVE  IInv'
  BY PeersKept DEF Alive, IInv

\* A change of an open peer connection needs no key: it was there before.
LEMMA PeerBecomes ==
    ASSUME IInv, NEW x \in Members, Alive(x), NEW p, Becomes(x, p)
    PROVE  IInv'
  BY PeerReplaced DEF Becomes, page

\* The operations of the peer connection: each is on a peer that is there.
LEMMA BrowserStep ==
    ASSUME IInv, NEW x \in Members, Browser(x)
    PROVE  IInv'
<1>1. ASSUME NEW p, Becomes(x, p), Alive(x) PROVE IInv'
  BY <1>1, PeerBecomes
<1>2. CASE CreateOffer(x) \/ CreateAnswer(x)
  <2>1. Alive(x) /\ \E p : Becomes(x, p)
    BY <1>2, Zenon DEF CreateOffer, CreateAnswer, Settles, Made
  <2> QED
    BY <1>1, <2>1
<1>3. CASE SetOffer(x) \/ SetRemoteOffer(x) \/ SetAnswer(x)
  <2>1. Alive(x) /\ \E p : Becomes(x, p)
    BY <1>3, Zenon DEF SetOffer, SetRemoteOffer, SetAnswer, Settles
  <2> QED
    BY <1>1, <2>1
<1>4. CASE SetRemoteAnswer(x) \/ Rollback(x)
  <2>1. Alive(x) /\ \E p : Becomes(x, p)
    BY <1>4, Zenon DEF SetRemoteAnswer, Rollback, Settles
  <2> QED
    BY <1>1, <2>1
<1>5. CASE NegotiationNeeded(x) \/ Connect(x)
  <2>1. Alive(x) /\ \E p : Becomes(x, p)
    BY <1>5, Zenon DEF NegotiationNeeded, Connect, Matched
  <2> QED
    BY <1>1, <2>1
<1> QED
  BY <1>2, <1>3, <1>4, <1>5 DEF Browser

\* Timers, connections that break and steps of the browser.
LEMMA TimersStep ==
    ASSUME IInv, NEW x \in Members, Timers(x) \/ Interrupt(x)
    PROVE  IInv'
<1>1. Alive(x)
  BY DEF Timers, WatchPeer, Disconnect, SafetyNet, VideoWatchdog, Interrupt
<1>2. \E p : peer' = [peer EXCEPT ![x] = p]
  BY Zenon DEF Timers, WatchPeer, Disconnect, SafetyNet, VideoWatchdog, Interrupt,
     TimerStep, Becomes
<1>3. roomKey' = roomKey /\ keyAt' = keyAt
  BY DEF Timers, WatchPeer, Disconnect, SafetyNet, VideoWatchdog, Interrupt, TimerStep,
     Becomes, page
<1> QED
  BY <1>1, <1>2, <1>3, PeerReplaced

-----------------------------------------------------------------------------
(* What the page does *)

\* A page makes a peer connection only with the room key.
LEMMA PageStepInv ==
    ASSUME IInv, NEW x \in Members, Page(x)
    PROVE  IInv'
<1>0. roomKey \in [Members -> BOOLEAN] /\ keyAt \in [Members -> BOOLEAN]
      /\ DOMAIN peer = Members
      /\ (\A y \in Members : Alive(y) => roomKey[y] /\ keyAt[y])
      /\ \A y \in Members : roomKey[y] => keyAt[y]
  BY DEF IInv, NoKeylessPeer
<1>1. CASE KeyArrives(x)
  <2>1. /\ ~keyAt[x] /\ keyAt' = [keyAt EXCEPT ![x] = TRUE] /\ peer' = peer
        /\ roomKey' = [roomKey EXCEPT ![x] = x \in room]
    BY <1>1 DEF KeyArrives
  <2>2. (x \in room) \in BOOLEAN
    OBVIOUS
  <2>3. PICK b \in BOOLEAN : b = (x \in room)
    BY <2>2, Zenon
  <2>4. roomKey' = [roomKey EXCEPT ![x] = b]
    BY <2>1, <2>3, Zenon
  <2>5. \A y \in Members : Alive(y)' => y # x /\ roomKey[y]
    BY <1>0, <2>1 DEF Alive
  <2> QED
    BY <1>0, <2>1, <2>4, <2>5 DEF IInv, NoKeylessPeer
<1>2. CASE HandleJoined(x)
  <2>1. /\ keyAt' = keyAt /\ peer' = peer
        /\ roomKey' = [roomKey EXCEPT ![x] = keyAt[x]]
    BY <1>2 DEF HandleJoined
  <2> QED
    BY <1>0, <2>1 DEF IInv, NoKeylessPeer, Alive
<1>3. CASE HandleMembers(x)
  <2>1. /\ roomKey' = roomKey /\ keyAt' = keyAt
        /\ peer' = peer \/ peer' = [peer EXCEPT ![x] = None]
    BY <1>3 DEF HandleMembers
  <2> QED
    BY <1>0, <2>1, PeersKept DEF Alive
<1>4. CASE OpenPeer(x)
  BY <1>0, <1>4, PeersKept DEF OpenPeer, Alive
<1>5. CASE AddTrack(x)
  BY <1>0, <1>5, PeersKept DEF AddTrack, Alive
<1>6. CASE HandleSignal(x)
  <2>1. roomKey' = roomKey /\ keyAt' = keyAt
    BY <1>6 DEF HandleSignal, page
  <2>2. peer' = peer \/ (roomKey[x] /\ \E p : peer' = [peer EXCEPT ![x] = p])
    BY <1>6, Zenon DEF HandleSignal
  <2> QED
    BY <1>0, <2>1, <2>2, PeersKept, PeerReplaced DEF Alive
<1>7. CASE HandleDeferred(x)
  <2>1. roomKey' = roomKey /\ keyAt' = keyAt
    BY <1>7 DEF HandleDeferred, page
  <2>2. peer' = peer \/ (Alive(x) /\ \E p : peer' = [peer EXCEPT ![x] = p])
    BY <1>7, Zenon DEF HandleDeferred
  <2> QED
    BY <1>0, <2>1, <2>2, PeersKept, PeerReplaced DEF Alive
<1> QED
  BY <1>1, <1>2, <1>3, <1>4, <1>5, <1>6, <1>7 DEF Page

\* Joining derives the room key from the key of the device.
LEMMA RoomStep ==
    ASSUME IInv, NEW x \in Members, Join(x) \/ Leave(x) \/ Lose(x)
    PROVE  IInv'
<1>0. roomKey \in [Members -> BOOLEAN] /\ keyAt \in [Members -> BOOLEAN]
      /\ DOMAIN peer = Members
      /\ (\A y \in Members : Alive(y) => roomKey[y] /\ keyAt[y])
      /\ \A y \in Members : roomKey[y] => keyAt[y]
  BY DEF IInv, NoKeylessPeer
<1>1. CASE Join(x)
  BY <1>0, <1>1 DEF Join, IInv, NoKeylessPeer, Alive
<1>2. CASE Leave(x)
  <2>1. /\ keyAt' = keyAt /\ roomKey' = [roomKey EXCEPT ![x] = FALSE]
        /\ peer' = [peer EXCEPT ![x] = None]
    BY <1>2 DEF Leave
  <2>2. \A y \in Members : Alive(y)' => y # x /\ Alive(y)
    BY <1>0, <2>1 DEF Alive
  <2> QED
    BY <1>0, <2>1, <2>2 DEF IInv, NoKeylessPeer
<1>3. CASE Lose(x)
  BY <1>0, <1>3, PeersKept DEF Lose, page, Alive
<1> QED
  BY <1>1, <1>2, <1>3

-----------------------------------------------------------------------------
(* The theorem *)

\* The inductive invariant holds.
THEOREM Invariance == Spec => []IInv
<1>1. ASSUME Init PROVE IInv
  BY <1>1 DEF Init, IInv, NoKeylessPeer, Alive
<1>2. ASSUME IInv, [Next]_vars PROVE IInv'
  <2>1. CASE UNCHANGED vars
    <3>1. roomKey' = roomKey /\ keyAt' = keyAt /\ peer' = peer
      BY <2>1 DEF vars, page
    <3> QED
      BY <1>2, <3>1, PeersKept DEF Alive, IInv
  <2>2. CASE Next
    BY <1>2, <2>2, RoomStep, PageStepInv, BrowserStep, TimersStep DEF Next
  <2> QED
    BY <1>2, <2>1, <2>2
<1> QED
  BY <1>1, <1>2, PTL DEF Spec

\* No peer connection is open without the room key, whenever the key arrives,
\* the page joins again or a signal comes before its peer.
THEOREM KeylessCorrect == Spec => []NoKeylessPeer
<1>1. IInv => NoKeylessPeer
  BY DEF IInv
<1> QED
  BY <1>1, Invariance, PTL

-----------------------------------------------------------------------------
(* What an end holds *)

\* A description has credentials exactly if it has media lines.
WholeSdps == {s \in Sdps : s.cred = 0 <=> s.lines = 0}
WholeOps ==
    [do : {"createOffer", "setOffer", "remoteOffer", "createAnswer", "setAnswer", "remoteAnswer"},
     sdp : WholeSdps, then : {"", "accept", "answer", "nudge", "retry"}]
      \cup [do : {"rollback"}, sdp : WholeSdps, then : {"accept", "answer", "nudge"}]
WholeMessages ==
    [type : {"joined", "members"}, there : BOOLEAN]
      \cup [type : {"signal"}, kind : {"offer", "answer"}, sdp : WholeSdps]
WholePairs ==
    {w \in [set : BOOLEAN, mine : WholeSdps, theirs : 0..MaxCreds] :
        w.theirs = 0 <=> w.mine.lines = 0}
WholePeers ==
    [sig : {"stable", "local", "remote"}, local : WholeSdps, remote : WholeSdps,
     now : WholePairs,
     ops : Seq(WholeOps), making : BOOLEAN, queued : BOOLEAN, fired : BOOLEAN,
     restart : SUBSET (1..MaxCreds), tracks : 0..MaxTracks, conn : {"new", "connected", "failed"},
     watch : BOOLEAN, net : BOOLEAN]

\* A pending description has no fewer lines than the pair in force, and an end
\* without credentials of the other one is still being watched.
Held(p) ==
    /\ p.sig = "local" => p.local.lines >= p.now.mine.lines
    /\ p.sig = "remote" => p.remote.lines >= p.now.mine.lines
    /\ p.now.theirs # 0 \/ (p.conn = "new" /\ p.watch)
EndOK(p) == p \in WholePeers /\ Held(p)

\* The same of everything the page, the relay and the browser keep.
Switches == [Members -> BOOLEAN]
PageOK ==
    /\ connected \in Switches /\ sees \in Switches /\ keyAt \in Switches
    /\ roomKey \in Switches /\ waiting \in Switches /\ opening \in Switches
    /\ tracks \in [Members -> 0..MaxTracks]
CountsOK == faults \in 0..MaxFaults /\ joins \in 0..MaxJoins
PeersOK == peer = [x \in Members |-> peer[x]] /\ \A x \in Members : Alive(x) => EndOK(peer[x])
QueuesOK ==
    /\ inbox \in [Members -> Seq(WholeMessages)]
    /\ deferred \in [Members -> Seq(WholeSdps)]
EInv ==
    /\ room \subseteq Members /\ missed \subseteq Members
    /\ PageOK /\ CountsOK /\ PeersOK /\ QueuesOK

\* The other member.
LEMMA OtherMember ==
    ASSUME NEW x \in Members
    PROVE  Other(x) \in Members /\ Other(x) # x
  BY MemberAssumption DEF Members, Other

\* Sequences: what is taken from one and what is added.
LEMMA Taken ==
    ASSUME NEW S, NEW s \in Seq(S), s # <<>>
    PROVE  Head(s) \in S /\ Tail(s) \in Seq(S)
  OBVIOUS

LEMMA Added ==
    ASSUME NEW S, NEW s \in Seq(S), NEW e \in S
    PROVE  Append(s, e) \in Seq(S)
  OBVIOUS

\* The empty description and what the operators build.
LEMMA Descriptions ==
    /\ NoSdp \in WholeSdps /\ NoPair \in WholePairs /\ NoPair.theirs = 0 /\ NoPair.mine.lines = 0
    /\ \A what \in {"createOffer", "createAnswer"} : Do(what) \in WholeOps
<1> USE BoundAssumption
<1>1. NoSdp \in WholeSdps /\ NoSdp.lines = 0
  BY DEF NoSdp, Sdp, WholeSdps, Sdps
<1>2. NoPair \in WholePairs /\ NoPair.theirs = 0 /\ NoPair.mine.lines = 0
  BY <1>1 DEF NoPair, WholePairs
<1>3. \A what \in {"createOffer", "createAnswer"} : Do(what) \in WholeOps
  BY <1>1 DEF Do, WholeOps
<1> QED
  BY <1>1, <1>2, <1>3

LEMMA Operations ==
    ASSUME NEW what \in {"setOffer", "remoteOffer", "setAnswer", "remoteAnswer", "rollback"},
           NEW sdp \in WholeSdps, NEW then \in {"", "accept", "answer", "nudge", "retry"},
           what = "rollback" => then \in {"accept", "answer", "nudge"}
    PROVE  DoWith(what, sdp, then) \in WholeOps
  BY DEF DoWith, WholeOps

\* Lines of whole descriptions are numbers.
LEMMA LinesCompare ==
    ASSUME NEW p, EndOK(p), NEW sdp \in WholeSdps
    PROVE  /\ sdp.lines \in Nat /\ p.now.mine.lines \in Nat
           /\ ~(sdp.lines < p.now.mine.lines) => sdp.lines >= p.now.mine.lines
<1>1. p.now.mine \in WholeSdps
  BY DEF EndOK, WholePeers, WholePairs
<1>2. sdp.lines \in Nat /\ p.now.mine.lines \in Nat
  BY <1>1, BoundAssumption DEF WholeSdps, Sdps
<1> QED
  BY <1>2

\* An end stays good when operations are asked for, when it negotiates, rolls
\* back, restarts or breaks, and a new one is good.
LEMMA AskedOK ==
    ASSUME NEW p, EndOK(p), NEW op \in WholeOps
    PROVE  EndOK(Asked(p, op))
<1>1. Append(p.ops, op) \in Seq(WholeOps)
  BY Added DEF EndOK, WholePeers
<1> QED
  BY <1>1 DEF EndOK, Held, Asked, WholePeers

LEMMA RenegotiateOK ==
    ASSUME NEW p, EndOK(p)
    PROVE  EndOK(Renegotiate(p))
<1>1. EndOK([p EXCEPT !.queued = TRUE])
  BY DEF EndOK, Held, WholePeers
<1>2. EndOK([p EXCEPT !.making = TRUE, !.queued = FALSE])
  BY DEF EndOK, Held, WholePeers
<1>3. EndOK(Negotiated(p))
  BY <1>2, AskedOK, Descriptions DEF Negotiated
<1> QED
  BY <1>1, <1>3 DEF Renegotiate

LEMMA OfferedOK ==
    ASSUME NEW p, EndOK(p)
    PROVE  EndOK(Offered(p))
<1>1. EndOK([p EXCEPT !.making = FALSE])
  BY DEF EndOK, Held, WholePeers
<1> QED
  BY <1>1, RenegotiateOK DEF Offered

LEMMA RolledBackOK ==
    ASSUME NEW p, EndOK(p)
    PROVE  EndOK(RolledBack(p))
  BY Descriptions DEF RolledBack, EndOK, Held, WholePeers

LEMMA RestartOK ==
    ASSUME NEW p, EndOK(p)
    PROVE  EndOK(RestartIce(p))
<1>1. {p.now.mine.cred, p.local.cred} \ {0} \in SUBSET (1..MaxCreds)
  <2>1. p.now.mine \in WholeSdps /\ p.local \in WholeSdps
    BY DEF EndOK, WholePeers, WholePairs
  <2>2. p.now.mine.cred \in 0..MaxCreds /\ p.local.cred \in 0..MaxCreds
    BY <2>1 DEF WholeSdps, Sdps
  <2> QED
    BY <2>2, BoundAssumption
<1> QED
  BY <1>1 DEF RestartIce, EndOK, Held, WholePeers

LEMMA NewPeerOK ==
    ASSUME NEW n \in 0..MaxTracks
    PROVE  EndOK(NewPeer(n))
  BY Descriptions, BoundAssumption DEF NewPeer, EndOK, Held, WholePeers

\* A pair that comes into force has no fewer lines than the one before, so
\* that credentials of the other one are not lost again.
LEMMA SettledOK ==
    ASSUME NEW p, EndOK(p), NEW own \in WholeSdps, NEW other \in WholeSdps,
           own.lines = other.lines, own.lines >= p.now.mine.lines
    PROVE  EndOK(Settled(p, Pair(own, other)))
<1> DEFINE w == Pair(own, other)
           q == Settled(p, w)
<1>1. w \in WholePairs /\ w.theirs = other.cred /\ w.mine = own
  BY DEF Pair, WholePairs, WholeSdps, Sdps
<1>2. p.now.theirs # 0 => w.theirs # 0
  <2>1. p.now \in WholePairs
    BY DEF EndOK, WholePeers
  <2>2. /\ p.now.theirs = 0 <=> p.now.mine.lines = 0
        /\ p.now.mine.lines \in Nat /\ own.lines \in Nat
        /\ other.cred = 0 <=> other.lines = 0
    BY <2>1, BoundAssumption DEF WholePairs, WholeSdps, Sdps
  <2> QED
    BY <1>1, <2>2
<1>3. (IF w.mine.cred \in p.restart THEN p.restart ELSE {}) \in SUBSET (1..MaxCreds)
  BY DEF EndOK, WholePeers
<1>4. (IF p.conn = "failed" /\ w.theirs # p.now.theirs THEN "new" ELSE p.conn)
         \in {"new", "connected", "failed"}
  BY DEF EndOK, WholePeers
<1>5. q \in WholePeers
  BY <1>1, <1>3, <1>4, Descriptions DEF Settled, EndOK, WholePeers
<1>6. q.sig = "stable" /\ q.now = w /\ q.watch = p.watch /\ (p.conn = "new" => q.conn = "new")
  BY DEF Settled, EndOK, WholePeers
<1> QED
  BY <1>2, <1>5, <1>6 DEF EndOK, Held

-----------------------------------------------------------------------------
(* New credentials *)

\* Every set of numbers has a least one.
LEMMA LeastNumber ==
    ASSUME NEW T \in SUBSET Nat, T # {}
    PROVE  \E n \in T : \A m \in T : ~(m < n)
<1>1. IsWellFoundedOn(OpToRel(<, Nat), Nat)
  BY NatLessThanWellFounded
<1>2. PICK n \in T : \A m \in T : <<m, n>> \notin OpToRel(<, Nat)
  BY <1>1, WFMin
<1>3. \A m \in T : <<m, n>> \in {ss \in Nat \X Nat : ss[1] < ss[2]} \/ ~(m < n)
  OBVIOUS
<1> QED
  BY <1>2, <1>3 DEF OpToRel

\* Credentials in use are within the bound, so that there are others.
LEMMA InUseBounded ==
    ASSUME EInv
    PROVE  InUse \subseteq 0..MaxCreds
<1>1. SUFFICES ASSUME NEW c \in InUse PROVE c \in 0..MaxCreds
  OBVIOUS
<1>2. CASE \E x \in Members : c \in {m.sdp.cred : m \in {k \in Range(inbox[x]) : k.type = "signal"}}
  <2>1. PICK x \in Members : \E m \in Range(inbox[x]) : m.type = "signal" /\ c = m.sdp.cred
    BY <1>2
  <2>3. PICK m \in Range(inbox[x]) : m.type = "signal" /\ c = m.sdp.cred
    BY <2>1
  <2>2. m \in WholeMessages
    BY <2>3 DEF EInv, QueuesOK, Range
  <2> QED
    BY <2>3, <2>2 DEF WholeMessages, WholeSdps, Sdps
<1>3. CASE \E x \in Members : c \in {sdp.cred : sdp \in Range(deferred[x])}
  <2>1. PICK x \in Members : \E m \in Range(deferred[x]) : c = m.cred
    BY <1>3
  <2>3. PICK m \in Range(deferred[x]) : c = m.cred
    BY <2>1
  <2>2. m \in WholeSdps
    BY <2>3 DEF EInv, QueuesOK, Range
  <2> QED
    BY <2>3, <2>2 DEF WholeSdps, Sdps
<1>4. CASE \E x \in Members : Alive(x) /\ c \in
              {peer[x].now.mine.cred, peer[x].now.theirs, peer[x].local.cred, peer[x].remote.cred}
                \cup peer[x].restart \cup {op.sdp.cred : op \in Range(peer[x].ops)}
  <2>1. PICK x \in Members : Alive(x) /\ c \in
              {peer[x].now.mine.cred, peer[x].now.theirs, peer[x].local.cred, peer[x].remote.cred}
                \cup peer[x].restart \cup {op.sdp.cred : op \in Range(peer[x].ops)}
    BY <1>4
  <2>2. peer[x] \in WholePeers
    BY <2>1 DEF EInv, PeersOK, EndOK
  <2>3. CASE c \in {op.sdp.cred : op \in Range(peer[x].ops)}
    <3>1. PICK op \in Range(peer[x].ops) : c = op.sdp.cred
      BY <2>3
    <3>2. op \in WholeOps
      BY <2>2, <3>1 DEF WholePeers, Range
    <3> QED
      BY <3>1, <3>2 DEF WholeOps, WholeSdps, Sdps
  <2>4. CASE c \in peer[x].restart
    BY <2>2, <2>4, BoundAssumption DEF WholePeers
  <2>5. CASE c \in {peer[x].now.mine.cred, peer[x].now.theirs, peer[x].local.cred, peer[x].remote.cred}
    BY <2>2, <2>5 DEF WholePeers, WholePairs, WholeSdps, Sdps
  <2> QED
    BY <2>1, <2>3, <2>4, <2>5
<1> QED
  <2> DEFINE A(x) == {m.sdp.cred : m \in {k \in Range(inbox[x]) : k.type = "signal"}}
                       \cup {sdp.cred : sdp \in Range(deferred[x])}
             B(x) == {peer[x].now.mine.cred, peer[x].now.theirs, peer[x].local.cred,
                      peer[x].remote.cred} \cup peer[x].restart
                       \cup {op.sdp.cred : op \in Range(peer[x].ops)}
  <2>1. InUse = (UNION {A(x) : x \in Members})
                   \cup (UNION {B(x) : x \in {y \in Members : Alive(y)}})
    BY DEF InUse
  <2>2. (\E x \in Members : c \in A(x)) \/ (\E x \in Members : Alive(x) /\ c \in B(x))
    <3> HIDE DEF A, B
    <3> QED
      BY <2>1
  <2> QED
    BY <1>2, <1>3, <1>4, <2>2

LEMMA FreshIsNew ==
    ASSUME EInv
    PROVE  FreshCred \in 1..MaxCreds + 1
<1> DEFINE Free == {c \in 1..MaxCreds + 1 : c \notin InUse}
<1>1. MaxCreds + 1 \in Free
  BY InUseBounded, BoundAssumption
<1>2. PICK c \in Free : \A d \in Free : ~(d < c)
  <2>1. Free \in SUBSET Nat /\ Free # {}
    BY <1>1, BoundAssumption
  <2> HIDE DEF Free
  <2> QED
    BY <2>1, LeastNumber
<1>3. c \in 1..MaxCreds + 1 /\ c \notin InUse /\ \A d \in 1..c - 1 : d \in InUse
  BY <1>2, BoundAssumption
<1> QED
  BY <1>3 DEF FreshCred

-----------------------------------------------------------------------------
(* Steps of the browser *)

\* Only one end is replaced, and at most a signal is sent to the other one.
LEMMA EndReplaced ==
    ASSUME EInv, NEW x \in Members, NEW p, EndOK(p), peer' = [peer EXCEPT ![x] = p]
    PROVE  PeersOK'
  BY DEF EInv, PeersOK, Alive

LEMMA SignalSent ==
    ASSUME EInv, NEW x \in Members, NEW sdp \in WholeSdps, NEW kind \in {"offer", "answer"},
           Sent(x, kind, sdp)
    PROVE  inbox' \in [Members -> Seq(WholeMessages)]
<1>1. Signal(kind, sdp) \in WholeMessages
  BY DEF Signal, WholeMessages
<1>2. Other(x) \in Members
  BY OtherMember
<1>3. inbox \in [Members -> Seq(WholeMessages)]
  BY DEF EInv, QueuesOK
<1>4. Append(inbox[Other(x)], Signal(kind, sdp)) \in Seq(WholeMessages)
  BY <1>1, <1>2, <1>3, Added
<1> QED
  BY <1>2, <1>3, <1>4 DEF Sent

LEMMA EndBecomes ==
    ASSUME EInv, NEW x \in Members, NEW p, EndOK(p), Becomes(x, p),
           inbox' \in [Members -> Seq(WholeMessages)]
    PROVE  EInv'
<1>1. PeersOK'
  BY EndReplaced DEF Becomes
<1> QED
  BY <1>1 DEF EInv, Becomes, page, counts, PageOK, CountsOK, QueuesOK

\* The operation that settles.
LEMMA SettlesOK ==
    ASSUME EInv, NEW x \in Members, NEW op, Settles(x, op)
    PROVE  /\ EndOK(peer[x]) /\ EndOK(Rest(x)) /\ Alive(x)
           /\ Head(peer[x].ops) \in WholeOps /\ Given(x) \in WholeSdps
           /\ Then(x) \in {"", "accept", "answer", "nudge", "retry"}
           /\ Rest(x).now = peer[x].now /\ Rest(x).local = peer[x].local
           /\ Rest(x).remote = peer[x].remote /\ Rest(x).sig = peer[x].sig
           /\ op = "rollback" => Then(x) \in {"accept", "answer", "nudge"}
<1>1. EndOK(peer[x]) /\ Alive(x) /\ peer[x].ops # <<>>
  BY DEF Settles, EInv, PeersOK
<1>2. peer[x].ops \in Seq(WholeOps)
  BY <1>1 DEF EndOK, WholePeers
<1>3. Head(peer[x].ops) \in WholeOps /\ Tail(peer[x].ops) \in Seq(WholeOps)
  BY <1>1, <1>2, Taken
<1>4. Rest(x) \in WholePeers /\ Rest(x).now = peer[x].now /\ Rest(x).local = peer[x].local
      /\ Rest(x).remote = peer[x].remote /\ Rest(x).sig = peer[x].sig
      /\ Rest(x).conn = peer[x].conn /\ Rest(x).watch = peer[x].watch
  BY <1>1, <1>3 DEF Rest, EndOK, WholePeers
<1>5. EndOK(Rest(x))
  BY <1>1, <1>4 DEF EndOK, Held
<1>6. Given(x) \in WholeSdps /\ Then(x) \in {"", "accept", "answer", "nudge", "retry"}
      /\ (op = "rollback" => Then(x) \in {"accept", "answer", "nudge"})
  BY <1>3 DEF Given, Then, WholeOps, Settles
<1> QED
  BY <1>1, <1>3, <1>4, <1>5, <1>6

\* A description is made whole.
LEMMA MadeOK ==
    ASSUME EInv, NEW x \in Members, NEW op0, Settles(x, op0),
           NEW keep \in BOOLEAN, NEW l \in 0..MaxTracks, NEW n \in 0..MaxTracks,
           NEW op \in {"setOffer", "setAnswer"},
           Made(x, keep, l, n, op), inbox' = inbox
    PROVE  EInv'
<1>1. PICK c : /\ c = (CASE l = 0 -> 0
                         [] l > 0 /\ keep /\ peer[x].now.mine.cred # 0 -> peer[x].now.mine.cred
                         [] OTHER -> FreshCred)
               /\ c <= MaxCreds
               /\ Becomes(x, Asked(Rest(x), DoWith(op, Sdp(c, l, n), "")))
  BY Zenon DEF Made
<1>2. FreshCred \in 1..MaxCreds + 1 /\ MaxCreds \in Nat /\ MaxTracks \in Nat
  BY FreshIsNew, BoundAssumption
<1>3. peer[x].now.mine.cred \in 0..MaxCreds
  BY SettlesOK DEF EndOK, WholePeers, WholePairs, WholeSdps, Sdps
<1>4. c \in 0..MaxCreds /\ (c = 0 <=> l = 0)
  <2>1. (l = 0 /\ ~(l > 0)) \/ (l # 0 /\ l > 0)
    BY BoundAssumption
  <2>2. c = (CASE l = 0 -> 0
               [] l > 0 /\ keep /\ peer[x].now.mine.cred # 0 -> peer[x].now.mine.cred
               [] OTHER -> FreshCred)
    BY <1>1
  <2>3. \/ l = 0 /\ c = 0
        \/ l # 0 /\ peer[x].now.mine.cred # 0 /\ c = peer[x].now.mine.cred
        \/ l # 0 /\ c = FreshCred
    BY <2>1, <2>2, Zenon
  <2>4. c <= MaxCreds
    BY <1>1
  <2> QED
    BY <1>2, <1>3, <2>3, <2>4
<1>5. Sdp(c, l, n) \in WholeSdps
  BY <1>4 DEF Sdp, WholeSdps, Sdps
<1>6. EndOK(Asked(Rest(x), DoWith(op, Sdp(c, l, n), "")))
  BY <1>5, SettlesOK, Operations, AskedOK
<1> QED
  BY <1>1, <1>6, EndBecomes DEF EInv, QueuesOK

\* Steps of the browser keep what an end holds.
LEMMA OfferMade ==
    ASSUME EInv, NEW x \in Members, CreateOffer(x)
    PROVE  EInv'
<1>1. EndOK(peer[x]) /\ EndOK(Rest(x)) /\ inbox' \in [Members -> Seq(WholeMessages)]
  BY SettlesOK DEF CreateOffer, EInv, QueuesOK
<1>2. CASE peer[x].sig = "remote"
  <2>1. Becomes(x, Offered(Rest(x)))
    BY <1>2 DEF CreateOffer
  <2> QED
    BY <1>1, <2>1, OfferedOK, EndBecomes
<1>3. CASE peer[x].sig # "remote"
  <2> DEFINE keep == peer[x].restart = {}
             l == Greater(peer[x].tracks, peer[x].now.mine.lines)
  <2>1. Made(x, keep, l, peer[x].tracks, "setOffer") /\ Settles(x, "createOffer") /\ inbox' = inbox
    BY <1>3 DEF CreateOffer
  <2>2. keep \in BOOLEAN
    OBVIOUS
  <2>3. l \in 0..MaxTracks /\ peer[x].tracks \in 0..MaxTracks
    BY <1>1 DEF Greater, EndOK, WholePeers, WholePairs, WholeSdps, Sdps
  <2> HIDE DEF keep, l
  <2> QED
    BY <2>1, <2>2, <2>3, MadeOK
<1> QED
  BY <1>2, <1>3

LEMMA AnswerMade ==
    ASSUME EInv, NEW x \in Members, CreateAnswer(x)
    PROVE  EInv'
<1>1. EndOK(peer[x]) /\ EndOK(Rest(x)) /\ inbox' \in [Members -> Seq(WholeMessages)]
  BY SettlesOK DEF CreateAnswer, EInv, QueuesOK
<1>2. CASE peer[x].sig # "remote"
  <2>1. Becomes(x, Rest(x))
    BY <1>2 DEF CreateAnswer
  <2> QED
    BY <1>1, <2>1, EndBecomes
<1>3. CASE peer[x].sig = "remote"
  <2> DEFINE keep == peer[x].remote.cred = peer[x].now.theirs
             l == peer[x].remote.lines
             n == Lesser(peer[x].tracks, peer[x].remote.lines)
  <2>1. Made(x, keep, l, n, "setAnswer") /\ Settles(x, "createAnswer") /\ inbox' = inbox
    BY <1>3 DEF CreateAnswer
  <2>2. keep \in BOOLEAN
    OBVIOUS
  <2>3. l \in 0..MaxTracks /\ n \in 0..MaxTracks
    BY <1>1 DEF Lesser, EndOK, WholePeers, WholeSdps, Sdps
  <2> HIDE DEF keep, l, n
  <2> QED
    BY <2>1, <2>2, <2>3, MadeOK
<1> QED
  BY <1>2, <1>3

LEMMA OfferSet ==
    ASSUME EInv, NEW x \in Members, SetOffer(x)
    PROVE  EInv'
<1>1. /\ EndOK(peer[x]) /\ EndOK(Rest(x)) /\ inbox \in [Members -> Seq(WholeMessages)]
      /\ Given(x) \in WholeSdps /\ Rest(x).now = peer[x].now
  BY SettlesOK DEF SetOffer, EInv, QueuesOK
<1>2. CASE peer[x].sig = "remote" \/ Given(x).lines < peer[x].now.mine.lines
  <2>1. Becomes(x, Offered(Rest(x))) /\ inbox' = inbox
    BY <1>2 DEF SetOffer
  <2> QED
    BY <1>1, <2>1, OfferedOK, EndBecomes
<1>3. CASE ~(peer[x].sig = "remote" \/ Given(x).lines < peer[x].now.mine.lines)
  <2> DEFINE q == [Rest(x) EXCEPT !.sig = "local", !.local = Given(x)]
  <2>1. Becomes(x, Offered(q)) /\ Sent(x, "offer", Given(x))
    BY <1>3 DEF SetOffer
  <2>2. Given(x).lines >= Rest(x).now.mine.lines
    BY <1>1, <1>3, LinesCompare
  <2>3. EndOK(q)
    BY <1>1, <2>2 DEF EndOK, Held, WholePeers
  <2> HIDE DEF q
  <2>4. inbox' \in [Members -> Seq(WholeMessages)]
    BY <1>1, <2>1, SignalSent
  <2> QED
    BY <2>1, <2>3, <2>4, OfferedOK, EndBecomes
<1> QED
  BY <1>2, <1>3

LEMMA RemoteOfferSet ==
    ASSUME EInv, NEW x \in Members, SetRemoteOffer(x)
    PROVE  EInv'
<1>1. /\ EndOK(peer[x]) /\ EndOK(Rest(x)) /\ inbox' \in [Members -> Seq(WholeMessages)]
      /\ Given(x) \in WholeSdps /\ Rest(x).now = peer[x].now
  BY SettlesOK DEF SetRemoteOffer, EInv, QueuesOK
<1> DEFINE q == [Rest(x) EXCEPT !.sig = "remote", !.local = NoSdp, !.remote = Given(x)]
<1>2. CASE Given(x).lines < q.now.mine.lines
  <2>1. Becomes(x, Rest(x))
    BY <1>2 DEF SetRemoteOffer
  <2> QED
    BY <1>1, <2>1, EndBecomes
<1>3. CASE ~(Given(x).lines < q.now.mine.lines)
  <2>1. Becomes(x, Asked(q, Do("createAnswer")))
    BY <1>3 DEF SetRemoteOffer
  <2>2. q.now = Rest(x).now
    BY <1>1 DEF EndOK, WholePeers
  <2>3. Given(x).lines >= Rest(x).now.mine.lines
    BY <1>1, <1>3, <2>2, LinesCompare
  <2>4. EndOK(q)
    BY <1>1, <2>3, Descriptions DEF EndOK, Held, WholePeers
  <2> HIDE DEF q
  <2> QED
    BY <1>1, <2>1, <2>4, AskedOK, Descriptions, EndBecomes
<1> QED
  BY <1>2, <1>3

LEMMA AnswerSet ==
    ASSUME EInv, NEW x \in Members, SetAnswer(x)
    PROVE  EInv'
<1>1. /\ EndOK(peer[x]) /\ EndOK(Rest(x)) /\ inbox \in [Members -> Seq(WholeMessages)]
      /\ Given(x) \in WholeSdps /\ Rest(x).now = peer[x].now
  BY SettlesOK DEF SetAnswer, EInv, QueuesOK
<1>2. CASE ~(peer[x].sig = "remote" /\ peer[x].remote.lines = Given(x).lines)
  <2>1. Becomes(x, Rest(x)) /\ inbox' = inbox
    BY <1>2 DEF SetAnswer
  <2> QED
    BY <1>1, <2>1, EndBecomes
<1>3. CASE peer[x].sig = "remote" /\ peer[x].remote.lines = Given(x).lines
  <2>1. Becomes(x, Settled(Rest(x), Pair(Given(x), peer[x].remote))) /\ Sent(x, "answer", Given(x))
    BY <1>3 DEF SetAnswer
  <2>2. peer[x].remote \in WholeSdps /\ Given(x).lines >= Rest(x).now.mine.lines
    BY <1>1, <1>3 DEF EndOK, Held, WholePeers
  <2>3. EndOK(Settled(Rest(x), Pair(Given(x), peer[x].remote)))
    BY <1>1, <1>3, <2>2, SettledOK
  <2>4. inbox' \in [Members -> Seq(WholeMessages)]
    BY <1>1, <2>1, SignalSent
  <2> QED
    BY <2>1, <2>3, <2>4, EndBecomes
<1> QED
  BY <1>2, <1>3

LEMMA RemoteAnswerSet ==
    ASSUME EInv, NEW x \in Members, SetRemoteAnswer(x)
    PROVE  EInv'
<1>1. /\ EndOK(peer[x]) /\ EndOK(Rest(x)) /\ inbox' \in [Members -> Seq(WholeMessages)]
      /\ Given(x) \in WholeSdps /\ Rest(x).now = peer[x].now
  BY SettlesOK DEF SetRemoteAnswer, EInv, QueuesOK
<1>2. CASE peer[x].sig = "local" /\ peer[x].local.lines = Given(x).lines
  <2>1. Becomes(x, Settled(Rest(x), Pair(peer[x].local, Given(x))))
    BY <1>2 DEF SetRemoteAnswer
  <2>2. peer[x].local \in WholeSdps /\ peer[x].local.lines >= Rest(x).now.mine.lines
    BY <1>1, <1>2 DEF EndOK, Held, WholePeers
  <2>3. EndOK(Settled(Rest(x), Pair(peer[x].local, Given(x))))
    BY <1>1, <1>2, <2>2, SettledOK
  <2> QED
    BY <1>1, <2>1, <2>3, EndBecomes
<1>3. CASE peer[x].sig = "local" /\ peer[x].local.lines # Given(x).lines /\ Then(x) = "retry"
  <2>1. Becomes(x, Asked(Rest(x), DoWith("rollback", Given(x), "answer")))
    BY <1>3 DEF SetRemoteAnswer
  <2> QED
    BY <1>1, <2>1, AskedOK, Operations, EndBecomes
<1>4. CASE /\ ~(peer[x].sig = "local" /\ peer[x].local.lines = Given(x).lines)
           /\ ~(peer[x].sig = "local" /\ peer[x].local.lines # Given(x).lines /\ Then(x) = "retry")
  <2>1. Becomes(x, Renegotiate(Rest(x)))
    BY <1>4 DEF SetRemoteAnswer
  <2> QED
    BY <1>1, <2>1, RenegotiateOK, EndBecomes
<1> QED
  BY <1>2, <1>3, <1>4

LEMMA RolledBackStep ==
    ASSUME EInv, NEW x \in Members, Rollback(x)
    PROVE  EInv'
<1>1. /\ EndOK(Rest(x)) /\ inbox' \in [Members -> Seq(WholeMessages)] /\ Given(x) \in WholeSdps
  BY SettlesOK DEF Rollback, EInv, QueuesOK
<1>2. PICK p : EndOK(p) /\ \/ Becomes(x, p) \/ Becomes(x, Renegotiate(p))
                           \/ \E op \in WholeOps : Becomes(x, Asked(p, op))
  <2> DEFINE done == ~Stable(peer[x])
             p == IF done THEN RolledBack(Rest(x)) ELSE Rest(x)
  <2>1. EndOK(p)
    BY <1>1, RolledBackOK
  <2>2. Then(x) \in {"accept", "answer", "nudge"}
    BY SettlesOK DEF Rollback
  <2>3. DoWith("remoteOffer", Given(x), "") \in WholeOps /\ DoWith("remoteAnswer", Given(x), "") \in WholeOps
    BY <1>1, Operations
  <2>4. \/ Becomes(x, p) \/ Becomes(x, Renegotiate(p))
        \/ Becomes(x, Asked(p, DoWith("remoteOffer", Given(x), "")))
        \/ Becomes(x, Asked(p, DoWith("remoteAnswer", Given(x), "")))
    BY <2>2 DEF Rollback
  <2> QED
    BY <2>1, <2>3, <2>4
<1> QED
  BY <1>1, <1>2, AskedOK, RenegotiateOK, EndBecomes

\* The browser asks for negotiation, or reports the state of the connection:
\* "connected" comes only when the other one's credentials are held.
LEMMA BrowserTold ==
    ASSUME EInv, NEW x \in Members, NegotiationNeeded(x) \/ Connect(x)
    PROVE  EInv'
<1>1. inbox' \in [Members -> Seq(WholeMessages)]
  BY DEF NegotiationNeeded, Connect, EInv, QueuesOK
<1>2. CASE NegotiationNeeded(x)
  <2>1. EndOK(peer[x]) /\ Becomes(x, Renegotiate([peer[x] EXCEPT !.fired = TRUE]))
    BY <1>2 DEF NegotiationNeeded, EInv, PeersOK
  <2>2. EndOK([peer[x] EXCEPT !.fired = TRUE])
    BY <2>1 DEF EndOK, Held, WholePeers
  <2> QED
    BY <1>1, <2>1, <2>2, RenegotiateOK, EndBecomes
<1>3. CASE Connect(x)
  <2>1. Becomes(x, [peer[x] EXCEPT !.conn = "connected"]) /\ EndOK(peer[x]) /\ peer[x].now.theirs # 0
    BY <1>3 DEF Connect, Matched, Reaches, EInv, PeersOK
  <2>2. EndOK([peer[x] EXCEPT !.conn = "connected"])
    BY <2>1 DEF EndOK, Held, WholePeers
  <2> QED
    BY <1>1, <2>1, <2>2, EndBecomes
<1> QED
  BY <1>2, <1>3

LEMMA BrowserEnds ==
    ASSUME EInv, NEW x \in Members, Browser(x)
    PROVE  EInv'
  BY OfferMade, OfferSet, RemoteOfferSet, AnswerMade, AnswerSet, RemoteAnswerSet, RolledBackStep,
     BrowserTold DEF Browser

-----------------------------------------------------------------------------
(* Timers, and the rest of the page *)

\* A connection that breaks had been one.
LEMMA BrokenOK ==
    ASSUME NEW p, EndOK(p), p.now.theirs # 0
    PROVE  EndOK(Broken(p))
<1>1. EndOK([p EXCEPT !.conn = "failed"])
  BY DEF EndOK, Held, WholePeers
<1> QED
  BY <1>1, RestartOK DEF Broken

LEMMA TimerEnd ==
    ASSUME EInv, NEW x \in Members, NEW p, EndOK(p), TimerStep(x, p)
    PROVE  EInv'
<1>1. PeersOK'
  BY EndReplaced DEF TimerStep
<1>2. CountsOK'
  BY BoundAssumption DEF TimerStep, Timer, EInv, CountsOK
<1> QED
  BY <1>1, <1>2 DEF EInv, TimerStep, page, PageOK, QueuesOK

LEMMA TimersEnds ==
    ASSUME EInv, NEW x \in Members, Timers(x)
    PROVE  EInv'
<1>1. EndOK(peer[x])
  BY DEF Timers, WatchPeer, Disconnect, SafetyNet, VideoWatchdog, EInv, PeersOK
<1>2. CASE WatchPeer(x)
  <2>1. CASE peer[x].conn = "new"
    <3>1. TimerStep(x, Nudged(peer[x]))
      BY <1>2, <2>1 DEF WatchPeer
    <3>2. EndOK(Asked(peer[x], DoWith("rollback", NoSdp, "nudge")))
      BY <1>1, Descriptions, Operations, AskedOK
    <3>3. EndOK(Restarted(peer[x]))
      BY <1>1, RestartOK, RenegotiateOK DEF Restarted
    <3> QED
      BY <3>1, <3>2, <3>3, TimerEnd DEF Nudged
  <2>2. CASE peer[x].conn # "new"
    <3>1. Becomes(x, [peer[x] EXCEPT !.watch = FALSE]) /\ inbox' = inbox
      BY <1>2, <2>2 DEF WatchPeer
    <3>2. EndOK([peer[x] EXCEPT !.watch = FALSE])
      BY <1>1, <2>2 DEF EndOK, Held, WholePeers
    <3> QED
      BY <3>1, <3>2, EndBecomes DEF EInv, QueuesOK
  <2> QED
    BY <2>1, <2>2
<1>3. CASE Disconnect(x)
  BY <1>1, <1>3, BrokenOK, TimerEnd DEF Disconnect
<1>4. CASE SafetyNet(x)
  <2> DEFINE p == [peer[x] EXCEPT !.net = FALSE]
  <2>1. EndOK(p)
    BY <1>1 DEF EndOK, Held, WholePeers
  <2>2. TimerStep(x, p) \/ TimerStep(x, Renegotiate(p))
    BY <1>4, Zenon DEF SafetyNet
  <2> HIDE DEF p
  <2> QED
    BY <2>1, <2>2, RenegotiateOK, TimerEnd
<1>5. CASE VideoWatchdog(x)
  BY <1>1, <1>5, RenegotiateOK, TimerEnd DEF VideoWatchdog
<1> QED
  BY <1>2, <1>3, <1>4, <1>5 DEF Timers

LEMMA InterruptEnds ==
    ASSUME EInv, NEW x \in Members, Interrupt(x)
    PROVE  EInv'
<1>1. EndOK(peer[x]) /\ peer[x].now.theirs # 0
  BY DEF Interrupt, EInv, PeersOK, EndOK, Held
<1>2. PeersOK'
  BY <1>1, BrokenOK, EndReplaced DEF Interrupt
<1>3. CountsOK'
  BY BoundAssumption DEF Interrupt, EInv, CountsOK
<1> QED
  BY <1>2, <1>3 DEF EInv, Interrupt, page, PageOK, QueuesOK

\* A switch is turned.
LEMMA Switched ==
    ASSUME NEW f \in Switches, NEW x \in Members, NEW b \in BOOLEAN
    PROVE  [f EXCEPT ![x] = b] \in Switches
  BY DEF Switches

\* A message that is handled, and one that is put in.
LEMMA Handled ==
    ASSUME EInv, NEW x \in Members, inbox[x] # <<>>
    PROVE  /\ Head(inbox[x]) \in WholeMessages
           /\ [inbox EXCEPT ![x] = Tail(@)] \in [Members -> Seq(WholeMessages)]
<1>1. inbox \in [Members -> Seq(WholeMessages)]
  BY DEF EInv, QueuesOK
<1>2. Head(inbox[x]) \in WholeMessages /\ Tail(inbox[x]) \in Seq(WholeMessages)
  BY <1>1, Taken
<1> QED
  BY <1>1, <1>2

\* No peer is changed by a step that leaves them alone or closes one.
LEMMA EndClosed ==
    ASSUME EInv, NEW x \in Members, peer' = peer \/ peer' = [peer EXCEPT ![x] = None]
    PROVE  PeersOK'
  BY DEF EInv, PeersOK, Alive

\* The page: it only opens new peers and asks for operations on those it has.
LEMMA KeyEnds ==
    ASSUME EInv, NEW x \in Members, KeyArrives(x)
    PROVE  EInv'
<1> DEFINE b == x \in room
           o == opening[x] \/ waiting[x]
<1>1. b \in BOOLEAN /\ o \in BOOLEAN
  <2>1. opening[x] \in BOOLEAN /\ waiting[x] \in BOOLEAN
    BY DEF EInv, PageOK, Switches
  <2>2. b \in BOOLEAN
    OBVIOUS
  <2>3. o \in BOOLEAN
    BY <2>1, Zenon
  <2> QED
    BY <2>2, <2>3
<1>2. /\ keyAt' = [keyAt EXCEPT ![x] = TRUE] /\ roomKey' = [roomKey EXCEPT ![x] = b]
      /\ opening' = [opening EXCEPT ![x] = o] /\ waiting' = [waiting EXCEPT ![x] = FALSE]
      /\ UNCHANGED <<room, inbox, connected, sees, tracks, peer, deferred, faults, joins, missed>>
  BY DEF KeyArrives, counts
<1> HIDE DEF b, o
<1>3. keyAt' \in Switches /\ roomKey' \in Switches /\ opening' \in Switches /\ waiting' \in Switches
  BY <1>1, <1>2, Switched DEF EInv, PageOK
<1>4. PeersOK'
  BY <1>2, EndClosed
<1> QED
  BY <1>2, <1>3, <1>4 DEF EInv, PageOK, CountsOK, QueuesOK

LEMMA JoinedEnds ==
    ASSUME EInv, NEW x \in Members, HandleJoined(x)
    PROVE  EInv'
<1> DEFINE m == Head(inbox[x])
           o == opening[x] \/ (sees'[x] /\ ~Alive(x))
<1>1. m \in WholeMessages /\ m.type = "joined" /\ inbox' \in [Members -> Seq(WholeMessages)]
  BY Handled DEF HandleJoined
<1>2. m.there \in BOOLEAN
  BY <1>1 DEF WholeMessages
<1>3. /\ connected' = [connected EXCEPT ![x] = TRUE] /\ sees' = [sees EXCEPT ![x] = m.there]
      /\ roomKey' = [roomKey EXCEPT ![x] = keyAt[x]] /\ opening' = [opening EXCEPT ![x] = o]
      /\ UNCHANGED <<room, waiting, tracks, keyAt, peer, deferred, faults, joins, missed>>
  BY DEF HandleJoined, counts
<1>4. o \in BOOLEAN /\ keyAt[x] \in BOOLEAN
  <2>1. opening[x] \in BOOLEAN /\ keyAt[x] \in BOOLEAN
    BY DEF EInv, PageOK, Switches
  <2> QED
    BY <2>1, Zenon
<1> HIDE DEF m, o
<1>5. connected' \in Switches /\ sees' \in Switches /\ roomKey' \in Switches /\ opening' \in Switches
  BY <1>2, <1>3, <1>4, Switched DEF EInv, PageOK
<1>6. PeersOK'
  BY <1>3, EndClosed
<1> QED
  BY <1>1, <1>3, <1>5, <1>6 DEF EInv, PageOK, CountsOK, QueuesOK

LEMMA MembersEnds ==
    ASSUME EInv, NEW x \in Members, HandleMembers(x)
    PROVE  EInv'
<1> DEFINE m == Head(inbox[x])
           o == opening[x] \/ (m.there /\ ~Alive(x))
<1>1. m \in WholeMessages /\ m.type = "members" /\ inbox' \in [Members -> Seq(WholeMessages)]
  BY Handled DEF HandleMembers
<1>2. m.there \in BOOLEAN
  BY <1>1 DEF WholeMessages
<1>3. o \in BOOLEAN
  <2>1. opening[x] \in BOOLEAN
    BY DEF EInv, PageOK, Switches
  <2> QED
    BY <2>1, Zenon
<1>4. UNCHANGED <<room, connected, roomKey, waiting, tracks, keyAt, faults, joins, missed>>
  BY DEF HandleMembers, counts
<1>5. /\ peer' = peer \/ peer' = [peer EXCEPT ![x] = None]
      /\ deferred' = deferred \/ deferred' = [deferred EXCEPT ![x] = <<>>]
      /\ sees' = sees \/ sees' = [sees EXCEPT ![x] = m.there]
      /\ opening' = opening \/ opening' = [opening EXCEPT ![x] = o]
  BY Zenon DEF HandleMembers
<1> HIDE DEF m, o
<1>6. sees' \in Switches /\ opening' \in Switches
  BY <1>2, <1>3, <1>5, Switched DEF EInv, PageOK
<1>7. deferred' \in [Members -> Seq(WholeSdps)]
  <2>1. deferred \in [Members -> Seq(WholeSdps)] /\ <<>> \in Seq(WholeSdps)
    BY DEF EInv, QueuesOK
  <2> QED
    BY <1>5, <2>1
<1>8. PeersOK'
  BY <1>5, EndClosed
<1> QED
  BY <1>1, <1>4, <1>6, <1>7, <1>8 DEF EInv, PageOK, CountsOK, QueuesOK

LEMMA OpenedEnds ==
    ASSUME EInv, NEW x \in Members, OpenPeer(x)
    PROVE  EInv'
<1> DEFINE due == connected[x] /\ sees[x] /\ ~Alive(x)
           w == waiting[x] \/ (due /\ ~roomKey[x])
<1>1. w \in BOOLEAN
  <2>1. waiting[x] \in BOOLEAN
    BY DEF EInv, PageOK, Switches
  <2> QED
    BY <2>1, Zenon
<1>2. /\ opening' = [opening EXCEPT ![x] = FALSE] /\ waiting' = [waiting EXCEPT ![x] = w]
      /\ peer' = peer \/ peer' = [peer EXCEPT ![x] = NewPeer(tracks[x])]
      /\ UNCHANGED <<room, inbox, connected, sees, roomKey, tracks, keyAt, deferred, faults, joins, missed>>
  BY Zenon DEF OpenPeer, counts
<1> HIDE DEF w
<1>3. opening' \in Switches /\ waiting' \in Switches
  BY <1>1, <1>2, Switched DEF EInv, PageOK
<1>4. EndOK(NewPeer(tracks[x]))
  BY NewPeerOK DEF EInv, PageOK
<1>5. PeersOK'
  BY <1>2, <1>4, EndClosed, EndReplaced
<1> QED
  BY <1>2, <1>3, <1>5 DEF EInv, PageOK, CountsOK, QueuesOK

LEMMA TrackEnds ==
    ASSUME EInv, NEW x \in Members, AddTrack(x)
    PROVE  EInv'
<1>1. /\ tracks' = [tracks EXCEPT ![x] = @ + 1] /\ tracks[x] < MaxTracks
      /\ UNCHANGED <<room, inbox, connected, sees, roomKey, waiting, opening, keyAt, deferred,
                     faults, joins, missed>>
  BY DEF AddTrack, counts
<1>2. tracks' \in [Members -> 0..MaxTracks] /\ tracks'[x] \in 0..MaxTracks
  BY <1>1, BoundAssumption DEF EInv, PageOK
<1>3. PeersOK'
  <2>1. CASE Alive(x)
    <3>1. EndOK(peer[x]) /\ peer' = [peer EXCEPT ![x] = [peer[x] EXCEPT !.tracks = tracks'[x]]]
      BY <2>1 DEF AddTrack, EInv, PeersOK
    <3>2. EndOK([peer[x] EXCEPT !.tracks = tracks'[x]])
      BY <1>2, <3>1 DEF EndOK, Held, WholePeers
    <3> QED
      BY <3>1, <3>2, EndReplaced
  <2>2. CASE ~Alive(x)
    BY <2>2, EndClosed DEF AddTrack
  <2> QED
    BY <2>1, <2>2
<1> QED
  BY <1>1, <1>2, <1>3 DEF EInv, PageOK, CountsOK, QueuesOK

\* An offer that is handled now is asked for, or ignored.
LEMMA OfferHandledOK ==
    ASSUME NEW x \in Members, NEW p, EndOK(p), NEW sdp \in WholeSdps
    PROVE  EndOK(OfferHandled(x, p, sdp))
  BY AskedOK, Operations DEF OfferHandled

LEMMA SignalEnds ==
    ASSUME EInv, NEW x \in Members, HandleSignal(x)
    PROVE  EInv'
<1> DEFINE m == Head(inbox[x])
           p == IF Alive(x) THEN peer[x] ELSE NewPeer(tracks[x])
<1>1. m \in WholeMessages /\ m.type = "signal" /\ inbox' \in [Members -> Seq(WholeMessages)]
  BY Handled DEF HandleSignal
<1>2. m.sdp \in WholeSdps /\ m.kind \in {"offer", "answer"}
  BY <1>1 DEF WholeMessages
<1>3. EndOK(p)
  BY NewPeerOK DEF EInv, PageOK, PeersOK
<1>4. EndOK(OfferHandled(x, p, m.sdp)) /\ EndOK(Asked(p, DoWith("remoteAnswer", m.sdp, "retry")))
  BY <1>2, <1>3, OfferHandledOK, AskedOK, Operations
<1>5. UNCHANGED <<room, connected, sees, roomKey, waiting, opening, tracks, keyAt, faults, joins>>
  BY DEF HandleSignal, page, counts
<1>6. /\ peer' = peer \/ peer' = [peer EXCEPT ![x] = OfferHandled(x, p, m.sdp)]
         \/ peer' = [peer EXCEPT ![x] = Asked(p, DoWith("remoteAnswer", m.sdp, "retry"))]
      /\ deferred' = deferred \/ deferred' = [deferred EXCEPT ![x] = Append(@, m.sdp)]
      /\ missed' = missed \/ missed' = missed \cup {x}
  BY Zenon DEF HandleSignal
<1> HIDE DEF m, p
<1>7. PeersOK'
  BY <1>4, <1>6, EndClosed, EndReplaced
<1>8. deferred' \in [Members -> Seq(WholeSdps)]
  <2>1. deferred \in [Members -> Seq(WholeSdps)]
    BY DEF EInv, QueuesOK
  <2>2. Append(deferred[x], m.sdp) \in Seq(WholeSdps)
    BY <1>2, <2>1, Added
  <2> QED
    BY <1>6, <2>1, <2>2
<1>9. missed' \subseteq Members
  BY <1>6 DEF EInv
<1> QED
  BY <1>1, <1>5, <1>7, <1>8, <1>9 DEF EInv, PageOK, CountsOK, QueuesOK

LEMMA DeferredEnds ==
    ASSUME EInv, NEW x \in Members, HandleDeferred(x)
    PROVE  EInv'
<1> DEFINE sdp == Head(deferred[x])
<1>1. deferred \in [Members -> Seq(WholeSdps)] /\ deferred[x] # <<>>
  BY DEF EInv, QueuesOK, HandleDeferred
<1>2. sdp \in WholeSdps /\ Tail(deferred[x]) \in Seq(WholeSdps)
  BY <1>1, Taken
<1>3. Append(Tail(deferred[x]), sdp) \in Seq(WholeSdps)
  BY <1>2, Added
<1>4. UNCHANGED <<room, inbox, connected, sees, roomKey, waiting, opening, tracks, keyAt,
                  faults, joins, missed>>
  BY DEF HandleDeferred, page, counts
<1>5. /\ peer' = peer \/ (Alive(x) /\ peer' = [peer EXCEPT ![x] = OfferHandled(x, @, sdp)])
      /\ deferred' = [deferred EXCEPT ![x] = Tail(@)]
         \/ deferred' = [deferred EXCEPT ![x] = Append(Tail(@), sdp)]
  BY Zenon DEF HandleDeferred
<1>6. Alive(x) => EndOK(OfferHandled(x, peer[x], sdp))
  BY <1>2, OfferHandledOK DEF EInv, PeersOK
<1> HIDE DEF sdp
<1>7. PeersOK'
  BY <1>5, <1>6, EndClosed, EndReplaced
<1>8. deferred' \in [Members -> Seq(WholeSdps)]
  BY <1>1, <1>2, <1>3, <1>5
<1> QED
  BY <1>4, <1>7, <1>8 DEF EInv, PageOK, CountsOK, QueuesOK

\* The room: signals that are lost, members who come and go.
LEMMA LostEnds ==
    ASSUME EInv, NEW x \in Members, Lose(x)
    PROVE  EInv'
<1>1. inbox' \in [Members -> Seq(WholeMessages)]
  BY Handled DEF Lose
<1>2. CountsOK'
  BY BoundAssumption DEF Lose, EInv, CountsOK
<1>3. PeersOK'
  BY EndClosed DEF Lose
<1> QED
  BY <1>1, <1>2, <1>3 DEF EInv, Lose, page, PageOK, QueuesOK

LEMMA JoinEnds ==
    ASSUME EInv, NEW x \in Members, Join(x)
    PROVE  EInv'
<1>1. /\ joins' = joins + 1 /\ joins < MaxJoins /\ room' = room \cup {x}
      /\ waiting' = [waiting EXCEPT ![x] = FALSE] /\ roomKey' = [roomKey EXCEPT ![x] = keyAt[x]]
      /\ UNCHANGED <<connected, sees, opening, tracks, keyAt, peer, deferred, faults, missed>>
  BY DEF Join
<1>2. Roster("joined", Other(x) \in room) \in WholeMessages /\ Roster("members", TRUE) \in WholeMessages
  <2>1. (Other(x) \in room) \in BOOLEAN
    OBVIOUS
  <2>2. \A b \in BOOLEAN, t \in {"joined", "members"} : Roster(t, b) \in WholeMessages
    BY DEF Roster, WholeMessages
  <2> QED
    BY <2>1, <2>2, Zenon
<1>3. inbox' \in [Members -> Seq(WholeMessages)]
  <2> DEFINE first == Roster("joined", Other(x) \in room)
             then == Roster("members", TRUE)
  <2>1. inbox' = [y \in Members |->
                    IF y = x THEN Append(inbox[x], first)
                    ELSE IF y \in room THEN Append(inbox[y], then) ELSE inbox[y]]
    BY DEF Join
  <2>2. \A y \in Members : Append(inbox[y], first) \in Seq(WholeMessages)
                           /\ Append(inbox[y], then) \in Seq(WholeMessages)
                           /\ inbox[y] \in Seq(WholeMessages)
    BY <1>2, Added DEF EInv, QueuesOK
  <2> HIDE DEF first, then
  <2> QED
    BY <2>1, <2>2
<1>4. CountsOK'
  BY <1>1, BoundAssumption DEF EInv, CountsOK
<1>5. PeersOK'
  BY <1>1, EndClosed
<1>6. waiting' \in Switches /\ roomKey' \in Switches
  BY <1>1, Switched DEF EInv, PageOK, Switches
<1> QED
  BY <1>1, <1>3, <1>4, <1>5, <1>6 DEF EInv, PageOK, QueuesOK

LEMMA LeaveEnds ==
    ASSUME EInv, NEW x \in Members, Leave(x)
    PROVE  EInv'
<1>1. /\ room' = room \ {x} /\ connected' = [connected EXCEPT ![x] = FALSE]
      /\ sees' = [sees EXCEPT ![x] = FALSE] /\ roomKey' = [roomKey EXCEPT ![x] = FALSE]
      /\ waiting' = [waiting EXCEPT ![x] = FALSE] /\ tracks' = [tracks EXCEPT ![x] = 0]
      /\ peer' = [peer EXCEPT ![x] = None] /\ deferred' = [deferred EXCEPT ![x] = <<>>]
      /\ UNCHANGED <<opening, keyAt, faults, joins, missed>>
  BY DEF Leave, counts
<1>2. inbox' \in [Members -> Seq(WholeMessages)]
  <2>1. inbox' = [y \in Members |-> IF y # x /\ y \in room
                    THEN Append(inbox[y], Roster("members", FALSE)) ELSE inbox[y]]
    BY DEF Leave
  <2>2. Roster("members", FALSE) \in WholeMessages
    BY DEF Roster, WholeMessages
  <2>3. \A y \in Members : Append(inbox[y], Roster("members", FALSE)) \in Seq(WholeMessages)
                           /\ inbox[y] \in Seq(WholeMessages)
    BY <2>2, Added DEF EInv, QueuesOK
  <2> QED
    BY <2>1, <2>3
<1>3. connected' \in Switches /\ sees' \in Switches /\ roomKey' \in Switches /\ waiting' \in Switches
  BY <1>1, Switched DEF EInv, PageOK
<1>4. tracks' \in [Members -> 0..MaxTracks] /\ deferred' \in [Members -> Seq(WholeSdps)]
  BY <1>1, BoundAssumption DEF EInv, PageOK, QueuesOK
<1>5. PeersOK'
  BY <1>1, EndClosed
<1> QED
  BY <1>1, <1>2, <1>3, <1>4, <1>5 DEF EInv, PageOK, CountsOK, QueuesOK

-----------------------------------------------------------------------------
(* The theorems about the ends *)

LEMMA FirstEnds == Init => EInv
<1> HAVE Init
<1>1. CountsOK
  <2>1. IsFiniteSet(Members)
    <3>1. IsFiniteSet({Impolite}) /\ Members = {Impolite} \cup {Polite}
      BY FS_Singleton DEF Members
    <3> QED
      BY <3>1, FS_AddElement
  <2>2. Cardinality({x \in Members : ~keyAt[x]}) \in Nat
    BY <2>1, FS_Subset, FS_CardinalityType
  <2> QED
    BY <2>2, BoundAssumption DEF Init, CountsOK
<1> QED
  BY <1>1, BoundAssumption DEF Init, EInv, PageOK, PeersOK, QueuesOK, Switches, Alive

LEMMA NextEnds == EInv /\ [Next]_vars => EInv'
<1> HAVE EInv /\ [Next]_vars
<1>1. CASE UNCHANGED vars
  BY <1>1 DEF vars, page, counts, EInv, PageOK, CountsOK, PeersOK, QueuesOK, Alive
<1>2. CASE Next
  <2>1. PICK x \in Members : \/ Join(x) \/ Leave(x) \/ Lose(x) \/ Interrupt(x)
                             \/ Page(x) \/ Browser(x) \/ Timers(x)
    BY <1>2 DEF Next
  <2>2. CASE Page(x)
    BY <2>2, KeyEnds, TrackEnds, JoinedEnds, MembersEnds, OpenedEnds, SignalEnds, DeferredEnds
       DEF Page
  <2> QED
    BY <2>1, <2>2, JoinEnds, LeaveEnds, LostEnds, InterruptEnds, BrowserEnds, TimersEnds
<1> QED
  BY <1>1, <1>2

\* What an end holds is an invariant.
THEOREM EndsInvariance == Spec => []EInv
  BY FirstEnds, NextEnds, PTL DEF Spec

\* The variables have their types.
THEOREM TypeCorrect == Spec => []TypeOK
<1>1. ASSUME EInv PROVE TypeOK
  <2>1. WholeSdps \subseteq Sdps
    BY DEF WholeSdps
  <2>2. WholeOps \subseteq Ops /\ WholeMessages \subseteq Messages
    BY <2>1 DEF WholeOps, WholeMessages, Ops, Messages
  <2>3. WholePeers \subseteq Peers
    BY <2>1, <2>2 DEF WholePeers, WholePairs, Peers
  <2>4. peer \in [Members -> Peers \cup {None}]
    <3>1. \A x \in Members : peer[x] \in Peers \cup {None}
      BY <1>1, <2>3 DEF EInv, PeersOK, EndOK, Alive
    <3> QED
      BY <1>1, <3>1 DEF EInv, PeersOK
  <2>5. inbox \in [Members -> Seq(Messages)] /\ deferred \in [Members -> Seq(Sdps)]
    BY <1>1, <2>1, <2>2 DEF EInv, QueuesOK
  <2> QED
    BY <1>1, <2>4, <2>5 DEF EInv, PageOK, CountsOK, Switches, TypeOK
<1> QED
  BY <1>1, EndsInvariance, PTL

\* A page does not give up on a connection before it has failed: as long as its
\* end does not match the other one and nothing is under way, watchPeer or the
\* browser's report of a dead transport will have it negotiate again, however
\* many signals were lost or offers crossed.
THEOREM RepairCorrect == Spec => []NeverGivenUp
<1>1. ASSUME EInv PROVE NeverGivenUp
  <2>1. ASSUME NEW x \in Members, Alive(x) PROVE Repairs(x)
    BY <1>1, <2>1 DEF EInv, PeersOK, EndOK, Held, WholePeers, Repairs
  <2> QED
    BY <2>1 DEF NeverGivenUp
<1> QED
  BY <1>1, EndsInvariance, PTL

=============================================================================
