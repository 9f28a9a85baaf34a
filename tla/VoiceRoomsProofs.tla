-------------------------- MODULE VoiceRoomsProofs --------------------------
(***************************************************************************)
(* Type correctness, the shape of the voice_rooms map, the enforcement of  *)
(* sanctions, who may be evicted, the sessions of DM calls and the clips   *)
(* of the soundboard, for every value of the constants of VoiceRooms.      *)
(*                                                                         *)
(* The inductive invariant IInv is the conjunction of the first three: a   *)
(* step that writes the map reads the room and the member of a job, whose  *)
(* types come from TypeOK, and a member's flags are bounded only together  *)
(* with RoomShape's clause that somebody who is not a member has none.     *)
(* The others have invariants of their own beside it.  JobsOwned: a task   *)
(* works on its own account or on one its user moderates, which has to be  *)
(* carried from the message that began the task to the write.  SessInv: a  *)
(* room's session is a row of its own channel that is still open, as long  *)
(* as the channel exists.  ClipsInv: a clip announced once is in one slot  *)
(* or about to be put into one, and its audio is kept until it expires or  *)
(* the server restarts.                                                    *)
(***************************************************************************)
EXTENDS VoiceRooms, TLAPS

\* What a task goes on to after a room is a job again, or nothing.
LEMMA ContinueTyped ==
    ASSUME NEW j \in Busy, NEW k \in Continue(j)
    PROVE  k \in Busy \cup {Idle}
<1>1. CASE j.todo = {}
  BY <1>1 DEF Continue
<1>2. CASE j.todo # {}
  <2>1. PICK r \in j.todo :
            k = [j EXCEPT !.pc = "rm_write", !.room = r, !.todo = @ \ {r}, !.next = None]
    BY <1>2 DEF Continue
  <2>2. r \in Rooms /\ j.todo \ {r} \in SUBSET Rooms
    BY DEF Busy
  <2> QED BY <2>1, <2>2 DEF Busy, PCs
<1> QED BY <1>1, <1>2

\* Giving one task a well-typed job keeps all jobs well typed.
LEMMA SetJobTyped ==
    ASSUME JobTyped, NEW c \in Conns, NEW t \in Tasks,
           NEW j \in Busy \cup {Idle}, SetJob(c, t, j)
    PROVE  JobTyped'
BY DEF JobTyped, SetJob

\* A task whose step is not "idle" holds a busy job.
LEMMA BusyJob ==
    ASSUME JobTyped, NEW c \in Conns, NEW t \in Tasks, job[c][t].pc # "idle"
    PROVE  job[c][t] \in Busy
BY DEF JobTyped, Idle

\* A job built from its step, room, member, reason and sanction is busy.
LEMMA DoingTyped ==
    ASSUME NEW p \in PCs, NEW r \in Rooms, NEW u \in Users,
           NEW h \in {"leave", "drop", "none"} \cup ControlActions,
           NEW s \in SUBSET Sanctions
    PROVE  Doing(p, r, u, h, s) \in Busy
BY DEF Busy, Doing

-----------------------------------------------------------------------------
(* JobTyped, one case per action that moves a task.                        *)

\* Opening, closing and cancelling a connection keep the jobs well typed.
LEMMA ConnectionJob ==
    ASSUME TypeOK, NEW c \in Conns, Connection(c) PROVE JobTyped'
<1>1. CASE Cancel(c)
  <2>1. SetJob(c, "recv", Idle)
    BY <1>1 DEF Cancel
  <2> QED BY <2>1, SetJobTyped DEF TypeOK, Tasks
<1>2. CASE UNCHANGED job
  BY <1>2 DEF TypeOK, JobTyped
<1> QED BY <1>1, <1>2 DEF Connection, AddRetain, AddInsert, RecvEnds, SendEnds

\* Collecting the rooms a device occupies yields well-typed jobs.
LEMMA CollectJob ==
    ASSUME TypeOK, NEW c \in Conns, NEW t \in Tasks, CollectRooms(c, t)
    PROVE  JobTyped'
<1> DEFINE todo == Occupied(ConnUser[c], ConnDevice[c])
<1>1. CASE todo = {}
  BY <1>1, SetJobTyped DEF CollectRooms, TypeOK
<1>2. CASE todo # {}
  <2>1. PICK r \in todo :
            SetJob(c, t, [Doing("rm_write", r, ConnUser[c], "drop", {}) EXCEPT
                             !.todo = todo \ {r}])
    BY <1>2 DEF CollectRooms
  <2>2. todo \subseteq Rooms
    BY DEF Occupied, TypeOK, RoomTyped
  <2>3. Doing("rm_write", r, ConnUser[c], "drop", {}) \in Busy
    BY <2>2, ConnAssumption, DoingTyped DEF PCs
  <2>4. [Doing("rm_write", r, ConnUser[c], "drop", {}) EXCEPT !.todo = todo \ {r}] \in Busy
    BY <2>2, <2>3 DEF Busy
  <2> QED BY <2>1, <2>4, SetJobTyped DEF TypeOK
<1> QED BY <1>1, <1>2

\* Every message a client can send starts a well-typed job.
LEMMA MessageJob ==
    ASSUME TypeOK, NEW c \in Conns, Message(c) PROVE JobTyped'
<1>0. ConnUser[c] \in Users /\ "recv" \in Tasks /\ JobTyped
  BY ConnAssumption DEF Tasks, TypeOK
<1>1. ASSUME NEW r \in Rooms, JoinStart(c, r) PROVE JobTyped'
  <2> DEFINE s == IF r \in ServerRooms THEN sanction[ServerOf[r]][ConnUser[c]] ELSE {}
  <2>1. s \in SUBSET Sanctions
    BY <1>0, RoomAssumption DEF TypeOK, ModTyped
  <2>2. Doing("join_insert", r, ConnUser[c], "none", s) \in Busy
    BY <1>0, <2>1, DoingTyped DEF PCs
  <2> QED BY <1>0, <1>1, <2>2, SetJobTyped DEF JoinStart
<1>2. ASSUME NEW r \in Rooms, VoiceLeave(c, r) PROVE JobTyped'
  <2>1. Doing("rm_write", r, ConnUser[c], "leave", {}) \in Busy
    BY <1>0, DoingTyped DEF PCs
  <2> QED BY <1>0, <1>2, <2>1, SetJobTyped DEF VoiceLeave
<1>3. ASSUME NEW r \in Rooms, SoundboardStop(c, r) PROVE JobTyped'
  BY <1>0, <1>3 DEF SoundboardStop, JobTyped
<1>4. CASE VoiceLeaveAll(c)
  BY <1>0, <1>4, CollectJob DEF VoiceLeaveAll
<1>5. ASSUME NEW r \in Rooms, NEW req \in SUBSET LocalFlags, VoiceState(c, r, req)
      PROVE  JobTyped'
  BY <1>0, <1>5 DEF VoiceState, JobTyped
<1>6. ASSUME NEW v \in Servers, NEW r \in ServerRooms, NEW act \in ControlActions,
             NEW u \in Users, ControlRead(c, v, r, act, u)
      PROVE  JobTyped'
  <2> DEFINE p == IF act = "kick" THEN "ctl_check" ELSE "ctl_set"
             s == Sanctioned(sanction[v][u], act)
  <2>1. s \in SUBSET Sanctions
    BY DEF Sanctioned, Sanctions, TypeOK, ModTyped
  <2>2. p \in PCs /\ r \in Rooms
    BY DEF PCs, Rooms
  <2>3. Doing(p, r, u, act, s) \in Busy
    BY <2>1, <2>2, DoingTyped
  <2>4. ControlJob(v, r, act, u) \in Busy
    BY <2>3 DEF ControlJob, Busy
  <2> QED BY <1>0, <1>6, <2>4, SetJobTyped DEF ControlRead
<1>7. ASSUME NEW d \in DmRooms, DmCallWaiting(c, d) PROVE JobTyped'
  <2>1. Doing("wait_set", d, ConnUser[c], "none", {}) \in Busy
    BY <1>0, DoingTyped DEF PCs, Rooms
  <2> QED BY <1>0, <1>7, <2>1, SetJobTyped DEF DmCallWaiting
<1>8. ASSUME NEW d \in DmRooms, DmCallDeclined(c, d) PROVE JobTyped'
  <2>1. PICK u \in DmMembers[d] :
            SetJob(c, "recv", Doing("decline_set", d, u, "none", {}))
    BY <1>8 DEF DmCallDeclined
  <2>2. Doing("decline_set", d, u, "none", {}) \in Busy
    BY RoomAssumption, DoingTyped DEF PCs, Rooms
  <2> QED BY <1>0, <2>1, <2>2, SetJobTyped
<1>9. ASSUME NEW r \in Rooms, NEW tok \in Tokens \cup {None}, SoundboardPlay(c, r, tok)
      PROVE  JobTyped'
  <2>1. Doing("play_write", r, ConnUser[c], "none", {}) \in Busy
    BY <1>0, DoingTyped DEF PCs
  <2>2. [Doing("play_write", r, ConnUser[c], "none", {}) EXCEPT !.tok = tok] \in Busy
    BY <2>1 DEF Busy
  <2> QED BY <1>0, <1>9, <2>2, SetJobTyped DEF SoundboardPlay
<1> QED BY <1>1, <1>2, <1>3, <1>4, <1>5, <1>6, <1>7, <1>8, <1>9 DEF Message

\* Every step of voice_remove_from_room keeps the jobs well typed.
LEMMA RemoveJob ==
    ASSUME TypeOK, NEW c \in Conns, NEW t \in Tasks, Remove(c, t) PROVE JobTyped'
<1> DEFINE j == job[c][t]
<1>0. j \in Busy
  BY BusyJob DEF TypeOK, Remove, RmWriteGone, RmWriteLast, RmWriteMore, RmClear, RmSlot,
     RmMark
<1>1. CASE \E k \in Continue(j) : SetJob(c, t, k)
  BY <1>0, <1>1, ContinueTyped, SetJobTyped DEF TypeOK
<1>2. CASE SetJob(c, t, [j EXCEPT !.pc = "rm_clear"])
  <2>1. [j EXCEPT !.pc = "rm_clear"] \in Busy
    BY <1>0 DEF Busy, PCs
  <2> QED BY <1>2, <2>1, SetJobTyped DEF TypeOK
<1>3. CASE SetJob(c, t, [j EXCEPT !.pc = "rm_mark"])
  <2>1. [j EXCEPT !.pc = "rm_mark"] \in Busy
    BY <1>0 DEF Busy, PCs
  <2> QED BY <1>3, <2>1, SetJobTyped DEF TypeOK
<1>5. CASE SetJob(c, t, [j EXCEPT !.pc = "rm_gone"])
  <2>1. [j EXCEPT !.pc = "rm_gone"] \in Busy
    BY <1>0 DEF Busy, PCs
  <2> QED BY <1>5, <2>1, SetJobTyped DEF TypeOK
<1>4. CASE RmWriteMore(c, t)
  <2>1. PICK m \in members[j.room] \ {j.who} :
            SetJob(c, t, [j EXCEPT !.pc = "rm_slot",
                                   !.next = IF j.room \in DmRooms THEN m ELSE None])
    BY <1>4 DEF RmWriteMore
  <2>2. m \in Users
    BY <1>0 DEF TypeOK, RoomTyped, Busy
  <2>3. [j EXCEPT !.pc = "rm_slot",
                  !.next = IF j.room \in DmRooms THEN m ELSE None] \in Busy
    BY <1>0, <2>2 DEF Busy, PCs
  <2> QED BY <2>1, <2>3, SetJobTyped DEF TypeOK
<1> QED BY <1>1, <1>2, <1>3, <1>4, <1>5
    DEF Remove, RmWriteGone, RmWriteLast, RmClear, RmSlot, RmMark

\* Every later step of a message handler keeps the jobs well typed.
LEMMA HandlerJob ==
    ASSUME TypeOK, NEW c \in Conns, Handler(c) PROVE JobTyped'
<1> DEFINE j == job[c]["recv"]
<1>0. "recv" \in Tasks /\ JobTyped
  BY DEF Tasks, TypeOK
<1>1. CASE Remove(c, "recv")
  BY <1>0, <1>1, RemoveJob
<1>2. CASE SetJob(c, "recv", Idle)
  BY <1>0, <1>2, SetJobTyped
<1>3. ASSUME NEW p \in PCs, j.pc # "idle", SetJob(c, "recv", [j EXCEPT !.pc = p])
      PROVE  JobTyped'
  <2>1. j \in Busy
    BY <1>0, <1>3, BusyJob
  <2>2. [j EXCEPT !.pc = p] \in Busy
    BY <2>1 DEF Busy
  <2> QED BY <1>0, <1>3, <2>2, SetJobTyped
<1>4. CASE JoinInsert(c)
  <2> DEFINE p == IF j.who \in members[j.room] /\ ConnDevice[c] # NoDevice
                  THEN "join_kick" ELSE "join_count"
  <2>1. p \in PCs
    BY DEF PCs
  <2> QED BY <1>3, <1>4, <2>1 DEF JoinInsert
<1>5. CASE JoinKick(c)
  BY <1>3, <1>5 DEF JoinKick, PCs
<1>6. CASE JoinCount(c)
  BY <1>2, <1>3, <1>6 DEF JoinCount, PCs
<1>7. CASE ControlSet(c)
  BY <1>3, <1>7 DEF ControlSet, PCs
<1>8. CASE ControlCheck(c)
  <2> DEFINE p == IF j.how = "kick" THEN "rm_write" ELSE "ctl_apply"
  <2>1. p \in PCs
    BY DEF PCs
  <2> QED BY <1>2, <1>3, <1>8, <2>1 DEF ControlCheck
<1>9. CASE JoinMarker(c) \/ ControlApply(c) \/ WaitSet(c) \/ PlayWrite(c)
  BY <1>2, <1>9 DEF JoinMarker, ControlApply, WaitSet, PlayWrite
<1> QED BY <1>1, <1>4, <1>5, <1>6, <1>7, <1>8, <1>9 DEF Handler, Join, Control

\* The clean-up after a connection keeps the jobs well typed.
LEMMA SupervisorJob ==
    ASSUME TypeOK, NEW c \in Conns, Supervisor(c) PROVE JobTyped'
<1>1. CASE RemoveConnection(c)
  BY <1>1 DEF RemoveConnection, TypeOK, JobTyped
<1>2. CASE SupCollect(c)
  BY <1>2, CollectJob DEF SupCollect, Tasks
<1>3. CASE Remove(c, "sup")
  BY <1>3, RemoveJob DEF Tasks
<1> QED BY <1>1, <1>2, <1>3 DEF Supervisor

\* The tasks that are not a connection's leave job alone.
LEMMA OthersJob ==
    /\ (\E d \in DmRooms : Timers(d) \/ Unfriend(d)) \/ Request \/ Sweep => UNCHANGED job
    /\ TypeOK /\ Restart => JobTyped'
<1>1. (\E d \in DmRooms : Timers(d) \/ Unfriend(d)) => UNCHANGED job
  BY DEF Timers, Unfriend, GraceCheck, GraceClear, MarkerAges, UnfriendEndRoom, UnfriendClear
<1>2. Request \/ Sweep => UNCHANGED job
  BY DEF Request, Sweep, UploadTempPlay, CleanupTempPlay, Expire, DisableSoundboard,
     ClearDisabledSlots, EnableSoundboard, UnfriendDb, DeleteChannel, SweepList,
     SweepConnected, SweepInRoom, SweepClear
<1>3. Restart => JobTyped'
  BY DEF Restart, JobTyped
<1> QED BY <1>1, <1>2, <1>3

\* No step of the system spoils the type of the jobs.
LEMMA JobStep ==
    ASSUME TypeOK, [Next]_vars PROVE JobTyped'
<1>1. CASE UNCHANGED job
  BY <1>1 DEF TypeOK, JobTyped
<1>2. CASE Next
  BY <1>1, <1>2, ConnectionJob, MessageJob, HandlerJob, SupervisorJob, OthersJob DEF Next
<1>3. CASE UNCHANGED vars
  BY <1>1, <1>3 DEF vars
<1> QED BY <1>2, <1>3

-----------------------------------------------------------------------------
(* The steps that write the voice_rooms map.                               *)

RoomWrites ==
    \/ \E c \in Conns : JoinInsert(c) \/ ControlApply(c) \/ PlayWrite(c)
    \/ \E c \in Conns, t \in Tasks :
           RmWriteLast(c, t) \/ RmWriteMore(c, t) \/ RmSlot(c, t)
    \/ \E c \in Conns, r \in Rooms, req \in SUBSET LocalFlags : VoiceState(c, r, req)
    \/ \E c \in Conns, r \in Rooms : SoundboardStop(c, r)
    \/ \E s \in Servers, u \in Users : ClearDisabledSlots(s, u)
    \/ \E d \in DmRooms : UnfriendEndRoom(d)
    \/ Restart

\* Only the actions of RoomWrites change the voice_rooms map.
LEMMA RoomFrame == [Next]_vars => RoomWrites \/ UNCHANGED roomVars
<1>1. ASSUME NEW c \in Conns, Connection(c) PROVE UNCHANGED roomVars
  BY <1>1 DEF Connection, AddRetain, AddInsert, RecvEnds, SendEnds, Cancel
<1>2. ASSUME NEW c \in Conns, Message(c) PROVE RoomWrites \/ UNCHANGED roomVars
  BY <1>2 DEF Message, JoinStart, VoiceLeave, VoiceLeaveAll, ControlRead, DmCallWaiting,
     DmCallDeclined, SoundboardPlay, RoomWrites
<1>3. ASSUME NEW c \in Conns, NEW t \in Tasks, Remove(c, t)
      PROVE  RoomWrites \/ UNCHANGED roomVars
  BY <1>3 DEF Remove, RmWriteGone, RmClear, RmMark, RoomWrites
<1>4. ASSUME NEW c \in Conns, Handler(c) PROVE RoomWrites \/ UNCHANGED roomVars
  BY <1>3, <1>4 DEF Handler, Join, Control, JoinKick, JoinCount, JoinMarker, ControlSet,
     ControlCheck, WaitSet, RoomWrites, Tasks
<1>5. ASSUME NEW c \in Conns, Supervisor(c) PROVE RoomWrites \/ UNCHANGED roomVars
  BY <1>3, <1>5 DEF Supervisor, RemoveConnection, SupCollect, Tasks
<1>6. ASSUME NEW d \in DmRooms, Timers(d) \/ Unfriend(d)
      PROVE  RoomWrites \/ UNCHANGED roomVars
  BY <1>6 DEF Timers, Unfriend, GraceCheck, GraceClear, MarkerAges, UnfriendClear, RoomWrites
<1>7. Request => RoomWrites \/ UNCHANGED roomVars
  BY DEF Request, UploadTempPlay, CleanupTempPlay, Expire, DisableSoundboard,
     EnableSoundboard, UnfriendDb, DeleteChannel, RoomWrites
<1>8. Sweep \/ Restart => RoomWrites \/ UNCHANGED roomVars
  BY DEF Sweep, SweepList, SweepConnected, SweepInRoom, SweepClear, RoomWrites
<1>9. UNCHANGED vars => UNCHANGED roomVars
  BY DEF vars
<1> QED BY <1>1, <1>2, <1>4, <1>5, <1>6, <1>7, <1>8, <1>9 DEF Next

\* What a sanction forces contains the sanction, is forced again by itself
\* and consists of flags.
LEMMA EnforcedFacts ==
    ASSUME NEW s \in SUBSET Sanctions, NEW req \in SUBSET LocalFlags
    PROVE  /\ req \cup Enforced(s) \subseteq Flags
           /\ (req \cup Enforced(s)) \cap Sanctions = s
BY DEF Enforced, Sanctions, LocalFlags, Flags

\* The map itself: who is where, from which device, under which flags.
MapTyped ==
    /\ live \subseteq Rooms
    /\ members \in [Rooms -> SUBSET Users]
    /\ device \in [Rooms -> [Users -> DeviceIds \cup {None}]]
    /\ flags \in [Rooms -> [Users -> SUBSET Flags]]
MapInv == MapTyped /\ RoomShape /\ SanctionEnforced

\* A join keeps the map correct: the joiner gets a device and the flags its
\* sanction forces.
LEMMA JoinInsertMap ==
    ASSUME MapInv, JobTyped, NEW c \in Conns, JoinInsert(c) PROVE MapInv'
<1> DEFINE j == job[c]["recv"]
           r == j.room
           u == j.who
<1>1. j \in Busy
  BY BusyJob DEF JoinInsert, Tasks
<1>2. r \in Rooms /\ u \in Users /\ j.sanc \in SUBSET Sanctions
  BY <1>1 DEF Busy
<1>3. ConnDevice[c] \in DeviceIds /\ ConnDevice[c] # None
  BY ConnAssumption, NoneAssumption DEF DeviceIds
<1>4. Enforced(j.sanc) \subseteq Flags /\ Enforced(j.sanc) \cap Sanctions = j.sanc
  BY ZenonT(60), <1>2, EnforcedFacts, {} \in SUBSET LocalFlags
<1>5. /\ live' = live \cup {r}
      /\ members' = [members EXCEPT ![r] = @ \cup {u}]
      /\ device' = [device EXCEPT ![r][u] = ConnDevice[c]]
      /\ flags' = [flags EXCEPT ![r][u] = Enforced(j.sanc)]
  BY DEF JoinInsert
<1> HIDE DEF r, u, j
<1>6. MapTyped'
  BY <1>2, <1>3, <1>4, <1>5 DEF MapInv, MapTyped
<1>7. RoomShape'
  BY <1>2, <1>3, <1>5 DEF MapInv, MapTyped, RoomShape
<1>8. SanctionEnforced'
  <2> SUFFICES ASSUME NEW q \in Rooms, NEW v \in Users
               PROVE  Enforced(flags'[q][v] \cap Sanctions) \subseteq flags'[q][v]
    BY DEF SanctionEnforced
  <2>1. CASE q = r /\ v = u
    <3>1. flags'[q][v] = Enforced(j.sanc)
      BY <1>2, <1>5, <2>1 DEF MapInv, MapTyped
    <3> QED BY <1>4, <3>1
  <2>2. CASE q # r \/ v # u
    <3>1. flags'[q][v] = flags[q][v]
      BY <1>2, <1>5, <2>2 DEF MapInv, MapTyped
    <3> QED BY <3>1 DEF MapInv, SanctionEnforced
  <2> QED BY <2>1, <2>2
<1> QED BY <1>6, <1>7, <1>8 DEF MapInv

\* Writing the flags of one member under a sanction keeps the map correct.
LEMMA FlagsMap ==
    ASSUME MapInv, NEW r \in Rooms, NEW u \in members[r],
           NEW s \in SUBSET Sanctions, NEW req \in SUBSET LocalFlags,
           flags' = [flags EXCEPT ![r][u] = req \cup Enforced(s)],
           UNCHANGED <<live, members, device>>
    PROVE  MapInv'
<1>1. u \in Users
  BY DEF MapInv, MapTyped
<1>2. /\ req \cup Enforced(s) \subseteq Flags
      /\ (req \cup Enforced(s)) \cap Sanctions = s
      /\ Enforced(s) \subseteq req \cup Enforced(s)
  BY EnforcedFacts
<1> DEFINE f == req \cup Enforced(s)
<1>3. flags' = [flags EXCEPT ![r][u] = f]
  OBVIOUS
<1> HIDE DEF f
<1>4. MapTyped'
  BY <1>1, <1>2, <1>3 DEF MapInv, MapTyped, f
<1>5. RoomShape'
  BY <1>1, <1>3 DEF MapInv, MapTyped, RoomShape
<1>6. SanctionEnforced'
  <2> SUFFICES ASSUME NEW q \in Rooms, NEW v \in Users
               PROVE  Enforced(flags'[q][v] \cap Sanctions) \subseteq flags'[q][v]
    BY DEF SanctionEnforced
  <2>1. CASE q = r /\ v = u
    <3>1. flags'[q][v] = f
      BY <1>1, <1>3, <2>1 DEF MapInv, MapTyped
    <3> QED BY <1>2, <3>1 DEF f
  <2>2. CASE q # r \/ v # u
    <3>1. flags'[q][v] = flags[q][v]
      BY <1>1, <1>3, <2>2 DEF MapInv, MapTyped
    <3> QED BY <3>1 DEF MapInv, SanctionEnforced
  <2> QED BY <2>1, <2>2
<1> QED BY <1>4, <1>5, <1>6 DEF MapInv

\* Dropping a whole room keeps the map correct.
LEMMA DropRoomMap ==
    ASSUME MapInv, NEW r \in Rooms, DropRoom(r) PROVE MapInv'
<1>1. MapTyped'
  BY DEF MapInv, MapTyped, DropRoom, NoDevices, NoFlags
<1>2. RoomShape'
  BY DEF MapInv, MapTyped, RoomShape, DropRoom, NoDevices, NoFlags
<1>3. SanctionEnforced'
  BY DEF MapInv, MapTyped, SanctionEnforced, DropRoom, NoFlags, Enforced
<1> QED BY <1>1, <1>2, <1>3 DEF MapInv

\* A leaver who is not the last one takes its device and flags along.
LEMMA RmWriteMoreMap ==
    ASSUME MapInv, JobTyped, NEW c \in Conns, NEW t \in Tasks, RmWriteMore(c, t)
    PROVE  MapInv'
<1> DEFINE j == job[c][t]
           r == j.room
           u == j.who
<1>1. r \in Rooms /\ u \in Users
  BY BusyJob DEF RmWriteMore, Busy
<1>2. /\ members' = [members EXCEPT ![r] = @ \ {u}]
      /\ device' = [device EXCEPT ![r][u] = None]
      /\ flags' = [flags EXCEPT ![r][u] = {}]
      /\ live' = live
      /\ members[r] \ {u} # {}
  BY DEF RmWriteMore
<1> HIDE DEF r, u, j
<1>3. MapTyped'
  BY <1>1, <1>2 DEF MapInv, MapTyped
<1>4. RoomShape'
  BY <1>1, <1>2 DEF MapInv, MapTyped, RoomShape
<1>5. SanctionEnforced'
  BY <1>1, <1>2 DEF MapInv, MapTyped, SanctionEnforced, Enforced
<1> QED BY <1>3, <1>4, <1>5 DEF MapInv

\* No step of the system spoils the map.
LEMMA MapStep ==
    ASSUME MapInv, TypeOK, [Next]_vars PROVE MapInv'
<1>0. JobTyped
  BY DEF TypeOK
<1>1. CASE UNCHANGED <<live, members, device, flags>>
  BY <1>1 DEF MapInv, MapTyped, RoomShape, SanctionEnforced
<1>2. ASSUME NEW c \in Conns, JoinInsert(c) PROVE MapInv'
  BY <1>0, <1>2, JoinInsertMap
<1>3. ASSUME NEW c \in Conns, ControlApply(c) PROVE MapInv'
  <2> DEFINE j == job[c]["recv"]
  <2>1. j.room \in Rooms /\ j.sanc \in SUBSET Sanctions
    BY <1>0, <1>3, BusyJob DEF ControlApply, Busy, Tasks
  <2>2. CASE j.who \in members[j.room]
    <3>1. flags' = [flags EXCEPT ![j.room][j.who] = {} \cup Enforced(j.sanc)]
      BY <1>3, <2>2 DEF ControlApply
    <3>2. UNCHANGED <<live, members, device>>
      BY <1>3 DEF ControlApply
    <3> QED BY <2>1, <2>2, <3>1, <3>2, FlagsMap, {} \in SUBSET LocalFlags
  <2>3. CASE j.who \notin members[j.room]
    BY <1>1, <1>3, <2>3 DEF ControlApply
  <2> QED BY <2>2, <2>3
<1>4. ASSUME NEW c \in Conns, PlayWrite(c) PROVE MapInv'
  BY <1>1, <1>4 DEF PlayWrite
<1>5. ASSUME NEW c \in Conns, NEW t \in Tasks, RmWriteLast(c, t) PROVE MapInv'
  <2>1. job[c][t].room \in Rooms
    BY <1>0, <1>5, BusyJob DEF RmWriteLast, Busy
  <2> QED BY <1>5, <2>1, DropRoomMap DEF RmWriteLast
<1>6. ASSUME NEW c \in Conns, NEW t \in Tasks, RmWriteMore(c, t) PROVE MapInv'
  BY <1>0, <1>6, RmWriteMoreMap
<1>7. ASSUME NEW c \in Conns, NEW t \in Tasks, RmSlot(c, t) PROVE MapInv'
  BY <1>1, <1>7 DEF RmSlot
<1>8. ASSUME NEW c \in Conns, NEW r \in Rooms, NEW req \in SUBSET LocalFlags,
             VoiceState(c, r, req)
      PROVE  MapInv'
  <2>1. flags[r][ConnUser[c]] \cap Sanctions \in SUBSET Sanctions
    OBVIOUS
  <2> QED BY <1>8, <2>1, FlagsMap DEF VoiceState
<1>9. ASSUME NEW c \in Conns, NEW r \in Rooms, SoundboardStop(c, r) PROVE MapInv'
  BY <1>1, <1>9 DEF SoundboardStop
<1>10. ASSUME NEW s \in Servers, NEW u \in Users, ClearDisabledSlots(s, u) PROVE MapInv'
  BY <1>1, <1>10 DEF ClearDisabledSlots
<1>11. ASSUME NEW d \in DmRooms, UnfriendEndRoom(d) PROVE MapInv'
  BY <1>11, DropRoomMap DEF UnfriendEndRoom, Rooms
<1>12. CASE Restart
  BY <1>12 DEF Restart, MapInv, MapTyped, RoomShape, SanctionEnforced, NoDevices, NoFlags,
     Enforced
<1> QED BY <1>1, <1>2, <1>3, <1>4, <1>5, <1>6, <1>7, <1>8, <1>9, <1>10, <1>11, <1>12,
           RoomFrame DEF RoomWrites, roomVars

-----------------------------------------------------------------------------
(* The remaining types, one lemma per group of variables.                  *)

SlotsTyped ==
    /\ session \in [Rooms -> SessionIds \cup {None}]
    /\ slots \in [Rooms -> [Users -> Tokens \cup {None}]]

\* No step of the system spoils the type of the playback slots.
LEMMA SlotsStep ==
    ASSUME TypeOK, [Next]_vars PROVE SlotsTyped'
<1>0. JobTyped /\ RoomTyped /\ nextSession \in Nat /\ chanOpen \subseteq ServerRooms
  BY DEF TypeOK, SessTyped
<1>1. CASE UNCHANGED <<session, slots>>
  BY <1>0, <1>1 DEF RoomTyped, SlotsTyped
<1>2. ASSUME NEW c \in Conns, JoinInsert(c) PROVE SlotsTyped'
  <2>1. job[c]["recv"].room \in Rooms
    BY <1>0, <1>2, BusyJob DEF JoinInsert, Busy, Tasks
  <2>2. PICK sid \in SessionIds \cup {None} :
            session' = [session EXCEPT ![job[c]["recv"].room] = sid]
    BY <1>0, <1>2, <2>1 DEF JoinInsert, OpenSession, RoomTyped, SessionIds
  <2>3. slots' = slots
    BY <1>2 DEF JoinInsert
  <2> QED BY <1>0, <2>1, <2>2, <2>3 DEF RoomTyped, SlotsTyped
<1>3. ASSUME NEW c \in Conns, PlayWrite(c) PROVE SlotsTyped'
  <2> DEFINE j == job[c]["recv"]
  <2>1. j.room \in Rooms /\ j.who \in Users /\ j.tok \in Tokens \cup {None}
    BY <1>0, <1>3, BusyJob DEF PlayWrite, Tasks, Busy
  <2>2. \/ slots' = slots
        \/ slots' = [slots EXCEPT ![j.room][j.who] = j.tok]
    BY <1>3 DEF PlayWrite
  <2>3. session' = session
    BY <1>3 DEF PlayWrite
  <2> DEFINE r == j.room
             u == j.who
             k == j.tok
  <2> HIDE DEF j, r, u, k
  <2>4. r \in Rooms /\ u \in Users /\ k \in Tokens \cup {None}
    BY <2>1 DEF r, u, k
  <2>5. slots' = slots \/ slots' = [slots EXCEPT ![r][u] = k]
    BY <2>2 DEF r, u, k
  <2>6. slots \in [Rooms -> [Users -> Tokens \cup {None}]]
    BY <1>0 DEF RoomTyped
  <2>7. slots' \in [Rooms -> [Users -> Tokens \cup {None}]]
    BY <2>4, <2>5, <2>6
  <2> QED BY <1>0, <2>3, <2>7 DEF RoomTyped, SlotsTyped
<1>4. ASSUME NEW r \in Rooms, DropRoom(r) PROVE SlotsTyped'
  BY <1>0, <1>4 DEF DropRoom, NoSlots, RoomTyped, SlotsTyped
<1>5. ASSUME NEW r \in Rooms, NEW u \in Users, FreeSlot(r, u), UNCHANGED session PROVE SlotsTyped'
  BY <1>0, <1>5 DEF FreeSlot, RoomTyped, SlotsTyped
<1>6. ASSUME NEW c \in Conns, NEW t \in Tasks, RmWriteLast(c, t) \/ RmSlot(c, t) PROVE SlotsTyped'
  <2>1. job[c][t].room \in Rooms /\ job[c][t].who \in Users
    BY <1>0, <1>6, BusyJob DEF RmWriteLast, RmSlot, Busy
  <2> QED BY <1>4, <1>5, <1>6, <2>1 DEF RmWriteLast, RmSlot
<1>7. ASSUME NEW c \in Conns, NEW r \in Rooms, SoundboardStop(c, r) PROVE SlotsTyped'
  BY <1>5, <1>7, ConnAssumption DEF SoundboardStop
<1>8. ASSUME NEW s \in Servers, NEW u \in Users, ClearDisabledSlots(s, u) PROVE SlotsTyped'
  BY <1>0, <1>8 DEF ClearDisabledSlots, RoomTyped, SlotsTyped
<1>9. ASSUME NEW d \in DmRooms, UnfriendEndRoom(d) PROVE SlotsTyped'
  BY <1>4, <1>9 DEF UnfriendEndRoom, Rooms
<1>10. CASE Restart
  BY <1>10 DEF Restart, NoSlots, SlotsTyped
<1>11. ASSUME NEW c \in Conns, ControlApply(c) PROVE SlotsTyped'
  BY <1>1, <1>11 DEF ControlApply
<1>12. ASSUME NEW c \in Conns, NEW t \in Tasks, RmWriteMore(c, t) PROVE SlotsTyped'
  BY <1>1, <1>12 DEF RmWriteMore
<1>13. ASSUME NEW c \in Conns, NEW r \in Rooms, NEW req \in SUBSET LocalFlags,
              VoiceState(c, r, req)
       PROVE  SlotsTyped'
  BY <1>1, <1>13 DEF VoiceState
<1> QED BY <1>1, <1>2, <1>3, <1>6, <1>7, <1>8, <1>9, <1>10, <1>11, <1>12, <1>13, RoomFrame
    DEF RoomWrites, roomVars

\* No step of the system spoils the type of the connection state.
LEMMA ConnStep ==
    ASSUME TypeOK, [Next]_vars PROVE ConnTyped'
<1> DEFINE phases == {"new", "adding", "up", "closing", "collect", "gone"}
<1>0. ConnTyped
  BY DEF TypeOK
<1>1. CASE UNCHANGED connVars
  BY <1>0, <1>1 DEF ConnTyped, connVars
<1>2. ASSUME NEW c \in Conns, Connection(c) PROVE ConnTyped'
  BY <1>0, <1>2 DEF Connection, AddRetain, AddInsert, RecvEnds, SendEnds, Cancel, ConnTyped
<1>3. ASSUME NEW c \in Conns, NEW k, Takes(c, k) PROVE ConnTyped'
  BY <1>0, <1>3 DEF Takes, ConnTyped
<1>4. ASSUME NEW c \in Conns, Message(c) PROVE ConnTyped'
  BY <1>3, <1>4 DEF Message, JoinStart, VoiceLeave, VoiceLeaveAll, VoiceState, ControlRead,
     DmCallWaiting, DmCallDeclined, SoundboardPlay, SoundboardStop
<1>5. ASSUME NEW c \in Conns, NEW t \in Tasks, Remove(c, t) PROVE UNCHANGED connVars
  BY <1>5 DEF Remove, RmWriteGone, RmWriteLast, RmWriteMore, RmClear, RmSlot, RmMark
<1>6. ASSUME NEW c \in Conns, Handler(c) PROVE UNCHANGED connVars
  BY <1>5, <1>6 DEF Handler, Join, Control, JoinInsert, JoinKick, JoinCount, JoinMarker,
     ControlSet, ControlCheck, ControlApply, WaitSet, PlayWrite, Tasks
<1>7. ASSUME NEW c \in Conns, Supervisor(c) PROVE ConnTyped'
  <2>1. CASE RemoveConnection(c)
    BY <1>0, <2>1 DEF RemoveConnection, ConnTyped
  <2>2. CASE SupCollect(c)
    BY <1>0, <2>2 DEF SupCollect, ConnTyped
  <2> QED BY <1>1, <1>5, <1>7, <2>1, <2>2 DEF Supervisor, Tasks
<1>8. ASSUME NEW d \in DmRooms, Timers(d) \/ Unfriend(d) PROVE UNCHANGED connVars
  BY <1>8 DEF Timers, Unfriend, GraceCheck, GraceClear, MarkerAges, UnfriendEndRoom,
     UnfriendClear
<1>9. Request => ConnTyped'
  <2>1. ASSUME NEW k, Asks(k) PROVE ConnTyped'
    BY <1>0, <2>1 DEF Asks, ConnTyped
  <2> QED BY <1>1, <2>1 DEF Request, UploadTempPlay, CleanupTempPlay, Expire,
             DisableSoundboard, ClearDisabledSlots, EnableSoundboard, UnfriendDb, DeleteChannel
<1>91. Sweep => UNCHANGED connVars
  BY DEF Sweep, SweepList, SweepConnected, SweepInRoom, SweepClear
<1>10. Restart => ConnTyped'
  BY <1>0 DEF Restart, ConnTyped
<1>11. UNCHANGED vars => UNCHANGED connVars
  BY DEF vars
<1> QED BY <1>1, <1>2, <1>4, <1>6, <1>7, <1>8, <1>9, <1>91, <1>10, <1>11 DEF Next

\* Audio tokens, voice_sessions and voice_participants rows.
LEMMA StoreStep ==
    ASSUME TypeOK, [Next]_vars PROVE AudioTyped' /\ SessTyped'
<1>0. JobTyped /\ RoomTyped /\ AudioTyped /\ SessTyped
  BY DEF TypeOK
<1>1. ASSUME UNCHANGED audioVars PROVE AudioTyped'
  BY <1>0, <1>1 DEF AudioTyped, audioVars
<1>2. ASSUME UNCHANGED sessVars PROVE SessTyped'
  BY <1>0, <1>2 DEF SessTyped, sessVars
<1>3. ASSUME NEW r \in Rooms, NEW u \in Users, FreeSlot(r, u) PROVE AudioTyped'
  BY <1>0, <1>3 DEF FreeSlot, AudioTyped
<1>4. ASSUME NEW r \in Rooms, EndSession(r) PROVE open' \subseteq SessionIds
  BY <1>0, <1>4 DEF EndSession, SessTyped
<1>5. ASSUME NEW r \in Rooms, NEW u \in Users, MarkLeft(r, u)
      PROVE  present' \subseteq SessionIds \X Users /\ left' \subseteq SessionIds \X Users
  BY <1>0, <1>5 DEF MarkLeft, SessTyped
<1>6. ASSUME NEW c \in Conns, Connection(c) PROVE AudioTyped' /\ SessTyped'
  BY <1>1, <1>2, <1>6 DEF Connection, AddRetain, AddInsert, RecvEnds, SendEnds, Cancel
<1>7. ASSUME NEW c \in Conns, Message(c) PROVE AudioTyped' /\ SessTyped'
  <2>1. ASSUME NEW r \in Rooms, SoundboardStop(c, r) PROVE AudioTyped' /\ SessTyped'
    BY <1>2, <1>3, <2>1, ConnAssumption DEF SoundboardStop
  <2>2. ASSUME NEW r \in Rooms, NEW tok \in Tokens \cup {None}, SoundboardPlay(c, r, tok)
        PROVE  AudioTyped' /\ SessTyped'
    BY <1>0, <1>2, <2>2 DEF SoundboardPlay, AudioTyped
  <2> QED BY <1>1, <1>2, <1>7, <2>1, <2>2 DEF Message, JoinStart, VoiceLeave, VoiceLeaveAll,
             VoiceState, ControlRead, DmCallWaiting, DmCallDeclined
<1>8. ASSUME NEW c \in Conns, NEW t \in Tasks, Remove(c, t) PROVE AudioTyped' /\ SessTyped'
  <2>1. job[c][t].room \in Rooms /\ job[c][t].who \in Users
    BY <1>0, <1>8, BusyJob DEF Remove, RmWriteGone, RmWriteLast, RmWriteMore, RmClear,
       RmSlot, RmMark, Busy
  <2>2. CASE RmWriteLast(c, t)
    BY <1>0, <1>1, <1>4, <1>5, <2>1, <2>2 DEF RmWriteLast, SessTyped
  <2>3. CASE RmWriteMore(c, t)
    BY <1>0, <1>1, <1>5, <2>1, <2>3 DEF RmWriteMore, SessTyped
  <2>4. CASE RmSlot(c, t)
    BY <1>2, <1>3, <2>1, <2>4 DEF RmSlot
  <2> QED BY <1>1, <1>2, <1>8, <2>2, <2>3, <2>4 DEF Remove, RmWriteGone, RmClear, RmMark
<1>9. ASSUME NEW c \in Conns, Handler(c) PROVE AudioTyped' /\ SessTyped'
  <2> DEFINE j == job[c]["recv"]
  <2>1. CASE JoinInsert(c)
    <3>1. j.room \in Rooms /\ j.who \in Users
      BY <1>0, <2>1, BusyJob DEF JoinInsert, Busy, Tasks
    <3>2. /\ OpenSession(j.room, j.who)
          /\ UNCHANGED audioVars
      BY <2>1 DEF JoinInsert
    <3> DEFINE r == j.room
               fresh == r \notin live /\ r \in chanOpen
               sid == IF fresh THEN <<r, nextSession>> ELSE session[r]
    <3>3. nextSession \in Nat /\ session[r] \in SessionIds \cup {None}
      BY <1>0, <3>1 DEF RoomTyped, SessTyped
    <3>4. sid \in SessionIds \cup {None} /\ (fresh => sid \in SessionIds)
      BY <1>0, <3>3 DEF SessTyped, SessionIds
    <3>5. /\ chanOpen' = chanOpen /\ nextSession' \in Nat /\ left' = left
          /\ open' \subseteq open \cup (IF fresh THEN {sid} ELSE {})
          /\ present' \subseteq present \cup (IF sid = None THEN {} ELSE {<<sid, j.who>>})
      BY <3>2, <3>3 DEF OpenSession
    <3> HIDE DEF sid, fresh, r, j
    <3>6. SessTyped'
      BY <1>0, <3>1, <3>4, <3>5 DEF SessTyped
    <3> QED BY <1>1, <3>2, <3>6
  <2>2. CASE PlayWrite(c)
    BY <1>0, <1>2, <2>2 DEF PlayWrite, AudioTyped
  <2> QED BY <1>1, <1>2, <1>8, <1>9, <2>1, <2>2 DEF Handler, Join, Control, JoinKick,
             JoinCount, JoinMarker, ControlSet, ControlCheck, ControlApply, WaitSet, Tasks
<1>10. ASSUME NEW c \in Conns, Supervisor(c) PROVE AudioTyped' /\ SessTyped'
  BY <1>1, <1>2, <1>8, <1>10 DEF Supervisor, RemoveConnection, SupCollect, Tasks
<1>11. ASSUME NEW d \in DmRooms, Timers(d) \/ Unfriend(d) PROVE AudioTyped' /\ SessTyped'
  <2>1. CASE UnfriendEndRoom(d)
    BY <1>0, <1>1, <1>4, <2>1 DEF UnfriendEndRoom, SessTyped, Rooms
  <2> QED BY <1>1, <1>2, <1>11, <2>1 DEF Timers, Unfriend, GraceCheck, GraceClear,
             MarkerAges, UnfriendClear
<1>12. CASE Request
  <2>1. ASSUME NEW tok \in Tokens, NEW old \in SUBSET audio,
               UploadTempPlay(tok, old) \/ CleanupTempPlay(old)
        PROVE  AudioTyped' /\ SessTyped'
    BY <1>0, <1>2, <2>1 DEF UploadTempPlay, CleanupTempPlay, Expire, AudioTyped
  <2>2. ASSUME NEW old \in SUBSET audio, CleanupTempPlay(old)
        PROVE  AudioTyped' /\ SessTyped'
    BY <1>0, <1>2, <2>2 DEF CleanupTempPlay, Expire, AudioTyped
  <2>3. ASSUME NEW s \in Servers, NEW u \in Users, ClearDisabledSlots(s, u)
        PROVE  AudioTyped' /\ SessTyped'
    BY <1>0, <1>2, <2>3 DEF ClearDisabledSlots, AudioTyped
  <2>4. ASSUME NEW r \in ServerRooms, DeleteChannel(r) PROVE AudioTyped' /\ SessTyped'
    BY <1>0, <1>1, <2>4 DEF DeleteChannel, SessTyped
  <2> QED BY <1>1, <1>2, <1>12, <2>1, <2>2, <2>3, <2>4
          DEF Request, DisableSoundboard, EnableSoundboard, UnfriendDb
<1>13. CASE Sweep
  BY <1>1, <1>2, <1>13 DEF Sweep, SweepList, SweepConnected, SweepInRoom, SweepClear
<1>14. CASE Restart
  BY <1>0, <1>2, <1>14 DEF Restart, AudioTyped
<1>15. CASE UNCHANGED vars
  BY <1>1, <1>2, <1>15 DEF vars
<1> QED BY <1>6, <1>7, <1>9, <1>10, <1>11, <1>12, <1>13, <1>14, <1>15 DEF Next

\* Replacing one user's sanctions in one server keeps the table well typed.
LEMMA SanctionsTyped ==
    ASSUME NEW S \in [Servers -> [Users -> SUBSET Sanctions]],
           NEW s, NEW u, NEW f \in SUBSET Sanctions
    PROVE  [S EXCEPT ![s][u] = f] \in [Servers -> [Users -> SUBSET Sanctions]]
<1>1. ASSUME NEW m \in [Users -> SUBSET Sanctions]
      PROVE  [m EXCEPT ![u] = f] \in [Users -> SUBSET Sanctions]
  OBVIOUS
<1>2. CASE s \in Servers
  <2>1. [S[s] EXCEPT ![u] = f] \in [Users -> SUBSET Sanctions]
    BY <1>1, <1>2
  <2> QED BY <2>1
<1>3. CASE s \notin Servers
  BY <1>3
<1> QED BY <1>2, <1>3

\* Sanctions, waiting markers, timers, sweep and requests.
LEMMA TablesStep ==
    ASSUME TypeOK, [Next]_vars PROVE ModTyped' /\ WaitTyped' /\ TaskTyped'
<1> DEFINE tables == <<modVars, waitVars, dmOpen, taskVars, restarts>>
<1>0. JobTyped /\ RoomTyped /\ ModTyped /\ WaitTyped /\ TaskTyped
  BY DEF TypeOK
<1>1. ASSUME UNCHANGED modVars PROVE ModTyped'
  BY <1>0, <1>1 DEF ModTyped, modVars
<1>2. ASSUME UNCHANGED <<waitVars, dmOpen>> PROVE WaitTyped'
  BY <1>0, <1>2 DEF WaitTyped, waitVars
<1>3. ASSUME UNCHANGED <<taskVars, restarts>> PROVE TaskTyped'
  BY <1>0, <1>3 DEF TaskTyped, taskVars
<1>4. ASSUME NEW d \in DmRooms, ClearWaiting(d), dmOpen' \subseteq DmRooms PROVE WaitTyped'
  BY <1>0, <1>4 DEF ClearWaiting, WaitTyped
<1>5. ASSUME NEW d, NEW u \in Users, SetWaiting(d, u), UNCHANGED dmOpen PROVE WaitTyped'
  BY <1>0, <1>5 DEF SetWaiting, WaitTyped
<1>6. ASSUME NEW d, ClearWaiting(d), UNCHANGED dmOpen PROVE WaitTyped'
  BY <1>0, <1>6 DEF ClearWaiting, WaitTyped
<1>7. ASSUME NEW c \in Conns, Connection(c) \/ Message(c) PROVE UNCHANGED tables
  BY <1>7 DEF Connection, AddRetain, AddInsert, RecvEnds, SendEnds, Cancel, Message,
     JoinStart, VoiceLeave, VoiceLeaveAll, VoiceState, ControlRead, DmCallWaiting,
     DmCallDeclined, SoundboardPlay, SoundboardStop
<1>8. ASSUME NEW c \in Conns, NEW t \in Tasks, Remove(c, t)
      PROVE  ModTyped' /\ WaitTyped' /\ TaskTyped'
  <2> DEFINE j == job[c][t]
  <2>1. CASE RmClear(c, t)
    BY <1>1, <1>3, <1>6, <2>1 DEF RmClear
  <2>2. CASE RmMark(c, t)
    <3>1. j \in Busy
      BY <1>0, <2>2, BusyJob DEF RmMark
    <3>2. SetWaiting(j.room, j.next) /\ UNCHANGED dmOpen
      BY <2>2 DEF RmMark
    <3>3. j.next \in Users \cup {None}
      BY <3>1 DEF Busy
    <3>4. WaitTyped'
      BY <1>0, <3>2, <3>3 DEF SetWaiting, WaitTyped
    <3> QED BY <1>1, <1>3, <2>2, <3>4 DEF RmMark
  <2>3. CASE RmWriteLast(c, t)
    <3>1. grace' \in [DmRooms -> Nat]
      BY <1>0, <2>3 DEF RmWriteLast, TaskTyped
    <3>2. TaskTyped'
      BY <1>0, <2>3, <3>1 DEF RmWriteLast, TaskTyped
    <3> QED BY <1>1, <1>2, <2>3, <3>2 DEF RmWriteLast
  <2> QED BY <1>1, <1>2, <1>3, <1>8, <2>1, <2>2, <2>3 DEF Remove, RmWriteGone,
             RmWriteMore, RmSlot
<1>9. ASSUME NEW c \in Conns, Handler(c) PROVE ModTyped' /\ WaitTyped' /\ TaskTyped'
  <2> DEFINE j == job[c]["recv"]
  <2>1. CASE JoinMarker(c) \/ WaitSet(c)
    <3>1. j.who \in Users
      BY <1>0, <2>1, BusyJob DEF JoinMarker, WaitSet, Busy, Tasks
    <3>2. WaitTyped'
      BY <1>5, <1>6, <2>1, <3>1 DEF JoinMarker, WaitSet
    <3> QED BY <1>1, <1>3, <2>1, <3>2 DEF JoinMarker, WaitSet
  <2>2. CASE ControlSet(c)
    <3>1. j.sanc \in SUBSET Sanctions
      BY <1>0, <2>2, BusyJob DEF ControlSet, Busy, Tasks
    <3>2. sanction \in [Servers -> [Users -> SUBSET Sanctions]]
             /\ disabled \in [Servers -> SUBSET Users]
      BY <1>0 DEF ModTyped
    <3>3. [sanction EXCEPT ![j.srv][j.who] = j.sanc]
              \in [Servers -> [Users -> SUBSET Sanctions]]
      BY <3>1, <3>2, SanctionsTyped
    <3>4. ModTyped'
      BY <2>2, <3>2, <3>3 DEF ControlSet, ModTyped
    <3> QED BY <1>2, <1>3, <2>2, <3>4 DEF ControlSet
  <2> QED BY <1>1, <1>2, <1>3, <1>8, <1>9, <2>1, <2>2 DEF Handler, Join, Control,
             JoinInsert, JoinKick, JoinCount, ControlCheck, ControlApply, PlayWrite, Tasks
<1>10. ASSUME NEW c \in Conns, Supervisor(c) PROVE ModTyped' /\ WaitTyped' /\ TaskTyped'
  BY <1>1, <1>2, <1>3, <1>8, <1>10 DEF Supervisor, RemoveConnection, SupCollect, Tasks
<1>11. ASSUME NEW d \in DmRooms, Timers(d) \/ Unfriend(d)
       PROVE  ModTyped' /\ WaitTyped' /\ TaskTyped'
  <2>1. CASE GraceCheck(d)
    BY <1>0, <1>1, <1>2, <2>1 DEF GraceCheck, TaskTyped
  <2>2. CASE GraceClear(d)
    BY <1>0, <1>1, <1>6, <2>2 DEF GraceClear, TaskTyped
  <2>3. CASE MarkerAges(d)
    BY <1>0, <1>1, <1>3, <2>3 DEF MarkerAges, WaitTyped
  <2>4. CASE UnfriendEndRoom(d)
    BY <1>0, <1>1, <1>2, <2>4 DEF UnfriendEndRoom, TaskTyped
  <2>5. CASE UnfriendClear(d)
    BY <1>0, <1>1, <1>6, <2>5 DEF UnfriendClear, TaskTyped
  <2> QED BY <1>11, <2>1, <2>2, <2>3, <2>4, <2>5 DEF Timers, Unfriend
<1>12. CASE Request
  <2>1. ASSUME NEW d \in DmRooms, UnfriendDb(d) PROVE ModTyped' /\ WaitTyped' /\ TaskTyped'
    <3>1. dmOpen' \subseteq DmRooms
      BY <1>0, <2>1 DEF UnfriendDb, WaitTyped
    <3> QED BY <1>0, <1>1, <1>4, <2>1, <3>1 DEF UnfriendDb, TaskTyped
  <2>2. ASSUME NEW s \in Servers, NEW u \in Users,
               DisableSoundboard(s, u) \/ ClearDisabledSlots(s, u) \/ EnableSoundboard(s, u)
        PROVE  ModTyped' /\ WaitTyped' /\ TaskTyped'
    BY <1>0, <1>1, <1>2, <1>3, <2>2 DEF DisableSoundboard, ClearDisabledSlots,
       EnableSoundboard, ModTyped, TaskTyped, taskVars
  <2> QED BY <1>1, <1>2, <1>3, <1>12, <2>1, <2>2 DEF Request, UploadTempPlay,
          CleanupTempPlay, Expire, DeleteChannel
<1>13. CASE Sweep
  <2>1. CASE SweepList
    <3>1. {<<d, waiting[d]>> : d \in {e \in aged : waiting[e] # None}}
              \in SUBSET (DmRooms \X Users)
      BY <1>0 DEF WaitTyped
    <3>2. TaskTyped'
      BY <1>0, <2>1, <3>1 DEF SweepList, SetSweep, TaskTyped, SweepPCs
    <3> QED BY <1>1, <1>2, <2>1, <3>2 DEF SweepList
  <2>2. CASE SweepConnected
    <3>1. TaskTyped'
      BY <1>0, <2>2 DEF SweepConnected, SetSweep, SweepIdle, TaskTyped, SweepPCs
    <3> QED BY <1>1, <1>2, <2>2, <3>1 DEF SweepConnected
  <2>3. CASE SweepInRoom
    <3>1. TaskTyped'
      BY <1>0, <2>3 DEF SweepInRoom, SetSweep, TaskTyped, SweepPCs
    <3> QED BY <1>1, <1>2, <2>3, <3>1 DEF SweepInRoom
  <2>4. CASE SweepClear
    <3>1. TaskTyped'
      BY <1>0, <2>4 DEF SweepClear, SetSweep, TaskTyped, SweepPCs
    <3> QED BY <1>1, <1>6, <2>4, <3>1 DEF SweepClear
  <2> QED BY <1>13, <2>1, <2>2, <2>3, <2>4 DEF Sweep
<1>14. CASE Restart
  BY <1>0, <1>1, <1>14 DEF Restart, WaitTyped, TaskTyped, SweepIdle, SweepPCs
<1>15. CASE UNCHANGED vars
  BY <1>1, <1>2, <1>3, <1>15 DEF vars
<1> QED BY <1>1, <1>2, <1>3, <1>7, <1>9, <1>10, <1>11, <1>12, <1>13, <1>14, <1>15
    DEF Next

-----------------------------------------------------------------------------
(* The theorems.                                                           *)

IInv == TypeOK /\ RoomShape /\ SanctionEnforced

\* The initial states satisfy the inductive invariant.
LEMMA InitIInv == Init => IInv
<1> SUFFICES ASSUME Init PROVE IInv
  OBVIOUS
<1>1. ConnTyped /\ JobTyped /\ AudioTyped /\ SessTyped /\ ModTyped
  BY DEF Init, ConnTyped, JobTyped, AudioTyped, SessTyped, ModTyped
<1>2. RoomTyped
  BY DEF Init, RoomTyped, NoDevices, NoFlags, NoSlots
<1>3. WaitTyped /\ TaskTyped
  BY DEF Init, WaitTyped, TaskTyped, SweepIdle, SweepPCs
<1>4. RoomShape
  BY DEF Init, RoomShape, NoDevices, NoFlags
<1>5. SanctionEnforced
  BY DEF Init, SanctionEnforced, NoFlags, Enforced
<1> QED BY <1>1, <1>2, <1>3, <1>4, <1>5 DEF IInv, TypeOK

\* Every step keeps the inductive invariant.
LEMMA IInvStep == IInv /\ [Next]_vars => IInv'
<1> SUFFICES ASSUME IInv, [Next]_vars PROVE IInv'
  OBVIOUS
<1>1. TypeOK /\ MapInv
  BY DEF IInv, TypeOK, RoomTyped, MapInv, MapTyped
<1>2. JobTyped' /\ MapInv' /\ SlotsTyped' /\ ConnTyped'
  BY <1>1, JobStep, MapStep, SlotsStep, ConnStep
<1>3. AudioTyped' /\ SessTyped' /\ ModTyped' /\ WaitTyped' /\ TaskTyped'
  BY <1>1, StoreStep, TablesStep
<1>4. RoomTyped'
  BY <1>2 DEF MapInv, MapTyped, SlotsTyped, RoomTyped
<1> QED BY <1>2, <1>3, <1>4 DEF IInv, TypeOK, MapInv

\* The inductive invariant holds in every reachable state.
LEMMA IInvAlways == Spec => []IInv
BY InitIInv, IInvStep, PTL DEF Spec

\* Every variable keeps its type, for any number of accounts, devices,
\* connections, rooms and messages.
THEOREM TypeCorrect == Spec => []TypeOK
BY IInvAlways, PTL DEF IInv

\* No empty voice room stays in the map and device_map always has exactly the
\* members, whatever joins, leaves, kicks, disconnects and unfriends interleave.
THEOREM RoomShapeCorrect == Spec => []RoomShape
BY IInvAlways, PTL DEF IInv

\* A member under a sanction stays muted, and deafened, in every interleaving
\* of its own state messages, its joins and the moderators' controls.
THEOREM SanctionCorrect == Spec => []SanctionEnforced
BY IInvAlways, PTL DEF IInv

-----------------------------------------------------------------------------
(* How a task's job changes.                                               *)

\* Connection c may act on the member job k is about.
Entitled(c, k) == ConnUser[c] = k.who \/ ModeratesIn(k, ConnUser[c], k.who)

\* From job j to job k: the task ends, begins with somebody it is entitled to
\* act on, puts a caller in the waiting state, takes an uploaded clip, or goes
\* on with the member it works on.
Moved(c, j, k) ==
    \/ k = Idle
    \/ k.pc \notin {"play_write", "decline_set"} /\ Entitled(c, k)
    \/ k.pc = "decline_set"
    \/ /\ k.pc = "play_write" /\ Entitled(c, k)
       /\ \E r \in Rooms, tok \in Tokens \cup {None} : SoundboardPlay(c, r, tok)
    \/ /\ j.pc \notin {"idle", "decline_set"} /\ k.who = j.who /\ k.srv = j.srv
       /\ k.pc \notin {"play_write", "decline_set"}

OneJobMoves ==
    \E c \in Conns, t \in Tasks : \E k : SetJob(c, t, k) /\ Moved(c, job[c][t], k)

\* The rooms a device occupies are left on behalf of its own account.
LEMMA CollectMoves ==
    ASSUME NEW c \in Conns, NEW t \in Tasks, CollectRooms(c, t)
    PROVE  OneJobMoves
<1> DEFINE todo == Occupied(ConnUser[c], ConnDevice[c])
<1>1. CASE todo = {}
  <2>1. SetJob(c, t, Idle) /\ Moved(c, job[c][t], Idle)
    BY <1>1 DEF CollectRooms, Moved
  <2> QED BY <2>1 DEF OneJobMoves
<1>2. CASE todo # {}
  <2>1. PICK r \in todo :
            SetJob(c, t, [Doing("rm_write", r, ConnUser[c], "drop", {}) EXCEPT
                             !.todo = todo \ {r}])
    BY <1>2 DEF CollectRooms
  <2> DEFINE k == [Doing("rm_write", r, ConnUser[c], "drop", {}) EXCEPT !.todo = todo \ {r}]
  <2>2. k.pc = "rm_write" /\ k.who = ConnUser[c]
    BY DEF Doing
  <2>3. Moved(c, job[c][t], k)
    BY <2>2 DEF Moved, Entitled
  <2> QED BY <2>1, <2>3 DEF OneJobMoves
<1> QED BY <1>1, <1>2

\* What a client's message makes its receive task begin with.
LEMMA MessageMoves ==
    ASSUME NEW c \in Conns, Message(c)
    PROVE  UNCHANGED job \/ OneJobMoves
<1>0. "recv" \in Tasks
  BY DEF Tasks
<1>1. ASSUME NEW p, NEW r, NEW u, NEW h, NEW s, p # "play_write",
             p = "decline_set" \/ ConnUser[c] = u,
             SetJob(c, "recv", Doing(p, r, u, h, s))
      PROVE  OneJobMoves
  <2>1. Doing(p, r, u, h, s).pc = p /\ Doing(p, r, u, h, s).who = u
    BY DEF Doing
  <2>2. Moved(c, job[c]["recv"], Doing(p, r, u, h, s))
    BY <1>1, <2>1 DEF Moved, Entitled
  <2> QED BY <1>0, <1>1, <2>2 DEF OneJobMoves
<1>2. ASSUME SetJob(c, "recv", Idle) PROVE OneJobMoves
  BY <1>0, <1>2 DEF OneJobMoves, Moved
<1>4. ASSUME NEW r \in Rooms, JoinStart(c, r) \/ VoiceLeave(c, r) PROVE OneJobMoves
  BY <1>1, <1>2, <1>4 DEF JoinStart, VoiceLeave
<1>5. CASE VoiceLeaveAll(c)
  BY <1>0, <1>5, CollectMoves DEF VoiceLeaveAll
<1>6. ASSUME NEW v \in Servers, NEW r \in ServerRooms, NEW act \in ControlActions,
             NEW u \in Users, ControlRead(c, v, r, act, u)
      PROVE  OneJobMoves
  <2> DEFINE k == ControlJob(v, r, act, u)
  <2>1. k.pc \in {"ctl_check", "ctl_set"} /\ k.who = u /\ k.srv = v
    BY DEF ControlJob, Doing
  <2>2. SetJob(c, "recv", k) /\ <<ConnUser[c], u>> \in Moderates[v]
    BY <1>6 DEF ControlRead
  <2> HIDE DEF k
  <2>3. Moved(c, job[c]["recv"], k)
    BY <2>1, <2>2 DEF Moved, Entitled, ModeratesIn
  <2> QED BY <1>0, <2>2, <2>3 DEF OneJobMoves
<1>7. ASSUME NEW d \in DmRooms, DmCallWaiting(c, d) \/ DmCallDeclined(c, d)
      PROVE  OneJobMoves
  BY <1>1, <1>2, <1>7 DEF DmCallWaiting, DmCallDeclined
<1>8. ASSUME NEW r \in Rooms, NEW tok \in Tokens \cup {None}, SoundboardPlay(c, r, tok)
      PROVE  OneJobMoves
  <2> DEFINE k == [Doing("play_write", r, ConnUser[c], "none", {}) EXCEPT !.tok = tok]
  <2>1. k.pc = "play_write" /\ k.who = ConnUser[c] /\ k.tok = tok
    BY DEF Doing
  <2>2. SetJob(c, "recv", k)
    BY <1>8 DEF SoundboardPlay
  <2>3. Moved(c, job[c]["recv"], k)
    BY <1>8, <2>1 DEF Moved, Entitled
  <2> QED BY <1>0, <2>2, <2>3 DEF OneJobMoves
<1> QED BY <1>4, <1>5, <1>6, <1>7, <1>8 DEF Message, SoundboardStop, VoiceState

\* A task goes on with the member it works on, or ends.
LEMMA StepMoves ==
    ASSUME JobTyped, NEW c \in Conns, NEW t \in Tasks,
           \/ Remove(c, t)
           \/ t = "recv" /\ (Join(c) \/ Control(c) \/ WaitSet(c) \/ PlayWrite(c))
    PROVE  OneJobMoves
<1> DEFINE j == job[c][t]
<1>1. ASSUME SetJob(c, t, Idle) PROVE OneJobMoves
  BY <1>1 DEF OneJobMoves, Moved
<1>2. ASSUME NEW k, SetJob(c, t, k), k.who = j.who, k.srv = j.srv,
             j.pc \notin {"idle", "decline_set"}, k.pc \notin {"play_write", "decline_set"}
      PROVE  OneJobMoves
  BY <1>2 DEF OneJobMoves, Moved
<1>3. ASSUME NEW p, p \notin {"play_write", "decline_set"}, j \in Busy
      PROVE  /\ [j EXCEPT !.pc = p].pc = p /\ [j EXCEPT !.pc = p].who = j.who
             /\ [j EXCEPT !.pc = p].srv = j.srv
  BY <1>3 DEF Busy
<1>4. ASSUME NEW k \in Continue(j), SetJob(c, t, k), j \in Busy,
             j.pc \notin {"idle", "decline_set"}
      PROVE  OneJobMoves
  <2>1. CASE j.todo = {}
    BY <1>1, <1>4, <2>1 DEF Continue
  <2>2. CASE j.todo # {}
    <3>1. PICK r \in j.todo :
              k = [j EXCEPT !.pc = "rm_write", !.room = r, !.todo = @ \ {r}, !.next = None]
      BY <1>4, <2>2 DEF Continue
    <3>2. k.pc = "rm_write" /\ k.who = j.who /\ k.srv = j.srv
      BY <1>4, <3>1 DEF Busy
    <3> QED BY <1>2, <1>4, <3>2
  <2> QED BY <2>1, <2>2
<1>5. CASE Remove(c, t)
  <2>1. j \in Busy
    BY <1>5, BusyJob DEF Remove, RmWriteGone, RmWriteLast, RmWriteMore, RmClear, RmSlot, RmMark
  <2>2. j.pc \notin {"idle", "decline_set"}
    BY <1>5 DEF Remove, RmWriteGone, RmWriteLast, RmWriteMore, RmClear, RmSlot, RmMark
  <2>3. CASE RmWriteMore(c, t)
    <3>1. PICK m \in members[j.room] \ {j.who} :
              SetJob(c, t, [j EXCEPT !.pc = "rm_slot",
                                     !.next = IF j.room \in DmRooms THEN m ELSE None])
      BY <2>3 DEF RmWriteMore
    <3> DEFINE k == [j EXCEPT !.pc = "rm_slot",
                              !.next = IF j.room \in DmRooms THEN m ELSE None]
    <3>2. k.pc = "rm_slot" /\ k.who = j.who /\ k.srv = j.srv
      BY <2>1 DEF Busy
    <3> QED BY <1>2, <2>2, <3>1, <3>2
  <2>4. CASE RmClear(c, t) \/ RmMark(c, t)
    BY <1>4, <2>1, <2>2, <2>4 DEF RmClear, RmMark
  <2>7. CASE RmWriteGone(c, t)
    <3>1. ASSUME SetJob(c, t, [j EXCEPT !.pc = "rm_gone"]) PROVE OneJobMoves
      BY <1>2, <1>3, <2>1, <2>2, <3>1
    <3> QED BY <2>7, <3>1 DEF RmWriteGone
  <2>5. CASE RmWriteLast(c, t)
    <3>1. ASSUME SetJob(c, t, [j EXCEPT !.pc = "rm_clear"]) PROVE OneJobMoves
      BY <1>2, <1>3, <2>1, <2>2, <3>1
    <3> QED BY <1>4, <2>1, <2>2, <2>5, <3>1 DEF RmWriteLast
  <2>6. CASE RmSlot(c, t)
    <3>1. ASSUME SetJob(c, t, [j EXCEPT !.pc = "rm_mark"]) PROVE OneJobMoves
      BY <1>2, <1>3, <2>1, <2>2, <3>1
    <3> QED BY <1>4, <2>1, <2>2, <2>6, <3>1 DEF RmSlot
  <2> QED BY <1>5, <2>3, <2>4, <2>5, <2>6, <2>7 DEF Remove
<1>6. CASE t = "recv" /\ (JoinInsert(c) \/ JoinKick(c) \/ JoinCount(c) \/ Control(c))
  <2>1. j \in Busy
    BY <1>6, BusyJob DEF JoinInsert, JoinKick, JoinCount, Control, ControlSet, ControlCheck,
       ControlApply
  <2>2. ASSUME NEW p, p \notin {"play_write", "decline_set"}, SetJob(c, t, [j EXCEPT !.pc = p]),
               j.pc \notin {"idle", "decline_set"}
        PROVE  OneJobMoves
    BY <1>2, <1>3, <2>1, <2>2
  <2>3. CASE JoinInsert(c)
    <3> DEFINE p == IF j.who \in members[j.room] /\ ConnDevice[c] # NoDevice
                    THEN "join_kick" ELSE "join_count"
    <3>1. SetJob(c, t, [j EXCEPT !.pc = p]) /\ j.pc = "join_insert"
      BY <1>6, <2>3 DEF JoinInsert
    <3>2. p \notin {"play_write", "decline_set"}
      OBVIOUS
    <3> HIDE DEF p
    <3> QED BY <2>2, <3>1, <3>2
  <2>4. CASE JoinKick(c) \/ ControlSet(c)
    BY <1>6, <2>2, <2>4 DEF JoinKick, ControlSet
  <2>5. CASE JoinCount(c)
    BY <1>1, <1>6, <2>2, <2>5 DEF JoinCount
  <2>6. CASE ControlCheck(c)
    <3>1. \/ SetJob(c, t, Idle)
          \/ SetJob(c, t, [j EXCEPT !.pc = "rm_write"])
          \/ SetJob(c, t, [j EXCEPT !.pc = "ctl_apply"])
      BY <1>6, <2>6 DEF ControlCheck
    <3> QED BY <1>1, <1>6, <2>2, <2>6, <3>1 DEF ControlCheck
  <2>7. CASE ControlApply(c)
    BY <1>1, <1>6, <2>7 DEF ControlApply
  <2> QED BY <1>6, <2>3, <2>4, <2>5, <2>6, <2>7 DEF Control
<1>7. CASE t = "recv" /\ (JoinMarker(c) \/ WaitSet(c) \/ PlayWrite(c))
  BY <1>1, <1>7 DEF JoinMarker, WaitSet, PlayWrite
<1> QED BY <1>5, <1>6, <1>7 DEF Join

\* Every step moves one job, or none, or is a restart.
LEMMA JobMoves ==
    ASSUME TypeOK, [Next]_vars
    PROVE  \/ UNCHANGED job
           \/ OneJobMoves
           \/ Restart /\ job' = [c \in Conns |-> [t \in Tasks |-> Idle]]
<1>0. JobTyped /\ "recv" \in Tasks /\ "sup" \in Tasks
  BY DEF TypeOK, Tasks
<1>1. ASSUME NEW c \in Conns, Connection(c) PROVE UNCHANGED job \/ OneJobMoves
  <2>1. CASE Cancel(c)
    BY <1>0, <2>1 DEF Cancel, OneJobMoves, Moved
  <2> QED BY <1>1, <2>1 DEF Connection, AddRetain, AddInsert, RecvEnds, SendEnds
<1>2. ASSUME NEW c \in Conns, Handler(c) PROVE OneJobMoves
  BY <1>0, <1>2, StepMoves DEF Handler
<1>3. ASSUME NEW c \in Conns, Supervisor(c) PROVE UNCHANGED job \/ OneJobMoves
  BY <1>0, <1>3, StepMoves, CollectMoves DEF Supervisor, RemoveConnection, SupCollect
<1>4. CASE Restart
  BY <1>4 DEF Restart
<1>5. CASE UNCHANGED vars
  BY <1>5 DEF vars
<1> QED BY <1>1, <1>2, <1>3, <1>4, <1>5, MessageMoves, OthersJob DEF Next

-----------------------------------------------------------------------------
(* Evictions: whoever takes a member out is entitled to.                   *)

\* A task works on a member it is entitled to act on: its own account, or one
\* its user outranks; only a declined call concerns the caller.
JobsOwned ==
    \A c \in Conns, t \in Tasks :
        job[c][t].pc \notin {"idle", "decline_set"} => Entitled(c, job[c][t])

\* No step makes a task work on somebody else's behalf.
LEMMA OwnedStep ==
    ASSUME TypeOK, JobsOwned, [Next]_vars PROVE JobsOwned'
<1>1. CASE UNCHANGED job
  BY <1>1 DEF JobsOwned, Entitled, ModeratesIn
<1>2. CASE Restart /\ job' = [c \in Conns |-> [t \in Tasks |-> Idle]]
  BY <1>2 DEF JobsOwned, Idle
<1>3. CASE OneJobMoves
  <2>0. PICK c \in Conns, t \in Tasks : \E k : SetJob(c, t, k) /\ Moved(c, job[c][t], k)
    BY <1>3 DEF OneJobMoves
  <2>1. PICK k : SetJob(c, t, k) /\ Moved(c, job[c][t], k)
    BY <2>0
  <2>2. ASSUME NEW d \in Conns, NEW s \in Tasks
        PROVE  job'[d][s] = IF d = c /\ s = t THEN k ELSE job[d][s]
    BY <2>1 DEF SetJob, TypeOK, JobTyped
  <2>3. k.pc \notin {"idle", "decline_set"} => Entitled(c, k)
    BY <2>1 DEF Moved, JobsOwned, Idle, Entitled, ModeratesIn
  <2> QED BY <2>2, <2>3 DEF JobsOwned, Entitled, ModeratesIn
<1> QED BY <1>1, <1>2, <1>3, JobMoves

\* Each task works on a member it is entitled to act on.
LEMMA OwnedAlways == Spec => []JobsOwned
<1>1. Init => JobsOwned
  BY DEF Init, JobsOwned, Idle
<1>2. IInv => TypeOK
  BY DEF IInv
<1> QED BY <1>1, <1>2, OwnedStep, IInvAlways, PTL DEF Spec

Evicted(r, u) == u \in members[r] /\ u \notin members'[r]
ByATask(r, u) ==
    \E c \in Conns, t \in Tasks :
        /\ job[c][t].pc = "rm_write" /\ job[c][t].room = r
        /\ job[c][t].who = u
        /\ ConnUser[c] = u \/ ModeratesIn(job[c][t], ConnUser[c], u)

\* The steps that take somebody out of a room, and whom.
LEMMA EvictionStep ==
    ASSUME IInv, JobsOwned, [Next]_vars, NEW r \in Rooms, NEW u \in Users, Evicted(r, u)
    PROVE  \/ ByATask(r, u)
           \/ r \in DmRooms /\ unfriend[r] = "end_room"
           \/ restarts' # restarts
<1>0. JobTyped /\ RoomTyped /\ TaskTyped
  BY DEF IInv, TypeOK
<1>1. ASSUME NEW c \in Conns, NEW t \in Tasks, job[c][t].pc = "rm_write",
             job[c][t].room = r, job[c][t].who = u
      PROVE  ByATask(r, u)
  BY <1>1 DEF JobsOwned, Entitled, ByATask
<1>2. ASSUME NEW c \in Conns, NEW t \in Tasks, RmWriteLast(c, t)
      PROVE  ByATask(r, u)
  <2>1. r = job[c][t].room /\ u = job[c][t].who
    BY <1>0, <1>2 DEF RmWriteLast, DropRoom, Evicted, RoomTyped
  <2> QED BY <1>1, <1>2, <2>1 DEF RmWriteLast
<1>3. ASSUME NEW c \in Conns, NEW t \in Tasks, RmWriteMore(c, t)
      PROVE  ByATask(r, u)
  <2>1. r = job[c][t].room /\ u = job[c][t].who
    BY <1>0, <1>3 DEF RmWriteMore, Evicted, RoomTyped
  <2> QED BY <1>1, <1>3, <2>1 DEF RmWriteMore
<1>4. ASSUME NEW d \in DmRooms, UnfriendEndRoom(d)
      PROVE  r \in DmRooms /\ unfriend[r] = "end_room"
  BY <1>0, <1>4 DEF UnfriendEndRoom, DropRoom, Evicted, RoomTyped
<1>5. CASE Restart
  BY <1>0, <1>5 DEF Restart, TaskTyped
<1>6. ASSUME NEW c \in Conns, JoinInsert(c)
      PROVE  FALSE
  BY <1>0, <1>6 DEF JoinInsert, Evicted, RoomTyped
<1>7. ASSUME UNCHANGED members
      PROVE  FALSE
  BY <1>7 DEF Evicted
<1>8. CASE \/ \E c \in Conns : ControlApply(c) \/ PlayWrite(c)
           \/ \E c \in Conns, t \in Tasks : RmSlot(c, t)
           \/ \E c \in Conns, q \in Rooms, req \in SUBSET LocalFlags : VoiceState(c, q, req)
           \/ \E c \in Conns, q \in Rooms : SoundboardStop(c, q)
           \/ \E s \in Servers, v \in Users : ClearDisabledSlots(s, v)
           \/ UNCHANGED roomVars
  BY <1>7, <1>8 DEF ControlApply, PlayWrite, RmSlot, VoiceState, SoundboardStop,
     ClearDisabledSlots, roomVars
<1> QED BY <1>2, <1>3, <1>4, <1>5, <1>6, <1>8, RoomFrame DEF RoomWrites

\* Whatever handlers, clean-ups and aborts cross, a member is taken out of a
\* call only by a task of its own account, by one of a moderator who outranks
\* it in the server the control message named, by the end of the friendship or
\* by a restart.  That the server is the room's own is not said: the code does
\* not check it (EvictedByOwnServer).
THEOREM EvictionCorrect == Spec => EvictionAuthorized
<1> DEFINE A == \A r \in Rooms, u \in Users : Evicted(r, u) =>
                    \/ ByATask(r, u)
                    \/ r \in DmRooms /\ unfriend[r] = "end_room"
                    \/ restarts' # restarts
<1>1. IInv /\ JobsOwned /\ [Next]_vars => [A]_vars
  BY EvictionStep
<1>2. Spec => [][A]_vars
  <2> HIDE DEF A
  <2> QED BY <1>1, IInvAlways, OwnedAlways, PTL DEF Spec
<1> QED BY <1>2 DEF EvictionAuthorized, Evicted, ByATask

-----------------------------------------------------------------------------
(* voice_sessions and voice_participants against the map.                  *)

\* Only a room in the map has a session, and it is one of its own channel.
OneSession == \A r \in Rooms : session[r] # None => r \in live /\ session[r][1] = r

SessInv == OneSession /\ SessionsMatchRooms /\ PresentAreMembers

CallVars == <<live, members, session, sessVars, restarts>>
CallWrites ==
    \/ \E c \in Conns : JoinInsert(c)
    \/ \E c \in Conns, t \in Tasks : RmWriteLast(c, t) \/ RmWriteMore(c, t)
    \/ \E d \in DmRooms : UnfriendEndRoom(d)
    \/ \E r \in ServerRooms : DeleteChannel(r)
    \/ Restart

\* Only these steps touch a room's members or its session.
LEMMA CallFrame == [Next]_vars => CallWrites \/ UNCHANGED CallVars
<1> USE DEF CallVars
<1>0. UNCHANGED <<roomVars, sessVars, restarts>> => UNCHANGED CallVars
  BY DEF roomVars
<1>1. ASSUME NEW c \in Conns, Connection(c) PROVE UNCHANGED CallVars
  BY <1>0, <1>1 DEF Connection, AddRetain, AddInsert, RecvEnds, SendEnds, Cancel
<1>2. ASSUME NEW c \in Conns, Message(c) PROVE UNCHANGED CallVars
  BY <1>0, <1>2 DEF Message, JoinStart, VoiceLeave, VoiceLeaveAll, ControlRead, DmCallWaiting,
     DmCallDeclined, SoundboardPlay, VoiceState, SoundboardStop, FreeSlot
<1>3. ASSUME NEW c \in Conns, NEW t \in Tasks, Remove(c, t)
      PROVE  CallWrites \/ UNCHANGED CallVars
  BY <1>0, <1>3 DEF Remove, RmWriteGone, RmClear, RmMark, RmSlot, FreeSlot, CallWrites
<1>4. ASSUME NEW c \in Conns, Handler(c) PROVE CallWrites \/ UNCHANGED CallVars
  BY <1>0, <1>3, <1>4 DEF Handler, Join, Control, JoinKick, JoinCount, JoinMarker, ControlSet,
     ControlCheck, ControlApply, PlayWrite, WaitSet, CallWrites, Tasks
<1>5. ASSUME NEW c \in Conns, Supervisor(c) PROVE CallWrites \/ UNCHANGED CallVars
  BY <1>0, <1>3, <1>5 DEF Supervisor, RemoveConnection, SupCollect, Tasks
<1>6. ASSUME NEW d \in DmRooms, Timers(d) \/ Unfriend(d)
      PROVE  CallWrites \/ UNCHANGED CallVars
  BY <1>0, <1>6 DEF Timers, Unfriend, GraceCheck, GraceClear, MarkerAges, UnfriendClear, CallWrites
<1>7. Request => CallWrites \/ UNCHANGED CallVars
  BY <1>0 DEF Request, UploadTempPlay, CleanupTempPlay, Expire, DisableSoundboard,
     ClearDisabledSlots, EnableSoundboard, UnfriendDb, CallWrites
<1>8. Sweep \/ Restart => CallWrites \/ UNCHANGED CallVars
  BY <1>0 DEF Sweep, SweepList, SweepConnected, SweepInRoom, SweepClear, CallWrites
<1>9. UNCHANGED vars => UNCHANGED CallVars
  BY DEF vars, roomVars
<1> QED BY <1>1, <1>2, <1>4, <1>5, <1>6, <1>7, <1>8, <1>9 DEF Next

\* A join opens the session of a room that had none, and only that one.
LEMMA JoinSessions ==
    ASSUME TypeOK, SessInv, NEW c \in Conns, JoinInsert(c) PROVE SessInv'
<1> DEFINE j == job[c]["recv"]
           r == j.room
           u == j.who
           fresh == r \notin live /\ r \in chanOpen
           sid == IF fresh THEN <<r, nextSession>> ELSE session[r]
<1>1. r \in Rooms /\ u \in Users
  BY BusyJob DEF JoinInsert, Busy, Tasks, TypeOK
<1>2. /\ live' = live \cup {r}
      /\ members' = [members EXCEPT ![r] = @ \cup {u}]
      /\ session' = [session EXCEPT ![r] = sid]
      /\ open' = IF fresh THEN open \cup {sid} ELSE open
      /\ present' = IF sid = None \/ r \notin chanOpen \/ <<sid, u>> \in left
                    THEN present ELSE present \cup {<<sid, u>>}
      /\ UNCHANGED <<chanOpen, restarts>>
  BY DEF JoinInsert, OpenSession
<1> HIDE DEF j, r, u
<1>3. /\ session \in [Rooms -> SessionIds \cup {None}]
      /\ members \in [Rooms -> SUBSET Users] /\ live \subseteq Rooms
      /\ open \subseteq SessionIds /\ present \subseteq SessionIds \X Users
      /\ None \notin SessionIds
  BY NoneAssumption DEF TypeOK, RoomTyped, SessTyped, SessionIds
<1>4. /\ \A q \in Rooms : session'[q] = IF q = r THEN sid ELSE session[q]
      /\ \A q \in Rooms : members[q] \subseteq members'[q]
      /\ u \in members'[r]
  BY <1>1, <1>2, <1>3
<1>5. /\ \A q \in Rooms : session[q] # None => q \in live /\ session[q][1] = q
      /\ \A q \in live \cap chanOpen : session[q] \in open
  BY DEF SessInv, SessionsMatchRooms, OneSession
<1>6. \A q \in live : session'[q] = session[q] /\ q \in live' /\ members[q] \subseteq members'[q]
  BY <1>1, <1>2, <1>3, <1>4
<1>7. OneSession'
  BY <1>1, <1>2, <1>4, <1>5 DEF OneSession
<1>8. \A q \in live' \cap chanOpen' : session'[q] \in open'
  BY <1>1, <1>2, <1>3, <1>4, <1>5, <1>6
<1>9. restarts' = 0 => \A o \in open' : \E q \in live' : session'[q] = o
  <2> SUFFICES ASSUME restarts = 0, NEW o \in open'
               PROVE  \E q \in live' : session'[q] = o
    BY <1>2
  <2>1. CASE o \in open
    <3>1. PICK q \in live : session[q] = o
      BY <2>1 DEF SessInv, SessionsMatchRooms
    <3> QED BY <1>6, <3>1
  <2>2. CASE o \notin open
    BY <1>1, <1>2, <1>4, <2>2
  <2> QED BY <2>1, <2>2
<1>10. PresentAreMembers'
  <2> SUFFICES ASSUME restarts = 0, NEW row \in present'
               PROVE  \E q \in live' : session'[q] = row[1] /\ row[2] \in members'[q]
    BY <1>2 DEF PresentAreMembers
  <2>1. CASE row \in present
    <3>1. PICK q \in live : session[q] = row[1] /\ row[2] \in members[q]
      BY <2>1 DEF SessInv, PresentAreMembers
    <3> QED BY <1>6, <3>1
  <2>2. CASE row \notin present
    <3>1. row = <<sid, u>>
      BY <1>2, <2>2
    <3> QED BY <1>1, <1>2, <1>4, <3>1
  <2> QED BY <2>1, <2>2
<1> QED BY <1>7, <1>8, <1>9, <1>10 DEF SessInv, SessionsMatchRooms

\* A room that goes closes its call; of its participants only the one who
\* leaves, if anybody, was still there.
LEMMA DropSessions ==
    ASSUME TypeOK, SessInv, NEW r \in Rooms, DropRoom(r), EndSession(r),
           UNCHANGED <<chanOpen, restarts>>,
           present' \subseteq present,
           \A row \in present' : row[1] = session[r] => row[2] \notin members[r]
    PROVE  SessInv'
<1>1. /\ session \in [Rooms -> SessionIds \cup {None}] /\ open \subseteq SessionIds
      /\ members \in [Rooms -> SUBSET Users] /\ live \subseteq Rooms
      /\ None \notin SessionIds
  BY NoneAssumption DEF TypeOK, RoomTyped, SessTyped, SessionIds
<1>2. /\ live' = live \ {r}
      /\ \A q \in Rooms : session'[q] = IF q = r THEN None ELSE session[q]
      /\ \A q \in Rooms : q # r => members'[q] = members[q]
      /\ open' = open \ {session[r]}
  BY <1>1 DEF DropRoom, EndSession
<1>3. /\ \A q \in Rooms : session[q] # None => q \in live /\ session[q][1] = q
      /\ \A q \in live \cap chanOpen : session[q] \in open
  BY DEF SessInv, SessionsMatchRooms, OneSession
<1>4. OneSession'
  BY <1>2, <1>3 DEF OneSession
<1>5. ASSUME NEW q \in live' \cap chanOpen' PROVE session'[q] \in open'
  <2>1. q \in Rooms /\ q # r /\ session'[q] = session[q] /\ session[q] \in open
    BY <1>1, <1>2, <1>3
  <2>2. session[q] # None /\ session[q][1] = q
    BY <1>1, <1>3, <2>1
  <2>3. session[q] # session[r]
    BY <1>3, <2>1, <2>2
  <2> QED BY <1>2, <2>1, <2>3
<1>6. restarts' = 0 => \A o \in open' : \E q \in live' : session'[q] = o
  <2> SUFFICES ASSUME restarts = 0, NEW o \in open'
               PROVE  \E q \in live' : session'[q] = o
    OBVIOUS
  <2>1. o \in open /\ o # session[r]
    BY <1>2
  <2>2. PICK q \in live : session[q] = o
    BY <2>1 DEF SessInv, SessionsMatchRooms
  <2> QED BY <1>1, <1>2, <2>1, <2>2
<1>7. PresentAreMembers'
  <2> SUFFICES ASSUME restarts = 0, NEW row \in present'
               PROVE  \E q \in live' : session'[q] = row[1] /\ row[2] \in members'[q]
    BY DEF PresentAreMembers
  <2>1. PICK q \in live : session[q] = row[1] /\ row[2] \in members[q]
    BY DEF SessInv, PresentAreMembers
  <2>2. q # r
    BY <2>1
  <2> QED BY <1>1, <1>2, <2>1, <2>2
<1> QED BY <1>4, <1>5, <1>6, <1>7 DEF SessInv, SessionsMatchRooms

\* A channel that is deleted takes its own session rows along.
LEMMA DeleteSessions ==
    ASSUME TypeOK, SessInv, NEW r \in ServerRooms, DeleteChannel(r) PROVE SessInv'
<1>1. /\ session \in [Rooms -> SessionIds \cup {None}] /\ open \subseteq SessionIds
      /\ live \subseteq Rooms /\ None \notin SessionIds
  BY NoneAssumption DEF TypeOK, RoomTyped, SessTyped, SessionIds
<1>2. /\ chanOpen' = chanOpen \ {r} /\ open' = {sid \in open : sid[1] # r}
      /\ present' \subseteq present
      /\ UNCHANGED <<live, members, session, restarts>>
  BY DEF DeleteChannel, roomVars
<1>3. OneSession'
  BY <1>2 DEF SessInv, OneSession
<1>4. \A q \in live' \cap chanOpen' : session'[q] \in open'
  BY <1>1, <1>2 DEF SessInv, SessionsMatchRooms, OneSession
<1>5. restarts' = 0 => \A o \in open' : \E q \in live' : session'[q] = o
  BY <1>2 DEF SessInv, SessionsMatchRooms
<1>6. PresentAreMembers'
  BY <1>2 DEF SessInv, PresentAreMembers
<1> QED BY <1>3, <1>4, <1>5, <1>6 DEF SessInv, SessionsMatchRooms

\* Who leaves a room in which others stay is not present any more.
LEMMA LeaveSessions ==
    ASSUME TypeOK, SessInv, NEW c \in Conns, NEW t \in Tasks, RmWriteMore(c, t)
    PROVE  SessInv'
<1> DEFINE r == job[c][t].room
           u == job[c][t].who
<1>1. r \in Rooms /\ u \in Users
  BY BusyJob DEF RmWriteMore, Busy, TypeOK
<1>2. /\ members' = [members EXCEPT ![r] = @ \ {u}]
      /\ present' = present \ {<<session[r], u>>}
      /\ UNCHANGED <<live, session, open, chanOpen, restarts>>
  BY DEF RmWriteMore, MarkLeft
<1> HIDE DEF r, u
<1>3. /\ members \in [Rooms -> SUBSET Users] /\ live \subseteq Rooms
      /\ present \subseteq SessionIds \X Users
  BY DEF TypeOK, RoomTyped, SessTyped
<1>4. OneSession' /\ SessionsMatchRooms'
  BY <1>2 DEF SessInv, OneSession, SessionsMatchRooms
<1>5. PresentAreMembers'
  <2> SUFFICES ASSUME restarts = 0, NEW row \in present'
               PROVE  \E q \in live' : session'[q] = row[1] /\ row[2] \in members'[q]
    BY <1>2 DEF PresentAreMembers
  <2>1. row \in present /\ row \in SessionIds \X Users /\ row # <<session[r], u>>
    BY <1>2, <1>3
  <2>2. PICK q \in live : session[q] = row[1] /\ row[2] \in members[q]
    BY <2>1 DEF SessInv, PresentAreMembers
  <2>3. ~(q = r /\ row[2] = u)
    BY <2>1, <2>2
  <2>4. row[2] \in members'[q]
    BY <1>1, <1>2, <1>3, <2>2, <2>3
  <2> QED BY <1>2, <2>2, <2>4
<1> QED BY <1>4, <1>5 DEF SessInv

\* No step of the system spoils the relation of the tables to the map.
LEMMA SessStep ==
    ASSUME TypeOK, SessInv, [Next]_vars PROVE SessInv'
<1>1. CASE UNCHANGED CallVars
  BY <1>1 DEF CallVars, sessVars, SessInv, OneSession, SessionsMatchRooms, PresentAreMembers
<1>2. ASSUME NEW c \in Conns, NEW t \in Tasks, RmWriteLast(c, t) PROVE SessInv'
  <2> DEFINE r == job[c][t].room
             u == job[c][t].who
  <2>1. r \in Rooms /\ u \in Users
    BY <1>2, BusyJob DEF RmWriteLast, Busy, TypeOK
  <2>2. /\ DropRoom(r) /\ EndSession(r) /\ UNCHANGED <<chanOpen, restarts>>
        /\ members[r] \subseteq {u} /\ present' = present \ {<<session[r], u>>}
    BY <1>2 DEF RmWriteLast, MarkLeft
  <2> HIDE DEF r, u
  <2>3. \A row \in present' : row[1] = session[r] => row[2] \notin members[r]
    BY <2>2 DEF TypeOK, SessTyped
  <2> QED BY <2>1, <2>2, <2>3, DropSessions
<1>3. ASSUME NEW d \in DmRooms, UnfriendEndRoom(d) PROVE SessInv'
  <2>1. d \in Rooms /\ d \notin ServerRooms
    BY RoomAssumption DEF Rooms
  <2>2. session[d] = None
    BY <2>1 DEF SessInv, OneSession, TypeOK, RoomTyped, SessionIds
  <2>3. \A row \in present : row[1] # None
    BY NoneAssumption DEF TypeOK, SessTyped, SessionIds
  <2> QED BY <1>3, <2>1, <2>2, <2>3, DropSessions DEF UnfriendEndRoom
<1>4. CASE Restart
  <2>1. restarts' # 0 /\ live' = {} /\ UNCHANGED sessVars
    BY <1>4 DEF Restart, TypeOK, TaskTyped
  <2>2. \A r \in Rooms : session'[r] = None
    BY <1>4 DEF Restart
  <2> QED BY <2>1, <2>2 DEF SessInv, OneSession, SessionsMatchRooms, PresentAreMembers, sessVars
<1> QED BY <1>1, <1>2, <1>3, <1>4, JoinSessions, LeaveSessions, DeleteSessions, CallFrame
    DEF CallWrites

\* The tables agree with the map in every reachable state.
LEMMA SessAlways == Spec => []SessInv
<1>1. Init => SessInv
  BY DEF Init, SessInv, OneSession, SessionsMatchRooms, PresentAreMembers
<1>2. IInv => TypeOK
  BY DEF IInv
<1> QED BY <1>1, <1>2, SessStep, IInvAlways, PTL DEF Spec

\* A call in the map whose channel exists has an open voice_sessions row, and
\* (until a restart) every open row has its call, whoever joins and leaves when
\* and whatever channel is deleted in between.
THEOREM SessionsCorrect == Spec => []SessionsMatchRooms
<1>1. SessInv => SessionsMatchRooms
  BY DEF SessInv
<1> QED BY <1>1, SessAlways, PTL

\* voice_participants shows nobody as present who is not in the call.
THEOREM PresenceCorrect == Spec => []PresentAreMembers
<1>1. SessInv => PresentAreMembers
  BY DEF SessInv
<1> QED BY <1>1, SessAlways, PTL

-----------------------------------------------------------------------------
(* Clips that are played.                                                  *)

Playing(c, t) == job[c][t].pc = "play_write"

\* A clip that was announced is about to be put into a slot, or in one, only
\* with its audio there, expired or lost; a clip that was not announced yet has
\* its audio, or lost it by expiry.
ClipsStored ==
    /\ played \subseteq used /\ audio \subseteq used /\ lost \subseteq used
    /\ used \ played \subseteq audio \cup lost
    /\ PlayingKeepsAudio
    /\ \A r \in Rooms, u \in Users : slots[r][u] # None => slots[r][u] \in played
    /\ \A c \in Conns, t \in Tasks : Playing(c, t) /\ job[c][t].tok # None =>
           /\ job[c][t].tok \in played
           /\ job[c][t].tok \in audio \cup lost \cup replayed

\* A clip announced once is in one slot or about to be put into one by one
\* task, and never in two of these places.
ClipsApart ==
    /\ \A r, q \in Rooms, u, v \in Users :
           slots[r][u] = slots[q][v] /\ slots[r][u] \notin replayed \cup {None}
             => r = q /\ u = v
    /\ \A c \in Conns, t \in Tasks :
           Playing(c, t) /\ job[c][t].tok \notin replayed \cup {None} =>
             /\ \A r \in Rooms, u \in Users : slots[r][u] # job[c][t].tok
             /\ \A d \in Conns, s \in Tasks :
                    Playing(d, s) /\ job[d][s].tok = job[c][t].tok => c = d /\ t = s

ClipsInv == ClipsStored /\ ClipsApart

\* A step that only takes clips out of slots, and frees what it takes out or
\* what expired.
Loses ==
    /\ UNCHANGED <<used, played, replayed>>
    /\ lost \subseteq lost' /\ lost' \subseteq used /\ audio' \subseteq audio
    /\ \A r \in Rooms, u \in Users : slots'[r][u] \in {slots[r][u], None}
    /\ \A k \in audio \ audio' :
           k \in lost' \/ \E r \in Rooms, u \in Users : slots[r][u] = k /\ slots'[r][u] = None

\* Such a step keeps the clips stored and apart, unless it begins to play one.
LEMMA ClipsLess ==
    ASSUME ClipsInv, Loses, None \notin Tokens, used \subseteq Tokens,
           \A c \in Conns, t \in Tasks : Playing(c, t)' => job'[c][t] = job[c][t]
    PROVE  ClipsInv'
<1>1. \A c \in Conns, t \in Tasks : Playing(c, t)' => Playing(c, t)
  BY DEF Playing
<1>2. \A r \in Rooms, u \in Users : slots'[r][u] # None => slots'[r][u] = slots[r][u]
  BY DEF Loses
<1>3. \A k \in used \ played : k \in audio' \cup lost'
  BY DEF Loses, ClipsInv, ClipsStored
<1>4. ASSUME NEW r \in Rooms, NEW u \in Users, slots'[r][u] # None
      PROVE  slots'[r][u] \in audio' \cup lost' \cup replayed'
  <2> DEFINE k == slots[r][u]
  <2>1. k = slots'[r][u] /\ k # None /\ k \in audio \cup lost \cup replayed
    BY <1>2, <1>4 DEF ClipsInv, ClipsStored, PlayingKeepsAudio
  <2>2. CASE k \in audio \ audio' /\ k \notin lost' /\ k \notin replayed
    <3>1. PICK q \in Rooms, v \in Users : slots[q][v] = k /\ slots'[q][v] = None
      BY <2>2 DEF Loses
    <3>2. q = r /\ v = u
      BY <2>1, <2>2, <3>1 DEF ClipsInv, ClipsApart
    <3> QED BY <1>4, <3>1, <3>2
  <2> HIDE DEF k
  <2> QED BY <2>1, <2>2 DEF Loses
<1>5. ASSUME NEW c \in Conns, NEW t \in Tasks, Playing(c, t)', job'[c][t].tok # None
      PROVE  job'[c][t].tok \in played /\ job'[c][t].tok \in audio' \cup lost' \cup replayed'
  <2> DEFINE k == job[c][t].tok
  <2>1. /\ Playing(c, t) /\ job'[c][t].tok = k /\ k # None
        /\ k \in played /\ k \in audio \cup lost \cup replayed
    BY <1>1, <1>5 DEF ClipsInv, ClipsStored
  <2>2. k \notin replayed => \A r \in Rooms, u \in Users : slots[r][u] # k
    BY <2>1 DEF ClipsInv, ClipsApart
  <2> HIDE DEF k
  <2> QED BY <2>1, <2>2 DEF Loses
<1>6. ClipsStored'
  <2>1. /\ played' \subseteq used' /\ audio' \subseteq used' /\ lost' \subseteq used'
        /\ used' \ played' \subseteq audio' \cup lost'
    BY <1>3 DEF Loses, ClipsInv, ClipsStored
  <2>2. \A r \in Rooms, u \in Users : slots'[r][u] # None => slots'[r][u] \in played'
    BY <1>2 DEF Loses, ClipsInv, ClipsStored
  <2>3. PlayingKeepsAudio'
    BY <1>4 DEF PlayingKeepsAudio
  <2> QED BY <1>5, <2>1, <2>2, <2>3 DEF ClipsStored, Loses
<1>7. \A r, q \in Rooms, u, v \in Users :
          slots'[r][u] = slots'[q][v] /\ slots'[r][u] \notin replayed' \cup {None}
            => r = q /\ u = v
  BY <1>2 DEF Loses, ClipsInv, ClipsApart
<1>8. ASSUME NEW c \in Conns, NEW t \in Tasks, Playing(c, t)',
             job'[c][t].tok \notin replayed' \cup {None}
      PROVE  /\ \A r \in Rooms, u \in Users : slots'[r][u] # job'[c][t].tok
             /\ \A d \in Conns, s \in Tasks :
                    Playing(d, s)' /\ job'[d][s].tok = job'[c][t].tok => c = d /\ t = s
  <2>1. Playing(c, t) /\ job'[c][t] = job[c][t] /\ job[c][t].tok \notin replayed \cup {None}
    BY <1>1, <1>8 DEF Loses
  <2>2. \A r \in Rooms, u \in Users : slots[r][u] # job[c][t].tok
    BY <2>1 DEF ClipsInv, ClipsApart
  <2>3. \A d \in Conns, s \in Tasks :
            Playing(d, s)' /\ job'[d][s].tok = job[c][t].tok => c = d /\ t = s
    BY <1>1, <2>1 DEF ClipsInv, ClipsApart
  <2> QED BY <1>2, <2>1, <2>2, <2>3
<1>9. ClipsApart'
  BY <1>7, <1>8 DEF ClipsApart
<1> QED BY <1>6, <1>9 DEF ClipsInv

ClipVars == <<audio, used, played, replayed, lost, slots>>

\* The steps that put a clip somewhere; all others only take clips away.
ClipMoves ==
    \/ \E c \in Conns : PlayWrite(c)
    \/ \E c \in Conns, r \in Rooms, tok \in Tokens \cup {None} : SoundboardPlay(c, r, tok)
    \/ \E tok \in Tokens, old \in SUBSET audio : UploadTempPlay(tok, old)

\* Every other step only takes clips away.
LEMMA ClipFrame ==
    ASSUME TypeOK, ClipsInv, [Next]_vars PROVE ClipMoves \/ Loses
<1>0. /\ slots \in [Rooms -> [Users -> Tokens \cup {None}]]
      /\ JobTyped /\ lost \subseteq used /\ audio \subseteq used
  BY DEF TypeOK, RoomTyped, ClipsInv, ClipsStored
<1>1. UNCHANGED ClipVars => Loses
  BY <1>0 DEF ClipVars, Loses
<1>2. UNCHANGED <<roomVars, audioVars>> => UNCHANGED ClipVars
  BY DEF roomVars, audioVars, ClipVars
<1>3. ASSUME NEW r \in Rooms, NEW u \in Users, FreeSlot(r, u) PROVE Loses
  <2>1. slots'[r][u] = None
        /\ \A q \in Rooms, v \in Users : slots'[q][v] \in {slots[q][v], None}
    BY <1>0, <1>3 DEF FreeSlot
  <2>2. audio' = audio \ {slots[r][u]} /\ UNCHANGED <<used, played, replayed, lost>>
    BY <1>3 DEF FreeSlot
  <2> QED BY <1>0, <2>1, <2>2 DEF Loses
<1>4. ASSUME NEW r \in Rooms, DropRoom(r), UNCHANGED audioVars PROVE Loses
  BY <1>0, <1>4 DEF DropRoom, NoSlots, Loses, audioVars
<1>5. ASSUME NEW c \in Conns, Connection(c) PROVE UNCHANGED ClipVars
  BY <1>2, <1>5 DEF Connection, AddRetain, AddInsert, RecvEnds, SendEnds, Cancel
<1>6. ASSUME NEW c \in Conns, Message(c) PROVE ClipMoves \/ Loses
  <2>1. ASSUME NEW r \in Rooms, SoundboardStop(c, r) PROVE Loses
    BY <1>3, <2>1, ConnAssumption DEF SoundboardStop
  <2>2. ASSUME NEW r \in Rooms, NEW req \in SUBSET LocalFlags, VoiceState(c, r, req)
        PROVE  Loses
    BY <1>1, <2>2 DEF VoiceState, ClipVars, audioVars
  <2> QED BY <1>1, <1>2, <1>6, <2>1, <2>2 DEF Message, JoinStart, VoiceLeave, VoiceLeaveAll,
             ControlRead, DmCallWaiting, DmCallDeclined, ClipMoves
<1>7. ASSUME NEW c \in Conns, NEW t \in Tasks, Remove(c, t) PROVE Loses
  <2>1. job[c][t].room \in Rooms /\ job[c][t].who \in Users
    BY <1>0, <1>7, BusyJob DEF Remove, RmWriteGone, RmWriteLast, RmWriteMore, RmClear,
       RmSlot, RmMark, Busy
  <2>2. CASE RmWriteLast(c, t)
    BY <1>4, <2>1, <2>2 DEF RmWriteLast
  <2>3. CASE RmSlot(c, t)
    BY <1>3, <2>1, <2>3 DEF RmSlot
  <2>4. CASE RmWriteMore(c, t)
    BY <1>1, <2>4 DEF RmWriteMore, ClipVars, audioVars
  <2> QED BY <1>1, <1>2, <1>7, <2>2, <2>3, <2>4 DEF Remove, RmWriteGone, RmClear, RmMark
<1>8. ASSUME NEW c \in Conns, Handler(c) PROVE ClipMoves \/ Loses
  <2>1. CASE JoinInsert(c) \/ ControlApply(c)
    BY <1>1, <2>1 DEF JoinInsert, ControlApply, ClipVars, audioVars
  <2> QED BY <1>1, <1>2, <1>7, <1>8, <2>1 DEF Handler, Join, Control, JoinKick, JoinCount,
             JoinMarker, ControlSet, ControlCheck, WaitSet, ClipMoves, Tasks
<1>9. ASSUME NEW c \in Conns, Supervisor(c) PROVE Loses
  BY <1>1, <1>2, <1>7, <1>9 DEF Supervisor, RemoveConnection, SupCollect, Tasks
<1>10. ASSUME NEW d \in DmRooms, Timers(d) \/ Unfriend(d) PROVE Loses
  <2>1. CASE UnfriendEndRoom(d)
    BY <1>4, <2>1 DEF UnfriendEndRoom, Rooms
  <2> QED BY <1>1, <1>2, <1>10, <2>1 DEF Timers, Unfriend, GraceCheck, GraceClear, MarkerAges,
             UnfriendClear
<1>11. ASSUME NEW s \in Servers, NEW u \in Users, ClearDisabledSlots(s, u) PROVE Loses
  <2> DEFINE rooms == {r \in ServerRooms : ServerOf[r] = s}
  <2>1. /\ \A r \in Rooms, v \in Users :
               slots'[r][v] = IF r \in rooms /\ v = u THEN None ELSE slots[r][v]
        /\ audio' = audio \ {slots[r][u] : r \in rooms}
        /\ UNCHANGED <<used, played, replayed, lost>>
    BY <1>0, <1>11 DEF ClearDisabledSlots
  <2>2. rooms \subseteq Rooms
    BY DEF Rooms
  <2> HIDE DEF rooms
  <2>3. ASSUME NEW k \in audio \ audio'
        PROVE  \E r \in Rooms, v \in Users : slots[r][v] = k /\ slots'[r][v] = None
    BY <2>1, <2>2
  <2> QED BY <1>0, <2>1, <2>3 DEF Loses
<1>12. ASSUME NEW old \in SUBSET audio, CleanupTempPlay(old) PROVE Loses
  BY <1>0, <1>12 DEF CleanupTempPlay, Expire, Loses, roomVars
<1>13. CASE Request
  BY <1>1, <1>2, <1>11, <1>12, <1>13 DEF Request, DisableSoundboard, EnableSoundboard,
     UnfriendDb, DeleteChannel, ClipMoves
<1>14. CASE Sweep
  BY <1>1, <1>2, <1>14 DEF Sweep, SweepList, SweepConnected, SweepInRoom, SweepClear
<1>15. CASE Restart
  <2>1. \A r \in Rooms, u \in Users : slots'[r][u] = None
    BY <1>15 DEF Restart, NoSlots
  <2>2. /\ UNCHANGED <<used, played, replayed>> /\ audio' = {} /\ lost' = used
        /\ lost \subseteq used /\ audio \subseteq used
    BY <1>15 DEF Restart, ClipsInv, ClipsStored
  <2> QED BY <2>1, <2>2 DEF Loses
<1>16. CASE UNCHANGED vars
  BY <1>1, <1>2, <1>16 DEF vars
<1> QED BY <1>1, <1>5, <1>6, <1>8, <1>9, <1>10, <1>13, <1>14, <1>15, <1>16 DEF Next

\* A task that did not take a clip in this step holds the job it held before,
\* if it is about to play.
LEMMA PlayersStay ==
    ASSUME TypeOK, [Next]_vars,
           ~(\E c \in Conns, r \in Rooms, tok \in Tokens \cup {None} :
                 SoundboardPlay(c, r, tok))
    PROVE  \A c \in Conns, t \in Tasks : Playing(c, t)' => job'[c][t] = job[c][t]
<1>1. CASE UNCHANGED job
  BY <1>1
<1>2. CASE job' = [c \in Conns |-> [t \in Tasks |-> Idle]]
  BY <1>2 DEF Playing, Idle
<1>3. CASE OneJobMoves
  <2>0. PICK c \in Conns, t \in Tasks : \E k : SetJob(c, t, k) /\ Moved(c, job[c][t], k)
    BY <1>3 DEF OneJobMoves
  <2>1. PICK k : SetJob(c, t, k) /\ Moved(c, job[c][t], k)
    BY <2>0
  <2>2. \A d \in Conns, s \in Tasks :
            job'[d][s] = IF d = c /\ s = t THEN k ELSE job[d][s]
    BY <2>1 DEF SetJob, TypeOK, JobTyped
  <2>3. k.pc # "play_write"
    BY <2>1 DEF Moved, Idle
  <2> QED BY <2>2, <2>3 DEF Playing
<1> QED BY <1>1, <1>2, <1>3, JobMoves

\* A clip put into a slot takes the audio of the slot's last clip only.
LEMMA PlayWriteClips ==
    ASSUME TypeOK, ClipsInv, NEW c \in Conns, PlayWrite(c) PROVE ClipsInv'
<1> DEFINE j == job[c]["recv"]
           k == j.tok
           old == slots[j.room][j.who]
<1>0. /\ slots \in [Rooms -> [Users -> Tokens \cup {None}]] /\ "recv" \in Tasks
      /\ job \in [Conns -> [Tasks -> Busy \cup {Idle}]] /\ JobTyped
  BY DEF TypeOK, RoomTyped, JobTyped, Tasks
<1>1. j.room \in Rooms /\ j.who \in Users /\ Playing(c, "recv")
  BY <1>0, BusyJob DEF PlayWrite, Busy, Playing
<1>2. /\ \A d \in Conns, s \in Tasks :
             job'[d][s] = IF d = c /\ s = "recv" THEN Idle ELSE job[d][s]
      /\ UNCHANGED <<used, played, replayed, lost>>
  BY <1>0 DEF PlayWrite, SetJob
<1>3. \A d \in Conns, s \in Tasks : Playing(d, s)' =>
          /\ Playing(d, s) /\ job'[d][s] = job[d][s]
          /\ job[d][s].tok \notin replayed \cup {None} => job[d][s].tok # k
  BY <1>0, <1>1, <1>2 DEF Playing, Idle, ClipsInv, ClipsApart
<1>4. /\ k # None => k \in played /\ k \in audio \cup lost \cup replayed
      /\ k \notin replayed \cup {None} => \A r \in Rooms, u \in Users : slots[r][u] # k
  BY <1>0, <1>1 DEF ClipsInv, ClipsStored, ClipsApart
<1>5. CASE j.room \notin live
  <2>1. UNCHANGED <<slots, audio>>
    BY <1>5 DEF PlayWrite
  <2>2. Loses
    BY <1>2, <2>1 DEF Loses, ClipsInv, ClipsStored
  <2> QED BY <1>3, <2>2, NoneAssumption, ClipsLess DEF TypeOK, AudioTyped
<1>6. CASE j.room \in live
  <2>1. /\ \A r \in Rooms, u \in Users :
               slots'[r][u] = IF r = j.room /\ u = j.who THEN k ELSE slots[r][u]
        /\ audio' = audio \ {old}
    BY <1>0, <1>1, <1>6 DEF PlayWrite
  <2>2. old \in played \cup {None}
    BY <1>1 DEF ClipsInv, ClipsStored
  <2>3. \A r \in Rooms, u \in Users :
            slots[r][u] = old /\ old \notin replayed \cup {None} => r = j.room /\ u = j.who
    BY <1>1 DEF ClipsInv, ClipsApart
  <2>4. old = slots[j.room][j.who]
    OBVIOUS
  <2> HIDE DEF k, old, j
  <2>5. /\ played' \subseteq used' /\ audio' \subseteq used' /\ lost' \subseteq used'
        /\ used' \ played' \subseteq audio' \cup lost'
    BY <1>2, <2>1, <2>2, NoneAssumption DEF TypeOK, AudioTyped, ClipsInv, ClipsStored
  <2>6. ASSUME NEW r \in Rooms, NEW u \in Users, slots'[r][u] # None
        PROVE  slots'[r][u] \in played /\ slots'[r][u] \in audio' \cup lost \cup replayed
    <3>1. CASE r = j.room /\ u = j.who
      <4>1. slots'[r][u] = k /\ (k \notin replayed => k # old)
        BY <1>1, <1>4, <2>1, <2>4, <2>6, <3>1
      <4> QED BY <1>4, <2>1, <2>6, <4>1
    <3>2. CASE ~(r = j.room /\ u = j.who)
      <4>1. slots'[r][u] = slots[r][u] /\ (slots[r][u] \notin replayed => slots[r][u] # old)
        BY <2>1, <2>3, <2>6, <3>2
      <4> QED BY <2>1, <2>6, <4>1 DEF ClipsInv, ClipsStored, PlayingKeepsAudio
    <3> QED BY <3>1, <3>2
  <2>7. ASSUME NEW d \in Conns, NEW s \in Tasks, Playing(d, s)', job'[d][s].tok # None
        PROVE  job'[d][s].tok \in played /\ job'[d][s].tok \in audio' \cup lost \cup replayed
    <3>1. /\ Playing(d, s) /\ job'[d][s] = job[d][s] /\ job[d][s].tok \in played
          /\ job[d][s].tok \in audio \cup lost \cup replayed
      BY <1>3, <2>7 DEF ClipsInv, ClipsStored
    <3>2. job[d][s].tok \notin replayed => job[d][s].tok # old
      BY <1>1, <2>4, <2>7, <3>1 DEF ClipsInv, ClipsApart
    <3> QED BY <2>1, <3>1, <3>2
  <2>8. ClipsStored'
    BY <1>2, <2>5, <2>6, <2>7 DEF ClipsStored, PlayingKeepsAudio
  <2>9. \A r, q \in Rooms, u, v \in Users :
            slots'[r][u] = slots'[q][v] /\ slots'[r][u] \notin replayed' \cup {None}
              => r = q /\ u = v
    BY <1>2, <1>4, <2>1 DEF ClipsInv, ClipsApart
  <2>10. ASSUME NEW d \in Conns, NEW s \in Tasks, Playing(d, s)',
                job'[d][s].tok \notin replayed' \cup {None}
         PROVE  /\ \A r \in Rooms, u \in Users : slots'[r][u] # job'[d][s].tok
                /\ \A e \in Conns, x \in Tasks :
                       Playing(e, x)' /\ job'[e][x].tok = job'[d][s].tok => d = e /\ s = x
    <3>1. /\ Playing(d, s) /\ job'[d][s] = job[d][s]
          /\ job[d][s].tok \notin replayed \cup {None} /\ job[d][s].tok # k
      BY <1>2, <1>3, <2>10
    <3>2. \A r \in Rooms, u \in Users : slots[r][u] # job[d][s].tok
      BY <3>1 DEF ClipsInv, ClipsApart
    <3>3. \A e \in Conns, x \in Tasks :
              Playing(e, x)' /\ job'[e][x].tok = job[d][s].tok => d = e /\ s = x
      BY <1>3, <3>1 DEF ClipsInv, ClipsApart
    <3> QED BY <2>1, <3>1, <3>2, <3>3
  <2>11. ClipsApart'
    BY <2>9, <2>10 DEF ClipsApart
  <2> QED BY <2>8, <2>11 DEF ClipsInv
<1> QED BY <1>5, <1>6

\* A token that is announced for the first time is nowhere yet.
LEMMA PlayClips ==
    ASSUME TypeOK, ClipsInv, NEW c \in Conns, NEW r \in Rooms, NEW tok \in Tokens \cup {None},
           SoundboardPlay(c, r, tok)
    PROVE  ClipsInv'
<1> DEFINE k == [Doing("play_write", r, ConnUser[c], "none", {}) EXCEPT !.tok = tok]
<1>1. /\ tok \in used \cup {None} /\ UNCHANGED <<audio, used, lost, slots>>
      /\ played' = played \cup ({tok} \ {None}) /\ replayed' = replayed \cup ({tok} \cap played)
      /\ SetJob(c, "recv", k)
  BY DEF SoundboardPlay, roomVars
<1>2. k.tok = tok
  BY DEF Doing
<1>3. None \notin played
  BY NoneAssumption DEF TypeOK, AudioTyped
<1> HIDE DEF k
<1>4. /\ \A d \in Conns, s \in Tasks :
             job'[d][s] = IF d = c /\ s = "recv" THEN k ELSE job[d][s]
  BY <1>1 DEF SetJob, TypeOK, JobTyped
<1>5. \A d \in Conns, s \in Tasks : Playing(d, s)' =>
          \/ d = c /\ s = "recv" /\ job'[d][s].tok = tok
          \/ Playing(d, s) /\ job'[d][s] = job[d][s] /\ ~(d = c /\ s = "recv")
  BY <1>2, <1>4 DEF Playing
<1>6. ClipsStored'
  <2>1. /\ played' \subseteq used' /\ audio' \subseteq used' /\ lost' \subseteq used'
        /\ used' \ played' \subseteq audio' \cup lost'
    BY <1>1 DEF ClipsInv, ClipsStored
  <2>2. PlayingKeepsAudio' /\ \A q \in Rooms, u \in Users : slots'[q][u] # None => slots'[q][u] \in played'
    BY <1>1 DEF ClipsInv, ClipsStored, PlayingKeepsAudio
  <2>3. tok # None => tok \in played' /\ tok \in audio' \cup lost' \cup replayed'
    BY <1>1, <1>3 DEF ClipsInv, ClipsStored
  <2>4. ASSUME NEW d \in Conns, NEW s \in Tasks, Playing(d, s)', job'[d][s].tok # None
        PROVE  job'[d][s].tok \in played' /\ job'[d][s].tok \in audio' \cup lost' \cup replayed'
    BY <1>1, <1>5, <2>3, <2>4 DEF ClipsInv, ClipsStored
  <2> QED BY <2>1, <2>2, <2>4 DEF ClipsStored
<1>7. tok \notin replayed' \cup {None} =>
          /\ \A q \in Rooms, u \in Users : slots[q][u] # tok
          /\ \A d \in Conns, s \in Tasks : Playing(d, s) => job[d][s].tok # tok
  BY <1>1 DEF ClipsInv, ClipsStored
<1>8. \A p, q \in Rooms, u, v \in Users :
          slots'[p][u] = slots'[q][v] /\ slots'[p][u] \notin replayed' \cup {None}
            => p = q /\ u = v
  BY <1>1 DEF ClipsInv, ClipsApart
<1>9. ASSUME NEW d \in Conns, NEW s \in Tasks, Playing(d, s)',
             job'[d][s].tok \notin replayed' \cup {None}
      PROVE  /\ \A q \in Rooms, u \in Users : slots'[q][u] # job'[d][s].tok
             /\ \A e \in Conns, x \in Tasks :
                    Playing(e, x)' /\ job'[e][x].tok = job'[d][s].tok => d = e /\ s = x
  <2>1. CASE d = c /\ s = "recv" /\ job'[d][s].tok = tok
    BY <1>1, <1>5, <1>7, <1>9, <2>1
  <2>2. CASE Playing(d, s) /\ job'[d][s] = job[d][s] /\ ~(d = c /\ s = "recv")
    <3> DEFINE m == job[d][s].tok
    <3>1. m \notin replayed \cup {None} /\ job'[d][s].tok = m /\ (m = tok => m \notin replayed' \cup {None})
      BY <1>1, <1>9, <2>2
    <3>2. m # tok
      BY <1>7, <2>2, <3>1
    <3>3. \A q \in Rooms, u \in Users : slots[q][u] # m
      BY <2>2, <3>1 DEF ClipsInv, ClipsApart
    <3>4. \A e \in Conns, x \in Tasks : Playing(e, x)' /\ job'[e][x].tok = m => d = e /\ s = x
      BY <1>5, <2>2, <3>1, <3>2 DEF ClipsInv, ClipsApart
    <3> QED BY <1>1, <3>1, <3>3, <3>4
  <2> QED BY <1>5, <1>9, <2>1, <2>2
<1>10. ClipsApart'
  BY <1>8, <1>9 DEF ClipsApart
<1> QED BY <1>6, <1>10 DEF ClipsInv

\* A fresh token is in no slot, and what expires is noted as lost.
LEMMA UploadClips ==
    ASSUME TypeOK, ClipsInv, NEW tok \in Tokens, NEW old \in SUBSET audio,
           UploadTempPlay(tok, old)
    PROVE  ClipsInv'
<1>1. /\ tok \notin used /\ used' = used \cup {tok}
      /\ audio' = (audio \ old) \cup {tok} /\ lost' = lost \cup old
      /\ UNCHANGED <<played, replayed, slots, job>>
  BY DEF UploadTempPlay, Expire, roomVars
<1>2. \A c \in Conns, t \in Tasks : Playing(c, t)' <=> Playing(c, t)
  BY <1>1 DEF Playing
<1>3. ClipsStored'
  <2>1. /\ played' \subseteq used' /\ audio' \subseteq used' /\ lost' \subseteq used'
        /\ used' \ played' \subseteq audio' \cup lost'
    BY <1>1 DEF ClipsInv, ClipsStored
  <2>2. PlayingKeepsAudio' /\ \A r \in Rooms, u \in Users : slots'[r][u] # None => slots'[r][u] \in played'
    BY <1>1 DEF ClipsInv, ClipsStored, PlayingKeepsAudio
  <2>3. \A c \in Conns, t \in Tasks : Playing(c, t) /\ job'[c][t].tok # None =>
            job'[c][t].tok \in played' /\ job'[c][t].tok \in audio' \cup lost' \cup replayed'
    BY <1>1 DEF ClipsInv, ClipsStored
  <2> QED BY <1>2, <2>1, <2>2, <2>3 DEF ClipsStored
<1>4. ClipsApart'
  <2>1. \A r, q \in Rooms, u, v \in Users :
            slots'[r][u] = slots'[q][v] /\ slots'[r][u] \notin replayed' \cup {None}
              => r = q /\ u = v
    BY <1>1 DEF ClipsInv, ClipsApart
  <2>2. \A c \in Conns, t \in Tasks :
            Playing(c, t) /\ job'[c][t].tok \notin replayed' \cup {None} =>
              /\ \A r \in Rooms, u \in Users : slots'[r][u] # job'[c][t].tok
              /\ \A d \in Conns, s \in Tasks :
                     Playing(d, s) /\ job'[d][s].tok = job'[c][t].tok => c = d /\ t = s
    BY <1>1 DEF ClipsInv, ClipsApart
  <2> QED BY <1>2, <2>1, <2>2 DEF ClipsApart
<1> QED BY <1>3, <1>4 DEF ClipsInv

\* No step of the system spoils what is known about the clips.
LEMMA ClipsStep ==
    ASSUME TypeOK, ClipsInv, [Next]_vars PROVE ClipsInv'
<1>1. None \notin Tokens /\ used \subseteq Tokens
  BY NoneAssumption DEF TypeOK, AudioTyped
<1>2. CASE Loses /\ ~(\E c \in Conns, r \in Rooms, tok \in Tokens \cup {None} :
                          SoundboardPlay(c, r, tok))
  BY <1>1, <1>2, PlayersStay, ClipsLess
<1> QED BY <1>2, ClipFrame, PlayWriteClips, PlayClips, UploadClips DEF ClipMoves

\* No stop, leave, replay or disabling takes the audio of a clip that stays in
\* a slot, for any number of players, rooms and clips: only expiry, a restart
\* and a token that its client announced again do.
THEOREM PlayingCorrect == Spec => []PlayingKeepsAudio
<1>1. Init => ClipsInv
  BY DEF Init, ClipsInv, ClipsStored, ClipsApart, PlayingKeepsAudio, NoSlots, Playing, Idle
<1>2. IInv => TypeOK
  BY DEF IInv
<1>3. ClipsInv => PlayingKeepsAudio
  BY DEF ClipsInv, ClipsStored
<1> QED BY <1>1, <1>2, <1>3, ClipsStep, IInvAlways, PTL DEF Spec

=============================================================================
