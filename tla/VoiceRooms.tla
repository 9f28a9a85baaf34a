----------------------------- MODULE VoiceRooms -----------------------------
(***************************************************************************)
(* The voice half of the WebSocket server (server/src/ws.rs): who occupies *)
(* which voice room from which device, the DM-call waiting marker kept in  *)
(* SQLite, moderator sanctions, soundboard playback slots, and the         *)
(* connection life cycle that joins and evicts members.                    *)
(*                                                                         *)
(* Atomicity.  A step is one critical section of the code: one hold of the *)
(* voice_rooms lock, or one SQLite call.  Between two of them any other    *)
(* task of the multi-threaded runtime may run, whether or not the code     *)
(* awaits there.  An .await matters for a second reason: it is where an    *)
(* aborted receive task stops (Cancel).  Freeing the audio of a slot is    *)
(* one step with giving up the slot: the token is in no slot any more, so  *)
(* nothing can tell when exactly its audio goes.                           *)
(*                                                                         *)
(* Every connection has two tasks: "recv" runs the message handlers one    *)
(* after the other, "sup" is handle_socket itself, which runs the clean-up *)
(* once the connection is over.  job[c][t] is the program counter and the  *)
(* local variables of task t.                                              *)
(*                                                                         *)
(* Clients send any message of Kinds at any time, MaxMsgs of them in all,  *)
(* naming any room, server and token; only the device a message names is   *)
(* always that of its connection, as the page sends it.                    *)
(*                                                                         *)
(* A definition marked "Mutant" is a wrong variant of the one after it; it *)
(* is used by no specification and shows which bug a property would catch. *)
(***************************************************************************)
EXTENDS Naturals, FiniteSets

CONSTANTS
    Users, Devices,     \* accounts, device keys (e2e_device_key)
    NoDevice,           \* the empty device id of a legacy client
    Conns,              \* WebSocket connections; each is used once
    ConnUser,           \* [Conns -> Users]: the authenticated account
    ConnDevice,         \* [Conns -> Devices \cup {NoDevice}]
    Servers,            \* servers; every account is a member of each
    ServerRooms,        \* their voice channels ("srv:" room ids)
    ServerOf,           \* [ServerRooms -> Servers]
    DmRooms,            \* DM channels ("dm:" room ids)
    DmMembers,          \* [DmRooms -> SUBSET Users]: dm_members
    Moderates,          \* [Servers -> pairs <<m, t>>: m has the permission
                        \* there and outranks t, who need not be a member]
    Tokens,             \* temp-play tokens of the soundboard
    Kinds,              \* the message kinds the clients of an instance send
    None,               \* Option::None
    MaxMsgs,            \* bound: messages and disable requests of the clients
    MaxSessions,        \* bound: voice_sessions rows created
    MaxRestarts         \* bound: server restarts

Rooms == ServerRooms \cup DmRooms
DeviceIds == Devices \cup {NoDevice}
SessionIds == ServerRooms \X Nat
Sanctions == {"force_muted", "force_deafened"}
LocalFlags == {"muted", "deafened"}
Flags == Sanctions \cup LocalFlags
Tasks == {"recv", "sup"}
ControlActions == {"mute", "unmute", "deafen", "undeafen", "kick"}

ASSUME ConnAssumption ==
    /\ ConnUser \in [Conns -> Users]
    /\ ConnDevice \in [Conns -> DeviceIds]
ASSUME RoomAssumption ==
    /\ ServerRooms \cap DmRooms = {}
    /\ DmMembers \in [DmRooms -> SUBSET Users]
    /\ ServerOf \in [ServerRooms -> Servers]
    /\ Moderates \in [Servers -> SUBSET (Users \X Users)]
ASSUME NoneAssumption ==
    None \notin Users \cup Devices \cup {NoDevice} \cup Rooms \cup Servers
                \cup Tokens \cup (ServerRooms \X Nat)
ASSUME BoundAssumption ==
    MaxMsgs \in Nat /\ MaxSessions \in Nat /\ MaxRestarts \in Nat

VARIABLES
    \* WsManager.connections and the tasks of each connection
    reg,            \* connections registered with the WsManager
    sup,            \* [Conns -> phase of handle_socket]
    alive,          \* connections whose receive task can still run
    sent,           \* messages handled so far
    job,            \* [Conns -> [Tasks -> local state of the task]]
    \* AppState.voice_rooms: RwLock<HashMap<String, VoiceRoom>>
    live,           \* keys of the map
    members,        \* [Rooms -> VoiceRoom.members, the user ids]
    device,         \* [Rooms -> VoiceRoom.device_map; None where absent]
    flags,          \* [Rooms -> the four mute/deafen flags of each member]
    session,        \* [Rooms -> VoiceRoom.session_id]
    slots,          \* [Rooms -> VoiceRoom.current_soundboards]
    \* AppState.sb_temp_play
    audio,          \* tokens whose audio is stored
    used,           \* tokens already handed out
    played,         \* tokens some client announced in soundboard_play
    replayed,       \* tokens announced again after that (history)
    lost,           \* tokens that expired or were lost in a restart (history)
    \* SQLite
    chanOpen,       \* voice channels whose row exists
    nextSession,    \* number of the next voice_sessions row
    open,           \* voice_sessions rows <<channel, number>>, ended_at null
    present,        \* voice_participants rows <<session, user>>, left_at null
    left,           \* voice_participants rows <<session, user>>, left_at set
    sanction,       \* voice_sanctions: [Servers -> [Users -> flags]]
    disabled,       \* soundboard_disabled: [Servers -> users]
    waiting,        \* dm_call_waiting: [DmRooms -> waiting user or None]
    aged,           \* markers older than voice_wait_grace_secs
    dmOpen,         \* DM channels whose rows exist
    \* other tasks
    grace,          \* [DmRooms -> grace timers sleeping]
    graceDue,       \* [DmRooms -> grace timers that found the room empty]
    sweep,          \* the periodic sweep_stale_waiting task
    unfriend,       \* [DmRooms -> phase of the remove_friend request]
    clearing,       \* <<server, user>>: disable requests yet to clear slots
    restarts        \* server restarts so far

connVars == <<reg, sup, alive, sent>>
roomVars == <<live, members, device, flags, session, slots>>
sessVars == <<chanOpen, nextSession, open, present, left>>
audioVars == <<audio, used, played, replayed, lost>>
modVars == <<sanction, disabled>>
waitVars == <<waiting, aged>>
taskVars == <<grace, graceDue, sweep, unfriend, clearing>>
vars == <<connVars, job, roomVars, audioVars, sessVars, modVars, waitVars,
          dmOpen, taskVars, restarts>>

-----------------------------------------------------------------------------
(* Local state of a task.                                                  *)

PCs == {"join_insert", "join_kick", "join_count", "join_clear",
        "join_mark", "rm_write", "rm_clear", "rm_slot", "rm_gone", "rm_mark",
        "ctl_set", "ctl_check", "ctl_apply", "wait_set", "decline_set",
        "play_write"}

\* room, who: the room and the member the handler works on.  how: why it
\* removes ("leave", "drop", "kick"), or the control action.  srv: the server
\* a control message names.  sanc: the sanction read from the database.  next:
\* the member to be marked waiting.  tok: the token to be played.  todo: rooms
\* still to be left.
Idle == [pc |-> "idle", room |-> None, who |-> None, how |-> "none", srv |-> None,
         sanc |-> {}, next |-> None, tok |-> None, todo |-> {}]

\* Task at step p, for room r and user u.
Doing(p, r, u, h, s) ==
    [pc |-> p, room |-> r, who |-> u, how |-> h, srv |-> None, sanc |-> s,
     next |-> None, tok |-> None, todo |-> {}]

Busy == [pc : PCs, room : Rooms, who : Users,
         how : {"leave", "drop", "none"} \cup ControlActions,
         srv : Servers \cup {None}, sanc : SUBSET Sanctions, next : Users \cup {None},
         tok : Tokens \cup {None}, todo : SUBSET Rooms]

SetJob(c, t, j) == job' = [job EXCEPT ![c][t] = j]

\* The receive task of c is between two messages and takes one of kind k.
\* Once an abort is requested, a parked task takes no further message.
Takes(c, k) ==
    /\ k \in Kinds
    /\ c \in alive
    /\ sup[c] = "up"
    /\ job[c]["recv"].pc = "idle"
    /\ sent < MaxMsgs
    /\ sent' = sent + 1
    /\ UNCHANGED <<reg, sup, alive>>

\* A client's HTTP request of kind k, by whichever connection.
Asks(k) ==
    /\ k \in Kinds
    /\ sent < MaxMsgs
    /\ sent' = sent + 1
    /\ UNCHANGED <<reg, sup, alive>>

\* The rooms the loop over room_ids still has to leave come next, if any.
Continue(j) ==
    IF j.todo = {} THEN {Idle}
    ELSE {[j EXCEPT !.pc = "rm_write", !.room = r, !.todo = @ \ {r}, !.next = None] :
              r \in j.todo}

-----------------------------------------------------------------------------
(* The connection life cycle: add_connection, handle_socket.               *)

SameDevice(c, e) == ConnUser[c] = ConnUser[e] /\ ConnDevice[c] = ConnDevice[e]

\* add_connection, first lock: drop this device's older registrations.
AddRetain(c) ==
    /\ sup[c] = "new"
    /\ sup' = [sup EXCEPT ![c] = "adding"]
    /\ reg' = IF ConnDevice[c] = NoDevice THEN reg
              ELSE {e \in reg : ~SameDevice(c, e)}
    /\ UNCHANGED <<alive, sent, job, roomVars, audioVars, sessVars, modVars,
                   waitVars, dmOpen, taskVars, restarts>>

\* add_connection, second lock: register; both tasks are spawned.
AddInsert(c) ==
    /\ sup[c] = "adding"
    /\ sup' = [sup EXCEPT ![c] = "up"]
    /\ reg' = reg \cup {c}
    /\ alive' = alive \cup {c}
    /\ UNCHANGED <<sent, job, roomVars, audioVars, sessVars, modVars,
                   waitVars, dmOpen, taskVars, restarts>>

\* The client closed the socket; the receive task sees it between messages.
RecvEnds(c) ==
    /\ sup[c] = "up"
    /\ c \in alive
    /\ job[c]["recv"].pc = "idle"
    /\ sup' = [sup EXCEPT ![c] = "closing"]
    /\ alive' = alive \ {c}
    /\ UNCHANGED <<reg, sent, job, roomVars, audioVars, sessVars, modVars,
                   waitVars, dmOpen, taskVars, restarts>>

\* The send task ended: its channel closed because the registration was
\* dropped, or a write failed.  recv_task.abort() only requests the stop.
SendEnds(c) ==
    /\ sup[c] = "up"
    /\ sup' = [sup EXCEPT ![c] = "closing"]
    /\ UNCHANGED <<reg, alive, sent, job, roomVars, audioVars, sessVars,
                   modVars, waitVars, dmOpen, taskVars, restarts>>

\* Where the receive task can be suspended: between messages and at the
\* broadcasts that await between two critical sections.
AtAwait(j) ==
    \/ j.pc \in {"idle", "join_kick", "rm_mark", "decline_set"}
    \/ j.pc = "rm_write" /\ j.how \in {"kick", "drop"}
    \/ j.pc = "rm_slot" /\ j.room \in ServerRooms

\* The aborted receive task is dropped at an await.
Cancel(c) ==
    /\ c \in alive
    /\ sup[c] \notin {"new", "adding", "up"}
    /\ AtAwait(job[c]["recv"])
    /\ alive' = alive \ {c}
    /\ SetJob(c, "recv", Idle)
    /\ UNCHANGED <<reg, sup, sent, roomVars, audioVars, sessVars, modVars,
                   waitVars, dmOpen, taskVars, restarts>>

\* handle_socket after the select!: remove_connection.
RemoveConnection(c) ==
    /\ sup[c] = "closing"
    /\ sup' = [sup EXCEPT ![c] = "collect"]
    /\ reg' = reg \ {c}
    /\ UNCHANGED <<alive, sent, job, roomVars, audioVars, sessVars, modVars,
                   waitVars, dmOpen, taskVars, restarts>>

\* The rooms in which this device is u's current occupant.
Occupied(u, dev) ==
    {r \in live : /\ u \in members[r]
                  /\ IF device[r][u] = None THEN dev = NoDevice
                     ELSE device[r][u] = dev}

\* voice_remove_user_all_for_device: read the rooms, then leave each.
CollectRooms(c, t) ==
    LET u == ConnUser[c]
        todo == Occupied(u, ConnDevice[c])
    IN  IF todo = {} THEN SetJob(c, t, Idle)
        ELSE \E r \in todo :
                 SetJob(c, t, [Doing("rm_write", r, u, "drop", {}) EXCEPT
                                  !.todo = todo \ {r}])

SupCollect(c) ==
    /\ sup[c] = "collect"
    /\ sup' = [sup EXCEPT ![c] = "gone"]
    /\ CollectRooms(c, "sup")
    /\ UNCHANGED <<reg, alive, sent, roomVars, audioVars, sessVars, modVars,
                   waitVars, dmOpen, taskVars, restarts>>

VoiceLeaveAll(c) ==
    /\ Takes(c, "leave_all")
    /\ CollectRooms(c, "recv")
    /\ UNCHANGED <<roomVars, audioVars, sessVars, modVars, waitVars, dmOpen,
                   taskVars, restarts>>

-----------------------------------------------------------------------------
(* handle_voice_join.                                                      *)

\* What a sanction forces: both mute, deafen also deafens.
Enforced(s) ==
    s \cup (IF s # {} THEN {"muted"} ELSE {})
      \cup (IF "force_deafened" \in s THEN {"deafened"} ELSE {})

\* Validation and the sanction lookup.
JoinStart(c, r) ==
    /\ Takes(c, "join")
    /\ r \in ServerRooms => r \in chanOpen
    /\ r \in DmRooms => r \in dmOpen /\ ConnUser[c] \in DmMembers[r]
    /\ SetJob(c, "recv",
              Doing("join_insert", r, ConnUser[c], "none",
                    IF r \in ServerRooms THEN sanction[ServerOf[r]][ConnUser[c]] ELSE {}))
    /\ UNCHANGED <<roomVars, audioVars, sessVars, modVars, waitVars, dmOpen,
                   taskVars, restarts>>

\* create_voice_session and add_voice_participant, under the rooms lock.  The
\* foreign key of voice_sessions.channel_id refuses the session of a DM room,
\* whose channel id is "", and of a channel deleted since JoinStart: the room
\* goes without.  Likewise a participant of a session that was deleted.  INSERT
\* OR IGNORE leaves the row of a participant who was there before as it is.
OpenSession(r, u) ==
    LET fresh == r \notin live /\ r \in chanOpen
        sid == IF fresh THEN <<r, nextSession>> ELSE session[r]
    IN  /\ fresh => nextSession <= MaxSessions
        /\ nextSession' = IF fresh THEN nextSession + 1 ELSE nextSession
        /\ open' = IF fresh THEN open \cup {sid} ELSE open
        /\ session' = [session EXCEPT ![r] = sid]
        /\ present' = IF sid = None \/ r \notin chanOpen \/ <<sid, u>> \in left
                      THEN present ELSE present \cup {<<sid, u>>}
        /\ UNCHANGED <<chanOpen, left>>

\* The write-locked section: last device wins.
JoinInsert(c) ==
    LET j == job[c]["recv"] IN
    /\ j.pc = "join_insert"
    /\ OpenSession(j.room, j.who)
    /\ live' = live \cup {j.room}
    /\ members' = [members EXCEPT ![j.room] = @ \cup {j.who}]
    /\ device' = [device EXCEPT ![j.room][j.who] = ConnDevice[c]]
    /\ flags' = [flags EXCEPT ![j.room][j.who] = Enforced(j.sanc)]
    /\ SetJob(c, "recv",
              [j EXCEPT !.pc = IF j.who \in members[j.room] /\ ConnDevice[c] # NoDevice
                               THEN "join_kick" ELSE "join_count"])
    /\ UNCHANGED <<slots, connVars, audioVars, modVars, waitVars, dmOpen,
                   taskVars, restarts>>

\* Tell the user's other devices and the other members of the replacement.
JoinKick(c) ==
    LET j == job[c]["recv"] IN
    /\ j.pc = "join_kick"
    /\ SetJob(c, "recv", [j EXCEPT !.pc = "join_count"])
    /\ UNCHANGED <<connVars, roomVars, audioVars, sessVars, modVars, waitVars,
                   dmOpen, taskVars, restarts>>

\* Read the member list; in a DM its length decides about the marker.
JoinCount(c) ==
    LET j == job[c]["recv"]
        n == Cardinality(members[j.room])
    IN  /\ j.pc = "join_count"
        /\ SetJob(c, "recv",
                  IF j.room \in DmRooms /\ n >= 2 THEN [j EXCEPT !.pc = "join_clear"]
                  ELSE IF j.room \in DmRooms /\ n = 1 THEN [j EXCEPT !.pc = "join_mark"]
                  ELSE Idle)
        /\ UNCHANGED <<connVars, roomVars, audioVars, sessVars, modVars,
                       waitVars, dmOpen, taskVars, restarts>>

\* set_dm_call_waiting: upsert, created_at is now.
SetWaiting(d, u) ==
    /\ waiting' = [waiting EXCEPT ![d] = u]
    /\ aged' = aged \ {d}

\* clear_dm_call_waiting.
ClearWaiting(d) ==
    /\ waiting' = [waiting EXCEPT ![d] = None]
    /\ aged' = aged \ {d}

JoinMarker(c) ==
    LET j == job[c]["recv"] IN
    /\ \/ j.pc = "join_clear" /\ ClearWaiting(j.room)
       \/ j.pc = "join_mark" /\ SetWaiting(j.room, j.who)
    /\ SetJob(c, "recv", Idle)
    /\ UNCHANGED <<connVars, roomVars, audioVars, sessVars, modVars, dmOpen,
                   taskVars, restarts>>

-----------------------------------------------------------------------------
(* handle_voice_leave, voice_remove_from_room.                             *)

IsOccupant(r, u, dev) ==
    IF r \notin live THEN TRUE
    ELSE IF device[r][u] = None THEN dev = NoDevice
    ELSE device[r][u] = dev

VoiceLeave(c, r) ==
    /\ Takes(c, "leave")
    /\ SetJob(c, "recv",
              IF IsOccupant(r, ConnUser[c], ConnDevice[c])
              THEN Doing("rm_write", r, ConnUser[c], "leave", {})
              ELSE Idle)
    /\ UNCHANGED <<roomVars, audioVars, sessVars, modVars, waitVars, dmOpen,
                   taskVars, restarts>>

NoDevices == [u \in Users |-> None]
NoFlags == [u \in Users |-> {}]
NoSlots == [u \in Users |-> None]

\* rooms.remove(room_id): the whole VoiceRoom is dropped, playback slots too.
DropRoom(r) ==
    /\ live' = live \ {r}
    /\ members' = [members EXCEPT ![r] = {}]
    /\ device' = [device EXCEPT ![r] = NoDevices]
    /\ flags' = [flags EXCEPT ![r] = NoFlags]
    /\ session' = [session EXCEPT ![r] = None]
    /\ slots' = [slots EXCEPT ![r] = NoSlots]

\* Mutant: the room goes without closing its call.
EndSessionForgotten(r) == UNCHANGED open

\* end_voice_session, when the room has one.
EndSession(r) == open' = open \ {session[r]}

\* Mutant: the participant row is left as it is.
MarkLeftForgotten(r, u) == UNCHANGED <<present, left>>

\* remove_voice_participant, when the room has a session.
MarkLeft(r, u) ==
    LET row == <<session[r], u>> IN
    /\ present' = present \ {row}
    /\ left' = IF row \in present THEN left \cup {row} ELSE left

\* voice_remove_from_room, the write-locked section: without the room it goes
\* on, with no member to be marked waiting.
RmWriteGone(c, t) ==
    LET j == job[c][t] IN
    /\ j.pc = "rm_write"
    /\ j.room \notin live
    /\ SetJob(c, t, [j EXCEPT !.pc = "rm_gone"])
    /\ UNCHANGED <<connVars, roomVars, audioVars, sessVars, modVars, waitVars,
                   dmOpen, taskVars, restarts>>

\* Mutant: the room goes with whoever leaves it.
RmWriteLastAnybody(c, t) ==
    LET j == job[c][t] IN
    /\ j.pc = "rm_write"
    /\ j.room \in live
    /\ MarkLeft(j.room, j.who)
    /\ EndSession(j.room)
    /\ DropRoom(j.room)
    /\ \E k \in Continue(j) : SetJob(c, t, k)
    /\ UNCHANGED <<chanOpen, nextSession, connVars, audioVars, modVars, waitVars, dmOpen,
                   taskVars, restarts>>

\* The last member: the session ends and the room goes.  An explicit leave
\* of a DM goes on to clear the marker; a dropped connection starts the
\* grace timer instead.  Both return before the soundboard part.
RmWriteLast(c, t) ==
    LET j == job[c][t]
        isDm == j.room \in DmRooms
    IN  /\ j.pc = "rm_write"
        /\ j.room \in live
        /\ members[j.room] \subseteq {j.who}
        /\ MarkLeft(j.room, j.who)
        /\ EndSession(j.room)
        /\ DropRoom(j.room)
        /\ IF isDm /\ j.how # "drop"
           THEN SetJob(c, t, [j EXCEPT !.pc = "rm_clear"])
           ELSE \E k \in Continue(j) : SetJob(c, t, k)
        /\ grace' = IF isDm /\ j.how = "drop" THEN [grace EXCEPT ![j.room] = @ + 1]
                    ELSE grace
        /\ UNCHANGED <<graceDue, sweep, unfriend, clearing, chanOpen, nextSession,
                       connVars, audioVars, modVars, waitVars, dmOpen, restarts>>

\* Mutant: the leaver's device_map entry stays.
RmWriteMoreKeepsDevice(c, t) ==
    LET j == job[c][t] IN
    /\ j.pc = "rm_write"
    /\ j.room \in live
    /\ MarkLeft(j.room, j.who)
    /\ members' = [members EXCEPT ![j.room] = @ \ {j.who}]
    /\ flags' = [flags EXCEPT ![j.room][j.who] = {}]
    /\ \E m \in members[j.room] \ {j.who} :
           SetJob(c, t, [j EXCEPT !.pc = "rm_slot",
                                  !.next = IF j.room \in DmRooms THEN m ELSE None])
    /\ UNCHANGED <<live, device, session, slots, chanOpen, open, nextSession, connVars,
                   audioVars, modVars, waitVars, dmOpen, taskVars, restarts>>

\* Others remain; in a DM one of them will be marked as waiting.
RmWriteMore(c, t) ==
    LET j == job[c][t] IN
    /\ j.pc = "rm_write"
    /\ j.room \in live
    /\ MarkLeft(j.room, j.who)
    /\ members' = [members EXCEPT ![j.room] = @ \ {j.who}]
    /\ device' = [device EXCEPT ![j.room][j.who] = None]
    /\ flags' = [flags EXCEPT ![j.room][j.who] = {}]
    /\ \E m \in members[j.room] \ {j.who} :
           SetJob(c, t, [j EXCEPT !.pc = "rm_slot",
                                  !.next = IF j.room \in DmRooms THEN m ELSE None])
    /\ UNCHANGED <<live, session, slots, chanOpen, open, nextSession, connVars,
                   audioVars, modVars, waitVars, dmOpen, taskVars, restarts>>

RmClear(c, t) ==
    LET j == job[c][t] IN
    /\ j.pc = "rm_clear"
    /\ ClearWaiting(j.room)
    /\ \E k \in Continue(j) : SetJob(c, t, k)
    /\ UNCHANGED <<connVars, roomVars, audioVars, sessVars, modVars, dmOpen,
                   taskVars, restarts>>

\* Drop u's playback slot in room r and free its audio, if it has one.
FreeSlot(r, u) ==
    /\ slots' = [slots EXCEPT ![r][u] = None]
    /\ audio' = audio \ {slots[r][u]}
    /\ UNCHANGED <<used, played, replayed, lost>>

\* The second write-locked section: the leaver's own soundboard slot.
RmSlot(c, t) ==
    LET j == job[c][t] IN
    /\ j.pc \in {"rm_slot", "rm_gone"}
    /\ FreeSlot(j.room, j.who)
    /\ IF j.pc = "rm_slot" /\ j.room \in DmRooms THEN SetJob(c, t, [j EXCEPT !.pc = "rm_mark"])
       ELSE \E k \in Continue(j) : SetJob(c, t, k)
    /\ UNCHANGED <<live, members, device, flags, session, connVars, sessVars,
                   modVars, waitVars, dmOpen, taskVars, restarts>>

\* One side left a DM call: the remaining participant is the waiting one.
RmMark(c, t) ==
    LET j == job[c][t] IN
    /\ j.pc = "rm_mark"
    /\ SetWaiting(j.room, j.next)
    /\ \E k \in Continue(j) : SetJob(c, t, k)
    /\ UNCHANGED <<connVars, roomVars, audioVars, sessVars, modVars, dmOpen,
                   taskVars, restarts>>

Remove(c, t) ==
    \/ RmWriteGone(c, t)
    \/ RmWriteLast(c, t)
    \/ RmWriteMore(c, t)
    \/ RmClear(c, t)
    \/ RmSlot(c, t)
    \/ RmMark(c, t)

-----------------------------------------------------------------------------
(* handle_voice_state and handle_voice_control.                            *)

\* Mutant: the reported state replaces what the sanction forces.
VoiceStateTrusted(c, r, req) ==
    LET u == ConnUser[c] IN
    /\ Takes(c, "state")
    /\ u \in members[r]
    /\ flags' = [flags EXCEPT ![r][u] = req \cup (@ \cap Sanctions)]
    /\ UNCHANGED <<live, members, device, session, slots, job, audioVars,
                   sessVars, modVars, waitVars, dmOpen, taskVars, restarts>>

\* The member reports its own state; a sanction overrides it.  Camera,
\* screen, quality and feed settings are plain metadata and are left out.
VoiceState(c, r, req) ==
    LET u == ConnUser[c]
        forced == flags[r][u] \cap Sanctions
    IN  /\ Takes(c, "state")
        /\ u \in members[r]
        /\ flags' = [flags EXCEPT ![r][u] = req \cup Enforced(forced)]
        /\ UNCHANGED <<live, members, device, session, slots, job, audioVars,
                       sessVars, modVars, waitVars, dmOpen, taskVars, restarts>>

\* Mutant: a mute is stored as the member's own flag, not as a sanction.
SanctionedAsLocal(s, act) ==
    IF act = "mute" THEN s \cup {"muted"} ELSE s \cap Sanctions

\* The sanction after the action, from the one read before it.
Sanctioned(s, act) ==
    CASE act = "mute"     -> s \cup {"force_muted"}
      [] act = "unmute"   -> s \ {"force_muted"}
      [] act = "deafen"   -> Sanctions
      [] act = "undeafen" -> s \ {"force_deafened"}
      [] OTHER            -> s

\* get_voice_sanction of the server s a control message names.
ControlJob(s, r, act, u) ==
    [Doing(IF act = "kick" THEN "ctl_check" ELSE "ctl_set", r, u, act,
           Sanctioned(sanction[s][u], act)) EXCEPT !.srv = s]

\* Mutant: the permission and hierarchy checks are missing.
ControlReadUnchecked(c, s, r, act, u) ==
    /\ Takes(c, "control")
    /\ SetJob(c, "recv", ControlJob(s, r, act, u))
    /\ UNCHANGED <<roomVars, audioVars, sessVars, modVars, waitVars, dmOpen,
                   taskVars, restarts>>

\* Permission and hierarchy checks in the server the message names, then
\* get_voice_sanction.  Nothing checks that room r is a channel of server s.
ControlRead(c, s, r, act, u) ==
    /\ Takes(c, "control")
    /\ <<ConnUser[c], u>> \in Moderates[s]
    /\ SetJob(c, "recv", ControlJob(s, r, act, u))
    /\ UNCHANGED <<roomVars, audioVars, sessVars, modVars, waitVars, dmOpen,
                   taskVars, restarts>>

\* set_voice_sanction, and clear_voice_sanction when nothing is left of it.
ControlSet(c) ==
    LET j == job[c]["recv"] IN
    /\ j.pc = "ctl_set"
    /\ sanction' = [sanction EXCEPT ![j.srv][j.who] = j.sanc]
    /\ SetJob(c, "recv", [j EXCEPT !.pc = "ctl_check"])
    /\ UNCHANGED <<disabled, connVars, roomVars, audioVars, sessVars, waitVars,
                   dmOpen, taskVars, restarts>>

\* Is the target in the room?  A kick then removes it like an explicit leave.
ControlCheck(c) ==
    LET j == job[c]["recv"] IN
    /\ j.pc = "ctl_check"
    /\ SetJob(c, "recv",
              IF j.who \notin members[j.room] THEN Idle
              ELSE [j EXCEPT !.pc = IF j.how = "kick" THEN "rm_write"
                                    ELSE "ctl_apply"])
    /\ UNCHANGED <<connVars, roomVars, audioVars, sessVars, modVars, waitVars,
                   dmOpen, taskVars, restarts>>

\* Update the member in memory, if it is still there.
ControlApply(c) ==
    LET j == job[c]["recv"] IN
    /\ j.pc = "ctl_apply"
    /\ flags' = IF j.who \in members[j.room]
                THEN [flags EXCEPT ![j.room][j.who] = Enforced(j.sanc)] ELSE flags
    /\ SetJob(c, "recv", Idle)
    /\ UNCHANGED <<live, members, device, session, slots, connVars, audioVars,
                   sessVars, modVars, waitVars, dmOpen, taskVars, restarts>>

-----------------------------------------------------------------------------
(* handle_dm_call_waiting, handle_dm_call_end.                             *)

\* 30 s unanswered: persisted only when the sender is in the room.
DmCallWaiting(c, d) ==
    LET u == ConnUser[c] IN
    /\ Takes(c, "dm_waiting")
    /\ d \in dmOpen /\ u \in DmMembers[d]
    /\ SetJob(c, "recv",
              IF u \in members[d]
              THEN Doing("wait_set", d, u, "none", {})
              ELSE Idle)
    /\ UNCHANGED <<roomVars, audioVars, sessVars, modVars, waitVars, dmOpen,
                   taskVars, restarts>>

\* The callee declines: the caller is put in the waiting state, wherever it
\* is.  Any other reason only relays the message.
DmCallDeclined(c, d) ==
    /\ Takes(c, "dm_declined")
    /\ d \in dmOpen /\ ConnUser[c] \in DmMembers[d]
    /\ \E caller \in DmMembers[d] \ {ConnUser[c]} :
           SetJob(c, "recv", Doing("decline_set", d, caller, "none", {}))
    /\ UNCHANGED <<roomVars, audioVars, sessVars, modVars, waitVars, dmOpen,
                   taskVars, restarts>>

WaitSet(c) ==
    LET j == job[c]["recv"] IN
    /\ j.pc \in {"wait_set", "decline_set"}
    /\ SetWaiting(j.room, j.who)
    /\ SetJob(c, "recv", Idle)
    /\ UNCHANGED <<connVars, roomVars, audioVars, sessVars, modVars, dmOpen,
                   taskVars, restarts>>

-----------------------------------------------------------------------------
(* Soundboard: upload_sb_temp_play, soundboard_play, soundboard_stop,      *)
(* disable_soundboard_user, enable_soundboard_user.                        *)

\* retain: entries of the set old, by now older than 15 minutes, are dropped.
Expire(old, new) ==
    /\ audio' = (audio \ old) \cup new
    /\ lost' = lost \cup old
    /\ UNCHANGED <<played, replayed, connVars, job, roomVars, sessVars, modVars,
                   waitVars, dmOpen, taskVars, restarts>>

\* Store the decrypted clip under a fresh token and drop the old ones.
UploadTempPlay(tok, old) ==
    /\ tok \notin used
    /\ used' = used \cup {tok}
    /\ Expire(old, {tok})

\* sb_temp_play_cleanup.
CleanupTempPlay(old) ==
    /\ old # {}
    /\ Expire(old, {})
    /\ UNCHANGED used

\* Find the room; a server room also asks is_soundboard_user_disabled.  The
\* token comes from the client as it is: None stands for an empty or unknown
\* one, and one announced before may come again.
SoundboardPlay(c, r, tok) ==
    /\ Takes(c, "play")
    /\ r \in live
    /\ tok \in used \cup {None}
    /\ r \in ServerRooms => ConnUser[c] \notin disabled[ServerOf[r]]
    /\ played' = played \cup ({tok} \ {None})
    /\ replayed' = replayed \cup ({tok} \cap played)
    /\ SetJob(c, "recv", [Doing("play_write", r, ConnUser[c], "none", {}) EXCEPT
                              !.tok = tok])
    /\ UNCHANGED <<audio, used, lost, roomVars, sessVars, modVars, waitVars, dmOpen,
                   taskVars, restarts>>

\* Mutant: the slot is overwritten first, so the new clip's audio is freed.
PlayWriteFreesNew(c) ==
    LET j == job[c]["recv"] IN
    /\ j.pc = "play_write"
    /\ slots' = IF j.room \in live THEN [slots EXCEPT ![j.room][j.who] = j.tok] ELSE slots
    /\ audio' = IF j.room \in live THEN audio \ {j.tok} ELSE audio
    /\ SetJob(c, "recv", Idle)
    /\ UNCHANGED <<used, played, replayed, lost, live, members, device, flags, session,
                   connVars, sessVars, modVars, waitVars, dmOpen, taskVars, restarts>>

\* The player's own slot is replaced and the audio it held is freed.
PlayWrite(c) ==
    LET j == job[c]["recv"] IN
    /\ j.pc = "play_write"
    /\ IF j.room \in live
       THEN /\ slots' = [slots EXCEPT ![j.room][j.who] = j.tok]
            /\ audio' = audio \ {slots[j.room][j.who]}
       ELSE UNCHANGED <<slots, audio>>
    /\ SetJob(c, "recv", Idle)
    /\ UNCHANGED <<used, played, replayed, lost, live, members, device, flags, session,
                   connVars, sessVars, modVars, waitVars, dmOpen, taskVars, restarts>>

\* Only the sender's own slot is ever stopped.
SoundboardStop(c, r) ==
    /\ Takes(c, "stop")
    /\ FreeSlot(r, ConnUser[c])
    /\ UNCHANGED <<job, live, members, device, flags, session, sessVars,
                   modVars, waitVars, dmOpen, taskVars, restarts>>

\* A moderator's HTTP request disables u in the database of server s ...
DisableSoundboard(s, u) ==
    /\ Asks("disable")
    /\ \E m \in Users : <<m, u>> \in Moderates[s]
    /\ disabled' = [disabled EXCEPT ![s] = @ \cup {u}]
    /\ clearing' = clearing \cup {<<s, u>>}
    /\ UNCHANGED <<sanction, grace, graceDue, sweep, unfriend, job,
                   roomVars, audioVars, sessVars, waitVars, dmOpen, restarts>>

\* ... then clears u's slots in every room of the server and frees their audio.
ClearDisabledSlots(s, u) ==
    LET rooms == {r \in ServerRooms : ServerOf[r] = s} IN
    /\ <<s, u>> \in clearing
    /\ clearing' = clearing \ {<<s, u>>}
    /\ slots' = [r \in Rooms |-> IF r \in rooms THEN [slots[r] EXCEPT ![u] = None]
                                 ELSE slots[r]]
    /\ audio' = audio \ {slots[r][u] : r \in rooms}
    /\ UNCHANGED <<grace, graceDue, sweep, unfriend, used, played, replayed, lost, live,
                   members, device, flags, session, connVars, job, sessVars, modVars,
                   waitVars, dmOpen, restarts>>

EnableSoundboard(s, u) ==
    /\ Asks("disable")
    /\ \E m \in Users : <<m, u>> \in Moderates[s]
    /\ disabled' = [disabled EXCEPT ![s] = @ \ {u}]
    /\ UNCHANGED <<sanction, job, roomVars, audioVars, sessVars,
                   waitVars, dmOpen, taskVars, restarts>>

-----------------------------------------------------------------------------
(* delete_channel.                                                         *)

\* The channel's row goes, and by the foreign keys its voice_sessions and
\* voice_participants rows.  Nobody looks at the voice_rooms map.
DeleteChannel(r) ==
    LET others(rows) == {row \in rows : row[1][1] # r} IN
    /\ Asks("delete")
    /\ r \in chanOpen
    /\ chanOpen' = chanOpen \ {r}
    /\ open' = {sid \in open : sid[1] # r}
    /\ present' = others(present)
    /\ left' = others(left)
    /\ UNCHANGED <<nextSession, job, roomVars, audioVars, modVars, waitVars, dmOpen,
                   taskVars, restarts>>

-----------------------------------------------------------------------------
(* remove_friend and end_dm_call_between.                                  *)

\* The database part: the DM's rows and its waiting marker are deleted.
UnfriendDb(d) ==
    /\ unfriend[d] = "no"
    /\ "unfriend" \in Kinds
    /\ unfriend' = [unfriend EXCEPT ![d] = "end_room"]
    /\ dmOpen' = dmOpen \ {d}
    /\ ClearWaiting(d)
    /\ UNCHANGED <<grace, graceDue, sweep, clearing, connVars, job, roomVars, audioVars,
                   sessVars, modVars, restarts>>

\* end_dm_call_between: drop the room ...
UnfriendEndRoom(d) ==
    /\ unfriend[d] = "end_room"
    /\ unfriend' = [unfriend EXCEPT ![d] = "clear"]
    /\ EndSession(d)
    /\ DropRoom(d)
    /\ UNCHANGED <<grace, graceDue, sweep, clearing, connVars, job, audioVars,
                   chanOpen, nextSession, present, left, modVars, waitVars, dmOpen,
                   restarts>>

\* ... and clear the marker once more.
UnfriendClear(d) ==
    /\ unfriend[d] = "clear"
    /\ unfriend' = [unfriend EXCEPT ![d] = "done"]
    /\ ClearWaiting(d)
    /\ UNCHANGED <<grace, graceDue, sweep, clearing, connVars, job, roomVars, audioVars,
                   sessVars, modVars, dmOpen, restarts>>

-----------------------------------------------------------------------------
(* The grace timer of a dropped connection, and the periodic sweep.        *)

\* The grace window is over: is the room still gone?
GraceCheck(d) ==
    /\ grace[d] > 0
    /\ grace' = [grace EXCEPT ![d] = @ - 1]
    /\ graceDue' = IF d \in live THEN graceDue ELSE [graceDue EXCEPT ![d] = @ + 1]
    /\ UNCHANGED <<sweep, unfriend, clearing, connVars, job, roomVars, audioVars,
                   sessVars, modVars, waitVars, dmOpen, restarts>>

GraceClear(d) ==
    /\ graceDue[d] > 0
    /\ graceDue' = [graceDue EXCEPT ![d] = @ - 1]
    /\ ClearWaiting(d)
    /\ UNCHANGED <<grace, sweep, unfriend, clearing, connVars, job, roomVars, audioVars,
                   sessVars, modVars, dmOpen, restarts>>

\* Time passes: the marker of d becomes older than the grace window.
MarkerAges(d) ==
    /\ waiting[d] # None
    /\ d \notin aged
    /\ aged' = aged \cup {d}
    /\ UNCHANGED <<waiting, connVars, job, roomVars, audioVars, sessVars,
                   modVars, dmOpen, taskVars, restarts>>

SweepPCs == {"idle", "next", "connected", "clear"}
SweepIdle == [pc |-> "idle", dm |-> None, todo |-> {}]

SetSweep(s) == sweep' = s /\ UNCHANGED <<grace, graceDue, unfriend, clearing>>

\* list_stale_dm_call_waiting.
SweepList ==
    /\ sweep.pc = "idle"
    /\ \E d \in aged : waiting[d] # None
    /\ SetSweep([pc |-> "next", dm |-> None,
                 todo |-> {<<d, waiting[d]>> : d \in {e \in aged : waiting[e] # None}}])
    /\ UNCHANGED <<connVars, job, roomVars, audioVars, sessVars, modVars,
                   waitVars, dmOpen, restarts>>

\* Mutant: a connected owner is taken to be in the room.
SweepConnectedSuffices ==
    /\ sweep.pc = "next"
    /\ IF sweep.todo = {} THEN SetSweep(SweepIdle)
       ELSE \E m \in sweep.todo :
                SetSweep([pc |-> IF \E c \in reg : ConnUser[c] = m[2]
                                 THEN "next" ELSE "clear",
                          dm |-> m, todo |-> sweep.todo \ {m}])
    /\ UNCHANGED <<connVars, job, roomVars, audioVars, sessVars, modVars,
                   waitVars, dmOpen, restarts>>

\* The next row: is its owner still connected?
SweepConnected ==
    /\ sweep.pc = "next"
    /\ IF sweep.todo = {} THEN SetSweep(SweepIdle)
       ELSE \E m \in sweep.todo :
                SetSweep([pc |-> IF \E c \in reg : ConnUser[c] = m[2]
                                 THEN "connected" ELSE "clear",
                          dm |-> m, todo |-> sweep.todo \ {m}])
    /\ UNCHANGED <<connVars, job, roomVars, audioVars, sessVars, modVars,
                   waitVars, dmOpen, restarts>>

\* ... and still in the room?
SweepInRoom ==
    /\ sweep.pc = "connected"
    /\ SetSweep([sweep EXCEPT !.pc = IF sweep.dm[2] \in members[sweep.dm[1]]
                                     THEN "next" ELSE "clear"])
    /\ UNCHANGED <<connVars, job, roomVars, audioVars, sessVars, modVars,
                   waitVars, dmOpen, restarts>>

SweepClear ==
    /\ sweep.pc = "clear"
    /\ SetSweep([sweep EXCEPT !.pc = "next"])
    /\ ClearWaiting(sweep.dm[1])
    /\ UNCHANGED <<connVars, job, roomVars, audioVars, sessVars, modVars,
                   dmOpen, restarts>>

-----------------------------------------------------------------------------
(* A server restart loses everything in memory; startup runs               *)
(* clear_all_dm_call_waiting.  Open voice_sessions rows stay open.         *)

Restart ==
    /\ restarts < MaxRestarts
    /\ restarts' = restarts + 1
    /\ reg' = {} /\ alive' = {}
    /\ sup' = [c \in Conns |-> IF sup[c] = "new" THEN "new" ELSE "gone"]
    /\ job' = [c \in Conns |-> [t \in Tasks |-> Idle]]
    /\ live' = {}
    /\ members' = [r \in Rooms |-> {}]
    /\ device' = [r \in Rooms |-> NoDevices]
    /\ flags' = [r \in Rooms |-> NoFlags]
    /\ session' = [r \in Rooms |-> None]
    /\ slots' = [r \in Rooms |-> NoSlots]
    /\ audio' = {} /\ lost' = used /\ clearing' = {}
    /\ waiting' = [d \in DmRooms |-> None] /\ aged' = {}
    /\ grace' = [d \in DmRooms |-> 0] /\ graceDue' = [d \in DmRooms |-> 0]
    /\ sweep' = SweepIdle
    /\ unfriend' = [d \in DmRooms |-> IF unfriend[d] = "no" THEN "no" ELSE "done"]
    /\ UNCHANGED <<sent, used, played, replayed, sessVars, modVars, dmOpen>>

-----------------------------------------------------------------------------
Init ==
    /\ reg = {} /\ alive = {}
    /\ sup = [c \in Conns |-> "new"]
    /\ sent = 0
    /\ job = [c \in Conns |-> [t \in Tasks |-> Idle]]
    /\ live = {}
    /\ members = [r \in Rooms |-> {}]
    /\ device = [r \in Rooms |-> NoDevices]
    /\ flags = [r \in Rooms |-> NoFlags]
    /\ session = [r \in Rooms |-> None]
    /\ slots = [r \in Rooms |-> NoSlots]
    /\ audio = {} /\ used = {} /\ played = {} /\ replayed = {} /\ lost = {}
    /\ chanOpen = ServerRooms
    /\ nextSession = 1 /\ open = {} /\ present = {} /\ left = {}
    /\ sanction = [s \in Servers |-> [u \in Users |-> {}]]
    /\ disabled = [s \in Servers |-> {}] /\ clearing = {}
    /\ waiting = [d \in DmRooms |-> None] /\ aged = {}
    /\ dmOpen = DmRooms
    /\ grace = [d \in DmRooms |-> 0] /\ graceDue = [d \in DmRooms |-> 0]
    /\ sweep = SweepIdle
    /\ unfriend = [d \in DmRooms |-> "no"]
    /\ restarts = 0

\* Steps a running task takes by itself.
Join(c) == JoinInsert(c) \/ JoinKick(c) \/ JoinCount(c) \/ JoinMarker(c)
Control(c) == ControlSet(c) \/ ControlCheck(c) \/ ControlApply(c)
Handler(c) == Join(c) \/ Control(c) \/ WaitSet(c) \/ PlayWrite(c) \/ Remove(c, "recv")
Supervisor(c) == RemoveConnection(c) \/ SupCollect(c) \/ Remove(c, "sup")
Sweep == SweepList \/ SweepConnected \/ SweepInRoom \/ SweepClear
Timers(d) == GraceCheck(d) \/ GraceClear(d) \/ MarkerAges(d)
Unfriend(d) == UnfriendEndRoom(d) \/ UnfriendClear(d)

\* What clients and the network do.
Connection(c) == AddRetain(c) \/ AddInsert(c) \/ RecvEnds(c) \/ SendEnds(c) \/ Cancel(c)
Message(c) ==
    \/ \E r \in Rooms : JoinStart(c, r) \/ VoiceLeave(c, r) \/ SoundboardStop(c, r)
    \/ VoiceLeaveAll(c)
    \/ \E r \in Rooms, req \in SUBSET LocalFlags : VoiceState(c, r, req)
    \/ \E s \in Servers, r \in ServerRooms, act \in ControlActions, u \in Users :
           ControlRead(c, s, r, act, u)
    \/ \E d \in DmRooms : DmCallWaiting(c, d) \/ DmCallDeclined(c, d)
    \/ \E r \in Rooms, tok \in Tokens \cup {None} : SoundboardPlay(c, r, tok)
Request ==
    \/ \E tok \in Tokens, old \in SUBSET audio : UploadTempPlay(tok, old)
    \/ \E old \in SUBSET audio : CleanupTempPlay(old)
    \/ \E s \in Servers, u \in Users :
           DisableSoundboard(s, u) \/ ClearDisabledSlots(s, u) \/ EnableSoundboard(s, u)
    \/ \E r \in ServerRooms : DeleteChannel(r)
    \/ \E d \in DmRooms : UnfriendDb(d)

Next ==
    \/ \E c \in Conns : Connection(c) \/ Message(c) \/ Handler(c) \/ Supervisor(c)
    \/ \E d \in DmRooms : Timers(d) \/ Unfriend(d)
    \/ Request
    \/ Sweep
    \/ Restart

Spec == Init /\ [][Next]_vars

\* The clock goes on and main.rs's loop keeps running sweep_stale_waiting.
\* Nothing else is assumed: a handler may hang for ever at any of its steps,
\* and clients owe nothing.
Fairness ==
    /\ \A d \in DmRooms : WF_vars(MarkerAges(d))
    /\ WF_vars(Sweep)

FairSpec == Spec /\ Fairness

-----------------------------------------------------------------------------
(* Properties.                                                             *)

ConnTyped ==
    /\ reg \subseteq Conns /\ alive \subseteq Conns /\ sent \in Nat
    /\ sup \in [Conns -> {"new", "adding", "up", "closing", "collect", "gone"}]
JobTyped == job \in [Conns -> [Tasks -> Busy \cup {Idle}]]
RoomTyped ==
    /\ live \subseteq Rooms
    /\ members \in [Rooms -> SUBSET Users]
    /\ device \in [Rooms -> [Users -> DeviceIds \cup {None}]]
    /\ flags \in [Rooms -> [Users -> SUBSET Flags]]
    /\ session \in [Rooms -> SessionIds \cup {None}]
    /\ slots \in [Rooms -> [Users -> Tokens \cup {None}]]
AudioTyped ==
    /\ audio \subseteq Tokens /\ used \subseteq Tokens /\ played \subseteq Tokens
    /\ replayed \subseteq Tokens /\ lost \subseteq Tokens
SessTyped ==
    /\ chanOpen \subseteq ServerRooms
    /\ nextSession \in Nat /\ open \subseteq SessionIds
    /\ present \subseteq SessionIds \X Users /\ left \subseteq SessionIds \X Users
ModTyped ==
    /\ sanction \in [Servers -> [Users -> SUBSET Sanctions]]
    /\ disabled \in [Servers -> SUBSET Users]
WaitTyped ==
    /\ waiting \in [DmRooms -> Users \cup {None}]
    /\ aged \subseteq DmRooms /\ dmOpen \subseteq DmRooms
TaskTyped ==
    /\ grace \in [DmRooms -> Nat] /\ graceDue \in [DmRooms -> Nat]
    /\ sweep \in [pc : SweepPCs, dm : (DmRooms \X Users) \cup {None},
                  todo : SUBSET (DmRooms \X Users)]
    /\ unfriend \in [DmRooms -> {"no", "end_room", "clear", "done"}]
    /\ clearing \subseteq Servers \X Users /\ restarts \in Nat

\* Every variable keeps its type (the Rust types and the table columns).
TypeOK ==
    /\ ConnTyped /\ JobTyped /\ RoomTyped /\ AudioTyped /\ SessTyped
    /\ ModTyped /\ WaitTyped /\ TaskTyped

\* A room is in the map exactly while it has members, and device_map has an
\* entry for exactly the members: no empty room lingers, no device entry
\* outlives its member, whatever joins, leaves, kicks and unfriends interleave.
RoomShape ==
    /\ \A r \in Rooms : r \in live <=> members[r] # {}
    /\ \A r \in Rooms, u \in Users : u \in members[r] <=> device[r][u] # None
    /\ \A r \in Rooms, u \in Users : u \notin members[r] => flags[r][u] = {}

\* Every room in the map whose channel exists has a voice_sessions row of its
\* own that has not ended; and (until a restart loses the map) every row that
\* has not ended is that of a room in the map: a call is closed once, and never
\* while somebody is in it.
SessionsMatchRooms ==
    /\ \A r \in live \cap chanOpen : session[r] \in open
    /\ restarts = 0 => \A sid \in open : \E r \in live : session[r] = sid

\* voice_participants never shows as present somebody who is not in the call.
PresentAreMembers ==
    restarts = 0 =>
        \A row \in present :
            \E r \in live : session[r] = row[1] /\ row[2] \in members[r]

\* A sanctioned member is muted (and deafened) no matter how its own
\* voice_state messages, joins and the moderators' controls interleave.
SanctionEnforced ==
    \A r \in Rooms, u \in Users : Enforced(flags[r][u] \cap Sanctions) \subseteq flags[r][u]

\* m has the permission and outranks u in the server job j names.
ModeratesIn(j, m, u) == \E s \in Servers : j.srv = s /\ <<m, u>> \in Moderates[s]

\* A member disappears from a call only through a task of its own account, a
\* moderator who outranks it in the server the control message names, the end
\* of the friendship or a restart.
EvictionAuthorized ==
    [][ \A r \in Rooms, u \in Users :
          u \in members[r] /\ u \notin members'[r] =>
            \/ \E c \in Conns, t \in Tasks :
                  /\ job[c][t].pc = "rm_write" /\ job[c][t].room = r
                  /\ job[c][t].who = u
                  /\ ConnUser[c] = u \/ ModeratesIn(job[c][t], ConnUser[c], u)
            \/ r \in DmRooms /\ unfriend[r] = "end_room"
            \/ restarts' # restarts ]_vars

\* The clip in a slot still has its audio: stopping, leaving, re-playing and
\* disabling, in whatever order, never free it.  The exceptions are audio that
\* expired or went in a restart, and a token its client announced again, since
\* the slot given up first then takes along the audio of the other.
PlayingKeepsAudio ==
    \A r \in Rooms, u \in Users :
        slots[r][u] # None => slots[r][u] \in audio \cup lost \cup replayed

\* A waiting marker whose owner is not in the room is not there for good: the
\* owner comes back, another user takes over, or the sweep clears it.
StaleMarkerCleared ==
    \A d \in DmRooms, u \in Users :
        waiting[d] = u /\ u \notin members[d] ~> waiting[d] # u \/ u \in members[d]

-----------------------------------------------------------------------------
(* What the code's comments promise and the code does not keep.            *)

\* No task is working on room r.
Quiet(r) ==
    \A c \in Conns, t \in Tasks :
        job[c][t].pc # "idle" => job[c][t].room # r /\ r \notin job[c][t].todo

\* A leave or a disconnect of one device never removes the device that
\* replaced it in the room.
ReplacementStays ==
    [][ \A c \in Conns, t \in Tasks :
          LET j == job[c][t] IN
          j.pc = "rm_write" /\ j.how \in {"leave", "drop"} /\ job'[c][t] # j
              /\ device[j.room][j.who] \notin {None, ConnDevice[c]}
            => members'[j.room] = members[j.room] ]_vars

\* A moderator takes a member out of the calls of its own server only.
EvictedByOwnServer ==
    [][ \A c \in Conns, t \in Tasks :
          LET j == job[c][t] IN
          j.pc = "rm_write" /\ j.how = "kick" /\ members'[j.room] # members[j.room]
              /\ job'[c][t] # j
            => j.room \in ServerRooms /\ j.srv = ServerOf[j.room] ]_vars

\* A sanction in the database is the one the member in the room is under.
SanctionReachesMember ==
    \A r \in ServerRooms, u \in Users :
        Quiet(r) /\ u \in members[r] => flags[r][u] \cap Sanctions = sanction[ServerOf[r]][u]

\* Every member of a server call is recorded as present in its session.
MembersArePresent ==
    \A r \in live \cap ServerRooms, u \in Users :
        u \in members[r] => <<session[r], u>> \in present
=============================================================================
