------------------------------ MODULE Messages ------------------------------
(***************************************************************************)
(* Stored messages: what the WebSocket handlers of ws.rs and the sweeper   *)
(* of disappearing messages do to the message tables of SQLite (db.rs),    *)
(* for server channels and for DMs.                                        *)
(*                                                                         *)
(* Atomicity.  A step is one database call: Database.conn is one           *)
(* Mutex<Connection>, taken and released by each method.  A handler is a   *)
(* sequence of such calls and any other task may run between two of them.  *)
(* Deleting a message with an attached file takes the mutex a second time  *)
(* while it holds it: from there on hung is TRUE and no step of any task   *)
(* that needs the database is possible.                                    *)
(*                                                                         *)
(* A task is one connection's receive loop, which handles one message at a *)
(* time.  Clients send any message of Kinds, MaxOps of them in all.  Texts *)
(* stand for encrypted contents; a text's search tokens are represented by *)
(* the text.  What the handlers broadcast is not modelled, nor are changes *)
(* of membership, which other handlers make.                               *)
(***************************************************************************)
EXTENDS Naturals, FiniteSets

CONSTANTS
    Users, Tasks,       \* accounts; connections
    TaskUser,           \* [Tasks -> Users]: the authenticated account
    Channels, Dms,      \* server channels, DM channels
    Members,            \* [Channels \cup Dms -> SUBSET Users]
    Texts,              \* message contents
    Wordless,           \* the texts without a searchable word
    Files,              \* uploaded files
    Emojis, Options,    \* blind tokens of reactions and of poll options
    Ttls,               \* what clients choose: "never" or to expire "later"
    Granted,            \* <<permission, user>> pairs of the roles at start
    Changing,           \* the pairs role administration may change
    Kinds,              \* the message kinds the clients of an instance send
    None,               \* Option::None, NULL
    MaxMessages,        \* bound: messages stored
    MaxOps              \* bound: client messages and role changes

Convs == Channels \cup Dms
MsgIds == 1..MaxMessages
Perms == {"send", "reply", "react", "view", "pin", "manage"}
Tokens == Emojis \cup Options
Statuses == {"delivered", "read"}

ASSUME TaskAssumption == TaskUser \in [Tasks -> Users]
ASSUME ConvAssumption ==
    /\ Channels \cap Dms = {}
    /\ Members \in [Convs -> SUBSET Users]
ASSUME TextAssumption == Wordless \subseteq Texts /\ Ttls \subseteq {"never", "later"}
ASSUME PermAssumption ==
    Granted \subseteq Perms \X Users /\ Changing \subseteq Perms \X Users
ASSUME NoneAssumption ==
    None \notin Users \cup Convs \cup Texts \cup Files \cup Tokens \cup Statuses \cup Nat
ASSUME BoundAssumption ==
    MaxMessages \in Nat \ {0} /\ MaxOps \in Nat

VARIABLES
    rows,       \* messages, dm_messages: [MsgIds -> Row or None]
    nextMsg,    \* the next message id (a fresh UUID)
    tokens,     \* message_search_tokens: [MsgIds -> SUBSET Texts]
    reactions,  \* message_reactions: <<message, reactor, emoji>>
    votes,      \* message_poll_votes: <<message, voter, option>>
    acks,       \* message_acks: <<message, acker, status>>
    pins,       \* message_pins: message ids
    files,      \* rows of the files table, with their chunks
    granted,    \* effective permissions: <<permission, user>>
    job,        \* [Tasks -> the handler's program counter and locals]
    sweep,      \* local state of sweep_expired_messages
    hung,       \* TRUE once a task waits for the mutex it holds
    ops         \* client messages and role changes so far

tables == <<rows, nextMsg, tokens, reactions, votes, acks, pins>>
vars == <<tables, files, granted, job, sweep, hung, ops>>

\* due: expires_at lies in the future, has passed, or is NULL.
Row == [conv : Convs, sender : Users, text : Texts, file : Files \cup {None},
        due : {"never", "later", "now"}, parent : MsgIds \cup {None}]

\* What is fixed of a row.
Header == [conv : Convs, sender : Users, file : Files \cup {None}]

ASSUME NoneRowAssumption == None \notin Row /\ None \notin Header

PCs == {"save", "index", "edit", "retoken", "del_own", "del_perm", "del_any",
        "react_add", "react_remove", "vote_switch", "vote_add",
        "vote_remove", "ack", "pin", "unpin"}

\* row: the message to be saved.  arg: text, emoji, option or status.
\* drop: remove_option_tokens of a poll vote.
Idle == [pc |-> "idle", conv |-> None, msg |-> None, row |-> None,
         arg |-> None, drop |-> {}]

Doing(p, k, m, a) == [Idle EXCEPT !.pc = p, !.conv = k, !.msg = m, !.arg = a]

Busy == [pc : PCs, conv : Convs, msg : MsgIds \cup {None},
         row : Row \cup {None},
         arg : Texts \cup Tokens \cup Statuses \cup {None},
         drop : SUBSET Options]

\* Sweeper: the list it works on and the row whose file it has yet to shred.
SweepPhases == {"channel", "dm"}

Stored(m) == rows[m] # None
ChannelMessages == {m \in MsgIds : Stored(m) /\ rows[m].conv \in Channels}
MayIn(u, p, k) == u \in Members[k] /\ (k \in Dms \/ <<p, u>> \in granted)

\* The server starts on a database that holds one message.
Init ==
    /\ \E r \in Row :
        /\ r.sender \in Members[r.conv]
        /\ r.due \in Ttls
        /\ r.parent = None
        /\ rows = [m \in MsgIds |-> IF m = 1 THEN r ELSE None]
        /\ tokens = [m \in MsgIds |-> IF m = 1 THEN {r.text} \ Wordless ELSE {}]
        /\ files = {r.file} \ {None}
    /\ nextMsg = 2
    /\ reactions = {} /\ votes = {} /\ acks = {} /\ pins = {}
    /\ granted = Granted
    /\ job = [c \in Tasks |-> Idle]
    /\ sweep = [phase |-> "channel", todo |-> {}, file |-> None]
    /\ hung = FALSE
    /\ ops = 0

-----------------------------------------------------------------------------
(* Handlers: the message is taken and checked.                             *)

\* Task c takes a message of kind k and starts on it with job j.
Starts(c, k, j) ==
    /\ k \in Kinds
    /\ ~hung
    /\ job[c] = Idle
    /\ ops < MaxOps
    /\ ops' = ops + 1
    /\ job' = [job EXCEPT ![c] = j]
    /\ UNCHANGED <<tables, granted, sweep, hung>>

\* message_send and dm_send: membership, then in a channel SEND_MESSAGES
\* and for a reply in a thread REPLY_IN_THREADS.  Nothing asks which channel
\* the parent is in: any stored channel message will do.
\* The client has uploaded the attached file for this message.
SendStart(c) ==
    \E k \in Convs, t \in Texts, f \in Files \cup {None}, d \in Ttls :
    \E p \in {None} \cup (IF k \in Channels THEN ChannelMessages ELSE {}) :
        /\ MayIn(TaskUser[c], "send", k)
        /\ p # None => MayIn(TaskUser[c], "reply", k)
        /\ f \notin files
        /\ Starts(c, "send",
             [Doing("save", k, None, None) EXCEPT
                !.row = [conv |-> k, sender |-> TaskUser[c], text |-> t,
                         file |-> f, due |-> d, parent |-> p]])
        /\ files' = files \cup ({f} \ {None})

\* message_edit and dm_edit check nothing before the write.
EditStart(c) ==
    \E m \in MsgIds, t \in Texts :
        /\ Stored(m)
        /\ Starts(c, "edit", Doing("edit", rows[m].conv, m, t))
        /\ UNCHANGED files

\* message_delete and dm_delete look the message's channel up.
DeleteStart(c) ==
    \E m \in MsgIds :
        /\ Stored(m)
        /\ Starts(c, "delete", Doing("del_own", rows[m].conv, m, None))
        /\ UNCHANGED files

\* message_reaction, poll_vote, message_ack: membership, permission, and
\* that the message belongs to the channel.  A receipt needs no permission.
ReactStart(c) ==
    \E m \in MsgIds, e \in Emojis :
        /\ Stored(m)
        /\ MayIn(TaskUser[c], "react", rows[m].conv)
        /\ Starts(c, "react", Doing("react_add", rows[m].conv, m, e))
        /\ UNCHANGED files

VotesOf(m, u) == {o \in Options : <<m, u, o>> \in votes}

\* Polls are single-choice: the client names the other options its user
\* has voted for.
VoteStart(c) ==
    \E m \in MsgIds, o \in Options :
        /\ Stored(m)
        /\ MayIn(TaskUser[c], "view", rows[m].conv)
        /\ Starts(c, "vote", [Doing("vote_switch", rows[m].conv, m, o) EXCEPT
                                !.drop = VotesOf(m, TaskUser[c]) \ {o}])
        /\ UNCHANGED files

AckStart(c) ==
    \E m \in MsgIds, s \in Statuses :
        /\ Stored(m)
        /\ TaskUser[c] \in Members[rows[m].conv]
        /\ Starts(c, "ack", Doing("ack", rows[m].conv, m, s))
        /\ UNCHANGED files

PinStart(c) ==
    \E m \in MsgIds, p \in {"pin", "unpin"} :
        /\ Stored(m)
        /\ MayIn(TaskUser[c], "pin", rows[m].conv)
        /\ Starts(c, "pin", Doing(p, rows[m].conv, m, None))
        /\ UNCHANGED files

-----------------------------------------------------------------------------
(* Handlers: the database calls.                                           *)

\* Task c is at step p and can use the database.
At(c, p) == ~hung /\ job[c].pc = p

Goes(c, j) ==
    /\ job' = [job EXCEPT ![c] = j]
    /\ UNCHANGED <<granted, sweep, ops>>

\* Rows of the tables that reference messages go with their message
\* (ON DELETE CASCADE); replies of its thread stay (ON DELETE SET NULL).
DeleteRow(m) ==
    /\ rows' = [n \in MsgIds |->
                  IF n = m THEN None
                  ELSE IF rows[n] # None /\ rows[n].parent = m
                       THEN [rows[n] EXCEPT !.parent = None] ELSE rows[n]]
    /\ tokens' = [tokens EXCEPT ![m] = {}]
    /\ reactions' = {r \in reactions : r[1] # m}
    /\ votes' = {v \in votes : v[1] # m}
    /\ acks' = {a \in acks : a[1] # m}
    /\ pins' = pins \ {m}
    /\ UNCHANGED nextMsg

\* Mutant: a reply is saved without looking its parent up.
SaveUnlinked(c) ==
    /\ At(c, "save")
    /\ nextMsg <= MaxMessages
    /\ LET r == job[c].row IN
       /\ rows' = [rows EXCEPT ![nextMsg] = r]
       /\ nextMsg' = nextMsg + 1
       /\ Goes(c, Doing("index", r.conv, nextMsg, r.text))
    /\ UNCHANGED <<tokens, reactions, votes, acks, pins, files, hung>>

\* save_encrypted_message, save_dm_message; fails when the thread's parent
\* was deleted meanwhile.
Save(c) ==
    /\ At(c, "save")
    /\ nextMsg <= MaxMessages
    /\ LET r == job[c].row IN
       IF r.parent # None /\ ~Stored(r.parent)
       THEN /\ Goes(c, Idle)
            /\ UNCHANGED <<rows, nextMsg>>
       ELSE /\ rows' = [rows EXCEPT ![nextMsg] = r]
            /\ nextMsg' = nextMsg + 1
            /\ Goes(c, IF r.text \in Wordless THEN Idle
                       ELSE Doing("index", r.conv, nextMsg, r.text))
    /\ UNCHANGED <<tokens, reactions, votes, acks, pins, files, hung>>

\* Mutant: inserted although the message is gone (foreign keys off).
IndexOrphan(c) ==
    /\ At(c, "index")
    /\ tokens' = [tokens EXCEPT ![job[c].msg] = @ \cup {job[c].arg}]
    /\ Goes(c, Idle)
    /\ UNCHANGED <<rows, nextMsg, reactions, votes, acks, pins, files, hung>>

\* index_message_tokens: INSERT OR IGNORE, ignored for a message that is gone.
Index(c) ==
    /\ At(c, "index")
    /\ LET m == job[c].msg IN
       tokens' = IF Stored(m) THEN [tokens EXCEPT ![m] = @ \cup {job[c].arg}] ELSE tokens
    /\ Goes(c, Idle)
    /\ UNCHANGED <<rows, nextMsg, reactions, votes, acks, pins, files, hung>>

\* What follows the edit of m to t: a replacement by the search tokens that
\* came with it.  Without a word the list of them is empty or missing.
Retokens(k, m, t) ==
    IF t \in Wordless THEN {Idle, Doing("retoken", k, m, None)}
    ELSE {Doing("retoken", k, m, t)}

\* edit_encrypted_message, edit_dm_message: the sender only.
Edit(c) ==
    /\ At(c, "edit")
    /\ LET m == job[c].msg
           t == job[c].arg IN
       IF Stored(m) /\ rows[m].sender = TaskUser[c]
       THEN /\ rows' = [rows EXCEPT ![m].text = t]
            /\ \E j \in Retokens(job[c].conv, m, t) : Goes(c, j)
       ELSE UNCHANGED rows /\ Goes(c, Idle)
    /\ UNCHANGED <<nextMsg, tokens, reactions, votes, acks, pins, files, hung>>

\* replace_message_tokens: DELETE and INSERT OR IGNORE in one lock hold.
Retoken(c) ==
    /\ At(c, "retoken")
    /\ LET m == job[c].msg IN
       tokens' = [tokens EXCEPT ![m] = IF Stored(m) THEN {job[c].arg} \ {None} ELSE {}]
    /\ Goes(c, Idle)
    /\ UNCHANGED <<rows, nextMsg, reactions, votes, acks, pins, files, hung>>

\* delete_message_inner: the row goes; for an attached file the mutex is
\* asked for again by get_file_id_by_hash_from_files, for ever.
Removes(c, m) ==
    /\ DeleteRow(m)
    /\ hung' = (rows[m].file # None)
    /\ Goes(c, IF rows[m].file # None THEN job[c] ELSE Idle)

\* Mutant: a DM, too, goes on to the moderator's branch.
DeleteOwnOrModerated(c) ==
    /\ At(c, "del_own")
    /\ LET m == job[c].msg IN
       IF Stored(m) /\ rows[m].sender = TaskUser[c]
       THEN Removes(c, m)
       ELSE Goes(c, [job[c] EXCEPT !.pc = "del_perm"]) /\ UNCHANGED <<tables, hung>>
    /\ UNCHANGED files

\* delete_message, delete_dm_message: the caller's own message.  Any error
\* in a channel leads to the moderator's branch.
DeleteOwn(c) ==
    /\ At(c, "del_own")
    /\ LET m == job[c].msg IN
       IF Stored(m) /\ rows[m].sender = TaskUser[c]
       THEN Removes(c, m)
       ELSE /\ Goes(c, IF job[c].conv \in Dms THEN Idle
                       ELSE [job[c] EXCEPT !.pc = "del_perm"])
            /\ UNCHANGED <<tables, hung>>
    /\ UNCHANGED files

\* member_has_permission(MANAGE_MESSAGES); false for somebody who is no member.
DeletePerm(c) ==
    /\ At(c, "del_perm")
    /\ Goes(c, IF MayIn(TaskUser[c], "manage", job[c].conv)
               THEN [job[c] EXCEPT !.pc = "del_any"] ELSE Idle)
    /\ UNCHANGED <<tables, files, hung>>

\* delete_message_any
DeleteAny(c) ==
    /\ At(c, "del_any")
    /\ LET m == job[c].msg IN
       IF Stored(m) THEN Removes(c, m)
       ELSE Goes(c, Idle) /\ UNCHANGED <<tables, hung>>
    /\ UNCHANGED files

\* add_reaction: INSERT OR IGNORE; a row that exists, or a message that is
\* gone, leads to the removal.
ReactAdd(c) ==
    /\ At(c, "react_add")
    /\ LET r == <<job[c].msg, TaskUser[c], job[c].arg>> IN
       IF Stored(r[1]) /\ r \notin reactions
       THEN reactions' = reactions \cup {r} /\ Goes(c, Idle)
       ELSE UNCHANGED reactions /\ Goes(c, [job[c] EXCEPT !.pc = "react_remove"])
    /\ UNCHANGED <<rows, nextMsg, tokens, votes, acks, pins, files, hung>>

\* remove_reaction
ReactRemove(c) ==
    /\ At(c, "react_remove")
    /\ reactions' = reactions \ {<<job[c].msg, TaskUser[c], job[c].arg>>}
    /\ Goes(c, Idle)
    /\ UNCHANGED <<rows, nextMsg, tokens, votes, acks, pins, files, hung>>

\* The statement of remove_poll_votes for n options: its largest parameter
\* number, the options being ?4 and up, and the number of values bound to it.
ParamsExpected(n) == n + 3
ParamsBound(n) == n + 2

\* remove_poll_votes.  A statement given the wrong number of values fails
\* without running; the handler ignores the error.
VoteSwitch(c) ==
    /\ At(c, "vote_switch")
    /\ LET d == job[c].drop
           n == Cardinality(d) IN
       votes' = IF d # {} /\ ParamsExpected(n) = ParamsBound(n)
                THEN votes \ {<<job[c].msg, TaskUser[c], o>> : o \in d} ELSE votes
    /\ Goes(c, [job[c] EXCEPT !.pc = "vote_add", !.drop = {}])
    /\ UNCHANGED <<rows, nextMsg, tokens, reactions, acks, pins, files, hung>>

\* add_poll_vote, with the same toggle as a reaction.
VoteAdd(c) ==
    /\ At(c, "vote_add")
    /\ LET v == <<job[c].msg, TaskUser[c], job[c].arg>> IN
       IF Stored(v[1]) /\ v \notin votes
       THEN votes' = votes \cup {v} /\ Goes(c, Idle)
       ELSE UNCHANGED votes /\ Goes(c, [job[c] EXCEPT !.pc = "vote_remove"])
    /\ UNCHANGED <<rows, nextMsg, tokens, reactions, acks, pins, files, hung>>

\* remove_poll_vote
VoteRemove(c) ==
    /\ At(c, "vote_remove")
    /\ votes' = votes \ {<<job[c].msg, TaskUser[c], job[c].arg>>}
    /\ Goes(c, Idle)
    /\ UNCHANGED <<rows, nextMsg, tokens, reactions, acks, pins, files, hung>>

\* Mutant: the upsert without its WHERE clause.
AckOverwrites(c) ==
    /\ At(c, "ack")
    /\ LET m == job[c].msg
           u == TaskUser[c] IN
       acks' = IF Stored(m)
               THEN (acks \ {<<m, u, s>> : s \in Statuses}) \cup {<<m, u, job[c].arg>>}
               ELSE acks
    /\ Goes(c, Idle)
    /\ UNCHANGED <<rows, nextMsg, tokens, reactions, votes, pins, files, hung>>

\* record_message_ack: INSERT ... ON CONFLICT DO UPDATE WHERE not 'read'.
Ack(c) ==
    /\ At(c, "ack")
    /\ LET m == job[c].msg
           u == TaskUser[c] IN
       acks' = IF Stored(m) /\ <<m, u, "read">> \notin acks
               THEN (acks \ {<<m, u, "delivered">>}) \cup {<<m, u, job[c].arg>>}
               ELSE acks
    /\ Goes(c, Idle)
    /\ UNCHANGED <<rows, nextMsg, tokens, reactions, votes, pins, files, hung>>

\* pin_message looks the message up in the same lock hold.
Pin(c) ==
    /\ At(c, "pin")
    /\ pins' = IF Stored(job[c].msg) THEN pins \cup {job[c].msg} ELSE pins
    /\ Goes(c, Idle)
    /\ UNCHANGED <<rows, nextMsg, tokens, reactions, votes, acks, files, hung>>

Unpin(c) ==
    /\ At(c, "unpin")
    /\ pins' = pins \ {job[c].msg}
    /\ Goes(c, Idle)
    /\ UNCHANGED <<rows, nextMsg, tokens, reactions, votes, acks, files, hung>>

-----------------------------------------------------------------------------
(* Other tasks.                                                            *)

Due == {m \in MsgIds : Stored(m) /\ rows[m].due = "now"}

\* The clock passes expires_at of message m.
Expire(m) ==
    /\ Stored(m)
    /\ rows[m].due = "later"
    /\ rows' = [rows EXCEPT ![m].due = "now"]
    /\ UNCHANGED <<nextMsg, tokens, reactions, votes, acks, pins, files,
                   granted, job, sweep, hung, ops>>

SweepsOn(s) ==
    /\ ~hung
    /\ sweep' = s
    /\ UNCHANGED <<granted, job, hung, ops>>

\* Mutant: the sweep returns early when no channel message is due.
SweepListEarlyReturn ==
    /\ sweep.todo = {}
    /\ sweep.file = None
    /\ LET mine == IF sweep.phase = "channel" THEN Channels ELSE Dms
           due == {m \in Due : rows[m].conv \in mine} IN
       SweepsOn([phase |-> IF sweep.phase = "channel" /\ due # {} THEN "dm" ELSE "channel",
                 todo |-> due, file |-> None])
    /\ UNCHANGED <<tables, files>>

\* list_expired_messages, then list_expired_dm_messages, in turn.
SweepList ==
    /\ sweep.todo = {}
    /\ sweep.file = None
    /\ LET mine == IF sweep.phase = "channel" THEN Channels ELSE Dms IN
       SweepsOn([phase |-> IF sweep.phase = "channel" THEN "dm" ELSE "channel",
                 todo |-> {m \in Due : rows[m].conv \in mine}, file |-> None])
    /\ UNCHANGED <<tables, files>>

\* shred_message, shred_dm_message: the row, and the mutex is released.
SweepShred ==
    /\ sweep.file = None
    /\ \E m \in sweep.todo :
        /\ SweepsOn([sweep EXCEPT !.todo = @ \ {m},
                                  !.file = IF Stored(m) THEN rows[m].file ELSE None])
        /\ IF Stored(m) THEN DeleteRow(m) ELSE UNCHANGED tables
    /\ UNCHANGED files

\* shred_file_by_hash, in lock holds of its own.
SweepFile ==
    /\ sweep.file # None
    /\ SweepsOn([sweep EXCEPT !.file = None])
    /\ files' = files \ {sweep.file}
    /\ UNCHANGED tables

Sweep == SweepList \/ SweepShred \/ SweepFile

\* Role administration grants or takes a permission away.
RoleChange ==
    /\ ops < MaxOps
    /\ ops' = ops + 1
    /\ ~hung
    /\ \E g \in Changing :
         granted' = IF g \in granted THEN granted \ {g} ELSE granted \cup {g}
    /\ UNCHANGED <<tables, files, job, sweep, hung>>

\* The server is killed in the middle of a handler, and starts again on its
\* database.  (Killed between two handlers, it only forgets the sweeper's
\* list.  MaxOps bounds the restarts: each ends a handler.)
Restart ==
    /\ \E c \in Tasks : job[c] # Idle
    /\ job' = [c \in Tasks |-> Idle]
    /\ sweep' = [phase |-> "channel", todo |-> {}, file |-> None]
    /\ hung' = FALSE
    /\ UNCHANGED <<tables, files, granted, ops>>

Start(c) ==
    \/ SendStart(c) \/ EditStart(c) \/ DeleteStart(c) \/ ReactStart(c)
    \/ VoteStart(c) \/ AckStart(c) \/ PinStart(c)

Step(c) ==
    \/ Save(c) \/ Index(c) \/ Edit(c) \/ Retoken(c)
    \/ DeleteOwn(c) \/ DeletePerm(c) \/ DeleteAny(c)
    \/ ReactAdd(c) \/ ReactRemove(c)
    \/ VoteSwitch(c) \/ VoteAdd(c) \/ VoteRemove(c)
    \/ Ack(c) \/ Pin(c) \/ Unpin(c)

Next ==
    \/ \E c \in Tasks : Start(c) \/ Step(c)
    \/ \E m \in MsgIds : Expire(m)
    \/ Sweep \/ RoleChange \/ Restart

Spec == Init /\ [][Next]_vars

\* The sweeper's interval fires every five seconds.
SweepSpec == Spec /\ WF_vars(Sweep)

\* A handler that has begun goes on: there is no await between its database
\* calls, so that not even a closed connection stops it.  Clients owe nothing.
FairSpec == SweepSpec /\ \A c \in Tasks : WF_vars(Step(c))

-----------------------------------------------------------------------------
(* Properties.                                                             *)

\* Every variable has its type.
TypeOK ==
    /\ rows \in [MsgIds -> Row \cup {None}]
    /\ nextMsg \in 1..(MaxMessages + 1)
    /\ tokens \in [MsgIds -> SUBSET Texts]
    /\ reactions \subseteq MsgIds \X Users \X Emojis
    /\ votes \subseteq MsgIds \X Users \X Options
    /\ acks \subseteq MsgIds \X Users \X Statuses
    /\ pins \subseteq MsgIds
    /\ files \subseteq Files
    /\ granted \subseteq Perms \X Users
    /\ job \in [Tasks -> Busy \cup {Idle}]
    /\ sweep \in [phase : SweepPhases, todo : SUBSET MsgIds, file : Files \cup {None}]
    /\ hung \in BOOLEAN
    /\ ops \in 0..MaxOps

\* Whatever the order of handlers, deletions and sweeps, a reaction, vote,
\* receipt, pin or search token belongs to a message that is stored, and the
\* parent of a thread reply is one (the message_id foreign keys).
DependentsBelong ==
    /\ \A r \in reactions \cup votes \cup acks : Stored(r[1])
    /\ \A m \in pins : Stored(m)
    /\ \A m \in MsgIds : tokens[m] # {} => Stored(m)
    /\ \A m \in MsgIds : Stored(m) /\ rows[m].parent # None => Stored(rows[m].parent)

\* A receipt that says "read" is never downgraded, whichever of the user's
\* devices acknowledges next and in which order; it goes with its message.
ReadStaysRead ==
    [][\A m \in MsgIds, u \in Users :
         <<m, u, "read">> \in acks =>
            \/ <<m, u, "read">> \in acks' /\ <<m, u, "delivered">> \notin acks'
            \/ rows'[m] = None]_vars

\* A message disappears by its sender's request, by a task that has found the
\* permission to manage messages in a channel, or because its time is over;
\* a DM's message never by anybody else's request.
DeletedByRight ==
    [][/\ \A m \in MsgIds : Stored(m) /\ rows'[m] = None =>
            \/ rows[m].due = "now"
            \/ \E c \in Tasks :
                 /\ job[c].msg = m
                 /\ rows[m].sender = TaskUser[c] \/ job[c].pc = "del_any"
       /\ \A c \in Tasks : job[c].pc # "del_any" /\ job'[c].pc = "del_any" =>
            job[c].conv \in Channels /\ MayIn(TaskUser[c], "manage", job[c].conv)]_vars

\* A disappearing message whose time is over is shredded in the end, in
\* channels and in DMs, unless the server hangs.
ExpiredShredded == \A m \in MsgIds : m \in Due ~> ~Stored(m) \/ hung

\* The tables as a reader sees them: the header of each stored message, its
\* text, the thread it is in, and what is attached to it.
HeaderOf(m) == [conv |-> rows[m].conv, sender |-> rows[m].sender, file |-> rows[m].file]
LogView == [m \in MsgIds |-> IF Stored(m) THEN HeaderOf(m) ELSE None]
TextView == [m \in MsgIds |-> IF Stored(m) THEN rows[m].text ELSE None]
ParentView == [m \in MsgIds |-> IF Stored(m) THEN rows[m].parent ELSE None]
MarksOn(m) ==
    {<<"token", None, t>> : t \in tokens[m]}
      \cup {<<"reaction", r[2], r[3]>> : r \in {q \in reactions : q[1] = m}}
      \cup {<<"vote", v[2], v[3]>> : v \in {q \in votes : q[1] = m}}
      \cup {<<"ack", a[2], a[3]>> : a \in {q \in acks : q[1] = m}}
      \cup {<<"pin", None, None>> : p \in pins \cap {m}}
MarksView == [m \in MsgIds |-> MarksOn(m)]

Life == INSTANCE MessageLife WITH
            Msgs <- MsgIds, None <- None,
            Headers <- Header,
            Lasting <- {"ack"} \X Users \X {"read"},
            used <- 1..(nextMsg - 1), log <- LogView, text <- TextView,
            parent <- ParentView, marks <- MarksView

\* Whatever the handlers, the sweeper and restarts do, the tables behave as
\* MessageLife says: posted once, gone once and for all with all that was
\* attached, and nothing attached to a message that is not there.
ImplementsLife == Life!Spec

\* A file that no message to be saved or stored refers to any more is removed
\* in the end ("Include file_id so the server can clean up the file record
\* when the message is deleted").
Unreferenced(f) ==
    /\ f \in files
    /\ \A m \in MsgIds : Stored(m) => rows[m].file # f
    /\ \A c \in Tasks : job[c].row # None => job[c].row.file # f
DeletedFileGoes == \A f \in Files : Unreferenced(f) ~> f \notin files

\* A user who has one device has at most one vote in a single-choice poll
\* once the vote handler is done.
SingleChoice ==
    \A m \in MsgIds, u \in Users :
        (\A c \in Tasks : TaskUser[c] = u => job[c] = Idle)
            => Cardinality(VotesOf(m, u)) <= 1

=============================================================================
