------------------------------ MODULE Timeline ------------------------------
(***************************************************************************)
(* The message list of a page of the web client (chat.js): opening a       *)
(* channel or a direct conversation, scrolling back through its pages, the *)
(* live events of the WebSocket and a reconnection, all of which write     *)
(* into one list element.                                                  *)
(*                                                                         *)
(* The page runs one callback at a time.  What a function does between two *)
(* awaits is one step; a function that is waiting is a task, with the      *)
(* locals it will use.  The server's part (database, broadcast) is         *)
(* modelled by what the page can see: messages are stored, edited and      *)
(* deleted, and an event of each change arrives later.                     *)
(*                                                                         *)
(* A message is its id (in the order of storage, which is that of the      *)
(* timestamps) and the number of its last edit.  Keys are at hand: the     *)
(* server key, the identity key and the HMAC key do not have to be         *)
(* fetched.  Replies in threads are not shown in the list.                 *)
(***************************************************************************)
EXTENDS Naturals, FiniteSets, Sequences, SequencesExt

CONSTANTS
    Channels,       \* the channels of the server of the sidebar
    First,          \* the first of them
    Dms,            \* the direct conversations
    None,           \* null
    PageSize,       \* PAGE_SIZE
    MaxMsgs,        \* bound: messages ever stored
    MaxTrouble,     \* bound: edits, deletions, failed requests, lost connections
    MaxMoves,       \* bound: what the user opens
    MaxPages,       \* bound: older pages asked for
    MaxTasks        \* bound: functions of the page under way at a time

ASSUME ConversationAssumption ==
    First \in Channels /\ Channels \cap Dms = {} /\ None \notin Channels \cup Dms
ASSUME PageAssumption == PageSize \in Nat \ {0}
ASSUME BoundAssumption ==
    {MaxMsgs, MaxTrouble, MaxMoves, MaxPages, MaxTasks} \subseteq Nat

VARIABLES
    stored,     \* the messages of the database
    events,     \* events on their way to the page
    viewMode,   \* "servers" or "dms"
    chan, dm,   \* currentChannelId, currentDmChannelId
    list,       \* the rows of #message-list
    note,       \* the text that stands in it
    pag,        \* _messagePagination and _dmMessagePagination (mixed:
                \* history, the answers of two loads were written to it)
    listener,   \* the conversation of the scroll listener
    tasks,      \* functions of the page that are waiting
    spoiled,    \* history: which races have touched the list
    sent, trouble, moves, pages, loads  \* counters

db == <<stored, events, sent>>
view == <<viewMode, chan, dm>>
screen == <<list, note, spoiled>>
counts == <<trouble, moves, pages, loads>>
vars == <<db, view, screen, pag, listener, tasks, counts>>

Convs == Channels \cup Dms
Current(c) == c \in {chan, dm}
Message(i, c, v) == [id |-> i, conv |-> c, ver |-> v]

Init ==
    /\ stored = {} /\ events = {} /\ sent = 0
    /\ viewMode = "dms" /\ chan = None /\ dm = None
    /\ list = <<>> /\ note = "select" /\ spoiled = {}
    /\ pag = [c \in Convs |-> [gen |-> 0, oldest |-> 0, more |-> FALSE, busy |-> FALSE, mixed |-> FALSE]]
    /\ listener = None /\ tasks = {}
    /\ moves = 0 /\ pages = 0 /\ trouble = 0 /\ loads = 0

-----------------------------------------------------------------------------
(* The server *)

\* The PAGE_SIZE newest messages of c before the cursor, oldest first (0: no
\* cursor).
Before(c, cursor) ==
    {m \in stored : m.conv = c /\ (cursor # 0 => m.id < cursor)}
Page(c, cursor) ==
    LET ms == Before(c, cursor) IN
    {m \in ms : Cardinality({n \in ms : n.id > m.id}) < PageSize}
Orders(ms) ==
    {rows \in [1..Cardinality(ms) -> ms] :
        \A j, k \in DOMAIN rows : j < k => rows[j].id < rows[k].id}

\* Someone sends a message, or its author edits or deletes it.  The change
\* is stored first and broadcast afterwards.
Send(c) ==
    /\ sent < MaxMsgs
    /\ sent' = sent + 1
    /\ stored' = stored \cup {Message(sent', c, 0)}
    /\ events' = events \cup {[kind |-> "new", msg |-> Message(sent', c, 0)]}
    /\ UNCHANGED <<view, screen, pag, listener, tasks, counts>>

Edit(m) ==
    /\ trouble < MaxTrouble
    /\ trouble' = trouble + 1
    /\ LET n == [m EXCEPT !.ver = @ + 1] IN
        /\ stored' = (stored \ {m}) \cup {n}
        /\ events' = events \cup {[kind |-> "edited", msg |-> n]}
    /\ UNCHANGED <<sent, view, screen, pag, listener, tasks, moves, pages, loads>>

Delete(m) ==
    /\ trouble < MaxTrouble
    /\ trouble' = trouble + 1
    /\ stored' = stored \ {m}
    /\ events' = events \cup {[kind |-> "deleted", msg |-> [m EXCEPT !.ver = @ + 1]]}
    /\ UNCHANGED <<sent, view, screen, pag, listener, tasks, moves, pages, loads>>

-----------------------------------------------------------------------------
(* The list *)

Shown(l, i) == \E k \in DOMAIN l : l[k].id = i

\* insertMessageChronologically: walking back from the end, before the first
\* row that is newer.
Inserted(l, m) ==
    IF l = <<>> \/ Last(l).id <= m.id
    THEN Append(l, m)
    ELSE InsertAt(l, Len(l), m)

\* appendMessage and appendDmMessage, at the end and at the top.
\* Mutant: without looking for the id first.
RenderedTwice(l, m) == Inserted(l, m)
Rendered(l, m) == IF Shown(l, m.id) THEN l ELSE Inserted(l, m)
Prepended(l, m) == IF Shown(l, m.id) THEN l ELSE <<m>> \o l

\* A page, oldest first, and an older page, newest first.
AllRendered(l, ms) ==
    LET after[k \in 0..Len(ms)] ==
          IF k = 0 THEN l ELSE Rendered(after[k - 1], ms[k])
    IN after[Len(ms)]
AllPrepended(l, ms) ==
    LET after[k \in 0..Len(ms)] ==
          IF k = 0 THEN l ELSE Prepended(after[k - 1], ms[Len(ms) + 1 - k])
    IN after[Len(ms)]

\* One write to the list: rows and text, and the races it brings in.
Show(l, n, races) == list' = l /\ note' = n /\ spoiled' = spoiled \cup races
Replace(l, n, races) == list' = l /\ note' = n /\ spoiled' = races

-----------------------------------------------------------------------------
(* Tasks *)

\* gen: which load (it names the pagination object).  old: history, an event
\* was handled or lost that is newer than the rows the task holds.
Task(k, c, pc, g, rows) ==
    [kind |-> k, conv |-> c, pc |-> pc, gen |-> g, rows |-> rows, old |-> FALSE]
Room == Cardinality(tasks) < MaxTasks
Raced(t) == IF t.old THEN {"raced"} ELSE {}
Becomes(t, u) == tasks' = (tasks \ {t}) \cup {u}
Ends(t) == tasks' = tasks \ {t}

\* What holds rows that the event changes.
Holds(t, e) ==
    /\ t.pc # "ask"
    /\ \/ t.kind \in {"load", "more"} /\ t.conv = e.msg.conv
       \/ t.kind \in {"live", "edit"} /\ t.rows[1].id = e.msg.id
Outdated(ts, es) ==
    {IF \E e \in es : Holds(t, e) THEN [t EXCEPT !.old = TRUE] ELSE t : t \in ts}

-----------------------------------------------------------------------------
(* Opening a conversation *)

\* loadMessages and loadDmMessages up to the fetch.
Load(c, ts) ==
    /\ loads' = loads + 1
    /\ pag' = [pag EXCEPT ![c] =
        [gen |-> loads', oldest |-> 0, more |-> TRUE, busy |-> FALSE, mixed |-> FALSE]]
    /\ Show(<<>>, "loading", {})
    /\ tasks' = ts \cup {Task("load", c, "ask", loads', <<>>)}

\* selectChannel, by a click on the channel.
OpenChannel(c) ==
    /\ Room /\ moves < MaxMoves /\ moves' = moves + 1
    /\ viewMode = "servers"
    /\ chan' = c
    /\ Load(c, tasks)
    /\ UNCHANGED <<db, viewMode, dm, listener, pages, trouble>>

\* selectDmChannel.
OpenDm(c) ==
    /\ Room /\ moves < MaxMoves /\ moves' = moves + 1
    /\ viewMode = "dms"
    /\ dm' = c /\ chan' = None
    /\ Load(c, tasks)
    /\ UNCHANGED <<db, viewMode, listener, pages, trouble>>

\* enterDmView.
EnterDms ==
    /\ moves < MaxMoves /\ moves' = moves + 1
    /\ viewMode' = "dms" /\ chan' = None /\ dm' = None
    /\ Replace(<<>>, "select", {})
    /\ UNCHANGED <<db, pag, listener, tasks, pages, trouble, loads>>

\* selectServer, up to the loading of the roles: the list is left alone.
OpenServer ==
    /\ Room /\ moves < MaxMoves /\ moves' = moves + 1
    /\ viewMode' = "servers" /\ chan' = None /\ dm' = None
    /\ tasks' = tasks \cup {Task("server", None, "roles", moves', <<>>)}
    /\ UNCHANGED <<db, screen, pag, listener, pages, trouble, loads>>

\* The roles are there: the list is emptied, whatever is open by now.
ServerShown(t) ==
    /\ t.kind = "server" /\ t.pc = "roles"
    /\ Replace(<<>>, "select", IF chan = None /\ dm = None THEN {} ELSE {"wiped"})
    /\ Becomes(t, [t EXCEPT !.pc = "channels"])
    /\ UNCHANGED <<db, view, pag, listener, counts>>

\* loadChannels has drawn the sidebar and clicks on the first channel if none
\* is open; the click is selectChannel.
ChannelsLoaded(t) ==
    /\ t.kind = "server" /\ t.pc = "channels"
    /\ IF chan = None
       THEN chan' = First /\ Load(First, tasks \ {t})
       ELSE Ends(t) /\ UNCHANGED <<chan, screen, pag, loads>>
    /\ UNCHANGED <<db, viewMode, dm, listener, moves, pages, trouble>>

\* The server reads the page a task asked for.
Read(t) ==
    /\ t.pc = "ask"
    /\ LET cursor == IF t.kind = "more" THEN pag[t.conv].oldest ELSE 0 IN
       \E rows \in Orders(Page(t.conv, cursor)) :
           Becomes(t, [t EXCEPT !.pc = "answer", !.rows = rows])
    /\ UNCHANGED <<db, view, screen, pag, listener, counts>>

\* The answer is for a conversation that is no longer open.  Mutant: no such
\* test.
StaleNever(t) == FALSE
Stale(t) == ~Current(t.conv)

\* A page that is not full is the last one.  Mutant: off by one.
LastPageOrFull(rows) == Len(rows) <= PageSize
LastPage(rows) == Len(rows) < PageSize

Cursor(p, rows) ==
    [p EXCEPT !.oldest = IF rows = <<>> THEN @ ELSE rows[1].id,
              !.more = @ /\ ~LastPage(rows)]

Answered(t) ==
    LET p == pag[t.conv] IN
    [Cursor(p, t.rows) EXCEPT !.mixed = p.mixed \/ p.gen # t.gen]

\* loadMessages with its answer: one step to the end.
ChannelLoaded(t) ==
    /\ t.kind = "load" /\ t.pc = "answer" /\ t.conv \in Channels
    /\ Ends(t)
    /\ IF Stale(t)
       THEN UNCHANGED <<screen, pag, listener>>
       ELSE
        /\ pag' = [pag EXCEPT ![t.conv] = Answered(t)]
        /\ Replace(AllRendered(<<>>, t.rows),
                   IF t.rows = <<>> THEN "empty" ELSE "none",
                   Raced(t))
        /\ listener' = IF t.rows = <<>> THEN listener ELSE t.conv
    /\ UNCHANGED <<db, view, counts>>

\* loadDmMessages with its answer: the list is emptied, then the identity
\* and the profile of the other user are fetched.
DmLoaded(t) ==
    /\ t.kind = "load" /\ t.pc = "answer" /\ t.conv \in Dms
    /\ IF Stale(t)
       THEN Ends(t) /\ UNCHANGED <<screen, pag>>
       ELSE
        /\ pag' = [pag EXCEPT ![t.conv] = Answered(t)]
        /\ Replace(<<>>, "none", {})
        /\ Becomes(t, [t EXCEPT !.pc = "keys"])
    /\ UNCHANGED <<db, view, listener, counts>>

\* ... and the rows are rendered.  An empty conversation says so without
\* looking whether it is still open.
DmLoadRenders(t) ==
    /\ t.kind = "load" /\ t.pc = "keys"
    /\ Ends(t)
    /\ CASE t.rows = <<>> ->
            /\ Show(<<>>, "empty", {"wiped"})
            /\ UNCHANGED listener
         [] t.rows # <<>> /\ Stale(t) ->
            UNCHANGED <<screen, listener>>
         [] OTHER ->
            /\ Show(AllRendered(list, t.rows), note, Raced(t))
            /\ listener' = t.conv
    /\ UNCHANGED <<db, view, pag, counts>>

\* The catch of both: the text is written whatever is open.  Mutant: only
\* logged.
FailsSilently(t) == UNCHANGED screen
FailsLoudly(t) == Replace(<<>>, "failed", {"wiped"})
LoadFails(t) ==
    /\ t.kind = "load" /\ t.pc \in {"ask", "answer"}
    /\ trouble < MaxTrouble /\ trouble' = trouble + 1
    /\ FailsLoudly(t)
    /\ Ends(t)
    /\ UNCHANGED <<db, view, pag, listener, moves, pages, loads>>

-----------------------------------------------------------------------------
(* Scrolling back *)

\* The scroll listener, near the top, and loadMoreMessages and
\* loadMoreDmMessages up to the fetch.
Scroll ==
    /\ Room /\ pages < MaxPages /\ pages' = pages + 1
    /\ listener # None
    /\ LET p == pag[listener] IN
        /\ p.more /\ ~p.busy /\ p.oldest # 0
        /\ tasks' = tasks \cup {Task("more", listener, "ask", p.gen, <<>>)}
        /\ pag' = [pag EXCEPT ![listener].busy = TRUE]
    /\ UNCHANGED <<db, view, screen, listener, moves, trouble, loads>>

\* The pagination object of a task, which a later load may have replaced.
\* Mutant: a stale answer leaves it loading.
Pagination(t, p) ==
    IF pag[t.conv].gen = t.gen
    THEN pag' = [pag EXCEPT ![t.conv] = p]
    ELSE UNCHANGED pag
LeftBusy(t) == UNCHANGED pag
Released(t) == Pagination(t, [pag[t.conv] EXCEPT !.busy = FALSE])

Mixed(t) == IF pag[t.conv].gen = t.gen THEN {} ELSE {"mixed"}

MoreStale(t) ==
    /\ t.kind = "more" /\ t.pc = "answer" /\ Stale(t)
    /\ Released(t)
    /\ Ends(t)
    /\ UNCHANGED <<db, view, screen, listener, counts>>

\* The answer: the cursor moves.  The rows of a channel are prepended at
\* once, those of a direct conversation if the key of the other user is known.
MoreLoaded(t) ==
    /\ t.kind = "more" /\ t.pc = "answer" /\ ~Stale(t)
    /\ Pagination(t, [Cursor(pag[t.conv], t.rows) EXCEPT !.busy = FALSE])
    /\ Show(AllPrepended(list, t.rows), note,
            IF t.rows = <<>> THEN {} ELSE Raced(t) \cup Mixed(t))
    /\ Ends(t)
    /\ UNCHANGED <<db, view, listener, counts>>

MoreAwaitsKey(t) ==
    /\ t.kind = "more" /\ t.pc = "answer" /\ ~Stale(t)
    /\ t.conv \in Dms /\ t.rows # <<>>
    /\ Pagination(t, Cursor(pag[t.conv], t.rows))
    /\ Becomes(t, [t EXCEPT !.pc = "keys"])
    /\ UNCHANGED <<db, view, screen, listener, counts>>

\* The key is there: the rows are prepended to what is shown by now.
MoreRenders(t) ==
    /\ t.kind = "more" /\ t.pc = "keys"
    /\ Show(AllPrepended(list, t.rows), note,
            Raced(t) \cup Mixed(t) \cup IF Stale(t) THEN {"strayed"} ELSE {})
    /\ Released(t)
    /\ Ends(t)
    /\ UNCHANGED <<db, view, listener, counts>>

MoreFails(t) ==
    /\ t.kind = "more" /\ t.pc \in {"ask", "answer"}
    /\ trouble < MaxTrouble /\ trouble' = trouble + 1
    /\ Released(t)
    /\ Ends(t)
    /\ UNCHANGED <<db, view, screen, listener, moves, pages, loads>>

-----------------------------------------------------------------------------
(* Live events *)

\* The events of one message arrive in order (its author's socket handles
\* its requests one by one), those of different messages in any order.
InOrder(e) == \A f \in events : f.msg.id = e.msg.id => e.msg.ver <= f.msg.ver

Handles(e) == events' = events \ {e}

\* message_new, of the open channel: rendered at once.
ChannelNew(e) ==
    /\ e.kind = "new" /\ e.msg.conv \in Channels /\ InOrder(e)
    /\ Handles(e)
    /\ IF Current(e.msg.conv)
       THEN Show(Rendered(list, e.msg), note, {})
       ELSE UNCHANGED screen
    /\ tasks' = Outdated(tasks, {e})
    /\ UNCHANGED <<stored, sent, view, pag, listener, counts>>

\* dm_new, of the open conversation: the identity and the profile of the
\* sender are fetched first.
DmNew(e) ==
    /\ e.kind = "new" /\ e.msg.conv \in Dms /\ InOrder(e) /\ Room
    /\ Handles(e)
    /\ tasks' = Outdated(tasks, {e}) \cup
        IF Current(e.msg.conv)
        THEN {Task("live", e.msg.conv, "keys", 0, <<e.msg>>)}
        ELSE {}
    /\ UNCHANGED <<stored, sent, view, screen, pag, listener, counts>>

\* ... and then the row is rendered into what is shown by now.
DmNewRenders(t) ==
    /\ t.kind = "live"
    /\ Show(Rendered(list, t.rows[1]), note,
            Raced(t) \cup IF Stale(t) THEN {"strayed"} ELSE {})
    /\ Ends(t)
    /\ UNCHANGED <<db, view, pag, listener, counts>>

EditedRow(l, m) == [k \in DOMAIN l |-> IF l[k].id = m.id THEN m ELSE l[k]]

\* message_edited and dm_edited (handleEditedMessage): nothing for a row that
\* is not shown; a direct conversation fetches the author's key first.
Edited(e) ==
    /\ e.kind = "edited" /\ InOrder(e) /\ Room
    /\ Handles(e)
    /\ IF e.msg.conv \in Channels
       THEN /\ Show(EditedRow(list, e.msg), note, {})
            /\ tasks' = Outdated(tasks, {e})
       ELSE /\ tasks' = Outdated(tasks, {e}) \cup
                IF Shown(list, e.msg.id)
                THEN {Task("edit", e.msg.conv, "keys", e.msg.ver, <<e.msg>>)}
                ELSE {}
            /\ UNCHANGED screen
    /\ UNCHANGED <<stored, sent, view, pag, listener, counts>>

DmEditRenders(t) ==
    /\ t.kind = "edit"
    /\ Show(EditedRow(list, t.rows[1]), note, Raced(t))
    /\ Ends(t)
    /\ UNCHANGED <<db, view, pag, listener, counts>>

\* message_deleted and dm_deleted (handleDeletedMessage): the first row with
\* the id.
FirstRow(l, i) ==
    CHOOSE k \in DOMAIN l : l[k].id = i /\ \A j \in 1..k - 1 : l[j].id # i
Without(l, i) == IF Shown(l, i) THEN RemoveAt(l, FirstRow(l, i)) ELSE l
Deleted(e) ==
    /\ e.kind = "deleted" /\ InOrder(e)
    /\ Handles(e)
    /\ IF Current(e.msg.conv)
       THEN Show(Without(list, e.msg.id), note, {})
       ELSE UNCHANGED screen
    /\ tasks' = Outdated(tasks, {e})
    /\ UNCHANGED <<stored, sent, view, pag, listener, counts>>

\* The socket drops, connectWebSocket makes a new one, and the server answers
\* auth_ok.  The events that were broadcast in between are not repeated.
Reconnect(lost) ==
    /\ Room /\ trouble < MaxTrouble /\ trouble' = trouble + 1
    /\ events' = events \ lost
    /\ \A e \in lost, f \in events : f.msg.id = e.msg.id /\ f.msg.ver < e.msg.ver => f \in lost
    /\ tasks' = Outdated(tasks, lost) \cup {Task("recheck", None, "timer", trouble', <<>>)}
    /\ spoiled' = spoiled \cup
        IF \E e \in lost : Current(e.msg.conv) THEN {"missed"} ELSE {}
    /\ UNCHANGED <<stored, sent, view, list, note, pag, listener, moves, pages, loads>>

\* Two seconds later: the open conversation is loaded if no row is shown.
Recheck(t) ==
    /\ t.kind = "recheck"
    /\ LET c == IF viewMode = "servers" THEN chan ELSE dm IN
       IF list = <<>> /\ c # None
       THEN Load(c, tasks \ {t})
       ELSE Ends(t) /\ UNCHANGED <<screen, pag, loads>>
    /\ UNCHANGED <<db, view, listener, moves, pages, trouble>>

-----------------------------------------------------------------------------
TaskStep(t) ==
    \/ Read(t) \/ ServerShown(t) \/ ChannelsLoaded(t)
    \/ ChannelLoaded(t) \/ DmLoaded(t) \/ DmLoadRenders(t)
    \/ MoreStale(t) \/ MoreLoaded(t) \/ MoreAwaitsKey(t) \/ MoreRenders(t)
    \/ DmNewRenders(t) \/ DmEditRenders(t) \/ Recheck(t)

Server ==
    \/ \E c \in Convs : Send(c)
    \/ \E m \in stored : Edit(m) \/ Delete(m)

User ==
    \/ \E c \in Channels : OpenChannel(c)
    \/ \E c \in Dms : OpenDm(c)
    \/ EnterDms \/ OpenServer \/ Scroll

Faults ==
    \/ \E t \in tasks : LoadFails(t) \/ MoreFails(t)
    \/ \E lost \in SUBSET events : Reconnect(lost)

Event(e) == ChannelNew(e) \/ DmNew(e) \/ Edited(e) \/ Deleted(e)

Next ==
    \/ Server \/ User \/ Faults
    \/ \E e \in events : Event(e)
    \/ \E t \in tasks : TaskStep(t)

Spec == Init /\ [][Next]_vars

\* A request is answered or fails and a timer fires: something that waits
\* goes on (the number of what waits is bounded, so everything does).
FairSpec == Spec /\ WF_vars(\E t \in tasks : TaskStep(t))

-----------------------------------------------------------------------------
(* Properties *)

Messages == {Message(i, c, v) : i \in 1..MaxMsgs, c \in Convs, v \in 0..MaxTrouble}

TypeOK ==
    /\ stored \subseteq Messages
    /\ chan \in Channels \cup {None} /\ dm \in Dms \cup {None}
    /\ viewMode \in {"servers", "dms"}
    /\ \A k \in DOMAIN list : list[k] \in Messages
    /\ note \in {"select", "loading", "empty", "failed", "none"}
    /\ spoiled \subseteq {"raced", "mixed", "missed", "strayed", "wiped"}
    /\ listener \in Convs \cup {None}
    /\ \A t \in tasks : Len(t.rows) <= PageSize /\ t.gen \in Nat

\* A message is shown once, however its live event, a page and an older page
\* that contain it cross.
NoDuplicates == \A j, k \in DOMAIN list : list[j].id = list[k].id => j = k

\* A message of a channel is never shown in another conversation: answers
\* that come after the user went elsewhere are dropped.  Between a click on a
\* server and its roles the old rows are still there.
ChannelRowsBelong ==
    \A k \in DOMAIN list : list[k].conv \in Channels =>
        \/ chan = list[k].conv
        \/ \E t \in tasks : t.kind = "server" /\ t.pc = "roles"

\* When nothing is under way, the list shows stored messages of the open
\* conversation, in their current version, and leaves none out back to the
\* cursor of the next page, or none at all if there is no next page.  This is
\* so unless a load failed, an event was lost with the connection, or one of
\* the races the page does not guard against took place since the last load.
Settled == tasks = {} /\ events = {}
ViewComplete ==
    \A c \in Convs :
        Settled /\ {chan, dm} = {c, None} /\ spoiled = {} /\ ~pag[c].mixed =>
            LET shown == {list[k] : k \in DOMAIN list} IN
            /\ shown \subseteq Before(c, 0)
            /\ Before(c, 0) \ shown \subseteq
                {m \in stored : pag[c].more /\ m.id < pag[c].oldest}

\* Scrolling back never ends for good: a pagination object that says it is
\* loading has a request under way.
MoreNotStuck ==
    \A c \in Convs : pag[c].busy =>
        \E t \in tasks : t.kind = "more" /\ t.conv = c /\ t.gen = pag[c].gen

\* "Loading messages..." gives way to the messages or to an error.
LoadSettles == note = "loading" ~> note # "loading"

\* insertMessageChronologically: "keeps the list strictly chronological".
Chronological == \A j, k \in DOMAIN list : j < k => list[j].id < list[k].id

\* appendDmMessage: "so a DM switch mid-await can't leave a stale message
\* appended into the wrong conversation".
DmRowsBelong == \A k \in DOMAIN list : list[k].conv \in Dms =>
        \/ dm = list[k].conv
        \/ \E t \in tasks : t.kind = "server" /\ t.pc = "roles"

=============================================================================
