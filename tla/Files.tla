------------------------------- MODULE Files -------------------------------
(***************************************************************************)
(* Sending files: the upload window of a page (chat.js), the requests that *)
(* store a file chunk by chunk (handlers.rs, db.rs), what happens to it    *)
(* when its message expires, and the hourly clean-up of the upload         *)
(* directory.  A handler is one step per lock hold or file operation.  A   *)
(* size is a number of chunks: the overhead of encryption is in "allowed". *)
(***************************************************************************)
EXTENDS Naturals, Sequences, FiniteSets, FiniteSetsExt

CONSTANTS
    Convs,        \* conversations the user can have in view
    Direct,       \* those which are direct ones
    None,
    Names,        \* files on the user's disk
    Size,         \* their sizes in chunks
    Picks,        \* what the user chooses to send: sequences of files
    Quota,        \* file_storage_quota_bytes, in chunks
    MaxUploads,   \* bound: how often the user confirms an upload
    MaxIds,       \* bound: file records
    MaxTrouble    \* bound: cancelling, taking a file out, choosing others during an
                  \* upload, changes of the conversation, answers lost and restarts of
                  \* the server, together

ASSUME ConvAssumption == Direct \subseteq Convs /\ None \notin Convs \cup Names
ASSUME SizeAssumption == Size \in [Names -> Nat \ {0}] /\ Picks \subseteq Seq(Names)
ASSUME BoundAssumption == {Quota, MaxUploads, MaxIds, MaxTrouble} \subseteq Nat

Uploads == 1..MaxUploads
Ids == 1..MaxIds

VARIABLES
    records,   \* table files: name (for its size), bytes, count, complete
    disk,      \* the directory of a file and the chunks in it
    req,       \* the request of an upload and how far its handler is
    removing,  \* files whose record is deleted and whose chunks are not yet
    cleaner,   \* cleanup_orphan_files: the ids listed, the directories to do
    page,      \* the window: view, modal, selectedFiles, isUploading
    run,       \* startFileUpload, once per confirmation
    sent,      \* messages with files
    trouble,   \* counter
    confirmed, \* history: what was confirmed, and in which conversation
    meddled,   \* history: uploads during which the user cancelled, took a file
               \* out or chose others, and those that another one's end has disturbed
    moved,     \* history: uploads during which another conversation came into view
    overtaken, \* history: files initialised while a clean-up had its list
    expired    \* history: files shredded with their message

server == <<records, disk, removing, cleaner, overtaken, expired>>
client == <<page, run, sent, confirmed, meddled, moved>>
vars == <<server, client, req, trouble>>

NoRecord == [name |-> None, bytes |-> 0, count |-> 0, complete |-> FALSE]
NoDir == [made |-> FALSE, chunks |-> {}]
NoReq == [op |-> None, name |-> None, id |-> 0, k |-> 0, delta |-> 0, step |-> "none"]
NoRun == [pc |-> "none", direct |-> FALSE, fi |-> 0, name |-> None, got |-> <<>>]
Idle == [phase |-> "idle", known |-> {}, todo |-> {}]
Closed(v) == [view |-> v, modal |-> FALSE, selected |-> <<>>, uploading |-> FALSE]

Recorded(id) == records[id].name # None
SizeOf(id) == Size[records[id].name]

Init ==
    /\ records = [id \in Ids |-> NoRecord] /\ disk = [id \in Ids |-> NoDir]
    /\ req = [u \in Uploads |-> NoReq] /\ removing = {} /\ cleaner = Idle
    /\ page \in {Closed(v) : v \in Convs} /\ run = [u \in Uploads |-> NoRun] /\ sent = {}
    /\ trouble = 0
    /\ confirmed = [u \in Uploads |-> [to |-> None, files |-> <<>>]]
    /\ meddled = {} /\ moved = {} /\ overtaken = {} /\ expired = {}

Trouble == trouble < MaxTrouble /\ trouble' = trouble + 1

-----------------------------------------------------------------------------
(* The upload window *)

Running(u) == run[u].pc \in {"wait", "peer"}
AllRunning == {u \in Uploads : Running(u)}

Meddle == meddled' = meddled \cup AllRunning

\* A file chooser, a drop, a paste or a recording; the window opens.  The
\* shortcut for the chooser works with the window open, and during an upload.
Select ==
    /\ \E picked \in Picks :
          page' = [page EXCEPT !.selected = picked, !.modal = TRUE]
    /\ IF AllRunning = {} THEN UNCHANGED trouble ELSE Trouble
    /\ Meddle
    /\ UNCHANGED <<server, req, run, sent, confirmed, moved>>

Ask(u, op, name, id, k) ==
    req' = [req EXCEPT ![u] = [NoReq EXCEPT !.op = op, !.name = name, !.id = id, !.k = k,
                                            !.step = "sent"]]

\* startFileUpload up to its first request; isUploading stays set when an
\* upload fails.
Confirm ==
    /\ page.modal /\ page.selected # <<>> /\ ~page.uploading /\ page.view # None
    /\ page' = [page EXCEPT !.uploading = TRUE]
    /\ \E u \in Uploads :
          /\ run[u].pc = "none" /\ \A w \in 1..(u - 1) : run[w].pc # "none"
          /\ run' = [run EXCEPT ![u] = [NoRun EXCEPT !.pc = "wait", !.direct = page.view \in Direct,
                                                     !.name = page.selected[1]]]
          /\ Ask(u, "init", page.selected[1], 0, 0)
          /\ confirmed' = [confirmed EXCEPT ![u] = [to |-> page.view, files |-> page.selected]]
    /\ UNCHANGED <<server, sent, meddled, moved, trouble>>

\* closeUploadModal by the button; what goes on is not told.
Cancel ==
    /\ Trouble /\ page.modal
    /\ page' = Closed(page.view) /\ Meddle
    /\ UNCHANGED <<server, req, run, sent, confirmed, moved>>

\* The cross at a file in the list, also during the upload.
TakeOut ==
    /\ Trouble /\ page.modal
    /\ \E i \in DOMAIN page.selected :
          LET rest == SubSeq(page.selected, 1, i - 1)
                        \o SubSeq(page.selected, i + 1, Len(page.selected))
          IN  page' = IF rest = <<>> THEN Closed(page.view) ELSE [page EXCEPT !.selected = rest]
    /\ Meddle
    /\ UNCHANGED <<server, req, run, sent, confirmed, moved>>

\* Another conversation comes into view, or none.  The window covers the page
\* but prevents it not: shortcuts go to another channel or server, a friend who
\* accepts brings the conversation with them up, and a server may be deleted.
Navigate ==
    /\ Trouble
    /\ \E v \in (Convs \cup {None}) \ {page.view} : page' = [page EXCEPT !.view = v]
    /\ moved' = moved \cup AllRunning
    /\ UNCHANGED <<server, req, run, sent, confirmed, meddled>>

-----------------------------------------------------------------------------
(* startFileUpload and uploadFileToServer *)

Page == UNCHANGED <<server, confirmed, moved, trouble>>
Stays == UNCHANGED <<page, sent, meddled>>

\* An exception ends the run.
Throws(u) == run' = [run EXCEPT ![u].pc = "failed"] /\ Stays

\* The message goes to the conversation in view now; the server refuses one
\* that has none.  Then closeUploadModal.
Deliver(u, got) ==
    LET fits == page.view # None /\ (run[u].direct <=> page.view \in Direct) IN
    /\ sent' = IF fits THEN sent \cup {[up |-> u, to |-> page.view, ids |-> got]} ELSE sent
    /\ run' = [run EXCEPT ![u].pc = "done", ![u].got = got]
    /\ page' = Closed(page.view)
    /\ meddled' = meddled \cup (AllRunning \ {u})

\* The loop goes on with file number fi, of selectedFiles as it is now; after
\* it, the key of the one in view is fetched for a direct message.
Loop(u, fi, got) ==
    \/ /\ fi < Len(page.selected) /\ page.uploading
       /\ Ask(u, "init", page.selected[fi + 1], 0, 0)
       /\ run' = [run EXCEPT ![u].fi = fi, ![u].got = got, ![u].name = page.selected[fi + 1]]
       /\ Stays
    \/ /\ fi < Len(page.selected) /\ ~page.uploading
       /\ req' = [req EXCEPT ![u] = NoReq] /\ Throws(u)
    \/ /\ fi >= Len(page.selected)
       /\ req' = [req EXCEPT ![u] = NoReq]
       /\ IF ~run[u].direct THEN Deliver(u, got)
          ELSE IF page.view \in Direct
          THEN run' = [run EXCEPT ![u].pc = "peer", ![u].got = got] /\ Stays
          ELSE Throws(u)

\* Mutant: a file that fails is left out, and the rest goes on.
RefusedSkips(u) == Loop(u, run[u].fi + 1, run[u].got)

\* An answer that is not ok throws out of the loop.
Refused(u) == Throws(u) /\ UNCHANGED req

\* Mutant: the answer to the last request is not looked at.
CanGoOnAnyway(u) == req[u].step = "ok" \/ req[u].op = "complete"

CanGoOn(u) == req[u].step = "ok"

Answered(u) ==
    LET q == req[u]
        k == IF q.op = "chunk" THEN q.k + 1 ELSE 0
        more == k < Size[run[u].name]
    IN  /\ run[u].pc = "wait" /\ q.step \in {"ok", "bad"}
        /\ \/ ~CanGoOn(u) /\ Refused(u)
           \/ /\ CanGoOn(u) /\ q.op # "complete"
              /\ Ask(u, IF more THEN "chunk" ELSE "complete", run[u].name, q.id, k)
              /\ UNCHANGED run /\ Stays
           \/ /\ CanGoOn(u) /\ q.op = "complete"
              /\ Loop(u, run[u].fi + 1, Append(run[u].got, q.id))
        /\ Page

PeerKnown(u) == run[u].pc = "peer" /\ Deliver(u, run[u].got) /\ Page /\ UNCHANGED req

\* The request fails for the page; its handler may go on.
Lost(u) ==
    /\ Trouble /\ run[u].pc \in {"wait", "peer"}
    /\ Throws(u)
    /\ UNCHANGED <<server, confirmed, moved, req>>

-----------------------------------------------------------------------------
(* The handlers: init_file_upload, upload_file_chunk, complete_file_upload *)

Used == MapThenSumSet(SizeOf, {id \in Ids : Recorded(id)})

Becomes(u, step) == req' = [req EXCEPT ![u].step = step]
Same == UNCHANGED <<records, disk, overtaken>>

\* The quota is read before the record is made.
Init1(u) ==
    /\ Becomes(u, IF Used + Size[req[u].name] <= Quota THEN "checked" ELSE "bad") /\ Same
Init2(u) ==
    /\ \E id \in Ids :
          /\ records[id] = NoRecord /\ id \notin expired /\ disk[id] = NoDir
          /\ \A i \in 1..(id - 1) : Recorded(i) \/ i \in expired
          /\ records' = [records EXCEPT ![id] = [NoRecord EXCEPT !.name = req[u].name]]
          /\ req' = [req EXCEPT ![u].step = "recorded", ![u].id = id]
          /\ overtaken' = IF cleaner.phase = "idle" THEN overtaken ELSE overtaken \cup {id}
    /\ UNCHANGED disk
Init3(u) ==
    /\ disk' = [disk EXCEPT ![req[u].id].made = TRUE]
    /\ Becomes(u, "ok") /\ UNCHANGED <<records, overtaken>>

\* What the chunk adds to the size on disk, read before it is charged.
Chunk1(u) ==
    LET q == req[u] IN
    /\ Same
    /\ IF ~Recorded(q.id) \/ records[q.id].complete THEN Becomes(u, "bad")
       ELSE req' = [req EXCEPT ![u].step = "seen",
                               ![u].delta = IF q.k \in disk[q.id].chunks THEN 0 ELSE 1]
Chunk2(u) ==
    LET q == req[u]
        r == records[q.id]
    IN  /\ UNCHANGED <<disk, overtaken>>
        /\ IF Recorded(q.id) /\ ~r.complete /\ r.bytes + q.delta <= SizeOf(q.id)
           THEN /\ records' = [records EXCEPT ![q.id].bytes = @ + q.delta] /\ Becomes(u, "charged")
           ELSE UNCHANGED records /\ Becomes(u, "bad")
\* Writing does not make the directory again.
Chunk3(u) ==
    LET q == req[u] IN
    /\ UNCHANGED <<records, overtaken>>
    /\ IF disk[q.id].made
       THEN disk' = [disk EXCEPT ![q.id].chunks = @ \cup {q.k}] /\ Becomes(u, "written")
       ELSE UNCHANGED disk /\ Becomes(u, "bad")
Chunk4(u) ==
    LET q == req[u] IN
    /\ records' = IF Recorded(q.id) /\ records[q.id].count < q.k + 1
                  THEN [records EXCEPT ![q.id].count = q.k + 1] ELSE records
    /\ Becomes(u, "ok") /\ UNCHANGED <<disk, overtaken>>

Complete1(u) ==
    LET r == records[req[u].id] IN
    /\ Same
    /\ Becomes(u, IF Recorded(req[u].id) /\ r.count > 0 /\ r.bytes = SizeOf(req[u].id)
                  THEN "seen" ELSE "bad")
Complete2(u) ==
    /\ records' = IF Recorded(req[u].id) THEN [records EXCEPT ![req[u].id].complete = TRUE]
                  ELSE records
    /\ Becomes(u, "ok") /\ UNCHANGED <<disk, overtaken>>

Serve(u) ==
    /\ \/ req[u].op = "init" /\ req[u].step = "sent" /\ Init1(u)
       \/ req[u].step = "checked" /\ Init2(u)
       \/ req[u].step = "recorded" /\ Init3(u)
       \/ req[u].op = "chunk" /\ req[u].step = "sent" /\ Chunk1(u)
       \/ req[u].op = "chunk" /\ req[u].step = "seen" /\ Chunk2(u)
       \/ req[u].step = "charged" /\ Chunk3(u)
       \/ req[u].step = "written" /\ Chunk4(u)
       \/ req[u].op = "complete" /\ req[u].step = "sent" /\ Complete1(u)
       \/ req[u].op = "complete" /\ req[u].step = "seen" /\ Complete2(u)
    /\ UNCHANGED <<client, removing, cleaner, expired, trouble>>

-----------------------------------------------------------------------------
(* Removing files *)

\* A message expires; shred_file_by_hash knows the file of a message with one:
\* the record first, then the chunks it counts and the directory if empty.
Expire ==
    /\ \E m \in sent :
          /\ Len(m.ids) = 1 /\ Recorded(m.ids[1])
          /\ records' = [records EXCEPT ![m.ids[1]] = NoRecord]
          /\ removing' = removing \cup {[id |-> m.ids[1], count |-> records[m.ids[1]].count]}
          /\ expired' = expired \cup {m.ids[1]}
    /\ UNCHANGED <<client, req, disk, cleaner, overtaken, trouble>>
Remove ==
    /\ \E x \in removing :
          LET left == disk[x.id].chunks \ 0..(x.count - 1) IN
          /\ removing' = removing \ {x}
          /\ disk' = [disk EXCEPT ![x.id] = [made |-> @.made /\ left # {}, chunks |-> left]]
    /\ UNCHANGED <<client, req, records, cleaner, overtaken, expired, trouble>>

\* Mutant: only the files which are complete are listed.
CleanListComplete ==
    /\ cleaner.phase = "idle"
    /\ cleaner' = [Idle EXCEPT !.phase = "listed", !.known = {id \in Ids : records[id].complete}]
    /\ UNCHANGED <<client, req, records, disk, removing, overtaken, expired, trouble>>

\* cleanup_orphan_files, at the start and every hour: the ids of the records,
\* then the directory, then what it does not know.
CleanList ==
    /\ cleaner.phase = "idle"
    /\ cleaner' = [Idle EXCEPT !.phase = "listed", !.known = {id \in Ids : Recorded(id)}]
    /\ UNCHANGED <<client, req, records, disk, removing, overtaken, expired, trouble>>
CleanRead ==
    /\ cleaner.phase = "listed"
    /\ cleaner' = [cleaner EXCEPT !.phase = "reading",
                                  !.todo = {id \in Ids : disk[id].made} \ cleaner.known]
    /\ UNCHANGED <<client, req, records, disk, removing, overtaken, expired, trouble>>

\* Mutant: the pass ends without removing anything.
CleanNextNone ==
    /\ cleaner' = Idle /\ UNCHANGED disk

\* A directory made meanwhile may be in the listing or not.
CleanNext ==
    \/ \E id \in Ids \ cleaner.known :
          /\ disk[id].made
          /\ disk' = [disk EXCEPT ![id] = NoDir]
          /\ cleaner' = [cleaner EXCEPT !.todo = @ \ {id}]
    \/ /\ \A id \in cleaner.todo : ~disk[id].made
       /\ cleaner' = Idle /\ UNCHANGED disk
Clean ==
    /\ cleaner.phase = "reading" /\ CleanNext
    /\ UNCHANGED <<client, req, records, removing, overtaken, expired, trouble>>

\* The server stops; handlers and removals end where they are.
Restart ==
    /\ Trouble
    /\ req' = [u \in Uploads |-> IF req[u].step \in {"none", "ok"} THEN req[u]
                                 ELSE [req[u] EXCEPT !.step = "bad"]]
    /\ removing' = {} /\ cleaner' = Idle
    /\ UNCHANGED <<client, records, disk, overtaken, expired>>

Next ==
    \/ Select \/ Confirm \/ Cancel \/ TakeOut \/ Navigate
    \/ \E u \in Uploads :
          Answered(u) \/ PeerKnown(u) \/ Lost(u) \/ Serve(u)
    \/ Expire \/ Remove \/ CleanList \/ CleanRead \/ Clean \/ Restart

Spec == Init /\ [][Next]_vars

\* The clean-up runs every hour and ends, and a removal that was begun goes on.
FairSpec ==
    /\ Spec
    /\ WF_vars(CleanList) /\ WF_vars(CleanRead) /\ WF_vars(Clean) /\ WF_vars(Remove)

-----------------------------------------------------------------------------
(* Properties *)

\* Type correctness of every variable.
TypeOK ==
    /\ \A id \in Ids :
        /\ records[id].name \in Names \cup {None} /\ records[id].complete \in BOOLEAN
        /\ Recorded(id) => records[id].bytes \in 0..SizeOf(id) /\ records[id].count \in 0..SizeOf(id)
        /\ disk[id].made \in BOOLEAN /\ disk[id].chunks \subseteq Nat
        /\ disk[id].chunks # {} => disk[id].made
    /\ \A u \in Uploads :
        /\ run[u].pc \in {"none", "wait", "peer", "done", "failed"}
        /\ run[u].got \in Seq(Ids) /\ run[u].fi \in Nat
        /\ req[u].op \in {None, "init", "chunk", "complete"} /\ req[u].id \in Ids \cup {0}
        /\ req[u].step \in {"none", "sent", "checked", "recorded", "seen", "charged", "written", "ok", "bad"}
    /\ \A x \in removing : x.id \in Ids /\ x.count \in Nat
    /\ cleaner.phase \in {"idle", "listed", "reading"} /\ cleaner.known \cup cleaner.todo \subseteq Ids
    /\ page.view \in Convs \cup {None} /\ page.selected \in Seq(Names)
    /\ {page.modal, page.uploading} \subseteq BOOLEAN
    /\ \A m \in sent : m.up \in Uploads /\ m.to \in Convs /\ m.ids \in Seq(Ids)
    /\ trouble \in 0..MaxTrouble
    /\ meddled \cup moved \subseteq Uploads /\ overtaken \cup expired \subseteq Ids

\* A file whose upload is complete can be downloaded: every chunk of it is
\* there, whatever was interrupted, removed or cleaned up meanwhile.  Not if a
\* clean-up had its list before the record was made.
CompleteIsWhole ==
    \A id \in Ids :
        Recorded(id) /\ records[id].complete =>
            id \in overtaken \/ disk[id].chunks = 0..(SizeOf(id) - 1)

\* A message names files that were complete when it was sent: an answer that
\* was lost, a restart, or a file taken out never make one that cannot be
\* opened.
SentIsComplete ==
    \A m \in sent : \A i \in DOMAIN m.ids :
        m.ids[i] \in expired \/ (Recorded(m.ids[i]) /\ records[m.ids[i]].complete)

\* An upload that the user leaves alone sends the files that were confirmed, in
\* their order, or nothing.  Whatever the user does, its message goes to the
\* conversation in which it was confirmed unless another one has come into view
\* meanwhile, and never from a channel to a direct conversation or back.
SentAsConfirmed ==
    \A m \in sent :
        LET c == confirmed[m.up] IN
        /\ m.up \notin meddled =>
               [i \in DOMAIN m.ids |->
                  IF m.ids[i] \in expired THEN c.files[i] ELSE records[m.ids[i]].name] = c.files
        /\ m.up \notin moved => m.to = c.to
        /\ m.to \in Direct <=> c.to \in Direct

\* A directory without a record goes, also after a restart between the deletion
\* of the record and the removal of the chunks.
OrphansGo ==
    \A id \in Ids : (disk[id].made /\ ~Recorded(id)) ~> (~disk[id].made)

\* What the code does not keep (see the README): an upload that is left alone
\* goes where it was confirmed, a cancelled one sends nothing, the button works
\* again after a failure, and the quota holds.
SentWhereConfirmed == \A m \in sent : m.up \notin meddled => m.to = confirmed[m.up].to
CancelledStays == \A m \in sent : m.up \notin meddled
RetryWorks ==
    page.modal /\ page.uploading => AllRunning # {}
QuotaKept == Used <= Quota

=============================================================================
