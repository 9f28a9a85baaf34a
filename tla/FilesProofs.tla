----------------------------- MODULE FilesProofs -----------------------------
(***************************************************************************)
(* Proofs about Files, for any number of files, uploads and conversations. *)
(*                                                                         *)
(* CompleteIsWhole cannot be seen from the records alone: the size on disk *)
(* is charged before the chunk is written, and not given back when the     *)
(* write fails.  The inductive invariant follows the requests instead      *)
(* (Handled): the page sends the next chunk only after the answer to the   *)
(* one before, so a request tells exactly which chunks are there, and no   *)
(* two requests ever concern the same record.  Undisturbed says what the   *)
(* window of a page holds as long as the user leaves an upload alone.      *)
(***************************************************************************)
EXTENDS Files, TLAPS

RecordType == [name : Names \cup {None}, bytes : Nat, count : Nat, complete : BOOLEAN]
DirType == [made : BOOLEAN, chunks : SUBSET Nat]
Steps == {"none", "sent", "checked", "recorded", "seen", "charged", "written", "ok", "bad"}
ReqType == [op : {None, "init", "chunk", "complete"}, name : Names \cup {None},
            id : Ids \cup {0}, k : Nat, delta : Nat, step : Steps]
RunType == [pc : {"none", "wait", "peer", "done", "failed"}, direct : BOOLEAN, fi : Nat,
            name : Names \cup {None}, got : Seq(Ids)]
CleanerType == [phase : {"idle", "listed", "reading"}, known : SUBSET Ids, todo : SUBSET Ids]
PageType == [view : Convs \cup {None}, modal : BOOLEAN, selected : Seq(Names),
             uploading : BOOLEAN]

ServerTyped ==
    /\ records \in [Ids -> RecordType] /\ disk \in [Ids -> DirType]
    /\ removing \subseteq [id : Ids, count : Nat] /\ cleaner \in CleanerType
    /\ overtaken \subseteq Ids /\ expired \subseteq Ids
ClientTyped ==
    /\ page \in PageType /\ run \in [Uploads -> RunType]
    /\ sent \subseteq [up : Uploads, to : Convs, ids : Seq(Ids)]
    /\ confirmed \in [Uploads -> [to : Convs \cup {None}, files : Seq(Names)]]
    /\ meddled \subseteq Uploads /\ moved \subseteq Uploads
Typed == ServerTyped /\ ClientTyped /\ req \in [Uploads -> ReqType] /\ trouble \in 0..MaxTrouble

\* A record never counts more than the file has; an expired file has no
\* record and never gets one again; chunks lie in a directory.
RecordsFit ==
    \A id \in Ids :
        /\ Recorded(id) => records[id].bytes <= SizeOf(id) /\ records[id].count <= SizeOf(id)
        /\ id \in expired => ~Recorded(id)
        /\ disk[id].chunks # {} => disk[id].made

\* Only chunks of expired files are being removed, and a clean-up that has its
\* list knows every record but those made since.
RemoversFit ==
    /\ \A x \in removing : x.id \in expired
    /\ cleaner.phase # "idle" =>
           \A id \in Ids : Recorded(id) => id \in cleaner.known \cup overtaken

\* No two requests concern the same record.
Apart == \A u, v \in Uploads : req[u].id # 0 /\ req[u].id = req[v].id => u = v

\* The request of an upload names a record, or none yet.
Owns(u) ==
    LET q == req[u] IN
    /\ q.id = 0 => q.step = "none" \/ (q.op = "init" /\ q.step \in {"sent", "checked", "bad"})
    /\ q.id # 0 => Recorded(q.id) \/ q.id \in expired
    /\ q.id # 0 /\ Recorded(q.id) => records[q.id].name = q.name
    /\ q.step # "none" => q.name \in Names /\ q.op \in {"init", "chunk", "complete"}
    /\ q.op = "chunk" /\ q.step # "none" => q.k < Size[q.name]
    /\ q.step \in {"checked", "recorded"} => q.op = "init"
    /\ q.step \in {"charged", "written"} => q.op = "chunk"
    /\ q.step = "seen" => q.op \in {"chunk", "complete"}

\* How far a request is tells which chunks of its file are there.
Handled(u) ==
    LET q == req[u]
        there == disk[q.id].chunks
    IN  /\ q.id # 0 /\ Recorded(q.id) /\ q.id \notin overtaken =>
               /\ q.op = "init" /\ q.step \in {"recorded", "ok"} => there = {}
               /\ q.op = "chunk" /\ q.step \in {"sent", "seen", "charged"} => there = 0..(q.k - 1)
               /\ q.op = "chunk" /\ q.step \in {"written", "ok"} => there = 0..q.k
               /\ q.op = "complete" /\ q.step \in {"sent", "seen", "ok"} =>
                      there = 0..(SizeOf(q.id) - 1)
        /\ q.op = "complete" /\ q.step = "ok" =>
               q.id \in expired \/ (Recorded(q.id) /\ records[q.id].complete)

ServerInv ==
    /\ RecordsFit /\ RemoversFit /\ Apart
    /\ \A u \in Uploads : Owns(u) /\ Handled(u)
    /\ CompleteIsWhole

Kept(id) == id \in expired \/ (Recorded(id) /\ records[id].complete)
Named(id, name) == id \in expired \/ records[id].name = name

\* What holds of an upload the user leaves alone while it goes on.
Undisturbed(u) ==
    LET f == confirmed[u].files IN
    /\ page.modal /\ page.uploading /\ page.selected = f
    /\ run[u].pc = "wait" => run[u].fi = Len(run[u].got) /\ run[u].fi < Len(f)
                             /\ run[u].name = f[run[u].fi + 1]
    /\ run[u].pc = "peer" => Len(run[u].got) = Len(f)
    /\ \A i \in DOMAIN run[u].got : Named(run[u].got[i], f[i])

\* Where an upload under way is going.
Bound(u) ==
    /\ run[u].direct <=> confirmed[u].to \in Direct
    /\ u \notin moved => page.view = confirmed[u].to

RunFits(u) ==
    /\ run[u].pc = "wait" => req[u].step # "none" /\ req[u].name = run[u].name
    /\ \A i \in DOMAIN run[u].got : Kept(run[u].got[i])
    /\ Running(u) /\ u \notin meddled => Undisturbed(u)
    /\ Running(u) => Bound(u)

SentFits(m) ==
    /\ run[m.up].pc = "done"
    /\ \A i \in DOMAIN m.ids : Kept(m.ids[i])
    /\ m.up \notin moved => m.to = confirmed[m.up].to
    /\ m.to \in Direct <=> confirmed[m.up].to \in Direct
    /\ m.up \notin meddled =>
           /\ Len(m.ids) = Len(confirmed[m.up].files)
           /\ \A i \in DOMAIN m.ids : Named(m.ids[i], confirmed[m.up].files[i])

ClientInv == (\A u \in Uploads : RunFits(u)) /\ (\A m \in sent : SentFits(m))

IInv == Typed /\ ServerInv /\ ClientInv
-----------------------------------------------------------------------------
(* Requests *)

\* What the constructor of a request makes.
LEMMA AskFacts ==
    ASSUME Typed, NEW u \in Uploads, NEW op \in {"init", "chunk", "complete"},
           NEW name \in Names, NEW id \in Ids \cup {0}, NEW k \in Nat,
           Ask(u, op, name, id, k)
    PROVE  /\ req' \in [Uploads -> ReqType]
           /\ \A v \in Uploads : v # u => req'[v] = req[v]
           /\ req'[u].op = op /\ req'[u].name = name /\ req'[u].id = id /\ req'[u].k = k
           /\ req'[u].step = "sent"
<1> DEFINE q == [NoReq EXCEPT !.op = op, !.name = name, !.id = id, !.k = k, !.step = "sent"]
<1>1. q \in ReqType /\ q.op = op /\ q.name = name /\ q.id = id /\ q.k = k /\ q.step = "sent"
  BY DEF NoReq, ReqType, Steps
<1>2. req' = [req EXCEPT ![u] = q]
  BY DEF Ask
<1> HIDE DEF q
<1> QED BY <1>1, <1>2 DEF Typed

\* A handler moves its request on.
LEMMA BecomesFacts ==
    ASSUME Typed, NEW u \in Uploads, NEW step \in Steps, Becomes(u, step)
    PROVE  /\ req' \in [Uploads -> ReqType]
           /\ \A v \in Uploads : v # u => req'[v] = req[v]
           /\ req'[u].op = req[u].op /\ req'[u].name = req[u].name /\ req'[u].id = req[u].id
           /\ req'[u].k = req[u].k /\ req'[u].step = step
BY DEF Becomes, Typed, ReqType

\* No request at all.
LEMMA NoReqFacts ==
    ASSUME Typed, NEW u \in Uploads, req' = [req EXCEPT ![u] = NoReq]
    PROVE  /\ req' \in [Uploads -> ReqType]
           /\ \A v \in Uploads : v # u => req'[v] = req[v]
           /\ req'[u].op = None /\ req'[u].id = 0 /\ req'[u].step = "none"
<1>1. NoReq \in ReqType
  BY DEF NoReq, ReqType, Steps
<1> QED BY <1>1 DEF NoReq, Typed

Files0 == <<records, disk, removing, cleaner, overtaken, expired>>

\* Steps that change one request and no file keep the server's invariant, if
\* the request is right about the files.
LEMMA RequestKeeps ==
    ASSUME Typed, ServerInv, NEW u \in Uploads, UNCHANGED Files0,
           \A v \in Uploads : v # u => req'[v] = req[v],
           req'[u].id \in {0, req[u].id}, Owns(u)', Handled(u)'
    PROVE  ServerInv'
<1>1. RecordsFit' /\ RemoversFit' /\ CompleteIsWhole'
  BY DEF ServerInv, Files0, RecordsFit, RemoversFit, CompleteIsWhole, Recorded, SizeOf
<1>2. Apart'
  BY DEF ServerInv, Apart
<1>3. \A v \in Uploads : Owns(v)' /\ Handled(v)'
  BY SMTT(30) DEF ServerInv, Files0, Owns, Handled, Recorded, SizeOf
<1> QED BY <1>1, <1>2, <1>3 DEF ServerInv

\* What the server's invariant says of one file.
FileFits(id) ==
    /\ Recorded(id) => records[id].bytes <= SizeOf(id) /\ records[id].count <= SizeOf(id)
    /\ id \in expired => ~Recorded(id)
    /\ disk[id].chunks # {} => disk[id].made
    /\ cleaner.phase # "idle" /\ Recorded(id) => id \in cleaner.known \cup overtaken
    /\ Recorded(id) /\ records[id].complete =>
           id \in overtaken \/ disk[id].chunks = 0..(SizeOf(id) - 1)

\* A handler changes its own request, record and directory.
OnlyOwn(u, id) ==
    /\ \A v \in Uploads : v # u => req'[v] = req[v] /\ req[v].id # id
    /\ \A i \in Ids : i # id =>
           /\ records'[i] = records[i] /\ disk'[i] = disk[i]
           /\ i \in overtaken' <=> i \in overtaken
    /\ UNCHANGED <<removing, cleaner, expired>>
    /\ req'[u].id = id

\* What is known of one file: table, disk and requests together.
LEMMA FileFacts ==
    ASSUME ServerInv, NEW id \in Ids
    PROVE  FileFits(id)
BY DEF FileFits, ServerInv, RecordsFit, RemoversFit, CompleteIsWhole

\* Such a step keeps the server's invariant, if it keeps it for that file.
LEMMA HandlerKeeps ==
    ASSUME Typed, ServerInv, NEW u \in Uploads, NEW id \in Ids, OnlyOwn(u, id),
           Owns(u)', Handled(u)', FileFits(id)'
    PROVE  ServerInv'
<1>0. /\ \A v \in Uploads : v # u => req'[v] = req[v] /\ req[v].id # id
      /\ \A i \in Ids : i # id =>
             /\ records'[i] = records[i] /\ disk'[i] = disk[i]
             /\ i \in overtaken' <=> i \in overtaken
      /\ UNCHANGED <<removing, cleaner, expired>>
      /\ req'[u].id = id
  BY DEF OnlyOwn
<1>1. RecordsFit' /\ RemoversFit' /\ CompleteIsWhole'
  BY <1>0 DEF ServerInv, FileFits, RecordsFit, RemoversFit, CompleteIsWhole, Recorded, SizeOf
<1>2. Apart'
  BY <1>0 DEF ServerInv, Apart
<1>3. ASSUME NEW v \in Uploads, v # u PROVE Owns(v)' /\ Handled(v)'
  <2>1. req'[v] = req[v] /\ req[v].id # id /\ req[v].id \in Ids \cup {0}
    BY <1>0, <1>3 DEF Typed, ReqType
  <2>2. Owns(v) /\ Handled(v)
    BY DEF ServerInv
  <2>3. CASE req[v].id = 0
    BY <1>0, <2>1, <2>2, <2>3 DEF Owns, Handled
  <2>4. CASE req[v].id # 0
    BY <1>0, <2>1, <2>2, <2>4 DEF Owns, Handled, Recorded, SizeOf
  <2> QED BY <2>3, <2>4
<1> QED BY <1>1, <1>2, <1>3 DEF ServerInv

\* What a request holds on a record that is there.
LEMMA OwnFacts ==
    ASSUME Typed, ServerInv, NEW u \in Uploads, req[u].id # 0
    PROVE  /\ req[u].id \in Ids
           /\ \A v \in Uploads : v # u => req[v].id # req[u].id
           /\ Owns(u) /\ Handled(u)
BY DEF Typed, ReqType, ServerInv, Apart

\* A request that only learns a bad answer.
LEMMA BadKeeps ==
    ASSUME Typed, ServerInv, NEW u \in Uploads, UNCHANGED Files0, Becomes(u, "bad"),
           req[u].step # "none"
    PROVE  ServerInv'
<1>1. /\ \A v \in Uploads : v # u => req'[v] = req[v]
      /\ req'[u].op = req[u].op /\ req'[u].name = req[u].name /\ req'[u].id = req[u].id
      /\ req'[u].k = req[u].k /\ req'[u].step = "bad"
  BY BecomesFacts DEF Steps
<1>2. Owns(u) /\ UNCHANGED <<records, expired>>
  BY DEF ServerInv, Files0
<1>3. Owns(u)'
  BY <1>1, <1>2 DEF Owns, Recorded
<1>4. Handled(u)'
  BY <1>1 DEF Handled
<1> QED BY <1>1, <1>3, <1>4, RequestKeeps

\* init_file_upload: the record and the directory are the request's own.
LEMMA InitServed ==
    ASSUME Typed, ServerInv, NEW u \in Uploads,
           UNCHANGED <<removing, cleaner, expired>>,
           \/ req[u].op = "init" /\ req[u].step = "sent" /\ Init1(u)
           \/ req[u].step = "checked" /\ Init2(u)
           \/ req[u].step = "recorded" /\ Init3(u)
    PROVE  ServerInv'
<1>0. Owns(u) /\ Handled(u)
  BY DEF ServerInv
<1>1. CASE req[u].op = "init" /\ req[u].step = "sent" /\ Init1(u)
  <2>1. CASE Becomes(u, "bad")
    BY <1>1, <2>1, BadKeeps DEF Init1, Same, Files0
  <2>2. CASE Becomes(u, "checked")
    <3>1. /\ \A v \in Uploads : v # u => req'[v] = req[v]
          /\ req'[u].op = req[u].op /\ req'[u].name = req[u].name /\ req'[u].id = req[u].id
          /\ req'[u].k = req[u].k /\ req'[u].step = "checked"
      BY <2>2, BecomesFacts DEF Steps
    <3>2. UNCHANGED Files0
      BY <1>1 DEF Init1, Same, Files0
    <3>3. Owns(u)' /\ Handled(u)'
      BY <1>0, <1>1, <3>1, <3>2 DEF Owns, Handled, Recorded, Files0
    <3> QED BY <3>1, <3>2, <3>3, RequestKeeps
  <2> QED BY <1>1, <2>1, <2>2 DEF Init1
<1>2. CASE req[u].step = "checked" /\ Init2(u)
  <2>1. PICK id \in Ids :
            /\ records[id] = NoRecord /\ id \notin expired /\ disk[id] = NoDir
            /\ records' = [records EXCEPT ![id] = [NoRecord EXCEPT !.name = req[u].name]]
            /\ req' = [req EXCEPT ![u].step = "recorded", ![u].id = id]
            /\ overtaken' = IF cleaner.phase = "idle" THEN overtaken ELSE overtaken \cup {id}
    BY <1>2 DEF Init2
  <2>2. ~Recorded(id) /\ \A v \in Uploads : req[v].id # id
    <3>1. ~Recorded(id)
      BY <2>1 DEF Recorded, NoRecord
    <3>2. id # 0
      BY DEF Ids
    <3> QED BY <2>1, <3>1, <3>2 DEF ServerInv, Owns
  <2>3. /\ \A v \in Uploads : v # u => req'[v] = req[v]
        /\ req'[u].op = "init" /\ req'[u].name = req[u].name /\ req'[u].id = id
        /\ req'[u].step = "recorded"
    BY <1>0, <1>2, <2>1 DEF Typed, ReqType, Owns
  <2>4. req[u].name \in Names /\ req[u].name # None
    BY <1>0, <1>2, ConvAssumption DEF Owns
  <2>5. /\ records'[id] = [NoRecord EXCEPT !.name = req[u].name]
        /\ \A i \in Ids : i # id => records'[i] = records[i]
        /\ disk' = disk
    BY <1>2, <2>1 DEF Init2, Typed, ServerTyped
  <2>6. /\ records'[id].name = req[u].name /\ records'[id].bytes = 0 /\ records'[id].count = 0
        /\ records'[id].complete = FALSE
    BY <2>5 DEF NoRecord
  <2>7. disk'[id].chunks = {}
    BY <2>1, <2>5 DEF NoDir
  <2>8. Size[req[u].name] \in Nat
    BY <2>4, SizeAssumption
  <2>9. Owns(u)'
    BY <1>0, <1>2, <2>3, <2>4, <2>6 DEF Owns, Recorded, Ids
  <2>10. Handled(u)'
    BY <2>3, <2>7 DEF Handled
  <2>11. Recorded(id)' => records'[id].bytes <= SizeOf(id)' /\ records'[id].count <= SizeOf(id)'
    BY <2>6, <2>8 DEF SizeOf
  <2>12. \A i \in Ids : i # id => (i \in overtaken' <=> i \in overtaken)
    BY <2>1
  <2>13. cleaner.phase # "idle" => id \in overtaken'
    BY <2>1
  <2>14. OnlyOwn(u, id)
    BY <2>2, <2>3, <2>5, <2>12 DEF OnlyOwn
  <2>15. FileFits(id)'
    BY <2>1, <2>6, <2>7, <2>11, <2>13 DEF FileFits
  <2> QED BY <2>9, <2>10, <2>14, <2>15, HandlerKeeps
<1>3. CASE req[u].step = "recorded" /\ Init3(u)
  <2>1. req[u].op = "init" /\ req[u].id # 0
    BY <1>0, <1>3 DEF Owns
  <2>2. PICK id \in Ids : id = req[u].id /\ \A v \in Uploads : v # u => req[v].id # id
    BY <2>1, OwnFacts
  <2>3. /\ \A v \in Uploads : v # u => req'[v] = req[v]
        /\ req'[u].op = req[u].op /\ req'[u].name = req[u].name /\ req'[u].id = id
        /\ req'[u].k = req[u].k /\ req'[u].step = "ok"
    BY <1>3, <2>2, BecomesFacts DEF Init3, Steps
  <2>4. /\ UNCHANGED <<records, overtaken>>
        /\ \A i \in Ids : i # id => disk'[i] = disk[i]
        /\ disk'[id].made = TRUE /\ disk'[id].chunks = disk[id].chunks
    BY <1>3, <2>2 DEF Init3, Typed, ServerTyped, DirType
  <2>5. Owns(u)'
    BY <1>0, <1>3, <2>1, <2>2, <2>3, <2>4 DEF Owns, Recorded
  <2>6. Handled(u)'
    BY <1>0, <1>3, <2>1, <2>2, <2>3, <2>4 DEF Handled, Recorded
  <2>7. OnlyOwn(u, id)
    BY <2>2, <2>3, <2>4 DEF OnlyOwn
  <2>8. FileFits(id)'
    BY <2>4, FileFacts DEF FileFits, Recorded, SizeOf
  <2> QED BY <2>5, <2>6, <2>7, <2>8, HandlerKeeps
<1> QED BY <1>1, <1>2, <1>3

\* upload_file_chunk: chunks are written in the order in which they are asked
\* for, and the size is never overrun.
LEMMA ChunkServed ==
    ASSUME Typed, ServerInv, NEW u \in Uploads,
           UNCHANGED <<removing, cleaner, expired>>,
           \/ req[u].op = "chunk" /\ req[u].step = "sent" /\ Chunk1(u)
           \/ req[u].op = "chunk" /\ req[u].step = "seen" /\ Chunk2(u)
           \/ req[u].step = "charged" /\ Chunk3(u)
           \/ req[u].step = "written" /\ Chunk4(u)
    PROVE  ServerInv'
<1>0. Owns(u) /\ Handled(u) /\ req[u].op = "chunk" /\ req[u].id # 0
  BY DEF ServerInv, Owns
<1>1. PICK id \in Ids : id = req[u].id /\ \A v \in Uploads : v # u => req[v].id # id
  BY <1>0, OwnFacts
<1>11. PICK q : q = req[u]
  OBVIOUS
<1>2. q.k \in Nat /\ q.delta \in Nat /\ q.name \in Names /\ q.k < Size[q.name]
      /\ Size[q.name] \in Nat /\ (Recorded(id) => SizeOf(id) = Size[q.name])
  BY <1>0, <1>1, <1>11, SizeAssumption DEF Typed, ReqType, Owns, SizeOf
<1>3. /\ records[id] \in RecordType /\ disk[id] \in DirType
      /\ records \in [Ids -> RecordType] /\ disk \in [Ids -> DirType]
  BY <1>11, <1>1 DEF Typed, ServerTyped
<1>4. CASE q.step = "sent" /\ Chunk1(u)
  <2>1. CASE Becomes(u, "bad")
    BY <1>1, <1>11, <1>4, <2>1, BadKeeps DEF Chunk1, Same, Files0
  <2>2. CASE ~Becomes(u, "bad")
    <3>1. req' = [req EXCEPT ![u].step = "seen",
                             ![u].delta = IF q.k \in disk[id].chunks THEN 0 ELSE 1]
      BY <1>1, <1>11, <1>4, <2>2 DEF Chunk1
    <3>2. /\ \A v \in Uploads : v # u => req'[v] = req[v]
          /\ req'[u].op = q.op /\ req'[u].name = q.name /\ req'[u].id = id
          /\ req'[u].k = q.k /\ req'[u].step = "seen"
      BY <1>1, <1>11, <3>1 DEF Typed, ReqType
    <3>3. UNCHANGED Files0
      BY <1>1, <1>11, <1>4 DEF Chunk1, Same, Files0
    <3>4. Owns(u)' /\ Handled(u)'
      BY <1>1, <1>11, <1>0, <1>4, <3>2, <3>3 DEF Owns, Handled, Recorded, Files0
    <3> QED BY <1>1, <1>11, <3>2, <3>3, <3>4, RequestKeeps
  <2> QED BY <1>1, <1>11, <2>1, <2>2
<1>5. CASE q.step = "seen" /\ Chunk2(u)
  <2>1. CASE Becomes(u, "bad") /\ UNCHANGED records
    BY <1>1, <1>11, <1>5, <2>1, BadKeeps DEF Chunk2, Files0
  <2>2. CASE ~(Becomes(u, "bad") /\ UNCHANGED records)
    <3>1. /\ Recorded(id) /\ records[id].bytes + q.delta <= SizeOf(id)
          /\ records' = [records EXCEPT ![id].bytes = @ + q.delta]
          /\ Becomes(u, "charged") /\ UNCHANGED <<disk, overtaken>>
      BY <1>1, <1>11, <1>5, <2>2 DEF Chunk2
    <3>2. /\ \A v \in Uploads : v # u => req'[v] = req[v]
          /\ req'[u].op = q.op /\ req'[u].name = q.name /\ req'[u].id = id
          /\ req'[u].k = q.k /\ req'[u].step = "charged"
      BY <1>1, <1>11, <3>1, BecomesFacts DEF Steps
    <3>3. /\ records'[id].name = records[id].name /\ records'[id].bytes = records[id].bytes + q.delta
          /\ records'[id].count = records[id].count
          /\ records'[id].complete = records[id].complete
          /\ \A i \in Ids : i # id => records'[i] = records[i]
      BY <1>11, <1>1, <1>3, <3>1 DEF RecordType
    <3>4. Recorded(id)' /\ SizeOf(id)' = SizeOf(id)
      BY <1>1, <1>11, <3>1, <3>3 DEF Recorded, SizeOf
    <3>5. Owns(u)' /\ Handled(u)'
      BY <1>1, <1>11, <1>0, <1>5, <3>1, <3>2, <3>3, <3>4 DEF Owns, Handled, Recorded, SizeOf
    <3>6. OnlyOwn(u, id)
      BY <1>1, <3>1, <3>2, <3>3 DEF OnlyOwn
    <3>7. FileFits(id)'
      BY <3>1, <3>3, <3>4, FileFacts DEF FileFits
    <3> QED BY <3>5, <3>6, <3>7, HandlerKeeps
  <2> QED BY <1>1, <1>11, <2>1, <2>2
<1>6. CASE q.step = "charged" /\ Chunk3(u)
  <2>1. CASE ~disk[id].made
    BY <1>1, <1>11, <1>6, <2>1, BadKeeps DEF Chunk3, Files0
  <2>2. CASE disk[id].made
    <3>1. /\ \A v \in Uploads : v # u => req'[v] = req[v]
          /\ req'[u].op = q.op /\ req'[u].name = q.name /\ req'[u].id = id
          /\ req'[u].k = q.k /\ req'[u].step = "written"
      BY <1>1, <1>11, <1>6, <2>2, BecomesFacts DEF Chunk3, Steps
    <3>2. /\ UNCHANGED <<records, overtaken>>
          /\ \A i \in Ids : i # id => disk'[i] = disk[i]
          /\ disk'[id].made /\ disk'[id].chunks = disk[id].chunks \cup {q.k}
      BY <1>11, <1>1, <1>3, <1>6, <2>2 DEF Chunk3, DirType
    <3>3. (Recorded(id)' <=> Recorded(id)) /\ SizeOf(id)' = SizeOf(id)
      BY <1>1, <1>11, <3>2 DEF Recorded, SizeOf
    <3>4. Owns(u)'
      BY <1>1, <1>11, <1>0, <1>6, <3>1, <3>2 DEF Owns, Recorded
    <3>5. Handled(u)'
      BY <1>1, <1>11, <1>0, <1>2, <1>6, <3>1, <3>2, <3>3 DEF Handled
    <3>6. ASSUME Recorded(id), records[id].complete
          PROVE  id \in overtaken' \/ disk'[id].chunks = 0..(SizeOf(id) - 1)
      BY <1>11, <1>1, <1>2, <3>2, <3>6 DEF ServerInv, CompleteIsWhole
    <3>7. OnlyOwn(u, id)
      BY <1>1, <3>1, <3>2 DEF OnlyOwn
    <3>8. FileFits(id)'
      BY <3>2, <3>3, <3>6, FileFacts DEF FileFits
    <3> QED BY <3>4, <3>5, <3>7, <3>8, HandlerKeeps
  <2> QED BY <1>1, <1>11, <2>1, <2>2
<1>7. CASE q.step = "written" /\ Chunk4(u)
  <2>1. /\ \A v \in Uploads : v # u => req'[v] = req[v]
        /\ req'[u].op = q.op /\ req'[u].name = q.name /\ req'[u].id = id
        /\ req'[u].k = q.k /\ req'[u].step = "ok"
    BY <1>1, <1>11, <1>7, BecomesFacts DEF Chunk4, Steps
  <2>2. /\ UNCHANGED <<disk, overtaken>>
        /\ records' = records
           \/ (Recorded(id) /\ records' = [records EXCEPT ![id].count = q.k + 1])
    BY <1>1, <1>11, <1>7 DEF Chunk4
  <2>3. /\ records'[id].name = records[id].name /\ records'[id].bytes = records[id].bytes
        /\ records'[id].count = records[id].count \/ (Recorded(id) /\ records'[id].count = q.k + 1)
        /\ records'[id].complete = records[id].complete
        /\ \A i \in Ids : i # id => records'[i] = records[i]
    BY <1>11, <1>1, <1>3, <2>2 DEF RecordType
  <2>4. (Recorded(id)' <=> Recorded(id)) /\ SizeOf(id)' = SizeOf(id)
    BY <1>1, <1>11, <2>3 DEF Recorded, SizeOf
  <2>5. Owns(u)' /\ Handled(u)'
    BY ZenonT(60), <1>1, <1>11, <1>0, <1>7, <2>1, <2>2, <2>3, <2>4 DEF Owns, Handled, Recorded, SizeOf
  <2>6. Recorded(id)' => records'[id].bytes <= SizeOf(id)' /\ records'[id].count <= SizeOf(id)'
    BY <1>11, <1>1, <1>2, <2>3, <2>4 DEF ServerInv, RecordsFit
  <2>7. OnlyOwn(u, id)
    BY <1>1, <2>1, <2>2, <2>3 DEF OnlyOwn
  <2>8. FileFits(id)'
    BY <2>2, <2>3, <2>4, <2>6, FileFacts DEF FileFits
  <2> QED BY <2>5, <2>7, <2>8, HandlerKeeps
<1> QED BY <1>0, <1>11, <1>4, <1>5, <1>6, <1>7

\* complete_file_upload: reached only when the last chunk was answered.
LEMMA CompleteServed ==
    ASSUME Typed, ServerInv, NEW u \in Uploads,
           UNCHANGED <<removing, cleaner, expired>>, req[u].op = "complete",
           \/ req[u].step = "sent" /\ Complete1(u)
           \/ req[u].step = "seen" /\ Complete2(u)
    PROVE  ServerInv'
<1>0. Owns(u) /\ Handled(u) /\ req[u].id # 0
  BY DEF ServerInv, Owns
<1>1. PICK id \in Ids : id = req[u].id /\ \A v \in Uploads : v # u => req[v].id # id
  BY <1>0, OwnFacts
<1>2. CASE req[u].step = "sent" /\ Complete1(u)
  <2>1. CASE Becomes(u, "bad")
    BY <1>1, <1>2, <2>1, BadKeeps DEF Complete1, Same, Files0
  <2>2. CASE Becomes(u, "seen")
    <3>1. /\ \A v \in Uploads : v # u => req'[v] = req[v]
          /\ req'[u].op = req[u].op /\ req'[u].name = req[u].name /\ req'[u].id = req[u].id
          /\ req'[u].k = req[u].k /\ req'[u].step = "seen"
      BY <1>1, <2>2, BecomesFacts DEF Steps
    <3>2. UNCHANGED Files0
      BY <1>1, <1>2 DEF Complete1, Same, Files0
    <3>3. Owns(u)' /\ Handled(u)'
      BY <1>1, <1>0, <1>2, <3>1, <3>2 DEF Owns, Handled, Recorded, SizeOf, Files0
    <3> QED BY <1>1, <3>1, <3>2, <3>3, RequestKeeps
  <2> QED BY <1>1, <1>2, <2>1, <2>2 DEF Complete1
<1>3. CASE req[u].step = "seen" /\ Complete2(u)
  <2>1. /\ \A v \in Uploads : v # u => req'[v] = req[v]
        /\ req'[u].op = req[u].op /\ req'[u].name = req[u].name /\ req'[u].id = id
        /\ req'[u].k = req[u].k /\ req'[u].step = "ok"
    BY <1>1, <1>3, BecomesFacts DEF Complete2, Steps
  <2>2. /\ UNCHANGED <<disk, overtaken>>
        /\ records'[id].name = records[id].name /\ records'[id].bytes = records[id].bytes
        /\ records'[id].count = records[id].count
        /\ Recorded(id) => records'[id].complete
        /\ \A i \in Ids : i # id => records'[i] = records[i]
    BY <1>1, <1>3 DEF Complete2, Typed, ServerTyped, RecordType
  <2>3. (Recorded(id)' <=> Recorded(id)) /\ SizeOf(id)' = SizeOf(id)
    BY <1>1, <2>2 DEF Recorded, SizeOf
  <2>4. Owns(u)'
    BY <1>1, <1>0, <1>3, <2>1, <2>2, <2>3 DEF Owns
  <2>5. Handled(u)'
    BY <1>1, <1>0, <1>3, <2>1, <2>2, <2>3 DEF Handled, Owns
  <2>6. Recorded(id)' => id \in overtaken' \/ disk'[id].chunks = 0..(SizeOf(id)' - 1)
    BY <1>1, <1>0, <1>3, <2>2, <2>3 DEF Handled
  <2>7. OnlyOwn(u, id)
    BY <1>1, <2>1, <2>2 DEF OnlyOwn
  <2>8. FileFits(id)'
    BY <2>2, <2>3, <2>6, FileFacts DEF FileFits
  <2> QED BY <2>4, <2>5, <2>7, <2>8, HandlerKeeps
<1> QED BY <1>2, <1>3

\* Every step of a handler keeps the server's invariant.
LEMMA ServeKeeps ==
    ASSUME Typed, ServerInv, NEW u \in Uploads, Serve(u)
    PROVE  ServerInv'
BY InitServed, ChunkServed, CompleteServed DEF Serve

-----------------------------------------------------------------------------
(* Removal, clean-up and restart *)

\* A record that goes with its message takes its claims along.
LEMMA ExpireKeeps ==
    ASSUME Typed, ServerInv, Expire
    PROVE  ServerInv'
<1>1. PICK m \in sent :
          /\ Len(m.ids) = 1 /\ Recorded(m.ids[1])
          /\ records' = [records EXCEPT ![m.ids[1]] = NoRecord]
          /\ removing' = removing \cup {[id |-> m.ids[1], count |-> records[m.ids[1]].count]}
          /\ expired' = expired \cup {m.ids[1]}
  BY DEF Expire
<1>2. PICK x \in Ids : x = m.ids[1]
  BY <1>1 DEF Typed, ClientTyped
<1>3. /\ UNCHANGED <<req, disk, cleaner, overtaken>>
      /\ removing' = removing \cup {[id |-> x, count |-> records[x].count]}
      /\ expired' = expired \cup {x}
      /\ \A i \in Ids : i # x => records'[i] = records[i]
      /\ records'[x].name = None
  BY <1>1, <1>2 DEF Expire, Typed, ServerTyped, NoRecord
<1>4. ~Recorded(x)' /\ \A i \in Ids : Recorded(i)' <=> Recorded(i) /\ i # x
  BY <1>3 DEF Recorded
<1>5. \A i \in Ids : Recorded(i)' => records'[i] = records[i] /\ SizeOf(i)' = SizeOf(i)
  BY <1>3, <1>4 DEF SizeOf
<1>6. RecordsFit' /\ RemoversFit' /\ CompleteIsWhole' /\ Apart'
  BY <1>3, <1>4, <1>5 DEF ServerInv, RecordsFit, RemoversFit, CompleteIsWhole, Apart
<1>7. ASSUME NEW u \in Uploads PROVE Owns(u)' /\ Handled(u)'
  <2>1. Owns(u) /\ Handled(u) /\ req[u].id \in Ids \cup {0} /\ req'[u] = req[u]
    BY <1>3 DEF ServerInv, Typed, ReqType
  <2>2. CASE req[u].id = 0
    BY <1>3, <2>1, <2>2 DEF Owns, Handled
  <2>3. CASE req[u].id # 0
    BY <1>3, <1>4, <1>5, <2>1, <2>3 DEF Owns, Handled
  <2> QED BY <2>1, <2>2, <2>3
<1> QED BY <1>6, <1>7 DEF ServerInv

\* Steps that take chunks only from directories without a record, or of files
\* made while the clean-up had its list.
LEMMA DiskLoss ==
    ASSUME Typed, ServerInv, UNCHANGED <<req, records, overtaken, expired>>,
           \A i \in Ids : Recorded(i) /\ i \notin overtaken => disk'[i] = disk[i],
           \A i \in Ids : disk'[i].chunks # {} => disk'[i].made,
           RemoversFit'
    PROVE  ServerInv'
<1>1. RecordsFit' /\ CompleteIsWhole' /\ Apart'
  BY DEF ServerInv, RecordsFit, CompleteIsWhole, Apart, Recorded, SizeOf
<1>2. ASSUME NEW u \in Uploads PROVE Owns(u)' /\ Handled(u)'
  <2>1. Owns(u) /\ Handled(u) /\ req[u].id \in Ids \cup {0}
    BY DEF ServerInv, Typed, ReqType
  <2> QED BY <2>1 DEF Owns, Handled, Recorded, SizeOf
<1> QED BY <1>1, <1>2 DEF ServerInv

\* The removal of an expired file's chunks and the clean-up.
LEMMA RemoversKeep ==
    ASSUME Typed, ServerInv, Remove \/ CleanList \/ CleanRead \/ Clean
    PROVE  ServerInv'
<1>0. /\ disk \in [Ids -> DirType] /\ removing \subseteq [id : Ids, count : Nat]
      /\ cleaner \in CleanerType /\ RecordsFit /\ RemoversFit
  BY DEF Typed, ServerTyped, ServerInv
<1>1. CASE Remove
  <2>1. PICK x \in removing :
            /\ removing' = removing \ {x}
            /\ disk' = [disk EXCEPT ![x.id] =
                   [made |-> @.made /\ disk[x.id].chunks \ 0..(x.count - 1) # {},
                    chunks |-> disk[x.id].chunks \ 0..(x.count - 1)]]
    BY <1>1 DEF Remove
  <2>2. x.id \in Ids /\ ~Recorded(x.id)
    BY <1>0 DEF RecordsFit, RemoversFit
  <2>3. UNCHANGED <<req, records, overtaken, expired, cleaner>>
    BY <1>1 DEF Remove
  <2>4. \A i \in Ids : Recorded(i) => disk'[i] = disk[i]
    BY <1>0, <2>1, <2>2
  <2>5. \A i \in Ids : disk'[i].chunks # {} => disk'[i].made
    BY <1>0, <2>1, <2>2 DEF RecordsFit, DirType
  <2>6. RemoversFit'
    BY <1>0, <2>1, <2>3 DEF RemoversFit, Recorded
  <2> QED BY <2>3, <2>4, <2>5, <2>6, DiskLoss
<1>2. CASE CleanList
  <2>1. cleaner' = [Idle EXCEPT !.phase = "listed", !.known = {id \in Ids : Recorded(id)}]
        /\ UNCHANGED <<req, records, disk, removing, overtaken, expired>>
    BY <1>2 DEF CleanList
  <2>2. RemoversFit'
    BY <1>0, <2>1 DEF RemoversFit, Recorded, Idle
  <2> QED BY <1>0, <2>1, <2>2, DiskLoss DEF RecordsFit
<1>3. CASE CleanRead
  <2>1. cleaner' = [cleaner EXCEPT !.phase = "reading",
                                   !.todo = {id \in Ids : disk[id].made} \ cleaner.known]
        /\ cleaner.phase = "listed"
        /\ UNCHANGED <<req, records, disk, removing, overtaken, expired>>
    BY <1>3 DEF CleanRead
  <2>2. RemoversFit'
    BY <1>0, <2>1 DEF RemoversFit, Recorded, CleanerType
  <2> QED BY <1>0, <2>1, <2>2, DiskLoss DEF RecordsFit
<1>4. CASE Clean
  <2>1. UNCHANGED <<req, records, removing, overtaken, expired>> /\ cleaner.phase = "reading"
    BY <1>4 DEF Clean
  <2>2. CASE \E id \in Ids \ cleaner.known :
                 /\ disk' = [disk EXCEPT ![id] = NoDir]
                 /\ cleaner' = [cleaner EXCEPT !.todo = @ \ {id}]
    <3>1. PICK id \in Ids \ cleaner.known :
              /\ disk' = [disk EXCEPT ![id] = NoDir]
              /\ cleaner' = [cleaner EXCEPT !.todo = @ \ {id}]
      BY <2>2
    <3>2. Recorded(id) => id \in overtaken
      BY <1>0, <2>1 DEF RemoversFit
    <3>3. \A i \in Ids : Recorded(i) /\ i \notin overtaken => disk'[i] = disk[i]
      BY <1>0, <3>1, <3>2
    <3>4. \A i \in Ids : disk'[i].chunks # {} => disk'[i].made
      BY <1>0, <3>1 DEF RecordsFit, NoDir
    <3>5. RemoversFit'
      BY <1>0, <2>1, <3>1 DEF RemoversFit, Recorded, CleanerType
    <3> QED BY <2>1, <3>3, <3>4, <3>5, DiskLoss
  <2>3. CASE cleaner' = Idle /\ UNCHANGED disk
    <3>1. RemoversFit'
      BY <1>0, <2>1, <2>3 DEF RemoversFit, Idle
    <3> QED BY <1>0, <2>1, <2>3, <3>1, DiskLoss DEF RecordsFit
  <2> QED BY <1>4, <2>2, <2>3 DEF Clean, CleanNext
<1> QED BY <1>1, <1>2, <1>3, <1>4

\* What a restart makes of a request: nothing, or one with a bad answer.
LEMMA RestartRequest ==
    ASSUME Typed, Restart, NEW u \in Uploads
    PROVE  /\ req'[u] \in ReqType
           /\ req'[u].op = req[u].op /\ req'[u].name = req[u].name /\ req'[u].id = req[u].id
           /\ req'[u].k = req[u].k
           /\ req'[u].step = IF req[u].step \in {"none", "ok"} THEN req[u].step ELSE "bad"
<1>1. req'[u] = IF req[u].step \in {"none", "ok"} THEN req[u] ELSE [req[u] EXCEPT !.step = "bad"]
  BY DEF Restart
<1>2. req[u] \in ReqType
  BY DEF Typed
<1> QED BY <1>1, <1>2 DEF ReqType, Steps

\* A restart ends handlers where they are; what is on disk stays.
LEMMA RestartKeeps ==
    ASSUME Typed, ServerInv, Restart
    PROVE  ServerInv'
<1>1. UNCHANGED <<records, disk, overtaken, expired>> /\ removing' = {} /\ cleaner' = Idle
  BY DEF Restart
<1>2. RecordsFit' /\ CompleteIsWhole' /\ RemoversFit'
  BY <1>1 DEF ServerInv, RecordsFit, CompleteIsWhole, RemoversFit, Recorded, SizeOf, Idle
<1>3. Apart'
  BY RestartRequest DEF ServerInv, Apart
<1>4. ASSUME NEW u \in Uploads PROVE Owns(u)' /\ Handled(u)'
  <2>1. Owns(u) /\ Handled(u)
    BY DEF ServerInv
  <2>2. Owns(u)'
    BY <1>1, <2>1, RestartRequest DEF Owns, Recorded
  <2>3. Handled(u)'
    BY <1>1, <2>1, RestartRequest DEF Handled, Recorded, SizeOf
  <2> QED BY <2>2, <2>3
<1> QED BY <1>2, <1>3, <1>4 DEF ServerInv

-----------------------------------------------------------------------------
(* The page's requests *)

\* The page asks for the next chunk, for the completion or for a new file, or
\* ends the upload: the request says again what is there.
LEMMA PageKeeps ==
    ASSUME Typed, ServerInv, NEW u \in Uploads, UNCHANGED Files0,
           \/ \E name \in Names : Ask(u, "init", name, 0, 0)
           \/ req' = [req EXCEPT ![u] = NoReq]
           \/ /\ req[u].step = "ok" /\ req[u].op # "complete"
              /\ LET k == IF req[u].op = "chunk" THEN req[u].k + 1 ELSE 0 IN
                 Ask(u, IF k < Size[req[u].name] THEN "chunk" ELSE "complete", req[u].name,
                     req[u].id, k)
    PROVE  ServerInv'
<1>0. UNCHANGED <<records, disk, overtaken, expired>>
  BY DEF Files0
<1>1. ASSUME NEW name \in Names, Ask(u, "init", name, 0, 0) PROVE ServerInv'
  <2>1. /\ \A v \in Uploads : v # u => req'[v] = req[v]
        /\ req'[u].op = "init" /\ req'[u].name = name /\ req'[u].id = 0 /\ req'[u].step = "sent"
    BY <1>1, AskFacts
  <2>2. Owns(u)' /\ Handled(u)'
    BY <2>1 DEF Owns, Handled
  <2> QED BY <2>1, <2>2, RequestKeeps
<1>2. CASE req' = [req EXCEPT ![u] = NoReq]
  <2>1. /\ \A v \in Uploads : v # u => req'[v] = req[v]
        /\ req'[u].id = 0 /\ req'[u].step = "none"
    BY <1>2, NoReqFacts
  <2>2. Owns(u)' /\ Handled(u)'
    BY <2>1 DEF Owns, Handled
  <2> QED BY <2>1, <2>2, RequestKeeps
<1>3. CASE /\ req[u].step = "ok" /\ req[u].op # "complete"
           /\ LET k == IF req[u].op = "chunk" THEN req[u].k + 1 ELSE 0 IN
              Ask(u, IF k < Size[req[u].name] THEN "chunk" ELSE "complete", req[u].name,
                  req[u].id, k)
  <2> DEFINE k == IF req[u].op = "chunk" THEN req[u].k + 1 ELSE 0
             op == IF k < Size[req[u].name] THEN "chunk" ELSE "complete"
  <2>1. Owns(u) /\ Handled(u) /\ req[u].op \in {"init", "chunk"} /\ req[u].name \in Names
        /\ req[u].id # 0 /\ req[u].k \in Nat
    BY <1>3 DEF ServerInv, Owns, Typed, ReqType
  <2>2. PICK id \in Ids : id = req[u].id
    BY <2>1 DEF Typed, ReqType
  <2>31. Size[req[u].name] \in Nat \ {0} /\ k \in Nat /\ op \in {"chunk", "complete"}
    BY <2>1, SizeAssumption
  <2>3. k <= Size[req[u].name] /\ (op = "chunk" => k < Size[req[u].name])
        /\ (op = "complete" => k = Size[req[u].name])
    <3>1. CASE req[u].op = "chunk"
      <4>1. req[u].k < Size[req[u].name]
        BY <1>3, <2>1, <3>1 DEF Owns
      <4> QED BY <2>1, <2>31, <3>1, <4>1
    <3>2. CASE req[u].op = "init"
      BY <2>1, <2>31, <3>2
    <3> QED BY <2>1, <3>1, <3>2
  <2>4. /\ \A v \in Uploads : v # u => req'[v] = req[v]
        /\ req'[u].op = op /\ req'[u].name = req[u].name /\ req'[u].id = id
        /\ req'[u].k = k /\ req'[u].step = "sent"
    BY <1>3, <2>1, <2>2, <2>31, AskFacts
  <2>5. Owns(u)'
    BY <1>0, <1>3, <2>1, <2>2, <2>3, <2>31, <2>4 DEF Owns, Recorded
  <2>6. ASSUME Recorded(id), id \notin overtaken
        PROVE  disk[id].chunks = 0..(k - 1) /\ SizeOf(id) = Size[req[u].name]
    <3>1. SizeOf(id) = Size[req[u].name]
      BY <2>1, <2>2, <2>6 DEF Owns, SizeOf
    <3>2. CASE req[u].op = "chunk"
      <4>1. disk[id].chunks = 0..req[u].k
        BY <1>3, <2>1, <2>2, <2>6, <3>2 DEF Handled
      <4> QED BY <2>1, <3>1, <3>2, <4>1
    <3>3. CASE req[u].op = "init"
      <4>1. disk[id].chunks = {} /\ 0..(0 - 1) = {}
        BY <1>3, <2>1, <2>2, <2>6, <3>3 DEF Handled
      <4> QED BY <3>1, <3>3, <4>1
    <3> QED BY <2>1, <3>2, <3>3
  <2>7. Handled(u)'
    BY <1>0, <2>2, <2>3, <2>31, <2>4, <2>6 DEF Handled, Recorded, SizeOf
  <2> QED BY <2>2, <2>4, <2>5, <2>7, RequestKeeps
<1> QED BY <1>1, <1>2, <1>3

-----------------------------------------------------------------------------
(* Types *)

\* A handler's changes have their types.
LEMMA ServeTyped ==
    ASSUME Typed, ServerInv, NEW u \in Uploads, Serve(u)
    PROVE  Typed'
<1>0. /\ records \in [Ids -> RecordType] /\ disk \in [Ids -> DirType] /\ req[u] \in ReqType
      /\ req \in [Uploads -> ReqType] /\ overtaken \subseteq Ids
      /\ UNCHANGED <<client, removing, cleaner, expired, trouble>>
  BY DEF Serve, Typed, ServerTyped
<1>1. SUFFICES ServerTyped' /\ req' \in [Uploads -> ReqType]
  BY <1>0 DEF Typed, ClientTyped, client
<1>2. SUFFICES /\ records' \in [Ids -> RecordType] /\ disk' \in [Ids -> DirType]
               /\ overtaken' \subseteq Ids /\ req' \in [Uploads -> ReqType]
  BY <1>0 DEF Typed, ServerTyped
<1>3. \A step \in Steps : Becomes(u, step) => req' \in [Uploads -> ReqType]
  BY BecomesFacts
<1>4. CASE Init1(u) \/ Complete1(u)
  BY <1>0, <1>3, <1>4 DEF Init1, Complete1, Same, Steps
<1>5. CASE Init2(u)
  <2>1. PICK id \in Ids :
            /\ records' = [records EXCEPT ![id] = [NoRecord EXCEPT !.name = req[u].name]]
            /\ req' = [req EXCEPT ![u].step = "recorded", ![u].id = id]
            /\ overtaken' = IF cleaner.phase = "idle" THEN overtaken ELSE overtaken \cup {id}
    BY <1>5 DEF Init2
  <2>2. [NoRecord EXCEPT !.name = req[u].name] \in RecordType
    BY <1>0 DEF NoRecord, RecordType, ReqType
  <2>3. records' \in [Ids -> RecordType]
    BY <1>0, <2>1, <2>2
  <2>4. req' \in [Uploads -> ReqType]
    BY <1>0, <2>1 DEF ReqType, Steps
  <2> QED BY <1>0, <1>5, <2>1, <2>3, <2>4 DEF Init2
<1>6. CASE Init3(u)
  BY <1>0, <1>3, <1>6 DEF Init3, Steps, DirType
<1>7. CASE Chunk1(u)
  BY <1>0, <1>3, <1>7 DEF Chunk1, Same, Steps, ReqType
<1>8. CASE Chunk2(u)
  <2>1. records' = records \/ records' = [records EXCEPT ![req[u].id].bytes = @ + req[u].delta]
    BY <1>8 DEF Chunk2
  <2>2. records' \in [Ids -> RecordType]
    BY <1>0, <2>1 DEF RecordType, ReqType
  <2> QED BY <1>0, <1>3, <1>8, <2>2 DEF Chunk2, Steps
<1>9. CASE Chunk3(u)
  <2>1. disk' = disk \/ disk' = [disk EXCEPT ![req[u].id].chunks = @ \cup {req[u].k}]
    BY <1>9 DEF Chunk3
  <2>2. disk' \in [Ids -> DirType]
    BY <1>0, <2>1 DEF DirType, ReqType
  <2> QED BY <1>0, <1>3, <1>9, <2>2 DEF Chunk3, Steps
<1>10. CASE Chunk4(u)
  <2>1. records' = records \/ records' = [records EXCEPT ![req[u].id].count = req[u].k + 1]
    BY <1>10 DEF Chunk4
  <2>2. records' \in [Ids -> RecordType]
    BY <1>0, <2>1 DEF RecordType, ReqType
  <2> QED BY <1>0, <1>3, <1>10, <2>2 DEF Chunk4, Steps
<1>11. CASE Complete2(u)
  BY <1>0, <1>3, <1>11 DEF Complete2, Steps, RecordType
<1> QED BY <1>4, <1>5, <1>6, <1>7, <1>8, <1>9, <1>10, <1>11 DEF Serve

\* The other steps of the server.
LEMMA RemovalTyped ==
    ASSUME Typed, Expire \/ Remove \/ CleanList \/ CleanRead \/ Clean \/ Restart
    PROVE  Typed'
<1>0. /\ records \in [Ids -> RecordType] /\ disk \in [Ids -> DirType]
      /\ removing \subseteq [id : Ids, count : Nat] /\ cleaner \in CleanerType
      /\ req \in [Uploads -> ReqType] /\ trouble \in 0..MaxTrouble
      /\ Idle \in CleanerType /\ MaxTrouble \in Nat
  BY BoundAssumption DEF Typed, ServerTyped, Idle, CleanerType
<1>1. CASE Expire
  <2>1. PICK m \in sent :
            /\ records' = [records EXCEPT ![m.ids[1]] = NoRecord]
            /\ removing' = removing \cup {[id |-> m.ids[1], count |-> records[m.ids[1]].count]}
            /\ expired' = expired \cup {m.ids[1]} /\ Len(m.ids) = 1
    BY <1>1 DEF Expire
  <2>2. m.ids[1] \in Ids /\ records[m.ids[1]].count \in Nat
    BY <1>0, <2>1 DEF Typed, ClientTyped, RecordType
  <2>3. records' \in [Ids -> RecordType]
    BY <1>0, <2>1 DEF NoRecord, RecordType
  <2> QED BY SMTT(40), <1>0, <1>1, <2>1, <2>2, <2>3 DEF Expire, Typed, ServerTyped, ClientTyped, client
<1>2. CASE Remove
  <2>1. PICK x \in removing :
            /\ removing' = removing \ {x}
            /\ disk' = [disk EXCEPT ![x.id] =
                   [made |-> @.made /\ disk[x.id].chunks \ 0..(x.count - 1) # {},
                    chunks |-> disk[x.id].chunks \ 0..(x.count - 1)]]
    BY <1>2 DEF Remove
  <2>2. disk' \in [Ids -> DirType]
    BY <1>0, <2>1 DEF DirType
  <2> QED BY <1>0, <1>2, <2>1, <2>2 DEF Remove, Typed, ServerTyped, ClientTyped, client
<1>3. CASE CleanList \/ CleanRead
  <2>1. cleaner' \in CleanerType
    <3>1. CASE CleanList
      <4>1. cleaner' = [phase |-> "listed", known |-> {id \in Ids : Recorded(id)}, todo |-> {}]
        BY <3>1 DEF CleanList, Idle
      <4> QED BY <4>1 DEF CleanerType
    <3>2. CASE CleanRead
      <4>1. {id \in Ids : disk[id].made} \ cleaner.known \subseteq Ids
        OBVIOUS
      <4> QED BY <1>0, <3>2, <4>1 DEF CleanRead, CleanerType
    <3> QED BY <1>3, <3>1, <3>2
  <2> QED BY <1>3, <2>1 DEF CleanList, CleanRead, Typed, ServerTyped, ClientTyped, client
<1>4. CASE Clean
  <2>1. cleaner' \in CleanerType /\ disk' \in [Ids -> DirType]
    <3>1. CASE cleaner' = Idle /\ UNCHANGED disk
      BY <1>0, <3>1
    <3>2. CASE \E id \in Ids : /\ disk' = [disk EXCEPT ![id] = NoDir]
                              /\ cleaner' = [cleaner EXCEPT !.todo = @ \ {id}]
      <4>1. NoDir \in DirType
        BY DEF NoDir, DirType
      <4>2. cleaner' \in CleanerType
        BY <1>0, <3>2 DEF CleanerType
      <4> QED BY <1>0, <3>2, <4>1, <4>2
    <3> QED BY <1>4, <3>1, <3>2 DEF Clean, CleanNext
  <2> QED BY <1>4, <2>1 DEF Clean, Typed, ServerTyped, ClientTyped, client
<1>5. CASE Restart
  <2>1. req' \in [Uploads -> ReqType]
    BY <1>5, RestartRequest DEF Restart
  <2>2. trouble' \in 0..MaxTrouble
    BY <1>0, <1>5 DEF Restart, Trouble
  <2> QED BY <1>0, <1>5, <2>1, <2>2 DEF Restart, Typed, ServerTyped, ClientTyped, client
<1> QED BY <1>1, <1>2, <1>3, <1>4, <1>5

-----------------------------------------------------------------------------
(* The page *)

\* What the server may do to the files of a message or of an upload under way:
\* shred them, and nothing else.
LEMMA ServerFrame ==
    ASSUME Typed, ClientInv, UNCHANGED client, expired \subseteq expired',
           \A id \in Ids : Kept(id) =>
               id \in expired' \/ (records'[id].name = records[id].name /\ records'[id].complete),
           \A u \in Uploads : req[u].step # "none" =>
               req'[u].step # "none" /\ req'[u].name = req[u].name
    PROVE  ClientInv'
<1>1. \A id \in Ids : Kept(id) => Kept(id)'
  BY DEF Kept, Recorded
<1>2. \A id \in Ids : Kept(id) => \A name : Named(id, name) => Named(id, name)'
  BY DEF Kept, Named
<1>3. ASSUME NEW u \in Uploads PROVE RunFits(u)'
  <2>1. RunFits(u) /\ run[u] \in RunType /\ UNCHANGED <<page, run, confirmed, meddled, moved>>
    BY DEF ClientInv, Typed, ClientTyped, client
  <2>2. \A i \in DOMAIN run[u].got : run[u].got[i] \in Ids /\ Kept(run[u].got[i])
    BY <2>1 DEF RunFits, RunType
  <2>3. Undisturbed(u) => Undisturbed(u)'
    BY <1>2, <2>1, <2>2 DEF Undisturbed
  <2>4. Bound(u) => Bound(u)'
    BY <2>1 DEF Bound
  <2> QED BY <1>1, <2>1, <2>2, <2>3, <2>4 DEF RunFits, Running
<1>4. ASSUME NEW m \in sent' PROVE SentFits(m)'
  <2>1. SentFits(m) /\ m.ids \in Seq(Ids) /\ UNCHANGED <<run, confirmed, meddled, moved>>
    BY DEF ClientInv, Typed, ClientTyped, client
  <2>2. \A i \in DOMAIN m.ids : m.ids[i] \in Ids /\ Kept(m.ids[i])
    BY <2>1 DEF SentFits
  <2> QED BY <1>1, <1>2, <2>1, <2>2 DEF SentFits
<1> QED BY <1>3, <1>4 DEF ClientInv

\* A step of one upload that sends nothing.
LEMMA ClientFrame ==
    ASSUME Typed, ClientInv, NEW u \in Uploads,
           UNCHANGED <<records, expired, confirmed, page, sent, meddled, moved>>,
           \A v \in Uploads : v # u => req'[v] = req[v] /\ run'[v] = run[v],
           run[u].pc # "done", RunFits(u)'
    PROVE  ClientInv'
<1>1. ASSUME NEW v \in Uploads, v # u PROVE RunFits(v)'
  BY <1>1 DEF ClientInv, RunFits, Undisturbed, Bound, Running, Kept, Named, Recorded
<1>2. ASSUME NEW m \in sent' PROVE SentFits(m)'
  <2>1. SentFits(m) /\ m.up \in Uploads /\ m.up # u
    BY DEF ClientInv, Typed, ClientTyped, SentFits
  <2> QED BY <2>1 DEF SentFits, Kept, Named, Recorded
<1> QED BY <1>1, <1>2 DEF ClientInv

\* An upload that fails.
LEMMA ThrowsKeep ==
    ASSUME Typed, ClientInv, NEW u \in Uploads, Running(u), Throws(u),
           UNCHANGED <<records, expired, confirmed, moved>>,
           \A v \in Uploads : v # u => req'[v] = req[v]
    PROVE  ClientInv' /\ ClientTyped'
<1>1. /\ run' \in [Uploads -> RunType] /\ run'[u].pc = "failed" /\ run'[u].got = run[u].got
      /\ \A v \in Uploads : v # u => run'[v] = run[v]
      /\ UNCHANGED <<page, sent, meddled>>
  <2>1. /\ run' = [run EXCEPT ![u].pc = "failed"] /\ run \in [Uploads -> RunType]
        /\ UNCHANGED <<page, sent, meddled>>
    BY DEF Throws, Stays, Typed, ClientTyped
  <2> QED BY <2>1 DEF RunType
<1>2. RunFits(u)'
  BY <1>1 DEF ClientInv, RunFits, Running, Kept, Recorded
<1>3. ClientInv'
  BY <1>1, <1>2, ClientFrame DEF Running
<1> QED BY <1>1, <1>3 DEF Typed, ClientTyped

\* What must hold for the message of an upload to be right.
Ready(u, got) ==
    /\ \A i \in DOMAIN got : Kept(got[i])
    /\ Bound(u)
    /\ u \notin meddled =>
           /\ Len(got) = Len(confirmed[u].files)
           /\ \A i \in DOMAIN got : Named(got[i], confirmed[u].files[i])

\* The message goes, and the window closes for the uploads still going on.
LEMMA DeliverKeeps ==
    ASSUME Typed, ClientInv, NEW u \in Uploads, NEW got \in Seq(Ids), Running(u),
           Ready(u, got), Deliver(u, got), UNCHANGED <<records, expired, confirmed, moved>>,
           \A v \in Uploads : v # u => req'[v] = req[v]
    PROVE  ClientInv' /\ ClientTyped'
<1>1. /\ run' \in [Uploads -> RunType] /\ run'[u].pc = "done" /\ run'[u].got = got
      /\ \A v \in Uploads : v # u => run'[v] = run[v]
  <2>1. run' = [run EXCEPT ![u].pc = "done", ![u].got = got] /\ run \in [Uploads -> RunType]
    BY DEF Deliver, Typed, ClientTyped
  <2> QED BY ZenonT(60), <2>1 DEF RunType
<1>2. page' \in PageType /\ page'.view = page.view
  BY DEF Deliver, Closed, Typed, ClientTyped, PageType
<1>3. /\ meddled' = meddled \cup (AllRunning \ {u}) /\ AllRunning \subseteq Uploads
      /\ meddled \subseteq Uploads
  BY DEF Deliver, AllRunning, Typed, ClientTyped
<1>4. \/ sent' = sent
      \/ /\ page.view # None /\ (run[u].direct <=> page.view \in Direct)
         /\ sent' = sent \cup {[up |-> u, to |-> page.view, ids |-> got]}
  BY DEF Deliver
<1>5. page.view \in Convs \cup {None} /\ sent \subseteq [up : Uploads, to : Convs, ids : Seq(Ids)]
  BY DEF Typed, ClientTyped, PageType
<1>6. sent' \subseteq [up : Uploads, to : Convs, ids : Seq(Ids)]
  BY <1>4, <1>5
<1>7. ASSUME NEW v \in Uploads PROVE RunFits(v)'
  <2>1. CASE v = u
    BY <1>1, <2>1 DEF RunFits, Running, Ready, Kept, Recorded
  <2>2. CASE v # u
    <3>1. Running(v)' <=> Running(v)
      BY <1>1, <2>2 DEF Running
    <3>2. Running(v) => v \in meddled'
      BY <1>3, <2>2 DEF AllRunning
    <3> QED BY <1>1, <1>2, <2>2, <3>1, <3>2 DEF ClientInv, RunFits, Bound, Kept, Recorded
  <2> QED BY <2>1, <2>2
<1>8. ASSUME NEW m \in sent' PROVE SentFits(m)'
  <2>1. CASE m \in sent
    <3>1. SentFits(m) /\ m.up \in Uploads /\ m.up # u
      BY <2>1 DEF ClientInv, Typed, ClientTyped, SentFits, Running
    <3> QED BY <1>1, <1>3, <3>1 DEF SentFits, Kept, Named, Recorded
  <2>2. CASE /\ page.view # None /\ (run[u].direct <=> page.view \in Direct)
             /\ m = [up |-> u, to |-> page.view, ids |-> got]
    BY <1>1, <1>3, <2>2 DEF SentFits, Ready, Bound, Kept, Named, Recorded
  <2> QED BY <1>4, <2>1, <2>2
<1> QED BY <1>1, <1>2, <1>3, <1>6, <1>7, <1>8 DEF ClientInv, Typed, ClientTyped

\* Steps that concern neither the files nor a request.
LEMMA ServerStutter ==
    ASSUME ServerInv, ServerTyped, UNCHANGED <<server, req>>
    PROVE  ServerInv' /\ ServerTyped'
<1>1. UNCHANGED <<records, disk, removing, cleaner, overtaken, expired, req>>
  BY DEF server
<1>2. ServerTyped' /\ RecordsFit' /\ RemoversFit'
  BY <1>1 DEF ServerInv, ServerTyped, RecordsFit, RemoversFit, Recorded, SizeOf
<1>3. Apart' /\ CompleteIsWhole'
  BY <1>1 DEF ServerInv, Apart, CompleteIsWhole, Recorded, SizeOf
<1>4. \A u \in Uploads : Owns(u)' /\ Handled(u)'
  BY <1>1 DEF ServerInv, Owns, Handled, Recorded, SizeOf
<1> QED BY <1>2, <1>3, <1>4 DEF ServerInv

\* What the user does in the window: whoever cancels, takes a file out or chooses
\* others meddles with every upload under way, and whoever goes elsewhere moves it.
LEMMA WindowKeeps ==
    ASSUME IInv, Select \/ Cancel \/ TakeOut \/ Navigate
    PROVE  IInv'
<1>0. /\ UNCHANGED <<server, req, run, sent, confirmed>> /\ trouble' \in 0..MaxTrouble
      /\ page \in PageType
  <2>1. trouble \in 0..MaxTrouble /\ MaxTrouble \in Nat /\ page \in PageType
    <3>1. Typed
      BY DEF IInv
    <3> QED BY <3>1, BoundAssumption DEF Typed, ClientTyped
  <2>2. UNCHANGED <<server, req, run, sent, confirmed>>
    BY DEF Select, Cancel, TakeOut, Navigate
  <2>3. trouble' = trouble \/ Trouble
    BY DEF Select, Cancel, TakeOut, Navigate
  <2> QED BY <2>1, <2>2, <2>3 DEF Trouble
<1>1. page' \in PageType
  <2>1. CASE Select
    BY <1>0, <2>1, SizeAssumption DEF Select, PageType
  <2>2. CASE Cancel
    BY <1>0, <2>2 DEF Cancel, Closed, PageType
  <2>3. CASE TakeOut
    <3>1. PICK i \in DOMAIN page.selected :
              LET rest == SubSeq(page.selected, 1, i - 1)
                            \o SubSeq(page.selected, i + 1, Len(page.selected))
              IN  page' = IF rest = <<>> THEN Closed(page.view)
                          ELSE [page EXCEPT !.selected = rest]
      BY <2>3 DEF TakeOut
    <3> DEFINE front == SubSeq(page.selected, 1, i - 1)
               back == SubSeq(page.selected, i + 1, Len(page.selected))
    <3>2. page.selected \in Seq(Names) /\ i \in 1..Len(page.selected)
      BY <1>0, <3>1 DEF PageType
    <3>3. front \in Seq(Names)
      BY <3>2
    <3>4. back \in Seq(Names)
      BY <3>2
    <3>5. front \o back \in Seq(Names)
      BY <3>3, <3>4
    <3> QED BY <1>0, <3>1, <3>5 DEF Closed, PageType
  <2>4. CASE Navigate
    BY <1>0, <2>4 DEF Navigate, PageType
  <2> QED BY <2>1, <2>2, <2>3, <2>4
<1>2. /\ meddled' \subseteq Uploads /\ meddled \subseteq meddled'
      /\ moved' \subseteq Uploads /\ moved \subseteq moved'
      /\ \A u \in Uploads : Running(u) /\ u \notin meddled' => Undisturbed(u)'
      /\ \A u \in Uploads : Running(u) => Bound(u)'
  <2>1. meddled \subseteq Uploads /\ moved \subseteq Uploads /\ AllRunning \subseteq Uploads
    BY DEF IInv, Typed, ClientTyped, AllRunning
  <2>2. \A u \in Uploads : Running(u) => Bound(u) /\ (u \notin meddled => Undisturbed(u))
    BY DEF IInv, ClientInv, RunFits
  <2>3. CASE Select \/ Cancel \/ TakeOut
    <3>1. meddled' = meddled \cup AllRunning /\ moved' = moved
      BY <2>3 DEF Select, Cancel, TakeOut, Meddle
    <3>2. page'.view = page.view
      <4>1. CASE Select
        BY <1>0, <4>1 DEF Select, PageType
      <4>2. CASE Cancel
        BY <4>2 DEF Cancel, Closed
      <4>3. CASE TakeOut
        BY <1>0, <4>3 DEF TakeOut, Closed, PageType
      <4> QED BY <2>3, <4>1, <4>2, <4>3
    <3>3. \A u \in Uploads : Bound(u) => Bound(u)'
      BY <1>0, <3>1, <3>2 DEF Bound
    <3> QED BY <2>1, <2>2, <3>1, <3>3 DEF AllRunning
  <2>4. CASE Navigate
    <3>1. meddled' = meddled /\ moved' = moved \cup AllRunning
      BY <2>4 DEF Navigate
    <3>2. /\ page'.modal = page.modal /\ page'.selected = page.selected
          /\ page'.uploading = page.uploading
      BY <1>0, <2>4 DEF Navigate, PageType
    <3>3. \A u \in Uploads : Undisturbed(u) => Undisturbed(u)'
      BY <1>0, <3>2 DEF Undisturbed, Named, server
    <3>4. \A u \in Uploads : Running(u) /\ Bound(u) => Bound(u)'
      BY <1>0, <3>1 DEF Bound, AllRunning
    <3> QED BY <2>1, <2>2, <3>1, <3>3, <3>4
  <2> QED BY <2>3, <2>4
<1>3. ASSUME NEW u \in Uploads PROVE RunFits(u)'
  BY <1>0, <1>2 DEF IInv, ClientInv, RunFits, Running, Kept, Recorded, server
<1>4. ASSUME NEW m \in sent' PROVE SentFits(m)'
  BY <1>0, <1>2 DEF IInv, ClientInv, SentFits, Kept, Named, Recorded, server
<1>5. Typed' /\ ServerInv'
  BY <1>0, <1>1, <1>2, ServerStutter DEF IInv, Typed, ClientTyped
<1> QED BY <1>3, <1>4, <1>5 DEF IInv, ClientInv

\* The user confirms: the upload that begins is right about the window, and no
\* other is under way.
LEMMA ConfirmKeeps ==
    ASSUME IInv, Confirm
    PROVE  IInv'
<1>0. Typed /\ ServerInv /\ ClientInv /\ page \in PageType
  BY DEF IInv, Typed, ClientTyped
<1>1. PICK u \in Uploads :
          /\ run[u].pc = "none"
          /\ run' = [run EXCEPT ![u] = [NoRun EXCEPT !.pc = "wait", !.direct = page.view \in Direct,
                                                     !.name = page.selected[1]]]
          /\ Ask(u, "init", page.selected[1], 0, 0)
          /\ confirmed' = [confirmed EXCEPT ![u] = [to |-> page.view, files |-> page.selected]]
  BY DEF Confirm
<1>2. PICK files \in Seq(Names) : files = page.selected /\ files # <<>>
  BY <1>0 DEF Confirm, PageType
<1>3. files[1] \in Names /\ 0 < Len(files)
  BY <1>2
<1>4. /\ page.modal /\ ~page.uploading /\ page.view \in Convs
      /\ page' = [page EXCEPT !.uploading = TRUE]
      /\ UNCHANGED <<server, sent, meddled, moved, trouble>>
  BY <1>0 DEF Confirm, PageType
<1>5. /\ page' \in PageType /\ page'.modal /\ page'.uploading /\ page'.selected = files
      /\ page'.view = page.view
  BY <1>0, <1>2, <1>4 DEF PageType
<1>6. /\ run'[u].pc = "wait" /\ (run'[u].direct <=> page.view \in Direct) /\ run'[u].fi = 0
      /\ run'[u].name = files[1] /\ run'[u].got = <<>>
      /\ run' \in [Uploads -> RunType]
      /\ \A v \in Uploads : v # u => run'[v] = run[v]
  <2>0. (page.view \in Direct) \in BOOLEAN
    BY SMT
  <2>1. PICK d \in BOOLEAN : d = (page.view \in Direct)
    BY <2>0, Zenon
  <2>11. d <=> page.view \in Direct
    BY <2>1, Zenon
  <2> DEFINE r == [NoRun EXCEPT !.pc = "wait", !.direct = d, !.name = files[1]]
  <2>2. r \in RunType /\ r.pc = "wait" /\ r.direct = d /\ r.fi = 0 /\ r.name = files[1]
        /\ r.got = <<>>
    <3>1. NoRun \in RunType
      BY DEF NoRun, RunType
    <3>2. r \in RunType
      BY <1>3, <3>1 DEF RunType
    <3> QED BY <3>2 DEF NoRun
  <2>3. run' = [run EXCEPT ![u] = r] /\ run \in [Uploads -> RunType]
    BY <1>0, <1>1, <1>2, <2>1, Zenon DEF Typed, ClientTyped
  <2> HIDE DEF r
  <2> QED BY <2>11, <2>2, <2>3
<1>7. /\ confirmed' \in [Uploads -> [to : Convs \cup {None}, files : Seq(Names)]]
      /\ confirmed'[u].to = page.view /\ confirmed'[u].files = files
      /\ \A v \in Uploads : v # u => confirmed'[v] = confirmed[v]
  BY <1>0, <1>1, <1>2, <1>4 DEF Typed, ClientTyped
<1>8. /\ req' \in [Uploads -> ReqType] /\ req'[u].step = "sent" /\ req'[u].name = files[1]
      /\ \A v \in Uploads : v # u => req'[v] = req[v]
  BY <1>0, <1>1, <1>2, <1>3, AskFacts
<1>9. ServerInv'
  BY <1>0, <1>1, <1>2, <1>3, <1>4, PageKeeps DEF server, Files0
<1>10. ASSUME NEW v \in Uploads PROVE RunFits(v)'
  <2>1. CASE v = u
    BY <1>3, <1>5, <1>6, <1>7, <1>8, <2>1 DEF RunFits, Undisturbed, Bound
  <2>2. CASE v # u
    <3>1. Running(v) => v \in meddled
      BY <1>0, <1>4 DEF ClientInv, RunFits, Undisturbed
    <3>2. Bound(v) => Bound(v)'
      BY <1>4, <1>5, <1>6, <1>7, <2>2 DEF Bound
    <3>3. /\ run'[v] = run[v] /\ req'[v] = req[v]
          /\ UNCHANGED <<records, expired, meddled>>
      BY <1>4, <1>6, <1>8, <2>2 DEF server
    <3>4. RunFits(v)
      BY <1>0 DEF ClientInv
    <3> QED BY <3>1, <3>2, <3>3, <3>4 DEF RunFits, Running, Kept, Recorded
  <2> QED BY <2>1, <2>2
<1>11. ASSUME NEW m \in sent' PROVE SentFits(m)'
  <2>1. SentFits(m) /\ m.up \in Uploads /\ m.up # u
    BY <1>0, <1>1, <1>4 DEF ClientInv, SentFits, Typed, ClientTyped
  <2> QED BY <1>4, <1>6, <1>7, <2>1 DEF SentFits, Kept, Named, Recorded, server
<1>12. Typed'
  BY <1>0, <1>4, <1>5, <1>6, <1>7, <1>8 DEF Typed, ServerTyped, ClientTyped, server
<1> QED BY <1>9, <1>10, <1>11, <1>12 DEF IInv, ClientInv

\* The page gives up on a request.
LEMMA LostKeeps ==
    ASSUME IInv, NEW u \in Uploads, Lost(u)
    PROVE  IInv'
<1>1. /\ Throws(u) /\ UNCHANGED <<server, confirmed, moved, req>> /\ Running(u)
      /\ Typed /\ ServerInv /\ ClientInv
  BY DEF Lost, Running, IInv
<1>2. trouble' \in 0..MaxTrouble
  BY BoundAssumption DEF Lost, Trouble, IInv, Typed
<1>3. ClientInv' /\ ClientTyped'
  BY <1>1, ThrowsKeep DEF server
<1> QED BY <1>1, <1>2, <1>3, ServerStutter DEF IInv, Typed

\* The key of the other one is known: the message goes.
LEMMA PeerKnownKeeps ==
    ASSUME IInv, NEW u \in Uploads, PeerKnown(u)
    PROVE  IInv'
<1>1. /\ Deliver(u, run[u].got) /\ UNCHANGED <<server, confirmed, moved, trouble, req>> /\ Running(u)
      /\ Typed /\ ServerInv /\ ClientInv /\ run[u].got \in Seq(Ids) /\ run[u].pc = "peer"
  BY DEF PeerKnown, Page, Running, IInv, Typed, ClientTyped, RunType
<1>2. Ready(u, run[u].got)
  BY <1>1 DEF ClientInv, RunFits, Ready, Undisturbed, Bound
<1>3. ClientInv' /\ ClientTyped'
  BY <1>1, <1>2, DeliverKeeps DEF server
<1> QED BY <1>1, <1>3, ServerStutter DEF IInv, Typed

\* The loop after a file is complete: the next one, an end without a message,
\* the wait for a key, or the message.
LEMMA LoopKeeps ==
    ASSUME IInv, NEW u \in Uploads, run[u].pc = "wait", req[u].step = "ok",
           req[u].op = "complete", Loop(u, run[u].fi + 1, Append(run[u].got, req[u].id)), Page
    PROVE  IInv'
<1>0. /\ Typed /\ ServerInv /\ ClientInv /\ RunFits(u) /\ Owns(u) /\ Handled(u)
      /\ run[u] \in RunType /\ page \in PageType /\ Running(u)
      /\ UNCHANGED <<server, confirmed, moved, trouble>>
  BY DEF IInv, ServerInv, ClientInv, Typed, ClientTyped, Running, Page
<1>1. PICK id \in Ids : id = req[u].id /\ Kept(id) /\ Named(id, run[u].name)
  <2>1. req[u].id # 0
    BY <1>0 DEF Owns
  <2> QED BY <1>0, <2>1 DEF Typed, ReqType, Owns, Handled, RunFits, Kept, Named
<1>2. PICK got \in Seq(Ids) : /\ got = Append(run[u].got, id) /\ Len(got) = Len(run[u].got) + 1
                              /\ got[Len(got)] = id
                              /\ \A i \in 1..Len(run[u].got) : got[i] = run[u].got[i]
  <2>1. run[u].got \in Seq(Ids)
    BY <1>0 DEF RunType
  <2> DEFINE got == Append(run[u].got, id)
  <2>2. got \in Seq(Ids)
    BY <2>1
  <2>3. Len(got) = Len(run[u].got) + 1
    BY <2>1
  <2>4. got[Len(run[u].got) + 1] = id
    BY <2>1
  <2>5. \A i \in 1..Len(run[u].got) : got[i] = run[u].got[i]
    BY <2>1
  <2> QED BY <2>2, <2>3, <2>4, <2>5
<1>3. PICK fi \in Nat : fi = run[u].fi + 1
  BY <1>0 DEF RunType
<1>4. \A i \in DOMAIN got : i \in 1..Len(run[u].got) \/ (i = Len(got) /\ got[i] = id)
  BY <1>0, <1>2 DEF RunType
<1>5. \A i \in DOMAIN got : Kept(got[i])
  BY <1>0, <1>1, <1>2, <1>4 DEF RunFits, RunType
<1>6. u \notin meddled =>
          /\ Undisturbed(u) /\ Len(got) = fi /\ fi <= Len(confirmed[u].files)
          /\ \A i \in DOMAIN got : Named(got[i], confirmed[u].files[i])
  <2>1. SUFFICES ASSUME u \notin meddled
                 PROVE  /\ Undisturbed(u) /\ Len(got) = fi /\ fi <= Len(confirmed[u].files)
                        /\ \A i \in DOMAIN got : Named(got[i], confirmed[u].files[i])
    OBVIOUS
  <2>2. /\ Undisturbed(u) /\ run[u].fi = Len(run[u].got) /\ run[u].fi < Len(confirmed[u].files)
        /\ run[u].name = confirmed[u].files[run[u].fi + 1]
        /\ \A i \in 1..Len(run[u].got) : Named(run[u].got[i], confirmed[u].files[i])
    BY <1>0, <2>1 DEF RunFits, Undisturbed, RunType
  <2>3. Len(confirmed[u].files) \in Nat
    BY <1>0 DEF Typed, ClientTyped
  <2>4. Len(got) = fi /\ fi <= Len(confirmed[u].files)
    BY <1>2, <1>3, <2>2, <2>3
  <2>5. Named(id, confirmed[u].files[fi])
    BY <1>1, <1>3, <2>2
  <2>6. ASSUME NEW i \in DOMAIN got PROVE Named(got[i], confirmed[u].files[i])
    <3>1. CASE i \in 1..Len(run[u].got)
      BY <1>2, <2>2, <3>1
    <3>2. CASE i = Len(got) /\ got[i] = id
      BY <2>4, <2>5, <3>2
    <3> QED BY <1>4, <3>1, <3>2
  <2> QED BY <2>2, <2>4, <2>6
<1>7. Loop(u, fi, got)
  BY <1>1, <1>2, <1>3
<1>8. ServerTyped' /\ trouble' \in 0..MaxTrouble /\ UNCHANGED <<records, expired, confirmed, moved, trouble>>
  BY <1>0 DEF server, Typed, ServerTyped
<1>9. CASE /\ fi < Len(page.selected) /\ Ask(u, "init", page.selected[fi + 1], 0, 0)
           /\ run' = [run EXCEPT ![u].fi = fi, ![u].got = got, ![u].name = page.selected[fi + 1]]
           /\ Stays
  <2>1. PICK name \in Names : name = page.selected[fi + 1]
    BY <1>0, <1>9 DEF PageType
  <2>2. /\ run' \in [Uploads -> RunType] /\ run'[u].pc = "wait" /\ run'[u].fi = fi
        /\ run'[u].got = got /\ run'[u].name = name /\ run'[u].direct = run[u].direct
        /\ \A v \in Uploads : v # u => run'[v] = run[v]
    <3>1. run' = [run EXCEPT ![u].fi = fi, ![u].got = got, ![u].name = name]
          /\ run \in [Uploads -> RunType]
      BY <1>0, <1>9, <2>1 DEF Typed, ClientTyped
    <3> QED BY <3>1 DEF RunType
  <2>3. /\ req' \in [Uploads -> ReqType] /\ req'[u].step = "sent" /\ req'[u].name = name
        /\ \A v \in Uploads : v # u => req'[v] = req[v]
    BY ZenonT(60), <1>0, <1>9, <2>1, AskFacts
  <2>4. ServerInv'
    BY <1>0, <1>9, <2>1, PageKeeps DEF server, Files0
  <2>5. UNCHANGED <<page, sent, meddled>>
    BY <1>9 DEF Stays
  <2>6. u \notin meddled => Undisturbed(u)'
    BY SMTT(30), <1>6, <1>8, <1>9, <2>1, <2>2, <2>5 DEF Undisturbed, Named
  <2>9. Bound(u)'
    BY <1>0, <1>8, <2>2, <2>5 DEF RunFits, Bound
  <2>7. RunFits(u)'
    BY <1>5, <1>8, <2>2, <2>3, <2>5, <2>6, <2>9 DEF RunFits, Kept, Recorded
  <2>8. ClientInv'
    BY <1>0, <1>8, <2>2, <2>3, <2>5, <2>7, ClientFrame
  <2> QED BY <1>0, <1>8, <2>2, <2>3, <2>4, <2>5, <2>8 DEF IInv, Typed, ClientTyped
<1>10. CASE req' = [req EXCEPT ![u] = NoReq]
  <2>1. /\ req' \in [Uploads -> ReqType] /\ \A v \in Uploads : v # u => req'[v] = req[v]
    BY <1>0, <1>10, NoReqFacts
  <2>2. ServerInv'
    BY <1>0, <1>10, PageKeeps DEF server, Files0
  <2>3. CASE Throws(u)
    <3>1. ClientInv' /\ ClientTyped'
      BY <1>0, <1>8, <2>1, <2>3, ThrowsKeep
    <3> QED BY <1>8, <2>1, <2>2, <3>1 DEF IInv, Typed
  <2>4. CASE fi >= Len(page.selected) /\ Deliver(u, got)
    <3>1. Ready(u, got)
      BY <1>0, <1>5, <1>6, <2>4 DEF Ready, RunFits, Undisturbed
    <3>2. ClientInv' /\ ClientTyped'
      BY <1>0, <1>8, <2>1, <2>4, <3>1, DeliverKeeps
    <3> QED BY <1>8, <2>1, <2>2, <3>2 DEF IInv, Typed
  <2>5. CASE /\ fi >= Len(page.selected)
             /\ run' = [run EXCEPT ![u].pc = "peer", ![u].got = got] /\ Stays
    <3>1. /\ run' \in [Uploads -> RunType] /\ run'[u].pc = "peer" /\ run'[u].fi = run[u].fi
          /\ run'[u].got = got /\ run'[u].direct = run[u].direct
          /\ \A v \in Uploads : v # u => run'[v] = run[v]
      <4>1. run' = [run EXCEPT ![u].pc = "peer", ![u].got = got] /\ run \in [Uploads -> RunType]
        BY <1>0, <2>5 DEF Typed, ClientTyped
      <4> QED BY <4>1 DEF RunType
    <3>2. UNCHANGED <<page, sent, meddled>>
      BY <2>5 DEF Stays
    <3>3. u \notin meddled => Undisturbed(u)'
      BY <1>6, <1>8, <2>5, <3>1, <3>2 DEF Undisturbed, Named
    <3>6. Bound(u)'
      BY <1>0, <1>8, <3>1, <3>2 DEF RunFits, Bound
    <3>4. RunFits(u)'
      BY <1>5, <1>8, <3>1, <3>2, <3>3, <3>6 DEF RunFits, Kept, Recorded
    <3>5. ClientInv'
      BY <1>0, <1>8, <2>1, <3>1, <3>2, <3>4, ClientFrame
    <3> QED BY <1>0, <1>8, <2>1, <2>2, <3>1, <3>2, <3>5 DEF IInv, Typed, ClientTyped
  <2> QED BY <1>7, <1>9, <2>3, <2>4, <2>5 DEF Loop
<1> QED BY <1>7, <1>9, <1>10 DEF Loop

\* The answer to a request reaches the page.
LEMMA AnsweredKeeps ==
    ASSUME IInv, NEW u \in Uploads, Answered(u)
    PROVE  IInv'
<1>0. /\ Typed /\ ServerInv /\ ClientInv /\ RunFits(u) /\ Owns(u) /\ Page
      /\ run[u].pc = "wait" /\ Running(u) /\ req[u] \in ReqType
      /\ UNCHANGED <<server, confirmed, moved, trouble>>
  BY DEF Answered, IInv, ServerInv, ClientInv, Typed, Running, Page
<1>1. CASE Refused(u)
  <2>1. Throws(u) /\ UNCHANGED req
    BY <1>1 DEF Refused
  <2>2. ClientInv' /\ ClientTyped'
    BY <1>0, <2>1, ThrowsKeep DEF server
  <2> QED BY <1>0, <2>1, <2>2, ServerStutter DEF IInv, Typed
<1>2. CASE /\ req[u].step = "ok" /\ req[u].op # "complete"
           /\ LET k == IF req[u].op = "chunk" THEN req[u].k + 1 ELSE 0 IN
              Ask(u, IF k < Size[run[u].name] THEN "chunk" ELSE "complete", run[u].name,
                  req[u].id, k)
           /\ UNCHANGED run /\ Stays
  <2> DEFINE k == IF req[u].op = "chunk" THEN req[u].k + 1 ELSE 0
             op == IF k < Size[run[u].name] THEN "chunk" ELSE "complete"
  <2>1. run[u].name = req[u].name /\ run[u].name \in Names
    BY <1>0, <1>2 DEF RunFits, Owns
  <2>2. k \in Nat /\ op \in {"chunk", "complete"} /\ req[u].id \in Ids \cup {0}
    BY <1>0 DEF ReqType
  <2>3. ServerInv'
    BY <1>0, <1>2, <2>1, PageKeeps DEF server, Files0
  <2>4. /\ req' \in [Uploads -> ReqType] /\ req'[u].step = "sent" /\ req'[u].name = run[u].name
        /\ \A v \in Uploads : v # u => req'[v] = req[v]
    BY <1>0, <1>2, <2>1, <2>2, AskFacts
  <2>5. UNCHANGED <<records, expired, confirmed, page, sent, meddled, moved, run>>
    BY <1>0, <1>2 DEF server, Stays
  <2>6. RunFits(u)'
    BY <1>0, <2>4, <2>5 DEF RunFits, Running, Undisturbed, Bound, Kept, Named, Recorded
  <2>7. ClientInv'
    BY <1>0, <2>4, <2>5, <2>6, ClientFrame
  <2> QED BY <1>0, <2>3, <2>4, <2>5, <2>7 DEF IInv, Typed, ServerTyped, ClientTyped, server
<1>3. CASE /\ req[u].step = "ok" /\ req[u].op = "complete"
           /\ Loop(u, run[u].fi + 1, Append(run[u].got, req[u].id))
  BY <1>0, <1>3, LoopKeeps
<1> QED BY <1>1, <1>2, <1>3 DEF Answered, CanGoOn

-----------------------------------------------------------------------------
(* The invariant *)

\* A handler leaves every file that is complete as it is, and its request the
\* one it was.
LEMMA ServeFrame ==
    ASSUME Typed, NEW u \in Uploads, Serve(u)
    PROVE  /\ UNCHANGED <<client, expired>>
           /\ \A id \in Ids : Kept(id) =>
                  id \in expired' \/ (records'[id].name = records[id].name /\ records'[id].complete)
           /\ \A v \in Uploads : req[v].step # "none" =>
                  req'[v].step # "none" /\ req'[v].name = req[v].name
<1>0. UNCHANGED <<client, expired>> /\ records \in [Ids -> RecordType] /\ req \in [Uploads -> ReqType]
  BY DEF Serve, Typed, ServerTyped
<1>1. \A id \in Ids : Kept(id) =>
          id \in expired' \/ (records'[id].name = records[id].name /\ records'[id].complete)
  <2>1. CASE UNCHANGED records
    BY <1>0, <2>1 DEF Kept
  <2>2. CASE Init2(u)
    <3>1. PICK x \in Ids :
              /\ records[x] = NoRecord
              /\ records' = [records EXCEPT ![x] = [NoRecord EXCEPT !.name = req[u].name]]
      BY <2>2 DEF Init2
    <3>2. ~Recorded(x)
      BY <3>1 DEF Recorded, NoRecord
    <3> QED BY <1>0, <3>1, <3>2 DEF Kept
  <2>3. CASE \/ records' = [records EXCEPT ![req[u].id].bytes = @ + req[u].delta]
             \/ records' = [records EXCEPT ![req[u].id].count = req[u].k + 1]
             \/ records' = [records EXCEPT ![req[u].id].complete = TRUE]
    BY <1>0, <2>3 DEF Kept, RecordType
  <2> QED BY <2>1, <2>2, <2>3 DEF Serve, Init1, Init3, Chunk1, Chunk2, Chunk3, Chunk4,
                                  Complete1, Complete2, Same
<1>2. \A v \in Uploads : req[v].step # "none" =>
          req'[v].step # "none" /\ req'[v].name = req[v].name
  <2>1. CASE \E step \in Steps \ {"none"} : Becomes(u, step)
    BY <2>1, BecomesFacts
  <2>2. CASE \E id \in Ids : req' = [req EXCEPT ![u].step = "recorded", ![u].id = id]
    BY <1>0, <2>2 DEF ReqType
  <2>3. CASE \E d \in {0, 1} : req' = [req EXCEPT ![u].step = "seen", ![u].delta = d]
    BY <1>0, <2>3 DEF ReqType
  <2>4. CASE Init2(u)
    BY <2>2, <2>4 DEF Init2
  <2>5. CASE Chunk1(u)
    BY <2>1, <2>3, <2>5 DEF Chunk1, Steps
  <2> QED BY <2>1, <2>4, <2>5 DEF Serve, Init1, Init3, Chunk2, Chunk3, Chunk4,
                                  Complete1, Complete2, Steps
<1> QED BY <1>0, <1>1, <1>2

\* So does everything else the server does by itself, but for what it shreds.
LEMMA RemovalFrame ==
    ASSUME Typed, Expire \/ Remove \/ CleanList \/ CleanRead \/ Clean \/ Restart
    PROVE  /\ UNCHANGED client /\ expired \subseteq expired'
           /\ \A id \in Ids : Kept(id) =>
                  id \in expired' \/ (records'[id].name = records[id].name /\ records'[id].complete)
           /\ \A u \in Uploads : req[u].step # "none" =>
                  req'[u].step # "none" /\ req'[u].name = req[u].name
<1>1. CASE Expire
  BY <1>1 DEF Expire, Kept, Typed, ServerTyped
<1>2. CASE Restart
  <2>1. UNCHANGED <<client, records, expired>>
    BY <1>2 DEF Restart
  <2> QED BY <1>2, <2>1, RestartRequest DEF Kept
<1>3. CASE Remove \/ CleanList \/ CleanRead \/ Clean
  <2>1. UNCHANGED <<client, records, expired, req>>
    BY <1>3 DEF Remove, CleanList, CleanRead, Clean
  <2> QED BY <2>1 DEF Kept
<1> QED BY <1>1, <1>2, <1>3

\* The invariant holds at the start, and every step keeps it.
LEMMA InitIInv ==
    ASSUME Init
    PROVE  IInv
<1>1. NoRecord \in RecordType /\ NoDir \in DirType /\ NoReq \in ReqType /\ NoRun \in RunType
      /\ Idle \in CleanerType
  BY DEF NoRecord, RecordType, NoDir, DirType, NoReq, ReqType, Steps, NoRun, RunType, Idle,
         CleanerType
<1>2. PICK v \in Convs : page = Closed(v)
  BY DEF Init
<1>3. page \in PageType
  BY <1>2 DEF Closed, PageType
<1>4. 0 \in 0..MaxTrouble
  BY BoundAssumption
<1>5. Typed
  BY <1>1, <1>3, <1>4 DEF Init, Typed, ServerTyped, ClientTyped
<1>6. /\ \A id \in Ids : records[id] = NoRecord /\ disk[id] = NoDir /\ ~Recorded(id)
      /\ \A u \in Uploads : req[u] = NoReq /\ run[u] = NoRun
      /\ removing = {} /\ sent = {} /\ cleaner = Idle /\ expired = {}
  BY DEF Init, Recorded, NoRecord
<1>7. ServerInv
  <2>1. RecordsFit /\ RemoversFit /\ CompleteIsWhole
    BY <1>6 DEF RecordsFit, RemoversFit, CompleteIsWhole, NoDir, Idle
  <2>2. Apart /\ \A u \in Uploads : Owns(u) /\ Handled(u)
    BY <1>6 DEF Apart, Owns, Handled, NoReq
  <2> QED BY <2>1, <2>2 DEF ServerInv
<1>8. ClientInv
  BY <1>6 DEF ClientInv, RunFits, Running, NoRun
<1> QED BY <1>5, <1>7, <1>8 DEF IInv

LEMMA NextIInv ==
    ASSUME IInv, [Next]_vars
    PROVE  IInv'
<1>0. Typed /\ ServerInv /\ ClientInv
  BY DEF IInv
<1>1. CASE Select \/ Cancel \/ TakeOut \/ Navigate
  BY <1>1, WindowKeeps
<1>2. CASE Confirm
  BY <1>2, ConfirmKeeps
<1>3. ASSUME NEW u \in Uploads, Answered(u) \/ PeerKnown(u) \/ Lost(u) PROVE IInv'
  BY <1>3, AnsweredKeeps, PeerKnownKeeps, LostKeeps
<1>4. ASSUME NEW u \in Uploads, Serve(u) PROVE IInv'
  <2>1. Typed' /\ ServerInv'
    BY <1>0, <1>4, ServeTyped, ServeKeeps
  <2>2. ClientInv'
    BY <1>0, <1>4, ServeFrame, ServerFrame
  <2> QED BY <2>1, <2>2 DEF IInv
<1>5. CASE Expire \/ Remove \/ CleanList \/ CleanRead \/ Clean \/ Restart
  <2>1. Typed' /\ ServerInv'
    BY <1>0, <1>5, RemovalTyped, ExpireKeeps, RemoversKeep, RestartKeeps
  <2>2. ClientInv'
    BY <1>0, <1>5, RemovalFrame, ServerFrame
  <2> QED BY <2>1, <2>2 DEF IInv
<1>6. CASE UNCHANGED vars
  <2>1. UNCHANGED <<server, client, req, trouble>>
    BY <1>6 DEF vars
  <2>2. ServerInv' /\ ServerTyped'
    BY <1>0, <2>1, ServerStutter DEF Typed
  <2>3. ClientInv'
    BY <1>0, <2>1, ServerFrame DEF Kept, server
  <2> QED BY <1>0, <2>1, <2>2, <2>3 DEF IInv, Typed, ClientTyped, client
<1> QED BY <1>1, <1>2, <1>3, <1>4, <1>5, <1>6 DEF Next

\* The inductive invariant holds in every reachable state.
THEOREM Invariance == Spec => []IInv
<1> QED BY InitIInv, NextIInv, PTL DEF Spec

\* Type correctness of uploads, records and the clean-up.
THEOREM TypeCorrect == Spec => []TypeOK
<1>1. IInv => TypeOK
  <2> SUFFICES ASSUME IInv PROVE TypeOK
    OBVIOUS
  <2>1. \A id \in Ids :
            /\ records[id] \in RecordType /\ disk[id] \in DirType
            /\ Recorded(id) => SizeOf(id) \in Nat
    BY SizeAssumption DEF IInv, Typed, ServerTyped, Recorded, SizeOf, RecordType
  <2>2. \A id \in Ids :
            /\ records[id].name \in Names \cup {None} /\ records[id].complete \in BOOLEAN
            /\ Recorded(id) => records[id].bytes \in 0..SizeOf(id)
                               /\ records[id].count \in 0..SizeOf(id)
            /\ disk[id].made \in BOOLEAN /\ disk[id].chunks \subseteq Nat
            /\ disk[id].chunks # {} => disk[id].made
    BY <2>1 DEF IInv, ServerInv, RecordsFit, RecordType, DirType
  <2>3. \A u \in Uploads : run[u] \in RunType /\ req[u] \in ReqType
    BY DEF IInv, Typed, ClientTyped
  <2>4. /\ removing \subseteq [id : Ids, count : Nat] /\ cleaner \in CleanerType
        /\ page \in PageType /\ trouble \in 0..MaxTrouble
        /\ sent \subseteq [up : Uploads, to : Convs, ids : Seq(Ids)]
        /\ meddled \subseteq Uploads /\ moved \subseteq Uploads /\ overtaken \subseteq Ids /\ expired \subseteq Ids
    BY DEF IInv, Typed, ServerTyped, ClientTyped
  <2>5. \A u \in Uploads :
            /\ run[u].pc \in {"none", "wait", "peer", "done", "failed"}
            /\ run[u].got \in Seq(Ids) /\ run[u].fi \in Nat
            /\ req[u].op \in {None, "init", "chunk", "complete"} /\ req[u].id \in Ids \cup {0}
            /\ req[u].step \in {"none", "sent", "checked", "recorded", "seen", "charged",
                                "written", "ok", "bad"}
    BY <2>3 DEF RunType, ReqType, Steps
  <2> QED BY <2>2, <2>4, <2>5 DEF TypeOK, CleanerType, PageType
<1> QED BY <1>1, Invariance, PTL

\* A complete file has every chunk, whatever was interrupted, removed or
\* cleaned up meanwhile, unless a clean-up overtook its beginning.
THEOREM WholeCorrect == Spec => []CompleteIsWhole
<1>1. IInv => CompleteIsWhole
  BY DEF IInv, ServerInv
<1> QED BY <1>1, Invariance, PTL

\* A message names only files that were complete when it was sent.
THEOREM SentCorrect == Spec => []SentIsComplete
<1>1. IInv => SentIsComplete
  BY DEF IInv, ClientInv, SentFits, SentIsComplete, Kept
<1> QED BY <1>1, Invariance, PTL

\* An upload left alone sends what was confirmed, and no upload's message goes
\* elsewhere unless another conversation came into view, or to another kind.
THEOREM ConfirmedCorrect == Spec => []SentAsConfirmed
<1>1. IInv => SentAsConfirmed
  <2> SUFFICES ASSUME IInv, NEW m \in sent
               PROVE  /\ m.up \notin meddled =>
                             [i \in DOMAIN m.ids |->
                                IF m.ids[i] \in expired THEN confirmed[m.up].files[i]
                                ELSE records[m.ids[i]].name] = confirmed[m.up].files
                      /\ m.up \notin moved => m.to = confirmed[m.up].to
                      /\ m.to \in Direct <=> confirmed[m.up].to \in Direct
    BY DEF SentAsConfirmed
  <2>1. PICK files \in Seq(Names) : files = confirmed[m.up].files
    BY DEF IInv, Typed, ClientTyped
  <2>2. m.ids \in Seq(Ids)
    BY DEF IInv, Typed, ClientTyped
  <2>3. /\ m.up \notin moved => m.to = confirmed[m.up].to
        /\ m.to \in Direct <=> confirmed[m.up].to \in Direct
        /\ m.up \notin meddled =>
               /\ Len(m.ids) = Len(files)
               /\ \A i \in DOMAIN m.ids : m.ids[i] \in expired \/ records[m.ids[i]].name = files[i]
    BY <2>1 DEF IInv, ClientInv, SentFits, Named
  <2>4. m.up \notin meddled => DOMAIN m.ids = DOMAIN files
    BY <2>1, <2>2, <2>3
  <2>5. files = [i \in DOMAIN files |-> files[i]]
    BY <2>1
  <2>6. m.up \notin meddled =>
            [i \in DOMAIN m.ids |-> IF m.ids[i] \in expired THEN files[i]
                                    ELSE records[m.ids[i]].name] = [i \in DOMAIN files |-> files[i]]
    BY <2>3, <2>4
  <2> QED BY <2>1, <2>3, <2>5, <2>6
<1> QED BY <1>1, Invariance, PTL

=============================================================================
