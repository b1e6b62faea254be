---------------------------- MODULE RemoteFiles ----------------------------
(***************************************************************************)
(* The download half of qf::clipboard_entry (clipboard-entry.h): files     *)
(* that the server put on its clipboard are fetched by one worker thread   *)
(* and, a whole copied list at a time, handed to the view.                 *)
(*                                                                         *)
(* Four threads take part:                                                 *)
(*   - the channel thread runs the handlers of PDUs from the server, in    *)
(*     the order the channel delivers them (variable inbox);               *)
(*   - the worker thread (workerPc) takes jobs and asks for their contents *)
(*     one request at a time;                                              *)
(*   - the GUI thread applies the lists the worker publishes;              *)
(*   - the main thread leaves the event loop, waits for the session to be  *)
(*     torn down and destroys the clipboard_entry.                         *)
(*                                                                         *)
(* Every critical section of m_remote_mutex is one action.  A wait on a    *)
(* condition variable is two: the thread finds its predicate false and     *)
(* sleeps, and only a notification sends it back to re-evaluate it.        *)
(***************************************************************************)
EXTENDS Integers, Sequences, FiniteSets

CONSTANTS
    Listings,   \* Listings[g] is the file list of the server's g-th copy
    ChunkSize,  \* bytes asked for in one range request (64 KiB in the code)
    PosMax,     \* largest end position of a range request (UINT32_MAX)
    IdMod,      \* stream ids are counted modulo this (2^32 in the code)
    MaxCopies   \* how many times the server may answer one request

Kinds == {"file", "dir", "unsafe"}

Entry == [kind : Kinds, size : Nat, top : STRING, nested : BOOLEAN]

ASSUME ListingsAssumption == Listings \in Seq(Seq(Entry))
ASSUME SizesAssumption == /\ ChunkSize \in Nat \ {0}
                          /\ PosMax \in Nat
                          /\ IdMod \in Nat /\ IdMod > 2
                          /\ MaxCopies \in Nat \ {0}

Batches == DOMAIN Listings

\* A job is named by its batch and its index in the list of that batch.
Files == UNION {{g} \X (DOMAIN Listings[g]) : g \in Batches}

EntryOf(f) == Listings[f[1]][f[2]]

Smaller(a, b) == IF a < b THEN a ELSE b

VARIABLES
    serverGen,     \* the list the server's clipboard holds now
    inbox,         \* PDUs the channel thread has not handled yet
    toServer,      \* the FILECONTENTS_REQUEST on its way, or NoRequest
    channel,       \* "up", "closed" (writes fail), "freed" (plugin freed)
    mainPc,        \* where the main thread is
    workerPc,      \* where the worker thread is
    remoteJobs,    \* m_remote_jobs
    remoteContext, \* m_remote_context # nullptr
    remoteStopped, \* m_remote_stopped
    pending,       \* m_pending
    requests,      \* number of requests made; gives m_next_stream_id
    job, request, fileSize, offset, chunk,   \* locals of the worker
    remaining,     \* remote_file_batch::remaining
    accepted,      \* batches whose root directory was made
    madeDirs,      \* top-level directories made below a batch root
    disk,          \* the local copy of each file
    published,     \* batches posted to the view, in order
    applied,       \* how many of them the GUI thread has handled
    clipboard,     \* the batch and paths of the local clipboard's URLs
    danglingUse    \* objects used after they were destroyed

workerLocals == <<job, request, fileSize, offset, chunk>>
batchVars    == <<remaining, accepted, madeDirs>>
guiVars      == <<applied, clipboard>>
vars == <<serverGen, inbox, toServer, channel, mainPc, workerPc, remoteJobs,
          remoteContext, remoteStopped, pending, requests, workerLocals,
          batchVars, disk, published, guiVars, danglingUse>>

-----------------------------------------------------------------------------
(* Stream ids: m_next_stream_id++ on 32 bits, skipping 0.  The n-th request *)
(* gets StreamId(n): 1, 2, ..., IdMod-1, 1, ...                             *)

\* Mutants: 0 is not skipped; the counter is not advanced.
StreamIdZero(n) == n % IdMod
StreamIdFixed(n) == 1

StreamId(n) == 1 + ((n - 1) % (IdMod - 1))

\* What a payload stands for: len bytes from position off of entry index of
\* list gen, or (len = 8) the size of that entry; serial names the request.
Data == [len : Nat, gen : Nat, index : Nat, off : Nat, size : Nat, serial : Nat]

NoData == [len |-> 0, gen |-> 0, index |-> 0, off |-> 0, size |-> 0, serial |-> 0]

SizeBytes == 8   \* sizeof(uint64_t)

\* What the channel thread receives: a file list or a FILECONTENTS_RESPONSE.
Pdu == [type : {"list"}, gen : Batches] \cup
       [type : {"contents"}, id : 1..(IdMod - 1), ok : BOOLEAN, data : Data]

Request == [serial : Nat, kind : {"none", "size", "range"}, index : Nat,
            off : Nat, len : Nat]

NoRequest == [serial |-> 0, kind |-> "none", index |-> 0, off |-> 0, len |-> 0]

PendingResponse == [active : BOOLEAN, ready : BOOLEAN, ok : BOOLEAN,
                    id : 0..(IdMod - 1), data : Data]

NoPending == [active |-> FALSE, ready |-> FALSE, ok |-> FALSE, id |-> 0,
              data |-> NoData]

LocalFile == [state : {"absent", "partial", "saved"}, chunks : Seq(Data),
              savedAt : Nat]

Absent == [state |-> "absent", chunks |-> <<>>, savedAt |-> 0]

NoFile == <<0, 0>>

Init ==
    /\ serverGen = 0
    /\ inbox = <<>>
    /\ toServer = NoRequest
    /\ channel = "up"
    /\ mainPc = "exec"
    /\ workerPc = "none"
    /\ remoteJobs = <<>>
    /\ remoteContext = FALSE
    /\ remoteStopped = FALSE
    /\ pending = NoPending
    /\ requests = 0
    /\ job = NoFile
    /\ request = NoRequest
    /\ fileSize = 0
    /\ offset = 0
    /\ chunk = NoData
    /\ remaining = [g \in Batches |-> 0]
    /\ accepted = {}
    /\ madeDirs = {}
    /\ disk = [f \in Files |-> Absent]
    /\ published = <<>>
    /\ applied = 0
    /\ clipboard = [batch |-> 0, paths |-> {}]
    /\ danglingUse = {}

-----------------------------------------------------------------------------
(* The server (external).  Copying a new list replaces the old one; the    *)
(* list reaches the client through the same ordered channel as responses.  *)

ServerCopy ==
    /\ channel = "up"
    /\ serverGen < Len(Listings)
    /\ serverGen' = serverGen + 1
    /\ inbox' = Append(inbox, [type |-> "list", gen |-> serverGen + 1])
    /\ UNCHANGED <<toServer, channel, mainPc, workerPc, remoteJobs,
                   remoteContext, remoteStopped, pending, requests,
                   workerLocals, batchVars, disk, published, guiVars,
                   danglingUse>>

IsServerFile(index) ==
    /\ serverGen \in Batches
    /\ index \in DOMAIN Listings[serverGen]
    /\ Listings[serverGen][index].kind # "dir"

\* The payload of a correct answer to r by the list the server holds now.
Content(r) ==
    LET size == Listings[serverGen][r.index].size
    IN IF r.kind = "size"
       THEN [len |-> SizeBytes, gen |-> serverGen, index |-> r.index, off |-> 0,
             size |-> size, serial |-> r.serial]
       ELSE [len |-> Smaller(r.len, size - r.off), gen |-> serverGen,
             index |-> r.index, off |-> r.off, size |-> 0, serial |-> r.serial]

CanRead(r) ==
    /\ IsServerFile(r.index)
    /\ r.kind = "range" => r.off < Listings[serverGen][r.index].size

\* CB_RESPONSE_FAIL, an OK answer without its data, or the correct answer.
Responses(r) ==
    LET response(ok, data) == [type |-> "contents", id |-> StreamId(r.serial),
                               ok |-> ok, data |-> data]
    IN {response(FALSE, NoData), response(TRUE, NoData)} \cup
       (IF CanRead(r) THEN {response(TRUE, Content(r))} ELSE {})

ServerAnswer ==
    /\ channel = "up"
    /\ toServer # NoRequest
    /\ toServer' = NoRequest
    /\ \E response \in Responses(toServer), copies \in 1..MaxCopies :
          inbox' = inbox \o [i \in 1..copies |-> response]
    /\ UNCHANGED <<serverGen, channel, mainPc, workerPc, remoteJobs,
                   remoteContext, remoteStopped, pending, requests,
                   workerLocals, batchVars, disk, published, guiVars,
                   danglingUse>>

-----------------------------------------------------------------------------
(* The channel thread: enqueue_remote_file_list and                        *)
(* server_file_contents_response.                                          *)

TopPaths(g) == {e.top : e \in {x \in {Listings[g][i] : i \in DOMAIN Listings[g]} :
                                x.kind # "unsafe"}}

\* start_remote_file_worker: the thread is created once and never restarted.
Started(pc) == IF pc = "none" THEN "take" ELSE pc

\* Mutant: the notification is forgotten.
NotifyNobody(pc) == pc

\* m_remote_cv.notify_one and m_remote_response_cv.notify_one.
NotifyJobs(pc)     == IF pc = "sleepJobs" THEN "take" ELSE pc
NotifyResponse(pc) == IF pc = "sleepResponse" THEN "wait" ELSE pc

\* publish_remote_batch posts a call to the view; once main has returned the
\* view the pointer leads to no longer exists.
Publish(g) ==
    IF TopPaths(g) = {}
    THEN UNCHANGED <<published, danglingUse>>
    ELSE IF mainPc \in {"returned", "joining"}
    THEN /\ danglingUse' = danglingUse \cup {"view"}
         /\ UNCHANGED published
    ELSE /\ published' = Append(published, g)
         /\ UNCHANGED danglingUse

\* The jobs for the entries S of batch g, in the order of the list.
InListOrder(g, S) ==
    {q \in [1..Cardinality(S) -> {g} \X S] :
        \A i, j \in DOMAIN q : i < j => q[i][2] < q[j][2]}

\* Entries for which a directory has to be made below the batch root.
NeedsDir(g) == {i \in DOMAIN Listings[g] :
                    \/ Listings[g][i].kind = "dir"
                    \/ Listings[g][i].kind = "file" /\ Listings[g][i].nested}

\* Mutant: a file is counted before its directory is made.
EnqueueCountingFailed(g, failed) ==
    LET files == {i \in DOMAIN Listings[g] : Listings[g][i].kind = "file"}
    IN /\ \E new \in InListOrder(g, files \ failed) :
              remoteJobs' = remoteJobs \o new
       /\ remaining' = [remaining EXCEPT ![g] = Cardinality(files)]
       /\ accepted' = accepted \cup {g}
       /\ madeDirs' = madeDirs \cup
                      {<<g, Listings[g][i].top>> : i \in NeedsDir(g) \ failed}
       /\ workerPc' = NotifyJobs(Started(workerPc))
       /\ UNCHANGED <<published, danglingUse>>

EnqueueList(g, failed) ==
    LET files == {i \in DOMAIN Listings[g] :
                      Listings[g][i].kind = "file" /\ i \notin failed}
    IN /\ \E new \in InListOrder(g, files) : remoteJobs' = remoteJobs \o new
       /\ remaining' = [remaining EXCEPT ![g] = Cardinality(files)]
       /\ accepted' = accepted \cup {g}
       /\ madeDirs' = madeDirs \cup
                      {<<g, Listings[g][i].top>> : i \in NeedsDir(g) \ failed}
       /\ IF files = {}
          THEN /\ Publish(g)
               /\ workerPc' = Started(workerPc)
          ELSE /\ workerPc' = NotifyJobs(Started(workerPc))
               /\ UNCHANGED <<published, danglingUse>>

NextPdu(type) ==
    /\ channel = "up"
    /\ inbox # <<>>
    /\ Head(inbox).type = type
    /\ inbox' = Tail(inbox)

\* files.empty(): nothing happens, not even the worker is started.
ReceiveEmptyList ==
    /\ NextPdu("list")
    /\ Listings[Head(inbox).gen] = <<>>
    /\ UNCHANGED <<serverGen, toServer, channel, mainPc, workerPc, remoteJobs,
                   remoteContext, remoteStopped, pending, requests,
                   workerLocals, batchVars, disk, published, guiVars,
                   danglingUse>>

\* The list is queued unless its root directory cannot be made; entries with
\* an unsafe name, and those whose directory cannot be made, are skipped.
ReceiveFileList ==
    /\ NextPdu("list")
    /\ LET g == Head(inbox).gen
       IN /\ Listings[g] # <<>>
          /\ \/ /\ workerPc' = Started(workerPc)
                /\ UNCHANGED <<remoteJobs, batchVars, published, danglingUse>>
             \/ \E failed \in SUBSET NeedsDir(g) : EnqueueList(g, failed)
    /\ remoteContext' = TRUE
    /\ remoteStopped' = (workerPc # "none" /\ remoteStopped)
    /\ UNCHANGED <<serverGen, toServer, channel, mainPc, pending, requests,
                   workerLocals, disk, guiVars>>

\* Mutant: the stream id of a response is not compared.
ReceiveAnyContents ==
    /\ NextPdu("contents")
    /\ LET response == Head(inbox)
       IN IF pending.active
          THEN /\ pending' = [pending EXCEPT !.ready = TRUE, !.ok = response.ok,
                                             !.data = response.data]
               /\ workerPc' = NotifyResponse(workerPc)
          ELSE UNCHANGED <<pending, workerPc>>
    /\ UNCHANGED <<serverGen, toServer, channel, mainPc, remoteJobs,
                   remoteContext, remoteStopped, requests, workerLocals,
                   batchVars, disk, published, guiVars, danglingUse>>

\* A response that nobody waits for is dropped; any other one is stored, again
\* if the server repeats it, and the worker is notified.
ReceiveContents ==
    /\ NextPdu("contents")
    /\ LET response == Head(inbox)
       IN IF pending.active /\ response.id = pending.id
          THEN /\ pending' = [pending EXCEPT
                                !.ready = TRUE, !.ok = response.ok,
                                !.data = IF response.ok THEN response.data
                                                        ELSE NoData]
               /\ workerPc' = NotifyResponse(workerPc)
          ELSE UNCHANGED <<pending, workerPc>>
    /\ UNCHANGED <<serverGen, toServer, channel, mainPc, remoteJobs,
                   remoteContext, remoteStopped, requests, workerLocals,
                   batchVars, disk, published, guiVars, danglingUse>>

-----------------------------------------------------------------------------
(* The worker thread: remote_file_worker_loop and what it calls.           *)

\* What the worker's steps leave alone.
peerVars == <<serverGen, inbox, channel, mainPc, remoteContext, remoteStopped,
              accepted, madeDirs, guiVars>>

\* Mutant: the newest job is taken first.
TakeNewest ==
    /\ workerPc = "take"
    /\ \/ /\ remoteStopped
          /\ workerPc' = "exited"
          /\ UNCHANGED <<remoteJobs, job>>
       \/ /\ ~remoteStopped /\ remoteJobs # <<>>
          /\ job' = remoteJobs[Len(remoteJobs)]
          /\ remoteJobs' = SubSeq(remoteJobs, 1, Len(remoteJobs) - 1)
          /\ workerPc' = "askSize"
       \/ /\ ~remoteStopped /\ remoteJobs = <<>>
          /\ workerPc' = "sleepJobs"
          /\ UNCHANGED <<remoteJobs, job>>
    /\ UNCHANGED <<peerVars, toServer, pending, requests, request, fileSize,
                   offset, chunk, remaining, disk, published, danglingUse>>

\* m_remote_cv.wait and the job taken under the lock; a job taken without a
\* context is dropped.
TakeJob ==
    /\ workerPc = "take"
    /\ \/ /\ remoteStopped
          /\ workerPc' = "exited"
          /\ UNCHANGED <<remoteJobs, job>>
       \/ /\ ~remoteStopped /\ remoteJobs # <<>>
          /\ job' = Head(remoteJobs)
          /\ remoteJobs' = Tail(remoteJobs)
          /\ workerPc' = IF remoteContext THEN "askSize" ELSE "take"
       \/ /\ ~remoteStopped /\ remoteJobs = <<>>
          /\ workerPc' = "sleepJobs"
          /\ UNCHANGED <<remoteJobs, job>>
    /\ UNCHANGED <<peerVars, toServer, pending, requests, request, fileSize,
                   offset, chunk, remaining, disk, published, danglingUse>>

\* next_remote_stream_id, then the locked part of send_remote_file_request.
NewRequest(r) ==
    /\ requests' = requests + 1
    /\ request' = r
    /\ pending' = [NoPending EXCEPT !.active = TRUE, !.id = StreamId(r.serial)]
    /\ workerPc' = "send"
    /\ UNCHANGED <<peerVars, toServer, remoteJobs, job, fileSize, offset, chunk,
                   remaining, disk, published, danglingUse>>

AskSize ==
    /\ workerPc = "askSize"
    /\ NewRequest([serial |-> requests + 1, kind |-> "size", index |-> job[2],
                   off |-> 0, len |-> SizeBytes])

AskRange ==
    /\ workerPc = "nextRange"
    /\ offset < fileSize
    /\ NewRequest([serial |-> requests + 1, kind |-> "range", index |-> job[2],
                   off |-> offset, len |-> Smaller(ChunkSize, fileSize - offset)])

\* ClientFileContentsRequest, called without the lock.  It refuses positions
\* past 32 bits (huge files are never negotiated), writes can fail, always do
\* once the channel is closed, and nothing is defined once it is freed.
SendRequest ==
    /\ workerPc = "send"
    /\ \/ /\ channel = "up"
          /\ request.off + request.len <= PosMax
          /\ toServer' = request
          /\ workerPc' = "wait"
          /\ UNCHANGED danglingUse
       \/ /\ channel \in {"up", "closed"}
          /\ workerPc' = "sendFailed"
          /\ UNCHANGED <<toServer, danglingUse>>
       \/ /\ channel = "freed"
          /\ danglingUse' = danglingUse \cup {"channel"}
          /\ workerPc' \in {"wait", "sendFailed", "crashed"}
          /\ UNCHANGED toServer
    /\ UNCHANGED <<peerVars, remoteJobs, pending, requests, workerLocals,
                   remaining, disk, published>>

\* Mutant: the answer to a request that was not sent is waited for.
SendFailedWaits ==
    /\ workerPc = "sendFailed"
    /\ workerPc' = "wait"
    /\ UNCHANGED <<peerVars, toServer, remoteJobs, pending, requests,
                   workerLocals, remaining, disk, published, danglingUse>>

SendFailed ==
    /\ workerPc = "sendFailed"
    /\ pending' = NoPending
    /\ workerPc' = "abandon"
    /\ UNCHANGED <<peerVars, toServer, remoteJobs, requests, workerLocals,
                   remaining, disk, published, danglingUse>>

ResponseReady == pending.ready /\ pending.id = StreamId(request.serial)

\* wait_remote_response, with the checks its two callers make of the length.
AwaitResponse ==
    /\ workerPc = "wait"
    /\ \/ /\ ~(remoteStopped \/ ResponseReady)
          /\ workerPc' = "sleepResponse"
          /\ UNCHANGED <<pending, fileSize, chunk>>
       \/ /\ remoteStopped \/ (ResponseReady /\ ~pending.ok)
          /\ pending' = NoPending
          /\ workerPc' = "abandon"
          /\ UNCHANGED <<fileSize, chunk>>
       \/ /\ ~remoteStopped /\ ResponseReady /\ pending.ok
          /\ pending' = NoPending
          /\ \/ /\ request.kind = "size" /\ pending.data.len >= SizeBytes
                /\ fileSize' = pending.data.size
                /\ workerPc' = "openFile"
                /\ UNCHANGED chunk
             \/ /\ request.kind = "range" /\ pending.data.len = request.len
                /\ chunk' = pending.data
                /\ workerPc' = "writeChunk"
                /\ UNCHANGED fileSize
             \/ /\ IF request.kind = "size" THEN pending.data.len < SizeBytes
                                            ELSE pending.data.len # request.len
                /\ workerPc' = "abandon"
                /\ UNCHANGED <<fileSize, chunk>>
    /\ UNCHANGED <<peerVars, toServer, remoteJobs, requests, job, request,
                   offset, remaining, disk, published, danglingUse>>

\* The local file is created only once its size is known.
OpenFile ==
    /\ workerPc = "openFile"
    /\ offset' = 0
    /\ \/ /\ disk' = [disk EXCEPT ![job] = [Absent EXCEPT !.state = "partial"]]
          /\ workerPc' = "nextRange"
       \/ /\ workerPc' = "jobDone"
          /\ UNCHANGED disk
    /\ UNCHANGED <<peerVars, toServer, remoteJobs, pending, requests, job,
                   request, fileSize, chunk, remaining, published, danglingUse>>

WriteChunk ==
    /\ workerPc = "writeChunk"
    /\ \/ /\ disk' = [disk EXCEPT ![job].chunks = Append(@, chunk)]
          /\ offset' = offset + chunk.len
          /\ workerPc' = "nextRange"
       \/ /\ workerPc' = "abandon"
          /\ UNCHANGED <<disk, offset>>
    /\ UNCHANGED <<peerVars, toServer, remoteJobs, pending, requests, job,
                   request, fileSize, chunk, remaining, published, danglingUse>>

\* Every byte announced has been written: the file is kept.
SaveFile ==
    /\ workerPc = "nextRange"
    /\ offset >= fileSize
    /\ disk' = [disk EXCEPT ![job].state = "saved", ![job].savedAt = serverGen]
    /\ workerPc' = "jobDone"
    /\ UNCHANGED <<peerVars, toServer, remoteJobs, pending, requests,
                   workerLocals, remaining, published, danglingUse>>

\* Mutant: a failed request is repeated until it succeeds.
AbandonRetries ==
    /\ workerPc = "abandon"
    /\ workerPc' = "send"
    /\ UNCHANGED <<peerVars, toServer, remoteJobs, pending, requests,
                   workerLocals, remaining, disk, published, danglingUse>>

\* The error returns of download_remote_file: once the file is open it is
\* closed and removed.
AbandonFile ==
    /\ workerPc = "abandon"
    /\ disk' = IF request.kind = "range" THEN [disk EXCEPT ![job] = Absent]
                                         ELSE disk
    /\ workerPc' = "jobDone"
    /\ UNCHANGED <<peerVars, toServer, remoteJobs, pending, requests,
                   workerLocals, remaining, published, danglingUse>>

\* Mutant: published when one file is still to be fetched.
FinishJobEarly ==
    /\ workerPc = "jobDone"
    /\ remaining' = [remaining EXCEPT ![job[1]] = @ - 1]
    /\ IF remaining'[job[1]] <= 1 THEN Publish(job[1])
                                  ELSE UNCHANGED <<published, danglingUse>>
    /\ workerPc' = "take"
    /\ UNCHANGED <<peerVars, toServer, remoteJobs, pending, requests,
                   workerLocals, disk>>

\* download_remote_file has returned; the last file of a batch publishes it.
FinishJob ==
    /\ workerPc = "jobDone"
    /\ remaining' = [remaining EXCEPT ![job[1]] = @ - 1]
    /\ IF remaining'[job[1]] = 0 THEN Publish(job[1])
                                 ELSE UNCHANGED <<published, danglingUse>>
    /\ workerPc' \in IF danglingUse' = danglingUse THEN {"take"}
                                                 ELSE {"take", "crashed"}
    /\ UNCHANGED <<peerVars, toServer, remoteJobs, pending, requests,
                   workerLocals, disk>>

Worker == TakeJob \/ AskSize \/ AskRange \/ SendRequest \/ SendFailed
          \/ AwaitResponse \/ OpenFile \/ WriteChunk \/ SaveFile \/ AbandonFile
          \/ FinishJob

-----------------------------------------------------------------------------
(* The GUI thread: updateClipboardFilesFromRemote, queued by Publish.       *)

\* The top paths of batch g that exist when the GUI thread looks.
ExistingPaths(g) ==
    {d[2] : d \in {x \in madeDirs : x[1] = g}} \cup
    {EntryOf(f).top : f \in {x \in Files : /\ x[1] = g
                                           /\ ~EntryOf(x).nested
                                           /\ disk[x].state # "absent"}}

ApplyPublished ==
    /\ mainPc = "exec"
    /\ applied < Len(published)
    /\ applied' = applied + 1
    /\ LET g == published[applied + 1]
       IN clipboard' = IF ExistingPaths(g) = {} THEN clipboard
                       ELSE [batch |-> g, paths |-> ExistingPaths(g)]
    /\ UNCHANGED <<serverGen, inbox, toServer, channel, mainPc, workerPc,
                   remoteJobs, remoteContext, remoteStopped, pending, requests,
                   workerLocals, batchVars, disk, published, danglingUse>>

-----------------------------------------------------------------------------
(* Shutdown.  The session can end by itself or because main stops it; either *)
(* way the RDP thread closes the channel, which joins the channel thread,    *)
(* and then frees it.  The worker belongs to g_clipboard_entry, a static     *)
(* object that is destroyed only after main has returned.                    *)

shutdownUnchanged == <<serverGen, remoteJobs, remoteContext, requests,
                       workerLocals, batchVars, disk, published, guiVars,
                       danglingUse>>

Quit ==
    /\ mainPc = "exec"
    /\ mainPc' = "stopping"
    /\ UNCHANGED <<shutdownUnchanged, inbox, toServer, channel, workerPc,
                   remoteStopped, pending>>

Disconnect ==
    /\ channel = "up"
    /\ channel' = "closed"
    /\ inbox' = <<>>
    /\ toServer' = NoRequest
    /\ UNCHANGED <<shutdownUnchanged, mainPc, workerPc, remoteStopped, pending>>

FreeChannel ==
    /\ channel = "closed"
    /\ channel' = "freed"
    /\ UNCHANGED <<shutdownUnchanged, inbox, toServer, mainPc, workerPc,
                   remoteStopped, pending>>

\* stop() has joined the RDP thread; the QML engine, and the view in it, go
\* with main's locals.
MainReturns ==
    /\ mainPc = "stopping"
    /\ channel = "freed"
    /\ mainPc' = "returned"
    /\ UNCHANGED <<shutdownUnchanged, inbox, toServer, channel, workerPc,
                   remoteStopped, pending>>

\* ~clipboard_entry, up to the join in stop_remote_file_worker.
DestroyEntry ==
    /\ mainPc = "returned"
    /\ mainPc' = "joining"
    /\ remoteStopped' = TRUE
    /\ pending' = [pending EXCEPT !.ready = TRUE]
    /\ workerPc' = NotifyResponse(NotifyJobs(workerPc))
    /\ UNCHANGED <<shutdownUnchanged, inbox, toServer, channel>>

JoinWorker ==
    /\ mainPc = "joining"
    /\ workerPc \in {"none", "exited"}
    /\ mainPc' = "done"
    /\ UNCHANGED <<shutdownUnchanged, inbox, toServer, channel, workerPc,
                   remoteStopped, pending>>

\* The process is over, or a use of freed memory has brought it down.
Finished ==
    /\ mainPc = "done" \/ workerPc = "crashed"
    /\ UNCHANGED vars

Server   == ServerCopy \/ ServerAnswer
Channel  == ReceiveEmptyList \/ ReceiveFileList \/ ReceiveContents
Shutdown == Quit \/ Disconnect \/ FreeChannel \/ MainReturns \/ DestroyEntry
            \/ JoinWorker

Next ==
    \/ /\ workerPc # "crashed"
       /\ Server \/ Channel \/ Worker \/ ApplyPublished \/ Shutdown
    \/ Finished

Spec == Init /\ [][Next]_vars

\* Threads that can run do run; a server that is asked answers.  Nothing is
\* assumed of what ends a session.
Fairness ==
    /\ WF_vars(workerPc # "crashed" /\ Channel)
    /\ WF_vars(Worker)
    /\ WF_vars(workerPc # "crashed" /\ ApplyPublished)
    /\ WF_vars(workerPc # "crashed" /\ ServerAnswer)
    /\ WF_vars(workerPc # "crashed" /\ JoinWorker)

FairSpec == Spec /\ Fairness

-----------------------------------------------------------------------------
(* Properties.                                                              *)

ChannelTypes ==
    /\ serverGen \in 0..Len(Listings)
    /\ inbox \in Seq(Pdu)
    /\ toServer \in Request
    /\ channel \in {"up", "closed", "freed"}
    /\ mainPc \in {"exec", "stopping", "returned", "joining", "done"}
    /\ pending \in PendingResponse

WorkerTypes ==
    /\ workerPc \in {"none", "take", "sleepJobs", "askSize", "send",
                     "sendFailed", "wait", "sleepResponse", "openFile",
                     "nextRange", "writeChunk", "abandon", "jobDone",
                     "exited", "crashed"}
    /\ remoteJobs \in Seq(Files)
    /\ remoteContext \in BOOLEAN /\ remoteStopped \in BOOLEAN
    /\ requests \in Nat
    /\ job \in Files \cup {NoFile}
    /\ request \in Request
    /\ fileSize \in Nat /\ offset \in Nat
    /\ chunk \in Data

BatchTypes ==
    /\ remaining \in [Batches -> Int]
    /\ accepted \subseteq Batches
    /\ madeDirs \subseteq Batches \X STRING
    /\ disk \in [Files -> LocalFile]
    /\ published \in Seq(Batches)
    /\ applied \in Nat
    /\ clipboard \in [batch : 0..Len(Listings), paths : SUBSET STRING]
    /\ danglingUse \subseteq {"view", "channel"}

\* Every variable has its type; in particular 0 is never a stream id.
TypeOK == ChannelTypes /\ WorkerTypes /\ BatchTypes

Queued == {remoteJobs[i] : i \in DOMAIN remoteJobs}

\* Points of the worker loop where it holds a job whose batch it has not
\* counted down yet.
Busy == workerPc \in {"askSize", "send", "sendFailed", "wait", "sleepResponse",
                      "openFile", "nextRange", "writeChunk", "abandon",
                      "jobDone"}

Outstanding(g) == {f \in Files : f[1] = g /\ (f \in Queued \/ (Busy /\ f = job))}

\* remote_file_batch::remaining, which is counted up under the lock and down
\* without it, is always the number of files of the batch still to be fetched,
\* so the last one and no other publishes the batch.
RemainingCounts ==
    workerPc # "crashed" =>
        \A g \in Batches : remaining[g] = Cardinality(Outstanding(g))

\* A file of the list was queued: one at the top level needs no directory and
\* always is, and one that is saved was.
HasJobs(g) ==
    \E f \in Files : /\ f[1] = g /\ EntryOf(f).kind = "file"
                     /\ ~EntryOf(f).nested \/ disk[f].state = "saved"

\* A list reaches the view once at the most, and not before each of its files
\* has been either fetched completely or given up: a half-written file is never
\* put on the local clipboard.  Lists with files to fetch reach it in the order
\* the server copied them, so that the newest ends up on the local clipboard; a
\* list all of whose directories failed has none, and may overtake another.
PublishedOnceComplete ==
    /\ \A i, j \in DOMAIN published : published[i] = published[j] => i = j
    /\ \A i \in DOMAIN published : \A f \in Files :
          f[1] = published[i] =>
             disk[f].state # "partial" /\ f \notin Queued /\ ~(Busy /\ f = job)
    /\ \A i, j \in DOMAIN published :
          i < j /\ HasJobs(published[i]) /\ HasJobs(published[j]) =>
             published[i] < published[j]

Names(d) == d.len > 0

\* d answers the current request, or one whose stream id was last in use a
\* whole turn of the counter ago.
AnswersRequest(d) == d.serial = requests \/ requests - d.serial >= IdMod - 1

\* The response that wait_remote_response hands out answers the request the
\* worker is waiting for, however late or often the server answers older ones
\* and whichever requests failed to be sent: only a stream id that has come
\* round again can be mistaken.
NoForeignResponse ==
    /\ pending.active /\ Names(pending.data) => AnswersRequest(pending.data)
    /\ workerPc = "writeChunk" => AnswersRequest(chunk)

\* Ranges that were written one after the other, from the start of the file on,
\* and where the last of them ends.
Contiguous(c) ==
    \A i \in DOMAIN c :
        c[i].off = IF i = 1 THEN 0 ELSE c[i - 1].off + c[i - 1].len
End(c) == IF c = <<>> THEN 0 ELSE c[Len(c)].off + c[Len(c)].len

\* A file that is kept has every byte of the size that was announced, in order
\* and without a gap; and when the server has held one list from the copy on
\* until the end of the download they are the bytes of the entry asked for.
SavedFileFaithful ==
    requests < IdMod =>
    \A f \in Files : disk[f].state = "saved" =>
        LET c == disk[f].chunks
        IN /\ Contiguous(c) /\ \A i \in DOMAIN c : c[i].index = f[2]
           /\ disk[f].savedAt = f[1] =>
                 /\ \A i \in DOMAIN c : c[i].gen = f[1]
                 /\ End(c) = EntryOf(f).size

\* A sleeping worker has nothing to do: no job and no response waits for it,
\* and nobody has told it to stop.
NoLostWakeup ==
    /\ workerPc = "sleepJobs" => remoteJobs = <<>> /\ ~remoteStopped
    /\ workerPc = "sleepResponse" => ~ResponseReady /\ ~remoteStopped

\* While the session lasts, every list that was accepted and names a path is
\* handed to the view, and the view handles it, whatever the server answers.
AcceptedIsApplied ==
    \A g \in Batches :
        g \in accepted /\ TopPaths(g) # {} ~>
            \/ \E i \in 1..applied : published[i] = g
            \/ channel # "up" \/ mainPc # "exec"

\* ~clipboard_entry returns: the worker sees m_remote_stopped wherever it is
\* and the join ends.
DestroyReturns == mainPc = "joining" ~> mainPc = "done" \/ workerPc = "crashed"

\* The abstract batches: what a list and a file of it have come to.
FetchFiles == {f \in Files : EntryOf(f).kind = "file"}

Status == [g \in Batches |->
              IF \E i \in DOMAIN published : published[i] = g THEN "published"
              ELSE IF g \in accepted THEN "open" ELSE "none"]

Outcome == [f \in FetchFiles |->
               IF disk[f].state = "saved" THEN "saved"
               ELSE IF f \in Queued \/ (Busy /\ workerPc # "jobDone" /\ f = job)
               THEN "pending" ELSE "failed"]

Promise == INSTANCE FileBatches WITH Files <- FetchFiles, status <- Status,
                                     outcome <- Outcome

\* The threads, with everything the server may answer, implement the batches:
\* files are fetched in order and settled once, a batch is published once and
\* only when all its files are settled.
ImplementsBatches == Promise!Spec

\* Shutdown leaves no thread behind that still uses what it destroys.
NoUseAfterDestroy == danglingUse = {}

=============================================================================
