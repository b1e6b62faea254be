# A verification project for qfreerdp

qfreerdp is a Qt/QML client for remote desktops on top of FreeRDP. Its own
logic is the clipboard: text, images and files go both ways between the local
clipboard and the server's, over FreeRDP's `cliprdr` channel, which the
repository carries in a copy of its own (`ref-tmp/cliprdr_*.c`) with its own
thread for the channel (`qf_channel_client_handler.c`). Four threads share that
state, with one mutex between them. This directory holds TLA+ models of it, the
TLC configurations that check them on small instances, and proofs that TLAPS
checks for every instance.

    tlc -workers 2 -config RemoteFilesSafety.cfg MCRemoteFiles.tla
    tlapm RemoteFilesProofs.tla

Every module named `...Proofs` is checked the same way.

`PROJECT.json` lists, for every definition, the lines of the source it stands
for, and for every run, property and theorem what it shows.

## 1. The system

### Threads

| thread | where it starts | what it runs |
| --- | --- | --- |
| GUI (main) | `main` | the Qt event loop; input, `dataChangedCallback`, queued `updateClipboard...FromRemote` calls; at the end `stop()` and the destructors |
| RDP | `rdp_loop_thread` | connect, event loop, disconnect; feeds chunks of the channel to `channel_client_post_message` |
| channel | `channel_client_thread_proc` | `cliprdr_order_recv` on every PDU of the server, and the callbacks of `mini-qf-client.cc` under it |
| download worker | `remote_file_worker_loop` | fetches the files the server copied, one request at a time |

### Components

| component | state | operations | what makes it correct |
| --- | --- | --- | --- |
| Remote file download (`clipboard_entry`, first half) | job queue, one pending response, batches and their counters, stopped flag | `enqueue_remote_file_list`, `server_file_contents_response`, worker loop, `publish_remote_batch`, destructor | an answer is never taken for another request's; a batch is published once, when its files are settled, in order; no lost wake-up; the worker can be stopped |
| Channel client handler | stream being filled, message queue, thread | `channel_client_create_handler`, `_post_message`, `_quit_handler`, the thread | PDUs are handled whole, in order, once; streams are freed once; an error ends the session; shutting down ends |
| cliprdr plugin | negotiated features, `capabilitiesReceived`, `initialFormatListSent` | PDU handlers and `cliprdr_client_*` calls from two threads | lists are written the way the server reads them; the last copy is the one announced; requests are answered |
| Remote clipboard to local | `requested_remote_format_id_/_name`, the GUI's queue, `m_clipboardDataFromRemote` | format list and data response callbacks, `updateClipboardDataFromRemote`, `updateClipboardFilesFromRemote` | the clipboards agree when nothing is under way; nothing older replaces something newer |
| Local files for the server (`clipboard_entry`, second half) | `clipboard_info_files_`, file context | `server_file_contents_request`, `send_file_size`, `send_file_range` | every request is answered; a bad one costs no more than itself |
| Session life cycle, plugin life cycle | `g_stopped`, instance, plugin, context pointers in the view | `rdp_loop_thread`, `stop`, `main`, `VirtualChannelEntryEx`, channel events | `stop()` returns; what was made is freed once; nobody uses what was freed |
| Mouse and keyboard | none of its own: what the server takes to be held, and where | `mouseEventScaleSend`, `wheelEvent`, `keyboardUnicodeEventSend`, `to_freerdp_key_code` | the server holds what the user holds; the pointer and the wheel go the way they do |
| Frames | frame image | `noop_end_paint`, `scale_frame`, `updateFrame` | the view shows the last frame |
| Data formats | none | `imageFromDib`, `safe_remote_relative_path`, list and descriptor codecs | what is written is what is read; no path leaves the batch root |

How they interact: the RDP thread hands streams to the channel thread through
`MessageQueue`; the channel thread hands data to the GUI thread by
`QMetaObject::invokeMethod(..., QueuedConnection)` and jobs to the worker
through `m_remote_jobs` and a condition variable; the worker hands paths to the
GUI thread the same way and sends requests by calling the plugin directly, as
does the GUI thread when the user copies something. The plugin's flags, the
`client_t` record and the clipboard's mime data are shared without a lock.

### What is hard here

The hazards are listed in `PROJECT.json` with their lines. In short: the lock of
the download covers the queue and the pending response but not a batch's
counter, nor the time between a request and its answer; the plugin's flags are
tested and set by two threads; one global remembers what format was asked for;
answers, queued calls and downloads of several copies mix; PDUs can be
unfinished, and whoever frees a stream depends on how the handler failed; the
session is torn down in one order and the objects that use it in another; the
files the user copied are described and read while he copies others; a key's
release is looked up by what the key is by then.

## 2. The modules

### `RemoteFiles`, `FileBatches`, `MCRemoteFiles`, `RemoteFilesProofs`, `RemoteFilesBatchProofs`

`RemoteFiles` is the download half of `clipboard-entry.h`. A critical section of
`m_remote_mutex` is one action. A wait on a condition variable is two steps, the
test of the predicate and falling asleep (`TakeJob`, `AwaitResponse`) being one
and a notification (`NotifyJobs`, `NotifyResponse`) the other, so a forgotten
notification shows. The worker's locals and its place in
`remote_file_worker_loop`, `download_remote_file`, `request_remote_size/range`,
`send_remote_file_request` and `wait_remote_response` are the variables
`workerPc`, `job`, `request`, `fileSize`, `offset` and `chunk`.

* The channel thread: `ReceiveEmptyList`, `ReceiveFileList` (a root that cannot
  be made, unsafe names, directories that cannot be made, the notification or
  the immediate publication) and `ReceiveContents`.
* The worker: `TakeJob`, `AskSize`, `AskRange`, `SendRequest`, `SendFailed`,
  `AwaitResponse`, `OpenFile`, `WriteChunk`, `SaveFile`, `AbandonFile`,
  `FinishJob`.
* The GUI thread: `ApplyPublished`. Shutting down: `Quit`, `Disconnect`,
  `FreeChannel`, `MainReturns`, `DestroyEntry`, `JoinWorker`.
* The server is external. It copies lists one after the other, answers a
  request with a failure, with nothing, or with what the list it holds *now*
  has at that index, once or several times, or not at all.

A payload is a record of where its bytes come from (`Data`), not the bytes;
`serial`, the number of the request it answers, exists in the model only and is
what the properties about stream ids are stated with. Names of files are their
top-level path and whether they are nested; `safe_remote_relative_path` is the
kind `"unsafe"`. Memory that is used after it was freed is recorded in
`danglingUse`, and the worker may go on or crash.

`FileBatches` is what the download promises: batches are accepted in order,
their files settled one at a time in the order of the lists, and a batch is
published once, after its last file. `RemoteFiles` implements it under the
mapping `Status`, `Outcome` (property `ImplementsBatches`, checked and proved).

### `ChannelHandler`, `MCChannelHandler`, `ChannelHandlerProofs`

`qf_channel_client_handler.c` and the way `cliprdr_order_recv` frees what it is
given. `channel_client_post_message` has one action for each way it ends:
`ChunkRefused`, `ChunkDropped`, `ChunkStored`, `PduMismatch`, `PduComplete`; the
thread is `TakeMessage`, `HandleMessage`, `ReportError`;
`channel_client_quit_handler` is `Disconnect` (the message to quit may not be
posted), `Join` and `WaitFails`. A server may leave a PDU unfinished (`Abandon`);
the stream is not reset when the next one begins, so bytes of both reach
`order_recv` as one, and fail if the PDU whose header comes first would. Every initial state
either has a thread or, with `THREADING_FLAGS_DISABLE_THREADS`, handles PDUs on
the spot. A byte is the pair of its PDU and its place, so what reaches the
handler can be compared with what was sent. A stream that has to grow may grow by
more than it needs, as `Stream_EnsureRemainingCapacity` may.

### `Cliprdr`, `MCCliprdr`, `CliprdrProofs`

From the local clipboard to the server: the server's capabilities, MonitorReady
with the client's capabilities and the initial empty list, the lists the GUI
thread sends when the user copies something (`Copy`, `CollectFiles`, `Offer`,
`SendOffer`) and the answers to the server's requests for data (`TakeRequest`,
`AnswerRequest`). The steps of the two threads interleave where the code has no
lock: between publishing the context, the capabilities, the test of
`initialFormatListSent` and each write on the channel. The channel thread reads
the mime data and the vector of files while the GUI thread may replace them
(`Torn`): the outcome is a crash, bytes of neither copy, or for an image no answer.
The other returns without an answer are in `NoAnswer` too: no mime data
(`NoMimeData`), an image that cannot be read or encoded. Text is read through
a pointer into a destroyed string, so its answer may carry `Garbage`.

The server is external: it reads a list with long names exactly if both
capability PDUs that came before it announced them.

### `RemoteClipboard`, `MCRemoteClipboard`, `RemoteClipboardProofs`

From the server to the local clipboard: the formats of a list whose names can
be read (`Named`; a server with short names never offers files), the choice of
one of them (`Chosen`), the single `requested` format, answers, which are taken
for that format (`ReceiveData`), the queue of calls to the view, and
`updateClipboardDataFromRemote`, which the user's own copies race with
(`UserCopies`). The download is a queue of batches here, each of which reaches
the view or not. Both directions of the channel are sequences, in order and
without loss, as they are on TCP. `crossed` and `filesAsked` are histories, for
the two cases in which the clipboards may part.

### `FileServe`, `MCFileServe`, `FileServeProofs`

The other half of `clipboard-entry.h`: the files the user copies. The GUI thread
empties `clipboard_info_files_` and fills it node by node (`Copy`, `AppendFile`,
`Announce`); `todo` is the stack of the recursion into directories. The channel
thread describes the list (`TakeListRequest`, `AnswerList`) and answers sizes
and ranges (`TakeContentsRequest`, `AnswerSize`, `OpenRange`, `SizeRange`,
`ReadRange`) with no lock between them: it takes its reference into the vector
in one step and uses it in later ones, and a change in between (`changes # seen`)
makes the outcome a crash, garbage or an answer torn out of two lists. A list
carries the copy that was announced when the server asked (`asked`), the copy the
vector was for when the answer was made (`copy`), and whether it is in one piece
(`sound`); `ListComplete` says what follows from these. Other
programs write a file in place or remove its name, which an open handle
survives. `bytesToRead` is an unsigned difference, modulo `Word`. A range longer
than a PDU's 32-bit length (`PduMax`) overflows the packet. What
`server_file_contents_request` returns as an error code ends the session, as
`ChannelHandler` shows.

### `Session`, `MCSession`, `SessionProofs`

`main()`, its event loop and `stop()`; the RDP thread through
`rdp_loop_thread`; the plugin through `VirtualChannelEntryEx` and the
connected, disconnected and terminated events. Every call that the code tests
may fail (`Failures`). FreeRDP is external, so the order of `PostConnect` and
the connection of the channel is left open, and so is whether the plugin is
terminated by `freerdp_disconnect` or by `freerdp_context_free`. An event
handler's test of a context pointer and its use of it are two steps
(`CheckContext`, `UseContext`), with the RDP thread in between; what is used
when it is not there may crash. When the channel is disconnected, the message to
quit may not be posted, the wait for the thread may fail and the channel may not
close (`QuitHandler`, `CloseChannel`); a thread that was given up goes on by itself
(`ChannelQuits`), and when it works on what was freed, anything may follow
(`ChannelStrays`).

### `Input`, `MCInput`, `InputProofs`

What the server takes to be held, and where it takes the pointer to be, against
what the user does. The key table is a function of the symbol Qt reports and the
keypad flag (`ScanCode`), which falls back on the character (`Code`); the symbol
depends on the modifiers held (Shift, AltGr) and on the locks and the layout
(`setting`) at the moment of the event (`CodeNow`), so the press and the release
of one key may be different symbols. Qt delivers an auto-repeat as a release and a
press, and the view sends both (`RepeatRelease`, `KeyRepeat`); nothing else of the
keyboard comes in between. A position is multiplied as a
`uint32_t` (`Word`) and cut to 16 bits (`Half`); the conversion of a negative one
is undefined and gives either outcome. The wheel has the nine bits of the
protocol, unscaled. Qt itself (focus, grabs, which events there are) is
external. Keyboard and mouse share nothing in the code, so a behaviour uses one
of them (`device`).

## 3. What is checked

| run | result | instance |
| --- | --- | --- |
| `RemoteFilesSafety` | passes | two copies: a file of two ranges, an unsafe name, a nested file whose last range is past `PosMax`; then a file of one range in a directory, which may fail to be made. Every request answered by up to two copies of any answer. Ids wrap after six requests of the nine a session makes. |
| `RemoteFilesLive` | passes | a file, an empty list, a list of directories that overtakes it |
| `RemoteFilesShutdown` | `NoUseAfterDestroy` violated | the same lists |
| `ChannelHandler` | passes | five PDUs of 1 to 4 bytes in every division into chunks, one failing and one malformed, up to two unfinished, up to two failing allocations or waits, with and without a thread |
| `Cliprdr` | passes | servers with all features, with short names only, or silent; two copies of all five kinds; two requests; the second copy cannot be encoded |
| `CliprdrInitialList` | `LateInitialListIgnored` violated | as above, one request |
| `CliprdrFeatures` | `NoUnsupportedFeature` violated | as above, one request |
| `RemoteClipboard` | passes | three copies on the server among eight sets of formats, two of the user's, long and short names |
| `RemoteClipboardGarbled` | `NeverGarbled` violated | two copies |
| `FileServe` | passes | two copies among a file, a directory, both at once, links and text; two files, one of them empty; one edit; indices 0 and 1, offsets 0 to 2, counts 2 and 3 |
| `Session` | passes | every call may fail, at any time, those of the teardown included; the server leaves or falls silent; the user quits |
| `Input` | passes | six keys (a letter with a character on AltGr, Tab, both Shifts, keypad, AltGr, which has no code), NumLock or another layout without it, three buttons, three held at once; a view of 4 on a desktop of 6; turns on both sides of 255 and 512 |

What the properties say is written above each of them in the modules. The ones
to know:

* **Download.** `NoForeignResponse`: what is waiting in `m_pending` and what the
  worker writes answers the worker's last request, unless a whole turn of ids
  lies between. `RemainingCounts`: the counter equals the number of files of the
  batch that are queued or in hand, although it is counted down without the
  lock. `PublishedOnceComplete`: a batch is published after its last file, once,
  and batches with files to fetch in the order of their lists; one all of whose
  files need a directory that cannot be made has nothing to fetch, and may
  overtake. `SavedFileFaithful`,
  `NoLostWakeup`; `AcceptedIsApplied` and `DestroyReturns` under fairness.
* **Channel handler.** `HandledExactly`: what is handled is in the order sent, once,
  each a whole PDU, unless it begins with one the server left unfinished: then
  bytes of the next follow. None is missing while nothing was left unfinished and
  no error was reported, and nothing is handled by the thread after a failure.
  `FreedExactlyOnce`, `OutlivesThread`
  (a run in which the request to quit cannot be posted is the only one in which
  the thread outlives `internals`); `QueuedIsHandled`, `FailureEndsSession`,
  `QuitReturns` (whether or not the wait fails) under fairness.
* **Plugin.** `NamesAgreed` holds although the GUI thread may write a list in
  the middle of the exchange: until the client's capabilities are out the flag
  is the server's, and the channel thread, which clears it, is the only one that
  publishes the context. `LastCopyAnnounced`: the flag that silences late
  initial lists never silences a copy. `RefusedOnlyIfGone`; `RequestsAnswered`, but
  for the returns without an answer, which are named.
* **Both clipboards.** `ClipboardsAgree` and `LastCopyArrives`: however fast both
  users copy texts and images, in the end the last copy is on both sides and is
  sound, because each list is asked for and answered in order and the last
  answer is decoded by the last request. There are two exceptions, and no other:
  files were asked for, whose download a later text overtakes; or the user
  copied while an answer was on its way, which replaces his copy although the
  server has given its clipboard up. `DataArrivesInOrder`: applying text or an
  image never goes back in time.
* **Files for the server.** `ListComplete`: however copies overlap (a file and the
  directory it is in), each node is listed once, and a list is whole if the user
  has not copied again since the copy it was asked for was announced. If he has,
  the list may be the newer copy's, half filled, or torn. `AnswersMatchList`: as
  long as the list is the one the server has, answers are about the file it means,
  although requests carry nothing but an index. `SessionKept`: a server that reads
  within the sizes it was told is cut off only if the file, or the list, was
  changed under it. `AnsweredOrEnded`: no request for sizes or ranges stays without
  either, and one for the list only for want of mime data.
* **Session.** `OnlySilenceBlocksStop`: `stop()` returns, unless the loop waits in
  `WaitForMultipleObjects` and nothing ever comes (`g_stopped` does not wake it), or
  a channel thread that was given up brings the process down.
  `UsesWhatIsThere`: while connected the pointers of the view are good; they are
  used after they dangle only once a session has ended by itself under a running
  GUI, or before there was one. `OwnersOutliveThreads`: the channel thread is gone
  before plugin and context are, unless the message to quit could not be posted or
  the wait for it failed; `ChannelHandler` shows the same from inside the handler.
  `ReleasedOnce`, `LostSessionEnds`.
* **Input.** `ServerHoldsTheSame` says when a key may stick: its press or release
  was not seen (focus, no context), another key of the same code was released, or
  Shift, AltGr, a lock or the layout changes its code; and that the server lets go
  of a key between the two events of its auto-repeat. `DragFollows`,
  `WheelKeepsDirection`.

### Bounds

Two lists are what order, overtaking and a stale index need; two ranges are what
an offset needs, and a third what `PosMax` needs. Two copies of an answer are
what a duplicate needs, and the model sends them at once since the channel keeps
their order. Ids modulo 7 wrap within a session. Five PDUs cover a failing and
an unfinished one before and after good ones. Two local copies are what the
initial list can be confused with and what can be hidden, and a third adds only
repetitions (the run was also done with three). Three copies on the server
let an answer, a queued call and a list of three different copies be under way
together. A second copy of the user's is what can replace the list of files that
is being served; one edit, at any moment, what can make an entry stale; offsets
and counts reach past both lengths a file has, and 16 is far above them, so an
unsigned difference that went below zero shows. Three keys held are two Shifts, or
Shift and AltGr, and a key. A desktop of 6 on a view of 4 makes positions that are rounded, and
-1 and 4 lie outside on either side. The `MC` modules give the values; bounds
are in the guards, never in a state constraint.

A deadlock is checked in the download, the channel handler and the input, whose
models have explicit ends or none; a session may end for good, and copies are
bounded, in the others.

### Fairness

Each thread that can take a step takes one in the end: the worker, the channel
thread and the event loop are loops that do not stop by themselves. A server
that is asked answers (`AcceptedIsApplied`, `LastCopyArrives`): the worker's
wait has no timeout, so a server that never answers stops all downloads, and
that hazard has no property. Nothing is assumed about the user, about when a
session ends, or about the server sending anything else. A channel error makes
the RDP loop disconnect, because FreeRDP checks it in
`freerdp_check_event_handles`. In `Session` every call of FreeRDP returns but
the two waits: the one for events, which returns only when a handle is signalled,
and the one for the channel thread, which comes to its end when it has handled what
is queued; that a wait fails is possible, and never relied on (`Waits`). In `FileServe` the two
threads run, and the server need not ask for anything.

### Where the code does not do what is said of it

* `RemoteFilesShutdown`. `main` returns after `stop()` has freed the plugin, and
  the engine destroys the view; only the destructor of a static object stops the
  worker, which may send through the freed context or post to the dead view.
* `CliprdrInitialList`. Between the test of `initialFormatListSent` and the
  write, the GUI thread can announce a copy; the empty list then follows and
  withdraws it.
* `CliprdrFeatures`. Without server capabilities the comment says that flags of
  zero are assumed, and the code sets `fileClipNoFilePaths` to `TRUE`.
* `RemoteClipboardGarbled`. Bytes of an image that was asked for before are put
  on the local clipboard as text when a newer list was seen in between; the next
  answer repairs it.

Known gaps that have no run of their own; only of the moves of the mouse does the
repository say otherwise:

* An answer with text is read from a destroyed temporary
  (`mini-qf-client.cc:390`), which the model has as a nondeterministic outcome.
* Files that finish downloading late replace a text copied after them; an answer
  under way replaces what the user copied in the meantime; a copy made before
  MonitorReady is never announced. With short format names, 15
  characters, neither side recognises the other's files.
* `stop()`, and so the exit of the program, waits for as long as the server is
  silent. After a session has ended by itself, the next key, click or local copy
  uses the freed context or plugin.
* A PDU that the server leaves unfinished is not discarded when the next one begins
  (`qf_channel_client_handler.c:161-167`): bytes of both are handed over as one.
* When the message to quit cannot be posted, or the wait fails
  (`qf_channel_client_handler.c:235-241`), plugin and context are freed while the
  channel thread may still use them.
* A request for data may be left without an answer: no mime data
  (`mini-qf-client.cc:357-361`), an image that cannot be encoded or that was replaced
  in the middle (400-404, 425-429).
* The list of files may be torn or half filled when the user copies again while the
  server asks for it, and is sent as it is; nothing locks `clipboard_info_files_`.
* A downloaded file whose last bytes cannot be flushed when it is closed
  (`clipboard-entry.h:372`) is published all the same; the model writes at once.
* A file that was removed, or a directory asked for a range, ends the session
  instead of failing one request (`clipboard-entry.h:118`).
* Both Shift keys, and the right and middle buttons, are one to the server, so
  the release of one releases both. A notch down of 120 arrives as 136, and more
  than 255 up arrives as down. A key held while Shift, AltGr, NumLock or the layout
  changes its code stays pressed on the server.
* Moves without a button are hover events, which the view asks for and does not
  handle (`MouseMove`): the server's pointer stays behind until the next click,
  although `README.md:7` says that mouse movement is forwarded.
* When `cliprdr_file_context_init` fails (`mini-qf-client.cc:569`) the callbacks for
  file contents stay unset while file streams are announced. Format lists of the
  server get no response PDU. `appendClipboardInfoFile` follows links to
  directories, so a cycle of links has no end; the model's disk has none.

## 4. What is proved

The runs show the properties on small instances; the theorems, for every value
of the constants that satisfies the module's assumptions: all lists of files, all
lengths of PDUs, any number of copies and requests, every keyboard and view.
Every invariant and every action property of a passing run is a theorem, and so is
the refinement; what is left to TLC is liveness. Each `...Proofs` module begins with its inductive invariant
in named parts, has a lemma for each part that says every step keeps it, and ends
with the theorems. Each of these invariants was an invariant of a TLC run before
it was proved.

| module | inductive invariant | theorems |
| --- | --- | --- |
| `RemoteFilesProofs` | `IndInv` | `TypeCorrect`, `ResponsesMatch` (`NoForeignResponse`), `WorkerIsWoken` (`NoLostWakeup`) |
| `RemoteFilesBatchProofs` | `BatchInv`, `SavedInv` | `CountersAgree` (`RemainingCounts`), `BatchesComplete` (`PublishedOnceComplete`), `Implements` (`ImplementsBatches`), `SavedFaithfully` (`SavedFileFaithful`) |
| `ChannelHandlerProofs` | `HandlerInv` | `TypeCorrect`, `HandledWhole` (`HandledExactly`), `FreedOnce` (`FreedExactlyOnce`), `Outlives` (`OutlivesThread`) |
| `CliprdrProofs` | `CliprdrInv` | `TypeCorrect`, `SameNames` (`NamesAgreed`), `LastCopy` (`LastCopyAnnounced`), `RefusedWhenGone` (`RefusedOnlyIfGone`) |
| `RemoteClipboardProofs` | `ClipboardInv` | `TypeCorrect`, `Agreement` (`ClipboardsAgree`), `InOrder` (`DataArrivesInOrder`) |
| `FileServeProofs` | `ServeInv` | `TypeCorrect`, `NotCutOff` (`SessionKept`), `WholeList` (`ListComplete`), `FaithfulAnswers` (`AnswersMatchList`) |
| `SessionProofs` | `IndInv` | `TypeCorrect`, `NothingLeaks` (`ReleasedOnce`), `ThreadsAreJoined` (`OwnersOutliveThreads`), `PointersHold` (`UsesWhatIsThere`) |
| `InputProofs` | `InputInv` | `TypeCorrect`, `PointerFollows` (`DragFollows`), `WheelTurnsAlike` (`WheelKeepsDirection`), `HeldAgrees` (`ServerHoldsTheSame`) |

### Why the invariants are needed

* **Download, answers.** An id in the inbox says nothing about where the payload
  came from. `IdsInv` adds that every payload, in the inbox or kept in
  `m_pending`, sits under the stream id of its own request, and `WorkerInv` that
  `requests` is the serial number of `request` and that what the server has still
  to answer is one of the requests made. By `StreamIdReused`, equal ids mean the
  same request or a distance of at least `IdMod - 1`; it comes from
  `EqualRemainders`, which the solver cannot find by itself since it is about
  products. `NoLostWakeup` is inductive with the types: the predicate becomes true
  only in actions that notify.
* **Download, batches.** The counter is counted up under the lock and down without
  it, so `RemainingCounts` must know that the file in hand is not also queued
  (`OrderInv`: jobs are in the order of the lists, behind the one in hand), that a
  batch that is being accepted has none yet (`ListsInv`: lists under way are newer
  than accepted ones), and how many jobs a list adds (`NewJobsCounted`). That a
  batch is complete when its counter reaches zero needs `DiskInv`: only the file in
  hand is half-written. The order of publication needs that a published batch
  precedes what is still to be fetched (`PublishedInv`).
* **Download, files.** `PayloadInv`: a payload with the serial number of the last
  request says what was asked for, out of a list no older than the file's own, since
  a job is queued only after its list was received. `WrittenInv`: the ranges written
  follow one another and end at `offset`, where the next one is asked for. A range is
  taken only at its full length, so a file that has come to `fileSize` is complete;
  and if the server still holds the file's own list, all its ranges are of that list.
  This needs `requests < IdMod`: past that an old answer may match again.
* **Refinement.** `BatchesStep` takes every action of `RemoteFiles` to a step of
  `FileBatches`: accepting a list to `AcceptsBatch`, `FinishJob` to `SettlesJob`,
  the last one and a list without jobs to `FinishesBatch`; all others change
  neither `Status` nor `Outcome` (`SameOutcome`), which is where `DiskInv` is
  needed again.
* **Channel handler.** `OwnedInv` says that a stream is in exactly one place:
  `data_in`, the queue, the thread's hands, freed or lost. `DataInv` relates what
  is in `data_in` to what was sent and to what was left unfinished, `OrderInv` orders handled, held and queued PDUs
  by their numbers, and `CompleteInv` counts them: the PDU at the i-th place of the
  queue is the one that many behind those taken. `QuitInv`: nothing follows the
  request to quit in the queue.
* **Plugin.** `Opening` is the protocol of the first exchange: until MonitorReady the
  client has written nothing and the GUI thread is kept out by the context that is
  not published. `Names` says that from then on long names are in all lists or in
  none, although the flag is written by one thread and read by two; `Lists` ties the
  GUI thread's place to what it has collected and what was written, and `Settled`
  says when the last list is the last copy's.
* **Both clipboards.** `OrderInv` is the age of everything under way: answers,
  queued calls, batches and the clipboard, each no later than what is behind it.
  `CopyInv` says where the server's last copy is: its list, the request for it, the
  answer, the queued call, or the clipboard. `OwnInv` says what protects a copy of
  the user's. `ClipboardsAgree` is then the case where all queues are empty.
* **Files for the server.** `PrefixInv`: until the user copies something else, the
  server's list is the beginning of the vector. `EntriesInv`: an entry tells what
  the file was at its version. `CollectInv`: whatever a copy leads to is in the
  vector, still to be looked at or gone, nothing twice and nothing else; it replaces
  an induction over the tree by one over the steps. `RangeInv` carries what was
  tested when the file was opened to the step in which it is read.
* **Session.** Each part says, for a place of the RDP thread or of `main`, what is
  allocated, registered, connected and published. An invariant of what is freed
  alone is not inductive, since what a failed call jumps to depends on where it
  failed.
* **Input.** `ServerHoldsTheSame` is inductive with the types: what an auto-repeat
  takes from the server is owed (`Owed`) until it is pressed again. `PointerInv` adds
  to `DragFollows` that no button is known to the server before there is a context. The arithmetic of `mouseEventScaleSend` is exact as
  long as the product of view and desktop fits a `uint32_t` and the desktop 16 bits
  (`InputAssumption`).

### What the proofs are under

The assumptions are those that each module names and TLC evaluates: lists are
finite sequences of entries, `ChunkSize > 0`, `IdMod > 2`, lengths of PDUs are not
zero, keys are not buttons, and so on. `HeldAgrees` alone has a premise of its own,
`OthersKeepTheirCode`: no modifier, lock or layout changes the code of a key outside
`Changing`. It says
what `Changing` means, the run's keyboard satisfies it, and without it a key would
be expected to stay whose release is another code. FreeRDP, Qt and the server may do
all that the models allow them.

### What the proofs found

* `PublishedOnceComplete` was not true for every list: a list of files all of which
  are in a directory that cannot be made has no job, is published at once, and may
  overtake an older one. No instance had such a list. `HasJobs` now speaks of what
  is fetched, and the second list of `TwoCopies` is one.
* Completeness in `HandledExactly` is not inductive unless nothing is posted after
  the request to quit (`QuitInv`).
* A button that is a twin of another was defined by the symbols of keys, which have
  no meaning for it, and a key could have been a button: `Twins` and
  `InputAssumption` say so now.
* `SavedFileFaithful` added up the lengths of the ranges recursively, about which
  nothing can be proved for every input. It now says the same without a sum: each
  range begins where the one before it ends (`Contiguous`, `End`). TLC finds the two
  forms equal in every state of the run.
* `ChannelHandler` listed freed streams in a sequence. It counts them per stream now
  (`frees`), which says the same and can be reasoned about.

### Only model-checked

Liveness, which needs fairness: `DestroyReturns`, `AcceptedIsApplied`,
`FailureEndsSession`, `QuitReturns`, `QueuedIsHandled`, `RequestsAnswered`,
`LastCopyArrives`, `AnsweredOrEnded`, `OnlySilenceBlocksStop`, `LostSessionEnds`.

## 5. What is not modelled

* Frames: `noop_end_paint` copies the whole image and queues it, whatever region
  `scale_frame` computes; two threads share nothing but the copy.
* The codecs of `cliprdr_common.c` but for what long and short names make of a
  list, the checks of a file contents request and the length of its answer; the
  DIB header of `imageFromDib` and display names. They are functions of their
  input, without state. Logging, QML, build files.
* In `Cliprdr`: locks and the temporary directory, which the program does not
  use; the feature mask, which the program sets to allow everything (so the
  filter of `cliprdr_process_format_list` passes all); failures of writes on the
  channel. In `ChannelHandler`: suspend and resume chunks, which change nothing, and
  what the handler makes of a mixture of two PDUs, which is that of the first.
  In `RemoteClipboard`: a user's copy of nothing the program can offer. In
  `FileServe`: the flags of FreeRDP's file context. In `Input`: the second axis, the locks' own keys (a setting changes by itself), and
  failures to send.

## 6. Plan

Done, in order of importance: the download and its abstract promise, the channel
handler, the plugin's outgoing half, the incoming half, the files that are
served, the session, the input; then the proofs of all their safety properties
and of the refinement of `FileBatches`. Next:

1. Abstract promises of the other components (a channel that hands over whole PDUs
   in order; a clipboard that holds the last copy), implemented as `FileBatches` is,
   and those refinements proved from `HandlerInv` and `ClipboardInv`.
2. Stronger safety properties that the invariants already carry, where a reader would
   look for them: where the server's last copy is (`CopyInv`), and that a stream is in
   one place (`OwnedInv`).
3. Frames and the data formats as pure operators.
