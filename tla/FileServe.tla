----------------------------- MODULE FileServe -----------------------------
(***************************************************************************)
(* The files the user copies, served to the server.  The GUI thread keeps  *)
(* their list in clipboard_info_files_ (rdp-view-item.h); the channel      *)
(* thread describes the list and answers requests for sizes and ranges     *)
(* from it, without a lock (clipboard-entry.h, mini-qf-client.cc).  A      *)
(* request that cannot be met is returned as an error code, and an error   *)
(* code of a handler ends the session (ChannelHandler).                    *)
(***************************************************************************)
EXTENDS Integers, Sequences, FiniteSets, SequencesExt

CONSTANTS
    Files, Dirs,    \* what there is on the local disk
    Inside,         \* the entries of each directory
    Lengths,        \* the length of each file at the start
    Clips,          \* what the user may copy
    MaxCopies,      \* bound: copies he makes
    MaxLength,      \* bound: lengths a file may be given
    MaxEdits,       \* bound: edits of files
    Indices, Offsets, Counts,   \* what it may ask for
    Word,           \* unsigned 64-bit numbers are modulo Word
    PduMax          \* a PDU's length is below PduMax

Nodes == Files \cup Dirs
Urls(clip) == clip.urls

ASSUME FileServeAssumption ==
    /\ Files \cap Dirs = {}
    /\ Inside \in [Dirs -> Seq(Nodes)]
    /\ \A clip \in Clips : /\ clip.kind \in {"files", "links", "text"}
                           /\ clip.urls \in Seq(Nodes)
    /\ MaxCopies \in Nat /\ MaxEdits \in Nat
    /\ Indices \subseteq Nat /\ Offsets \subseteq Nat /\ Counts \subseteq Nat
    /\ Word \in Nat /\ MaxLength \in Nat /\ PduMax \in Nat
    /\ \A n \in Counts \cup Offsets \cup {MaxLength} : n < Word
    /\ Lengths \in [Files -> 0..MaxLength]

VARIABLES
    disk,       \* the files: length, version, and whether they have a name
    edits,      \* how many edits there have been
    copied,     \* what the user has copied so far
    infoFiles,  \* clipboard_info_files_
    changes,    \* how often it has been changed
    listed,     \* the copy it was cleared for
    guiPc,      \* dataChangedCallback
    todo,       \* the nodes it has still to look at
    announced,  \* the last copy of files the server was told of
    list,       \* the list of files the server has
    request,    \* what it asks for
    channelPc,  \* the channel thread
    seen,       \* "changes" when it took its reference into infoFiles
    handle,     \* the file it has opened
    wanted,     \* bytesToRead
    answer,     \* the last answer
    session     \* up, ended, crashed

local == <<disk, edits>>
gui == <<copied, infoFiles, changes, listed, guiPc, todo, announced>>
channel == <<channelPc, seen, handle, wanted>>
vars == <<local, gui, list, request, channel, answer, session>>

Ask(kind, index, offset, count) ==
    [kind |-> kind, index |-> index, offset |-> offset, count |-> count,
     copy |-> announced]
NoRequest == [kind |-> "none", index |-> 0, offset |-> 0, count |-> 0,
              copy |-> 0]

NoAnswer == [type |-> "none"]
Refused == [type |-> "refused"]
Unanswered == [type |-> "unanswered"]
Garbled == [type |-> "garbled"]
ListSent == [type |-> "list"]
Size(n) == [type |-> "size", size |-> n]
Piece(node, offset, count, version) ==
    [type |-> "piece", node |-> node, offset |-> offset, count |-> count,
     version |-> version]

Init ==
    /\ disk = [f \in Files |-> [length |-> Lengths[f], version |-> 0,
                                named |-> TRUE]]
    /\ edits = 0
    /\ copied = <<>> /\ infoFiles = <<>> /\ changes = 0 /\ listed = 0
    /\ guiPc = "idle" /\ todo = <<>> /\ announced = 0
    /\ list = [entries |-> <<>>, copy |-> 0, asked |-> 0, sound |-> FALSE]
    /\ request = NoRequest
    /\ channelPc = "idle" /\ seen = 0 /\ handle = "none" /\ wanted = 0
    /\ answer = NoAnswer
    /\ session = "up"

-----------------------------------------------------------------------------
(* Other programs: a file is written in place, or loses its name, which an  *)
(* open handle survives.                                                    *)

Edit ==
    /\ edits < MaxEdits
    /\ edits' = edits + 1
    /\ \E f \in Files :
          /\ disk[f].named
          /\ \/ \E n \in 0..MaxLength :
                   disk' = [disk EXCEPT ![f].length = n, ![f].version = @ + 1]
             \/ disk' = [disk EXCEPT ![f].named = FALSE, ![f].version = @ + 1]
    /\ UNCHANGED <<gui, list, request, channel, answer, session>>

-----------------------------------------------------------------------------
(* The GUI thread (dataChangedCallback).                                    *)

\* The user copies something.  Urls, of files or not, empty the list.
Copy ==
    /\ guiPc = "idle"
    /\ Len(copied) < MaxCopies
    /\ \E clip \in Clips :
          /\ copied' = Append(copied, clip)
          /\ \/ /\ clip.kind = "text"
                /\ UNCHANGED <<infoFiles, changes, listed, guiPc, todo>>
             \/ /\ clip.kind # "text"
                /\ infoFiles' = <<>>
                /\ changes' = changes + 1
                /\ listed' = Len(copied) + 1
                /\ todo' = Urls(clip)
                /\ guiPc' = "collect"
    /\ UNCHANGED <<local, announced, list, request, channel, answer, session>>

Entry(node) ==
    IF node \in Dirs
    THEN [node |-> node, dir |-> TRUE, total |-> 0, version |-> 0]
    ELSE [node |-> node, dir |-> FALSE, total |-> disk[node].length,
          version |-> disk[node].version]

Contained(node) == \E i \in DOMAIN infoFiles : infoFiles[i].node = node
Exists(node) == node \in Files => disk[node].named

\* Mutant: what is in the list already is listed again.
AppendAlways ==
    /\ guiPc = "collect" /\ todo # <<>>
    /\ LET node == Head(todo)
       IN  /\ IF Exists(node)
              THEN /\ infoFiles' = Append(infoFiles, Entry(node))
                   /\ changes' = changes + 1
              ELSE UNCHANGED <<infoFiles, changes>>
           /\ todo' = (IF node \in Dirs THEN Inside[node] ELSE <<>>)
                          \o Tail(todo)
    /\ UNCHANGED <<local, copied, listed, guiPc, announced, list, request,
                   channel, answer, session>>

\* appendClipboardInfoFile: a node that is not in the list yet is added, and a
\* directory's entries are looked at in either case.
AppendFile ==
    /\ guiPc = "collect" /\ todo # <<>>
    /\ LET node == Head(todo)
       IN  /\ IF Exists(node) /\ ~Contained(node)
              THEN /\ infoFiles' = Append(infoFiles, Entry(node))
                   /\ changes' = changes + 1
              ELSE UNCHANGED <<infoFiles, changes>>
           /\ todo' = (IF node \in Dirs THEN Inside[node] ELSE <<>>)
                          \o Tail(todo)
    /\ UNCHANGED <<local, copied, listed, guiPc, announced, list, request,
                   channel, answer, session>>

\* A list that stayed empty is not announced.
Announce ==
    /\ guiPc = "collect" /\ todo = <<>>
    /\ announced' = IF infoFiles = <<>> THEN announced ELSE listed
    /\ guiPc' = "idle"
    /\ UNCHANGED <<local, copied, infoFiles, changes, listed, todo, list,
                   request, channel, answer, session>>

-----------------------------------------------------------------------------
(* The server: one request at a time, once it has been told of files.       *)

ServerAsks ==
    /\ request = NoRequest
    /\ announced # 0
    /\ \/ request' = Ask("list", 0, 0, 0)
       \/ /\ list.copy # 0
          /\ \E index \in Indices :
                \/ \E kind \in {"size", "badSize", "neither"} :
                      request' = Ask(kind, index, 0, 0)
                \/ \E offset \in Offsets, count \in Counts :
                      request' = Ask("range", index, offset, count)
    /\ answer' = NoAnswer
    /\ UNCHANGED <<local, gui, list, channel, session>>

-----------------------------------------------------------------------------
(* The channel thread.                                                      *)

Answers(a) ==
    /\ answer' = a
    /\ request' = NoRequest
    /\ channelPc' = "idle" /\ seen' = 0 /\ handle' = "none" /\ wanted' = 0
    /\ UNCHANGED session

\* CB_RESPONSE_FAIL, or another error code, is returned instead of sent.
Fails == session' = "ended" /\ UNCHANGED <<answer, request, channel>>

Crashes == session' = "crashed" /\ UNCHANGED <<answer, request, channel>>

\* The handler goes on.
Proceeds(pc) == channelPc' = pc /\ UNCHANGED <<answer, request, session>>

\* The vector was changed while the channel thread held a reference into it.
Torn == changes # seen

\* qf_CliprdrServerFormatDataRequestCallBack, for CLIPBOARD_FORMAT_FILE.
\* There may be no mime data, and then there is no answer.
TakeListRequest ==
    /\ channelPc = "idle" /\ request.kind = "list"
    /\ \/ Answers(Unanswered)
       \/ /\ Last(copied).kind = "text" \/ infoFiles = <<>>
          /\ Answers(Refused)
       \/ /\ Last(copied).kind # "text" /\ infoFiles # <<>>
          /\ seen' = changes
          /\ Proceeds("describe")
          /\ UNCHANGED <<handle, wanted>>
    /\ UNCHANGED <<local, gui, list>>

\* What the server gets for its request: the entries, the copy the vector is
\* for by now, and the copy that was announced when it asked.
Description(entries, sound) ==
    [entries |-> entries, copy |-> listed, asked |-> request.copy,
     sound |-> sound]

\* The descriptors are filled from the vector and sent.
AnswerList ==
    /\ channelPc = "describe"
    /\ \/ /\ ~Torn
          /\ list' = Description(infoFiles, TRUE)
          /\ Answers(ListSent)
       \/ /\ Torn
          /\ list' = Description(<<>>, FALSE)
          /\ Answers(ListSent)
       \/ /\ Torn
          /\ Crashes
          /\ UNCHANGED list
    /\ UNCHANGED <<local, gui>>

\* cliprdr_read_file_contents_request, and server_file_contents_request up to
\* the reference to the entry.
TakeContentsRequest ==
    /\ channelPc = "idle" /\ request.kind \notin {"none", "list"}
    /\ \/ /\ \/ request.kind \in {"badSize", "neither"}
             \/ request.index >= Len(infoFiles)
          /\ Fails
       \/ /\ request.kind \in {"size", "range"}
          /\ request.index < Len(infoFiles)
          /\ seen' = changes
          /\ Proceeds(request.kind)
          /\ UNCHANGED <<handle, wanted>>
    /\ UNCHANGED <<local, gui, list>>

Referred == infoFiles[request.index + 1]

\* send_file_size
AnswerSize ==
    /\ channelPc = "size"
    /\ \/ ~Torn /\ Answers(Size(IF Referred.dir THEN 0 ELSE Referred.total))
       \/ Torn /\ (Answers(Garbled) \/ Crashes)
    /\ UNCHANGED <<local, gui, list>>

Openable(node) == node \in Files /\ disk[node].named

\* Mutant: a range that reaches past the end is out of range.
OpenWhole ==
    /\ channelPc = "range"
    /\ \/ /\ ~Torn
          /\ \/ Referred.dir
             \/ request.offset + request.count > Referred.total
             \/ ~Openable(Referred.node)
          /\ Fails
       \/ /\ ~Torn /\ ~Referred.dir
          /\ request.offset + request.count <= Referred.total
          /\ Openable(Referred.node)
          /\ handle' = Referred.node
          /\ Proceeds("opened")
          /\ UNCHANGED <<seen, wanted>>
       \/ Torn /\ (Answers(Garbled) \/ Fails \/ Crashes)
    /\ UNCHANGED <<local, gui, list>>

\* Mutant: a file that cannot be opened is not an error.
OpenOrForget ==
    /\ channelPc = "range"
    /\ \/ /\ ~Torn
          /\ Referred.dir \/ request.offset >= Referred.total
          /\ Fails
       \/ /\ ~Torn /\ ~Referred.dir /\ request.offset < Referred.total
          /\ ~Openable(Referred.node)
          /\ request' = [request EXCEPT !.kind = "none"]
          /\ channelPc' = "idle"
          /\ UNCHANGED <<seen, handle, wanted, answer, session>>
       \/ /\ ~Torn /\ ~Referred.dir /\ request.offset < Referred.total
          /\ Openable(Referred.node)
          /\ handle' = Referred.node
          /\ Proceeds("opened")
          /\ UNCHANGED <<seen, wanted>>
       \/ Torn /\ (Answers(Garbled) \/ Fails \/ Crashes)
    /\ UNCHANGED <<local, gui, list>>

\* send_file_range: the checks of the entry, open and seek.  A file may be
\* positioned past its end.
OpenRange ==
    /\ channelPc = "range"
    /\ \/ /\ ~Torn
          /\ \/ Referred.dir
             \/ request.offset >= Referred.total
             \/ ~Openable(Referred.node)
          /\ Fails
       \/ /\ ~Torn /\ ~Referred.dir /\ request.offset < Referred.total
          /\ Openable(Referred.node)
          /\ handle' = Referred.node
          /\ Proceeds("opened")
          /\ UNCHANGED <<seen, wanted>>
       \/ Torn /\ (Answers(Garbled) \/ Fails \/ Crashes)
    /\ UNCHANGED <<local, gui, list>>

Least(m, n) == IF m < n THEN m ELSE n

\* What is left of the file that is open; negative when it has shrunk.
Left == disk[handle].length - request.offset

\* Mutant: the difference is signed.
SizeSigned ==
    /\ channelPc = "opened"
    /\ wanted' = Least(Left, request.count)
    /\ Proceeds("sized")
    /\ UNCHANGED <<local, gui, list, seen, handle>>

\* bytesToRead, in unsigned arithmetic.
SizeRange ==
    /\ channelPc = "opened"
    /\ wanted' = Least(Left % Word, request.count)
    /\ Proceeds("sized")
    /\ UNCHANGED <<local, gui, list, seen, handle>>

\* Mutant: the file is read from its start.
ReadFromStart ==
    /\ channelPc = "sized"
    /\ \/ Left < wanted /\ wanted # 0 /\ Fails
       \/ /\ Left >= wanted \/ wanted = 0
          /\ \/ /\ 4 + wanted < PduMax
                /\ Answers(Piece(handle, 0, wanted,
                                 disk[handle].version))
             \/ 4 + wanted >= PduMax /\ (Answers(Garbled) \/ Crashes)
             \/ Torn /\ Crashes
    /\ UNCHANGED <<local, gui, list>>

\* The bytes are read and sent, unless there are fewer than there were.  The
\* entry's name is read once more, for the log, when they have been sent.
ReadRange ==
    /\ channelPc = "sized"
    /\ \/ Left < wanted /\ wanted # 0 /\ Fails
       \/ /\ Left >= wanted \/ wanted = 0
          /\ \/ /\ 4 + wanted < PduMax
                /\ Answers(Piece(handle, request.offset, wanted,
                                 disk[handle].version))
             \/ 4 + wanted >= PduMax /\ (Answers(Garbled) \/ Crashes)
             \/ Torn /\ Crashes
    /\ UNCHANGED <<local, gui, list>>

-----------------------------------------------------------------------------
Gui == AppendFile \/ Announce

Channel ==
    \/ TakeListRequest \/ AnswerList
    \/ TakeContentsRequest \/ AnswerSize
    \/ OpenRange \/ SizeRange \/ ReadRange

Next == session = "up" /\ (Edit \/ Copy \/ Gui \/ ServerAsks \/ Channel)

Spec == Init /\ [][Next]_vars

\* Both threads keep running; nobody else has to do anything.
FairSpec ==
    Spec /\ WF_vars(session = "up" /\ Channel) /\ WF_vars(session = "up" /\ Gui)

-----------------------------------------------------------------------------
EntryType == [node : Nodes, dir : BOOLEAN, total : 0..MaxLength,
              version : 0..MaxEdits]

\* The types of the variables; bytesToRead is unsigned.
TypeOK ==
    /\ disk \in [Files -> [length : 0..MaxLength, version : 0..MaxEdits,
                           named : BOOLEAN]]
    /\ edits \in 0..MaxEdits
    /\ copied \in Seq(Clips) /\ Len(copied) <= MaxCopies
    /\ infoFiles \in Seq(EntryType)
    /\ changes \in Nat /\ seen \in 0..changes
    /\ listed \in 0..Len(copied) /\ announced \in 0..listed
    /\ guiPc \in {"idle", "collect"} /\ todo \in Seq(Nodes)
    /\ list.entries \in Seq(EntryType)
    /\ list.copy \in 0..listed /\ list.asked \in 0..announced
    /\ list.sound \in BOOLEAN
    /\ request \in [kind : {"none", "list", "size", "badSize", "neither",
                            "range"},
                    index : Nat, offset : Nat, count : Nat,
                    copy : 0..announced]
    /\ channelPc \in {"idle", "describe", "size", "range", "opened", "sized"}
    /\ handle \in Files \cup {"none"}
    /\ wanted \in 0..(Word - 1)
    /\ session \in {"up", "ended", "crashed"}

\* The entry a request is about, in the list the server has.
InList(r) == list.sound /\ list.copy = r.copy /\ r.index < Len(list.entries)
Meant(r) == list.entries[r.index + 1]

\* A request that keeps within the list and the sizes the server was told.
Proper(r) ==
    \/ r.kind = "list"
    \/ InList(r) /\ r.kind = "size"
    \/ /\ InList(r) /\ r.kind = "range"
       /\ ~Meant(r).dir /\ r.offset < Meant(r).total
       /\ 4 + r.count < PduMax

Untouched(r) == r.kind # "range" \/ disk[Meant(r).node].version = Meant(r).version

\* The server loses the session over files only if it asks for what it was not
\* told of, or the user has copied other files or links since, or the file was
\* changed or removed: a server that reads within the sizes it was given, any
\* number of times and in any order, is never cut off (CB_RESPONSE_FAIL as the
\* code that server_file_contents_request returns).
SessionKept ==
    session # "up" /\ Proper(request) /\ listed = request.copy
    => ~Untouched(request)

\* While the list is the one the server was given, an answer is about the file
\* the server means: its size is the size in the list, its bytes are that
\* file's at the offset asked for, no more than asked for, and, of a file
\* nobody has changed, all there are (send_file_size, send_file_range).
AnswersMatchList ==
    [][/\ request # NoRequest /\ request' = NoRequest
       /\ InList(request) /\ listed = request.copy
       => CASE answer'.type = "size" ->
                 answer'.size = Meant(request).total
            [] answer'.type = "piece" ->
                 /\ answer'.node = Meant(request).node
                 /\ answer'.offset = request.offset
                 /\ answer'.count <= request.count
                 /\ answer'.version = Meant(request).version =>
                       answer'.count = Least(request.count,
                                             Meant(request).total
                                                 - request.offset)
            [] answer'.type = "garbled" -> ~Proper(request)
            [] OTHER -> TRUE]_vars

\* What the urls of a copy lead to.
Reachable(urls) ==
    {n \in Nodes : \A S \in SUBSET Nodes :
        /\ ToSet(urls) \subseteq S
        /\ \A d \in S \cap Dirs : ToSet(Inside[d]) \subseteq S
        => n \in S}

\* A list answers for the copy it was asked for: it has every file and directory
\* of that copy, however they overlap, exactly once, but what was removed
\* (appendClipboardInfoFile) -- unless the user has copied other files or links
\* since that copy was announced, and before the list is sent: nothing keeps the
\* threads apart.  Then the list may be the newer copy's, and half filled, yet
\* never with anything else or anything twice; or torn, and that may be sent too.
ListComplete ==
    list.copy # 0 =>
        LET named == {list.entries[i].node : i \in DOMAIN list.entries}
            all == Reachable(Urls(copied[list.copy]))
        IN  /\ list.sound => /\ named \subseteq all
                             /\ Len(list.entries) = Cardinality(named)
            /\ list.copy = list.asked =>
                  list.sound /\ \A n \in all : Exists(n) => n \in named

\* Every request is answered, or costs the session: none is left pending, which
\* would block the server's paste for ever (server_file_contents_request).  One
\* that asks for the list may be left without an answer, for want of mime data
\* (qf_CliprdrServerFormatDataRequestCallBack); no other.
AnsweredOrEnded ==
    /\ request.kind = "list" ~> answer # NoAnswer \/ session # "up"
    /\ request.kind \notin {"none", "list"}
       ~> answer \notin {NoAnswer, Unanswered} \/ session # "up"
=============================================================================
