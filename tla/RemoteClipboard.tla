-------------------------- MODULE RemoteClipboard --------------------------
(***************************************************************************)
(* The clipboard from the server to the local clipboard.  The channel      *)
(* thread asks for one format of every list the server sends and remembers *)
(* it in one global; what comes back goes to the local clipboard through   *)
(* the GUI's queue, or, for files, through the download worker of          *)
(* RemoteFiles, which is seen here as a queue of batches.                  *)
(* (mini-qf-client.cc, cliprdr_format.c, rdp-view-item.h)                  *)
(***************************************************************************)
EXTENDS Integers, Sequences, FiniteSets

CONSTANTS
    Contents,       \* what may be copied on the server: sets of formats
    MaxCopies,      \* bound: copies made on the server
    MaxUserCopies   \* bound: copies made locally

Formats == {"CF_UNICODETEXT", "PNG", "CF_DIB", "CF_DIBV5",
            "FileGroupDescriptorW", "Other"}

ASSUME RemoteClipboardAssumption ==
    /\ Contents \subseteq (SUBSET Formats) \ {{}}
    /\ MaxCopies \in Nat /\ MaxUserCopies \in Nat

VARIABLES
    serverCopy,   \* how many copies have been made on the server
    content,      \* the formats its clipboard has; {}: the client owns it
    longNames,    \* useLongFormatNames, as agreed before (Cliprdr)
    toClient,     \* PDUs the channel thread has not handled
    toServer,     \* PDUs the server has not handled
    requested,    \* requested_remote_format_id_ and _name
    batches,      \* remote files being downloaded: the copies they are of
    guiQueue,     \* queued calls of the RdpViewItem
    clipboard,    \* the local clipboard
    userCopies,   \* how many copies the user has made
    crossed,      \* history: something was on its way to the local clipboard
                  \* when the user last copied
    filesAsked    \* history: files of the server have been asked for

server == <<serverCopy, content, longNames>>
user == <<userCopies, crossed>>
vars == <<server, toClient, toServer, requested, batches, guiQueue, clipboard,
          user, filesAsked>>

List(formats) == [type |-> "list", formats |-> formats]
Request(format) == [type |-> "request", format |-> format]
Data(format, copy) == [type |-> "data", format |-> format, copy |-> copy]
Refusal == [type |-> "refusal"]
UserList == [type |-> "list"]

\* What the local clipboard holds: the server's copy, decoded as a format, or
\* the user's own, made when the server had made that many copies.
Holds(origin, copy, sound) == [origin |-> origin, copy |-> copy, sound |-> sound]

Init ==
    /\ serverCopy = 0 /\ content = {} /\ longNames \in BOOLEAN
    /\ toClient = <<>> /\ toServer = <<>>
    /\ requested = "none"
    /\ batches = <<>> /\ guiQueue = <<>>
    /\ clipboard = Holds("user", 0, TRUE)
    /\ userCopies = 0 /\ crossed = FALSE
    /\ filesAsked = FALSE

-----------------------------------------------------------------------------
(* The server: it announces every copy, answers with what it has when the   *)
(* request arrives, and gives its clipboard up to the client's.             *)

ServerCopies ==
    /\ serverCopy < MaxCopies
    /\ serverCopy' = serverCopy + 1
    /\ \E formats \in Contents :
          /\ content' = formats
          /\ toClient' = Append(toClient, List(formats))
    /\ UNCHANGED <<longNames, toServer, requested, batches, guiQueue, clipboard,
                   user, filesAsked>>

ServerAnswers ==
    /\ toServer # <<>>
    /\ Head(toServer).type = "request"
    /\ LET format == Head(toServer).format
       IN  toClient' = Append(toClient, IF format \in content
                                        THEN Data(format, serverCopy)
                                        ELSE Refusal)
    /\ toServer' = Tail(toServer)
    /\ UNCHANGED <<server, requested, batches, guiQueue, clipboard, user,
                   filesAsked>>

ServerGivesUp ==
    /\ toServer # <<>>
    /\ Head(toServer).type = "list"
    /\ content' = {}
    /\ toServer' = Tail(toServer)
    /\ UNCHANGED <<serverCopy, longNames, toClient, requested, batches,
                   guiQueue, clipboard, user, filesAsked>>

-----------------------------------------------------------------------------
(* The channel thread.                                                      *)

\* The formats whose names cliprdr_read_format_list understands: a short name is
\* a block of 16 characters, and "FileGroupDescriptorW" has 20.  The standard
\* formats go by their numbers.
Named(formats) == IF longNames THEN formats ELSE formats \ {"FileGroupDescriptorW"}

\* Mutant: a list of no supported format is asked for all the same.
ChosenAny(formats) == formats

\* The formats qf_CliprdrServerFormatListCallBack may ask for: text first,
\* then whichever of a PNG or the files the list names first, then bitmaps.
Chosen(formats) ==
    LET named == formats \cap {"PNG", "FileGroupDescriptorW"}
    IN  CASE "CF_UNICODETEXT" \in formats -> {"CF_UNICODETEXT"}
          [] "CF_UNICODETEXT" \notin formats /\ named # {} -> named
          [] OTHER -> IF "CF_DIBV5" \in formats THEN {"CF_DIBV5"}
                      ELSE formats \cap {"CF_DIB"}

Outstanding == requested # "none" /\
    \/ \E i \in DOMAIN toServer : toServer[i].type = "request"
    \/ \E i \in DOMAIN toClient : toClient[i].type # "list"

\* Mutant: a list that arrives while a request is under way is ignored.
ReceiveListIfFree ==
    /\ toClient # <<>>
    /\ Head(toClient).type = "list"
    /\ toClient' = Tail(toClient)
    /\ LET chosen == IF Outstanding THEN {} ELSE Chosen(Named(Head(toClient).formats))
       IN  \/ /\ chosen = {}
              /\ UNCHANGED <<requested, toServer>>
           \/ \E format \in chosen :
                 /\ requested' = format
                 /\ toServer' = Append(toServer, Request(format))
    /\ filesAsked' = (filesAsked \/ requested' = "FileGroupDescriptorW")
    /\ UNCHANGED <<server, batches, guiQueue, clipboard, user>>

\* cliprdr_process_format_list and its callback.
ReceiveList ==
    /\ toClient # <<>>
    /\ Head(toClient).type = "list"
    /\ toClient' = Tail(toClient)
    /\ LET chosen == Chosen(Named(Head(toClient).formats))
       IN  \/ /\ chosen = {}
              /\ UNCHANGED <<requested, toServer>>
           \/ \E format \in chosen :
                 /\ requested' = format
                 /\ toServer' = Append(toServer, Request(format))
    /\ filesAsked' = (filesAsked \/ requested' = "FileGroupDescriptorW")
    /\ UNCHANGED <<server, batches, guiQueue, clipboard, user>>

Call(copy, format, as) == [copy |-> copy, format |-> format, as |-> as]

\* Mutant: what arrives is applied before what is queued already.
ReceiveDataFirst ==
    /\ toClient # <<>>
    /\ Head(toClient).type = "data"
    /\ guiQueue' = <<Call(Head(toClient).copy, Head(toClient).format,
                          requested)>> \o guiQueue
    /\ toClient' = Tail(toClient)
    /\ UNCHANGED <<server, toServer, requested, batches, clipboard, user,
                   filesAsked>>

\* cliprdr_process_format_data_response and its callback: the bytes are taken
\* for the format that was asked for last.
ReceiveData ==
    /\ toClient # <<>>
    /\ Head(toClient).type = "data"
    /\ LET data == Head(toClient)
       IN  \/ /\ requested = "FileGroupDescriptorW"
              /\ data.format = requested
              /\ batches' = Append(batches, data.copy)
              /\ UNCHANGED guiQueue
           \/ /\ requested = "FileGroupDescriptorW"
              /\ data.format # requested
              /\ UNCHANGED <<batches, guiQueue>>
           \/ /\ requested # "FileGroupDescriptorW"
              /\ guiQueue' = Append(guiQueue, Call(data.copy, data.format,
                                                   requested))
              /\ UNCHANGED batches
    /\ toClient' = Tail(toClient)
    /\ UNCHANGED <<server, toServer, requested, clipboard, user, filesAsked>>

\* CB_RESPONSE_FAIL: the local clipboard keeps what it has.
ReceiveRefusal ==
    /\ toClient # <<>>
    /\ Head(toClient).type = "refusal"
    /\ toClient' = Tail(toClient)
    /\ UNCHANGED <<server, toServer, requested, batches, guiQueue, clipboard,
                   user, filesAsked>>

-----------------------------------------------------------------------------
(* The download worker publishes its batches in the order they came, or      *)
(* gives one up.                                                            *)

BatchEnds ==
    /\ batches # <<>>
    /\ batches' = Tail(batches)
    /\ \/ guiQueue' = Append(guiQueue, Call(Head(batches),
                             "FileGroupDescriptorW", "FileGroupDescriptorW"))
       \/ UNCHANGED guiQueue
    /\ UNCHANGED <<server, toClient, toServer, requested, clipboard, user,
                   filesAsked>>

-----------------------------------------------------------------------------
(* The GUI thread.                                                          *)

Bitmaps == {"CF_DIB", "CF_DIBV5"}

\* Bytes that are not what they are taken for: no image comes out of them, but
\* any bytes make a text.
Decodes(call) ==
    \/ call.format = call.as
    \/ {call.format, call.as} \subseteq Bitmaps

\* Mutant: the change is announced to the server as the user's.
ApplyAndAnnounce ==
    /\ guiQueue # <<>>
    /\ guiQueue' = Tail(guiQueue)
    /\ clipboard' = Holds("server", Head(guiQueue).copy, TRUE)
    /\ toServer' = Append(toServer, UserList)
    /\ UNCHANGED <<server, toClient, requested, batches, user, filesAsked>>

\* updateClipboardDataFromRemote, updateClipboardFilesFromRemote: the change
\* they make calls dataChangedCallback, which m_clipboardDataFromRemote keeps
\* from announcing it to the server.
Apply ==
    /\ guiQueue # <<>>
    /\ guiQueue' = Tail(guiQueue)
    /\ LET call == Head(guiQueue)
       IN  \/ /\ Decodes(call)
              /\ clipboard' = Holds("server", call.copy, TRUE)
           \/ /\ ~Decodes(call) /\ call.as = "CF_UNICODETEXT"
              /\ clipboard' = Holds("server", call.copy, FALSE)
           \/ /\ ~Decodes(call) /\ call.as # "CF_UNICODETEXT"
              /\ UNCHANGED clipboard
    /\ UNCHANGED <<server, toClient, toServer, requested, batches, user,
                   filesAsked>>

\* What may still change the local clipboard is under way.
UnderWay ==
    \/ toClient # <<>> \/ batches # <<>> \/ guiQueue # <<>>
    \/ \E i \in DOMAIN toServer : toServer[i].type = "request"

\* The user copies something of his own: dataChangedCallback announces it.
UserCopies ==
    /\ userCopies < MaxUserCopies
    /\ userCopies' = userCopies + 1
    /\ crossed' = UnderWay
    /\ clipboard' = Holds("user", serverCopy, TRUE)
    /\ toServer' = Append(toServer, UserList)
    /\ UNCHANGED <<server, toClient, requested, batches, guiQueue, filesAsked>>

-----------------------------------------------------------------------------
Channel == ReceiveList \/ ReceiveData \/ ReceiveRefusal

Next ==
    \/ ServerCopies \/ ServerAnswers \/ ServerGivesUp
    \/ Channel \/ BatchEnds \/ Apply \/ UserCopies

Spec == Init /\ [][Next]_vars

\* The three threads of the client run, and the server handles what it is sent.
FairSpec ==
    /\ Spec
    /\ WF_vars(Channel) /\ WF_vars(BatchEnds) /\ WF_vars(Apply)
    /\ WF_vars(ServerAnswers \/ ServerGivesUp)

-----------------------------------------------------------------------------
Askable == Formats \ {"Other"}

\* The types of the variables (client_t, the queues and the two clipboards).
TypeOK ==
    /\ serverCopy \in 0..MaxCopies
    /\ content \in Contents \cup {{}} /\ longNames \in BOOLEAN
    /\ toClient \in Seq({Refusal} \cup {List(formats) : formats \in Contents}
                         \cup {Data(format, copy) : format \in Askable,
                                                    copy \in 1..MaxCopies})
    /\ toServer \in Seq({UserList} \cup {Request(f) : f \in Askable})
    /\ requested \in Askable \cup {"none"}
    /\ batches \in Seq(1..MaxCopies)
    /\ guiQueue \in Seq([copy : 1..MaxCopies, format : Askable, as : Askable])
    /\ clipboard \in [origin : {"user", "server"}, copy : 0..MaxCopies,
                      sound : BOOLEAN]
    /\ userCopies \in 0..MaxUserCopies
    /\ crossed \in BOOLEAN /\ filesAsked \in BOOLEAN

\* Text or an image that is applied is of no earlier copy than what it
\* replaces, however the answers, the queued calls and the downloads mix
\* (Qt::QueuedConnection).
DataArrivesInOrder ==
    [][/\ guiQueue' # guiQueue /\ Len(guiQueue') < Len(guiQueue)
       /\ Head(guiQueue).as # "FileGroupDescriptorW"
       /\ clipboard.origin = "server"
       => clipboard'.copy >= clipboard.copy]_vars

AtRest == ~UnderWay /\ toServer = <<>>

\* When nothing is under way the two clipboards agree, however the copies made
\* on both sides interleave: the local one holds the server's last copy, in the
\* right format, or else the user's, and the server knows it does ("two-way
\* clipboard sync for text and images", README).  It may fail only after files
\* were asked for, whose download a later copy overtakes, or when the user
\* copied while an answer was on its way, which then replaces his copy
\* (rdp-view-item.h:310): a copy the server makes before it knows of the
\* user's does no harm, its answer being a refusal.
ClipboardsAgree ==
    AtRest => CASE content = {} -> clipboard.origin = "user" \/ crossed
                [] Chosen(Named(content)) = {} -> TRUE
                [] OTHER -> \/ clipboard = Holds("server", serverCopy, TRUE)
                            \/ filesAsked

\* The last text or image copied on the server reaches the local clipboard,
\* unless the user copies something after it.
LastCopyArrives ==
    <>[](Chosen(Named(content)) # {} =>
            clipboard = Holds("server", serverCopy, TRUE) \/ filesAsked)

\* What is decoded is decoded as what it is, so the local clipboard never holds
\* bytes of an image as text ("two-way clipboard sync for text and images",
\* README; requested_remote_format_id_).
NeverGarbled == clipboard.sound
=============================================================================
