------------------------------ MODULE Cliprdr ------------------------------
(***************************************************************************)
(* The clipboard channel from the local clipboard to the server            *)
(* (cliprdr_main.c, with the callbacks of mini-qf-client.cc and            *)
(* rdp-view-item.h that drive it): the exchange of capabilities, the       *)
(* format lists, and the answers to the server's requests for data.        *)
(*                                                                         *)
(* Two threads act on one cliprdrPlugin without a lock.  The channel       *)
(* thread handles the server's PDUs in order; the GUI thread announces     *)
(* every local copy as soon as cliprdr_client_context_ is set.             *)
(***************************************************************************)
EXTENDS Integers, Sequences, FiniteSets

CONSTANTS
    Announcements,  \* the capability sets a server may announce
    MayOmit,        \* a server may send no CB_CLIP_CAPS at all
    Kinds,          \* what the user may copy
    MaxCopies,      \* bound: copies the user makes
    MaxRequests,    \* bound: format data requests of the server
    Unencodable     \* copies whose image the toolkit cannot read or encode

Features == {"longNames", "streamFiles", "noPaths", "lock", "hugeFiles"}

\* generalCapabilitySet.generalFlags of the MonitorReady callback.
Wanted == {"longNames", "streamFiles", "noPaths"}

ASSUME CliprdrAssumption ==
    /\ Announcements \subseteq SUBSET Features
    /\ MayOmit \in BOOLEAN
    /\ Announcements # {} \/ MayOmit
    /\ Kinds \subseteq {"text", "image", "files", "links", "other"}
    /\ MaxCopies \in Nat /\ MaxRequests \in Nat
    /\ Unencodable \subseteq 1..MaxCopies

VARIABLES
    serverPc,               \* the server: announce, ready, up
    announced,              \* the features it announced
    inbox,                  \* its PDUs the channel thread has not handled
    asked,                  \* how many requests for data it has made
    flags,                  \* the features set in cliprdrPlugin
    capabilitiesReceived,
    initialFormatListSent,
    published,              \* cliprdr_client_context_ is set
    channelPc,              \* the channel thread
    format, mime,           \* the format it answers for, the copy it looks at or NoMimeData
    guiPc,                  \* the GUI thread
    list,                   \* the format list it is sending
    clipboard,              \* the local clipboard
    infoFiles,              \* the copy clipboard_info_files_ lists, or 0
    settled,                \* copies made when MonitorReady was done, or -1
    wire,                   \* the PDUs the client has sent
    crashed

serverVars == <<serverPc, announced, asked>>
plugin == <<flags, capabilitiesReceived, initialFormatListSent>>
channelLocals == <<format, mime, settled>>
guiVars == <<guiPc, list, clipboard, infoFiles>>
vars == <<serverVars, inbox, plugin, published, channelPc, channelLocals,
          guiVars, wire, crashed>>

Garbage == -1   \* the bytes of memory that is no longer the clipboard's
NoMimeData == -2   \* the toolkit has none to give

Caps(features) == [type |-> "caps", flags |-> features]
Ready == [type |-> "ready"]
Request(f) == [type |-> "request", format |-> f]
List(formats, long, copy) ==
    [type |-> "list", formats |-> formats, long |-> long, copy |-> copy]
Data(ok, f, copy) == [type |-> "data", ok |-> ok, format |-> f, copy |-> copy]

\* What dataChangedCallback offers for a copy, first match first.
Offers(kind) ==
    CASE kind = "files" -> {"FileGroupDescriptorW"}
      [] kind = "text"  -> {"CF_UNICODETEXT"}
      [] kind = "image" -> {"PNG", "CF_DIB"}
      [] OTHER          -> {}

Formats == UNION {Offers(kind) : kind \in Kinds}

\* Mutant: the context is published when the channel is initialised.
InitPublished ==
    /\ serverPc = "announce" /\ announced = {} /\ inbox = <<>> /\ asked = 0
    /\ flags = {} /\ capabilitiesReceived = FALSE
    /\ initialFormatListSent = FALSE
    /\ published = TRUE
    /\ channelPc = "idle" /\ format = "none" /\ mime = 0
    /\ guiPc = "idle" /\ list = List({}, FALSE, 0)
    /\ clipboard = [kind |-> "other", copy |-> 0] /\ infoFiles = 0
    /\ settled = -1
    /\ wire = <<>>
    /\ crashed = FALSE

Init ==
    /\ serverPc = "announce" /\ announced = {} /\ inbox = <<>> /\ asked = 0
    /\ flags = {} /\ capabilitiesReceived = FALSE
    /\ initialFormatListSent = FALSE
    /\ published = FALSE
    /\ channelPc = "idle" /\ format = "none" /\ mime = 0
    /\ guiPc = "idle" /\ list = List({}, FALSE, 0)
    /\ clipboard = [kind |-> "other", copy |-> 0] /\ infoFiles = 0
    /\ settled = -1
    /\ wire = <<>>
    /\ crashed = FALSE

-----------------------------------------------------------------------------
(* The server.  It hears the client's PDUs in the order they are sent.      *)

SentBefore(i, type) == {j \in 1..(i - 1) : wire[j].type = type}

\* Long format names are in use once both ends have announced them.
LongAgreed(i) ==
    /\ "longNames" \in announced
    /\ \E j \in SentBefore(i, "caps") : "longNames" \in wire[j].flags

\* The formats the server understands in the list that is the i-th PDU: a
\* short name has 15 characters, and "FileGroupDescriptorW" has 20.
Understood(i) ==
    IF wire[i].long # LongAgreed(i) THEN {}
    ELSE {f \in wire[i].formats : f # "FileGroupDescriptorW" \/ wire[i].long}

ListsSent == SentBefore(Len(wire) + 1, "list")
LastList == CHOOSE i \in ListsSent : \A j \in ListsSent : j <= i
Answers == SentBefore(Len(wire) + 1, "data")

ServerAnnounces ==
    /\ serverPc = "announce"
    /\ \/ \E features \in Announcements :
             /\ announced' = features
             /\ inbox' = Append(inbox, Caps(features))
       \/ /\ MayOmit
          /\ UNCHANGED <<announced, inbox>>
    /\ serverPc' = "ready"
    /\ UNCHANGED <<asked, plugin, published, channelPc, channelLocals, guiVars,
                   wire, crashed>>

ServerReady ==
    /\ serverPc = "ready"
    /\ inbox' = Append(inbox, Ready)
    /\ serverPc' = "up"
    /\ UNCHANGED <<announced, asked, plugin, published, channelPc,
                   channelLocals, guiVars, wire, crashed>>

\* One request at a time, for a format of the last list the server heard.
ServerRequests ==
    /\ asked < MaxRequests
    /\ \A pdu \in {inbox[i] : i \in DOMAIN inbox} : pdu.type # "request"
    /\ channelPc # "answer"
    /\ ListsSent # {}
    /\ \E f \in Understood(LastList) : inbox' = Append(inbox, Request(f))
    /\ asked' = asked + 1
    /\ UNCHANGED <<serverPc, announced, plugin, published, channelPc,
                   channelLocals, guiVars, wire, crashed>>

-----------------------------------------------------------------------------
(* The channel thread (cliprdr_order_recv).                                 *)

Receives(type) ==
    /\ channelPc = "idle"
    /\ inbox # <<>>
    /\ Head(inbox).type = type

\* cliprdr_process_general_capability
ServerCapabilities ==
    /\ Receives("caps")
    /\ flags' = Head(inbox).flags
    /\ capabilitiesReceived' = TRUE
    /\ inbox' = Tail(inbox)
    /\ UNCHANGED <<serverVars, initialFormatListSent, published, channelPc,
                   channelLocals, guiVars, wire, crashed>>

\* cliprdr_process_monitor_ready, and the first statement of its callback.
MonitorReady ==
    /\ Receives("ready")
    /\ flags' = IF capabilitiesReceived THEN flags
                ELSE (flags \ {"longNames", "streamFiles", "lock"})
                     \cup {"noPaths"}
    /\ published' = TRUE
    /\ channelPc' = "capabilities"
    /\ inbox' = Tail(inbox)
    /\ UNCHANGED <<serverVars, capabilitiesReceived, initialFormatListSent,
                   channelLocals, guiVars, wire, crashed>>

\* Mutant: the server's capabilities are sent back to it.
CapabilitiesEchoed ==
    /\ channelPc = "capabilities"
    /\ flags' = Wanted \cap flags
    /\ initialFormatListSent' = FALSE
    /\ wire' = Append(wire, Caps(flags))
    /\ channelPc' = "checkInitial"
    /\ UNCHANGED <<serverVars, inbox, capabilitiesReceived, published,
                   channelLocals, guiVars, crashed>>

\* cliprdr_client_capabilities
ClientCapabilities ==
    /\ channelPc = "capabilities"
    /\ flags' = Wanted \cap flags
    /\ initialFormatListSent' = FALSE
    /\ wire' = Append(wire, Caps(Wanted \cap flags))
    /\ channelPc' = "checkInitial"
    /\ UNCHANGED <<serverVars, inbox, capabilitiesReceived, published,
                   channelLocals, guiVars, crashed>>

\* cliprdr_client_format_list with the empty list of the callback: it is sent
\* unless a format list has been sent since the capabilities were.
CheckInitialList ==
    /\ channelPc = "checkInitial"
    /\ \/ /\ initialFormatListSent
          /\ channelPc' = "idle"
          /\ settled' = clipboard.copy
          /\ UNCHANGED initialFormatListSent
       \/ /\ ~initialFormatListSent
          /\ initialFormatListSent' = TRUE
          /\ channelPc' = "sendInitial"
          /\ UNCHANGED settled
    /\ UNCHANGED <<serverVars, inbox, flags, capabilitiesReceived, published,
                   format, mime, guiVars, wire, crashed>>

SendInitialList ==
    /\ channelPc = "sendInitial"
    /\ wire' = Append(wire, List({}, "longNames" \in flags, 0))
    /\ settled' = clipboard.copy
    /\ channelPc' = "idle"
    /\ UNCHANGED <<serverVars, inbox, plugin, published, format, mime, guiVars,
                   crashed>>

\* qf_CliprdrServerFormatDataRequestCallBack takes the clipboard's mime data,
\* which the toolkit replaces when the clipboard changes, and may not have.
TakeRequest ==
    /\ Receives("request")
    /\ format' = Head(inbox).format
    /\ mime' \in {clipboard.copy, NoMimeData}
    /\ inbox' = Tail(inbox)
    /\ channelPc' = "answer"
    /\ UNCHANGED <<serverVars, plugin, published, settled, guiVars, wire,
                   crashed>>

\* The mime data, or the vector of files, is changed by the GUI thread under
\* the channel thread's hands.
Torn ==
    /\ mime # NoMimeData
    /\ \/ mime # clipboard.copy
       \/ format = "FileGroupDescriptorW" /\ guiPc = "collect"

\* The copies whose bytes an intact answer may carry, and 0 for a refusal.  A
\* list of urls counts as text; the text is read from a string that has been
\* destroyed.
Answerable ==
    CASE /\ format = "CF_UNICODETEXT"
         /\ clipboard.kind \in {"text", "files", "links"} -> {mime, Garbage}
      [] format \in {"PNG", "CF_DIB"} /\ clipboard.kind = "image" -> {mime}
      [] /\ format = "FileGroupDescriptorW"
         /\ clipboard.kind \in {"files", "links"}
         /\ infoFiles \notin Unencodable -> {infoFiles}
      [] OTHER -> {0}

\* The returns without an answer: no mime data, an image the toolkit cannot read
\* or encode, or one that was replaced between hasImage() and imageData().
NoAnswer ==
    \/ mime = NoMimeData
    \/ /\ format \in {"PNG", "CF_DIB"}
       /\ Torn \/ (clipboard.kind = "image" /\ mime \in Unencodable)

\* Mutant: a format the clipboard does not have is not answered for.
AnswerSupported ==
    /\ channelPc = "answer"
    /\ \/ /\ Torn
          /\ \/ crashed' = TRUE /\ UNCHANGED wire
             \/ /\ \E ok \in BOOLEAN :
                      wire' = Append(wire, Data(ok, format, Garbage))
                /\ UNCHANGED crashed
       \/ /\ ~Torn /\ ~NoAnswer
          /\ \E copy \in Answerable :
                wire' = IF copy = 0 THEN wire
                        ELSE Append(wire, Data(TRUE, format, copy))
          /\ UNCHANGED crashed
       \/ /\ NoAnswer
          /\ UNCHANGED <<wire, crashed>>
    /\ channelPc' = "idle"
    /\ UNCHANGED <<serverVars, inbox, plugin, published, channelLocals,
                   guiVars>>

AnswerRequest ==
    /\ channelPc = "answer"
    /\ \/ /\ Torn
          /\ \/ crashed' = TRUE /\ UNCHANGED wire
             \/ /\ \E ok \in BOOLEAN :
                      wire' = Append(wire, Data(ok, format, Garbage))
                /\ UNCHANGED crashed
       \/ /\ ~Torn /\ ~NoAnswer
          /\ \E copy \in Answerable :
                wire' = Append(wire, Data(copy # 0, format, copy))
          /\ UNCHANGED crashed
       \/ /\ NoAnswer
          /\ UNCHANGED <<wire, crashed>>
    /\ channelPc' = "idle"
    /\ UNCHANGED <<serverVars, inbox, plugin, published, channelLocals,
                   guiVars>>

-----------------------------------------------------------------------------
(* The GUI thread (dataChangedCallback).                                    *)

\* Mutant: files are announced before they are collected.
CopyUncollected ==
    /\ guiPc = "idle"
    /\ clipboard.copy < MaxCopies
    /\ \E kind \in Kinds :
          /\ clipboard' = [kind |-> kind, copy |-> clipboard.copy + 1]
          /\ guiPc' = IF ~published \/ kind = "other" THEN "idle"
                      ELSE "offer"
          /\ infoFiles' = IF published /\ kind \in {"files", "links"} THEN 0
                          ELSE infoFiles
    /\ UNCHANGED <<serverVars, inbox, plugin, published, channelPc,
                   channelLocals, list, wire, crashed>>

\* The user copies something; nothing is announced before MonitorReady.
Copy ==
    /\ guiPc = "idle"
    /\ clipboard.copy < MaxCopies
    /\ \E kind \in Kinds :
          /\ clipboard' = [kind |-> kind, copy |-> clipboard.copy + 1]
          /\ guiPc' = IF ~published \/ kind = "other" THEN "idle"
                      ELSE IF kind \in {"files", "links"} THEN "collect"
                      ELSE "offer"
          /\ infoFiles' = IF published /\ kind \in {"files", "links"} THEN 0
                          ELSE infoFiles
    /\ UNCHANGED <<serverVars, inbox, plugin, published, channelPc,
                   channelLocals, list, wire, crashed>>

\* appendClipboardInfoFile for every url that is a local file; when there is
\* none, clipboard_info_files_ stays empty and nothing is announced.
CollectFiles ==
    /\ guiPc = "collect"
    /\ \/ /\ clipboard.kind = "files"
          /\ infoFiles' = clipboard.copy
          /\ guiPc' = "offer"
       \/ /\ clipboard.kind = "links"
          /\ guiPc' = "idle"
          /\ UNCHANGED infoFiles
    /\ UNCHANGED <<serverVars, inbox, plugin, published, channelPc,
                   channelLocals, list, clipboard, wire, crashed>>

\* Mutant: a second format list is taken for a late initial one.
OfferOnce ==
    /\ guiPc = "offer"
    /\ list' = List(Offers(clipboard.kind), "longNames" \in flags,
                    clipboard.copy)
    /\ initialFormatListSent' = TRUE
    /\ guiPc' = IF initialFormatListSent THEN "idle" ELSE "send"
    /\ UNCHANGED <<serverVars, inbox, flags, capabilitiesReceived, published,
                   channelPc, channelLocals, clipboard, infoFiles, wire,
                   crashed>>

\* cliprdr_client_format_list, up to the packet with the names ...
Offer ==
    /\ guiPc = "offer"
    /\ list' = List(Offers(clipboard.kind), "longNames" \in flags,
                    clipboard.copy)
    /\ initialFormatListSent' = TRUE
    /\ guiPc' = "send"
    /\ UNCHANGED <<serverVars, inbox, flags, capabilitiesReceived, published,
                   channelPc, channelLocals, clipboard, infoFiles, wire,
                   crashed>>

\* ... and cliprdr_packet_send, which any PDU of the channel thread may
\* precede.
SendOffer ==
    /\ guiPc = "send"
    /\ wire' = Append(wire, list)
    /\ guiPc' = "idle"
    /\ UNCHANGED <<serverVars, inbox, plugin, published, channelPc,
                   channelLocals, list, clipboard, infoFiles, crashed>>

-----------------------------------------------------------------------------
Server == ServerAnnounces \/ ServerReady \/ ServerRequests

Channel ==
    \/ ServerCapabilities \/ MonitorReady \/ ClientCapabilities
    \/ CheckInitialList \/ SendInitialList \/ TakeRequest \/ AnswerRequest

Gui == CollectFiles \/ Offer \/ SendOffer

Next == ~crashed /\ (Server \/ Channel \/ Copy \/ Gui)

Spec == Init /\ [][Next]_vars

\* Both threads of the client keep running; the server and the user need not
\* do anything.
FairSpec == Spec /\ WF_vars(~crashed /\ Channel) /\ WF_vars(~crashed /\ Gui)

-----------------------------------------------------------------------------
ServerPdus == {Caps(f) : f \in Announcements} \cup {Ready}
                  \cup {Request(f) : f \in Formats}

ClientPdu(pdu) ==
    \/ pdu.type = "caps" /\ pdu.flags \subseteq Wanted
    \/ /\ pdu.type = "list"
       /\ pdu \in {List(Offers(kind), long, copy) :
                       kind \in Kinds \cup {"other"}, long \in BOOLEAN,
                       copy \in 0..MaxCopies}
    \/ /\ pdu.type = "data"
       /\ pdu \in {Data(ok, f, copy) : ok \in BOOLEAN, f \in Formats,
                                       copy \in {Garbage} \cup 0..MaxCopies}

\* The types of the variables (cliprdrPlugin, client_t and the two threads).
TypeOK ==
    /\ serverPc \in {"announce", "ready", "up"}
    /\ announced \subseteq Features
    /\ \A i \in DOMAIN inbox : inbox[i] \in ServerPdus
    /\ asked \in 0..MaxRequests
    /\ flags \subseteq Features
    /\ capabilitiesReceived \in BOOLEAN
    /\ initialFormatListSent \in BOOLEAN
    /\ published \in BOOLEAN
    /\ channelPc \in {"idle", "capabilities", "checkInitial", "sendInitial",
                      "answer"}
    /\ format \in Formats \cup {"none"} /\ mime \in {NoMimeData} \cup 0..MaxCopies
    /\ guiPc \in {"idle", "collect", "offer", "send"}
    /\ ClientPdu(list)
    /\ clipboard \in [kind : Kinds \cup {"other"}, copy : 0..MaxCopies]
    /\ infoFiles \in 0..MaxCopies
    /\ settled \in -1..MaxCopies
    /\ \A i \in DOMAIN wire : ClientPdu(wire[i])
    /\ crashed \in BOOLEAN

\* A format list that follows the client's capabilities is written with the
\* kind of names, long or short, that the server will read it by, whichever
\* thread writes it (cliprdr_client_format_list, useLongFormatNames).
NamesAgreed ==
    \A i \in ListsSent :
        SentBefore(i, "caps") # {} => wire[i].long = LongAgreed(i)

\* When both threads are at rest, a copy made after MonitorReady was done is
\* the one the last format list announces: no later list hides it, and none is
\* mistaken for a late initial list (initialFormatListSent).
LastCopyAnnounced ==
    /\ channelPc = "idle" /\ guiPc = "idle"
    /\ settled \in 0..(clipboard.copy - 1)
    /\ Offers(clipboard.kind) # {}
    => wire[LastList].copy = clipboard.copy

\* A request for what the last format list announces is refused only if the
\* clipboard has changed since, or cannot be encoded: the files are known
\* before they are announced (dataChangedCallback, clipboard_info_files_).
RefusedOnlyIfGone ==
    [][\A i \in DOMAIN wire' \ DOMAIN wire :
          wire'[i].type = "data" /\ ~wire'[i].ok
          => \/ clipboard.copy # mime
             \/ clipboard.copy # wire[LastList].copy
             \/ format \notin wire[LastList].formats
             \/ clipboard.copy \in Unencodable]_vars

Requested ==
    channelPc = "answer" \/ \E i \in DOMAIN inbox : inbox[i].type = "request"

\* Every request for data is answered, with the data or a refusal, whatever the
\* user copies meanwhile, but for the returns without an answer: the toolkit had
\* no mime data, or it is for an image that cannot be read or encoded or that the
\* user's next copy replaced in the middle
\* (qf_CliprdrServerFormatDataRequestCallBack).
RequestsAnswered ==
    \A n \in 0..(MaxRequests - 1) :
        Requested /\ Cardinality(Answers) = n ~>
            \/ Cardinality(Answers) > n
            \/ channelPc = "answer" /\ NoAnswer
            \/ crashed

\* The initial, empty list is not sent once a format list has been: "Allow
\* initial format list from monitor ready, but ignore later attempts"
\* (cliprdr_client_format_list).
LateInitialListIgnored ==
    \A i \in ListsSent : wire[i].copy = 0 => SentBefore(i, "list") = {}

\* The client asks for no feature the server has not announced: "Do not
\* request features the server does not support"
\* (cliprdr_client_capabilities).
NoUnsupportedFeature ==
    \A i \in SentBefore(Len(wire) + 1, "caps") : wire[i].flags \subseteq announced
=============================================================================
