---------------------------- MODULE CliprdrProofs ----------------------------
(***************************************************************************)
(* What Cliprdr's run shows of two copies and two requests, for any number *)
(* of both and any capabilities a server may announce: the variables have  *)
(* their types, a format list is written with the names the server reads   *)
(* it by, the last copy is the one the last list announces, and a request  *)
(* for what was announced is refused only when it is gone.                 *)
(***************************************************************************)
EXTENDS Cliprdr, WellFoundedInduction, TLAPS

ClientPdus ==
    {Caps(features) : features \in SUBSET Wanted}
    \cup {List(Offers(kind), long, copy) :
             kind \in Kinds \cup {"other"}, long \in BOOLEAN, copy \in 0..MaxCopies}
    \cup {Data(ok, f, copy) :
             ok \in BOOLEAN, f \in Formats, copy \in {Garbage} \cup 0..MaxCopies}

-----------------------------------------------------------------------------
(* The inductive invariant.                                                 *)

FlagTypes ==
    /\ capabilitiesReceived \in BOOLEAN /\ initialFormatListSent \in BOOLEAN
    /\ published \in BOOLEAN /\ crashed \in BOOLEAN

ValueTypes ==
    /\ serverPc \in {"announce", "ready", "up"}
    /\ announced \subseteq Features
    /\ asked \in 0..MaxRequests
    /\ flags \subseteq Features
    /\ channelPc \in {"idle", "capabilities", "checkInitial", "sendInitial", "answer"}
    /\ guiPc \in {"idle", "collect", "offer", "send"}
    /\ format \in Formats \cup {"none"} /\ mime \in {NoMimeData} \cup 0..MaxCopies
    /\ clipboard \in [kind : Kinds \cup {"other"}, copy : 0..MaxCopies]
    /\ infoFiles \in 0..MaxCopies
    /\ settled \in -1..MaxCopies

PduTypes ==
    /\ inbox \in Seq(ServerPdus)
    /\ wire \in Seq(ClientPdus)
    /\ list \in ClientPdus /\ list.type = "list"
    /\ channelPc = "answer" => format \in Formats

TypeInv == FlagTypes /\ ValueTypes /\ PduTypes

\* The server announces its features once and is ready once, in this order,
\* and asks for nothing before it has seen a format list; until it is ready the
\* client sends nothing.
Opening ==
    /\ serverPc = "announce" => inbox = <<>> /\ flags = {}
    /\ serverPc = "ready" => \A i \in DOMAIN inbox : inbox[i].type = "caps"
    /\ \A i \in DOMAIN inbox : inbox[i].type = "caps" => inbox[i].flags = announced
    /\ \A i, j \in DOMAIN inbox :
          i < j /\ inbox[i].type # "caps" => inbox[j].type = "request"
    /\ published => /\ serverPc = "up"
                    /\ \A i \in DOMAIN inbox : inbox[i].type = "request"
    /\ ~published => /\ wire = <<>> /\ guiPc = "idle" /\ channelPc = "idle"
                     /\ settled = -1

\* From MonitorReady on, long names are in every format list or in none, and
\* the capabilities sent to the server say which.
Names ==
    /\ "longNames" \in flags => "longNames" \in announced
    /\ \A i \in DOMAIN wire :
          /\ wire[i].type = "caps" =>
                ("longNames" \in wire[i].flags <=> "longNames" \in flags)
          /\ wire[i].type = "list" => wire[i].long = ("longNames" \in flags)
    /\ guiPc = "send" => list.long = ("longNames" \in flags)

\* A list announces what its copy is, and the files of the copy are known
\* before it is announced.  While the GUI thread is busy, no list of the copy
\* has been sent.
Lists ==
    /\ clipboard.copy = 0 => clipboard.kind = "other"
    /\ guiPc # "idle" => clipboard.copy > 0 /\ clipboard.kind # "other"
    /\ guiPc = "send" => list.copy = clipboard.copy
                         /\ list.formats = Offers(clipboard.kind)
    /\ guiPc \in {"offer", "send"} /\ clipboard.kind \in {"files", "links"} =>
          infoFiles = clipboard.copy /\ clipboard.kind = "files"
    /\ guiPc = "collect" => clipboard.kind \in {"files", "links"}
    /\ \A i \in DOMAIN wire :
          wire[i].type = "list" =>
             /\ wire[i].copy <= clipboard.copy
             /\ guiPc # "idle" => wire[i].copy < clipboard.copy
             /\ wire[i].copy = clipboard.copy =>
                   /\ wire[i].formats = Offers(clipboard.kind)
                   /\ clipboard.kind = "files" => infoFiles = clipboard.copy

\* The server asks for data only when it has seen a list.
Requests ==
    Requested => \E i \in DOMAIN wire : wire[i].type = "list"

LastIs(copy) ==
    \E i \in DOMAIN wire :
       /\ wire[i].type = "list" /\ wire[i].copy = copy
       /\ \A j \in DOMAIN wire : j > i => wire[j].type # "list"

\* Once the initial list is settled only the GUI thread sends lists, and a copy
\* made since is on its way to the server or the last that was announced.
Settled ==
    /\ settled # -1 => channelPc \in {"idle", "answer"}
    /\ settled # -1 /\ settled < clipboard.copy /\ guiPc = "idle"
          /\ Offers(clipboard.kind) # {} => LastIs(clipboard.copy)

CliprdrInv == TypeInv /\ Opening /\ Names /\ Lists /\ Requests /\ Settled

-----------------------------------------------------------------------------
(* Sequences, and the last list.                                            *)

\* A PDU that is sent is the last one, and the others stay where they are.
LEMMA AppendFacts ==
    ASSUME NEW S, NEW s \in Seq(S), NEW e \in S
    PROVE  LET t == Append(s, e)
           IN  /\ t \in Seq(S) /\ t # <<>>
               /\ Len(t) \in DOMAIN t /\ t[Len(t)] = e
               /\ \A i \in DOMAIN t : \/ i \in DOMAIN s /\ t[i] = s[i] /\ i < Len(t)
                                      \/ i = Len(t) /\ t[i] = e
               /\ \A i \in DOMAIN s : i < Len(t) /\ i \in DOMAIN t /\ t[i] = s[i]
  OBVIOUS

\* What is left when the first PDU has been taken keeps its order.
LEMMA TailFacts ==
    ASSUME NEW S, NEW s \in Seq(S), s # <<>>
    PROVE  LET t == Tail(s)
           IN  /\ t \in Seq(S) /\ Head(s) \in S
               /\ Head(s) = s[1] /\ 1 \in DOMAIN s
               /\ \A i \in DOMAIN t : i + 1 \in DOMAIN s /\ t[i] = s[i + 1] /\ 1 < i + 1
               /\ \A i, j \in DOMAIN t : i < j => i + 1 < j + 1
  OBVIOUS

\* A set of positions that is not empty has a last one.
LEMMA LastExists ==
    ASSUME NEW n \in Nat, NEW T, T \subseteq 1..n, T # {}
    PROVE  \E i \in T : \A j \in T : j <= i
<1> DEFINE U == {m \in Nat : n - m \in T}
<1>1. U \subseteq Nat /\ U # {}
  <2>1. PICK i \in T : TRUE
    OBVIOUS
  <2>2. i \in Int /\ n - i \in Nat /\ n - (n - i) = i
    OBVIOUS
  <2> QED  BY <2>1, <2>2
<1> DEFINE Less == {pair \in Nat \X Nat : pair[1] < pair[2]}
<1>2. PICK m \in U : \A k \in U : ~(<<k, m>> \in Less)
  <2>1. IsWellFoundedOn(Less, Nat)
    BY NatLessThanWellFounded DEF OpToRel
  <2> HIDE DEF U, Less
  <2> QED  BY <1>1, <2>1, WFMin
<1>3. \A k \in U : m <= k
  <2>1. \A k, l \in Nat : <<k, l>> \in Less <=> k < l
    OBVIOUS
  <2>2. m \in Nat /\ \A k \in U : k \in Nat
    OBVIOUS
  <2> HIDE DEF U, Less
  <2>3. TAKE k \in U
  <2>4. ~(k < m)
    BY <1>2, <2>1, <2>2
  <2> QED  BY <2>2, <2>4
<1>4. \A j \in T : n - j \in U
  OBVIOUS
<1>5. \A j \in T : m <= n - j
  BY <1>3, <1>4
<1> QED  BY <1>5

\* LastList is the last format list that was sent, when there is one.
LEMMA LastListFacts ==
    ASSUME wire \in Seq(ClientPdus)
    PROVE  /\ ListsSent = {i \in DOMAIN wire : wire[i].type = "list"}
           /\ ListsSent # {} => /\ LastList \in ListsSent
                                /\ \A j \in ListsSent : j <= LastList
           /\ \A i \in DOMAIN wire : i \in 1..Len(wire)
<1>1. Len(wire) \in Nat /\ DOMAIN wire = 1..Len(wire) /\ Len(wire) + 1 - 1 = Len(wire)
  OBVIOUS
<1>2. ListsSent = {i \in DOMAIN wire : wire[i].type = "list"}
  BY <1>1 DEF ListsSent, SentBefore
<1>3. CASE ListsSent # {}
  <2>1. ListsSent \subseteq 1..Len(wire)
    BY <1>1, <1>2
  <2>2. \E i \in ListsSent : \A j \in ListsSent : j <= i
    <3> HIDE DEF ListsSent
    <3> QED  BY <1>1, <1>3, <2>1, LastExists
  <2>3. LastList \in ListsSent /\ \A j \in ListsSent : j <= LastList
    BY <2>2 DEF LastList
  <2> QED  BY <1>1, <1>2, <2>3
<1> QED  BY <1>1, <1>2, <1>3

\* The kinds of PDUs.
LEMMA PduFacts ==
    /\ \A pdu \in ServerPdus :
          /\ pdu.type \in {"caps", "ready", "request"}
          /\ pdu.type = "caps" => pdu.flags \in Announcements
          /\ pdu.type = "request" => pdu.format \in Formats
    /\ \A pdu \in ClientPdus :
          /\ pdu.type \in {"caps", "list", "data"}
          /\ pdu.type = "caps" => pdu.flags \in SUBSET Wanted
          /\ pdu.type = "list" => /\ pdu.formats \subseteq Formats
                                  /\ pdu.copy \in 0..MaxCopies
                                  /\ pdu.long \in BOOLEAN
    /\ \A pdu \in ClientPdus : ClientPdu(pdu)
    /\ \A features : Caps(features).type = "caps" /\ Caps(features).flags = features
    /\ \A formats, long, copy :
          LET pdu == List(formats, long, copy)
          IN  /\ pdu.type = "list" /\ pdu.formats = formats
              /\ pdu.long = long /\ pdu.copy = copy
    /\ \A ok, f, copy : LET pdu == Data(ok, f, copy)
                        IN  pdu.type = "data" /\ pdu.ok = ok
    /\ Ready.type = "ready" /\ \A f : Request(f).type = "request"
    /\ Offers("other") = {}
<1>1. \A kind \in Kinds \cup {"other"} : Offers(kind) \subseteq Formats
  BY DEF Offers, Formats
<1>2. \A pdu \in ServerPdus :
          /\ pdu.type \in {"caps", "ready", "request"}
          /\ pdu.type = "caps" => pdu.flags \in Announcements
          /\ pdu.type = "request" => pdu.format \in Formats
  BY DEF ServerPdus, Caps, Ready, Request
<1>3. ASSUME NEW pdu \in ClientPdus
      PROVE  /\ pdu.type \in {"caps", "list", "data"}
             /\ pdu.type = "caps" => pdu.flags \in SUBSET Wanted
             /\ pdu.type = "list" => /\ pdu.formats \subseteq Formats
                                     /\ pdu.copy \in 0..MaxCopies
                                     /\ pdu.long \in BOOLEAN
             /\ ClientPdu(pdu)
  <2>1. CASE pdu \in {Caps(features) : features \in SUBSET Wanted}
    BY <2>1 DEF Caps, ClientPdu
  <2>2. CASE pdu \in {List(Offers(kind), long, copy) :
                         kind \in Kinds \cup {"other"}, long \in BOOLEAN,
                         copy \in 0..MaxCopies}
    <3>1. PICK kind \in Kinds \cup {"other"}, long \in BOOLEAN, copy \in 0..MaxCopies :
             pdu = List(Offers(kind), long, copy)
      BY <2>2
    <3>2. /\ pdu.type = "list" /\ pdu.formats = Offers(kind)
          /\ pdu.long = long /\ pdu.copy = copy
      BY <3>1 DEF List
    <3>3. ClientPdu(pdu)
      BY <2>2, <3>2 DEF ClientPdu
    <3> QED  BY <1>1, <3>2, <3>3
  <2>3. CASE pdu \in {Data(ok, f, copy) :
                         ok \in BOOLEAN, f \in Formats,
                         copy \in {Garbage} \cup 0..MaxCopies}
    <3>1. pdu.type = "data"
      BY <2>3 DEF Data
    <3> QED  BY <2>3, <3>1 DEF ClientPdu
  <2> QED  BY <2>1, <2>2, <2>3 DEF ClientPdus
<1>4. /\ \A features : Caps(features).type = "caps" /\ Caps(features).flags = features
      /\ Ready.type = "ready" /\ \A f : Request(f).type = "request"
      /\ Offers("other") = {}
  BY DEF Caps, Ready, Request, Offers
<1>5. \A formats, long, copy :
          LET pdu == List(formats, long, copy)
          IN  /\ pdu.type = "list" /\ pdu.formats = formats
              /\ pdu.long = long /\ pdu.copy = copy
  BY DEF List
<1>6. \A ok, f, copy : LET pdu == Data(ok, f, copy)
                       IN  pdu.type = "data" /\ pdu.ok = ok
  BY DEF Data
<1> QED  BY <1>2, <1>3, <1>4, <1>5, <1>6

-----------------------------------------------------------------------------
(* Types.                                                                   *)

\* Each flag stays a flag.
LEMMA FlagTypesStep == FlagTypes /\ [Next]_vars => FlagTypes'
<1> SUFFICES ASSUME FlagTypes, [Next]_vars PROVE FlagTypes'
  OBVIOUS
<1> USE DEF FlagTypes
<1>1. CASE Server
  BY <1>1 DEF Server, ServerAnnounces, ServerReady, ServerRequests, plugin
<1>2. CASE Channel
  BY <1>2 DEF Channel, ServerCapabilities, MonitorReady, ClientCapabilities,
     CheckInitialList, SendInitialList, TakeRequest, AnswerRequest, plugin, guiVars
<1>3. CASE Copy \/ Gui
  BY <1>3 DEF Copy, Gui, CollectFiles, Offer, SendOffer, plugin
<1>4. CASE UNCHANGED vars
  BY <1>4 DEF vars, plugin
<1> QED  BY <1>1, <1>2, <1>3, <1>4 DEF Next

\* The client's capabilities and lists.
LEMMA ClientPduFacts ==
    /\ \A features \in SUBSET Wanted : Caps(features) \in ClientPdus
    /\ \A kind \in Kinds \cup {"other"}, copy \in 0..MaxCopies :
          /\ List(Offers(kind), "longNames" \in flags, copy) \in ClientPdus
          /\ List(Offers(kind), FALSE, copy) \in ClientPdus
<1>1. \A features \in SUBSET Wanted : Caps(features) \in ClientPdus
  BY DEF ClientPdus
<1>2. \A long \in BOOLEAN, kind \in Kinds \cup {"other"}, copy \in 0..MaxCopies :
         List(Offers(kind), long, copy) \in ClientPdus
  BY DEF ClientPdus
<1>3. ("longNames" \in flags) \in BOOLEAN
  OBVIOUS
<1> QED  BY <1>1, <1>2, <1>3

\* What an answer may carry.
LEMMA AnswerFacts ==
    ASSUME ValueTypes, AnswerRequest
    PROVE  \/ wire' = wire
           \/ \E ok \in BOOLEAN, copy \in {Garbage} \cup 0..MaxCopies :
                 wire' = Append(wire, Data(ok, format, copy))
<1>1. infoFiles \in 0..MaxCopies /\ 0 \in 0..MaxCopies
  BY CliprdrAssumption DEF ValueTypes
<1>2. ~NoAnswer => Answerable \subseteq {Garbage} \cup 0..MaxCopies
  <2> SUFFICES ASSUME ~NoAnswer PROVE Answerable \subseteq {Garbage} \cup 0..MaxCopies
    OBVIOUS
  <2>1. mime \in 0..MaxCopies
    BY DEF ValueTypes, NoAnswer
  <2>2. Answerable \subseteq {Garbage, mime, infoFiles, 0}
    BY DEF Answerable
  <2> QED  BY <1>1, <2>1, <2>2
<1>3. ASSUME NEW copy, copy \in Answerable, ~NoAnswer, wire' = Append(wire, Data(copy # 0, format, copy))
      PROVE  \E ok \in BOOLEAN, c \in {Garbage} \cup 0..MaxCopies :
                wire' = Append(wire, Data(ok, format, c))
  <2>1. PICK ok : ok = (copy # 0) /\ ok \in BOOLEAN
    OBVIOUS
  <2> QED  BY <1>2, <1>3, <2>1
<1> QED  BY <1>3 DEF AnswerRequest

\* The formats the server may ask for are those of a list it has been sent.
LEMMA UnderstoodFacts ==
    ASSUME wire \in Seq(ClientPdus), NEW i \in ListsSent
    PROVE  Understood(i) \subseteq Formats
<1>1. i \in DOMAIN wire /\ wire[i].type = "list"
  BY LastListFacts
<1>2. wire[i] \in ClientPdus
  BY <1>1
<1>3. wire[i].formats \subseteq Formats
  BY <1>1, <1>2, PduFacts
<1> QED  BY <1>3 DEF Understood

\* Whatever happens, the variables keep their types.
LEMMA TypesStep == TypeInv /\ [Next]_vars => ValueTypes' /\ PduTypes'
<1> SUFFICES ASSUME TypeInv, [Next]_vars PROVE ValueTypes' /\ PduTypes'
  OBVIOUS
<1> USE CliprdrAssumption
<1>0. /\ inbox \in Seq(ServerPdus) /\ wire \in Seq(ClientPdus)
      /\ list \in ClientPdus /\ list.type = "list"
      /\ channelPc = "answer" => format \in Formats
      /\ ValueTypes
  BY DEF TypeInv, PduTypes
<1>a. ASSUME NEW pdu \in ServerPdus PROVE Append(inbox, pdu) \in Seq(ServerPdus)
  BY <1>0, <1>a
<1>b. ASSUME NEW pdu \in ClientPdus PROVE Append(wire, pdu) \in Seq(ClientPdus)
  BY <1>0, <1>b
<1>c. inbox # <<>> => Tail(inbox) \in Seq(ServerPdus) /\ Head(inbox) \in ServerPdus
  BY <1>0, TailFacts
<1>1. CASE ServerAnnounces
  <2>1. /\ UNCHANGED <<asked, flags, channelPc, guiPc, format, mime, clipboard, infoFiles,
                       settled, wire, list>>
        /\ serverPc' = "ready"
    BY <1>1 DEF ServerAnnounces, plugin, channelLocals, guiVars
  <2>2. \/ \E features \in Announcements :
              announced' = features /\ inbox' = Append(inbox, Caps(features))
        \/ UNCHANGED <<announced, inbox>>
    BY <1>1 DEF ServerAnnounces
  <2>3. announced' \subseteq Features
    BY <1>0, <2>2 DEF ValueTypes
  <2>4. inbox' \in Seq(ServerPdus)
    BY <1>0, <1>a, <2>2 DEF ServerPdus
  <2> QED  BY <1>0, <2>1, <2>3, <2>4 DEF ValueTypes, PduTypes
<1>2. CASE ServerReady
  <2>1. /\ UNCHANGED <<announced, asked, flags, channelPc, guiPc, format, mime, clipboard,
                       infoFiles, settled, wire, list>>
        /\ serverPc' = "up" /\ inbox' = Append(inbox, Ready)
    BY <1>2 DEF ServerReady, plugin, channelLocals, guiVars
  <2>2. inbox' \in Seq(ServerPdus)
    BY <1>a, <2>1 DEF ServerPdus
  <2> QED  BY <1>0, <2>1, <2>2 DEF ValueTypes, PduTypes
<1>3. CASE ServerRequests
  <2>1. /\ UNCHANGED <<serverPc, announced, flags, channelPc, guiPc, format, mime, clipboard,
                       infoFiles, settled, wire, list>>
        /\ asked < MaxRequests /\ asked' = asked + 1
        /\ ListsSent # {}
        /\ \E f \in Understood(LastList) : inbox' = Append(inbox, Request(f))
    BY <1>3 DEF ServerRequests, plugin, channelLocals, guiVars
  <2>2. Understood(LastList) \subseteq Formats
    BY <1>0, <2>1, LastListFacts, UnderstoodFacts
  <2>3. inbox' \in Seq(ServerPdus)
    BY <1>a, <2>1, <2>2 DEF ServerPdus
  <2>4. asked' \in 0..MaxRequests
    BY <1>0, <2>1 DEF ValueTypes
  <2> QED  BY <1>0, <2>1, <2>3, <2>4 DEF ValueTypes, PduTypes
<1>4. CASE ServerCapabilities
  <2>1. /\ UNCHANGED <<serverPc, announced, asked, channelPc, guiPc, format, mime, clipboard,
                       infoFiles, settled, wire, list>>
        /\ inbox # <<>> /\ Head(inbox).type = "caps"
        /\ flags' = Head(inbox).flags /\ inbox' = Tail(inbox)
    BY <1>4 DEF ServerCapabilities, Receives, serverVars, channelLocals, guiVars
  <2>2. flags' \subseteq Features
    BY <1>c, <2>1, PduFacts
  <2> QED  BY <1>0, <1>c, <2>1, <2>2 DEF ValueTypes, PduTypes
<1>5. CASE MonitorReady
  <2>1. /\ UNCHANGED <<serverPc, announced, asked, guiPc, format, mime, clipboard,
                       infoFiles, settled, wire, list>>
        /\ inbox # <<>> /\ inbox' = Tail(inbox) /\ channelPc' = "capabilities"
        /\ flags' = flags \/ flags' = (flags \ {"longNames", "streamFiles", "lock"})
                                      \cup {"noPaths"}
    BY <1>5 DEF MonitorReady, Receives, serverVars, channelLocals, guiVars
  <2>2. flags' \subseteq Features
    BY <1>0, <2>1 DEF ValueTypes, Features
  <2> QED  BY <1>0, <1>c, <2>1, <2>2 DEF ValueTypes, PduTypes
<1>6. CASE ClientCapabilities
  <2>1. /\ UNCHANGED <<serverPc, announced, asked, inbox, guiPc, format, mime, clipboard,
                       infoFiles, settled, list>>
        /\ channelPc' = "checkInitial" /\ flags' = Wanted \cap flags
        /\ wire' = Append(wire, Caps(Wanted \cap flags))
    BY <1>6 DEF ClientCapabilities, serverVars, channelLocals, guiVars
  <2>2. wire' \in Seq(ClientPdus)
    <3>1. Wanted \cap flags \in SUBSET Wanted
      OBVIOUS
    <3> QED  BY <1>b, <2>1, <3>1, ClientPduFacts
  <2> QED  BY <1>0, <2>1, <2>2 DEF ValueTypes, PduTypes
<1>7. CASE CheckInitialList
  <2>1. /\ UNCHANGED <<serverPc, announced, asked, flags, inbox, guiPc, format, mime,
                       clipboard, infoFiles, wire, list>>
        /\ channelPc' \in {"idle", "sendInitial"}
        /\ settled' = clipboard.copy \/ settled' = settled
    BY <1>7 DEF CheckInitialList, serverVars, guiVars
  <2>2. settled' \in -1..MaxCopies
    BY <1>0, <2>1 DEF ValueTypes
  <2> QED  BY <1>0, <2>1, <2>2 DEF ValueTypes, PduTypes
<1>8. CASE SendInitialList
  <2>1. /\ UNCHANGED <<serverPc, announced, asked, flags, inbox, guiPc, format, mime,
                       clipboard, infoFiles, list>>
        /\ channelPc' = "idle" /\ settled' = clipboard.copy
        /\ wire' = Append(wire, List({}, "longNames" \in flags, 0))
    BY <1>8 DEF SendInitialList, serverVars, plugin, guiVars
  <2>2. settled' \in -1..MaxCopies
    BY <1>0, <2>1 DEF ValueTypes
  <2>3. List(Offers("other"), "longNames" \in flags, 0) \in ClientPdus
    <3>1. "other" \in Kinds \cup {"other"} /\ 0 \in 0..MaxCopies
      OBVIOUS
    <3> QED  BY <3>1, ClientPduFacts
  <2>4. wire' \in Seq(ClientPdus)
    BY <1>b, <2>1, <2>3, PduFacts
  <2> QED  BY <1>0, <2>1, <2>2, <2>4 DEF ValueTypes, PduTypes
<1>9. CASE TakeRequest
  <2>1. /\ UNCHANGED <<serverPc, announced, asked, flags, guiPc, clipboard,
                       infoFiles, settled, wire, list>>
        /\ inbox # <<>> /\ Head(inbox).type = "request" /\ inbox' = Tail(inbox)
        /\ format' = Head(inbox).format /\ mime' \in {clipboard.copy, NoMimeData}
        /\ channelPc' = "answer"
    BY <1>9 DEF TakeRequest, Receives, serverVars, plugin, guiVars
  <2>2. format' \in Formats
    BY <1>c, <2>1, PduFacts
  <2>3. mime' \in {NoMimeData} \cup 0..MaxCopies
    BY <1>0, <2>1 DEF ValueTypes
  <2> QED  BY <1>0, <1>c, <2>1, <2>2, <2>3 DEF ValueTypes, PduTypes
<1>10. CASE AnswerRequest
  <2>1. /\ UNCHANGED <<serverPc, announced, asked, inbox, flags, guiPc, clipboard,
                       infoFiles, settled, format, mime, list>>
        /\ channelPc = "answer" /\ channelPc' = "idle"
    BY <1>10 DEF AnswerRequest, serverVars, plugin, channelLocals, guiVars
  <2>2. \/ wire' = wire
        \/ \E ok \in BOOLEAN, copy \in {Garbage} \cup 0..MaxCopies :
              wire' = Append(wire, Data(ok, format, copy))
    BY <1>0, <1>10, AnswerFacts
  <2>3. \A ok \in BOOLEAN, copy \in {Garbage} \cup 0..MaxCopies :
           Data(ok, format, copy) \in ClientPdus
    BY <1>0, <2>1 DEF ClientPdus
  <2>4. wire' \in Seq(ClientPdus)
    BY <1>0, <1>b, <2>2, <2>3
  <2> QED  BY <1>0, <2>1, <2>4 DEF ValueTypes, PduTypes
<1>11. CASE Copy
  <2>1. /\ UNCHANGED <<serverPc, announced, asked, inbox, flags, channelPc,
                       settled, format, mime, list, wire>>
        /\ guiPc' \in {"idle", "collect", "offer"}
        /\ infoFiles' \in {0, infoFiles}
    BY <1>11 DEF Copy, serverVars, plugin, channelLocals
  <2>2. clipboard.copy < MaxCopies
        /\ \E kind \in Kinds : clipboard' = [kind |-> kind, copy |-> clipboard.copy + 1]
    BY <1>11 DEF Copy
  <2>3. clipboard' \in [kind : Kinds \cup {"other"}, copy : 0..MaxCopies]
    <3>1. clipboard.copy + 1 \in 0..MaxCopies
      BY <1>0, <2>2 DEF ValueTypes
    <3> QED  BY <2>2, <3>1
  <2>4. infoFiles' \in 0..MaxCopies
    BY <1>0, <2>1 DEF ValueTypes
  <2> QED  BY <1>0, <2>1, <2>3, <2>4 DEF ValueTypes, PduTypes
<1>12. CASE CollectFiles
  <2>1. /\ UNCHANGED <<serverPc, announced, asked, inbox, flags, channelPc,
                       settled, format, mime, list, wire, clipboard>>
        /\ guiPc' \in {"idle", "offer"}
        /\ infoFiles' \in {clipboard.copy, infoFiles}
    BY <1>12 DEF CollectFiles, serverVars, plugin, channelLocals
  <2>2. infoFiles' \in 0..MaxCopies
    BY <1>0, <2>1 DEF ValueTypes
  <2> QED  BY <1>0, <2>1, <2>2 DEF ValueTypes, PduTypes
<1>13. CASE Offer
  <2>1. /\ UNCHANGED <<serverPc, announced, asked, inbox, flags, channelPc,
                       settled, format, mime, wire, clipboard, infoFiles>>
        /\ guiPc' = "send"
        /\ list' = List(Offers(clipboard.kind), "longNames" \in flags, clipboard.copy)
    BY <1>13 DEF Offer, serverVars, channelLocals
  <2>2. clipboard.kind \in Kinds \cup {"other"} /\ clipboard.copy \in 0..MaxCopies
    BY <1>0 DEF ValueTypes
  <2>3. list' \in ClientPdus
    BY <2>1, <2>2, ClientPduFacts
  <2>4. list'.type = "list"
    BY <2>1, PduFacts
  <2> QED  BY <1>0, <2>1, <2>3, <2>4 DEF ValueTypes, PduTypes
<1>14. CASE SendOffer
  <2>1. /\ UNCHANGED <<serverPc, announced, asked, inbox, flags, channelPc,
                       settled, format, mime, clipboard, infoFiles, list>>
        /\ guiPc' = "idle" /\ wire' = Append(wire, list)
    BY <1>14 DEF SendOffer, serverVars, plugin, channelLocals
  <2>2. wire' \in Seq(ClientPdus)
    BY <1>0, <1>b, <2>1
  <2> QED  BY <1>0, <2>1, <2>2 DEF ValueTypes, PduTypes
<1>15. CASE UNCHANGED vars
  BY <1>0, <1>15 DEF ValueTypes, PduTypes, vars, serverVars, plugin, channelLocals, guiVars
<1> QED  BY <1>1, <1>2, <1>3, <1>4, <1>5, <1>6, <1>7, <1>8, <1>9, <1>10, <1>11, <1>12,
            <1>13, <1>14, <1>15 DEF Next, Server, Channel, Gui

-----------------------------------------------------------------------------
(* The opening of the channel.                                              *)

\* The server's PDUs come in their order, and the client is silent until it has
\* seen MonitorReady.
LEMMA OpeningStep == TypeInv /\ Opening /\ Requests /\ [Next]_vars => Opening'
<1> SUFFICES ASSUME TypeInv, Opening, Requests, [Next]_vars PROVE Opening'
  OBVIOUS
<1>0. /\ inbox \in Seq(ServerPdus) /\ wire \in Seq(ClientPdus)
      /\ serverPc \in {"announce", "ready", "up"} /\ published \in BOOLEAN
  BY DEF TypeInv, FlagTypes, ValueTypes, PduTypes
<1>a. /\ serverPc = "announce" => inbox = <<>> /\ flags = {}
      /\ serverPc = "ready" => \A i \in DOMAIN inbox : inbox[i].type = "caps"
      /\ \A i \in DOMAIN inbox : inbox[i].type = "caps" => inbox[i].flags = announced
      /\ \A i, j \in DOMAIN inbox :
            i < j /\ inbox[i].type # "caps" => inbox[j].type = "request"
      /\ published => /\ serverPc = "up"
                      /\ \A i \in DOMAIN inbox : inbox[i].type = "request"
      /\ ~published => /\ wire = <<>> /\ guiPc = "idle" /\ channelPc = "idle"
                       /\ settled = -1
  BY DEF Opening
<1>b. Requested => published
  <2>1. \A i \in DOMAIN wire : wire # <<>>
    BY <1>0
  <2> QED  BY <1>a, <2>1 DEF Requests
<1>c. ASSUME NEW e \in ServerPdus, inbox' = Append(inbox, e)
      PROVE  /\ \A i \in DOMAIN inbox' :
                   \/ i \in DOMAIN inbox /\ inbox'[i] = inbox[i] /\ i < Len(inbox')
                   \/ i = Len(inbox') /\ inbox'[i] = e
             /\ \A i, j \in DOMAIN inbox' :
                   i < j => i \in DOMAIN inbox /\ inbox'[i] = inbox[i]
  <2>1. /\ inbox' \in Seq(ServerPdus)
        /\ \A i \in DOMAIN inbox' :
              \/ i \in DOMAIN inbox /\ inbox'[i] = inbox[i] /\ i < Len(inbox')
              \/ i = Len(inbox') /\ inbox'[i] = e
    BY <1>0, <1>c, AppendFacts
  <2>2. \A i, j \in DOMAIN inbox' : i < j => i # Len(inbox')
    BY <2>1
  <2> QED  BY <2>1, <2>2
<1>d. ASSUME inbox # <<>>, inbox' = Tail(inbox)
      PROVE  /\ Head(inbox) = inbox[1] /\ 1 \in DOMAIN inbox
             /\ \A i \in DOMAIN inbox' : /\ i + 1 \in DOMAIN inbox /\ 1 < i + 1
                                         /\ inbox'[i] = inbox[i + 1]
             /\ \A i, j \in DOMAIN inbox' : i < j => i + 1 < j + 1
  BY <1>0, <1>d, TailFacts
<1>1. CASE ServerAnnounces
  <2>1. /\ serverPc = "announce" /\ serverPc' = "ready"
        /\ UNCHANGED <<flags, published, wire, guiPc, channelPc, settled>>
        /\ \/ \E features \in Announcements :
                 announced' = features /\ inbox' = Append(inbox, Caps(features))
           \/ UNCHANGED <<announced, inbox>>
    BY <1>1 DEF ServerAnnounces, plugin, channelLocals, guiVars
  <2>2. inbox = <<>> /\ ~published
    BY <1>a, <2>1
  <2>3. \A i \in DOMAIN inbox : FALSE
    BY <2>2
  <2>4. CASE UNCHANGED <<announced, inbox>>
    BY <1>a, <2>1, <2>2, <2>3, <2>4 DEF Opening
  <2>5. ASSUME NEW features \in Announcements, announced' = features,
               inbox' = Append(inbox, Caps(features))
        PROVE  Opening'
    <3>1. Caps(features) \in ServerPdus
      BY DEF ServerPdus
    <3>2. /\ \A i \in DOMAIN inbox' : inbox'[i] = Caps(features)
          /\ \A i, j \in DOMAIN inbox' : ~(i < j)
      BY <1>c, <2>3, <2>5, <3>1
    <3> QED  BY <1>a, <2>1, <2>2, <2>5, <3>2, PduFacts DEF Opening
  <2> QED  BY <2>1, <2>4, <2>5
<1>2. CASE ServerReady
  <2>1. /\ serverPc = "ready" /\ serverPc' = "up" /\ inbox' = Append(inbox, Ready)
        /\ UNCHANGED <<flags, announced, published, wire, guiPc, channelPc, settled>>
    BY <1>2 DEF ServerReady, plugin, channelLocals, guiVars
  <2>2. Ready \in ServerPdus
    BY DEF ServerPdus
  <2>3. ~published
    BY <1>a, <2>1
  <2>4. \A i, j \in DOMAIN inbox' : i < j => inbox'[i].type = "caps"
    BY <1>a, <1>c, <2>1, <2>2
  <2>5. \A i \in DOMAIN inbox' : inbox'[i].type = "caps" => inbox'[i].flags = announced
    BY <1>a, <1>c, <2>1, <2>2, PduFacts
  <2> QED  BY <1>a, <2>1, <2>3, <2>4, <2>5 DEF Opening
<1>3. CASE ServerRequests
  <2>1. /\ ListsSent # {} /\ \E f \in Understood(LastList) : inbox' = Append(inbox, Request(f))
        /\ UNCHANGED <<serverPc, flags, announced, published, wire, guiPc, channelPc, settled>>
    BY <1>3 DEF ServerRequests, plugin, channelLocals, guiVars
  <2>2. PICK f \in Formats : inbox' = Append(inbox, Request(f))
    BY <1>0, <2>1, LastListFacts, UnderstoodFacts
  <2>3. Request(f) \in ServerPdus
    BY DEF ServerPdus
  <2>4. published
    <3>1. ListsSent \subseteq DOMAIN wire
      BY <1>0, LastListFacts
    <3>2. wire # <<>>
      BY <2>1, <3>1
    <3> QED  BY <1>a, <3>2
  <2>5. \A i \in DOMAIN inbox' : inbox'[i].type = "request"
    BY <1>a, <1>c, <2>2, <2>3, <2>4, PduFacts
  <2> QED  BY <1>a, <2>1, <2>4, <2>5 DEF Opening
<1>4. CASE ServerCapabilities
  <2>1. /\ inbox # <<>> /\ Head(inbox).type = "caps" /\ inbox' = Tail(inbox)
        /\ UNCHANGED <<serverPc, announced, published, wire, guiPc, channelPc, settled>>
    BY <1>4 DEF ServerCapabilities, Receives, serverVars, channelLocals, guiVars
  <2>2. ~published /\ serverPc # "announce"
    BY <1>a, <1>d, <2>1
  <2>3. /\ serverPc' = "ready" => \A i \in DOMAIN inbox' : inbox'[i].type = "caps"
        /\ \A i \in DOMAIN inbox' : inbox'[i].type = "caps" => inbox'[i].flags = announced
        /\ \A i, j \in DOMAIN inbox' :
              i < j /\ inbox'[i].type # "caps" => inbox'[j].type = "request"
    BY <1>a, <1>d, <2>1
  <2> QED  BY <1>a, <2>1, <2>2, <2>3 DEF Opening
<1>5. CASE MonitorReady
  <2>1. /\ inbox # <<>> /\ Head(inbox).type = "ready" /\ inbox' = Tail(inbox)
        /\ published'
        /\ UNCHANGED <<serverPc, announced, wire, guiPc, settled>>
    BY <1>5 DEF MonitorReady, Receives, serverVars, channelLocals, guiVars
  <2>2. serverPc = "up"
    BY <1>0, <1>a, <1>d, <2>1
  <2>3. \A i \in DOMAIN inbox' : inbox'[i].type = "request"
    BY <1>a, <1>d, <2>1
  <2> QED  BY <2>1, <2>2, <2>3 DEF Opening
<1>6. CASE published /\ UNCHANGED <<serverPc, announced, published>>
           /\ (inbox' = inbox \/ (inbox # <<>> /\ inbox' = Tail(inbox)))
  <2>1. \A i \in DOMAIN inbox' : inbox'[i].type = "request"
    BY <1>a, <1>d, <1>6
  <2> QED  BY <1>a, <1>6, <2>1 DEF Opening
<1>7. CASE ClientCapabilities \/ CheckInitialList \/ SendInitialList \/ AnswerRequest
  <2>1. /\ channelPc # "idle" /\ UNCHANGED <<serverPc, announced, published, inbox>>
    <3>1. CASE ClientCapabilities
      BY <3>1 DEF ClientCapabilities, serverVars
    <3>2. CASE CheckInitialList
      BY <3>2 DEF CheckInitialList, serverVars
    <3>3. CASE SendInitialList
      BY <3>3 DEF SendInitialList, serverVars
    <3>4. CASE AnswerRequest
      BY <3>4 DEF AnswerRequest, serverVars
    <3> QED  BY <1>7, <3>1, <3>2, <3>3, <3>4
  <2>2. published
    BY <1>a, <2>1
  <2> QED  BY <1>6, <2>1, <2>2
<1>8. CASE TakeRequest
  <2>1. /\ inbox # <<>> /\ Head(inbox).type = "request" /\ inbox' = Tail(inbox)
        /\ UNCHANGED <<serverPc, announced, published>>
    BY <1>8 DEF TakeRequest, Receives, serverVars
  <2>2. Requested
    <3>1. Head(inbox) = inbox[1] /\ 1 \in DOMAIN inbox
      BY <1>0, <2>1, TailFacts
    <3> QED  BY <2>1, <3>1 DEF Requested
  <2> QED  BY <1>6, <1>b, <2>1, <2>2
<1>9. CASE Copy
  <2>1. /\ UNCHANGED <<serverPc, announced, published, inbox, flags, wire, channelPc, settled>>
        /\ ~published => guiPc' = "idle"
    BY <1>9 DEF Copy, serverVars, plugin, channelLocals
  <2> QED  BY <1>0, <1>a, <2>1 DEF Opening
<1>10. CASE CollectFiles \/ Offer \/ SendOffer
  <2>1. /\ guiPc # "idle" /\ UNCHANGED <<serverPc, announced, published, inbox>>
    BY <1>10 DEF CollectFiles, Offer, SendOffer, serverVars
  <2>2. published
    BY <1>a, <2>1
  <2> QED  BY <1>6, <2>1, <2>2
<1>11. CASE UNCHANGED vars
  BY <1>a, <1>11 DEF Opening, vars, serverVars, plugin, channelLocals, guiVars
<1> QED  BY <1>1, <1>2, <1>3, <1>4, <1>5, <1>7, <1>8, <1>9, <1>10, <1>11
         DEF Next, Server, Channel, Gui

\* The server asks for nothing before a list has been sent.
LEMMA RequestsStep == TypeInv /\ Requests /\ [Next]_vars => Requests'
<1> SUFFICES ASSUME TypeInv, Requests, [Next]_vars PROVE Requests'
  OBVIOUS
<1>0. /\ inbox \in Seq(ServerPdus) /\ wire \in Seq(ClientPdus)
      /\ Requested => \E i \in DOMAIN wire : wire[i].type = "list"
  BY DEF TypeInv, PduTypes, Requests
<1>1. wire' = wire \/ \E pdu \in ClientPdus : wire' = Append(wire, pdu)
  <2>1. wire' \in Seq(ClientPdus)
    BY TypesStep DEF PduTypes
  <2>2. wire' = wire \/ \E pdu : wire' = Append(wire, pdu)
    <3>1. CASE Server
      BY <3>1 DEF Server, ServerAnnounces, ServerReady, ServerRequests
    <3>2. CASE Channel
      BY <3>2 DEF Channel, ServerCapabilities, MonitorReady, ClientCapabilities,
         CheckInitialList, SendInitialList, TakeRequest, AnswerRequest
    <3>3. CASE Copy \/ Gui
      BY <3>3 DEF Copy, Gui, CollectFiles, Offer, SendOffer
    <3> QED  BY <3>1, <3>2, <3>3 DEF Next, vars
  <2>3. ASSUME NEW pdu, wire' = Append(wire, pdu) PROVE pdu \in ClientPdus
    <3>1. wire'[Len(wire) + 1] = pdu /\ Len(wire) + 1 \in DOMAIN wire'
      BY <1>0, <2>3
    <3> QED  BY <2>1, <3>1
  <2> QED  BY <2>2, <2>3
<1>2. (\E i \in DOMAIN wire : wire[i].type = "list")
      => \E i \in DOMAIN wire' : wire'[i].type = "list"
  <2>1. \A i \in DOMAIN wire : i \in DOMAIN wire' /\ wire'[i] = wire[i]
    <3>1. CASE wire' = wire
      BY <3>1
    <3>2. ASSUME NEW pdu \in ClientPdus, wire' = Append(wire, pdu)
          PROVE  \A i \in DOMAIN wire : i \in DOMAIN wire' /\ wire'[i] = wire[i]
      BY <1>0, <3>2, AppendFacts
    <3> QED  BY <1>1, <3>1, <3>2
  <2> QED  BY <2>1
<1>3. Requested' => Requested \/ \E i \in DOMAIN wire : wire[i].type = "list"
  <2>1. CASE ServerRequests
    <3>1. ListsSent # {}
      BY <2>1 DEF ServerRequests
    <3> QED  BY <1>0, <3>1, LastListFacts
  <2>2. CASE ServerAnnounces \/ ServerReady
    <3>1. /\ channelPc' = channelPc
          /\ \/ inbox' = inbox
             \/ \E pdu \in ServerPdus : pdu.type # "request" /\ inbox' = Append(inbox, pdu)
      <4>1. /\ \A features \in Announcements : Caps(features) \in ServerPdus
            /\ Ready \in ServerPdus
        BY DEF ServerPdus
      <4>2. "caps" # "request" /\ "ready" # "request"
        OBVIOUS
      <4> QED  BY <2>2, <4>1, <4>2, PduFacts DEF ServerAnnounces, ServerReady
    <3>2. ASSUME NEW pdu \in ServerPdus, pdu.type # "request", inbox' = Append(inbox, pdu)
          PROVE  \A i \in DOMAIN inbox' :
                    inbox'[i].type = "request" => i \in DOMAIN inbox /\ inbox'[i] = inbox[i]
      BY <1>0, <3>2, AppendFacts
    <3> QED  BY <3>1, <3>2 DEF Requested
  <2>3. CASE TakeRequest \/ ServerCapabilities \/ MonitorReady
    <3>1. /\ inbox # <<>> /\ inbox' = Tail(inbox)
          /\ channelPc' = "answer" => Head(inbox).type = "request" \/ channelPc = "answer"
      BY <2>3 DEF TakeRequest, ServerCapabilities, MonitorReady, Receives
    <3>2. /\ Head(inbox) = inbox[1] /\ 1 \in DOMAIN inbox
          /\ \A i \in DOMAIN inbox' : i + 1 \in DOMAIN inbox /\ inbox'[i] = inbox[i + 1]
      BY <1>0, <3>1, TailFacts
    <3> QED  BY <3>1, <3>2 DEF Requested
  <2>4. CASE UNCHANGED inbox /\ (channelPc' = "answer" => channelPc = "answer")
    BY <2>4 DEF Requested
  <2>5. CASE ClientCapabilities \/ CheckInitialList \/ SendInitialList \/ AnswerRequest
    BY <2>4, <2>5 DEF ClientCapabilities, CheckInitialList, SendInitialList, AnswerRequest
  <2>6. CASE Copy \/ Gui
    BY <2>4, <2>6 DEF Copy, Gui, CollectFiles, Offer, SendOffer
  <2>7. CASE UNCHANGED vars
    BY <2>4, <2>7 DEF vars
  <2> QED  BY <2>1, <2>2, <2>3, <2>5, <2>6, <2>7 DEF Next, Server, Channel
<1> QED  BY <1>0, <1>2, <1>3 DEF Requests

-----------------------------------------------------------------------------
(* Names, lists and the last copy.                                          *)

\* Whether lists have long names does not change once the client has spoken.
LEMMA NamesStep == TypeInv /\ Opening /\ Names /\ [Next]_vars => Names'
<1> SUFFICES ASSUME TypeInv, Opening, Names, [Next]_vars PROVE Names'
  OBVIOUS
<1>0. /\ inbox \in Seq(ServerPdus) /\ wire \in Seq(ClientPdus)
      /\ list \in ClientPdus /\ ValueTypes
      /\ channelPc = "answer" => format \in Formats
  BY DEF TypeInv, PduTypes
<1>a. /\ "longNames" \in flags => "longNames" \in announced
      /\ \A i \in DOMAIN wire :
            /\ wire[i].type = "caps" =>
                  ("longNames" \in wire[i].flags <=> "longNames" \in flags)
            /\ wire[i].type = "list" => wire[i].long = ("longNames" \in flags)
      /\ guiPc = "send" => list.long = ("longNames" \in flags)
  BY DEF Names
<1>b. ASSUME NEW e \in ClientPdus, wire' = Append(wire, e)
      PROVE  \A i \in DOMAIN wire' :
                (i \in DOMAIN wire /\ wire'[i] = wire[i]) \/ wire'[i] = e
  BY <1>0, <1>b, AppendFacts
<1>c. ASSUME UNCHANGED <<wire, list>>, guiPc' = "send" => guiPc = "send",
             "longNames" \in flags' <=> "longNames" \in flags,
             "longNames" \in flags' => "longNames" \in announced'
      PROVE  Names'
  BY <1>a, <1>c DEF Names
<1>d. ~published => guiPc = "idle" /\ \A i \in DOMAIN wire : FALSE
  BY DEF Opening
<1>1. CASE ServerAnnounces
  <2>1. serverPc = "announce" /\ UNCHANGED <<flags, wire, list, guiPc>>
    BY <1>1 DEF ServerAnnounces, plugin, guiVars
  <2>2. "longNames" \notin flags'
    BY <2>1 DEF Opening
  <2> QED  BY <1>a, <2>1, <2>2 DEF Names
<1>2. CASE ServerReady \/ ServerRequests
  BY <1>a, <1>c, <1>2 DEF ServerReady, ServerRequests, plugin, guiVars
<1>3. CASE ServerCapabilities
  <2>1. /\ inbox # <<>> /\ Head(inbox).type = "caps" /\ flags' = Head(inbox).flags
        /\ UNCHANGED <<announced, wire, list, guiPc>>
    BY <1>3 DEF ServerCapabilities, Receives, serverVars, guiVars
  <2>2. Head(inbox) = inbox[1] /\ 1 \in DOMAIN inbox
    BY <1>0, <2>1, TailFacts
  <2>3. flags' = announced /\ ~published
    BY <2>1, <2>2 DEF Opening
  <2> QED  BY <1>d, <2>1, <2>3 DEF Names
<1>4. CASE MonitorReady
  <2>1. /\ inbox # <<>> /\ Head(inbox).type = "ready"
        /\ "longNames" \in flags' => "longNames" \in flags
        /\ UNCHANGED <<announced, wire, list, guiPc>>
    BY <1>4 DEF MonitorReady, Receives, serverVars, guiVars
  <2>2. Head(inbox) = inbox[1] /\ 1 \in DOMAIN inbox
    BY <1>0, <2>1, TailFacts
  <2>3. ~published
    BY <2>1, <2>2 DEF Opening
  <2> QED  BY <1>a, <1>d, <2>1, <2>3 DEF Names
<1>5. CASE ClientCapabilities
  <2>1. /\ flags' = Wanted \cap flags /\ wire' = Append(wire, Caps(Wanted \cap flags))
        /\ UNCHANGED <<announced, list, guiPc>>
    BY <1>5 DEF ClientCapabilities, serverVars, guiVars
  <2>2. "longNames" \in flags' <=> "longNames" \in flags
    BY <2>1 DEF Wanted
  <2>3. Caps(flags') \in ClientPdus /\ wire' = Append(wire, Caps(flags'))
    <3>1. Wanted \cap flags \in SUBSET Wanted
      OBVIOUS
    <3> QED  BY <2>1, <3>1, ClientPduFacts
  <2>4. \A i \in DOMAIN wire' :
           (i \in DOMAIN wire /\ wire'[i] = wire[i]) \/ wire'[i] = Caps(flags')
    BY <1>b, <2>3
  <2>5. Caps(flags').type = "caps" /\ Caps(flags').flags = flags'
    BY PduFacts
  <2>6. ("longNames" \in flags') = ("longNames" \in flags)
    BY <2>2
  <2> QED  BY <1>a, <2>1, <2>2, <2>4, <2>5, <2>6 DEF Names
<1>6. CASE CheckInitialList \/ TakeRequest
  BY <1>a, <1>c, <1>6 DEF CheckInitialList, TakeRequest, serverVars, plugin, guiVars
<1>7. CASE SendInitialList
  <2>1. /\ UNCHANGED <<announced, flags, list, guiPc>>
        /\ wire' = Append(wire, List({}, "longNames" \in flags, 0))
    BY <1>7 DEF SendInitialList, serverVars, plugin, guiVars
  <2>2. PICK e : e = List(Offers("other"), "longNames" \in flags, 0)
    OBVIOUS
  <2>3. e \in ClientPdus /\ wire' = Append(wire, e)
    <3>1. "other" \in Kinds \cup {"other"} /\ 0 \in 0..MaxCopies
      BY CliprdrAssumption
    <3> QED  BY <2>1, <2>2, <3>1, ClientPduFacts, PduFacts
  <2>4. e.type = "list" /\ e.long = ("longNames" \in flags)
    BY <2>2, PduFacts
  <2>5. \A i \in DOMAIN wire' : (i \in DOMAIN wire /\ wire'[i] = wire[i]) \/ wire'[i] = e
    BY <1>b, <2>3
  <2> QED  BY <1>a, <2>1, <2>4, <2>5 DEF Names
<1>8. CASE AnswerRequest
  <2>1. /\ UNCHANGED <<announced, flags, list, guiPc>> /\ channelPc = "answer"
        /\ \/ wire' = wire
           \/ \E ok \in BOOLEAN, copy \in {Garbage} \cup 0..MaxCopies :
                 wire' = Append(wire, Data(ok, format, copy))
    BY <1>0, <1>8, AnswerFacts DEF AnswerRequest, serverVars, plugin, guiVars
  <2>2. CASE wire' = wire
    BY <1>a, <1>c, <2>1, <2>2
  <2>3. ASSUME NEW ok \in BOOLEAN, NEW copy \in {Garbage} \cup 0..MaxCopies,
               wire' = Append(wire, Data(ok, format, copy))
        PROVE  Names'
    <3>1. Data(ok, format, copy) \in ClientPdus
      BY <1>0, <2>1, <2>3 DEF ClientPdus
    <3>2. Data(ok, format, copy).type = "data"
      BY PduFacts
    <3>3. \A i \in DOMAIN wire' :
             (i \in DOMAIN wire /\ wire'[i] = wire[i]) \/ wire'[i].type = "data"
      BY <1>b, <2>3, <3>1, <3>2
    <3> QED  BY <1>a, <2>1, <3>3 DEF Names
  <2> QED  BY <2>1, <2>2, <2>3
<1>9. CASE Copy \/ CollectFiles
  <2>1. /\ UNCHANGED <<announced, flags, list, wire>> /\ guiPc' # "send"
    BY <1>9 DEF Copy, CollectFiles, serverVars, plugin
  <2> QED  BY <1>a, <1>c, <2>1
<1>10. CASE Offer
  <2>1. /\ UNCHANGED <<announced, flags, wire>>
        /\ list' = List(Offers(clipboard.kind), "longNames" \in flags, clipboard.copy)
    BY <1>10 DEF Offer, serverVars
  <2>2. list'.long = ("longNames" \in flags)
    BY <2>1, PduFacts
  <2> QED  BY <1>a, <2>1, <2>2 DEF Names
<1>11. CASE SendOffer
  <2>1. /\ guiPc = "send" /\ wire' = Append(wire, list) /\ guiPc' = "idle"
        /\ UNCHANGED <<announced, flags, list>>
    BY <1>11 DEF SendOffer, serverVars, plugin
  <2>2. list.type = "list"
    BY DEF TypeInv, PduTypes
  <2>3. \A i \in DOMAIN wire' : (i \in DOMAIN wire /\ wire'[i] = wire[i]) \/ wire'[i] = list
    BY <1>0, <1>b, <2>1
  <2> QED  BY <1>a, <2>1, <2>2, <2>3 DEF Names
<1>12. CASE UNCHANGED vars
  BY <1>a, <1>c, <1>12 DEF vars, serverVars, plugin, guiVars
<1> QED  BY <1>1, <1>2, <1>3, <1>4, <1>5, <1>6, <1>7, <1>8, <1>9, <1>10, <1>11, <1>12
         DEF Next, Server, Channel, Gui

\* Every list says what its copy was, and what can be asked for is there.
LEMMA ListsStep == TypeInv /\ Opening /\ Lists /\ [Next]_vars => Lists'
<1> SUFFICES ASSUME TypeInv, Opening, Lists, [Next]_vars PROVE Lists'
  OBVIOUS
<1>0. /\ wire \in Seq(ClientPdus) /\ list \in ClientPdus /\ list.type = "list"
      /\ ValueTypes
      /\ channelPc = "answer" => format \in Formats
  BY DEF TypeInv, PduTypes
<1>a. /\ clipboard.copy = 0 => clipboard.kind = "other"
      /\ guiPc # "idle" => clipboard.copy > 0 /\ clipboard.kind # "other"
      /\ guiPc = "send" => list.copy = clipboard.copy
                           /\ list.formats = Offers(clipboard.kind)
      /\ guiPc \in {"offer", "send"} /\ clipboard.kind \in {"files", "links"} =>
            infoFiles = clipboard.copy /\ clipboard.kind = "files"
      /\ guiPc = "collect" => clipboard.kind \in {"files", "links"}
      /\ \A i \in DOMAIN wire :
            wire[i].type = "list" =>
               /\ wire[i].copy <= clipboard.copy
               /\ guiPc # "idle" => wire[i].copy < clipboard.copy
               /\ wire[i].copy = clipboard.copy =>
                     /\ wire[i].formats = Offers(clipboard.kind)
                     /\ clipboard.kind = "files" => infoFiles = clipboard.copy
  BY DEF Lists
<1>b. ASSUME NEW e \in ClientPdus, wire' = Append(wire, e)
      PROVE  \A i \in DOMAIN wire' :
                (i \in DOMAIN wire /\ wire'[i] = wire[i]) \/ wire'[i] = e
  BY <1>0, <1>b, AppendFacts
<1>c. ASSUME UNCHANGED <<clipboard, guiPc, list, infoFiles>>,
             \A i \in DOMAIN wire' :
                (i \in DOMAIN wire /\ wire'[i] = wire[i]) \/ wire'[i].type # "list"
      PROVE  Lists'
  BY <1>a, <1>c DEF Lists
<1>d. clipboard.copy \in Nat /\ \A i \in DOMAIN wire :
         wire[i].type = "list" => wire[i].copy \in Nat
  <2>1. clipboard.copy \in Nat /\ \A n \in 0..MaxCopies : n \in Nat
    BY <1>0 DEF ValueTypes
  <2>2. \A i \in DOMAIN wire : wire[i] \in ClientPdus
    BY <1>0
  <2> QED  BY <2>1, <2>2, PduFacts
<1>1. CASE UNCHANGED <<clipboard, guiPc, list, infoFiles, wire>>
  BY <1>c, <1>1
<1>2. CASE Server
  BY <1>1, <1>2 DEF Server, ServerAnnounces, ServerReady, ServerRequests, guiVars
<1>3. CASE ServerCapabilities \/ MonitorReady \/ CheckInitialList \/ TakeRequest
  BY <1>1, <1>3 DEF ServerCapabilities, MonitorReady, CheckInitialList, TakeRequest, guiVars
<1>4. CASE ClientCapabilities
  <2>1. /\ UNCHANGED <<clipboard, guiPc, list, infoFiles>>
        /\ wire' = Append(wire, Caps(Wanted \cap flags))
    BY <1>4 DEF ClientCapabilities, guiVars
  <2>2. Caps(Wanted \cap flags) \in ClientPdus
    <3>1. Wanted \cap flags \in SUBSET Wanted
      OBVIOUS
    <3> QED  BY <3>1, ClientPduFacts
  <2>3. Caps(Wanted \cap flags).type # "list"
    BY PduFacts
  <2> QED  BY <1>b, <1>c, <2>1, <2>2, <2>3
<1>5. CASE AnswerRequest
  <2>1. /\ UNCHANGED <<clipboard, guiPc, list, infoFiles>> /\ channelPc = "answer"
        /\ \/ wire' = wire
           \/ \E ok \in BOOLEAN, copy \in {Garbage} \cup 0..MaxCopies :
                 wire' = Append(wire, Data(ok, format, copy))
    BY <1>0, <1>5, AnswerFacts DEF AnswerRequest, guiVars
  <2>2. CASE wire' = wire
    BY <1>1, <2>1, <2>2
  <2>3. ASSUME NEW ok \in BOOLEAN, NEW copy \in {Garbage} \cup 0..MaxCopies,
               wire' = Append(wire, Data(ok, format, copy))
        PROVE  Lists'
    <3>1. Data(ok, format, copy) \in ClientPdus
      BY <1>0, <2>1, <2>3 DEF ClientPdus
    <3>2. Data(ok, format, copy).type # "list"
      BY PduFacts
    <3> QED  BY <1>b, <1>c, <2>1, <2>3, <3>1, <3>2
  <2> QED  BY <2>1, <2>2, <2>3
<1>6. CASE SendInitialList
  <2>1. /\ UNCHANGED <<clipboard, guiPc, list, infoFiles>>
        /\ wire' = Append(wire, List({}, "longNames" \in flags, 0))
    BY <1>6 DEF SendInitialList, plugin, guiVars
  <2>2. PICK e : e = List(Offers("other"), "longNames" \in flags, 0)
    OBVIOUS
  <2>3. e \in ClientPdus /\ wire' = Append(wire, e)
    <3>1. "other" \in Kinds \cup {"other"} /\ 0 \in 0..MaxCopies
      BY CliprdrAssumption
    <3> QED  BY <2>1, <2>2, <3>1, ClientPduFacts, PduFacts
  <2>4. e.type = "list" /\ e.copy = 0 /\ e.formats = Offers("other")
    BY <2>2, PduFacts
  <2>5. /\ 0 <= clipboard.copy
        /\ guiPc # "idle" => 0 < clipboard.copy
        /\ 0 = clipboard.copy => clipboard.kind = "other"
    BY <1>a, <1>d
  <2>6. \A i \in DOMAIN wire' : (i \in DOMAIN wire /\ wire'[i] = wire[i]) \/ wire'[i] = e
    BY <1>b, <2>3
  <2>7. 0 = clipboard.copy => /\ Offers("other") = Offers(clipboard.kind)
                              /\ clipboard.kind # "files"
    <3>1. CASE clipboard.kind = "other"
      BY <3>1
    <3> QED  BY <2>5, <3>1
  <2>8. ASSUME NEW i \in DOMAIN wire', wire'[i].type = "list"
        PROVE  /\ wire'[i].copy <= clipboard.copy
               /\ guiPc # "idle" => wire'[i].copy < clipboard.copy
               /\ wire'[i].copy = clipboard.copy =>
                     /\ wire'[i].formats = Offers(clipboard.kind)
                     /\ clipboard.kind = "files" => infoFiles = clipboard.copy
    <3>1. CASE i \in DOMAIN wire /\ wire'[i] = wire[i]
      BY <1>a, <2>8, <3>1
    <3>2. CASE wire'[i] = e
      <4>1. /\ wire'[i].copy = 0 /\ wire'[i].formats = Offers("other")
            /\ wire'[i].copy <= clipboard.copy
        BY <2>4, <2>5, <3>2
      <4>2. guiPc # "idle" => wire'[i].copy < clipboard.copy
        BY <2>5, <4>1
      <4>3. wire'[i].copy = clipboard.copy =>
               wire'[i].formats = Offers(clipboard.kind) /\ clipboard.kind # "files"
        BY <2>7, <4>1
      <4> QED  BY <4>1, <4>2, <4>3
    <3> QED  BY <2>6, <3>1, <3>2
  <2> QED  BY <1>a, <2>1, <2>8 DEF Lists
<1>7. CASE Copy
  <2>1. PICK kind \in Kinds : clipboard' = [kind |-> kind, copy |-> clipboard.copy + 1]
            /\ guiPc' = IF ~published \/ kind = "other" THEN "idle"
                        ELSE IF kind \in {"files", "links"} THEN "collect"
                        ELSE "offer"
    BY <1>7 DEF Copy
  <2>2. UNCHANGED <<list, wire>>
    BY <1>7 DEF Copy
  <2>3. clipboard'.kind = kind /\ clipboard'.copy = clipboard.copy + 1
    BY <2>1
  <2>4. \A i \in DOMAIN wire :
           wire[i].type = "list" => wire[i].copy < clipboard'.copy
                                    /\ wire[i].copy # clipboard'.copy
                                    /\ wire[i].copy <= clipboard'.copy
    BY <1>a, <1>d, <2>3
  <2>5. clipboard'.copy > 0 /\ clipboard'.copy # 0
    BY <1>d, <2>3
  <2>6. /\ guiPc' # "idle" => kind # "other"
        /\ guiPc' # "send" /\ (guiPc' = "offer" => kind \notin {"files", "links"})
        /\ guiPc' = "collect" => kind \in {"files", "links"}
    BY <2>1
  <2> QED  BY <2>2, <2>3, <2>4, <2>5, <2>6 DEF Lists
<1>8. CASE CollectFiles
  <2>1. /\ guiPc = "collect" /\ UNCHANGED <<clipboard, list, wire>>
        /\ \/ clipboard.kind = "files" /\ infoFiles' = clipboard.copy /\ guiPc' = "offer"
           \/ clipboard.kind = "links" /\ guiPc' = "idle"
    BY <1>8 DEF CollectFiles
  <2>2. \A i \in DOMAIN wire :
           wire[i].type = "list" => wire[i].copy < clipboard.copy
                                    /\ wire[i].copy # clipboard.copy
    BY <1>a, <1>d, <2>1
  <2> QED  BY <1>a, <2>1, <2>2 DEF Lists
<1>9. CASE Offer
  <2>1. /\ guiPc = "offer" /\ guiPc' = "send" /\ UNCHANGED <<clipboard, wire, infoFiles>>
        /\ list' = List(Offers(clipboard.kind), "longNames" \in flags, clipboard.copy)
    BY <1>9 DEF Offer
  <2>2. list'.formats = Offers(clipboard.kind) /\ list'.copy = clipboard.copy
    BY <2>1, PduFacts
  <2> QED  BY <1>a, <2>1, <2>2 DEF Lists
<1>10. CASE SendOffer
  <2>1. /\ guiPc = "send" /\ wire' = Append(wire, list) /\ guiPc' = "idle"
        /\ UNCHANGED <<clipboard, list, infoFiles>>
    BY <1>10 DEF SendOffer
  <2>2. \A i \in DOMAIN wire' : (i \in DOMAIN wire /\ wire'[i] = wire[i]) \/ wire'[i] = list
    BY <1>0, <1>b, <2>1
  <2>3. /\ list.copy = clipboard.copy /\ list.formats = Offers(clipboard.kind)
        /\ clipboard.kind = "files" => infoFiles = clipboard.copy
        /\ clipboard.copy <= clipboard.copy
    BY <1>a, <1>d, <2>1
  <2> QED  BY <1>a, <2>1, <2>2, <2>3 DEF Lists
<1>11. CASE UNCHANGED vars
  BY <1>1, <1>11 DEF vars, guiVars
<1> QED  BY <1>2, <1>3, <1>4, <1>5, <1>6, <1>7, <1>8, <1>9, <1>10, <1>11
         DEF Next, Channel, Gui

\* After the initial list, the last copy is announced or about to be.
LEMMA SettledStep == TypeInv /\ Opening /\ Lists /\ Settled /\ [Next]_vars => Settled'
<1> SUFFICES ASSUME TypeInv, Opening, Lists, Settled, [Next]_vars PROVE Settled'
  OBVIOUS
<1>0. /\ inbox \in Seq(ServerPdus) /\ wire \in Seq(ClientPdus)
      /\ list \in ClientPdus /\ list.type = "list"
      /\ ValueTypes
      /\ channelPc = "answer" => format \in Formats
  BY DEF TypeInv, PduTypes
<1>a. /\ settled # -1 => channelPc \in {"idle", "answer"}
      /\ settled # -1 /\ settled < clipboard.copy /\ guiPc = "idle"
            /\ Offers(clipboard.kind) # {} => LastIs(clipboard.copy)
  BY DEF Settled
<1>b. clipboard.copy \in Int
  BY <1>0 DEF ValueTypes
<1>c. ASSUME UNCHANGED <<clipboard, guiPc, settled>>,
             channelPc' = channelPc \/ channelPc' \in {"idle", "answer"},
             \/ wire' = wire
             \/ \E e \in ClientPdus : e.type # "list" /\ wire' = Append(wire, e)
      PROVE  Settled'
  <2>1. LastIs(clipboard.copy) => LastIs(clipboard.copy)'
    <3>1. CASE wire' = wire
      BY <1>c, <3>1 DEF LastIs
    <3>2. ASSUME NEW e \in ClientPdus, e.type # "list", wire' = Append(wire, e)
          PROVE  LastIs(clipboard.copy) => LastIs(clipboard.copy)'
      <4>1. /\ \A i \in DOMAIN wire' : \/ i \in DOMAIN wire /\ wire'[i] = wire[i]
                                       \/ i = Len(wire') /\ wire'[i] = e
            /\ \A i \in DOMAIN wire : i \in DOMAIN wire' /\ wire'[i] = wire[i]
        BY <1>0, <3>2, AppendFacts
      <4> QED  BY <1>c, <3>2, <4>1 DEF LastIs
    <3> QED  BY <1>c, <3>1, <3>2
  <2> QED  BY <1>a, <1>c, <2>1 DEF Settled
<1>1. CASE Server
  BY <1>1, <1>c DEF Server, ServerAnnounces, ServerReady, ServerRequests, channelLocals, guiVars
<1>2. CASE ServerCapabilities \/ TakeRequest
  BY <1>2, <1>c DEF ServerCapabilities, TakeRequest, channelLocals, guiVars
<1>3. CASE MonitorReady
  <2>1. /\ inbox # <<>> /\ Head(inbox).type = "ready" /\ settled' = settled
    BY <1>3 DEF MonitorReady, Receives, channelLocals
  <2>2. Head(inbox) = inbox[1] /\ 1 \in DOMAIN inbox
    BY <1>0, <2>1, TailFacts
  <2>3. settled' = -1
    BY <2>1, <2>2 DEF Opening
  <2> QED  BY <2>3 DEF Settled
<1>4. CASE ClientCapabilities
  <2>1. channelPc = "capabilities" /\ settled' = settled
    BY <1>4 DEF ClientCapabilities, channelLocals
  <2>2. settled' = -1
    BY <1>a, <2>1
  <2> QED  BY <2>2 DEF Settled
<1>5. CASE CheckInitialList
  <2>1. /\ channelPc = "checkInitial" /\ UNCHANGED clipboard
        /\ settled' = settled \/ (settled' = clipboard.copy /\ channelPc' = "idle")
    BY <1>5 DEF CheckInitialList, guiVars
  <2>2. settled = -1
    BY <1>a, <2>1
  <2> QED  BY <1>b, <2>1, <2>2 DEF Settled
<1>6. CASE SendInitialList
  <2>1. UNCHANGED clipboard /\ settled' = clipboard.copy /\ channelPc' = "idle"
    BY <1>6 DEF SendInitialList, guiVars
  <2> QED  BY <1>b, <2>1 DEF Settled
<1>7. CASE AnswerRequest
  <2>1. /\ UNCHANGED <<clipboard, guiPc, settled>>
        /\ channelPc = "answer" /\ channelPc' = "idle"
        /\ \/ wire' = wire
           \/ \E ok \in BOOLEAN, copy \in {Garbage} \cup 0..MaxCopies :
                 wire' = Append(wire, Data(ok, format, copy))
    BY <1>0, <1>7, AnswerFacts DEF AnswerRequest, channelLocals, guiVars
  <2>2. ASSUME NEW ok \in BOOLEAN, NEW copy \in {Garbage} \cup 0..MaxCopies
        PROVE  Data(ok, format, copy) \in ClientPdus /\ Data(ok, format, copy).type # "list"
    <3>1. Data(ok, format, copy) \in ClientPdus
      BY <1>0, <2>1 DEF ClientPdus
    <3> QED  BY <3>1, PduFacts
  <2> QED  BY <1>c, <2>1, <2>2
<1>8. CASE Copy
  <2>1. PICK kind \in Kinds : clipboard' = [kind |-> kind, copy |-> clipboard.copy + 1]
            /\ guiPc' = IF ~published \/ kind = "other" THEN "idle"
                        ELSE IF kind \in {"files", "links"} THEN "collect"
                        ELSE "offer"
    BY <1>8 DEF Copy
  <2>2. UNCHANGED <<channelPc, settled>>
    BY <1>8 DEF Copy, channelLocals
  <2>3. CASE published /\ kind # "other"
    <3>1. guiPc' # "idle"
      BY <2>1, <2>3
    <3> QED  BY <1>a, <2>2, <3>1 DEF Settled
  <2>4. CASE ~published
    BY <2>2, <2>4 DEF Opening, Settled
  <2>5. CASE kind = "other"
    <3>1. Offers(clipboard'.kind) = {}
      BY <2>1, <2>5, PduFacts
    <3> QED  BY <1>a, <2>2, <3>1 DEF Settled
  <2> QED  BY <2>3, <2>4, <2>5
<1>9. CASE CollectFiles
  <2>1. /\ UNCHANGED <<channelPc, settled, clipboard>>
        /\ guiPc' # "idle" \/ clipboard.kind = "links"
    BY <1>9 DEF CollectFiles, channelLocals
  <2>2. Offers("links") = {}
    BY DEF Offers
  <2> QED  BY <1>a, <2>1, <2>2 DEF Settled
<1>10. CASE Offer
  BY <1>a, <1>10 DEF Offer, channelLocals, Settled
<1>11. CASE SendOffer
  <2>1. /\ guiPc = "send" /\ wire' = Append(wire, list)
        /\ UNCHANGED <<channelPc, settled, clipboard>>
    BY <1>11 DEF SendOffer, channelLocals
  <2>2. list.copy = clipboard.copy
    BY <2>1 DEF Lists
  <2>3. wire' \in Seq(ClientPdus) /\ Len(wire') \in DOMAIN wire' /\ wire'[Len(wire')] = list
    BY <1>0, <2>1, AppendFacts
  <2>4. \A j \in DOMAIN wire' : ~(j > Len(wire'))
    BY <2>3
  <2>5. LastIs(clipboard.copy)'
    BY <1>0, <2>1, <2>2, <2>3, <2>4 DEF LastIs
  <2> QED  BY <1>a, <2>1, <2>5 DEF Settled
<1>12. CASE UNCHANGED vars
  BY <1>12, <1>c DEF vars, channelLocals, guiVars
<1> QED  BY <1>1, <1>2, <1>3, <1>4, <1>5, <1>6, <1>7, <1>8, <1>9, <1>10, <1>11, <1>12
         DEF Next, Channel, Gui

-----------------------------------------------------------------------------
(* Theorems.                                                                *)

\* The invariant holds when the channel is set up.
LEMMA InitCliprdr == Init => CliprdrInv
<1> SUFFICES ASSUME Init PROVE CliprdrInv
  OBVIOUS
<1>1. FlagTypes
  BY DEF Init, FlagTypes
<1>2. ValueTypes
  BY CliprdrAssumption DEF Init, ValueTypes
<1>3. PduTypes
  <2>1. List(Offers("other"), FALSE, 0) \in ClientPdus
    <3>1. "other" \in Kinds \cup {"other"} /\ 0 \in 0..MaxCopies
      BY CliprdrAssumption
    <3> QED  BY <3>1, ClientPduFacts
  <2>2. list = List(Offers("other"), FALSE, 0) /\ inbox = <<>> /\ wire = <<>>
        /\ channelPc = "idle"
    BY PduFacts DEF Init
  <2>3. list \in ClientPdus /\ list.type = "list"
    BY <2>1, <2>2, PduFacts
  <2>4. inbox \in Seq(ServerPdus) /\ wire \in Seq(ClientPdus)
    BY <2>2
  <2> QED  BY <2>2, <2>3, <2>4 DEF PduTypes
<1> USE DEF Init
<1>4. Opening
  BY DEF Opening
<1>5. Names
  BY DEF Names
<1>6. Lists
  BY DEF Lists
<1>7. Requests
  BY DEF Requests, Requested
<1>8. Settled
  BY DEF Settled
<1> QED  BY <1>1, <1>2, <1>3, <1>4, <1>5, <1>6, <1>7, <1>8 DEF CliprdrInv, TypeInv

\* CliprdrInv is an invariant of the channel.
THEOREM Invariance == Spec => []CliprdrInv
<1>1. CliprdrInv /\ [Next]_vars => CliprdrInv'
  BY FlagTypesStep, TypesStep, OpeningStep, NamesStep, ListsStep, RequestsStep, SettledStep
     DEF CliprdrInv, TypeInv
<1> QED  BY <1>1, InitCliprdr, PTL DEF Spec

\* The variables have their types (cliprdrPlugin, client_t and the two threads).
THEOREM TypeCorrect == Spec => []TypeOK
<1>1. CliprdrInv => TypeOK
  <2> SUFFICES ASSUME CliprdrInv PROVE TypeOK
    OBVIOUS
  <2>1. FlagTypes /\ ValueTypes /\ PduTypes
    BY DEF CliprdrInv, TypeInv
  <2>2. \A i \in DOMAIN inbox : inbox[i] \in ServerPdus
    BY <2>1 DEF PduTypes
  <2>3. ClientPdu(list) /\ \A i \in DOMAIN wire : ClientPdu(wire[i])
    BY <2>1, PduFacts DEF PduTypes
  <2> QED  BY <2>1, <2>2, <2>3 DEF TypeOK, FlagTypes, ValueTypes
<1> QED  BY <1>1, Invariance, PTL

\* Every list that follows the client's capabilities has the names, long or
\* short, that the server reads it by (cliprdr_client_format_list), although the
\* two threads share useLongFormatNames without a lock.
THEOREM SameNames == Spec => []NamesAgreed
<1>1. CliprdrInv => NamesAgreed
  <2> SUFFICES ASSUME CliprdrInv, NEW i \in ListsSent, SentBefore(i, "caps") # {}
               PROVE  wire[i].long = LongAgreed(i)
    BY DEF NamesAgreed
  <2>1. wire \in Seq(ClientPdus) /\ Names
    BY DEF CliprdrInv, TypeInv, PduTypes
  <2>2. i \in DOMAIN wire /\ i \in 1..Len(wire) /\ wire[i].type = "list"
    BY <2>1, LastListFacts
  <2>3. \A j \in SentBefore(i, "caps") : j \in DOMAIN wire /\ wire[j].type = "caps"
    BY <2>1, <2>2 DEF SentBefore
  <2>4. wire[i].long = ("longNames" \in flags)
    BY <2>1, <2>2 DEF Names
  <2>5. LongAgreed(i) <=> "longNames" \in flags
    BY <2>1, <2>3 DEF LongAgreed, Names
  <2>6. LongAgreed(i) \in BOOLEAN /\ ("longNames" \in flags) \in BOOLEAN
    BY DEF LongAgreed
  <2>7. LongAgreed(i) = ("longNames" \in flags)
    <3> HIDE DEF LongAgreed
    <3> QED  BY <2>5, <2>6
  <2> QED  BY <2>4, <2>7
<1> QED  BY <1>1, Invariance, PTL

\* When both threads are at rest the last list announces the last copy that was
\* made after MonitorReady (dataChangedCallback, initialFormatListSent).
THEOREM LastCopy == Spec => []LastCopyAnnounced
<1>1. CliprdrInv => LastCopyAnnounced
  <2> SUFFICES ASSUME CliprdrInv, channelPc = "idle", guiPc = "idle",
                      settled \in 0..(clipboard.copy - 1), Offers(clipboard.kind) # {}
               PROVE  wire[LastList].copy = clipboard.copy
    BY DEF LastCopyAnnounced
  <2>1. wire \in Seq(ClientPdus) /\ clipboard.copy \in Nat
    BY DEF CliprdrInv, TypeInv, PduTypes, ValueTypes
  <2>2. settled # -1 /\ settled < clipboard.copy
    BY <2>1
  <2>3. PICK i \in DOMAIN wire :
           /\ wire[i].type = "list" /\ wire[i].copy = clipboard.copy
           /\ \A j \in DOMAIN wire : j > i => wire[j].type # "list"
    BY <2>2 DEF CliprdrInv, Settled, LastIs
  <2>4. /\ i \in ListsSent /\ LastList \in ListsSent /\ i <= LastList
        /\ LastList \in DOMAIN wire /\ wire[LastList].type = "list"
    BY <2>1, <2>3, LastListFacts
  <2>5. LastList = i
    BY <2>1, <2>3, <2>4
  <2> QED  BY <2>3, <2>5
<1> QED  BY <1>1, Invariance, PTL

\* A request for what the last list announces is refused only if it is gone or
\* cannot be encoded (qf_CliprdrServerFormatDataRequestCallBack): the files of a
\* copy are known before the copy is announced.
THEOREM RefusedWhenGone == Spec => RefusedOnlyIfGone
<1> DEFINE Gone ==
      \A i \in DOMAIN wire' \ DOMAIN wire :
         wire'[i].type = "data" /\ ~wire'[i].ok
         => \/ clipboard.copy # mime
            \/ clipboard.copy # wire[LastList].copy
            \/ format \notin wire[LastList].formats
            \/ clipboard.copy \in Unencodable
<1>1. CliprdrInv /\ [Next]_vars => Gone
  <2> SUFFICES ASSUME CliprdrInv, [Next]_vars, NEW i \in DOMAIN wire' \ DOMAIN wire,
                      wire'[i].type = "data", ~wire'[i].ok,
                      clipboard.copy = mime, clipboard.copy = wire[LastList].copy,
                      format \in wire[LastList].formats
               PROVE  clipboard.copy \in Unencodable
    OBVIOUS
  <2>0. /\ wire \in Seq(ClientPdus) /\ list.type = "list" /\ ValueTypes
        /\ channelPc = "answer" => format \in Formats
    BY DEF CliprdrInv, TypeInv, PduTypes
  <2>a. ASSUME NEW e, wire' = Append(wire, e) PROVE wire'[i] = e
    BY <2>0, <2>a
  <2>1. AnswerRequest
    <3>1. ~ClientCapabilities
      <4>1. wire' # Append(wire, Caps(Wanted \cap flags))
        BY <2>a, PduFacts
      <4> QED  BY <4>1 DEF ClientCapabilities
    <3>2. ~SendInitialList
      <4>1. wire' # Append(wire, List({}, "longNames" \in flags, 0))
        BY <2>a, PduFacts
      <4> QED  BY <4>1 DEF SendInitialList
    <3>3. ~SendOffer
      BY <2>0, <2>a DEF SendOffer
    <3>4. wire' # wire
      OBVIOUS
    <3> QED  BY <3>1, <3>2, <3>3, <3>4
             DEF Next, Server, ServerAnnounces, ServerReady, ServerRequests, Channel,
             ServerCapabilities, MonitorReady, CheckInitialList, TakeRequest, Copy, Gui,
             CollectFiles, Offer, vars
  <2>2. channelPc = "answer"
    BY <2>1 DEF AnswerRequest
  <2>3. /\ LastList \in DOMAIN wire /\ wire[LastList].type = "list"
        /\ wire[LastList].formats = Offers(clipboard.kind)
        /\ clipboard.kind = "files" => infoFiles = clipboard.copy
        /\ guiPc = "idle"
        /\ clipboard.copy = 0 => clipboard.kind = "other"
    <3>1. ListsSent # {}
      BY <2>0, <2>2, LastListFacts DEF CliprdrInv, Requests, Requested
    <3>2. LastList \in DOMAIN wire /\ wire[LastList].type = "list"
      BY <2>0, <3>1, LastListFacts
    <3>3. ~(clipboard.copy < clipboard.copy)
      BY <2>0 DEF ValueTypes
    <3> QED  BY <3>2, <3>3, <2>0 DEF CliprdrInv, Lists, ValueTypes
  <2>4. format \in Offers(clipboard.kind)
    BY <2>3
  <2>5. ~Torn /\ ~NoAnswer /\ 0 \in Answerable
    <3>1. ~Torn
      BY <2>3 DEF Torn
    <3>2. ~NoAnswer
      BY <2>0, <2>1, <3>1 DEF AnswerRequest
    <3>3. PICK copy \in Answerable : wire' = Append(wire, Data(copy # 0, format, copy))
      BY <2>1, <3>1, <3>2 DEF AnswerRequest
    <3>4. ~(copy # 0)
      <4>1. PICK ok : ok = (copy # 0)
        OBVIOUS
      <4>2. wire'[i] = Data(ok, format, copy)
        BY <2>a, <3>3, <4>1
      <4>3. wire'[i].ok = ok
        BY <4>2, PduFacts
      <4> QED  BY <4>1, <4>3
    <3> QED  BY <3>1, <3>2, <3>3, <3>4
  <2>6. clipboard.kind # "other"
    BY <2>4 DEF Offers
  <2>7. mime # 0 /\ Garbage # 0
    BY <2>3, <2>6 DEF Garbage
  <2>8. \/ clipboard.kind = "files" /\ format = "FileGroupDescriptorW"
        \/ clipboard.kind = "text" /\ format = "CF_UNICODETEXT"
        \/ clipboard.kind = "image" /\ format \in {"PNG", "CF_DIB"}
    BY <2>4 DEF Offers
  <2>9. clipboard.kind = "files" /\ format = "FileGroupDescriptorW" /\ infoFiles \in Unencodable
    BY <2>3, <2>5, <2>7, <2>8 DEF Answerable
  <2> QED  BY <2>3, <2>9
<1> QED  BY <1>1, Invariance, PTL DEF Spec, RefusedOnlyIfGone

==============================================================================
