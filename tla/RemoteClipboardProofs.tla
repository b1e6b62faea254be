----------------------- MODULE RemoteClipboardProofs -----------------------
(* Theorems about RemoteClipboard, for everything that may be copied and any *)
(* number of copies on either side.                                          *)
EXTENDS RemoteClipboard, TLAPS

-----------------------------------------------------------------------------
(* The inductive invariant, in parts.                                       *)

Items(s) == {s[i] : i \in DOMAIN s}

ToClient == {Refusal} \cup {List(formats) : formats \in Contents}
            \cup {Data(format, copy) : format \in Askable, copy \in 1..MaxCopies}

ToServer == {UserList} \cup {Request(f) : f \in Askable}

Calls == [copy : 1..MaxCopies, format : Askable, as : Askable]

FlagTypes == longNames \in BOOLEAN /\ crossed \in BOOLEAN /\ filesAsked \in BOOLEAN

QueueTypes ==
    /\ toClient \in Seq(ToClient) /\ toServer \in Seq(ToServer)
    /\ batches \in Seq(1..MaxCopies) /\ guiQueue \in Seq(Calls)

ValueTypes ==
    /\ serverCopy \in 0..MaxCopies
    /\ content \in Contents \cup {{}}
    /\ requested \in Askable \cup {"none"}
    /\ clipboard \in [origin : {"user", "server"}, copy : 0..MaxCopies,
                      sound : BOOLEAN]
    /\ userCopies \in 0..MaxUserCopies

\* Data is of a copy that was made, and answers a format that was asked for.
AskedInv ==
    /\ content # {} => serverCopy >= 1
    /\ (\E m \in Items(toServer) : m.type = "request") => requested # "none"
    /\ (\E m \in Items(toClient) : m.type = "data") => requested # "none"

TypeInv == FlagTypes /\ QueueTypes /\ ValueTypes /\ AskedInv

\* Nothing is of a later copy than the server's last; data comes in the order of
\* the copies, behind what has been received of them; and a text or an image is
\* queued behind nothing later than itself, nor would it replace such a thing.
OrderInv ==
    /\ \A m \in Items(toClient) : m.type = "data" =>
          /\ m.copy <= serverCopy
          /\ \A n \in Items(batches) : n <= m.copy
          /\ \A call \in Items(guiQueue) : call.copy <= m.copy
          /\ clipboard.origin = "server" => clipboard.copy <= m.copy
    /\ \A i, j \in DOMAIN toClient :
          i < j /\ toClient[i].type = "data" /\ toClient[j].type = "data" =>
             toClient[i].copy <= toClient[j].copy
    /\ \A i, j \in DOMAIN guiQueue :
          i < j /\ guiQueue[j].as # "FileGroupDescriptorW" =>
             guiQueue[i].copy <= guiQueue[j].copy
    /\ \A call \in Items(guiQueue) :
          call.as # "FileGroupDescriptorW" /\ clipboard.origin = "server" =>
             clipboard.copy <= call.copy
    /\ \A n \in Items(batches) : n <= serverCopy
    /\ \A call \in Items(guiQueue) : call.copy <= serverCopy
    /\ clipboard.origin = "server" => clipboard.copy <= serverCopy

\* While the user's copy is announced or has been, and nothing was on its way when
\* he made it, nothing can replace it: requests for older data come behind it.
OwnInv ==
    ~crossed =>
        /\ \A i, j \in DOMAIN toServer :
              i < j /\ toServer[i].type = "request" => toServer[j].type = "request"
        /\ content = {} \/ UserList \in Items(toServer) =>
              /\ clipboard.origin = "user" /\ batches = <<>> /\ guiQueue = <<>>
              /\ \A m \in Items(toClient) : m.type # "data"

\* The formats that the client would ask for of what the server has.
Wanted == Chosen(Named(content))

NoList == \A m \in Items(toClient) : m.type # "list"

\* The server's last copy is on its way: the list of it, the request for it, the
\* answer, the queued call; or it has arrived.
Listed == \E i \in DOMAIN toClient :
              /\ toClient[i] = List(content)
              /\ \A j \in DOMAIN toClient : j > i => toClient[j].type # "list"

Asked == /\ NoList /\ requested \in Wanted
         /\ toServer # <<>> /\ toServer[Len(toServer)] = Request(requested)

Answered == /\ NoList /\ toServer = <<>>
            /\ toClient # <<>>
            /\ toClient[Len(toClient)] = Data(requested, serverCopy)

Calling == /\ toServer = <<>> /\ toClient = <<>>
           /\ guiQueue # <<>>
           /\ guiQueue[Len(guiQueue)] = Call(serverCopy, requested, requested)

Arrived == /\ toServer = <<>> /\ toClient = <<>> /\ guiQueue = <<>>
           /\ clipboard = Holds("server", serverCopy, TRUE)

CopyInv ==
    /\ requested = "FileGroupDescriptorW" \/ batches # <<>> => filesAsked
    /\ Wanted # {} /\ ~filesAsked =>
          \/ UserList \in Items(toServer)
          \/ Listed \/ Asked \/ Answered \/ Calling \/ Arrived

ClipboardInv == TypeInv /\ OrderInv /\ OwnInv /\ CopyInv

-----------------------------------------------------------------------------
(* Queues.                                                                  *)

LEMMA AppendFacts ==
    ASSUME NEW S, NEW s \in Seq(S), NEW e \in S
    PROVE  LET t == Append(s, e)
           IN  /\ t \in Seq(S) /\ Items(t) = Items(s) \cup {e}
               /\ t # <<>> /\ Len(t) = Len(s) + 1 /\ t[Len(t)] = e
               /\ \A i \in DOMAIN t : \/ i \in DOMAIN s /\ t[i] = s[i]
                                      \/ i = Len(t) /\ t[i] = e
               /\ \A i \in DOMAIN s : i < Len(t) /\ i \in DOMAIN t /\ t[i] = s[i]
<1> DEFINE t == Append(s, e)
<1>1. /\ t \in Seq(S) /\ t # <<>> /\ Len(t) = Len(s) + 1 /\ t[Len(t)] = e
      /\ \A i \in DOMAIN t : \/ i \in DOMAIN s /\ t[i] = s[i]
                             \/ i = Len(t) /\ t[i] = e
      /\ \A i \in DOMAIN s : i < Len(t) /\ i \in DOMAIN t /\ t[i] = s[i]
      /\ Len(t) \in DOMAIN t
  OBVIOUS
<1> HIDE DEF t
<1>2. Items(t) = Items(s) \cup {e}
  BY <1>1 DEF Items
<1> QED  BY <1>1, <1>2 DEF t

LEMMA TailFacts ==
    ASSUME NEW S, NEW s \in Seq(S), s # <<>>
    PROVE  LET t == Tail(s)
           IN  /\ t \in Seq(S) /\ Items(t) \subseteq Items(s)
               /\ Items(s) = {Head(s)} \cup Items(t)
               /\ Head(s) \in S /\ Head(s) = s[1] /\ 1 \in DOMAIN s
               /\ Len(t) = Len(s) - 1 /\ Len(s) \in DOMAIN s
               /\ \A i \in DOMAIN t : i + 1 \in DOMAIN s /\ t[i] = s[i + 1] /\ i \in Nat
               /\ t # <<>> => t[Len(t)] = s[Len(s)] /\ Len(t) \in DOMAIN t
               /\ t = <<>> => Len(s) = 1 /\ Head(s) = s[Len(s)]
               /\ \A i \in DOMAIN s : i = 1 \/ \E k \in DOMAIN t :
                     t[k] = s[i] /\ \A j \in DOMAIN t : j > k => j + 1 > i
<1> DEFINE t == Tail(s)
<1>1. /\ t \in Seq(S)
      /\ Head(s) \in S /\ Head(s) = s[1] /\ 1 \in DOMAIN s
      /\ Len(t) = Len(s) - 1 /\ Len(s) \in DOMAIN s
      /\ \A i \in DOMAIN t : i + 1 \in DOMAIN s /\ t[i] = s[i + 1] /\ i \in Nat
  OBVIOUS
<1>3. \A i \in DOMAIN s : i = 1 \/ (i - 1 \in DOMAIN t /\ t[i - 1] = s[i])
  OBVIOUS
<1>6. \A i \in DOMAIN s : i \in Int
  OBVIOUS
<1>7. \A i \in DOMAIN s : i = 1 \/ \E k \in DOMAIN t :
         t[k] = s[i] /\ \A j \in DOMAIN t : j > k => j + 1 > i
  <2>1. \A i \in Int : \A j \in Int : j > i - 1 => j + 1 > i
    OBVIOUS
  <2> HIDE DEF t
  <2>2. \A j \in DOMAIN t : j \in Int
    BY <1>1
  <2>3. TAKE i \in DOMAIN s
  <2>4. CASE i = 1
    BY <2>4
  <2>5. CASE i # 1
    <3>1. i - 1 \in DOMAIN t /\ t[i - 1] = s[i]
      BY <1>3, <2>5
    <3>2. \A j \in DOMAIN t : j > i - 1 => j + 1 > i
      BY <1>6, <2>1, <2>2
    <3> QED  BY <3>1, <3>2
  <2> QED  BY <2>4, <2>5
<1> HIDE DEF t
<1>2. /\ t # <<>> => t[Len(t)] = s[Len(s)] /\ Len(t) \in DOMAIN t
      /\ t = <<>> => Len(s) = 1 /\ Head(s) = s[Len(s)]
  <2>1. Len(t) \in Nat /\ DOMAIN t = 1..Len(t) /\ (t = <<>> <=> Len(t) = 0)
    BY <1>1
  <2>2. Len(s) \in Nat
    BY <1>1
  <2> QED  BY <1>1, <2>1, <2>2
<1>4. Items(s) = {Head(s)} \cup Items(t)
  BY <1>1, <1>3 DEF Items
<1> QED  BY <1>1, <1>2, <1>4, <1>7 DEF t

\* What is in a queue is of its type.
LEMMA ItemFacts == ASSUME NEW S, NEW s \in Seq(S) PROVE Items(s) \subseteq S
  BY DEF Items

\* Messages of each type.
LEMMA MessageFacts ==
    /\ \A m \in ToClient :
          /\ m.type = "data" => m.format \in Askable /\ m.copy \in 1..MaxCopies
          /\ m.type = "list" => m.formats \in Contents /\ m = List(m.formats)
          /\ m.type = "refusal" => m = Refusal
    /\ \A m \in ToServer : /\ m.type = "request" => m.format \in Askable
                           /\ m.type = "list" => m = UserList
    /\ \A f \in Askable : Request(f).type = "request" /\ Request(f).format = f
    /\ \A f \in Formats : \A c : Data(f, c).type = "data" /\ Data(f, c).format = f
                                 /\ Data(f, c).copy = c
    /\ \A f : List(f).type = "list" /\ List(f).formats = f
    /\ UserList.type = "list" /\ Refusal.type = "refusal" /\ Refusal \in ToClient
    /\ UserList \in ToServer
  BY DEF ToClient, ToServer, List, Data, Refusal, Request, UserList

\* What is asked for is among the formats of the list, and can be named.
LEMMA ChosenFacts ==
    /\ \A formats \in SUBSET Formats :
          Chosen(Named(formats)) \subseteq formats \cap Askable
    /\ Chosen(Named({})) = {}
<1>1. \A formats \in SUBSET Formats : Named(formats) \subseteq formats
  BY DEF Named
<1>2. \A formats \in SUBSET Formats : Chosen(formats) \subseteq formats \cap Askable
  <2> SUFFICES ASSUME NEW F \in SUBSET Formats PROVE Chosen(F) \subseteq F \cap Askable
    OBVIOUS
  <2>1. CASE "CF_UNICODETEXT" \in F
    BY <2>1 DEF Chosen, Askable, Formats
  <2>2. CASE "CF_UNICODETEXT" \notin F
    BY <2>2 DEF Chosen, Askable, Formats
  <2> QED  BY <2>1, <2>2
<1> QED  BY <1>1, <1>2

-----------------------------------------------------------------------------
(* Types.                                                                   *)

\* Flags stay flags.
LEMMA FlagTypesStep == FlagTypes /\ [Next]_vars => FlagTypes'
<1>1. FlagTypes /\ (ServerCopies \/ ServerAnswers \/ ServerGivesUp \/ Channel)
         => FlagTypes'
  BY DEF FlagTypes, ServerCopies, ServerAnswers, ServerGivesUp, Channel, ReceiveList,
     ReceiveData, ReceiveRefusal, server, user
<1>2. FlagTypes /\ (BatchEnds \/ Apply \/ UNCHANGED vars) => FlagTypes'
  BY DEF FlagTypes, BatchEnds, Apply, server, user, vars
<1>3. FlagTypes /\ UserCopies => FlagTypes'
  BY DEF FlagTypes, UserCopies, UnderWay, server
<1> QED  BY <1>1, <1>2, <1>3 DEF Next

\* Queues, clipboards and what is asked for keep their types.
LEMMA TypesStep ==
    QueueTypes /\ ValueTypes /\ AskedInv /\ [Next]_vars
       => QueueTypes' /\ ValueTypes' /\ AskedInv'
<1> SUFFICES ASSUME QueueTypes, ValueTypes, AskedInv, [Next]_vars
             PROVE  QueueTypes' /\ ValueTypes' /\ AskedInv'
  OBVIOUS
<1>0. /\ toClient \in Seq(ToClient) /\ toServer \in Seq(ToServer)
      /\ batches \in Seq(1..MaxCopies) /\ guiQueue \in Seq(Calls)
      /\ serverCopy \in 0..MaxCopies /\ content \in Contents \cup {{}}
      /\ requested \in Askable \cup {"none"}
      /\ Contents \subseteq (SUBSET Formats) \ {{}} /\ {} \notin Contents
  BY RemoteClipboardAssumption DEF QueueTypes, ValueTypes
<1>1. CASE ServerCopies
  <2>1. PICK formats \in Contents :
           content' = formats /\ toClient' = Append(toClient, List(formats))
    BY <1>1 DEF ServerCopies
  <2>2. List(formats) \in ToClient
    BY DEF ToClient
  <2>3. toClient' \in Seq(ToClient) /\ Items(toClient') = Items(toClient) \cup {List(formats)}
    BY <1>0, <2>1, <2>2, AppendFacts
  <2>4. serverCopy' \in 0..MaxCopies /\ serverCopy' >= 1
    BY <1>0, <1>1, RemoteClipboardAssumption DEF ServerCopies
  <2>5. UNCHANGED <<toServer, requested, batches, guiQueue, clipboard, userCopies>>
    BY <1>1 DEF ServerCopies, user
  <2>6. QueueTypes' /\ ValueTypes'
    BY <2>1, <2>3, <2>4, <2>5 DEF QueueTypes, ValueTypes
  <2>7. AskedInv'
    BY <2>3, <2>4, <2>5, MessageFacts DEF AskedInv
  <2> QED  BY <2>6, <2>7
<1>2. CASE ServerAnswers
  <2> DEFINE m == Head(toServer)
             answer == IF m.format \in content THEN Data(m.format, serverCopy)
                                               ELSE Refusal
  <2>1. /\ toServer # <<>> /\ m.type = "request"
        /\ toClient' = Append(toClient, answer) /\ toServer' = Tail(toServer)
        /\ UNCHANGED <<serverCopy, content, requested, batches, guiQueue, clipboard,
                       userCopies>>
    BY <1>2 DEF ServerAnswers, server, user
  <2>2. m \in ToServer /\ m \in Items(toServer)
    BY <1>0, <2>1, TailFacts
  <2>3. m.format \in Askable /\ requested # "none"
    BY <2>1, <2>2, MessageFacts DEF AskedInv
  <2>4. answer \in ToClient
    <3>1. CASE m.format \in content
      <4>1. serverCopy \in 1..MaxCopies
        BY <1>0, <3>1 DEF AskedInv
      <4> QED  BY <2>3, <3>1, <4>1 DEF ToClient
    <3>2. CASE m.format \notin content
      BY <3>2 DEF ToClient
    <3> QED  BY <3>1, <3>2
  <2> HIDE DEF m, answer
  <2>5. toClient' \in Seq(ToClient)
    BY <1>0, <2>1, <2>4, AppendFacts
  <2>6. toServer' \in Seq(ToServer) /\ Items(toServer') \subseteq Items(toServer)
    BY <1>0, <2>1, TailFacts
  <2> QED  BY <2>1, <2>3, <2>5, <2>6 DEF QueueTypes, ValueTypes, AskedInv
<1>3. CASE ServerGivesUp
  <2>1. /\ toServer # <<>> /\ toServer' = Tail(toServer) /\ content' = {}
        /\ UNCHANGED <<serverCopy, toClient, requested, batches, guiQueue, clipboard,
                       userCopies>>
    BY <1>3 DEF ServerGivesUp, user
  <2>2. toServer' \in Seq(ToServer) /\ Items(toServer') \subseteq Items(toServer)
    BY <1>0, <2>1, TailFacts
  <2> QED  BY <2>1, <2>2 DEF QueueTypes, ValueTypes, AskedInv
<1>4. CASE ReceiveList
  <2>1. /\ toClient # <<>> /\ toClient' = Tail(toClient) /\ Head(toClient).type = "list"
        /\ UNCHANGED <<serverCopy, content, batches, guiQueue, clipboard, userCopies>>
    BY <1>4 DEF ReceiveList, server, user
  <2>2. toClient' \in Seq(ToClient) /\ Items(toClient') \subseteq Items(toClient)
    BY <1>0, <2>1, TailFacts
  <2>3. CASE UNCHANGED <<requested, toServer>>
    BY <2>1, <2>2, <2>3 DEF QueueTypes, ValueTypes, AskedInv
  <2>4. ASSUME NEW format \in Chosen(Named(Head(toClient).formats)),
               requested' = format, toServer' = Append(toServer, Request(format))
        PROVE  QueueTypes' /\ ValueTypes' /\ AskedInv'
    <3>1. Head(toClient).formats \in SUBSET Formats
      BY <1>0, <2>1, TailFacts, MessageFacts
    <3>2. format \in Askable /\ format # "none"
      BY <3>1, ChosenFacts DEF Askable, Formats
    <3>3. Request(format) \in ToServer
      BY <3>2 DEF ToServer
    <3>4. toServer' \in Seq(ToServer)
      BY <1>0, <2>4, <3>3, AppendFacts
    <3> QED  BY <2>1, <2>2, <2>4, <3>2, <3>4 DEF QueueTypes, ValueTypes, AskedInv
  <2> QED  BY <1>4, <2>3, <2>4 DEF ReceiveList
<1>5. CASE ReceiveData
  <2>0. PICK m : m = Head(toClient)
    OBVIOUS
  <2>1. /\ toClient # <<>> /\ toClient' = Tail(toClient) /\ m.type = "data"
        /\ UNCHANGED <<serverCopy, content, toServer, requested, clipboard, userCopies>>
    BY <1>5, <2>0 DEF ReceiveData, server, user
  <2>2. /\ toClient' \in Seq(ToClient) /\ Items(toClient') \subseteq Items(toClient)
        /\ m \in Items(toClient) /\ m \in ToClient
    BY <1>0, <2>0, <2>1, TailFacts
  <2>3. m.format \in Askable /\ m.copy \in 1..MaxCopies /\ requested \in Askable
    BY <1>0, <2>1, <2>2, MessageFacts DEF AskedInv
  <2>4. batches' \in Seq(1..MaxCopies) /\ guiQueue' \in Seq(Calls)
    <3>1. Call(m.copy, m.format, requested) \in Calls
      BY <2>3 DEF Call, Calls
    <3>2. \/ UNCHANGED batches \/ batches' = Append(batches, m.copy)
      BY <1>5, <2>0 DEF ReceiveData
    <3>3. \/ UNCHANGED guiQueue
          \/ guiQueue' = Append(guiQueue, Call(m.copy, m.format, requested))
      BY <1>5, <2>0 DEF ReceiveData
    <3>0. batches \in Seq(1..MaxCopies) /\ guiQueue \in Seq(Calls)
      BY <1>0
    <3>4. batches' \in Seq(1..MaxCopies)
      <4>1. Append(batches, m.copy) \in Seq(1..MaxCopies)
        BY <2>3, <3>0, AppendFacts
      <4> QED  BY <3>0, <3>2, <4>1
    <3>5. guiQueue' \in Seq(Calls)
      <4>1. Append(guiQueue, Call(m.copy, m.format, requested)) \in Seq(Calls)
        BY <3>0, <3>1, AppendFacts
      <4> QED  BY <3>0, <3>3, <4>1
    <3> QED  BY <3>4, <3>5
  <2> QED  BY <2>1, <2>2, <2>4 DEF QueueTypes, ValueTypes, AskedInv
<1>6. CASE ReceiveRefusal
  <2>1. /\ toClient # <<>> /\ toClient' = Tail(toClient)
        /\ UNCHANGED <<serverCopy, content, toServer, requested, batches, guiQueue,
                       clipboard, userCopies>>
    BY <1>6 DEF ReceiveRefusal, server, user
  <2>2. toClient' \in Seq(ToClient) /\ Items(toClient') \subseteq Items(toClient)
    BY <1>0, <2>1, TailFacts
  <2> QED  BY <2>1, <2>2 DEF QueueTypes, ValueTypes, AskedInv
<1>7. CASE BatchEnds
  <2>1. /\ batches # <<>> /\ batches' = Tail(batches)
        /\ UNCHANGED <<serverCopy, content, toClient, toServer, requested, clipboard,
                       userCopies>>
    BY <1>7 DEF BatchEnds, server, user
  <2>2. batches' \in Seq(1..MaxCopies) /\ Head(batches) \in 1..MaxCopies
    BY <1>0, <2>1, TailFacts
  <2>3. Call(Head(batches), "FileGroupDescriptorW", "FileGroupDescriptorW") \in Calls
    BY <2>2 DEF Call, Calls, Askable, Formats
  <2>4. guiQueue' \in Seq(Calls)
    <3>1. \/ UNCHANGED guiQueue
          \/ guiQueue' = Append(guiQueue, Call(Head(batches), "FileGroupDescriptorW",
                                              "FileGroupDescriptorW"))
      BY <1>7 DEF BatchEnds
    <3> QED  BY <1>0, <2>3, <3>1, AppendFacts
  <2> QED  BY <2>1, <2>2, <2>4 DEF QueueTypes, ValueTypes, AskedInv
<1>8. CASE Apply
  <2>1. /\ guiQueue # <<>> /\ guiQueue' = Tail(guiQueue)
        /\ UNCHANGED <<serverCopy, content, toClient, toServer, requested, batches,
                       userCopies>>
    BY <1>8 DEF Apply, server, user
  <2>2. guiQueue' \in Seq(Calls) /\ Head(guiQueue) \in Calls
    BY <1>0, <2>1, TailFacts
  <2>3. Head(guiQueue).copy \in 0..MaxCopies
    BY <2>2, RemoteClipboardAssumption DEF Calls
  <2>4. clipboard' \in [origin : {"user", "server"}, copy : 0..MaxCopies, sound : BOOLEAN]
    <3>1. \/ UNCHANGED clipboard
          \/ clipboard' = Holds("server", Head(guiQueue).copy, TRUE)
          \/ clipboard' = Holds("server", Head(guiQueue).copy, FALSE)
      BY <1>8 DEF Apply
    <3>2. \A b \in BOOLEAN : Holds("server", Head(guiQueue).copy, b)
             \in [origin : {"user", "server"}, copy : 0..MaxCopies, sound : BOOLEAN]
      BY <2>3 DEF Holds
    <3>3. clipboard
             \in [origin : {"user", "server"}, copy : 0..MaxCopies, sound : BOOLEAN]
      BY DEF ValueTypes
    <3>4. TRUE \in BOOLEAN /\ FALSE \in BOOLEAN
      OBVIOUS
    <3> QED  BY <3>1, <3>2, <3>3, <3>4, Zenon
  <2> QED  BY <2>1, <2>2, <2>4 DEF QueueTypes, ValueTypes, AskedInv
<1>9. CASE UserCopies
  <2>1. /\ userCopies < MaxUserCopies /\ userCopies' = userCopies + 1
        /\ toServer' = Append(toServer, UserList)
        /\ clipboard' = Holds("user", serverCopy, TRUE)
        /\ UNCHANGED <<serverCopy, content, toClient, requested, batches, guiQueue>>
    BY <1>9 DEF UserCopies, server
  <2>2. toServer' \in Seq(ToServer) /\ Items(toServer') = Items(toServer) \cup {UserList}
    BY <1>0, <2>1, AppendFacts, MessageFacts
  <2>3. userCopies' \in 0..MaxUserCopies
    BY <2>1, RemoteClipboardAssumption DEF ValueTypes
  <2>4. clipboard' \in [origin : {"user", "server"}, copy : 0..MaxCopies, sound : BOOLEAN]
    BY <1>0, <2>1 DEF Holds
  <2> QED  BY <2>1, <2>2, <2>3, <2>4, MessageFacts DEF QueueTypes, ValueTypes, AskedInv
<1>10. CASE UNCHANGED vars
  BY <1>10 DEF vars, server, user, QueueTypes, ValueTypes, AskedInv
<1> QED  BY <1>1, <1>2, <1>3, <1>4, <1>5, <1>6, <1>7, <1>8, <1>9, <1>10
         DEF Next, Channel

-----------------------------------------------------------------------------
(* The order in which data arrives.                                         *)

\* What the queues hold stays in the order of the copies.
LEMMA OrderStep ==
    QueueTypes /\ ValueTypes /\ AskedInv /\ OrderInv /\ [Next]_vars => OrderInv'
<1> SUFFICES ASSUME QueueTypes, ValueTypes, AskedInv, OrderInv, [Next]_vars
             PROVE  OrderInv'
  OBVIOUS
<1>0. /\ toClient \in Seq(ToClient) /\ toServer \in Seq(ToServer)
      /\ batches \in Seq(Nat) /\ guiQueue \in Seq(Calls)
      /\ serverCopy \in Nat /\ clipboard.copy \in Nat
      /\ \A call \in Calls : call.copy \in Nat
      /\ \A m \in ToClient : m.type = "data" => m.copy \in Nat
  <2>1. MaxCopies \in Nat /\ \A n \in 0..MaxCopies : n \in Nat
    BY RemoteClipboardAssumption
  <2>2. batches \in Seq(Nat)
    BY <2>1 DEF QueueTypes
  <2> QED  BY <2>1, <2>2, MessageFacts DEF QueueTypes, ValueTypes, Calls
<1>1. CASE ServerCopies
  <2>1. PICK formats \in Contents : toClient' = Append(toClient, List(formats))
    BY <1>1 DEF ServerCopies
  <2>2. /\ serverCopy' = serverCopy + 1
        /\ UNCHANGED <<batches, guiQueue, clipboard>>
    BY <1>1 DEF ServerCopies
  <2>3. List(formats) \in ToClient /\ List(formats).type # "data"
    BY MessageFacts DEF ToClient
  <2>4. /\ Items(toClient') = Items(toClient) \cup {List(formats)}
        /\ \A i \in DOMAIN toClient' : \/ i \in DOMAIN toClient /\ toClient'[i] = toClient[i]
                                       \/ toClient'[i] = List(formats)
    BY <1>0, <2>1, <2>3, AppendFacts
  <2>5. /\ \A m \in Items(toClient') : m.type = "data" => m \in Items(toClient)
        /\ \A m \in Items(toClient) : m.type = "data" => m.copy \in Nat
        /\ \A n \in Items(batches) : n \in Nat
        /\ \A call \in Items(guiQueue) : call.copy \in Nat
    BY <1>0, <2>3, <2>4, ItemFacts
  <2>6. \A i \in DOMAIN toClient' : toClient'[i].type = "data" =>
           i \in DOMAIN toClient /\ toClient'[i] = toClient[i]
    BY <2>3, <2>4
  <2> QED  BY <1>0, <2>2, <2>5, <2>6 DEF OrderInv
<1>2. CASE ServerAnswers
  <2>0. PICK answer : /\ toClient' = Append(toClient, answer)
                      /\ answer = Refusal \/ \E f \in Askable : answer = Data(f, serverCopy)
    <3>1. Head(toServer) \in ToServer /\ Head(toServer).type = "request"
      BY <1>0, <1>2, TailFacts DEF ServerAnswers
    <3>2. Head(toServer).format \in Askable
      BY <3>1, MessageFacts
    <3> QED  BY <1>2, <3>2 DEF ServerAnswers
  <2>1. answer \in ToClient /\ (answer.type = "data" => answer.copy = serverCopy)
    <3>1. toClient' \in Seq(ToClient) /\ Len(toClient') \in DOMAIN toClient'
          /\ toClient'[Len(toClient')] = answer
      <4>1. toClient' \in Seq(ToClient)
        BY <1>2, TypesStep DEF QueueTypes
      <4> QED  BY <1>0, <2>0, <4>1
    <3>2. \A f \in Askable : f \in Formats
      BY DEF Askable
    <3> QED  BY <2>0, <3>1, <3>2, MessageFacts
  <2>2. UNCHANGED <<serverCopy, batches, guiQueue, clipboard>>
    BY <1>2 DEF ServerAnswers, server
  <2>3. /\ Items(toClient') = Items(toClient) \cup {answer}
        /\ \A i \in DOMAIN toClient' : \/ i \in DOMAIN toClient /\ toClient'[i] = toClient[i]
                                       \/ i = Len(toClient') /\ toClient'[i] = answer
        /\ Len(toClient') = Len(toClient) + 1 /\ Len(toClient) \in Nat
        /\ DOMAIN toClient = 1..Len(toClient)
    BY <1>0, <2>0, <2>1, AppendFacts
  <2>4. \A m \in Items(toClient') : m.type = "data" =>
           m \in Items(toClient) \/ m.copy = serverCopy
    BY <2>1, <2>3
  <2>5. \A i, j \in DOMAIN toClient' :
           i < j /\ toClient'[i].type = "data" /\ toClient'[j].type = "data" =>
              toClient'[i].copy <= toClient'[j].copy
    <3> SUFFICES ASSUME NEW i \in DOMAIN toClient', NEW j \in DOMAIN toClient', i < j,
                        toClient'[i].type = "data", toClient'[j].type = "data"
                 PROVE  toClient'[i].copy <= toClient'[j].copy
      OBVIOUS
    <3>1. i \in DOMAIN toClient /\ toClient'[i] = toClient[i]
      BY <1>0, <2>0, <2>3
    <3>2. toClient[i].copy <= serverCopy
      BY <3>1 DEF OrderInv, Items
    <3> QED  BY <2>1, <2>3, <3>1, <3>2 DEF OrderInv
  <2>6. \A m \in Items(toClient') : m.type = "data" =>
          /\ m.copy <= serverCopy
          /\ \A n \in Items(batches) : n <= m.copy
          /\ \A call \in Items(guiQueue) : call.copy <= m.copy
          /\ clipboard.origin = "server" => clipboard.copy <= m.copy
    BY <1>0, <2>4 DEF OrderInv
  <2> QED  BY <2>2, <2>5, <2>6 DEF OrderInv
<1>3. CASE ReceiveList \/ ReceiveRefusal
  <2>1. /\ toClient # <<>> /\ toClient' = Tail(toClient)
        /\ UNCHANGED <<serverCopy, batches, guiQueue, clipboard>>
    BY <1>3 DEF ReceiveList, ReceiveRefusal, server
  <2>2. /\ Items(toClient') \subseteq Items(toClient)
        /\ \A i \in DOMAIN toClient' : /\ i + 1 \in DOMAIN toClient /\ i \in Nat
                                        /\ toClient'[i] = toClient[i + 1]
    BY <1>0, <2>1, TailFacts
  <2> QED  BY <2>1, <2>2 DEF OrderInv
<1>4. CASE ReceiveData
  <2>0. PICK m : m = Head(toClient)
    OBVIOUS
  <2>1. /\ toClient # <<>> /\ toClient' = Tail(toClient) /\ m.type = "data"
        /\ UNCHANGED <<serverCopy, clipboard>>
    BY <1>4, <2>0 DEF ReceiveData, server
  <2>2. /\ Items(toClient') \subseteq Items(toClient)
        /\ \A i \in DOMAIN toClient' : /\ i + 1 \in DOMAIN toClient /\ i \in Nat /\ i >= 1
                                        /\ toClient'[i] = toClient[i + 1]
        /\ m \in Items(toClient) /\ m \in ToClient /\ m = toClient[1]
        /\ 1 \in DOMAIN toClient
    <3>1. m \in ToClient /\ m \in Items(toClient) /\ m = toClient[1] /\ 1 \in DOMAIN toClient
      BY <1>0, <2>0, <2>1, TailFacts
    <3>2. \A i \in DOMAIN toClient' : i >= 1
      BY <1>0, <2>1
    <3> QED  BY <1>0, <2>1, <3>1, <3>2, TailFacts
  <2>3. \A n \in Items(toClient') : n.type = "data" => m.copy <= n.copy
    <3>1. \A i \in DOMAIN toClient' : toClient'[i].type = "data" => m.copy <= toClient'[i].copy
      BY <2>1, <2>2 DEF OrderInv
    <3> QED  BY <3>1 DEF Items
  <2>4. m.copy <= serverCopy /\ m.copy \in Nat
        /\ (clipboard.origin = "server" => clipboard.copy <= m.copy)
    BY <1>0, <2>1, <2>2 DEF OrderInv
  <2>5. CASE UNCHANGED <<batches, guiQueue>>
    BY <2>1, <2>2, <2>5 DEF OrderInv
  <2>6. CASE batches' = Append(batches, m.copy) /\ UNCHANGED guiQueue
    <3>1. Items(batches') = Items(batches) \cup {m.copy}
      BY <1>0, <2>4, <2>6, AppendFacts
    <3> QED  BY <2>1, <2>2, <2>3, <2>4, <2>6, <3>1 DEF OrderInv
  <2>7. CASE /\ guiQueue' = Append(guiQueue, Call(m.copy, m.format, requested))
             /\ UNCHANGED batches
    <3>1. PICK call : call = Call(m.copy, m.format, requested)
      OBVIOUS
    <3>2. call.copy = m.copy /\ call \in Calls
      <4>1. requested \in Askable /\ m.format \in Askable /\ m.copy \in 1..MaxCopies
        BY <2>1, <2>2, MessageFacts DEF AskedInv, ValueTypes
      <4> QED  BY <3>1, <4>1 DEF Call, Calls
    <3>3. /\ Items(guiQueue') = Items(guiQueue) \cup {call}
          /\ \A i \in DOMAIN guiQueue' : \/ i \in DOMAIN guiQueue /\ guiQueue'[i] = guiQueue[i]
                                         \/ i = Len(guiQueue') /\ guiQueue'[i] = call
          /\ Len(guiQueue') = Len(guiQueue) + 1 /\ Len(guiQueue) \in Nat
          /\ DOMAIN guiQueue = 1..Len(guiQueue)
      BY <1>0, <2>7, <3>1, <3>2, AppendFacts
    <3>4. \A i, j \in DOMAIN guiQueue' :
             i < j /\ guiQueue'[j].as # "FileGroupDescriptorW" =>
                guiQueue'[i].copy <= guiQueue'[j].copy
      <4> SUFFICES ASSUME NEW i \in DOMAIN guiQueue', NEW j \in DOMAIN guiQueue', i < j,
                          guiQueue'[j].as # "FileGroupDescriptorW"
                   PROVE  guiQueue'[i].copy <= guiQueue'[j].copy
        OBVIOUS
      <4>1. i \in DOMAIN guiQueue /\ guiQueue'[i] = guiQueue[i]
        BY <1>0, <2>7, <3>3
      <4>2. guiQueue[i].copy <= m.copy
        BY <2>1, <2>2, <4>1 DEF OrderInv, Items
      <4> QED  BY <3>2, <3>3, <4>1, <4>2 DEF OrderInv
    <3> QED  BY <2>1, <2>2, <2>3, <2>4, <2>7, <3>2, <3>3, <3>4 DEF OrderInv
  <2> QED  BY <1>4, <2>0, <2>5, <2>6, <2>7 DEF ReceiveData
<1>5. CASE BatchEnds
  <2>0. PICK n : n = Head(batches)
    OBVIOUS
  <2>1. /\ batches # <<>> /\ batches' = Tail(batches)
        /\ UNCHANGED <<serverCopy, toClient, clipboard>>
    BY <1>5 DEF BatchEnds, server
  <2>2. Items(batches') \subseteq Items(batches) /\ n \in Items(batches) /\ n \in Nat
    BY <1>0, <2>0, <2>1, TailFacts
  <2>3. CASE UNCHANGED guiQueue
    BY <2>1, <2>2, <2>3 DEF OrderInv
  <2>4. CASE guiQueue' = Append(guiQueue, Call(n, "FileGroupDescriptorW",
                                               "FileGroupDescriptorW"))
    <3>1. PICK call : call = Call(n, "FileGroupDescriptorW", "FileGroupDescriptorW")
      OBVIOUS
    <3>2. call.copy = n /\ call.as = "FileGroupDescriptorW" /\ call \in Calls
      <4>1. n \in 1..MaxCopies
        BY <2>0, <2>1, TailFacts DEF QueueTypes
      <4> QED  BY <3>1, <4>1 DEF Call, Calls, Askable, Formats
    <3>3. /\ Items(guiQueue') = Items(guiQueue) \cup {call}
          /\ \A i \in DOMAIN guiQueue' : \/ i \in DOMAIN guiQueue /\ guiQueue'[i] = guiQueue[i]
                                         \/ i = Len(guiQueue') /\ guiQueue'[i] = call
          /\ Len(guiQueue') = Len(guiQueue) + 1 /\ Len(guiQueue) \in Nat
          /\ DOMAIN guiQueue = 1..Len(guiQueue)
      BY <1>0, <2>4, <3>1, <3>2, AppendFacts
    <3>4. \A i, j \in DOMAIN guiQueue' :
             i < j /\ guiQueue'[j].as # "FileGroupDescriptorW" =>
                guiQueue'[i].copy <= guiQueue'[j].copy
      <4> SUFFICES ASSUME NEW i \in DOMAIN guiQueue', NEW j \in DOMAIN guiQueue', i < j,
                          guiQueue'[j].as # "FileGroupDescriptorW"
                   PROVE  guiQueue'[i].copy <= guiQueue'[j].copy
        OBVIOUS
      <4>1. j \in DOMAIN guiQueue /\ guiQueue'[j] = guiQueue[j]
        BY <3>2, <3>3
      <4>2. i \in DOMAIN guiQueue /\ guiQueue'[i] = guiQueue[i]
        BY <3>3, <4>1
      <4> QED  BY <4>1, <4>2 DEF OrderInv
    <3> QED  BY <2>1, <2>2, <3>2, <3>3, <3>4 DEF OrderInv
  <2> QED  BY <1>5, <2>0, <2>3, <2>4 DEF BatchEnds
<1>6. CASE Apply
  <2>0. PICK call : call = Head(guiQueue)
    OBVIOUS
  <2>1. /\ guiQueue # <<>> /\ guiQueue' = Tail(guiQueue)
        /\ UNCHANGED <<serverCopy, toClient, batches>>
    BY <1>6 DEF Apply, server
  <2>2. UNCHANGED clipboard \/ clipboard'.copy = call.copy
    BY <1>6, <2>0 DEF Apply, Holds
  <2>3. /\ Items(guiQueue') \subseteq Items(guiQueue)
        /\ \A i \in DOMAIN guiQueue' : /\ i + 1 \in DOMAIN guiQueue /\ i \in Nat /\ i >= 1
                                        /\ guiQueue'[i] = guiQueue[i + 1]
        /\ call \in Items(guiQueue) /\ call = guiQueue[1] /\ 1 \in DOMAIN guiQueue
    <3>1. call \in Items(guiQueue) /\ call = guiQueue[1] /\ 1 \in DOMAIN guiQueue
      BY <1>0, <2>0, <2>1, TailFacts
    <3>2. \A i \in DOMAIN guiQueue' : i >= 1
      BY <1>0, <2>1
    <3> QED  BY <1>0, <2>1, <3>1, <3>2, TailFacts
  <2>4. \A c \in Items(guiQueue') : c.as # "FileGroupDescriptorW" => call.copy <= c.copy
    <3>1. \A i \in DOMAIN guiQueue' : guiQueue'[i].as # "FileGroupDescriptorW" =>
             call.copy <= guiQueue'[i].copy
      BY <2>3 DEF OrderInv
    <3> QED  BY <3>1 DEF Items
  <2>5. call.copy <= serverCopy /\ \A m \in Items(toClient) :
           m.type = "data" => call.copy <= m.copy
    BY <2>3 DEF OrderInv
  <2> QED  BY <2>1, <2>2, <2>3, <2>4, <2>5 DEF OrderInv
<1>7. CASE UserCopies
  <2>1. /\ UNCHANGED <<serverCopy, toClient, batches, guiQueue>>
        /\ clipboard'.origin = "user"
    BY <1>7 DEF UserCopies, server, Holds
  <2> QED  BY <2>1 DEF OrderInv
<1>8. CASE ServerGivesUp \/ UNCHANGED vars
  <2>1. UNCHANGED <<serverCopy, toClient, batches, guiQueue, clipboard>>
    BY <1>8 DEF ServerGivesUp, vars, server
  <2> QED  BY <2>1 DEF OrderInv
<1> QED  BY <1>1, <1>2, <1>3, <1>4, <1>5, <1>6, <1>7, <1>8 DEF Next, Channel

-----------------------------------------------------------------------------
(* The user's own copy.                                                     *)

\* What the user copied stays while nothing older can be on its way.
LEMMA OwnStep == QueueTypes /\ OwnInv /\ [Next]_vars => OwnInv'
<1> SUFFICES ASSUME QueueTypes, OwnInv, [Next]_vars, ~crossed' PROVE OwnInv'
  BY DEF OwnInv
<1> DEFINE Behind(q) == \A i, j \in DOMAIN q :
              i < j /\ q[i].type = "request" => q[j].type = "request"
           Owns == content = {} \/ UserList \in Items(toServer)
           Quiet == /\ clipboard.origin = "user" /\ batches = <<>> /\ guiQueue = <<>>
                    /\ \A m \in Items(toClient) : m.type # "data"
<1> SUFFICES Behind(toServer') /\ (Owns' => Quiet')
  BY DEF OwnInv
<1>0. /\ toClient \in Seq(ToClient) /\ toServer \in Seq(ToServer)
      /\ \A m \in ToServer : m.type \in {"request", "list"}
      /\ \A m \in ToServer : m.type = "list" => m = UserList
  <2>1. \A m \in ToServer : m.type \in {"request", "list"}
    BY DEF ToServer, UserList, Request
  <2> QED  BY <2>1, MessageFacts DEF QueueTypes
<1>1. ~crossed => Behind(toServer) /\ (Owns => Quiet)
  BY DEF OwnInv
<1>2. CASE ServerCopies
  <2>1. PICK formats \in Contents :
           content' = formats /\ toClient' = Append(toClient, List(formats))
    BY <1>2 DEF ServerCopies
  <2>2. /\ ~crossed /\ UNCHANGED <<toServer, batches, guiQueue, clipboard>>
    BY <1>2 DEF ServerCopies, user
  <2>3. content' # {}
    BY <2>1, RemoteClipboardAssumption
  <2>4. List(formats) \in ToClient /\ List(formats).type # "data"
    BY MessageFacts DEF ToClient
  <2>5. Items(toClient') = Items(toClient) \cup {List(formats)}
    BY <1>0, <2>1, <2>4, AppendFacts
  <2> QED  BY <1>1, <2>2, <2>3, <2>4, <2>5
<1>3. CASE ServerAnswers
  <2>0. PICK m : m = Head(toServer)
    OBVIOUS
  <2>1. /\ ~crossed /\ UNCHANGED <<content, batches, guiQueue, clipboard>>
        /\ toServer # <<>> /\ toServer' = Tail(toServer) /\ m.type = "request"
        /\ toClient' = Append(toClient, IF m.format \in content
                                        THEN Data(m.format, serverCopy) ELSE Refusal)
    BY <1>3, <2>0 DEF ServerAnswers, server, user
  <2>2. /\ Items(toServer') \subseteq Items(toServer)
        /\ \A i \in DOMAIN toServer' : /\ i + 1 \in DOMAIN toServer /\ i \in Nat /\ i >= 1
                                        /\ toServer'[i] = toServer[i + 1]
        /\ m = toServer[1] /\ 1 \in DOMAIN toServer
    <3>1. m = toServer[1] /\ 1 \in DOMAIN toServer
      BY <1>0, <2>0, <2>1, TailFacts
    <3>2. \A i \in DOMAIN toServer' : i >= 1
      BY <1>0, <2>1
    <3> QED  BY <1>0, <2>1, <3>1, <3>2, TailFacts
  <2>3. Behind(toServer')
    BY <1>1, <2>1, <2>2
  <2>4. UserList \notin Items(toServer')
    <3>1. \A i \in DOMAIN toServer' : toServer'[i].type = "request"
      BY <1>1, <2>1, <2>2
    <3> QED  BY <3>1, MessageFacts DEF Items
  <2>5. Owns' => Quiet'
    <3> SUFFICES ASSUME content = {} PROVE Quiet'
      BY <2>1, <2>4
    <3>1. toClient' = Append(toClient, Refusal)
      BY <2>1
    <3>2. Items(toClient') = Items(toClient) \cup {Refusal}
      BY <1>0, <3>1, AppendFacts, MessageFacts
    <3> QED  BY <1>1, <2>1, <3>2, MessageFacts
  <2> QED  BY <2>3, <2>5
<1>4. CASE ServerGivesUp
  <2>1. /\ ~crossed /\ UNCHANGED <<toClient, batches, guiQueue, clipboard>>
        /\ toServer # <<>> /\ toServer' = Tail(toServer) /\ Head(toServer).type = "list"
    BY <1>4 DEF ServerGivesUp, user
  <2>2. /\ \A i \in DOMAIN toServer' : /\ i + 1 \in DOMAIN toServer /\ i \in Nat
                                        /\ toServer'[i] = toServer[i + 1]
        /\ Head(toServer) \in Items(toServer) /\ Head(toServer) \in ToServer
    BY <1>0, <2>1, TailFacts
  <2>3. UserList \in Items(toServer)
    BY <1>0, <2>1, <2>2
  <2>4. Behind(toServer')
    BY <1>1, <2>1, <2>2
  <2> QED  BY <1>1, <2>1, <2>3, <2>4
<1>5. CASE ReceiveList
  <2>1. /\ ~crossed /\ UNCHANGED <<content, batches, guiQueue, clipboard>>
        /\ toClient # <<>> /\ toClient' = Tail(toClient)
    BY <1>5 DEF ReceiveList, server, user
  <2>2. Items(toClient') \subseteq Items(toClient)
    BY <1>0, <2>1, TailFacts
  <2>3. CASE UNCHANGED toServer
    BY <1>1, <2>1, <2>2, <2>3
  <2>4. ASSUME NEW format \in Askable, toServer' = Append(toServer, Request(format))
        PROVE  Behind(toServer') /\ (Owns' => Quiet')
    <3>1. Request(format) \in ToServer /\ Request(format).type = "request"
      BY MessageFacts DEF ToServer
    <3>2. /\ Items(toServer') = Items(toServer) \cup {Request(format)}
          /\ \A i \in DOMAIN toServer' : \/ i \in DOMAIN toServer /\ toServer'[i] = toServer[i]
                                         \/ i = Len(toServer') /\ toServer'[i] = Request(format)
          /\ Len(toServer') = Len(toServer) + 1 /\ Len(toServer) \in Nat
          /\ DOMAIN toServer = 1..Len(toServer)
      BY <1>0, <2>4, <3>1, AppendFacts
    <3>3. Behind(toServer')
      BY <1>1, <2>1, <3>1, <3>2
    <3>4. UserList # Request(format)
      BY <3>1, MessageFacts
    <3> QED  BY <1>1, <2>1, <2>2, <3>2, <3>3, <3>4
  <2>5. Chosen(Named(Head(toClient).formats)) \subseteq Askable
    <3>1. Head(toClient) \in ToClient /\ Head(toClient).type = "list"
      BY <1>0, <1>5, TailFacts DEF ReceiveList
    <3>2. Head(toClient).formats \in SUBSET Formats
      BY <3>1, MessageFacts, RemoteClipboardAssumption
    <3> QED  BY <3>2, ChosenFacts
  <2> QED  BY <1>5, <2>3, <2>4, <2>5 DEF ReceiveList
<1>6. CASE ReceiveData
  <2>1. /\ ~crossed /\ UNCHANGED <<content, toServer>>
        /\ toClient # <<>> /\ Head(toClient).type = "data"
    BY <1>6 DEF ReceiveData, server, user
  <2>2. Head(toClient) \in Items(toClient)
    BY <1>0, <2>1, TailFacts
  <2> QED  BY <1>1, <2>1, <2>2
<1>7. CASE ReceiveRefusal
  <2>1. /\ ~crossed /\ UNCHANGED <<content, toServer, batches, guiQueue, clipboard>>
        /\ toClient # <<>> /\ toClient' = Tail(toClient)
    BY <1>7 DEF ReceiveRefusal, server, user
  <2>2. Items(toClient') \subseteq Items(toClient)
    BY <1>0, <2>1, TailFacts
  <2> QED  BY <1>1, <2>1, <2>2
<1>8. CASE BatchEnds \/ Apply
  <2>1. /\ ~crossed /\ UNCHANGED <<content, toServer>> /\ (batches # <<>> \/ guiQueue # <<>>)
    <3>1. CASE BatchEnds
      BY <3>1 DEF BatchEnds, server, user
    <3>2. CASE Apply
      BY <3>2 DEF Apply, server, user
    <3> QED  BY <1>8, <3>1, <3>2
  <2> QED  BY <1>1, <2>1
<1>9. CASE UserCopies
  <2>1. ~UnderWay
    BY <1>9 DEF UserCopies
  <2>2. /\ clipboard'.origin = "user" /\ toServer' = Append(toServer, UserList)
        /\ UNCHANGED <<toClient, batches, guiQueue>>
    BY <1>9 DEF UserCopies, Holds
  <2>3. Quiet'
    BY <2>1, <2>2 DEF UnderWay, Items
  <2>4. \A i \in DOMAIN toServer' : toServer'[i].type = "list"
    <3>1. \A i \in DOMAIN toServer : toServer[i].type = "list"
      BY <1>0, <2>1 DEF UnderWay
    <3> QED  BY <1>0, <2>2, <3>1, AppendFacts, MessageFacts
  <2> QED  BY <2>3, <2>4
<1>10. CASE UNCHANGED vars
  BY <1>1, <1>10 DEF vars, server, user
<1> QED  BY <1>2, <1>3, <1>4, <1>5, <1>6, <1>7, <1>8, <1>9, <1>10 DEF Next, Channel

-----------------------------------------------------------------------------
(* The server's last copy.                                                  *)

\* From the list to the local clipboard, the last copy is never lost.
LEMMA CopyStep == QueueTypes /\ ValueTypes /\ AskedInv /\ CopyInv /\ [Next]_vars => CopyInv'
<1> SUFFICES ASSUME QueueTypes, ValueTypes, AskedInv, CopyInv, [Next]_vars
             PROVE  CopyInv'
  OBVIOUS
<1> DEFINE FG == "FileGroupDescriptorW"
           Way == \/ UserList \in Items(toServer)
                  \/ Listed \/ Asked \/ Answered \/ Calling \/ Arrived
<1>0. /\ toClient \in Seq(ToClient) /\ toServer \in Seq(ToServer)
      /\ batches \in Seq(1..MaxCopies) /\ guiQueue \in Seq(Calls)
      /\ content \in SUBSET Formats /\ requested \in Askable \cup {"none"}
  BY RemoteClipboardAssumption DEF QueueTypes, ValueTypes
<1>1. /\ requested = FG \/ batches # <<>> => filesAsked
      /\ Wanted # {} /\ ~filesAsked => Way
  BY DEF CopyInv
<1>2. content' = content /\ longNames' = longNames => Wanted' = Wanted
  BY DEF Wanted, Named
<1>3. Wanted \subseteq content \cap Askable /\ (content = {} => Wanted = {})
  BY <1>0, ChosenFacts DEF Wanted
<1> SUFFICES /\ requested' = FG \/ batches' # <<>> => filesAsked'
             /\ Wanted' # {} /\ ~filesAsked' => Way'
  BY DEF CopyInv
<1>4. CASE ServerCopies
  <2>1. PICK formats \in Contents :
           content' = formats /\ toClient' = Append(toClient, List(formats))
    BY <1>4 DEF ServerCopies
  <2>2. UNCHANGED <<requested, batches, filesAsked>>
    BY <1>4 DEF ServerCopies
  <2>3. List(formats) \in ToClient
    BY DEF ToClient
  <2>4. /\ toClient'[Len(toClient')] = List(content') /\ Len(toClient') \in DOMAIN toClient'
        /\ \A j \in DOMAIN toClient' : ~(j > Len(toClient'))
    <3>1. toClient' \in Seq(ToClient) /\ toClient' # <<>>
          /\ toClient'[Len(toClient')] = List(formats)
      BY <1>0, <2>1, <2>3, AppendFacts
    <3> QED  BY <2>1, <3>1
  <2>5. Listed'
    BY <2>4 DEF Listed, List
  <2> QED  BY <1>1, <2>2, <2>5
<1>5. CASE ServerAnswers
  <2>0. PICK m : m = Head(toServer)
    OBVIOUS
  <2>1. /\ UNCHANGED <<content, longNames, serverCopy, requested, batches, guiQueue,
                       clipboard, filesAsked>>
        /\ toServer # <<>> /\ toServer' = Tail(toServer) /\ m.type = "request"
        /\ toClient' = Append(toClient, IF m.format \in content
                                        THEN Data(m.format, serverCopy) ELSE Refusal)
    BY <1>5, <2>0 DEF ServerAnswers, server
  <2>2. /\ Items(toServer) = {m} \cup Items(toServer') /\ m \in ToServer
        /\ toServer' # <<>> => toServer'[Len(toServer')] = toServer[Len(toServer)]
        /\ toServer' = <<>> => m = toServer[Len(toServer)]
    BY <1>0, <2>0, <2>1, TailFacts
  <2>3. m # UserList /\ m.format \in Askable
    BY <2>1, <2>2, MessageFacts
  <2>4. PICK answer \in ToClient :
           /\ toClient' = Append(toClient, answer) /\ answer.type # "list"
           /\ m.format \in content => answer = Data(m.format, serverCopy)
    <3>1. CASE m.format \in content
      <4>1. serverCopy \in 1..MaxCopies
        BY <3>1 DEF AskedInv, ValueTypes
      <4>2. Data(m.format, serverCopy) \in ToClient
        BY <2>3, <4>1 DEF ToClient
      <4>3. Data(m.format, serverCopy).type # "list"
        BY DEF Data
      <4> QED  BY <2>1, <3>1, <4>2, <4>3
    <3>2. CASE m.format \notin content
      BY <2>1, <3>2, MessageFacts
    <3> QED  BY <3>1, <3>2
  <2>5. /\ Items(toClient') = Items(toClient) \cup {answer}
        /\ toClient' # <<>> /\ toClient'[Len(toClient')] = answer
        /\ \A i \in DOMAIN toClient' : \/ i \in DOMAIN toClient /\ toClient'[i] = toClient[i]
                                       \/ i = Len(toClient') /\ toClient'[i] = answer
        /\ \A i \in DOMAIN toClient : i \in DOMAIN toClient' /\ toClient'[i] = toClient[i]
    BY <1>0, <2>4, AppendFacts
  <2>6. Wanted' = Wanted
    BY <1>2, <2>1
  <2> SUFFICES ASSUME Wanted # {}, ~filesAsked PROVE Way'
    BY <1>1, <2>1, <2>6
  <2>7. CASE UserList \in Items(toServer)
    BY <2>2, <2>3, <2>7
  <2>8. CASE Listed
    <3>1. PICK i \in DOMAIN toClient :
             /\ toClient[i] = List(content)
             /\ \A j \in DOMAIN toClient : j > i => toClient[j].type # "list"
      BY <2>8 DEF Listed
    <3>2. Listed'
      BY <2>1, <2>4, <2>5, <3>1 DEF Listed, List
    <3> QED  BY <3>2
  <2>9. CASE Asked
    <3>1. NoList'
      BY <2>4, <2>5, <2>9 DEF Asked, NoList
    <3>2. CASE toServer' # <<>>
      <4>1. Asked'
        BY <2>1, <2>2, <2>6, <2>9, <3>1, <3>2 DEF Asked, Request
      <4> QED  BY <4>1
    <3>3. CASE toServer' = <<>>
      <4>1. m = Request(requested) /\ requested \in content
        BY <1>3, <2>2, <2>9, <3>3 DEF Asked
      <4>2. m.format = requested
        BY <4>1 DEF Request
      <4>3. toClient'[Len(toClient')] = Data(requested, serverCopy)
        BY <2>4, <2>5, <4>1, <4>2
      <4>4. Answered'
        BY <2>1, <2>5, <3>1, <3>3, <4>3 DEF Answered, Data
      <4> QED  BY <4>4
    <3> QED  BY <3>2, <3>3
  <2>10. CASE Answered \/ Calling \/ Arrived
    BY <2>1, <2>10 DEF Answered, Calling, Arrived
  <2> QED  BY <1>1, <2>7, <2>8, <2>9, <2>10
<1>6. CASE ServerGivesUp
  <2>1. content' = {} /\ UNCHANGED <<requested, batches, filesAsked>>
    BY <1>6 DEF ServerGivesUp
  <2>3. Wanted' = {}
    BY <2>1 DEF Wanted, Named, Chosen
  <2> QED  BY <1>1, <2>1, <2>3
<1>7. CASE ReceiveList
  <2>0. PICK m : m = Head(toClient)
    OBVIOUS
  <2>1. /\ UNCHANGED <<content, longNames, serverCopy, batches, guiQueue, clipboard>>
        /\ toClient # <<>> /\ toClient' = Tail(toClient) /\ m.type = "list"
        /\ filesAsked' = (filesAsked \/ requested' = FG)
    BY <1>7, <2>0 DEF ReceiveList, server
  <2>2. /\ Items(toClient) = {m} \cup Items(toClient')
        /\ m = toClient[1] /\ 1 \in DOMAIN toClient /\ m \in ToClient
        /\ \A i \in DOMAIN toClient' : /\ i + 1 \in DOMAIN toClient /\ i \in Nat
                                        /\ toClient'[i] = toClient[i + 1]
        /\ \A i \in DOMAIN toClient : i = 1 \/ \E k \in DOMAIN toClient' :
              /\ toClient'[k] = toClient[i]
              /\ \A j \in DOMAIN toClient' : j > k => j + 1 > i
    BY <1>0, <2>0, <2>1, TailFacts
  <2>3. \/ /\ Chosen(Named(m.formats)) = {} /\ UNCHANGED <<requested, toServer>>
        \/ \E format \in Chosen(Named(m.formats)) :
              requested' = format /\ toServer' = Append(toServer, Request(format))
    BY <1>7, <2>0 DEF ReceiveList
  <2>4. Wanted' = Wanted
    BY <1>2, <2>1
  <2>5. Chosen(Named(m.formats)) \subseteq Askable
    BY <2>1, <2>2, MessageFacts, ChosenFacts, RemoteClipboardAssumption
  <2>6. requested' = FG \/ batches' # <<>> => filesAsked'
    <3>1. filesAsked => filesAsked'
      BY <2>1
    <3>2. requested' = FG => filesAsked'
      BY <2>1
    <3> QED  BY <1>1, <2>1, <3>1, <3>2
  <2> SUFFICES ASSUME Wanted # {}, ~filesAsked PROVE Way'
    BY <2>1, <2>4, <2>6
  <2>7. \/ toServer' = toServer
        \/ \E format \in Askable : toServer' = Append(toServer, Request(format))
    BY <2>3, <2>5
  <2>8. Items(toServer) \subseteq Items(toServer')
    <3>1. \A format \in Askable : Request(format) \in ToServer
      BY DEF ToServer
    <3>2. toServer \in Seq(ToServer)
      BY <1>0
    <3>3. CASE toServer' = toServer
      BY <3>3
    <3>4. CASE \E format \in Askable : toServer' = Append(toServer, Request(format))
      <4>1. PICK format \in Askable : toServer' = Append(toServer, Request(format))
        BY <3>4
      <4>2. PICK e : e = Request(format)
        OBVIOUS
      <4>3. e \in ToServer /\ toServer' = Append(toServer, e)
        BY <3>1, <4>1, <4>2
      <4>4. Items(toServer') = Items(toServer) \cup {e}
        BY <3>2, <4>3, AppendFacts
      <4> QED  BY <4>4
    <3> QED  BY <2>7, <3>3, <3>4
  <2>9. CASE UserList \in Items(toServer)
    BY <2>8, <2>9
  <2>10. CASE Listed
    <3>1. PICK i \in DOMAIN toClient :
             /\ toClient[i] = List(content)
             /\ \A j \in DOMAIN toClient : j > i => toClient[j].type # "list"
      BY <2>10 DEF Listed
    <3>2. CASE i = 1
      <4>1. m = List(content) /\ m.formats = content
        BY <2>2, <3>1, <3>2 DEF List
      <4>2. PICK format \in Wanted :
               requested' = format /\ toServer' = Append(toServer, Request(format))
        BY <2>3, <4>1 DEF Wanted
      <4>3. \A j \in DOMAIN toClient' : toClient'[j].type # "list"
        <5>1. \A j \in DOMAIN toClient' : j + 1 > 1
          BY <1>0, <2>1
        <5> QED  BY <2>2, <3>1, <3>2, <5>1
      <4>4. NoList'
        BY <4>3 DEF NoList, Items
      <4>5. Request(format) \in ToServer
        BY <1>3, <4>2 DEF ToServer
      <4>6. toServer' # <<>> /\ toServer'[Len(toServer')] = Request(format)
        BY <1>0, <4>2, <4>5, AppendFacts
      <4>7. Asked'
        BY <2>4, <4>2, <4>4, <4>6 DEF Asked, Request
      <4> QED  BY <4>7
    <3>3. CASE i # 1
      <4>1. PICK k \in DOMAIN toClient' :
               /\ toClient'[k] = toClient[i]
               /\ \A j \in DOMAIN toClient' : j > k => j + 1 > i
        BY <2>2, <3>1, <3>3
      <4>2. toClient'[k] = List(content)
        BY <3>1, <4>1
      <4>3. \A j \in DOMAIN toClient' : j > k => toClient'[j].type # "list"
        BY <2>2, <3>1, <4>1
      <4>4. Listed'
        BY <2>1, <4>2, <4>3 DEF Listed, List
      <4> QED  BY <4>4
    <3> QED  BY <3>2, <3>3
  <2>11. CASE Asked \/ Answered \/ Calling \/ Arrived
    BY <2>1, <2>2, <2>11 DEF Asked, Answered, Calling, Arrived, NoList
  <2> QED  BY <1>1, <2>9, <2>10, <2>11
<1>8. CASE ReceiveData \/ ReceiveRefusal
  <2>0. PICK m : m = Head(toClient)
    OBVIOUS
  <2>1. /\ UNCHANGED <<content, longNames, serverCopy, requested, toServer, clipboard,
                       filesAsked>>
        /\ toClient # <<>> /\ toClient' = Tail(toClient) /\ m.type # "list"
    <3>1. CASE ReceiveData
      BY <2>0, <3>1 DEF ReceiveData, server
    <3>2. CASE ReceiveRefusal
      BY <2>0, <3>2 DEF ReceiveRefusal, server
    <3> QED  BY <1>8, <3>1, <3>2
  <2>2. /\ Items(toClient) = {m} \cup Items(toClient')
        /\ m = toClient[1] /\ 1 \in DOMAIN toClient /\ m \in ToClient
        /\ \A i \in DOMAIN toClient' : /\ i + 1 \in DOMAIN toClient /\ i \in Nat
                                        /\ toClient'[i] = toClient[i + 1]
        /\ toClient' # <<>> => toClient'[Len(toClient')] = toClient[Len(toClient)]
        /\ toClient' = <<>> => m = toClient[Len(toClient)]
        /\ \A i \in DOMAIN toClient : i = 1 \/ \E k \in DOMAIN toClient' :
              /\ toClient'[k] = toClient[i]
              /\ \A j \in DOMAIN toClient' : j > k => j + 1 > i
    BY <1>0, <2>0, <2>1, TailFacts
  <2>3. requested # FG => UNCHANGED batches
    BY <1>8 DEF ReceiveData, ReceiveRefusal
  <2>4. Wanted' = Wanted
    BY <1>2, <2>1
  <2> SUFFICES ASSUME Wanted # {}, ~filesAsked PROVE Way'
    BY <1>1, <2>1, <2>3, <2>4
  <2>5. requested # FG /\ batches = <<>>
    BY <1>1
  <2>6. CASE UserList \in Items(toServer)
    BY <2>1, <2>6
  <2>7. CASE Listed
    <3>1. PICK i \in DOMAIN toClient :
             /\ toClient[i] = List(content)
             /\ \A j \in DOMAIN toClient : j > i => toClient[j].type # "list"
      BY <2>7 DEF Listed
    <3>2. i # 1
      BY <2>1, <2>2, <3>1, MessageFacts
    <3>3. PICK k \in DOMAIN toClient' :
             /\ toClient'[k] = toClient[i]
             /\ \A j \in DOMAIN toClient' : j > k => j + 1 > i
      BY <2>2, <3>1, <3>2
    <3>4. toClient'[k] = List(content)
      BY <3>1, <3>3
    <3>5. \A j \in DOMAIN toClient' : j > k => toClient'[j].type # "list"
      BY <2>2, <3>1, <3>3
    <3>6. Listed'
      BY <2>1, <3>4, <3>5 DEF Listed, List
    <3> QED  BY <3>6
  <2>8. CASE Asked
    <3>1. Asked'
      BY <2>1, <2>2, <2>4, <2>8 DEF Asked, NoList, Request
    <3> QED  BY <3>1
  <2>9. CASE Answered
    <3>1. NoList'
      BY <2>2, <2>9 DEF Answered, NoList
    <3>2. CASE toClient' # <<>>
      <4>1. Answered'
        BY <2>1, <2>2, <2>9, <3>1, <3>2 DEF Answered, Data
      <4> QED  BY <4>1
    <3>3. CASE toClient' = <<>>
      <4>1. m = Data(requested, serverCopy)
        BY <2>2, <2>9, <3>3 DEF Answered
      <4>2. m.type = "data" /\ m.format = requested /\ m.copy = serverCopy
        BY <4>1 DEF Data
      <4>3. ReceiveData /\ guiQueue' = Append(guiQueue, Call(serverCopy, requested, requested))
        BY <1>8, <2>0, <2>5, <4>2 DEF ReceiveData, ReceiveRefusal
      <4>4. guiQueue' # <<>>
            /\ guiQueue'[Len(guiQueue')] = Call(serverCopy, requested, requested)
        <5>1. m.format \in Askable /\ m.copy \in 1..MaxCopies
          BY <2>2, <4>2, MessageFacts
        <5>2. Call(serverCopy, requested, requested) \in Calls
          BY <4>2, <5>1 DEF Call, Calls
        <5> QED  BY <1>0, <4>3, <5>2, AppendFacts
      <4>5. Calling'
        BY <2>1, <2>9, <3>3, <4>4 DEF Calling, Answered, Call
      <4> QED  BY <4>5
    <3> QED  BY <3>2, <3>3
  <2>10. CASE Calling \/ Arrived
    BY <2>1, <2>10 DEF Calling, Arrived
  <2> QED  BY <1>1, <2>6, <2>7, <2>8, <2>9, <2>10
<1>9. CASE BatchEnds
  <2>1. /\ batches # <<>>
        /\ UNCHANGED <<requested, filesAsked>>
    BY <1>9 DEF BatchEnds
  <2> QED  BY <1>1, <2>1
<1>10. CASE Apply
  <2>0. PICK call : call = Head(guiQueue)
    OBVIOUS
  <2>1. /\ guiQueue # <<>> /\ guiQueue' = Tail(guiQueue)
        /\ UNCHANGED <<content, longNames, serverCopy, toClient, toServer, requested,
                       batches, filesAsked>>
    BY <1>10 DEF Apply, server
  <2>2. Wanted' = Wanted
    BY <1>2, <2>1
  <2>3. /\ guiQueue' # <<>> => guiQueue'[Len(guiQueue')] = guiQueue[Len(guiQueue)]
        /\ guiQueue' = <<>> => call = guiQueue[Len(guiQueue)]
    BY <1>0, <2>0, <2>1, TailFacts
  <2> SUFFICES ASSUME Wanted # {}, ~filesAsked PROVE Way'
    BY <1>1, <2>1, <2>2
  <2>4. CASE UserList \in Items(toServer) \/ Listed \/ Asked \/ Answered
    <3>1. /\ Listed => Listed'
          /\ Asked => Asked'
          /\ Answered => Answered'
      BY <2>1, <2>2 DEF Listed, Asked, Answered, NoList, List, Request, Data
    <3> QED  BY <2>1, <2>4, <3>1
  <2>5. CASE Calling /\ guiQueue' # <<>>
    <3>1. Calling'
      BY <2>1, <2>3, <2>5 DEF Calling, Call
    <3> QED  BY <3>1
  <2>6. CASE Calling /\ guiQueue' = <<>>
    <3>1. call = Call(serverCopy, requested, requested)
      BY <2>3, <2>6 DEF Calling
    <3>2. call.format = call.as /\ call.copy = serverCopy
      BY <3>1 DEF Call
    <3>3. clipboard' = Holds("server", serverCopy, TRUE)
      BY <1>10, <2>0, <3>2 DEF Apply, Decodes
    <3>4. Arrived'
      BY <2>1, <2>6, <3>3 DEF Arrived, Calling, Holds
    <3> QED  BY <3>4
  <2>7. CASE Arrived
    BY <2>1, <2>7 DEF Arrived
  <2> QED  BY <1>1, <2>4, <2>5, <2>6, <2>7
<1>11. CASE UserCopies
  <2>1. toServer' = Append(toServer, UserList)
        /\ UNCHANGED <<requested, batches, filesAsked>>
    BY <1>11 DEF UserCopies
  <2>2. UserList \in Items(toServer')
    BY <1>0, <2>1, AppendFacts, MessageFacts
  <2> QED  BY <1>1, <2>1, <2>2
<1>12. CASE UNCHANGED vars
  BY <1>1, <1>2, <1>12 DEF vars, server, user, Listed, Asked, Answered, Calling, Arrived,
     NoList, List, Request, Data, Call, Holds
<1> QED  BY <1>4, <1>5, <1>6, <1>7, <1>8, <1>9, <1>10, <1>11, <1>12 DEF Next, Channel

-----------------------------------------------------------------------------
(* The theorems.                                                            *)

\* At first the clipboard is the user's and nothing is under way.
LEMMA InitClipboard == Init => ClipboardInv
<1> SUFFICES ASSUME Init PROVE ClipboardInv
  OBVIOUS
<1>1. FlagTypes
  BY DEF Init, FlagTypes
<1>2. /\ toClient = <<>> /\ toServer = <<>> /\ batches = <<>> /\ guiQueue = <<>>
      /\ clipboard = Holds("user", 0, TRUE) /\ content = {} /\ serverCopy = 0
      /\ requested = "none" /\ userCopies = 0
  BY DEF Init
<1>3. QueueTypes
  BY <1>2 DEF QueueTypes
<1>4. ValueTypes
  BY <1>2, RemoteClipboardAssumption DEF ValueTypes, Holds
<1>5. AskedInv
  BY <1>2 DEF AskedInv, Items
<1>6. OrderInv
  BY <1>2 DEF OrderInv, Items, Holds
<1>7. OwnInv
  BY <1>2 DEF OwnInv, Items, Holds
<1>8. Wanted = {}
  BY <1>2, ChosenFacts DEF Wanted
<1>9. CopyInv
  BY <1>2, <1>8 DEF CopyInv
<1> QED  BY <1>1, <1>3, <1>4, <1>5, <1>6, <1>7, <1>9 DEF ClipboardInv, TypeInv

\* The parts together are inductive.
THEOREM Invariance == Spec => []ClipboardInv
<1>1. ClipboardInv /\ [Next]_vars => ClipboardInv'
  BY FlagTypesStep, TypesStep, OrderStep, OwnStep, CopyStep DEF ClipboardInv, TypeInv
<1> QED  BY <1>1, InitClipboard, PTL DEF Spec

\* Type correctness.
THEOREM TypeCorrect == Spec => []TypeOK
<1>1. ClipboardInv => TypeOK
  BY DEF ClipboardInv, TypeInv, FlagTypes, QueueTypes, ValueTypes, TypeOK, ToClient,
     ToServer, Calls
<1> QED  BY <1>1, Invariance, PTL

\* Whatever the copies on the two sides, once nothing is under way the clipboards
\* agree (qf_CliprdrServerFormatListCallBack, dataChangedCallback).
THEOREM Agreement == Spec => []ClipboardsAgree
<1>1. ClipboardInv => ClipboardsAgree
  <2> SUFFICES ASSUME ClipboardInv, AtRest
               PROVE  CASE content = {} -> clipboard.origin = "user" \/ crossed
                        [] Chosen(Named(content)) = {} -> TRUE
                        [] OTHER -> \/ clipboard = Holds("server", serverCopy, TRUE)
                                    \/ filesAsked
    BY DEF ClipboardsAgree
  <2>1. toClient = <<>> /\ toServer = <<>> /\ batches = <<>> /\ guiQueue = <<>>
    BY DEF AtRest, UnderWay
  <2>2. content = {} => clipboard.origin = "user" \/ crossed
    BY DEF ClipboardInv, OwnInv
  <2>3. Wanted # {} => clipboard = Holds("server", serverCopy, TRUE) \/ filesAsked
    <3>1. UserList \notin Items(toServer) /\ ~Listed /\ ~Asked /\ ~Answered /\ ~Calling
      BY <2>1 DEF Items, Listed, Asked, Answered, Calling
    <3> QED  BY <3>1 DEF ClipboardInv, CopyInv, Arrived
  <2> QED  BY <2>2, <2>3 DEF Wanted
<1> QED  BY <1>1, Invariance, PTL

\* Text and images reach the local clipboard in the order of their copies
\* (updateClipboardDataFromRemote).
THEOREM InOrder == Spec => DataArrivesInOrder
<1> DEFINE Forward ==
      /\ guiQueue' # guiQueue /\ Len(guiQueue') < Len(guiQueue)
      /\ Head(guiQueue).as # "FileGroupDescriptorW"
      /\ clipboard.origin = "server"
      => clipboard'.copy >= clipboard.copy
<1>1. ClipboardInv /\ [Next]_vars => [Forward]_vars
  <2> SUFFICES ASSUME ClipboardInv, [Next]_vars,
                      guiQueue' # guiQueue, Len(guiQueue') < Len(guiQueue),
                      Head(guiQueue).as # "FileGroupDescriptorW",
                      clipboard.origin = "server"
               PROVE  clipboard'.copy >= clipboard.copy
    OBVIOUS
  <2>0. /\ guiQueue \in Seq(Calls) /\ clipboard.copy \in Nat
        /\ \A call \in Calls : call.copy \in Nat
    BY RemoteClipboardAssumption
       DEF ClipboardInv, TypeInv, QueueTypes, ValueTypes, Calls
  <2>1. Apply
    <3>2. ~(ReceiveData \/ BatchEnds)
      <4>1. ClipboardInv'
        BY FlagTypesStep, TypesStep, OrderStep, OwnStep, CopyStep DEF ClipboardInv, TypeInv
      <4>2. guiQueue' \in Seq(Calls)
        BY <4>1 DEF ClipboardInv, TypeInv, QueueTypes
      <4>3. ASSUME NEW call, guiQueue' = Append(guiQueue, call) PROVE FALSE
        BY <2>0, <4>2, <4>3
      <4> QED  BY <4>3 DEF ReceiveData, BatchEnds
    <3>3. \/ ReceiveData \/ BatchEnds \/ Apply \/ UNCHANGED guiQueue
      BY DEF Next, Channel, ServerCopies, ServerAnswers, ServerGivesUp, ReceiveList,
         ReceiveRefusal, UserCopies, vars
    <3> QED  BY <3>2, <3>3
  <2>2. guiQueue # <<>> /\ Head(guiQueue) \in Items(guiQueue)
    <3>1. guiQueue # <<>>
      BY <2>1 DEF Apply
    <3> QED  BY <2>0, <3>1, TailFacts
  <2>3. clipboard.copy <= Head(guiQueue).copy /\ Head(guiQueue).copy \in Nat
    BY <2>0, <2>2, ItemFacts DEF ClipboardInv, OrderInv
  <2>4. UNCHANGED clipboard \/ clipboard'.copy = Head(guiQueue).copy
    BY <2>1 DEF Apply, Holds
  <2> QED  BY <2>0, <2>3, <2>4
<1> QED  BY <1>1, Invariance, PTL DEF Spec, DataArrivesInOrder

=============================================================================
