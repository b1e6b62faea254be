------------------------- MODULE RemoteFilesProofs -------------------------
(* Theorems about RemoteFiles for every value of its constants.             *)
EXTENDS RemoteFiles, FiniteSetTheorems, TLAPS

-----------------------------------------------------------------------------
(* What the proofs need of the lists the server copies.                     *)

\* The entries of a list are records of their type, and there are finitely many.
LEMMA ListingFacts ==
    ASSUME NEW g \in Batches
    PROVE  /\ g \in 1..Len(Listings)
           /\ Listings[g] \in Seq(Entry)
           /\ DOMAIN Listings[g] = 1..Len(Listings[g])
           /\ \A i \in DOMAIN Listings[g] : /\ Listings[g][i] \in Entry
                                            /\ <<g, i>> \in Files
           /\ \A S \in SUBSET (DOMAIN Listings[g]) : Cardinality(S) \in Nat
<1>1. /\ g \in 1..Len(Listings)
      /\ Listings[g] \in Seq(Entry)
  BY ListingsAssumption DEF Batches
<1>2. DOMAIN Listings[g] = 1..Len(Listings[g]) /\ Len(Listings[g]) \in Nat
  BY <1>1
<1>3. \A i \in DOMAIN Listings[g] : Listings[g][i] \in Entry
  BY <1>1, <1>2
<1>4. \A i \in DOMAIN Listings[g] : <<g, i>> \in Files
  BY DEF Files
<1>5. ASSUME NEW S \in SUBSET (DOMAIN Listings[g])
      PROVE  Cardinality(S) \in Nat
  <2>1. IsFiniteSet(1..Len(Listings[g]))
    BY <1>2, FS_Interval
  <2>2. IsFiniteSet(S)
    BY <1>2, <2>1, FS_Subset
  <2> QED  BY <2>2, FS_CardinalityType
<1> QED  BY <1>1, <1>2, <1>3, <1>4, <1>5

\* A file is a pair of a batch and an index of its list.
LEMMA FileFacts ==
    ASSUME NEW f \in Files
    PROVE  /\ f[1] \in Batches
           /\ f[2] \in DOMAIN Listings[f[1]]
           /\ f = <<f[1], f[2]>>
           /\ f[2] \in Nat
<1>1. PICK g \in Batches : f \in {g} \X (DOMAIN Listings[g])
  BY DEF Files
<1>2. f[1] = g /\ f[2] \in DOMAIN Listings[g] /\ f = <<f[1], f[2]>>
  BY <1>1
<1> QED  BY <1>1, <1>2, ListingFacts

-----------------------------------------------------------------------------
(* Stream ids.                                                              *)

\* A remainder is smaller than its divisor.
LEMMA RemainderRange ==
    ASSUME NEW a \in Int, NEW m \in Int, m > 0
    PROVE  a % m \in 0..(m - 1)
  BY Z3

\* Two numbers with one remainder are equal or the divisor or more apart.
LEMMA EqualRemainders ==
    ASSUME NEW a \in Int, NEW b \in Int, NEW m \in Int, m > 0, a < b,
           a % m = b % m
    PROVE  b - a >= m
<1> DEFINE p == a \div m
           q == b \div m
<1>1. p \in Int /\ q \in Int
  BY Z3
<1>2. a = m * p + (a % m) /\ b = m * q + (b % m)
  BY Z3
<1>3. b - a = m * q - m * p
  BY <1>2, Z3
<1>4. m * q - m * p = m * (q - p)
  BY <1>1, Z3
<1> HIDE DEF p, q
<1>5. q - p > 0
  BY <1>1, <1>3, <1>4, Z3
<1>6. m * (q - p) >= m
  BY <1>1, <1>5, Z3
<1> QED  BY <1>3, <1>4, <1>6, Z3

\* Stream ids stay between 1 and IdMod - 1: 0 is never used.
LEMMA StreamIdType ==
    ASSUME NEW n \in Nat \ {0}
    PROVE  StreamId(n) \in 1..(IdMod - 1)
<1>1. IdMod - 1 \in Int /\ IdMod - 1 > 0 /\ n - 1 \in Int
  BY SizesAssumption
<1>2. (n - 1) % (IdMod - 1) \in 0..((IdMod - 1) - 1)
  BY <1>1, RemainderRange
<1> QED  BY <1>1, <1>2 DEF StreamId

\* A stream id comes back only a whole turn of the counter later.
LEMMA StreamIdReused ==
    ASSUME NEW a \in Nat \ {0}, NEW b \in Nat \ {0}, a < b,
           StreamId(a) = StreamId(b)
    PROVE  b - a >= IdMod - 1
<1>1. IdMod - 1 \in Int /\ IdMod - 1 > 0
  BY SizesAssumption
<1>2. (a - 1) % (IdMod - 1) \in Int /\ (b - 1) % (IdMod - 1) \in Int
  BY <1>1, RemainderRange
<1>3. (a - 1) % (IdMod - 1) = (b - 1) % (IdMod - 1)
  BY <1>2 DEF StreamId
<1>4. (b - 1) - (a - 1) >= IdMod - 1
  BY <1>1, <1>3, EqualRemainders
<1> QED  BY <1>1, <1>4

-----------------------------------------------------------------------------
(* The inductive invariant.                                                 *)

\* The worker holds a job from TakeJob to FinishJob, and request is the last
\* request it made; what the server still has to answer is one of them.
WorkerInv ==
    /\ Busy => job \in Files
    /\ requests = request.serial
    /\ workerPc \in {"send", "wait", "sleepResponse"} => requests > 0
    /\ request.kind = "range" => request.len > 0
    /\ workerPc = "send" => request.kind # "none"
    /\ toServer # NoRequest => /\ toServer.serial \in 1..requests
                               /\ toServer.kind # "none"

\* A payload is only ever kept under the stream id of the request it answers.
IdsInv ==
    /\ \A i \in DOMAIN inbox :
          inbox[i].type = "contents" /\ Names(inbox[i].data) =>
             /\ inbox[i].data.serial \in 1..requests
             /\ inbox[i].id = StreamId(inbox[i].data.serial)
    /\ Names(pending.data) => /\ pending.data.serial \in 1..requests
                              /\ pending.id = StreamId(pending.data.serial)
    /\ pending.active => requests > 0 /\ pending.id = StreamId(requests)
    /\ workerPc = "writeChunk" => AnswersRequest(chunk)

IndInv == TypeOK /\ WorkerInv /\ IdsInv

\* The constants of the model have their types.
LEMMA ValueTypes ==
    /\ NoData \in Data /\ ~Names(NoData)
    /\ NoRequest \in Request
    /\ NoPending \in PendingResponse
    /\ Absent \in LocalFile
    /\ Batches = 1..Len(Listings) /\ Len(Listings) \in Nat
BY SizesAssumption, ListingsAssumption DEF NoData, Data, NoRequest, Request,
   NoPending, PendingResponse, Absent, LocalFile, Names, Batches

\* The fields of the PDU the channel thread handles next have their types.
LEMMA HeadPdu ==
    ASSUME inbox \in Seq(Pdu), inbox # <<>>
    PROVE  /\ Tail(inbox) \in Seq(Pdu)
           /\ Head(inbox) = inbox[1] /\ 1 \in DOMAIN inbox
           /\ \A i \in DOMAIN Tail(inbox) : /\ i + 1 \in DOMAIN inbox
                                            /\ Tail(inbox)[i] = inbox[i + 1]
           /\ Head(inbox).type = "list" => Head(inbox).gen \in Batches
           /\ Head(inbox).type = "contents" =>
                 /\ Head(inbox).id \in 1..(IdMod - 1)
                 /\ Head(inbox).ok \in BOOLEAN
                 /\ Head(inbox).data \in Data
<1>1. Head(inbox) \in Pdu
  OBVIOUS
<1>2. ASSUME NEW m \in Pdu
      PROVE  /\ m.type = "list" => m.gen \in Batches
             /\ m.type = "contents" => /\ m.id \in 1..(IdMod - 1)
                                       /\ m.ok \in BOOLEAN
                                       /\ m.data \in Data
  BY DEF Pdu
<1> QED  BY <1>1, <1>2

\* A correct answer to a request has the type of a payload and names it.
LEMMA ContentType ==
    ASSUME ChannelTypes, NEW r \in Request, CanRead(r), r.kind # "none"
    PROVE  Content(r) \in Data /\ Content(r).serial = r.serial
<1>1. /\ serverGen \in Batches /\ r.index \in DOMAIN Listings[serverGen]
      /\ r.serial \in Nat /\ r.off \in Nat /\ r.len \in Nat /\ r.index \in Nat
  BY DEF CanRead, IsServerFile, Request
<1>2. Listings[serverGen][r.index] \in Entry
  BY <1>1, ListingFacts
<1>3. serverGen \in Nat /\ Listings[serverGen][r.index].size \in Nat
  BY <1>1, <1>2, ValueTypes DEF Entry
<1>4. CASE r.kind = "size"
  BY <1>1, <1>3, <1>4 DEF Content, Data, SizeBytes
<1>5. CASE r.kind = "range"
  <2>1. r.off < Listings[serverGen][r.index].size
    BY <1>5 DEF CanRead
  <2>2. Smaller(r.len, Listings[serverGen][r.index].size - r.off) \in Nat
    BY <1>1, <1>3, <2>1 DEF Smaller
  <2> QED  BY <1>1, <1>3, <1>5, <2>2 DEF Content, Data
<1> QED  BY <1>4, <1>5 DEF Request

\* Every response the server gives has its type, the stream id of the request
\* and, if it carries data, its serial number.
LEMMA ResponseType ==
    ASSUME ChannelTypes, WorkerInv, requests \in Nat, toServer # NoRequest,
           NEW m \in Responses(toServer)
    PROVE  /\ m \in Pdu /\ m.type = "contents"
           /\ Names(m.data) => /\ m.data.serial \in 1..requests
                               /\ m.id = StreamId(m.data.serial)
<1>1. /\ toServer \in Request /\ toServer.kind # "none"
      /\ toServer.serial \in 1..requests
  BY DEF ChannelTypes, WorkerInv
<1>2. StreamId(toServer.serial) \in 1..(IdMod - 1)
  BY <1>1, StreamIdType
<1>3. PICK ok \in BOOLEAN, data \in Data :
         /\ m = [type |-> "contents", id |-> StreamId(toServer.serial),
                 ok |-> ok, data |-> data]
         /\ data = NoData \/ data.serial = toServer.serial
  BY <1>1, ContentType, ValueTypes DEF Responses
<1> QED  BY <1>1, <1>2, <1>3, ValueTypes DEF Pdu

\* The jobs a list is turned into are files of it.
LEMMA NewJobs ==
    ASSUME NEW g \in Batches, NEW S \in SUBSET (DOMAIN Listings[g]),
           NEW q \in InListOrder(g, S)
    PROVE  q \in Seq(Files)
<1>1. Cardinality(S) \in Nat
  BY ListingFacts
<1>2. \A i \in S : <<g, i>> \in Files
  BY ListingFacts
<1>3. q \in [1..Cardinality(S) -> {g} \X S]
  BY DEF InListOrder
<1>4. \A i \in 1..Cardinality(S) : q[i] \in Files
  BY <1>2, <1>3
<1> QED  BY <1>1, <1>3, <1>4

\* Before the session begins the inductive invariant holds.
THEOREM InitInv == Init => IndInv
<1> SUFFICES ASSUME Init PROVE IndInv
  OBVIOUS
<1>1. ChannelTypes
  BY ValueTypes DEF Init, ChannelTypes
<1>2. WorkerTypes
  <2>1. remoteJobs \in Seq(Files) /\ job \in Files \cup {NoFile}
    BY DEF Init
  <2>2. request \in Request /\ chunk \in Data
    BY ValueTypes DEF Init
  <2> QED  BY <2>1, <2>2 DEF Init, WorkerTypes
<1>3. BatchTypes
  BY ValueTypes DEF Init, BatchTypes
<1>4. WorkerInv
  BY DEF Init, WorkerInv, Busy, NoRequest
<1>5. IdsInv
  BY ValueTypes DEF Init, IdsInv, NoPending
<1> QED  BY <1>1, <1>2, <1>3, <1>4, <1>5 DEF IndInv, TypeOK

\* No step of any thread takes a variable of the channel out of its type.
LEMMA ChannelTypesStep == TypeOK /\ WorkerInv /\ [Next]_vars => ChannelTypes'
<1> SUFFICES ASSUME TypeOK, WorkerInv, [Next]_vars PROVE ChannelTypes'
  OBVIOUS
<1>0. ChannelTypes /\ WorkerTypes
  BY DEF TypeOK
<1>1. CASE ServerCopy
  <2>1. serverGen' \in Batches /\ serverGen' \in 0..Len(Listings)
    BY <1>0, <1>1, ValueTypes DEF ServerCopy, ChannelTypes
  <2>2. inbox' \in Seq(Pdu)
    BY <1>0, <1>1, <2>1 DEF ServerCopy, ChannelTypes, Pdu
  <2> QED  BY <1>0, <1>1, <2>1, <2>2 DEF ServerCopy, ChannelTypes
<1>2. CASE ServerAnswer
  <2>1. PICK m \in Responses(toServer), n \in 1..MaxCopies :
           inbox' = inbox \o [i \in 1..n |-> m]
    BY <1>2 DEF ServerAnswer
  <2>2. m \in Pdu
    BY <1>0, <1>2, ResponseType DEF ServerAnswer, WorkerTypes
  <2>3. [i \in 1..n |-> m] \in Seq(Pdu)
    BY <2>2, SizesAssumption
  <2>4. inbox' \in Seq(Pdu)
    BY <1>0, <2>1, <2>3 DEF ChannelTypes
  <2> QED  BY <1>0, <1>2, <2>4, ValueTypes DEF ServerAnswer, ChannelTypes
<1>3. CASE ReceiveEmptyList \/ ReceiveFileList
  <2>1. inbox' \in Seq(Pdu)
    BY <1>0, <1>3, HeadPdu DEF ReceiveEmptyList, ReceiveFileList, NextPdu,
       ChannelTypes
  <2> QED  BY <1>0, <1>3, <2>1 DEF ReceiveEmptyList, ReceiveFileList, NextPdu,
              ChannelTypes
<1>4. CASE ReceiveContents
  <2>1. /\ inbox' \in Seq(Pdu)
        /\ Head(inbox).ok \in BOOLEAN /\ Head(inbox).data \in Data
    BY <1>0, <1>4, HeadPdu DEF ReceiveContents, NextPdu, ChannelTypes
  <2>2. pending' \in PendingResponse
    BY <1>0, <1>4, <2>1, ValueTypes DEF ReceiveContents, ChannelTypes,
       PendingResponse
  <2> QED  BY <1>0, <1>4, <2>1, <2>2 DEF ReceiveContents, NextPdu, ChannelTypes
<1>5. CASE AskSize \/ AskRange
  <2>1. StreamId(requests + 1) \in 0..(IdMod - 1)
    BY <1>0, StreamIdType, SizesAssumption DEF WorkerTypes
  <2>2. pending' = [NoPending EXCEPT !.active = TRUE, !.id = StreamId(requests + 1)]
    BY <1>5 DEF AskSize, AskRange, NewRequest
  <2>3. pending' \in PendingResponse
    BY <2>1, <2>2, ValueTypes DEF PendingResponse, NoPending
  <2> QED  BY <1>0, <1>5, <2>3 DEF AskSize, AskRange, NewRequest, peerVars,
              ChannelTypes
<1>6. CASE SendRequest
  BY <1>0, <1>6 DEF SendRequest, peerVars, ChannelTypes, WorkerTypes
<1>7. CASE SendFailed \/ AwaitResponse
  BY <1>0, <1>7, ValueTypes DEF SendFailed, AwaitResponse, peerVars, ChannelTypes
<1>8. CASE Disconnect
  BY <1>0, <1>8, ValueTypes DEF Disconnect, shutdownUnchanged, ChannelTypes
<1>9. CASE DestroyEntry
  BY <1>0, <1>9 DEF DestroyEntry, shutdownUnchanged, ChannelTypes, PendingResponse
<1>10. CASE Quit \/ FreeChannel \/ MainReturns \/ JoinWorker
  BY <1>0, <1>10 DEF Quit, FreeChannel, MainReturns, JoinWorker,
     shutdownUnchanged, ChannelTypes
<1>11. CASE TakeJob \/ OpenFile \/ WriteChunk \/ SaveFile \/ AbandonFile
            \/ FinishJob
  BY <1>0, <1>11 DEF TakeJob, OpenFile, WriteChunk, SaveFile, AbandonFile,
     FinishJob, peerVars, ChannelTypes
<1>12. CASE ApplyPublished \/ UNCHANGED vars
  BY <1>0, <1>12 DEF ApplyPublished, vars, ChannelTypes
<1> QED  BY <1>1, <1>2, <1>3, <1>4, <1>5, <1>6, <1>7, <1>8, <1>9, <1>10, <1>11,
            <1>12 DEF Next, Server, Channel, Worker, Shutdown, Finished

\* No step takes a variable of the worker out of its type.
LEMMA WorkerTypesStep == TypeOK /\ WorkerInv /\ [Next]_vars => WorkerTypes'
<1> SUFFICES ASSUME TypeOK, WorkerInv, [Next]_vars PROVE WorkerTypes'
  OBVIOUS
<1>0. ChannelTypes /\ WorkerTypes
  BY DEF TypeOK
<1>1. CASE ReceiveFileList
  <2>1. Head(inbox).gen \in Batches
    BY <1>0, <1>1, HeadPdu DEF ReceiveFileList, NextPdu, ChannelTypes
  <2>2. remoteJobs' \in Seq(Files)
    <3>1. CASE remoteJobs' = remoteJobs
      BY <1>0, <3>1 DEF WorkerTypes
    <3>2. CASE \E failed \in SUBSET NeedsDir(Head(inbox).gen) :
                  EnqueueList(Head(inbox).gen, failed)
      <4>1. PICK S \in SUBSET (DOMAIN Listings[Head(inbox).gen]) :
               \E new \in InListOrder(Head(inbox).gen, S) :
                  remoteJobs' = remoteJobs \o new
        BY <3>2 DEF EnqueueList
      <4> QED  BY <1>0, <2>1, <4>1, NewJobs DEF WorkerTypes
    <3> QED  BY <1>1, <3>1, <3>2 DEF ReceiveFileList
  <2>3. workerPc' \in {workerPc, "take"}
    BY <1>1 DEF ReceiveFileList, EnqueueList, Started, NotifyJobs
  <2> QED  BY <1>0, <1>1, <2>2, <2>3 DEF ReceiveFileList, WorkerTypes, workerLocals
<1>2. CASE ReceiveContents
  BY <1>0, <1>2 DEF ReceiveContents, NotifyResponse, WorkerTypes, workerLocals
<1>3. CASE TakeJob
  <2>1. remoteJobs' \in Seq(Files) /\ job' \in Files \cup {NoFile}
    BY <1>0, <1>3 DEF TakeJob, WorkerTypes
  <2> QED  BY <1>0, <1>3, <2>1 DEF TakeJob, WorkerTypes, peerVars
<1>4. CASE AskSize
  <2>1. job[2] \in Nat
    BY <1>0, FileFacts DEF WorkerTypes, NoFile
  <2>2. request' \in Request
    BY <1>0, <1>4, <2>1 DEF AskSize, NewRequest, WorkerTypes, Request, SizeBytes
  <2> QED  BY <1>0, <1>4, <2>2 DEF AskSize, NewRequest, WorkerTypes, peerVars
<1>5. CASE AskRange
  <2>1. job[2] \in Nat
    BY <1>0, FileFacts DEF WorkerTypes, NoFile
  <2>2. Smaller(ChunkSize, fileSize - offset) \in Nat
    BY <1>0, <1>5, SizesAssumption DEF AskRange, WorkerTypes, Smaller
  <2>3. request' \in Request
    BY <1>0, <1>5, <2>1, <2>2 DEF AskRange, NewRequest, WorkerTypes, Request
  <2> QED  BY <1>0, <1>5, <2>3 DEF AskRange, NewRequest, WorkerTypes, peerVars
<1>6. CASE AwaitResponse
  <2>1. pending.data \in Data /\ pending.data.size \in Nat
    BY <1>0 DEF ChannelTypes, PendingResponse, Data
  <2> QED  BY <1>0, <1>6, <2>1 DEF AwaitResponse, WorkerTypes, peerVars
<1>7. CASE WriteChunk
  <2>1. offset + chunk.len \in Nat
    BY <1>0 DEF WorkerTypes, Data
  <2> QED  BY <1>0, <1>7, <2>1 DEF WriteChunk, WorkerTypes, peerVars
<1>8. CASE SendRequest
  BY <1>0, <1>8 DEF SendRequest, WorkerTypes, peerVars, workerLocals
<1>9. CASE SendFailed \/ OpenFile \/ SaveFile \/ AbandonFile \/ FinishJob
  BY <1>0, <1>9 DEF SendFailed, OpenFile, SaveFile, AbandonFile, FinishJob,
     WorkerTypes, peerVars, workerLocals
<1>10. CASE DestroyEntry
  BY <1>0, <1>10 DEF DestroyEntry, NotifyJobs, NotifyResponse, WorkerTypes,
     shutdownUnchanged, workerLocals
<1>11. CASE Quit \/ Disconnect \/ FreeChannel \/ MainReturns \/ JoinWorker
  BY <1>0, <1>11 DEF Quit, Disconnect, FreeChannel, MainReturns, JoinWorker,
     WorkerTypes, shutdownUnchanged, workerLocals
<1>12. CASE Server \/ ReceiveEmptyList \/ ApplyPublished \/ UNCHANGED vars
  BY <1>0, <1>12 DEF Server, ServerCopy, ServerAnswer, ReceiveEmptyList,
     ApplyPublished, vars, WorkerTypes, workerLocals
<1> QED  BY <1>1, <1>2, <1>3, <1>4, <1>5, <1>6, <1>7, <1>8, <1>9, <1>10, <1>11,
            <1>12 DEF Next, Channel, Worker, Shutdown, Finished

\* No step takes a batch, a local file or the view's queue out of its type.
LEMMA BatchTypesStep == TypeOK /\ WorkerInv /\ [Next]_vars => BatchTypes'
<1> SUFFICES ASSUME TypeOK, WorkerInv, [Next]_vars PROVE BatchTypes'
  OBVIOUS
<1>0. ChannelTypes /\ WorkerTypes /\ BatchTypes
  BY DEF TypeOK
<1>1. ASSUME NEW g \in Batches, Publish(g)
      PROVE  published' \in Seq(Batches) /\ danglingUse' \subseteq {"view", "channel"}
  <2>1. published \in Seq(Batches) /\ danglingUse \subseteq {"view", "channel"}
    BY <1>0 DEF BatchTypes
  <2>2. Append(published, g) \in Seq(Batches)
    BY <1>1, <2>1
  <2>3. CASE UNCHANGED <<published, danglingUse>>
    BY <2>1, <2>3
  <2>4. CASE UNCHANGED published /\ danglingUse' = danglingUse \cup {"view"}
    BY <2>1, <2>4
  <2>5. CASE published' = Append(published, g) /\ UNCHANGED danglingUse
    BY <2>1, <2>2, <2>5
  <2> QED  BY <1>1, <2>3, <2>4, <2>5 DEF Publish
<1>2. CASE ReceiveFileList
  <2> DEFINE g == Head(inbox).gen
  <2>1. g \in Batches
    BY <1>0, <1>2, HeadPdu DEF ReceiveFileList, NextPdu, ChannelTypes
  <2>2. CASE UNCHANGED <<remoteJobs, batchVars, published, danglingUse>>
    BY <1>0, <1>2, <2>2 DEF ReceiveFileList, BatchTypes, batchVars, guiVars
  <2>3. CASE \E failed \in SUBSET NeedsDir(g) : EnqueueList(g, failed)
    <3>1. PICK failed \in SUBSET NeedsDir(g) : EnqueueList(g, failed)
      BY <2>3
    <3>2. \A S \in SUBSET (DOMAIN Listings[g]) : Cardinality(S) \in Nat
      BY <2>1, ListingFacts
    <3>3. PICK S \in SUBSET (DOMAIN Listings[g]) :
             remaining' = [remaining EXCEPT ![g] = Cardinality(S)]
      BY <3>1 DEF EnqueueList
    <3>4. remaining' \in [Batches -> Int]
      <4>1. Cardinality(S) \in Int
        BY <3>2
      <4>2. remaining \in [Batches -> Int]
        BY <1>0 DEF BatchTypes
      <4> QED  BY <3>3, <4>1, <4>2
    <3>5. \A i \in NeedsDir(g) : Listings[g][i].top \in STRING
      <4>1. \A i \in NeedsDir(g) : Listings[g][i] \in Entry
        BY <2>1, ListingFacts DEF NeedsDir
      <4> QED  BY <4>1 DEF Entry
    <3>6. madeDirs' \subseteq Batches \X STRING /\ accepted' \subseteq Batches
      BY <1>0, <2>1, <3>1, <3>5 DEF EnqueueList, BatchTypes
    <3>7. published' \in Seq(Batches) /\ danglingUse' \subseteq {"view", "channel"}
      BY <1>0, <1>1, <2>1, <3>1 DEF EnqueueList, BatchTypes
    <3> QED  BY <1>0, <1>2, <3>4, <3>6, <3>7 DEF ReceiveFileList, BatchTypes, guiVars
  <2> QED  BY <1>2, <2>2, <2>3 DEF ReceiveFileList
<1>3. CASE OpenFile \/ WriteChunk \/ SaveFile \/ AbandonFile
  <2>1. disk' \in [Files -> LocalFile]
    <3>1. CASE disk' = disk
      BY <1>0, <3>1 DEF BatchTypes
    <3>2. CASE \E new \in LocalFile : disk' = [disk EXCEPT ![job] = new]
      BY <1>0, <3>2 DEF BatchTypes
    <3>3. CASE job \notin Files
      BY <1>0, <1>3, <3>3 DEF OpenFile, WriteChunk, SaveFile, AbandonFile, BatchTypes
    <3>4. ASSUME job \in Files
          PROVE  disk' = disk \/ \E new \in LocalFile : disk' = [disk EXCEPT ![job] = new]
      <4>1. disk[job] \in LocalFile /\ serverGen \in Nat /\ chunk \in Data
        BY <1>0, <3>4 DEF BatchTypes, ChannelTypes, WorkerTypes
      <4>2. CASE OpenFile
        BY <4>2, ValueTypes DEF OpenFile, LocalFile
      <4>3. CASE WriteChunk
        <5>1. [disk[job] EXCEPT !.chunks = Append(@, chunk)] \in LocalFile
          <6>1. disk[job].chunks \in Seq(Data)
            BY <4>1 DEF LocalFile
          <6>2. Append(disk[job].chunks, chunk) \in Seq(Data)
            BY <4>1, <6>1
          <6> QED  BY <4>1, <6>2 DEF LocalFile
        <5> QED  BY <4>3, <5>1 DEF WriteChunk
      <4>4. CASE SaveFile
        <5>1. [disk[job] EXCEPT !.state = "saved", !.savedAt = serverGen] \in LocalFile
          BY <4>1 DEF LocalFile
        <5> QED  BY <1>0, <4>4, <5>1 DEF SaveFile, BatchTypes
      <4>5. CASE AbandonFile
        BY <4>5, ValueTypes DEF AbandonFile
      <4> QED  BY <1>3, <4>2, <4>3, <4>4, <4>5
    <3> QED  BY <3>1, <3>2, <3>3, <3>4
  <2> QED  BY <1>0, <1>3, <2>1 DEF OpenFile, WriteChunk, SaveFile, AbandonFile,
              peerVars, guiVars, BatchTypes
<1>4. CASE FinishJob
  <2>1. job \in Files /\ job[1] \in Batches
    BY <1>4, FileFacts DEF FinishJob, WorkerInv, Busy
  <2>2. published' \in Seq(Batches) /\ danglingUse' \subseteq {"view", "channel"}
    BY <1>0, <1>1, <1>4, <2>1 DEF FinishJob, BatchTypes
  <2>3. remaining' \in [Batches -> Int]
    BY <1>0, <1>4, <2>1 DEF FinishJob, BatchTypes
  <2> QED  BY <1>0, <1>4, <2>2, <2>3 DEF FinishJob, peerVars, guiVars, BatchTypes
<1>5. CASE ApplyPublished
  <2>1. published[applied + 1] \in Batches
    BY <1>0, <1>5 DEF ApplyPublished, BatchTypes
  <2>2. ExistingPaths(published[applied + 1]) \subseteq STRING
    <3>1. \A f \in Files : EntryOf(f).top \in STRING
      <4>1. \A f \in Files : EntryOf(f) \in Entry
        BY FileFacts, ListingFacts DEF EntryOf
      <4> QED  BY <4>1 DEF Entry
    <3> QED  BY <1>0, <3>1 DEF ExistingPaths, BatchTypes
  <2>3. clipboard' \in [batch : 0..Len(Listings), paths : SUBSET STRING]
    BY <1>0, <1>5, <2>1, <2>2, ValueTypes DEF ApplyPublished, BatchTypes
  <2> QED  BY <1>0, <1>5, <2>3 DEF ApplyPublished, batchVars, BatchTypes
<1>6. CASE SendRequest
  BY <1>0, <1>6 DEF SendRequest, peerVars, guiVars, BatchTypes
<1>7. CASE TakeJob \/ AskSize \/ AskRange \/ SendFailed \/ AwaitResponse
  BY <1>0, <1>7 DEF TakeJob, AskSize, AskRange, NewRequest, SendFailed,
     AwaitResponse, peerVars, guiVars, BatchTypes
<1>8. CASE Shutdown
  BY <1>0, <1>8 DEF Shutdown, Quit, Disconnect, FreeChannel, MainReturns,
     DestroyEntry, JoinWorker, shutdownUnchanged, batchVars, guiVars, BatchTypes
<1>9. CASE Server \/ ReceiveEmptyList \/ ReceiveContents \/ UNCHANGED vars
  BY <1>0, <1>9 DEF Server, ServerCopy, ServerAnswer, ReceiveEmptyList,
     ReceiveContents, vars, batchVars, guiVars, BatchTypes
<1> QED  BY <1>2, <1>3, <1>4, <1>5, <1>6, <1>7, <1>8, <1>9
         DEF Next, Channel, Worker, Finished

\* Wherever a thread steps, the worker's place in its loop goes on implying what
\* it holds: a job, a request that was made, a chunk.
LEMMA WorkerInvStep == TypeOK /\ WorkerInv /\ [Next]_vars => WorkerInv'
<1> SUFFICES ASSUME TypeOK, WorkerInv, [Next]_vars PROVE WorkerInv'
  OBVIOUS
<1>0. ChannelTypes /\ WorkerTypes
  BY DEF TypeOK
<1>1. CASE ServerAnswer \/ Disconnect
  BY <1>1 DEF ServerAnswer, Disconnect, shutdownUnchanged, WorkerInv, Busy, workerLocals
<1>2. CASE ReceiveFileList
  <2>1. workerPc' = workerPc \/ (workerPc \in {"none", "sleepJobs"} /\ workerPc' = "take")
    BY <1>2 DEF ReceiveFileList, EnqueueList, Started, NotifyJobs
  <2> QED  BY <1>2, <2>1 DEF ReceiveFileList, WorkerInv, Busy, workerLocals
<1>3. CASE ReceiveContents
  BY <1>3 DEF ReceiveContents, NotifyResponse, WorkerInv, Busy, workerLocals
<1>4. CASE TakeJob
  <2>1. remoteJobs # <<>> => Head(remoteJobs) \in Files
    BY <1>0 DEF WorkerTypes
  <2> QED  BY <1>4, <2>1 DEF TakeJob, peerVars, WorkerInv, Busy
<1>5. CASE AskSize
  <2>1. requests' > 0 /\ request'.serial = requests' /\ request'.kind = "size"
    BY <1>0, <1>5 DEF AskSize, NewRequest, WorkerTypes
  <2>2. toServer # NoRequest => toServer.serial \in 1..requests'
    BY <1>0, <1>5 DEF AskSize, NewRequest, WorkerTypes, WorkerInv
  <2> QED  BY <1>5, <2>1, <2>2 DEF AskSize, NewRequest, peerVars, WorkerInv, Busy
<1>6. CASE AskRange
  <2>1. requests' > 0 /\ request'.serial = requests' /\ request'.kind = "range"
    BY <1>0, <1>6 DEF AskRange, NewRequest, WorkerTypes
  <2>2. request'.len > 0
    BY <1>0, <1>6, SizesAssumption DEF AskRange, NewRequest, WorkerTypes, Smaller
  <2>3. toServer # NoRequest => toServer.serial \in 1..requests'
    BY <1>0, <1>6 DEF AskRange, NewRequest, WorkerTypes, WorkerInv
  <2> QED  BY <1>6, <2>1, <2>2, <2>3 DEF AskRange, NewRequest, peerVars,
              WorkerInv, Busy
<1>7. CASE SendRequest
  <2>1. request.serial \in 1..requests
    BY <1>0, <1>7 DEF SendRequest, WorkerInv, WorkerTypes
  <2> QED  BY <1>7, <2>1 DEF SendRequest, peerVars, workerLocals, WorkerInv, Busy
<1>8. CASE SendFailed \/ AwaitResponse \/ OpenFile \/ WriteChunk
  BY <1>8 DEF SendFailed, AwaitResponse, OpenFile, WriteChunk, peerVars,
     workerLocals, WorkerInv, Busy
<1>9. CASE SaveFile \/ AbandonFile \/ FinishJob
  BY <1>9 DEF SaveFile, AbandonFile, FinishJob, peerVars, workerLocals,
     WorkerInv, Busy
<1>10. CASE DestroyEntry
  BY <1>10 DEF DestroyEntry, NotifyJobs, NotifyResponse, shutdownUnchanged,
     workerLocals, WorkerInv, Busy
<1>11. CASE Quit \/ FreeChannel \/ MainReturns \/ JoinWorker
  BY <1>11 DEF Quit, FreeChannel, MainReturns, JoinWorker, shutdownUnchanged,
     workerLocals, WorkerInv, Busy
<1>12. CASE ServerCopy \/ ReceiveEmptyList \/ ApplyPublished \/ UNCHANGED vars
  BY <1>12 DEF ServerCopy, ReceiveEmptyList, ApplyPublished, vars,
     workerLocals, WorkerInv, Busy
<1> QED  BY <1>1, <1>2, <1>3, <1>4, <1>5, <1>6, <1>7, <1>8, <1>9, <1>10, <1>11,
            <1>12 DEF Next, Server, Channel, Worker, Shutdown, Finished

\* What the ids of payloads on their way say is not disturbed by taking PDUs
\* out of inbox, adding responses to it, or making further requests.
LEMMA IdsInvStep == IndInv /\ [Next]_vars => IdsInv'
<1> SUFFICES ASSUME IndInv, [Next]_vars PROVE IdsInv'
  OBVIOUS
<1>0. ChannelTypes /\ WorkerTypes /\ WorkerInv /\ IdsInv
  BY DEF IndInv, TypeOK
<1> DEFINE Labelled(m, n) ==
             m.type = "contents" /\ Names(m.data) =>
                /\ m.data.serial \in 1..n
                /\ m.id = StreamId(m.data.serial)
<1>1. CASE ServerCopy
  BY <1>0, <1>1 DEF ServerCopy, workerLocals, IdsInv, ChannelTypes, AnswersRequest
<1>2. CASE ServerAnswer
  <2>1. PICK m \in Responses(toServer), n \in 1..MaxCopies :
           inbox' = inbox \o [i \in 1..n |-> m]
    BY <1>2 DEF ServerAnswer
  <2>2. Labelled(m, requests)
    BY <1>0, <1>2, ResponseType DEF ServerAnswer, WorkerTypes
  <2>3. \A i \in DOMAIN inbox' : inbox'[i] = m \/ (i \in DOMAIN inbox /\ inbox'[i] = inbox[i])
    BY <1>0, <2>1, SizesAssumption DEF ChannelTypes
  <2> QED  BY <1>0, <1>2, <2>2, <2>3 DEF ServerAnswer, workerLocals, IdsInv,
              AnswersRequest
<1>3. CASE ReceiveEmptyList \/ ReceiveFileList
  <2>1. /\ inbox \in Seq(Pdu) /\ inbox # <<>> /\ inbox' = Tail(inbox)
        /\ UNCHANGED <<pending, requests, chunk>>
        /\ workerPc' = "writeChunk" => workerPc = "writeChunk"
    BY <1>0, <1>3 DEF ReceiveEmptyList, ReceiveFileList, NextPdu, EnqueueList,
       Started, NotifyJobs, workerLocals, ChannelTypes
  <2>2. \A i \in DOMAIN inbox' : Labelled(inbox'[i], requests)
    BY <1>0, <2>1, HeadPdu DEF IdsInv
  <2> QED  BY <1>0, <2>1, <2>2 DEF IdsInv, AnswersRequest
<1>4. CASE ReceiveContents
  <2>1. /\ inbox \in Seq(Pdu) /\ inbox # <<>> /\ inbox' = Tail(inbox)
        /\ UNCHANGED <<requests, chunk>>
        /\ workerPc' = "writeChunk" => workerPc = "writeChunk"
    BY <1>0, <1>4 DEF ReceiveContents, NextPdu, NotifyResponse, workerLocals,
       ChannelTypes
  <2>2. \A i \in DOMAIN inbox' : Labelled(inbox'[i], requests)
    BY <1>0, <2>1, HeadPdu DEF IdsInv
  <2>3. Labelled(Head(inbox), requests)
    BY <1>0, <2>1, HeadPdu DEF IdsInv
  <2>4. /\ pending'.active = pending.active /\ pending'.id = pending.id
        /\ \/ pending'.data = pending.data
           \/ pending'.data = NoData
           \/ /\ pending'.data = Head(inbox).data /\ Head(inbox).id = pending.id
              /\ Head(inbox).type = "contents"
    BY <1>0, <1>4 DEF ReceiveContents, NextPdu, ChannelTypes, PendingResponse
  <2> QED  BY <1>0, <2>1, <2>2, <2>3, <2>4, ValueTypes DEF IdsInv, AnswersRequest
<1>5. CASE AskSize \/ AskRange
  <2>1. /\ requests' = requests + 1 /\ UNCHANGED inbox
        /\ pending' = [NoPending EXCEPT !.active = TRUE, !.id = StreamId(requests + 1)]
        /\ workerPc' = "send"
    BY <1>5 DEF AskSize, AskRange, NewRequest, peerVars
  <2>2. pending'.data = NoData /\ pending'.id = StreamId(requests')
    BY <2>1 DEF NoPending
  <2> QED  BY <1>0, <2>1, <2>2, ValueTypes DEF IdsInv, WorkerTypes
<1>6. CASE AwaitResponse
  <2>1. UNCHANGED <<inbox, requests>> /\ pending' \in {pending, NoPending}
    BY <1>6 DEF AwaitResponse, peerVars
  <2>2. NoPending.data = NoData /\ ~NoPending.active
    BY DEF NoPending
  <2>3. workerPc' = "writeChunk" => AnswersRequest(chunk)'
    <3> SUFFICES ASSUME workerPc' = "writeChunk" PROVE AnswersRequest(chunk')
      BY <2>1 DEF AnswersRequest
    <3>1. /\ chunk' = pending.data /\ pending.id = StreamId(requests)
          /\ request.kind = "range" /\ pending.data.len = request.len
          /\ requests > 0
      BY <1>0, <1>6 DEF AwaitResponse, ResponseReady, WorkerInv
    <3>2. Names(chunk')
      BY <1>0, <3>1 DEF Names, WorkerInv
    <3>3. chunk'.serial \in 1..requests /\ StreamId(chunk'.serial) = StreamId(requests)
      BY <1>0, <3>1, <3>2 DEF IdsInv
    <3> QED  BY <1>0, <3>1, <3>3, StreamIdReused DEF AnswersRequest, WorkerTypes
  <2> QED  BY <1>0, <2>1, <2>2, <2>3, ValueTypes DEF IdsInv
<1>7. CASE SendFailed
  <2>1. UNCHANGED <<inbox, requests>> /\ pending' = NoPending /\ workerPc' = "abandon"
    BY <1>7 DEF SendFailed, peerVars
  <2>2. NoPending.data = NoData /\ ~NoPending.active
    BY DEF NoPending
  <2> QED  BY <1>0, <2>1, <2>2, ValueTypes DEF IdsInv
<1>8. CASE Disconnect
  BY <1>0, <1>8 DEF Disconnect, shutdownUnchanged, workerLocals, IdsInv, AnswersRequest
<1>9. CASE DestroyEntry
  <2>1. /\ pending'.active = pending.active /\ pending'.id = pending.id
        /\ pending'.data = pending.data /\ UNCHANGED <<inbox, requests, chunk>>
        /\ workerPc' = "writeChunk" => workerPc = "writeChunk"
    BY <1>0, <1>9 DEF DestroyEntry, shutdownUnchanged, workerLocals, NotifyJobs,
       NotifyResponse, ChannelTypes, PendingResponse
  <2> QED  BY <1>0, <2>1 DEF IdsInv, AnswersRequest
<1>10. CASE TakeJob \/ SendRequest \/ OpenFile \/ WriteChunk \/ SaveFile
            \/ AbandonFile \/ FinishJob
  <2>1. UNCHANGED <<inbox, requests, pending>> /\ workerPc' # "writeChunk"
    BY <1>10 DEF TakeJob, SendRequest, OpenFile, WriteChunk, SaveFile,
       AbandonFile, FinishJob, peerVars
  <2> QED  BY <1>0, <2>1 DEF IdsInv
<1>11. CASE Quit \/ FreeChannel \/ MainReturns \/ JoinWorker \/ ApplyPublished
            \/ UNCHANGED vars
  <2>1. UNCHANGED <<inbox, requests, pending, chunk, workerPc>>
    BY <1>11 DEF Quit, FreeChannel, MainReturns, JoinWorker, ApplyPublished,
       shutdownUnchanged, workerLocals, vars
  <2> QED  BY <1>0, <2>1 DEF IdsInv, AnswersRequest
<1> QED  BY <1>1, <1>2, <1>3, <1>4, <1>5, <1>6, <1>7, <1>8, <1>9, <1>10, <1>11
         DEF Next, Server, Channel, Worker, Shutdown, Finished

\* The inductive invariant holds throughout.
THEOREM Invariance == Spec => []IndInv
<1>1. Init => IndInv
  BY InitInv
<1>2. IndInv /\ [Next]_vars => IndInv'
  BY ChannelTypesStep, WorkerTypesStep, BatchTypesStep, WorkerInvStep, IdsInvStep
     DEF IndInv, TypeOK
<1> QED  BY <1>1, <1>2, PTL DEF Spec

\* Type correctness, for every list of files, chunk size and id width.
THEOREM TypeCorrect == Spec => []TypeOK
<1>1. IndInv => TypeOK
  BY DEF IndInv
<1> QED  BY <1>1, Invariance, PTL

\* However often and late the server answers, and whichever requests fail to be
\* sent, the worker is handed a response to the request it waits for unless a
\* whole turn of stream ids has gone by.
THEOREM ResponsesMatch == Spec => []NoForeignResponse
<1>1. IndInv => NoForeignResponse
  <2> SUFFICES ASSUME IndInv PROVE NoForeignResponse
    OBVIOUS
  <2>0. WorkerTypes /\ IdsInv
    BY DEF IndInv, TypeOK
  <2>1. ASSUME pending.active, Names(pending.data)
        PROVE  AnswersRequest(pending.data)
    <3>1. /\ requests \in Nat \ {0} /\ pending.data.serial \in 1..requests
          /\ StreamId(pending.data.serial) = StreamId(requests)
      BY <2>0, <2>1 DEF IdsInv, WorkerTypes
    <3> QED  BY <3>1, StreamIdReused DEF AnswersRequest
  <2> QED  BY <2>0, <2>1 DEF NoForeignResponse, IdsInv
<1> QED  BY <1>1, Invariance, PTL

\* Every step keeps a sleeping worker's reasons to sleep, or wakes it.
LEMMA NoLostWakeupStep ==
    IndInv /\ NoLostWakeup /\ [Next]_vars => NoLostWakeup'
<1> SUFFICES ASSUME IndInv, NoLostWakeup, [Next]_vars PROVE NoLostWakeup'
  OBVIOUS
<1>0. WorkerTypes
  BY DEF IndInv, TypeOK
<1>1. CASE ReceiveFileList
  <2>1. workerPc' = "sleepJobs" => workerPc = "sleepJobs" /\ UNCHANGED remoteJobs
    <3> SUFFICES ASSUME workerPc' = "sleepJobs"
                 PROVE  workerPc = "sleepJobs" /\ UNCHANGED remoteJobs
      OBVIOUS
    <3>1. CASE UNCHANGED remoteJobs /\ workerPc' = Started(workerPc)
      BY <3>1 DEF Started
    <3>2. ASSUME NEW failed, EnqueueList(Head(inbox).gen, failed)
          PROVE  workerPc = "sleepJobs" /\ UNCHANGED remoteJobs
      <4> DEFINE g == Head(inbox).gen
                 files == {i \in DOMAIN Listings[g] :
                              Listings[g][i].kind = "file" /\ i \notin failed}
      <4>1. files = {} /\ workerPc = "sleepJobs"
        BY <3>2 DEF EnqueueList, Started, NotifyJobs
      <4>2. PICK new \in InListOrder(g, {}) : remoteJobs' = remoteJobs \o new
        BY <3>2, <4>1 DEF EnqueueList
      <4>3. new = <<>>
        BY FS_EmptySet DEF InListOrder
      <4> QED  BY <1>0, <4>1, <4>2, <4>3 DEF WorkerTypes
    <3> QED  BY <1>1, <3>1, <3>2 DEF ReceiveFileList
  <2>2. workerPc' = "sleepResponse" => workerPc = "sleepResponse"
    BY <1>1 DEF ReceiveFileList, EnqueueList, Started, NotifyJobs
  <2> QED  BY <1>1, <2>1, <2>2 DEF ReceiveFileList, NoLostWakeup, ResponseReady,
              workerLocals
<1>2. CASE ReceiveContents
  BY <1>2 DEF ReceiveContents, NotifyResponse, NoLostWakeup, ResponseReady, workerLocals
<1>3. CASE TakeJob \/ AwaitResponse
  BY <1>3 DEF TakeJob, AwaitResponse, NoLostWakeup, ResponseReady, peerVars
<1>4. CASE AskSize \/ AskRange
  BY <1>4 DEF AskSize, AskRange, NewRequest, NoLostWakeup
<1>5. CASE SendRequest \/ SendFailed \/ OpenFile \/ WriteChunk \/ SaveFile
           \/ AbandonFile \/ FinishJob
  BY <1>5 DEF SendRequest, SendFailed, OpenFile, WriteChunk, SaveFile,
     AbandonFile, FinishJob, NoLostWakeup
<1>6. CASE DestroyEntry
  BY <1>6 DEF DestroyEntry, NotifyJobs, NotifyResponse, NoLostWakeup
<1>7. CASE Quit \/ Disconnect \/ FreeChannel \/ MainReturns \/ JoinWorker
  BY <1>7 DEF Quit, Disconnect, FreeChannel, MainReturns, JoinWorker,
     shutdownUnchanged, workerLocals, NoLostWakeup, ResponseReady
<1>8. CASE Server \/ ReceiveEmptyList \/ ApplyPublished \/ UNCHANGED vars
  BY <1>8 DEF Server, ServerCopy, ServerAnswer, ReceiveEmptyList, ApplyPublished,
     vars, workerLocals, NoLostWakeup, ResponseReady
<1> QED  BY <1>1, <1>2, <1>3, <1>4, <1>5, <1>6, <1>7, <1>8
         DEF Next, Channel, Worker, Shutdown, Finished

\* No notification of either condition variable is lost: the worker never
\* sleeps beside a job, a response or a request to stop.
THEOREM WorkerIsWoken == Spec => []NoLostWakeup
<1>1. Init => NoLostWakeup
  BY DEF Init, NoLostWakeup
<1> QED  BY <1>1, Invariance, NoLostWakeupStep, PTL DEF Spec

=============================================================================
