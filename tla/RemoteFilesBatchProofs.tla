----------------------- MODULE RemoteFilesBatchProofs -----------------------
(* Theorems about how RemoteFiles counts, orders and publishes the batches, *)
(* that it implements FileBatches, and that the files it saves are those    *)
(* that were copied, for every value of its constants.                      *)
EXTENDS RemoteFilesProofs

-----------------------------------------------------------------------------
(* The inductive invariant, in parts.                                       *)

\* The files that are still to be fetched: those queued and the one in hand.
Unsettled(f) == f \in Queued \/ (Busy /\ f = job)

\* Jobs are queued in the order of the lists, and the one in hand precedes them.
OrderInv ==
    /\ \A i, j \in DOMAIN remoteJobs :
          i < j => Promise!Before(remoteJobs[i], remoteJobs[j])
    /\ Busy => \A i \in DOMAIN remoteJobs : Promise!Before(job, remoteJobs[i])

\* Jobs are files of accepted batches, and none is queued without a context.
JobsInv ==
    /\ \A f \in Files : Unsettled(f) => f[1] \in accepted /\ EntryOf(f).kind = "file"
    /\ remoteJobs # <<>> => remoteContext

IsList(m) == m.type = "list"

\* The lists on their way are newer than the accepted ones, and in order.
ListsInv ==
    /\ \A g \in accepted : g <= serverGen
    /\ \A i \in DOMAIN inbox : IsList(inbox[i]) =>
          inbox[i].gen <= serverGen /\ \A g \in accepted : g < inbox[i].gen
    /\ \A i, j \in DOMAIN inbox :
          i < j /\ IsList(inbox[i]) /\ IsList(inbox[j]) =>
             inbox[i].gen < inbox[j].gen

\* The worker has the local copy of its job open.
Writing == \/ workerPc \in {"nextRange", "writeChunk"}
           \/ /\ workerPc \in {"send", "sendFailed", "wait", "sleepResponse",
                               "abandon"}
              /\ request.kind = "range"

\* Only the file in hand is half-written, none that is to be fetched is saved,
\* and what is on disk belongs to an accepted batch.
DiskInv ==
    /\ \A f \in Files : disk[f].state = "partial" =>
          workerPc = "crashed" \/ (Writing /\ f = job)
    /\ workerPc = "writeChunk" => request.kind = "range"
    /\ \A f \in Files : disk[f].state # "absent" => f[1] \in accepted
    /\ \A f \in Queued : disk[f].state = "absent"
    /\ Busy /\ workerPc # "jobDone" => disk[job].state # "saved"

\* Published batches are accepted, and precede the files still to be fetched.
PublishedInv ==
    /\ PublishedOnceComplete
    /\ \A i \in DOMAIN published : published[i] \in accepted
    /\ \A i \in DOMAIN published : \A f \in Files :
          HasJobs(published[i]) /\ Unsettled(f) => published[i] < f[1]

BatchInv ==
    /\ IndInv
    /\ OrderInv /\ JobsInv /\ ListsInv /\ DiskInv /\ RemainingCounts
    /\ PublishedInv

-----------------------------------------------------------------------------
(* Files, and the sets of them that are counted.                            *)

\* The files of all lists are strictly ordered.
LEMMA BeforeOrders ==
    /\ \A f \in Files : ~Promise!Before(f, f)
    /\ \A e, f, h \in Files :
          Promise!Before(e, f) /\ Promise!Before(f, h) => Promise!Before(e, h)
<1>1. \A f \in Files : f[1] \in Nat /\ f[2] \in Nat
  BY FileFacts, ValueTypes
<1> QED  BY <1>1 DEF Promise!Before

\* There are finitely many files in a batch.
LEMMA BatchFinite ==
    ASSUME NEW g \in Batches, NEW S \in SUBSET {f \in Files : f[1] = g}
    PROVE  IsFiniteSet(S) /\ Cardinality(S) \in Nat
<1>1. DOMAIN Listings[g] = 1..Len(Listings[g]) /\ Len(Listings[g]) \in Nat
  BY ListingFacts
<1>2. IsFiniteSet(DOMAIN Listings[g])
  BY <1>1, FS_Interval
<1>3. IsFiniteSet({g} \X (DOMAIN Listings[g]))
  BY <1>2, FS_Singleton, FS_Product
<1>4. S \subseteq {g} \X (DOMAIN Listings[g])
  BY FileFacts
<1> QED  BY <1>3, <1>4, FS_Subset, FS_CardinalityType

\* What the outstanding files of a batch are.
LEMMA OutstandingFacts ==
    ASSUME NEW g \in Batches
    PROVE  /\ Outstanding(g) = {f \in Files : f[1] = g /\ Unsettled(f)}
           /\ IsFiniteSet(Outstanding(g)) /\ Cardinality(Outstanding(g)) \in Nat
           /\ Cardinality(Outstanding(g)) = 0 <=> Outstanding(g) = {}
<1>1. Outstanding(g) = {f \in Files : f[1] = g /\ Unsettled(f)}
  BY DEF Outstanding, Unsettled
<1>2. IsFiniteSet(Outstanding(g)) /\ Cardinality(Outstanding(g)) \in Nat
  BY <1>1, BatchFinite
<1> QED  BY <1>1, <1>2, FS_EmptySet

\* The jobs made of the entries S of a list: as many as S, all of that list,
\* each of an entry in S, in order.
LEMMA NewJobFacts ==
    ASSUME NEW g \in Batches, NEW S \in SUBSET (DOMAIN Listings[g]),
           NEW new \in InListOrder(g, S)
    PROVE  /\ new \in Seq(Files) /\ Len(new) = Cardinality(S)
           /\ DOMAIN new = 1..Len(new)
           /\ \A i \in DOMAIN new : new[i][1] = g /\ new[i][2] \in S
           /\ \A i, j \in DOMAIN new : i < j => Promise!Before(new[i], new[j])
           /\ S = {} => new = <<>>
<1>1. new \in Seq(Files)
  BY NewJobs
<1>2. Cardinality(S) \in Nat
  BY ListingFacts
<1>3. new \in [1..Cardinality(S) -> {g} \X S]
  BY DEF InListOrder
<1>4. Len(new) = Cardinality(S) /\ DOMAIN new = 1..Len(new)
  BY <1>1, <1>2, <1>3
<1>5. \A i \in DOMAIN new : new[i][1] = g /\ new[i][2] \in S
  BY <1>3, <1>4
<1>6. \A i, j \in DOMAIN new : i < j => new[i][2] < new[j][2]
  BY DEF InListOrder
<1>7. \A i, j \in DOMAIN new : i < j => Promise!Before(new[i], new[j])
  BY <1>5, <1>6 DEF Promise!Before
<1>8. S = {} => new = <<>>
  BY <1>1, <1>4, FS_EmptySet
<1> QED  BY <1>1, <1>4, <1>5, <1>7, <1>8

\* There are as many jobs as entries, because no job comes twice.
LEMMA NewJobsCounted ==
    ASSUME NEW g \in Batches, NEW S \in SUBSET (DOMAIN Listings[g]),
           NEW new \in InListOrder(g, S)
    PROVE  Cardinality({new[i] : i \in DOMAIN new}) = Cardinality(S)
<1> DEFINE T == {new[i] : i \in DOMAIN new}
           n == Cardinality(S)
<1>1. n \in Nat /\ DOMAIN new = 1..n /\ \A i \in 1..n : new[i] \in Files
  BY NewJobFacts, ListingFacts
<1>2. \A i, j \in 1..n : i < j => new[i] # new[j]
  BY <1>1, NewJobFacts, BeforeOrders
<1>3. \A i, j \in 1..n : new[i] = new[j] => i = j
  BY <1>1, <1>2
<1>4. new \in [1..n -> T]
  BY <1>1, NewJobFacts DEF InListOrder
<1>5. new \in Bijection(1..n, T)
  BY <1>1, <1>3, <1>4 DEF Bijection, Injection, Surjection, IsInjective
<1>6. ExistsBijection(1..n, T)
  BY <1>5 DEF ExistsBijection
<1>7. IsFiniteSet(1..n) /\ Cardinality(1..n) = n
  BY <1>1, FS_Interval
<1> QED  BY <1>6, <1>7, FS_Bijection

-----------------------------------------------------------------------------
(* What the steps do to the files still to be fetched.                      *)

\* The entries S of list g are queued, as jobs new, and counted; without any,
\* the list may be published at once.
Accepts(g, S, new) ==
    /\ S \subseteq DOMAIN Listings[g] /\ new \in InListOrder(g, S)
    /\ \A i \in S : Listings[g][i].kind = "file"
    /\ \A i \in DOMAIN Listings[g] :
          Listings[g][i].kind = "file" /\ ~Listings[g][i].nested => i \in S
    /\ remoteJobs' = remoteJobs \o new
    /\ remaining' = [remaining EXCEPT ![g] = Cardinality(S)]
    /\ accepted' = accepted \cup {g}
    /\ UNCHANGED published \/ (S = {} /\ published' = Append(published, g))

\* A list that is received is refused, or some of its entries are queued.
LEMMA ReceiveFacts ==
    ASSUME TypeOK, ReceiveFileList
    PROVE  LET g == Head(inbox).gen
           IN /\ g \in Batches /\ IsList(inbox[1]) /\ inbox[1].gen = g
              /\ inbox \in Seq(Pdu) /\ inbox # <<>> /\ inbox' = Tail(inbox)
              /\ remoteContext' = TRUE
              /\ UNCHANGED <<serverGen, job, request, disk>>
              /\ \/ workerPc' = workerPc
                 \/ workerPc \in {"none", "sleepJobs"} /\ workerPc' = "take"
              /\ \/ UNCHANGED <<remoteJobs, remaining, accepted, published>>
                 \/ \E S \in SUBSET (DOMAIN Listings[g]) :
                       \E new \in InListOrder(g, S) : Accepts(g, S, new)
<1> DEFINE g == Head(inbox).gen
<1>1. /\ inbox \in Seq(Pdu) /\ inbox # <<>> /\ inbox' = Tail(inbox)
      /\ Head(inbox).type = "list"
  BY DEF ReceiveFileList, NextPdu, TypeOK, ChannelTypes
<1>2. g \in Batches /\ IsList(inbox[1]) /\ inbox[1].gen = g
  BY <1>1, HeadPdu DEF IsList
<1>3. remoteContext' = TRUE /\ UNCHANGED <<serverGen, job, request, disk>>
  BY DEF ReceiveFileList, workerLocals
<1>4. \/ workerPc' = workerPc
      \/ workerPc \in {"none", "sleepJobs"} /\ workerPc' = "take"
  BY DEF ReceiveFileList, EnqueueList, Started, NotifyJobs
<1>5. ASSUME NEW failed \in SUBSET NeedsDir(g), EnqueueList(g, failed)
      PROVE  \E S \in SUBSET (DOMAIN Listings[g]) :
                \E new \in InListOrder(g, S) : Accepts(g, S, new)
  <2> DEFINE files == {i \in DOMAIN Listings[g] :
                          Listings[g][i].kind = "file" /\ i \notin failed}
  <2>1. PICK new \in InListOrder(g, files) : remoteJobs' = remoteJobs \o new
    BY <1>5 DEF EnqueueList
  <2>2. \A i \in DOMAIN Listings[g] :
           Listings[g][i].kind = "file" /\ ~Listings[g][i].nested => i \in files
    BY <1>5 DEF NeedsDir
  <2>3. /\ remaining' = [remaining EXCEPT ![g] = Cardinality(files)]
        /\ accepted' = accepted \cup {g}
    BY <1>5 DEF EnqueueList
  <2>4. \/ UNCHANGED published
        \/ files = {} /\ published' = Append(published, g)
    BY <1>5 DEF EnqueueList, Publish
  <2> QED  BY <2>1, <2>2, <2>3, <2>4 DEF Accepts
<1>6. \/ UNCHANGED <<remoteJobs, remaining, accepted, published>>
      \/ \E failed \in SUBSET NeedsDir(g) : EnqueueList(g, failed)
  BY DEF ReceiveFileList, batchVars
<1> QED  BY <1>1, <1>2, <1>3, <1>4, <1>5, <1>6

\* Accepting a list adds its jobs to what is to be fetched.
LEMMA AcceptFacts ==
    ASSUME TypeOK, ListsInv, ReceiveFileList, NEW S, NEW new,
           Accepts(Head(inbox).gen, S, new)
    PROVE  LET g == Head(inbox).gen
           IN /\ g \in Batches /\ g \notin accepted
              /\ \A h \in accepted : h < g
              /\ \A f \in Files : Unsettled(f)' <=>
                    Unsettled(f) \/ \E i \in DOMAIN new : f = new[i]
              /\ Queued' = Queued \cup {new[i] : i \in DOMAIN new}
              /\ Busy' <=> Busy
<1> DEFINE g == Head(inbox).gen
<1>1. /\ g \in Batches /\ IsList(inbox[1]) /\ inbox[1].gen = g
      /\ inbox \in Seq(Pdu) /\ inbox # <<>>
  BY ReceiveFacts
<1>2. 1 \in DOMAIN inbox
  BY <1>1
<1>3. \A h \in accepted : h < g
  BY <1>1, <1>2 DEF ListsInv
<1>4. g \notin accepted
  BY <1>1, <1>3, ValueTypes
<1>5. new \in Seq(Files) /\ remoteJobs \in Seq(Files)
  BY <1>1, NewJobFacts DEF Accepts, TypeOK, WorkerTypes
<1>6. remoteJobs' = remoteJobs \o new
  BY DEF Accepts
<1>7. Queued' = Queued \cup {new[i] : i \in DOMAIN new}
  <2>1. \A i \in DOMAIN remoteJobs : i \in DOMAIN remoteJobs' /\ remoteJobs'[i] = remoteJobs[i]
    BY <1>5, <1>6
  <2>2. \A i \in DOMAIN new : /\ i + Len(remoteJobs) \in DOMAIN remoteJobs'
                              /\ remoteJobs'[i + Len(remoteJobs)] = new[i]
    BY <1>5, <1>6
  <2>3. \A i \in DOMAIN remoteJobs' :
           \/ i \in DOMAIN remoteJobs /\ remoteJobs'[i] = remoteJobs[i]
           \/ /\ i - Len(remoteJobs) \in DOMAIN new
              /\ remoteJobs'[i] = new[i - Len(remoteJobs)]
    BY <1>5, <1>6
  <2> QED  BY <2>1, <2>2, <2>3 DEF Queued
<1>8. (Busy' <=> Busy) /\ UNCHANGED job
  BY ReceiveFacts DEF Busy
<1> QED  BY <1>1, <1>3, <1>4, <1>7, <1>8 DEF Unsettled

\* Taking a job moves it from the queue into the worker's hand.
LEMMA TakeFacts ==
    ASSUME TypeOK, OrderInv, JobsInv, TakeJob
    PROVE  /\ UNCHANGED <<remaining, accepted, published, disk, serverGen, inbox,
                          remoteContext, request>>
           /\ ~Busy /\ workerPc' # "crashed"
           /\ \A f : Unsettled(f)' <=> Unsettled(f)
           /\ Queued' \subseteq Queued
           /\ \/ UNCHANGED <<remoteJobs, job>> /\ ~Busy'
              \/ /\ workerPc' = "askSize" /\ Busy'
                 /\ remoteJobs \in Seq(Files) /\ remoteJobs # <<>>
                 /\ job' = remoteJobs[1] /\ job' \in Queued
                 /\ remoteJobs' = Tail(remoteJobs)
<1>1. /\ UNCHANGED <<remaining, accepted, published, disk, serverGen, inbox,
                     remoteContext, request>>
      /\ ~Busy /\ workerPc' # "crashed"
  BY DEF TakeJob, peerVars, Busy
<1>2. CASE remoteStopped \/ remoteJobs = <<>>
  <2>1. UNCHANGED <<remoteJobs, job>> /\ ~Busy'
    BY <1>2 DEF TakeJob, Busy
  <2> QED  BY <1>1, <2>1 DEF Unsettled, Queued
<1>3. CASE ~remoteStopped /\ remoteJobs # <<>>
  <2>1. remoteJobs \in Seq(Files)
    BY DEF TypeOK, WorkerTypes
  <2>2. /\ job' = Head(remoteJobs) /\ remoteJobs' = Tail(remoteJobs)
        /\ workerPc' = "askSize" /\ Busy'
    BY <1>3 DEF TakeJob, JobsInv, Busy
  <2>3. job' = remoteJobs[1] /\ 1 \in DOMAIN remoteJobs /\ job' \in Queued
    BY <1>3, <2>1, <2>2 DEF Queued
  <2>4. \A i \in DOMAIN remoteJobs' : /\ i + 1 \in DOMAIN remoteJobs
                                      /\ remoteJobs'[i] = remoteJobs[i + 1]
    BY <1>3, <2>1, <2>2
  <2>5. \A i \in DOMAIN remoteJobs :
           i = 1 \/ (i - 1 \in DOMAIN remoteJobs' /\ remoteJobs'[i - 1] = remoteJobs[i])
    BY <1>3, <2>1, <2>2
  <2>6. Queued = Queued' \cup {job'}
    BY <2>3, <2>4, <2>5 DEF Queued
  <2> QED  BY <1>1, <1>3, <2>1, <2>2, <2>3, <2>6 DEF Unsettled
<1> QED  BY <1>2, <1>3

\* The worker lets go of its job, done or with a crash: nothing else changes
\* about what is to be fetched.
LetsGo == FinishJob \/ (SendRequest /\ workerPc' = "crashed")

LEMMA LetGoFacts ==
    ASSUME TypeOK, WorkerInv, OrderInv, LetsGo
    PROVE  /\ UNCHANGED <<remoteJobs, job, accepted, disk, serverGen, inbox,
                          remoteContext, request>>
           /\ Busy /\ ~Busy' /\ job \in Files /\ Unsettled(job)
           /\ \A f \in Files : Unsettled(f)' <=> Unsettled(f) /\ f # job
           /\ \A f \in Files : Unsettled(f) /\ f # job => Promise!Before(job, f)
<1>1. /\ UNCHANGED <<remoteJobs, job, accepted, disk, serverGen, inbox,
                     remoteContext, request>>
      /\ Busy /\ ~Busy'
  BY DEF LetsGo, FinishJob, SendRequest, peerVars, workerLocals, Busy
<1>2. job \in Files
  BY <1>1 DEF WorkerInv
<1>3. \A f \in Queued : Promise!Before(job, f)
  BY <1>1 DEF OrderInv, Queued
<1>4. job \notin Queued
  BY <1>2, <1>3, BeforeOrders
<1>5. Queued' = Queued
  BY <1>1 DEF Queued
<1> QED  BY <1>1, <1>2, <1>3, <1>4, <1>5 DEF Unsettled

\* No other step changes what is to be fetched, counted or published.
LEMMA OtherFacts ==
    ASSUME [Next]_vars, ~ReceiveFileList, ~TakeJob, ~LetsGo
    PROVE  /\ UNCHANGED <<remoteJobs, job, remaining, accepted, published,
                          remoteContext, Queued>>
           /\ Busy' <=> Busy
           /\ \A f : Unsettled(f)' <=> Unsettled(f)
           /\ workerPc' = "crashed" => workerPc = "crashed"
<1>1. UNCHANGED <<remoteJobs, job, remaining, accepted, published, remoteContext>>
  <2>1. CASE Server \/ ReceiveEmptyList \/ ReceiveContents \/ ApplyPublished
    BY <2>1 DEF Server, ServerCopy, ServerAnswer, ReceiveEmptyList, ReceiveContents,
       ApplyPublished, workerLocals, batchVars
  <2>2. CASE AskSize \/ AskRange \/ SendRequest \/ SendFailed \/ AwaitResponse
    BY <2>2 DEF AskSize, AskRange, NewRequest, SendRequest, SendFailed,
       AwaitResponse, peerVars, workerLocals
  <2>3. CASE OpenFile \/ WriteChunk \/ SaveFile \/ AbandonFile
    BY <2>3 DEF OpenFile, WriteChunk, SaveFile, AbandonFile, peerVars, workerLocals
  <2>4. CASE Shutdown
    BY <2>4 DEF Shutdown, Quit, Disconnect, FreeChannel, MainReturns, DestroyEntry,
       JoinWorker, shutdownUnchanged, workerLocals, batchVars
  <2>5. CASE UNCHANGED vars
    BY <2>5 DEF vars, workerLocals, batchVars
  <2> QED  BY <2>1, <2>2, <2>3, <2>4, <2>5 DEF Next, Channel, Worker, Finished, LetsGo
<1>2. (Busy' <=> Busy) /\ (workerPc' = "crashed" => workerPc = "crashed")
  <2>1. CASE Server \/ ReceiveEmptyList \/ ReceiveContents \/ ApplyPublished
    BY <2>1 DEF Server, ServerCopy, ServerAnswer, ReceiveEmptyList, ReceiveContents,
       ApplyPublished, NotifyResponse, Busy
  <2>2. CASE AskSize \/ AskRange \/ SendRequest \/ SendFailed \/ AwaitResponse
    BY <2>2 DEF AskSize, AskRange, NewRequest, SendRequest, SendFailed,
       AwaitResponse, LetsGo, Busy
  <2>3. CASE OpenFile \/ WriteChunk \/ SaveFile \/ AbandonFile
    BY <2>3 DEF OpenFile, WriteChunk, SaveFile, AbandonFile, Busy
  <2>4. CASE Shutdown
    BY <2>4 DEF Shutdown, Quit, Disconnect, FreeChannel, MainReturns, DestroyEntry,
       JoinWorker, NotifyJobs, NotifyResponse, Busy
  <2>5. CASE UNCHANGED vars
    BY <2>5 DEF vars, Busy
  <2> QED  BY <2>1, <2>2, <2>3, <2>4, <2>5 DEF Next, Channel, Worker, Finished, LetsGo
<1> QED  BY <1>1, <1>2 DEF Unsettled, Queued

-----------------------------------------------------------------------------
(* Each part of the invariant is kept by every step.                        *)

\* Newer lists are queued behind older ones, and jobs are taken from the front.
LEMMA OrderStep ==
    TypeOK /\ WorkerInv /\ OrderInv /\ JobsInv /\ ListsInv /\ [Next]_vars => OrderInv'
<1> SUFFICES ASSUME TypeOK, WorkerInv, OrderInv, JobsInv, ListsInv, [Next]_vars
             PROVE  OrderInv'
  OBVIOUS
<1>1. CASE ReceiveFileList
  <2> DEFINE g == Head(inbox).gen
  <2>1. CASE UNCHANGED remoteJobs
    BY <1>1, <2>1, ReceiveFacts DEF OrderInv, Busy
  <2>2. ASSUME NEW S, NEW new, Accepts(g, S, new)
        PROVE  OrderInv'
    <3>1. /\ g \in Batches /\ \A h \in accepted : h < g
          /\ (Busy' <=> Busy) /\ UNCHANGED job
      BY <1>1, <2>2, AcceptFacts, ReceiveFacts
    <3>2. new \in Seq(Files) /\ remoteJobs \in Seq(Files)
      BY <2>2, <3>1, NewJobFacts DEF Accepts, TypeOK, WorkerTypes
    <3>3. /\ \A i \in DOMAIN new : new[i][1] = g
          /\ \A i, j \in DOMAIN new : i < j => Promise!Before(new[i], new[j])
      BY <2>2, <3>1, NewJobFacts DEF Accepts
    <3>4. \A i \in DOMAIN remoteJobs : remoteJobs[i] \in Files /\ remoteJobs[i] \in Queued
      BY <3>2 DEF Queued
    <3>5. \A i \in DOMAIN remoteJobs : \A j \in DOMAIN new :
             Promise!Before(remoteJobs[i], new[j])
      BY <3>1, <3>3, <3>4 DEF JobsInv, Unsettled, Promise!Before
    <3>6. Busy => \A j \in DOMAIN new : Promise!Before(job, new[j])
      BY <3>1, <3>3 DEF JobsInv, Unsettled, WorkerInv, Promise!Before
    <3>7. remoteJobs' = remoteJobs \o new
      BY <2>2 DEF Accepts
    <3>8. \A i \in DOMAIN remoteJobs' :
             \/ i \in DOMAIN remoteJobs /\ remoteJobs'[i] = remoteJobs[i]
             \/ /\ i - Len(remoteJobs) \in DOMAIN new /\ i > Len(remoteJobs)
                /\ remoteJobs'[i] = new[i - Len(remoteJobs)]
      BY <3>2, <3>7
    <3>9. ASSUME NEW i \in DOMAIN remoteJobs', NEW j \in DOMAIN remoteJobs', i < j
          PROVE  Promise!Before(remoteJobs'[i], remoteJobs'[j])
      <4>1. i \in Nat /\ j \in Nat /\ Len(remoteJobs) \in Nat
            /\ DOMAIN remoteJobs = 1..Len(remoteJobs)
        BY <3>2, <3>7
      <4>2. CASE j \in DOMAIN remoteJobs /\ remoteJobs'[j] = remoteJobs[j]
        <5>1. i \in DOMAIN remoteJobs /\ remoteJobs'[i] = remoteJobs[i]
          BY <3>8, <3>9, <4>1, <4>2
        <5> QED  BY <3>9, <4>2, <5>1 DEF OrderInv
      <4>3. CASE /\ j - Len(remoteJobs) \in DOMAIN new
                 /\ remoteJobs'[j] = new[j - Len(remoteJobs)]
        <5>1. CASE i \in DOMAIN remoteJobs /\ remoteJobs'[i] = remoteJobs[i]
          BY <3>5, <4>3, <5>1
        <5>2. CASE /\ i - Len(remoteJobs) \in DOMAIN new
                   /\ remoteJobs'[i] = new[i - Len(remoteJobs)]
          <6>1. i - Len(remoteJobs) < j - Len(remoteJobs)
            BY <3>9, <4>1
          <6> QED  BY <3>3, <4>3, <5>2, <6>1
        <5> QED  BY <3>8, <5>1, <5>2
      <4> QED  BY <3>8, <4>2, <4>3
    <3>10. Busy' => \A i \in DOMAIN remoteJobs' : Promise!Before(job', remoteJobs'[i])
      BY <3>1, <3>6, <3>8 DEF OrderInv
    <3> QED  BY <3>9, <3>10 DEF OrderInv, Promise!Before
  <2> QED  BY <1>1, <2>1, <2>2, ReceiveFacts
<1>2. CASE TakeJob
  <2>1. CASE UNCHANGED <<remoteJobs, job>> /\ ~Busy'
    BY <2>1 DEF OrderInv, Promise!Before
  <2>2. CASE /\ remoteJobs \in Seq(Files) /\ remoteJobs # <<>>
             /\ job' = remoteJobs[1] /\ remoteJobs' = Tail(remoteJobs)
    <3>1. 1 \in DOMAIN remoteJobs /\ DOMAIN remoteJobs \subseteq Nat
      BY <2>2
    <3>2. \A i \in DOMAIN remoteJobs' : /\ i \in Nat /\ i >= 1
                                        /\ i + 1 \in DOMAIN remoteJobs
                                        /\ remoteJobs'[i] = remoteJobs[i + 1]
      BY <2>2
    <3>3. \A i, j \in DOMAIN remoteJobs' :
             i < j => Promise!Before(remoteJobs'[i], remoteJobs'[j])
      BY <3>2 DEF OrderInv
    <3>4. \A i \in DOMAIN remoteJobs' : Promise!Before(job', remoteJobs'[i])
      BY <2>2, <3>1, <3>2 DEF OrderInv
    <3> QED  BY <3>3, <3>4 DEF OrderInv, Promise!Before
  <2> QED  BY <1>2, <2>1, <2>2, TakeFacts
<1>3. CASE LetsGo
  BY <1>3, LetGoFacts DEF OrderInv, Promise!Before
<1>4. CASE ~ReceiveFileList /\ ~TakeJob /\ ~LetsGo
  BY <1>4, OtherFacts DEF OrderInv, Promise!Before
<1> QED  BY <1>1, <1>2, <1>3, <1>4

\* A job is queued with its batch accepted and the context set.
LEMMA JobsStep ==
    TypeOK /\ WorkerInv /\ OrderInv /\ JobsInv /\ ListsInv /\ [Next]_vars => JobsInv'
<1> SUFFICES ASSUME TypeOK, WorkerInv, OrderInv, JobsInv, ListsInv, [Next]_vars
             PROVE  JobsInv'
  OBVIOUS
<1>1. CASE ReceiveFileList
  <2> DEFINE g == Head(inbox).gen
  <2>1. CASE UNCHANGED <<remoteJobs, accepted>>
    BY <1>1, <2>1, ReceiveFacts DEF JobsInv, Unsettled, Queued, Busy, EntryOf
  <2>2. ASSUME NEW S, NEW new, Accepts(g, S, new)
        PROVE  JobsInv'
    <3>0. remoteContext' = TRUE /\ accepted' = accepted \cup {g}
      BY <1>1, <2>2, ReceiveFacts DEF Accepts
    <3>1. /\ g \in Batches
          /\ \A f \in Files : Unsettled(f)' <=>
                Unsettled(f) \/ \E i \in DOMAIN new : f = new[i]
      BY <1>1, <2>2, AcceptFacts
    <3>2. \A i \in DOMAIN new : new[i][1] = g /\ new[i][2] \in S
      BY <2>2, <3>1, NewJobFacts DEF Accepts
    <3>3. \A i \in DOMAIN new : EntryOf(new[i]).kind = "file"
      <4>1. \A i \in S : Listings[g][i].kind = "file"
        BY <2>2 DEF Accepts
      <4> HIDE DEF g
      <4> QED  BY <3>2, <4>1 DEF EntryOf
    <3>4. ASSUME NEW f \in Files, Unsettled(f)'
          PROVE  f[1] \in accepted' /\ EntryOf(f).kind = "file"
      <4>1. CASE Unsettled(f)
        BY <3>0, <4>1 DEF JobsInv
      <4>2. CASE \E i \in DOMAIN new : f = new[i]
        BY <3>0, <3>2, <3>3, <4>2
      <4> QED  BY <3>1, <3>4, <4>1, <4>2
    <3> QED  BY <3>0, <3>4 DEF JobsInv, EntryOf
  <2> QED  BY <1>1, <2>1, <2>2, ReceiveFacts
<1>2. CASE TakeJob
  BY <1>2, TakeFacts DEF JobsInv, EntryOf
<1>3. CASE LetsGo
  BY <1>3, LetGoFacts DEF JobsInv, EntryOf
<1>4. CASE ~ReceiveFileList /\ ~TakeJob /\ ~LetsGo
  BY <1>4, OtherFacts DEF JobsInv, EntryOf
<1> QED  BY <1>1, <1>2, <1>3, <1>4

\* Lists come in the order the server copies them, behind one another.
LEMMA ListsStep ==
    IndInv /\ OrderInv /\ JobsInv /\ ListsInv /\ [Next]_vars => ListsInv'
<1> SUFFICES ASSUME TypeOK, WorkerInv, OrderInv, JobsInv, ListsInv, [Next]_vars
             PROVE  ListsInv'
  BY DEF IndInv
<1>0. /\ inbox \in Seq(Pdu) /\ serverGen \in Nat
      /\ \A i \in DOMAIN inbox : inbox[i] \in Pdu
      /\ \A i \in DOMAIN inbox : IsList(inbox[i]) => inbox[i].gen \in Nat
      /\ accepted \subseteq Nat
  <2>1. inbox \in Seq(Pdu) /\ serverGen \in Nat /\ accepted \subseteq Nat
    BY ValueTypes DEF TypeOK, ChannelTypes, BatchTypes
  <2>2. \A m \in Pdu : IsList(m) => m.gen \in Nat
    BY ValueTypes DEF Pdu, IsList
  <2> QED  BY <2>1, <2>2
<1>1. CASE ServerCopy
  <2>1. /\ inbox' = Append(inbox, [type |-> "list", gen |-> serverGen + 1])
        /\ serverGen' = serverGen + 1 /\ UNCHANGED accepted
    BY <1>1 DEF ServerCopy, batchVars
  <2>2. \A i \in DOMAIN inbox' :
           \/ i \in DOMAIN inbox /\ inbox'[i] = inbox[i]
           \/ i = Len(inbox) + 1 /\ inbox'[i].gen = serverGen + 1
    BY <1>0, <2>1
  <2>3. DOMAIN inbox = 1..Len(inbox) /\ Len(inbox) \in Nat
    BY <1>0
  <2> QED  BY <1>0, <2>1, <2>2, <2>3 DEF ListsInv, IsList
<1>2. CASE ServerAnswer
  <2>1. PICK m \in Responses(toServer), n \in 1..MaxCopies :
           inbox' = inbox \o [i \in 1..n |-> m]
    BY <1>2 DEF ServerAnswer
  <2>2. ~IsList(m)
    BY DEF Responses, IsList
  <2>3. \A i \in DOMAIN inbox' :
           IsList(inbox'[i]) => i \in DOMAIN inbox /\ inbox'[i] = inbox[i]
    BY <1>0, <2>1, <2>2, SizesAssumption
  <2>4. UNCHANGED <<serverGen, accepted>>
    BY <1>2 DEF ServerAnswer, batchVars
  <2> QED  BY <2>3, <2>4 DEF ListsInv, IsList
<1>3. CASE ReceiveEmptyList \/ ReceiveFileList \/ ReceiveContents
  <2>1. inbox # <<>> /\ inbox' = Tail(inbox) /\ UNCHANGED serverGen
    BY <1>3 DEF ReceiveEmptyList, ReceiveFileList, ReceiveContents, NextPdu
  <2>2. \A i \in DOMAIN inbox' : /\ i \in Nat /\ i >= 1
                                 /\ i + 1 \in DOMAIN inbox /\ inbox'[i] = inbox[i + 1]
    BY <1>0, <2>1
  <2>3. CASE UNCHANGED accepted
    BY <2>1, <2>2, <2>3 DEF ListsInv, IsList
  <2>4. CASE ReceiveFileList /\ accepted' = accepted \cup {inbox[1].gen}
    <3>1. IsList(inbox[1]) /\ 1 \in DOMAIN inbox
      BY <2>4, ReceiveFacts
    <3> QED  BY <1>0, <2>1, <2>2, <2>4, <3>1 DEF ListsInv, IsList
  <2>5. ReceiveFileList =>
           UNCHANGED accepted \/ accepted' = accepted \cup {inbox[1].gen}
    BY ReceiveFacts DEF Accepts
  <2>6. ~ReceiveFileList => UNCHANGED accepted
    BY <1>3 DEF ReceiveEmptyList, ReceiveContents, batchVars
  <2> QED  BY <1>3, <2>3, <2>4, <2>5, <2>6
<1>4. CASE Disconnect
  BY <1>4 DEF Disconnect, shutdownUnchanged, batchVars, ListsInv
<1>5. CASE Worker
  <2>1. UNCHANGED <<inbox, serverGen, accepted>>
    BY <1>5 DEF Worker, TakeJob, AskSize, AskRange, NewRequest, SendRequest,
       SendFailed, AwaitResponse, OpenFile, WriteChunk, SaveFile, AbandonFile,
       FinishJob, peerVars
  <2> QED  BY <2>1 DEF ListsInv, IsList
<1>6. CASE ApplyPublished \/ Quit \/ FreeChannel \/ MainReturns \/ DestroyEntry
           \/ JoinWorker \/ UNCHANGED vars
  <2>1. UNCHANGED <<inbox, serverGen, accepted>>
    BY <1>6 DEF ApplyPublished, Quit, FreeChannel, MainReturns, DestroyEntry,
       JoinWorker, shutdownUnchanged, vars, batchVars
  <2> QED  BY <2>1 DEF ListsInv, IsList
<1> QED  BY <1>1, <1>2, <1>3, <1>4, <1>5, <1>6
         DEF Next, Server, Channel, Shutdown, Finished

\* The file in hand is not queued, nor is any file of its batch published.
LEMMA InHandFacts ==
    ASSUME TypeOK, WorkerInv, OrderInv, JobsInv, Busy
    PROVE  /\ job \in Files /\ job \notin Queued /\ Unsettled(job)
           /\ job[1] \in accepted
<1>1. job \in Files /\ Unsettled(job)
  BY DEF WorkerInv, Unsettled
<1>2. \A f \in Queued : Promise!Before(job, f)
  BY DEF OrderInv, Queued
<1> QED  BY <1>1, <1>2, BeforeOrders DEF JobsInv

\* What is on disk of the file in hand follows the worker's place in its loop.
LEMMA DiskStep ==
    TypeOK /\ WorkerInv /\ OrderInv /\ JobsInv /\ ListsInv /\ DiskInv /\ [Next]_vars
       => DiskInv'
<1> SUFFICES ASSUME TypeOK, WorkerInv, OrderInv, JobsInv, ListsInv, DiskInv,
                    [Next]_vars
             PROVE  DiskInv'
  OBVIOUS
<1>0. disk \in [Files -> LocalFile]
  BY DEF TypeOK, BatchTypes
<1>1. CASE ReceiveFileList
  <2>1. /\ UNCHANGED <<disk, request, job>>
        /\ (Writing' <=> Writing) /\ (Busy' <=> Busy)
        /\ workerPc' \in {"writeChunk", "crashed"} <=> workerPc \in {"writeChunk", "crashed"}
        /\ workerPc' = workerPc \/ workerPc' = "take"
    BY <1>1, ReceiveFacts DEF Writing, Busy
  <2>2. CASE UNCHANGED <<remoteJobs, accepted>>
    BY <2>1, <2>2 DEF DiskInv, Queued, Busy
  <2>3. ASSUME NEW S, NEW new, Accepts(Head(inbox).gen, S, new)
        PROVE  DiskInv'
    <3> DEFINE g == Head(inbox).gen
    <3>1. /\ g \in Batches /\ g \notin accepted
          /\ Queued' = Queued \cup {new[i] : i \in DOMAIN new}
      BY <1>1, <2>3, AcceptFacts
    <3>2. \A i \in DOMAIN new : new[i] \in Files /\ new[i][1] = g
      BY <2>3, <3>1, NewJobFacts DEF Accepts
    <3>3. \A i \in DOMAIN new : disk[new[i]].state = "absent"
      BY <3>1, <3>2 DEF DiskInv
    <3>4. accepted' = accepted \cup {g}
      BY <2>3 DEF Accepts
    <3> QED  BY <2>1, <3>1, <3>3, <3>4 DEF DiskInv, Busy
  <2> QED  BY <1>1, <2>2, <2>3, ReceiveFacts
<1>2. CASE TakeJob
  <2>1. ~Writing /\ workerPc # "crashed"
    BY <1>2 DEF TakeJob, Writing
  <2>2. \A f \in Files : disk[f].state # "partial"
    BY <2>1 DEF DiskInv
  <2>3. Busy' => disk[job'].state = "absent"
    BY <1>2, TakeFacts DEF DiskInv
  <2>4. workerPc' # "writeChunk"
    BY <1>2 DEF TakeJob
  <2> QED  BY <1>2, <2>2, <2>3, <2>4, TakeFacts DEF DiskInv
<1>3. CASE LetsGo
  <2>1. /\ workerPc' = "crashed" \/ ~Writing
        /\ workerPc # "crashed" /\ workerPc' # "writeChunk"
    BY <1>3 DEF LetsGo, FinishJob, SendRequest, Writing
  <2>2. UNCHANGED <<disk, accepted, job, request, Queued>> /\ ~Busy'
    BY <1>3, LetGoFacts DEF Queued
  <2> QED  BY <2>1, <2>2 DEF DiskInv
<1>4. CASE OpenFile
  <2>1. /\ job \in Files /\ job \notin Queued /\ job[1] \in accepted
        /\ ~Writing /\ workerPc # "crashed"
    BY <1>4, InHandFacts DEF OpenFile, Busy, Writing
  <2>2. /\ UNCHANGED <<job, accepted, request>> /\ Queued' = Queued
    BY <1>4 DEF OpenFile, peerVars, Queued
  <2>3. CASE UNCHANGED disk /\ workerPc' = "jobDone"
    BY <2>1, <2>2, <2>3 DEF DiskInv
  <2>4. CASE /\ disk' = [disk EXCEPT ![job] = [Absent EXCEPT !.state = "partial"]]
             /\ workerPc' = "nextRange"
    <3>1. /\ disk'[job].state = "partial"
          /\ \A f \in Files : f # job => disk'[f] = disk[f]
      BY <1>0, <2>1, <2>4 DEF Absent
    <3>2. Writing'
      BY <2>4 DEF Writing
    <3>3. \A f \in Queued : f \in Files
      BY DEF Queued, TypeOK, WorkerTypes
    <3> QED  BY <2>1, <2>2, <2>4, <3>1, <3>2, <3>3 DEF DiskInv
  <2> QED  BY <1>4, <2>3, <2>4 DEF OpenFile
<1>5. CASE WriteChunk
  <2>1. job \in Files /\ Busy /\ Writing /\ workerPc # "crashed"
    BY <1>5, InHandFacts DEF WriteChunk, Busy, Writing
  <2>2. /\ UNCHANGED <<job, accepted, request>> /\ Queued' = Queued
    BY <1>5 DEF WriteChunk, peerVars, Queued
  <2>3. \A f \in Files : disk'[f].state = disk[f].state
    <3>1. CASE UNCHANGED disk
      BY <3>1
    <3>2. CASE disk' = [disk EXCEPT ![job].chunks = Append(@, chunk)]
      <4>1. disk'[job] = [disk[job] EXCEPT !.chunks = Append(@, chunk)]
        BY <1>0, <2>1, <3>2
      <4>2. disk[job] \in LocalFile
        BY <1>0, <2>1
      <4>3. disk'[job].state = disk[job].state
        BY <4>1, <4>2 DEF LocalFile
      <4>4. \A f \in Files : f # job => disk'[f] = disk[f]
        BY <1>0, <2>1, <3>2
      <4> QED  BY <4>3, <4>4
    <3> QED  BY <1>5, <3>1, <3>2 DEF WriteChunk
  <2>4. workerPc' \in {"nextRange", "abandon"} /\ Writing'
    BY <1>5, <2>2 DEF WriteChunk, Writing, DiskInv
  <2>5. \A f \in Queued : f \in Files
    BY DEF Queued, TypeOK, WorkerTypes
  <2>6. disk[job].state # "saved"
    BY <1>5, <2>1 DEF WriteChunk, DiskInv
  <2> QED  BY <2>1, <2>2, <2>3, <2>4, <2>5, <2>6 DEF DiskInv
<1>6. CASE SaveFile \/ AbandonFile
  <2>1. /\ job \in Files /\ job \notin Queued /\ job[1] \in accepted
        /\ workerPc # "crashed"
    BY <1>6, InHandFacts DEF SaveFile, AbandonFile, Busy
  <2>2. /\ UNCHANGED <<job, accepted, request>> /\ Queued' = Queued
        /\ workerPc' = "jobDone"
    BY <1>6 DEF SaveFile, AbandonFile, peerVars, workerLocals, Queued
  <2>3. \A f \in Files : f # job => disk'[f] = disk[f]
    BY <1>0, <1>6, <2>1 DEF SaveFile, AbandonFile
  <2>4. disk'[job].state # "partial"
    <3>1. CASE SaveFile
      BY <1>0, <2>1, <3>1 DEF SaveFile, LocalFile
    <3>2. CASE AbandonFile /\ request.kind = "range"
      BY <1>0, <2>1, <3>2 DEF AbandonFile, Absent
    <3>3. CASE AbandonFile /\ request.kind # "range"
      BY <2>1, <3>3 DEF AbandonFile, DiskInv, Writing
    <3> QED  BY <1>6, <3>1, <3>2, <3>3
  <2>5. \A f \in Queued : f \in Files
    BY DEF Queued, TypeOK, WorkerTypes
  <2>6. \A f \in Files : f # job => disk[f].state # "partial"
    BY <2>1 DEF DiskInv
  <2> QED  BY <2>1, <2>2, <2>3, <2>4, <2>5, <2>6 DEF DiskInv
<1>7. CASE AskSize \/ AskRange \/ SendFailed \/ AwaitResponse \/ ReceiveContents
           \/ DestroyEntry \/ (SendRequest /\ ~LetsGo)
  <2>1. /\ UNCHANGED <<disk, job, accepted, Queued>> /\ (Busy' <=> Busy)
    <3>1. UNCHANGED disk
      BY <1>7 DEF AskSize, AskRange, NewRequest, SendFailed, AwaitResponse,
         ReceiveContents, DestroyEntry, SendRequest, shutdownUnchanged
    <3>2. ~ReceiveFileList /\ ~TakeJob /\ ~LetsGo
      BY <1>7 DEF AskSize, AskRange, NewRequest, SendFailed, AwaitResponse,
         ReceiveContents, DestroyEntry, SendRequest, ReceiveFileList, TakeJob,
         LetsGo, FinishJob, NextPdu, peerVars, shutdownUnchanged
    <3> QED  BY <3>1, <3>2, OtherFacts
  <2>2. Writing => Writing'
    <3>1. CASE AskSize \/ AskRange
      BY <3>1 DEF AskSize, AskRange, NewRequest, Writing
    <3>2. CASE SendFailed \/ (SendRequest /\ ~LetsGo)
      BY <3>2 DEF SendFailed, SendRequest, workerLocals, LetsGo, Writing
    <3>3. CASE AwaitResponse
      BY <3>3 DEF AwaitResponse, Writing
    <3>4. CASE ReceiveContents \/ DestroyEntry
      BY <3>4 DEF ReceiveContents, DestroyEntry, NotifyJobs, NotifyResponse,
         shutdownUnchanged, workerLocals, Writing
    <3> QED  BY <1>7, <3>1, <3>2, <3>3, <3>4
  <2>3. workerPc' = "writeChunk" => request'.kind = "range"
    BY <1>7 DEF AskSize, AskRange, NewRequest, SendFailed, AwaitResponse,
       ReceiveContents, DestroyEntry, SendRequest, NotifyJobs, NotifyResponse,
       shutdownUnchanged, workerLocals, DiskInv
  <2>4. workerPc = "crashed" => workerPc' = "crashed"
    BY <1>7 DEF AskSize, AskRange, SendFailed, AwaitResponse, SendRequest,
       ReceiveContents, DestroyEntry, NotifyJobs, NotifyResponse
  <2>5. workerPc # "jobDone" \/ workerPc' = "jobDone"
    BY <1>7 DEF AskSize, AskRange, SendFailed, AwaitResponse, SendRequest,
       ReceiveContents, DestroyEntry, NotifyJobs, NotifyResponse
  <2> QED  BY <2>1, <2>2, <2>3, <2>4, <2>5 DEF DiskInv
<1>8. CASE Server \/ ReceiveEmptyList \/ ApplyPublished \/ Quit \/ Disconnect
           \/ FreeChannel \/ MainReturns \/ JoinWorker \/ UNCHANGED vars
  <2>1. UNCHANGED <<disk, job, accepted, Queued, workerPc, request>>
    BY <1>8 DEF Server, ServerCopy, ServerAnswer, ReceiveEmptyList, ApplyPublished,
       Quit, Disconnect, FreeChannel, MainReturns, JoinWorker, shutdownUnchanged,
       workerLocals, batchVars, vars, Queued
  <2> QED  BY <2>1 DEF DiskInv, Writing, Busy
<1> QED  BY <1>1, <1>2, <1>3, <1>4, <1>5, <1>6, <1>7, <1>8
         DEF Next, Channel, Worker, Shutdown, Finished, LetsGo

\* Whatever the order in which the channel thread counts up and the worker down,
\* the counter of a batch stays the number of its outstanding files.
LEMMA CountStep ==
    TypeOK /\ WorkerInv /\ OrderInv /\ JobsInv /\ ListsInv /\ RemainingCounts
       /\ [Next]_vars
    => RemainingCounts'
<1> SUFFICES ASSUME TypeOK, WorkerInv, OrderInv, JobsInv, ListsInv,
                    RemainingCounts, [Next]_vars,
                    workerPc' # "crashed", NEW h \in Batches
             PROVE  remaining'[h] = Cardinality(Outstanding(h)')
  BY DEF RemainingCounts
<1>0. remaining \in [Batches -> Int]
  BY DEF TypeOK, BatchTypes
<1>1. /\ Outstanding(h) = {f \in Files : f[1] = h /\ Unsettled(f)}
      /\ Outstanding(h)' = {f \in Files : f[1] = h /\ Unsettled(f)'}
  BY DEF Outstanding, Unsettled
<1>2. CASE ReceiveFileList
  <2> DEFINE g == Head(inbox).gen
  <2>1. workerPc # "crashed"
    BY <1>2, ReceiveFacts
  <2>2. CASE UNCHANGED <<remoteJobs, remaining>>
    <3>1. UNCHANGED job /\ (Busy' <=> Busy)
      BY <1>2, ReceiveFacts DEF Busy
    <3>2. Outstanding(h)' = Outstanding(h)
      BY <2>2, <3>1 DEF Outstanding, Queued
    <3> QED  BY <2>1, <2>2, <3>2 DEF RemainingCounts
  <2>3. ASSUME NEW S, NEW new, Accepts(g, S, new)
        PROVE  remaining'[h] = Cardinality(Outstanding(h)')
    <3>1. /\ g \in Batches /\ g \notin accepted
          /\ \A f \in Files : Unsettled(f)' <=>
                Unsettled(f) \/ \E i \in DOMAIN new : f = new[i]
      BY <1>2, <2>3, AcceptFacts
    <3>2. /\ S \in SUBSET (DOMAIN Listings[g]) /\ new \in InListOrder(g, S)
          /\ remaining' = [remaining EXCEPT ![g] = Cardinality(S)]
      BY <2>3 DEF Accepts
    <3>3. \A i \in DOMAIN new : new[i] \in Files /\ new[i][1] = g
      BY <3>1, <3>2, NewJobFacts
    <3>4. CASE h = g
      <4>1. \A f \in Files : f[1] = g => ~Unsettled(f)
        BY <3>1 DEF JobsInv
      <4>2. Outstanding(h)' = {new[i] : i \in DOMAIN new}
        BY <1>1, <3>1, <3>3, <3>4, <4>1
      <4> QED  BY <1>0, <3>1, <3>2, <3>4, <4>2, NewJobsCounted
    <3>5. CASE h # g
      <4>1. Outstanding(h)' = Outstanding(h)
        BY <1>1, <3>1, <3>3, <3>5
      <4> QED  BY <1>0, <2>1, <3>1, <3>2, <3>5, <4>1 DEF RemainingCounts
    <3> QED  BY <3>4, <3>5
  <2> QED  BY <1>2, <2>2, <2>3, ReceiveFacts
<1>3. CASE TakeJob
  <2>1. Outstanding(h)' = Outstanding(h) /\ UNCHANGED remaining
    BY <1>1, <1>3, TakeFacts
  <2>2. workerPc # "crashed"
    BY <1>3 DEF TakeJob
  <2> QED  BY <2>1, <2>2 DEF RemainingCounts
<1>4. CASE LetsGo
  <2>1. workerPc = "jobDone" /\ remaining' = [remaining EXCEPT ![job[1]] = @ - 1]
    BY <1>4 DEF LetsGo, FinishJob
  <2>2. /\ job \in Files /\ Unsettled(job)
        /\ \A f \in Files : Unsettled(f)' <=> Unsettled(f) /\ f # job
    BY <1>4, LetGoFacts
  <2>3. job[1] \in Batches
    BY <2>2, FileFacts
  <2>4. remaining[h] = Cardinality(Outstanding(h))
    BY <2>1 DEF RemainingCounts
  <2>5. CASE h = job[1]
    <3>1. Outstanding(h)' = Outstanding(h) \ {job} /\ job \in Outstanding(h)
      BY <1>1, <2>2, <2>5
    <3>2. Cardinality(Outstanding(h)') = Cardinality(Outstanding(h)) - 1
      BY <3>1, OutstandingFacts, FS_RemoveElement
    <3> QED  BY <1>0, <2>1, <2>3, <2>4, <2>5, <3>2
  <2>6. CASE h # job[1]
    <3>1. Outstanding(h)' = Outstanding(h)
      BY <1>1, <2>2, <2>6
    <3> QED  BY <1>0, <2>1, <2>3, <2>4, <2>6, <3>1
  <2> QED  BY <2>5, <2>6
<1>5. CASE ~ReceiveFileList /\ ~TakeJob /\ ~LetsGo
  <2>1. /\ UNCHANGED remaining /\ \A f \in Files : Unsettled(f)' <=> Unsettled(f)
        /\ UNCHANGED <<Queued, job>> /\ (Busy' <=> Busy)
    BY <1>5, OtherFacts
  <2>2. workerPc # "crashed"
    <3>1. workerPc = "crashed" => UNCHANGED vars
      BY DEF Next, Finished
    <3> QED  BY <3>1 DEF vars
  <2>3. Outstanding(h)' = Outstanding(h)
    BY <1>1, <2>1
  <2> QED  BY <2>1, <2>2, <2>3 DEF RemainingCounts
<1> QED  BY <1>2, <1>3, <1>4, <1>5

\* Local copies change only for the file in hand.
LEMMA DiskFacts ==
    ASSUME TypeOK, WorkerInv, [Next]_vars
    PROVE  \/ UNCHANGED disk
           \/ Busy /\ \A f \in Files : f # job => disk'[f] = disk[f]
<1>0. disk \in [Files -> LocalFile]
  BY DEF TypeOK, BatchTypes
<1>1. CASE OpenFile \/ WriteChunk \/ SaveFile \/ AbandonFile
  <2>1. Busy /\ job \in Files
    BY <1>1 DEF OpenFile, WriteChunk, SaveFile, AbandonFile, Busy, WorkerInv
  <2>2. \A f \in Files : f # job => disk'[f] = disk[f]
    BY <1>0, <1>1, <2>1 DEF OpenFile, WriteChunk, SaveFile, AbandonFile
  <2> QED  BY <2>1, <2>2
<1>2. CASE Server \/ Channel \/ ApplyPublished \/ Shutdown \/ UNCHANGED vars
  BY <1>2 DEF Server, ServerCopy, ServerAnswer, Channel, ReceiveEmptyList,
     ReceiveFileList, ReceiveContents, ApplyPublished, Shutdown, Quit, Disconnect,
     FreeChannel, MainReturns, DestroyEntry, JoinWorker, shutdownUnchanged, vars
<1>3. CASE TakeJob \/ AskSize \/ AskRange \/ SendRequest \/ SendFailed
           \/ AwaitResponse \/ FinishJob
  BY <1>3 DEF TakeJob, AskSize, AskRange, NewRequest, SendRequest, SendFailed,
     AwaitResponse, FinishJob
<1> QED  BY <1>1, <1>2, <1>3 DEF Next, Worker, Finished

\* Appending a batch that has nothing left to be fetched, and follows the others.
Publishable(g) ==
    /\ g \in Batches /\ g \in accepted'
    /\ \A i \in DOMAIN published : published[i] # g
    /\ \A f \in Files : f[1] = g => disk[f].state # "partial" /\ ~Unsettled(f)'
    /\ HasJobs(g) =>
          /\ \A i \in DOMAIN published : HasJobs(published[i]) => published[i] < g
          /\ \A f \in Files : Unsettled(f)' => g < f[1]

\* A list that names no file that could be queued may be published at once.
LEMMA AcceptPublishes ==
    ASSUME TypeOK, ListsInv, JobsInv, DiskInv, PublishedInv, ReceiveFileList,
           NEW new, Accepts(Head(inbox).gen, {}, new)
    PROVE  Publishable(Head(inbox).gen)
<1> DEFINE g == Head(inbox).gen
<1>1. /\ g \in Batches /\ g \notin accepted
      /\ \A f \in Files : Unsettled(f)' <=>
            Unsettled(f) \/ \E i \in DOMAIN new : f = new[i]
  BY AcceptFacts
<1>2. new = <<>> /\ accepted' = accepted \cup {g}
  <2>1. {} \in SUBSET (DOMAIN Listings[g]) /\ new \in InListOrder(g, {})
    BY DEF Accepts
  <2> QED  BY <1>1, <2>1, NewJobFacts DEF Accepts
<1>3. \A f \in Files : f[1] = g => disk[f].state = "absent" /\ ~Unsettled(f)'
  BY <1>1, <1>2 DEF DiskInv, JobsInv
<1>4. ~HasJobs(g)
  <2> SUFFICES ASSUME NEW f \in Files, f[1] = g, EntryOf(f).kind = "file",
                      ~EntryOf(f).nested
               PROVE  FALSE
    BY <1>3 DEF HasJobs
  <2>1. f[2] \in DOMAIN Listings[g]
    BY FileFacts
  <2> QED  BY <2>1 DEF Accepts, EntryOf
<1> QED  BY <1>1, <1>2, <1>3, <1>4 DEF Publishable, PublishedInv

\* The worker publishes when the last file of the batch in hand is settled.
LEMMA FinishPublishes ==
    ASSUME TypeOK, WorkerInv, OrderInv, JobsInv, DiskInv, PublishedInv,
           RemainingCounts', FinishJob, published' # published
    PROVE  published' = Append(published, job[1]) /\ Publishable(job[1])
<1>0. PICK g \in Batches : g = job[1]
  BY FileFacts, LetGoFacts DEF LetsGo
<1>1. /\ workerPc = "jobDone" /\ workerPc' = "take"
      /\ remaining'[g] = 0 /\ published' = Append(published, g)
  BY <1>0 DEF FinishJob, Publish
<1>2. /\ job \in Files /\ Unsettled(job) /\ UNCHANGED accepted
      /\ \A f \in Files : Unsettled(f)' <=> Unsettled(f) /\ f # job
      /\ \A f \in Files : Unsettled(f) /\ f # job => Promise!Before(job, f)
  BY LetGoFacts DEF LetsGo
<1>3. g \in accepted
  BY <1>0, <1>2 DEF JobsInv
<1>4. \A f \in Files : f[1] = g => ~Unsettled(f)'
  <2>1. Outstanding(g)' = {f \in Files : f[1] = g /\ Unsettled(f)'}
    BY DEF Outstanding, Unsettled
  <2>2. Cardinality(Outstanding(g)') = 0
    BY <1>1 DEF RemainingCounts
  <2>3. Outstanding(g)' = {}
    BY <2>1, <2>2, BatchFinite, FS_EmptySet
  <2> QED  BY <2>1, <2>3
<1>5. \A f \in Files : f[1] = g => disk[f].state # "partial"
  BY <1>1 DEF DiskInv, Writing
<1>6. \A i \in DOMAIN published : published[i] # g
  BY <1>0, <1>2 DEF PublishedInv, PublishedOnceComplete, Unsettled
<1>7. \A i \in DOMAIN published : HasJobs(published[i]) => published[i] < g
  BY <1>0, <1>2 DEF PublishedInv
<1>8. \A f \in Files : Unsettled(f)' => g < f[1]
  BY <1>0, <1>2, <1>4 DEF Promise!Before
<1> QED  BY <1>0, <1>1, <1>2, <1>3, <1>4, <1>5, <1>6, <1>7, <1>8 DEF Publishable

\* What is published stays settled while files of other batches are fetched ...
LEMMA PublishedStays ==
    ASSUME TypeOK, WorkerInv, OrderInv, JobsInv, ListsInv, DiskInv, PublishedInv,
           [Next]_vars, NEW i \in DOMAIN published, NEW h \in Batches,
           h = published[i]
    PROVE  /\ h \in accepted'
           /\ HasJobs(h)' <=> HasJobs(h)
           /\ \A f \in Files : f[1] = h => disk'[f].state # "partial" /\ ~Unsettled(f)'
           /\ \A f \in Files : HasJobs(h) /\ Unsettled(f)' => h < f[1]
<1>1. h \in accepted
  BY DEF PublishedInv
<1>2. \A f \in Files : f[1] = h => disk[f].state # "partial" /\ ~Unsettled(f)
  BY DEF PublishedInv, PublishedOnceComplete, Unsettled
<1>3. \A f \in Files : f[1] = h => disk'[f] = disk[f]
  <2>1. Busy => job[1] # h
    BY <1>2, InHandFacts
  <2> QED  BY <2>1, DiskFacts
<1>4. /\ h \in accepted'
      /\ \A f \in Files : Unsettled(f)' => Unsettled(f) \/ h < f[1]
  <2>1. CASE ReceiveFileList
    <3> DEFINE g == Head(inbox).gen
    <3>1. CASE UNCHANGED <<remoteJobs, accepted>>
      BY <1>1, <2>1, <3>1, ReceiveFacts DEF Unsettled, Queued, Busy
    <3>2. ASSUME NEW S, NEW new, Accepts(g, S, new)
          PROVE  /\ h \in accepted'
                 /\ \A f \in Files : Unsettled(f)' => Unsettled(f) \/ h < f[1]
      <4>1. /\ g \in Batches /\ h < g
            /\ \A f \in Files : Unsettled(f)' <=>
                  Unsettled(f) \/ \E k \in DOMAIN new : f = new[k]
        BY <1>1, <2>1, <3>2, AcceptFacts
      <4>2. \A k \in DOMAIN new : new[k][1] = g
        BY <3>2, <4>1, NewJobFacts DEF Accepts
      <4>3. accepted' = accepted \cup {g}
        BY <3>2 DEF Accepts
      <4> HIDE DEF g
      <4> QED  BY <1>1, <4>1, <4>2, <4>3
    <3> QED  BY <2>1, <3>1, <3>2, ReceiveFacts
  <2>2. CASE TakeJob
    BY <1>1, <2>2, TakeFacts
  <2>3. CASE LetsGo
    BY <1>1, <2>3, LetGoFacts
  <2>4. CASE ~ReceiveFileList /\ ~TakeJob /\ ~LetsGo
    BY <1>1, <2>4, OtherFacts
  <2> QED  BY <2>1, <2>2, <2>3, <2>4
<1>5. HasJobs(h)' <=> HasJobs(h)
  BY <1>3 DEF HasJobs, EntryOf
<1>6. \A f \in Files : f[1] = h => ~(h < f[1])
  BY <1>1, ValueTypes
<1>7. \A f \in Files : HasJobs(h) /\ Unsettled(f) => h < f[1]
  BY DEF PublishedInv
<1> QED  BY <1>2, <1>3, <1>4, <1>5, <1>6, <1>7

\* ... and what is added to it is settled.
LEMMA PublishedStep ==
    BatchInv /\ RemainingCounts' /\ [Next]_vars => PublishedInv'
<1> SUFFICES ASSUME TypeOK, WorkerInv, OrderInv, JobsInv, ListsInv, DiskInv,
                    PublishedInv, RemainingCounts', [Next]_vars
             PROVE  PublishedInv'
  BY DEF BatchInv, IndInv
<1>0. published \in Seq(Batches)
  BY DEF TypeOK, BatchTypes
<1>1. \/ UNCHANGED published
      \/ \E g \in Batches : published' = Append(published, g) /\ Publishable(g)
  <2>1. CASE ReceiveFileList
    <3>1. ASSUME NEW S, NEW new, Accepts(Head(inbox).gen, S, new),
                 published' # published
          PROVE  \E g \in Batches : published' = Append(published, g) /\ Publishable(g)
      <4>1. S = {} /\ published' = Append(published, Head(inbox).gen)
        BY <3>1 DEF Accepts
      <4>2. Publishable(Head(inbox).gen)
        BY <2>1, <3>1, <4>1, AcceptPublishes
      <4> QED  BY <4>1, <4>2 DEF Publishable
    <3> QED  BY <2>1, <3>1, ReceiveFacts
  <2>2. CASE TakeJob
    BY <2>2, TakeFacts
  <2>3. CASE FinishJob
    BY <2>3, FinishPublishes DEF Publishable
  <2>4. CASE SendRequest /\ workerPc' = "crashed"
    BY <2>4 DEF SendRequest
  <2>5. CASE ~ReceiveFileList /\ ~TakeJob /\ ~LetsGo
    BY <2>5, OtherFacts
  <2> QED  BY <2>1, <2>2, <2>3, <2>4, <2>5 DEF LetsGo
<1>2. \A i \in DOMAIN published : \A h \in Batches : h = published[i] =>
         /\ h \in accepted'
         /\ HasJobs(h)' <=> HasJobs(h)
         /\ \A f \in Files : f[1] = h => disk'[f].state # "partial" /\ ~Unsettled(f)'
         /\ \A f \in Files : HasJobs(h) /\ Unsettled(f)' => h < f[1]
  BY PublishedStays
<1>3. CASE UNCHANGED published
  <2>1. \A i \in DOMAIN published : published[i] \in Batches
    BY <1>0
  <2>2. PublishedOnceComplete'
    BY <1>2, <1>3, <2>1 DEF PublishedInv, PublishedOnceComplete, HasJobs, Unsettled,
       EntryOf
  <2> QED  BY <1>2, <1>3, <2>1, <2>2 DEF PublishedInv, HasJobs, EntryOf
<1>4. ASSUME NEW g \in Batches, published' = Append(published, g), Publishable(g)
      PROVE  PublishedInv'
  <2> DEFINE n == Len(published)
  <2>1. /\ DOMAIN published = 1..n /\ DOMAIN published' = 1..(n + 1) /\ n \in Nat
        /\ \A i \in DOMAIN published : published'[i] = published[i]
        /\ published'[n + 1] = g
    BY <1>0, <1>4
  <2> HIDE DEF n
  <2>2. \A f \in Files : f[1] = g => disk'[f] = disk[f]
    <3>1. ReceiveFileList \/ LetsGo => UNCHANGED disk
      BY ReceiveFacts, LetGoFacts
    <3>2. ~(ReceiveFileList \/ LetsGo) => UNCHANGED published
      BY TakeFacts, OtherFacts
    <3>3. published' # published
      BY <1>4, <1>0
    <3> QED  BY <3>1, <3>2, <3>3
  <2>3. HasJobs(g)' <=> HasJobs(g)
    BY <2>2 DEF HasJobs, EntryOf
  <2>4. \A i \in 1..n : published[i] # g
    BY <1>4, <2>1 DEF Publishable
  <2>5. \A i, j \in 1..(n + 1) : published'[i] = published'[j] => i = j
    BY <2>1, <2>4 DEF PublishedInv, PublishedOnceComplete
  <2>6. \A i \in 1..(n + 1) : \A h \in Batches : h = published'[i] =>
           /\ h \in accepted'
           /\ \A f \in Files : f[1] = h => disk'[f].state # "partial" /\ ~Unsettled(f)'
           /\ \A f \in Files : HasJobs(h)' /\ Unsettled(f)' => h < f[1]
    BY <1>2, <1>4, <2>1, <2>2, <2>3 DEF Publishable
  <2>7. \A i, j \in 1..(n + 1) : \A a, b \in Batches :
           /\ i < j /\ a = published'[i] /\ b = published'[j]
           /\ HasJobs(a)' /\ HasJobs(b)'
           => a < b
    <3> SUFFICES ASSUME NEW i \in 1..(n + 1), NEW j \in 1..(n + 1), i < j,
                        NEW a \in Batches, NEW b \in Batches,
                        a = published'[i], b = published'[j],
                        HasJobs(a)', HasJobs(b)'
                 PROVE  a < b
      OBVIOUS
    <3>1. i \in DOMAIN published /\ a = published[i] /\ HasJobs(a)
      BY <1>2, <2>1
    <3>2. CASE j \in DOMAIN published
      <4>1. b = published[j] /\ HasJobs(b)
        BY <1>2, <2>1, <3>2
      <4> QED  BY <3>1, <3>2, <4>1 DEF PublishedInv, PublishedOnceComplete
    <3>3. CASE j = n + 1
      BY <1>4, <2>1, <2>3, <3>1, <3>3 DEF Publishable
    <3> QED  BY <2>1, <3>2, <3>3
  <2>8. \A i \in 1..(n + 1) : published'[i] \in Batches
    BY <1>0, <1>4, <2>1
  <2>9. PublishedOnceComplete'
    <3>1. \A i \in 1..(n + 1) : \A f \in Files : f[1] = published'[i] =>
             disk'[f].state # "partial" /\ ~Unsettled(f)'
      BY <2>6, <2>8
    <3>2. \A i, j \in DOMAIN published' :
             (i < j /\ HasJobs(published[i]) /\ HasJobs(published[j]))' =>
                published'[i] < published'[j]
      BY <2>1, <2>7, <2>8 DEF HasJobs, EntryOf
    <3> QED  BY <2>1, <2>5, <3>1, <3>2 DEF PublishedOnceComplete, Unsettled
  <2>10. \A i \in DOMAIN published' : \A f \in Files :
            HasJobs(published[i])' /\ Unsettled(f)' => published'[i] < f[1]
    BY <2>1, <2>6, <2>8 DEF HasJobs, EntryOf
  <2>11. \A i \in DOMAIN published' : published'[i] \in accepted'
    BY <2>1, <2>6, <2>8
  <2> QED  BY <2>9, <2>10, <2>11 DEF PublishedInv
<1> QED  BY <1>1, <1>3, <1>4

-----------------------------------------------------------------------------
(* Counting and publishing.                                                 *)

\* Before the session begins nothing is queued, counted or published.
LEMMA BatchInit == Init => BatchInv
<1> SUFFICES ASSUME Init PROVE BatchInv
  OBVIOUS
<1>1. IndInv
  BY InitInv
<1>2. ~Busy /\ Queued = {}
  BY DEF Init, Busy, Queued
<1>3. OrderInv /\ JobsInv /\ ListsInv
  BY <1>2 DEF Init, OrderInv, JobsInv, ListsInv, Unsettled
<1>4. \A f \in Files : disk[f].state = "absent"
  BY DEF Init, Absent
<1>5. DiskInv
  BY <1>2, <1>4 DEF Init, DiskInv
<1>6. RemainingCounts
  BY <1>2, FS_EmptySet DEF Init, RemainingCounts, Outstanding
<1>7. PublishedInv
  BY DEF Init, PublishedInv, PublishedOnceComplete
<1> QED  BY <1>1, <1>3, <1>5, <1>6, <1>7 DEF BatchInv

\* The parts together are inductive.
LEMMA BatchStep == BatchInv /\ [Next]_vars => BatchInv'
<1>1. IndInv /\ [Next]_vars => IndInv'
  BY ChannelTypesStep, WorkerTypesStep, BatchTypesStep, WorkerInvStep, IdsInvStep
     DEF IndInv, TypeOK
<1>2. BatchInv /\ [Next]_vars => RemainingCounts'
  BY CountStep DEF BatchInv, IndInv
<1> QED  BY <1>1, <1>2, OrderStep, JobsStep, ListsStep, DiskStep, PublishedStep
         DEF BatchInv, IndInv

\* Jobs, counters, files and calls to the view agree throughout.
THEOREM BatchInvariance == Spec => []BatchInv
  BY BatchInit, BatchStep, PTL DEF Spec

\* The counter of a batch, counted up under the lock and down without it, is
\* the number of its files that are still to be fetched (remote_file_batch).
THEOREM CountersAgree == Spec => []RemainingCounts
<1>1. BatchInv => RemainingCounts
  BY DEF BatchInv
<1> QED  BY <1>1, BatchInvariance, PTL

\* Every batch is published once at the most, when all its files are settled,
\* and batches with files in the order of the copies (publish_remote_batch).
THEOREM BatchesComplete == Spec => []PublishedOnceComplete
<1>1. BatchInv => PublishedOnceComplete
  BY DEF BatchInv, PublishedInv
<1> QED  BY <1>1, BatchInvariance, PTL

-----------------------------------------------------------------------------
(* The threads implement FileBatches.                                       *)

\* A file whose outcome is open: queued, or in hand and not yet given up.
Pending(f) == f \in Queued \/ (Busy /\ workerPc # "jobDone" /\ f = job)

\* An outcome is pending exactly for those files, and they come after the one in
\* hand.
LEMMA OutcomeFacts ==
    ASSUME BatchInv
    PROVE  /\ \A f \in FetchFiles : Outcome[f] =
                 IF disk[f].state = "saved" THEN "saved"
                 ELSE IF Pending(f) THEN "pending" ELSE "failed"
           /\ \A f \in FetchFiles : Outcome[f] = "pending" <=> Pending(f)
           /\ \A f \in Files : Pending(f) => f \in FetchFiles
           /\ \A f \in Files : Pending(f) => disk[f].state # "saved"
<1>1. \A f \in FetchFiles : Outcome[f] =
         IF disk[f].state = "saved" THEN "saved"
         ELSE IF Pending(f) THEN "pending" ELSE "failed"
  BY DEF Outcome, Pending
<1>2. \A f \in Files : Pending(f) => disk[f].state # "saved"
  BY DEF BatchInv, DiskInv, Pending
<1>3. \A f \in Files : Pending(f) => f \in FetchFiles
  BY DEF BatchInv, JobsInv, Unsettled, Pending, FetchFiles
<1>4. FetchFiles \subseteq Files
  BY DEF FetchFiles
<1> QED  BY <1>1, <1>2, <1>3, <1>4

\* A step that leaves the pending and the saved files alone changes no outcome.
LEMMA SameOutcome ==
    ASSUME \A f \in FetchFiles : Pending(f)' <=> Pending(f),
           \A f \in FetchFiles : disk'[f].state = "saved" <=> disk[f].state = "saved"
    PROVE  UNCHANGED Outcome
  BY DEF Outcome, Pending, FetchFiles, EntryOf

\* The worker settles the file in hand, which is the oldest.
LEMMA SettlesJob ==
    ASSUME BatchInv, [Next]_vars, Busy, workerPc # "jobDone",
           Queued' = Queued, UNCHANGED <<published, accepted>>,
           \A f \in FetchFiles : Pending(f)' <=> f \in Queued
    PROVE  Promise!Settle(job)
<1>1. job \in FetchFiles /\ Pending(job) /\ Outcome[job] = "pending"
  <2>1. job \in Files /\ Pending(job)
    BY DEF BatchInv, IndInv, WorkerInv, Pending
  <2> QED  BY <2>1, OutcomeFacts
<1>2. job \notin Queued
  BY InHandFacts DEF BatchInv, IndInv
<1>3. \A f \in FetchFiles : f # job => disk'[f] = disk[f]
  BY DiskFacts DEF BatchInv, IndInv, FetchFiles
<1>4. \A f \in FetchFiles : f # job => Outcome'[f] = Outcome[f]
  BY <1>3 DEF Outcome, Pending, FetchFiles, EntryOf
<1>5. Outcome'[job] \in {"saved", "failed"}
  BY <1>1, <1>2 DEF Outcome, Pending, FetchFiles, EntryOf
<1>6. /\ Outcome \in [FetchFiles -> {"saved", "failed", "pending"}]
      /\ Outcome' \in [FetchFiles -> {"saved", "failed", "pending"}]
  BY DEF Outcome, FetchFiles, EntryOf
<1>7. Outcome' = [Outcome EXCEPT ![job] = Outcome'[job]]
  BY <1>1, <1>4, <1>6
<1>8. \A e \in FetchFiles : Promise!Before(e, job) => Outcome[e] # "pending"
  <2> SUFFICES ASSUME NEW e \in FetchFiles, Promise!Before(e, job), Pending(e)
               PROVE  FALSE
    BY OutcomeFacts
  <2>1. e \in Files /\ job \in Files
    BY <1>1 DEF FetchFiles
  <2>2. e # job
    BY <2>1, BeforeOrders
  <2>3. e \in Queued
    BY <2>2 DEF Pending
  <2>4. Promise!Before(job, e)
    BY <2>3 DEF BatchInv, OrderInv, Queued
  <2> QED  BY <2>1, <2>4, BeforeOrders
<1>9. UNCHANGED Status
  BY DEF Status
<1> QED  BY <1>1, <1>5, <1>7, <1>8, <1>9 DEF Promise!Settle

\* Accepting a list accepts the batch.
LEMMA AcceptsBatch ==
    ASSUME BatchInv, BatchInv', ReceiveFileList, NEW S, NEW new,
           Accepts(Head(inbox).gen, S, new)
    PROVE  Promise!Next
<1>0. /\ TypeOK /\ ListsInv /\ PublishedInv
      /\ published \in Seq(Batches) /\ accepted \subseteq Batches
  BY DEF BatchInv, IndInv, TypeOK, BatchTypes
<1>1. PICK g \in Batches : g = Head(inbox).gen
  BY <1>0, AcceptFacts
<1> DEFINE T == {new[i] : i \in DOMAIN new}
<1>2. /\ g \notin accepted /\ \A h \in accepted : h < g
      /\ Queued' = Queued \cup T /\ (Busy' <=> Busy)
  BY <1>0, <1>1, AcceptFacts
<1>3. /\ \A f \in T : f \in Files /\ f[1] = g
      /\ S = {} => T = {}
  <2>1. S \in SUBSET (DOMAIN Listings[g]) /\ new \in InListOrder(g, S)
    BY <1>1 DEF Accepts
  <2> QED  BY <2>1, NewJobFacts
<1>4. T \in SUBSET Promise!FilesOf(g)
  <2>1. \A f \in T : Pending(f)'
    BY <1>2 DEF Pending
  <2>2. \A f \in T : f \in FetchFiles
    BY <1>2, <1>3 DEF BatchInv, JobsInv, Unsettled, FetchFiles, EntryOf
  <2> QED  BY <1>3, <2>2 DEF Promise!FilesOf
<1>5. \A h \in Batches : h >= g => Status[h] = "none"
  <2> SUFFICES ASSUME NEW h \in Batches, h >= g PROVE Status[h] = "none"
    OBVIOUS
  <2>1. h \notin accepted
    BY <1>2, ValueTypes
  <2>2. \A i \in DOMAIN published : published[i] # h
    BY <1>0, <2>1 DEF PublishedInv
  <2> QED  BY <2>1, <2>2 DEF Status
<1>6. Outcome' = [f \in FetchFiles |-> IF f \in T THEN "pending" ELSE Outcome[f]]
  <2>1. UNCHANGED disk /\ UNCHANGED job
    BY <1>0, ReceiveFacts
  <2>2. workerPc' = "jobDone" <=> workerPc = "jobDone"
    BY <1>0, ReceiveFacts
  <2>3. \A f \in T : disk[f].state = "absent"
    BY <1>2, <2>1 DEF BatchInv, DiskInv
  <2>4. \A f \in FetchFiles : f \in T => Outcome'[f] = "pending"
    BY <1>2, <2>1, <2>3 DEF Outcome, FetchFiles, EntryOf
  <2>5. \A f \in FetchFiles : f \notin T => Outcome'[f] = Outcome[f]
    BY <1>2, <2>1, <2>2 DEF Outcome, FetchFiles, EntryOf
  <2> QED  BY <2>4, <2>5 DEF Outcome, FetchFiles, EntryOf
<1>7. Status' \in {[Status EXCEPT ![g] = s] :
                      s \in IF T = {} THEN {"open", "published"} ELSE {"open"}}
  <2>1. accepted' = accepted \cup {g}
    BY <1>1 DEF Accepts
  <2>2. \A i \in DOMAIN published : published[i] # g
    BY <1>0, <1>2 DEF PublishedInv
  <2>3. CASE UNCHANGED published
    <3>1. Status' = [Status EXCEPT ![g] = "open"]
      BY <2>1, <2>2, <2>3 DEF Status
    <3> QED  BY <3>1
  <2>4. CASE S = {} /\ published' = Append(published, g)
    <3>1. \A h \in Batches : (\E i \in DOMAIN published' : published'[i] = h)
             <=> (\E i \in DOMAIN published : published[i] = h) \/ h = g
      BY <1>0, <2>4
    <3>2. Status' = [Status EXCEPT ![g] = "published"]
      BY <2>1, <3>1 DEF Status
    <3> QED  BY <1>3, <2>4, <3>2
  <2> QED  BY <1>1, <2>3, <2>4 DEF Accepts
<1>8. g >= g /\ \A h \in Batches : h > g => h >= g
  BY ValueTypes
<1> HIDE DEF T
<1>9. Promise!Accept(g, T)
  BY <1>5, <1>6, <1>7, <1>8 DEF Promise!Accept
<1> QED  BY <1>4, <1>9 DEF Promise!Next

\* The worker that publishes its batch publishes the abstract one.
LEMMA FinishesBatch ==
    ASSUME BatchInv, BatchInv', [Next]_vars, FinishJob
    PROVE  UNCHANGED <<Status, Outcome>> \/ Promise!Publish(job[1])
<1>0. /\ TypeOK /\ WorkerInv /\ OrderInv /\ JobsInv /\ DiskInv /\ PublishedInv
      /\ RemainingCounts' /\ published \in Seq(Batches)
  BY DEF BatchInv, IndInv, TypeOK, BatchTypes
<1>1. /\ UNCHANGED <<disk, accepted>> /\ Queued' = Queued /\ ~Busy'
      /\ workerPc = "jobDone" /\ job \in Files /\ Unsettled(job)
  BY <1>0, LetGoFacts DEF LetsGo, Queued, FinishJob
<1>2. UNCHANGED Outcome
  <2>1. \A f \in FetchFiles : Pending(f)' <=> Pending(f)
    BY <1>1 DEF Pending
  <2> QED  BY <1>1, <2>1, SameOutcome
<1>3. CASE UNCHANGED published
  <2>1. UNCHANGED Status
    BY <1>1, <1>3 DEF Status
  <2> QED  BY <1>2, <2>1
<1>4. CASE published' # published
  <2>1. PICK g \in Batches : g = job[1]
    BY <1>1, FileFacts
  <2>2. published' = Append(published, g) /\ Publishable(g)
    BY <1>0, <1>4, <2>1, FinishPublishes
  <2>3. Status[g] = "open"
    BY <1>1, <2>1, <2>2 DEF Status, Publishable, JobsInv
  <2>4. \A h \in Batches : (\E i \in DOMAIN published' : published'[i] = h)
           <=> (\E i \in DOMAIN published : published[i] = h) \/ h = g
    BY <1>0, <2>2
  <2>5. Status' = [Status EXCEPT ![g] = "published"]
    BY <1>1, <2>4 DEF Status
  <2>6. \A f \in FetchFiles : f[1] = g => Outcome[f] # "pending"
    <3> SUFFICES ASSUME NEW f \in FetchFiles, f[1] = g, Pending(f) PROVE FALSE
      BY OutcomeFacts
    <3>1. Unsettled(f)' /\ f \in Files
      BY <1>1 DEF Pending, Unsettled, FetchFiles
    <3> QED  BY <2>2, <3>1 DEF Publishable
  <2> QED  BY <1>2, <2>1, <2>3, <2>5, <2>6 DEF Promise!Publish, Promise!FilesOf
<1> QED  BY <1>3, <1>4

\* Every step of the threads is a step of the batches, or invisible to them.
LEMMA BatchesStep ==
    ASSUME BatchInv, BatchInv', [Next]_vars
    PROVE  [Promise!Next]_(Promise!vars)
<1> SUFFICES Promise!Next \/ UNCHANGED <<Status, Outcome>>
  BY DEF Promise!vars
<1>0. /\ TypeOK /\ WorkerInv /\ OrderInv /\ JobsInv /\ ListsInv /\ DiskInv
      /\ disk \in [Files -> LocalFile]
  BY DEF BatchInv, IndInv, TypeOK, BatchTypes
<1>1. ASSUME UNCHANGED <<published, accepted, Queued>>, Busy, workerPc # "jobDone",
             ~Busy' \/ workerPc' = "jobDone"
      PROVE  Promise!Next
  <2>1. \A f \in FetchFiles : Pending(f)' <=> f \in Queued
    BY <1>1 DEF Pending
  <2>2. Promise!Settle(job)
    BY <1>1, <2>1, SettlesJob
  <2>3. job \in FetchFiles
    BY <1>0, <1>1, OutcomeFacts DEF Pending, WorkerInv
  <2> QED  BY <2>2, <2>3 DEF Promise!Next
<1>2. ASSUME UNCHANGED <<published, accepted>>,
             \A f \in FetchFiles : Pending(f)' <=> Pending(f),
             \A f \in Files : disk'[f].state = "saved" <=> disk[f].state = "saved"
      PROVE  UNCHANGED <<Status, Outcome>>
  <2>1. UNCHANGED Status
    BY <1>2 DEF Status
  <2> QED  BY <1>2, <2>1, SameOutcome DEF FetchFiles
<1>3. CASE ReceiveFileList
  <2>1. CASE UNCHANGED <<remoteJobs, accepted, published>>
    <3>1. /\ UNCHANGED <<disk, job>> /\ Queued' = Queued /\ (Busy' <=> Busy)
          /\ workerPc' = "jobDone" <=> workerPc = "jobDone"
      BY <1>0, <1>3, <2>1, ReceiveFacts DEF Queued, Busy
    <3> QED  BY <1>2, <2>1, <3>1 DEF Pending
  <2>2. ASSUME NEW S, NEW new, Accepts(Head(inbox).gen, S, new)
        PROVE  Promise!Next
    BY <1>3, <2>2, AcceptsBatch
  <2> QED  BY <1>0, <1>3, <2>1, <2>2, ReceiveFacts
<1>4. CASE TakeJob
  <2>1. /\ UNCHANGED <<disk, published, accepted>> /\ ~Busy
        /\ \A f : Unsettled(f)' <=> Unsettled(f)
        /\ workerPc' # "jobDone"
    BY <1>0, <1>4, TakeFacts DEF Busy
  <2>2. \A f \in FetchFiles : Pending(f)' <=> Pending(f)
    BY <2>1 DEF Pending, Unsettled
  <2> QED  BY <1>2, <2>1, <2>2
<1>5. CASE FinishJob
  <2>1. job[1] \in Batches
    BY <1>0, <1>5, FileFacts DEF FinishJob, Busy, WorkerInv
  <2> QED  BY <1>5, <2>1, FinishesBatch DEF Promise!Next
<1>6. CASE SendRequest /\ workerPc' = "crashed"
  BY <1>1, <1>6 DEF SendRequest, peerVars, Busy, Queued
<1>7. CASE OpenFile \/ WriteChunk
  <2>1. UNCHANGED <<published, accepted, job, Queued>>
    BY <1>7 DEF OpenFile, WriteChunk, peerVars, Queued
  <2>2. Busy /\ workerPc # "jobDone" /\ job \in Files /\ disk[job].state # "saved"
    BY <1>0, <1>7 DEF OpenFile, WriteChunk, Busy, WorkerInv, DiskInv
  <2>3. CASE workerPc' = "jobDone"
    BY <1>1, <2>1, <2>2, <2>3
  <2>4. CASE workerPc' # "jobDone"
    <3>1. Busy'
      BY <1>7, <2>4 DEF OpenFile, WriteChunk, Busy
    <3>2. disk'[job].state # "saved"
      BY <2>1, <2>4, <3>1 DEF BatchInv, DiskInv
    <3>3. \A f \in Files : f # job => disk'[f] = disk[f]
      BY <1>0, DiskFacts
    <3> QED  BY <1>2, <2>1, <2>2, <2>4, <3>1, <3>2, <3>3 DEF Pending
  <2> QED  BY <2>3, <2>4
<1>8. CASE SaveFile \/ AbandonFile
  BY <1>1, <1>8 DEF SaveFile, AbandonFile, peerVars, Busy, Queued
<1>9. CASE /\ ~ReceiveFileList /\ ~TakeJob /\ ~LetsGo
           /\ ~(OpenFile \/ WriteChunk \/ SaveFile \/ AbandonFile)
  <2>1. UNCHANGED <<published, accepted, job, Queued>> /\ (Busy' <=> Busy)
    BY <1>9, OtherFacts
  <2>2. UNCHANGED disk /\ (workerPc' = "jobDone" <=> workerPc = "jobDone")
    <3>1. CASE Server \/ Channel \/ ApplyPublished \/ Shutdown \/ UNCHANGED vars
      BY <1>9, <3>1 DEF Server, ServerCopy, ServerAnswer, Channel, ReceiveEmptyList,
         ReceiveContents, NotifyResponse, NotifyJobs, ApplyPublished, Shutdown, Quit,
         Disconnect, FreeChannel, MainReturns, DestroyEntry, JoinWorker,
         shutdownUnchanged, vars
    <3>2. CASE AskSize \/ AskRange \/ SendRequest \/ SendFailed \/ AwaitResponse
      BY <3>2 DEF AskSize, AskRange, NewRequest, SendRequest, SendFailed,
         AwaitResponse
    <3> QED  BY <1>9, <3>1, <3>2 DEF Next, Worker, Finished, LetsGo
  <2> QED  BY <1>2, <2>1, <2>2 DEF Pending
<1> QED  BY <1>3, <1>4, <1>5, <1>6, <1>7, <1>8, <1>9 DEF LetsGo

\* The channel thread, the worker and whatever the server answers implement the
\* batches of FileBatches: a list is taken up once and in turn, its files are
\* settled in order, and it is published once, when they all are.
THEOREM Implements == Spec => ImplementsBatches
<1>1. Init => Promise!Init
  <2> SUFFICES ASSUME Init PROVE Promise!Init
    OBVIOUS
  <2>1. ~Busy /\ Queued = {}
    BY DEF Init, Busy, Queued
  <2>2. \A f \in FetchFiles : disk[f].state = "absent"
    BY DEF Init, Absent, FetchFiles
  <2>3. Status = [g \in Batches |-> "none"]
    BY DEF Init, Status
  <2>4. Outcome = [f \in FetchFiles |-> "failed"]
    BY <2>1, <2>2 DEF Outcome, FetchFiles, EntryOf
  <2> QED  BY <2>3, <2>4 DEF Promise!Init
<1>2. BatchInv /\ BatchInv' /\ [Next]_vars => [Promise!Next]_(Promise!vars)
  BY BatchesStep
<1> QED  BY <1>1, <1>2, BatchInvariance, PTL DEF Spec, ImplementsBatches, Promise!Spec

-----------------------------------------------------------------------------
(* What is saved.  The part of the inductive invariant it needs, beside      *)
(* BatchInv: what the payloads say that may still reach the worker, and what *)
(* it has written so far.                                                   *)

\* The worker may yet take up an answer to its last request.
Asking == workerPc \in {"send", "wait", "sleepResponse", "writeChunk"}

\* A payload that was received, or is about to be.
Kept(d) == \/ pending.data = d
           \/ \E i \in DOMAIN inbox : inbox[i].type = "contents" /\ inbox[i].data = d

\* A payload with the serial number of the last request is what it asked for, of
\* a list the server has had since the one the file belongs to.
Genuine(d) ==
    d.serial = request.serial =>
       /\ d.index = request.index /\ d.gen \in Batches /\ d.gen <= serverGen
       /\ request.kind = "size" => d.size = Listings[d.gen][d.index].size
       /\ request.kind = "range" => d.off = request.off
       /\ Asking => job[1] <= d.gen

PayloadInv ==
    /\ toServer # NoRequest /\ toServer.serial = request.serial => toServer = request
    /\ \A d \in Data : Kept(d) /\ Names(d) => Genuine(d)
    /\ Asking => request.index = job[2]

\* Ranges of the file f, of no list older than its own.
RangesOf(f, c) ==
    /\ Contiguous(c)
    /\ \A i \in DOMAIN c : c[i].index = f[2] /\ f[1] <= c[i].gen /\ c[i].gen <= serverGen

\* The ranges that have been written end where the next one begins; the size is
\* the announced one as long as the server has not copied anything else.
WrittenInv ==
    /\ workerPc = "openFile" \/ Writing =>
          (serverGen = job[1] => fileSize = EntryOf(job).size)
    /\ Writing => /\ RangesOf(job, disk[job].chunks)
                  /\ End(disk[job].chunks) = offset /\ offset <= fileSize
    /\ Asking /\ request.kind = "range" =>
          request.off = offset /\ request.off + request.len <= fileSize
    /\ workerPc = "writeChunk" =>
          chunk.serial = request.serial /\ Genuine(chunk) /\ chunk.len = request.len

SavedInv ==
    /\ BatchInv /\ PayloadInv
    /\ requests < IdMod => WrittenInv
    /\ SavedFileFaithful

\* No step but a new request changes what is asked for.
LEMMA SteadyFacts ==
    ASSUME TypeOK, [Next]_vars, ~AskSize, ~AskRange
    PROVE  /\ UNCHANGED <<request, requests>>
           /\ serverGen \in Nat /\ serverGen' \in Nat /\ serverGen <= serverGen'
           /\ Asking' => Asking /\ UNCHANGED job
<1>0. serverGen \in Nat
  BY ValueTypes DEF TypeOK, ChannelTypes
<1>1. CASE Server \/ ReceiveEmptyList \/ ReceiveContents \/ ApplyPublished
  BY <1>0, <1>1 DEF Server, ServerCopy, ServerAnswer, ReceiveEmptyList,
     ReceiveContents, ApplyPublished, workerLocals, NotifyResponse, Asking
<1>2. CASE ReceiveFileList
  BY <1>0, <1>2, ReceiveFacts DEF ReceiveFileList, Asking
<1>3. CASE TakeJob \/ FinishJob \/ SendFailed
  BY <1>0, <1>3 DEF TakeJob, FinishJob, SendFailed, peerVars, workerLocals, Asking
<1>4. CASE SendRequest \/ AwaitResponse
  BY <1>0, <1>4 DEF SendRequest, AwaitResponse, peerVars, workerLocals, Asking
<1>5. CASE OpenFile \/ WriteChunk \/ SaveFile \/ AbandonFile
  BY <1>0, <1>5 DEF OpenFile, WriteChunk, SaveFile, AbandonFile, peerVars,
     workerLocals, Asking
<1>6. CASE Shutdown
  BY <1>0, <1>6 DEF Shutdown, Quit, Disconnect, FreeChannel, MainReturns,
     DestroyEntry, JoinWorker, shutdownUnchanged, workerLocals, NotifyJobs,
     NotifyResponse, Asking
<1>7. CASE UNCHANGED vars
  BY <1>0, <1>7 DEF vars, workerLocals, Asking
<1> QED  BY <1>1, <1>2, <1>3, <1>4, <1>5, <1>6, <1>7
         DEF Next, Channel, Worker, Finished

LEMMA GenuineStays ==
    ASSUME TypeOK, [Next]_vars, ~AskSize, ~AskRange, NEW d \in Data, Genuine(d)
    PROVE  Genuine(d)'
  BY SteadyFacts DEF Genuine, Data

\* Nothing but an answer of the server is a new payload.
LEMMA KeptFacts ==
    ASSUME TypeOK, [Next]_vars, ~ServerAnswer, NEW d, Kept(d)', Names(d)
    PROVE  Kept(d)
<1>0. /\ ~Names(NoData) /\ NoPending.data = NoData
      /\ inbox \in Seq(Pdu) /\ pending \in PendingResponse
  BY ValueTypes DEF NoPending, TypeOK, ChannelTypes
<1>1. CASE ServerCopy
  <2>1. UNCHANGED pending
    BY <1>1 DEF ServerCopy
  <2>2. \A i \in DOMAIN inbox' : inbox'[i].type = "contents" =>
           i \in DOMAIN inbox /\ inbox'[i] = inbox[i]
    BY <1>0, <1>1 DEF ServerCopy
  <2> QED  BY <2>1, <2>2 DEF Kept
<1>2. CASE Channel
  <2>1. /\ inbox # <<>> /\ inbox' = Tail(inbox)
        /\ \A i \in DOMAIN inbox' : /\ i + 1 \in DOMAIN inbox
                                    /\ inbox'[i] = inbox[i + 1]
        /\ 1 \in DOMAIN inbox /\ Head(inbox) = inbox[1]
    BY <1>0, <1>2, HeadPdu DEF Channel, ReceiveEmptyList, ReceiveFileList,
       ReceiveContents, NextPdu
  <2>2. CASE UNCHANGED pending
    BY <2>1, <2>2 DEF Kept
  <2>3. CASE /\ ReceiveContents
             /\ pending'.data \in {inbox[1].data, NoData}
    BY <1>0, <2>1, <2>3 DEF Kept, ReceiveContents, NextPdu
  <2>4. ReceiveContents => UNCHANGED pending \/ pending'.data \in {inbox[1].data, NoData}
    BY <1>0, <2>1 DEF ReceiveContents, PendingResponse
  <2> QED  BY <1>2, <2>2, <2>3, <2>4 DEF Channel, ReceiveEmptyList, ReceiveFileList
<1>3. CASE Worker
  <2>1. UNCHANGED inbox
    BY <1>3 DEF Worker, TakeJob, AskSize, AskRange, NewRequest, SendRequest,
       SendFailed, AwaitResponse, OpenFile, WriteChunk, SaveFile, AbandonFile,
       FinishJob, peerVars
  <2>2. CASE AskSize \/ AskRange
    BY <1>0, <2>1, <2>2 DEF AskSize, AskRange, NewRequest, NoPending, Kept
  <2>3. CASE SendFailed \/ AwaitResponse
    BY <1>0, <2>1, <2>3 DEF SendFailed, AwaitResponse, Kept
  <2>4. CASE TakeJob \/ SendRequest \/ OpenFile \/ WriteChunk \/ SaveFile
             \/ AbandonFile \/ FinishJob
    BY <2>1, <2>4 DEF TakeJob, SendRequest, OpenFile, WriteChunk, SaveFile,
       AbandonFile, FinishJob, Kept
  <2> QED  BY <1>3, <2>2, <2>3, <2>4 DEF Worker
<1>4. CASE Shutdown
  <2>1. inbox' = inbox \/ inbox' = <<>>
    BY <1>4 DEF Shutdown, Quit, Disconnect, FreeChannel, MainReturns,
       DestroyEntry, JoinWorker, shutdownUnchanged
  <2>2. pending'.data = pending.data
    BY <1>0, <1>4 DEF Shutdown, Quit, Disconnect, FreeChannel, MainReturns,
       DestroyEntry, JoinWorker, shutdownUnchanged, PendingResponse
  <2> QED  BY <2>1, <2>2 DEF Kept
<1>5. CASE ApplyPublished \/ UNCHANGED vars
  BY <1>5 DEF ApplyPublished, vars, Kept
<1> QED  BY <1>1, <1>2, <1>3, <1>4, <1>5 DEF Next, Server, Finished

\* The payload of an answer is what was asked for.
LEMMA AnswerFacts ==
    ASSUME SavedInv, ServerAnswer, NEW d \in Data, Kept(d)', Names(d)
    PROVE  Genuine(d)
<1>0. /\ TypeOK /\ ChannelTypes /\ WorkerInv /\ PayloadInv
      /\ inbox \in Seq(Pdu) /\ toServer \in Request
  BY DEF SavedInv, BatchInv, IndInv, TypeOK, ChannelTypes
<1>1. PICK m \in Responses(toServer), n \in 1..MaxCopies :
         inbox' = inbox \o [i \in 1..n |-> m]
  BY DEF ServerAnswer
<1>2. Kept(d) \/ d = m.data
  <2>1. [i \in 1..n |-> m] \in Seq({m})
    BY SizesAssumption
  <2>2. \A i \in DOMAIN inbox' : (i \in DOMAIN inbox /\ inbox'[i] = inbox[i]) \/ inbox'[i] = m
    BY <1>0, <1>1, <2>1
  <2>3. UNCHANGED pending
    BY DEF ServerAnswer
  <2> QED  BY <2>2, <2>3 DEF Kept
<1>3. ASSUME d = m.data, d.serial = request.serial PROVE Genuine(d)
  <2>1. CanRead(toServer) /\ d = Content(toServer)
    BY <1>3, ValueTypes DEF Responses
  <2>2. /\ serverGen \in Batches /\ serverGen \in Nat
        /\ toServer # NoRequest /\ toServer.kind \in {"size", "range"}
    BY <1>0, <2>1, ValueTypes DEF CanRead, IsServerFile, ServerAnswer, Request,
       WorkerInv
  <2>3. toServer = request
    <3>1. d.serial = toServer.serial
      BY <2>1 DEF Content
    <3> QED  BY <1>0, <1>3, <2>2, <3>1 DEF PayloadInv
  <2>4. Asking => job[1] <= serverGen
    BY <1>0, InHandFacts DEF SavedInv, BatchInv, ListsInv, Asking, Busy
  <2> QED  BY <2>1, <2>2, <2>3, <2>4 DEF Content, Genuine
<1> QED  BY <1>0, <1>2, <1>3 DEF PayloadInv, Genuine

LEMMA PayloadStep == SavedInv /\ [Next]_vars => PayloadInv'
<1> SUFFICES ASSUME SavedInv, [Next]_vars PROVE PayloadInv'
  OBVIOUS
<1>0. /\ TypeOK /\ WorkerInv /\ IdsInv /\ PayloadInv /\ TypeOK'
      /\ toServer \in Request /\ requests \in Nat /\ request \in Request
  <2>1. TypeOK /\ WorkerInv /\ IdsInv /\ PayloadInv
    BY DEF SavedInv, BatchInv, IndInv
  <2>2. TypeOK'
    BY <2>1, ChannelTypesStep, WorkerTypesStep, BatchTypesStep DEF TypeOK
  <2> QED  BY <2>1, <2>2 DEF TypeOK, ChannelTypes, WorkerTypes
<1>1. CASE AskSize \/ AskRange
  <2>1. /\ request'.serial = requests + 1 /\ request'.index = job[2]
        /\ UNCHANGED <<toServer, job>>
    BY <1>1 DEF AskSize, AskRange, NewRequest
  <2>2. toServer # NoRequest => toServer.serial < requests + 1
    BY <1>0 DEF WorkerInv
  <2>3. ASSUME NEW d \in Data, Kept(d)', Names(d) PROVE d.serial < requests + 1
    <3>1. Kept(d)
      BY <1>0, <1>1, <2>3, KeptFacts DEF AskSize, AskRange, NewRequest, ServerAnswer,
         peerVars, Asking
    <3> QED  BY <1>0, <2>3, <3>1 DEF Kept, IdsInv
  <2> QED  BY <1>0, <2>1, <2>2, <2>3 DEF PayloadInv, Genuine, Data
<1>2. CASE ~AskSize /\ ~AskRange
  <2>1. UNCHANGED request /\ (Asking' => Asking /\ UNCHANGED job)
    BY <1>0, <1>2, SteadyFacts
  <2>2. toServer' \in {toServer, NoRequest, request}
    BY <1>2 DEF Next, Server, ServerCopy, ServerAnswer, Channel, ReceiveEmptyList,
       ReceiveFileList, ReceiveContents, Worker, TakeJob, SendRequest, SendFailed,
       AwaitResponse, OpenFile, WriteChunk, SaveFile, AbandonFile, FinishJob,
       ApplyPublished, Shutdown, Quit, Disconnect, FreeChannel, MainReturns,
       DestroyEntry, JoinWorker, shutdownUnchanged, Finished, vars
  <2>3. ASSUME NEW d \in Data, Kept(d)', Names(d) PROVE Genuine(d)
    BY <1>0, <2>3, KeptFacts, AnswerFacts DEF PayloadInv
  <2>4. \A d \in Data : Kept(d)' /\ Names(d) => Genuine(d)'
    BY <1>0, <1>2, <2>3, GenuineStays
  <2> QED  BY <1>0, <2>1, <2>2, <2>4 DEF PayloadInv
<1> QED  BY <1>1, <1>2

\* The range that begins where the last one ended keeps them in a row.
LEMMA AppendRange ==
    ASSUME NEW c \in Seq(Data), NEW d \in Data, Contiguous(c), d.off = End(c)
    PROVE  Contiguous(Append(c, d)) /\ End(Append(c, d)) = d.off + d.len
<1> DEFINE e == Append(c, d)
<1>1. /\ Len(e) = Len(c) + 1 /\ e[Len(e)] = d /\ e # <<>> /\ e \in Seq(Data)
      /\ Len(c) \in Nat /\ DOMAIN c = 1..Len(c) /\ DOMAIN e = 1..Len(e)
      /\ \A i \in 1..Len(c) : e[i] = c[i]
  OBVIOUS
<1>2. c = <<>> <=> Len(c) = 0
  OBVIOUS
<1>3. ASSUME NEW i \in DOMAIN e
      PROVE  e[i].off = IF i = 1 THEN 0 ELSE e[i - 1].off + e[i - 1].len
  <2>1. CASE i = Len(e)
    <3>1. e[i].off = End(c)
      BY <1>1, <2>1
    <3>2. CASE c = <<>>
      BY <1>1, <2>1, <3>1, <3>2 DEF End
    <3>3. CASE c # <<>>
      <4>1. i - 1 = Len(c) /\ i # 1 /\ Len(c) \in 1..Len(c)
        BY <1>1, <1>2, <2>1, <3>3
      <4>2. e[i - 1] = c[Len(c)]
        BY <1>1, <4>1
      <4> QED  BY <3>1, <3>3, <4>1, <4>2 DEF End
    <3> QED  BY <3>2, <3>3
  <2>2. CASE i # Len(e)
    <3>1. i \in DOMAIN c /\ e[i] = c[i]
      BY <1>1, <2>2
    <3>2. i # 1 => e[i - 1] = c[i - 1]
      BY <1>1, <3>1
    <3> QED  BY <3>1, <3>2 DEF Contiguous
  <2> QED  BY <2>1, <2>2
<1>4. End(e) = d.off + d.len
  BY <1>1 DEF End
<1> HIDE DEF e
<1>5. Contiguous(e)
  BY <1>3 DEF Contiguous
<1> QED  BY <1>4, <1>5 DEF e

\* An answer that is taken up is the one to the last request, while the stream
\* ids have not come round.
LEMMA TakenFacts ==
    ASSUME SavedInv, requests < IdMod, workerPc = "wait", ResponseReady,
           Names(pending.data)
    PROVE  pending.data \in Data /\ pending.data.serial = request.serial
           /\ Genuine(pending.data)
<1>1. /\ pending.data \in Data /\ requests \in Nat /\ requests = request.serial
      /\ requests > 0 /\ pending.data.serial \in 1..requests
      /\ StreamId(pending.data.serial) = StreamId(requests)
      /\ PayloadInv
  BY DEF SavedInv, BatchInv, IndInv, TypeOK, ChannelTypes, WorkerTypes,
     PendingResponse, WorkerInv, IdsInv, ResponseReady
<1>2. pending.data.serial = requests
  <2>1. SUFFICES ASSUME pending.data.serial < requests PROVE FALSE
    BY <1>1
  <2>2. requests - pending.data.serial >= IdMod - 1
    BY <1>1, <2>1, StreamIdReused
  <2> QED  BY <1>1, <2>2, SizesAssumption
<1> QED  BY <1>1, <1>2 DEF PayloadInv, Kept

LEMMA RangeTypes ==
    ASSUME NEW c \in Seq(Data)
    PROVE  \A i \in DOMAIN c : c[i] \in Data /\ c[i].gen \in Nat
<1>1. \A i \in DOMAIN c : c[i] \in Data
  OBVIOUS
<1> QED  BY <1>1 DEF Data

\* Where nothing is written or waited for there is nothing to keep.
LEMMA NothingWritten ==
    ASSUME workerPc' \in {"take", "askSize", "jobDone", "crashed", "exited",
                          "sleepJobs", "none"}
    PROVE  WrittenInv'
  BY DEF WrittenInv, Writing, Asking

\* What has been written stays what it is while other things happen.
LEMMA WrittenStays ==
    ASSUME SavedInv, WrittenInv, [Next]_vars, ~AskSize, ~AskRange,
           UNCHANGED <<disk, offset, fileSize, chunk, job>>,
           Writing' => Writing,
           workerPc' = "openFile" => workerPc = "openFile",
           workerPc' = "writeChunk" => workerPc = "writeChunk"
    PROVE  WrittenInv'
<1>0. /\ TypeOK /\ WorkerInv /\ chunk \in Data /\ disk \in [Files -> LocalFile]
      /\ OrderInv /\ JobsInv /\ ListsInv
  BY DEF SavedInv, BatchInv, IndInv, TypeOK, WorkerTypes, BatchTypes
<1>1. /\ UNCHANGED request /\ (Asking' => Asking)
      /\ serverGen \in Nat /\ serverGen' \in Nat /\ serverGen <= serverGen'
  BY <1>0, SteadyFacts
<1>2. ASSUME workerPc = "openFile" \/ Writing, serverGen' = job[1]
      PROVE  serverGen = job[1]
  <2>1. job \in Files /\ job[1] \in accepted
    BY <1>0, <1>2, InHandFacts DEF Writing, Busy
  <2> QED  BY <1>0, <1>1, <1>2, <2>1 DEF ListsInv
<1>3. ASSUME Writing PROVE RangesOf(job, disk[job].chunks)'
  <2>1. job \in Files
    BY <1>0, <1>3 DEF WorkerInv, Writing, Busy
  <2>2. disk[job].chunks \in Seq(Data)
    BY <1>0, <2>1 DEF LocalFile
  <2>3. \A i \in DOMAIN disk[job].chunks : disk[job].chunks[i].gen \in Nat
    BY <2>2, RangeTypes
  <2>4. RangesOf(job, disk[job].chunks)
    BY <1>3 DEF WrittenInv
  <2> QED  BY <1>1, <2>3, <2>4 DEF RangesOf, Contiguous
<1>4. workerPc = "writeChunk" => Genuine(chunk)'
  <2>1. workerPc = "writeChunk" => Genuine(chunk)
    BY DEF WrittenInv
  <2>2. PICK d \in Data : d = chunk
    BY <1>0
  <2>3. Genuine(d) => Genuine(d)'
    BY <1>0, GenuineStays
  <2>4. Genuine(chunk) <=> Genuine(d)
    BY <2>2 DEF Genuine
  <2>5. Genuine(chunk)' <=> Genuine(d)'
    BY <2>2 DEF Genuine
  <2> QED  BY <2>1, <2>3, <2>4, <2>5
<1>5. /\ workerPc' = "openFile" \/ Writing' =>
            (serverGen' = job[1] => fileSize = EntryOf(job).size)
      /\ Asking' /\ request.kind = "range" =>
            request.off = offset /\ request.off + request.len <= fileSize
      /\ workerPc' = "writeChunk" =>
            chunk.serial = request.serial /\ chunk.len = request.len
  BY <1>1, <1>2 DEF WrittenInv
<1>6. Writing' => End(disk[job].chunks) = offset /\ offset <= fileSize
  BY DEF WrittenInv
<1>7. /\ EntryOf(job)' = EntryOf(job)
      /\ End(disk[job].chunks)' = End(disk[job].chunks)
  BY DEF EntryOf, End
<1> QED  BY <1>1, <1>3, <1>4, <1>5, <1>6, <1>7 DEF WrittenInv

\* The worker takes up an answer, writes a range or asks for the next.
LEMMA AwaitWrites ==
    ASSUME SavedInv, WrittenInv, requests < IdMod, AwaitResponse
    PROVE  WrittenInv'
<1>0. /\ TypeOK /\ WorkerInv /\ pending.data \in Data
      /\ OrderInv /\ JobsInv /\ ListsInv /\ PayloadInv /\ [Next]_vars
      /\ requests = request.serial /\ request.len \in Nat
      /\ Asking /\ ~AskSize /\ ~AskRange
  <2>1. /\ TypeOK /\ WorkerInv /\ pending.data \in Data
        /\ OrderInv /\ JobsInv /\ ListsInv /\ PayloadInv
        /\ request.len \in Nat
    BY DEF SavedInv, BatchInv, IndInv, TypeOK, ChannelTypes, WorkerTypes,
       PendingResponse, Request
  <2>2. [Next]_vars
    BY DEF Next, Worker, AwaitResponse
  <2> QED  BY <2>1, <2>2 DEF WorkerInv, AwaitResponse, Asking, AskSize, AskRange
<1>1. /\ UNCHANGED <<disk, offset, job, request, serverGen>>
      /\ workerPc = "wait"
  BY DEF AwaitResponse, peerVars
<1>2. CASE workerPc' \in {"sleepResponse", "abandon"}
  <2>1. UNCHANGED <<fileSize, chunk>>
    BY <1>2 DEF AwaitResponse
  <2>2. Writing' => Writing
    BY <1>1, <1>2 DEF Writing
  <2> QED  BY <1>0, <1>1, <1>2, <2>1, <2>2, WrittenStays
<1>3. CASE /\ ResponseReady /\ request.kind = "size"
           /\ pending.data.len >= SizeBytes
           /\ fileSize' = pending.data.size
           /\ workerPc' = "openFile"
  <2>1. Genuine(pending.data) /\ pending.data.serial = request.serial
    BY <1>0, <1>1, <1>3, TakenFacts DEF Names, SizeBytes, Data
  <2>2. /\ pending.data.index = job[2] /\ pending.data.gen \in Batches
        /\ pending.data.size = Listings[pending.data.gen][pending.data.index].size
        /\ job[1] <= pending.data.gen /\ pending.data.gen <= serverGen
    BY <1>0, <1>3, <2>1 DEF Genuine, PayloadInv
  <2>3. job[1] \in Nat
    BY <1>0, <1>1, InHandFacts, FileFacts, ValueTypes DEF Busy
  <2>4. serverGen = job[1] => pending.data.gen = job[1]
    BY <2>2, <2>3, ValueTypes
  <2>5. serverGen' = job'[1] => fileSize' = EntryOf(job)'.size
    BY <1>1, <1>3, <2>2, <2>4 DEF EntryOf
  <2> QED  BY <1>3, <2>5 DEF WrittenInv, Writing, Asking
<1>4. CASE /\ ResponseReady /\ request.kind = "range"
           /\ pending.data.len = request.len
           /\ chunk' = pending.data
           /\ UNCHANGED fileSize
           /\ workerPc' = "writeChunk"
  <2>1. request.len > 0 /\ Names(pending.data)
    BY <1>0, <1>4 DEF WorkerInv, Names
  <2>2. Genuine(pending.data) /\ pending.data.serial = request.serial
    BY <1>1, <1>4, <2>1, TakenFacts
  <2>3. Genuine(chunk)'
    BY <1>0, <1>1, <1>4, <2>2 DEF Genuine
  <2>4. Writing /\ Writing'
    BY <1>1, <1>4 DEF Writing
  <2>5. RangesOf(job, disk[job].chunks)' <=> RangesOf(job, disk[job].chunks)
    BY <1>1 DEF RangesOf, Contiguous
  <2>6. End(disk[job].chunks)' = End(disk[job].chunks) /\ EntryOf(job)' = EntryOf(job)
    BY <1>1 DEF End, EntryOf
  <2> QED  BY <1>0, <1>1, <1>4, <2>2, <2>3, <2>4, <2>5, <2>6 DEF WrittenInv
<1> QED  BY <1>1, <1>2, <1>3, <1>4 DEF AwaitResponse

LEMMA OpenWrites ==
    ASSUME SavedInv, WrittenInv, OpenFile
    PROVE  WrittenInv'
<1>0. job \in Files /\ disk \in [Files -> LocalFile] /\ fileSize \in Nat
  BY DEF SavedInv, BatchInv, IndInv, TypeOK, WorkerTypes, BatchTypes, WorkerInv,
     OpenFile, Busy
<1>1. CASE workerPc' = "jobDone"
  BY <1>1, NothingWritten
<1>2. CASE /\ disk' = [disk EXCEPT ![job] = [Absent EXCEPT !.state = "partial"]]
           /\ workerPc' = "nextRange"
  <2>1. disk'[job].chunks = <<>>
    BY <1>0, <1>2 DEF Absent
  <2>2. UNCHANGED <<job, fileSize, serverGen>> /\ offset' = 0
    BY DEF OpenFile, peerVars
  <2>3. RangesOf(job, disk[job].chunks)' /\ End(disk[job].chunks)' = 0
    BY <2>1, <2>2 DEF RangesOf, Contiguous, End
  <2>4. serverGen' = job'[1] => fileSize' = EntryOf(job)'.size
    BY <2>2 DEF WrittenInv, OpenFile, EntryOf
  <2> QED  BY <1>0, <1>2, <2>2, <2>3, <2>4 DEF WrittenInv, Writing, Asking
<1> QED  BY <1>1, <1>2 DEF OpenFile

LEMMA ChunkWrites ==
    ASSUME SavedInv, WrittenInv, WriteChunk
    PROVE  WrittenInv'
<1>0. /\ job \in Files /\ disk \in [Files -> LocalFile] /\ chunk \in Data
      /\ offset \in Nat /\ fileSize \in Nat /\ request.kind = "range"
      /\ DiskInv /\ PayloadInv /\ workerPc = "writeChunk"
  BY DEF SavedInv, BatchInv, IndInv, TypeOK, WorkerTypes, BatchTypes, WorkerInv,
     WriteChunk, Busy, DiskInv
<1>1. UNCHANGED <<job, request, fileSize, chunk, serverGen>>
  BY DEF WriteChunk, peerVars
<1>2. Writing /\ Asking
  BY <1>0 DEF Writing, Asking
<1>3. CASE workerPc' = "abandon" /\ UNCHANGED <<disk, offset>>
  <2>1. [Next]_vars /\ ~AskSize /\ ~AskRange
    BY <1>0 DEF Next, Worker, AskSize, AskRange
  <2> QED  BY <1>1, <1>2, <1>3, <2>1, WrittenStays
<1>4. CASE /\ disk' = [disk EXCEPT ![job].chunks = Append(@, chunk)]
           /\ offset' = offset + chunk.len
           /\ workerPc' = "nextRange"
  <2> DEFINE c == disk[job].chunks
  <2>1. c \in Seq(Data) /\ disk[job] \in LocalFile
    BY <1>0 DEF LocalFile
  <2>2. disk'[job].chunks = Append(c, chunk)
    BY <1>0, <1>4, <2>1 DEF LocalFile
  <2>3. /\ RangesOf(job, c) /\ End(c) = offset
        /\ request.off = offset /\ request.off + request.len <= fileSize
        /\ chunk.serial = request.serial /\ Genuine(chunk) /\ chunk.len = request.len
        /\ serverGen = job[1] => fileSize = EntryOf(job).size
    BY <1>0, <1>2 DEF WrittenInv
  <2>4. /\ chunk.index = job[2] /\ chunk.off = offset
        /\ job[1] <= chunk.gen /\ chunk.gen <= serverGen
    BY <1>0, <1>2, <2>3 DEF Genuine, PayloadInv
  <2> HIDE DEF c
  <2>5. Contiguous(Append(c, chunk)) /\ End(Append(c, chunk)) = offset + chunk.len
    BY <1>0, <2>1, <2>3, <2>4, AppendRange DEF RangesOf
  <2>6. \A i \in DOMAIN Append(c, chunk) :
           Append(c, chunk)[i] = chunk
           \/ (i \in DOMAIN c /\ Append(c, chunk)[i] = c[i])
    BY <1>0, <2>1
  <2>7. RangesOf(job, Append(c, chunk))
    BY <2>3, <2>4, <2>5, <2>6 DEF RangesOf
  <2>8. RangesOf(job, disk[job].chunks)'
    BY <1>1, <2>2, <2>7 DEF RangesOf, Contiguous
  <2>9. End(disk[job].chunks)' = offset' /\ offset' <= fileSize'
    <3>1. End(disk[job].chunks)' = End(Append(c, chunk))
      BY <1>1, <2>2 DEF End
    <3> QED  BY <1>0, <1>1, <1>4, <2>3, <2>5, <3>1
  <2>10. serverGen' = job'[1] => fileSize' = EntryOf(job)'.size
    BY <1>1, <2>3 DEF EntryOf
  <2> QED  BY <1>4, <2>8, <2>9, <2>10 DEF WrittenInv, Writing, Asking
<1> QED  BY <1>3, <1>4 DEF WriteChunk

LEMMA RangeWrites ==
    ASSUME SavedInv, WrittenInv, AskRange
    PROVE  WrittenInv'
<1>0. offset \in Nat /\ fileSize \in Nat
  BY DEF SavedInv, BatchInv, IndInv, TypeOK, WorkerTypes
<1>1. /\ UNCHANGED <<disk, offset, fileSize, job, serverGen>>
      /\ workerPc' = "send" /\ offset < fileSize
      /\ request'.kind = "range" /\ request'.off = offset
      /\ request'.len = Smaller(ChunkSize, fileSize - offset)
  BY DEF AskRange, NewRequest, peerVars
<1>2. Writing /\ Writing'
  BY <1>1 DEF AskRange, Writing
<1>3. request'.off + request'.len <= fileSize
  BY <1>0, <1>1, SizesAssumption DEF Smaller
<1>4. RangesOf(job, disk[job].chunks)' <=> RangesOf(job, disk[job].chunks)
  BY <1>1 DEF RangesOf, Contiguous
<1>5. End(disk[job].chunks)' = End(disk[job].chunks) /\ EntryOf(job)' = EntryOf(job)
  BY <1>1 DEF End, EntryOf
<1> QED  BY <1>1, <1>2, <1>3, <1>4, <1>5 DEF WrittenInv

\* Every step keeps the ranges in a row and of one list.
LEMMA WrittenStep ==
    ASSUME SavedInv, [Next]_vars, requests < IdMod, WrittenInv
    PROVE  WrittenInv'
<1>0. TypeOK
  BY DEF SavedInv, BatchInv, IndInv
<1>1. CASE TakeJob \/ FinishJob \/ SaveFile \/ AbandonFile
  BY <1>1, NothingWritten DEF TakeJob, FinishJob, SaveFile, AbandonFile
<1>2. CASE AskSize
  BY <1>2 DEF AskSize, NewRequest, WrittenInv, Writing, Asking
<1>3. CASE SendRequest \/ SendFailed
  <2>1. /\ ~AskSize /\ ~AskRange
        /\ UNCHANGED <<disk, offset, fileSize, chunk, job, request>>
    BY <1>3 DEF SendRequest, SendFailed, AskSize, AskRange, workerLocals
  <2>2. /\ Writing' => Writing
        /\ workerPc' \notin {"openFile", "writeChunk"}
    BY <1>3, <2>1 DEF SendRequest, SendFailed, Writing
  <2> QED  BY <2>1, <2>2, WrittenStays
<1>4. CASE ReceiveFileList
  <2>1. /\ UNCHANGED <<disk, request, job, offset, fileSize, chunk>>
        /\ workerPc' = workerPc \/ workerPc' = "take"
    BY <1>0, <1>4, ReceiveFacts DEF ReceiveFileList, workerLocals
  <2>2. CASE workerPc' = "take"
    BY <2>2, NothingWritten
  <2>3. CASE workerPc' = workerPc
    <3>1. ~AskSize /\ ~AskRange
      <4>1. requests \in Nat /\ UNCHANGED requests
        BY <1>0, <1>4 DEF TypeOK, WorkerTypes, ReceiveFileList
      <4> QED  BY <4>1 DEF AskSize, AskRange, NewRequest
    <3>2. Writing' => Writing
      BY <2>1, <2>3 DEF Writing
    <3> QED  BY <2>1, <2>3, <3>1, <3>2, WrittenStays
  <2> QED  BY <2>1, <2>2, <2>3
<1>5. CASE \/ Server \/ ReceiveEmptyList \/ ReceiveContents \/ ApplyPublished
           \/ Shutdown \/ UNCHANGED vars
  <2>1. UNCHANGED <<disk, offset, fileSize, chunk, job, request, requests>>
    BY <1>5 DEF Server, ServerCopy, ServerAnswer, ReceiveEmptyList, ReceiveContents,
       ApplyPublished, Shutdown, Quit, Disconnect, FreeChannel, MainReturns,
       DestroyEntry, JoinWorker, shutdownUnchanged, workerLocals, vars
  <2>2. ~AskSize /\ ~AskRange
    <3>1. requests \in Nat
      BY <1>0 DEF TypeOK, WorkerTypes
    <3> QED  BY <2>1, <3>1 DEF AskSize, AskRange, NewRequest
  <2>3. /\ workerPc' = workerPc
           \/ (workerPc = "sleepResponse" /\ workerPc' = "wait")
           \/ (workerPc = "sleepJobs" /\ workerPc' = "take")
    BY <1>5 DEF Server, ServerCopy, ServerAnswer, ReceiveEmptyList, ReceiveContents,
       ApplyPublished, Shutdown, Quit, Disconnect, FreeChannel, MainReturns,
       DestroyEntry, JoinWorker, NotifyJobs, NotifyResponse, vars
  <2>4. /\ Writing' => Writing
        /\ workerPc' = "openFile" => workerPc = "openFile"
        /\ workerPc' = "writeChunk" => workerPc = "writeChunk"
    BY <2>1, <2>3 DEF Writing
  <2> QED  BY <2>1, <2>2, <2>4, WrittenStays
<1> QED  BY <1>1, <1>2, <1>3, <1>4, <1>5, AwaitWrites, OpenWrites, ChunkWrites,
         RangeWrites DEF Next, Channel, Worker, Finished

\* A file is kept when the ranges have come to its end, and not changed then.
LEMMA SavedStep == SavedInv /\ [Next]_vars => SavedFileFaithful'
<1> SUFFICES ASSUME SavedInv, [Next]_vars, requests' < IdMod, NEW f \in Files,
                    disk'[f].state = "saved"
             PROVE  LET c == disk'[f].chunks
                    IN /\ Contiguous(c) /\ \A i \in DOMAIN c : c[i].index = f[2]
                       /\ disk'[f].savedAt = f[1] =>
                             /\ \A i \in DOMAIN c : c[i].gen = f[1]
                             /\ End(c) = EntryOf(f).size
  BY DEF SavedFileFaithful, Contiguous, End, EntryOf
<1>0. /\ TypeOK /\ WorkerInv /\ OrderInv /\ JobsInv /\ DiskInv /\ ListsInv
      /\ disk \in [Files -> LocalFile] /\ requests \in Nat
  BY DEF SavedInv, BatchInv, IndInv, TypeOK, WorkerTypes, BatchTypes
<1>1. requests < IdMod
  <2>1. CASE AskSize \/ AskRange
    BY <1>0, <2>1, SizesAssumption DEF AskSize, AskRange, NewRequest
  <2>2. CASE ~AskSize /\ ~AskRange
    BY <1>0, <2>2, SteadyFacts
  <2> QED  BY <2>1, <2>2
<1>2. CASE disk'[f] = disk[f]
  BY <1>1, <1>2 DEF SavedInv, SavedFileFaithful
<1>3. CASE SaveFile /\ f = job
  <2> DEFINE c == disk[f].chunks
  <2>1. /\ disk'[f].chunks = c /\ disk'[f].savedAt = serverGen
        /\ c \in Seq(Data) /\ Writing /\ Busy
    BY <1>0, <1>3 DEF SaveFile, LocalFile, Writing, Busy
  <2>2. /\ RangesOf(f, c) /\ End(c) = offset /\ offset <= fileSize
        /\ serverGen = f[1] => fileSize = EntryOf(f).size
    BY <1>1, <1>3, <2>1 DEF SavedInv, WrittenInv
  <2>3. /\ offset >= fileSize /\ offset \in Nat /\ fileSize \in Nat
        /\ serverGen \in Nat /\ f[1] \in Nat
    BY <1>0, <1>3, FileFacts, ValueTypes
       DEF SaveFile, TypeOK, WorkerTypes, ChannelTypes
  <2>4. \A i \in DOMAIN c : c[i].gen \in Nat
    BY <2>1, RangeTypes
  <2> HIDE DEF c
  <2>5. End(c) = fileSize
    BY <2>2, <2>3
  <2>6. serverGen = f[1] => \A i \in DOMAIN c : c[i].gen = f[1]
    BY <2>2, <2>3, <2>4 DEF RangesOf
  <2> QED  BY <2>1, <2>2, <2>5, <2>6 DEF RangesOf
<1>4. CASE disk'[f] # disk[f] /\ ~(SaveFile /\ f = job)
  <2>1. OpenFile \/ WriteChunk \/ SaveFile \/ AbandonFile
    BY <1>0, <1>4, ReceiveFacts
       DEF Next, Server, ServerCopy, ServerAnswer, Channel, ReceiveEmptyList,
       ReceiveContents, Worker, TakeJob, AskSize, AskRange, NewRequest, SendRequest,
       SendFailed, AwaitResponse, FinishJob, ApplyPublished, Shutdown, Quit,
       Disconnect, FreeChannel, MainReturns, DestroyEntry, JoinWorker,
       shutdownUnchanged, Finished, vars
  <2>2. job \in Files /\ f = job /\ ~SaveFile
    BY <1>0, <1>4, <2>1 DEF OpenFile, WriteChunk, SaveFile, AbandonFile
  <2>3. disk[job].state # "saved"
    BY <1>0, <2>1 DEF OpenFile, WriteChunk, SaveFile, AbandonFile, DiskInv, Busy
  <2>4. disk'[job].state # "saved"
    <3>1. CASE OpenFile
      BY <1>0, <2>2, <2>3, <3>1 DEF OpenFile, Absent
    <3>2. CASE WriteChunk
      <4>1. disk[job] \in LocalFile
        BY <1>0, <2>2
      <4> QED  BY <1>0, <2>2, <2>3, <3>2, <4>1 DEF WriteChunk, LocalFile
    <3>3. CASE AbandonFile
      BY <1>0, <2>2, <2>3, <3>3 DEF AbandonFile, Absent
    <3> QED  BY <2>1, <2>2, <3>1, <3>2, <3>3
  <2> QED  BY <2>2, <2>4
<1> QED  BY <1>2, <1>3, <1>4

LEMMA InitSaved == Init => SavedInv
<1> SUFFICES ASSUME Init PROVE SavedInv
  OBVIOUS
<1>1. PayloadInv
  BY ValueTypes DEF Init, PayloadInv, Kept, NoPending, Asking
<1>2. WrittenInv /\ SavedFileFaithful
  BY DEF Init, WrittenInv, Writing, Asking, SavedFileFaithful, Absent
<1> QED  BY <1>1, <1>2, BatchInit DEF SavedInv

\* What the invariant says of a download holds throughout.
THEOREM SavedInvariance == Spec => []SavedInv
<1>1. SavedInv /\ [Next]_vars => SavedInv'
  <2> SUFFICES ASSUME SavedInv, [Next]_vars PROVE SavedInv'
    OBVIOUS
  <2>1. BatchInv'
    BY BatchStep DEF SavedInv
  <2>2. requests' < IdMod => WrittenInv'
    <3>1. requests' >= requests /\ requests \in Nat /\ requests' \in Nat
      <4>0. TypeOK /\ requests \in Nat
        BY DEF SavedInv, BatchInv, IndInv, TypeOK, WorkerTypes
      <4>1. CASE AskSize \/ AskRange
        BY <4>0, <4>1 DEF AskSize, AskRange, NewRequest
      <4>2. CASE ~AskSize /\ ~AskRange
        BY <4>0, <4>2, SteadyFacts
      <4> QED  BY <4>1, <4>2
    <3>2. requests' < IdMod => requests < IdMod
      BY <3>1, SizesAssumption
    <3> QED  BY <3>2, WrittenStep DEF SavedInv
  <2>3. (requests < IdMod => WrittenInv)'
    BY <2>2, SizesAssumption
  <2> QED  BY <2>1, <2>3, PayloadStep, SavedStep DEF SavedInv
<1> QED  BY <1>1, InitSaved, PTL DEF Spec

\* A file that is kept is, to the last byte and from the first, the entry that the
\* server announced, unless the server has copied something else in the meantime:
\* ranges are asked for one after the other and taken only at their full length
\* (download_remote_file), and an answer never for another's.
THEOREM SavedFaithfully == Spec => []SavedFileFaithful
<1>1. SavedInv => SavedFileFaithful
  BY DEF SavedInv
<1> QED  BY <1>1, SavedInvariance, PTL

=============================================================================
