--------------------------- MODULE ChannelHandler ---------------------------
(***************************************************************************)
(* qf_channel_client_handler.c: the chunks of a virtual channel are put    *)
(* together on the RDP thread (channel_client_post_message) and the        *)
(* resulting PDUs handled, in order, on a thread of the channel's own      *)
(* (channel_client_thread_proc), until the RDP thread shuts that thread    *)
(* down (channel_client_quit_handler).                                     *)
(*                                                                         *)
(* A stream is a record of its own number, its capacity and the bytes      *)
(* written to it; byte <<m, k>> is the k-th byte of the server's m-th PDU. *)
(***************************************************************************)
EXTENDS Integers, Sequences, FiniteSets

CONSTANTS
    Lengths,     \* Lengths[m] is the number of bytes of the m-th PDU
    Fails,       \* PDUs whose handler frees the stream and returns an error
    Malformed,   \* PDUs whose handler returns an error before it frees it
    MaxAbandoned, \* bound: PDUs the server leaves unfinished
    MaxFailures   \* bound: allocations and waits that fail

Pdus == DOMAIN Lengths

ASSUME PdusAssumption ==
    /\ Lengths \in Seq(Nat \ {0})
    /\ Fails \subseteq Pdus /\ Malformed \subseteq Pdus
    /\ MaxAbandoned \in Nat /\ MaxFailures \in Nat

VARIABLES
    pdu,           \* the PDU the server is sending
    part,          \* how many bytes of it have been sent
    unfinished,    \* the PDUs it has left unfinished
    dataIn,        \* internals->data_in, or NoStream
    queue,         \* internals->queue: streams and Quit
    streams,       \* how many streams have been made
    frees,         \* how often each stream has been freed
    leaked,        \* streams dropped without being freed
    threadPc,      \* the channel thread; "none" if threads are disabled
    current,       \* the stream it is handling
    handled,       \* the contents handed to msg_handler, in order
    channelError,  \* setChannelError has been called
    rdpPc,         \* the RDP thread
    failures       \* allocations and waits that have failed

sender == <<pdu, part, unfinished>>
threadVars == <<threadPc, current>>
vars == <<sender, dataIn, queue, streams, frees, leaked, threadVars, handled,
          channelError, rdpPc, failures>>

\* THREADING_FLAGS_DISABLE_THREADS is not set.
Threaded == threadPc # "none"

NoStream == [id |-> 0, capacity |-> 0, bytes |-> <<>>]
Quit == [id |-> -1, capacity |-> 0, bytes |-> <<>>]

Init ==
    /\ pdu = 1 /\ part = 0 /\ unfinished = {}
    /\ dataIn = NoStream
    /\ queue = <<>>
    /\ streams = 0 /\ frees = [id \in Pdus |-> 0] /\ leaked = {}
    /\ threadPc \in {"run", "none"}
    /\ current = NoStream
    /\ handled = <<>>
    /\ channelError = FALSE
    /\ rdpPc = "loop"
    /\ failures = 0

-----------------------------------------------------------------------------
(* channel_client_post_message, called on the RDP thread by                 *)
(* cliprdr_virtual_channel_open_event_ex, which reports what it returns.    *)

First == part = 0
Last(n) == part + n = Lengths[pdu]

\* The server sends the next n bytes of its current PDU.
Arrives(n) ==
    /\ rdpPc = "loop"
    /\ pdu \in Pdus
    /\ n \in 1..(Lengths[pdu] - part)
    /\ pdu' = IF Last(n) THEN pdu + 1 ELSE pdu
    /\ part' = IF Last(n) THEN 0 ELSE part + n
    /\ UNCHANGED unfinished

AllocationFails ==
    /\ failures < MaxFailures
    /\ failures' = failures + 1
    /\ channelError' = TRUE

\* The stream the chunk is written to.  A FIRST chunk finds none, or one left by
\* a PDU that was not finished, which is kept with all it holds.
Target ==
    IF First /\ dataIn = NoStream
    THEN [id |-> streams + 1, capacity |-> Lengths[pdu], bytes |-> <<>>]
    ELSE IF First /\ dataIn.capacity < Lengths[pdu]
    THEN [dataIn EXCEPT !.capacity = Lengths[pdu]]
    ELSE dataIn

\* Mutant: a stream is made for every chunk.
NewStreamPerChunk == streams' = streams + 1

\* Stream_New; there is one stream for a PDU at the most.
NewStream == streams' = IF Target.id > streams THEN Target.id ELSE streams

Fits(n) == Len(Target.bytes) + n <= Target.capacity

\* Stream_Write; a stream that has to grow may grow by more than it needs.
Written(n) ==
    LET bytes == Target.bytes \o [k \in 1..n |-> <<pdu, part + k>>]
    IN {[Target EXCEPT !.bytes = bytes, !.capacity = c] :
           c \in IF Fits(n) THEN {Target.capacity}
                            ELSE {Len(bytes), Len(bytes) + 1}}

\* Stream_New or Stream_EnsureCapacity fails for a FIRST chunk, or a later chunk
\* finds no stream because that happened before.
ChunkRefused(n) ==
    /\ Arrives(n)
    /\ \/ /\ First
          /\ dataIn = NoStream \/ dataIn.capacity < Lengths[pdu]
          /\ AllocationFails
       \/ /\ ~First /\ dataIn = NoStream
          /\ channelError' = TRUE
          /\ UNCHANGED failures
    /\ UNCHANGED <<dataIn, queue, streams, frees, leaked, threadVars, handled, rdpPc>>

\* Stream_EnsureRemainingCapacity fails: what has been collected is given up.
ChunkDropped(n) ==
    /\ Arrives(n)
    /\ Target # NoStream /\ ~Fits(n)
    /\ AllocationFails
    /\ NewStream
    /\ frees' = [frees EXCEPT ![Target.id] = @ + 1]
    /\ dataIn' = NoStream
    /\ UNCHANGED <<queue, leaked, threadVars, handled, rdpPc>>

ChunkStored(n) ==
    /\ Arrives(n)
    /\ Target # NoStream /\ ~Last(n)
    /\ NewStream
    /\ dataIn' \in Written(n)
    /\ UNCHANGED <<queue, frees, leaked, threadVars, handled, channelError,
                   rdpPc, failures>>

\* The last chunk does not fill the stream: an error, and the stream stays.
PduMismatch(n) ==
    /\ Arrives(n)
    /\ Target # NoStream /\ Last(n)
    /\ NewStream
    /\ \E s \in Written(n) : s.capacity # Len(s.bytes) /\ dataIn' = s
    /\ channelError' = TRUE
    /\ UNCHANGED <<queue, frees, leaked, threadVars, handled, rdpPc, failures>>

\* The PDU that some bytes begin with, whose header they are taken for, and
\* the one they end with.
No(bytes) == bytes[1][1]
LastNo(bytes) == bytes[Len(bytes)][1]

HandlerFails(stream) == No(stream.bytes) \in Fails \cup Malformed

\* Mutant: the stream of a failed PDU is freed by the caller as well.
HandlerFreesTwice(stream) ==
    /\ frees' = [frees EXCEPT ![stream.id] = @ + IF HandlerFails(stream) THEN 2 ELSE 1]
    /\ UNCHANGED leaked

\* cliprdr_order_recv frees its stream, except where it returns early.
HandlerFrees(stream) ==
    IF No(stream.bytes) \in Malformed
    THEN leaked' = leaked \cup {stream.id} /\ UNCHANGED frees
    ELSE frees' = [frees EXCEPT ![stream.id] = @ + 1] /\ UNCHANGED leaked

\* The PDU is complete: it is queued, or handled on the spot.
PduComplete(n) ==
    /\ Arrives(n)
    /\ Target # NoStream /\ Last(n)
    /\ NewStream
    /\ dataIn' = NoStream
    /\ \E s \in Written(n) :
          /\ s.capacity = Len(s.bytes)
          /\ \/ /\ Threaded
                /\ queue' = Append(queue, s)
                /\ UNCHANGED <<frees, leaked, handled, channelError, failures>>
             \/ /\ Threaded
                /\ AllocationFails
                /\ leaked' = leaked \cup {s.id}
                /\ UNCHANGED <<queue, frees, handled>>
             \/ /\ ~Threaded
                /\ handled' = Append(handled, s.bytes)
                /\ HandlerFrees(s)
                /\ channelError' = (channelError \/ HandlerFails(s))
                /\ UNCHANGED <<queue, failures>>
    /\ UNCHANGED <<threadVars, rdpPc>>

Chunk(n) == ChunkRefused(n) \/ ChunkDropped(n) \/ ChunkStored(n)
            \/ PduMismatch(n) \/ PduComplete(n)

\* The server leaves its PDU unfinished.
Abandon ==
    /\ Cardinality(unfinished) < MaxAbandoned
    /\ rdpPc = "loop" /\ pdu \in Pdus /\ part > 0
    /\ pdu' = pdu + 1 /\ part' = 0 /\ unfinished' = unfinished \cup {pdu}
    /\ UNCHANGED <<dataIn, queue, streams, frees, leaked, threadVars, handled,
                   channelError, rdpPc, failures>>

-----------------------------------------------------------------------------
(* channel_client_thread_proc.                                              *)

\* Mutant: the newest message is taken.
TakeNewest ==
    /\ threadPc = "run" /\ rdpPc # "freed"
    /\ queue # <<>>
    /\ queue' = SubSeq(queue, 1, Len(queue) - 1)
    /\ IF queue[Len(queue)] = Quit
       THEN threadPc' = "exited" /\ UNCHANGED current
       ELSE threadPc' = "handle" /\ current' = queue[Len(queue)]
    /\ UNCHANGED <<sender, dataIn, streams, frees, leaked, handled,
                   channelError, rdpPc, failures>>

\* Mutant: the loop does not end at WMQ_QUIT, which stays in the queue.
TakeAnyMessage ==
    /\ threadPc = "run" /\ rdpPc # "freed"
    /\ queue # <<>>
    /\ IF Head(queue) = Quit
       THEN UNCHANGED <<queue, threadPc, current>>
       ELSE threadPc' = "handle" /\ current' = Head(queue) /\ queue' = Tail(queue)
    /\ UNCHANGED <<sender, dataIn, streams, frees, leaked, handled,
                   channelError, rdpPc, failures>>

\* MessageQueue_Wait and MessageQueue_Peek.
TakeMessage ==
    /\ threadPc = "run" /\ rdpPc # "freed"
    /\ queue # <<>>
    /\ queue' = Tail(queue)
    /\ IF Head(queue) = Quit
       THEN threadPc' = "exited" /\ UNCHANGED current
       ELSE threadPc' = "handle" /\ current' = Head(queue)
    /\ UNCHANGED <<sender, dataIn, streams, frees, leaked, handled,
                   channelError, rdpPc, failures>>

\* Mutant: the loop goes on after an error.
HandleMessageGoesOn ==
    /\ threadPc = "handle"
    /\ handled' = Append(handled, current.bytes)
    /\ HandlerFrees(current)
    /\ current' = NoStream
    /\ threadPc' = "run"
    /\ UNCHANGED <<sender, dataIn, queue, streams, channelError, rdpPc, failures>>

HandleMessage ==
    /\ threadPc = "handle"
    /\ handled' = Append(handled, current.bytes)
    /\ HandlerFrees(current)
    /\ current' = NoStream
    /\ threadPc' = IF HandlerFails(current) THEN "failed" ELSE "run"
    /\ UNCHANGED <<sender, dataIn, queue, streams, channelError, rdpPc, failures>>

\* Mutant: the error is not reported.
ReportNothing ==
    /\ threadPc = "failed"
    /\ threadPc' = "exited"
    /\ UNCHANGED <<sender, dataIn, queue, streams, frees, leaked, current,
                   handled, channelError, rdpPc, failures>>

\* The loop was left with an error, which ends the session.
ReportError ==
    /\ threadPc = "failed"
    /\ channelError' = TRUE
    /\ threadPc' = "exited"
    /\ UNCHANGED <<sender, dataIn, queue, streams, frees, leaked, current,
                   handled, rdpPc, failures>>

\* internals was freed under the thread; anything may follow.
UseAfterFree ==
    /\ rdpPc = "freed"
    /\ threadPc \in {"run", "handle", "failed"}
    /\ threadPc' = "crashed"
    /\ UNCHANGED <<sender, dataIn, queue, streams, frees, leaked, current,
                   handled, channelError, rdpPc, failures>>

-----------------------------------------------------------------------------
(* channel_client_quit_handler, called when the session is disconnected.    *)

\* How many messages of the queue are that stream.
Queued(id) == Cardinality({i \in DOMAIN queue : queue[i].id = id})

\* channel_client_handler_free frees the streams that the queue and data_in
\* still hold; the message WMQ_QUIT is none.
FreeHandler ==
    /\ frees' = [id \in DOMAIN frees |->
                    frees[id] + Queued(id) + IF dataIn.id = id THEN 1 ELSE 0]
    /\ queue' = <<>>
    /\ dataIn' = NoStream
    /\ rdpPc' = "freed"

\* Mutant: the request to quit overtakes the PDUs that are queued.
DisconnectAtOnce ==
    /\ rdpPc = "loop"
    /\ queue' = <<Quit>> \o queue
    /\ rdpPc' = "join"
    /\ UNCHANGED <<sender, dataIn, streams, frees, leaked, threadVars, handled,
                   channelError, failures>>

\* The session ends, by a channel error or otherwise: the thread is told to
\* quit and waited for, unless the message cannot be posted.
Disconnect ==
    /\ rdpPc = "loop"
    /\ \/ /\ Threaded
          /\ queue' = Append(queue, Quit)
          /\ rdpPc' = "join"
          /\ UNCHANGED <<dataIn, frees, channelError, failures>>
       \/ /\ Threaded
          /\ failures < MaxFailures
          /\ failures' = failures + 1
          /\ FreeHandler
          /\ UNCHANGED channelError
       \/ /\ ~Threaded
          /\ FreeHandler
          /\ UNCHANGED <<channelError, failures>>
    /\ UNCHANGED <<sender, streams, leaked, threadVars, handled>>

\* Mutant: the handler is freed without waiting for the thread.
JoinNobody ==
    /\ rdpPc = "join"
    /\ FreeHandler
    /\ UNCHANGED <<sender, streams, leaked, threadVars, handled,
                   channelError, failures>>

\* WaitForSingleObject returns when the thread has ended.
Join ==
    /\ rdpPc = "join"
    /\ threadPc = "exited"
    /\ FreeHandler
    /\ UNCHANGED <<sender, streams, leaked, threadVars, handled,
                   channelError, failures>>

\* WAIT_FAILED: the handler stays as it is, and the thread with it.
WaitFails ==
    /\ rdpPc = "join"
    /\ failures < MaxFailures
    /\ failures' = failures + 1
    /\ rdpPc' = "left"
    /\ UNCHANGED <<sender, dataIn, queue, streams, frees, leaked, threadVars,
                   handled, channelError>>

Finished ==
    /\ rdpPc \in {"freed", "left"}
    /\ threadPc \in {"none", "exited", "crashed"}
    /\ UNCHANGED vars

Thread == TakeMessage \/ HandleMessage \/ ReportError \/ UseAfterFree
Receive == \E n \in 1..(IF pdu \in Pdus THEN Lengths[pdu] ELSE 0) : Chunk(n)

Next == Receive \/ Abandon \/ Thread \/ Disconnect \/ Join \/ WaitFails \/ Finished

Spec == Init /\ [][Next]_vars

\* The thread runs; the RDP loop notices a channel error and disconnects, and
\* its wait for the thread returns when it can.
Fairness ==
    /\ WF_vars(Thread)
    /\ WF_vars(channelError /\ Disconnect)
    /\ WF_vars(Join)

FairSpec == Spec /\ Fairness

-----------------------------------------------------------------------------
(* Properties.                                                              *)

Bytes == Seq(Nat \X Nat)
Stream == [id : Int, capacity : Nat, bytes : Bytes]

\* Every variable has its type.
TypeOK ==
    /\ pdu \in Nat /\ part \in Nat /\ unfinished \subseteq Pdus
    /\ dataIn \in Stream /\ current \in Stream
    /\ queue \in Seq(Stream)
    /\ streams \in 0..Len(Lengths)
    /\ frees \in [Pdus -> Nat] /\ leaked \subseteq 1..streams
    /\ threadPc \in {"none", "run", "handle", "failed", "exited", "crashed"}
    /\ handled \in Seq(Bytes)
    /\ channelError \in BOOLEAN
    /\ rdpPc \in {"loop", "join", "freed", "left"}
    /\ failures \in 0..MaxFailures

Whole(m) == [k \in 1..Lengths[m] |-> <<m, k>>]

\* Two bytes that follow each other in a stream: of one PDU with none left out,
\* or of two PDUs in the order they were sent.
Follows(a, b) == b = <<a[1], a[2] + 1>> \/ a[1] < b[1]

\* From the first byte of a PDU to the last byte of one, in the order sent.
InOrder(bytes) ==
    /\ bytes[1] = <<No(bytes), 1>>
    /\ bytes[Len(bytes)] = <<LastNo(bytes), Lengths[LastNo(bytes)]>>
    /\ \A k \in 1..(Len(bytes) - 1) : Follows(bytes[k], bytes[k + 1])

\* However the server cuts its PDUs, whichever it leaves unfinished and whatever
\* fails, each thing that reaches msg_handler is one whole PDU, unless the PDU
\* it begins with was left unfinished: then the stream was not reset when the
\* next one began (channel_client_post_message), and bytes of that one follow,
\* in the order sent.  No PDU reaches msg_handler twice or behind a later one.
\* None is missing while nothing was left unfinished and no error was reported,
\* and nothing more is handled by the thread after what failed.
HandledExactly ==
    /\ \A i \in DOMAIN handled :
          /\ InOrder(handled[i])
          /\ handled[i] = Whole(No(handled[i])) \/ No(handled[i]) \in unfinished
          /\ i > 1 => LastNo(handled[i - 1]) < No(handled[i])
    /\ unfinished = {} /\ ~channelError =>
          \A i \in DOMAIN handled : handled[i] = Whole(i)
    /\ Threaded => \A i \in 1..(Len(handled) - 1) :
                      No(handled[i]) \notin Fails \cup Malformed

\* A stream is freed once at the most, and not while data_in, the queue or the
\* handler still refers to it; and when the thread is gone nothing is left behind
\* but the streams that were never handed on (queue full) or that the handler
\* did not free.
FreedExactlyOnce ==
    /\ \A id \in 1..streams :
          /\ frees[id] <= 1
          /\ frees[id] = 1 =>
                /\ id \notin leaked \cup {dataIn.id, current.id}
                /\ \A j \in DOMAIN queue : queue[j].id # id
          /\ rdpPc = "freed" /\ threadPc \in {"none", "exited"} =>
                frees[id] = 1 \/ id \in leaked

\* internals outlives the thread that uses it, unless the request to quit could
\* not even be posted.
OutlivesThread == threadPc = "crashed" => failures > 0

\* A PDU that failed ends the session: the handler is torn down.
FailureEndsSession == threadPc = "failed" ~> rdpPc # "loop"

\* The wait in channel_client_quit_handler returns, after every PDU that was
\* queued before has been handled or one of them has failed.
QuitReturns == rdpPc = "join" ~> rdpPc # "join"

\* Every PDU that was queued is handled, unless one before it failed.
QueuedIsHandled ==
    \A m \in Pdus :
        (\E i \in DOMAIN queue : queue[i] # Quit /\ No(queue[i].bytes) = m) ~>
            \/ \E i \in DOMAIN handled : No(handled[i]) = m
            \/ \E i \in DOMAIN handled : No(handled[i]) \in Fails \cup Malformed
            \/ threadPc = "crashed"

=============================================================================
