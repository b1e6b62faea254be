------------------------ MODULE ChannelHandlerProofs ------------------------
(***************************************************************************)
(* What ChannelHandler's run shows of five short PDUs, for any number of   *)
(* PDUs of any lengths, whatever the server leaves unfinished and whatever *)
(* fails: PDUs are handled in order and once, and whole unless they were   *)
(* left unfinished, streams are freed once, and internals outlives its     *)
(* thread unless the request to quit could not be posted.                  *)
(***************************************************************************)
EXTENDS ChannelHandler, FiniteSetTheorems, TLAPS

-----------------------------------------------------------------------------
(* The inductive invariant.                                                 *)

ErrorType == channelError \in BOOLEAN

SenderInv ==
    /\ pdu \in Nat /\ part \in Nat /\ unfinished \subseteq Pdus
    /\ 0 < pdu /\ pdu <= Len(Lengths) + 1
    /\ part > 0 => pdu \in Pdus /\ part < Lengths[pdu]

ValueTypes ==
    /\ dataIn \in Stream /\ current \in Stream
    /\ queue \in Seq(Stream)
    /\ handled \in Seq(Bytes)
    /\ failures \in 0..MaxFailures

\* At most one stream is made for a PDU.
StreamsInv ==
    /\ streams \in Nat /\ streams <= pdu /\ (part = 0 => streams < pdu)
    /\ frees \in [Pdus -> Nat] /\ leaked \subseteq 1..streams

\* The two threads: the request to quit is posted once, and the RDP thread has
\* freed internals under the other only if it could not be posted.
ThreadsInv ==
    /\ threadPc \in {"none", "run", "handle", "failed", "exited", "crashed"}
    /\ rdpPc \in {"loop", "join", "freed", "left"}
    /\ ~Threaded => queue = <<>> /\ rdpPc \notin {"join", "left"}
    /\ rdpPc = "loop" => \A i \in DOMAIN queue : queue[i] # Quit
    /\ rdpPc = "freed" => queue = <<>> /\ dataIn = NoStream
    /\ rdpPc = "freed" => failures > 0 \/ threadPc \in {"none", "exited"}
    /\ threadPc = "crashed" => failures > 0

\* Nothing is posted after the request to quit.
QuitInv == \A i \in DOMAIN queue : queue[i] = Quit => i = Len(queue)

InQueue(id) == \E i \in DOMAIN queue : queue[i].id = id

\* A stream is in one place: data_in, the queue, the handler, freed or lost.
OnePlace(id) ==
    /\ dataIn.id = id => current.id # id /\ ~InQueue(id)
    /\ current.id = id => ~InQueue(id)
    /\ frees[id] = 0 \/ frees[id] = 1
    /\ frees[id] = 1 => id \notin leaked \cup {dataIn.id, current.id} /\ ~InQueue(id)
    /\ id \in leaked => id \notin {dataIn.id, current.id} /\ ~InQueue(id)
    /\ \/ id = dataIn.id \/ id = current.id \/ InQueue(id)
       \/ frees[id] = 1 \/ id \in leaked

\* Every stream that was made is in one place, and no place holds another.
OwnedInv ==
    /\ dataIn = NoStream \/ dataIn.id \in 1..streams
    /\ threadPc = "handle" => current # NoStream
    /\ threadPc \notin {"handle", "crashed"} => current = NoStream
    /\ current = NoStream \/ current.id \in 1..streams
    /\ \A i \in DOMAIN queue : queue[i] = Quit \/ queue[i].id \in 1..streams
    /\ \A i, j \in DOMAIN queue : queue[i].id = queue[j].id => i = j
    /\ \A id \in 1..streams : OnePlace(id)
    /\ \A id \in Pdus : id > streams => frees[id] = 0

\* Bytes of one stream, from the first one of a PDU, in the order they were sent.
Chain(bytes) ==
    /\ bytes \in Bytes /\ Len(bytes) \in Nat \ {0}
    /\ bytes[1] = <<No(bytes), 1>>
    /\ No(bytes) \in Pdus /\ LastNo(bytes) \in Pdus /\ No(bytes) <= LastNo(bytes)
    /\ \A k \in 1..(Len(bytes) - 1) : Follows(bytes[k], bytes[k + 1])

\* data_in holds the bytes that have come of the PDU that is being sent, or it
\* begins with a PDU that was left unfinished.
DataInv ==
    dataIn # NoStream =>
        /\ Chain(dataIn.bytes) /\ LastNo(dataIn.bytes) <= pdu
        /\ LastNo(dataIn.bytes) = pdu =>
              part > 0 /\ dataIn.bytes[Len(dataIn.bytes)] = <<pdu, part>>
        /\ \/ No(dataIn.bytes) \in unfinished
           \/ /\ part > 0 /\ dataIn.capacity = Lengths[pdu]
              /\ dataIn.bytes = [k \in 1..part |-> <<pdu, k>>]

\* Bytes that were put together before the next PDU: one whole PDU, or a mixture
\* that begins with one of those left unfinished.
Sent(bytes, next, left) ==
    /\ Chain(bytes) /\ LastNo(bytes) < next
    /\ bytes[Len(bytes)] = <<LastNo(bytes), Lengths[LastNo(bytes)]>>
    /\ bytes = Whole(No(bytes)) \/ No(bytes) \in left

Before(a, b) == LastNo(a) < No(b)

\* What is handled, being handled, queued and in data_in was sent in that order.
OrderInv ==
    /\ \A i \in DOMAIN handled : Sent(handled[i], pdu, unfinished)
    /\ threadPc = "handle" => Sent(current.bytes, pdu, unfinished)
    /\ \A i \in DOMAIN queue : queue[i] # Quit => Sent(queue[i].bytes, pdu, unfinished)
    /\ \A i, j \in DOMAIN handled : i < j => Before(handled[i], handled[j])
    /\ \A i \in DOMAIN handled :
          /\ threadPc = "handle" => Before(handled[i], current.bytes)
          /\ \A j \in DOMAIN queue :
                queue[j] # Quit => Before(handled[i], queue[j].bytes)
    /\ \A i, j \in DOMAIN queue :
          i < j /\ queue[i] # Quit /\ queue[j] # Quit =>
             Before(queue[i].bytes, queue[j].bytes)
    /\ threadPc = "handle" =>
          \A i \in DOMAIN queue :
             queue[i] # Quit => Before(current.bytes, queue[i].bytes)
    /\ dataIn # NoStream =>
          /\ \A i \in DOMAIN handled : Before(handled[i], dataIn.bytes)
          /\ threadPc = "handle" => Before(current.bytes, dataIn.bytes)
          /\ \A i \in DOMAIN queue :
                queue[i] # Quit => Before(queue[i].bytes, dataIn.bytes)

Taken == Len(handled) + IF threadPc = "handle" THEN 1 ELSE 0

\* None is missing while nothing has gone wrong.
CompleteInv ==
    unfinished = {} /\ ~channelError =>
    /\ \A i \in DOMAIN handled : handled[i] = Whole(i)
    /\ threadPc = "handle" => current.bytes = Whole(Len(handled) + 1)
    /\ \A i \in DOMAIN queue : queue[i] # Quit => queue[i].bytes = Whole(Taken + i)
    /\ rdpPc = "loop" => pdu = Taken + Len(queue) + 1

\* The thread stops at a PDU that fails.
FailureInv ==
    Threaded =>
    /\ \A i \in 1..(Len(handled) - 1) : No(handled[i]) \notin Fails \cup Malformed
    /\ threadPc \in {"run", "handle"} =>
          \A i \in DOMAIN handled : No(handled[i]) \notin Fails \cup Malformed

HandlerInv ==
    /\ ErrorType /\ SenderInv /\ ValueTypes /\ StreamsInv /\ ThreadsInv
    /\ QuitInv /\ OwnedInv /\ DataInv /\ OrderInv /\ CompleteInv /\ FailureInv

-----------------------------------------------------------------------------
(* Sequences and streams.                                                   *)

\* A message that is posted comes last; the others stay where they are.
LEMMA AppendFacts ==
    ASSUME NEW S, NEW s \in Seq(S), NEW e \in S
    PROVE  LET t == Append(s, e)
           IN  /\ t \in Seq(S) /\ Len(t) = Len(s) + 1 /\ Len(t) \in DOMAIN t
               /\ t[Len(t)] = e /\ Len(s) \in Nat
               /\ \A i \in DOMAIN t : \/ i \in DOMAIN s /\ t[i] = s[i] /\ i < Len(t)
                                      \/ i = Len(t) /\ t[i] = e
               /\ \A i \in DOMAIN s : i < Len(t) /\ i \in DOMAIN t /\ t[i] = s[i]
               /\ \A i \in DOMAIN t : i \in 1..Len(t)
               /\ \A i \in DOMAIN s : i \in 1..Len(s)
               /\ \A i, j \in DOMAIN t : i < j => i \in DOMAIN s /\ t[i] = s[i]
  OBVIOUS

\* When a message has been taken the others keep their order.
LEMMA TailFacts ==
    ASSUME NEW S, NEW s \in Seq(S), s # <<>>
    PROVE  LET t == Tail(s)
           IN  /\ t \in Seq(S) /\ Head(s) \in S /\ Len(t) = Len(s) - 1
               /\ Head(s) = s[1] /\ 1 \in DOMAIN s
               /\ \A i \in DOMAIN t : /\ i + 1 \in DOMAIN s /\ t[i] = s[i + 1]
                                      /\ 1 < i + 1 /\ i + 1 # 1 /\ i \in Nat
               /\ \A i \in DOMAIN s : i = 1 \/ \E j \in DOMAIN t : t[j] = s[i]
               /\ \A i, j \in DOMAIN t : i < j => i + 1 < j + 1
               /\ \A i, j \in DOMAIN t : i + 1 = j + 1 => i = j
<1> DEFINE t == Tail(s)
<1>1. /\ t \in Seq(S) /\ Head(s) \in S /\ Len(t) = Len(s) - 1
      /\ Head(s) = s[1] /\ 1 \in DOMAIN s
      /\ \A i \in DOMAIN t : /\ i + 1 \in DOMAIN s /\ t[i] = s[i + 1]
                             /\ 1 < i + 1 /\ i + 1 # 1 /\ i \in Nat
      /\ \A i, j \in DOMAIN t : i < j => i + 1 < j + 1
      /\ \A i, j \in DOMAIN t : i + 1 = j + 1 => i = j
  OBVIOUS
<1>2. \A i \in DOMAIN s : i = 1 \/ (i - 1 \in DOMAIN t /\ t[i - 1] = s[i])
  OBVIOUS
<1> HIDE DEF t
<1> QED  BY <1>1, <1>2 DEF t

\* The bytes of a chunk follow those that are there.
LEMMA ChunkBytes ==
    ASSUME NEW m \in Nat, NEW n \in Nat, NEW x \in Nat
    PROVE  [k \in 1..m |-> <<x, k>>] \o [k \in 1..n |-> <<x, m + k>>]
           = [k \in 1..(m + n) |-> <<x, k>>]
  OBVIOUS

\* Streams and their bytes.
LEMMA ByteFacts ==
    ASSUME NEW bytes \in Bytes, NEW x \in Nat, NEW m \in Nat, NEW n \in Nat
    PROVE  bytes \o [k \in 1..n |-> <<x, m + k>>] \in Bytes
  BY DEF Bytes

\* NoStream and Quit are told from the streams by their numbers.
LEMMA StreamFacts ==
    /\ NoStream \in Stream /\ NoStream.id = 0 /\ Quit \in Stream /\ Quit.id = -1
    /\ NoStream # Quit
  BY DEF NoStream, Quit, Stream, Bytes

\* A whole PDU begins and ends with bytes of its own.
LEMMA WholeFacts ==
    ASSUME NEW m \in Pdus
    PROVE  /\ m \in Nat /\ Lengths[m] \in Nat /\ Lengths[m] >= 1
           /\ No(Whole(m)) = m
           /\ Whole(m)[Len(Whole(m))][1] = m
           /\ Len(Whole(m)) = Lengths[m]
<1>1. m \in Nat /\ Lengths[m] \in Nat /\ Lengths[m] >= 1
  BY PdusAssumption DEF Pdus
<1>2. Len(Whole(m)) = Lengths[m] /\ 1 \in 1..Lengths[m] /\ Lengths[m] \in 1..Lengths[m]
  BY <1>1 DEF Whole
<1> QED  BY <1>1, <1>2 DEF No, Whole

\* The server's place in its PDUs.
LEMMA ArrivesFacts ==
    ASSUME SenderInv, NEW n \in Nat, Arrives(n)
    PROVE  /\ pdu \in Pdus /\ pdu \in Nat /\ Lengths[pdu] \in Nat /\ part < Lengths[pdu]
           /\ n > 0 /\ part + n <= Lengths[pdu] /\ rdpPc = "loop"
           /\ \/ part + n = Lengths[pdu] /\ pdu' = pdu + 1 /\ part' = 0
              \/ part + n < Lengths[pdu] /\ pdu' = pdu /\ part' = part + n
           /\ Last(n) <=> part + n = Lengths[pdu]
           /\ UNCHANGED unfinished
<1>1. pdu \in Pdus /\ n \in 1..(Lengths[pdu] - part) /\ rdpPc = "loop" /\ UNCHANGED unfinished
  BY DEF Arrives
<1>2. pdu \in Nat /\ Lengths[pdu] \in Nat /\ part \in Nat
  BY <1>1, WholeFacts DEF SenderInv
<1>3. n > 0 /\ part + n <= Lengths[pdu] /\ part < Lengths[pdu]
  BY <1>1, <1>2
<1>4. CASE part + n = Lengths[pdu]
  BY <1>1, <1>2, <1>3, <1>4 DEF Arrives, Last
<1>5. CASE part + n # Lengths[pdu]
  BY <1>1, <1>2, <1>3, <1>5 DEF Arrives, Last
<1> QED  BY <1>4, <1>5

\* The stream a chunk is written to: a new one, or the one in data_in.
LEMMA TargetFacts ==
    ASSUME HandlerInv, NEW n \in Nat, Arrives(n), Target # NoStream
    PROVE  /\ Target \in Stream
           /\ \/ dataIn # NoStream /\ Target.id = dataIn.id /\ Target.bytes = dataIn.bytes
              \/ /\ dataIn = NoStream /\ part = 0 /\ Target.id = streams + 1
                 /\ Target.bytes = <<>>
           /\ NewStream => \/ dataIn # NoStream /\ streams' = streams
                           \/ dataIn = NoStream /\ streams' = streams + 1
           /\ \/ dataIn # NoStream /\ No(dataIn.bytes) \in unfinished
              \/ /\ Target.capacity = Lengths[pdu]
                 /\ Target.bytes = [k \in 1..part |-> <<pdu, k>>]
<1>0. /\ pdu \in Pdus /\ pdu \in Nat /\ Lengths[pdu] \in Nat
      /\ dataIn \in Stream /\ streams \in Nat /\ part \in Nat
      /\ dataIn = NoStream \/ dataIn.id \in 1..streams
  BY ArrivesFacts DEF HandlerInv, ValueTypes, StreamsInv, OwnedInv, SenderInv
<1>1. CASE dataIn = NoStream
  <2>1. part = 0
    BY <1>1 DEF Target, First
  <2>2. Target = [id |-> streams + 1, capacity |-> Lengths[pdu], bytes |-> <<>>]
    BY <1>1, <2>1 DEF Target, First
  <2>3. Target \in Stream
    BY <1>0, <2>2 DEF Stream, Bytes
  <2>4. Target.id = streams + 1 /\ Target.capacity = Lengths[pdu] /\ Target.bytes = <<>>
    BY <2>2
  <2>5. NewStream => streams' = streams + 1
    BY <1>0, <2>4 DEF NewStream
  <2>6. <<>> = [k \in 1..part |-> <<pdu, k>>]
    BY <2>1
  <2> QED  BY <1>1, <2>1, <2>3, <2>4, <2>5, <2>6
<1>2. CASE dataIn # NoStream
  <2>1. Target \in Stream /\ Target.id = dataIn.id /\ Target.bytes = dataIn.bytes
    BY <1>0, <1>2 DEF Target, Stream
  <2>2. NewStream => streams' = streams
    BY <1>0, <1>2, <2>1 DEF NewStream
  <2>3. ASSUME No(dataIn.bytes) \notin unfinished
        PROVE  /\ Target.capacity = Lengths[pdu]
               /\ Target.bytes = [k \in 1..part |-> <<pdu, k>>]
    <3>1. /\ part # 0 /\ dataIn.capacity = Lengths[pdu]
          /\ dataIn.bytes = [k \in 1..part |-> <<pdu, k>>]
      BY <1>0, <1>2, <2>3 DEF HandlerInv, DataInv
    <3>2. Target = dataIn
      BY <3>1 DEF Target, First
    <3> QED  BY <3>1, <3>2
  <2> QED  BY <1>2, <2>1, <2>2, <2>3
<1> QED  BY <1>1, <1>2

\* One sequence behind another.
LEMMA ConcatFacts ==
    ASSUME NEW S, NEW a \in Seq(S), NEW b \in Seq(S)
    PROVE  /\ a \o b \in Seq(S) /\ Len(a \o b) = Len(a) + Len(b)
           /\ \A k \in 1..Len(a) : (a \o b)[k] = a[k]
           /\ \A k \in 1..Len(b) : (a \o b)[Len(a) + k] = b[k]
<1>1. a \o b \in Seq(S) /\ Len(a \o b) = Len(a) + Len(b)
  OBVIOUS
<1>2. \A k \in 1..Len(a) : (a \o b)[k] = a[k]
  OBVIOUS
<1>3. \A k \in 1..Len(b) : (a \o b)[Len(a) + k] = b[k]
  OBVIOUS
<1> QED  BY <1>1, <1>2, <1>3

\* The bytes of a chunk behind those that are there.
LEMMA JoinFacts ==
    ASSUME NEW bytes \in Bytes, NEW u \in Bytes
    PROVE  /\ bytes \o u \in Bytes /\ Len(bytes \o u) = Len(bytes) + Len(u)
           /\ \A k \in 1..Len(bytes) : (bytes \o u)[k] = bytes[k]
           /\ \A k \in 1..Len(u) : (bytes \o u)[Len(bytes) + k] = u[k]
  BY ConcatFacts DEF Bytes

\* The n bytes of a chunk.
LEMMA PartFacts ==
    ASSUME NEW m \in Nat, NEW p \in Nat, NEW n \in Nat
    PROVE  LET u == [k \in 1..n |-> <<m, p + k>>]
           IN  u \in Bytes /\ Len(u) = n /\ \A k \in 1..n : u[k] = <<m, p + k>>
  BY DEF Bytes

\* A chunk goes on where its PDU was, or begins where the bytes of one before end.
Grown(t, bytes, m, p, n) ==
    /\ t \in Bytes /\ Len(t) = Len(bytes) + n
    /\ \A k \in 1..Len(bytes) : t[k] = bytes[k]
    /\ \A k \in 1..n : t[Len(bytes) + k] = <<m, p + k>>

GoesOn(bytes, m, p) ==
    \/ bytes = <<>> /\ p = 0
    \/ /\ Chain(bytes) /\ LastNo(bytes) <= m
       /\ LastNo(bytes) = m => bytes[Len(bytes)] = <<m, p>>

LEMMA ChainGrows ==
    ASSUME NEW bytes \in Bytes, NEW m \in Pdus, NEW p \in Nat, NEW n \in Nat, n > 0,
           NEW t, Grown(t, bytes, m, p, n), GoesOn(bytes, m, p)
    PROVE  /\ Chain(t) /\ LastNo(t) = m /\ t[Len(t)] = <<m, p + n>>
           /\ No(t) = IF bytes = <<>> THEN m ELSE No(bytes)
<1>0. m \in Nat /\ Len(bytes) \in Nat
  BY WholeFacts DEF Bytes
<1>1. /\ t \in Bytes /\ Len(t) = Len(bytes) + n /\ Len(t) \in Nat \ {0}
      /\ \A k \in 1..Len(bytes) : t[k] = bytes[k]
      /\ \A k \in 1..n : t[Len(bytes) + k] = <<m, p + k>>
  <2>1. Len(bytes) + n \in Nat \ {0}
    BY <1>0
  <2> QED  BY <2>1 DEF Grown
<1>2. t[Len(t)] = <<m, p + n>> /\ LastNo(t) = m
  <2>1. n \in 1..n
    OBVIOUS
  <2>2. t[Len(bytes) + n] = <<m, p + n>>
    BY <1>1, <2>1
  <2> QED  BY <1>1, <2>2 DEF LastNo
<1>3. CASE bytes = <<>> /\ p = 0
  <2>1. /\ Len(bytes) = 0 /\ Len(t) = n /\ 1 \in 1..n
        /\ \A k \in 1..n : t[k] = <<m, k>>
    <3>1. Len(bytes) = 0
      BY <1>3
    <3>2. \A k \in 1..n : Len(bytes) + k = k /\ p + k = k
      BY <1>3, <3>1
    <3> QED  BY <1>0, <1>1, <3>1, <3>2
  <2>2. t[1] = <<m, 1>> /\ No(t) = m
    BY <2>1 DEF No
  <2>3. \A k \in 1..(Len(t) - 1) : Follows(t[k], t[k + 1])
    <3>1. \A k \in 1..(n - 1) : k \in 1..n /\ k + 1 \in 1..n
      OBVIOUS
    <3>2. \A k \in 1..(n - 1) : t[k] = <<m, k>> /\ t[k + 1] = <<m, k + 1>>
      BY <2>1, <3>1
    <3> QED  BY <2>1, <3>2 DEF Follows
  <2>4. m <= m
    BY <1>0
  <2> QED  BY <1>1, <1>2, <1>3, <2>2, <2>3, <2>4 DEF Chain
<1>4. CASE /\ Chain(bytes) /\ LastNo(bytes) <= m
           /\ LastNo(bytes) = m => bytes[Len(bytes)] = <<m, p>>
  <2> DEFINE l == Len(bytes)
  <2>1. /\ l \in Nat \ {0} /\ bytes # <<>> /\ 1 \in 1..l /\ l \in 1..l
        /\ No(bytes) \in Pdus /\ LastNo(bytes) \in Pdus
    BY <1>4 DEF Chain
  <2>2. t[1] = bytes[1] /\ t[l] = bytes[l] /\ No(t) = No(bytes)
    BY <1>1, <2>1 DEF No
  <2>3. No(bytes) <= m
    <3>1. No(bytes) \in Nat /\ LastNo(bytes) \in Nat /\ No(bytes) <= LastNo(bytes)
      BY <1>4, <2>1, WholeFacts DEF Chain
    <3> QED  BY <1>0, <1>4, <3>1
  <2>4. Follows(t[l], t[l + 1])
    <3>1. t[l + 1] = <<m, p + 1>>
      BY <1>1
    <3>2. CASE LastNo(bytes) = m
      <4>1. t[l] = <<m, p>>
        BY <1>4, <2>2, <3>2
      <4> QED  BY <3>1, <4>1 DEF Follows
    <3>3. CASE LastNo(bytes) # m
      <4>1. LastNo(bytes) < m
        <5>1. LastNo(bytes) \in Nat
          BY <2>1, WholeFacts
        <5> QED  BY <1>0, <1>4, <3>3, <5>1
      <4> QED  BY <2>2, <3>1, <4>1 DEF Follows, LastNo
    <3> QED  BY <3>2, <3>3
  <2>5. \A k \in 1..(Len(t) - 1) : Follows(t[k], t[k + 1])
    <3> SUFFICES ASSUME NEW k \in 1..(Len(t) - 1) PROVE Follows(t[k], t[k + 1])
      OBVIOUS
    <3>1. CASE k < l
      <4>1. k \in 1..(l - 1) /\ k \in 1..l /\ k + 1 \in 1..l
        BY <2>1, <3>1
      <4>2. t[k] = bytes[k] /\ t[k + 1] = bytes[k + 1]
        BY <1>1, <4>1
      <4> QED  BY <1>4, <4>1, <4>2 DEF Chain
    <3>2. CASE k = l
      BY <2>4, <3>2
    <3>3. CASE k > l
      <4>1. /\ k - l \in 1..n /\ k - l + 1 \in 1..n /\ l + (k - l) = k
            /\ l + (k - l + 1) = k + 1 /\ p + (k - l + 1) = p + (k - l) + 1
        BY <1>1, <2>1, <3>3
      <4>2. t[k] = <<m, p + (k - l)>> /\ t[k + 1] = <<m, p + (k - l) + 1>>
        BY <1>1, <4>1
      <4> QED  BY <4>2 DEF Follows
    <3> QED  BY <2>1, <3>1, <3>2, <3>3
  <2>6. t[1] = <<No(t), 1>>
    BY <1>4, <2>2 DEF Chain
  <2> QED  BY <1>1, <1>2, <2>1, <2>2, <2>3, <2>5, <2>6 DEF Chain
<1> QED  BY <1>3, <1>4 DEF GoesOn

\* What has been written to it.
LEMMA WrittenFacts ==
    ASSUME HandlerInv, NEW n \in Nat, Arrives(n), Target # NoStream, NEW s \in Written(n)
    PROVE  /\ s \in Stream /\ s.id = Target.id
           /\ Chain(s.bytes) /\ LastNo(s.bytes) = pdu
           /\ s.bytes[Len(s.bytes)] = <<pdu, part + n>>
           /\ \/ dataIn # NoStream /\ No(s.bytes) = No(dataIn.bytes)
              \/ dataIn = NoStream /\ No(s.bytes) = pdu
           /\ \/ No(s.bytes) \in unfinished
              \/ /\ s.capacity = Lengths[pdu]
                 /\ s.bytes = [k \in 1..(part + n) |-> <<pdu, k>>]
<1>0. /\ pdu \in Nat /\ Lengths[pdu] \in Nat /\ part \in Nat /\ part + n <= Lengths[pdu]
      /\ Target \in Stream /\ pdu \in Pdus /\ n > 0
  BY ArrivesFacts, TargetFacts DEF HandlerInv, SenderInv
<1> DEFINE bytes == Target.bytes \o [k \in 1..n |-> <<pdu, part + k>>]
<1>a. bytes = Target.bytes \o [k \in 1..n |-> <<pdu, part + k>>]
  OBVIOUS
<1>b. PICK c \in (IF Fits(n) THEN {Target.capacity} ELSE {Len(bytes), Len(bytes) + 1}) :
         s = [Target EXCEPT !.bytes = bytes, !.capacity = c]
  BY DEF Written
<1> HIDE DEF bytes
<1>1. Target.bytes \in Bytes
  BY <1>0 DEF Stream
<1>c. Grown(bytes, Target.bytes, pdu, part, n)
  <2> DEFINE u == [k \in 1..n |-> <<pdu, part + k>>]
  <2>1. u \in Bytes /\ Len(u) = n /\ \A k \in 1..n : u[k] = <<pdu, part + k>>
    BY <1>0, PartFacts
  <2>2. bytes = Target.bytes \o u
    BY <1>a
  <2> HIDE DEF u
  <2> QED  BY <1>1, <2>1, <2>2, JoinFacts DEF Grown
<1>2. /\ Chain(bytes) /\ LastNo(bytes) = pdu /\ bytes[Len(bytes)] = <<pdu, part + n>>
      /\ No(bytes) = IF Target.bytes = <<>> THEN pdu ELSE No(Target.bytes)
  <2>1. GoesOn(Target.bytes, pdu, part)
    <3>1. CASE dataIn = NoStream
      BY <3>1, TargetFacts DEF GoesOn
    <3>2. CASE dataIn # NoStream
      <4>1. Target.bytes = dataIn.bytes
        BY <3>2, TargetFacts
      <4>2. /\ Chain(Target.bytes) /\ LastNo(Target.bytes) <= pdu
            /\ LastNo(Target.bytes) = pdu => Target.bytes[Len(Target.bytes)] = <<pdu, part>>
        BY <3>2, <4>1 DEF HandlerInv, DataInv
      <4> QED  BY <4>2 DEF GoesOn
    <3> QED  BY <3>1, <3>2
  <2> QED  BY <1>0, <1>1, <1>c, <2>1, ChainGrows
<1>3. \/ dataIn # NoStream /\ No(bytes) = No(dataIn.bytes)
      \/ dataIn = NoStream /\ No(bytes) = pdu
  <2>1. dataIn # NoStream => Target.bytes = dataIn.bytes /\ Target.bytes # <<>>
    <3>1. dataIn # NoStream => Len(dataIn.bytes) # 0
      BY DEF HandlerInv, DataInv, Chain
    <3>2. Len(<<>>) = 0
      OBVIOUS
    <3> QED  BY <3>1, <3>2, TargetFacts
  <2>2. dataIn = NoStream => Target.bytes = <<>>
    BY TargetFacts
  <2> QED  BY <1>2, <2>1, <2>2
<1>5. bytes \in Bytes /\ Len(bytes) \in Nat
  BY <1>2 DEF Chain
<1>6. ASSUME No(bytes) \notin unfinished
      PROVE  /\ Target.capacity = Lengths[pdu] /\ Fits(n)
             /\ bytes = [k \in 1..(part + n) |-> <<pdu, k>>]
  <2>1. /\ Target.capacity = Lengths[pdu]
        /\ Target.bytes = [k \in 1..part |-> <<pdu, k>>]
    BY <1>3, <1>6, TargetFacts
  <2>2. bytes = [k \in 1..(part + n) |-> <<pdu, k>>]
    BY <1>0, <1>a, <2>1, ChunkBytes
  <2>3. Len(Target.bytes) = part
    BY <1>0, <2>1
  <2>4. Fits(n)
    BY <1>0, <2>1, <2>3 DEF Fits
  <2> QED  BY <2>1, <2>2, <2>4
<1>7. c \in Nat /\ (Fits(n) => c = Target.capacity)
  BY <1>0, <1>b, <1>5 DEF Stream
<1>8. s \in Stream /\ s.id = Target.id /\ s.capacity = c /\ s.bytes = bytes
  BY <1>0, <1>b, <1>5, <1>7 DEF Stream
<1> QED  BY <1>2, <1>3, <1>6, <1>7, <1>8

\* Nobody else has the stream.
LEMMA TargetOwned ==
    ASSUME HandlerInv, NEW n \in Nat, Arrives(n), Target # NoStream, NewStream
    PROVE  /\ Target.id \in 1..streams' /\ Target.id \in Pdus /\ Target.id \notin leaked
           /\ current.id # Target.id /\ ~InQueue(Target.id) /\ frees[Target.id] = 0
           /\ streams' \in Nat /\ streams <= streams'
           /\ \A id \in 1..streams' : id \in 1..streams \/ id = Target.id
           /\ streams' <= pdu
<1>0. /\ pdu \in Pdus /\ pdu \in Nat /\ streams \in Nat /\ streams <= pdu
      /\ part = 0 => streams < pdu
      /\ OwnedInv /\ leaked \subseteq 1..streams
      /\ Pdus = 1..Len(Lengths) /\ Len(Lengths) \in Nat
  BY ArrivesFacts, PdusAssumption DEF HandlerInv, StreamsInv, Pdus
<1>1. CASE dataIn # NoStream
  <2>1. Target.id = dataIn.id /\ streams' = streams
    BY <1>1, TargetFacts
  <2>2. dataIn.id \in 1..streams
    BY <1>0, <1>1 DEF OwnedInv
  <2>3. /\ dataIn.id \notin leaked /\ current.id # dataIn.id /\ ~InQueue(dataIn.id)
        /\ frees[dataIn.id] = 0
    BY <1>0, <2>2 DEF OwnedInv, OnePlace
  <2>4. dataIn.id \in Pdus
    BY <1>0, <2>2
  <2> QED  BY <1>0, <2>1, <2>2, <2>3, <2>4
<1>2. CASE dataIn = NoStream
  <2>1. Target.id = streams + 1 /\ streams' = streams + 1 /\ part = 0
    BY <1>2, TargetFacts
  <2>2. streams + 1 \in Pdus /\ streams + 1 > streams /\ streams + 1 \notin 1..streams
        /\ streams + 1 # 0 /\ streams + 1 # -1
    BY <1>0, <2>1
  <2>3. streams + 1 \notin leaked /\ current.id # streams + 1 /\ frees[streams + 1] = 0
    BY <1>0, <2>2, StreamFacts DEF OwnedInv
  <2>4. ~InQueue(streams + 1)
    BY <1>0, <2>2, StreamFacts DEF OwnedInv, InQueue
  <2> QED  BY <1>0, <2>1, <2>2, <2>3, <2>4
<1> QED  BY <1>1, <1>2

-----------------------------------------------------------------------------
(* Types, and who is where.                                                 *)

\* A chunk that is received is one that arrives.
LEMMA ReceiveFacts == SenderInv /\ Receive => \E n \in Nat : Arrives(n) /\ Chunk(n)
<1> SUFFICES ASSUME SenderInv, Receive PROVE \E n \in Nat : Arrives(n) /\ Chunk(n)
  OBVIOUS
<1>1. PICK n \in 1..(IF pdu \in Pdus THEN Lengths[pdu] ELSE 0) : Chunk(n)
  BY DEF Receive
<1>2. Arrives(n)
  BY <1>1 DEF Chunk, ChunkRefused, ChunkDropped, ChunkStored, PduMismatch, PduComplete
<1>3. n \in Nat
  OBVIOUS
<1> QED  BY <1>1, <1>2, <1>3

\* channelError stays a flag.
LEMMA ErrorStep == ErrorType /\ [Next]_vars => ErrorType'
<1> SUFFICES ASSUME ErrorType, [Next]_vars PROVE ErrorType'
  OBVIOUS
<1> USE DEF ErrorType
<1>1. CASE Receive
  <2>1. ASSUME NEW n, Chunk(n) PROVE channelError' \in BOOLEAN
    BY <2>1 DEF Chunk, ChunkRefused, ChunkDropped, ChunkStored, PduMismatch, PduComplete,
       AllocationFails
  <2> QED  BY <1>1, <2>1 DEF Receive
<1>2. CASE Abandon \/ Thread \/ Disconnect \/ Join \/ WaitFails \/ Finished
  BY <1>2 DEF Abandon, Thread, TakeMessage, HandleMessage, ReportError, UseAfterFree,
     Disconnect, Join, WaitFails, Finished, vars
<1>3. CASE UNCHANGED vars
  BY <1>3 DEF vars
<1> QED  BY <1>1, <1>2, <1>3 DEF Next

\* The server goes on from PDU to PDU.
LEMMA SenderStep == SenderInv /\ [Next]_vars => SenderInv'
<1> SUFFICES ASSUME SenderInv, [Next]_vars PROVE SenderInv'
  OBVIOUS
<1>0. /\ pdu \in Nat /\ part \in Nat /\ unfinished \subseteq Pdus
      /\ 0 < pdu /\ pdu <= Len(Lengths) + 1 /\ Len(Lengths) \in Nat
      /\ Pdus = 1..Len(Lengths)
  BY PdusAssumption DEF SenderInv, Pdus
<1>1. CASE Receive
  <2>1. PICK n \in Nat : Arrives(n)
    BY <1>1, ReceiveFacts
  <2>2. /\ pdu \in Pdus /\ Lengths[pdu] \in Nat
        /\ \/ part + n = Lengths[pdu] /\ pdu' = pdu + 1 /\ part' = 0
           \/ part + n < Lengths[pdu] /\ pdu' = pdu /\ part' = part + n
        /\ UNCHANGED unfinished
    BY <2>1, ArrivesFacts
  <2> QED  BY <1>0, <2>2 DEF SenderInv
<1>2. CASE Abandon
  <2>1. /\ pdu \in Pdus /\ pdu' = pdu + 1 /\ part' = 0
        /\ unfinished' = unfinished \cup {pdu}
    BY <1>2 DEF Abandon
  <2> QED  BY <1>0, <2>1 DEF SenderInv
<1>3. CASE UNCHANGED sender
  BY <1>3 DEF SenderInv, sender
<1>4. CASE Thread \/ Disconnect \/ Join \/ WaitFails \/ Finished \/ UNCHANGED vars
  BY <1>3, <1>4 DEF Thread, TakeMessage, HandleMessage, ReportError, UseAfterFree,
     Disconnect, Join, WaitFails, Finished, vars, sender
<1> QED  BY <1>1, <1>2, <1>4 DEF Next

\* Streams, messages and counters keep their types.
LEMMA ValueTypesStep == HandlerInv /\ [Next]_vars => ValueTypes'
<1> SUFFICES ASSUME HandlerInv, [Next]_vars PROVE ValueTypes'
  OBVIOUS
<1>0. /\ dataIn \in Stream /\ current \in Stream /\ queue \in Seq(Stream)
      /\ handled \in Seq(Bytes) /\ failures \in 0..MaxFailures /\ MaxFailures \in Nat
  BY PdusAssumption DEF HandlerInv, ValueTypes
<1>a. AllocationFails => failures' \in 0..MaxFailures
  BY <1>0 DEF AllocationFails
<1>b. ASSUME NEW s \in Stream
      PROVE  Append(queue, s) \in Seq(Stream) /\ Append(handled, s.bytes) \in Seq(Bytes)
  <2>1. s.bytes \in Bytes
    BY DEF Stream
  <2> QED  BY <1>0, <2>1, AppendFacts
<1>1. CASE Receive
  <2>1. PICK n \in Nat : Arrives(n) /\ Chunk(n)
    BY <1>1, ReceiveFacts DEF HandlerInv
  <2>2. CASE ChunkRefused(n)
    <3>1. UNCHANGED <<dataIn, queue, current, handled>>
          /\ (AllocationFails \/ failures' = failures)
      BY <2>2 DEF ChunkRefused, threadVars
    <3> QED  BY <1>0, <1>a, <3>1 DEF ValueTypes
  <2>3. CASE ChunkDropped(n)
    <3>1. UNCHANGED <<queue, current, handled>> /\ AllocationFails /\ dataIn' = NoStream
      BY <2>3 DEF ChunkDropped, threadVars
    <3> QED  BY <1>0, <1>a, <3>1, StreamFacts DEF ValueTypes
  <2>4. CASE ChunkStored(n) \/ PduMismatch(n)
    <3>1. /\ UNCHANGED <<queue, current, handled, failures>> /\ Target # NoStream
          /\ dataIn' \in Written(n)
      BY <2>4 DEF ChunkStored, PduMismatch, threadVars
    <3>2. dataIn' \in Stream
      BY <2>1, <3>1, WrittenFacts
    <3> QED  BY <1>0, <3>1, <3>2 DEF ValueTypes
  <2>5. CASE PduComplete(n)
    <3>1. PICK s \in Written(n) :
             \/ /\ queue' = Append(queue, s) /\ UNCHANGED <<handled, failures>>
             \/ /\ AllocationFails /\ UNCHANGED <<queue, handled>>
             \/ /\ handled' = Append(handled, s.bytes) /\ UNCHANGED <<queue, failures>>
      BY <2>5 DEF PduComplete
    <3>2. dataIn' = NoStream /\ UNCHANGED current /\ Target # NoStream
      BY <2>5 DEF PduComplete, threadVars
    <3>3. s \in Stream
      BY <2>1, <3>2, WrittenFacts
    <3> QED  BY <1>0, <1>a, <1>b, <3>1, <3>2, <3>3, StreamFacts DEF ValueTypes
  <2> QED  BY <2>1, <2>2, <2>3, <2>4, <2>5 DEF Chunk
<1>2. CASE TakeMessage
  <2>1. /\ queue # <<>> /\ queue' = Tail(queue) /\ UNCHANGED <<dataIn, handled, failures>>
        /\ current' = current \/ current' = Head(queue)
    BY <1>2 DEF TakeMessage
  <2> QED  BY <1>0, <2>1, TailFacts DEF ValueTypes
<1>3. CASE HandleMessage
  <2>1. /\ handled' = Append(handled, current.bytes) /\ current' = NoStream
        /\ UNCHANGED <<dataIn, queue, failures>>
    BY <1>3 DEF HandleMessage
  <2> QED  BY <1>0, <1>b, <2>1, StreamFacts DEF ValueTypes
<1>4. CASE Disconnect
  <2>1. /\ UNCHANGED <<current, handled>>
        /\ \/ queue' = Append(queue, Quit) /\ UNCHANGED <<dataIn, failures>>
           \/ /\ queue' = <<>> /\ dataIn' = NoStream
              /\ \/ failures < MaxFailures /\ failures' = failures + 1
                 \/ failures' = failures
    BY <1>4 DEF Disconnect, FreeHandler, threadVars
  <2>2. failures' \in 0..MaxFailures
    BY <1>0, <2>1
  <2>3. <<>> \in Seq(Stream) /\ Append(queue, Quit) \in Seq(Stream)
    BY <1>b, StreamFacts
  <2> QED  BY <1>0, <2>1, <2>2, <2>3, StreamFacts DEF ValueTypes
<1>5. CASE Join
  <2>1. /\ UNCHANGED <<current, handled, failures>> /\ queue' = <<>> /\ dataIn' = NoStream
    BY <1>5 DEF Join, FreeHandler, threadVars
  <2> QED  BY <1>0, <2>1, StreamFacts DEF ValueTypes
<1>6. CASE Abandon \/ ReportError \/ UseAfterFree \/ Finished \/ UNCHANGED vars
  BY <1>0, <1>6 DEF Abandon, ReportError, UseAfterFree, Finished, vars, threadVars, ValueTypes
<1>7. CASE WaitFails
  <2>1. /\ UNCHANGED <<dataIn, queue, current, handled>>
        /\ failures < MaxFailures /\ failures' = failures + 1
    BY <1>7 DEF WaitFails, threadVars
  <2> QED  BY <1>0, <2>1 DEF ValueTypes
<1> QED  BY <1>1, <1>2, <1>3, <1>4, <1>5, <1>6, <1>7 DEF Next, Thread

\* internals outlives the thread, or the request to quit was not posted.
LEMMA ThreadsStep == HandlerInv /\ [Next]_vars => ThreadsInv'
<1> SUFFICES ASSUME HandlerInv, [Next]_vars PROVE ThreadsInv'
  OBVIOUS
<1>0. /\ ThreadsInv /\ queue \in Seq(Stream) /\ failures \in Nat
  BY PdusAssumption DEF HandlerInv, ValueTypes
<1>1. CASE Receive
  <2>1. PICK n \in Nat : Arrives(n) /\ Chunk(n)
    BY <1>1, ReceiveFacts DEF HandlerInv
  <2>2. /\ rdpPc = "loop" /\ UNCHANGED <<threadPc, rdpPc>>
        /\ failures' = failures \/ failures' = failures + 1
        /\ \/ queue' = queue
           \/ \E s \in Written(n) : Threaded /\ queue' = Append(queue, s)
    BY <2>1 DEF Chunk, ChunkRefused, ChunkDropped, ChunkStored, PduMismatch, PduComplete,
       Arrives, threadVars, AllocationFails
  <2>3. ASSUME NEW s \in Written(n), Threaded, queue' = Append(queue, s)
        PROVE  \A i \in DOMAIN queue' : queue'[i] # Quit
    <3>1. PduComplete(n)
      <4>1. ~(queue' = queue)
        <5>1. Len(Append(queue, s)) = Len(queue) + 1 /\ Len(queue) \in Nat
          BY <1>0
        <5> QED  BY <2>3, <5>1
      <4> QED  BY <2>1, <4>1 DEF Chunk, ChunkRefused, ChunkDropped, ChunkStored, PduMismatch
    <3>2. Target # NoStream /\ NewStream
      BY <3>1 DEF PduComplete
    <3>3. s \in Stream /\ s.id = Target.id
      BY <2>1, <3>2, WrittenFacts
    <3>4. Target.id \in 1..streams' /\ streams' \in Nat
      BY <2>1, <3>2, TargetOwned
    <3>5. s # Quit
      BY <3>3, <3>4, StreamFacts
    <3>6. \A i \in DOMAIN queue' :
             (i \in DOMAIN queue /\ queue'[i] = queue[i]) \/ queue'[i] = s
      BY <1>0, <2>3, <3>3, AppendFacts
    <3> QED  BY <1>0, <2>2, <3>5, <3>6 DEF ThreadsInv
  <2>4. failures > 0 => failures' > 0
    BY <1>0, <2>2
  <2> QED  BY <1>0, <2>2, <2>3, <2>4 DEF ThreadsInv, Threaded
<1>2. CASE TakeMessage
  <2>1. /\ threadPc = "run" /\ rdpPc # "freed" /\ queue # <<>> /\ queue' = Tail(queue)
        /\ threadPc' \in {"handle", "exited"} /\ UNCHANGED <<rdpPc, failures, dataIn>>
    BY <1>2 DEF TakeMessage
  <2>2. \A i \in DOMAIN queue' : \E j \in DOMAIN queue : queue'[i] = queue[j]
    BY <1>0, <2>1, TailFacts
  <2> QED  BY <1>0, <2>1, <2>2 DEF ThreadsInv, Threaded
<1>3. CASE HandleMessage
  <2>1. /\ threadPc = "handle" /\ threadPc' \in {"run", "failed"}
        /\ UNCHANGED <<queue, rdpPc, failures, dataIn>>
    BY <1>3 DEF HandleMessage
  <2> QED  BY <1>0, <2>1 DEF ThreadsInv, Threaded
<1>4. CASE ReportError \/ UseAfterFree
  <2>1. /\ UNCHANGED <<queue, rdpPc, failures, dataIn>>
        /\ \/ threadPc = "failed" /\ threadPc' = "exited"
           \/ rdpPc = "freed" /\ threadPc \in {"run", "handle", "failed"}
              /\ threadPc' = "crashed"
    BY <1>4 DEF ReportError, UseAfterFree
  <2> QED  BY <1>0, <2>1 DEF ThreadsInv, Threaded
<1>5. CASE Disconnect
  <2>1. /\ rdpPc = "loop" /\ UNCHANGED threadPc
        /\ \/ Threaded /\ queue' = Append(queue, Quit) /\ rdpPc' = "join"
              /\ UNCHANGED failures
           \/ /\ queue' = <<>> /\ dataIn' = NoStream /\ rdpPc' = "freed"
              /\ \/ failures' = failures + 1
                 \/ ~Threaded /\ failures' = failures
    BY <1>5 DEF Disconnect, FreeHandler, threadVars
  <2>2. failures > 0 => failures' > 0
    BY <1>0, <2>1
  <2>3. failures' = failures + 1 => failures' > 0
    BY <1>0
  <2>4. \A i \in DOMAIN <<>> : FALSE
    OBVIOUS
  <2> QED  BY <1>0, <2>1, <2>2, <2>3, <2>4 DEF ThreadsInv, Threaded
<1>6. CASE Join
  <2>1. /\ rdpPc = "join" /\ threadPc = "exited" /\ rdpPc' = "freed" /\ queue' = <<>>
        /\ dataIn' = NoStream /\ UNCHANGED <<threadPc, failures>>
    BY <1>6 DEF Join, FreeHandler, threadVars
  <2> QED  BY <1>0, <2>1 DEF ThreadsInv, Threaded
<1>7. CASE Abandon \/ Finished \/ UNCHANGED vars
  BY <1>0, <1>7 DEF Abandon, Finished, vars, threadVars, ThreadsInv, Threaded
<1>8. CASE WaitFails
  <2>1. /\ rdpPc = "join" /\ rdpPc' = "left" /\ failures' = failures + 1
        /\ UNCHANGED <<queue, dataIn, threadPc>>
    BY <1>8 DEF WaitFails, threadVars
  <2>2. failures' > 0
    BY <1>0, <2>1
  <2> QED  BY <1>0, <2>1, <2>2 DEF ThreadsInv, Threaded
<1> QED  BY <1>1, <1>2, <1>3, <1>4, <1>5, <1>6, <1>7, <1>8 DEF Next, Thread

-----------------------------------------------------------------------------
(* Ownership.                                                               *)

\* A stream is in the queue once or not at all.
LEMMA QueuedFacts ==
    ASSUME OwnedInv, NEW id
    PROVE  /\ InQueue(id) => Queued(id) = 1
           /\ ~InQueue(id) => Queued(id) = 0
<1> DEFINE Places == {i \in DOMAIN queue : queue[i].id = id}
<1>1. CASE InQueue(id)
  <2>1. PICK i \in DOMAIN queue : queue[i].id = id
    BY <1>1 DEF InQueue
  <2>2. Places = {i}
    BY <2>1 DEF OwnedInv
  <2>3. Cardinality({i}) = 1
    BY FS_Singleton
  <2> QED  BY <1>1, <2>2, <2>3 DEF Queued
<1>2. CASE ~InQueue(id)
  <2>1. Places = {}
    BY <1>2 DEF InQueue
  <2>2. Cardinality({}) = 0
    BY FS_EmptySet
  <2> QED  BY <1>2, <2>1, <2>2 DEF Queued
<1> QED  BY <1>1, <1>2

\* What the queue and data_in held is freed, once, and nothing else.
LEMMA FreeFacts ==
    ASSUME HandlerInv, FreeHandler
    PROVE  /\ frees' \in [Pdus -> Nat]
           /\ \A id \in 1..streams :
                 \/ (InQueue(id) \/ dataIn.id = id) /\ frees'[id] = 1
                 \/ ~InQueue(id) /\ dataIn.id # id /\ frees'[id] = frees[id]
           /\ \A id \in Pdus : id > streams => frees'[id] = 0
           /\ \A id : ~InQueue(id)'
           /\ queue' = <<>> /\ dataIn' = NoStream /\ rdpPc' = "freed"
<1>0. /\ OwnedInv /\ frees \in [Pdus -> Nat] /\ streams \in Nat
      /\ Pdus = 1..Len(Lengths) /\ Len(Lengths) \in Nat /\ streams <= Len(Lengths)
  BY PdusAssumption DEF HandlerInv, StreamsInv, SenderInv, Pdus
<1>1. queue' = <<>> /\ dataIn' = NoStream /\ rdpPc' = "freed"
  BY DEF FreeHandler
<1>2. \A id : ~InQueue(id)'
  BY <1>1 DEF InQueue
<1>3. ASSUME NEW id \in Pdus
      PROVE  /\ frees'[id] = frees[id] + Queued(id) + IF dataIn.id = id THEN 1 ELSE 0
             /\ frees'[id] \in Nat /\ frees[id] \in Nat
             /\ Queued(id) = 0 \/ Queued(id) = 1
  <2>1. frees'[id] = frees[id] + Queued(id) + IF dataIn.id = id THEN 1 ELSE 0
    BY <1>0 DEF FreeHandler
  <2>2. Queued(id) = 0 \/ Queued(id) = 1
    BY <1>0, QueuedFacts
  <2>3. frees[id] \in Nat
    BY <1>0
  <2> QED  BY <2>1, <2>2, <2>3
<1>4. frees' \in [Pdus -> Nat]
  <2>1. DOMAIN frees = Pdus
    BY <1>0
  <2>2. frees' = [id \in Pdus |->
                     frees[id] + Queued(id) + IF dataIn.id = id THEN 1 ELSE 0]
    BY <2>1 DEF FreeHandler
  <2> QED  BY <1>3, <2>2
<1>5. ASSUME NEW id \in 1..streams
      PROVE  \/ (InQueue(id) \/ dataIn.id = id) /\ frees'[id] = 1
             \/ ~InQueue(id) /\ dataIn.id # id /\ frees'[id] = frees[id]
  <2>1. id \in Pdus
    BY <1>0
  <2>2. OnePlace(id)
    BY <1>0 DEF OwnedInv
  <2>3. CASE InQueue(id)
    <3>1. dataIn.id # id /\ frees[id] = 0 /\ Queued(id) = 1
      BY <1>0, <2>2, <2>3, QueuedFacts DEF OnePlace
    <3> QED  BY <1>3, <2>1, <2>3, <3>1
  <2>4. CASE ~InQueue(id) /\ dataIn.id = id
    <3>1. frees[id] = 0 /\ Queued(id) = 0
      BY <1>0, <2>2, <2>4, QueuedFacts DEF OnePlace
    <3> QED  BY <1>3, <2>1, <2>4, <3>1
  <2>5. CASE ~InQueue(id) /\ dataIn.id # id
    <3>1. Queued(id) = 0
      BY <1>0, <2>5, QueuedFacts
    <3> QED  BY <1>3, <2>1, <2>5, <3>1
  <2> QED  BY <2>3, <2>4, <2>5
<1>6. ASSUME NEW id \in Pdus, id > streams
      PROVE  frees'[id] = 0
  <2>1. frees[id] = 0 /\ id # 0 /\ id # -1 /\ id \notin 1..streams
    BY <1>0, <1>6 DEF OwnedInv
  <2>2. dataIn.id # id /\ ~InQueue(id)
    BY <1>0, <2>1, StreamFacts DEF OwnedInv, InQueue
  <2>3. Queued(id) = 0
    BY <1>0, <2>2, QueuedFacts
  <2> QED  BY <1>3, <2>1, <2>2, <2>3
<1> QED  BY <1>1, <1>2, <1>4, <1>5, <1>6

\* The handler frees the stream it is given, or loses it.
LEMMA HandlerFacts ==
    ASSUME NEW s, HandlerFrees(s), frees \in [Pdus -> Nat], s.id \in Pdus
    PROVE  /\ frees' \in [Pdus -> Nat]
           /\ \A id \in Pdus : id # s.id => frees'[id] = frees[id]
           /\ \/ leaked' = leaked \cup {s.id} /\ frees' = frees
              \/ leaked' = leaked /\ frees'[s.id] = frees[s.id] + 1
<1>1. CASE No(s.bytes) \in Malformed
  BY <1>1 DEF HandlerFrees
<1>2. CASE No(s.bytes) \notin Malformed
  <2>1. frees' = [frees EXCEPT ![s.id] = @ + 1] /\ leaked' = leaked
    BY <1>2 DEF HandlerFrees
  <2> QED  BY <2>1
<1> QED  BY <1>1, <1>2

\* At most one stream is made for a PDU.
LEMMA StreamsStep == HandlerInv /\ [Next]_vars => StreamsInv'
<1> SUFFICES ASSUME HandlerInv, [Next]_vars PROVE StreamsInv'
  OBVIOUS
<1>0. /\ streams \in Nat /\ streams <= pdu /\ (part = 0 => streams < pdu)
      /\ frees \in [Pdus -> Nat] /\ leaked \subseteq 1..streams
      /\ pdu \in Nat /\ part \in Nat /\ OwnedInv
      /\ Pdus = 1..Len(Lengths) /\ Len(Lengths) \in Nat /\ streams <= Len(Lengths)
  BY PdusAssumption DEF HandlerInv, StreamsInv, SenderInv, Pdus
<1>1. CASE Receive
  <2>1. PICK n \in Nat : Arrives(n) /\ Chunk(n)
    BY <1>1, ReceiveFacts DEF HandlerInv
  <2>2. /\ pdu \in Pdus /\ n > 0 /\ Lengths[pdu] \in Nat
        /\ \/ part + n = Lengths[pdu] /\ pdu' = pdu + 1 /\ part' = 0
           \/ part + n < Lengths[pdu] /\ pdu' = pdu /\ part' = part + n
    BY <2>1, ArrivesFacts DEF HandlerInv
  <2>3. /\ streams' \in Nat /\ streams <= streams' /\ streams' <= pdu
    <3>1. CASE ChunkRefused(n)
      BY <1>0, <3>1 DEF ChunkRefused
    <3>2. CASE ~ChunkRefused(n)
      <4>1. Target # NoStream /\ NewStream
        BY <2>1, <3>2 DEF Chunk, ChunkDropped, ChunkStored, PduMismatch, PduComplete
      <4> QED  BY <2>1, <4>1, TargetOwned
    <3> QED  BY <3>1, <3>2
  <2>4. streams' <= pdu' /\ (part' = 0 => streams' < pdu')
    BY <1>0, <2>2, <2>3
  <2>5. frees' \in [Pdus -> Nat] /\ leaked' \subseteq 1..streams'
    <3>1. CASE ChunkRefused(n) \/ ChunkStored(n) \/ PduMismatch(n)
      <4>1. UNCHANGED <<frees, leaked>>
        BY <3>1 DEF ChunkRefused, ChunkStored, PduMismatch
      <4> QED  BY <1>0, <2>3, <4>1
    <3>2. CASE ChunkDropped(n) \/ PduComplete(n)
      <4>1. Target # NoStream /\ NewStream
        BY <3>2 DEF ChunkDropped, PduComplete
      <4>2. Target.id \in 1..streams' /\ Target.id \in Pdus
        BY <2>1, <4>1, TargetOwned
      <4>3. \/ frees' = [frees EXCEPT ![Target.id] = @ + 1] /\ leaked' = leaked
            \/ \E s \in Written(n) : \/ frees' = frees /\ leaked' = leaked
                                     \/ frees' = frees /\ leaked' = leaked \cup {s.id}
                                     \/ HandlerFrees(s)
        BY <3>2 DEF ChunkDropped, PduComplete
      <4>4. ASSUME NEW s \in Written(n)
            PROVE  s.id = Target.id
        BY <2>1, <4>1, WrittenFacts
      <4>5. ASSUME NEW s \in Written(n), HandlerFrees(s)
            PROVE  frees' \in [Pdus -> Nat] /\ leaked' \subseteq leaked \cup {Target.id}
        <5>1. s.id = Target.id
          BY <4>4
        <5> QED  BY <1>0, <4>2, <4>5, <5>1, HandlerFacts
      <4>6. leaked \cup {Target.id} \subseteq 1..streams'
        <5>1. 1..streams \subseteq 1..streams'
          BY <1>0, <2>3
        <5> QED  BY <1>0, <4>2, <5>1
      <4>7. [frees EXCEPT ![Target.id] = @ + 1] \in [Pdus -> Nat]
        <5>1. \A x \in Pdus : [frees EXCEPT ![x] = frees[x] + 1] \in [Pdus -> Nat]
          BY <1>0
        <5> QED  BY <4>2, <5>1
      <4> QED  BY <1>0, <4>3, <4>4, <4>5, <4>6, <4>7
    <3> QED  BY <2>1, <3>1, <3>2 DEF Chunk
  <2> QED  BY <2>3, <2>4, <2>5 DEF StreamsInv
<1>2. CASE Abandon
  <2>1. pdu' = pdu + 1 /\ part' = 0 /\ UNCHANGED <<streams, frees, leaked>>
    BY <1>2 DEF Abandon
  <2> QED  BY <1>0, <2>1 DEF StreamsInv
<1>3. CASE HandleMessage
  <2>1. HandlerFrees(current) /\ UNCHANGED <<sender, streams>> /\ threadPc = "handle"
    BY <1>3 DEF HandleMessage
  <2>2. current.id \in 1..streams
    BY <1>0, <2>1 DEF OwnedInv
  <2>3. current.id \in Pdus
    BY <1>0, <2>2
  <2>4. frees' \in [Pdus -> Nat] /\ leaked' \subseteq leaked \cup {current.id}
    BY <1>0, <2>1, <2>3, HandlerFacts
  <2> QED  BY <1>0, <2>1, <2>2, <2>4 DEF StreamsInv, sender
<1>4. CASE Disconnect \/ Join
  <2>1. UNCHANGED <<sender, streams, leaked>> /\ (FreeHandler \/ frees' = frees)
    BY <1>4 DEF Disconnect, Join
  <2>2. frees' \in [Pdus -> Nat]
    BY <1>0, <2>1, FreeFacts
  <2> QED  BY <1>0, <2>1, <2>2 DEF StreamsInv, sender
<1>5. CASE TakeMessage \/ ReportError \/ UseAfterFree \/ WaitFails \/ Finished \/ UNCHANGED vars
  <2>1. UNCHANGED <<sender, streams, frees, leaked>>
    BY <1>5 DEF TakeMessage, ReportError, UseAfterFree, WaitFails, Finished, vars
  <2> QED  BY <1>0, <2>1 DEF StreamsInv, sender
<1> QED  BY <1>1, <1>2, <1>3, <1>4, <1>5 DEF Next, Thread

\* A stream that nobody moves stays where it is.
LEMMA OthersStay ==
    ASSUME NEW id, OnePlace(id),
           dataIn'.id = id <=> dataIn.id = id, current'.id = id <=> current.id = id,
           InQueue(id)' <=> InQueue(id), frees'[id] = frees[id],
           id \in leaked' <=> id \in leaked
    PROVE  OnePlace(id)'
  BY DEF OnePlace

\* The chunk's stream has one place more, and every other stays where it is.
LEMMA ChunkOwned ==
    ASSUME HandlerInv, NEW n \in Nat, Arrives(n), Chunk(n)
    PROVE  OwnedInv'
<1> PICK x : x = Target.id
  OBVIOUS
<1>0. /\ OwnedInv /\ frees \in [Pdus -> Nat] /\ streams \in Nat /\ queue \in Seq(Stream)
      /\ Pdus = 1..Len(Lengths) /\ Len(Lengths) \in Nat /\ dataIn \in Stream
  BY PdusAssumption DEF HandlerInv, StreamsInv, ValueTypes, Pdus
<1>1. CASE ChunkRefused(n)
  <2>1. UNCHANGED <<dataIn, queue, streams, frees, leaked, threadPc, current>>
    BY <1>1 DEF ChunkRefused, threadVars
  <2> QED  BY <1>0, <2>1 DEF OwnedInv, OnePlace, InQueue
<1>2. CASE ~ChunkRefused(n)
  <2>1. Target # NoStream /\ NewStream /\ UNCHANGED <<threadPc, current>>
    BY <1>2 DEF Chunk, ChunkDropped, ChunkStored, PduMismatch, PduComplete, threadVars
  <2>2. /\ x \in 1..streams' /\ x \in Pdus /\ x \notin leaked /\ x # 0 /\ x # -1
        /\ current.id # x /\ ~InQueue(x) /\ frees[x] = 0
        /\ streams' \in Nat /\ streams <= streams'
        /\ \A id \in 1..streams' : id \in 1..streams \/ id = x
    <3>1. x \in 1..streams' /\ streams' \in Nat
      BY <2>1, TargetOwned
    <3> QED  BY <2>1, <3>1, TargetOwned
  <2>3. \A id : id # 0 /\ id # x => dataIn.id # id
    BY <2>1, TargetFacts, StreamFacts
  <2>4. ASSUME NEW s \in Written(n)
        PROVE  s.id = x /\ s \in Stream
    BY <2>1, WrittenFacts
  <2>5. \A id \in 1..streams : id # 0 /\ id \in 1..streams' /\ id \in Nat
    BY <1>0, <2>2
  <2>6. \A id \in Pdus : id > streams' => id > streams /\ id # x /\ id \in Nat
    BY <1>0, <2>2
  <2>7. /\ threadPc' = "handle" => current' # NoStream
        /\ threadPc' \notin {"handle", "crashed"} => current' = NoStream
        /\ current' = NoStream \/ current'.id \in 1..streams'
    BY <1>0, <2>1, <2>5 DEF OwnedInv
  <2>8. ASSUME queue' = queue,
               dataIn' = NoStream \/ dataIn'.id = x,
               frees' \in [Pdus -> Nat],
               \A id \in Pdus : id # x => frees'[id] = frees[id],
               \A id : id # x => (id \in leaked' <=> id \in leaked),
               \/ dataIn'.id = x /\ frees' = frees /\ leaked' = leaked
               \/ dataIn' = NoStream /\ frees'[x] = 1 /\ leaked' = leaked
               \/ dataIn' = NoStream /\ frees' = frees /\ x \in leaked'
        PROVE  OwnedInv'
    <3>1. \A id : InQueue(id)' <=> InQueue(id)
      BY <2>8 DEF InQueue
    <3>2. ASSUME NEW id \in 1..streams, id # x
          PROVE  OnePlace(id)'
      <4>1. OnePlace(id) /\ id # 0
        BY <1>0, <2>5 DEF OwnedInv
      <4>2. dataIn'.id = id <=> dataIn.id = id
        BY <2>3, <2>8, <3>2, <4>1, StreamFacts
      <4>3. frees'[id] = frees[id]
        <5>1. id \in Pdus
          BY <1>0 DEF HandlerInv, StreamsInv, SenderInv
        <5> QED  BY <2>8, <3>2, <5>1
      <4> QED  BY <2>1, <2>8, <3>1, <3>2, <4>1, <4>2, <4>3, OthersStay
    <3>3. OnePlace(x)'
      <4>1. ~InQueue(x)' /\ current'.id # x
        BY <2>1, <2>2, <3>1
      <4>2. dataIn' = NoStream => dataIn'.id # x
        BY <2>2, StreamFacts
      <4>3. \/ dataIn'.id = x /\ frees'[x] = 0 /\ x \notin leaked'
            \/ dataIn'.id # x /\ frees'[x] = 1 /\ x \notin leaked'
            \/ dataIn'.id # x /\ frees'[x] = 0 /\ x \in leaked'
        BY <2>2, <2>8, <4>2
      <4> QED  BY <4>1, <4>3 DEF OnePlace
    <3>4. \A id \in 1..streams' : OnePlace(id)'
      BY <2>2, <3>2, <3>3
    <3>5. \A id \in Pdus : id > streams' => frees'[id] = 0
      BY <1>0, <2>6, <2>8 DEF OwnedInv
    <3>6. /\ \A i \in DOMAIN queue' : queue'[i] = Quit \/ queue'[i].id \in 1..streams'
          /\ \A i, j \in DOMAIN queue' : queue'[i].id = queue'[j].id => i = j
      BY <1>0, <2>5, <2>8 DEF OwnedInv
    <3>7. dataIn' = NoStream \/ dataIn'.id \in 1..streams'
      BY <2>2, <2>8
    <3> QED  BY <2>7, <3>4, <3>5, <3>6, <3>7 DEF OwnedInv
  <2>9. CASE ChunkDropped(n)
    <3>1. /\ queue' = queue /\ leaked' = leaked /\ dataIn' = NoStream
          /\ frees' = [frees EXCEPT ![x] = @ + 1]
      BY <2>9 DEF ChunkDropped
    <3>2. /\ frees' \in [Pdus -> Nat] /\ frees'[x] = 1
          /\ \A id \in Pdus : id # x => frees'[id] = frees[id]
      <4>1. frees[x] + 1 = 1
        BY <2>2
      <4> QED  BY <1>0, <2>2, <3>1, <4>1
    <3> QED  BY <2>8, <3>1, <3>2
  <2>10. CASE ChunkStored(n) \/ PduMismatch(n)
    <3>1. UNCHANGED <<queue, leaked, frees>> /\ dataIn' \in Written(n)
      BY <2>10 DEF ChunkStored, PduMismatch
    <3>2. dataIn'.id = x
      BY <2>4, <3>1
    <3> QED  BY <1>0, <2>8, <3>1, <3>2
  <2>11. CASE PduComplete(n)
    <3>1. PICK s \in Written(n) :
             \/ Threaded /\ queue' = Append(queue, s) /\ UNCHANGED <<frees, leaked>>
             \/ leaked' = leaked \cup {s.id} /\ UNCHANGED <<queue, frees>>
             \/ HandlerFrees(s) /\ UNCHANGED queue
      BY <2>11 DEF PduComplete
    <3>2. dataIn' = NoStream /\ s.id = x /\ s \in Stream
      BY <2>4, <2>11 DEF PduComplete
    <3>3. CASE UNCHANGED <<queue, frees>> /\ leaked' = leaked \cup {s.id}
      BY <1>0, <2>8, <3>2, <3>3
    <3>4. CASE HandlerFrees(s) /\ UNCHANGED queue
      <4>1. /\ frees' \in [Pdus -> Nat]
            /\ \A id \in Pdus : id # s.id => frees'[id] = frees[id]
            /\ \/ leaked' = leaked \cup {s.id} /\ frees' = frees
               \/ leaked' = leaked /\ frees'[s.id] = frees[s.id] + 1
        BY <1>0, <2>2, <3>2, <3>4, HandlerFacts
      <4>2. frees[x] + 1 = 1
        BY <2>2
      <4>3. CASE leaked' = leaked \cup {s.id} /\ frees' = frees
        BY <1>0, <2>8, <3>2, <3>4, <4>3
      <4>4. CASE leaked' = leaked /\ frees'[s.id] = frees[s.id] + 1
        <5>1. frees'[x] = 1
          BY <3>2, <4>2, <4>4
        <5> QED  BY <2>8, <3>2, <3>4, <4>1, <4>4, <5>1
      <4> QED  BY <4>1, <4>3, <4>4
    <3>5. CASE queue' = Append(queue, s) /\ UNCHANGED <<frees, leaked>>
      <4>1. /\ \A i \in DOMAIN queue' : \/ i \in DOMAIN queue /\ queue'[i] = queue[i]
                                        \/ i = Len(queue') /\ queue'[i] = s
            /\ Len(queue') \in DOMAIN queue' /\ queue'[Len(queue')] = s
            /\ \A i \in DOMAIN queue : i \in DOMAIN queue' /\ queue'[i] = queue[i]
        BY <1>0, <3>2, <3>5, AppendFacts
      <4>2. \A id : InQueue(id)' <=> InQueue(id) \/ id = x
        BY <3>2, <4>1 DEF InQueue
      <4>3. ASSUME NEW id \in 1..streams, id # x
            PROVE  OnePlace(id)'
        <5>1. OnePlace(id) /\ id # 0
          BY <1>0, <2>5 DEF OwnedInv
        <5>2. dataIn'.id = id <=> dataIn.id = id
          BY <2>3, <3>2, <4>3, <5>1, StreamFacts
        <5> QED  BY <2>1, <3>5, <4>2, <4>3, <5>1, <5>2, OthersStay
      <4>4. OnePlace(x)'
        <5>1. InQueue(x)' /\ current'.id # x /\ dataIn'.id # x
          BY <2>1, <2>2, <3>2, <4>2, StreamFacts
        <5>2. frees'[x] = 0 /\ x \notin leaked'
          BY <2>2, <3>5
        <5> QED  BY <5>1, <5>2 DEF OnePlace
      <4>5. \A id \in 1..streams' : OnePlace(id)'
        BY <2>2, <4>3, <4>4
      <4>6. \A id \in Pdus : id > streams' => frees'[id] = 0
        BY <1>0, <2>6, <3>5 DEF OwnedInv
      <4>7. \A i \in DOMAIN queue' : queue'[i] = Quit \/ queue'[i].id \in 1..streams'
        <5>1. \A i \in DOMAIN queue : queue[i] = Quit \/ queue[i].id \in 1..streams'
          BY <1>0, <2>5 DEF OwnedInv
        <5> QED  BY <2>2, <3>2, <4>1, <5>1
      <4>8. \A i, j \in DOMAIN queue' : queue'[i].id = queue'[j].id => i = j
        <5>1. \A i \in DOMAIN queue : queue[i].id # x
          BY <2>2 DEF InQueue
        <5> QED  BY <1>0, <3>2, <4>1, <5>1 DEF OwnedInv
      <4> QED  BY <2>7, <3>2, <4>5, <4>6, <4>7, <4>8 DEF OwnedInv
    <3> QED  BY <3>1, <3>3, <3>4, <3>5
  <2> QED  BY <1>2, <2>9, <2>10, <2>11 DEF Chunk
<1> QED  BY <1>1, <1>2

\* The thread takes a stream from the head of the queue.
LEMMA TakeOwned == HandlerInv /\ TakeMessage => OwnedInv'
<1> SUFFICES ASSUME HandlerInv, TakeMessage PROVE OwnedInv'
  OBVIOUS
<1>0. OwnedInv /\ queue \in Seq(Stream) /\ streams \in Nat
  BY DEF HandlerInv, ValueTypes, StreamsInv
<1>1. /\ threadPc = "run" /\ queue # <<>> /\ queue' = Tail(queue)
      /\ UNCHANGED <<dataIn, streams, frees, leaked>>
      /\ \/ Head(queue) = Quit /\ threadPc' = "exited" /\ current' = current
         \/ Head(queue) # Quit /\ threadPc' = "handle" /\ current' = Head(queue)
  BY DEF TakeMessage
<1> PICK m : m = Head(queue)
  OBVIOUS
<1>2. /\ m = queue[1] /\ 1 \in DOMAIN queue /\ m \in Stream
      /\ \A i \in DOMAIN queue' : /\ i + 1 \in DOMAIN queue /\ queue'[i] = queue[i + 1]
                                  /\ i + 1 # 1
      /\ \A i \in DOMAIN queue : i = 1 \/ \E j \in DOMAIN queue' : queue'[j] = queue[i]
      /\ \A i, j \in DOMAIN queue' : i + 1 = j + 1 => i = j
  BY <1>0, <1>1, TailFacts
<1>3. m = Quit \/ m.id \in 1..streams
  BY <1>0, <1>2 DEF OwnedInv
<1>4. \A id : InQueue(id) <=> id = m.id \/ InQueue(id)'
  BY <1>2 DEF InQueue
<1>5. ~InQueue(m.id)'
  <2>1. \A i \in DOMAIN queue' : queue'[i].id # m.id
    BY <1>0, <1>2 DEF OwnedInv
  <2> QED  BY <2>1 DEF InQueue
<1>6. current = NoStream
  BY <1>0, <1>1 DEF OwnedInv
<1>7. \A i \in DOMAIN queue' : queue'[i] = Quit \/ queue'[i].id \in 1..streams'
  BY <1>0, <1>1, <1>2 DEF OwnedInv
<1>8. \A i, j \in DOMAIN queue' : queue'[i].id = queue'[j].id => i = j
  BY <1>0, <1>2 DEF OwnedInv
<1>9. \A id \in 1..streams : id # 0 /\ id # -1
  BY <1>0
<1>10. CASE m = Quit
  <2>1. \A id \in 1..streams : OnePlace(id)'
    <3>1. ASSUME NEW id \in 1..streams
          PROVE  OnePlace(id)'
      <4>1. InQueue(id)' <=> InQueue(id)
        BY <1>4, <1>9, <1>10, StreamFacts
      <4>2. OnePlace(id) /\ current' = current
        BY <1>0, <1>1, <1>10 DEF OwnedInv
      <4> QED  BY <1>1, <4>1, <4>2, OthersStay
    <3> QED  BY <3>1
  <2> QED  BY <1>0, <1>1, <1>6, <1>7, <1>8, <1>10, <2>1 DEF OwnedInv
<1>11. CASE m # Quit
  <2>1. m.id \in 1..streams /\ current' = m /\ threadPc' = "handle"
    BY <1>1, <1>3, <1>11
  <2>2. m # NoStream
    BY <1>9, <2>1, StreamFacts
  <2>3. ASSUME NEW id \in 1..streams, id # m.id
        PROVE  OnePlace(id)'
    <3>1. InQueue(id)' <=> InQueue(id)
      BY <1>4, <2>3
    <3>2. current'.id # id /\ current.id # id
      BY <1>6, <1>9, <2>1, <2>3, StreamFacts
    <3>3. OnePlace(id)
      BY <1>0 DEF OwnedInv
    <3> QED  BY <1>1, <3>1, <3>2, <3>3, OthersStay
  <2>4. ASSUME NEW id, id = m.id
        PROVE  OnePlace(id)'
    <3>1. OnePlace(id) /\ InQueue(id)
      BY <1>0, <1>4, <2>1, <2>4 DEF OwnedInv
    <3>2. dataIn.id # id /\ frees[id] = 0 /\ id \notin leaked
      BY <3>1 DEF OnePlace
    <3>3. dataIn'.id # id /\ frees'[id] = 0 /\ id \notin leaked' /\ current'.id = id
          /\ ~InQueue(id)'
      BY <1>1, <1>5, <2>1, <2>4, <3>2
    <3> QED  BY <3>3 DEF OnePlace
  <2>5. \A id \in 1..streams' : OnePlace(id)'
    BY <1>1, <2>3, <2>4
  <2> QED  BY <1>0, <1>1, <1>7, <1>8, <2>1, <2>2, <2>5 DEF OwnedInv
<1> QED  BY <1>10, <1>11

\* The handler frees or loses the stream the thread has given it.
LEMMA HandleOwned == HandlerInv /\ HandleMessage => OwnedInv'
<1> SUFFICES ASSUME HandlerInv, HandleMessage PROVE OwnedInv'
  OBVIOUS
<1>0. /\ OwnedInv /\ frees \in [Pdus -> Nat] /\ streams \in Nat
      /\ Pdus = 1..Len(Lengths) /\ Len(Lengths) \in Nat /\ streams <= Len(Lengths)
  BY PdusAssumption DEF HandlerInv, StreamsInv, SenderInv, Pdus
<1>1. /\ threadPc = "handle" /\ HandlerFrees(current) /\ current' = NoStream
      /\ threadPc' \in {"failed", "run"} /\ UNCHANGED <<dataIn, queue, streams>>
  BY DEF HandleMessage
<1> PICK x : x = current.id
  OBVIOUS
<1>2. x \in 1..streams /\ x # 0
  BY <1>0, <1>1 DEF OwnedInv
<1>3. x \in Pdus /\ \A id \in 1..streams : id \in Pdus /\ id # 0
  BY <1>0, <1>2
<1>4. \A id : InQueue(id)' <=> InQueue(id)
  BY <1>1 DEF InQueue
<1>5. OnePlace(x)
  BY <1>0, <1>2 DEF OwnedInv
<1>6. dataIn.id # x /\ ~InQueue(x) /\ frees[x] = 0 /\ x \notin leaked
  BY <1>5 DEF OnePlace
<1>7. /\ \A id \in Pdus : id # x => frees'[id] = frees[id]
      /\ \/ leaked' = leaked \cup {x} /\ frees' = frees
         \/ leaked' = leaked /\ frees'[x] = frees[x] + 1
  BY <1>0, <1>1, <1>3, HandlerFacts
<1>8. \/ x \in leaked' /\ frees'[x] = 0
      \/ x \notin leaked' /\ frees'[x] = 1
  <2>1. frees[x] + 1 = 1
    BY <1>6
  <2> QED  BY <1>6, <1>7, <2>1
<1>9. OnePlace(x)'
  <2>1. dataIn'.id # x /\ current'.id # x /\ ~InQueue(x)'
    BY <1>1, <1>2, <1>4, <1>6, StreamFacts
  <2> QED  BY <1>8, <2>1 DEF OnePlace
<1>10. ASSUME NEW id \in 1..streams, id # x
       PROVE  OnePlace(id)'
  <2>1. OnePlace(id) /\ current'.id # id /\ current.id # id
    BY <1>0, <1>1, <1>3, <1>10, StreamFacts DEF OwnedInv
  <2>2. frees'[id] = frees[id] /\ (id \in leaked' <=> id \in leaked)
    BY <1>3, <1>7, <1>10
  <2> QED  BY <1>1, <1>4, <2>1, <2>2, OthersStay
<1>11. \A id \in 1..streams' : OnePlace(id)'
  BY <1>1, <1>9, <1>10
<1>12. \A id \in Pdus : id > streams' => frees'[id] = 0
  <2>1. \A id \in Pdus : id > streams => id # x
    BY <1>0, <1>2
  <2> QED  BY <1>0, <1>1, <1>7, <2>1 DEF OwnedInv
<1> QED  BY <1>0, <1>1, <1>11, <1>12 DEF OwnedInv

\* What the queue and data_in held is freed with the handler.
LEMMA FreeOwned ==
    ASSUME HandlerInv, FreeHandler, UNCHANGED <<streams, leaked, threadPc, current>>
    PROVE  OwnedInv'
<1>0. OwnedInv /\ streams \in Nat
  BY DEF HandlerInv, StreamsInv
<1>1. /\ \A id \in 1..streams :
            \/ (InQueue(id) \/ dataIn.id = id) /\ frees'[id] = 1
            \/ ~InQueue(id) /\ dataIn.id # id /\ frees'[id] = frees[id]
      /\ \A id \in Pdus : id > streams => frees'[id] = 0
      /\ \A id : ~InQueue(id)'
      /\ queue' = <<>> /\ dataIn' = NoStream
  BY FreeFacts
<1>2. ASSUME NEW id \in 1..streams
      PROVE  OnePlace(id)'
  <2>1. OnePlace(id) /\ dataIn'.id # id /\ ~InQueue(id)'
    BY <1>0, <1>1, StreamFacts DEF OwnedInv
  <2>2. CASE (InQueue(id) \/ dataIn.id = id) /\ frees'[id] = 1
    <3>1. current.id # id /\ id \notin leaked
      BY <2>1, <2>2 DEF OnePlace
    <3>2. current'.id # id /\ id \notin leaked'
      BY <3>1
    <3> QED  BY <2>1, <2>2, <3>2 DEF OnePlace
  <2>3. CASE ~InQueue(id) /\ dataIn.id # id /\ frees'[id] = frees[id]
    BY <2>1, <2>3, OthersStay
  <2> QED  BY <1>1, <2>2, <2>3
<1> QED  BY <1>0, <1>1, <1>2 DEF OwnedInv

\* WMQ_QUIT is posted once.
LEMMA QuitOwned ==
    ASSUME HandlerInv, rdpPc = "loop", queue' = Append(queue, Quit),
           UNCHANGED <<dataIn, streams, frees, leaked, threadPc, current>>
    PROVE  OwnedInv'
<1>0. /\ OwnedInv /\ ThreadsInv /\ queue \in Seq(Stream) /\ streams \in Nat
  BY DEF HandlerInv, StreamsInv, ValueTypes
<1>1. /\ \A i \in DOMAIN queue' : \/ i \in DOMAIN queue /\ queue'[i] = queue[i]
                                  \/ i = Len(queue') /\ queue'[i] = Quit
      /\ Len(queue') \in DOMAIN queue' /\ queue'[Len(queue')] = Quit
      /\ \A i \in DOMAIN queue : i \in DOMAIN queue' /\ queue'[i] = queue[i]
  BY <1>0, AppendFacts, StreamFacts
<1>2. \A i \in DOMAIN queue : queue[i].id # -1
  BY <1>0 DEF OwnedInv, ThreadsInv
<1>3. \A id \in 1..streams : InQueue(id)' <=> InQueue(id)
  <2>1. \A id \in 1..streams : id # -1
    BY <1>0
  <2> QED  BY <1>1, <2>1, StreamFacts DEF InQueue
<1>4. \A id \in 1..streams : OnePlace(id)'
  BY <1>0, <1>3, OthersStay DEF OwnedInv
<1>5. \A i, j \in DOMAIN queue' : queue'[i].id = queue'[j].id => i = j
  BY <1>0, <1>1, <1>2, StreamFacts DEF OwnedInv
<1>6. \A i \in DOMAIN queue' : queue'[i] = Quit \/ queue'[i].id \in 1..streams'
  BY <1>0, <1>1 DEF OwnedInv
<1> QED  BY <1>0, <1>4, <1>5, <1>6 DEF OwnedInv

LEMMA OwnedStep == HandlerInv /\ [Next]_vars => OwnedInv'
<1> SUFFICES ASSUME HandlerInv, [Next]_vars PROVE OwnedInv'
  OBVIOUS
<1>1. CASE Receive
  BY <1>1, ReceiveFacts, ChunkOwned DEF HandlerInv
<1>2. CASE TakeMessage \/ HandleMessage
  BY <1>2, TakeOwned, HandleOwned
<1>3. CASE Disconnect
  <2>1. /\ rdpPc = "loop" /\ UNCHANGED <<streams, leaked, threadPc, current>>
        /\ \/ queue' = Append(queue, Quit) /\ UNCHANGED <<dataIn, frees>>
           \/ FreeHandler
    BY <1>3 DEF Disconnect, threadVars
  <2> QED  BY <2>1, QuitOwned, FreeOwned
<1>4. CASE Join
  <2>1. FreeHandler /\ UNCHANGED <<streams, leaked, threadPc, current>>
    BY <1>4 DEF Join, threadVars
  <2> QED  BY <2>1, FreeOwned
<1>5. CASE Abandon \/ WaitFails \/ Finished \/ UNCHANGED vars
  <2>1. UNCHANGED <<dataIn, queue, streams, frees, leaked, threadPc, current>>
    BY <1>5 DEF Abandon, WaitFails, Finished, vars, threadVars
  <2> QED  BY <2>1 DEF HandlerInv, OwnedInv, OnePlace, InQueue
<1>6. CASE ReportError \/ UseAfterFree
  <2>1. /\ UNCHANGED <<dataIn, queue, streams, frees, leaked, current>>
        /\ \/ threadPc = "failed" /\ threadPc' = "exited"
           \/ threadPc' = "crashed"
    BY <1>6 DEF ReportError, UseAfterFree
  <2> QED  BY <2>1 DEF HandlerInv, OwnedInv, OnePlace, InQueue
<1> QED  BY <1>1, <1>2, <1>3, <1>4, <1>5, <1>6 DEF Next, Thread

-----------------------------------------------------------------------------
(* What is handled.                                                         *)

\* The queue after a step: one message more, one less, the same or none.
LEMMA QueueFacts ==
    ASSUME HandlerInv, [Next]_vars
    PROVE  \/ queue' = queue
           \/ queue' = <<>>
           \/ rdpPc = "loop" /\ \E s \in Stream : queue' = Append(queue, s)
           \/ queue # <<>> /\ queue' = Tail(queue)
<1>1. CASE Receive
  <2>1. PICK n \in Nat : Arrives(n) /\ Chunk(n)
    BY <1>1, ReceiveFacts DEF HandlerInv
  <2>2. CASE PduComplete(n)
    <3>1. Target # NoStream /\ (queue' = queue \/ \E s \in Written(n) : queue' = Append(queue, s))
      BY <2>2 DEF PduComplete
    <3>2. \A s \in Written(n) : s \in Stream
      BY <2>1, <3>1, WrittenFacts
    <3> QED  BY <2>1, <3>1, <3>2, ArrivesFacts DEF HandlerInv
  <2>3. CASE ~PduComplete(n)
    BY <2>1, <2>3 DEF Chunk, ChunkRefused, ChunkDropped, ChunkStored, PduMismatch
  <2> QED  BY <2>2, <2>3
<1>2. CASE Disconnect \/ Join
  BY <1>2, StreamFacts DEF Disconnect, Join, FreeHandler
<1>3. CASE Abandon \/ Thread \/ WaitFails \/ Finished \/ UNCHANGED vars
  BY <1>3 DEF Abandon, Thread, TakeMessage, HandleMessage, ReportError, UseAfterFree,
     WaitFails, Finished, vars
<1> QED  BY <1>1, <1>2, <1>3 DEF Next

LEMMA QuitStep == HandlerInv /\ [Next]_vars => QuitInv'
<1> SUFFICES ASSUME HandlerInv, [Next]_vars PROVE QuitInv'
  OBVIOUS
<1>0. /\ QuitInv /\ ThreadsInv /\ queue \in Seq(Stream)
  BY DEF HandlerInv, ValueTypes
<1>1. CASE queue' = queue \/ queue' = <<>>
  BY <1>0, <1>1 DEF QuitInv
<1>2. CASE rdpPc = "loop" /\ \E s \in Stream : queue' = Append(queue, s)
  <2>1. \A i \in DOMAIN queue' :
           (i \in DOMAIN queue /\ queue'[i] = queue[i]) \/ i = Len(queue')
    BY <1>0, <1>2, AppendFacts
  <2> QED  BY <1>0, <1>2, <2>1 DEF QuitInv, ThreadsInv
<1>3. CASE queue # <<>> /\ queue' = Tail(queue)
  <2>1. /\ Len(queue') = Len(queue) - 1 /\ Len(queue) \in Nat
        /\ \A i \in DOMAIN queue' : i + 1 \in DOMAIN queue /\ queue'[i] = queue[i + 1]
                                    /\ i \in Nat
    BY <1>0, <1>3, TailFacts
  <2> QED  BY <1>0, <2>1 DEF QuitInv
<1> QED  BY <1>1, <1>2, <1>3, QueueFacts

\* What the server has left unfinished stays so.
LEMMA StaysUnfinished == SenderInv /\ [Next]_vars => unfinished \subseteq unfinished'
<1> SUFFICES ASSUME SenderInv, [Next]_vars PROVE unfinished \subseteq unfinished'
  OBVIOUS
<1>1. CASE Receive
  BY <1>1, ReceiveFacts, ArrivesFacts
<1>2. CASE Abandon
  BY <1>2 DEF Abandon
<1>3. CASE Thread \/ Disconnect \/ Join \/ WaitFails \/ Finished \/ UNCHANGED vars
  BY <1>3 DEF Thread, TakeMessage, HandleMessage, ReportError, UseAfterFree,
     Disconnect, Join, WaitFails, Finished, vars, sender
<1> QED  BY <1>1, <1>2, <1>3 DEF Next

\* An error that has been reported stays so.
LEMMA ErrorStays == ErrorType /\ [Next]_vars /\ channelError => channelError'
<1> SUFFICES ASSUME ErrorType, [Next]_vars, channelError PROVE channelError'
  OBVIOUS
<1>1. CASE Receive
  <2>1. ASSUME NEW n, Chunk(n) PROVE channelError'
    BY <2>1 DEF Chunk, ChunkRefused, ChunkDropped, ChunkStored, PduMismatch, PduComplete,
       AllocationFails
  <2> QED  BY <1>1, <2>1 DEF Receive
<1>2. CASE Abandon \/ Thread \/ Disconnect \/ Join \/ WaitFails \/ Finished \/ UNCHANGED vars
  BY <1>2 DEF Abandon, Thread, TakeMessage, HandleMessage, ReportError, UseAfterFree,
     Disconnect, Join, WaitFails, Finished, vars
<1> QED  BY <1>1, <1>2 DEF Next

\* With its last chunk a PDU is whole, or behind one that was left unfinished.
LEMMA LastFacts ==
    ASSUME HandlerInv, NEW n \in Nat, Arrives(n), Last(n), Target # NoStream, NewStream,
           NEW s \in Written(n)
    PROVE  /\ s \in Stream /\ s # Quit
           /\ Sent(s.bytes, pdu', unfinished')
           /\ \/ No(s.bytes) \in unfinished
              \/ s.bytes = Whole(pdu) /\ s.capacity = Len(s.bytes)
<1>0. /\ pdu \in Pdus /\ pdu \in Nat /\ Lengths[pdu] \in Nat /\ part + n = Lengths[pdu]
      /\ pdu' = pdu + 1 /\ unfinished' = unfinished
  BY ArrivesFacts DEF HandlerInv, Arrives
<1>1. /\ s \in Stream /\ s.id = Target.id
      /\ Chain(s.bytes) /\ LastNo(s.bytes) = pdu
      /\ s.bytes[Len(s.bytes)] = <<pdu, part + n>>
      /\ \/ No(s.bytes) \in unfinished
         \/ /\ s.capacity = Lengths[pdu]
            /\ s.bytes = [k \in 1..(part + n) |-> <<pdu, k>>]
  BY WrittenFacts
<1>2. s # Quit
  <2>1. Target.id \in 1..streams' /\ streams' \in Nat
    BY TargetOwned
  <2>2. s.id # -1
    BY <1>1, <2>1
  <2> QED  BY <2>2, StreamFacts
<1>3. \/ No(s.bytes) \in unfinished
      \/ s.bytes = Whole(pdu) /\ s.capacity = Len(s.bytes)
  <2>1. CASE /\ s.capacity = Lengths[pdu]
             /\ s.bytes = [k \in 1..(part + n) |-> <<pdu, k>>]
    <3>1. s.bytes = Whole(pdu)
      BY <1>0, <2>1 DEF Whole
    <3> QED  BY <1>0, <2>1, <3>1, WholeFacts
  <2> QED  BY <1>1, <2>1
<1>4. s.bytes = Whole(No(s.bytes)) \/ No(s.bytes) \in unfinished'
  BY <1>0, <1>3, WholeFacts
<1>5. LastNo(s.bytes) < pdu'
  BY <1>0, <1>1
<1> QED  BY <1>0, <1>1, <1>2, <1>3, <1>4, <1>5 DEF Sent

\* What becomes of a chunk: it is refused or kept for the next, or the stream it
\* completes is queued or handled.
LEMMA ChunkFacts ==
    ASSUME HandlerInv, NEW n \in Nat, Arrives(n), Chunk(n)
    PROVE  \/ /\ UNCHANGED <<queue, handled, threadPc, current, rdpPc>>
              /\ Last(n) => channelError'
              /\ \/ dataIn' = NoStream
                 \/ dataIn' = dataIn /\ part = 0
                 \/ /\ Target # NoStream /\ NewStream /\ dataIn' \in Written(n)
                    /\ Last(n) => No(dataIn'.bytes) \in unfinished
           \/ /\ Last(n) /\ Target # NoStream /\ NewStream /\ dataIn' = NoStream
              /\ \E s \in Written(n) :
                    \/ Threaded /\ queue' = Append(queue, s) /\ handled' = handled
                    \/ ~Threaded /\ handled' = Append(handled, s.bytes) /\ queue' = queue
              /\ UNCHANGED <<threadPc, current, rdpPc>>
<1>1. CASE ChunkRefused(n)
  <2>1. /\ channelError' /\ UNCHANGED <<dataIn, queue, handled, threadPc, current, rdpPc>>
        /\ part = 0 \/ dataIn = NoStream
    BY <1>1 DEF ChunkRefused, AllocationFails, First, threadVars
  <2> QED  BY <2>1
<1>2. CASE ChunkDropped(n)
  BY <1>2 DEF ChunkDropped, AllocationFails, threadVars
<1>3. CASE ChunkStored(n)
  BY <1>3 DEF ChunkStored, threadVars
<1>4. CASE PduMismatch(n)
  <2>1. /\ Last(n) /\ Target # NoStream /\ NewStream /\ channelError'
        /\ UNCHANGED <<queue, handled, threadPc, current, rdpPc>>
        /\ \E s \in Written(n) : s.capacity # Len(s.bytes) /\ dataIn' = s
    BY <1>4 DEF PduMismatch, threadVars
  <2>2. No(dataIn'.bytes) \in unfinished
    BY <2>1, LastFacts
  <2> QED  BY <2>1, <2>2
<1>5. CASE PduComplete(n)
  <2>1. /\ Last(n) /\ Target # NoStream /\ NewStream /\ dataIn' = NoStream
        /\ UNCHANGED <<threadPc, current, rdpPc>>
    BY <1>5 DEF PduComplete, threadVars
  <2>2. PICK s \in Written(n) :
           \/ Threaded /\ queue' = Append(queue, s) /\ handled' = handled
           \/ channelError' /\ UNCHANGED <<queue, handled>>
           \/ ~Threaded /\ handled' = Append(handled, s.bytes) /\ queue' = queue
    BY <1>5 DEF PduComplete, AllocationFails
  <2> QED  BY <2>1, <2>2
<1> QED  BY <1>1, <1>2, <1>3, <1>4, <1>5 DEF Chunk

\* data_in holds the bytes that have come of the PDU that is being sent, or
\* begins with one that was left unfinished.
LEMMA DataStep == HandlerInv /\ [Next]_vars => DataInv'
<1> SUFFICES ASSUME HandlerInv, [Next]_vars, dataIn' # NoStream PROVE DataInv'
  BY DEF DataInv
<1>0. /\ DataInv /\ SenderInv /\ pdu \in Nat /\ part \in Nat
  BY DEF HandlerInv, SenderInv
<1>a. Chain(dataIn.bytes) => LastNo(dataIn.bytes) \in Nat
  BY WholeFacts DEF Chain
<1>1. CASE Receive
  <2>1. PICK n \in Nat : Arrives(n) /\ Chunk(n)
    BY <1>0, <1>1, ReceiveFacts
  <2>2. /\ n > 0 /\ unfinished' = unfinished
        /\ \/ ~Last(n) /\ pdu' = pdu /\ part' = part + n
           \/ Last(n) /\ pdu' = pdu + 1 /\ part' = 0
    BY <1>0, <2>1, ArrivesFacts DEF Arrives
  <2>3. CASE dataIn' = dataIn /\ part = 0
    <3>1. /\ Chain(dataIn.bytes) /\ LastNo(dataIn.bytes) <= pdu
          /\ LastNo(dataIn.bytes) # pdu /\ No(dataIn.bytes) \in unfinished
      BY <1>0, <2>3 DEF DataInv
    <3>2. LastNo(dataIn.bytes) < pdu'
      BY <1>0, <1>a, <2>2, <3>1
    <3>3. LastNo(dataIn.bytes) <= pdu' /\ LastNo(dataIn.bytes) # pdu'
      BY <1>0, <1>a, <2>2, <3>1, <3>2
    <3> QED  BY <2>2, <2>3, <3>1, <3>3 DEF DataInv
  <2>4. CASE /\ Target # NoStream /\ NewStream /\ dataIn' \in Written(n)
             /\ Last(n) => No(dataIn'.bytes) \in unfinished
    <3> DEFINE s == dataIn'
    <3>1. /\ Chain(s.bytes) /\ LastNo(s.bytes) = pdu
          /\ s.bytes[Len(s.bytes)] = <<pdu, part + n>>
          /\ \/ No(s.bytes) \in unfinished
             \/ /\ s.capacity = Lengths[pdu]
                /\ s.bytes = [k \in 1..(part + n) |-> <<pdu, k>>]
      BY <2>1, <2>4, WrittenFacts
    <3>2. CASE ~Last(n)
      <4>1. part' > 0 /\ pdu <= pdu
        BY <1>0, <2>2, <3>2
      <4> QED  BY <2>2, <3>1, <3>2, <4>1 DEF DataInv
    <3>3. CASE Last(n)
      <4>1. pdu <= pdu' /\ pdu # pdu'
        BY <1>0, <2>2, <3>3
      <4> QED  BY <2>2, <2>4, <3>1, <3>3, <4>1 DEF DataInv
    <3> QED  BY <3>2, <3>3
  <2> QED  BY <2>1, <2>3, <2>4, ChunkFacts
<1>2. CASE Abandon
  <2>1. /\ pdu' = pdu + 1 /\ unfinished' = unfinished \cup {pdu} /\ dataIn' = dataIn
    BY <1>2 DEF Abandon
  <2>2. Chain(dataIn.bytes) /\ LastNo(dataIn.bytes) <= pdu
    BY <1>0, <2>1 DEF DataInv
  <2>3. LastNo(dataIn.bytes) <= pdu' /\ LastNo(dataIn.bytes) # pdu'
    BY <1>0, <1>a, <2>1, <2>2
  <2>4. No(dataIn.bytes) \in unfinished'
    <3>1. CASE No(dataIn.bytes) \in unfinished
      BY <2>1, <3>1
    <3>2. CASE part > 0 /\ dataIn.bytes = [k \in 1..part |-> <<pdu, k>>]
      <4>1. dataIn.bytes[1] = <<pdu, 1>>
        BY <1>0, <3>2
      <4> QED  BY <2>1, <4>1 DEF No
    <3> QED  BY <1>0, <2>1, <3>1, <3>2 DEF DataInv
  <2> QED  BY <2>1, <2>2, <2>3, <2>4 DEF DataInv
<1>3. CASE Thread \/ Disconnect \/ Join \/ WaitFails \/ Finished \/ UNCHANGED vars
  <2>1. /\ UNCHANGED <<pdu, part, unfinished>>
        /\ dataIn' = dataIn \/ dataIn' = NoStream
    BY <1>3 DEF Thread, TakeMessage, HandleMessage, ReportError, UseAfterFree,
       Disconnect, Join, WaitFails, FreeHandler, Finished, vars, sender
  <2> QED  BY <1>0, <2>1 DEF DataInv
<1> QED  BY <1>1, <1>2, <1>3 DEF Next

\* What was sent stays sent.
LEMMA SentStays ==
    ASSUME SenderInv, [Next]_vars
    PROVE  \A bytes : Sent(bytes, pdu, unfinished) => Sent(bytes, pdu', unfinished')
<1>0. pdu \in Nat
  BY DEF SenderInv
<1>1. pdu' = pdu \/ pdu' = pdu + 1
  <2>1. CASE Receive
    BY <2>1, ReceiveFacts, ArrivesFacts
  <2>2. CASE Abandon
    BY <2>2 DEF Abandon
  <2>3. CASE Thread \/ Disconnect \/ Join \/ WaitFails \/ Finished \/ UNCHANGED vars
    BY <2>3 DEF Thread, TakeMessage, HandleMessage, ReportError, UseAfterFree,
       Disconnect, Join, WaitFails, Finished, vars, sender
  <2> QED  BY <2>1, <2>2, <2>3 DEF Next
<1>2. \A m \in Nat : m < pdu => m < pdu'
  BY <1>0, <1>1
<1>3. \A bytes : Chain(bytes) => LastNo(bytes) \in Nat
  BY WholeFacts DEF Chain
<1>4. unfinished \subseteq unfinished'
  BY StaysUnfinished
<1> QED  BY <1>2, <1>3, <1>4 DEF Sent

\* What was put together before comes before what a chunk is written to.
LEMMA BeforeWritten ==
    ASSUME HandlerInv, NEW n \in Nat, Arrives(n), Target # NoStream, NEW s \in Written(n)
    PROVE  /\ \A i \in DOMAIN handled : Before(handled[i], s.bytes)
           /\ threadPc = "handle" => Before(current.bytes, s.bytes)
           /\ \A i \in DOMAIN queue : queue[i] # Quit => Before(queue[i].bytes, s.bytes)
<1>1. CASE dataIn # NoStream /\ No(s.bytes) = No(dataIn.bytes)
  BY <1>1 DEF HandlerInv, OrderInv, Before
<1>2. CASE dataIn = NoStream /\ No(s.bytes) = pdu
  BY <1>2 DEF HandlerInv, OrderInv, Before, Sent
<1> QED  BY <1>1, <1>2, WrittenFacts

\* PDUs are handled in the order they were sent, whole unless they were left
\* unfinished.
LEMMA OrderStep == HandlerInv /\ [Next]_vars => OrderInv'
<1> SUFFICES ASSUME HandlerInv, [Next]_vars PROVE OrderInv'
  OBVIOUS
<1>0. /\ SenderInv /\ ThreadsInv /\ OrderInv /\ pdu \in Nat
      /\ queue \in Seq(Stream) /\ handled \in Seq(Bytes) /\ current \in Stream
  BY DEF HandlerInv, SenderInv, ValueTypes
<1>2. /\ \A i \in DOMAIN handled : Sent(handled[i], pdu', unfinished')
      /\ threadPc = "handle" => Sent(current.bytes, pdu', unfinished')
      /\ \A i \in DOMAIN queue : queue[i] # Quit => Sent(queue[i].bytes, pdu', unfinished')
  BY <1>0, SentStays DEF OrderInv
<1>3. /\ \A i, j \in DOMAIN handled : i < j => Before(handled[i], handled[j])
      /\ \A i \in DOMAIN handled :
            /\ threadPc = "handle" => Before(handled[i], current.bytes)
            /\ \A j \in DOMAIN queue : queue[j] # Quit => Before(handled[i], queue[j].bytes)
      /\ \A i, j \in DOMAIN queue :
            i < j /\ queue[i] # Quit /\ queue[j] # Quit =>
               Before(queue[i].bytes, queue[j].bytes)
      /\ threadPc = "handle" =>
            \A i \in DOMAIN queue :
               queue[i] # Quit => Before(current.bytes, queue[i].bytes)
  BY <1>0 DEF OrderInv
<1>4. dataIn # NoStream =>
         /\ \A i \in DOMAIN handled : Before(handled[i], dataIn.bytes)
         /\ threadPc = "handle" => Before(current.bytes, dataIn.bytes)
         /\ \A i \in DOMAIN queue :
               queue[i] # Quit => Before(queue[i].bytes, dataIn.bytes)
  BY <1>0 DEF OrderInv
\* Nothing new is in data_in, the queue, the thread's hands or what was handled.
<1>5. ASSUME handled' = handled,
             threadPc' = "handle" => threadPc = "handle" /\ current' = current,
             \A i \in DOMAIN queue' : queue'[i] # Quit => i \in DOMAIN queue /\ queue'[i] = queue[i],
             dataIn' = dataIn \/ dataIn' = NoStream
      PROVE  OrderInv'
  <2>1. dataIn' # NoStream => dataIn' = dataIn
    BY <1>5
  <2> QED  BY <1>2, <1>3, <1>4, <1>5, <2>1 DEF OrderInv
<1>6. ASSUME NEW e \in Stream, queue' = Append(queue, e)
      PROVE  /\ \A i \in DOMAIN queue' :
                   \/ i \in DOMAIN queue /\ queue'[i] = queue[i]
                   \/ i = Len(queue') /\ queue'[i] = e
             /\ \A i, j \in DOMAIN queue' : i < j => i \in DOMAIN queue /\ queue'[i] = queue[i]
  BY <1>0, <1>6, AppendFacts
<1>7. CASE Receive
  <2>1. PICK n \in Nat : Arrives(n) /\ Chunk(n)
    BY <1>0, <1>7, ReceiveFacts
  <2>2. CASE UNCHANGED <<queue, handled, threadPc, current>>
             /\ (dataIn' = NoStream \/ dataIn' = dataIn)
    BY <1>5, <2>2
  <2>3. CASE UNCHANGED <<queue, handled, threadPc, current>>
             /\ Target # NoStream /\ dataIn' \in Written(n)
    <3>1. /\ \A i \in DOMAIN handled : Before(handled[i], dataIn'.bytes)
          /\ threadPc = "handle" => Before(current.bytes, dataIn'.bytes)
          /\ \A i \in DOMAIN queue : queue[i] # Quit => Before(queue[i].bytes, dataIn'.bytes)
      BY <2>1, <2>3, BeforeWritten
    <3> QED  BY <1>2, <1>3, <2>3, <3>1 DEF OrderInv
  <2>4. ASSUME Last(n), Target # NoStream, NewStream, dataIn' = NoStream,
               NEW s \in Written(n), UNCHANGED <<threadPc, current, handled>>,
               queue' = Append(queue, s)
        PROVE  OrderInv'
    <3>1. s \in Stream /\ Sent(s.bytes, pdu', unfinished')
      BY <2>1, <2>4, LastFacts
    <3>2. /\ \A i \in DOMAIN handled : Before(handled[i], s.bytes)
          /\ threadPc = "handle" => Before(current.bytes, s.bytes)
          /\ \A i \in DOMAIN queue : queue[i] # Quit => Before(queue[i].bytes, s.bytes)
      BY <2>1, <2>4, BeforeWritten
    <3>3. \A i \in DOMAIN queue' : queue'[i] # Quit => Sent(queue'[i].bytes, pdu', unfinished')
      BY <1>2, <1>6, <2>4, <3>1
    <3>4. \A i \in DOMAIN handled : \A j \in DOMAIN queue' :
             queue'[j] # Quit => Before(handled[i], queue'[j].bytes)
      BY <1>3, <1>6, <2>4, <3>1, <3>2
    <3>5. \A i, j \in DOMAIN queue' :
             i < j /\ queue'[i] # Quit /\ queue'[j] # Quit =>
                Before(queue'[i].bytes, queue'[j].bytes)
      BY <1>3, <1>6, <2>4, <3>1, <3>2
    <3>6. threadPc = "handle" => \A i \in DOMAIN queue' :
             queue'[i] # Quit => Before(current.bytes, queue'[i].bytes)
      BY <1>3, <1>6, <2>4, <3>1, <3>2
    <3> QED  BY <1>2, <1>3, <2>4, <3>3, <3>4, <3>5, <3>6 DEF OrderInv
  <2>5. ASSUME Last(n), Target # NoStream, NewStream, dataIn' = NoStream,
               NEW s \in Written(n), ~Threaded, UNCHANGED <<threadPc, current, queue>>,
               handled' = Append(handled, s.bytes)
        PROVE  OrderInv'
    <3>1. s \in Stream /\ Sent(s.bytes, pdu', unfinished')
      BY <2>1, <2>5, LastFacts
    <3>2. \A i \in DOMAIN handled : Before(handled[i], s.bytes)
      BY <2>1, <2>5, BeforeWritten
    <3>3. threadPc' # "handle" /\ queue' = <<>>
      BY <1>0, <2>5 DEF ThreadsInv, Threaded
    <3>4. /\ \A i \in DOMAIN handled' : \/ i \in DOMAIN handled /\ handled'[i] = handled[i]
                                        \/ i = Len(handled') /\ handled'[i] = s.bytes
          /\ \A i, j \in DOMAIN handled' :
                i < j => i \in DOMAIN handled /\ handled'[i] = handled[i]
      <4>1. s.bytes \in Bytes
        BY <3>1 DEF Stream
      <4> QED  BY <1>0, <2>5, <4>1, AppendFacts
    <3>5. \A i \in DOMAIN handled' : Sent(handled'[i], pdu', unfinished')
      BY <1>2, <3>1, <3>4
    <3>6. \A i, j \in DOMAIN handled' : i < j => Before(handled'[i], handled'[j])
      BY <1>3, <3>2, <3>4
    <3> QED  BY <2>5, <3>3, <3>5, <3>6 DEF OrderInv
  <2> QED  BY <2>1, <2>2, <2>3, <2>4, <2>5, ChunkFacts
<1>8. CASE TakeMessage
  <2>1. /\ queue # <<>> /\ queue' = Tail(queue) /\ handled' = handled /\ dataIn' = dataIn
        /\ threadPc' = "handle" => Head(queue) # Quit /\ current' = Head(queue)
    BY <1>8 DEF TakeMessage
  <2>2. /\ \A i \in DOMAIN queue' : /\ i + 1 \in DOMAIN queue /\ queue'[i] = queue[i + 1]
                                    /\ 1 < i + 1
        /\ \A i, j \in DOMAIN queue' : i < j => i + 1 < j + 1
        /\ Head(queue) = queue[1] /\ 1 \in DOMAIN queue
    BY <1>0, <2>1, TailFacts
  <2>3. \A i \in DOMAIN queue' : queue'[i] # Quit => Sent(queue'[i].bytes, pdu', unfinished')
    BY <1>2, <2>2
  <2>4. \A i \in DOMAIN handled : \A j \in DOMAIN queue' :
           queue'[j] # Quit => Before(handled[i], queue'[j].bytes)
    BY <1>3, <2>2
  <2>5. \A i, j \in DOMAIN queue' :
           i < j /\ queue'[i] # Quit /\ queue'[j] # Quit =>
              Before(queue'[i].bytes, queue'[j].bytes)
    BY <1>3, <2>2
  <2>6. threadPc' = "handle" =>
           /\ Sent(current'.bytes, pdu', unfinished')
           /\ \A i \in DOMAIN handled : Before(handled[i], current'.bytes)
           /\ \A i \in DOMAIN queue' :
                 queue'[i] # Quit => Before(current'.bytes, queue'[i].bytes)
    BY <1>2, <1>3, <2>1, <2>2
  <2>7. dataIn # NoStream =>
           /\ \A i \in DOMAIN handled : Before(handled[i], dataIn.bytes)
           /\ threadPc' = "handle" => Before(current'.bytes, dataIn.bytes)
           /\ \A i \in DOMAIN queue' : queue'[i] # Quit => Before(queue'[i].bytes, dataIn.bytes)
    BY <1>4, <2>1, <2>2
  <2> QED  BY <1>2, <1>3, <2>1, <2>3, <2>4, <2>5, <2>6, <2>7 DEF OrderInv
<1>9. CASE HandleMessage
  <2>1. /\ handled' = Append(handled, current.bytes) /\ queue' = queue /\ dataIn' = dataIn
        /\ threadPc = "handle" /\ threadPc' # "handle"
    BY <1>9 DEF HandleMessage
  <2>2. /\ \A i \in DOMAIN handled' : \/ i \in DOMAIN handled /\ handled'[i] = handled[i]
                                      \/ i = Len(handled') /\ handled'[i] = current.bytes
        /\ \A i, j \in DOMAIN handled' :
              i < j => i \in DOMAIN handled /\ handled'[i] = handled[i]
    <3>1. current.bytes \in Bytes
      BY <1>0 DEF Stream
    <3> QED  BY <1>0, <2>1, <3>1, AppendFacts
  <2>3. \A i \in DOMAIN handled' : Sent(handled'[i], pdu', unfinished')
    BY <1>2, <2>1, <2>2
  <2>4. \A i, j \in DOMAIN handled' : i < j => Before(handled'[i], handled'[j])
    BY <1>3, <2>1, <2>2
  <2>5. \A i \in DOMAIN handled' : \A j \in DOMAIN queue :
           queue[j] # Quit => Before(handled'[i], queue[j].bytes)
    BY <1>3, <2>1, <2>2
  <2>6. dataIn # NoStream => \A i \in DOMAIN handled' : Before(handled'[i], dataIn.bytes)
    BY <1>4, <2>1, <2>2
  <2> QED  BY <1>2, <1>3, <1>4, <2>1, <2>3, <2>4, <2>5, <2>6 DEF OrderInv
<1>10. CASE Disconnect
  <2>1. /\ UNCHANGED <<handled, threadPc, current>>
        /\ queue' = Append(queue, Quit) \/ queue' = <<>>
        /\ dataIn' = dataIn \/ dataIn' = NoStream
    BY <1>10 DEF Disconnect, FreeHandler, threadVars
  <2>2. CASE queue' = <<>>
    BY <1>5, <2>1, <2>2
  <2>3. CASE queue' = Append(queue, Quit)
    <3>1. \A i \in DOMAIN queue' : queue'[i] # Quit => i \in DOMAIN queue /\ queue'[i] = queue[i]
      BY <1>6, <2>3, StreamFacts
    <3> QED  BY <1>5, <2>1, <3>1
  <2> QED  BY <2>1, <2>2, <2>3
<1>11. CASE Join
  <2>1. UNCHANGED <<handled, threadPc, current>> /\ queue' = <<>> /\ dataIn' = NoStream
    BY <1>11 DEF Join, FreeHandler, threadVars
  <2> QED  BY <1>5, <2>1
<1>12. CASE Abandon \/ WaitFails \/ Finished \/ ReportError \/ UseAfterFree \/ UNCHANGED vars
  <2>1. /\ UNCHANGED <<handled, current, queue, dataIn>>
        /\ threadPc' = threadPc \/ threadPc' \in {"exited", "crashed"}
    BY <1>12 DEF Abandon, WaitFails, Finished, ReportError, UseAfterFree, vars, threadVars
  <2> QED  BY <1>5, <2>1
<1> QED  BY <1>7, <1>8, <1>9, <1>10, <1>11, <1>12 DEF Next, Thread

\* None is missing while nothing has gone wrong.
LEMMA CompleteStep == HandlerInv /\ [Next]_vars => CompleteInv'
<1> SUFFICES ASSUME HandlerInv, [Next]_vars, unfinished' = {}, ~channelError'
             PROVE  CompleteInv'
  BY DEF CompleteInv
<1>0. /\ SenderInv /\ ErrorType /\ ThreadsInv /\ QuitInv /\ CompleteInv /\ pdu \in Nat
      /\ queue \in Seq(Stream) /\ handled \in Seq(Bytes) /\ current \in Stream
      /\ Len(handled) \in Nat /\ Len(queue) \in Nat
  BY DEF HandlerInv, SenderInv, ValueTypes
<1>1. unfinished = {} /\ ~channelError
  BY <1>0, StaysUnfinished, ErrorStays
<1>2. /\ \A i \in DOMAIN handled : handled[i] = Whole(i)
      /\ threadPc = "handle" => current.bytes = Whole(Len(handled) + 1)
      /\ \A i \in DOMAIN queue : queue[i] # Quit => queue[i].bytes = Whole(Taken + i)
      /\ rdpPc = "loop" => pdu = Taken + Len(queue) + 1
  BY <1>0, <1>1 DEF CompleteInv
<1>3. Taken \in Nat
  BY <1>0 DEF Taken
<1>4. ASSUME UNCHANGED <<handled, current, pdu>>, rdpPc' = "loop" => rdpPc = "loop" /\ queue' = queue,
             threadPc' = "handle" <=> threadPc = "handle",
             \A i \in DOMAIN queue' : queue'[i] = Quit \/ (i \in DOMAIN queue /\ queue'[i] = queue[i])
      PROVE  CompleteInv'
  <2>1. Taken' = Taken
    BY <1>4 DEF Taken
  <2> QED  BY <1>2, <1>4, <2>1 DEF CompleteInv
<1>5. CASE Receive
  <2>1. PICK n \in Nat : Arrives(n) /\ Chunk(n)
    BY <1>0, <1>5, ReceiveFacts
  <2>2. rdpPc = "loop"
    BY <2>1 DEF Arrives
  <2>3. CASE ~Last(n) /\ UNCHANGED <<queue, handled, threadPc, current, rdpPc>>
    <3>1. pdu' = pdu
      BY <2>1, <2>3 DEF Arrives
    <3>2. \A i \in DOMAIN queue' : i \in DOMAIN queue /\ queue'[i] = queue[i]
      BY <2>3
    <3> QED  BY <1>4, <2>2, <2>3, <3>1, <3>2
  <2>4. Last(n) => pdu' = pdu + 1
    BY <2>1 DEF Arrives
  <2>5. ASSUME Last(n), NEW s \in Stream, s.bytes = Whole(pdu),
               UNCHANGED <<threadPc, current, handled, rdpPc>>, queue' = Append(queue, s)
        PROVE  CompleteInv'
    <3>1. Taken' = Taken
      BY <2>5 DEF Taken
    <3>2. /\ Len(queue') = Len(queue) + 1
          /\ \A i \in DOMAIN queue' : \/ i \in DOMAIN queue /\ queue'[i] = queue[i]
                                      \/ i = Len(queue') /\ queue'[i] = s
      BY <1>0, <2>5, AppendFacts
    <3>3. pdu = Taken + Len(queue')
      BY <1>0, <1>2, <1>3, <2>2, <3>2
    <3>4. \A i \in DOMAIN queue' : queue'[i] # Quit => queue'[i].bytes = Whole(Taken + i)
      BY <1>2, <2>5, <3>2, <3>3
    <3>5. pdu' = Taken + Len(queue') + 1
      BY <2>4, <2>5, <3>3
    <3> QED  BY <1>2, <2>5, <3>1, <3>4, <3>5 DEF CompleteInv
  <2>6. ASSUME Last(n), NEW s \in Stream, s.bytes = Whole(pdu), ~Threaded,
               UNCHANGED <<threadPc, current, queue, rdpPc>>,
               handled' = Append(handled, s.bytes)
        PROVE  CompleteInv'
    <3>1. threadPc' # "handle" /\ queue' = <<>> /\ threadPc # "handle" /\ queue = <<>>
      BY <1>0, <2>6 DEF ThreadsInv, Threaded
    <3>2. Taken = Len(handled) /\ Taken' = Len(handled')
      BY <1>0, <2>6, <3>1 DEF Taken
    <3>3. /\ Len(handled') = Len(handled) + 1
          /\ \A i \in DOMAIN handled' : \/ i \in DOMAIN handled /\ handled'[i] = handled[i]
                                        \/ i = Len(handled') /\ handled'[i] = s.bytes
      <4>1. s.bytes \in Bytes
        BY DEF Stream
      <4> QED  BY <1>0, <2>6, <4>1, AppendFacts
    <3>4. pdu = Len(handled') /\ pdu' = Len(handled') + 1
      <4>1. Len(queue) = 0
        BY <3>1
      <4> QED  BY <1>0, <1>2, <2>2, <2>4, <2>6, <3>2, <3>3, <4>1
    <3>5. \A i \in DOMAIN handled' : handled'[i] = Whole(i)
      BY <1>2, <2>6, <3>3, <3>4
    <3>6. pdu' = Taken' + Len(queue') + 1
      <4>1. Len(queue') = 0 /\ Len(handled') \in Nat
        BY <1>0, <3>1, <3>3
      <4> QED  BY <3>2, <3>4, <4>1
    <3> QED  BY <3>1, <3>5, <3>6 DEF CompleteInv
  <2>7. \A s \in Written(n) :
           Last(n) /\ Target # NoStream /\ NewStream => s \in Stream /\ s.bytes = Whole(pdu)
    BY <1>1, <2>1, LastFacts
  <2>8. CASE Last(n) /\ channelError'
    BY <2>8
  <2> QED  BY <2>1, <2>3, <2>5, <2>6, <2>7, <2>8, ChunkFacts
<1>6. CASE TakeMessage
  <2>1. /\ queue # <<>> /\ queue' = Tail(queue) /\ UNCHANGED <<handled, pdu, rdpPc>>
        /\ threadPc = "run"
        /\ \/ Head(queue) = Quit /\ threadPc' = "exited" /\ current' = current
           \/ Head(queue) # Quit /\ threadPc' = "handle" /\ current' = Head(queue)
    BY <1>6 DEF TakeMessage, sender
  <2>2. /\ Len(queue') = Len(queue) - 1 /\ Head(queue) = queue[1] /\ 1 \in DOMAIN queue
        /\ \A i \in DOMAIN queue' : /\ i + 1 \in DOMAIN queue /\ queue'[i] = queue[i + 1]
                                    /\ i \in Nat
    BY <1>0, <2>1, TailFacts
  <2>3. Taken = Len(handled)
    BY <1>0, <2>1 DEF Taken
  <2>4. CASE Head(queue) = Quit
    <3>1. Len(queue) = 1
      BY <1>0, <2>2, <2>4 DEF QuitInv
    <3>2. \A i \in DOMAIN queue' : FALSE
      BY <1>0, <2>2, <3>1
    <3>3. rdpPc # "loop"
      BY <1>0, <2>2, <2>4 DEF ThreadsInv
    <3> QED  BY <1>2, <2>1, <2>4, <3>2, <3>3 DEF CompleteInv
  <2>5. CASE Head(queue) # Quit
    <3>1. Taken' = Len(handled) + 1
      BY <2>1, <2>5 DEF Taken
    <3>2. current'.bytes = Whole(Len(handled) + 1)
      BY <1>2, <2>1, <2>2, <2>3, <2>5
    <3>3. \A i \in DOMAIN queue' : queue'[i] # Quit => queue'[i].bytes = Whole(Taken' + i)
      <4>1. \A i \in DOMAIN queue' : Taken + (i + 1) = Taken' + i
        <5>1. \A k, i \in Nat : k + (i + 1) = (k + 1) + i
          OBVIOUS
        <5>2. \A i \in DOMAIN queue' : i \in Nat
          BY <2>2
        <5> QED  BY <1>0, <2>3, <3>1, <5>1, <5>2
      <4> QED  BY <1>2, <2>2, <4>1
    <3>4. rdpPc = "loop" => pdu = Taken' + Len(queue') + 1
      BY <1>0, <1>2, <2>2, <2>3, <3>1
    <3> QED  BY <1>2, <2>1, <3>2, <3>3, <3>4 DEF CompleteInv
  <2> QED  BY <2>4, <2>5
<1>7. CASE HandleMessage
  <2>1. /\ handled' = Append(handled, current.bytes) /\ UNCHANGED <<queue, pdu, rdpPc>>
        /\ threadPc = "handle" /\ threadPc' # "handle"
    BY <1>7 DEF HandleMessage, sender
  <2>2. /\ Len(handled') = Len(handled) + 1
        /\ \A i \in DOMAIN handled' : \/ i \in DOMAIN handled /\ handled'[i] = handled[i]
                                      \/ i = Len(handled') /\ handled'[i] = current.bytes
    <3>1. current.bytes \in Bytes
      BY <1>0 DEF Stream
    <3> QED  BY <1>0, <2>1, <3>1, AppendFacts
  <2>3. Taken' = Taken
    BY <1>0, <2>1, <2>2 DEF Taken
  <2>4. \A i \in DOMAIN handled' : handled'[i] = Whole(i)
    BY <1>2, <2>1, <2>2
  <2> QED  BY <1>2, <2>1, <2>3, <2>4 DEF CompleteInv
<1>8. CASE Disconnect
  <2>1. /\ UNCHANGED <<handled, pdu, current, threadPc>> /\ rdpPc' # "loop"
        /\ queue' = Append(queue, Quit) \/ queue' = <<>>
    BY <1>8 DEF Disconnect, FreeHandler, threadVars, sender
  <2>2. \A i \in DOMAIN queue' : queue'[i] = Quit \/ (i \in DOMAIN queue /\ queue'[i] = queue[i])
    BY <1>0, <2>1, AppendFacts, StreamFacts
  <2> QED  BY <1>4, <2>1, <2>2
<1>9. CASE Join
  <2>1. /\ UNCHANGED <<handled, pdu, current, threadPc>> /\ rdpPc' # "loop" /\ queue' = <<>>
    BY <1>9 DEF Join, FreeHandler, threadVars, sender
  <2> QED  BY <1>4, <2>1
<1>14. CASE WaitFails
  <2>1. /\ UNCHANGED <<handled, pdu, current, threadPc, queue>> /\ rdpPc' # "loop"
    BY <1>14 DEF WaitFails, threadVars, sender
  <2> QED  BY <1>4, <2>1
<1>10. CASE Abandon
  <2>1. unfinished' = unfinished \cup {pdu}
    BY <1>10 DEF Abandon
  <2> QED  BY <2>1
<1>11. CASE ReportError
  BY <1>11 DEF ReportError
<1>12. CASE UseAfterFree
  <2>1. /\ UNCHANGED <<handled, pdu, current, queue, rdpPc>> /\ rdpPc = "freed"
        /\ threadPc' = "crashed"
    BY <1>12 DEF UseAfterFree, sender
  <2>2. queue = <<>>
    BY <1>0, <2>1 DEF ThreadsInv
  <2> QED  BY <1>2, <2>1, <2>2 DEF CompleteInv
<1>13. CASE Finished \/ UNCHANGED vars
  <2>1. UNCHANGED <<handled, pdu, current, queue, rdpPc, threadPc>>
    BY <1>13 DEF Finished, vars, sender, threadVars
  <2> QED  BY <1>4, <2>1
<1> QED  BY <1>5, <1>6, <1>7, <1>8, <1>9, <1>10, <1>11, <1>12, <1>13, <1>14 DEF Next, Thread

\* After a PDU that failed the thread handles nothing more.
LEMMA FailureStep == HandlerInv /\ [Next]_vars => FailureInv'
<1> SUFFICES ASSUME HandlerInv, [Next]_vars, Threaded'
             PROVE  FailureInv'
  BY DEF FailureInv
<1>0. /\ SenderInv /\ ThreadsInv /\ FailureInv /\ OrderInv
      /\ handled \in Seq(Bytes) /\ current \in Stream /\ Len(handled) \in Nat
  BY DEF HandlerInv, ValueTypes
<1> DEFINE Failing == Fails \cup Malformed
<1>2. Threaded =>
         /\ \A i \in 1..(Len(handled) - 1) : No(handled[i]) \notin Failing
         /\ threadPc \in {"run", "handle"} => \A i \in DOMAIN handled : No(handled[i]) \notin Failing
  BY <1>0 DEF FailureInv
<1>3. ASSUME handled' = handled, Threaded,
             threadPc' \in {"run", "handle"} => threadPc \in {"run", "handle"}
      PROVE  FailureInv'
  BY <1>2, <1>3 DEF FailureInv
<1>4. CASE Receive
  <2>1. PICK n \in Nat : Arrives(n) /\ Chunk(n)
    BY <1>0, <1>4, ReceiveFacts
  <2>2. threadPc' = threadPc /\ (Threaded => handled' = handled)
    BY <2>1, ChunkFacts
  <2>3. Threaded
    BY <2>2 DEF Threaded
  <2> QED  BY <1>3, <2>2, <2>3
<1>5. CASE TakeMessage \/ ReportError \/ UseAfterFree
  <2>1. /\ handled' = handled /\ threadPc # "none"
        /\ threadPc' \in {"run", "handle"} => threadPc \in {"run", "handle"}
    BY <1>5 DEF TakeMessage, ReportError, UseAfterFree
  <2> QED  BY <1>3, <2>1 DEF Threaded
<1>6. CASE HandleMessage
  <2>1. /\ handled' = Append(handled, current.bytes) /\ threadPc = "handle"
        /\ threadPc' = IF HandlerFails(current) THEN "failed" ELSE "run"
    BY <1>6 DEF HandleMessage
  <2>2. /\ Len(handled') = Len(handled) + 1
        /\ \A i \in DOMAIN handled' : \/ i \in DOMAIN handled /\ handled'[i] = handled[i]
                                      \/ i = Len(handled') /\ handled'[i] = current.bytes
        /\ \A i \in DOMAIN handled : i \in DOMAIN handled' /\ handled'[i] = handled[i]
    <3>1. current.bytes \in Bytes
      BY <1>0 DEF Stream
    <3> QED  BY <1>0, <2>1, <3>1, AppendFacts
  <2>3. \A i \in DOMAIN handled : No(handled[i]) \notin Failing
    BY <1>2, <2>1 DEF Threaded
  <2>4. \A i \in 1..(Len(handled') - 1) : i \in DOMAIN handled
    BY <1>0, <2>2
  <2>5. \A i \in 1..(Len(handled') - 1) : No(handled'[i]) \notin Failing
    BY <2>2, <2>3, <2>4
  <2>6. threadPc' \in {"run", "handle"} => No(current.bytes) \notin Failing
    BY <2>1 DEF HandlerFails
  <2>7. threadPc' \in {"run", "handle"} => \A i \in DOMAIN handled' : No(handled'[i]) \notin Failing
    BY <2>2, <2>3, <2>6
  <2> QED  BY <2>5, <2>7 DEF FailureInv
<1>7. CASE Abandon \/ Disconnect \/ Join \/ WaitFails \/ Finished \/ UNCHANGED vars
  <2>1. handled' = handled /\ threadPc' = threadPc
    BY <1>7 DEF Abandon, Disconnect, Join, WaitFails, Finished, vars, threadVars
  <2>2. Threaded
    BY <2>1 DEF Threaded
  <2> QED  BY <1>3, <2>1, <2>2
<1> QED  BY <1>4, <1>5, <1>6, <1>7 DEF Next, Thread

-----------------------------------------------------------------------------
(* The theorems.                                                            *)

LEMMA InitHandler == Init => HandlerInv
<1> SUFFICES ASSUME Init PROVE HandlerInv
  OBVIOUS
<1>0. /\ pdu = 1 /\ part = 0 /\ unfinished = {} /\ dataIn = NoStream /\ queue = <<>>
      /\ streams = 0 /\ frees = [id \in Pdus |-> 0] /\ leaked = {}
      /\ threadPc \in {"run", "none"} /\ current = NoStream /\ handled = <<>>
      /\ channelError = FALSE /\ rdpPc = "loop" /\ failures = 0
  BY DEF Init
<1>1. Len(Lengths) \in Nat /\ MaxAbandoned \in Nat /\ MaxFailures \in Nat
  BY PdusAssumption
<1>2. Len(queue) = 0 /\ Len(handled) = 0
  BY <1>0
<1>3. ErrorType /\ SenderInv /\ ValueTypes
  <2>1. ErrorType
    BY <1>0 DEF ErrorType
  <2>2. SenderInv
    BY <1>0, <1>1 DEF SenderInv
  <2>3. ValueTypes
    <3>1. <<>> \in Seq(Stream) /\ <<>> \in Seq(Bytes) /\ 0 \in 0..MaxFailures
      BY <1>1
    <3> QED  BY <1>0, <3>1, StreamFacts DEF ValueTypes
  <2> QED  BY <2>1, <2>2, <2>3
<1>4. StreamsInv /\ ThreadsInv /\ QuitInv
  BY <1>0 DEF StreamsInv, ThreadsInv, QuitInv, Threaded
<1>5. OwnedInv
  BY <1>0 DEF OwnedInv
<1>6. Taken = 0
  BY <1>0, <1>2 DEF Taken
<1>7. DataInv /\ OrderInv /\ CompleteInv /\ FailureInv
  BY <1>0, <1>2, <1>6 DEF DataInv, OrderInv, CompleteInv, FailureInv
<1> QED  BY <1>3, <1>4, <1>5, <1>7 DEF HandlerInv

\* The invariant holds however the server cuts its PDUs and whichever it leaves
\* unfinished, however the two threads interleave, and whatever fails.
THEOREM Invariance == Spec => []HandlerInv
<1>1. HandlerInv /\ [Next]_vars => HandlerInv'
  <2> SUFFICES ASSUME HandlerInv, [Next]_vars PROVE HandlerInv'
    OBVIOUS
  <2>1. ErrorType' /\ SenderInv' /\ ValueTypes' /\ StreamsInv' /\ ThreadsInv'
    BY ErrorStep, SenderStep, ValueTypesStep, StreamsStep, ThreadsStep DEF HandlerInv
  <2>2. QuitInv' /\ OwnedInv' /\ DataInv' /\ OrderInv' /\ CompleteInv' /\ FailureInv'
    BY QuitStep, OwnedStep, DataStep, OrderStep, CompleteStep, FailureStep
  <2> QED  BY <2>1, <2>2 DEF HandlerInv
<1> QED  BY <1>1, InitHandler, PTL DEF Spec

\* Every variable of the handler has its type; at most one stream is made per PDU.
THEOREM TypeCorrect == Spec => []TypeOK
<1>1. HandlerInv => TypeOK
  <2> SUFFICES ASSUME HandlerInv PROVE TypeOK
    OBVIOUS
  <2>1. /\ streams \in Nat /\ streams <= pdu /\ (part = 0 => streams < pdu)
        /\ pdu \in Nat /\ part \in Nat /\ pdu <= Len(Lengths) + 1 /\ Len(Lengths) \in Nat
        /\ part > 0 => pdu <= Len(Lengths)
    BY PdusAssumption DEF HandlerInv, StreamsInv, SenderInv, Pdus
  <2>2. streams \in 0..Len(Lengths)
    BY <2>1
  <2> QED  BY <2>2 DEF HandlerInv, ErrorType, SenderInv, ValueTypes, StreamsInv, ThreadsInv,
              TypeOK
<1> QED  BY <1>1, Invariance, PTL

\* Whatever the server leaves unfinished and whatever fails, what reaches msg_handler
\* was sent in that order: each time one whole PDU, or bytes that begin with a PDU
\* that was left unfinished and go on with the next ones.  None is missing while
\* nothing was left unfinished and no error was reported, and none follows one that
\* failed on the thread.
THEOREM HandledWhole == Spec => []HandledExactly
<1>1. HandlerInv => HandledExactly
  <2> SUFFICES ASSUME HandlerInv PROVE HandledExactly
    OBVIOUS
  <2>1. ASSUME NEW i \in DOMAIN handled
        PROVE  /\ InOrder(handled[i])
               /\ handled[i] = Whole(No(handled[i])) \/ No(handled[i]) \in unfinished
               /\ i > 1 => LastNo(handled[i - 1]) < No(handled[i])
    <3>1. Sent(handled[i], pdu, unfinished)
      BY DEF HandlerInv, OrderInv
    <3>2. InOrder(handled[i])
      BY <3>1 DEF Sent, Chain, InOrder
    <3>3. i > 1 => LastNo(handled[i - 1]) < No(handled[i])
      <4>1. handled \in Seq(Bytes)
        BY DEF HandlerInv, ValueTypes
      <4>2. i > 1 => i - 1 \in DOMAIN handled /\ i - 1 < i
        BY <4>1
      <4> QED  BY <4>2 DEF HandlerInv, OrderInv, Before
    <3> QED  BY <3>1, <3>2, <3>3 DEF Sent
  <2>2. unfinished = {} /\ ~channelError => \A i \in DOMAIN handled : handled[i] = Whole(i)
    BY DEF HandlerInv, CompleteInv
  <2>3. Threaded => \A i \in 1..(Len(handled) - 1) : No(handled[i]) \notin Fails \cup Malformed
    BY DEF HandlerInv, FailureInv
  <2> QED  BY <2>1, <2>2, <2>3 DEF HandledExactly
<1> QED  BY <1>1, Invariance, PTL

\* A stream is freed at most once and not while it is in use, and when the thread
\* has gone no stream is left that was not freed or lost.
THEOREM FreedOnce == Spec => []FreedExactlyOnce
<1>1. HandlerInv => FreedExactlyOnce
  <2> SUFFICES ASSUME HandlerInv, NEW id \in 1..streams
               PROVE  /\ frees[id] <= 1
                      /\ frees[id] = 1 =>
                            /\ id \notin leaked \cup {dataIn.id, current.id}
                            /\ \A j \in DOMAIN queue : queue[j].id # id
                      /\ rdpPc = "freed" /\ threadPc \in {"none", "exited"} =>
                            frees[id] = 1 \/ id \in leaked
    BY DEF FreedExactlyOnce
  <2>1. OnePlace(id) /\ id # 0
    BY DEF HandlerInv, OwnedInv, StreamsInv
  <2>2. frees[id] <= 1
    BY <2>1 DEF OnePlace
  <2>3. frees[id] = 1 => /\ id \notin leaked \cup {dataIn.id, current.id}
                         /\ \A j \in DOMAIN queue : queue[j].id # id
    BY <2>1 DEF OnePlace, InQueue
  <2>4. ASSUME rdpPc = "freed", threadPc \in {"none", "exited"}
        PROVE  frees[id] = 1 \/ id \in leaked
    <3>1. queue = <<>> /\ dataIn = NoStream /\ current = NoStream
      BY <2>4 DEF HandlerInv, ThreadsInv, OwnedInv
    <3>2. ~InQueue(id) /\ dataIn.id # id /\ current.id # id
      BY <2>1, <3>1, StreamFacts DEF InQueue
    <3> QED  BY <2>1, <3>2 DEF OnePlace
  <2> QED  BY <2>2, <2>3, <2>4
<1> QED  BY <1>1, Invariance, PTL

\* internals is freed under its thread only if something failed: the request to
\* quit was not posted.
THEOREM Outlives == Spec => []OutlivesThread
<1>1. HandlerInv => OutlivesThread
  BY DEF HandlerInv, ThreadsInv, OutlivesThread
<1> QED  BY <1>1, Invariance, PTL

==============================================================================
