--------------------------- MODULE FileServeProofs ---------------------------
(***************************************************************************)
(* What FileServe's run shows of one directory and two copies, for any     *)
(* disk, any copies and any requests: a list is the whole of the copy it   *)
(* was asked for if the user has copied nothing else since, answers are    *)
(* about the file the server means, and a server that keeps to what it was *)
(* told is not cut off.                                                    *)
(***************************************************************************)
EXTENDS FileServe, FiniteSetTheorems, TLAPS

-----------------------------------------------------------------------------
(* The inductive invariant.                                                 *)

FileState == [length : 0..MaxLength, version : 0..MaxEdits, named : BOOLEAN]

\* A version is the number of an edit.
DiskInv ==
    /\ disk \in [Files -> FileState]
    /\ edits \in 0..MaxEdits
    /\ \A f \in Files : disk[f].version <= edits

GuiInv ==
    /\ copied \in Seq(Clips) /\ Len(copied) <= MaxCopies
    /\ infoFiles \in Seq(EntryType)
    /\ changes \in Nat /\ seen \in Nat /\ seen <= changes
    /\ listed \in Nat /\ listed <= Len(copied)
    /\ announced \in Nat /\ announced <= listed
    /\ guiPc \in {"idle", "collect"} /\ todo \in Seq(Nodes)
    /\ guiPc = "idle" => todo = <<>>
    /\ guiPc = "collect" => announced < listed

ListInv ==
    /\ list \in [entries : Seq(EntryType), copy : Nat, asked : Nat, sound : BOOLEAN]
    /\ list.copy <= listed /\ list.asked <= announced

RequestInv ==
    /\ request \in [kind : {"none", "list", "size", "badSize", "neither", "range"},
                    index : Nat, offset : Nat, count : Nat, copy : Nat]
    /\ request.copy <= announced

\* Where the channel thread is in its request.  What it refers to has not been
\* changed as long as the server's request is about the last copy.
ChannelInv ==
    /\ channelPc \in {"idle", "describe", "size", "range", "opened", "sized"}
    /\ channelPc = "describe" => request.kind = "list"
    /\ channelPc = "size" => request.kind = "size"
    /\ channelPc \in {"range", "opened", "sized"} => request.kind = "range"
    /\ handle \in Files \cup {"none"}
    /\ channelPc \in {"opened", "sized"} => handle \in Files
    /\ wanted \in 0..(Word - 1)
    /\ channelPc # "idle" /\ request.copy = listed => seen = changes
    /\ session \in {"up", "ended", "crashed"}

\* An entry tells what the file of the disk was like at its version.
EntryHolds(e, files) ==
    /\ e.dir => e.node \in Dirs /\ e.total = 0
    /\ ~e.dir => /\ e.node \in Files /\ e.version <= files[e.node].version
                 /\ e.version = files[e.node].version =>
                       files[e.node].named /\ files[e.node].length = e.total

EntriesInv == \A i \in DOMAIN infoFiles : EntryHolds(infoFiles[i], disk)

\* Until the user copies something else the list the server has been given is
\* the beginning of the vector.
PrefixInv ==
    list.sound /\ list.copy = listed =>
    \A i \in DOMAIN list.entries : i \in DOMAIN infoFiles /\ list.entries[i] = infoFiles[i]

\* The range that is being read lies in the file the server means.
RangeInv ==
    InList(request) /\ listed = request.copy =>
    /\ channelPc \in {"opened", "sized"} =>
          /\ handle = Meant(request).node
          /\ ~Meant(request).dir /\ request.offset < Meant(request).total
    /\ channelPc = "sized" =>
          /\ wanted <= request.count
          /\ disk[handle].version = Meant(request).version =>
                wanted = Least(request.count, Meant(request).total - request.offset)

All == Reachable(Urls(copied[listed]))
Covered == {n \in Nodes : Contained(n) \/ n \in ToSet(todo) \/ ~Exists(n)}

\* What the urls lead to is in the vector, still to be looked at, or gone; and
\* nothing else, and nothing twice.
CollectInv ==
    listed # 0 =>
    /\ \A i \in DOMAIN infoFiles : infoFiles[i].node \in All
    /\ ToSet(todo) \subseteq All
    /\ ToSet(Urls(copied[listed])) \subseteq Covered
    /\ \A d \in Dirs : Contained(d) => ToSet(Inside[d]) \subseteq Covered
    /\ \A i, j \in DOMAIN infoFiles : infoFiles[i].node = infoFiles[j].node => i = j

ServeInv ==
    /\ DiskInv /\ GuiInv /\ ListInv /\ RequestInv /\ ChannelInv
    /\ EntriesInv /\ PrefixInv /\ RangeInv /\ CollectInv
    /\ ListComplete /\ SessionKept

-----------------------------------------------------------------------------
(* The operators.                                                           *)

\* The constants.
LEMMA ConstantFacts ==
    /\ Word \in Nat /\ Word > 0 /\ MaxLength \in Nat /\ MaxLength < Word
    /\ MaxEdits \in Nat /\ MaxCopies \in Nat
    /\ \A clip \in Clips : Urls(clip) \in Seq(Nodes)
    /\ \A d \in Dirs : Inside[d] \in Seq(Nodes)
    /\ \A d \in Dirs : d \notin Files
  BY FileServeAssumption DEF Urls

\* Unsigned subtraction.
LEMMA ModFacts ==
    ASSUME NEW x \in Int
    PROVE  /\ x % Word \in 0..(Word - 1)
           /\ 0 <= x /\ x <= MaxLength => x % Word = x
  BY ConstantFacts

\* What is appended comes last.
LEMMA AppendFacts ==
    ASSUME NEW S, NEW s \in Seq(S), NEW e \in S
    PROVE  LET t == Append(s, e)
           IN  /\ t \in Seq(S) /\ Len(t) = Len(s) + 1 /\ Len(s) \in Nat
               /\ Len(t) \in DOMAIN t /\ t[Len(t)] = e
               /\ \A i \in DOMAIN t : \/ i \in DOMAIN s /\ t[i] = s[i]
                                      \/ i = Len(t) /\ t[i] = e
               /\ \A i \in DOMAIN s : i \in DOMAIN t /\ t[i] = s[i]
               /\ \A i \in Nat : 0 < i /\ i <= Len(s) => i \in DOMAIN s
               /\ t # <<>>
  OBVIOUS

\* What a sequence begins with, and what follows it.
LEMMA HeadFacts ==
    ASSUME NEW S, NEW s \in Seq(S), s # <<>>
    PROVE  /\ Head(s) \in S /\ Tail(s) \in Seq(S)
           /\ ToSet(s) = {Head(s)} \cup ToSet(Tail(s))
<1>1. Head(s) \in S /\ Tail(s) \in Seq(S) /\ Head(s) = s[1] /\ 1 \in DOMAIN s
  OBVIOUS
<1>2. \A i \in DOMAIN Tail(s) : i + 1 \in DOMAIN s /\ Tail(s)[i] = s[i + 1]
  OBVIOUS
<1>3. \A i \in DOMAIN s : i = 1 \/ (i - 1 \in DOMAIN Tail(s) /\ Tail(s)[i - 1] = s[i])
  OBVIOUS
<1> PICK t : t = Tail(s)
  OBVIOUS
<1>4. ToSet(s) \subseteq {Head(s)} \cup ToSet(t)
  BY <1>1, <1>3 DEF ToSet
<1>5. {Head(s)} \cup ToSet(t) \subseteq ToSet(s)
  BY <1>1, <1>2 DEF ToSet
<1> QED  BY <1>1, <1>4, <1>5

\* What two sequences hold together.
LEMMA ConcatFacts ==
    ASSUME NEW S, NEW s \in Seq(S), NEW t \in Seq(S)
    PROVE  s \o t \in Seq(S) /\ ToSet(s \o t) = ToSet(s) \cup ToSet(t)
<1> PICK u : u = s \o t
  OBVIOUS
<1>1. /\ u \in Seq(S) /\ Len(u) = Len(s) + Len(t) /\ Len(s) \in Nat /\ Len(t) \in Nat
      /\ \A i \in DOMAIN s : i \in DOMAIN u /\ u[i] = s[i]
      /\ \A i \in DOMAIN t : Len(s) + i \in DOMAIN u /\ u[Len(s) + i] = t[i]
  OBVIOUS
<1>2. \A i \in DOMAIN u : \/ i \in DOMAIN s /\ u[i] = s[i]
                          \/ i - Len(s) \in DOMAIN t /\ u[i] = t[i - Len(s)]
  OBVIOUS
<1>3. ToSet(u) \subseteq ToSet(s) \cup ToSet(t)
  BY <1>2 DEF ToSet
<1>4. ToSet(s) \cup ToSet(t) \subseteq ToSet(u)
  <2>1. \A i \in DOMAIN t : \E j \in DOMAIN u : u[j] = t[i]
    BY <1>1
  <2>2. \A i \in DOMAIN s : \E j \in DOMAIN u : u[j] = s[i]
    BY <1>1
  <2>3. ToSet(t) \subseteq ToSet(u)
    BY <2>1 DEF ToSet
  <2>4. ToSet(s) \subseteq ToSet(u)
    BY <2>2 DEF ToSet
  <2> QED  BY <2>3, <2>4
<1> QED  BY <1>1, <1>3, <1>4

\* The nodes a list of urls leads to: its own, and with a directory its entries,
\* and no more than any set of nodes closed in this way.
LEMMA ReachableFacts ==
    ASSUME NEW urls \in Seq(Nodes)
    PROVE  /\ ToSet(urls) \subseteq Reachable(urls)
           /\ \A d \in Dirs : d \in Reachable(urls) => ToSet(Inside[d]) \subseteq Reachable(urls)
           /\ \A S \in SUBSET Nodes :
                 /\ ToSet(urls) \subseteq S
                 /\ \A d \in S \cap Dirs : ToSet(Inside[d]) \subseteq S
                 => Reachable(urls) \subseteq S
<1>1. ToSet(urls) \subseteq Nodes
  BY DEF ToSet
<1>2. \A d \in Dirs : ToSet(Inside[d]) \subseteq Nodes
  BY ConstantFacts DEF ToSet
<1>3. ToSet(urls) \subseteq Reachable(urls)
  BY <1>1 DEF Reachable
<1>4. ASSUME NEW d \in Dirs, d \in Reachable(urls), NEW n \in ToSet(Inside[d])
      PROVE  n \in Reachable(urls)
  BY <1>2, <1>4 DEF Reachable
<1>5. ASSUME NEW S \in SUBSET Nodes, ToSet(urls) \subseteq S,
             \A d \in S \cap Dirs : ToSet(Inside[d]) \subseteq S
      PROVE  Reachable(urls) \subseteq S
  BY <1>5 DEF Reachable
<1> QED  BY <1>3, <1>4, <1>5

\* A list of entries with different nodes is as long as there are nodes in it.
LEMMA DistinctFacts ==
    ASSUME NEW s \in Seq(EntryType),
           \A i, j \in DOMAIN s : s[i].node = s[j].node => i = j
    PROVE  Len(s) = Cardinality({s[i].node : i \in DOMAIN s})
<1> DEFINE T == {s[i].node : i \in DOMAIN s}
<1> DEFINE f == [i \in 1..Len(s) |-> s[i].node]
<1>1. Len(s) \in Nat /\ DOMAIN s = 1..Len(s)
  OBVIOUS
<1>2. f \in [1..Len(s) -> T]
  BY <1>1
<1>3. f \in Bijection(1..Len(s), T)
  <2>1. \A i, j \in 1..Len(s) : f[i] = f[j] => i = j
    BY <1>1
  <2>2. \A t \in T : \E i \in 1..Len(s) : f[i] = t
    BY <1>1
  <2> QED  BY <1>2, <2>1, <2>2 DEF Bijection, Injection, Surjection, IsInjective
<1>4. ExistsBijection(1..Len(s), T)
  BY <1>3 DEF ExistsBijection
<1> QED  BY <1>1, <1>4, FS_CountingElements

\* The disk after an edit: a file that has a name has a new version.
LEMMA EditFacts ==
    ASSUME DiskInv, Edit
    PROVE  /\ DiskInv'
           /\ \A f \in Files :
                 \/ disk'[f] = disk[f]
                 \/ disk[f].named /\ disk'[f].version = disk[f].version + 1
           /\ \A f \in Files : disk[f].version \in Nat
           /\ UNCHANGED <<gui, list, request, channel, answer, session>>
<1>1. /\ disk \in [Files -> FileState] /\ edits \in 0..MaxEdits /\ MaxEdits \in Nat
      /\ edits < MaxEdits /\ edits' = edits + 1
      /\ \A f \in Files : disk[f].version <= edits
  BY ConstantFacts DEF DiskInv, Edit
<1>2. PICK f \in Files :
         /\ disk[f].named
         /\ \/ \E n \in 0..MaxLength :
                  disk' = [disk EXCEPT ![f].length = n, ![f].version = @ + 1]
            \/ disk' = [disk EXCEPT ![f].named = FALSE, ![f].version = @ + 1]
  BY DEF Edit
<1>3. \A g \in Files : disk[g] \in FileState /\ disk[g].version \in 0..MaxEdits
  BY <1>1 DEF FileState
<1>4. disk[f].version + 1 \in 0..MaxEdits /\ disk[f].version + 1 <= edits'
  BY <1>1, <1>3
<1>5. PICK r : disk' = [disk EXCEPT ![f] = r] /\ r \in FileState /\ r.version = disk[f].version + 1
  <2>1. CASE \E n \in 0..MaxLength :
                disk' = [disk EXCEPT ![f].length = n, ![f].version = @ + 1]
    <3>1. PICK n \in 0..MaxLength :
             disk' = [disk EXCEPT ![f].length = n, ![f].version = @ + 1]
      BY <2>1
    <3> DEFINE r == [disk[f] EXCEPT !.length = n, !.version = disk[f].version + 1]
    <3>2. disk' = [disk EXCEPT ![f] = r]
      BY <1>1, <1>3, <3>1 DEF FileState
    <3>3. r \in FileState /\ r.version = disk[f].version + 1
      BY <1>3, <1>4 DEF FileState
    <3> QED  BY <3>2, <3>3
  <2>2. CASE disk' = [disk EXCEPT ![f].named = FALSE, ![f].version = @ + 1]
    <3> DEFINE r == [disk[f] EXCEPT !.named = FALSE, !.version = disk[f].version + 1]
    <3>2. disk' = [disk EXCEPT ![f] = r]
      BY <1>1, <1>3, <2>2 DEF FileState
    <3>3. r \in FileState /\ r.version = disk[f].version + 1
      BY <1>3, <1>4 DEF FileState
    <3> QED  BY <3>2, <3>3
  <2> QED  BY <1>2, <2>1, <2>2
<1>6. disk' \in [Files -> FileState] /\ disk'[f] = r /\ \A g \in Files : g # f => disk'[g] = disk[g]
  BY <1>1, <1>5
<1>7. edits' \in 0..MaxEdits
  BY <1>1
<1>8. \A g \in Files : disk'[g].version <= edits'
  <2>1. \A g \in Files : disk[g].version <= edits'
    BY <1>1, <1>3
  <2> QED  BY <1>4, <1>5, <1>6, <2>1
<1>9. \A g \in Files : disk[g].version \in Nat
  BY <1>3
<1>10. UNCHANGED <<gui, list, request, channel, answer, session>>
  BY DEF Edit
<1> QED  BY <1>2, <1>5, <1>6, <1>7, <1>8, <1>9, <1>10 DEF DiskInv

\* What is listed of a node.
LEMMA EntryFacts ==
    ASSUME DiskInv, NEW node \in Nodes
    PROVE  /\ Entry(node) \in EntryType /\ Entry(node).node = node
           /\ Exists(node) => EntryHolds(Entry(node), disk)
<1>1. CASE node \in Dirs
  <2>1. Entry(node) = [node |-> node, dir |-> TRUE, total |-> 0, version |-> 0]
    BY <1>1 DEF Entry
  <2>2. 0 \in 0..MaxLength /\ 0 \in 0..MaxEdits
    BY ConstantFacts
  <2>3. Entry(node) \in EntryType
    BY <2>1, <2>2 DEF EntryType
  <2> QED  BY <1>1, <2>1, <2>3 DEF EntryHolds
<1>2. CASE node \notin Dirs
  <2>1. node \in Files
    BY <1>2 DEF Nodes
  <2>2. /\ disk[node] \in FileState
        /\ disk[node].length \in 0..MaxLength /\ disk[node].version \in 0..MaxEdits
    BY <2>1 DEF DiskInv, FileState
  <2>3. Entry(node) = [node |-> node, dir |-> FALSE, total |-> disk[node].length,
                       version |-> disk[node].version]
    BY <1>2 DEF Entry
  <2>4. Entry(node) \in EntryType
    BY <2>2, <2>3 DEF EntryType
  <2>5. Exists(node) => disk[node].named
    BY <2>1 DEF Exists
  <2>6. disk[node].version <= disk[node].version
    BY <2>2
  <2>7. Exists(node) => EntryHolds(Entry(node), disk)
    BY <2>1, <2>3, <2>5, <2>6 DEF EntryHolds
  <2> QED  BY <2>3, <2>4, <2>7
<1> QED  BY <1>1, <1>2

\* An entry keeps telling what its file was like.
LEMMA EntryStays ==
    ASSUME DiskInv, NEW e \in EntryType, EntryHolds(e, disk),
           Edit \/ disk' = disk
    PROVE  EntryHolds(e, disk')
<1>1. CASE disk' = disk
  BY <1>1 DEF EntryHolds
<1>2. CASE Edit
  <2>1. CASE e.dir
    BY <2>1 DEF EntryHolds
  <2>2. CASE ~e.dir
    <3>1. /\ e.node \in Files /\ e.version <= disk[e.node].version
          /\ e.version = disk[e.node].version =>
                disk[e.node].named /\ disk[e.node].length = e.total
      BY <2>2 DEF EntryHolds
    <3>2. e.version \in Nat
      BY ConstantFacts DEF EntryType
    <3>3. /\ disk[e.node].version \in Nat
          /\ \/ disk'[e.node] = disk[e.node]
             \/ disk'[e.node].version = disk[e.node].version + 1
      BY <1>2, <3>1, EditFacts
    <3>4. CASE disk'[e.node] = disk[e.node]
      BY <2>2, <3>1, <3>4 DEF EntryHolds
    <3>5. CASE disk'[e.node].version = disk[e.node].version + 1
      <4>1. e.version <= disk'[e.node].version /\ e.version # disk'[e.node].version
        BY <3>1, <3>2, <3>3, <3>5
      <4> QED  BY <2>2, <3>1, <4>1 DEF EntryHolds
    <3> QED  BY <3>3, <3>4, <3>5
  <2> QED  BY <2>1, <2>2
<1> QED  BY <1>1, <1>2

\* A file that is gone does not come back.
LEMMA GoneStays ==
    ASSUME DiskInv, Edit \/ disk' = disk, NEW n
    PROVE  Exists(n)' => Exists(n)
  BY EditFacts DEF Exists

\* Which of the variables each part of the system changes.
LEMMA PartFacts ==
    ASSUME [Next]_vars
    PROVE  /\ Edit \/ disk' = disk
           /\ Channel \/ list' = list
           /\ \/ Edit /\ UNCHANGED <<gui, list, request, channel, session>>
              \/ /\ Copy \/ AppendFile \/ Announce
                 /\ UNCHANGED <<local, list, request, channel, session>>
              \/ ServerAsks /\ UNCHANGED <<local, gui, list, channel, session>>
              \/ Channel /\ UNCHANGED <<local, gui>>
              \/ UNCHANGED vars
           /\ UNCHANGED vars \/ session = "up"
<1>7. UNCHANGED vars \/ Next
  OBVIOUS
<1>8. Next => session = "up"
  BY DEF Next
<1>1. CASE UNCHANGED vars
  <2>1. disk' = disk /\ list' = list
    BY <1>1 DEF vars, local
  <2> QED  BY <1>1, <2>1
<1>2. CASE Edit
  <2>1. UNCHANGED <<gui, list, request, channel, session>>
    BY <1>2 DEF Edit
  <2> QED  BY <1>2, <2>1, <1>7, <1>8
<1>3. CASE Copy
  <2>1. UNCHANGED <<local, list, request, channel, session>>
    BY <1>3 DEF Copy
  <2>2. disk' = disk
    BY <2>1 DEF local
  <2> QED  BY <1>3, <2>1, <2>2, <1>7, <1>8
<1>4. CASE AppendFile \/ Announce
  <2>1. UNCHANGED <<local, list, request, channel, session>>
    BY <1>4 DEF AppendFile, Announce
  <2>2. disk' = disk
    BY <2>1 DEF local
  <2> QED  BY <1>4, <2>1, <2>2, <1>7, <1>8
<1>5. CASE ServerAsks
  <2>1. UNCHANGED <<local, gui, list, channel, session>>
    BY <1>5 DEF ServerAsks
  <2>2. disk' = disk
    BY <2>1 DEF local
  <2> QED  BY <1>5, <2>1, <2>2, <1>7, <1>8
<1>6. CASE Channel
  <2>1. UNCHANGED <<local, gui>>
    BY <1>6 DEF Channel, TakeListRequest, AnswerList, TakeContentsRequest, AnswerSize,
       OpenRange, SizeRange, ReadRange
  <2>2. disk' = disk
    BY <2>1 DEF local
  <2> QED  BY <1>6, <2>1, <2>2, <1>7, <1>8
<1> QED  BY <1>1, <1>2, <1>3, <1>4, <1>5, <1>6, <1>7 DEF Next, Gui

-----------------------------------------------------------------------------
(* Each conjunct of the invariant.                                          *)

\* The disk keeps its type.
LEMMA DiskStep == DiskInv /\ [Next]_vars => DiskInv'
<1> SUFFICES ASSUME DiskInv, [Next]_vars PROVE DiskInv'
  OBVIOUS
<1>1. CASE Edit
  BY <1>1, EditFacts
<1>2. CASE UNCHANGED local
  BY <1>2 DEF local, DiskInv
<1> QED  BY <1>1, <1>2, PartFacts DEF vars

\* The user copies something.
LEMMA CopyFacts ==
    ASSUME GuiInv, Copy
    PROVE  /\ GuiInv'
           /\ guiPc = "idle"
           /\ \E clip \in Clips :
                 /\ copied' = Append(copied, clip)
                 /\ \/ UNCHANGED <<infoFiles, changes, listed, guiPc, todo, announced>>
                    \/ /\ infoFiles' = <<>> /\ listed' = Len(copied) + 1
                       /\ todo' = Urls(clip) /\ guiPc' = "collect"
                       /\ announced' = announced
           /\ listed <= listed' /\ (listed' = listed \/ listed' > listed)
<1>1. PICK clip \in Clips :
         /\ copied' = Append(copied, clip)
         /\ \/ UNCHANGED <<infoFiles, changes, listed, guiPc, todo>>
            \/ /\ infoFiles' = <<>> /\ listed' = Len(copied) + 1 /\ changes' = changes + 1
               /\ todo' = Urls(clip) /\ guiPc' = "collect"
  BY DEF Copy
<1>2. guiPc = "idle" /\ Len(copied) < MaxCopies /\ announced' = announced /\ seen' = seen
  BY DEF Copy, channel
<1>3. /\ copied \in Seq(Clips) /\ MaxCopies \in Nat /\ infoFiles \in Seq(EntryType)
      /\ changes \in Nat /\ seen \in Nat /\ seen <= changes
      /\ listed \in Nat /\ listed <= Len(copied) /\ announced \in Nat /\ announced <= listed
      /\ todo \in Seq(Nodes) /\ todo = <<>>
  BY <1>2, ConstantFacts DEF GuiInv
<1>4. /\ copied' \in Seq(Clips) /\ Len(copied') = Len(copied) + 1 /\ Len(copied) \in Nat
  BY <1>1, <1>3, AppendFacts
<1>5. Len(copied') <= MaxCopies /\ listed <= Len(copied')
  BY <1>2, <1>3, <1>4
<1>6. CASE UNCHANGED <<infoFiles, changes, listed, guiPc, todo>>
  <2>1. GuiInv'
    BY <1>2, <1>3, <1>4, <1>5, <1>6 DEF GuiInv
  <2> QED  BY <1>1, <1>2, <1>3, <1>6, <2>1
<1>7. CASE /\ infoFiles' = <<>> /\ listed' = Len(copied) + 1 /\ changes' = changes + 1
           /\ todo' = Urls(clip) /\ guiPc' = "collect"
  <2>1. /\ changes' \in Nat /\ seen' <= changes' /\ listed' \in Nat /\ listed' > listed
        /\ listed' <= Len(copied') /\ announced' < listed' /\ announced' <= listed'
        /\ listed <= listed'
    BY <1>2, <1>3, <1>4, <1>7
  <2>2. todo' \in Seq(Nodes) /\ infoFiles' \in Seq(EntryType)
    BY <1>7, ConstantFacts
  <2>3. GuiInv'
    BY <1>2, <1>3, <1>4, <1>5, <1>7, <2>1, <2>2 DEF GuiInv
  <2> QED  BY <1>1, <1>2, <1>7, <2>1, <2>3
<1> QED  BY <1>1, <1>6, <1>7

\* A node is looked at.
LEMMA AppendFileFacts ==
    ASSUME DiskInv, GuiInv, AppendFile
    PROVE  /\ GuiInv'
           /\ guiPc = "collect" /\ announced < listed /\ listed # 0
           /\ UNCHANGED <<copied, listed, guiPc, announced, seen, disk>>
           /\ \E node \in Nodes :
                 /\ \/ /\ Exists(node) /\ ~Contained(node)
                       /\ infoFiles' = Append(infoFiles, Entry(node))
                    \/ /\ Exists(node) => Contained(node)
                       /\ infoFiles' = infoFiles
                 /\ ToSet(todo) = {node} \cup ToSet(Tail(todo))
                 /\ ToSet(todo') = ToSet(Tail(todo)) \cup
                                       IF node \in Dirs THEN ToSet(Inside[node]) ELSE {}
<1>1. /\ guiPc = "collect" /\ todo # <<>>
      /\ UNCHANGED <<copied, listed, guiPc, announced, seen, disk>>
  BY DEF AppendFile, channel, local
<1>2. /\ infoFiles \in Seq(EntryType) /\ changes \in Nat /\ seen \in Nat /\ seen <= changes
      /\ todo \in Seq(Nodes) /\ announced < listed /\ announced \in Nat /\ listed \in Nat
  BY <1>1 DEF GuiInv
<1> PICK node : node = Head(todo)
  OBVIOUS
<1>3. node \in Nodes /\ Tail(todo) \in Seq(Nodes) /\ ToSet(todo) = {node} \cup ToSet(Tail(todo))
  BY <1>1, <1>2, HeadFacts
<1>4. /\ \/ /\ Exists(node) /\ ~Contained(node)
            /\ infoFiles' = Append(infoFiles, Entry(node)) /\ changes' = changes + 1
         \/ /\ Exists(node) => Contained(node)
            /\ infoFiles' = infoFiles /\ changes' = changes
      /\ todo' = (IF node \in Dirs THEN Inside[node] ELSE <<>>) \o Tail(todo)
  BY DEF AppendFile
<1> PICK inner : inner = (IF node \in Dirs THEN Inside[node] ELSE <<>>)
  OBVIOUS
<1>5. /\ inner \in Seq(Nodes)
      /\ ToSet(inner) = IF node \in Dirs THEN ToSet(Inside[node]) ELSE {}
  <2>1. CASE node \in Dirs
    BY <2>1, ConstantFacts
  <2>2. CASE node \notin Dirs
    <3>1. inner = <<>>
      BY <2>2
    <3> QED  BY <2>2, <3>1 DEF ToSet
  <2> QED  BY <2>1, <2>2
<1>6. todo' \in Seq(Nodes) /\ ToSet(todo') = ToSet(inner) \cup ToSet(Tail(todo))
  <2>1. todo' = inner \o Tail(todo)
    BY <1>4
  <2>2. \A t \in Seq(Nodes) : /\ inner \o t \in Seq(Nodes)
                             /\ ToSet(inner \o t) = ToSet(inner) \cup ToSet(t)
    BY <1>5, ConcatFacts
  <2> QED  BY <1>3, <2>1, <2>2
<1>7. infoFiles' \in Seq(EntryType)
  <2>1. Entry(node) \in EntryType
    BY <1>3, EntryFacts
  <2>2. Append(infoFiles, Entry(node)) \in Seq(EntryType)
    BY <1>2, <2>1, AppendFacts
  <2> QED  BY <1>2, <1>4, <2>2
<1>8. changes' \in Nat /\ seen' <= changes'
  BY <1>1, <1>2, <1>4
<1>9. GuiInv'
  BY <1>1, <1>2, <1>6, <1>7, <1>8 DEF GuiInv
<1>10. listed # 0
  BY <1>2
<1> QED  BY <1>1, <1>2, <1>3, <1>4, <1>5, <1>6, <1>9, <1>10

\* The list is announced.
LEMMA AnnounceFacts ==
    ASSUME GuiInv, Announce
    PROVE  /\ GuiInv'
           /\ announced <= announced' /\ guiPc = "collect" /\ announced < listed
           /\ UNCHANGED <<copied, infoFiles, changes, listed, todo>>
<1>1. /\ guiPc = "collect" /\ todo = <<>> /\ guiPc' = "idle"
      /\ announced' = announced \/ announced' = listed
      /\ UNCHANGED <<copied, infoFiles, changes, listed, todo, seen>>
  BY DEF Announce, channel
<1>2. announced \in Nat /\ listed \in Nat /\ announced < listed
  BY <1>1 DEF GuiInv
<1>3. announced <= announced' /\ announced' \in Nat /\ announced' <= listed
  BY <1>1, <1>2
<1> QED  BY <1>1, <1>2, <1>3 DEF GuiInv

\* The channel thread answers a request, gives up the session, takes a request,
\* opens a file or works out how much to read of it.
Answered == /\ request' = NoRequest /\ channelPc' = "idle" /\ seen' = 0 /\ handle' = "none"
            /\ wanted' = 0 /\ session' = session
GivenUp == session' \in {"ended", "crashed"} /\ UNCHANGED <<request, channel, list>>
Taken == /\ channelPc = "idle" /\ seen' = changes
         /\ \/ channelPc' = "describe" /\ request.kind = "list"
            \/ channelPc' = "size" /\ request.kind = "size"
            \/ channelPc' = "range" /\ request.kind = "range"
         /\ UNCHANGED <<request, handle, wanted, session, list>>
Opened == /\ channelPc = "range" /\ ~Torn /\ ~Referred.dir /\ request.offset < Referred.total
          /\ Openable(Referred.node) /\ handle' = Referred.node /\ channelPc' = "opened"
          /\ UNCHANGED <<request, seen, wanted, session, list>>
Sized == /\ channelPc = "opened" /\ channelPc' = "sized"
         /\ wanted' = Least(Left % Word, request.count)
         /\ UNCHANGED <<request, seen, handle, session, list>>

LEMMA ChannelFacts ==
    ASSUME Channel
    PROVE  \/ Answered /\ list' = list
           \/ Answered /\ channelPc = "describe" /\ AnswerList
           \/ GivenUp \/ Taken \/ Opened \/ Sized
<1>1. \A a : Answers(a) => Answered
  BY DEF Answers, Answered
<1>2. (Fails \/ Crashes) /\ list' = list => GivenUp
  BY DEF Fails, Crashes, GivenUp
<1>3. \A pc : Proceeds(pc) => channelPc' = pc /\ UNCHANGED <<request, session>>
  BY DEF Proceeds
<1>4. CASE TakeListRequest
  <2>1. /\ channelPc = "idle" /\ request.kind = "list" /\ list' = list
        /\ \/ Answers(Refused) \/ Answers(Unanswered)
           \/ seen' = changes /\ Proceeds("describe") /\ UNCHANGED <<handle, wanted>>
    BY <1>4 DEF TakeListRequest
  <2> QED  BY <1>1, <1>3, <2>1 DEF Taken
<1>5. CASE AnswerList
  <2>1. /\ channelPc = "describe"
        /\ Answers(ListSent) \/ (Crashes /\ list' = list)
    BY <1>5 DEF AnswerList
  <2> QED  BY <1>1, <1>2, <1>5, <2>1
<1>6. CASE TakeContentsRequest
  <2>1. /\ channelPc = "idle" /\ list' = list
        /\ \/ Fails
           \/ /\ request.kind \in {"size", "range"}
              /\ seen' = changes /\ Proceeds(request.kind) /\ UNCHANGED <<handle, wanted>>
    BY <1>6 DEF TakeContentsRequest
  <2> QED  BY <1>2, <1>3, <2>1 DEF Taken
<1>7. CASE AnswerSize
  <2>1. list' = list /\ ((\E a : Answers(a)) \/ Crashes)
    BY <1>7 DEF AnswerSize
  <2> QED  BY <1>1, <1>2, <2>1
<1>8. CASE OpenRange
  <2>1. /\ list' = list /\ channelPc = "range"
        /\ \/ (\E a : Answers(a)) \/ Fails \/ Crashes
           \/ /\ ~Torn /\ ~Referred.dir /\ request.offset < Referred.total
              /\ Openable(Referred.node) /\ handle' = Referred.node
              /\ Proceeds("opened") /\ UNCHANGED <<seen, wanted>>
    BY <1>8 DEF OpenRange
  <2> QED  BY <1>1, <1>2, <1>3, <2>1 DEF Opened
<1>9. CASE SizeRange
  <2>1. /\ channelPc = "opened" /\ wanted' = Least(Left % Word, request.count)
        /\ Proceeds("sized") /\ UNCHANGED <<list, seen, handle>>
    BY <1>9 DEF SizeRange
  <2> QED  BY <1>3, <2>1 DEF Sized
<1>10. CASE ReadRange
  <2>1. list' = list /\ ((\E a : Answers(a)) \/ Fails \/ Crashes)
    BY <1>10 DEF ReadRange
  <2> QED  BY <1>1, <1>2, <2>1
<1> QED  BY <1>4, <1>5, <1>6, <1>7, <1>8, <1>9, <1>10 DEF Channel

\* The vector, its counter and the announcements keep their types.
LEMMA GuiStep == DiskInv /\ GuiInv /\ [Next]_vars => GuiInv'
<1> SUFFICES ASSUME DiskInv, GuiInv, [Next]_vars PROVE GuiInv'
  OBVIOUS
<1>1. CASE UNCHANGED <<gui, seen>>
  BY <1>1 DEF gui, GuiInv
<1>2. CASE Channel /\ UNCHANGED gui
  <2>1. UNCHANGED <<copied, infoFiles, changes, listed, guiPc, todo, announced>>
    BY <1>2 DEF gui
  <2>2. seen' = seen \/ seen' = 0 \/ seen' = changes
    BY <1>2, ChannelFacts DEF Answered, GivenUp, Taken, Opened, Sized, channel
  <2>3. seen' \in Nat /\ seen' <= changes
    BY <2>2 DEF GuiInv
  <2> QED  BY <2>1, <2>3 DEF GuiInv
<1>3. CASE Copy \/ AppendFile \/ Announce
  BY <1>3, CopyFacts, AppendFileFacts, AnnounceFacts
<1>4. CASE Edit \/ ServerAsks \/ UNCHANGED vars
  BY <1>1, <1>4 DEF Edit, ServerAsks, vars, channel
<1> QED  BY <1>2, <1>3, <1>4, PartFacts

\* What has been listed and announced only grows.
LEMMA GrowFacts ==
    ASSUME DiskInv, GuiInv, [Next]_vars
    PROVE  /\ listed \in Nat /\ announced \in Nat /\ listed' \in Nat /\ announced' \in Nat
           /\ listed <= listed' /\ announced <= announced' /\ announced <= listed
<1>1. /\ listed \in Nat /\ announced \in Nat /\ listed' \in Nat /\ announced' \in Nat
      /\ announced <= listed
  BY GuiStep DEF GuiInv
<1>2. CASE UNCHANGED gui
  BY <1>1, <1>2 DEF gui
<1>3. CASE Copy
  <2>1. announced' = announced
    BY <1>3 DEF Copy
  <2> QED  BY <1>1, <1>3, <2>1, CopyFacts
<1>4. CASE AppendFile
  BY <1>1, <1>4, AppendFileFacts
<1>5. CASE Announce
  BY <1>1, <1>5, AnnounceFacts
<1> QED  BY <1>2, <1>3, <1>4, <1>5, PartFacts DEF vars

\* The list the server has keeps its type.
LEMMA ListStep == ServeInv /\ [Next]_vars => ListInv'
<1> SUFFICES ASSUME ServeInv, [Next]_vars PROVE ListInv'
  OBVIOUS
<1>0. /\ listed \in Nat /\ announced \in Nat /\ listed' \in Nat /\ announced' \in Nat
      /\ listed <= listed' /\ announced <= announced'
  BY GrowFacts DEF ServeInv
<1>1. CASE list' = list
  <2>1. list.copy \in Nat /\ list.copy <= listed /\ list.asked \in Nat /\ list.asked <= announced
    BY DEF ServeInv, ListInv
  <2>2. list.copy <= listed' /\ list.asked <= announced'
    BY <1>0, <2>1
  <2> QED  BY <1>1, <2>2 DEF ServeInv, ListInv
<1>2. CASE AnswerList
  <2>1. PICK entries, sound :
           \/ /\ list' = Description(entries, sound)
              /\ entries \in Seq(EntryType) /\ sound \in BOOLEAN
           \/ list' = list
    <3>1. infoFiles \in Seq(EntryType) /\ <<>> \in Seq(EntryType)
      BY DEF ServeInv, GuiInv
    <3>2. TRUE \in BOOLEAN /\ FALSE \in BOOLEAN
      OBVIOUS
    <3> QED  BY <1>2, <3>1, <3>2 DEF AnswerList
  <2>2. request.copy \in Nat /\ request.copy <= announced
    BY DEF ServeInv, RequestInv
  <2>3. CASE list' = Description(entries, sound) /\ entries \in Seq(EntryType)
             /\ sound \in BOOLEAN
    <3>1. list' = [entries |-> entries, copy |-> listed, asked |-> request.copy, sound |-> sound]
      BY <2>3 DEF Description
    <3>2. list' \in [entries : Seq(EntryType), copy : Nat, asked : Nat, sound : BOOLEAN]
      BY <1>0, <2>2, <2>3, <3>1
    <3>3. list'.copy <= listed' /\ list'.asked <= announced'
      BY <1>0, <2>2, <3>1
    <3> QED  BY <3>2, <3>3 DEF ListInv
  <2> QED  BY <1>1, <2>1, <2>3
<1>3. list' = list \/ AnswerList
  BY PartFacts, ChannelFacts DEF GivenUp, Taken, Opened, Sized
<1> QED  BY <1>1, <1>2, <1>3

\* A request is about a copy that was announced.
LEMMA RequestStep == ServeInv /\ [Next]_vars => RequestInv'
<1> SUFFICES ASSUME ServeInv, [Next]_vars PROVE RequestInv'
  OBVIOUS
<1>0. /\ announced \in Nat /\ announced' \in Nat /\ announced <= announced'
  BY GrowFacts DEF ServeInv
<1>1. CASE request' = request
  <2>1. request.copy \in Nat /\ request.copy <= announced
    BY DEF ServeInv, RequestInv
  <2>2. request.copy <= announced'
    BY <1>0, <2>1
  <2> QED  BY <1>1, <2>2 DEF ServeInv, RequestInv
<1>2. CASE request' = NoRequest
  BY <1>0, <1>2 DEF NoRequest, RequestInv
<1>3. CASE ServerAsks
  <2>1. PICK kind \in {"list", "size", "badSize", "neither", "range"},
             index \in Indices \cup {0}, offset \in Offsets \cup {0}, count \in Counts \cup {0} :
                request' = Ask(kind, index, offset, count)
    BY <1>3 DEF ServerAsks
  <2>2. index \in Nat /\ offset \in Nat /\ count \in Nat
    BY FileServeAssumption
  <2> QED  BY <1>0, <2>1, <2>2 DEF Ask, RequestInv
<1>4. request' = request \/ request' = NoRequest \/ ServerAsks
  BY PartFacts, ChannelFacts DEF Answered, GivenUp, Taken, Opened, Sized, vars
<1> QED  BY <1>1, <1>2, <1>3, <1>4

\* While a request is about the last copy, the vector it refers to does not change.
LEMMA FreshFacts ==
    ASSUME ServeInv, [Next]_vars, request.copy = listed'
    PROVE  /\ request.copy = listed /\ announced = listed /\ guiPc = "idle" /\ todo = <<>>
           /\ UNCHANGED <<infoFiles, changes, listed, todo, guiPc, announced>>
<1>0. /\ GuiInv /\ DiskInv /\ request.copy \in Nat /\ request.copy <= announced
  BY DEF ServeInv, RequestInv
<1>1. /\ listed \in Nat /\ announced \in Nat /\ listed' \in Nat
      /\ listed <= listed' /\ announced <= listed
  BY <1>0, GrowFacts
<1>2. request.copy = listed /\ announced = listed /\ listed' = listed
  BY <1>0, <1>1
<1>3. guiPc = "idle" /\ todo = <<>>
  BY <1>0, <1>2 DEF GuiInv
<1>4. CASE UNCHANGED gui
  BY <1>2, <1>3, <1>4 DEF gui
<1>5. CASE Copy
  <2>1. /\ announced' = announced
        /\ \/ changes' = changes + 1 /\ listed' = Len(copied) + 1
           \/ UNCHANGED <<infoFiles, changes, listed, guiPc, todo>>
    BY <1>5 DEF Copy
  <2>2. Len(copied) \in Nat /\ listed <= Len(copied)
    BY <1>0 DEF GuiInv
  <2>3. listed' # Len(copied) + 1
    BY <1>1, <1>2, <2>2
  <2> QED  BY <1>2, <1>3, <2>1, <2>3
<1>6. CASE AppendFile \/ Announce
  BY <1>3, <1>6 DEF AppendFile, Announce
<1> QED  BY <1>4, <1>5, <1>6, PartFacts DEF vars

\* The channel thread's place in its request.
LEMMA ChannelStep == ServeInv /\ [Next]_vars => ChannelInv'
<1> SUFFICES ASSUME ServeInv, [Next]_vars PROVE ChannelInv'
  OBVIOUS
<1>0. /\ ChannelInv /\ RequestInv /\ DiskInv /\ Word \in Nat /\ Word > 0
      /\ 0 \in 0..(Word - 1)
  BY ConstantFacts DEF ServeInv
<1>1. CASE UNCHANGED <<request, channel, session>>
  <2>1. UNCHANGED <<channelPc, seen, handle, wanted, request, session>>
    BY <1>1 DEF channel
  <2>2. channelPc # "idle" /\ request.copy = listed' => seen = changes'
    BY <1>0, FreshFacts DEF ChannelInv
  <2> QED  BY <1>0, <2>1, <2>2 DEF ChannelInv
<1>2. CASE ServerAsks
  <2>1. UNCHANGED <<channelPc, seen, handle, wanted, session>> /\ request.kind = "none"
    BY <1>2 DEF ServerAsks, channel, NoRequest
  <2>2. channelPc = "idle"
    BY <1>0, <2>1 DEF ChannelInv
  <2> QED  BY <1>0, <2>1, <2>2 DEF ChannelInv
<1>3. CASE Answered
  BY <1>0, <1>3 DEF Answered, ChannelInv
<1>4. CASE GivenUp
  <2>1. /\ UNCHANGED <<channelPc, seen, handle, wanted, request>>
        /\ session' \in {"up", "ended", "crashed"}
    BY <1>4 DEF GivenUp, channel
  <2>2. channelPc # "idle" /\ request.copy = listed' => seen = changes'
    BY <1>0, FreshFacts DEF ChannelInv
  <2> QED  BY <1>0, <2>1, <2>2 DEF ChannelInv
<1>5. CASE Taken /\ UNCHANGED gui
  <2>1. /\ channelPc = "idle" /\ seen' = changes /\ changes' = changes
        /\ \/ channelPc' = "describe" /\ request.kind = "list"
           \/ channelPc' = "size" /\ request.kind = "size"
           \/ channelPc' = "range" /\ request.kind = "range"
        /\ UNCHANGED <<request, handle, wanted, session>>
    BY <1>5 DEF Taken, gui
  <2> QED  BY <1>0, <2>1 DEF ChannelInv
<1>6. CASE Opened /\ UNCHANGED gui
  <2>1. /\ channelPc = "range" /\ channelPc' = "opened" /\ handle' \in Files
        /\ UNCHANGED <<request, seen, wanted, session, changes, listed>>
    BY <1>6 DEF Opened, gui, Openable
  <2> QED  BY <1>0, <2>1 DEF ChannelInv
<1>7. CASE Sized /\ UNCHANGED gui
  <2>1. /\ channelPc = "opened" /\ channelPc' = "sized"
        /\ wanted' = Least(Left % Word, request.count)
        /\ UNCHANGED <<request, seen, handle, session, changes, listed>>
    BY <1>7 DEF Sized, gui
  <2>2. wanted' \in 0..(Word - 1)
    <3>1. handle \in Files
      BY <1>0, <2>1 DEF ChannelInv
    <3>2. disk[handle].length \in Nat /\ request.offset \in Nat /\ request.count \in Nat
      BY <1>0, <3>1, ConstantFacts DEF DiskInv, FileState, RequestInv
    <3>3. Left \in Int
      BY <3>2 DEF Left
    <3>4. Left % Word \in 0..(Word - 1)
      BY <3>3, ModFacts
    <3> QED  BY <1>0, <2>1, <3>2, <3>4 DEF Least
  <2> QED  BY <1>0, <2>1, <2>2 DEF ChannelInv
<1>8. UNCHANGED vars => UNCHANGED <<request, channel, session>>
  BY DEF vars, channel
<1> QED  BY <1>1, <1>2, <1>3, <1>4, <1>5, <1>6, <1>7, <1>8, PartFacts, ChannelFacts

\* The entries of the vector tell what the files were like.
LEMMA EntriesStep == ServeInv /\ [Next]_vars => EntriesInv'
<1> SUFFICES ASSUME ServeInv, [Next]_vars PROVE EntriesInv'
  OBVIOUS
<1>0. DiskInv /\ GuiInv /\ EntriesInv /\ infoFiles \in Seq(EntryType)
  BY DEF ServeInv, GuiInv
<1>1. \A e \in EntryType : EntryHolds(e, disk) => EntryHolds(e, disk')
  BY <1>0, EntryStays, PartFacts
<1>2. CASE infoFiles' = infoFiles
  BY <1>0, <1>1, <1>2 DEF EntriesInv
<1>3. CASE infoFiles' = <<>>
  BY <1>3 DEF EntriesInv
<1>4. CASE AppendFile
  <2>1. PICK node \in Nodes :
           \/ Exists(node) /\ infoFiles' = Append(infoFiles, Entry(node))
           \/ infoFiles' = infoFiles
    BY <1>0, <1>4, AppendFileFacts
  <2>2. CASE Exists(node) /\ infoFiles' = Append(infoFiles, Entry(node))
    <3> PICK e : e = Entry(node)
      OBVIOUS
    <3>1. e \in EntryType /\ EntryHolds(e, disk)
      BY <1>0, <2>2, EntryFacts
    <3>2. \A i \in DOMAIN infoFiles' : \/ i \in DOMAIN infoFiles /\ infoFiles'[i] = infoFiles[i]
                                       \/ infoFiles'[i] = e
      BY <1>0, <2>2, <3>1, AppendFacts
    <3> QED  BY <1>0, <1>1, <3>1, <3>2 DEF EntriesInv
  <2> QED  BY <1>2, <2>1, <2>2
<1>5. infoFiles' = infoFiles \/ infoFiles' = <<>> \/ AppendFile
  BY <1>0, PartFacts, CopyFacts, AnnounceFacts DEF vars, gui
<1> QED  BY <1>2, <1>3, <1>4, <1>5

\* The server's list is the beginning of the vector.
LEMMA PrefixStep == ServeInv /\ [Next]_vars => PrefixInv'
<1> SUFFICES ASSUME ServeInv, [Next]_vars, list'.sound, list'.copy = listed'
             PROVE  \A i \in DOMAIN list'.entries :
                       i \in DOMAIN infoFiles' /\ list'.entries[i] = infoFiles'[i]
  BY DEF PrefixInv
<1>0. /\ DiskInv /\ GuiInv /\ PrefixInv /\ infoFiles \in Seq(EntryType)
      /\ list.copy \in Nat /\ list.copy <= listed
  BY DEF ServeInv, GuiInv, ListInv
<1>1. CASE list' = list
  <2>1. listed \in Nat /\ listed' \in Nat /\ listed <= listed'
    BY <1>0, GrowFacts
  <2>2. listed' = listed /\ list.copy = listed
    BY <1>0, <1>1, <2>1
  <2>3. \A i \in DOMAIN list.entries : i \in DOMAIN infoFiles /\ list.entries[i] = infoFiles[i]
    BY <1>1, <2>2 DEF ServeInv, PrefixInv
  <2>4. CASE infoFiles' = infoFiles
    BY <1>1, <2>3, <2>4
  <2>5. CASE AppendFile
    <3>1. PICK node \in Nodes :
             \/ infoFiles' = Append(infoFiles, Entry(node))
             \/ infoFiles' = infoFiles
      BY <1>0, <2>5, AppendFileFacts
    <3>2. CASE infoFiles' = Append(infoFiles, Entry(node))
      <4>1. Entry(node) \in EntryType
        BY <1>0, EntryFacts
      <4>2. \A i \in DOMAIN infoFiles : i \in DOMAIN infoFiles' /\ infoFiles'[i] = infoFiles[i]
        BY <1>0, <3>2, <4>1, AppendFacts
      <4> QED  BY <1>1, <2>3, <4>2
    <3> QED  BY <2>4, <3>1, <3>2
  <2>6. CASE Copy
    <3>1. infoFiles' = infoFiles \/ listed' = Len(copied) + 1
      BY <1>0, <2>6, CopyFacts
    <3>2. listed' # Len(copied) + 1
      BY <1>0, <2>2 DEF GuiInv
    <3> QED  BY <2>4, <3>1, <3>2
  <2> QED  BY <1>0, <2>4, <2>5, <2>6, PartFacts, AnnounceFacts DEF vars, gui
<1>2. CASE AnswerList
  <2>1. list' = list \/ list' = Description(infoFiles, TRUE) \/ list' = Description(<<>>, FALSE)
    BY <1>2 DEF AnswerList
  <2>2. CASE list' = Description(infoFiles, TRUE)
    <3>1. infoFiles' = infoFiles
      BY <1>2 DEF AnswerList, gui
    <3> QED  BY <2>2, <3>1 DEF Description
  <2>3. CASE list' = Description(<<>>, FALSE)
    BY <2>3 DEF Description
  <2> QED  BY <1>1, <2>1, <2>2, <2>3
<1>3. list' = list \/ AnswerList
  BY PartFacts, ChannelFacts DEF GivenUp, Taken, Opened, Sized
<1> QED  BY <1>1, <1>2, <1>3

\* The entry a request of the server's is about is the one that it finds.
LEMMA MeantFacts ==
    ASSUME ServeInv, listed = request.copy
    PROVE  /\ channelPc # "idle" => ~Torn
           /\ InList(request) =>
                 /\ Meant(request) = Referred /\ Referred \in EntryType
                 /\ EntryHolds(Referred, disk) /\ request.index < Len(infoFiles)
<1>0. /\ request.index \in Nat /\ infoFiles \in Seq(EntryType)
      /\ list.entries \in Seq(EntryType)
  BY DEF ServeInv, RequestInv, GuiInv, ListInv
<1>1. channelPc # "idle" => ~Torn
  BY DEF ServeInv, ChannelInv, Torn
<1>2. ASSUME InList(request)
      PROVE  /\ Meant(request) = Referred /\ Referred \in EntryType
             /\ EntryHolds(Referred, disk) /\ request.index < Len(infoFiles)
  <2>1. /\ list.sound /\ list.copy = listed
        /\ request.index + 1 \in DOMAIN list.entries
    BY <1>0, <1>2 DEF InList
  <2>2. /\ request.index + 1 \in DOMAIN infoFiles
        /\ list.entries[request.index + 1] = infoFiles[request.index + 1]
    BY <2>1 DEF ServeInv, PrefixInv
  <2>3. request.index < Len(infoFiles) /\ infoFiles[request.index + 1] \in EntryType
    BY <1>0, <2>2
  <2>4. EntryHolds(infoFiles[request.index + 1], disk)
    BY <2>2 DEF ServeInv, EntriesInv
  <2> QED  BY <2>2, <2>3, <2>4 DEF Meant, Referred
<1> QED  BY <1>1, <1>2

\* The range that is read lies in the file the server means.
LEMMA RangeStep == ServeInv /\ [Next]_vars => RangeInv'
<1> SUFFICES ASSUME ServeInv, [Next]_vars, InList(request)', listed' = request'.copy,
                    channelPc' \in {"opened", "sized"}
             PROVE  /\ handle' = Meant(request)'.node
                    /\ ~Meant(request)'.dir /\ request'.offset < Meant(request)'.total
                    /\ channelPc' = "sized" =>
                          /\ wanted' <= request'.count
                          /\ disk'[handle'].version = Meant(request)'.version =>
                                wanted' = Least(request'.count,
                                                Meant(request)'.total - request'.offset)
  BY DEF RangeInv
<1>0. /\ DiskInv /\ GuiInv /\ RangeInv /\ ChannelInv /\ RequestInv
  BY DEF ServeInv
<1>1. request' = request /\ list' = list
  <2>1. CASE ServerAsks
    <3>1. channelPc' = channelPc /\ request.kind = "none"
      BY <2>1 DEF ServerAsks, channel, NoRequest
    <3> QED  BY <1>0, <3>1 DEF ChannelInv
  <2>2. CASE Channel
    BY <2>2, ChannelFacts DEF Answered, GivenUp, Taken, Opened, Sized
  <2>3. CASE UNCHANGED <<list, request>>
    BY <2>3
  <2> QED  BY <2>1, <2>2, <2>3, PartFacts DEF vars
<1>2. request.copy = listed /\ UNCHANGED <<infoFiles, listed>>
  BY <1>1, FreshFacts
<1>3. InList(request) /\ Meant(request)' = Meant(request)
  BY <1>1 DEF InList, Meant
<1>4. /\ Meant(request) = Referred /\ Referred \in EntryType /\ EntryHolds(Referred, disk)
  BY <1>2, <1>3, MeantFacts
<1>5. /\ request.offset \in Nat /\ request.count \in Nat /\ Referred.total \in Nat
      /\ Referred.total <= MaxLength /\ Referred.version \in Nat
  BY <1>0, <1>4, ConstantFacts DEF RequestInv, EntryType
<1>6. CASE UNCHANGED channel
  <2>1. UNCHANGED <<channelPc, handle, wanted>>
    BY <1>6 DEF channel
  <2>2. /\ handle = Referred.node /\ ~Referred.dir /\ request.offset < Referred.total
        /\ channelPc = "sized" =>
              /\ wanted <= request.count
              /\ disk[handle].version = Referred.version =>
                    wanted = Least(request.count, Referred.total - request.offset)
    BY <1>0, <1>2, <1>3, <1>4, <2>1 DEF RangeInv
  <2>3. disk'[handle].version = Referred.version => disk[handle].version = Referred.version
    <3>1. CASE disk' = disk
      BY <3>1
    <3>2. CASE Edit
      <4>1. handle \in Files /\ Referred.version <= disk[handle].version
        BY <1>4, <2>2 DEF EntryHolds
      <4>2. /\ disk[handle].version \in Nat
            /\ \/ disk'[handle] = disk[handle]
               \/ disk'[handle].version = disk[handle].version + 1
        BY <1>0, <3>2, <4>1, EditFacts
      <4> QED  BY <1>5, <4>1, <4>2
    <3> QED  BY <3>1, <3>2, PartFacts
  <2> QED  BY <1>1, <1>3, <1>4, <2>1, <2>2, <2>3
<1>7. CASE Opened
  <2>1. /\ handle' = Referred.node /\ ~Referred.dir /\ request.offset < Referred.total
        /\ channelPc' = "opened"
    BY <1>7 DEF Opened
  <2> QED  BY <1>1, <1>3, <1>4, <2>1
<1>8. CASE Sized /\ UNCHANGED local
  <2>1. /\ channelPc = "opened" /\ wanted' = Least(Left % Word, request.count)
        /\ handle' = handle /\ disk' = disk
    BY <1>8 DEF Sized, local
  <2>2. /\ handle = Referred.node /\ ~Referred.dir /\ request.offset < Referred.total
    BY <1>0, <1>2, <1>3, <1>4, <2>1 DEF RangeInv
  <2>3. handle \in Files /\ disk[handle].length \in Nat
    BY <1>0, <2>1, ConstantFacts DEF ChannelInv, DiskInv, FileState
  <2>4. Left \in Int /\ Left % Word \in 0..(Word - 1)
    BY <1>5, <2>3, ModFacts DEF Left
  <2>5. wanted' <= request.count
    BY <1>5, <2>1, <2>4, ConstantFacts DEF Least
  <2>6. ASSUME disk[handle].version = Referred.version
        PROVE  wanted' = Least(request.count, Referred.total - request.offset)
    <3>1. disk[handle].length = Referred.total
      BY <1>4, <2>2, <2>6 DEF EntryHolds
    <3>2. Left = Referred.total - request.offset
      BY <3>1 DEF Left
    <3>3. 0 <= Left /\ Left <= MaxLength
      BY <1>5, <2>2, <3>2, ConstantFacts
    <3>4. Left % Word = Left
      BY <2>4, <3>3, ModFacts
    <3> QED  BY <1>5, <2>1, <2>4, <3>2, <3>4 DEF Least
  <2> QED  BY <1>1, <1>3, <1>4, <2>1, <2>2, <2>5, <2>6
<1>9. CASE Answered \/ Taken
  BY <1>9 DEF Answered, Taken
<1>10. GivenUp => UNCHANGED channel
  BY DEF GivenUp
<1> QED  BY <1>6, <1>7, <1>8, <1>9, <1>10, PartFacts, ChannelFacts DEF vars

-----------------------------------------------------------------------------
(* Requests.                                                                *)

\* What is known of a proper request for a range when it is about to be read.
LEMMA SizedFacts ==
    ASSUME ServeInv, InList(request), listed = request.copy, channelPc = "sized"
    PROVE  /\ handle = Meant(request).node /\ wanted <= request.count
           /\ request.count \in Nat /\ wanted \in Nat
           /\ disk[handle].version = Meant(request).version =>
                 /\ wanted = Least(request.count, Meant(request).total - request.offset)
                 /\ ~(Left < wanted)
<1>1. /\ handle = Meant(request).node /\ ~Meant(request).dir
      /\ request.offset < Meant(request).total /\ wanted <= request.count
      /\ disk[handle].version = Meant(request).version =>
            wanted = Least(request.count, Meant(request).total - request.offset)
  BY DEF ServeInv, RangeInv
<1>2. EntryHolds(Meant(request), disk) /\ Meant(request) \in EntryType
  BY MeantFacts
<1>3. /\ request.count \in Nat /\ request.offset \in Nat /\ Meant(request).total \in Nat
      /\ wanted \in Nat
  BY <1>2, ConstantFacts DEF ServeInv, RequestInv, ChannelInv, EntryType
<1>4. ASSUME disk[handle].version = Meant(request).version
      PROVE  ~(Left < wanted)
  <2>1. disk[handle].length = Meant(request).total
    BY <1>1, <1>2, <1>4 DEF EntryHolds
  <2>2. Left = Meant(request).total - request.offset
    BY <2>1 DEF Left
  <2>3. wanted = Least(request.count, Left)
    BY <1>1, <1>4, <2>2
  <2> QED  BY <1>3, <2>2, <2>3 DEF Least
<1> QED  BY <1>1, <1>3, <1>4

\* A proper request about the last copy costs the session only if its file has
\* been touched.
LEMMA KeptFacts ==
    ASSUME ServeInv, Channel, session' # session, Proper(request), listed = request.copy
    PROVE  ~Untouched(request)
<1>0. /\ ChannelInv /\ RequestInv
      /\ channelPc # "idle" => ~Torn
      /\ InList(request) =>
            /\ Meant(request) = Referred /\ EntryHolds(Referred, disk)
            /\ request.index < Len(infoFiles)
  BY MeantFacts DEF ServeInv
<1>1. request.kind # "list" => InList(request)
  BY DEF Proper
<1>a. \A a : Answers(a) => session' = session
  BY DEF Answers
<1>b. \A pc : Proceeds(pc) => session' = session
  BY DEF Proceeds
<1>2. CASE TakeListRequest
  BY <1>2, <1>a, <1>b DEF TakeListRequest
<1>3. CASE AnswerList
  BY <1>0, <1>3, <1>a DEF AnswerList
<1>4. CASE TakeContentsRequest
  <2>1. /\ request.kind # "list"
        /\ request.kind \in {"badSize", "neither"} \/ request.index >= Len(infoFiles)
    BY <1>4, <1>b DEF TakeContentsRequest
  <2>2. request.kind \notin {"badSize", "neither"}
    BY DEF Proper
  <2>3. request.index < Len(infoFiles) /\ request.index \in Nat /\ Len(infoFiles) \in Nat
    BY <1>0, <1>1, <2>1 DEF RequestInv, ServeInv, GuiInv
  <2> QED  BY <2>1, <2>2, <2>3
<1>5. CASE AnswerSize
  BY <1>0, <1>5, <1>a DEF AnswerSize
<1>6. CASE OpenRange
  <2>1. /\ channelPc = "range" /\ ~Torn
        /\ \/ Referred.dir
           \/ request.offset >= Referred.total
           \/ ~Openable(Referred.node)
    BY <1>0, <1>6, <1>b DEF OpenRange
  <2>2. request.kind = "range"
    BY <1>0, <2>1 DEF ChannelInv
  <2>3. /\ InList(request) /\ ~Meant(request).dir /\ request.offset < Meant(request).total
        /\ Meant(request) = Referred /\ EntryHolds(Referred, disk)
    BY <1>0, <2>2 DEF Proper
  <2>4. request.offset \in Nat /\ Referred.total \in Nat
    <3>1. Referred \in EntryType
      BY <2>3, MeantFacts
    <3> QED  BY <1>0, <3>1, ConstantFacts DEF RequestInv, EntryType
  <2>5. ~Openable(Referred.node)
    BY <2>1, <2>3, <2>4
  <2>6. Referred.version # disk[Referred.node].version
    BY <2>3, <2>5 DEF EntryHolds, Openable
  <2> QED  BY <2>2, <2>3, <2>6 DEF Untouched
<1>7. CASE SizeRange
  BY <1>7, <1>b DEF SizeRange
<1>8. CASE ReadRange
  <2>1. /\ channelPc = "sized" /\ ~Torn
        /\ Left < wanted \/ 4 + wanted >= PduMax
    BY <1>0, <1>8, <1>a DEF ReadRange
  <2>2. request.kind = "range"
    BY <1>0, <2>1 DEF ChannelInv
  <2>3. InList(request) /\ 4 + request.count < PduMax
    BY <2>2 DEF Proper
  <2>4. /\ handle = Meant(request).node /\ wanted <= request.count
        /\ request.count \in Nat /\ wanted \in Nat
        /\ disk[handle].version = Meant(request).version => ~(Left < wanted)
    BY <2>1, <2>3, SizedFacts
  <2>5. ~(4 + wanted >= PduMax)
    BY <2>3, <2>4, FileServeAssumption
  <2> QED  BY <2>1, <2>2, <2>4, <2>5 DEF Untouched
<1> QED  BY <1>2, <1>3, <1>4, <1>5, <1>6, <1>7, <1>8 DEF Channel

\* The session is kept.
LEMMA KeptStep == ServeInv /\ [Next]_vars => SessionKept'
<1> SUFFICES ASSUME ServeInv, [Next]_vars PROVE SessionKept'
  OBVIOUS
<1>0. SessionKept
  BY DEF ServeInv
<1>1. CASE UNCHANGED vars
  <2>1. UNCHANGED <<disk, session, request, list, listed>>
    BY <1>1 DEF vars, local, gui
  <2> QED  BY <1>0, <2>1 DEF SessionKept, Proper, InList, Meant, Untouched
<1>2. CASE session' = "up"
  BY <1>2 DEF SessionKept
<1>3. CASE session = "up" /\ session' # "up"
  <2>1. Channel /\ UNCHANGED <<local, gui>>
    BY <1>3, PartFacts DEF vars
  <2>2. GivenUp
    BY <1>3, <2>1, ChannelFacts DEF Answered, Taken, Opened, Sized
  <2>3. UNCHANGED <<request, list, listed, disk>>
    BY <2>1, <2>2 DEF GivenUp, gui, local
  <2>4. Proper(request) /\ listed = request.copy => ~Untouched(request)
    BY <1>3, <2>1, KeptFacts
  <2> QED  BY <2>3, <2>4 DEF SessionKept, Proper, InList, Meant, Untouched
<1> QED  BY <1>1, <1>2, <1>3, PartFacts

\* What an answer to a request about the last copy is.
AnswerMatches ==
    request # NoRequest /\ request' = NoRequest /\ InList(request) /\ listed = request.copy
    => CASE answer'.type = "size" ->
              answer'.size = Meant(request).total
         [] answer'.type = "piece" ->
              /\ answer'.node = Meant(request).node
              /\ answer'.offset = request.offset
              /\ answer'.count <= request.count
              /\ answer'.version = Meant(request).version =>
                    answer'.count = Least(request.count,
                                          Meant(request).total - request.offset)
         [] answer'.type = "garbled" -> ~Proper(request)
         [] OTHER -> TRUE

LEMMA AnswerFacts == ServeInv /\ Next => AnswerMatches
<1> SUFFICES ASSUME ServeInv, Next, request # NoRequest, request' = NoRequest,
                    InList(request), listed = request.copy
             PROVE  AnswerMatches
  BY DEF AnswerMatches
<1>0. /\ ChannelInv /\ RequestInv
      /\ channelPc # "idle" => ~Torn
      /\ Meant(request) = Referred /\ EntryHolds(Referred, disk)
  BY MeantFacts DEF ServeInv
<1>a. ASSUME answer'.type \in {"refused", "unanswered", "list"}
      PROVE  AnswerMatches
  BY <1>a DEF AnswerMatches
<1>b. \A a : Answers(a) => answer' = a
  BY DEF Answers
<1>c. ~Fails /\ ~Crashes /\ \A pc : ~Proceeds(pc)
  BY DEF Fails, Crashes, Proceeds
<1>1. CASE TakeListRequest
  <2>1. answer' \in {Refused, Unanswered}
    BY <1>1, <1>b, <1>c DEF TakeListRequest
  <2> QED  BY <1>a, <2>1 DEF Refused, Unanswered
<1>2. CASE AnswerList
  <2>1. answer' = ListSent
    BY <1>2, <1>b, <1>c DEF AnswerList
  <2> QED  BY <1>a, <2>1 DEF ListSent
<1>3. CASE AnswerSize
  <2>1. answer' = Size(IF Referred.dir THEN 0 ELSE Referred.total)
    BY <1>0, <1>3, <1>b, <1>c DEF AnswerSize
  <2>2. Referred.dir => Referred.total = 0
    BY <1>0 DEF EntryHolds
  <2>3. answer'.type = "size" /\ answer'.size = Meant(request).total
    BY <1>0, <2>1, <2>2 DEF Size
  <2> QED  BY <2>3 DEF AnswerMatches
<1>4. CASE ReadRange
  <2>1. /\ channelPc = "sized"
        /\ \/ answer' = Piece(handle, request.offset, wanted, disk[handle].version)
           \/ answer' = Garbled /\ 4 + wanted >= PduMax
    BY <1>0, <1>4, <1>b, <1>c DEF ReadRange
  <2>2. /\ handle = Meant(request).node /\ wanted <= request.count
        /\ request.count \in Nat /\ wanted \in Nat
        /\ disk[handle].version = Meant(request).version =>
              wanted = Least(request.count, Meant(request).total - request.offset)
    BY <2>1, SizedFacts
  <2>3. CASE answer' = Piece(handle, request.offset, wanted, disk[handle].version)
    <3>1. /\ answer'.type = "piece" /\ answer'.node = handle
          /\ answer'.offset = request.offset /\ answer'.count = wanted
          /\ answer'.version = disk[handle].version
      BY <2>3 DEF Piece
    <3> QED  BY <2>2, <3>1 DEF AnswerMatches
  <2>4. CASE answer' = Garbled /\ 4 + wanted >= PduMax
    <3>1. ~(4 + request.count < PduMax)
      BY <2>2, <2>4, FileServeAssumption
    <3>2. request.kind = "range"
      BY <1>0, <2>1 DEF ChannelInv
    <3>3. ~Proper(request)
      BY <3>1, <3>2 DEF Proper
    <3>4. answer'.type = "garbled"
      BY <2>4 DEF Garbled
    <3> QED  BY <3>3, <3>4 DEF AnswerMatches
  <2> QED  BY <2>1, <2>3, <2>4
<1>5. CASE TakeContentsRequest
  BY <1>5, <1>c DEF TakeContentsRequest
<1>6. CASE OpenRange
  BY <1>0, <1>6, <1>c DEF OpenRange
<1>7. CASE SizeRange
  BY <1>7, <1>c DEF SizeRange
<1>8. Channel
  <2>1. [Next]_vars
    OBVIOUS
  <2>2. ~ServerAsks
    BY DEF ServerAsks
  <2>3. ~UNCHANGED request
    OBVIOUS
  <2> QED  BY <2>1, <2>2, <2>3, PartFacts DEF vars
<1> QED  BY <1>1, <1>2, <1>3, <1>4, <1>5, <1>6, <1>7, <1>8 DEF Channel

-----------------------------------------------------------------------------
(* The list.                                                                *)

\* What the last copy leads to, as it was copied.
LEMMA AllFacts ==
    ASSUME GuiInv, listed # 0
    PROVE  /\ copied[listed] \in Clips /\ Urls(copied[listed]) \in Seq(Nodes)
           /\ listed \in DOMAIN copied
<1>1. listed \in 1..Len(copied) /\ copied \in Seq(Clips)
  BY DEF GuiInv
<1>2. copied[listed] \in Clips
  BY <1>1
<1> QED  BY <1>1, <1>2, ConstantFacts

\* A copy that was made is not forgotten.
LEMMA CopiedStays ==
    ASSUME DiskInv, GuiInv, [Next]_vars
    PROVE  \A i \in DOMAIN copied : i \in DOMAIN copied' /\ copied'[i] = copied[i]
<1>1. CASE copied' = copied
  BY <1>1
<1>2. CASE Copy
  <2>1. PICK clip \in Clips : copied' = Append(copied, clip)
    BY <1>2, CopyFacts
  <2>2. copied \in Seq(Clips)
    BY DEF GuiInv
  <2> QED  BY <2>1, <2>2, AppendFacts
<1>3. copied' = copied \/ Copy
  BY PartFacts, AppendFileFacts, AnnounceFacts DEF vars, gui
<1> QED  BY <1>1, <1>2, <1>3

\* The vector has, or will have, what the copy leads to and is still there.
LEMMA CollectStep == ServeInv /\ [Next]_vars => CollectInv'
<1> SUFFICES ASSUME ServeInv, [Next]_vars, listed' # 0 PROVE CollectInv'
  BY DEF CollectInv
<1>0. /\ DiskInv /\ GuiInv /\ CollectInv /\ infoFiles \in Seq(EntryType)
  BY DEF ServeInv, GuiInv
<1>1. \A n : Exists(n)' => Exists(n)
  BY <1>0, GoneStays, PartFacts
<1>2. CASE UNCHANGED <<infoFiles, listed, todo>>
  <2>1. copied'[listed'] = copied[listed] /\ listed # 0
    BY <1>0, <1>2, AllFacts, CopiedStays
  <2>2. All' = All
    BY <2>1 DEF All
  <2>3. Covered \subseteq Covered'
    BY <1>1, <1>2 DEF Covered, Contained
  <2>4. \A n : Contained(n)' <=> Contained(n)
    BY <1>2 DEF Contained
  <2>5. /\ \A i \in DOMAIN infoFiles : infoFiles[i].node \in All
        /\ ToSet(todo) \subseteq All
        /\ ToSet(Urls(copied[listed])) \subseteq Covered
        /\ \A d \in Dirs : Contained(d) => ToSet(Inside[d]) \subseteq Covered
        /\ \A i, j \in DOMAIN infoFiles : infoFiles[i].node = infoFiles[j].node => i = j
    BY <1>0, <2>1 DEF CollectInv
  <2>6. /\ \A i \in DOMAIN infoFiles' : infoFiles'[i].node \in All'
        /\ ToSet(todo') \subseteq All'
        /\ \A i, j \in DOMAIN infoFiles' : infoFiles'[i].node = infoFiles'[j].node => i = j
    BY <1>2, <2>2, <2>5
  <2>7. /\ ToSet(Urls(copied'[listed'])) \subseteq Covered'
        /\ \A d \in Dirs : Contained(d)' => ToSet(Inside[d]) \subseteq Covered'
    BY <2>1, <2>3, <2>4, <2>5
  <2> QED  BY <2>6, <2>7 DEF CollectInv
<1>3. CASE Copy /\ ~UNCHANGED <<infoFiles, listed, todo>>
  <2>1. PICK clip \in Clips :
           /\ copied' = Append(copied, clip) /\ infoFiles' = <<>> /\ listed' = Len(copied) + 1
           /\ todo' = Urls(clip)
    BY <1>0, <1>3, CopyFacts
  <2>2. copied'[listed'] = clip
    <3>1. copied \in Seq(Clips)
      BY <1>0 DEF GuiInv
    <3>2. Len(copied') = Len(copied) + 1 /\ copied'[Len(copied')] = clip
      BY <2>1, <3>1, AppendFacts
    <3> QED  BY <2>1, <3>2
  <2>3. Urls(clip) \in Seq(Nodes)
    BY ConstantFacts
  <2>4. ToSet(todo') \subseteq All'
    <3>1. All' = Reachable(Urls(clip))
      BY <2>2 DEF All
    <3> QED  BY <2>1, <2>3, <3>1, ReachableFacts
  <2>5. ToSet(Urls(copied'[listed'])) \subseteq Covered'
    <3>1. ToSet(todo') \subseteq Nodes
      BY <2>1, <2>3 DEF ToSet
    <3> QED  BY <2>1, <2>2, <3>1 DEF Covered
  <2>6. \A n : ~Contained(n)'
    BY <2>1 DEF Contained
  <2> QED  BY <2>1, <2>4, <2>5, <2>6 DEF CollectInv
<1>4. CASE AppendFile
  <2>1. /\ UNCHANGED <<copied, listed, disk>> /\ listed # 0
    BY <1>0, <1>4, AppendFileFacts
  <2>2. PICK node \in Nodes :
           /\ \/ /\ Exists(node) /\ ~Contained(node)
                 /\ infoFiles' = Append(infoFiles, Entry(node))
              \/ /\ Exists(node) => Contained(node)
                 /\ infoFiles' = infoFiles
           /\ ToSet(todo) = {node} \cup ToSet(Tail(todo))
           /\ ToSet(todo') = ToSet(Tail(todo)) \cup
                                 IF node \in Dirs THEN ToSet(Inside[node]) ELSE {}
    BY <1>0, <1>4, AppendFileFacts
  <2>3. /\ \A i \in DOMAIN infoFiles : infoFiles[i].node \in All
        /\ ToSet(todo) \subseteq All
        /\ ToSet(Urls(copied[listed])) \subseteq Covered
        /\ \A d \in Dirs : Contained(d) => ToSet(Inside[d]) \subseteq Covered
        /\ \A i, j \in DOMAIN infoFiles : infoFiles[i].node = infoFiles[j].node => i = j
    BY <1>0, <2>1 DEF CollectInv
  <2>4. All' = All
    BY <2>1 DEF All
  <2>5. node \in All
    BY <2>2, <2>3
  <2>6. node \in Dirs => ToSet(Inside[node]) \subseteq All
    <3>1. Urls(copied[listed]) \in Seq(Nodes)
      BY <1>0, <2>1, AllFacts
    <3> QED  BY <2>5, <3>1, ReachableFacts DEF All
  <2>7. ToSet(todo') \subseteq All'
    BY <2>2, <2>3, <2>4, <2>6
  <2>8. \A n : Exists(n)' <=> Exists(n)
    BY <2>1 DEF Exists
  <2>9. /\ \A i \in DOMAIN infoFiles' : \/ i \in DOMAIN infoFiles /\ infoFiles'[i] = infoFiles[i]
                                        \/ /\ infoFiles'[i].node = node /\ i = Len(infoFiles')
                                           /\ ~Contained(node)
        /\ \A i \in DOMAIN infoFiles : i \in DOMAIN infoFiles' /\ infoFiles'[i] = infoFiles[i]
        /\ Exists(node) => \E i \in DOMAIN infoFiles' : infoFiles'[i].node = node
    <3>1. CASE Exists(node) /\ ~Contained(node) /\ infoFiles' = Append(infoFiles, Entry(node))
      <4> PICK e : e = Entry(node)
        OBVIOUS
      <4>1. e \in EntryType /\ e.node = node
        BY <1>0, EntryFacts
      <4>2. /\ \A i \in DOMAIN infoFiles' : \/ i \in DOMAIN infoFiles /\ infoFiles'[i] = infoFiles[i]
                                            \/ infoFiles'[i] = e /\ i = Len(infoFiles')
            /\ \A i \in DOMAIN infoFiles : i \in DOMAIN infoFiles' /\ infoFiles'[i] = infoFiles[i]
            /\ Len(infoFiles') \in DOMAIN infoFiles' /\ infoFiles'[Len(infoFiles')] = e
        BY <1>0, <3>1, <4>1, AppendFacts
      <4> QED  BY <3>1, <4>1, <4>2
    <3>2. CASE (Exists(node) => Contained(node)) /\ infoFiles' = infoFiles
      BY <3>2 DEF Contained
    <3> QED  BY <2>2, <3>1, <3>2
  <2>10. \A i \in DOMAIN infoFiles' : infoFiles'[i].node \in All'
    BY <2>3, <2>4, <2>5, <2>9
  <2>11. \A i, j \in DOMAIN infoFiles' : infoFiles'[i].node = infoFiles'[j].node => i = j
    <3>1. ~Contained(node) => \A i \in DOMAIN infoFiles : infoFiles[i].node # node
      BY DEF Contained
    <3> QED  BY <2>3, <2>9, <3>1
  <2>12. \A n : Contained(n)' <=> Contained(n) \/ (n = node /\ Contained(node)')
    BY <2>9 DEF Contained
  <2>13. Exists(node) => Contained(node)'
    BY <2>9 DEF Contained
  <2>14. Covered \subseteq Covered'
    <3>1. ASSUME NEW n \in Covered PROVE n \in Covered'
      <4>1. n \in Nodes /\ (Contained(n) \/ n \in ToSet(todo) \/ ~Exists(n))
        BY DEF Covered
      <4>2. Contained(n)' \/ n \in ToSet(todo') \/ ~Exists(n)'
        BY <2>2, <2>8, <2>12, <2>13, <4>1
      <4> QED  BY <4>1, <4>2 DEF Covered
    <3> QED  BY <3>1
  <2>15. node \in Dirs => ToSet(Inside[node]) \subseteq Covered'
    <3>1. node \in Dirs => ToSet(Inside[node]) \subseteq Nodes
      BY ConstantFacts DEF ToSet
    <3> QED  BY <2>2, <3>1 DEF Covered
  <2>16. \A d \in Dirs : Contained(d)' => ToSet(Inside[d]) \subseteq Covered'
    BY <2>3, <2>12, <2>14, <2>15
  <2>17. ToSet(Urls(copied'[listed'])) \subseteq Covered'
    BY <2>1, <2>3, <2>14
  <2> QED  BY <2>7, <2>10, <2>11, <2>16, <2>17 DEF CollectInv
<1>5. UNCHANGED <<infoFiles, listed, todo>> \/ Copy \/ AppendFile
  BY <1>0, PartFacts, AnnounceFacts DEF vars, gui
<1> QED  BY <1>2, <1>3, <1>4, <1>5

\* The vector has nothing but what its copy leads to, and nothing twice.
LEMMA HonestVector ==
    ASSUME GuiInv, CollectInv, listed # 0
    PROVE  /\ {infoFiles[i].node : i \in DOMAIN infoFiles} \subseteq All
           /\ Len(infoFiles) = Cardinality({infoFiles[i].node : i \in DOMAIN infoFiles})
<1>1. /\ \A i \in DOMAIN infoFiles : infoFiles[i].node \in All
      /\ \A i, j \in DOMAIN infoFiles : infoFiles[i].node = infoFiles[j].node => i = j
      /\ infoFiles \in Seq(EntryType)
  BY DEF CollectInv, GuiInv
<1>2. Len(infoFiles) = Cardinality({infoFiles[i].node : i \in DOMAIN infoFiles})
  BY <1>1, DistinctFacts
<1> QED  BY <1>1, <1>2

\* When nothing is left to be looked at, the vector is whole.
LEMMA WholeVector ==
    ASSUME GuiInv, CollectInv, listed # 0, todo = <<>>
    PROVE  \A n \in All : Exists(n) => n \in {infoFiles[i].node : i \in DOMAIN infoFiles}
<1>1. /\ ToSet(Urls(copied[listed])) \subseteq Covered
      /\ \A d \in Dirs : Contained(d) => ToSet(Inside[d]) \subseteq Covered
  BY DEF CollectInv
<1>2. \A n \in Covered : Contained(n) \/ ~Exists(n)
  <2>1. ToSet(todo) = {}
    BY DEF ToSet
  <2> QED  BY <2>1 DEF Covered
<1>3. All \subseteq Covered
  <2>1. \A d \in Dirs : Exists(d)
    BY ConstantFacts DEF Exists
  <2>2. \A d \in Covered \cap Dirs : ToSet(Inside[d]) \subseteq Covered
    BY <1>1, <1>2, <2>1
  <2>3. Covered \in SUBSET Nodes
    BY DEF Covered
  <2>4. Urls(copied[listed]) \in Seq(Nodes)
    BY AllFacts
  <2> QED  BY <1>1, <2>2, <2>3, <2>4, ReachableFacts DEF All
<1> QED  BY <1>2, <1>3 DEF Contained

\* A list that is not torn has nothing foreign and nothing twice, and one of the
\* copy it was asked for is whole and not torn.
LEMMA ListCompleteStep == ServeInv /\ [Next]_vars => ListComplete'
<1> DEFINE named == {list.entries[i].node : i \in DOMAIN list.entries}
<1> SUFFICES ASSUME ServeInv, [Next]_vars, list'.copy # 0
             PROVE  /\ list'.sound => /\ named' \subseteq Reachable(Urls(copied'[list'.copy]))
                                      /\ Len(list'.entries) = Cardinality(named')
                    /\ list'.copy = list'.asked =>
                          /\ list'.sound
                          /\ \A n \in Reachable(Urls(copied'[list'.copy])) : Exists(n)' => n \in named'
  BY DEF ListComplete
<1>0. DiskInv /\ GuiInv /\ CollectInv /\ ListComplete
  BY DEF ServeInv
<1>1. CASE list' = list
  <2>1. list.copy \in DOMAIN copied
    <3>1. /\ list.copy \in Nat /\ list.copy <= listed /\ listed <= Len(copied)
          /\ listed \in Nat /\ copied \in Seq(Clips)
      BY DEF ServeInv, ListInv, GuiInv
    <3> QED  BY <1>1, <3>1
  <2>2. copied'[list.copy] = copied[list.copy]
    BY <1>0, <2>1, CopiedStays
  <2>3. \A n : Exists(n)' => Exists(n)
    BY <1>0, GoneStays, PartFacts
  <2>4. /\ list.sound => /\ named \subseteq Reachable(Urls(copied[list.copy]))
                         /\ Len(list.entries) = Cardinality(named)
        /\ list.copy = list.asked =>
              /\ list.sound
              /\ \A n \in Reachable(Urls(copied[list.copy])) : Exists(n) => n \in named
    BY <1>0, <1>1 DEF ListComplete
  <2>5. named' = named
    BY <1>1
  <2> QED  BY <1>1, <2>2, <2>3, <2>4, <2>5
<1>2. CASE AnswerList /\ ~(list' = list)
  <2>1. /\ channelPc = "describe" /\ UNCHANGED <<local, gui>>
        /\ \/ ~Torn /\ list' = Description(infoFiles, TRUE)
           \/ Torn /\ list' = Description(<<>>, FALSE)
    BY <1>2 DEF AnswerList
  <2>2. list'.copy = listed /\ list'.asked = request.copy /\ listed # 0
    BY <2>1 DEF Description
  <2>3. UNCHANGED <<copied, infoFiles, listed, disk>>
    BY <2>1 DEF gui, local
  <2>4. ASSUME list'.sound
        PROVE  /\ named' \subseteq Reachable(Urls(copied'[list'.copy]))
               /\ Len(list'.entries) = Cardinality(named')
    <3>1. list'.entries = infoFiles
      BY <2>1, <2>4 DEF Description
    <3>2. Reachable(Urls(copied'[list'.copy])) = All
      BY <2>2, <2>3 DEF All
    <3> QED  BY <1>0, <2>2, <3>1, <3>2, HonestVector
  <2>5. ASSUME list'.copy = list'.asked
        PROVE  /\ list'.sound
               /\ \A n \in Reachable(Urls(copied'[list'.copy])) : Exists(n)' => n \in named'
    <3>1. request.copy = listed
      BY <2>2, <2>5
    <3>2. todo = <<>> /\ ~Torn
      BY <2>1, <2>2, <2>3, <3>1, FreshFacts, MeantFacts
    <3>3. list'.entries = infoFiles /\ list'.sound
      BY <2>1, <3>2 DEF Description
    <3>4. \A n : Exists(n)' <=> Exists(n)
      BY <2>3 DEF Exists
    <3>5. Reachable(Urls(copied'[list'.copy])) = All
      BY <2>2, <2>3 DEF All
    <3> QED  BY <1>0, <2>2, <3>2, <3>3, <3>4, <3>5, WholeVector
  <2> QED  BY <2>4, <2>5
<1>3. list' = list \/ AnswerList
  BY PartFacts, ChannelFacts DEF GivenUp, Taken, Opened, Sized
<1> QED  BY <1>1, <1>2, <1>3

-----------------------------------------------------------------------------
(* The theorems.                                                            *)

LEMMA InitServe == Init => ServeInv
<1> SUFFICES ASSUME Init PROVE ServeInv
  OBVIOUS
<1>1. DiskInv
  <2>1. /\ disk = [f \in Files |-> [length |-> Lengths[f], version |-> 0, named |-> TRUE]]
        /\ edits = 0 /\ Lengths \in [Files -> 0..MaxLength] /\ 0 \in 0..MaxEdits
    BY ConstantFacts, FileServeAssumption DEF Init
  <2>2. \A f \in Files : [length |-> Lengths[f], version |-> 0, named |-> TRUE] \in FileState
    BY <2>1 DEF FileState
  <2>3. \A f \in Files : disk[f].version = 0
    BY <2>1
  <2> QED  BY <2>1, <2>2, <2>3 DEF DiskInv
<1>2. GuiInv
  BY ConstantFacts DEF Init, GuiInv
<1>3. ListInv
  <2>1. list = [entries |-> <<>>, copy |-> 0, asked |-> 0, sound |-> FALSE]
        /\ listed = 0 /\ announced = 0
    BY DEF Init
  <2>2. <<>> \in Seq(EntryType) /\ FALSE \in BOOLEAN
    OBVIOUS
  <2> QED  BY <2>1, <2>2 DEF ListInv
<1>4. RequestInv
  BY DEF Init, NoRequest, RequestInv
<1>5. ChannelInv
  <2>1. 0 \in 0..(Word - 1)
    BY ConstantFacts
  <2> QED  BY <2>1 DEF Init, ChannelInv
<1>6. EntriesInv /\ PrefixInv /\ RangeInv /\ CollectInv
  BY DEF Init, EntriesInv, PrefixInv, RangeInv, InList, CollectInv
<1>7. ListComplete /\ SessionKept
  BY DEF Init, ListComplete, SessionKept
<1> QED  BY <1>1, <1>2, <1>3, <1>4, <1>5, <1>6, <1>7 DEF ServeInv

\* The invariant holds whatever the user copies, whatever becomes of the files, and
\* whatever the server asks for while the list is being replaced.
THEOREM Invariance == Spec => []ServeInv
<1>1. ServeInv /\ [Next]_vars => ServeInv'
  <2> SUFFICES ASSUME ServeInv, [Next]_vars PROVE ServeInv'
    OBVIOUS
  <2>1. DiskInv' /\ GuiInv' /\ ListInv' /\ RequestInv' /\ ChannelInv'
    BY DiskStep, GuiStep, ListStep, RequestStep, ChannelStep DEF ServeInv
  <2>2. EntriesInv' /\ PrefixInv' /\ RangeInv' /\ CollectInv' /\ ListComplete' /\ SessionKept'
    BY EntriesStep, PrefixStep, RangeStep, CollectStep, ListCompleteStep, KeptStep
  <2> QED  BY <2>1, <2>2 DEF ServeInv
<1> QED  BY <1>1, InitServe, PTL DEF Spec

\* Every variable keeps its type; bytesToRead stays within its width.
THEOREM TypeCorrect == Spec => []TypeOK
<1>1. ServeInv => TypeOK
  <2> SUFFICES ASSUME ServeInv PROVE TypeOK
    OBVIOUS
  <2>1. DiskInv /\ GuiInv /\ ListInv /\ RequestInv /\ ChannelInv
    BY DEF ServeInv
  <2>2. /\ disk \in [Files -> [length : 0..MaxLength, version : 0..MaxEdits, named : BOOLEAN]]
        /\ edits \in 0..MaxEdits
    BY <2>1 DEF DiskInv, FileState
  <2>3. /\ copied \in Seq(Clips) /\ Len(copied) <= MaxCopies
        /\ infoFiles \in Seq(EntryType)
        /\ changes \in Nat /\ seen \in 0..changes
        /\ listed \in 0..Len(copied) /\ announced \in 0..listed
        /\ guiPc \in {"idle", "collect"} /\ todo \in Seq(Nodes)
    BY <2>1 DEF GuiInv
  <2>4. list.entries \in Seq(EntryType) /\ list.sound \in BOOLEAN
    BY <2>1 DEF ListInv
  <2>5. list.copy \in 0..listed /\ list.asked \in 0..announced
    BY <2>1 DEF ListInv, GuiInv
  <2>6. request \in [kind : {"none", "list", "size", "badSize", "neither", "range"},
                     index : Nat, offset : Nat, count : Nat, copy : 0..announced]
    <3>1. request.copy \in 0..announced
      BY <2>1 DEF RequestInv, GuiInv
    <3> QED  BY <2>1, <3>1 DEF RequestInv
  <2>7. /\ channelPc \in {"idle", "describe", "size", "range", "opened", "sized"}
        /\ handle \in Files \cup {"none"}
        /\ wanted \in 0..(Word - 1)
        /\ session \in {"up", "ended", "crashed"}
    BY <2>1 DEF ChannelInv
  <2> QED  BY <2>2, <2>3, <2>4, <2>5, <2>6, <2>7 DEF TypeOK
<1> QED  BY <1>1, Invariance, PTL

\* A server that reads within the list and the sizes it was told is cut off only if
\* the user copies something else or its file was changed or removed.
THEOREM NotCutOff == Spec => []SessionKept
<1>1. ServeInv => SessionKept
  BY DEF ServeInv
<1> QED  BY <1>1, Invariance, PTL

\* A list of the copy it was asked for has every file and directory of it exactly
\* once.  If the user has copied something else since, a list that is not torn has
\* still nothing foreign, and nothing twice.
THEOREM WholeList == Spec => []ListComplete
<1>1. ServeInv => ListComplete
  BY DEF ServeInv
<1> QED  BY <1>1, Invariance, PTL

\* While the server's list is the last one, answers are about the file it means: the
\* size it was told, and of a file that nobody changed the bytes that it asked for.
THEOREM FaithfulAnswers == Spec => AnswersMatchList
<1>1. ServeInv /\ [Next]_vars => [AnswerMatches]_vars
  BY AnswerFacts
<1> QED  BY <1>1, Invariance, PTL DEF Spec, AnswersMatchList, AnswerMatches

==============================================================================
