-------------------------- MODULE HnswBuildProofs --------------------------
(***************************************************************************)
(* The parallel build of an hnsw index, for every number of participants   *)
(* and of tuples, every size of the shared memory and every interleaving.  *)
(*                                                                         *)
(* The inductive invariant has a part for each thing the code protects:    *)
(* the phase of the build (the flush lock), the counts of the shared state *)
(* (its spinlock), the entry point (the entry lock), the links and the     *)
(* heap TIDs of the graph.                                                 *)
(***************************************************************************)
EXTENDS HnswBuild, TLAPS

InMemory == {"alloc", "gate", "entry", "announce", "exclusive", "find", "add", "link"}
OnDisk == {"disk", "diskExclusive", "diskFind", "diskAdd", "diskLink"}
AtEntry == {"find", "add", "link"}      \* the entry lock is held
AtEnd == {"wait", "done"}

\* The participants inside BuildCallback, and those that have ended their scan
Inserting == {p \in Participant : pc[p] \notin {"scan", "wait", "done"}}
Ended == {p \in Participant : pc[p] \in AtEnd}

\* Nobody works in memory once the graph is flushed, or on disk before
PhaseInv ==
  /\ \A p \in Participant :
       /\ flushLock[p] = IF pc[p] \in InMemory THEN "shared" ELSE "none"
       /\ pc[p] \in InMemory => ~flushed
       /\ pc[p] \in OnDisk => flushed
  /\ ~flushed => disk = EmptyGraph

\* indtuples and nparticipantsdone are the counts they are meant to be
CountInv ==
  /\ nparticipantsdone = Cardinality(Ended)
  /\ indtuples + Cardinality(Inserting) = nextTuple - 1
  /\ \A p \in Participant :
       /\ pc[p] \in AtEnd => nextTuple = NTuples + 1
       /\ pc[p] = "wait" => p = Leader
  /\ pc[Leader] = "done" => flushed /\ \A p \in Participant : pc[p] = "done"

\* No two participants insert the same tuple
TupleInv ==
  /\ \A p \in Inserting : tuple[p] \in Tuple /\ tuple[p] < nextTuple
  /\ \A p, q \in Inserting : p # q => tuple[p] # tuple[q]

\* A graph whose links lead to elements
Closed(g) ==
  /\ \A e \in g.elements : g.neighbors[e] \subseteq g.elements
  /\ g.entryPoint \in g.elements \cup {NoTuple}
  /\ \A t \in Tuple \ g.elements : g.heaptids[t] = <<>>
  /\ \A e \in g.elements : e < nextTuple

LinkOf(p) ==
  /\ pc[p] # "link" => tuple[p] \notin graph.elements
  /\ pc[p] # "diskLink" => tuple[p] \notin disk.elements
  /\ pc[p] = "add" => found[p] \subseteq graph.elements
  /\ pc[p] = "link" => /\ todo[p] \subseteq graph.elements
                       /\ tuple[p] \in graph.elements
                       /\ \A n \in todo[p] : tuple[p] \notin graph.neighbors[n]
  /\ pc[p] = "diskAdd" => found[p] \subseteq disk.elements
  /\ pc[p] = "diskLink" => todo[p] \subseteq disk.elements /\ tuple[p] \in disk.elements

LinkInv ==
  /\ Closed(graph) /\ Closed(disk)
  /\ \A p \in Inserting : LinkOf(p)

\* A participant that holds the entry lock knows the entry point and outranks it only if it
\* holds the lock alone
EntryOf(p) ==
  /\ entryLock[p] = "none" <=> pc[p] \notin AtEntry
  /\ pc[p] \in AtEntry => entry[p] = graph.entryPoint
  /\ entryLock[p] = "shared" => ~Outranks(tuple[p], graph.entryPoint)
  /\ pc[p] = "add" /\ found[p] = {} => graph.entryPoint = NoTuple

EntryInv ==
  /\ \A p \in Participant : EntryOf(p)
  /\ \A p, q \in Participant : entryLock[p] = "exclusive" /\ p # q => entryLock[q] = "none"

\* p is about to make its element the entry point
Promotes(p, e) == pc[p] = "link" /\ entryLock[p] = "exclusive" /\ tuple[p] = e

RankInv ==
  /\ \A e \in graph.elements :
       \/ graph.entryPoint # NoTuple /\ level[e] <= level[graph.entryPoint]
       \/ \E p \in Participant : Promotes(p, e)
  /\ \A d, e \in graph.elements : graph.neighbors[d] = {} /\ graph.neighbors[e] = {} => d = e

\* The graph that is being built, and the heap TIDs in a graph
Index == IF flushed THEN disk ELSE graph
At(g, e, i, t) == e \in g.elements /\ i \in 1 .. Len(g.heaptids[e]) /\ g.heaptids[e][i] = t
Has(g, t) == \E e \in Tuple, i \in Nat : At(g, e, i, t)
Stored(t) == t < nextTuple /\ \A p \in Inserting : tuple[p] = t => pc[p] \in {"link", "diskLink"}

Unique(g) ==
  \A t, d, e \in Tuple, i, j \in Nat : At(g, d, i, t) /\ At(g, e, j, t) => d = e /\ i = j

PlaceInv ==
  /\ \A t \in Tuple : Has(Index, t) <=> Stored(t)
  /\ Unique(Index)
  /\ \A e \in Tuple : Len(Index.heaptids[e]) <= HeapTids

IInv == TypeOK /\ PhaseInv /\ CountInv /\ TupleInv /\ LinkInv /\ EntryInv /\ RankInv /\ PlaceInv
USE BuildAssumption

LEMMA Domains ==
  ASSUME TypeOK
  PROVE  /\ DOMAIN pc = Participant /\ DOMAIN tuple = Participant
         /\ DOMAIN flushLock = Participant /\ DOMAIN entryLock = Participant
         /\ DOMAIN updateLock = Participant
         /\ DOMAIN entry = Participant /\ DOMAIN found = Participant
         /\ DOMAIN todo = Participant /\ DOMAIN level = Tuple
  BY SMTT(30), Z3T(30) DEF TypeOK

\* A step of p leaves the local state of the others alone
Others(p) ==
  \A q \in Participant \ {p} :
    /\ pc'[q] = pc[q] /\ tuple'[q] = tuple[q]
    /\ flushLock'[q] = flushLock[q] /\ entryLock'[q] = entryLock[q]
    /\ entry'[q] = entry[q] /\ found'[q] = found[q] /\ todo'[q] = todo[q]

LEMMA OthersStep ==
  ASSUME TypeOK, NEW p \in Participant, Step(p)
  PROVE  Others(p)
<1>1. CASE NextTupleOfScan(p)
  BY <1>1, Domains, Zenon DEF Others, NextTupleOfScan, Go, locks, local
<1>2. CASE BuildCallback(p)
  BY <1>2, Domains, Zenon DEF Others, BuildCallback, Go, Held, local
<1>3. CASE AllocateElement(p)
  BY <1>3, Domains, Zenon DEF Others, AllocateElement, Go, Held, local
<1>4. CASE Flush(p)
  BY <1>4, Domains, Zenon DEF Others, Flush, Go, locks, local
<1>5. CASE PassGate(p)
  BY <1>5, Domains, Zenon DEF Others, PassGate, Go, locks, local
<1>6. CASE ReadEntryPoint(p)
  BY <1>6, Domains, Zenon DEF Others, ReadEntryPoint, Go, Held
<1>7. CASE AnnounceExclusive(p)
  BY <1>7, Domains, Zenon DEF Others, AnnounceExclusive, Go, local
<1>8. CASE LockEntry(p)
  BY <1>8, Domains, Zenon DEF Others, LockEntry, Go, Held
<1>9. CASE FindNeighbors(p)
  BY <1>9, Domains, Zenon DEF Others, FindNeighbors, Go, locks
<1>10. CASE AddInMemory(p)
  BY <1>10, Domains, Zenon DEF Others, AddInMemory, Finished, Go, Held, locks
<1>11. CASE UpdateNeighborInMemory(p)
  BY <1>11, Domains, Zenon DEF Others, UpdateNeighborInMemory, locks
<1>12. CASE UpdateEntryInMemory(p)
  BY <1>12, Domains, Zenon DEF Others, UpdateEntryInMemory, Finished, Go, Held, local
<1>13. CASE LockUpdateShared(p)
  BY <1>13, Domains, Zenon DEF Others, LockUpdateShared, Go, Held
<1>14. CASE LockUpdateExclusive(p)
  BY <1>14, Domains, Zenon DEF Others, LockUpdateExclusive, Go, Held
<1>15. CASE FindNeighborsOnDisk(p)
  BY <1>15, Domains, Zenon DEF Others, FindNeighborsOnDisk, Go, locks
<1>16. CASE AddOnDisk(p)
  BY <1>16, Domains, Zenon DEF Others, AddOnDisk, Finished, Go, Held, locks
<1>17. CASE UpdateNeighborOnDisk(p)
  BY <1>17, Domains, Zenon DEF Others, UpdateNeighborOnDisk, locks
<1>18. CASE UpdateEntryOnDisk(p)
  BY <1>18, Domains, Zenon DEF Others, UpdateEntryOnDisk, Finished, Go, Held, local
<1>. QED BY <1>1, <1>2, <1>3, <1>4, <1>5, <1>6, <1>7, <1>8, <1>9, <1>10, <1>11, <1>12, <1>13,
            <1>14, <1>15, <1>16, <1>17, <1>18, Zenon DEF Step

-----------------------------------------------------------------------------
(* What the operations on a graph do *)

LEMMA DuplicateEffect ==
  ASSUME NEW g \in Graph, NEW d \in Tuple, NEW t \in Tuple
  PROVE  LET h == WithDuplicate(g, d, t) IN
         /\ h \in Graph /\ h.elements = g.elements /\ h.neighbors = g.neighbors
         /\ h.entryPoint = g.entryPoint
         /\ h.heaptids[d] = Append(g.heaptids[d], t)
         /\ \A e \in Tuple \ {d} : h.heaptids[e] = g.heaptids[e]
<1>1. g.heaptids \in [Tuple -> Seq(Tuple)]
  BY SMTT(30), Z3T(30) DEF Graph
<1>2. [g.heaptids EXCEPT ![d] = Append(@, t)] \in [Tuple -> Seq(Tuple)]
  BY <1>1, SMTT(30), Z3T(30)
<1>. QED BY <1>1, <1>2, Zenon DEF WithDuplicate, Graph

LEMMA ElementEffect ==
  ASSUME NEW g \in Graph, NEW t \in Tuple, NEW N \in SUBSET Tuple
  PROVE  LET h == WithElement(g, t, N) IN
         /\ h \in Graph /\ h.elements = g.elements \cup {t} /\ h.entryPoint = g.entryPoint
         /\ h.neighbors[t] = N /\ h.heaptids[t] = <<t>>
         /\ \A e \in Tuple \ {t} :
              h.neighbors[e] = g.neighbors[e] /\ h.heaptids[e] = g.heaptids[e]
<1>1. g.heaptids \in [Tuple -> Seq(Tuple)] /\ g.neighbors \in [Tuple -> SUBSET Tuple]
  BY SMTT(30), Z3T(30) DEF Graph
<1>2. /\ [g.heaptids EXCEPT ![t] = <<t>>] \in [Tuple -> Seq(Tuple)]
      /\ [g.neighbors EXCEPT ![t] = N] \in [Tuple -> SUBSET Tuple]
  BY <1>1, SMTT(30), Z3T(30)
<1>. QED BY <1>1, <1>2, ZenonT(30) DEF WithElement, Graph

LEMMA ElementParts ==
  \A g \in Graph : \A t \in Tuple : \A N \in SUBSET Tuple : \A h :
    h = WithElement(g, t, N) =>
      /\ h.elements = g.elements \cup {t} /\ h.entryPoint = g.entryPoint
      /\ h.neighbors[t] = N /\ \A e \in Tuple \ {t} : h.neighbors[e] = g.neighbors[e]
  BY ElementEffect, SMTT(30), Z3T(30)

\* HnswUpdateConnection empties no list
LEMMA ConnectionEffect ==
  ASSUME NEW g \in Graph, NEW n \in Tuple, NEW t \in Tuple, NEW h \in WithConnection(g, n, t)
  PROVE  /\ h \in Graph /\ h.elements = g.elements /\ h.entryPoint = g.entryPoint
         /\ h.heaptids = g.heaptids
         /\ h.neighbors[n] \subseteq g.neighbors[n] \cup {t}
         /\ t \notin g.neighbors[n] /\ h.neighbors[n] = {} => g.neighbors[n] = {}
         /\ \A e \in Tuple \ {n} : h.neighbors[e] = g.neighbors[e]
<1>1. g.neighbors \in [Tuple -> SUBSET Tuple]
  BY SMTT(30), Z3T(30) DEF Graph
<1>2. PICK X \in SUBSET (g.neighbors[n] \cup {t}) :
        /\ h = [g EXCEPT !.neighbors[n] = X]
        /\ t \notin g.neighbors[n] /\ X = {} => g.neighbors[n] = {}
  <2>1. CASE Cardinality(g.neighbors[n]) < M
    BY <2>1, SMTT(30), Z3T(30) DEF WithConnection
  <2>2. CASE ~(Cardinality(g.neighbors[n]) < M)
    <3>1. PICK x : h = [g EXCEPT !.neighbors[n] = (@ \cup {t}) \ {x}]
      BY <2>2, ZenonT(30) DEF WithConnection
    <3>2. h = [g EXCEPT !.neighbors[n] = (g.neighbors[n] \cup {t}) \ {x}]
      BY <3>1, SMTT(30), Z3T(30)
    <3>3. t \notin g.neighbors[n] /\ (g.neighbors[n] \cup {t}) \ {x} = {} => g.neighbors[n] = {}
      BY Zenon
    <3>. QED BY <3>2, <3>3, Zenon
  <2>. QED BY <2>1, <2>2, Zenon
<1>3. [g.neighbors EXCEPT ![n] = X] \in [Tuple -> SUBSET Tuple]
  BY <1>1, SMTT(30), Z3T(30)
<1>. QED BY <1>1, <1>2, <1>3, ZenonT(30) DEF Graph

LEMMA ConnectionFrame ==
  \A g \in Graph : \A n, t \in Tuple : \A h \in WithConnection(g, n, t) :
    h.elements = g.elements /\ h.entryPoint = g.entryPoint /\ h.heaptids = g.heaptids
  BY ConnectionEffect, SMTT(30), Z3T(30)

LEMMA EntryPointEffect ==
  ASSUME NEW g \in Graph, NEW t \in Tuple
  PROVE  LET h == [g EXCEPT !.entryPoint = t] IN
         /\ h \in Graph /\ h.elements = g.elements /\ h.neighbors = g.neighbors
         /\ h.heaptids = g.heaptids /\ h.entryPoint = t
  BY Zenon DEF Graph

\* A search finds elements, and none only in an empty graph
LEMMA FoundElements ==
  ASSUME NEW g \in Graph, Closed(g), NEW t, NEW ep, NEW N \in Neighbors(g, t, ep)
  PROVE  N \subseteq g.elements /\ (N = {} => ep = NoTuple)
  BY SMTT(30), Z3T(30) DEF Neighbors, Known, Closed, Graph
-----------------------------------------------------------------------------
(* TypeOK *)

GraphsType == graph \in Graph /\ disk \in Graph

LEMMA GraphsStep ==
  ASSUME TypeOK, TupleInv, NEW p \in Participant, Step(p)
  PROVE  GraphsType'
<1>0. /\ graph \in Graph /\ disk \in Graph
      /\ pc[p] \notin {"scan", "wait", "done"} => tuple[p] \in Tuple
      /\ found[p] \in SUBSET Tuple /\ todo[p] \in SUBSET Tuple
  BY Zenon DEF TypeOK, TupleInv, Inserting
<1>1. ASSUME UNCHANGED <<graph, disk>> \/ (UNCHANGED graph /\ disk' = graph) PROVE GraphsType'
  BY <1>0, <1>1, Zenon DEF GraphsType
<1>2. CASE AddInMemory(p)
  <2>1. /\ pc[p] = "add" /\ disk' = disk
        /\ \/ \E d \in found[p] : graph' = WithDuplicate(graph, d, tuple[p])
           \/ graph' = WithElement(graph, tuple[p], found[p])
    BY <1>2, Zenon DEF AddInMemory, Duplicates, AddElementInMemory
  <2>2. tuple[p] \in Tuple
    BY <1>0, <2>1, SMTT(30), Z3T(30)
  <2>. QED BY <1>0, <2>1, <2>2, DuplicateEffect, ElementEffect, SMTT(30), Z3T(30) DEF GraphsType
<1>3. CASE UpdateNeighborInMemory(p)
  <2>1. /\ pc[p] = "link" /\ disk' = disk
        /\ \E n \in todo[p] : graph' \in WithConnection(graph, n, tuple[p])
    BY <1>3, Zenon DEF UpdateNeighborInMemory
  <2>2. tuple[p] \in Tuple
    BY <1>0, <2>1, SMTT(30), Z3T(30)
  <2>. QED BY <1>0, <2>1, <2>2, ConnectionEffect, SMTT(30), Z3T(30) DEF GraphsType
<1>4. CASE UpdateEntryInMemory(p)
  <2>1. /\ pc[p] = "link" /\ disk' = disk
        /\ graph' = [graph EXCEPT !.entryPoint = tuple[p]] \/ graph' = graph
    BY <1>4, Zenon DEF UpdateEntryInMemory
  <2>2. tuple[p] \in Tuple
    BY <1>0, <2>1, ZenonT(30)
  <2>. QED BY <1>0, <2>1, <2>2, EntryPointEffect, SMTT(30), Z3T(30) DEF GraphsType
<1>5. CASE AddOnDisk(p)
  <2>1. /\ pc[p] = "diskAdd" /\ graph' = graph
        /\ \/ \E d \in found[p] : disk' = WithDuplicate(disk, d, tuple[p])
           \/ disk' = WithElement(disk, tuple[p], found[p])
    BY <1>5, Zenon DEF AddOnDisk, Duplicates
  <2>2. tuple[p] \in Tuple
    BY <1>0, <2>1, SMTT(30), Z3T(30)
  <2>. QED BY <1>0, <2>1, <2>2, DuplicateEffect, ElementEffect, SMTT(30), Z3T(30) DEF GraphsType
<1>6. CASE UpdateNeighborOnDisk(p)
  <2>1. /\ pc[p] = "diskLink" /\ graph' = graph
        /\ \E n \in todo[p] : disk' \in WithConnection(disk, n, tuple[p])
    BY <1>6, Zenon DEF UpdateNeighborOnDisk
  <2>2. tuple[p] \in Tuple
    BY <1>0, <2>1, SMTT(30), Z3T(30)
  <2>. QED BY <1>0, <2>1, <2>2, ConnectionEffect, SMTT(30), Z3T(30) DEF GraphsType
<1>7. CASE UpdateEntryOnDisk(p)
  <2>1. /\ pc[p] = "diskLink" /\ graph' = graph
        /\ disk' = [disk EXCEPT !.entryPoint = tuple[p]] \/ disk' = disk
    BY <1>7, Zenon DEF UpdateEntryOnDisk
  <2>2. tuple[p] \in Tuple
    BY <1>0, <2>1, SMTT(30), Z3T(30)
  <2>. QED BY <1>0, <2>1, <2>2, EntryPointEffect, SMTT(30), Z3T(30) DEF GraphsType
<1>8. ASSUME \/ NextTupleOfScan(p) \/ BuildCallback(p) \/ AllocateElement(p) \/ Flush(p)
             \/ PassGate(p) \/ ReadEntryPoint(p) \/ AnnounceExclusive(p) \/ LockEntry(p)
             \/ FindNeighbors(p) \/ LockUpdateShared(p) \/ LockUpdateExclusive(p)
             \/ FindNeighborsOnDisk(p)
      PROVE  GraphsType'
  BY <1>1, <1>8, Zenon DEF NextTupleOfScan, BuildCallback, AllocateElement, Flush, FlushPages,
     PassGate, ReadEntryPoint, AnnounceExclusive, LockEntry, FindNeighbors, LockUpdateShared,
     LockUpdateExclusive, FindNeighborsOnDisk
<1>. QED BY <1>2, <1>3, <1>4, <1>5, <1>6, <1>7, <1>8, Zenon DEF Step

PcType ==
  pc \in [Participant -> {"scan", "insert", "alloc", "flush", "gate", "entry", "announce",
                          "exclusive", "find", "add", "link", "disk", "diskExclusive",
                          "diskFind", "diskAdd", "diskLink", "wait", "done"}]
SharedType ==
  /\ nextTuple \in 1 .. NTuples + 1
  /\ tuple \in [Participant -> Tuple \cup {NoTuple}] /\ level \in [Tuple -> Nat]
  /\ flushed \in BOOLEAN /\ memoryUsed \in 0 .. MemoryTotal
  /\ indtuples \in Nat /\ nparticipantsdone \in Nat
LocksType ==
  /\ {flushLock, entryLock, updateLock} \subseteq [Participant -> LockMode]
  /\ entryWaitLock \subseteq Participant
LocalType ==
  /\ entry \in [Participant -> Tuple \cup {NoTuple}]
  /\ {found, todo} \subseteq [Participant -> SUBSET Tuple]

LEMMA TypeParts == TypeOK <=> PcType /\ SharedType /\ GraphsType /\ LocksType /\ LocalType
  BY Zenon DEF TypeOK, PcType, SharedType, GraphsType, LocksType, LocalType

LEMMA PcStep ==
  ASSUME PcType, NEW p \in Participant, Step(p)
  PROVE  PcType'
<1>1. ASSUME NEW w \in {"scan", "insert", "alloc", "flush", "gate", "entry", "announce",
                        "exclusive", "find", "add", "link", "disk", "diskExclusive",
                        "diskFind", "diskAdd", "diskLink", "wait", "done"}, Go(p, w)
      PROVE  PcType'
  BY <1>1, SMTT(30), Z3T(30) DEF PcType, Go
<1>2. CASE NextTupleOfScan(p) \/ BuildCallback(p) \/ AllocateElement(p) \/ Flush(p)
  BY <1>1, <1>2, Zenon DEF NextTupleOfScan, BuildCallback, AllocateElement, WhenFull, Flush
<1>3. CASE PassGate(p) \/ ReadEntryPoint(p) \/ AnnounceExclusive(p) \/ LockEntry(p)
  BY <1>1, <1>3, Zenon DEF PassGate, ReadEntryPoint, AnnounceExclusive, LockEntry
<1>4. CASE FindNeighbors(p) \/ AddInMemory(p) \/ UpdateEntryInMemory(p)
  BY <1>1, <1>4, Zenon DEF FindNeighbors, AddInMemory, UpdateEntryInMemory, Finished
<1>5. CASE UpdateNeighborInMemory(p) \/ UpdateNeighborOnDisk(p)
  BY <1>5, Zenon DEF UpdateNeighborInMemory, UpdateNeighborOnDisk, PcType
<1>6. CASE LockUpdateShared(p) \/ LockUpdateExclusive(p) \/ FindNeighborsOnDisk(p)
  BY <1>1, <1>6, Zenon DEF LockUpdateShared, LockUpdateExclusive, FindNeighborsOnDisk
<1>7. CASE AddOnDisk(p) \/ UpdateEntryOnDisk(p)
  BY <1>1, <1>7, Zenon DEF AddOnDisk, UpdateEntryOnDisk, Finished
<1>. QED BY <1>2, <1>3, <1>4, <1>5, <1>6, <1>7, Zenon DEF Step

LEMMA SharedStep ==
  ASSUME SharedType, NEW p \in Participant, Step(p)
  PROVE  SharedType'
<1>1. CASE NextTupleOfScan(p)
  <2>1. /\ \/ /\ nextTuple <= NTuples
              /\ tuple' = [tuple EXCEPT ![p] = nextTuple] /\ nextTuple' = nextTuple + 1
              /\ UNCHANGED nparticipantsdone
           \/ /\ nparticipantsdone' = nparticipantsdone + 1
              /\ UNCHANGED <<tuple, nextTuple>>
        /\ UNCHANGED <<level, flushed, memoryUsed, indtuples>>
    BY <1>1, Zenon DEF NextTupleOfScan
  <2>. QED BY <2>1, SMTT(30), Z3T(30) DEF SharedType, Tuple
<1>2. CASE AllocateElement(p)
  <2>1. /\ \/ UNCHANGED <<level, memoryUsed>>
           \/ /\ ~(memoryUsed + MemoryMargin >= MemoryTotal)
              /\ \E cost \in 1 .. MaxCost, l \in Levels :
                   /\ memoryUsed' = memoryUsed + cost
                   /\ level' = [level EXCEPT ![tuple[p]] = l]
        /\ UNCHANGED <<nextTuple, tuple, flushed, indtuples, nparticipantsdone>>
    BY <1>2, Zenon DEF AllocateElement, MemoryFull
  <2>. QED BY <2>1, SMTT(30), Z3T(30) DEF SharedType
<1>3. CASE LockUpdateShared(p)
  <2>1. /\ \E l \in Levels : level' = [level EXCEPT ![tuple[p]] = l]
        /\ UNCHANGED <<nextTuple, tuple, flushed, memoryUsed, indtuples, nparticipantsdone>>
    BY <1>3, Zenon DEF LockUpdateShared
  <2>. QED BY <2>1, Zenon DEF SharedType
<1>4. ASSUME /\ indtuples' = indtuples \/ indtuples' = indtuples + 1
             /\ flushed' = flushed \/ flushed' = TRUE
             /\ UNCHANGED <<nextTuple, tuple, level, memoryUsed, nparticipantsdone>>
      PROVE  SharedType'
  <2>1. flushed' \in BOOLEAN
    BY <1>4, Zenon DEF SharedType
  <2>. QED BY <1>4, <2>1, SMTT(30), Z3T(30) DEF SharedType
<1>5. CASE AddInMemory(p) \/ UpdateEntryInMemory(p) \/ AddOnDisk(p) \/ UpdateEntryOnDisk(p)
  BY <1>4, <1>5, Zenon DEF AddInMemory, UpdateEntryInMemory, AddOnDisk, UpdateEntryOnDisk, Finished
<1>6. CASE \/ BuildCallback(p) \/ Flush(p) \/ PassGate(p) \/ ReadEntryPoint(p)
           \/ AnnounceExclusive(p) \/ LockEntry(p) \/ FindNeighbors(p)
  BY <1>4, <1>6, Zenon DEF BuildCallback, Flush, FlushPages, PassGate, ReadEntryPoint,
     AnnounceExclusive, LockEntry, FindNeighbors
<1>7. CASE \/ UpdateNeighborInMemory(p) \/ UpdateNeighborOnDisk(p) \/ LockUpdateExclusive(p)
           \/ FindNeighborsOnDisk(p)
  BY <1>4, <1>7, Zenon DEF UpdateNeighborInMemory, UpdateNeighborOnDisk, LockUpdateExclusive,
     FindNeighborsOnDisk
<1>. QED BY <1>1, <1>2, <1>3, <1>5, <1>6, <1>7, Zenon DEF Step

LEMMA LocksStep ==
  ASSUME LocksType, NEW p \in Participant, Step(p)
  PROVE  LocksType'
<1>1. ASSUME NEW lock \in [Participant -> LockMode], NEW new,
             new = lock \/ \E m \in {"none", "shared", "exclusive"} : new = Held(lock, p, m)
      PROVE  new \in [Participant -> LockMode]
  BY <1>1, SMTT(30), Z3T(30) DEF Held, LockMode
<1>3. /\ flushLock \in [Participant -> LockMode] /\ entryLock \in [Participant -> LockMode]
      /\ updateLock \in [Participant -> LockMode]
      /\ entryWaitLock \subseteq Participant
  BY SMTT(30), Z3T(30) DEF LocksType
<1>4. ASSUME /\ flushLock' = flushLock \/ \E m \in {"none", "shared", "exclusive"} :
                                            flushLock' = Held(flushLock, p, m)
             /\ entryLock' = entryLock \/ \E m \in {"none", "shared", "exclusive"} :
                                            entryLock' = Held(entryLock, p, m)
             /\ updateLock' = updateLock \/ \E m \in {"none", "shared", "exclusive"} :
                                            updateLock' = Held(updateLock, p, m)
             /\ entryWaitLock' \in {entryWaitLock, {p}, {}}
      PROVE  LocksType'
  <2>1. flushLock' \in [Participant -> LockMode]
    BY <1>1, <1>3, <1>4, SMTT(30), Z3T(30)
  <2>2. entryLock' \in [Participant -> LockMode]
    BY <1>1, <1>3, <1>4, SMTT(30), Z3T(30)
  <2>3. updateLock' \in [Participant -> LockMode]
    BY <1>1, <1>3, <1>4, SMTT(30), Z3T(30)
  <2>. QED BY <1>3, <1>4, <2>1, <2>2, <2>3, SMTT(30), Z3T(30) DEF LocksType
<1>5. CASE NextTupleOfScan(p) \/ BuildCallback(p) \/ AllocateElement(p) \/ Flush(p)
  BY <1>4, <1>5, Zenon DEF NextTupleOfScan, BuildCallback, AllocateElement, Flush, locks
<1>6. CASE PassGate(p) \/ ReadEntryPoint(p) \/ AnnounceExclusive(p) \/ LockEntry(p)
  BY <1>4, <1>6, Zenon DEF PassGate, ReadEntryPoint, AnnounceExclusive, LockEntry, locks
<1>7. CASE FindNeighbors(p) \/ UpdateNeighborInMemory(p) \/ FindNeighborsOnDisk(p)
           \/ UpdateNeighborOnDisk(p)
  BY <1>4, <1>7, Zenon DEF FindNeighbors, UpdateNeighborInMemory, FindNeighborsOnDisk,
     UpdateNeighborOnDisk, locks
<1>8. CASE AddInMemory(p) \/ UpdateEntryInMemory(p)
  BY <1>4, <1>8, Zenon DEF AddInMemory, UpdateEntryInMemory, Finished, locks
<1>9. CASE AddOnDisk(p) \/ UpdateEntryOnDisk(p)
  BY <1>4, <1>9, Zenon DEF AddOnDisk, UpdateEntryOnDisk, Finished, locks
<1>10. CASE LockUpdateShared(p) \/ LockUpdateExclusive(p)
  BY <1>4, <1>10, Zenon DEF LockUpdateShared, LockUpdateExclusive
<1>. QED BY <1>5, <1>6, <1>7, <1>8, <1>9, <1>10, Zenon DEF Step

LEMMA LocalStep ==
  ASSUME LocalType, GraphsType, NEW p \in Participant, Step(p)
  PROVE  LocalType'
<1>1. /\ found \in [Participant -> SUBSET Tuple] /\ todo \in [Participant -> SUBSET Tuple]
      /\ found[p] \in SUBSET Tuple /\ todo[p] \in SUBSET Tuple
  BY SMTT(30), Z3T(30) DEF LocalType
<1>2. /\ graph.entryPoint \in Tuple \cup {NoTuple} /\ disk.entryPoint \in Tuple \cup {NoTuple}
  BY SMTT(30), Z3T(30) DEF GraphsType, Graph
<1>3. ASSUME NEW g \in Graph, NEW t, NEW ep, NEW N \in Neighbors(g, t, ep)
      PROVE  N \in SUBSET Tuple
  <2>1. \A e \in g.elements : g.neighbors[e] \subseteq Tuple
    BY SMTT(30), Z3T(30) DEF Graph
  <2>2. Known(g) \subseteq Tuple \cup {NoTuple}
    BY <2>1, SMTT(30), Z3T(30) DEF Graph, Known
  <2>. QED BY <2>2, SMTT(30), Z3T(30) DEF Neighbors
<1>4. ASSUME /\ \/ entry' = entry \/ entry' = [entry EXCEPT ![p] = graph.entryPoint]
                \/ entry' = [entry EXCEPT ![p] = disk.entryPoint]
             /\ found' = found \/ \E N \in SUBSET Tuple : found' = [found EXCEPT ![p] = N]
             /\ todo' = todo \/ \E N \in SUBSET Tuple : todo' = [todo EXCEPT ![p] = N]
      PROVE  LocalType'
  BY <1>1, <1>2, <1>4, SMTT(30), Z3T(30) DEF LocalType
<1>5. CASE NextTupleOfScan(p) \/ BuildCallback(p) \/ AllocateElement(p) \/ Flush(p)
  BY <1>4, <1>5, Zenon DEF NextTupleOfScan, BuildCallback, AllocateElement, Flush, local
<1>6. CASE PassGate(p) \/ ReadEntryPoint(p) \/ AnnounceExclusive(p) \/ LockEntry(p)
  BY <1>4, <1>6, Zenon DEF PassGate, ReadEntryPoint, AnnounceExclusive, LockEntry, local
<1>7. CASE FindNeighbors(p) \/ FindNeighborsOnDisk(p)
  <2>1. /\ \/ \E N \in Neighbors(graph, tuple[p], entry[p]) : found' = [found EXCEPT ![p] = N]
           \/ \E N \in Neighbors(disk, tuple[p], entry[p]) : found' = [found EXCEPT ![p] = N]
        /\ UNCHANGED <<entry, todo>>
    BY <1>7, Zenon DEF FindNeighbors, FindNeighborsOnDisk
  <2>2. \E N \in SUBSET Tuple : found' = [found EXCEPT ![p] = N]
    BY <1>3, <2>1, SMTT(30), Z3T(30) DEF GraphsType
  <2>. QED BY <1>4, <2>1, <2>2, Zenon
<1>8. CASE UpdateNeighborInMemory(p) \/ UpdateNeighborOnDisk(p)
  <2>1. \A n : todo[p] \ {n} \in SUBSET Tuple
    BY <1>1, SMTT(30), Z3T(30)
  <2>2. \E n : todo' = [todo EXCEPT ![p] = todo[p] \ {n}]
    BY <1>8, Zenon DEF UpdateNeighborInMemory, UpdateNeighborOnDisk
  <2>3. UNCHANGED <<entry, found>>
    BY <1>8, Zenon DEF UpdateNeighborInMemory, UpdateNeighborOnDisk
  <2>. QED BY <1>4, <2>1, <2>2, <2>3, Zenon
<1>9. CASE AddInMemory(p) \/ AddOnDisk(p)
  BY <1>1, <1>4, <1>9, Zenon DEF AddInMemory, AddOnDisk
<1>10. CASE UpdateEntryInMemory(p) \/ UpdateEntryOnDisk(p)
  BY <1>4, <1>10, Zenon DEF UpdateEntryInMemory, UpdateEntryOnDisk, local
<1>11. CASE LockUpdateShared(p) \/ LockUpdateExclusive(p)
  BY <1>4, <1>11, Zenon DEF LockUpdateShared, LockUpdateExclusive
<1>. QED BY <1>5, <1>6, <1>7, <1>8, <1>9, <1>10, <1>11, Zenon DEF Step

LEMMA TypeStep ==
  ASSUME TypeOK, TupleInv, NEW p \in Participant, Step(p)
  PROVE  TypeOK'
<1>1. PcType /\ SharedType /\ GraphsType /\ LocksType /\ LocalType
  BY TypeParts, Zenon
<1>2. PcType' /\ SharedType' /\ GraphsType' /\ LocksType' /\ LocalType'
  BY <1>1, PcStep, SharedStep, GraphsStep, LocksStep, LocalStep, Zenon
<1>. QED BY <1>2, Zenon DEF TypeOK, PcType, SharedType, GraphsType, LocksType, LocalType

-----------------------------------------------------------------------------
(* PhaseInv *)

LEMMA PhaseStep ==
  ASSUME TypeOK, PhaseInv, NEW p \in Participant, Step(p)
  PROVE  PhaseInv'
<1>0. /\ \A q \in Participant :
           /\ flushLock[q] = IF pc[q] \in InMemory THEN "shared" ELSE "none"
           /\ pc[q] \in InMemory => ~flushed
           /\ pc[q] \in OnDisk => flushed
      /\ ~flushed => disk = EmptyGraph
      /\ \A q \in Participant \ {p} : pc'[q] = pc[q] /\ flushLock'[q] = flushLock[q]
  BY OthersStep, Zenon DEF PhaseInv, Others
<1>1. /\ "insert" \notin InMemory \cup OnDisk /\ "scan" \notin InMemory \cup OnDisk
      /\ "flush" \notin InMemory \cup OnDisk /\ "wait" \notin InMemory \cup OnDisk
      /\ "done" \notin InMemory \cup OnDisk /\ InMemory \cap OnDisk = {}
      /\ {"alloc", "gate", "entry", "announce", "exclusive", "find", "add", "link"} = InMemory
      /\ {"disk", "diskExclusive", "diskFind", "diskAdd", "diskLink"} = OnDisk
  BY SMTT(30), Z3T(30) DEF InMemory, OnDisk
\* A step that takes no flush lock and stays in its phase
<1>2. ASSUME flushed' = flushed, flushLock'[p] = flushLock[p],
             disk' = disk \/ pc[p] \in OnDisk,
             pc[p] \in InMemory <=> pc'[p] \in InMemory,
             pc'[p] \in OnDisk => pc[p] \in OnDisk
      PROVE  PhaseInv'
  <2>1. ~flushed' => disk' = EmptyGraph
    BY <1>0, <1>2, Zenon DEF EmptyGraph
  <2>. QED BY <1>0, <1>2, <2>1, Zenon DEF PhaseInv, EmptyGraph
\* The end of an insert
<1>3. ASSUME flushed' = flushed, Finished(p), disk' = disk \/ pc[p] \in OnDisk
      PROVE  PhaseInv'
  <2>1. pc'[p] = "scan" /\ flushLock'[p] = "none"
    BY <1>3, Domains, Zenon DEF Finished, Go, Held
  <2>2. ~flushed' => disk' = EmptyGraph
    BY <1>0, <1>3, Zenon DEF EmptyGraph
  <2>. QED BY <1>0, <1>1, <1>3, <2>1, <2>2, SMTT(30), Z3T(30) DEF PhaseInv, EmptyGraph
<1>4. CASE NextTupleOfScan(p)
  <2>1. /\ pc[p] = "scan" /\ pc'[p] \in {"insert", "wait", "done"}
        /\ UNCHANGED <<flushed, flushLock, disk>>
    BY <1>4, Domains, Zenon DEF NextTupleOfScan, Go, locks
  <2>. QED BY <1>1, <1>2, <2>1, SMTT(30), Z3T(30)
<1>5. CASE BuildCallback(p)
  <2>1. /\ UNCHANGED <<flushed, disk>>
        /\ \/ flushed /\ pc'[p] = "disk" /\ flushLock'[p] = flushLock[p]
           \/ ~flushed /\ pc'[p] = "alloc" /\ flushLock'[p] = "shared"
        /\ pc[p] = "insert"
    BY <1>5, Domains, Zenon DEF BuildCallback, Go, Held
  <2>. QED BY <1>0, <1>1, <2>1, SMTT(30), Z3T(30) DEF PhaseInv, EmptyGraph
<1>6. CASE AllocateElement(p)
  <2>1. /\ UNCHANGED <<flushed, disk>> /\ pc[p] = "alloc"
        /\ \/ pc'[p] = "flush" /\ flushLock'[p] = "none"
           \/ pc'[p] = "gate" /\ flushLock'[p] = flushLock[p]
    BY <1>6, Domains, Zenon DEF AllocateElement, WhenFull, Go, Held
  <2>. QED BY <1>0, <1>1, <2>1, SMTT(30), Z3T(30) DEF PhaseInv, EmptyGraph
<1>7. CASE Flush(p)
  <2>1. /\ pc[p] = "flush" /\ pc'[p] = "disk" /\ flushLock' = flushLock
        /\ flushed' = TRUE
        /\ \A q \in Participant \ {p} : flushLock[q] = "none"
    BY <1>7, Domains, Zenon DEF Flush, FlushPages, Go, Grants, locks
  <2>. QED BY <1>0, <1>1, <2>1, SMTT(30), Z3T(30) DEF PhaseInv
<1>8. CASE PassGate(p) \/ ReadEntryPoint(p) \/ AnnounceExclusive(p) \/ LockEntry(p)
  <2>1. /\ pc[p] \in {"gate", "entry", "announce", "exclusive"}
        /\ pc'[p] \in {"entry", "announce", "exclusive", "find"}
        /\ UNCHANGED <<flushed, flushLock, disk>>
    BY <1>8, Domains, Zenon DEF PassGate, ReadEntryPoint, AnnounceExclusive, LockEntry, Go, locks
  <2>. QED BY <1>1, <1>2, <2>1, SMTT(30), Z3T(30)
<1>9. CASE FindNeighbors(p) \/ UpdateNeighborInMemory(p)
  <2>1. /\ pc[p] \in {"find", "link"} /\ pc'[p] \in {"add", "link"}
        /\ UNCHANGED <<flushed, flushLock, disk>>
    BY <1>9, Domains, Zenon DEF FindNeighbors, UpdateNeighborInMemory, Go, locks
  <2>. QED BY <1>1, <1>2, <2>1, SMTT(30), Z3T(30)
<1>10. CASE AddInMemory(p) \/ UpdateEntryInMemory(p)
  <2>1. /\ UNCHANGED <<flushed, disk>>
        /\ \/ Finished(p)
           \/ pc[p] = "add" /\ pc'[p] = "link" /\ flushLock' = flushLock
    BY <1>10, Domains, Zenon DEF AddInMemory, UpdateEntryInMemory, Go, locks
  <2>. QED BY <1>1, <1>2, <1>3, <2>1, SMTT(30), Z3T(30)
<1>11. CASE LockUpdateShared(p) \/ LockUpdateExclusive(p) \/ FindNeighborsOnDisk(p)
            \/ UpdateNeighborOnDisk(p)
  <2>1. /\ pc[p] \in {"disk", "diskExclusive", "diskFind", "diskLink"}
        /\ pc'[p] \in {"diskExclusive", "diskFind", "diskAdd", "diskLink"}
        /\ UNCHANGED <<flushed, flushLock>>
    BY <1>11, Domains, Zenon DEF LockUpdateShared, LockUpdateExclusive, FindNeighborsOnDisk,
       UpdateNeighborOnDisk, Go, locks
  <2>. QED BY <1>1, <1>2, <2>1, SMTT(30), Z3T(30)
<1>12. CASE AddOnDisk(p) \/ UpdateEntryOnDisk(p)
  <2>1. /\ UNCHANGED flushed /\ pc[p] \in {"diskAdd", "diskLink"}
        /\ \/ Finished(p)
           \/ pc'[p] = "diskLink" /\ flushLock' = flushLock
    BY <1>12, Domains, Zenon DEF AddOnDisk, UpdateEntryOnDisk, Go, locks
  <2>. QED BY <1>1, <1>2, <1>3, <2>1, SMTT(30), Z3T(30)
<1>. QED BY <1>4, <1>5, <1>6, <1>7, <1>8, <1>9, <1>10, <1>11, <1>12, Zenon DEF Step

-----------------------------------------------------------------------------
(* TupleInv *)

\* What a step is for the counts: a tuple is taken, a scan ends, an insert goes on or ends
Takes(p) ==
  /\ pc[p] = "scan" /\ pc'[p] = "insert" /\ nextTuple <= NTuples
  /\ tuple'[p] = nextTuple /\ nextTuple' = nextTuple + 1
  /\ UNCHANGED <<indtuples, nparticipantsdone>>
Ends(p) ==
  /\ pc[p] = "scan" /\ pc'[p] = (IF p = Leader THEN "wait" ELSE "done")
  /\ nextTuple > NTuples /\ nparticipantsdone' = nparticipantsdone + 1
  /\ UNCHANGED <<tuple, nextTuple, indtuples>>
Goes(p) ==
  /\ pc[p] \notin {"scan", "wait", "done"} /\ pc'[p] \notin {"scan", "wait", "done"}
  /\ UNCHANGED <<tuple, nextTuple, indtuples, nparticipantsdone>>
Returns(p) ==
  /\ pc[p] \notin {"scan", "wait", "done"} /\ pc'[p] = "scan"
  /\ indtuples' = indtuples + 1
  /\ UNCHANGED <<tuple, nextTuple, nparticipantsdone>>

LEMMA StepKinds ==
  ASSUME TypeOK, NEW p \in Participant, Step(p)
  PROVE  Takes(p) \/ Ends(p) \/ Goes(p) \/ Returns(p)
<1>1. CASE NextTupleOfScan(p)
  BY <1>1, Domains, Zenon DEF NextTupleOfScan, Go, Takes, Ends
<1>2. ASSUME pc[p] \notin {"scan", "wait", "done"}, Finished(p),
             UNCHANGED <<tuple, nextTuple, nparticipantsdone>>
      PROVE  Returns(p)
  BY <1>2, Domains, Zenon DEF Finished, Go, Returns
<1>3. CASE BuildCallback(p) \/ AllocateElement(p) \/ Flush(p)
  <2>1. /\ pc[p] \in {"insert", "alloc", "flush"} /\ pc'[p] \in {"disk", "alloc", "flush", "gate"}
        /\ UNCHANGED <<tuple, nextTuple, indtuples, nparticipantsdone>>
    BY <1>3, Domains, Zenon DEF BuildCallback, AllocateElement, WhenFull, Flush, Go
  <2>. QED BY <2>1, SMTT(30), Z3T(30) DEF Goes
<1>4. CASE PassGate(p) \/ ReadEntryPoint(p) \/ AnnounceExclusive(p) \/ LockEntry(p)
  <2>1. /\ pc[p] \in {"gate", "entry", "announce", "exclusive"}
        /\ pc'[p] \in {"entry", "announce", "exclusive", "find"}
        /\ UNCHANGED <<tuple, nextTuple, indtuples, nparticipantsdone>>
    BY <1>4, Domains, Zenon DEF PassGate, ReadEntryPoint, AnnounceExclusive, LockEntry, Go
  <2>. QED BY <2>1, SMTT(30), Z3T(30) DEF Goes
<1>5. CASE FindNeighbors(p) \/ UpdateNeighborInMemory(p)
  <2>1. /\ pc[p] \in {"find", "link"} /\ pc'[p] \in {"add", "link"}
        /\ UNCHANGED <<tuple, nextTuple, indtuples, nparticipantsdone>>
    BY <1>5, Domains, Zenon DEF FindNeighbors, UpdateNeighborInMemory, Go
  <2>. QED BY <2>1, SMTT(30), Z3T(30) DEF Goes
<1>6. CASE AddInMemory(p) \/ UpdateEntryInMemory(p)
  <2>1. /\ pc[p] \in {"add", "link"} /\ UNCHANGED <<tuple, nextTuple, nparticipantsdone>>
        /\ \/ Finished(p)
           \/ pc'[p] = "link" /\ indtuples' = indtuples
    BY <1>6, Domains, Zenon DEF AddInMemory, UpdateEntryInMemory, Go
  <2>2. pc[p] \notin {"scan", "wait", "done"}
    BY <2>1, SMTT(30), Z3T(30)
  <2>. QED BY <1>2, <2>1, <2>2, SMTT(30), Z3T(30) DEF Goes
<1>7. CASE LockUpdateShared(p) \/ LockUpdateExclusive(p) \/ FindNeighborsOnDisk(p)
           \/ UpdateNeighborOnDisk(p)
  <2>1. /\ pc[p] \in {"disk", "diskExclusive", "diskFind", "diskLink"}
        /\ pc'[p] \in {"diskExclusive", "diskFind", "diskAdd", "diskLink"}
        /\ UNCHANGED <<tuple, nextTuple, indtuples, nparticipantsdone>>
    BY <1>7, Domains, Zenon DEF LockUpdateShared, LockUpdateExclusive, FindNeighborsOnDisk,
       UpdateNeighborOnDisk, Go
  <2>. QED BY <2>1, SMTT(30), Z3T(30) DEF Goes
<1>8. CASE AddOnDisk(p) \/ UpdateEntryOnDisk(p)
  <2>1. /\ pc[p] \in {"diskAdd", "diskLink"} /\ UNCHANGED <<tuple, nextTuple, nparticipantsdone>>
        /\ \/ Finished(p)
           \/ pc'[p] = "diskLink" /\ indtuples' = indtuples
    BY <1>8, Domains, Zenon DEF AddOnDisk, UpdateEntryOnDisk, Go
  <2>2. pc[p] \notin {"scan", "wait", "done"}
    BY <2>1, SMTT(30), Z3T(30)
  <2>. QED BY <1>2, <2>1, <2>2, SMTT(30), Z3T(30) DEF Goes
<1>. QED BY <1>1, <1>3, <1>4, <1>5, <1>6, <1>7, <1>8, Zenon DEF Step

\* How the sets that are counted change
LEMMA SetsStep ==
  ASSUME TypeOK, NEW p \in Participant, Step(p)
  PROVE  /\ Takes(p) => p \notin Inserting /\ Inserting' = Inserting \cup {p} /\ Ended' = Ended
         /\ Ends(p) => p \notin Ended /\ Inserting' = Inserting /\ Ended' = Ended \cup {p}
         /\ Goes(p) => p \in Inserting /\ Inserting' = Inserting /\ Ended' = Ended
         /\ Returns(p) => p \in Inserting /\ Inserting' = Inserting \ {p} /\ Ended' = Ended
<1>1. \A q \in Participant \ {p} : pc'[q] = pc[q]
  BY OthersStep, Zenon DEF Others
<1>2. \A q \in Participant : q # p => (q \in Inserting' <=> q \in Inserting)
                                      /\ (q \in Ended' <=> q \in Ended)
  BY <1>1, SMTT(30), Z3T(30) DEF Inserting, Ended
<1>3. /\ p \in Inserting <=> pc[p] \notin {"scan", "wait", "done"}
      /\ p \in Inserting' <=> pc'[p] \notin {"scan", "wait", "done"}
      /\ p \in Ended <=> pc[p] \in {"wait", "done"}
      /\ p \in Ended' <=> pc'[p] \in {"wait", "done"}
  BY SMTT(30), Z3T(30) DEF Inserting, Ended, AtEnd
<1>4. /\ Inserting \subseteq Participant /\ Inserting' \subseteq Participant
      /\ Ended \subseteq Participant /\ Ended' \subseteq Participant
  BY SMTT(30), Z3T(30) DEF Inserting, Ended
<1>5. ASSUME Takes(p)
      PROVE  p \notin Inserting /\ Inserting' = Inserting \cup {p} /\ Ended' = Ended
  <2>1. p \notin Inserting /\ p \in Inserting' /\ p \notin Ended /\ p \notin Ended'
    BY <1>3, <1>5, Zenon DEF Takes
  <2>. QED BY <1>2, <1>4, <2>1, SMTT(30), Z3T(30)
<1>6. ASSUME Ends(p)
      PROVE  p \notin Ended /\ Inserting' = Inserting /\ Ended' = Ended \cup {p}
  <2>1. p \notin Inserting /\ p \notin Inserting' /\ p \notin Ended /\ p \in Ended'
    BY <1>3, <1>6, Zenon DEF Ends
  <2>. QED BY <1>2, <1>4, <2>1, SMTT(30), Z3T(30)
<1>7. ASSUME Goes(p)
      PROVE  p \in Inserting /\ Inserting' = Inserting /\ Ended' = Ended
  <2>1. p \in Inserting /\ p \in Inserting' /\ p \notin Ended /\ p \notin Ended'
    BY <1>3, <1>7, SMTT(30), Z3T(30) DEF Goes
  <2>. QED BY <1>2, <1>4, <2>1, SMTT(30), Z3T(30)
<1>8. ASSUME Returns(p)
      PROVE  p \in Inserting /\ Inserting' = Inserting \ {p} /\ Ended' = Ended
  <2>1. p \in Inserting /\ p \notin Inserting' /\ p \notin Ended /\ p \notin Ended'
    BY <1>3, <1>8, SMTT(30), Z3T(30) DEF Returns
  <2>. QED BY <1>2, <1>4, <2>1, SMTT(30), Z3T(30)
<1>. QED BY <1>5, <1>6, <1>7, <1>8, Zenon

LEMMA TupleStep ==
  ASSUME TypeOK, TupleInv, NEW p \in Participant, Step(p)
  PROVE  TupleInv'
<1>1. \A q \in Participant \ {p} : tuple'[q] = tuple[q]
  BY OthersStep, Zenon DEF Others
<1>2. Takes(p) \/ Ends(p) \/ Goes(p) \/ Returns(p)
  BY StepKinds, SMTT(30), Z3T(30)
<1>3. nextTuple \in 1 .. NTuples + 1 /\ Inserting \subseteq Participant
  BY SMTT(30), Z3T(30) DEF TypeOK, Inserting
<1>4. CASE Takes(p)
  <2>1. /\ p \notin Inserting /\ Inserting' = Inserting \cup {p}
        /\ tuple'[p] = nextTuple /\ nextTuple' = nextTuple + 1 /\ nextTuple \in Tuple
    BY <1>3, <1>4, SetsStep, SMTT(30), Z3T(30) DEF Takes, Tuple
  <2>2. \A q \in Inserting : tuple'[q] = tuple[q] /\ tuple[q] \in Tuple /\ tuple[q] < nextTuple
    BY <1>1, <1>3, <2>1, SMTT(30), Z3T(30) DEF TupleInv
  <2>3. \A q \in Inserting : tuple'[q] \in Tuple /\ tuple'[q] < nextTuple' /\ tuple'[q] # tuple'[p]
    BY <1>3, <2>1, <2>2, SMTT(30), Z3T(30) DEF Tuple
  <2>4. tuple'[p] \in Tuple /\ tuple'[p] < nextTuple'
    BY <1>3, <2>1, SMTT(30), Z3T(30)
  <2>5. \A q, r \in Inserting : q # r => tuple'[q] # tuple'[r]
    BY <2>2, SMTT(30), Z3T(30) DEF TupleInv
  <2>. QED BY <2>1, <2>3, <2>4, <2>5, Zenon DEF TupleInv
<1>5. CASE Ends(p) \/ Goes(p) \/ Returns(p)
  <2>1. /\ Inserting' \subseteq Inserting /\ tuple' = tuple /\ nextTuple' = nextTuple
    BY <1>5, SetsStep, Zenon DEF Ends, Goes, Returns
  <2>. QED BY <2>1, SMTT(30), Z3T(30) DEF TupleInv, Tuple
<1>. QED BY <1>2, <1>4, <1>5, SMTT(30), Z3T(30)

-----------------------------------------------------------------------------
(* LinkInv *)

\* The links of the others bear a change that adds at most the tuple of p
LEMMA OtherLinks ==
  ASSUME LinkInv, TupleInv, NEW p \in Inserting, Others(p),
         graph.elements \subseteq graph'.elements,
         graph'.elements \subseteq graph.elements \cup {tuple[p]},
         disk.elements \subseteq disk'.elements,
         disk'.elements \subseteq disk.elements \cup {tuple[p]},
         \A e \in graph.elements : graph'.neighbors[e] \subseteq graph.neighbors[e] \cup {tuple[p]}
  PROVE  \A q \in Inserting' \ {p} : LinkOf(q)'
<1> SUFFICES ASSUME NEW q \in Inserting' \ {p} PROVE LinkOf(q)'
  BY SMTT(30), Z3T(30)
<1>1. q \in Participant \ {p}
  BY SMTT(30), Z3T(30) DEF Inserting
<1>2. pc'[q] = pc[q] /\ tuple'[q] = tuple[q] /\ found'[q] = found[q] /\ todo'[q] = todo[q]
  BY <1>1, Zenon DEF Others
<1>3. q \in Inserting
  BY <1>1, <1>2, SMTT(30), Z3T(30) DEF Inserting
<1>4. LinkOf(q) /\ tuple[q] # tuple[p]
  BY <1>3, Zenon DEF LinkInv, TupleInv
<1>. QED BY <1>2, <1>4, ZenonT(30) DEF LinkOf

LEMMA ClosedFrame ==
  ASSUME NEW g, Closed(g), nextTuple \in Int, nextTuple' \in Int, nextTuple <= nextTuple',
         \A e \in g.elements : e \in Tuple
  PROVE  /\ \A e \in g.elements : g.neighbors[e] \subseteq g.elements
         /\ g.entryPoint \in g.elements \cup {NoTuple}
         /\ \A t \in Tuple \ g.elements : g.heaptids[t] = <<>>
         /\ \A e \in g.elements : e < nextTuple'
  BY SMTT(30), Z3T(30) DEF Closed, Tuple

LEMMA ClosedDuplicate ==
  ASSUME NEW g \in Graph, Closed(g), NEW t \in Tuple, NEW d \in g.elements
  PROVE  Closed(WithDuplicate(g, d, t))
<1>1. d \in Tuple
  BY Zenon DEF Graph
<1>2. DEFINE h == WithDuplicate(g, d, t)
<1>3. /\ h.elements = g.elements /\ h.neighbors = g.neighbors /\ h.entryPoint = g.entryPoint
      /\ \A e \in Tuple \ {d} : h.heaptids[e] = g.heaptids[e]
  BY <1>1, DuplicateEffect, SMTT(30), Z3T(30)
<1>. HIDE DEF h
<1>4. Closed(h)
  BY <1>3, Zenon DEF Closed
<1>. QED BY <1>4, SMTT(30), Z3T(30) DEF h

LEMMA ClosedElement ==
  ASSUME NEW g \in Graph, Closed(g), NEW t \in Tuple, t < nextTuple, t \notin g.elements,
         NEW N \in SUBSET g.elements
  PROVE  Closed(WithElement(g, t, N))
<1>1. N \in SUBSET Tuple /\ \A e \in g.elements : e \in Tuple \ {t}
  BY Zenon DEF Graph
<1>2. DEFINE h == WithElement(g, t, N)
<1>3. /\ h.elements = g.elements \cup {t} /\ h.entryPoint = g.entryPoint
      /\ h.neighbors[t] = N
      /\ \A e \in Tuple \ {t} : h.neighbors[e] = g.neighbors[e] /\ h.heaptids[e] = g.heaptids[e]
  BY <1>1, ElementEffect, SMTT(30), Z3T(30)
<1>. QED BY <1>1, <1>3, SMTT(30), Z3T(30) DEF Closed

LEMMA ClosedConnection ==
  ASSUME NEW g \in Graph, Closed(g), NEW t \in g.elements, NEW n \in g.elements,
         NEW h \in WithConnection(g, n, t)
  PROVE  Closed(h)
<1>1. t \in Tuple /\ n \in Tuple /\ g.elements \subseteq Tuple
  BY Zenon DEF Graph
<1>2. /\ h.elements = g.elements /\ h.entryPoint = g.entryPoint /\ h.heaptids = g.heaptids
      /\ h.neighbors[n] \subseteq g.neighbors[n] \cup {t}
      /\ \A e \in Tuple \ {n} : h.neighbors[e] = g.neighbors[e]
  BY <1>1, ConnectionEffect, SMTT(30), Z3T(30)
<1>. QED BY <1>1, <1>2, SMTT(30), Z3T(30) DEF Closed

LEMMA ClosedEntryPoint ==
  ASSUME NEW g \in Graph, Closed(g), NEW t \in g.elements
  PROVE  Closed([g EXCEPT !.entryPoint = t])
<1>1. t \in Tuple
  BY SMTT(30), Z3T(30) DEF Graph
<1>. QED BY <1>1, EntryPointEffect, SMTT(30), Z3T(30) DEF Closed

LEMMA LinkStepMemory ==
  ASSUME TypeOK, LinkInv, TupleInv, NEW p \in Participant, Others(p), disk' = disk,
         UNCHANGED <<nextTuple, tuple>>,
         AddInMemory(p) \/ UpdateNeighborInMemory(p) \/ UpdateEntryInMemory(p)
  PROVE  LinkInv'
<1>1. pc[p] \in {"add", "link"} /\ p \in Inserting
  <2>1. pc[p] \in {"add", "link"}
    BY Zenon DEF AddInMemory, UpdateNeighborInMemory, UpdateEntryInMemory
  <2>. QED BY <2>1, SMTT(30), Z3T(30) DEF Inserting
<1>2. /\ LinkOf(p) /\ tuple[p] \in Tuple /\ tuple[p] < nextTuple
      /\ Closed(graph) /\ Closed(disk) /\ graph \in Graph
      /\ found[p] \in SUBSET Tuple /\ todo[p] \in SUBSET Tuple
  BY <1>1, SMTT(30), Z3T(30) DEF LinkInv, TupleInv, TypeOK
<1>3. Closed(disk)'
  BY <1>2, Zenon DEF Closed
<1>4. graph.elements \subseteq Tuple
  BY <1>2, SMTT(30), Z3T(30) DEF Graph
<1>5. CASE AddInMemory(p)
  <2>1. /\ pc[p] = "add"
        /\ \/ /\ \E d \in found[p] : graph' = WithDuplicate(graph, d, tuple[p])
              /\ Finished(p)
           \/ /\ graph' = WithElement(graph, tuple[p], found[p])
              /\ todo' = [todo EXCEPT ![p] = found[p]] /\ Go(p, "link")
    BY <1>5, ZenonT(30) DEF AddInMemory, Duplicates, AddElementInMemory
  <2>2. tuple[p] \notin graph.elements /\ tuple[p] \notin disk.elements
        /\ found[p] \subseteq graph.elements
    BY <1>2, <2>1, Zenon DEF LinkOf
  <2>3. ASSUME NEW d \in found[p], graph' = WithDuplicate(graph, d, tuple[p]), Finished(p)
        PROVE  LinkInv'
    <3>1. Closed(WithDuplicate(graph, d, tuple[p]))
      BY <1>2, <2>2, <2>3, ClosedDuplicate, Zenon
    <3>2. Closed(graph)'
      BY <2>3, <3>1, Zenon DEF Closed
    <3>3. graph'.elements = graph.elements /\ graph'.neighbors = graph.neighbors
      BY <1>2, <2>2, <2>3, DuplicateEffect, SMTT(30), Z3T(30)
    <3>4. \A q \in Inserting' \ {p} : LinkOf(q)'
      BY <1>1, <3>3, OtherLinks, Zenon
    <3>5. p \notin Inserting'
      BY <2>3, Domains, Zenon DEF Finished, Go, Inserting
    <3>. QED BY <1>3, <3>2, <3>4, <3>5, Zenon DEF LinkInv
  <2>4. ASSUME graph' = WithElement(graph, tuple[p], found[p]),
               todo' = [todo EXCEPT ![p] = found[p]], Go(p, "link")
        PROVE  LinkInv'
    <3>1. Closed(WithElement(graph, tuple[p], found[p]))
      BY <1>2, <2>2, ClosedElement, SMTT(30), Z3T(30)
    <3>2. Closed(graph)'
      BY <2>4, <3>1, ZenonT(30) DEF Closed
    <3>3. /\ graph'.elements = graph.elements \cup {tuple[p]}
          /\ \A e \in Tuple \ {tuple[p]} : graph'.neighbors[e] = graph.neighbors[e]
      BY <1>2, <2>4, ElementEffect, SMTT(30), Z3T(30)
    <3>4. \A e \in graph.elements : e # tuple[p] /\ graph'.neighbors[e] = graph.neighbors[e]
      BY <1>4, <2>2, <3>3, Zenon
    <3>5. \A q \in Inserting' \ {p} : LinkOf(q)'
      BY <1>1, <3>3, <3>4, OtherLinks, SMTT(30), Z3T(30)
    <3>6. pc'[p] = "link" /\ todo'[p] = found[p] /\ tuple'[p] = tuple[p]
      BY <2>4, Domains, Zenon DEF Go
    <3>7. \A n \in found[p] : tuple[p] \notin graph'.neighbors[n]
      BY <1>2, <2>2, <3>4, Zenon DEF Closed
    <3>8. LinkOf(p)'
      BY <2>2, <3>3, <3>6, <3>7, Zenon DEF LinkOf
    <3>. QED BY <1>3, <3>2, <3>5, <3>8, Zenon DEF LinkInv
  <2>. QED BY <2>1, <2>3, <2>4, Zenon
<1>6. CASE UpdateNeighborInMemory(p)
  <2>1. PICK n \in todo[p] : /\ graph' \in WithConnection(graph, n, tuple[p])
                             /\ todo' = [todo EXCEPT ![p] = @ \ {n}]
    BY <1>6, Zenon DEF UpdateNeighborInMemory
  <2>2. pc[p] = "link" /\ pc' = pc
    BY <1>6, Zenon DEF UpdateNeighborInMemory
  <2>3. /\ tuple[p] \in graph.elements /\ todo[p] \subseteq graph.elements
        /\ tuple[p] \notin disk.elements
        /\ \A m \in todo[p] : tuple[p] \notin graph.neighbors[m]
    BY <1>2, <2>2, SMTT(30), Z3T(30) DEF LinkOf
  <2>4. Closed(graph)'
    <3>1. \A h \in WithConnection(graph, n, tuple[p]) : Closed(h)
      BY <1>2, <2>1, <2>3, ClosedConnection, Zenon
    <3>2. PICK h : h = graph' /\ Closed(h)
      BY <2>1, <3>1, Zenon
    <3>. QED BY <3>2, Zenon DEF Closed
  <2>5. /\ graph'.elements = graph.elements
        /\ graph'.neighbors[n] \subseteq graph.neighbors[n] \cup {tuple[p]}
        /\ \A e \in Tuple \ {n} : graph'.neighbors[e] = graph.neighbors[e]
    BY <1>2, <1>4, <2>1, <2>3, ConnectionEffect, SMTT(30), Z3T(30)
  <2>6. \A e \in graph.elements : graph'.neighbors[e] \subseteq graph.neighbors[e] \cup {tuple[p]}
    BY <1>4, <2>5, Zenon
  <2>7. \A q \in Inserting' \ {p} : LinkOf(q)'
    BY <1>1, <2>5, <2>6, OtherLinks, SMTT(30), Z3T(30)
  <2>8. todo'[p] = todo[p] \ {n}
    BY <2>1, Domains, Zenon
  <2>9. \A m \in todo'[p] : tuple[p] \notin graph'.neighbors[m]
    BY <1>4, <2>3, <2>5, <2>8, Zenon
  <2>10. LinkOf(p)'
    BY <2>2, <2>3, <2>5, <2>8, <2>9, SMTT(30), Z3T(30) DEF LinkOf
  <2>. QED BY <1>3, <2>4, <2>7, <2>10, SMTT(30), Z3T(30) DEF LinkInv
<1>7. CASE UpdateEntryInMemory(p)
  <2>1. /\ pc[p] = "link" /\ Finished(p)
        /\ graph' = [graph EXCEPT !.entryPoint = tuple[p]] \/ graph' = graph
    BY <1>7, Zenon DEF UpdateEntryInMemory
  <2>2. tuple[p] \in graph.elements
    BY <1>2, <2>1, SMTT(30), Z3T(30) DEF LinkOf
  <2>3. Closed([graph EXCEPT !.entryPoint = tuple[p]])
    BY <1>2, <2>2, ClosedEntryPoint, SMTT(30), Z3T(30)
  <2>4. Closed(graph)'
    BY <1>2, <2>1, <2>3, Zenon DEF Closed
  <2>5. graph'.elements = graph.elements /\ graph'.neighbors = graph.neighbors
    <3>1. CASE graph' = [graph EXCEPT !.entryPoint = tuple[p]]
      BY <1>2, <3>1, EntryPointEffect, ZenonT(30)
    <3>. QED BY <2>1, <3>1, SMTT(30), Z3T(30)
  <2>6. \A q \in Inserting' \ {p} : LinkOf(q)'
    BY <1>1, <2>5, OtherLinks, SMTT(30), Z3T(30)
  <2>7. p \notin Inserting'
    BY <2>1, Domains, Zenon DEF Finished, Go, Inserting
  <2>. QED BY <1>3, <2>4, <2>6, <2>7, SMTT(30), Z3T(30) DEF LinkInv
<1>. QED BY <1>5, <1>6, <1>7, SMTT(30), Z3T(30)

LEMMA LinkStepDisk ==
  ASSUME TypeOK, LinkInv, TupleInv, NEW p \in Participant, Others(p), graph' = graph,
         UNCHANGED <<nextTuple, tuple>>,
         AddOnDisk(p) \/ UpdateNeighborOnDisk(p) \/ UpdateEntryOnDisk(p)
  PROVE  LinkInv'
<1>1. pc[p] \in {"diskAdd", "diskLink"} /\ p \in Inserting
  <2>1. pc[p] \in {"diskAdd", "diskLink"}
    BY Zenon DEF AddOnDisk, UpdateNeighborOnDisk, UpdateEntryOnDisk
  <2>. QED BY <2>1, SMTT(30), Z3T(30) DEF Inserting
<1>2. /\ LinkOf(p) /\ tuple[p] \in Tuple /\ tuple[p] < nextTuple
      /\ Closed(graph) /\ Closed(disk) /\ disk \in Graph
      /\ found[p] \in SUBSET Tuple /\ todo[p] \in SUBSET Tuple
  BY <1>1, SMTT(30), Z3T(30) DEF LinkInv, TupleInv, TypeOK
<1>3. Closed(graph)'
  BY <1>2, Zenon DEF Closed
<1>4. disk.elements \subseteq Tuple
  BY <1>2, Zenon DEF Graph
<1>5. ASSUME disk.elements \subseteq disk'.elements,
             disk'.elements \subseteq disk.elements \cup {tuple[p]}
      PROVE  \A q \in Inserting' \ {p} : LinkOf(q)'
  BY <1>1, <1>5, OtherLinks, ZenonT(30)
<1>6. ASSUME Finished(p) PROVE p \notin Inserting'
  BY <1>6, Domains, SMTT(30), Z3T(30) DEF Finished, Go, Inserting
<1>7. CASE AddOnDisk(p)
  <2>1. /\ pc[p] = "diskAdd"
        /\ \/ /\ \E d \in found[p] : disk' = WithDuplicate(disk, d, tuple[p])
              /\ Finished(p)
           \/ /\ disk' = WithElement(disk, tuple[p], found[p])
              /\ todo' = [todo EXCEPT ![p] = found[p]] /\ Go(p, "diskLink")
    BY <1>7, ZenonT(30) DEF AddOnDisk, Duplicates
  <2>2. tuple[p] \notin graph.elements /\ tuple[p] \notin disk.elements
        /\ found[p] \subseteq disk.elements
    BY <1>2, <2>1, Zenon DEF LinkOf
  <2>3. ASSUME NEW d \in found[p], disk' = WithDuplicate(disk, d, tuple[p]), Finished(p)
        PROVE  LinkInv'
    <3>1. Closed(WithDuplicate(disk, d, tuple[p]))
      BY <1>2, <2>2, <2>3, ClosedDuplicate, ZenonT(30)
    <3>2. Closed(disk)'
      BY <2>3, <3>1, Zenon DEF Closed
    <3>0. d \in Tuple /\ tuple[p] \in Tuple /\ disk \in Graph
      BY <1>2, Zenon
    <3>3. disk'.elements = disk.elements
      BY <2>3, <3>0, DuplicateEffect, Zenon
    <3>. QED BY <1>3, <1>5, <1>6, <2>3, <3>2, <3>3, ZenonT(30) DEF LinkInv
  <2>4. ASSUME disk' = WithElement(disk, tuple[p], found[p]),
               todo' = [todo EXCEPT ![p] = found[p]], Go(p, "diskLink")
        PROVE  LinkInv'
    <3>1. Closed(WithElement(disk, tuple[p], found[p]))
      BY <1>2, <2>2, ClosedElement, SMTT(30), Z3T(30)
    <3>2. Closed(disk)'
      BY <2>4, <3>1, ZenonT(30) DEF Closed
    <3>3. disk'.elements = disk.elements \cup {tuple[p]}
      BY <1>2, <2>4, ElementEffect, SMTT(30), Z3T(30)
    <3>4. pc'[p] = "diskLink" /\ todo'[p] = found[p] /\ tuple'[p] = tuple[p]
      BY <2>4, Domains, ZenonT(30) DEF Go
    <3>5. LinkOf(p)'
      BY <2>2, <3>3, <3>4, Zenon DEF LinkOf
    <3>. QED BY <1>3, <1>5, <3>2, <3>3, <3>5, ZenonT(30) DEF LinkInv
  <2>. QED BY <2>1, <2>3, <2>4, Zenon
<1>8. CASE UpdateNeighborOnDisk(p)
  <2>1. PICK n \in todo[p] : /\ disk' \in WithConnection(disk, n, tuple[p])
                             /\ todo' = [todo EXCEPT ![p] = @ \ {n}]
    BY <1>8, Zenon DEF UpdateNeighborOnDisk
  <2>2. pc[p] = "diskLink" /\ pc' = pc
    BY <1>8, Zenon DEF UpdateNeighborOnDisk
  <2>3. /\ tuple[p] \in disk.elements /\ todo[p] \subseteq disk.elements
        /\ tuple[p] \notin graph.elements
    BY <1>2, <2>2, Zenon DEF LinkOf
  <2>4. Closed(disk)'
    <3>1. \A h \in WithConnection(disk, n, tuple[p]) : Closed(h)
      BY <1>2, <2>1, <2>3, ClosedConnection, Zenon
    <3>2. PICK h : h = disk' /\ Closed(h)
      BY <2>1, <3>1, SMTT(30), Z3T(30)
    <3>. QED BY <3>2, Zenon DEF Closed
  <2>5. disk'.elements = disk.elements
    <3>1. n \in Tuple /\ tuple[p] \in Tuple /\ disk \in Graph
      BY <1>2, Zenon
    <3>2. \A h \in WithConnection(disk, n, tuple[p]) : h.elements = disk.elements
      BY <3>1, ConnectionFrame, ZenonT(30)
    <3>. QED BY <2>1, <3>2, Zenon
  <2>6. todo'[p] = todo[p] \ {n}
    BY <2>1, Domains, Zenon
  <2>7. LinkOf(p)'
    BY <2>2, <2>3, <2>5, <2>6, Zenon DEF LinkOf
  <2>. QED BY <1>3, <1>5, <2>4, <2>5, <2>7, SMTT(30), Z3T(30) DEF LinkInv
<1>9. CASE UpdateEntryOnDisk(p)
  <2>1. /\ pc[p] = "diskLink" /\ Finished(p)
        /\ disk' = [disk EXCEPT !.entryPoint = tuple[p]] \/ disk' = disk
    BY <1>9, Zenon DEF UpdateEntryOnDisk
  <2>2. tuple[p] \in disk.elements
    BY <1>2, <2>1, SMTT(30), Z3T(30) DEF LinkOf
  <2>3. Closed([disk EXCEPT !.entryPoint = tuple[p]])
    BY <1>2, <2>2, ClosedEntryPoint, SMTT(30), Z3T(30)
  <2>4. Closed(disk)'
    BY <1>2, <2>1, <2>3, Zenon DEF Closed
  <2>5. disk'.elements = disk.elements
    <3>1. CASE disk' = [disk EXCEPT !.entryPoint = tuple[p]]
      BY <1>2, <3>1, EntryPointEffect, SMTT(30), Z3T(30)
    <3>. QED BY <2>1, <3>1, SMTT(30), Z3T(30)
  <2>. QED BY <1>3, <1>5, <1>6, <2>1, <2>4, <2>5, Zenon DEF LinkInv
<1>. QED BY <1>7, <1>8, <1>9, SMTT(30), Z3T(30)

\* The steps that change no graph, and the flush
LEMMA LinkStepRest ==
  ASSUME TypeOK, PhaseInv, LinkInv, TupleInv, NEW p \in Participant, Step(p), graph' = graph,
         nextTuple' \in Int, nextTuple <= nextTuple',
         \/ NextTupleOfScan(p) \/ BuildCallback(p) \/ AllocateElement(p) \/ Flush(p)
         \/ PassGate(p) \/ ReadEntryPoint(p) \/ AnnounceExclusive(p) \/ LockEntry(p)
         \/ FindNeighbors(p) \/ LockUpdateShared(p) \/ LockUpdateExclusive(p)
         \/ FindNeighborsOnDisk(p)
  PROVE  LinkInv'
<1>1. /\ Closed(graph) /\ Closed(disk) /\ graph \in Graph /\ disk \in Graph /\ nextTuple \in Int
      /\ graph.elements \subseteq Tuple /\ disk.elements \subseteq Tuple
  <2>1. Closed(graph) /\ Closed(disk)
    BY Zenon DEF LinkInv
  <2>2. graph \in Graph /\ disk \in Graph /\ nextTuple \in 1 .. NTuples + 1
    BY Zenon DEF TypeOK
  <2>3. \A g \in Graph : g.elements \subseteq Tuple
    BY SMTT(30), Z3T(30) DEF Graph
  <2>4. nextTuple \in Int
    BY <2>2, SMTT(30), Z3T(30)
  <2>. QED BY <2>1, <2>2, <2>3, <2>4, Zenon
<1>2. Closed(graph)'
  <2>1. \A e \in graph.elements : e \in Tuple
    BY <1>1, Zenon
  <2>. QED BY <1>1, <2>1, ClosedFrame, Zenon DEF Closed
<1>3. /\ Others(p)
      /\ \A q \in Inserting' \ {p} : q \in Inserting /\ LinkOf(q)
  <2>1. Others(p)
    BY OthersStep, SMTT(30), Z3T(30)
  <2>2. \A q \in Inserting' \ {p} : q \in Inserting
    BY <2>1, Zenon DEF Others, Inserting
  <2>. QED BY <2>1, <2>2, Zenon DEF LinkInv
<1>4. CASE Flush(p)
  <2>1. /\ pc[p] = "flush" /\ pc'[p] = "disk" /\ UNCHANGED <<nextTuple, tuple, found, todo>>
        /\ (flushed /\ disk' = disk) \/ (~flushed /\ disk' = graph)
        /\ \A q \in Participant \ {p} : flushLock[q] = "none"
    BY <1>4, Domains, Zenon DEF Flush, FlushPages, Go, Grants, local
  <2>2. p \in Inserting
    BY <2>1, Zenon DEF Inserting
  <2>3. CASE disk' = disk
    <3>1. Closed(disk)'
      BY <1>1, <2>1, <2>3, Zenon DEF Closed
    <3>2. \A q \in Inserting' \ {p} : LinkOf(q)'
      BY <1>1, <1>3, <2>2, <2>3, OtherLinks, Zenon
    <3>3. LinkOf(p)'
      BY <2>1, <2>2, <2>3, Zenon DEF LinkInv, LinkOf
    <3>. QED BY <1>2, <3>1, <3>2, <3>3, SMTT(30), Z3T(30) DEF LinkInv
  <2>4. CASE ~flushed /\ disk' = graph
    <3>1. Closed(disk)'
      BY <1>1, <2>1, <2>4, Zenon DEF Closed
    <3>2. ASSUME NEW q \in Inserting' \ {p} PROVE LinkOf(q)'
      <4>1. q \in Participant \ {p} /\ q \in Inserting /\ LinkOf(q)
        BY <1>3, Zenon DEF Inserting
      <4>2. pc'[q] = pc[q] /\ tuple'[q] = tuple[q]
        BY <1>3, <4>1, Zenon DEF Others
      <4>3. pc[q] \notin InMemory /\ pc[q] \notin OnDisk
        BY <2>1, <2>4, <4>1, Zenon DEF PhaseInv
      <4>. QED BY <2>4, <4>1, <4>2, <4>3, Zenon DEF LinkOf, InMemory, OnDisk
    <3>3. LinkOf(p)'
      BY <2>1, <2>2, <2>4, Zenon DEF LinkInv, LinkOf
    <3>. QED BY <1>2, <3>1, <3>2, <3>3, SMTT(30), Z3T(30) DEF LinkInv
  <2>. QED BY <2>1, <2>3, <2>4, Zenon
<1>5. CASE ~Flush(p)
  <2>1. disk' = disk
    BY <1>5, Zenon DEF NextTupleOfScan, BuildCallback, AllocateElement, PassGate,
       ReadEntryPoint, AnnounceExclusive, LockEntry, FindNeighbors, LockUpdateShared,
       LockUpdateExclusive, FindNeighborsOnDisk
  <2>2. Closed(disk)'
    <3>1. \A e \in disk.elements : e \in Tuple
      BY <1>1, SMTT(30), Z3T(30)
    <3>. QED BY <1>1, <2>1, <3>1, ClosedFrame, ZenonT(30) DEF Closed
  <2>3. ASSUME NEW q \in Inserting' \ {p} PROVE LinkOf(q)'
    <3>1. q \in Participant \ {p} /\ LinkOf(q)
      BY <1>3, Zenon DEF Inserting
    <3>2. pc'[q] = pc[q] /\ tuple'[q] = tuple[q] /\ found'[q] = found[q] /\ todo'[q] = todo[q]
      BY <1>3, <3>1, Zenon DEF Others
    <3>. QED BY <2>1, <3>1, <3>2, ZenonT(30) DEF LinkOf
  <2>4. ASSUME p \in Inserting' PROVE LinkOf(p)'
    <3>1. CASE NextTupleOfScan(p)
      <4>1. pc'[p] \in {"insert", "wait", "done"} /\ (pc'[p] = "insert" => tuple'[p] = nextTuple)
        BY <3>1, Domains, Zenon DEF NextTupleOfScan, Go
      <4>2. pc'[p] = "insert" /\ tuple'[p] = nextTuple
        BY <2>4, <4>1, Zenon DEF Inserting
      <4>3. nextTuple \notin graph.elements /\ nextTuple \notin disk.elements
        <5>1. ~(nextTuple < nextTuple)
          BY <1>1, SMTT(30), Z3T(30)
        <5>. QED BY <1>1, <5>1, Zenon DEF Closed
      <4>. QED BY <2>1, <4>2, <4>3, Zenon DEF LinkOf
    <3>2. ASSUME pc[p] \notin {"scan", "wait", "done", "link", "diskLink"}, tuple' = tuple,
                 pc'[p] \notin {"add", "link", "diskAdd", "diskLink"}
          PROVE  LinkOf(p)'
      <4>1. p \in Inserting
        BY <3>2, Zenon DEF Inserting
      <4>. QED BY <2>1, <3>2, <4>1, Zenon DEF LinkInv, LinkOf
    <3>3. CASE BuildCallback(p) \/ AllocateElement(p)
      <4>1. /\ pc[p] \in {"insert", "alloc"} /\ tuple' = tuple
            /\ pc'[p] \in {"disk", "alloc", "flush", "gate"}
        BY <3>3, Domains, ZenonT(30) DEF BuildCallback, AllocateElement, WhenFull, Go
      <4>. QED BY <3>2, <4>1, Zenon
    <3>4. CASE PassGate(p) \/ ReadEntryPoint(p) \/ AnnounceExclusive(p) \/ LockEntry(p)
      <4>1. /\ pc[p] \in {"gate", "entry", "announce", "exclusive"} /\ tuple' = tuple
            /\ pc'[p] \in {"entry", "announce", "exclusive", "find"}
        BY <3>4, Domains, ZenonT(30) DEF PassGate, ReadEntryPoint, AnnounceExclusive, LockEntry, Go
      <4>. QED BY <3>2, <4>1, SMTT(30), Z3T(30)
    <3>5. CASE LockUpdateShared(p) \/ LockUpdateExclusive(p)
      <4>1. /\ pc[p] \in {"disk", "diskExclusive"} /\ tuple' = tuple
            /\ pc'[p] \in {"diskExclusive", "diskFind"}
        BY <3>5, Domains, Zenon DEF LockUpdateShared, LockUpdateExclusive, Go
      <4>. QED BY <3>2, <4>1, SMTT(30), Z3T(30)
    <3>6. CASE FindNeighbors(p)
      <4>1. /\ pc[p] = "find" /\ pc'[p] = "add" /\ tuple' = tuple
            /\ \E N \in Neighbors(graph, tuple[p], entry[p]) : found'[p] = N
        BY <3>6, Domains, Zenon DEF FindNeighbors, Go
      <4>2. found'[p] \subseteq graph.elements
        <5>1. PICK N \in Neighbors(graph, tuple[p], entry[p]) : found'[p] = N
          BY <4>1, Zenon
        <5>2. N \subseteq graph.elements
          BY <1>1, FoundElements, ZenonT(30)
        <5>. QED BY <5>1, <5>2, Zenon
      <4>3. p \in Inserting
        BY <4>1, SMTT(30), Z3T(30) DEF Inserting
      <4>. QED BY <2>1, <4>1, <4>2, <4>3, Zenon DEF LinkInv, LinkOf
    <3>7. CASE FindNeighborsOnDisk(p)
      <4>1. /\ pc[p] = "diskFind" /\ pc'[p] = "diskAdd" /\ tuple' = tuple
            /\ \E N \in Neighbors(disk, tuple[p], entry[p]) : found'[p] = N
        BY <3>7, Domains, Zenon DEF FindNeighborsOnDisk, Go
      <4>2. found'[p] \subseteq disk.elements
        <5>1. PICK N \in Neighbors(disk, tuple[p], entry[p]) : found'[p] = N
          BY <4>1, Zenon
        <5>2. N \subseteq disk.elements
          BY <1>1, FoundElements, ZenonT(30)
        <5>. QED BY <5>1, <5>2, Zenon
      <4>3. p \in Inserting
        BY <4>1, SMTT(30), Z3T(30) DEF Inserting
      <4>. QED BY <2>1, <4>1, <4>2, <4>3, Zenon DEF LinkInv, LinkOf
    <3>. QED BY <1>5, <3>1, <3>3, <3>4, <3>5, <3>6, <3>7, Zenon
  <2>. QED BY <1>2, <2>2, <2>3, <2>4, ZenonT(30) DEF LinkInv
<1>. QED BY <1>4, <1>5, Zenon

LEMMA LinkStep ==
  ASSUME TypeOK, PhaseInv, LinkInv, TupleInv, NEW p \in Participant, Step(p)
  PROVE  LinkInv'
<1>1. CASE AddInMemory(p) \/ UpdateNeighborInMemory(p) \/ UpdateEntryInMemory(p)
  <2>1. UNCHANGED <<disk, nextTuple, tuple>>
    BY <1>1, Zenon DEF AddInMemory, UpdateNeighborInMemory, UpdateEntryInMemory
  <2>. QED BY <1>1, <2>1, OthersStep, LinkStepMemory, ZenonT(30)
<1>2. CASE AddOnDisk(p) \/ UpdateNeighborOnDisk(p) \/ UpdateEntryOnDisk(p)
  <2>1. UNCHANGED <<graph, nextTuple, tuple>>
    BY <1>2, Zenon DEF AddOnDisk, UpdateNeighborOnDisk, UpdateEntryOnDisk
  <2>. QED BY <1>2, <2>1, OthersStep, LinkStepDisk, SMTT(30), Z3T(30)
<1>3. CASE \/ NextTupleOfScan(p) \/ BuildCallback(p) \/ AllocateElement(p) \/ Flush(p)
           \/ PassGate(p) \/ ReadEntryPoint(p) \/ AnnounceExclusive(p) \/ LockEntry(p)
           \/ FindNeighbors(p) \/ LockUpdateShared(p) \/ LockUpdateExclusive(p)
           \/ FindNeighborsOnDisk(p)
  <2>1. graph' = graph
    BY <1>3, Zenon DEF NextTupleOfScan, BuildCallback, AllocateElement, Flush, PassGate,
       ReadEntryPoint, AnnounceExclusive, LockEntry, FindNeighbors, LockUpdateShared,
       LockUpdateExclusive, FindNeighborsOnDisk
  <2>2. nextTuple' \in Int /\ nextTuple <= nextTuple'
    <3>1. nextTuple' = nextTuple \/ nextTuple' = nextTuple + 1
      BY StepKinds, Zenon DEF Takes, Ends, Goes, Returns
    <3>. QED BY <3>1, SMTT(30), Z3T(30) DEF TypeOK
  <2>. QED BY <1>3, <2>1, <2>2, LinkStepRest, SMTT(30), Z3T(30)
<1>. QED BY <1>1, <1>2, <1>3, Zenon DEF Step

-----------------------------------------------------------------------------
(* EntryInv, RankInv *)

\* A level is drawn for the tuple of p before its element is in the graph
LEMMA LevelStep ==
  ASSUME TypeOK, LinkInv, TupleInv, NEW p \in Participant, Step(p)
  PROVE  /\ \A e \in graph.elements : level'[e] = level[e]
         /\ \A q \in Inserting \ {p} : level'[tuple[q]] = level[tuple[q]]
         /\ pc[p] \in {"find", "add", "link"} => level' = level
<1>1. CASE AllocateElement(p) \/ LockUpdateShared(p)
  <2>1. /\ pc[p] \in {"alloc", "disk"}
        /\ level' = level \/ \E l \in Levels : level' = [level EXCEPT ![tuple[p]] = l]
    BY <1>1, Zenon DEF AllocateElement, LockUpdateShared
  <2>2. p \in Inserting /\ pc[p] \notin {"link", "diskLink", "find", "add"}
    BY <2>1, Zenon DEF Inserting
  <2>3. tuple[p] \notin graph.elements
    BY <2>2, Zenon DEF LinkInv, LinkOf
  <2>4. \A t \in Tuple : t # tuple[p] => level'[t] = level[t]
    BY <2>1, ZenonT(30) DEF TypeOK
  <2>5. graph.elements \subseteq Tuple
    BY Zenon DEF TypeOK, Graph
  <2>6. \A q \in Inserting \ {p} : tuple[q] \in Tuple /\ tuple[q] # tuple[p]
    BY <2>2, ZenonT(30) DEF TupleInv
  <2>. QED BY <2>2, <2>3, <2>4, <2>5, <2>6, ZenonT(30)
<1>2. CASE ~(AllocateElement(p) \/ LockUpdateShared(p))
  <2>1. level' = level
    <3>1. CASE NextTupleOfScan(p) \/ BuildCallback(p) \/ Flush(p) \/ PassGate(p)
               \/ ReadEntryPoint(p) \/ AnnounceExclusive(p) \/ LockEntry(p)
      BY <3>1, Zenon DEF NextTupleOfScan, BuildCallback, Flush, PassGate, ReadEntryPoint,
         AnnounceExclusive, LockEntry
    <3>2. CASE FindNeighbors(p) \/ AddInMemory(p) \/ UpdateNeighborInMemory(p)
               \/ UpdateEntryInMemory(p)
      BY <3>2, Zenon DEF FindNeighbors, AddInMemory, UpdateNeighborInMemory, UpdateEntryInMemory
    <3>3. CASE LockUpdateExclusive(p) \/ FindNeighborsOnDisk(p) \/ AddOnDisk(p)
               \/ UpdateNeighborOnDisk(p) \/ UpdateEntryOnDisk(p)
      BY <3>3, Zenon DEF LockUpdateExclusive, FindNeighborsOnDisk, AddOnDisk,
         UpdateNeighborOnDisk, UpdateEntryOnDisk
    <3>. QED BY <1>2, <3>1, <3>2, <3>3, Zenon DEF Step
  <2>. QED BY <2>1, SMTT(30), Z3T(30)
<1>. QED BY <1>1, <1>2, Zenon

LEMMA OtherEntries ==
  ASSUME TypeOK, LinkInv, TupleInv, EntryInv, NEW p \in Participant, Step(p),
         graph'.entryPoint = graph.entryPoint
  PROVE  \A q \in Participant \ {p} : EntryOf(q)'
<1> SUFFICES ASSUME NEW q \in Participant \ {p} PROVE EntryOf(q)'
  BY SMTT(30), Z3T(30)
<1>1. /\ pc'[q] = pc[q] /\ entryLock'[q] = entryLock[q] /\ entry'[q] = entry[q]
      /\ tuple'[q] = tuple[q] /\ found'[q] = found[q]
  BY OthersStep, ZenonT(30) DEF Others
<1>2. EntryOf(q) /\ graph.entryPoint \in graph.elements \cup {NoTuple}
  BY Zenon DEF EntryInv, LinkInv, Closed
<1>3. ASSUME entryLock[q] = "shared", Outranks(tuple[q], graph.entryPoint)' PROVE FALSE
  <2>1. pc[q] \in AtEntry /\ ~Outranks(tuple[q], graph.entryPoint)
    BY <1>2, <1>3, Zenon DEF EntryOf
  <2>2. q \in Inserting \ {p}
    BY <2>1, ZenonT(30) DEF Inserting, AtEntry
  <2>3. level'[tuple[q]] = level[tuple[q]] /\ \A e \in graph.elements : level'[e] = level[e]
    BY <2>2, LevelStep, SMTT(30), Z3T(30)
  <2>. QED BY <1>1, <1>2, <1>3, <2>1, <2>3, Zenon DEF Outranks
<1>. QED BY <1>1, <1>2, <1>3, Zenon DEF EntryOf

LEMMA EntryStep ==
  ASSUME TypeOK, LinkInv, TupleInv, EntryInv, NEW p \in Participant, Step(p)
  PROVE  EntryInv'
<1>0. /\ EntryOf(p)
      /\ \A q, r \in Participant : entryLock[q] = "exclusive" /\ q # r => entryLock[r] = "none"
      /\ \A q \in Participant \ {p} : entryLock'[q] = entryLock[q] /\ pc'[q] = pc[q]
  BY OthersStep, Zenon DEF EntryInv, Others
<1>1. ASSUME graph'.entryPoint = graph.entryPoint, EntryOf(p)',
             \/ entryLock'[p] \in {entryLock[p], "none"}
             \/ entryLock'[p] = "shared" /\ \A q \in Participant \ {p} : entryLock[q] # "exclusive"
             \/ \A q \in Participant \ {p} : entryLock[q] = "none"
      PROVE  EntryInv'
  <2>1. \A q \in Participant : EntryOf(q)'
    BY <1>1, OtherEntries, ZenonT(30)
  <2>2. ASSUME NEW q \in Participant, NEW r \in Participant, entryLock'[q] = "exclusive", q # r
        PROVE  entryLock'[r] = "none"
    BY <1>0, <1>1, <2>2, SMTT(30), Z3T(30)
  <2>. QED BY <2>1, <2>2, Zenon DEF EntryInv
\* A step that does not come near the entry lock
<1>2. ASSUME graph'.entryPoint = graph.entryPoint, pc[p] \notin AtEntry, pc'[p] \notin AtEntry,
             entryLock'[p] \in {entryLock[p], "none"}
      PROVE  EntryInv'
  <2>1. EntryOf(p)'
    BY <1>0, <1>2, ZenonT(30) DEF EntryOf, AtEntry
  <2>. QED BY <1>1, <1>2, <2>1, ZenonT(30)
<1>3. CASE NextTupleOfScan(p) \/ BuildCallback(p) \/ AllocateElement(p) \/ Flush(p)
  <2>1. /\ pc[p] \in {"scan", "insert", "alloc", "flush"} /\ graph' = graph
        /\ pc'[p] \in {"insert", "wait", "done", "disk", "alloc", "flush", "gate"}
        /\ entryLock' = entryLock
    BY <1>3, Domains, Zenon DEF NextTupleOfScan, BuildCallback, AllocateElement, WhenFull, Flush,
       Go, locks
  <2>. QED BY <1>2, <2>1, SMTT(30), Z3T(30) DEF AtEntry
<1>4. CASE PassGate(p) \/ AnnounceExclusive(p)
  <2>1. /\ pc[p] \in {"gate", "announce"} /\ pc'[p] \in {"entry", "exclusive"}
        /\ graph' = graph /\ entryLock' = entryLock
    BY <1>4, Domains, Zenon DEF PassGate, AnnounceExclusive, Go, locks
  <2>. QED BY <1>2, <2>1, SMTT(30), Z3T(30) DEF AtEntry
<1>5. CASE ReadEntryPoint(p)
  <2>1. /\ pc[p] = "entry" /\ entry'[p] = graph.entryPoint /\ UNCHANGED <<graph, tuple, level>>
        /\ \A q \in Participant \ {p} : entryLock[q] # "exclusive"
        /\ \/ pc'[p] = "announce" /\ entryLock' = entryLock
           \/ /\ ~Outranks(tuple[p], graph.entryPoint)
              /\ pc'[p] = "find" /\ entryLock'[p] = "shared"
    BY <1>5, Domains, Zenon DEF ReadEntryPoint, Go, Held, Grants
  <2>2. CASE pc'[p] = "announce"
    BY <1>2, <2>1, <2>2, Zenon DEF AtEntry
  <2>3. CASE pc'[p] = "find"
    <3>1. ~Outranks(tuple[p], graph.entryPoint)' /\ entryLock'[p] = "shared"
      BY <2>1, <2>3, Zenon DEF Outranks
    <3>2. EntryOf(p)'
      BY <2>1, <2>3, <3>1, ZenonT(30) DEF EntryOf, AtEntry
    <3>. QED BY <1>1, <2>1, <3>1, <3>2, Zenon
  <2>. QED BY <2>1, <2>2, <2>3, SMTT(30), Z3T(30)
<1>6. CASE LockEntry(p)
  <2>1. /\ pc'[p] = "find" /\ entryLock'[p] = "exclusive" /\ entry'[p] = graph.entryPoint
        /\ graph' = graph /\ \A q \in Participant \ {p} : entryLock[q] = "none"
    BY <1>6, Domains, ZenonT(30) DEF LockEntry, Go, Held, Grants
  <2>2. EntryOf(p)'
    BY <2>1, SMTT(30), Z3T(30) DEF EntryOf, AtEntry
  <2>. QED BY <1>1, <2>1, <2>2, SMTT(30), Z3T(30)
\* A step under the entry lock that leaves the entry point alone
<1>7. ASSUME graph'.entryPoint = graph.entryPoint, pc[p] \in AtEntry,
             pc'[p] \in AtEntry, entryLock' = entryLock, UNCHANGED <<entry, tuple>>,
             pc'[p] = "add" /\ found'[p] = {} => graph.entryPoint = NoTuple
      PROVE  EntryInv'
  <2>1. level' = level
    BY <1>7, LevelStep, ZenonT(30) DEF AtEntry
  <2>2. Outranks(tuple[p], graph.entryPoint)' <=> Outranks(tuple[p], graph.entryPoint)
    BY <1>7, <2>1, SMTT(30), Z3T(30) DEF Outranks
  <2>3. EntryOf(p)'
    BY <1>0, <1>7, <2>2, Zenon DEF EntryOf
  <2>. QED BY <1>1, <1>7, <2>3, Zenon
<1>8. CASE FindNeighbors(p)
  <2>1. /\ pc[p] = "find" /\ pc'[p] = "add" /\ UNCHANGED <<graph, entryLock, entry, tuple>>
        /\ \E N \in Neighbors(graph, tuple[p], entry[p]) : found'[p] = N
    BY <1>8, Domains, Zenon DEF FindNeighbors, Go, locks
  <2>2. graph \in Graph /\ Closed(graph) /\ entry[p] = graph.entryPoint
    BY <1>0, <2>1, Zenon DEF TypeOK, LinkInv, EntryOf, AtEntry
  <2>3. found'[p] = {} => graph.entryPoint = NoTuple
    BY <2>1, <2>2, FoundElements, ZenonT(30)
  <2>. QED BY <1>7, <2>1, <2>3, SMTT(30), Z3T(30) DEF AtEntry
<1>9. ASSUME graph'.entryPoint = graph.entryPoint, Finished(p) PROVE EntryInv'
  <2>1. pc'[p] = "scan" /\ entryLock'[p] = "none"
    BY <1>9, Domains, Zenon DEF Finished, Go, Held
  <2>2. EntryOf(p)'
    BY <2>1, Zenon DEF EntryOf, AtEntry
  <2>. QED BY <1>1, <1>9, <2>1, <2>2, ZenonT(30)
<1>10. graph \in Graph /\ found[p] \in SUBSET Tuple /\ todo[p] \in SUBSET Tuple
  BY Zenon DEF TypeOK
<1>11. CASE AddInMemory(p)
  <2>1. /\ pc[p] = "add" /\ UNCHANGED <<entry, tuple, found>>
        /\ \/ /\ \E d \in found[p] : graph' = WithDuplicate(graph, d, tuple[p])
              /\ Finished(p)
           \/ /\ graph' = WithElement(graph, tuple[p], found[p])
              /\ pc'[p] = "link" /\ entryLock' = entryLock
    BY <1>11, Domains, Zenon DEF AddInMemory, Duplicates, AddElementInMemory, Go, locks
  <2>2. tuple[p] \in Tuple
    BY <2>1, Zenon DEF TupleInv, Inserting
  <2>3. graph'.entryPoint = graph.entryPoint
    <3>1. \A d \in found[p] : WithDuplicate(graph, d, tuple[p]).entryPoint = graph.entryPoint
      BY <1>10, <2>2, DuplicateEffect, SMTT(30), Z3T(30)
    <3>2. WithElement(graph, tuple[p], found[p]).entryPoint = graph.entryPoint
      BY <1>10, <2>2, ElementEffect, SMTT(30), Z3T(30)
    <3>. QED BY <2>1, <3>1, <3>2, ZenonT(30)
  <2>. QED BY <1>7, <1>9, <2>1, <2>3, Zenon DEF AtEntry
<1>12. CASE UpdateNeighborInMemory(p)
  <2>1. /\ pc[p] = "link" /\ UNCHANGED <<pc, entryLock, entry, tuple>>
        /\ \E n \in todo[p] : graph' \in WithConnection(graph, n, tuple[p])
    BY <1>12, Zenon DEF UpdateNeighborInMemory, locks
  <2>2. tuple[p] \in Tuple
    BY <2>1, Zenon DEF TupleInv, Inserting
  <2>3. graph'.entryPoint = graph.entryPoint
    BY <1>10, <2>1, <2>2, ConnectionEffect, SMTT(30), Z3T(30)
  <2>. QED BY <1>7, <2>1, <2>3, Zenon DEF AtEntry
<1>13. CASE UpdateEntryInMemory(p)
  <2>1. /\ pc[p] = "link" /\ Finished(p)
        /\ \/ Outranks(tuple[p], entry[p]) /\ graph' = [graph EXCEPT !.entryPoint = tuple[p]]
           \/ graph' = graph
    BY <1>13, Zenon DEF UpdateEntryInMemory
  <2>2. CASE graph' = graph
    BY <1>9, <2>1, <2>2, Zenon
  <2>3. CASE Outranks(tuple[p], entry[p])
    <3>1. pc'[p] = "scan" /\ entryLock'[p] = "none"
      BY <2>1, Domains, ZenonT(30) DEF Finished, Go, Held
    <3>2. entryLock[p] = "exclusive"
      <4>1. entryLock[p] # "none" /\ entry[p] = graph.entryPoint
            /\ (entryLock[p] = "shared" => ~Outranks(tuple[p], graph.entryPoint))
        BY <1>0, <2>1, Zenon DEF EntryOf, AtEntry
      <4>2. entryLock[p] \in {"none", "shared", "exclusive"}
        BY Zenon DEF TypeOK, LockMode
      <4>. QED BY <2>3, <4>1, <4>2, Zenon
    <3>3. \A q \in Participant \ {p} : entryLock[q] = "none"
      BY <1>0, <3>2, SMTT(30), Z3T(30)
    <3>4. \A q \in Participant \ {p} : EntryOf(q)
      BY Zenon DEF EntryInv
    <3>5. \A q \in Participant : entryLock'[q] = "none" /\ pc'[q] \notin AtEntry
      BY <1>0, <3>1, <3>3, <3>4, ZenonT(30) DEF EntryOf, AtEntry
    <3>. QED BY <3>5, SMTT(30), Z3T(30) DEF EntryInv, EntryOf, AtEntry
  <2>. QED BY <2>1, <2>2, <2>3, Zenon
<1>14. CASE LockUpdateShared(p) \/ LockUpdateExclusive(p) \/ FindNeighborsOnDisk(p)
            \/ UpdateNeighborOnDisk(p)
  <2>1. /\ pc[p] \in {"disk", "diskExclusive", "diskFind", "diskLink"}
        /\ pc'[p] \in {"diskExclusive", "diskFind", "diskAdd", "diskLink"}
        /\ UNCHANGED <<graph, entryLock>>
    BY <1>14, Domains, Zenon DEF LockUpdateShared, LockUpdateExclusive, FindNeighborsOnDisk,
       UpdateNeighborOnDisk, Go, locks
  <2>. QED BY <1>2, <2>1, SMTT(30), Z3T(30) DEF AtEntry
<1>15. CASE AddOnDisk(p) \/ UpdateEntryOnDisk(p)
  <2>1. /\ UNCHANGED graph /\ pc[p] \in {"diskAdd", "diskLink"}
        /\ \/ Finished(p)
           \/ pc'[p] = "diskLink" /\ entryLock' = entryLock
    BY <1>15, Domains, Zenon DEF AddOnDisk, UpdateEntryOnDisk, Go, locks
  <2>. QED BY <1>2, <1>9, <2>1, ZenonT(30) DEF AtEntry
<1>. QED BY <1>3, <1>4, <1>5, <1>6, <1>8, <1>11, <1>12, <1>13, <1>14, <1>15, Zenon DEF Step

LEMMA RankStep ==
  ASSUME TypeOK, LinkInv, TupleInv, EntryInv, RankInv, NEW p \in Participant, Step(p)
  PROVE  RankInv'
<1>0. /\ \A e \in graph.elements : e \in Tuple /\ level'[e] = level[e] /\ level[e] \in Nat
      /\ graph \in Graph /\ graph.entryPoint \in graph.elements \cup {NoTuple}
      /\ found[p] \in SUBSET Tuple /\ todo[p] \in SUBSET Tuple
  <2>1. graph \in Graph /\ level \in [Tuple -> Nat] /\ graph.elements \subseteq Tuple
        /\ found[p] \in SUBSET Tuple /\ todo[p] \in SUBSET Tuple
    BY SMTT(30), Z3T(30) DEF TypeOK, Graph
  <2>. QED BY <2>1, LevelStep, ZenonT(30) DEF LinkInv, Closed
<1>1. \A q \in Participant \ {p} : \A e :
        Promotes(q, e) => Promotes(q, e)'
  BY OthersStep, Zenon DEF Others, Promotes
<1>2. ASSUME NEW e \in graph.elements
      PROVE  \/ graph.entryPoint # NoTuple /\ level[e] <= level[graph.entryPoint]
             \/ \E q \in Participant : Promotes(q, e)
  BY Zenon DEF RankInv
<1>3. \A d, e \in graph.elements : graph.neighbors[d] = {} /\ graph.neighbors[e] = {} => d = e
  BY ZenonT(30) DEF RankInv
\* The elements and the entry point stay, and p promotes no element or goes on doing so
<1>4. ASSUME graph'.elements = graph.elements, graph'.entryPoint = graph.entryPoint,
             \A e \in graph.elements : graph'.neighbors[e] = {} => graph.neighbors[e] = {},
             \A e : Promotes(p, e) => Promotes(p, e)'
      PROVE  RankInv'
  <2>1. ASSUME NEW e \in graph'.elements
        PROVE  \/ graph'.entryPoint # NoTuple /\ level'[e] <= level'[graph'.entryPoint]
               \/ \E q \in Participant : Promotes(q, e)'
    <3>1. CASE graph.entryPoint # NoTuple /\ level[e] <= level[graph.entryPoint]
      BY <1>0, <1>4, <3>1, SMTT(30), Z3T(30)
    <3>2. CASE \E q \in Participant : Promotes(q, e)
      BY <1>1, <1>4, <3>2, Zenon
    <3>. QED BY <1>2, <1>4, <3>1, <3>2, ZenonT(30)
  <2>2. \A d, e \in graph'.elements : graph'.neighbors[d] = {} /\ graph'.neighbors[e] = {} => d = e
    BY <1>3, <1>4, SMTT(30), Z3T(30)
  <2>. QED BY <2>1, <2>2, Zenon DEF RankInv
<1>5. CASE AddInMemory(p)
  <2>1. /\ pc[p] = "add" /\ tuple' = tuple
        /\ \/ \E d \in found[p] : graph' = WithDuplicate(graph, d, tuple[p])
           \/ /\ graph' = WithElement(graph, tuple[p], found[p])
              /\ pc'[p] = "link" /\ entryLock' = entryLock
    BY <1>5, Domains, Zenon DEF AddInMemory, Duplicates, AddElementInMemory, Go, locks
  <2>2. /\ tuple[p] \in Tuple /\ tuple[p] \notin graph.elements
        /\ EntryOf(p) /\ ~\E e : Promotes(p, e)
    BY <2>1, Zenon DEF TupleInv, LinkInv, LinkOf, Inserting, EntryInv, Promotes
  <2>3. ASSUME NEW d \in found[p], graph' = WithDuplicate(graph, d, tuple[p])
        PROVE  RankInv'
    <3>0. d \in Tuple /\ tuple[p] \in Tuple /\ graph \in Graph
      BY <1>0, <2>2, SMTT(30), Z3T(30)
    <3>1. graph'.elements = graph.elements
      BY <2>3, <3>0, DuplicateEffect, Zenon
    <3>2. graph'.entryPoint = graph.entryPoint
      BY <2>3, <3>0, DuplicateEffect, Zenon
    <3>3. graph'.neighbors = graph.neighbors
      BY <2>3, <3>0, DuplicateEffect, Zenon
    <3>. QED BY <1>4, <2>2, <3>1, <3>2, <3>3, Zenon
  <2>4. ASSUME graph' = WithElement(graph, tuple[p], found[p]), pc'[p] = "link",
               entryLock' = entryLock
        PROVE  RankInv'
    <3>1. /\ graph'.elements = graph.elements \cup {tuple[p]}
          /\ graph'.entryPoint = graph.entryPoint /\ graph'.neighbors[tuple[p]] = found[p]
          /\ \A e \in Tuple \ {tuple[p]} : graph'.neighbors[e] = graph.neighbors[e]
      <4>1. graph \in Graph /\ tuple[p] \in Tuple /\ found[p] \in SUBSET Tuple
        BY <1>0, <2>2, Zenon
      <4>2. \A h : h = WithElement(graph, tuple[p], found[p]) =>
              /\ h.elements = graph.elements \cup {tuple[p]} /\ h.entryPoint = graph.entryPoint
              /\ h.neighbors[tuple[p]] = found[p]
              /\ \A e \in Tuple \ {tuple[p]} : h.neighbors[e] = graph.neighbors[e]
        BY <4>1, ElementParts, SMTT(30), Z3T(30)
      <4>. QED BY <2>4, <4>2, Zenon
    <3>2. level' = level
      BY <2>1, LevelStep, Zenon
    <3>3. entryLock[p] \in {"shared", "exclusive"}
      BY <2>1, <2>2, Zenon DEF EntryOf, AtEntry, TypeOK, LockMode
    <3>4. ASSUME NEW e \in graph'.elements
          PROVE  \/ graph'.entryPoint # NoTuple /\ level'[e] <= level'[graph'.entryPoint]
                 \/ \E q \in Participant : Promotes(q, e)'
      <4>1. CASE e \in graph.elements
        <5>1. CASE graph.entryPoint # NoTuple /\ level[e] <= level[graph.entryPoint]
          BY <3>1, <3>2, <5>1, ZenonT(30)
        <5>2. CASE \E q \in Participant : Promotes(q, e)
          BY <1>1, <2>2, <5>2, Zenon
        <5>. QED BY <1>2, <4>1, <5>1, <5>2, Zenon
      <4>2. CASE e = tuple[p] /\ entryLock[p] = "exclusive"
        BY <2>1, <2>4, <4>2, Zenon DEF Promotes
      <4>3. CASE e = tuple[p] /\ entryLock[p] = "shared"
        <5>1. ~Outranks(tuple[p], graph.entryPoint)
          BY <2>2, <4>3, ZenonT(30) DEF EntryOf
        <5>2. level[tuple[p]] \in Nat
          BY <2>2, SMTT(30), Z3T(30) DEF TypeOK
        <5>3. graph.entryPoint # NoTuple /\ ~(level[tuple[p]] > level[graph.entryPoint])
          BY <5>1, Zenon DEF Outranks
        <5>4. level[graph.entryPoint] \in Nat
          BY <1>0, <5>3, ZenonT(30)
        <5>5. level[tuple[p]] <= level[graph.entryPoint]
          BY <5>2, <5>3, <5>4, SMTT(30), Z3T(30)
        <5>. QED BY <3>1, <3>2, <4>3, <5>3, <5>5, ZenonT(30)
      <4>. QED BY <3>1, <3>3, <4>1, <4>2, <4>3, Zenon
    <3>5. found[p] = {} => graph.elements = {}
      <4> SUFFICES ASSUME found[p] = {}, NEW e \in graph.elements PROVE FALSE
        BY SMTT(30), Z3T(30)
      <4>1. graph.entryPoint = NoTuple
        BY <2>1, <2>2, Zenon DEF EntryOf
      <4>2. entryLock[p] = "exclusive"
        BY <2>2, <3>3, <4>1, ZenonT(30) DEF EntryOf, Outranks
      <4>3. PICK q \in Participant : Promotes(q, e)
        BY <1>2, <4>1, ZenonT(30)
      <4>4. q # p /\ entryLock[q] = "exclusive"
        BY <2>1, <4>3, ZenonT(30) DEF Promotes
      <4>. QED BY <4>2, <4>4, ZenonT(30) DEF EntryInv
    <3>6. ASSUME NEW d \in graph'.elements, NEW e \in graph'.elements,
                 graph'.neighbors[d] = {}, graph'.neighbors[e] = {}
          PROVE  d = e
      <4>1. CASE found[p] = {}
        BY <3>1, <3>5, <3>6, <4>1, ZenonT(30)
      <4>2. CASE found[p] # {}
        <5>1. d \in graph.elements /\ e \in graph.elements
          BY <3>1, <3>6, <4>2, ZenonT(30)
        <5>2. graph.neighbors[d] = {} /\ graph.neighbors[e] = {}
          BY <1>0, <2>2, <3>1, <3>6, <5>1, ZenonT(30)
        <5>. QED BY <1>3, <5>1, <5>2, ZenonT(30)
      <4>. QED BY <4>1, <4>2, ZenonT(30)
    <3>. QED BY <3>4, <3>6, Zenon DEF RankInv
  <2>. QED BY <2>1, <2>3, <2>4, Zenon
<1>6. CASE UpdateNeighborInMemory(p)
  <2>1. /\ pc[p] = "link" /\ UNCHANGED <<pc, entryLock, tuple>>
        /\ \E n \in todo[p] : graph' \in WithConnection(graph, n, tuple[p])
    BY <1>6, ZenonT(30) DEF UpdateNeighborInMemory, locks
  <2>2. PICK n \in todo[p] : graph' \in WithConnection(graph, n, tuple[p])
    BY <2>1, SMTT(30), Z3T(30)
  <2>3. tuple[p] \in Tuple /\ tuple[p] \notin graph.neighbors[n]
    BY <2>1, Zenon DEF TupleInv, Inserting, LinkInv, LinkOf
  <2>4. /\ graph'.elements = graph.elements /\ graph'.entryPoint = graph.entryPoint
        /\ graph'.neighbors[n] = {} => graph.neighbors[n] = {}
        /\ \A e \in Tuple \ {n} : graph'.neighbors[e] = graph.neighbors[e]
    <3>1. n \in Tuple /\ tuple[p] \in Tuple /\ graph \in Graph
      BY <1>0, <2>3, ZenonT(30)
    <3>2. \A h \in WithConnection(graph, n, tuple[p]) :
            /\ h.elements = graph.elements /\ h.entryPoint = graph.entryPoint
            /\ h.neighbors[n] = {} => graph.neighbors[n] = {}
            /\ \A e \in Tuple \ {n} : h.neighbors[e] = graph.neighbors[e]
      BY <2>3, <3>1, ConnectionEffect, SMTT(30), Z3T(30)
    <3>. QED BY <2>2, <3>2, Zenon
  <2>5. \A e \in graph.elements : graph'.neighbors[e] = {} => graph.neighbors[e] = {}
    BY <1>0, <2>4, Zenon
  <2>6. \A e : Promotes(p, e) => Promotes(p, e)'
    BY <2>1, Zenon DEF Promotes
  <2>. QED BY <1>4, <2>4, <2>5, <2>6, ZenonT(30)
<1>7. CASE UpdateEntryInMemory(p)
  <2>1. /\ pc[p] = "link"
        /\ \/ Outranks(tuple[p], entry[p]) /\ graph' = [graph EXCEPT !.entryPoint = tuple[p]]
           \/ ~Outranks(tuple[p], entry[p]) /\ graph' = graph
    BY <1>7, Zenon DEF UpdateEntryInMemory
  <2>2. /\ tuple[p] \in graph.elements /\ tuple[p] \in Tuple /\ EntryOf(p)
        /\ entry[p] = graph.entryPoint
    BY <2>1, SMTT(30), Z3T(30) DEF LinkInv, LinkOf, Inserting, TupleInv, EntryInv, EntryOf, AtEntry
  <2>3. level' = level
    BY <2>1, LevelStep, SMTT(30), Z3T(30)
  <2>4. entryLock[p] # "none"
    BY <2>1, <2>2, ZenonT(30) DEF EntryOf, AtEntry
  <2>5. \A q \in Participant : \A e : Promotes(q, e) => q = p /\ e = tuple[p]
    BY <2>4, SMTT(30), Z3T(30) DEF Promotes, EntryInv
  <2>6. CASE Outranks(tuple[p], entry[p])
    <3>0. graph' = [graph EXCEPT !.entryPoint = tuple[p]] /\ tuple[p] \in Tuple /\ graph \in Graph
      BY <1>0, <2>1, <2>2, <2>6, Zenon
    <3>1. /\ graph'.elements = graph.elements /\ graph'.neighbors = graph.neighbors
          /\ graph'.entryPoint = tuple[p]
      BY <3>0, SMTT(30), Z3T(30) DEF Graph
    <3>2. ASSUME NEW e \in graph.elements PROVE level[e] <= level[tuple[p]]
      <4>1. CASE graph.entryPoint # NoTuple /\ level[e] <= level[graph.entryPoint]
        BY <1>0, <2>2, <2>6, <4>1, SMTT(30), Z3T(30) DEF Outranks
      <4>2. CASE e = tuple[p]
        BY <1>0, <4>2, SMTT(30), Z3T(30)
      <4>. QED BY <1>2, <2>5, <4>1, <4>2, ZenonT(30)
    <3>3. tuple[p] # NoTuple
      BY <2>2, Zenon
    <3>4. \A e \in graph'.elements : graph'.entryPoint # NoTuple /\ level'[e] <= level'[graph'.entryPoint]
      BY <2>3, <3>1, <3>2, <3>3, SMTT(30), Z3T(30)
    <3>. QED BY <1>3, <3>1, <3>4, Zenon DEF RankInv
  <2>7. CASE ~Outranks(tuple[p], entry[p])
    <3>1. graph' = graph
      BY <2>1, <2>7, Zenon
    <3>2. ASSUME NEW e \in graph.elements
          PROVE  graph.entryPoint # NoTuple /\ level[e] <= level[graph.entryPoint]
      <4>1. CASE e = tuple[p]
        <5>1. graph.entryPoint # NoTuple /\ ~(level[tuple[p]] > level[graph.entryPoint])
          BY <2>2, <2>7, Zenon DEF Outranks
        <5>2. level[tuple[p]] \in Nat /\ level[graph.entryPoint] \in Nat
          BY <1>0, <2>2, <5>1, Zenon
        <5>. QED BY <4>1, <5>1, <5>2, SMTT(30), Z3T(30)
      <4>. QED BY <1>2, <2>5, <4>1, ZenonT(30)
    <3>. QED BY <1>3, <2>3, <3>1, <3>2, Zenon DEF RankInv
  <2>. QED BY <2>6, <2>7, SMTT(30), Z3T(30)
<1>8. ASSUME graph' = graph, pc[p] # "link" PROVE RankInv'
  <2>1. \A e : ~Promotes(p, e)
    BY <1>8, ZenonT(30) DEF Promotes
  <2>. QED BY <1>4, <1>8, <2>1, ZenonT(30)
<1>9. CASE NextTupleOfScan(p) \/ BuildCallback(p) \/ AllocateElement(p) \/ Flush(p)
  <2>1. graph' = graph /\ pc[p] \in {"scan", "insert", "alloc", "flush"}
    BY <1>9, Zenon DEF NextTupleOfScan, BuildCallback, AllocateElement, Flush
  <2>. QED BY <1>8, <2>1, SMTT(30), Z3T(30)
<1>10. CASE \/ PassGate(p) \/ ReadEntryPoint(p) \/ AnnounceExclusive(p) \/ LockEntry(p)
            \/ FindNeighbors(p)
  <2>1. graph' = graph /\ pc[p] \in {"gate", "entry", "announce", "exclusive", "find"}
    BY <1>10, Zenon DEF PassGate, ReadEntryPoint, AnnounceExclusive, LockEntry, FindNeighbors
  <2>. QED BY <1>8, <2>1, SMTT(30), Z3T(30)
<1>11. CASE \/ LockUpdateShared(p) \/ LockUpdateExclusive(p) \/ FindNeighborsOnDisk(p)
            \/ AddOnDisk(p) \/ UpdateNeighborOnDisk(p) \/ UpdateEntryOnDisk(p)
  <2>1. graph' = graph /\ pc[p] \in {"disk", "diskExclusive", "diskFind", "diskAdd", "diskLink"}
    BY <1>11, Zenon DEF LockUpdateShared, LockUpdateExclusive, FindNeighborsOnDisk, AddOnDisk,
       UpdateNeighborOnDisk, UpdateEntryOnDisk
  <2>. QED BY <1>8, <2>1, SMTT(30), Z3T(30)
<1>. QED BY <1>5, <1>6, <1>7, <1>9, <1>10, <1>11, Zenon DEF Step

-----------------------------------------------------------------------------
(* Every tuple taken from the scan is stored once *)

Kept == {"link", "diskLink"}

LEMMA StoredSame ==
  ASSUME TypeOK, TupleInv, NEW p \in Participant, Step(p),
         \/ Takes(p) \/ Ends(p)
         \/ Goes(p) /\ (pc[p] \in Kept <=> pc'[p] \in Kept)
         \/ Returns(p) /\ pc[p] \in Kept,
         NEW t \in Tuple
  PROVE  Stored(t)' <=> Stored(t)
<1>0. /\ \A q \in Participant \ {p} : pc'[q] = pc[q] /\ tuple'[q] = tuple[q]
      /\ Inserting \subseteq Participant /\ nextTuple \in Nat /\ t \in Nat
  <2>1. nextTuple \in Nat /\ t \in Nat
    BY SMTT(30), Z3T(30) DEF TypeOK, Tuple
  <2>. QED BY <2>1, OthersStep, Zenon DEF Others, Inserting
<1>1. CASE Takes(p)
  <2>1. /\ p \notin Inserting /\ Inserting' = Inserting \cup {p}
        /\ pc'[p] = "insert" /\ tuple'[p] = nextTuple /\ nextTuple' = nextTuple + 1
    BY <1>1, SetsStep, ZenonT(30) DEF Takes
  <2>2. /\ t < nextTuple' <=> t < nextTuple \/ t = nextTuple
        /\ ~(nextTuple < nextTuple)
    BY <1>0, <2>1, SMTT(30), Z3T(30)
  <2>. QED BY <1>0, <2>1, <2>2, Zenon DEF Stored
<1>2. CASE Ends(p)
  <2>1. Inserting' = Inserting /\ p \notin Inserting /\ nextTuple' = nextTuple
    BY <1>2, SetsStep, Zenon DEF Ends, Inserting
  <2>. QED BY <1>0, <2>1, ZenonT(30) DEF Stored
<1>3. CASE Goes(p) /\ (pc[p] \in Kept <=> pc'[p] \in Kept)
  <2>1. /\ p \in Inserting /\ Inserting' = Inserting
        /\ UNCHANGED <<tuple, nextTuple>> /\ (pc[p] \in Kept <=> pc'[p] \in Kept)
    BY <1>3, SetsStep, Zenon DEF Goes
  <2>. QED BY <1>0, <2>1, ZenonT(30) DEF Stored, Kept
<1>4. CASE Returns(p) /\ pc[p] \in Kept
  <2>1. /\ p \in Inserting /\ Inserting' = Inserting \ {p}
        /\ UNCHANGED <<tuple, nextTuple>> /\ pc[p] \in Kept
    BY <1>4, SetsStep, ZenonT(30) DEF Returns
  <2>. QED BY <1>0, <2>1, Zenon DEF Stored, Kept
<1>. QED BY <1>1, <1>2, <1>3, <1>4, Zenon

LEMMA StoredMore ==
  ASSUME TypeOK, TupleInv, NEW p \in Participant, Step(p), p \in Inserting, pc[p] \notin Kept,
         Returns(p) \/ (Goes(p) /\ pc'[p] \in Kept)
  PROVE  /\ \A t \in Tuple : Stored(t)' <=> Stored(t) \/ t = tuple[p]
         /\ ~Stored(tuple[p])
<1>0. /\ \A q \in Participant \ {p} : pc'[q] = pc[q] /\ tuple'[q] = tuple[q]
      /\ Inserting \subseteq Participant
      /\ tuple[p] \in Tuple /\ tuple[p] < nextTuple
      /\ \A q \in Inserting : q # p => tuple[q] # tuple[p]
  BY OthersStep, SMTT(30), Z3T(30) DEF Others, Inserting, TupleInv
<1>1. CASE Returns(p)
  <2>1. Inserting' = Inserting \ {p} /\ UNCHANGED <<tuple, nextTuple>>
    BY <1>1, SetsStep, Zenon DEF Returns
  <2>. QED BY <1>0, <2>1, Zenon DEF Stored, Kept
<1>2. CASE Goes(p) /\ pc'[p] \in Kept
  <2>1. Inserting' = Inserting /\ UNCHANGED <<tuple, nextTuple>> /\ pc'[p] \in Kept
    BY <1>2, SetsStep, Zenon DEF Goes
  <2>. QED BY <1>0, <2>1, Zenon DEF Stored, Kept
<1>. QED BY <1>1, <1>2, ZenonT(30)

\* One heap TID is added to a graph that has it not
Adds(g, h, d, k, t) ==
  \A e, u \in Tuple, i \in Nat : At(h, e, i, u) <=> At(g, e, i, u) \/ (e = d /\ i = k /\ u = t)

LEMMA AddsOne ==
  ASSUME NEW g, NEW h, NEW d \in Tuple, NEW k \in Nat, NEW t \in Tuple,
         Adds(g, h, d, k, t), ~Has(g, t), Unique(g)
  PROVE  Unique(h) /\ \A u \in Tuple : Has(h, u) <=> Has(g, u) \/ u = t
<1>1. ASSUME NEW u \in Tuple PROVE Has(h, u) <=> Has(g, u) \/ u = t
  BY ZenonT(30) DEF Has, Adds
<1>2. ASSUME NEW u \in Tuple, NEW a \in Tuple, NEW b \in Tuple, NEW i \in Nat, NEW j \in Nat,
             At(h, a, i, u), At(h, b, j, u)
      PROVE  a = b /\ i = j
  <2>1. /\ At(g, a, i, u) \/ (a = d /\ i = k /\ u = t)
        /\ At(g, b, j, u) \/ (b = d /\ j = k /\ u = t)
    BY <1>2, Zenon DEF Adds
  <2>2. u = t => ~At(g, a, i, u) /\ ~At(g, b, j, u)
    BY Zenon DEF Has
  <2>3. At(g, a, i, u) /\ At(g, b, j, u) => a = b /\ i = j
    BY Zenon DEF Unique
  <2>. QED BY <2>1, <2>2, <2>3, SMTT(30), Z3T(30)
<1>. QED BY <1>1, <1>2, Zenon DEF Unique

LEMMA DuplicatePlace ==
  ASSUME NEW g \in Graph, NEW d \in g.elements, NEW t \in Tuple, Len(g.heaptids[d]) < HeapTids,
         \A e \in Tuple : Len(g.heaptids[e]) <= HeapTids
  PROVE  LET h == WithDuplicate(g, d, t) IN
         /\ Adds(g, h, d, Len(g.heaptids[d]) + 1, t)
         /\ \A e \in Tuple : Len(h.heaptids[e]) <= HeapTids
<1> DEFINE h == WithDuplicate(g, d, t)
<1>1. d \in Tuple /\ \A e \in Tuple : g.heaptids[e] \in Seq(Tuple)
  BY Zenon DEF Graph
<1>2. /\ h.elements = g.elements
      /\ h.heaptids[d] = Append(g.heaptids[d], t)
      /\ \A e \in Tuple \ {d} : h.heaptids[e] = g.heaptids[e]
  BY <1>1, DuplicateEffect, SMTT(30), Z3T(30)
<1> HIDE DEF h
<1>3. /\ Len(h.heaptids[d]) = Len(g.heaptids[d]) + 1
      /\ h.heaptids[d][Len(g.heaptids[d]) + 1] = t
      /\ \A i \in 1 .. Len(g.heaptids[d]) : h.heaptids[d][i] = g.heaptids[d][i]
      /\ Len(g.heaptids[d]) \in Nat
  BY <1>1, <1>2, SMTT(30), Z3T(30)
<1>4. ASSUME NEW e \in Tuple, NEW u \in Tuple, NEW i \in Nat
      PROVE  At(h, e, i, u) <=> At(g, e, i, u) \/ (e = d /\ i = Len(g.heaptids[d]) + 1 /\ u = t)
  <2>1. CASE e = d
    <3> DEFINE k == Len(g.heaptids[d])
    <3>1. /\ Len(h.heaptids[d]) = k + 1 /\ h.heaptids[d][k + 1] = t /\ k \in Nat
          /\ \A j \in 1 .. k : h.heaptids[d][j] = g.heaptids[d][j]
      BY <1>3, Zenon
    <3>2. At(h, d, i, u) <=> i \in 1 .. k + 1 /\ h.heaptids[d][i] = u
      BY <1>2, <3>1, Zenon DEF At
    <3>3. At(g, d, i, u) <=> i \in 1 .. k /\ g.heaptids[d][i] = u
      BY Zenon DEF At
    <3> HIDE DEF k
    <3>4. i \in 1 .. k + 1 <=> i \in 1 .. k \/ i = k + 1
      BY <3>1, SMTT(30), Z3T(30)
    <3>5. ~(k + 1 \in 1 .. k)
      BY <3>1, SMTT(30), Z3T(30)
    <3>6. At(h, d, i, u) <=> At(g, d, i, u) \/ (i = k + 1 /\ u = t)
      BY <3>1, <3>2, <3>3, <3>4, <3>5, ZenonT(30)
    <3>. QED BY <2>1, <3>6, ZenonT(30) DEF k
  <2>2. CASE e # d
    BY <1>2, <2>2, SMTT(30), Z3T(30) DEF At
  <2>. QED BY <2>1, <2>2, SMTT(30), Z3T(30)
<1>5. \A e \in Tuple : Len(h.heaptids[e]) <= HeapTids
  <2>1. HeapTids \in Nat
    BY Zenon
  <2>2. Len(h.heaptids[d]) <= HeapTids
    BY <1>3, <2>1, SMTT(30), Z3T(30)
  <2>. QED BY <1>2, <2>2, Zenon
<1>6. Adds(g, h, d, Len(g.heaptids[d]) + 1, t)
  BY <1>4, Zenon DEF Adds
<1>. QED BY <1>5, <1>6, Zenon DEF h

LEMMA ElementPlace ==
  ASSUME NEW g \in Graph, NEW t \in Tuple, NEW N \in SUBSET Tuple, t \notin g.elements,
         \A e \in Tuple : Len(g.heaptids[e]) <= HeapTids
  PROVE  LET h == WithElement(g, t, N) IN
         /\ Adds(g, h, t, 1, t)
         /\ \A e \in Tuple : Len(h.heaptids[e]) <= HeapTids
<1> DEFINE h == WithElement(g, t, N)
<1>2. /\ h.elements = g.elements \cup {t} /\ h.heaptids[t] = <<t>>
      /\ \A e \in Tuple \ {t} : h.heaptids[e] = g.heaptids[e]
  BY ElementEffect, SMTT(30), Z3T(30)
<1> HIDE DEF h
<1>4. ASSUME NEW e \in Tuple, NEW u \in Tuple, NEW i \in Nat
      PROVE  At(h, e, i, u) <=> At(g, e, i, u) \/ (e = t /\ i = 1 /\ u = t)
  <2>1. CASE e = t
    BY <1>2, <2>1, SMTT(30), Z3T(30) DEF At
  <2>2. CASE e # t
    BY <1>2, <2>2, SMTT(30), Z3T(30) DEF At
  <2>. QED BY <2>1, <2>2, Zenon
<1>5. \A e \in Tuple : Len(h.heaptids[e]) <= HeapTids
  <2>1. Len(h.heaptids[t]) <= HeapTids
    <3>1. Len(<<t>>) <= HeapTids
      BY SMTT(30), Z3T(30)
    <3>. QED BY <1>2, <3>1, Zenon
  <2>. QED BY <1>2, <2>1, Zenon
<1>6. Adds(g, h, t, 1, t)
  BY <1>4, Zenon DEF Adds
<1>. QED BY <1>5, <1>6, ZenonT(30) DEF h

LEMMA PlacesSame ==
  ASSUME PlaceInv, Index'.elements = Index.elements, Index'.heaptids = Index.heaptids,
         \A t \in Tuple : Stored(t)' <=> Stored(t)
  PROVE  PlaceInv'
<1>1. \A e, t, i : At(Index, e, i, t)' <=> At(Index, e, i, t)
  BY Zenon DEF At
<1>2. \A t : Has(Index, t)' <=> Has(Index, t)
  BY <1>1, Zenon DEF Has
<1>3. Unique(Index)'
  BY <1>1, Zenon DEF Unique, PlaceInv
<1>4. \A e \in Tuple : Len(Index'.heaptids[e]) <= HeapTids
  BY Zenon DEF PlaceInv
<1>. QED BY <1>2, <1>3, <1>4, Zenon DEF PlaceInv

LEMMA PlacesMore ==
  ASSUME PlaceInv, NEW d \in Tuple, NEW k \in Nat, NEW t \in Tuple,
         Adds(Index, Index', d, k, t), \A e \in Tuple : Len(Index'.heaptids[e]) <= HeapTids,
         \A u \in Tuple : Stored(u)' <=> Stored(u) \/ u = t, ~Stored(t)
  PROVE  PlaceInv'
<1>1. ~Has(Index, t) /\ Unique(Index) /\ \A u \in Tuple : Has(Index, u) <=> Stored(u)
  BY Zenon DEF PlaceInv
<1>2. Unique(Index') /\ \A u \in Tuple : Has(Index', u) <=> Has(Index, u) \/ u = t
  BY <1>1, AddsOne, Zenon
<1>3. Unique(Index)' /\ \A u \in Tuple : Has(Index, u)' <=> Has(Index', u)
  BY <1>2, Zenon DEF Unique, Has, At
<1>. QED BY <1>1, <1>2, <1>3, Zenon DEF PlaceInv

LEMMA PlaceStep ==
  ASSUME TypeOK, PhaseInv, TupleInv, LinkInv, PlaceInv, NEW p \in Participant, Step(p)
  PROVE  PlaceInv'
<1>0. /\ graph \in Graph /\ disk \in Graph
      /\ found[p] \in SUBSET Tuple /\ todo[p] \in SUBSET Tuple
  BY SMTT(30), Z3T(30) DEF TypeOK
<1>1. ASSUME pc[p] \notin Kept, pc'[p] \notin Kept \cup {"scan"}
      PROVE  \A t \in Tuple : Stored(t)' <=> Stored(t)
  <2>1. \/ Takes(p) \/ Ends(p)
        \/ Goes(p) /\ (pc[p] \in Kept <=> pc'[p] \in Kept)
    BY <1>1, StepKinds, Zenon DEF Returns
  <2>. QED BY <2>1, StoredSame, Zenon
<1>2. ASSUME pc[p] \in Kept, pc'[p] \in Kept \cup {"scan"}
      PROVE  \A t \in Tuple : Stored(t)' <=> Stored(t)
  <2>1. ~Takes(p) /\ ~Ends(p)
    BY <1>2, ZenonT(30) DEF Takes, Ends, Kept
  <2>2. Goes(p) => pc'[p] \in Kept
    BY <1>2, SMTT(30), Z3T(30) DEF Goes
  <2>3. \/ Goes(p) /\ (pc[p] \in Kept <=> pc'[p] \in Kept)
        \/ Returns(p) /\ pc[p] \in Kept
    BY <1>2, <2>1, <2>2, StepKinds, Zenon
  <2>. QED BY <2>3, StoredSame, Zenon
<1>3. ASSUME pc[p] \in {"add", "diskAdd"}, pc'[p] \in Kept \cup {"scan"}
      PROVE  /\ \A t \in Tuple : Stored(t)' <=> Stored(t) \/ t = tuple[p]
             /\ ~Stored(tuple[p])
  <2>1. ~Takes(p) /\ ~Ends(p) /\ p \in Inserting /\ pc[p] \notin Kept
    BY <1>3, ZenonT(30) DEF Takes, Ends, Kept, Inserting
  <2>2. Goes(p) => pc'[p] \in Kept
    BY <1>3, SMTT(30), Z3T(30) DEF Goes
  <2>3. Returns(p) \/ (Goes(p) /\ pc'[p] \in Kept)
    BY <2>1, <2>2, StepKinds, Zenon
  <2>. QED BY <2>1, <2>3, StoredMore, Zenon
\* A heap TID or an element is added to the index
<1>4. ASSUME tuple[p] \in Tuple, tuple[p] \notin Index.elements, found[p] \subseteq Index.elements,
             Index \in Graph,
             \/ \E d \in Duplicates(Index, tuple[p], found[p]) :
                  Index' = WithDuplicate(Index, d, tuple[p])
             \/ Index' = WithElement(Index, tuple[p], found[p]),
             pc[p] \in {"add", "diskAdd"}, pc'[p] \in Kept \cup {"scan"}
      PROVE  PlaceInv'
  <2>0. \A e \in Tuple : Len(Index.heaptids[e]) <= HeapTids
    BY Zenon DEF PlaceInv
  <2>1. ASSUME NEW d \in Duplicates(Index, tuple[p], found[p]),
               Index' = WithDuplicate(Index, d, tuple[p])
        PROVE  PlaceInv'
    <3>1. d \in Index.elements /\ Len(Index.heaptids[d]) < HeapTids
      BY <1>4, Zenon DEF Duplicates
    <3>2. /\ Adds(Index, Index', d, Len(Index.heaptids[d]) + 1, tuple[p])
          /\ \A e \in Tuple : Len(Index'.heaptids[e]) <= HeapTids
      BY <1>4, <2>0, <2>1, <3>1, DuplicatePlace, ZenonT(30)
    <3>3. d \in Tuple /\ Len(Index.heaptids[d]) + 1 \in Nat
      <4>1. d \in Tuple /\ Index.heaptids[d] \in Seq(Tuple)
        BY <1>4, <3>1, Zenon DEF Graph
      <4>. QED BY <4>1, SMTT(30), Z3T(30)
    <3>. QED BY <1>3, <1>4, <3>2, <3>3, PlacesMore, Zenon
  <2>2. ASSUME Index' = WithElement(Index, tuple[p], found[p]) PROVE PlaceInv'
    <3>1. /\ Adds(Index, Index', tuple[p], 1, tuple[p])
          /\ \A e \in Tuple : Len(Index'.heaptids[e]) <= HeapTids
      BY <1>0, <1>4, <2>0, <2>2, ElementPlace, Zenon
    <3>2. 1 \in Nat
      BY SMTT(30), Z3T(30)
    <3>. QED BY <1>3, <1>4, <3>1, <3>2, PlacesMore, Zenon
  <2>. QED BY <1>4, <2>1, <2>2, Zenon
<1>5. CASE AddInMemory(p)
  <2>1. /\ pc[p] = "add" /\ flushed' = flushed /\ pc'[p] \in {"link", "scan"}
        /\ \/ \E d \in Duplicates(graph, tuple[p], found[p]) :
                graph' = WithDuplicate(graph, d, tuple[p])
           \/ graph' = WithElement(graph, tuple[p], found[p])
    BY <1>5, Domains, Zenon DEF AddInMemory, AddElementInMemory, Go, Finished
  <2>2. /\ tuple[p] \in Tuple /\ tuple[p] \notin graph.elements /\ found[p] \subseteq graph.elements
    BY <2>1, Zenon DEF TupleInv, Inserting, LinkInv, LinkOf
  <2>3. ~flushed
    BY <2>1, Zenon DEF PhaseInv, InMemory
  <2>4. Index = graph /\ Index' = graph'
    BY <2>1, <2>3, ZenonT(30) DEF Index
  <2>5. pc[p] \in {"add", "diskAdd"} /\ pc'[p] \in Kept \cup {"scan"}
    BY <2>1, SMTT(30), Z3T(30) DEF Kept
  <2>. QED BY <1>0, <1>4, <2>1, <2>2, <2>4, <2>5, Zenon
<1>6. CASE AddOnDisk(p)
  <2>1. /\ pc[p] = "diskAdd" /\ flushed' = flushed /\ pc'[p] \in {"diskLink", "scan"}
        /\ \/ \E d \in Duplicates(disk, tuple[p], found[p]) :
                disk' = WithDuplicate(disk, d, tuple[p])
           \/ disk' = WithElement(disk, tuple[p], found[p])
    BY <1>6, Domains, Zenon DEF AddOnDisk, Go, Finished
  <2>2. /\ tuple[p] \in Tuple /\ tuple[p] \notin disk.elements /\ found[p] \subseteq disk.elements
    BY <2>1, Zenon DEF TupleInv, Inserting, LinkInv, LinkOf
  <2>3. flushed
    BY <2>1, Zenon DEF PhaseInv, OnDisk
  <2>4. Index = disk /\ Index' = disk'
    BY <2>1, <2>3, Zenon DEF Index
  <2>5. pc[p] \in {"add", "diskAdd"} /\ pc'[p] \in Kept \cup {"scan"}
    BY <2>1, Zenon DEF Kept
  <2>. QED BY <1>0, <1>4, <2>1, <2>2, <2>4, <2>5, Zenon
\* Links and the entry point
<1>7. ASSUME /\ graph'.elements = graph.elements /\ graph'.heaptids = graph.heaptids
             /\ disk'.elements = disk.elements /\ disk'.heaptids = disk.heaptids,
             flushed' = flushed, pc[p] \in Kept, pc'[p] \in Kept \cup {"scan"}
      PROVE  PlaceInv'
  <2>1. Index'.elements = Index.elements /\ Index'.heaptids = Index.heaptids
    BY <1>7, Zenon DEF Index
  <2>. QED BY <1>2, <1>7, <2>1, PlacesSame, Zenon
<1>8. CASE UpdateNeighborInMemory(p)
  <2>1. /\ pc[p] = "link" /\ pc' = pc /\ disk' = disk /\ flushed' = flushed
        /\ \E n \in todo[p] : graph' \in WithConnection(graph, n, tuple[p])
    BY <1>8, ZenonT(30) DEF UpdateNeighborInMemory
  <2>2. tuple[p] \in Tuple
    BY <2>1, SMTT(30), Z3T(30) DEF TupleInv, Inserting
  <2>3. graph'.elements = graph.elements /\ graph'.heaptids = graph.heaptids
    <3>1. PICK n \in todo[p] : graph' \in WithConnection(graph, n, tuple[p])
      BY <2>1, Zenon
    <3>2. n \in Tuple /\ tuple[p] \in Tuple /\ graph \in Graph
      BY <1>0, <2>2, ZenonT(30)
    <3>3. \A h \in WithConnection(graph, n, tuple[p]) :
            h.elements = graph.elements /\ h.heaptids = graph.heaptids
      BY <3>2, ConnectionFrame, SMTT(30), Z3T(30)
    <3>. QED BY <3>1, <3>3, Zenon
  <2>4. pc[p] \in Kept /\ pc'[p] \in Kept \cup {"scan"}
    BY <2>1, SMTT(30), Z3T(30) DEF Kept
  <2>. QED BY <1>7, <2>1, <2>3, <2>4, Zenon
<1>9. CASE UpdateNeighborOnDisk(p)
  <2>1. /\ pc[p] = "diskLink" /\ pc' = pc /\ graph' = graph /\ flushed' = flushed
        /\ \E n \in todo[p] : disk' \in WithConnection(disk, n, tuple[p])
    BY <1>9, ZenonT(30) DEF UpdateNeighborOnDisk
  <2>2. tuple[p] \in Tuple
    BY <2>1, Zenon DEF TupleInv, Inserting
  <2>3. disk'.elements = disk.elements /\ disk'.heaptids = disk.heaptids
    <3>1. PICK n \in todo[p] : disk' \in WithConnection(disk, n, tuple[p])
      BY <2>1, Zenon
    <3>2. n \in Tuple /\ tuple[p] \in Tuple /\ disk \in Graph
      BY <1>0, <2>2, ZenonT(30)
    <3>3. \A h \in WithConnection(disk, n, tuple[p]) :
            h.elements = disk.elements /\ h.heaptids = disk.heaptids
      BY <3>2, ConnectionFrame, SMTT(30), Z3T(30)
    <3>. QED BY <3>1, <3>3, Zenon
  <2>4. pc[p] \in Kept /\ pc'[p] \in Kept \cup {"scan"}
    BY <2>1, SMTT(30), Z3T(30) DEF Kept
  <2>. QED BY <1>7, <2>1, <2>3, <2>4, Zenon
<1>10. ASSUME NEW g \in Graph, NEW h, NEW t, h = [g EXCEPT !.entryPoint = t] \/ h = g
       PROVE  h.elements = g.elements /\ h.heaptids = g.heaptids
  BY <1>10, SMTT(30), Z3T(30) DEF Graph
<1>11. CASE UpdateEntryInMemory(p)
  <2>1. /\ pc[p] = "link" /\ pc'[p] = "scan" /\ disk' = disk /\ flushed' = flushed
        /\ graph' = [graph EXCEPT !.entryPoint = tuple[p]] \/ graph' = graph
    BY <1>11, Domains, Zenon DEF UpdateEntryInMemory, Finished, Go
  <2>2. graph'.elements = graph.elements /\ graph'.heaptids = graph.heaptids
    BY <1>0, <1>10, <2>1, Zenon
  <2>3. pc[p] \in Kept /\ pc'[p] \in Kept \cup {"scan"}
    BY <2>1, SMTT(30), Z3T(30) DEF Kept
  <2>. QED BY <1>7, <2>1, <2>2, <2>3, Zenon
<1>12. CASE UpdateEntryOnDisk(p)
  <2>1. /\ pc[p] = "diskLink" /\ pc'[p] = "scan" /\ graph' = graph /\ flushed' = flushed
        /\ disk' = [disk EXCEPT !.entryPoint = tuple[p]] \/ disk' = disk
    BY <1>12, Domains, Zenon DEF UpdateEntryOnDisk, Finished, Go
  <2>2. disk'.elements = disk.elements /\ disk'.heaptids = disk.heaptids
    BY <1>0, <1>10, <2>1, Zenon
  <2>3. pc[p] \in Kept /\ pc'[p] \in Kept \cup {"scan"}
    BY <2>1, SMTT(30), Z3T(30) DEF Kept
  <2>. QED BY <1>7, <2>1, <2>2, <2>3, Zenon
\* The index stays as it is, in memory or flushed to disk
<1>13. ASSUME \/ UNCHANGED <<graph, disk, flushed>>
              \/ ~flushed /\ disk' = graph /\ flushed' = TRUE,
              pc[p] \notin Kept, pc'[p] \notin Kept \cup {"scan"}
       PROVE  PlaceInv'
  <2>1. ASSUME UNCHANGED <<graph, disk, flushed>> PROVE Index' = Index
    BY <2>1, Zenon DEF Index
  <2>2. ASSUME ~flushed, disk' = graph, flushed' = TRUE PROVE Index' = Index
    <3>1. Index = graph /\ Index' = disk'
      BY <2>2, Zenon DEF Index
    <3>. QED BY <2>2, <3>1, SMTT(30), Z3T(30)
  <2>3. Index' = Index
    BY <1>13, <2>1, <2>2, Zenon
  <2>. QED BY <1>1, <1>13, <2>3, PlacesSame, Zenon
<1>14. CASE NextTupleOfScan(p) \/ BuildCallback(p) \/ AllocateElement(p) \/ Flush(p)
  <2>1. /\ UNCHANGED <<graph, disk, flushed>> \/ (~flushed /\ disk' = graph /\ flushed' = TRUE)
        /\ pc[p] \in {"scan", "insert", "alloc", "flush"}
        /\ pc'[p] \in {"insert", "wait", "done", "disk", "alloc", "flush", "gate"}
    BY <1>14, Domains, ZenonT(30) DEF NextTupleOfScan, BuildCallback, AllocateElement, Flush,
       FlushPages, Go, WhenFull
  <2>2. pc[p] \notin Kept /\ pc'[p] \notin Kept \cup {"scan"}
    BY <2>1, SMTT(30), Z3T(30) DEF Kept
  <2>. QED BY <1>13, <2>1, <2>2, Zenon
<1>15. CASE \/ PassGate(p) \/ ReadEntryPoint(p) \/ AnnounceExclusive(p) \/ LockEntry(p)
            \/ FindNeighbors(p)
  <2>1. /\ UNCHANGED <<graph, disk, flushed>>
        /\ pc[p] \in {"gate", "entry", "announce", "exclusive", "find"}
        /\ pc'[p] \in {"entry", "announce", "exclusive", "find", "add"}
    BY <1>15, Domains, ZenonT(30) DEF PassGate, ReadEntryPoint, AnnounceExclusive, LockEntry,
       FindNeighbors, Go
  <2>2. pc[p] \notin Kept /\ pc'[p] \notin Kept \cup {"scan"}
    BY <2>1, SMTT(30), Z3T(30) DEF Kept
  <2>. QED BY <1>13, <2>1, <2>2, Zenon
<1>16. CASE LockUpdateShared(p) \/ LockUpdateExclusive(p) \/ FindNeighborsOnDisk(p)
  <2>1. /\ UNCHANGED <<graph, disk, flushed>>
        /\ pc[p] \in {"disk", "diskExclusive", "diskFind"}
        /\ pc'[p] \in {"diskExclusive", "diskFind", "diskAdd"}
    BY <1>16, Domains, Zenon DEF LockUpdateShared, LockUpdateExclusive, FindNeighborsOnDisk, Go
  <2>2. pc[p] \notin Kept /\ pc'[p] \notin Kept \cup {"scan"}
    BY <2>1, Zenon DEF Kept
  <2>. QED BY <1>13, <2>1, <2>2, Zenon
<1>. QED BY <1>5, <1>6, <1>8, <1>9, <1>11, <1>12, <1>14, <1>15, <1>16, ZenonT(30) DEF Step

-----------------------------------------------------------------------------
(* CountInv: the facts about the cardinality of finite sets are needed from here on *)

INSTANCE FiniteSetTheorems

LEMMA FiniteCounts ==
  /\ IsFiniteSet(Inserting) /\ Cardinality(Inserting) \in Nat
  /\ IsFiniteSet(Ended) /\ Cardinality(Ended) \in Nat
<1>1. Inserting \in SUBSET Participant /\ Ended \in SUBSET Participant
  BY ZenonT(30) DEF Inserting, Ended
<1>. QED BY <1>1, FS_Subset, FS_CardinalityType, ZenonT(30)

LEMMA CountStep ==
  ASSUME TypeOK, CountInv, NEW p \in Participant, Step(p)
  PROVE  CountInv'
<1>1. nextTuple \in 1 .. NTuples + 1 /\ indtuples \in Nat /\ nparticipantsdone \in Nat
  BY ZenonT(30) DEF TypeOK
<1>2. /\ nparticipantsdone = Cardinality(Ended)
      /\ indtuples + Cardinality(Inserting) = nextTuple - 1
      /\ \A q \in Participant : /\ pc[q] \in AtEnd => nextTuple = NTuples + 1
                                /\ pc[q] = "wait" => q = Leader
      /\ pc[Leader] = "done" => flushed /\ \A q \in Participant : pc[q] = "done"
  BY Zenon DEF CountInv
<1>3. Takes(p) \/ Ends(p) \/ Goes(p) \/ Returns(p)
  BY StepKinds, SMTT(30), Z3T(30)
<1>4. \A q \in Participant \ {p} : pc'[q] = pc[q]
  BY OthersStep, Zenon DEF Others
<1>5. nparticipantsdone' = Cardinality(Ended')
  <2>1. CASE Ends(p)
    <3>1. Cardinality(Ended \cup {p}) = Cardinality(Ended) + 1
      BY <2>1, SetsStep, FiniteCounts, FS_AddElement, ZenonT(30)
    <3>. QED BY <1>2, <2>1, <3>1, SetsStep, ZenonT(30) DEF Ends
  <2>. QED BY <1>2, <1>3, <2>1, SetsStep, ZenonT(30) DEF Takes, Goes, Returns
<1>6. indtuples' + Cardinality(Inserting') = nextTuple' - 1
  <2>1. CASE Takes(p)
    <3>1. Cardinality(Inserting \cup {p}) = Cardinality(Inserting) + 1
      BY <2>1, SetsStep, FiniteCounts, FS_AddElement, ZenonT(30)
    <3>2. Cardinality(Inserting') = Cardinality(Inserting) + 1
      BY <2>1, <3>1, SetsStep, ZenonT(30)
    <3>. QED BY <1>1, <1>2, <2>1, <3>2, FiniteCounts, SMTT(30), Z3T(30) DEF Takes
  <2>2. CASE Returns(p)
    <3>1. Cardinality(Inserting \ {p}) = Cardinality(Inserting) - 1
      BY <2>2, SetsStep, FiniteCounts, FS_RemoveElement, ZenonT(30)
    <3>2. Cardinality(Inserting') = Cardinality(Inserting) - 1
      BY <2>2, <3>1, SetsStep, ZenonT(30)
    <3>. QED BY <1>1, <1>2, <2>2, <3>2, FiniteCounts, SMTT(30), Z3T(30) DEF Returns
  <2>. QED BY <1>2, <1>3, <2>1, <2>2, SetsStep, ZenonT(30) DEF Ends, Goes
<1>7. ASSUME NEW q \in Participant
      PROVE  /\ pc'[q] \in AtEnd => nextTuple' = NTuples + 1
             /\ pc'[q] = "wait" => q = Leader
  <2>1. CASE Takes(p)
    <3>1. \A r \in Participant : pc[r] \notin AtEnd
      BY <1>1, <1>2, <2>1, SMTT(30), Z3T(30) DEF Takes
    <3>. QED BY <1>4, <2>1, <3>1, ZenonT(30) DEF Takes, AtEnd
  <2>2. CASE Ends(p)
    BY <1>1, <1>2, <1>4, <2>2, SMTT(30), Z3T(30) DEF Ends, AtEnd
  <2>3. CASE Goes(p) \/ Returns(p)
    BY <1>2, <1>4, <2>3, Zenon DEF Goes, Returns, AtEnd
  <2>. QED BY <1>3, <2>1, <2>2, <2>3, ZenonT(30)
<1>8. pc'[Leader] # "done"
  <2>1. pc[p] # "done"
    BY <1>3, Zenon DEF Takes, Ends, Goes, Returns
  <2>2. pc[Leader] # "done"
    BY <1>2, <2>1, Zenon
  <2>3. p = Leader => pc'[p] # "done"
    BY <1>3, Zenon DEF Takes, Ends, Goes, Returns
  <2>. QED BY <1>4, <2>2, <2>3, Zenon
<1>. QED BY <1>5, <1>6, <1>7, <1>8, ZenonT(30) DEF CountInv

-----------------------------------------------------------------------------
(* The end of the build, and steps that change nothing *)

LEMMA EveryoneEnded ==
  ASSUME TypeOK, CountInv, EndBuild
  PROVE  /\ Ended = Participant /\ Inserting = {}
         /\ \A p \in Participant : pc[p] \in AtEnd /\ pc'[p] = "done"
         /\ Ended' = Participant /\ Inserting' = {}
<1>1. /\ nparticipantsdone = Cardinality(Ended) /\ nparticipantsdone = Cardinality(Participant)
      /\ pc' = [pc EXCEPT ![Leader] = "done"] /\ DOMAIN pc = Participant
  BY Domains, Zenon DEF CountInv, EndBuild, AllDone, Go
<1>2. Ended = Participant
  <2>1. Ended \subseteq Participant /\ IsFiniteSet(Participant)
    BY Zenon DEF Ended
  <2>. QED BY <1>1, <2>1, FS_Subset, ZenonT(30)
<1>3. \A p \in Participant : pc[p] \in AtEnd
  BY <1>2, Zenon DEF Ended
<1>4. \A p \in Participant : pc'[p] = "done"
  BY <1>1, <1>3, Zenon DEF AtEnd, CountInv
<1>5. Inserting = {} /\ Inserting' = {} /\ Ended' = Participant
  BY <1>3, <1>4, Zenon DEF Inserting, Ended, AtEnd
<1>. QED BY <1>2, <1>3, <1>4, <1>5, Zenon

LEMMA EndBuildStep ==
  ASSUME IInv, EndBuild
  PROVE  IInv'
<1> USE DEF IInv
<1>0. /\ \A p \in Participant : pc[p] \in AtEnd /\ pc'[p] = "done"
      /\ Ended = Participant /\ Inserting = {} /\ Ended' = Participant /\ Inserting' = {}
  BY EveryoneEnded, Zenon
<1>1. UNCHANGED <<nextTuple, tuple, level, graph, memoryUsed, indtuples, nparticipantsdone,
                  flushLock, entryLock, entryWaitLock, updateLock, entry, found, todo>>
  BY Zenon DEF EndBuild, locks, local
<1>2. /\ flushed' = TRUE
      /\ (flushed /\ disk' = disk) \/ (~flushed /\ disk' = graph)
  <2>1. CASE flushed
    <3>1. flushed' = flushed /\ disk' = disk
      BY <2>1, ZenonT(30) DEF EndBuild
    <3>2. flushed = TRUE
      BY <2>1, ZenonT(30) DEF TypeOK
    <3>. QED BY <2>1, <3>1, <3>2, ZenonT(30)
  <2>2. CASE ~flushed
    BY <2>2, Zenon DEF EndBuild, FlushPages
  <2>. QED BY <2>1, <2>2, ZenonT(30)
<1>3. TypeOK'
  <2>1. PcType'
    <3>1. pc' = [pc EXCEPT ![Leader] = "done"]
      BY ZenonT(30) DEF EndBuild, Go
    <3>. QED BY <3>1, TypeParts, ZenonT(30) DEF PcType
  <2>2. GraphsType'
    BY <1>1, <1>2, TypeParts, ZenonT(30) DEF GraphsType
  <2>3. LocksType' /\ LocalType'
    BY <1>1, TypeParts, ZenonT(30) DEF LocksType, LocalType
  <2>4. SharedType'
    BY <1>1, <1>2, TypeParts, ZenonT(30) DEF SharedType
  <2>. QED BY <2>1, <2>2, <2>3, <2>4, TypeParts, ZenonT(30) DEF TypeOK, PcType, GraphsType, LocksType,
          LocalType, SharedType
<1>4. PhaseInv'
  <2>1. \A p \in Participant : pc'[p] \notin InMemory /\ pc'[p] \notin OnDisk
    BY <1>0, ZenonT(30) DEF InMemory, OnDisk
  <2>2. \A p \in Participant : flushLock'[p] = "none"
    BY <1>0, <1>1, ZenonT(30) DEF PhaseInv, InMemory, AtEnd
  <2>3. flushed'
    BY <1>2, ZenonT(30)
  <2>. QED BY <2>1, <2>2, <2>3, ZenonT(30) DEF PhaseInv
<1>5. CountInv'
  <2>1. nparticipantsdone' = Cardinality(Ended') /\ indtuples' + Cardinality(Inserting') = nextTuple' - 1
    BY <1>0, <1>1, ZenonT(30) DEF CountInv
  <2>2. nextTuple = NTuples + 1
    BY <1>0, ZenonT(30) DEF CountInv
  <2>3. flushed'
    BY <1>2, SMTT(30), Z3T(30)
  <2>. QED BY <1>0, <1>1, <2>1, <2>2, <2>3, ZenonT(30) DEF CountInv
<1>6. TupleInv'
  BY <1>0, ZenonT(30) DEF TupleInv
<1>7. LinkInv'
  <2>1. Closed(graph)'
    BY <1>1, Zenon DEF LinkInv, Closed
  <2>2. Closed(disk)'
    <3>1. CASE disk' = disk
      BY <1>1, <3>1, ZenonT(30) DEF LinkInv, Closed
    <3>2. CASE disk' = graph
      BY <1>1, <3>2, ZenonT(30) DEF LinkInv, Closed
    <3>. QED BY <1>2, <3>1, <3>2, ZenonT(30)
  <2>. QED BY <1>0, <2>1, <2>2, ZenonT(30) DEF LinkInv
<1>8. EntryInv'
  <2>1. ASSUME NEW p \in Participant PROVE EntryOf(p)'
    <3>1. /\ pc[p] \notin AtEntry /\ pc'[p] \notin AtEntry /\ pc'[p] # "add"
      BY <1>0, ZenonT(30) DEF AtEntry, AtEnd
    <3>2. entryLock[p] = "none"
      BY <3>1, ZenonT(30) DEF EntryInv, EntryOf
    <3>. QED BY <1>1, <3>1, <3>2, ZenonT(30) DEF EntryOf
  <2>2. \A p, q \in Participant : entryLock'[p] = "exclusive" /\ p # q => entryLock'[q] = "none"
    BY <1>1, Zenon DEF EntryInv
  <2>. QED BY <2>1, <2>2, ZenonT(30) DEF EntryInv
<1>9. RankInv'
  <2>1. \A p \in Participant : \A e : ~Promotes(p, e)
    BY <1>0, ZenonT(30) DEF Promotes, AtEnd
  <2>2. \A e \in graph.elements : graph.entryPoint # NoTuple /\ level[e] <= level[graph.entryPoint]
    BY <2>1, Zenon DEF RankInv
  <2>3. \A d, e \in graph.elements : graph.neighbors[d] = {} /\ graph.neighbors[e] = {} => d = e
    BY Zenon DEF RankInv
  <2>. QED BY <1>1, <2>2, <2>3, ZenonT(30) DEF RankInv
<1>10. PlaceInv'
  <2>1. Index' = Index
    BY <1>1, <1>2, ZenonT(30) DEF Index
  <2>2. \A t \in Tuple : Stored(t)' <=> Stored(t)
    BY <1>0, <1>1, ZenonT(30) DEF Stored
  <2>. QED BY <2>1, <2>2, PlacesSame, ZenonT(30)
<1>. QED BY <1>3, <1>4, <1>5, <1>6, <1>7, <1>8, <1>9, <1>10, ZenonT(30)

LEMMA NothingStep ==
  ASSUME IInv, UNCHANGED vars
  PROVE  IInv'
<1> USE DEF IInv, vars, locks, local
<1>1. TypeOK'
  BY Zenon DEF TypeOK
<1>2. PhaseInv'
  BY Zenon DEF PhaseInv
<1>3. CountInv'
  BY Zenon DEF CountInv, Ended, Inserting
<1>4. TupleInv'
  BY Zenon DEF TupleInv, Inserting
<1>5. LinkInv'
  BY Zenon DEF LinkInv, Closed, LinkOf, Inserting
<1>6. EntryInv'
  BY Zenon DEF EntryInv, EntryOf, Outranks
<1>7. RankInv'
  BY Zenon DEF RankInv, Promotes
<1>8. PlaceInv'
  <2>1. Index' = Index /\ \A t \in Tuple : Stored(t)' <=> Stored(t)
    BY Zenon DEF Index, Stored, Inserting
  <2>. QED BY <2>1, PlacesSame, Zenon
<1>. QED BY <1>1, <1>2, <1>3, <1>4, <1>5, <1>6, <1>7, <1>8, ZenonT(30)

LEMMA NextStep ==
  ASSUME IInv, [Next]_vars
  PROVE  IInv'
<1>1. ASSUME NEW p \in Participant, Step(p) PROVE IInv'
  BY <1>1, TypeStep, PhaseStep, CountStep, TupleStep, LinkStep, EntryStep, RankStep, PlaceStep,
     ZenonT(30) DEF IInv
<1>. QED BY <1>1, EndBuildStep, NothingStep, ZenonT(30) DEF Next

-----------------------------------------------------------------------------
LEMMA InitInv ==
  ASSUME Init
  PROVE  IInv
<1>0. /\ EmptyGraph \in Graph /\ EmptyGraph.elements = {} /\ EmptyGraph.entryPoint = NoTuple
      /\ \A t \in Tuple : EmptyGraph.heaptids[t] = <<>>
  BY SMTT(30), Z3T(30) DEF EmptyGraph, Graph
<1>1. /\ nextTuple = 1 /\ indtuples = 0 /\ nparticipantsdone = 0 /\ flushed = FALSE
      /\ graph = EmptyGraph /\ disk = EmptyGraph
      /\ \A p \in Participant : pc[p] = "scan" /\ flushLock[p] = "none" /\ entryLock[p] = "none"
  BY Zenon DEF Init
<1>2. Ended = {} /\ Inserting = {}
  BY <1>1, Zenon DEF Ended, Inserting, AtEnd
<1>3. TypeOK
  <2>1. PcType
    BY Zenon DEF Init, PcType
  <2>2. GraphsType
    BY <1>0, <1>1, Zenon DEF GraphsType
  <2>3. LocksType
    BY Zenon DEF Init, LocksType, LockMode
  <2>4. LocalType
    BY Zenon DEF Init, LocalType
  <2>5. SharedType
    <3>1. tuple \in [Participant -> Tuple \cup {NoTuple}] /\ level \in [Tuple -> Nat]
      BY Zenon DEF Init
    <3>2. memoryUsed = 0
      BY SMTT(30), Z3T(30) DEF Init
    <3>3. flushed \in BOOLEAN
      BY <1>1, ZenonT(30)
    <3>. QED BY <1>1, <3>1, <3>2, <3>3, SMTT(30), Z3T(30) DEF SharedType
  <2>. QED BY <2>1, <2>2, <2>3, <2>4, <2>5, TypeParts, ZenonT(30)
<1>4. PhaseInv
  BY <1>1, Zenon DEF PhaseInv, InMemory, OnDisk
<1>5. CountInv
  <2>1. Cardinality({}) = 0
    BY FS_EmptySet, Zenon
  <2>. QED BY <1>1, <1>2, <2>1, SMTT(30), Z3T(30) DEF CountInv, AtEnd
<1>6. TupleInv
  BY <1>2, ZenonT(30) DEF TupleInv
<1>7. LinkInv
  BY <1>0, <1>1, <1>2, ZenonT(30) DEF LinkInv, Closed
<1>8. EntryInv
  BY <1>1, ZenonT(30) DEF EntryInv, EntryOf, AtEntry
<1>9. RankInv
  BY <1>0, <1>1, ZenonT(30) DEF RankInv
<1>10. PlaceInv
  <2>1. Index = EmptyGraph
    BY <1>1, ZenonT(30) DEF Index
  <2>2. \A e, i, t : ~At(Index, e, i, t)
    BY <1>0, <2>1, ZenonT(30) DEF At
  <2>3. \A t \in Tuple : ~Stored(t)
    BY <1>1, SMTT(30), Z3T(30) DEF Stored, Tuple
  <2>4. \A e \in Tuple : Len(Index.heaptids[e]) <= HeapTids
    <3>1. Len(<<>>) <= HeapTids
      BY SMTT(30), Z3T(30)
    <3>. QED BY <1>0, <2>1, <3>1, ZenonT(30)
  <2>. QED BY <2>2, <2>3, <2>4, ZenonT(30) DEF PlaceInv, Has, Unique
<1>. QED BY <1>3, <1>4, <1>5, <1>6, <1>7, <1>8, <1>9, <1>10, ZenonT(30) DEF IInv

LEMMA Invariant == Spec => []IInv
<1>1. Init => IInv
  BY InitInv, Zenon
<1>2. IInv /\ [Next]_vars => IInv'
  BY NextStep, Zenon
<1>. QED BY <1>1, <1>2, PTL DEF Spec

-----------------------------------------------------------------------------
(* The theorems *)

\* In every state of a build the shared state holds what its C types say, and what InsertTuple
\* has allocated fits in the shared memory.
THEOREM BuildTypes == Spec => []TypeOK
<1>1. IInv => TypeOK
  BY Zenon DEF IInv
<1>. QED BY <1>1, Invariant, PTL

\* WriteNeighborTuples knows the page of every neighbor it writes, and inserts on disk link to
\* elements on disk only.
THEOREM BuildLinksWritten == Spec => []LinksWritten
<1>1. IInv => LinksWritten
  BY Zenon DEF IInv, LinkInv, Closed, LinksWritten
<1>. QED BY <1>1, Invariant, PTL

\* The entry lock keeps the graph in memory in one piece: at most one element has no neighbors,
\* and nobody but the insert that is about to become the entry point outranks it.
THEOREM BuildOneGraph == Spec => []OneGraphInMemory
<1>1. ASSUME IInv PROVE OneGraphInMemory
  <2> DEFINE S == {e \in graph.elements : graph.neighbors[e] = {}}
  <2>1. \A d, e \in S : d = e
    BY <1>1, Zenon DEF IInv, RankInv
  <2>2. Cardinality(S) <= 1
    <3>1. CASE S = {}
      BY <3>1, FS_EmptySet, SMTT(30), Z3T(30)
    <3>2. CASE S # {}
      <4>1. PICK e \in S : TRUE
        BY <3>2, Zenon
      <4>2. S = {e}
        BY <2>1, <4>1, Zenon
      <4>3. Cardinality(S) = 1
        BY <4>2, FS_Singleton, Zenon
      <4> HIDE DEF S
      <4>. QED BY <4>3, SMTT(30), Z3T(30)
    <3>. QED BY <3>1, <3>2, Zenon
  <2>3. ASSUME \A p \in Participant : entryLock[p] # "exclusive", NEW e \in graph.elements
        PROVE  graph.entryPoint # NoTuple /\ level[e] <= level[graph.entryPoint]
    BY <1>1, <2>3, ZenonT(30) DEF IInv, RankInv, Promotes
  <2>. QED BY <2>2, <2>3, ZenonT(30) DEF OneGraphInMemory
<1>2. IInv => OneGraphInMemory
  BY <1>1, Zenon
<1>. QED BY <1>2, Invariant, PTL

\* At the end of the build every tuple of the heap has one place in the index and indtuples is
\* their number, whatever the number of participants and whenever the memory was used up.
THEOREM BuildTuplesIndexed == Spec => []TuplesIndexed
<1>1. ASSUME IInv PROVE TuplesIndexed
  <2> SUFFICES ASSUME pc[Leader] = "done"
               PROVE  (\A t \in Tuple : Cardinality(Places(t)) = 1) /\ indtuples = NTuples
    BY Zenon DEF TuplesIndexed
  <2>1. flushed /\ nextTuple = NTuples + 1 /\ Inserting = {}
    BY <1>1, ZenonT(30) DEF IInv, CountInv, AtEnd, Inserting
  <2>2. indtuples = NTuples
    <3>1. indtuples + Cardinality({}) = NTuples /\ indtuples \in Nat
      BY <1>1, <2>1, SMTT(30), Z3T(30) DEF IInv, CountInv, TypeOK
    <3>. QED BY <3>1, FS_EmptySet, SMTT(30), Z3T(30)
  <2>3. ASSUME NEW t \in Tuple PROVE Cardinality(Places(t)) = 1
    <3>1. Index = disk
      BY <2>1, ZenonT(30) DEF Index
    <3>2. Stored(t)
      BY <2>1, SMTT(30), Z3T(30) DEF Stored, Tuple
    <3>3. Has(disk, t) /\ Unique(disk) /\ \A e \in Tuple : Len(disk.heaptids[e]) <= HeapTids
      BY <1>1, <3>1, <3>2, ZenonT(30) DEF IInv, PlaceInv
    <3>4. PICK e \in Tuple, i \in Nat : At(disk, e, i, t)
      BY <3>3, Zenon DEF Has
    <3>5. /\ disk.elements \subseteq Tuple
          /\ \A d \in Tuple : Len(disk.heaptids[d]) \in Nat /\ Len(disk.heaptids[d]) <= HeapTids
      <4>1. disk.elements \subseteq Tuple /\ \A d \in Tuple : disk.heaptids[d] \in Seq(Tuple)
        BY <1>1, ZenonT(30) DEF IInv, TypeOK, Graph
      <4>2. \A d \in Tuple : Len(disk.heaptids[d]) \in Nat
        BY <4>1, SMTT(30), Z3T(30)
      <4>. QED BY <3>3, <4>1, <4>2, ZenonT(30)
    <3>6. <<e, i>> \in Places(t)
      BY <3>4, <3>5, SMTT(30), Z3T(30) DEF At, Places
    <3>7. ASSUME NEW x \in Places(t) PROVE x = <<e, i>>
      <4>1. /\ x \in disk.elements \X (1 .. HeapTids)
            /\ x[2] <= Len(disk.heaptids[x[1]]) /\ disk.heaptids[x[1]][x[2]] = t
        BY Zenon DEF Places
      <4>2. x[1] \in Tuple /\ x[2] \in Nat /\ At(disk, x[1], x[2], t) /\ x = <<x[1], x[2]>>
        BY <3>5, <4>1, SMTT(30), Z3T(30) DEF At
      <4>. QED BY <3>3, <3>4, <4>2, SMTT(30), Z3T(30) DEF Unique
    <3>8. Places(t) = {<<e, i>>}
      BY <3>6, <3>7, Zenon
    <3>. QED BY <3>8, FS_Singleton, ZenonT(30)
  <2>. QED BY <2>2, <2>3, Zenon
<1>2. IInv => TuplesIndexed
  BY <1>1, SMTT(30), Z3T(30)
<1>. QED BY <1>2, Invariant, PTL

LEMMA FrozenStep ==
  ASSUME IInv, flushed, [Next]_vars
  PROVE  /\ flushed' /\ UNCHANGED graph
         /\ \A t \in Tuple : Len(disk.heaptids[t]) <= Len(disk.heaptids'[t])
<1>0. /\ disk \in Graph
      /\ \A p \in Participant : found[p] \in SUBSET Tuple /\ todo[p] \in SUBSET Tuple
      /\ \A p \in Participant : pc[p] \notin InMemory
      /\ \A t \in Tuple : Len(disk.heaptids[t]) \in Nat
  <2>1. \A t \in Tuple : disk.heaptids[t] \in Seq(Tuple)
    BY SMTT(30), Z3T(30) DEF IInv, TypeOK, Graph
  <2>2. \A p \in Participant : pc[p] \notin InMemory
    BY ZenonT(30) DEF IInv, PhaseInv
  <2>3. /\ disk \in Graph
        /\ \A p \in Participant : found[p] \in SUBSET Tuple /\ todo[p] \in SUBSET Tuple
    BY ZenonT(30) DEF IInv, TypeOK
  <2>4. \A t \in Tuple : Len(disk.heaptids[t]) \in Nat
    BY <2>1, SMTT(30), Z3T(30)
  <2>. QED BY <2>2, <2>3, <2>4, ZenonT(30)
<1>1. ASSUME UNCHANGED <<graph, flushed>>, disk'.heaptids = disk.heaptids
      PROVE  /\ flushed' /\ UNCHANGED graph
             /\ \A t \in Tuple : Len(disk.heaptids[t]) <= Len(disk.heaptids'[t])
  <2>1. flushed' /\ UNCHANGED graph
    BY <1>1, ZenonT(30)
  <2>2. \A t \in Tuple : Len(disk.heaptids[t]) <= Len(disk.heaptids'[t])
    BY <1>0, <1>1, SMTT(30), Z3T(30)
  <2>. QED BY <2>1, <2>2, ZenonT(30)
<1>2. ASSUME NEW p \in Participant, Step(p)
      PROVE  /\ flushed' /\ UNCHANGED graph
             /\ \A t \in Tuple : Len(disk.heaptids[t]) <= Len(disk.heaptids'[t])
  <2>1. ASSUME AddOnDisk(p)
        PROVE  /\ flushed' /\ UNCHANGED graph
               /\ \A t \in Tuple : Len(disk.heaptids[t]) <= Len(disk.heaptids'[t])
    <3>1. /\ pc[p] = "diskAdd" /\ flushed' = flushed /\ graph' = graph
          /\ \/ \E d \in found[p] : disk' = WithDuplicate(disk, d, tuple[p])
             \/ disk' = WithElement(disk, tuple[p], found[p])
      BY <2>1, Zenon DEF AddOnDisk, Duplicates
    <3>2. tuple[p] \in Tuple /\ tuple[p] \notin disk.elements
      BY <3>1, ZenonT(30) DEF IInv, TupleInv, Inserting, LinkInv, LinkOf
    <3>3. disk.heaptids[tuple[p]] = <<>>
      BY <3>2, Zenon DEF IInv, LinkInv, Closed
    <3>4. ASSUME NEW t \in Tuple PROVE Len(disk.heaptids[t]) <= Len(disk.heaptids'[t])
      <4>1. ASSUME NEW d \in found[p], disk' = WithDuplicate(disk, d, tuple[p])
            PROVE  Len(disk.heaptids[t]) <= Len(disk.heaptids'[t])
        <5>1. d \in Tuple /\ tuple[p] \in Tuple /\ disk \in Graph
          BY <1>0, <3>2, Zenon
        <5>2. /\ disk'.heaptids[d] = Append(disk.heaptids[d], tuple[p])
              /\ \A e \in Tuple \ {d} : disk'.heaptids[e] = disk.heaptids[e]
          <6> DEFINE h == WithDuplicate(disk, d, tuple[p])
          <6>1. h.heaptids[d] = Append(disk.heaptids[d], tuple[p])
            BY <5>1, DuplicateEffect, ZenonT(30)
          <6>3. \A e \in Tuple \ {d} : h.heaptids[e] = disk.heaptids[e]
            BY <5>1, DuplicateEffect, ZenonT(30)
          <6>2. disk' = h
            BY <4>1, Zenon
          <6> HIDE DEF h
          <6>. QED BY <6>1, <6>2, <6>3, ZenonT(30)
        <5>3. disk.heaptids[d] \in Seq(Tuple)
          BY <1>0, <5>1, Zenon DEF Graph
        <5>4. Len(disk'.heaptids[d]) = Len(disk.heaptids[d]) + 1
          BY <3>2, <5>2, <5>3, SMTT(30), Z3T(30)
        <5>. QED BY <1>0, <5>1, <5>2, <5>4, SMTT(30), Z3T(30)
      <4>2. ASSUME disk' = WithElement(disk, tuple[p], found[p])
            PROVE  Len(disk.heaptids[t]) <= Len(disk.heaptids'[t])
        <5>0. found[p] \in SUBSET Tuple /\ tuple[p] \in Tuple /\ disk \in Graph
          BY <1>0, <3>2, Zenon
        <5>1. /\ disk'.heaptids[tuple[p]] = <<tuple[p]>>
              /\ \A e \in Tuple \ {tuple[p]} : disk'.heaptids[e] = disk.heaptids[e]
          BY <4>2, <5>0, ElementEffect, SMTT(30), Z3T(30)
        <5>2. Len(disk.heaptids[tuple[p]]) <= Len(disk'.heaptids[tuple[p]])
          <6>1. disk.heaptids[tuple[p]] = <<>> /\ disk'.heaptids[tuple[p]] = <<tuple[p]>>
            BY <3>3, <5>1, Zenon
          <6>2. Len(<<>>) = 0 /\ Len(<<tuple[p]>>) = 1
            BY SMTT(30), Z3T(30)
          <6>3. Len(disk.heaptids[tuple[p]]) = 0 /\ Len(disk'.heaptids[tuple[p]]) = 1
            BY <6>1, <6>2, ZenonT(30)
          <6>. QED BY <6>3, SMTT(30), Z3T(30)
        <5>3. CASE t = tuple[p]
          BY <5>2, <5>3, ZenonT(30)
        <5>4. CASE t # tuple[p]
          <6>1. disk'.heaptids[t] = disk.heaptids[t] /\ Len(disk.heaptids[t]) \in Nat
            BY <1>0, <5>1, <5>4, ZenonT(30)
          <6>. QED BY <6>1, SMTT(30), Z3T(30)
        <5>. QED BY <5>3, <5>4, Zenon
      <4>. QED BY <3>1, <4>1, <4>2, ZenonT(30)
    <3>5. flushed'
      BY <3>1, ZenonT(30)
    <3>. QED BY <3>1, <3>4, <3>5, Zenon
  <2>2. CASE UpdateNeighborOnDisk(p)
    <3>1. /\ pc[p] = "diskLink" /\ UNCHANGED <<graph, flushed>>
          /\ \E n \in todo[p] : disk' \in WithConnection(disk, n, tuple[p])
      BY <2>2, ZenonT(30) DEF UpdateNeighborOnDisk
    <3>2. tuple[p] \in Tuple
      BY <3>1, ZenonT(30) DEF IInv, TupleInv, Inserting
    <3>3. PICK n \in todo[p] : disk' \in WithConnection(disk, n, tuple[p])
      BY <3>1, ZenonT(30)
    <3>4. n \in Tuple
      BY <1>0, ZenonT(30)
    <3>5. disk'.heaptids = disk.heaptids
      BY <1>0, <3>2, <3>3, <3>4, ConnectionEffect, SMTT(30), Z3T(30)
    <3>. QED BY <1>1, <3>1, <3>5, ZenonT(30)
  <2>3. CASE UpdateEntryOnDisk(p)
    <3>1. /\ UNCHANGED <<graph, flushed>>
          /\ disk' = [disk EXCEPT !.entryPoint = tuple[p]] \/ disk' = disk
      BY <2>3, ZenonT(30) DEF UpdateEntryOnDisk
    <3>2. CASE disk' = [disk EXCEPT !.entryPoint = tuple[p]]
      <4>1. disk'.heaptids = disk.heaptids
        BY <1>0, <3>2, Zenon DEF Graph
      <4>. QED BY <1>1, <3>1, <4>1, Zenon
    <3>3. CASE disk' = disk
      BY <1>1, <3>1, <3>3, Zenon
    <3>. QED BY <3>1, <3>2, <3>3, Zenon
  <2>4. CASE AddInMemory(p) \/ UpdateNeighborInMemory(p) \/ UpdateEntryInMemory(p)
    <3>1. pc[p] \in InMemory
      BY <2>4, ZenonT(30) DEF AddInMemory, UpdateNeighborInMemory, UpdateEntryInMemory, InMemory
    <3>. QED BY <1>0, <3>1, Zenon
  <2>5. CASE \/ NextTupleOfScan(p) \/ BuildCallback(p) \/ AllocateElement(p) \/ Flush(p)
             \/ PassGate(p) \/ ReadEntryPoint(p) \/ AnnounceExclusive(p) \/ LockEntry(p)
             \/ FindNeighbors(p) \/ LockUpdateShared(p) \/ LockUpdateExclusive(p)
             \/ FindNeighborsOnDisk(p)
    <3>1. UNCHANGED <<graph, flushed, disk>>
      BY <2>5, ZenonT(30) DEF NextTupleOfScan, BuildCallback, AllocateElement, Flush, PassGate,
         ReadEntryPoint, AnnounceExclusive, LockEntry, FindNeighbors, LockUpdateShared,
         LockUpdateExclusive, FindNeighborsOnDisk
    <3>. QED BY <1>1, <3>1, Zenon
  <2>. QED BY <1>2, <2>1, <2>2, <2>3, <2>4, <2>5, ZenonT(30) DEF Step
<1>3. CASE EndBuild
  <2>1. UNCHANGED <<graph, flushed, disk>>
    BY <1>3, ZenonT(30) DEF EndBuild
  <2>. QED BY <1>1, <2>1, Zenon
<1>4. CASE UNCHANGED vars
  <2>1. UNCHANGED <<graph, flushed, disk>>
    BY <1>4, Zenon DEF vars
  <2>. QED BY <1>1, <2>1, SMTT(30), Z3T(30)
<1>. QED BY <1>2, <1>3, <1>4, ZenonT(30) DEF Next

\* The flush lock splits the build in two: after FlushPages nobody changes the graph in memory
\* any more, it is not flushed again, and no heap TID leaves the pages.
THEOREM BuildMemoryFrozen == Spec => MemoryFrozen
<1>1. IInv /\ [Next]_vars
        => [flushed => /\ flushed' /\ UNCHANGED graph
                       /\ \A t \in Tuple : Len(disk.heaptids[t]) <= Len(disk.heaptids'[t])]_vars
  BY FrozenStep, SMTT(30), Z3T(30)
<1>. QED BY <1>1, Invariant, PTL DEF Spec, MemoryFrozen

=============================================================================
