------------------------------ MODULE HnswBuild ------------------------------
(***************************************************************************)
(* A parallel index build: the participants of a lock group take tuples    *)
(* from a shared heap scan and insert them, first into a graph in shared   *)
(* memory (InsertTupleInMemory), and, once a participant has found the     *)
(* memory used up and flushed the graph, on disk (HnswInsertTupleOnDisk).  *)
(*                                                                         *)
(* A graph is a record of its elements, their ground-level neighbors,      *)
(* their heap TIDs and the entry point; an element has the name of the     *)
(* tuple it was made for.  An LWLock that is taken and released without a  *)
(* step of another kind in between (allocatorLock, the locks of elements,  *)
(* the spinlocks) makes its critical section one step.                     *)
(***************************************************************************)
EXTENDS Integers, FiniteSets, Sequences

CONSTANTS
  Participant, Leader,  \* the processes of the build, one of which is the leader
  NTuples,              \* the heap has the tuples 1 .. NTuples
  Value,                \* the vector of a tuple
  Levels,               \* the levels an element may get
  NoTuple,              \* no element
  M,                    \* the neighbors of an element at the ground level
  HeapTids,             \* HNSW_HEAPTIDS
  MaxCost,              \* bound: the memory an element may need
  MemoryMargin,         \* 1 MB
  MemoryTotal           \* the shared memory for the graph

Tuple == 1 .. NTuples

ASSUME BuildAssumption ==
  /\ IsFiniteSet(Participant) /\ Leader \in Participant /\ NTuples \in Nat
  /\ NoTuple \notin Tuple
  /\ Levels \subseteq Nat /\ M \in Nat \ {0} /\ HeapTids \in Nat \ {0}
  /\ MaxCost \in Nat \ {0} /\ MemoryTotal \in Nat
  /\ MemoryMargin \in Nat /\ MemoryMargin >= MaxCost

VARIABLES
  pc,
  nextTuple,        \* the shared heap scan
  tuple,            \* the tuple a participant inserts
  level,            \* of an element that was allocated
  graph,            \* the graph in memory
  disk,             \* the graph on disk
  flushed, memoryUsed, indtuples, nparticipantsdone,
  flushLock, entryLock, \* LWLocks: the mode each participant holds
  entryWaitLock,        \* LWLock: the participants that hold it
  updateLock,           \* the page lock HNSW_UPDATE_LOCK
  entry,            \* the entry point a participant has read
  found,            \* the neighbors it has found
  todo              \* the neighbors it has yet to update

locks == <<flushLock, entryLock, entryWaitLock, updateLock>>
local == <<entry, found, todo>>
vars == <<pc, nextTuple, tuple, level, graph, disk, flushed, memoryUsed, indtuples,
          nparticipantsdone, locks, local>>

EmptyGraph == [elements |-> {}, neighbors |-> [t \in Tuple |-> {}],
               heaptids |-> [t \in Tuple |-> <<>>], entryPoint |-> NoTuple]

\* InitGraph, HnswBeginParallel
Init ==
  /\ pc = [p \in Participant |-> "scan"]
  /\ nextTuple = 1 /\ tuple = [p \in Participant |-> NoTuple]
  /\ level = [t \in Tuple |-> 0]
  /\ graph = EmptyGraph /\ disk = EmptyGraph
  /\ flushed = FALSE /\ memoryUsed = 0 /\ indtuples = 0 /\ nparticipantsdone = 0
  /\ flushLock = [p \in Participant |-> "none"]
  /\ entryLock = [p \in Participant |-> "none"]
  /\ updateLock = [p \in Participant |-> "none"]
  /\ entryWaitLock = {}
  /\ entry = [p \in Participant |-> NoTuple]
  /\ found = [p \in Participant |-> {}] /\ todo = [p \in Participant |-> {}]

Go(p, where) == pc' = [pc EXCEPT ![p] = where]

-----------------------------------------------------------------------------
\* External: LWLockAcquire
Grants(lock, p, mode) ==
  \A q \in Participant \ {p} :
    IF mode = "exclusive" THEN lock[q] = "none" ELSE lock[q] # "exclusive"
Held(lock, p, mode) == [lock EXCEPT ![p] = mode]

\* LockCheckConflicts: locks of members of the own lock group do not conflict, except for
\* relation extension
LockGroup(p) == Leader
PageLockGrants(p, mode) ==
  \A q \in Participant \ {p} :
    \/ LockGroup(q) = LockGroup(p)
    \/ IF mode = "exclusive" THEN updateLock[q] = "none" ELSE updateLock[q] # "exclusive"

-----------------------------------------------------------------------------
\* The elements a search may come across: the entry point and what lists name
Known(g) == {g.entryPoint} \cup UNION {g.neighbors[e] : e \in g.elements}

\* HnswFindElementNeighbors: it always finds some, the entry point if no other, unless there
\* is no entry point
Neighbors(g, t, ep) ==
  IF ep = NoTuple THEN {{}}
  ELSE {N \in SUBSET (Known(g) \ {t, NoTuple}) : N # {} /\ Cardinality(N) <= M}

\* FindDuplicate: the equal elements among the neighbors that have room for a heap TID
Duplicates(g, t, N) ==
  {d \in N : Value[d] = Value[t] /\ Len(g.heaptids[d]) < HeapTids}

WithDuplicate(g, d, t) == [g EXCEPT !.heaptids[d] = Append(@, t)]
WithElement(g, t, N) ==
  [g EXCEPT !.elements = @ \cup {t}, !.neighbors[t] = N, !.heaptids[t] = <<t>>]

\* HnswUpdateConnection: the new element is added or takes the place of a neighbor, or is
\* itself pruned
WithConnection(g, n, t) ==
  IF Cardinality(g.neighbors[n]) < M
  THEN {[g EXCEPT !.neighbors[n] = @ \cup {t}]}
  ELSE {[g EXCEPT !.neighbors[n] = (@ \cup {t}) \ {x}] : x \in g.neighbors[n] \cup {t}}

\* "likely updating entry point"
Outranks(t, ep) == ep = NoTuple \/ level[t] > level[ep]

-----------------------------------------------------------------------------
\* External: table_index_build_scan hands out the next tuple, or the participant is done:
\* HnswParallelScanAndInsert
NextTupleOfScan(p) ==
  /\ pc[p] = "scan"
  /\ \/ /\ nextTuple <= NTuples
        /\ tuple' = [tuple EXCEPT ![p] = nextTuple] /\ nextTuple' = nextTuple + 1
        /\ Go(p, "insert")
        /\ UNCHANGED nparticipantsdone
     \/ /\ nextTuple > NTuples
        /\ nparticipantsdone' = nparticipantsdone + 1
        /\ Go(p, IF p = Leader THEN "wait" ELSE "done")
        /\ UNCHANGED <<tuple, nextTuple>>
  /\ UNCHANGED <<level, graph, disk, flushed, memoryUsed, indtuples, locks, local>>

\* BuildCallback, InsertTuple: the flush lock is taken and the phase looked at
BuildCallback(p) ==
  /\ pc[p] = "insert" /\ Grants(flushLock, p, "shared")
  /\ \/ flushed /\ Go(p, "disk") /\ UNCHANGED flushLock
     \/ ~flushed /\ Go(p, "alloc") /\ flushLock' = Held(flushLock, p, "shared")
  /\ UNCHANGED <<nextTuple, tuple, level, graph, disk, flushed, memoryUsed, indtuples,
                 nparticipantsdone, entryLock, entryWaitLock, updateLock, local>>

\* Mutant: there is no margin
MemoryFullNoMargin == memoryUsed >= MemoryTotal

MemoryFull == memoryUsed + MemoryMargin >= MemoryTotal

\* Mutant: the flush is left to another participant
WhenFullRetry == "insert"

\* Where an insert that finds the memory used up goes on
WhenFull == "flush"

\* InsertTuple under the allocator lock: HnswInitElement, or the memory is used up
AllocateElement(p) ==
  /\ pc[p] = "alloc"
  /\ \/ /\ MemoryFull
        /\ flushLock' = Held(flushLock, p, "none")
        /\ Go(p, WhenFull)
        /\ UNCHANGED <<level, memoryUsed>>
     \/ /\ ~MemoryFull
        /\ \E cost \in 1 .. MaxCost, l \in Levels :
             /\ memoryUsed' = memoryUsed + cost
             /\ level' = [level EXCEPT ![tuple[p]] = l]
        /\ Go(p, "gate")
        /\ UNCHANGED flushLock
  /\ UNCHANGED <<nextTuple, tuple, graph, disk, flushed, indtuples, nparticipantsdone,
                 entryLock, entryWaitLock, updateLock, local>>

\* FlushPages: CreateMetaPage, CreateGraphPages, WriteNeighborTuples
FlushPages == disk' = graph /\ flushed' = TRUE

\* Mutant: inserts in flight are not waited for
FlushUnlocked(p) ==
  /\ pc[p] = "flush"
  /\ IF flushed THEN UNCHANGED <<disk, flushed>> ELSE FlushPages
  /\ Go(p, "disk")
  /\ UNCHANGED <<nextTuple, tuple, level, graph, memoryUsed, indtuples, nparticipantsdone,
                 locks, local>>

\* InsertTuple under the exclusive flush lock, which is released at the end
Flush(p) ==
  /\ pc[p] = "flush" /\ Grants(flushLock, p, "exclusive")
  /\ IF flushed THEN UNCHANGED <<disk, flushed>> ELSE FlushPages
  /\ Go(p, "disk")
  /\ UNCHANGED <<nextTuple, tuple, level, graph, memoryUsed, indtuples, nparticipantsdone,
                 locks, local>>

-----------------------------------------------------------------------------
\* InsertTupleInMemory: "Wait if another process needs exclusive lock on entry lock"
PassGate(p) ==
  /\ pc[p] = "gate" /\ entryWaitLock = {}
  /\ Go(p, "entry")
  /\ UNCHANGED <<nextTuple, tuple, level, graph, disk, flushed, memoryUsed, indtuples,
                 nparticipantsdone, locks, local>>

\* The entry point is read under the shared entry lock, which is given up if the insert is
\* likely to change it
ReadEntryPoint(p) ==
  /\ pc[p] = "entry" /\ Grants(entryLock, p, "shared")
  /\ entry' = [entry EXCEPT ![p] = graph.entryPoint]
  /\ IF Outranks(tuple[p], graph.entryPoint)
     THEN Go(p, "announce") /\ UNCHANGED entryLock
     ELSE Go(p, "find") /\ entryLock' = Held(entryLock, p, "shared")
  /\ UNCHANGED <<nextTuple, tuple, level, graph, disk, flushed, memoryUsed, indtuples,
                 nparticipantsdone, flushLock, entryWaitLock, updateLock, found, todo>>

\* "Tell other processes to wait"
AnnounceExclusive(p) ==
  /\ pc[p] = "announce" /\ entryWaitLock = {}
  /\ entryWaitLock' = {p}
  /\ Go(p, "exclusive")
  /\ UNCHANGED <<nextTuple, tuple, level, graph, disk, flushed, memoryUsed, indtuples,
                 nparticipantsdone, flushLock, entryLock, updateLock, local>>

\* Mutant: the entry point read before is used
LockEntryStale(p) ==
  /\ pc[p] = "exclusive" /\ Grants(entryLock, p, "exclusive")
  /\ entryLock' = Held(entryLock, p, "exclusive") /\ entryWaitLock' = {}
  /\ Go(p, "find")
  /\ UNCHANGED <<nextTuple, tuple, level, graph, disk, flushed, memoryUsed, indtuples,
                 nparticipantsdone, flushLock, updateLock, local>>

\* The exclusive entry lock is taken and the latest entry point read
LockEntry(p) ==
  /\ pc[p] = "exclusive" /\ Grants(entryLock, p, "exclusive")
  /\ entryLock' = Held(entryLock, p, "exclusive") /\ entryWaitLock' = {}
  /\ entry' = [entry EXCEPT ![p] = graph.entryPoint]
  /\ Go(p, "find")
  /\ UNCHANGED <<nextTuple, tuple, level, graph, disk, flushed, memoryUsed, indtuples,
                 nparticipantsdone, flushLock, updateLock, found, todo>>

\* HnswFindElementNeighbors in memory
FindNeighbors(p) ==
  /\ pc[p] = "find"
  /\ \E N \in Neighbors(graph, tuple[p], entry[p]) : found' = [found EXCEPT ![p] = N]
  /\ Go(p, "add")
  /\ UNCHANGED <<nextTuple, tuple, level, graph, disk, flushed, memoryUsed, indtuples,
                 nparticipantsdone, locks, entry, todo>>

\* The end of InsertTuple: the locks are released, and BuildCallback counts the tuple
Finished(p) ==
  /\ entryLock' = Held(entryLock, p, "none") /\ flushLock' = Held(flushLock, p, "none")
  /\ updateLock' = Held(updateLock, p, "none")
  /\ indtuples' = indtuples + 1
  /\ Go(p, "scan")
  /\ UNCHANGED entryWaitLock

\* Mutant: the element is linked from its neighbors but not added to the list of elements
AddElementUnlisted(g, t, N) == [g EXCEPT !.neighbors[t] = N, !.heaptids[t] = <<t>>]

\* AddElementInMemory
AddElementInMemory(g, t, N) == WithElement(g, t, N)

\* UpdateGraphInMemory: FindDuplicateInMemory, or AddElementInMemory
AddInMemory(p) ==
  /\ pc[p] = "add"
  /\ LET dups == Duplicates(graph, tuple[p], found[p])
     IN  \/ /\ dups # {}
            /\ \E d \in dups : graph' = WithDuplicate(graph, d, tuple[p])
            /\ Finished(p)
            /\ UNCHANGED todo
         \/ /\ dups = {}
            /\ graph' = AddElementInMemory(graph, tuple[p], found[p])
            /\ todo' = [todo EXCEPT ![p] = found[p]]
            /\ Go(p, "link")
            /\ UNCHANGED <<locks, indtuples>>
  /\ UNCHANGED <<nextTuple, tuple, level, disk, flushed, memoryUsed, nparticipantsdone, entry,
                 found>>

\* UpdateNeighborsInMemory: one neighbor, under its lock
UpdateNeighborInMemory(p) ==
  /\ pc[p] = "link"
  /\ \E n \in todo[p] :
       /\ graph' \in WithConnection(graph, n, tuple[p])
       /\ todo' = [todo EXCEPT ![p] = @ \ {n}]
  /\ UNCHANGED <<pc, nextTuple, tuple, level, disk, flushed, memoryUsed, indtuples,
                 nparticipantsdone, locks, entry, found>>

\* UpdateGraphInMemory: "Update entry point if needed (already have lock)"
UpdateEntryInMemory(p) ==
  /\ pc[p] = "link" /\ todo[p] = {}
  /\ graph' = IF Outranks(tuple[p], entry[p]) THEN [graph EXCEPT !.entryPoint = tuple[p]]
                                              ELSE graph
  /\ Finished(p)
  /\ UNCHANGED <<nextTuple, tuple, level, disk, flushed, memoryUsed, nparticipantsdone, local>>

-----------------------------------------------------------------------------
\* HnswInsertTupleOnDisk: the shared page lock, the entry point and the level
LockUpdateShared(p) ==
  /\ pc[p] = "disk" /\ PageLockGrants(p, "shared")
  /\ entry' = [entry EXCEPT ![p] = disk.entryPoint]
  /\ \E l \in Levels :
       /\ level' = [level EXCEPT ![tuple[p]] = l]
       /\ IF disk.entryPoint = NoTuple \/ l > level[disk.entryPoint]
          THEN Go(p, "diskExclusive") /\ UNCHANGED updateLock
          ELSE Go(p, "diskFind") /\ updateLock' = Held(updateLock, p, "shared")
  /\ UNCHANGED <<nextTuple, tuple, graph, disk, flushed, memoryUsed, indtuples,
                 nparticipantsdone, flushLock, entryLock, entryWaitLock, found, todo>>

\* "Prevent concurrent inserts when likely updating entry point"
LockUpdateExclusive(p) ==
  /\ pc[p] = "diskExclusive" /\ PageLockGrants(p, "exclusive")
  /\ updateLock' = Held(updateLock, p, "exclusive")
  /\ entry' = [entry EXCEPT ![p] = disk.entryPoint]
  /\ Go(p, "diskFind")
  /\ UNCHANGED <<nextTuple, tuple, level, graph, disk, flushed, memoryUsed, indtuples,
                 nparticipantsdone, flushLock, entryLock, entryWaitLock, found, todo>>

\* HnswFindElementNeighbors on disk
FindNeighborsOnDisk(p) ==
  /\ pc[p] = "diskFind"
  /\ \E N \in Neighbors(disk, tuple[p], entry[p]) : found' = [found EXCEPT ![p] = N]
  /\ Go(p, "diskAdd")
  /\ UNCHANGED <<nextTuple, tuple, level, graph, disk, flushed, memoryUsed, indtuples,
                 nparticipantsdone, locks, entry, todo>>

\* UpdateGraphOnDisk: FindDuplicateOnDisk, or AddElementOnDisk
AddOnDisk(p) ==
  /\ pc[p] = "diskAdd"
  /\ LET dups == Duplicates(disk, tuple[p], found[p])
     IN  \/ /\ dups # {}
            /\ \E d \in dups : disk' = WithDuplicate(disk, d, tuple[p])
            /\ Finished(p)
            /\ UNCHANGED todo
         \/ /\ dups = {}
            /\ disk' = WithElement(disk, tuple[p], found[p])
            /\ todo' = [todo EXCEPT ![p] = found[p]]
            /\ Go(p, "diskLink")
            /\ UNCHANGED <<locks, indtuples>>
  /\ UNCHANGED <<nextTuple, tuple, level, graph, flushed, memoryUsed, nparticipantsdone, entry,
                 found>>

\* HnswUpdateNeighborsOnDisk: one neighbor
UpdateNeighborOnDisk(p) ==
  /\ pc[p] = "diskLink"
  /\ \E n \in todo[p] :
       /\ disk' \in WithConnection(disk, n, tuple[p])
       /\ todo' = [todo EXCEPT ![p] = @ \ {n}]
  /\ UNCHANGED <<pc, nextTuple, tuple, level, graph, flushed, memoryUsed, indtuples,
                 nparticipantsdone, locks, entry, found>>

\* UpdateGraphOnDisk: the entry point becomes the element if that is greater than the one of
\* the metapage
UpdateEntryOnDisk(p) ==
  /\ pc[p] = "diskLink" /\ todo[p] = {}
  /\ disk' = IF Outranks(tuple[p], entry[p]) /\ Outranks(tuple[p], disk.entryPoint)
             THEN [disk EXCEPT !.entryPoint = tuple[p]]
             ELSE disk
  /\ Finished(p)
  /\ UNCHANGED <<nextTuple, tuple, level, graph, flushed, memoryUsed, nparticipantsdone, local>>

-----------------------------------------------------------------------------
\* Mutant: one participant is not waited for
AllButOneDone == nparticipantsdone >= Cardinality(Participant) - 1

AllDone == nparticipantsdone = Cardinality(Participant)

\* ParallelHeapScan and the rest of BuildGraph
EndBuild ==
  /\ pc[Leader] = "wait" /\ AllDone
  /\ IF flushed THEN UNCHANGED <<disk, flushed>> ELSE FlushPages
  /\ Go(Leader, "done")
  /\ UNCHANGED <<nextTuple, tuple, level, graph, memoryUsed, indtuples, nparticipantsdone,
                 locks, local>>

Step(p) ==
  \/ NextTupleOfScan(p) \/ BuildCallback(p) \/ AllocateElement(p) \/ Flush(p)
  \/ PassGate(p) \/ ReadEntryPoint(p) \/ AnnounceExclusive(p) \/ LockEntry(p)
  \/ FindNeighbors(p) \/ AddInMemory(p) \/ UpdateNeighborInMemory(p)
  \/ UpdateEntryInMemory(p)
  \/ LockUpdateShared(p) \/ LockUpdateExclusive(p) \/ FindNeighborsOnDisk(p)
  \/ AddOnDisk(p) \/ UpdateNeighborOnDisk(p) \/ UpdateEntryOnDisk(p)

Done == \A p \in Participant : pc[p] = "done"

Next ==
  \/ \E p \in Participant : Step(p)
  \/ EndBuild
  \/ Done /\ UNCHANGED vars

Spec == Init /\ [][Next]_vars

\* The scheduler runs every process, and a lock that stays free is granted
FairSpec == Spec /\ (\A p \in Participant : WF_vars(Step(p))) /\ WF_vars(EndBuild)

-----------------------------------------------------------------------------
Graph == [elements : SUBSET Tuple, neighbors : [Tuple -> SUBSET Tuple],
          heaptids : [Tuple -> Seq(Tuple)], entryPoint : Tuple \cup {NoTuple}]
LockMode == {"none", "shared", "exclusive"}

\* The shared state of a build holds what its C types say, and memoryUsed stays within the
\* shared memory: HnswSharedMemoryAlloc never fails ("add a margin so allocations never fail").
TypeOK ==
  /\ pc \in [Participant -> {"scan", "insert", "alloc", "flush", "gate", "entry", "announce",
                             "exclusive", "find", "add", "link", "disk", "diskExclusive",
                             "diskFind", "diskAdd", "diskLink", "wait", "done"}]
  /\ nextTuple \in 1 .. NTuples + 1
  /\ tuple \in [Participant -> Tuple \cup {NoTuple}] /\ level \in [Tuple -> Nat]
  /\ graph \in Graph /\ disk \in Graph
  /\ flushed \in BOOLEAN /\ memoryUsed \in 0 .. MemoryTotal
  /\ indtuples \in Nat /\ nparticipantsdone \in Nat
  /\ {flushLock, entryLock, updateLock} \subseteq [Participant -> LockMode]
  /\ entryWaitLock \subseteq Participant
  /\ entry \in [Participant -> Tuple \cup {NoTuple}]
  /\ {found, todo} \subseteq [Participant -> SUBSET Tuple]

\* The places of tuple t among the heap TIDs of the index
Places(t) ==
  {x \in disk.elements \X (1 .. HeapTids) :
     x[2] <= Len(disk.heaptids[x[1]]) /\ disk.heaptids[x[1]][x[2]] = t}

\* At the end of the build every tuple of the heap is in the index once, whichever phase it
\* was inserted in and whoever flushed the graph, and indtuples is their number.
TuplesIndexed ==
  pc[Leader] = "done" =>
    (\A t \in Tuple : Cardinality(Places(t)) = 1) /\ indtuples = NTuples

\* Every link on disk leads to an element on disk: when the graph is flushed no insert is
\* between adding links and adding its element, so WriteNeighborTuples knows every page.
LinksWritten ==
  \A e \in disk.elements : disk.neighbors[e] \subseteq disk.elements

\* Once the graph is flushed it is no longer changed in memory, where nobody would write it
\* again, and it is not written a second time, over what was inserted on disk since ("Ensure
\* graph not flushed when inserting").
MemoryFrozen ==
  [][flushed => /\ flushed' /\ UNCHANGED graph
                /\ \A t \in Tuple : Len(disk.heaptids[t]) <= Len(disk.heaptids'[t])]_vars

\* In memory there is one graph: no two elements are without neighbors, since inserts into an
\* empty graph exclude each other, and the entry point is an element of the highest level,
\* except while the insert that changes it holds the entry lock.
OneGraphInMemory ==
  /\ Cardinality({e \in graph.elements : graph.neighbors[e] = {}}) <= 1
  /\ (\A p \in Participant : entryLock[p] # "exclusive") =>
       \A e \in graph.elements :
         graph.entryPoint # NoTuple /\ level[e] <= level[graph.entryPoint]

\* The build ends: nobody waits for ever for a lock or for a participant.
BuildCompletes == <>Done

\* hnswinsert.c: "Prevent concurrent inserts when likely updating entry point".  On disk, too,
\* no two elements are without neighbors.
OneUnlinkedOnDisk ==
  Cardinality({e \in disk.elements : disk.neighbors[e] = {}}) <= 1

=============================================================================
