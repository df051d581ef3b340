-------------------------- MODULE HnswIndexLemmas --------------------------
(***************************************************************************)
(* Type correctness of HnswIndex, one group of variables at a time: which  *)
(* actions write the group (the Writers lemmas), and that each of them     *)
(* leaves it well typed.  LocalInv is what the program points say of the   *)
(* local variables; the types of the disk rest on it.  A step of one       *)
(* backend leaves the local state of the others alone (Others), so that    *)
(* LocalInv is preserved if the backend that moves preserves its own part  *)
(* of it.  With the types: TypeCorrect.                                    *)
(*                                                                         *)
(* Then the inductive invariant IInv of the index and the lemmas about the *)
(* vacuum it needs: mutual exclusion of the page locks (LockStep), what    *)
(* RemoveHeapTids collects (PointStep), and that after the first barrier   *)
(* of RepairGraph only elements that stay are selected and linked          *)
(* (CleanStep).  HnswIndexProofs has the rest of the argument.             *)
(***************************************************************************)
EXTENDS HnswIndex, TLAPS

(* The control state fixes what the local variables hold. *)
InsertLocal(p) ==
  /\ pc[p] # "idle" => heaptid[p] \in HeapTid
  /\ pc[p] \in {"idle", "lock", "lockx"} =>
       visited[p] = {} /\ loaded[p] = {} /\ todo[p] = {}
  /\ pc[p] \in {"idle", "lock", "lockx", "search"} => sel[p] = {}
  /\ pc[p] \in {"links", "load", "link"} => self[p] \in Slot
  /\ pc[p] \notin {"links", "load", "link", "error"} => self[p] = NULL

Repairing == {"search", "links", "load", "link"}

VacuumLocal ==
  /\ pc[Vac] \in Repairing => self[Vac] \in Slot /\ ctx # "none"
  /\ pc[Vac] \notin Repairing \cup {"error"} =>
       /\ visited[Vac] = {} /\ loaded[Vac] = {} /\ todo[Vac] = {}
       /\ self[Vac] = NULL /\ ctx = "none"
  /\ pc[Vac] \in {"check", "lock", "lockx"} => blkno \in Slot

LinkLocal(p) ==
  /\ pc[p] \notin {"load", "link"} => lst[p] = {} /\ cur[p] = NULL
  /\ pc[p] \notin {"links", "load", "link", "error"} => upd[p] = {}
  /\ pc[p] \in {"load", "link"} => cur[p] \in upd[p]
  /\ upd[p] \subseteq sel[p]
  /\ \A x \in sel[p] : \E c \in loaded[p] : c.tid = x

SearchLocal(p) ==
  /\ todo[p] \subseteq visited[p]
  /\ \A c \in loaded[p] : c.tid \in visited[p]

LocalInv ==
  /\ \A p \in Inserters : InsertLocal(p)
  /\ \A p \in Updaters : LinkLocal(p)
  /\ \A p \in Procs : SearchLocal(p)
  /\ VacuumLocal

LEMMA ProcSets ==
  /\ Inserters \subseteq Procs /\ Scanners \subseteq Procs /\ Updaters \subseteq Procs
  /\ Inserters \subseteq Updaters /\ Vac \in Procs /\ Vac \in Updaters
  BY SMTT(30), Z3T(30) DEF Procs, Updaters

LEMMA Points ==
  /\ NoPoint \in Point /\ NoPoint.tid = NULL
  /\ \A e \in Point : e.tid \in 0 .. MaxSlots /\ e.level \in -1 .. MaxLevel
  /\ \A e \in Point : e.tid # NULL => e.tid \in Slot
  /\ \A s \in Slot, l \in 0 .. MaxLevel : [tid |-> s, level |-> l] \in Point
  BY BoundAssumption, SMTT(30), Z3T(30) DEF NoPoint, Point, Slot, NULL

LEMMA CopiesType ==
  /\ \A c \in Copies : c.tid \in Slot
  /\ DiskType => \A s \in Slot : Copy(s) \in Copies
  BY SMTT(30), Z3T(30) DEF Copies, Copy, DiskType, Live

LEMMA SearchTypes ==
  ASSUME SearchType, NEW p \in Procs, NEW e \in Point, BeginSearch(p, e)
  PROVE  SearchType'
  BY Points, ZenonT(30) DEF SearchType, BeginSearch

LEMMA ForgetTypes ==
  ASSUME LinkType, NEW p \in Updaters, ForgetLinks(p)
  PROVE  LinkType'
  BY Points, BoundAssumption, SMTT(30), Z3T(30) DEF LinkType, ForgetLinks, NULL

LEMMA NextPageType ==
  ASSUME DiskType, VacuumType PROVE NextPage(blkno) \in 0 .. MaxSlots
  BY BoundAssumption, SMTT(30), Z3T(30) DEF DiskType, VacuumType, NextPage, NULL

LEMMA SelectionsType ==
  ASSUME NEW L \in SUBSET Copies, NEW me
  PROVE  Selections(L, me) \subseteq SUBSET Slot
  BY CopiesType, SMTT(30), Z3T(30) DEF Selections

LEMMA NeighborTidsType ==
  ASSUME DiskType, NEW c \in Copies
  PROVE  NeighborTids(c) \subseteq Slot
  BY CopiesType, SMTT(30), Z3T(30) DEF NeighborTids, DiskType

LEMMA LinkedBound ==
  ASSUME NEW x \in Slot, NEW e, NEW L, NEW w, NEW b, NEW N \in Linked(x, e, L, w, b)
  PROVE  N \subseteq neighbors[x] \cup {e}
  BY Zenon DEF Linked

LEMMA LocalFacts ==
  ASSUME TypeOK, LocalInv
  PROVE  /\ \A p \in Inserters : pc[p] # "idle" => heaptid[p] \in HeapTid
         /\ \A p \in Updaters : pc[p] \in {"links", "load", "link"} => self[p] \in Slot
         /\ \A p \in Updaters : pc[p] \in {"load", "link"} => cur[p] \in Slot
         /\ pc[Vac] = "search" => self[Vac] \in Slot
         /\ pc[Vac] \in {"check", "lock", "lockx"} => blkno \in Slot
<1>1. \A p \in Updaters : upd[p] \subseteq Slot
  BY Zenon DEF TypeOK, LinkType
<1>2. \A p \in Updaters : p \in Inserters \/ p = Vac
  BY Zenon DEF Updaters
<1>. QED BY <1>1, <1>2, SMTT(30), Z3T(30) DEF LocalInv, InsertLocal, LinkLocal, VacuumLocal,
            Repairing

-----------------------------------------------------------------------------
\* The actions that write element or neighbor tuples
LEMMA DiskWriters ==
  ASSUME Next
  PROVE  \/ UNCHANGED diskVars
         \/ \E p \in Inserters : \/ \E s \in sel[p] : AddDuplicateOnDisk(p, s)
                                 \/ \E s \in Slot : AddElementOnDisk(p, s)
         \/ \E p \in Updaters : \/ UpdateNeighborOnDisk(p)
         \/ RemoveHeapTids \/ OverwriteNeighbors \/ MarkDeleted
<1>1. \A p : Search(p) => \/ UNCHANGED diskVars
  BY Zenon DEF Search, LoadElement, LoadUnvisited
<1>2. \A p : UpdateNeighbors(p) => \/ UNCHANGED diskVars
                                   \/ UpdateNeighborOnDisk(p)
  BY Zenon DEF UpdateNeighbors, GetUpdateIndex, LoadElementsForInsert
<1>3. \A p \in Inserters : Insert(p) => \/ UNCHANGED diskVars
                                        \/ \E s \in sel[p] : AddDuplicateOnDisk(p, s)
                                        \/ \E s \in Slot : AddElementOnDisk(p, s)
                                        \/ UpdateNeighbors(p)
  BY <1>1, <1>2, Zenon DEF Insert, InsertStep, InsertStart, InsertLockShare,
                           InsertLockExclusive, InsertSelect, InsertFinish,
                           InsertAbort
<1>4. \A q : Scan(q) => \/ UNCHANGED diskVars
  BY <1>1, Zenon DEF Scan, ScanStart, ScanPause, ScanResume, ScanEnd
<1>5. Vacuum => \/ UNCHANGED diskVars
                \/ RemoveHeapTids \/ OverwriteNeighbors \/ MarkDeleted
                \/ UpdateNeighbors(Vac)
  BY <1>1, <1>2, Zenon DEF Vacuum, VacuumStep, VacuumLock, VacuumStart, VacuumAbort,
                           LoadPage, CheckElement, RepairFinish, ConfirmRepaired,
                           VacuumEnd, WaitForInserts, RepairHighestPoint,
                           RepairEntryPoint, RepairLockShare, RepairLockExclusive,
                           WaitForInsertsAgain, WaitForScans
<1>6. \A h : HeapDelete(h) => UNCHANGED diskVars
  BY Zenon DEF HeapDelete
<1>. QED BY <1>1, <1>2, <1>3, <1>4, <1>5, <1>6, Zenon DEF Next, Procs, Updaters

\* The actions that write the metapage
LEMMA EntryWriters ==
  ASSUME Next
  PROVE  \/ UNCHANGED entryPoint
         \/ \E p \in Inserters : \/ InsertFinish(p)
         \/ RepairFinish \/ RepairEntryPoint
<1>1. \A p : Search(p) => \/ UNCHANGED entryPoint
  BY Zenon DEF Search, LoadElement, LoadUnvisited
<1>2. \A p : UpdateNeighbors(p) => \/ UNCHANGED entryPoint
  BY Zenon DEF UpdateNeighbors, GetUpdateIndex, LoadElementsForInsert,
               UpdateNeighborOnDisk
<1>3. \A p \in Inserters : Insert(p) => \/ UNCHANGED entryPoint
                                        \/ InsertFinish(p)
  BY <1>1, <1>2, ZenonT(30) DEF Insert, InsertStep, InsertStart, InsertLockShare,
                           InsertLockExclusive, InsertSelect, InsertAbort,
                           AddDuplicateOnDisk, AddElementOnDisk
<1>4. \A q : Scan(q) => \/ UNCHANGED entryPoint
  BY <1>1, Zenon DEF Scan, ScanStart, ScanPause, ScanResume, ScanEnd
<1>5. Vacuum => \/ UNCHANGED entryPoint
                \/ RepairFinish \/ RepairEntryPoint
  BY <1>1, <1>2, Zenon DEF Vacuum, VacuumStep, VacuumLock, VacuumStart, VacuumAbort,
                           RemoveHeapTids, LoadPage, CheckElement, OverwriteNeighbors,
                           ConfirmRepaired, MarkDeleted, VacuumEnd, WaitForInserts,
                           RepairHighestPoint, RepairLockShare, RepairLockExclusive,
                           WaitForInsertsAgain, WaitForScans
<1>6. \A h : HeapDelete(h) => UNCHANGED entryPoint
  BY Zenon DEF HeapDelete
<1>. QED BY <1>1, <1>2, <1>3, <1>4, <1>5, <1>6, Zenon DEF Next, Procs, Updaters

\* The actions that change the heap or the heap TID of an insert
LEMMA HeapWriters ==
  ASSUME Next
  PROVE  \/ UNCHANGED heapVars /\ UNCHANGED heaptid
         \/ \E p \in Inserters : \/ InsertStart(p)
                                 \/ InsertFinish(p)
                                 \/ InsertAbort(p)
                                 \/ \E s \in sel[p] : AddDuplicateOnDisk(p, s)
         \/ \E q \in Scanners : \/ ScanEnd(q)
         \/ \E h \in HeapTid : HeapDelete(h)
         \/ VacuumEnd
<1>1. \A p : Search(p) => \/ UNCHANGED heapVars /\ UNCHANGED heaptid
  BY Zenon DEF Search, LoadElement, LoadUnvisited
<1>2. \A p : UpdateNeighbors(p) => \/ UNCHANGED heapVars /\ UNCHANGED heaptid
  BY Zenon DEF UpdateNeighbors, GetUpdateIndex, LoadElementsForInsert,
               UpdateNeighborOnDisk
<1>3. \A p \in Inserters : Insert(p) => \/ UNCHANGED heapVars /\ UNCHANGED heaptid
                                        \/ InsertStart(p)
                                        \/ InsertFinish(p)
                                        \/ InsertAbort(p)
                                        \/ \E s \in sel[p] : AddDuplicateOnDisk(p, s)
  BY <1>1, <1>2, ZenonT(30) DEF Insert, InsertStep, InsertLockShare, InsertLockExclusive,
                           InsertSelect, AddElementOnDisk
<1>4. \A q : Scan(q) => \/ UNCHANGED heapVars /\ UNCHANGED heaptid
                        \/ ScanEnd(q)
  BY <1>1, Zenon DEF Scan, ScanStart, ScanPause, ScanResume
<1>5. Vacuum => \/ UNCHANGED heapVars /\ UNCHANGED heaptid
                \/ VacuumEnd
  BY <1>1, <1>2, Zenon DEF Vacuum, VacuumStep, VacuumLock, VacuumStart, VacuumAbort,
                           RemoveHeapTids, LoadPage, CheckElement, OverwriteNeighbors,
                           RepairFinish, ConfirmRepaired, MarkDeleted, WaitForInserts,
                           RepairHighestPoint, RepairEntryPoint, RepairLockShare,
                           RepairLockExclusive, WaitForInsertsAgain, WaitForScans
<1>. QED BY <1>1, <1>2, <1>3, <1>4, <1>5, Zenon DEF Next, Procs, Updaters

\* The actions that change the state of a search
LEMMA SearchWriters ==
  ASSUME Next
  PROVE  \/ UNCHANGED searchVars
         \/ \E p \in Inserters : \/ InsertLockShare(p)
                                 \/ InsertLockExclusive(p)
                                 \/ InsertFinish(p)
                                 \/ InsertAbort(p)
                                 \/ \E s \in sel[p] : AddDuplicateOnDisk(p, s)
         \/ \E p \in Procs : \/ \E s \in todo[p] : LoadElement(p, s)
                             \/ \E c \in loaded[p] : LoadUnvisited(p, c)
         \/ \E q \in Scanners : \/ ScanStart(q)
                                \/ ScanPause(q)
                                \/ ScanEnd(q)
         \/ VacuumAbort \/ RepairFinish \/ RepairHighestPoint
         \/ RepairEntryPoint \/ RepairLockShare \/ RepairLockExclusive
<1>1. \A p : Search(p) => \/ UNCHANGED searchVars
                          \/ \E s \in todo[p] : LoadElement(p, s)
                          \/ \E c \in loaded[p] : LoadUnvisited(p, c)
  BY Zenon DEF Search
<1>2. \A p : UpdateNeighbors(p) => \/ UNCHANGED searchVars
  BY Zenon DEF UpdateNeighbors, GetUpdateIndex, LoadElementsForInsert,
               UpdateNeighborOnDisk
<1>3. \A p \in Inserters : Insert(p) => \/ UNCHANGED searchVars
                                        \/ InsertLockShare(p)
                                        \/ InsertLockExclusive(p)
                                        \/ InsertFinish(p)
                                        \/ InsertAbort(p)
                                        \/ \E s \in sel[p] : AddDuplicateOnDisk(p, s)
                                        \/ Search(p)
  BY <1>1, <1>2, ZenonT(30) DEF Insert, InsertStep, InsertStart, InsertSelect,
                           AddElementOnDisk
<1>4. \A q : Scan(q) => \/ UNCHANGED searchVars
                        \/ ScanStart(q)
                        \/ ScanPause(q)
                        \/ ScanEnd(q)
                        \/ Search(q)
  BY <1>1, Zenon DEF Scan, ScanResume
<1>5. Vacuum => \/ UNCHANGED searchVars
                \/ VacuumAbort \/ RepairFinish \/ RepairHighestPoint
                \/ RepairEntryPoint \/ RepairLockShare \/ RepairLockExclusive
                \/ Search(Vac)
  BY <1>1, <1>2, Zenon DEF Vacuum, VacuumStep, VacuumLock, VacuumStart,
                           RemoveHeapTids, LoadPage, CheckElement, OverwriteNeighbors,
                           ConfirmRepaired, MarkDeleted, VacuumEnd, WaitForInserts,
                           WaitForInsertsAgain, WaitForScans
<1>6. \A h : HeapDelete(h) => UNCHANGED searchVars
  BY Zenon DEF HeapDelete
<1>. QED BY <1>1, <1>2, <1>3, <1>4, <1>5, <1>6, Zenon DEF Next, Procs, Updaters

\* The actions that change the state of an update of the graph
LEMMA LinkWriters ==
  ASSUME Next
  PROVE  \/ UNCHANGED linkVars
         \/ \E p \in Inserters : \/ InsertLockShare(p)
                                 \/ InsertLockExclusive(p)
                                 \/ InsertSelect(p)
                                 \/ InsertFinish(p)
                                 \/ InsertAbort(p)
                                 \/ \E s \in sel[p] : AddDuplicateOnDisk(p, s)
                                 \/ \E s \in Slot : AddElementOnDisk(p, s)
         \/ \E p \in Updaters : \/ \E x \in upd[p] : GetUpdateIndex(p, x)
                                \/ LoadElementsForInsert(p)
                                \/ UpdateNeighborOnDisk(p)
         \/ VacuumAbort \/ OverwriteNeighbors \/ RepairFinish
         \/ RepairHighestPoint \/ RepairEntryPoint \/ RepairLockShare
         \/ RepairLockExclusive
<1>1. \A p : Search(p) => \/ UNCHANGED linkVars
  BY Zenon DEF Search, LoadElement, LoadUnvisited
<1>2. \A p : UpdateNeighbors(p) => \/ UNCHANGED linkVars
                                   \/ \E x \in upd[p] : GetUpdateIndex(p, x)
                                   \/ LoadElementsForInsert(p)
                                   \/ UpdateNeighborOnDisk(p)
  BY Zenon DEF UpdateNeighbors
<1>3. \A p \in Inserters : Insert(p) => \/ UNCHANGED linkVars
                                        \/ InsertLockShare(p)
                                        \/ InsertLockExclusive(p)
                                        \/ InsertSelect(p)
                                        \/ InsertFinish(p)
                                        \/ InsertAbort(p)
                                        \/ \E s \in sel[p] : AddDuplicateOnDisk(p, s)
                                        \/ \E s \in Slot : AddElementOnDisk(p, s)
                                        \/ UpdateNeighbors(p)
  BY <1>1, <1>2, Zenon DEF Insert, InsertStep, InsertStart
<1>4. \A q : Scan(q) => \/ UNCHANGED linkVars
  BY <1>1, Zenon DEF Scan, ScanStart, ScanPause, ScanResume, ScanEnd
<1>5. Vacuum => \/ UNCHANGED linkVars
                \/ VacuumAbort \/ OverwriteNeighbors \/ RepairFinish
                \/ RepairHighestPoint \/ RepairEntryPoint \/ RepairLockShare
                \/ RepairLockExclusive
                \/ UpdateNeighbors(Vac)
  BY <1>1, <1>2, Zenon DEF Vacuum, VacuumStep, VacuumLock, VacuumStart,
                           RemoveHeapTids, LoadPage, CheckElement, ConfirmRepaired,
                           MarkDeleted, VacuumEnd, WaitForInserts,
                           WaitForInsertsAgain, WaitForScans
<1>6. \A h : HeapDelete(h) => UNCHANGED linkVars
  BY Zenon DEF HeapDelete
<1>. QED BY <1>1, <1>2, <1>3, <1>4, <1>5, <1>6, Zenon DEF Next, Procs, Updaters

\* The actions that change the state of the vacuum
LEMMA VacuumWriters ==
  ASSUME Next
  PROVE  \/ UNCHANGED vacVars
         \/ VacuumStart \/ VacuumAbort \/ RemoveHeapTids
         \/ LoadPage \/ CheckElement \/ RepairFinish
         \/ ConfirmRepaired \/ MarkDeleted \/ VacuumEnd
         \/ RepairHighestPoint \/ RepairEntryPoint \/ RepairLockShare
         \/ RepairLockExclusive
<1>1. \A p : Search(p) => \/ UNCHANGED vacVars
  BY Zenon DEF Search, LoadElement, LoadUnvisited
<1>2. \A p : UpdateNeighbors(p) => \/ UNCHANGED vacVars
  BY Zenon DEF UpdateNeighbors, GetUpdateIndex, LoadElementsForInsert,
               UpdateNeighborOnDisk
<1>3. \A p \in Inserters : Insert(p) => \/ UNCHANGED vacVars
  BY <1>1, <1>2, ZenonT(30) DEF Insert, InsertStep, InsertStart, InsertLockShare,
                           InsertLockExclusive, InsertSelect, InsertFinish,
                           InsertAbort, AddDuplicateOnDisk, AddElementOnDisk
<1>4. \A q : Scan(q) => \/ UNCHANGED vacVars
  BY <1>1, Zenon DEF Scan, ScanStart, ScanPause, ScanResume, ScanEnd
<1>5. Vacuum => \/ UNCHANGED vacVars
                \/ VacuumStart \/ VacuumAbort \/ RemoveHeapTids
                \/ LoadPage \/ CheckElement \/ RepairFinish
                \/ ConfirmRepaired \/ MarkDeleted \/ VacuumEnd
                \/ RepairHighestPoint \/ RepairEntryPoint \/ RepairLockShare
                \/ RepairLockExclusive
  BY <1>1, <1>2, Zenon DEF Vacuum, VacuumStep, VacuumLock, OverwriteNeighbors,
                           WaitForInserts, WaitForInsertsAgain, WaitForScans
<1>6. \A h : HeapDelete(h) => UNCHANGED vacVars
  BY Zenon DEF HeapDelete
<1>. QED BY <1>1, <1>2, <1>3, <1>4, <1>5, <1>6, Zenon DEF Next, Procs, Updaters

-----------------------------------------------------------------------------
LEMMA DiskTypeStep ==
  ASSUME TypeOK, LocalInv, Next
  PROVE  DiskType'
<1>0. DiskType /\ SearchType /\ LinkType /\ VacuumType
  BY Zenon DEF TypeOK
<1>1. CASE UNCHANGED diskVars
  BY <1>0, <1>1, SMTT(30), Z3T(30) DEF DiskType, diskVars
<1>2. ASSUME NEW p \in Inserters, NEW s \in sel[p], AddDuplicateOnDisk(p, s) PROVE DiskType'
  <2>1. /\ pc[p] = "update"
        /\ heaptids' = [heaptids EXCEPT ![s] = @ \cup {heaptid[p]}]
        /\ UNCHANGED <<nslots, deleted, version, level, neighbors, gen>>
    BY <1>2, Zenon DEF AddDuplicateOnDisk
  <2>2. heaptid[p] \in HeapTid
    BY <2>1, LocalFacts, ZenonT(30)
  <2>. QED BY <1>0, <2>1, <2>2, Zenon DEF DiskType
<1>3. ASSUME NEW p \in Inserters, NEW s \in Slot, AddElementOnDisk(p, s) PROVE DiskType'
  <2>1. /\ pc[p] = "update"
        /\ nslots' = nslots \/ nslots' = s
        /\ heaptids' = [heaptids EXCEPT ![s] = {heaptid[p]}]
        /\ deleted' = [deleted EXCEPT ![s] = FALSE]
        /\ level' = [level EXCEPT ![s] = newLevel[p]]
        /\ neighbors' = [neighbors EXCEPT ![s] = sel[p]]
        /\ UNCHANGED <<version, gen>>
    BY <1>3, Zenon DEF AddElementOnDisk
  <2>2. heaptid[p] \in HeapTid /\ newLevel[p] \in 0 .. MaxLevel /\ sel[p] \subseteq Slot
    BY <1>0, <2>1, ProcSets, LocalFacts, ZenonT(30) DEF LinkType
  <2>3. nslots' \in 0 .. MaxSlots
    <3>1. nslots \in 0 .. MaxSlots /\ s \in 1 .. MaxSlots
      BY <1>0, Zenon DEF DiskType, Slot
    <3>. QED BY <2>1, <3>1, BoundAssumption, SMTT(30), Z3T(30)
  <2>. QED BY <1>0, <2>1, <2>2, <2>3, ZenonT(30) DEF DiskType
<1>4. ASSUME NEW p \in Updaters, UpdateNeighborOnDisk(p) PROVE DiskType'
  <2>1. /\ pc[p] = "link"
        /\ \E N \in Linked(cur[p], self[p], lst[p], victim[p], p = Vac) :
             neighbors' = [neighbors EXCEPT ![cur[p]] = N]
        /\ UNCHANGED <<nslots, heaptids, deleted, version, level, gen>>
    BY <1>4, Zenon DEF UpdateNeighborOnDisk
  <2>2. cur[p] \in Slot /\ self[p] \in Slot
    BY <2>1, LocalFacts, SMTT(30), Z3T(30)
  <2>3. PICK N \in Linked(cur[p], self[p], lst[p], victim[p], p = Vac) :
          neighbors' = [neighbors EXCEPT ![cur[p]] = N]
    BY <2>1, Zenon
  <2>4. N \subseteq neighbors[cur[p]] \cup {self[p]}
    BY <2>2, <2>3, LinkedBound, ZenonT(30)
  <2>. QED BY <1>0, <2>1, <2>2, <2>3, <2>4, SMTT(30), Z3T(30) DEF DiskType
<1>5. CASE RemoveHeapTids
  <2>1. /\ \/ heaptids' = heaptids
           \/ heaptids' = [heaptids EXCEPT ![blkno] = Remaining(heaptids[blkno])]
        /\ UNCHANGED <<nslots, deleted, version, level, neighbors, gen>>
    BY <1>5, Zenon DEF RemoveHeapTids
  <2>. QED BY <1>0, <2>1, SMTT(30), Z3T(30) DEF DiskType, Remaining
<1>6. CASE OverwriteNeighbors
  <2>1. PICK S \in Selections(loaded[Vac], self[Vac]) :
          /\ neighbors' = [neighbors EXCEPT ![self[Vac]] = S]
          /\ UNCHANGED <<nslots, heaptids, deleted, version, level, gen>>
    BY <1>6, Zenon DEF OverwriteNeighbors
  <2>2. S \in SUBSET Slot
    BY <1>0, SelectionsType, ProcSets, SMTT(30), Z3T(30) DEF SearchType
  <2>. QED BY <1>0, <2>1, <2>2, Zenon DEF DiskType
<1>7. CASE MarkDeleted
  <2>1. /\ UNCHANGED <<nslots, heaptids, level>>
        /\ \/ UNCHANGED <<deleted, neighbors, version, gen>>
           \/ /\ deleted' = [deleted EXCEPT ![blkno] = TRUE]
              /\ neighbors' = [neighbors EXCEPT ![blkno] = {}]
              /\ version' = [version EXCEPT ![blkno] = NextVersion(@)]
              /\ gen' = [gen EXCEPT ![blkno] = @ + 1]
    BY <1>7, Zenon DEF MarkDeleted
  <2>2. \A v \in 1 .. MaxVersion : NextVersion(v) \in 1 .. MaxVersion
    BY BoundAssumption, SMTT(30), Z3T(30) DEF NextVersion
  <2>3. version' \in [Slot -> 1 .. MaxVersion] /\ gen' \in [Slot -> Nat]
    BY <1>0, <2>1, <2>2, SMTT(30), Z3T(30) DEF DiskType
  <2>4. deleted' \in [Slot -> BOOLEAN] /\ neighbors' \in [Slot -> SUBSET Slot]
    BY <1>0, <2>1, Zenon DEF DiskType
  <2>. QED BY <1>0, <2>1, <2>3, <2>4, Zenon DEF DiskType
<1>. QED BY <1>1, <1>2, <1>3, <1>4, <1>5, <1>6, <1>7, DiskWriters, Zenon

LEMMA EntryTypeStep ==
  ASSUME TypeOK, LocalInv, Next
  PROVE  entryPoint' \in Point
<1>0. entryPoint \in Point /\ LinkType /\ hp \in Point
  BY Zenon DEF TypeOK, VacuumType
<1>1. \A p \in Updaters : pc[p] = "links" => EntryIfGreater(self[p], newLevel[p]) \in Point
  BY <1>0, Points, LocalFacts, SMTT(30), Z3T(30) DEF EntryIfGreater, LinkType
<1>2. \A p \in Inserters : InsertFinish(p) =>
         pc[p] = "links" /\ entryPoint' \in {entryPoint, EntryIfGreater(self[p], newLevel[p])}
  BY Zenon DEF InsertFinish
<1>3. RepairFinish =>
         pc[Vac] = "links" /\ entryPoint' \in {entryPoint, EntryIfGreater(self[Vac], newLevel[Vac])}
  BY Zenon DEF RepairFinish
<1>4. RepairEntryPoint => entryPoint' \in {entryPoint, hp}
  BY Zenon DEF RepairEntryPoint, NewEntryPoint
<1>. QED BY <1>0, <1>1, <1>2, <1>3, <1>4, EntryWriters, ProcSets, Zenon

LEMMA HeapTypeStep ==
  ASSUME TypeOK, LocalInv, Next
  PROVE  HeapType'
<1>0. HeapType /\ NULL \in 0 .. NTids
  BY BoundAssumption, SMTT(30), Z3T(30) DEF TypeOK, NULL
<1>1. CASE UNCHANGED heapVars /\ UNCHANGED heaptid
  BY <1>0, <1>1, ZenonT(30) DEF HeapType, heapVars
<1>2. ASSUME NEW p \in Inserters, InsertStart(p) PROVE HeapType'
  <2>1. PICK h \in HeapTid : /\ heap' = [heap EXCEPT ![h] = "live"]
                             /\ heaptid' = [heaptid EXCEPT ![p] = h]
                             /\ UNCHANGED seenBy
    BY <1>2, Zenon DEF InsertStart
  <2>. QED BY <1>0, <2>1, SMTT(30), Z3T(30) DEF HeapType, HeapTid
<1>3. ASSUME NEW p \in Inserters,
             (\E s \in sel[p] : AddDuplicateOnDisk(p, s)) \/ InsertFinish(p)
      PROVE  HeapType'
  <2>1. UNCHANGED <<heap, seenBy>> /\ heaptid' = [heaptid EXCEPT ![p] = NULL]
    BY <1>3, Zenon DEF AddDuplicateOnDisk, InsertFinish, heapVars
  <2>. QED BY <1>0, <2>1, Zenon DEF HeapType
<1>4. ASSUME NEW p \in Inserters, InsertAbort(p) PROVE HeapType'
  <2>1. /\ heap' = [heap EXCEPT ![heaptid[p]] = "dead"] /\ UNCHANGED seenBy
        /\ heaptid' = [heaptid EXCEPT ![p] = NULL]
    BY <1>4, Zenon DEF InsertAbort
  <2>. QED BY <1>0, <2>1, Zenon DEF HeapType
<1>5. ASSUME NEW q \in Scanners, ScanEnd(q) PROVE HeapType'
  <2>1. seenBy' = [h \in HeapTid |-> seenBy[h] \ {q}] /\ UNCHANGED <<heap, heaptid>>
    BY <1>5, Zenon DEF ScanEnd
  <2>. QED BY <1>0, <2>1, SMTT(30), Z3T(30) DEF HeapType
<1>6. ASSUME NEW h \in HeapTid, HeapDelete(h) PROVE HeapType'
  <2>1. /\ heap' = [heap EXCEPT ![h] = "dead"]
        /\ seenBy' = [seenBy EXCEPT ![h] = {q \in Scanners : pc[q] # "idle"}]
        /\ UNCHANGED heaptid
    BY <1>6, Zenon DEF HeapDelete
  <2>. QED BY <1>0, <2>1, SMTT(30), Z3T(30) DEF HeapType
<1>7. CASE VacuumEnd
  <2>1. /\ heap' = [h \in HeapTid |-> IF h \in deadTids THEN "unused" ELSE heap[h]]
        /\ UNCHANGED <<seenBy, heaptid>>
    BY <1>7, Zenon DEF VacuumEnd
  <2>. QED BY <1>0, <2>1, SMTT(30), Z3T(30) DEF HeapType
<1>. QED BY <1>1, <1>2, <1>3, <1>4, <1>5, <1>6, <1>7, HeapWriters, Zenon

LEMMA LockTypeStep ==
  ASSUME TypeOK, Next
  PROVE  LockType'
<1> DEFINE Modes == {"none", "share", "exclusive"}
           Moved(lock, new, p) == new = lock \/ \E m \in Modes : new = Set(lock, p, m)
<1>1. \A p : Search(p) \/ UpdateNeighbors(p) => UNCHANGED lockVars
  BY ZenonT(30) DEF Search, LoadElement, LoadUnvisited, UpdateNeighbors, GetUpdateIndex,
     LoadElementsForInsert, UpdateNeighborOnDisk
<1>2. ASSUME NEW p \in Inserters, Insert(p)
      PROVE  Moved(updateLock, updateLock', p) /\ scanLock' = scanLock
  BY <1>1, <1>2, Zenon DEF Insert, InsertStep, InsertStart, InsertLockShare, InsertLockExclusive,
     InsertSelect, AddDuplicateOnDisk, AddElementOnDisk, InsertFinish, InsertAbort, lockVars
<1>3. ASSUME NEW q \in Scanners, Scan(q)
      PROVE  updateLock' = updateLock /\ Moved(scanLock, scanLock', q)
  BY <1>1, <1>3, Zenon DEF Scan, ScanStart, ScanPause, ScanResume, ScanEnd, lockVars
<1>4. ASSUME Vacuum PROVE Moved(updateLock, updateLock', Vac) /\ scanLock' = scanLock
  <2>1. CASE VacuumLock
    BY <2>1, Zenon DEF VacuumLock, WaitForInserts, RepairHighestPoint, RepairEntryPoint,
       RepairLockShare, RepairLockExclusive, WaitForInsertsAgain, WaitForScans, lockVars
  <2>2. CASE VacuumStart \/ VacuumStep \/ VacuumAbort
    BY <1>1, <2>2, Zenon DEF VacuumStart, VacuumAbort, VacuumStep, VacuumEnd, RemoveHeapTids,
       LoadPage, CheckElement, OverwriteNeighbors, RepairFinish, ConfirmRepaired, MarkDeleted,
       lockVars
  <2>. QED BY <1>4, <2>1, <2>2, Zenon DEF Vacuum
<1>5. ASSUME NEW h \in HeapTid, HeapDelete(h) PROVE UNCHANGED lockVars
  BY <1>5, Zenon DEF HeapDelete
<1>6. \A lock \in [Procs -> Modes] : \A new, p : Moved(lock, new, p) => new \in [Procs -> Modes]
  BY Zenon DEF Set
<1>7. updateLock \in [Procs -> Modes] /\ scanLock \in [Procs -> Modes]
  BY Zenon DEF TypeOK, LockType
<1> HIDE DEF Modes, Moved
<1>8. updateLock' \in [Procs -> Modes] /\ scanLock' \in [Procs -> Modes]
  BY <1>2, <1>3, <1>4, <1>5, <1>6, <1>7, Zenon DEF Next, lockVars
<1>. QED BY <1>8, Zenon DEF LockType, Modes

LEMMA ControlTypeStep ==
  ASSUME TypeOK, Next
  PROVE  ControlType'
<1> DEFINE Moved(p, W) == UNCHANGED pc \/ \E w \in W : Become(p, w)
<1>1. \A p : Search(p) => (UNCHANGED pc \/ Become(p, "error")) /\ UNCHANGED resumed
  BY Zenon DEF Search, LoadElement, LoadUnvisited
<1>2. \A p : UpdateNeighbors(p) =>
        UNCHANGED resumed /\ \E w \in {"load", "error", "link", "links"} : Become(p, w)
  BY Zenon DEF UpdateNeighbors, GetUpdateIndex, LoadElementsForInsert, UpdateNeighborOnDisk
<1>3. ASSUME NEW p \in Inserters, Insert(p)
      PROVE  Moved(p, InserterPc) /\ UNCHANGED resumed
  BY <1>1, <1>2, <1>3, Zenon DEF Insert, InsertStep, InsertStart, InsertLockShare,
     InsertLockExclusive, InsertSelect, AddDuplicateOnDisk, AddElementOnDisk, InsertFinish,
     InsertAbort, InserterPc
<1>4. ASSUME NEW q \in Scanners, Scan(q)
      PROVE  /\ Moved(q, ScannerPc)
             /\ resumed' = resumed \/ \E b \in BOOLEAN : resumed' = [resumed EXCEPT ![q] = b]
  BY <1>1, <1>4, Zenon DEF Scan, ScanStart, ScanPause, ScanResume, ScanEnd, ScannerPc
<1>5. ASSUME Vacuum PROVE Moved(Vac, VacuumPc) /\ UNCHANGED resumed
  <2>1. CASE VacuumLock
    BY <2>1, Zenon DEF VacuumLock, WaitForInserts, RepairHighestPoint, RepairEntryPoint,
       RepairLockShare, RepairLockExclusive, WaitForInsertsAgain, WaitForScans, BeginRepair,
       VacuumPc
  <2>2. CASE VacuumStart \/ VacuumStep \/ VacuumAbort
    BY <1>1, <1>2, <2>2, Zenon DEF VacuumStart, VacuumAbort, VacuumStep, VacuumEnd,
       RemoveHeapTids, LoadPage, CheckElement, OverwriteNeighbors, RepairFinish,
       ConfirmRepaired, MarkDeleted, Advance, VacuumPc
  <2>. QED BY <1>5, <2>1, <2>2, Zenon DEF Vacuum
<1>6. ASSUME NEW h \in HeapTid, HeapDelete(h) PROVE UNCHANGED <<pc, resumed>>
  BY <1>6, Zenon DEF HeapDelete
<1>7. ControlType
  BY Zenon DEF TypeOK
<1>8. ASSUME NEW p \in Procs, NEW W, Moved(p, W),
             W \subseteq InserterPc \cup ScannerPc \cup VacuumPc,
             p \in Inserters => W = InserterPc, p \in Scanners => W = ScannerPc,
             p = Vac => W = VacuumPc
      PROVE  /\ pc' \in [Procs -> InserterPc \cup ScannerPc \cup VacuumPc]
             /\ \A r \in Inserters : pc'[r] \in InserterPc
             /\ \A r \in Scanners : pc'[r] \in ScannerPc
             /\ pc'[Vac] \in VacuumPc
  BY <1>7, <1>8, ProcSets, ProcAssumption, SMTT(30), Z3T(30) DEF ControlType, Become
<1>9. resumed' \in [Scanners -> BOOLEAN]
  BY <1>3, <1>4, <1>5, <1>6, <1>7, Zenon DEF Next, ControlType
<1>10. CASE \E p \in Inserters : Insert(p)
  BY <1>3, <1>7, <1>8, <1>9, <1>10, ProcSets, ProcAssumption, ZenonT(30) DEF ControlType
<1>11. CASE \E q \in Scanners : Scan(q)
  BY <1>4, <1>7, <1>8, <1>9, <1>11, ProcSets, ProcAssumption, ZenonT(30) DEF ControlType
<1>12. CASE Vacuum
  BY <1>5, <1>7, <1>8, <1>9, <1>12, ProcSets, ProcAssumption, SMTT(30), Z3T(30) DEF ControlType
<1>13. CASE \E h \in HeapTid : HeapDelete(h)
  BY <1>6, <1>7, <1>9, <1>13, SMTT(30), Z3T(30) DEF ControlType
<1>. QED BY <1>10, <1>11, <1>12, <1>13, Zenon DEF Next

LEMMA SearchTypeStep ==
  ASSUME TypeOK, Next
  PROVE  SearchType'
<1>0. /\ SearchType /\ DiskType /\ LinkType
      /\ entryPoint \in Point /\ hp \in Point
      /\ highestPoint \in Point /\ fallbackPoint \in Point
  BY Zenon DEF TypeOK, VacuumType
<1>1. CASE UNCHANGED searchVars
  BY <1>0, <1>1, SMTT(30), Z3T(30) DEF SearchType, searchVars
<1>2. ASSUME NEW p \in Procs, NEW s \in todo[p], LoadElement(p, s) PROVE SearchType'
  <2>1. /\ UNCHANGED visited
        /\ todo' = [todo EXCEPT ![p] = @ \ {s}]
        /\ loaded' = loaded \/ loaded' = [loaded EXCEPT ![p] = @ \cup {Copy(s)}]
    BY <1>2, Zenon DEF LoadElement
  <2>2. Copy(s) \in Copies
    BY <1>0, CopiesType, SMTT(30), Z3T(30) DEF SearchType
  <2>. QED BY <1>0, <2>1, <2>2, SMTT(30), Z3T(30) DEF SearchType
<1>3. ASSUME NEW p \in Procs, NEW c \in loaded[p], LoadUnvisited(p, c) PROVE SearchType'
  <2>1. /\ UNCHANGED loaded
        /\ todo' = [todo EXCEPT ![p] = NeighborTids(c) \ visited[p]]
        /\ visited' = [visited EXCEPT ![p] = @ \cup (NeighborTids(c) \ visited[p])]
    BY <1>3, Zenon DEF LoadUnvisited
  <2>2. NeighborTids(c) \subseteq Slot
    BY <1>0, NeighborTidsType, SMTT(30), Z3T(30) DEF SearchType
  <2>. QED BY <1>0, <2>1, <2>2, SMTT(30), Z3T(30) DEF SearchType
<1>4. ASSUME NEW q \in Scanners, ScanPause(q) PROVE SearchType'
  <2>1. UNCHANGED <<visited, todo>> /\ \E W : loaded' = [loaded EXCEPT ![q] = @ \ W]
    BY <1>4, Zenon DEF ScanPause
  <2>. QED BY <1>0, <2>1, Zenon DEF SearchType
<1>5. ASSUME NEW p \in Procs, NEW e \in Point,
             BeginSearch(p, e) \/ ForgetSearch(p) \/ UNCHANGED searchVars
      PROVE  SearchType'
  BY <1>0, <1>1, <1>5, SearchTypes, Points, Zenon DEF ForgetSearch
<1>6. \A p \in Inserters : InsertLockShare(p) \/ InsertLockExclusive(p) =>
        UNCHANGED searchVars \/ BeginSearch(p, entryPoint)
  BY Zenon DEF InsertLockShare, InsertLockExclusive
<1>7. \A p \in Inserters : (\E s \in sel[p] : AddDuplicateOnDisk(p, s)) \/ InsertFinish(p)
                           \/ InsertAbort(p) => ForgetSearch(p)
  BY Zenon DEF AddDuplicateOnDisk, InsertFinish, InsertAbort
<1>8. \A q \in Scanners : ScanStart(q) \/ ScanEnd(q) =>
        BeginSearch(q, entryPoint) \/ ForgetSearch(q)
  BY Zenon DEF ScanStart, ScanEnd
<1>9. RepairHighestPoint \/ RepairEntryPoint \/ RepairLockShare \/ RepairLockExclusive =>
        \/ UNCHANGED searchVars
        \/ \E e \in {entryPoint, hp} : BeginSearch(Vac, e)
  BY Zenon DEF RepairHighestPoint, RepairEntryPoint, RepairLockShare, RepairLockExclusive,
     BeginRepair
<1>10. RepairFinish \/ VacuumAbort => ForgetSearch(Vac)
  BY Zenon DEF RepairFinish, VacuumAbort
<1>11. CASE \E p \in Procs, e \in Point :
              BeginSearch(p, e) \/ ForgetSearch(p) \/ UNCHANGED searchVars
  BY <1>5, <1>11, Zenon
<1>. QED BY <1>0, <1>1, <1>2, <1>3, <1>4, <1>6, <1>7, <1>8, <1>9, <1>10, <1>11, ProcSets,
            SearchWriters, Zenon

LEMMA LinkTypeStep ==
  ASSUME TypeOK, LocalInv, Next
  PROVE  LinkType'
<1>0. /\ LinkType /\ SearchType /\ DiskType
      /\ entryPoint \in Point /\ hp \in Point
      /\ highestPoint \in Point /\ fallbackPoint \in Point
      /\ NULL \in 0 .. MaxSlots /\ Slot \subseteq 0 .. MaxSlots
  BY BoundAssumption, SMTT(30), Z3T(30) DEF TypeOK, VacuumType, NULL, Slot
<1>1. CASE UNCHANGED linkVars
  BY <1>0, <1>1, Zenon DEF LinkType, linkVars
<1>2. ASSUME NEW p \in Inserters, InsertLockShare(p) \/ InsertLockExclusive(p) PROVE LinkType'
  <2>1. /\ \/ UNCHANGED newLevel
           \/ \E lvl \in 0 .. MaxLevel : newLevel' = [newLevel EXCEPT ![p] = lvl]
        /\ ep' = ep \/ ep' = [ep EXCEPT ![p] = entryPoint]
        /\ UNCHANGED <<self, sel, upd, cur, lst, victim>>
    BY <1>2, Zenon DEF InsertLockShare, InsertLockExclusive
  <2>. QED BY <1>0, <2>1, ZenonT(30) DEF LinkType
<1>3. ASSUME NEW p \in Inserters, InsertSelect(p) PROVE LinkType'
  <2>1. PICK S \in Selections(loaded[p], NULL) :
          /\ sel' = [sel EXCEPT ![p] = S]
          /\ UNCHANGED <<ep, newLevel, self, upd, cur, lst, victim>>
    BY <1>3, Zenon DEF InsertSelect
  <2>2. S \in SUBSET Slot
    BY <1>0, SelectionsType, ProcSets, SMTT(30), Z3T(30) DEF SearchType
  <2>. QED BY <1>0, <2>1, <2>2, Zenon DEF LinkType
<1>4. ASSUME NEW p \in Inserters, NEW s \in Slot, AddElementOnDisk(p, s) PROVE LinkType'
  <2>1. /\ self' = [self EXCEPT ![p] = s]
        /\ upd' = [upd EXCEPT ![p] = sel[p]]
        /\ UNCHANGED <<ep, newLevel, sel, cur, lst, victim>>
    BY <1>4, Zenon DEF AddElementOnDisk
  <2>2. sel[p] \in SUBSET Slot
    BY <1>0, ProcSets, SMTT(30), Z3T(30) DEF LinkType
  <2>. QED BY <1>0, <2>1, <2>2, Zenon DEF LinkType
<1>5. ASSUME NEW p \in Updaters, NEW x \in upd[p], GetUpdateIndex(p, x) PROVE LinkType'
  <2>1. PICK c \in loaded[p] : /\ cur' = [cur EXCEPT ![p] = x]
                               /\ lst' = [lst EXCEPT ![p] = NeighborTids(c)]
                               /\ UNCHANGED <<ep, newLevel, self, sel, upd, victim>>
    BY <1>5, Zenon DEF GetUpdateIndex
  <2>2. NeighborTids(c) \in SUBSET Slot /\ x \in 0 .. MaxSlots
    BY <1>0, NeighborTidsType, ProcSets, SMTT(30), Z3T(30) DEF SearchType, LinkType
  <2>. QED BY <1>0, <2>1, <2>2, Zenon DEF LinkType
<1>6. ASSUME NEW p \in Updaters, LoadElementsForInsert(p) PROVE LinkType'
  <2>1. /\ upd' = upd \/ upd' = [upd EXCEPT ![p] = @ \ {cur[p]}]
        /\ cur' = cur \/ cur' = [cur EXCEPT ![p] = NULL]
        /\ lst' = lst \/ lst' = [lst EXCEPT ![p] = {}]
        /\ UNCHANGED <<ep, newLevel, self, sel>>
    BY <1>6, Zenon DEF LoadElementsForInsert
  <2>2. \/ victim' = victim
        \/ victim' = [victim EXCEPT ![p] = NULL]
        \/ \E t \in lst[p] : victim' = [victim EXCEPT ![p] = t]
    BY <1>6, Zenon DEF LoadElementsForInsert
  <2>3. lst[p] \subseteq 0 .. MaxSlots
    BY <1>0, Zenon DEF LinkType
  <2>4. victim' \in [Updaters -> 0 .. MaxSlots]
    BY <1>0, <2>2, <2>3, SMTT(30), Z3T(30) DEF LinkType
  <2>5. upd' \in [Updaters -> SUBSET Slot]
    <3>1. upd[p] \ {cur[p]} \in SUBSET Slot
      BY <1>0, Zenon DEF LinkType
    <3>. QED BY <1>0, <2>1, <3>1, ZenonT(30) DEF LinkType
  <2>6. cur' \in [Updaters -> 0 .. MaxSlots]
    BY <1>0, <2>1, Zenon DEF LinkType
  <2>7. lst' \in [Updaters -> SUBSET Slot]
    BY <1>0, <2>1, Zenon DEF LinkType
  <2>. QED BY <1>0, <2>1, <2>4, <2>5, <2>6, <2>7, Zenon DEF LinkType
<1>7. ASSUME NEW p \in Updaters, UpdateNeighborOnDisk(p) PROVE LinkType'
  <2>1. /\ upd' = [upd EXCEPT ![p] = @ \ {cur[p]}]
        /\ cur' = [cur EXCEPT ![p] = NULL]
        /\ lst' = [lst EXCEPT ![p] = {}]
        /\ victim' = [victim EXCEPT ![p] = NULL]
        /\ UNCHANGED <<ep, newLevel, self, sel>>
    BY <1>7, Zenon DEF UpdateNeighborOnDisk
  <2>. QED BY <1>0, <2>1, Zenon DEF LinkType
<1>8. CASE OverwriteNeighbors
  <2>1. PICK S \in Selections(loaded[Vac], self[Vac]) :
          /\ sel' = [sel EXCEPT ![Vac] = S]
          /\ upd' = [upd EXCEPT ![Vac] = S]
          /\ UNCHANGED <<ep, newLevel, self, cur, lst, victim>>
    BY <1>8, Zenon DEF OverwriteNeighbors
  <2>2. S \in SUBSET Slot
    BY <1>0, SelectionsType, ProcSets, SMTT(30), Z3T(30) DEF SearchType
  <2>. QED BY <1>0, <2>1, <2>2, Zenon DEF LinkType
<1>9. ASSUME NEW s \in Slot, NEW e \in Point, NEW w, BeginRepair(s, e, w) PROVE LinkType'
  <2>1. /\ self' = [self EXCEPT ![Vac] = s]
        /\ newLevel' = [newLevel EXCEPT ![Vac] = level[s]]
        /\ ep' = [ep EXCEPT ![Vac] = e]
        /\ UNCHANGED <<sel, upd, cur, lst, victim>>
    BY <1>9, Zenon DEF BeginRepair
  <2>2. level[s] \in 0 .. MaxLevel
    BY <1>0, SMTT(30), Z3T(30) DEF DiskType
  <2>. QED BY <1>0, <2>1, <2>2, Zenon DEF LinkType
<1>10. RepairHighestPoint => \/ UNCHANGED linkVars
                             \/ \E h \in {highestPoint, fallbackPoint} :
                                  h.tid # NULL /\ BeginRepair(h.tid, entryPoint, "ep1")
  BY Zenon DEF RepairHighestPoint
<1>11. RepairEntryPoint => \/ UNCHANGED linkVars
                           \/ entryPoint.tid # NULL /\ BeginRepair(entryPoint.tid, hp, "ep2")
  BY Zenon DEF RepairEntryPoint
<1>12. RepairLockShare \/ RepairLockExclusive =>
         \/ UNCHANGED linkVars
         \/ pc[Vac] \in {"lock", "lockx"} /\ BeginRepair(blkno, entryPoint, "loop")
  BY Zenon DEF RepairLockShare, RepairLockExclusive
<1>13. CASE RepairHighestPoint \/ RepairEntryPoint \/ RepairLockShare \/ RepairLockExclusive
  <2>1. pc[Vac] \in {"lock", "lockx"} => blkno \in Slot
    BY LocalFacts, SMTT(30), Z3T(30)
  <2>. QED BY <1>0, <1>1, <1>9, <1>10, <1>11, <1>12, <1>13, <2>1, Points, Zenon
<1>14. \A p : ((\E s \in sel[p] : AddDuplicateOnDisk(p, s)) \/ InsertFinish(p) \/ InsertAbort(p))
             => ForgetLinks(p)
  BY Zenon DEF AddDuplicateOnDisk, InsertFinish, InsertAbort
<1>15. RepairFinish \/ VacuumAbort => ForgetLinks(Vac)
  BY Zenon DEF RepairFinish, VacuumAbort
<1>. QED BY <1>0, <1>1, <1>2, <1>3, <1>4, <1>5, <1>6, <1>7, <1>8, <1>13, <1>14, <1>15,
            ForgetTypes, ProcSets, LinkWriters, Zenon

LEMMA VacuumTypeStep ==
  ASSUME TypeOK, LocalInv, Next
  PROVE  VacuumType'
<1>0. DiskType /\ VacuumType
  BY Zenon DEF TypeOK
<1>1. /\ NextPage(blkno) \in 0 .. MaxSlots
      /\ \A n \in 0 .. MaxSlots : (IF n = NULL THEN 1 ELSE n) \in 1 .. (MaxSlots + 1)
      /\ NoPoint \in Point /\ NULL \in 0 .. MaxSlots /\ 1 \in 1 .. (MaxSlots + 1)
      /\ 0 \in 0 .. MaxVacuums
  BY <1>0, NextPageType, Points, BoundAssumption, SMTT(30), Z3T(30) DEF NULL
<1>2. CASE UNCHANGED vacVars
  BY <1>0, <1>2, Zenon DEF VacuumType, vacVars
<1>3. CASE VacuumStart
  <2>1. /\ deadTids' \in SUBSET HeapTid /\ vdeleted' = {}
        /\ highestPoint' = NoPoint /\ fallbackPoint' = NoPoint /\ hp' = NoPoint
        /\ blkno' = 1 /\ nextblkno' = NULL /\ ctx' = "none"
        /\ vacuums < MaxVacuums /\ vacuums' = vacuums + 1
    BY <1>3, Zenon DEF VacuumStart
  <2>. QED BY <1>0, <1>1, <2>1, BoundAssumption, SMTT(30), Z3T(30) DEF VacuumType
<1>4. CASE VacuumAbort \/ VacuumEnd
  <2>1. ForgetVacuum /\ UNCHANGED vacuums
    BY <1>4, Zenon DEF VacuumAbort, VacuumEnd
  <2>. QED BY <1>0, <1>1, <2>1, Zenon DEF VacuumType, ForgetVacuum
<1>5. CASE RemoveHeapTids
  <2>1. /\ UNCHANGED <<deadTids, hp, nextblkno, ctx, vacuums>>
        /\ \/ UNCHANGED <<vdeleted, highestPoint, fallbackPoint>>
           \/ /\ ~(blkno > nslots)
              /\ vdeleted' = vdeleted \/ vdeleted' = vdeleted \cup {blkno}
              /\ highestPoint' \in {highestPoint, [tid |-> blkno, level |-> level[blkno]]}
              /\ fallbackPoint' \in {fallbackPoint, highestPoint,
                                     [tid |-> blkno, level |-> level[blkno]]}
        /\ blkno' = IF NextPage(blkno) = NULL THEN 1 ELSE NextPage(blkno)
    BY <1>5, Zenon DEF RemoveHeapTids, Advance
  <2>2. ~(blkno > nslots) => blkno \in Slot
    BY <1>0, BoundAssumption, SMTT(30), Z3T(30) DEF VacuumType, DiskType, Slot
  <2>3. blkno \in Slot => [tid |-> blkno, level |-> level[blkno]] \in Point
    BY <1>0, Points, SMTT(30), Z3T(30) DEF DiskType
  <2>. QED BY <1>0, <1>1, <2>1, <2>2, <2>3, Zenon DEF VacuumType
<1>6. CASE LoadPage \/ CheckElement \/ ConfirmRepaired \/ MarkDeleted \/ RepairFinish
  <2>1. /\ UNCHANGED <<deadTids, vdeleted, highestPoint, fallbackPoint, hp, vacuums>>
        /\ nextblkno' \in {nextblkno, NextPage(blkno)}
        /\ ctx' \in {ctx, "none"}
    BY <1>6, Zenon DEF LoadPage, CheckElement, ConfirmRepaired, MarkDeleted, RepairFinish
  <2>2. \/ blkno' = blkno
        \/ \E n \in {nextblkno, NextPage(blkno)} : blkno' = IF n = NULL THEN 1 ELSE n
    BY <1>6, Zenon DEF LoadPage, CheckElement, ConfirmRepaired, MarkDeleted, RepairFinish,
                      Advance
  <2>. QED BY <1>0, <1>1, <2>1, <2>2, Zenon DEF VacuumType
<1>7. CASE RepairHighestPoint \/ RepairEntryPoint \/ RepairLockShare \/ RepairLockExclusive
  <2>1. /\ UNCHANGED <<deadTids, vdeleted, highestPoint, fallbackPoint, blkno, nextblkno,
                       vacuums>>
        /\ hp' \in {hp, highestPoint, fallbackPoint}
        /\ ctx' \in {ctx, "ep1", "ep2", "loop"}
    BY <1>7, Zenon DEF RepairHighestPoint, RepairEntryPoint, RepairLockShare,
                      RepairLockExclusive, BeginRepair
  <2>. QED BY <1>0, <2>1, Zenon DEF VacuumType
<1>. QED BY <1>2, <1>3, <1>4, <1>5, <1>6, <1>7, VacuumWriters, Zenon

-----------------------------------------------------------------------------

\* Only p may have changed its place of table f
Owned(f, new, p) == new = f \/ \E x : new = [f EXCEPT ![p] = x]

OwnsSearch(p) ==
  /\ Owned(visited, visited', p) /\ Owned(todo, todo', p) /\ Owned(loaded, loaded', p)

OwnsLinks(p) ==
  /\ Owned(ep, ep', p) /\ Owned(newLevel, newLevel', p) /\ Owned(self, self', p)
  /\ Owned(sel, sel', p) /\ Owned(upd, upd', p) /\ Owned(cur, cur', p)
  /\ Owned(lst, lst', p) /\ Owned(victim, victim', p)

\* A step of p leaves the local state of the others alone
Others(p) ==
  /\ \A r \in Procs \ {p} :
       /\ pc'[r] = pc[r] /\ updateLock'[r] = updateLock[r] /\ scanLock'[r] = scanLock[r]
       /\ visited'[r] = visited[r] /\ todo'[r] = todo[r] /\ loaded'[r] = loaded[r]
  /\ \A r \in Updaters \ {p} :
       /\ ep'[r] = ep[r] /\ newLevel'[r] = newLevel[r] /\ self'[r] = self[r]
       /\ sel'[r] = sel[r] /\ upd'[r] = upd[r] /\ cur'[r] = cur[r] /\ lst'[r] = lst[r]
  /\ \A r \in Inserters \ {p} : heaptid'[r] = heaptid[r]
  /\ \A r \in Scanners \ {p} : resumed'[r] = resumed[r]
  /\ p # Vac => UNCHANGED vacVars

LEMMA SearchOwned ==
  ASSUME Next
  PROVE  /\ \A p \in Inserters : Insert(p) => OwnsSearch(p)
         /\ \A q \in Scanners : Scan(q) => OwnsSearch(q)
         /\ Vacuum => OwnsSearch(Vac)
<1>1. \A p, e : BeginSearch(p, e) => OwnsSearch(p)
  BY Zenon DEF BeginSearch, OwnsSearch, Owned
<1>2. \A p : ForgetSearch(p) \/ UNCHANGED searchVars => OwnsSearch(p)
  BY <1>1, Zenon DEF ForgetSearch, OwnsSearch, Owned, searchVars
<1>3. \A p : Search(p) => OwnsSearch(p)
  BY Zenon DEF Search, LoadElement, LoadUnvisited, OwnsSearch, Owned
<1>4. \A p : UpdateNeighbors(p) => UNCHANGED searchVars
  BY Zenon DEF UpdateNeighbors, GetUpdateIndex, LoadElementsForInsert, UpdateNeighborOnDisk
<1>5. \A p \in Inserters : Insert(p) => OwnsSearch(p)
  BY <1>1, <1>2, <1>3, <1>4, ZenonT(30) DEF Insert, InsertStep, InsertStart, InsertLockShare, InsertLockExclusive,
     InsertSelect, AddDuplicateOnDisk, AddElementOnDisk, InsertFinish, InsertAbort
<1>6. \A q : ScanPause(q) => OwnsSearch(q)
  BY Zenon DEF ScanPause, OwnsSearch, Owned
<1>7. \A q : Scan(q) => OwnsSearch(q)
  BY <1>1, <1>2, <1>3, <1>6, Zenon DEF Scan, ScanStart, ScanResume, ScanEnd
<1>8. Vacuum => OwnsSearch(Vac)
  BY <1>1, <1>2, <1>3, <1>4, Zenon DEF Vacuum, VacuumStart, VacuumAbort, VacuumStep, VacuumEnd,
     RemoveHeapTids, LoadPage, CheckElement, OverwriteNeighbors, RepairFinish, ConfirmRepaired,
     MarkDeleted, VacuumLock, WaitForInserts, RepairHighestPoint, RepairEntryPoint,
     RepairLockShare, RepairLockExclusive, WaitForInsertsAgain, WaitForScans, BeginRepair
<1>. QED BY <1>5, <1>7, <1>8, Zenon

LEMMA LinksOwned ==
  ASSUME Next
  PROVE  /\ \A p \in Inserters : Insert(p) => OwnsLinks(p)
         /\ \A q \in Scanners : Scan(q) => UNCHANGED linkVars
         /\ Vacuum => OwnsLinks(Vac)
<1>1. \A p : ForgetLinks(p) \/ UNCHANGED linkVars => OwnsLinks(p)
  BY Zenon DEF ForgetLinks, OwnsLinks, Owned, linkVars
<1>2. \A s, e, w : BeginRepair(s, e, w) => OwnsLinks(Vac)
  BY Zenon DEF BeginRepair, OwnsLinks, Owned
<1>3. \A p : Search(p) => UNCHANGED linkVars
  BY Zenon DEF Search, LoadElement, LoadUnvisited
<1>4. \A p : UpdateNeighbors(p) => OwnsLinks(p)
  BY ZenonT(30) DEF UpdateNeighbors, GetUpdateIndex, LoadElementsForInsert, UpdateNeighborOnDisk, OwnsLinks, Owned
<1>5. \A p : InsertLockShare(p) \/ InsertLockExclusive(p) \/ InsertSelect(p) => OwnsLinks(p)
  BY Zenon DEF InsertLockShare, InsertLockExclusive, InsertSelect, OwnsLinks, Owned
<1>6. \A p, s : AddElementOnDisk(p, s) => OwnsLinks(p)
  BY Zenon DEF AddElementOnDisk, OwnsLinks, Owned
<1>7. \A p \in Inserters : Insert(p) => OwnsLinks(p)
  BY <1>1, <1>3, <1>4, <1>5, <1>6, ZenonT(30) DEF Insert, InsertStep, InsertStart, AddDuplicateOnDisk,
     InsertFinish, InsertAbort
<1>8. \A q \in Scanners : Scan(q) => UNCHANGED linkVars
  BY <1>3, Zenon DEF Scan, ScanStart, ScanPause, ScanResume, ScanEnd
<1>9. OverwriteNeighbors => OwnsLinks(Vac)
  BY Zenon DEF OverwriteNeighbors, OwnsLinks, Owned
<1>10. Vacuum => OwnsLinks(Vac)
  BY <1>1, <1>2, <1>3, <1>4, <1>9, ZenonT(30) DEF Vacuum, VacuumStart, VacuumAbort, VacuumStep, VacuumEnd,
     RemoveHeapTids, LoadPage, CheckElement, RepairFinish, ConfirmRepaired,
     MarkDeleted, VacuumLock, WaitForInserts, RepairHighestPoint, RepairEntryPoint,
     RepairLockShare, RepairLockExclusive, WaitForInsertsAgain, WaitForScans
<1>. QED BY <1>7, <1>8, <1>10, Zenon

LEMMA RestOwned ==
  ASSUME Next
  PROVE  /\ \A p \in Inserters : Insert(p) =>
              /\ Owned(pc, pc', p) /\ Owned(updateLock, updateLock', p)
              /\ Owned(heaptid, heaptid', p) /\ UNCHANGED <<scanLock, resumed, vacVars>>
         /\ \A q \in Scanners : Scan(q) =>
              /\ Owned(pc, pc', q) /\ Owned(scanLock, scanLock', q)
              /\ Owned(resumed, resumed', q) /\ UNCHANGED <<updateLock, heaptid, vacVars>>
         /\ Vacuum => /\ Owned(pc, pc', Vac) /\ Owned(updateLock, updateLock', Vac)
                      /\ UNCHANGED <<scanLock, heaptid, resumed>>
<1>1. \A p, w : Become(p, w) => Owned(pc, pc', p)
  BY Zenon DEF Become, Owned
<1>2. \A p : /\ UNCHANGED pc => Owned(pc, pc', p)
             /\ UNCHANGED updateLock => Owned(updateLock, updateLock', p)
             /\ UNCHANGED scanLock => Owned(scanLock, scanLock', p)
             /\ UNCHANGED heaptid => Owned(heaptid, heaptid', p)
             /\ UNCHANGED resumed => Owned(resumed, resumed', p)
  BY Zenon DEF Owned
<1>3. \A p, m : /\ updateLock' = Set(updateLock, p, m) => Owned(updateLock, updateLock', p)
                /\ scanLock' = Set(scanLock, p, m) => Owned(scanLock, scanLock', p)
                /\ heaptid' = [heaptid EXCEPT ![p] = m] => Owned(heaptid, heaptid', p)
                /\ resumed' = [resumed EXCEPT ![p] = m] => Owned(resumed, resumed', p)
  BY Zenon DEF Owned, Set
<1>4. \A p : Search(p) => Owned(pc, pc', p) /\ UNCHANGED <<lockVars, heaptid, resumed, vacVars>>
  BY <1>1, <1>2, Zenon DEF Search, LoadElement, LoadUnvisited
<1>5. \A p : UpdateNeighbors(p) =>
        Owned(pc, pc', p) /\ UNCHANGED <<lockVars, heaptid, resumed, vacVars>>
  BY <1>1, ZenonT(30) DEF UpdateNeighbors, GetUpdateIndex, LoadElementsForInsert, UpdateNeighborOnDisk
<1>6. ASSUME NEW p \in Inserters, Insert(p)
      PROVE  /\ Owned(pc, pc', p) /\ Owned(updateLock, updateLock', p)
             /\ Owned(heaptid, heaptid', p) /\ UNCHANGED <<scanLock, resumed, vacVars>>
  BY <1>1, <1>2, <1>3, <1>4, <1>5, <1>6, Zenon DEF Insert, InsertStep, InsertStart, InsertLockShare,
     InsertLockExclusive, InsertSelect, AddDuplicateOnDisk, AddElementOnDisk, InsertFinish,
     InsertAbort, lockVars
<1>7. ASSUME NEW q \in Scanners, Scan(q)
      PROVE  /\ Owned(pc, pc', q) /\ Owned(scanLock, scanLock', q)
             /\ Owned(resumed, resumed', q) /\ UNCHANGED <<updateLock, heaptid, vacVars>>
  BY <1>1, <1>2, <1>3, <1>4, <1>7, Zenon DEF Scan, ScanStart, ScanPause, ScanResume, ScanEnd, lockVars
<1>8. ASSUME VacuumLock
      PROVE  /\ Owned(pc, pc', Vac) /\ Owned(updateLock, updateLock', Vac)
             /\ UNCHANGED <<scanLock, heaptid, resumed>>
  BY <1>1, <1>2, <1>3, <1>8, Zenon DEF VacuumLock, WaitForInserts, RepairHighestPoint,
     RepairEntryPoint, RepairLockShare, RepairLockExclusive, WaitForInsertsAgain, WaitForScans,
     BeginRepair, lockVars
<1>9. ASSUME VacuumStart \/ VacuumStep \/ VacuumAbort
      PROVE  /\ Owned(pc, pc', Vac) /\ Owned(updateLock, updateLock', Vac)
             /\ UNCHANGED <<scanLock, heaptid, resumed>>
  BY <1>1, <1>2, <1>3, <1>4, <1>5, <1>9, ZenonT(30) DEF VacuumStart, VacuumAbort, VacuumStep, VacuumEnd,
     RemoveHeapTids, LoadPage, CheckElement, OverwriteNeighbors, RepairFinish, ConfirmRepaired,
     MarkDeleted, Advance, lockVars
<1>. QED BY <1>6, <1>7, <1>8, <1>9, Zenon DEF Vacuum

LEMMA Domains ==
  ASSUME TypeOK
  PROVE  /\ DOMAIN pc = Procs /\ DOMAIN updateLock = Procs /\ DOMAIN scanLock = Procs
         /\ DOMAIN visited = Procs /\ DOMAIN todo = Procs /\ DOMAIN loaded = Procs
         /\ DOMAIN ep = Updaters /\ DOMAIN newLevel = Updaters /\ DOMAIN self = Updaters
         /\ DOMAIN sel = Updaters /\ DOMAIN upd = Updaters /\ DOMAIN cur = Updaters
         /\ DOMAIN lst = Updaters /\ DOMAIN victim = Updaters
         /\ DOMAIN heaptid = Inserters /\ DOMAIN resumed = Scanners
  BY Zenon DEF TypeOK, ControlType, LockType, SearchType, LinkType, HeapType

LEMMA OthersStep ==
  ASSUME TypeOK, Next
  PROVE  /\ \A p \in Inserters : Insert(p) => Others(p)
         /\ \A q \in Scanners : Scan(q) => Others(q)
         /\ Vacuum => Others(Vac)
<1>1. ASSUME NEW p, OwnsSearch(p)
      PROVE  \A r \in Procs \ {p} :
               visited'[r] = visited[r] /\ todo'[r] = todo[r] /\ loaded'[r] = loaded[r]
  BY <1>1, Domains, Zenon DEF OwnsSearch, Owned
<1>2. ASSUME NEW p, OwnsLinks(p)
      PROVE  \A r \in Updaters \ {p} :
               /\ ep'[r] = ep[r] /\ newLevel'[r] = newLevel[r] /\ self'[r] = self[r]
               /\ sel'[r] = sel[r] /\ upd'[r] = upd[r] /\ cur'[r] = cur[r] /\ lst'[r] = lst[r]
  BY <1>2, Domains, ZenonT(30) DEF OwnsLinks, Owned
<1>3. ASSUME NEW p, Owned(pc, pc', p) PROVE \A r \in Procs \ {p} : pc'[r] = pc[r]
  BY <1>3, Domains, Zenon DEF Owned
<1>4. ASSUME NEW p, Owned(updateLock, updateLock', p)
      PROVE  \A r \in Procs \ {p} : updateLock'[r] = updateLock[r]
  BY <1>4, Domains, Zenon DEF Owned
<1>5. ASSUME NEW p, Owned(scanLock, scanLock', p)
      PROVE  \A r \in Procs \ {p} : scanLock'[r] = scanLock[r]
  BY <1>5, Domains, Zenon DEF Owned
<1>6. ASSUME NEW p, Owned(heaptid, heaptid', p)
      PROVE  \A r \in Inserters \ {p} : heaptid'[r] = heaptid[r]
  BY <1>6, Domains, Zenon DEF Owned
<1>7. ASSUME NEW p, Owned(resumed, resumed', p)
      PROVE  \A r \in Scanners \ {p} : resumed'[r] = resumed[r]
  BY <1>7, Domains, Zenon DEF Owned
<1>8. ASSUME NEW p \in Inserters, Insert(p) PROVE Others(p)
  BY <1>1, <1>2, <1>3, <1>4, <1>6, <1>8, SearchOwned, LinksOwned, RestOwned, ZenonT(30) DEF Others
<1>9. ASSUME NEW q \in Scanners, Scan(q) PROVE Others(q)
  BY <1>1, <1>3, <1>5, <1>7, <1>9, SearchOwned, LinksOwned, RestOwned, ZenonT(30) DEF Others, linkVars
<1>10. ASSUME Vacuum PROVE Others(Vac)
  BY <1>1, <1>2, <1>3, <1>4, <1>10, SearchOwned, LinksOwned, RestOwned, ZenonT(30) DEF Others
<1>. QED BY <1>8, <1>9, <1>10, Zenon

LEMMA BecomeEffect ==
  ASSUME TypeOK, NEW p \in Procs, NEW w, Become(p, w)
  PROVE  pc'[p] = w
  BY Domains, Zenon DEF Become

LEMMA BeginEffect ==
  ASSUME TypeOK, NEW p \in Procs, NEW e, BeginSearch(p, e)
  PROVE  /\ visited'[p] = todo'[p] /\ loaded'[p] = {}
         /\ e.tid = NULL => visited'[p] = {}
         /\ e.tid # NULL => visited'[p] = {e.tid}
  BY Domains, Zenon DEF BeginSearch

LEMMA ForgetEffect ==
  ASSUME TypeOK, NEW p \in Procs
  PROVE  /\ ForgetSearch(p) => visited'[p] = {} /\ todo'[p] = {} /\ loaded'[p] = {}
         /\ p \in Updaters /\ ForgetLinks(p) =>
              /\ self'[p] = NULL /\ sel'[p] = {} /\ upd'[p] = {} /\ cur'[p] = NULL
              /\ lst'[p] = {}
<1>1. NoPoint.tid = NULL
  BY SMTT(30), Z3T(30) DEF NoPoint
<1>2. ForgetSearch(p) => visited'[p] = {} /\ todo'[p] = {} /\ loaded'[p] = {}
  BY <1>1, BeginEffect, Zenon DEF ForgetSearch
<1>3. p \in Updaters /\ ForgetLinks(p) =>
        /\ self'[p] = NULL /\ sel'[p] = {} /\ upd'[p] = {} /\ cur'[p] = NULL /\ lst'[p] = {}
  BY Domains, ZenonT(30) DEF ForgetLinks
<1>. QED BY <1>2, <1>3, Zenon

LEMMA RepairEffect ==
  ASSUME TypeOK, NEW s, NEW e, NEW w, BeginRepair(s, e, w)
  PROVE  /\ self'[Vac] = s /\ ctx' = w /\ ep'[Vac] = e
         /\ UNCHANGED <<sel, upd, cur, lst>>
         /\ \/ e.tid = s /\ pc'[Vac] = "links" /\ UNCHANGED searchVars
            \/ e.tid # s /\ pc'[Vac] = "search" /\ BeginSearch(Vac, e)
  BY Domains, ProcSets, Zenon DEF BeginRepair, Become

\* What p holds is all that matters, if the others are left alone
LEMMA LocalFrame ==
  ASSUME TypeOK, LocalInv, NEW p \in Procs, Others(p),
         p \in Inserters => InsertLocal(p)', p \in Updaters => LinkLocal(p)',
         SearchLocal(p)', p = Vac => VacuumLocal'
  PROVE  LocalInv'
<1>1. ASSUME NEW r \in Inserters PROVE InsertLocal(r)'
  BY <1>1, ProcSets, ZenonT(30) DEF LocalInv, Others, InsertLocal
<1>2. ASSUME NEW r \in Updaters PROVE LinkLocal(r)'
  <2>1. CASE r # p
    <3>1. /\ pc'[r] = pc[r] /\ loaded'[r] = loaded[r]
          /\ sel'[r] = sel[r] /\ upd'[r] = upd[r] /\ cur'[r] = cur[r] /\ lst'[r] = lst[r]
      BY <1>2, <2>1, ProcSets, Zenon DEF Others
    <3>2. LinkLocal(r)
      BY <1>2, Zenon DEF LocalInv
    <3>. QED BY <3>1, <3>2, SMTT(30), Z3T(30) DEF LinkLocal
  <2>. QED BY <1>2, <2>1, Zenon
<1>3. ASSUME NEW r \in Procs PROVE SearchLocal(r)'
  BY <1>3, ProcSets, Zenon DEF LocalInv, Others, SearchLocal
<1>4. VacuumLocal'
  BY ProcSets, Zenon DEF LocalInv, Others, VacuumLocal, vacVars
<1>. QED BY <1>1, <1>2, <1>3, <1>4, Zenon DEF LocalInv

LEMMA LocalSearch ==
  ASSUME TypeOK, LocalInv, NEW p \in Procs, Search(p), Others(p),
         p \in Scanners \/ p \in Updaters, p \in Updaters => p \notin Scanners
  PROVE  LocalInv'
<1>0. /\ SearchLocal(p) /\ (p \in Updaters => LinkLocal(p)) /\ (p \in Inserters => InsertLocal(p))
      /\ VacuumLocal
  BY Zenon DEF LocalInv
<1>1. ASSUME NEW s \in todo[p], LoadElement(p, s) PROVE LocalInv'
  <2>1. /\ pc[p] \in {"search", "scan"}
        /\ UNCHANGED <<visited, linkVars, heaptid, vacVars>>
        /\ todo'[p] = todo[p] \ {s}
        /\ \/ pc'[p] = "error" /\ loaded' = loaded
           \/ pc' = pc /\ loaded'[p] = loaded[p] \cup {Copy(s)}
    BY <1>1, Domains, Zenon DEF LoadElement, Become
  <2>2. SearchLocal(p)'
    BY <1>0, <2>1, SMTT(30), Z3T(30) DEF SearchLocal, Copy
  <2>3. p \in Updaters => LinkLocal(p)'
    BY <1>0, <2>1, ZenonT(30) DEF LinkLocal, linkVars
  <2>4. p \in Inserters => InsertLocal(p)'
    BY <1>0, <2>1, ZenonT(30) DEF InsertLocal, linkVars
  <2>5. p = Vac => VacuumLocal'
    BY <1>0, <2>1, ZenonT(30) DEF VacuumLocal, Repairing, linkVars, vacVars
  <2>. QED BY <2>2, <2>3, <2>4, <2>5, LocalFrame, ZenonT(30)
<1>2. ASSUME NEW c \in loaded[p], LoadUnvisited(p, c) PROVE LocalInv'
  <2>1. /\ pc[p] \in {"search", "scan"}
        /\ UNCHANGED <<pc, loaded, linkVars, heaptid, vacVars>>
        /\ todo'[p] = NeighborTids(c) \ visited[p]
        /\ visited'[p] = visited[p] \cup (NeighborTids(c) \ visited[p])
    BY <1>2, Domains, ZenonT(30) DEF LoadUnvisited
  <2>2. SearchLocal(p)'
    BY <1>0, <2>1, ZenonT(30) DEF SearchLocal
  <2>3. p \in Updaters => LinkLocal(p)'
    BY <1>0, <2>1, Zenon DEF LinkLocal, linkVars
  <2>4. p \in Inserters => InsertLocal(p)'
    BY <1>0, <2>1, ZenonT(30) DEF InsertLocal, linkVars
  <2>5. p = Vac => VacuumLocal'
    BY <1>0, <2>1, ZenonT(30) DEF VacuumLocal, Repairing, linkVars, vacVars
  <2>. QED BY <2>2, <2>3, <2>4, <2>5, LocalFrame, SMTT(30), Z3T(30)
<1>. QED BY <1>1, <1>2, Zenon DEF Search

LEMMA LocalUpdate ==
  ASSUME TypeOK, LocalInv, NEW p \in Updaters, UpdateNeighbors(p), Others(p)
  PROVE  LocalInv'
<1>0. /\ SearchLocal(p) /\ LinkLocal(p) /\ (p \in Inserters => InsertLocal(p)) /\ VacuumLocal
      /\ p \in Procs
  BY ProcSets, Zenon DEF LocalInv
<1>1. /\ UNCHANGED <<searchVars, heaptid, vacVars, self, sel>>
      /\ pc[p] \in {"links", "load", "link"} /\ pc'[p] \in {"links", "load", "link", "error"}
  BY <1>0, Domains, ProcSets, ZenonT(30) DEF UpdateNeighbors, GetUpdateIndex, LoadElementsForInsert,
     UpdateNeighborOnDisk, Become
<1>2. SearchLocal(p)'
  BY <1>0, <1>1, Zenon DEF SearchLocal, searchVars
<1>3. p \in Inserters => InsertLocal(p)'
  BY <1>0, <1>1, SMTT(30), Z3T(30) DEF InsertLocal, searchVars
<1>4. p = Vac => VacuumLocal'
  BY <1>0, <1>1, ZenonT(30) DEF VacuumLocal, Repairing, searchVars, vacVars
<1>5. ASSUME NEW x \in upd[p], GetUpdateIndex(p, x) PROVE LinkLocal(p)'
  <2>1. pc'[p] = "load" /\ cur'[p] = x /\ UNCHANGED upd
    BY <1>0, <1>5, Domains, ZenonT(30) DEF GetUpdateIndex, Become
  <2>. QED BY <1>0, <1>1, <2>1, SMTT(30), Z3T(30) DEF LinkLocal, searchVars
<1>6. ASSUME LoadElementsForInsert(p) PROVE LinkLocal(p)'
  <2>1. /\ pc[p] = "load"
        /\ \/ /\ pc'[p] \in {"error", "links"} /\ upd'[p] = upd[p] \ {cur[p]}
              /\ cur'[p] = NULL /\ lst'[p] = {}
           \/ pc'[p] = "link" /\ UNCHANGED <<upd, cur, lst>>
    BY <1>0, <1>6, Domains, ZenonT(30) DEF LoadElementsForInsert, Become
  <2>. QED BY <1>0, <1>1, <2>1, SMTT(30), Z3T(30) DEF LinkLocal, searchVars
<1>7. ASSUME UpdateNeighborOnDisk(p) PROVE LinkLocal(p)'
  <2>1. /\ pc'[p] = "links" /\ upd'[p] = upd[p] \ {cur[p]}
        /\ cur'[p] = NULL /\ lst'[p] = {}
    BY <1>0, <1>7, Domains, Zenon DEF UpdateNeighborOnDisk, Become
  <2>. QED BY <1>0, <1>1, <2>1, ZenonT(30) DEF LinkLocal, searchVars
<1>8. LinkLocal(p)'
  BY <1>5, <1>6, <1>7, Zenon DEF UpdateNeighbors
<1>. QED BY <1>0, <1>2, <1>3, <1>4, <1>8, LocalFrame, ZenonT(30)

LEMMA LocalInsert ==
  ASSUME TypeOK, LocalInv, NEW p \in Inserters, Insert(p), Others(p)
  PROVE  LocalInv'
<1>0. /\ SearchLocal(p) /\ LinkLocal(p) /\ InsertLocal(p)
      /\ p \in Procs /\ p \in Updaters /\ p # Vac /\ p \notin Scanners
  BY ProcSets, ProcAssumption, Zenon DEF LocalInv
<1>1. SUFFICES ASSUME ~ Search(p), ~ UpdateNeighbors(p)
               PROVE  SearchLocal(p)' /\ LinkLocal(p)' /\ InsertLocal(p)'
  BY <1>0, LocalFrame, LocalSearch, LocalUpdate, ZenonT(30)
<1>2. CASE InsertStart(p)
  <2>1. /\ pc[p] = "idle" /\ pc'[p] = "lock" /\ heaptid'[p] \in HeapTid
        /\ UNCHANGED <<searchVars, linkVars>>
    BY <1>0, <1>2, Domains, Zenon DEF InsertStart, Become
  <2>. QED BY <1>0, <2>1, ZenonT(30) DEF SearchLocal, LinkLocal, InsertLocal, searchVars, linkVars
<1>3. CASE InsertLockShare(p) \/ InsertLockExclusive(p)
  <2>1. /\ pc[p] \in {"lock", "lockx"}
        /\ UNCHANGED <<self, sel, upd, cur, lst, heaptid>>
        /\ \/ pc'[p] = "lockx" /\ UNCHANGED searchVars
           \/ pc'[p] = "search" /\ BeginSearch(p, entryPoint)
    BY <1>0, <1>3, BecomeEffect, ZenonT(30) DEF InsertLockShare, InsertLockExclusive
  <2>2. CASE UNCHANGED searchVars /\ pc'[p] = "lockx"
    BY <1>0, <2>1, <2>2, ZenonT(30) DEF SearchLocal, LinkLocal, InsertLocal, searchVars
  <2>3. CASE BeginSearch(p, entryPoint) /\ pc'[p] = "search"
    <3>1. todo'[p] = visited'[p] /\ loaded'[p] = {}
      BY <1>0, <2>3, BeginEffect, ZenonT(30)
    <3>. QED BY <1>0, <2>1, <2>3, <3>1, ZenonT(30) DEF SearchLocal, LinkLocal, InsertLocal
  <2>. QED BY <2>1, <2>2, <2>3, Zenon
<1>4. CASE InsertSelect(p)
  <2>1. /\ pc[p] = "search" /\ pc'[p] = "update"
        /\ sel'[p] \in Selections(loaded[p], NULL)
        /\ UNCHANGED <<searchVars, self, upd, cur, lst, heaptid>>
    BY <1>0, <1>4, Domains, ZenonT(30) DEF InsertSelect, Become
  <2>2. \A x \in sel'[p] : \E c \in loaded[p] : c.tid = x
    BY <2>1, ZenonT(30) DEF Selections
  <2>. QED BY <1>0, <2>1, <2>2, ZenonT(30) DEF SearchLocal, LinkLocal, InsertLocal, searchVars
<1>5. CASE (\E s \in sel[p] : AddDuplicateOnDisk(p, s)) \/ InsertFinish(p) \/ InsertAbort(p)
  <2>1. Become(p, "idle") /\ ForgetSearch(p) /\ ForgetLinks(p)
    BY <1>5, Zenon DEF AddDuplicateOnDisk, InsertFinish, InsertAbort
  <2>2. /\ pc'[p] = "idle" /\ visited'[p] = {} /\ todo'[p] = {} /\ loaded'[p] = {}
        /\ self'[p] = NULL /\ sel'[p] = {} /\ upd'[p] = {} /\ cur'[p] = NULL /\ lst'[p] = {}
    BY <1>0, <2>1, BecomeEffect, ForgetEffect, ZenonT(30)
  <2>. QED BY <2>2, SMTT(30), Z3T(30) DEF SearchLocal, LinkLocal, InsertLocal
<1>6. ASSUME NEW s \in Slot, AddElementOnDisk(p, s)
      PROVE  SearchLocal(p)' /\ LinkLocal(p)' /\ InsertLocal(p)'
  <2>1. /\ pc[p] = "update" /\ pc'[p] = "links" /\ self'[p] = s /\ upd'[p] = sel[p]
        /\ UNCHANGED <<searchVars, sel, cur, lst, heaptid>>
    BY <1>0, <1>6, Domains, Zenon DEF AddElementOnDisk, Become
  <2>. QED BY <1>0, <2>1, ZenonT(30) DEF SearchLocal, LinkLocal, InsertLocal, searchVars
<1>. QED BY <1>1, <1>2, <1>3, <1>4, <1>5, <1>6, Zenon DEF Insert, InsertStep

LEMMA LocalScan ==
  ASSUME TypeOK, LocalInv, NEW q \in Scanners, Scan(q), Others(q)
  PROVE  LocalInv'
<1>0. SearchLocal(q) /\ q \in Procs /\ q \notin Updaters /\ q \notin Inserters /\ q # Vac
  BY ProcSets, ProcAssumption, Zenon DEF LocalInv, Updaters
<1>1. SUFFICES ASSUME ~ Search(q) PROVE SearchLocal(q)'
  BY <1>0, LocalFrame, LocalSearch, Zenon
<1>2. CASE ScanStart(q)
  <2>1. todo'[q] = visited'[q] /\ loaded'[q] = {}
    BY <1>0, <1>2, BeginEffect, ZenonT(30) DEF ScanStart
  <2>. QED BY <2>1, SMTT(30), Z3T(30) DEF SearchLocal
<1>3. CASE ScanPause(q)
  <2>1. UNCHANGED <<visited, todo>> /\ \E W : loaded'[q] = loaded[q] \ W
    BY <1>0, <1>3, Domains, Zenon DEF ScanPause
  <2>. QED BY <1>0, <2>1, SMTT(30), Z3T(30) DEF SearchLocal
<1>4. CASE ScanResume(q)
  BY <1>0, <1>4, ZenonT(30) DEF ScanResume, SearchLocal, searchVars
<1>5. CASE ScanEnd(q)
  <2>1. todo'[q] = {} /\ visited'[q] = {} /\ loaded'[q] = {}
    BY <1>0, <1>5, ForgetEffect, Zenon DEF ScanEnd
  <2>. QED BY <2>1, SMTT(30), Z3T(30) DEF SearchLocal
<1>. QED BY <1>1, <1>2, <1>3, <1>4, <1>5, Zenon DEF Scan

LEMMA LocalVacuum ==
  ASSUME TypeOK, LocalInv, Vacuum, Others(Vac)
  PROVE  LocalInv'
<1>0. /\ SearchLocal(Vac) /\ LinkLocal(Vac) /\ VacuumLocal
      /\ Vac \in Procs /\ Vac \in Updaters /\ Vac \notin Inserters /\ Vac \notin Scanners
  BY ProcSets, ProcAssumption, Zenon DEF LocalInv
<1> DEFINE Goal == SearchLocal(Vac)' /\ LinkLocal(Vac)' /\ VacuumLocal'
<1>1. SUFFICES ASSUME ~ Search(Vac), ~ UpdateNeighbors(Vac) PROVE Goal
  BY <1>0, LocalFrame, LocalSearch, LocalUpdate, ZenonT(30)
<1>2. CASE VacuumStart \/ RemoveHeapTids \/ WaitForInserts \/ WaitForInsertsAgain
           \/ ConfirmRepaired \/ WaitForScans \/ MarkDeleted \/ VacuumEnd
  <2>1. /\ pc[Vac] \notin Repairing \cup {"error"}
        /\ pc'[Vac] \notin Repairing \cup {"error", "check", "lock", "lockx"}
        /\ ctx' \in {ctx, "none"} /\ UNCHANGED <<searchVars, linkVars>>
    <3>1. /\ pc[Vac] \in {"idle", "remove", "wait1", "wait2", "confirm", "wait3", "mark", "end"}
          /\ \E w \in {"idle", "remove", "wait1", "ep1", "confirm", "wait3", "mark", "end",
                       "notrepaired"} : Become(Vac, w)
          /\ ctx' \in {ctx, "none"} /\ UNCHANGED <<searchVars, linkVars>>
      BY <1>2, Zenon DEF VacuumStart, RemoveHeapTids, WaitForInserts, WaitForInsertsAgain,
         ConfirmRepaired, WaitForScans, MarkDeleted, VacuumEnd, Advance, ForgetVacuum, vacVars
    <3>2. pc'[Vac] \in {"idle", "remove", "wait1", "ep1", "confirm", "wait3", "mark", "end",
                        "notrepaired"}
      BY <1>0, <3>1, BecomeEffect, Zenon
    <3>. QED BY <3>1, <3>2, ZenonT(30) DEF Repairing
  <2>. QED BY <1>0, <2>1, ZenonT(30) DEF SearchLocal, LinkLocal, VacuumLocal, Repairing, searchVars, linkVars
<1>3. CASE LoadPage \/ CheckElement
  <2>1. /\ pc[Vac] \in {"loop", "check"} /\ UNCHANGED <<searchVars, linkVars, ctx>>
        /\ \/ /\ pc[Vac] = "loop" => blkno <= nslots
              /\ Become(Vac, "check") \/ Become(Vac, "lock")
              /\ UNCHANGED blkno
           \/ \E w \in {"loop", "wait2"} : Become(Vac, w)
    BY <1>3, Zenon DEF LoadPage, CheckElement, Advance
  <2>2. /\ pc[Vac] \in {"loop", "check"} /\ UNCHANGED <<searchVars, linkVars, ctx>>
        /\ \/ /\ pc[Vac] = "loop" => blkno <= nslots
              /\ pc'[Vac] \in {"check", "lock"}
              /\ UNCHANGED blkno
           \/ pc'[Vac] \in {"loop", "wait2"}
    BY <1>0, <2>1, BecomeEffect, Zenon
  <2>3. blkno <= nslots => blkno \in Slot
    BY BoundAssumption, SMTT(30), Z3T(30) DEF TypeOK, DiskType, VacuumType, Slot
  <2>. QED BY <1>0, <2>2, <2>3, Zenon DEF SearchLocal, LinkLocal, VacuumLocal, Repairing, searchVars, linkVars
<1>4. ASSUME NEW s \in Slot, NEW e, NEW w, w # "none", BeginRepair(s, e, w),
             pc[Vac] \in {"ep1", "ep2", "lock", "lockx"}
      PROVE  Goal
  <2>1. /\ self'[Vac] = s /\ ctx' # "none" /\ UNCHANGED <<sel, upd, cur, lst>>
        /\ \/ pc'[Vac] = "links" /\ UNCHANGED searchVars
           \/ /\ pc'[Vac] = "search"
              /\ todo'[Vac] = visited'[Vac] /\ loaded'[Vac] = {}
    BY <1>0, <1>4, RepairEffect, BeginEffect, Zenon
  <2>2. sel[Vac] = {} /\ loaded[Vac] = {} /\ upd[Vac] = {}
    BY <1>0, <1>4, Zenon DEF LinkLocal, VacuumLocal, Repairing
  <2>. QED BY <1>0, <1>4, <2>1, <2>2, Zenon DEF SearchLocal, LinkLocal, VacuumLocal, Repairing, searchVars
<1>5. ASSUME UNCHANGED <<searchVars, linkVars, ctx, blkno>>,
             pc[Vac] \in {"ep1", "ep2", "lock"},
             \/ pc'[Vac] \in {"ep2", "loop", "error"}
             \/ pc[Vac] = "lock" /\ pc'[Vac] = "lockx"
      PROVE  Goal
  BY <1>0, <1>5, Zenon DEF SearchLocal, LinkLocal, VacuumLocal, Repairing, searchVars, linkVars
<1>6. CASE RepairHighestPoint
  <2>1. /\ pc[Vac] = "ep1"
        /\ \/ /\ UNCHANGED <<searchVars, linkVars, ctx, blkno>>
              /\ Become(Vac, "ep2") \/ Become(Vac, "error")
           \/ \E h \in {highestPoint, fallbackPoint} :
                h.tid # NULL /\ BeginRepair(h.tid, entryPoint, "ep1")
    BY <1>6, Zenon DEF RepairHighestPoint
  <2>2. \A h \in {highestPoint, fallbackPoint} : h.tid # NULL => h.tid \in Slot
    BY Points, SMTT(30), Z3T(30) DEF TypeOK, VacuumType
  <2>3. CASE /\ UNCHANGED <<searchVars, linkVars, ctx, blkno>>
             /\ Become(Vac, "ep2") \/ Become(Vac, "error")
    BY <1>0, <1>5, <2>1, <2>3, BecomeEffect, Zenon
  <2>4. ASSUME NEW h \in {highestPoint, fallbackPoint}, h.tid # NULL,
               BeginRepair(h.tid, entryPoint, "ep1")
        PROVE  Goal
    BY <1>4, <2>1, <2>2, <2>4, Zenon
  <2>. QED BY <2>1, <2>3, <2>4, Zenon
<1>7. CASE RepairEntryPoint
  <2>1. /\ pc[Vac] = "ep2"
        /\ \/ /\ UNCHANGED <<searchVars, linkVars, ctx, blkno>>
              /\ Become(Vac, "loop") \/ Become(Vac, "error")
           \/ entryPoint.tid # NULL /\ BeginRepair(entryPoint.tid, hp, "ep2")
    BY <1>7, Zenon DEF RepairEntryPoint
  <2>2. entryPoint.tid # NULL => entryPoint.tid \in Slot
    BY Points, SMTT(30), Z3T(30) DEF TypeOK
  <2>3. CASE /\ UNCHANGED <<searchVars, linkVars, ctx, blkno>>
             /\ Become(Vac, "loop") \/ Become(Vac, "error")
    BY <1>0, <1>5, <2>1, <2>3, BecomeEffect, ZenonT(30)
  <2>4. CASE entryPoint.tid # NULL /\ BeginRepair(entryPoint.tid, hp, "ep2")
    BY <1>4, <2>1, <2>2, <2>4, Zenon
  <2>. QED BY <2>1, <2>3, <2>4, Zenon
<1>8. CASE RepairLockShare \/ RepairLockExclusive
  <2>1. /\ pc[Vac] \in {"lock", "lockx"}
        /\ \/ /\ UNCHANGED <<searchVars, linkVars, ctx, blkno>>
              /\ pc[Vac] = "lock" /\ Become(Vac, "lockx")
           \/ BeginRepair(blkno, entryPoint, "loop")
    BY <1>8, Zenon DEF RepairLockShare, RepairLockExclusive
  <2>2. blkno \in Slot /\ "loop" # "none"
    BY <1>0, <2>1, Zenon DEF VacuumLocal
  <2>. QED BY <1>0, <1>4, <1>5, <2>1, <2>2, BecomeEffect, Zenon
<1>9. CASE OverwriteNeighbors
  <2>1. /\ pc[Vac] = "search" /\ pc'[Vac] = "links"
        /\ sel'[Vac] \in Selections(loaded[Vac], self[Vac]) /\ upd'[Vac] = sel'[Vac]
        /\ UNCHANGED <<searchVars, self, cur, lst, vacVars>>
    BY <1>0, <1>9, Domains, ZenonT(30) DEF OverwriteNeighbors, Become
  <2>2. \A x \in sel'[Vac] : \E c \in loaded[Vac] : c.tid = x
    BY <2>1, Zenon DEF Selections
  <2>. QED BY <1>0, <2>1, <2>2, Zenon DEF SearchLocal, LinkLocal, VacuumLocal, Repairing, searchVars, vacVars
<1>10. CASE RepairFinish \/ VacuumAbort
  <2>1. /\ ForgetSearch(Vac) /\ ForgetLinks(Vac) /\ ctx' = "none"
        /\ \E w \in {"idle", "loop", "wait2", "ep2"} : Become(Vac, w)
    BY <1>10, Zenon DEF RepairFinish, VacuumAbort, Advance, ForgetVacuum
  <2>2. /\ pc'[Vac] \in {"idle", "loop", "wait2", "ep2"} /\ ctx' = "none"
        /\ visited'[Vac] = {} /\ todo'[Vac] = {} /\ loaded'[Vac] = {}
        /\ self'[Vac] = NULL /\ sel'[Vac] = {} /\ upd'[Vac] = {} /\ cur'[Vac] = NULL
        /\ lst'[Vac] = {}
    BY <1>0, <2>1, BecomeEffect, ForgetEffect, Zenon
  <2>. QED BY <2>2, Zenon DEF SearchLocal, LinkLocal, VacuumLocal, Repairing
<1>. QED BY <1>1, <1>2, <1>3, <1>6, <1>7, <1>8, <1>9, <1>10, Zenon
         DEF Vacuum, VacuumLock, VacuumStep

LEMMA LocalStep ==
  ASSUME TypeOK, LocalInv, Next
  PROVE  LocalInv'
<1>1. ASSUME NEW h \in HeapTid, HeapDelete(h) PROVE LocalInv'
  <2>1. UNCHANGED <<pc, searchVars, linkVars, heaptid, vacVars>>
    BY <1>1, Zenon DEF HeapDelete
  <2>. QED BY <2>1, ZenonT(30) DEF LocalInv, InsertLocal, LinkLocal, SearchLocal, VacuumLocal,
           searchVars, linkVars, vacVars
<1>. QED BY <1>1, OthersStep, LocalInsert, LocalScan, LocalVacuum, Zenon DEF Next

LEMMA InitOK ==
  ASSUME Init
  PROVE  TypeOK /\ LocalInv
<1>1. DiskType
  <2>1. /\ nslots \in 0 .. MaxSlots
        /\ heaptids \in [Slot -> SUBSET HeapTid]
        /\ neighbors \in [Slot -> SUBSET Slot]
    BY BoundAssumption, SMTT(30), Z3T(30) DEF Init, Slot, HeapTid
  <2>2. /\ deleted \in [Slot -> BOOLEAN] /\ level \in [Slot -> 0 .. MaxLevel]
        /\ version \in [Slot -> 1 .. MaxVersion] /\ gen \in [Slot -> Nat]
    BY BoundAssumption, SMTT(30), Z3T(30) DEF Init
  <2>. QED BY <2>1, <2>2, ZenonT(30) DEF DiskType
<1>2. entryPoint \in Point
  <2>1. CASE NBuilt = 0
    BY <2>1, Points, Zenon DEF Init
  <2>2. CASE NBuilt # 0
    <3>1. PICK s \in 1 .. NBuilt : entryPoint = [tid |-> s, level |-> level[s]]
      BY <2>2, Zenon DEF Init
    <3>2. s \in Slot
      BY BoundAssumption, SMTT(30), Z3T(30) DEF Slot
    <3>. QED BY <1>1, <3>1, <3>2, Points, Zenon DEF DiskType
  <2>. QED BY <2>1, <2>2, Zenon
<1>3. HeapType
  <2>1. /\ heap = [h \in HeapTid |-> IF h <= NBuilt THEN "live" ELSE "unused"]
        /\ seenBy = [h \in HeapTid |-> {}] /\ heaptid = [p \in Inserters |-> NULL]
    BY ZenonT(30) DEF Init
  <2>. QED BY <2>1, BoundAssumption, SMTT(30), Z3T(30) DEF HeapType, NULL
<1>4. LockType /\ ControlType
  BY ProcSets, Zenon DEF Init, LockType, ControlType, InserterPc, ScannerPc, VacuumPc
<1>5. SearchType /\ LinkType
  BY Points, BoundAssumption, SMTT(30), Z3T(30) DEF Init, SearchType, LinkType, NULL
<1>6. VacuumType
  <2>1. /\ deadTids = {} /\ vdeleted = {}
        /\ highestPoint = NoPoint /\ fallbackPoint = NoPoint /\ hp = NoPoint
        /\ blkno = 1 /\ nextblkno = NULL /\ ctx = "none" /\ vacuums = 0
    BY ZenonT(30) DEF Init
  <2>. QED BY <2>1, Points, BoundAssumption, SMTT(30), Z3T(30) DEF VacuumType, NULL
<1>7. LocalInv
  BY ProcSets, Zenon DEF Init, LocalInv, InsertLocal, LinkLocal, SearchLocal, VacuumLocal, Repairing
<1>. QED BY <1>1, <1>2, <1>3, <1>4, <1>5, <1>6, <1>7, Zenon DEF TypeOK

LEMMA Stutter ==
  ASSUME TypeOK, LocalInv, UNCHANGED vars
  PROVE  TypeOK' /\ LocalInv'
<1>0. UNCHANGED <<diskVars, entryPoint, heapVars, lockVars, pc, searchVars, linkVars, heaptid,
                  resumed, vacVars>>
  BY Zenon DEF vars
<1>1. DiskType' /\ (entryPoint \in Point)' /\ HeapType' /\ LockType'
  BY <1>0, Zenon DEF TypeOK, DiskType, HeapType, LockType, diskVars, heapVars, lockVars
<1>2. ControlType' /\ SearchType' /\ LinkType' /\ VacuumType'
  BY <1>0, Zenon DEF TypeOK, ControlType, SearchType, LinkType, VacuumType, searchVars,
     linkVars, vacVars
<1>3. LocalInv'
  BY <1>0, ZenonT(30) DEF LocalInv, InsertLocal, LinkLocal, SearchLocal, VacuumLocal,
     searchVars, linkVars, vacVars
<1>. QED BY <1>1, <1>2, <1>3, Zenon DEF TypeOK

\* In every reachable state every variable has its type, and the local variables of
\* inserts, scans and the vacuum hold what the program point says: for instance
\* whoever links elements (HnswUpdateNeighborsOnDisk) has an element of its own.
THEOREM TypeCorrect == Spec => [](TypeOK /\ LocalInv)
<1>1. Init => TypeOK /\ LocalInv
  BY InitOK, Zenon
<1>2. TypeOK /\ LocalInv /\ [Next]_vars => (TypeOK /\ LocalInv)'
  <2>1. ASSUME TypeOK, LocalInv, Next PROVE (TypeOK /\ LocalInv)'
    BY <2>1, DiskTypeStep, EntryTypeStep, HeapTypeStep, LockTypeStep, ControlTypeStep,
       SearchTypeStep, LinkTypeStep, VacuumTypeStep, LocalStep, ZenonT(30) DEF TypeOK
  <2>. QED BY <2>1, Stutter, Zenon
<1>. QED BY <1>1, <1>2, PTL DEF Spec

\* An element without heap TIDs is never revived: AddDuplicateOnDisk refuses it, and
\* AddElementOnDisk writes only to a new page or to a slot marked as deleted.
THEOREM NotRevived == Spec => NoRevival
<1>1. TypeOK /\ Next => \A s \in Slot : Empty(s) => heaptids'[s] = {}
  <2>. SUFFICES ASSUME TypeOK, Next, NEW s \in Slot, Empty(s) PROVE heaptids'[s] = {}
    BY SMTT(30), Z3T(30)
  <2>0. /\ heaptids \in [Slot -> SUBSET HeapTid] /\ nslots \in 0 .. MaxSlots
        /\ heaptids[s] = {} /\ s <= nslots /\ ~deleted[s]
    BY ZenonT(30) DEF TypeOK, DiskType, Empty
  <2>1. ASSUME NEW p \in Inserters, NEW t \in sel[p], AddDuplicateOnDisk(p, t)
        PROVE  heaptids'[s] = {}
    <3>1. heaptids[t] # {} /\ \E T : heaptids' = [heaptids EXCEPT ![t] = T]
      BY <2>1, Zenon DEF AddDuplicateOnDisk
    <3>. QED BY <2>0, <3>1, ZenonT(30)
  <2>2. ASSUME NEW p \in Inserters, NEW t \in Slot, AddElementOnDisk(p, t)
        PROVE  heaptids'[s] = {}
    <3>1. (t = nslots + 1 \/ deleted[t]) /\ \E T : heaptids' = [heaptids EXCEPT ![t] = T]
      BY <2>2, Zenon DEF AddElementOnDisk
    <3>2. s # t
      BY <2>0, <3>1, BoundAssumption, SMTT(30), Z3T(30) DEF Slot
    <3>. QED BY <2>0, <3>1, <3>2, ZenonT(30)
  <2>3. ASSUME RemoveHeapTids PROVE heaptids'[s] = {}
    <3>1. \/ heaptids' = heaptids
          \/ heaptids' = [heaptids EXCEPT ![blkno] = Remaining(heaptids[blkno])]
      BY <2>3, Zenon DEF RemoveHeapTids
    <3>. QED BY <2>0, <3>1, Zenon DEF Remaining
  <2>4. (\E p \in Updaters : UpdateNeighborOnDisk(p)) \/ OverwriteNeighbors \/ MarkDeleted
        \/ UNCHANGED diskVars => UNCHANGED heaptids
    BY Zenon DEF UpdateNeighborOnDisk, OverwriteNeighbors, MarkDeleted, diskVars
  <2>. QED BY <2>0, <2>1, <2>2, <2>3, <2>4, DiskWriters, ZenonT(30)
<1>2. TypeOK /\ [Next]_vars => [\A s \in Slot : Empty(s) => heaptids'[s] = {}]_vars
  BY <1>1, Zenon
<1>. QED BY <1>2, TypeCorrect, PTL DEF Spec, NoRevival

-----------------------------------------------------------------------------
(* Mutual exclusion, and who holds which lock when. *)
Active == {"search", "update", "links", "load", "link"}

LockInv ==
  /\ \A p, q \in Procs : p # q /\ updateLock[p] = "exclusive" => updateLock[q] = "none"
  /\ \A p \in Inserters : pc[p] \in Active => updateLock[p] # "none"
  /\ pc[Vac] \in Repairing => updateLock[Vac] # "none"
  /\ pc[Vac] \in Repairing /\ ctx = "ep2" => updateLock[Vac] = "exclusive"
  /\ \A q \in Scanners : pc[q] = "scan" => scanLock[q] # "none"

(* The page chain has every element that was ever added. *)
Chain == \A s \in Slot : deleted[s] => s <= nslots

(* R is a set nobody may free elements of. *)
Protected(R) ==
  /\ R \subseteq 1 .. nslots
  /\ \A s \in R : ~deleted[s] /\ neighbors[s] \subseteq R
  /\ \A s \in Slot : Live(s) => s \in R
  /\ entryPoint.tid # NULL => entryPoint.tid \in R
  /\ \A p \in Updaters : /\ visited[p] \subseteq R
                         /\ lst[p] \subseteq R
                         /\ self[p] # NULL => self[p] \in R
  /\ \A q \in Scanners : pc[q] = "scan" /\ ~resumed[q] => visited[q] \subseteq R
  /\ pc[Vac] \in {"mark", "end"} => \A s \in R : Live(s)

ReachInv == \E R \in SUBSET Slot : Protected(R)

(* The passes of the vacuum. *)
Removed == pc[Vac] \notin {"idle", "remove", "error", "notrepaired"}
Waited  == Removed /\ pc[Vac] # "wait1"
EntryDone == Waited /\ pc[Vac] \notin {"ep1", "ep2"} /\ ctx \notin {"ep1", "ep2"}
Dirty(s) == Live(s) /\ \E t \in neighbors[s] : Empty(t)

(* The points RemoveHeapTids collects, and the slots it has passed. *)
PointInv ==
  /\ pc[Vac] = "remove" =>
       /\ \A s \in Slot : s < blkno /\ Empty(s) => s \in vdeleted
       /\ highestPoint.tid < blkno /\ fallbackPoint.tid < blkno
  /\ pc[Vac] \in {"wait1", "ep1", "ep2"} \/ ctx \in {"ep1", "ep2"} => blkno = 1
  /\ Removed => \A s \in Slot : Empty(s) => s \in vdeleted
  /\ pc[Vac] = "remove" \/ Removed =>
       /\ highestPoint.tid # NULL => Live(highestPoint.tid)
       /\ fallbackPoint.tid # NULL => Live(fallbackPoint.tid)
       /\ highestPoint.tid # NULL => fallbackPoint.tid # highestPoint.tid
       /\ highestPoint.tid = NULL => highestPoint.level = -1
  /\ Removed /\ hp.tid # NULL => Live(hp.tid)
  /\ pc[Vac] \in {"remove", "wait1", "ep1"} => hp.tid = NULL
  /\ pc[Vac] \in {"check", "lock", "lockx"} => blkno <= nslots /\ Live(blkno)

(* After the first barrier only live elements are selected and linked. *)
CleanLocal(p) ==
  /\ \A c \in loaded[p] : c.live => Live(c.tid)
  /\ \A x \in sel[p] : \E c \in loaded[p] : c.live /\ c.tid = x
  /\ self[p] # NULL => Live(self[p])
  /\ pc[p] \in {"links", "load", "link"} => ~Dirty(self[p])

CleanInv == Waited => \A p \in Updaters : CleanLocal(p)

(* The entry point, and the element under repair. *)
EntryRepaired ==
  /\ pc[Vac] = "ep2" /\ hp.tid # NULL => ~Dirty(hp.tid)
  /\ pc[Vac] \in Repairing =>
       /\ ctx = "ep1" => self[Vac] = hp.tid
       /\ ctx = "ep2" => self[Vac] = entryPoint.tid
       /\ ctx = "loop" => self[Vac] = blkno
  /\ EntryDone /\ entryPoint.tid # NULL => Live(entryPoint.tid) /\ ~Dirty(entryPoint.tid)

(* Which elements may still have a neighbor that is being deleted. *)
PagesRepaired ==
  /\ pc[Vac] = "loop" => \A s \in Slot : Dirty(s) => s >= blkno
  /\ pc[Vac] \in {"check", "lock", "lockx"} \/ (pc[Vac] \in Repairing /\ ctx = "loop") =>
       \A s \in Slot : Dirty(s) => s = blkno \/ (nextblkno # NULL /\ s >= nextblkno)
  /\ pc[Vac] \in {"wait2", "confirm", "wait3", "mark", "end"} =>
       \A s \in Slot : ~Dirty(s)

(* After the second barrier updaters come across live elements only. *)
SeenLive ==
  pc[Vac] \in {"confirm", "wait3"} =>
    \A p \in Updaters : \A s \in visited[p] \cup lst[p] : Live(s)

RepairInv == EntryRepaired /\ PagesRepaired /\ SeenLive

IInv == /\ TypeOK /\ LocalInv /\ LockInv /\ Chain /\ PointInv /\ CleanInv /\ RepairInv
        /\ ReachInv /\ NoDeletedLoad

LEMMA LockInsert ==
  ASSUME TypeOK, LockInv, NEW p \in Inserters, Insert(p), Next
  PROVE  LockInv'
<1>0. /\ Others(p) /\ p \in Procs /\ p \notin Scanners /\ p # Vac /\ Vac \in Procs
      /\ Scanners \subseteq Procs /\ Inserters \subseteq Procs
  BY OthersStep, ProcSets, ProcAssumption, Zenon
<1>1. \/ UNCHANGED updateLock /\ (pc'[p] \in Active => pc[p] \in Active)
      \/ CanShare(updateLock, p) /\ updateLock'[p] = "share"
      \/ CanExclude(updateLock, p) /\ updateLock'[p] = "exclusive"
      \/ pc'[p] = "idle" /\ updateLock'[p] = "none"
  <2>1. Search(p) => UNCHANGED updateLock /\ (pc' = pc \/ pc'[p] = "error")
    BY <1>0, Domains, Zenon DEF Search, LoadElement, LoadUnvisited, Become, lockVars
  <2>2. UpdateNeighbors(p) => UNCHANGED updateLock /\ pc[p] \in Active
    BY Zenon DEF UpdateNeighbors, GetUpdateIndex, LoadElementsForInsert, UpdateNeighborOnDisk,
       Active, lockVars
  <2>3. InsertStart(p) \/ InsertSelect(p) \/ (\E s \in Slot : AddElementOnDisk(p, s)) =>
          UNCHANGED updateLock /\ (pc'[p] = "lock" \/ pc[p] \in {"search", "update"})
    BY <1>0, Domains, Zenon DEF InsertStart, InsertSelect, AddElementOnDisk, Become, lockVars
  <2>4. InsertLockShare(p) => \/ UNCHANGED updateLock /\ pc'[p] = "lockx"
                              \/ CanShare(updateLock, p) /\ updateLock'[p] = "share"
    BY <1>0, Domains, Zenon DEF InsertLockShare, Become, Set
  <2>5. InsertLockExclusive(p) => CanExclude(updateLock, p) /\ updateLock'[p] = "exclusive"
    BY <1>0, Domains, Zenon DEF InsertLockExclusive, Set
  <2>6. (\E s \in sel[p] : AddDuplicateOnDisk(p, s)) \/ InsertFinish(p) \/ InsertAbort(p) =>
          pc'[p] = "idle" /\ updateLock'[p] = "none"
    BY <1>0, Domains, Zenon DEF AddDuplicateOnDisk, InsertFinish, InsertAbort, Become, Set
  <2>7. {"search", "update"} \subseteq Active /\ "lock" \notin Active /\ "lockx" \notin Active
        /\ "error" \notin Active
    BY SMTT(30), Z3T(30) DEF Active
  <2>. QED BY <2>1, <2>2, <2>3, <2>4, <2>5, <2>6, <2>7, Zenon DEF Insert, InsertStep
<1>2. /\ UNCHANGED ctx
      /\ \A r \in Procs \ {p} : pc'[r] = pc[r] /\ updateLock'[r] = updateLock[r]
      /\ \A r \in Scanners : scanLock'[r] = scanLock[r]
  BY <1>0, Zenon DEF Others, vacVars
<1>3. "idle" \notin Active
  BY Zenon DEF Active
<1>4. \A q, r \in Procs : q # r /\ updateLock'[q] = "exclusive" => updateLock'[r] = "none"
  BY <1>0, <1>1, <1>2, SMTT(30), Z3T(30) DEF LockInv, CanShare, CanExclude
<1>5. \A r \in Inserters : pc'[r] \in Active => updateLock'[r] # "none"
  BY <1>0, <1>1, <1>2, <1>3, SMTT(30), Z3T(30) DEF LockInv
<1>. QED BY <1>0, <1>2, <1>4, <1>5, ZenonT(30) DEF LockInv

LEMMA LockScan ==
  ASSUME TypeOK, LockInv, NEW q \in Scanners, Scan(q), Next
  PROVE  LockInv'
<1>0. /\ Others(q) /\ q \in Procs /\ q \notin Inserters /\ q # Vac /\ Vac \in Procs
      /\ Inserters \subseteq Procs /\ Scanners \subseteq Procs
  BY OthersStep, ProcSets, ProcAssumption, ZenonT(30)
<1>1. pc'[q] # "scan" \/ scanLock'[q] = "share" \/ (scanLock' = scanLock /\ pc[q] = "scan")
  <2>1. Search(q) => scanLock' = scanLock /\ (pc' = pc \/ pc'[q] = "error")
    BY <1>0, Domains, ZenonT(30) DEF Search, LoadElement, LoadUnvisited, Become, lockVars
  <2>2. ScanStart(q) \/ ScanResume(q) => scanLock'[q] = "share"
    BY <1>0, Domains, Zenon DEF ScanStart, ScanResume, Set
  <2>3. ScanPause(q) \/ ScanEnd(q) => pc'[q] \in {"paused", "idle"}
    BY <1>0, Domains, Zenon DEF ScanPause, ScanEnd, Become
  <2>. QED BY <2>1, <2>2, <2>3, ZenonT(30) DEF Scan
<1>2. UNCHANGED updateLock
  BY RestOwned, Zenon
<1>3. /\ UNCHANGED ctx
      /\ \A r \in Procs \ {q} : pc'[r] = pc[r] /\ scanLock'[r] = scanLock[r]
  BY <1>0, Zenon DEF Others, vacVars
<1>. QED BY <1>0, <1>1, <1>2, <1>3, ZenonT(30) DEF LockInv

LEMMA LockVacuum ==
  ASSUME TypeOK, LocalInv, LockInv, Vacuum, Next
  PROVE  LockInv'
<1>0. /\ Others(Vac) /\ Vac \in Procs /\ Vac \notin Inserters /\ Vac \notin Scanners
      /\ Inserters \subseteq Procs /\ Scanners \subseteq Procs
  BY OthersStep, ProcSets, ProcAssumption, Zenon
<1>1. \/ /\ UNCHANGED updateLock
         /\ pc'[Vac] \in Repairing => pc[Vac] \in Repairing /\ ctx' = ctx
      \/ /\ CanShare(updateLock, Vac) /\ updateLock'[Vac] = "share"
         /\ pc'[Vac] \in Repairing => ctx' # "ep2"
      \/ CanExclude(updateLock, Vac) /\ updateLock'[Vac] = "exclusive"
      \/ pc'[Vac] \notin Repairing /\ updateLock'[Vac] = "none"
  <2>1. Search(Vac) \/ UpdateNeighbors(Vac) \/ OverwriteNeighbors =>
          UNCHANGED <<updateLock, ctx>> /\ pc[Vac] \in {"search", "scan", "links", "load", "link"}
    BY Zenon DEF Search, LoadElement, LoadUnvisited, UpdateNeighbors, GetUpdateIndex,
       LoadElementsForInsert, UpdateNeighborOnDisk, OverwriteNeighbors, lockVars, vacVars
  <2>2. VacuumStart \/ RemoveHeapTids \/ LoadPage \/ CheckElement \/ ConfirmRepaired
        \/ MarkDeleted \/ VacuumEnd \/ WaitForInserts \/ WaitForInsertsAgain \/ WaitForScans =>
          /\ UNCHANGED updateLock
          /\ pc'[Vac] \in {"remove", "wait1", "ep1", "check", "loop", "wait2", "lock", "confirm",
                           "notrepaired", "wait3", "mark", "end", "idle"}
    <3>1. VacuumStart \/ RemoveHeapTids \/ LoadPage \/ CheckElement \/ ConfirmRepaired
          \/ MarkDeleted \/ VacuumEnd \/ WaitForInserts \/ WaitForInsertsAgain \/ WaitForScans =>
            /\ UNCHANGED updateLock
            /\ \E w \in {"remove", "wait1", "ep1", "check", "loop", "wait2", "lock", "confirm",
                         "notrepaired", "wait3", "mark", "end", "idle"} : Become(Vac, w)
      BY Zenon DEF VacuumStart, RemoveHeapTids, LoadPage, CheckElement, ConfirmRepaired,
         MarkDeleted, VacuumEnd, WaitForInserts, WaitForInsertsAgain, WaitForScans, Advance,
         lockVars
    <3>. QED BY <1>0, <3>1, BecomeEffect, Zenon
  <2>3. RepairHighestPoint => \/ UNCHANGED updateLock /\ pc'[Vac] = "ep2"
                              \/ /\ CanShare(updateLock, Vac) /\ updateLock'[Vac] = "share"
                                 /\ pc'[Vac] = "error" \/ ctx' = "ep1"
    BY <1>0, Domains, ZenonT(30) DEF RepairHighestPoint, BeginRepair, Become, Set
  <2>4. RepairLockShare => \/ UNCHANGED updateLock /\ pc'[Vac] = "lockx"
                           \/ /\ CanShare(updateLock, Vac) /\ updateLock'[Vac] = "share"
                              /\ ctx' = "loop"
    BY <1>0, Domains, ZenonT(30) DEF RepairLockShare, BeginRepair, Become, Set
  <2>5. RepairEntryPoint => \/ UNCHANGED updateLock /\ pc'[Vac] = "loop"
                            \/ CanExclude(updateLock, Vac) /\ updateLock'[Vac] = "exclusive"
    BY <1>0, Domains, Zenon DEF RepairEntryPoint, BeginRepair, Become, Set
  <2>6. RepairLockExclusive => CanExclude(updateLock, Vac) /\ updateLock'[Vac] = "exclusive"
    BY <1>0, Domains, Zenon DEF RepairLockExclusive, Set
  <2>7. RepairFinish \/ VacuumAbort =>
          updateLock'[Vac] = "none" /\ pc'[Vac] \in {"idle", "loop", "wait2", "ep2"}
    BY <1>0, Domains, ZenonT(30) DEF RepairFinish, VacuumAbort, Advance, Become, Set
  <2>8. pc[Vac] # "scan"
    BY SMTT(30), Z3T(30) DEF TypeOK, ControlType, VacuumPc
  <2>10. {"remove", "wait1", "ep1", "ep2", "check", "loop", "wait2", "lock", "lockx", "confirm",
          "notrepaired", "wait3", "mark", "end", "idle", "error"} \cap Repairing = {}
    BY SMTT(30), Z3T(30) DEF Repairing
  <2>11. CASE Search(Vac) \/ UpdateNeighbors(Vac) \/ OverwriteNeighbors
    BY <2>1, <2>8, <2>11, ZenonT(30) DEF Repairing
  <2>12. CASE RepairHighestPoint
    BY <2>3, <2>12, Zenon DEF Repairing
  <2>13. CASE RepairLockShare
    BY <2>4, <2>13, Zenon DEF Repairing
  <2>14. CASE RepairEntryPoint
    BY <2>5, <2>14, ZenonT(30) DEF Repairing
  <2>. QED BY <2>2, <2>6, <2>7, <2>10, <2>11, <2>12, <2>13, <2>14, ZenonT(30)
           DEF Vacuum, VacuumLock, VacuumStep
<1>2. UNCHANGED scanLock
  BY RestOwned, Zenon
<1>3. \A r \in Procs \ {Vac} : pc'[r] = pc[r] /\ updateLock'[r] = updateLock[r]
  BY <1>0, Zenon DEF Others
<1>4. \A q, r \in Procs : q # r /\ updateLock'[q] = "exclusive" => updateLock'[r] = "none"
  BY <1>0, <1>1, <1>3, SMTT(30), Z3T(30) DEF LockInv, CanShare, CanExclude
<1>5. pc'[Vac] \in Repairing => updateLock'[Vac] # "none"
  BY <1>1, Zenon DEF LockInv
<1>6. pc'[Vac] \in Repairing /\ ctx' = "ep2" => updateLock'[Vac] = "exclusive"
  BY <1>1, Zenon DEF LockInv
<1>. QED BY <1>0, <1>2, <1>3, <1>4, <1>5, <1>6, Zenon DEF LockInv

LEMMA LockStep ==
  ASSUME TypeOK, LocalInv, LockInv, Next
  PROVE  LockInv'
<1>1. ASSUME NEW h \in HeapTid, HeapDelete(h) PROVE LockInv'
  BY <1>1, Zenon DEF HeapDelete, LockInv, lockVars, vacVars
<1>. QED BY <1>1, LockInsert, LockScan, LockVacuum, Zenon DEF Next

LEMMA ChainStep ==
  ASSUME TypeOK, LocalInv, Chain, Next
  PROVE  Chain'
<1>0. /\ deleted \in [Slot -> BOOLEAN] /\ nslots \in 0 .. MaxSlots
  BY Zenon DEF TypeOK, DiskType
<1>1. CASE UNCHANGED <<nslots, deleted>>
  BY <1>1, Zenon DEF Chain
<1>2. ASSUME NEW p \in Inserters, NEW t \in Slot, AddElementOnDisk(p, t) PROVE Chain'
  <2>1. /\ nslots' = IF t > nslots THEN t ELSE nslots
        /\ deleted' = [deleted EXCEPT ![t] = FALSE]
    BY <1>2, Zenon DEF AddElementOnDisk
  <2>. QED BY <1>0, <2>1, SMTT(30), Z3T(30) DEF Chain, Slot
<1>3. CASE MarkDeleted
  <2>1. /\ UNCHANGED nslots
        /\ UNCHANGED deleted \/ (blkno <= nslots /\ deleted' = [deleted EXCEPT ![blkno] = TRUE])
    BY <1>3, Zenon DEF MarkDeleted
  <2>. QED BY <1>0, <2>1, Zenon DEF Chain
<1>4. RemoveHeapTids \/ (\E p \in Updaters : UpdateNeighborOnDisk(p)) \/ OverwriteNeighbors
        \/ (\E p \in Inserters : \E t \in sel[p] : AddDuplicateOnDisk(p, t))
        \/ UNCHANGED diskVars
        => UNCHANGED <<nslots, deleted>>
  BY Zenon DEF RemoveHeapTids, UpdateNeighborOnDisk, OverwriteNeighbors, AddDuplicateOnDisk, diskVars
<1>. QED BY <1>1, <1>2, <1>3, <1>4, DiskWriters, Zenon

\* Only RemoveHeapTids takes the last heap TID of an element.
LEMMA Monotone ==
  ASSUME TypeOK, LocalInv, Chain, Next, ~RemoveHeapTids
  PROVE  /\ \A s \in Slot : Live(s) => Live(s)'
         /\ \A s \in Slot : Empty(s)' => Empty(s)
         /\ nslots <= nslots'
<1>0. /\ heaptids \in [Slot -> SUBSET HeapTid] /\ deleted \in [Slot -> BOOLEAN]
      /\ nslots \in 0 .. MaxSlots
  BY Zenon DEF TypeOK, DiskType
<1> DEFINE Goal == /\ \A s \in Slot : Live(s) => Live(s)'
                   /\ \A s \in Slot : Empty(s)' => Empty(s)
                   /\ nslots <= nslots'
<1>1. CASE UNCHANGED <<nslots, heaptids, deleted>>
  BY <1>0, <1>1, SMTT(30), Z3T(30) DEF Live, Empty
<1>2. ASSUME NEW p \in Inserters, NEW t \in sel[p], AddDuplicateOnDisk(p, t) PROVE Goal
  <2>1. /\ heaptids[t] # {} /\ heaptids' = [heaptids EXCEPT ![t] = @ \cup {heaptid[p]}]
        /\ UNCHANGED <<nslots, deleted>>
    BY <1>2, Zenon DEF AddDuplicateOnDisk
  <2>. QED BY <1>0, <2>1, SMTT(30), Z3T(30) DEF Live, Empty
<1>3. ASSUME NEW p \in Inserters, NEW t \in Slot, AddElementOnDisk(p, t) PROVE Goal
  <2>1. /\ t = nslots + 1 \/ deleted[t]
        /\ nslots' = IF t > nslots THEN t ELSE nslots
        /\ heaptids' = [heaptids EXCEPT ![t] = {heaptid[p]}]
        /\ deleted' = [deleted EXCEPT ![t] = FALSE]
    BY <1>3, Zenon DEF AddElementOnDisk
  <2>2. nslots <= nslots' /\ \A s \in Slot \ {t} : s <= nslots' => s <= nslots
    <3>1. t \in Int /\ nslots \in Int /\ Slot \subseteq Int
      BY <1>0, BoundAssumption, SMTT(30), Z3T(30) DEF Slot
    <3>2. t > nslots => t = nslots + 1
      BY <2>1, <3>1, SMTT(30), Z3T(30) DEF Chain
    <3>. QED BY <2>1, <3>1, <3>2, SMTT(30), Z3T(30)
  <2>. QED BY <1>0, <2>1, <2>2, Zenon DEF Live, Empty
<1>4. CASE MarkDeleted
  <2>1. /\ UNCHANGED <<nslots, heaptids>>
        /\ UNCHANGED deleted \/ deleted' = [deleted EXCEPT ![blkno] = TRUE]
    BY <1>4, Zenon DEF MarkDeleted
  <2>. QED BY <1>0, <2>1, SMTT(30), Z3T(30) DEF Live, Empty
<1>5. (\E p \in Updaters : UpdateNeighborOnDisk(p)) \/ OverwriteNeighbors \/ UNCHANGED diskVars
        => UNCHANGED <<nslots, heaptids, deleted>>
  BY Zenon DEF UpdateNeighborOnDisk, OverwriteNeighbors, diskVars
<1>. QED BY <1>1, <1>2, <1>3, <1>4, <1>5, DiskWriters, Zenon

LEMMA Selected ==
  ASSUME NEW L \in SUBSET Copies, NEW me, NEW S \in Selections(L, me), NEW x \in S
  PROVE  \E c \in L : c.live /\ c.tid = x
  BY SMTT(30), Z3T(30) DEF Selections

\* Once the inserts in flight at the removal are gone, no element gets a neighbor that
\* is being deleted.
LEMMA NoNewDirty ==
  ASSUME TypeOK, LocalInv, Chain, CleanInv, Next, Waited
  PROVE  /\ \A s \in Slot : Live(s) => Live(s)'
         /\ \A s \in Slot : Empty(s)' => Empty(s)
         /\ \A s \in Slot : Dirty(s)' => Dirty(s)
<1>0. /\ ~RemoveHeapTids
      /\ \A s \in Slot : Live(s) => Live(s)'
      /\ \A s \in Slot : Empty(s)' => Empty(s)
  <2>1. ~RemoveHeapTids
    BY SMTT(30), Z3T(30) DEF Waited, Removed, RemoveHeapTids
  <2>. QED BY <2>1, Monotone, ZenonT(30)
<1>. SUFFICES \A s \in Slot : Dirty(s)' => Dirty(s)
  BY <1>0, Zenon
<1>1. /\ DiskType /\ SearchType /\ LinkType
      /\ \A p \in Updaters : \A c \in loaded[p] : c.live => Live(c.tid)
      /\ \A p \in Updaters : \A x \in sel[p] : \E c \in loaded[p] : c.live /\ c.tid = x
      /\ \A p \in Updaters : self[p] # NULL => Live(self[p])
  BY Zenon DEF TypeOK, CleanInv, CleanLocal
<1>2. \A s \in Slot : Live(s)' => ~Empty(s)'
  BY Zenon DEF Live, Empty
<1>3. \A p \in Updaters : \A x \in sel[p] : x \in Slot /\ Live(x)'
  BY <1>0, <1>1, ZenonT(30) DEF LinkType
<1> DEFINE Goal == \A s \in Slot : Dirty(s)' => Dirty(s)
<1>4. ASSUME \A s \in Slot : Live(s)' /\ s \in Slot => Live(s),
             \A s \in Slot : \A t \in neighbors'[s] : t \in neighbors[s] \/ Live(t)'
      PROVE  Goal
  <2>1. neighbors' \in [Slot -> SUBSET Slot]
    BY DiskTypeStep, Zenon DEF DiskType
  <2>. QED BY <1>0, <1>2, <1>4, <2>1, Zenon DEF Dirty
<1>5. CASE UNCHANGED diskVars
  BY <1>4, <1>5, Zenon DEF diskVars, Live
<1>6. ASSUME NEW p \in Inserters, NEW t \in sel[p], AddDuplicateOnDisk(p, t) PROVE Goal
  <2>1. /\ heaptids[t] # {} /\ heaptids' = [heaptids EXCEPT ![t] = @ \cup {heaptid[p]}]
        /\ UNCHANGED neighbors
    BY <1>6, Zenon DEF AddDuplicateOnDisk
  <2>2. \A s \in Slot : Live(s)' => Live(s)
    BY <1>1, <2>1, ZenonT(30) DEF DiskType, Live
  <2>. QED BY <1>4, <2>1, <2>2, Zenon
<1>7. ASSUME NEW p \in Inserters, NEW t \in Slot, AddElementOnDisk(p, t) PROVE Goal
  <2>1. /\ heaptids' = [heaptids EXCEPT ![t] = {heaptid[p]}]
        /\ neighbors' = [neighbors EXCEPT ![t] = sel[p]]
    BY <1>7, Zenon DEF AddElementOnDisk
  <2>2. p \in Updaters
    BY ProcSets, Zenon
  <2>3. neighbors'[t] = sel[p] /\ \A s \in Slot \ {t} : neighbors'[s] = neighbors[s]
                                                       /\ heaptids'[s] = heaptids[s]
    BY <1>1, <2>1, ZenonT(30) DEF DiskType
  <2>4. ~Dirty(t)'
    BY <1>2, <1>3, <2>2, <2>3, Zenon DEF Dirty
  <2>5. ASSUME NEW s \in Slot, s # t, Dirty(s)' PROVE Dirty(s)
    <3>1. neighbors[s] \subseteq Slot
      BY <1>1, Zenon DEF DiskType
    <3>. QED BY <1>0, <2>3, <2>5, <3>1, Zenon DEF Dirty, Live
  <2>. QED BY <2>4, <2>5, Zenon
<1>8. ASSUME NEW p \in Updaters, UpdateNeighborOnDisk(p) PROVE Goal
  <2>1. PICK x, e :
          /\ x = cur[p] /\ e = self[p] /\ pc[p] = "link"
          /\ \E N \in Linked(x, e, lst[p], victim[p], p = Vac) :
               neighbors' = [neighbors EXCEPT ![x] = N]
          /\ UNCHANGED heaptids
    BY <1>8, Zenon DEF UpdateNeighborOnDisk
  <2>2. x \in Slot /\ e \in Slot /\ e # NULL
    BY <2>1, LocalFacts, SMTT(30), Z3T(30) DEF Slot, NULL
  <2>3. PICK N \in Linked(x, e, lst[p], victim[p], p = Vac) :
          neighbors' = [neighbors EXCEPT ![x] = N]
    BY <2>1, Zenon
  <2>31. N \subseteq neighbors[x] \cup {e}
    BY <2>2, <2>3, LinkedBound, ZenonT(30)
  <2>4. Live(e)'
    BY <1>0, <1>1, <2>1, <2>2, ZenonT(30)
  <2>5. \A s \in Slot : \A t \in neighbors'[s] : t \in neighbors[s] \/ Live(t)'
    <3>. SUFFICES ASSUME NEW s \in Slot, NEW t \in neighbors'[s] PROVE t \in neighbors[s] \/ t = e
      BY <2>4, Zenon
    <3>. QED BY <1>1, <2>2, <2>3, <2>31, Zenon DEF DiskType
  <2>. QED BY <1>4, <2>1, <2>5, Zenon DEF Live
<1>9. CASE OverwriteNeighbors
  <2>1. PICK e, S :
          /\ e = self[Vac] /\ S \in Selections(loaded[Vac], e)
          /\ neighbors' = [neighbors EXCEPT ![e] = S]
          /\ UNCHANGED heaptids
    BY <1>9, Zenon DEF OverwriteNeighbors
  <2>2. \A t \in S : t \in Slot /\ Live(t)'
    <3>1. Vac \in Updaters /\ loaded[Vac] \in SUBSET Copies
      BY <1>1, ProcSets, Zenon DEF SearchType
    <3>2. \A t \in S : \E c \in loaded[Vac] : c.live /\ c.tid = t
      BY <2>1, <3>1, Selected, Zenon
    <3>3. \A t \in S : t \in Slot /\ Live(t)
      BY <1>1, <3>1, <3>2, CopiesType, ZenonT(30)
    <3>. QED BY <1>0, <3>3, Zenon
  <2>3. \A s \in Slot : \A t \in neighbors'[s] : t \in neighbors[s] \/ Live(t)'
    <3>. SUFFICES ASSUME NEW s \in Slot, NEW t \in neighbors'[s] PROVE t \in neighbors[s] \/ t \in S
      BY <2>2, Zenon
    <3>. QED BY <1>1, <2>1, Zenon DEF DiskType
  <2>. QED BY <1>4, <2>1, <2>3, Zenon DEF Live
<1>10. CASE MarkDeleted
  <2>1. /\ UNCHANGED heaptids
        /\ UNCHANGED neighbors \/ neighbors' = [neighbors EXCEPT ![blkno] = {}]
    BY <1>10, Zenon DEF MarkDeleted
  <2>2. \A s \in Slot : \A t \in neighbors'[s] : t \in neighbors[s]
    BY <1>1, <2>1, SMTT(30), Z3T(30) DEF DiskType
  <2>. QED BY <1>4, <2>1, <2>2, Zenon DEF Live
<1>. QED BY <1>0, <1>5, <1>6, <1>7, <1>8, <1>9, <1>10, DiskWriters, ZenonT(30)

-----------------------------------------------------------------------------
\* A step of another backend leaves the vacuum's own state alone
LEMMA NotVacuum ==
  ASSUME TypeOK, Next, ~Vacuum
  PROVE  /\ UNCHANGED vacVars
         /\ pc'[Vac] = pc[Vac] /\ updateLock'[Vac] = updateLock[Vac]
         /\ visited'[Vac] = visited[Vac] /\ todo'[Vac] = todo[Vac] /\ loaded'[Vac] = loaded[Vac]
         /\ ep'[Vac] = ep[Vac] /\ newLevel'[Vac] = newLevel[Vac] /\ self'[Vac] = self[Vac]
         /\ sel'[Vac] = sel[Vac] /\ upd'[Vac] = upd[Vac] /\ cur'[Vac] = cur[Vac]
         /\ lst'[Vac] = lst[Vac]
<1>1. Vac \in Procs /\ Vac \in Updaters
  BY ProcSets, Zenon
<1>2. ASSUME NEW p \in Inserters \cup Scanners, Others(p)
      PROVE  /\ UNCHANGED vacVars
             /\ pc'[Vac] = pc[Vac] /\ updateLock'[Vac] = updateLock[Vac]
             /\ visited'[Vac] = visited[Vac] /\ todo'[Vac] = todo[Vac]
             /\ loaded'[Vac] = loaded[Vac]
             /\ ep'[Vac] = ep[Vac] /\ newLevel'[Vac] = newLevel[Vac] /\ self'[Vac] = self[Vac]
             /\ sel'[Vac] = sel[Vac] /\ upd'[Vac] = upd[Vac] /\ cur'[Vac] = cur[Vac]
             /\ lst'[Vac] = lst[Vac]
  <2>1. p # Vac /\ Vac \in Procs \ {p} /\ Vac \in Updaters \ {p}
    BY <1>1, ProcAssumption, Zenon
  <2>. QED BY <1>2, <2>1, Zenon DEF Others
<1>3. ASSUME NEW h \in HeapTid, HeapDelete(h)
      PROVE  UNCHANGED <<vacVars, pc, lockVars, searchVars, linkVars>>
  BY <1>3, Zenon DEF HeapDelete
<1>4. (\E h \in HeapTid : HeapDelete(h)) \/ \E p \in Inserters \cup Scanners : Others(p)
  BY OthersStep, Zenon DEF Next
<1>. QED BY <1>2, <1>3, <1>4, Zenon DEF lockVars, searchVars, linkVars

\* What a step other than RemoveHeapTids has to leave alone for PointInv
LEMMA PointKeep ==
  ASSUME TypeOK, PointInv,
         \A s \in Slot : Live(s) => Live(s)',
         \A s \in Slot : Empty(s)' => Empty(s),
         nslots <= nslots', nslots' \in 0 .. MaxSlots,
         UNCHANGED <<vdeleted, highestPoint, fallbackPoint>>,
         \/ hp' = hp
         \/ /\ hp' = highestPoint \/ hp' = fallbackPoint
            /\ Removed /\ pc'[Vac] \notin {"remove", "wait1", "ep1"},
         pc'[Vac] = "remove" => pc[Vac] = "remove" /\ blkno' = blkno,
         Removed' => Removed,
         pc'[Vac] \in {"wait1", "ep1"} => pc[Vac] \in {"wait1", "ep1"},
         pc'[Vac] \in {"wait1", "ep1", "ep2"} \/ ctx' \in {"ep1", "ep2"} =>
            blkno' = blkno /\ (pc[Vac] \in {"wait1", "ep1", "ep2"} \/ ctx \in {"ep1", "ep2"}),
         pc'[Vac] \in {"check", "lock", "lockx"} =>
            blkno' = blkno /\ blkno <= nslots /\ blkno \in Slot /\ Live(blkno)
  PROVE  PointInv'
<1>0. /\ highestPoint \in Point /\ fallbackPoint \in Point /\ hp \in Point
      /\ nslots \in 0 .. MaxSlots /\ blkno \in 1 .. (MaxSlots + 1)
  BY Zenon DEF TypeOK, VacuumType, DiskType
<1>1. /\ highestPoint.tid # NULL => highestPoint.tid \in Slot
      /\ fallbackPoint.tid # NULL => fallbackPoint.tid \in Slot
      /\ hp.tid # NULL => hp.tid \in Slot
  BY <1>0, Points, Zenon
<1>2. pc'[Vac] = "remove" =>
        /\ \A s \in Slot : s < blkno' /\ Empty(s)' => s \in vdeleted'
        /\ highestPoint'.tid < blkno' /\ fallbackPoint'.tid < blkno'
  BY Zenon DEF PointInv
<1>3. pc'[Vac] \in {"wait1", "ep1", "ep2"} \/ ctx' \in {"ep1", "ep2"} => blkno' = 1
  BY Zenon DEF PointInv
<1>4. Removed' => \A s \in Slot : Empty(s)' => s \in vdeleted'
  BY Zenon DEF PointInv
<1>5. pc'[Vac] = "remove" \/ Removed' =>
        /\ highestPoint'.tid # NULL => heaptids'[highestPoint'.tid] # {}
        /\ fallbackPoint'.tid # NULL => heaptids'[fallbackPoint'.tid] # {}
        /\ highestPoint'.tid # NULL => fallbackPoint'.tid # highestPoint'.tid
        /\ highestPoint'.tid = NULL => highestPoint'.level = -1
  <2>1. pc'[Vac] = "remove" \/ Removed' => pc[Vac] = "remove" \/ Removed
    BY Zenon
  <2>2. \A s \in Slot : heaptids[s] # {} => heaptids'[s] # {}
    BY Zenon DEF Live
  <2>. QED BY <1>1, <2>1, <2>2, ZenonT(30) DEF PointInv, Live
<1>6. Removed' /\ hp'.tid # NULL => heaptids'[hp'.tid] # {}
  <2>2. \A s \in Slot : heaptids[s] # {} => heaptids'[s] # {}
    BY Zenon DEF Live
  <2>3. CASE hp' = hp
    BY <1>1, <2>2, <2>3, Zenon DEF PointInv, Live
  <2>4. CASE Removed /\ (hp' = highestPoint \/ hp' = fallbackPoint)
    BY <1>1, <2>2, <2>4, Zenon DEF PointInv, Live
  <2>. QED BY <2>3, <2>4, ZenonT(30)
<1>7. pc'[Vac] \in {"remove", "wait1", "ep1"} => hp'.tid = NULL
  <2>1. pc'[Vac] \in {"remove", "wait1", "ep1"} => pc[Vac] \in {"remove", "wait1", "ep1"}
    BY Zenon
  <2>. QED BY <2>1, Zenon DEF PointInv
<1>8. pc'[Vac] \in {"check", "lock", "lockx"} => blkno' <= nslots' /\ heaptids'[blkno'] # {}
  <2>1. pc'[Vac] \in {"check", "lock", "lockx"} => heaptids'[blkno'] # {}
    BY Zenon DEF Live
  <2>2. pc'[Vac] \in {"check", "lock", "lockx"} => blkno' <= nslots'
    BY <1>0, SMTT(30), Z3T(30)
  <2>. QED BY <2>1, <2>2, Zenon
<1>. QED BY <1>2, <1>3, <1>4, <1>5, <1>6, <1>7, <1>8, ZenonT(30) DEF PointInv, Live

LEMMA PointRemove ==
  ASSUME TypeOK, LocalInv, PointInv, RemoveHeapTids
  PROVE  PointInv'
<1> DEFINE left == Remaining(heaptids[blkno])
           next == NextPage(blkno)
<1>0. /\ highestPoint \in Point /\ fallbackPoint \in Point
      /\ nslots \in 0 .. MaxSlots /\ blkno \in 1 .. (MaxSlots + 1)
      /\ heaptids \in [Slot -> SUBSET HeapTid] /\ level \in [Slot -> 0 .. MaxLevel]
      /\ MaxSlots \in Nat
  BY BoundAssumption, Zenon DEF TypeOK, VacuumType, DiskType
<1>1. /\ pc[Vac] = "remove" /\ ctx = "none" /\ ctx' = ctx /\ hp' = hp /\ nslots' = nslots
      /\ deleted' = deleted
      /\ pc'[Vac] = (IF next = NULL THEN "wait1" ELSE "remove")
      /\ blkno' = (IF next = NULL THEN 1 ELSE next)
  <2>1. pc[Vac] = "remove" /\ Advance(next, "remove", "wait1")
        /\ UNCHANGED <<hp, nslots, ctx, deleted>>
    BY Zenon DEF RemoveHeapTids
  <2>2. pc'[Vac] = (IF next = NULL THEN "wait1" ELSE "remove")
        /\ blkno' = (IF next = NULL THEN 1 ELSE next)
    BY <2>1, BecomeEffect, ProcSets, ZenonT(30) DEF Advance
  <2>3. ctx = "none"
    BY <2>1, ZenonT(30) DEF LocalInv, VacuumLocal, Repairing
  <2>. QED BY <2>1, <2>2, <2>3, Zenon
<1>2. /\ \A s \in Slot : s < blkno /\ Empty(s) => s \in vdeleted
      /\ highestPoint.tid < blkno /\ fallbackPoint.tid < blkno
      /\ highestPoint.tid # NULL => heaptids[highestPoint.tid] # {}
      /\ fallbackPoint.tid # NULL => heaptids[fallbackPoint.tid] # {}
      /\ highestPoint.tid # NULL => fallbackPoint.tid # highestPoint.tid
      /\ highestPoint.tid = NULL => highestPoint.level = -1
      /\ hp.tid = NULL
  BY <1>1, Zenon DEF PointInv, Live
<1>3. /\ highestPoint.tid \in 0 .. MaxSlots /\ fallbackPoint.tid \in 0 .. MaxSlots
      /\ highestPoint.tid # NULL => highestPoint.tid \in Slot
      /\ fallbackPoint.tid # NULL => fallbackPoint.tid \in Slot
      /\ highestPoint.level \in -1 .. MaxLevel /\ fallbackPoint.level \in -1 .. MaxLevel
  BY <1>0, Points, ZenonT(30)
<1>4. /\ \A s \in Slot : s < blkno' \/ pc'[Vac] = "wait1" => s <= blkno \/ s > nslots
      /\ pc'[Vac] = "remove" => blkno' = blkno + 1
      /\ pc'[Vac] = "wait1" => blkno' = 1
  BY <1>0, <1>1, SMTT(30), Z3T(30) DEF NextPage, NULL, Slot
<1> DEFINE Kept == UNCHANGED <<heaptids, vdeleted, highestPoint, fallbackPoint>>
           Changed == /\ heaptids' = [heaptids EXCEPT ![blkno] = left]
                      /\ vdeleted' = IF left = {} THEN vdeleted \cup {blkno} ELSE vdeleted
<1>5. (blkno > nslots /\ Kept) \/ (~(blkno > nslots) /\ Changed)
  BY Zenon DEF RemoveHeapTids
<1>6. \A s \in Slot : s < blkno => heaptids'[s] = heaptids[s]
  BY <1>0, <1>5, SMTT(30), Z3T(30)
<1>7. \A s \in Slot : (s < blkno' \/ pc'[Vac] = "wait1") /\ Empty(s)' => s \in vdeleted'
  <2>1. CASE Kept /\ blkno > nslots
    BY <1>0, <1>1, <1>2, <1>4, <2>1, SMTT(30), Z3T(30) DEF Empty, Slot
  <2>2. CASE Changed /\ ~(blkno > nslots)
    <3>. SUFFICES ASSUME NEW s \in Slot, s < blkno' \/ pc'[Vac] = "wait1", Empty(s)'
                  PROVE  s \in vdeleted'
      BY Zenon
    <3>0. nslots' = nslots /\ UNCHANGED deleted
      BY <1>1, Zenon
    <3>1. s <= blkno /\ heaptids'[s] = {} /\ s <= nslots /\ ~deleted[s]
      BY <1>0, <1>4, <3>0, SMTT(30), Z3T(30) DEF Empty, Slot
    <3>2. CASE s = blkno
      <4>1. heaptids'[s] = left
        BY <1>0, <2>2, <3>2, Zenon
      <4>. QED BY <2>2, <3>1, <3>2, <4>1, ZenonT(30)
    <3>3. CASE s < blkno
      <4>1. heaptids[s] = {} /\ Empty(s)
        BY <1>6, <3>1, <3>3, ZenonT(30) DEF Empty
      <4>2. s \in vdeleted
        BY <1>2, <3>3, <4>1, Zenon
      <4>. QED BY <2>2, <4>2, Zenon
    <3>. QED BY <1>0, <3>1, <3>2, <3>3, SMTT(30), Z3T(30) DEF Slot
  <2>. QED BY <1>5, <2>1, <2>2, ZenonT(30)
<1>8. /\ highestPoint'.tid < blkno + 1 /\ fallbackPoint'.tid < blkno + 1
      /\ highestPoint'.tid # NULL => heaptids'[highestPoint'.tid] # {}
      /\ fallbackPoint'.tid # NULL => heaptids'[fallbackPoint'.tid] # {}
      /\ highestPoint'.tid # NULL => fallbackPoint'.tid # highestPoint'.tid
      /\ highestPoint'.tid = NULL => highestPoint'.level = -1
  <2>0. /\ highestPoint.tid # NULL => heaptids'[highestPoint.tid] # {}
        /\ fallbackPoint.tid # NULL => heaptids'[fallbackPoint.tid] # {}
        /\ highestPoint.tid < blkno + 1 /\ fallbackPoint.tid < blkno + 1
    BY <1>0, <1>2, <1>3, <1>6, SMTT(30), Z3T(30)
  <2>1. CASE highestPoint' = highestPoint /\ fallbackPoint' = fallbackPoint
    BY <1>2, <2>0, <2>1, Zenon
  <2>2. ASSUME left # {}, blkno <= nslots,
               \/ /\ highestPoint' = [tid |-> blkno, level |-> level[blkno]]
                  /\ fallbackPoint' = (IF highestPoint.tid # NULL THEN highestPoint
                                       ELSE fallbackPoint)
               \/ /\ highestPoint' = highestPoint /\ ~(level[blkno] > highestPoint.level)
                  /\ fallbackPoint' = [tid |-> blkno, level |-> level[blkno]]
        PROVE  /\ highestPoint'.tid < blkno + 1 /\ fallbackPoint'.tid < blkno + 1
               /\ highestPoint'.tid # NULL => heaptids'[highestPoint'.tid] # {}
               /\ fallbackPoint'.tid # NULL => heaptids'[fallbackPoint'.tid] # {}
               /\ highestPoint'.tid # NULL => fallbackPoint'.tid # highestPoint'.tid
               /\ highestPoint'.tid = NULL => highestPoint'.level = -1
    <3>1. blkno \in Slot /\ heaptids'[blkno] # {} /\ level[blkno] >= 0
      BY <1>0, <1>5, <2>2, SMTT(30), Z3T(30) DEF Slot
    <3>2. CASE highestPoint' = [tid |-> blkno, level |-> level[blkno]]
               /\ fallbackPoint' = (IF highestPoint.tid # NULL THEN highestPoint
                                    ELSE fallbackPoint)
      BY <1>0, <1>2, <1>3, <2>0, <3>1, <3>2, SMTT(30), Z3T(30) DEF NULL
    <3>3. CASE highestPoint' = highestPoint /\ ~(level[blkno] > highestPoint.level)
               /\ fallbackPoint' = [tid |-> blkno, level |-> level[blkno]]
      BY <1>0, <1>2, <1>3, <2>0, <3>1, <3>3, SMTT(30), Z3T(30) DEF NULL
    <3>. QED BY <2>2, <3>2, <3>3, ZenonT(30)
  <2>3. \/ highestPoint' = highestPoint /\ fallbackPoint' = fallbackPoint
        \/ /\ left # {} /\ ~(blkno > nslots)
           /\ \/ /\ highestPoint' = [tid |-> blkno, level |-> level[blkno]]
                 /\ fallbackPoint' = (IF highestPoint.tid # NULL THEN highestPoint
                                      ELSE fallbackPoint)
              \/ /\ highestPoint' = highestPoint /\ ~(level[blkno] > highestPoint.level)
                 /\ fallbackPoint' = [tid |-> blkno, level |-> level[blkno]]
    <3>1. [tid |-> blkno, level |-> level[blkno]].level = level[blkno]
      BY Zenon
    <3>. HIDE DEF left
    <3>. QED BY <3>1, Zenon DEF RemoveHeapTids, left
  <2>4. ~(blkno > nslots) => blkno <= nslots
    BY <1>0, SMTT(30), Z3T(30)
  <2>. QED BY <2>1, <2>2, <2>3, <2>4, ZenonT(30)
<1>9. pc'[Vac] \in {"remove", "wait1"} /\ ctx' = "none" /\ hp'.tid = NULL
  BY <1>1, <1>2, Zenon
<1>10. pc'[Vac] = "remove" => highestPoint'.tid < blkno' /\ fallbackPoint'.tid < blkno'
  BY <1>4, <1>8, Zenon
<1>. HIDE DEF left, next
<1>. QED BY <1>4, <1>7, <1>8, <1>9, <1>10, ZenonT(30) DEF PointInv, Removed, Live

-----------------------------------------------------------------------------
(* How the actions of the vacuum move it from one pass to another. *)
LEMMA Moves ==
  ASSUME TypeOK
  PROVE  /\ \A w : Become(Vac, w) => pc'[Vac] = w
         /\ \A n, a, b : Advance(n, a, b) => /\ pc'[Vac] = IF n = NULL THEN b ELSE a
                                             /\ blkno' = IF n = NULL THEN 1 ELSE n
         /\ \A s, e, w : BeginRepair(s, e, w) => /\ self'[Vac] = s /\ ctx' = w
                                                /\ pc'[Vac] \in {"links", "search"}
<1>0. \A w : Become(Vac, w) => pc'[Vac] = w
  BY ProcSets, BecomeEffect, Zenon
<1>1. \A n, a, b : Advance(n, a, b) => /\ pc'[Vac] = IF n = NULL THEN b ELSE a
                                       /\ blkno' = IF n = NULL THEN 1 ELSE n
  BY <1>0, Zenon DEF Advance
<1>2. \A s, e, w : BeginRepair(s, e, w) => /\ self'[Vac] = s /\ ctx' = w
                                           /\ pc'[Vac] \in {"links", "search"}
  BY RepairEffect, Zenon
<1>. QED BY <1>0, <1>1, <1>2, Zenon

LEMMA StartMoves ==
  ASSUME TypeOK, VacuumStart
  PROVE  /\ pc[Vac] = "idle" /\ pc'[Vac] = "remove" /\ blkno' = 1 /\ ctx' = "none"
         /\ vdeleted' = {} /\ highestPoint' = NoPoint /\ fallbackPoint' = NoPoint
         /\ hp' = NoPoint
  BY Moves, Zenon DEF VacuumStart

LEMMA EndMoves ==
  ASSUME TypeOK, VacuumEnd \/ VacuumAbort
  PROVE  pc'[Vac] = "idle" /\ ctx' = "none"
  BY Moves, Zenon DEF VacuumEnd, VacuumAbort, ForgetVacuum

LEMMA WaitMoves ==
  ASSUME TypeOK, WaitForInserts
  PROVE  pc[Vac] = "wait1" /\ pc'[Vac] = "ep1" /\ UNCHANGED vacVars
  BY Moves, Zenon DEF WaitForInserts

LEMMA HighestMoves ==
  ASSUME TypeOK, RepairHighestPoint
  PROVE  /\ pc[Vac] = "ep1" /\ pc'[Vac] \in {"ep2", "error", "links", "search"}
         /\ hp' = highestPoint \/ hp' = fallbackPoint
         /\ (pc'[Vac] = "ep2" /\ ctx' = ctx) \/ (pc'[Vac] = "error" /\ ctx' = ctx)
              \/ (pc'[Vac] \in {"links", "search"} /\ ctx' = "ep1" /\ self'[Vac] = hp'.tid)
         /\ UNCHANGED <<vdeleted, highestPoint, fallbackPoint, blkno, nextblkno>>
<1>1. /\ pc[Vac] = "ep1" /\ UNCHANGED <<vdeleted, highestPoint, fallbackPoint, blkno, nextblkno>>
      /\ hp' = highestPoint \/ hp' = fallbackPoint
      /\ \/ Become(Vac, "ep2") /\ UNCHANGED ctx
         \/ Become(Vac, "error") /\ UNCHANGED ctx
         \/ BeginRepair(hp'.tid, entryPoint, "ep1")
  BY Zenon DEF RepairHighestPoint
<1>. QED BY Moves, <1>1, Zenon

LEMMA EntryMoves ==
  ASSUME TypeOK, RepairEntryPoint
  PROVE  /\ pc[Vac] = "ep2" /\ pc'[Vac] \in {"loop", "error", "links", "search"}
         /\ (pc'[Vac] = "loop" /\ ctx' = ctx) \/ (pc'[Vac] = "error" /\ ctx' = ctx)
              \/ (pc'[Vac] \in {"links", "search"} /\ ctx' = "ep2"
                   /\ self'[Vac] = entryPoint.tid)
         /\ UNCHANGED <<vdeleted, highestPoint, fallbackPoint, hp, blkno, nextblkno>>
<1>1. /\ pc[Vac] = "ep2" /\ UNCHANGED <<vdeleted, highestPoint, fallbackPoint, hp, blkno, nextblkno>>
      /\ \/ Become(Vac, "loop") /\ UNCHANGED ctx
         \/ Become(Vac, "error") /\ UNCHANGED ctx
         \/ BeginRepair(entryPoint.tid, hp, "ep2")
  BY Zenon DEF RepairEntryPoint
<1>. QED BY Moves, <1>1, Zenon

LEMMA PageMoves ==
  ASSUME TypeOK, LoadPage
  PROVE  /\ pc[Vac] = "loop" /\ nextblkno' = NextPage(blkno)
         /\ \/ pc'[Vac] = "check" /\ blkno' = blkno /\ blkno <= nslots /\ Live(blkno)
            \/ /\ ~(blkno <= nslots /\ Live(blkno))
               /\ pc'[Vac] = IF nextblkno' = NULL THEN "wait2" ELSE "loop"
               /\ blkno' = IF nextblkno' = NULL THEN 1 ELSE nextblkno'
         /\ UNCHANGED <<vdeleted, highestPoint, fallbackPoint, hp, ctx>>
<1>1. LoadPage => /\ pc[Vac] = "loop" /\ nextblkno' = NextPage(blkno)
                  /\ \/ Become(Vac, "check") /\ blkno' = blkno /\ blkno <= nslots /\ Live(blkno)
                     \/ /\ ~(blkno <= nslots /\ Live(blkno))
                        /\ Advance(nextblkno', "loop", "wait2")
                  /\ UNCHANGED <<vdeleted, highestPoint, fallbackPoint, hp, ctx>>
  BY Zenon DEF LoadPage
<1>. QED BY Moves, <1>1, Zenon

LEMMA CheckMoves ==
  ASSUME TypeOK, CheckElement
  PROVE  /\ pc[Vac] = "check"
         /\ \/ pc'[Vac] = "lock" /\ blkno' = blkno
            \/ /\ ~NeedsUpdated(blkno)
               /\ pc'[Vac] = IF nextblkno = NULL THEN "wait2" ELSE "loop"
               /\ blkno' = IF nextblkno = NULL THEN 1 ELSE nextblkno
         /\ UNCHANGED <<vdeleted, highestPoint, fallbackPoint, hp, nextblkno, ctx>>
  BY Moves, Zenon DEF CheckElement

LEMMA LockMoves ==
  ASSUME TypeOK, RepairLockShare \/ RepairLockExclusive
  PROVE  /\ pc[Vac] \in {"lock", "lockx"}
         /\ \/ pc'[Vac] = "lockx" /\ ctx' = ctx
            \/ pc'[Vac] \in {"links", "search"} /\ ctx' = "loop" /\ self'[Vac] = blkno
         /\ UNCHANGED <<vdeleted, highestPoint, fallbackPoint, hp, blkno, nextblkno>>
<1>1. RepairLockShare \/ RepairLockExclusive =>
       /\ pc[Vac] \in {"lock", "lockx"}
       /\ (Become(Vac, "lockx") /\ UNCHANGED ctx) \/ BeginRepair(blkno, entryPoint, "loop")
       /\ UNCHANGED <<vdeleted, highestPoint, fallbackPoint, hp, blkno, nextblkno>>
  BY Zenon DEF RepairLockShare, RepairLockExclusive
<1>. QED BY Moves, <1>1, ZenonT(30)

LEMMA RepairMoves ==
  ASSUME TypeOK, Search(Vac) \/ OverwriteNeighbors \/ UpdateNeighbors(Vac)
  PROVE  /\ pc[Vac] \in Repairing /\ pc'[Vac] \in Repairing \cup {"error"}
         /\ self' = self /\ UNCHANGED vacVars
<1>1. Search(Vac) => pc[Vac] \in {"search", "scan"} /\ (UNCHANGED pc \/ Become(Vac, "error"))
                     /\ UNCHANGED <<self, vacVars>>
  BY Zenon DEF Search, LoadElement, LoadUnvisited, linkVars
<1>2. OverwriteNeighbors => pc[Vac] = "search" /\ Become(Vac, "links")
                            /\ UNCHANGED <<self, vacVars>>
  BY Zenon DEF OverwriteNeighbors
<1>3. UpdateNeighbors(Vac) => /\ pc[Vac] \in {"links", "load", "link"}
                              /\ Become(Vac, "load") \/ Become(Vac, "link")
                                 \/ Become(Vac, "links") \/ Become(Vac, "error")
                              /\ UNCHANGED <<self, vacVars>>
  BY Zenon DEF UpdateNeighbors, GetUpdateIndex, LoadElementsForInsert, UpdateNeighborOnDisk
<1>4. pc[Vac] # "scan"
  BY SMTT(30), Z3T(30) DEF TypeOK, ControlType, VacuumPc
<1>. QED BY Moves, <1>1, <1>2, <1>3, <1>4, ZenonT(30) DEF Repairing

LEMMA FinishMoves ==
  ASSUME TypeOK, RepairFinish
  PROVE  /\ pc[Vac] = "links" /\ ctx' = "none"
         /\ \/ ctx = "ep1" /\ pc'[Vac] = "ep2" /\ blkno' = blkno
            \/ ctx \notin {"ep1", "loop"} /\ pc'[Vac] = "loop" /\ blkno' = blkno
            \/ /\ ctx = "loop"
               /\ pc'[Vac] = IF nextblkno = NULL THEN "wait2" ELSE "loop"
               /\ blkno' = IF nextblkno = NULL THEN 1 ELSE nextblkno
         /\ UNCHANGED <<vdeleted, highestPoint, fallbackPoint, hp, nextblkno>>
  BY Moves, Zenon DEF RepairFinish

LEMMA LastMoves ==
  ASSUME TypeOK, WaitForInsertsAgain \/ ConfirmRepaired \/ WaitForScans \/ MarkDeleted
  PROVE  /\ \/ pc[Vac] = "wait2" /\ pc'[Vac] = "confirm"
            \/ pc[Vac] = "confirm" /\ pc'[Vac] \in {"confirm", "wait3", "notrepaired"}
            \/ pc[Vac] = "wait3" /\ pc'[Vac] = "mark"
            \/ pc[Vac] = "mark" /\ pc'[Vac] \in {"mark", "end"}
         /\ UNCHANGED <<vdeleted, highestPoint, fallbackPoint, hp, ctx>>
<1>1. \A n, a, b : Advance(n, a, b) => pc'[Vac] \in {a, b}
  BY Moves, Zenon
<1>2. WaitForInsertsAgain => pc[Vac] = "wait2" /\ pc'[Vac] = "confirm" /\ UNCHANGED vacVars
  BY Moves, Zenon DEF WaitForInsertsAgain
<1>3. WaitForScans => pc[Vac] = "wait3" /\ pc'[Vac] = "mark" /\ UNCHANGED vacVars
  BY Moves, ZenonT(30) DEF WaitForScans
<1>4. ConfirmRepaired => /\ pc[Vac] = "confirm"
                         /\ pc'[Vac] \in {"confirm", "wait3", "notrepaired"}
                         /\ UNCHANGED <<vdeleted, highestPoint, fallbackPoint, hp, ctx>>
  BY Moves, <1>1, ZenonT(30) DEF ConfirmRepaired
<1>5. MarkDeleted => /\ pc[Vac] = "mark" /\ pc'[Vac] \in {"mark", "end"}
                     /\ UNCHANGED <<vdeleted, highestPoint, fallbackPoint, hp, ctx>>
  BY <1>1, Zenon DEF MarkDeleted
<1>. QED BY <1>2, <1>3, <1>4, <1>5, ZenonT(30) DEF vacVars

LEMMA PointStep ==
  ASSUME TypeOK, LocalInv, Chain, PointInv, Next
  PROVE  PointInv'
<1>1. CASE RemoveHeapTids
  BY <1>1, PointRemove, ZenonT(30)
<1>2. CASE VacuumStart
  <2>1. NoPoint.tid < 1 /\ NoPoint.tid = NULL /\ NoPoint.level = -1 /\ \A s \in Slot : ~(s < 1)
    BY SMTT(30), Z3T(30) DEF NoPoint, NULL, Slot
  <2>2. /\ pc'[Vac] = "remove" /\ blkno' = 1 /\ ctx' = "none"
        /\ highestPoint' = NoPoint /\ fallbackPoint' = NoPoint /\ hp' = NoPoint
    BY <1>2, StartMoves, Zenon
  <2>. QED BY <2>1, <2>2, Zenon DEF PointInv, Removed
<1>3. CASE VacuumEnd \/ VacuumAbort
  <2>1. pc'[Vac] = "idle" /\ ctx' = "none"
    BY <1>3, EndMoves, Zenon
  <2>. QED BY <2>1, Zenon DEF PointInv, Removed
<1>4. ASSUME ~RemoveHeapTids,
             UNCHANGED <<vdeleted, highestPoint, fallbackPoint>>,
             \/ hp' = hp
             \/ /\ hp' = highestPoint \/ hp' = fallbackPoint
                /\ Removed /\ pc'[Vac] \notin {"remove", "wait1", "ep1"},
             pc'[Vac] = "remove" => pc[Vac] = "remove" /\ blkno' = blkno,
             Removed' => Removed,
             pc'[Vac] \in {"wait1", "ep1"} => pc[Vac] \in {"wait1", "ep1"},
             pc'[Vac] \in {"wait1", "ep1", "ep2"} \/ ctx' \in {"ep1", "ep2"} =>
               blkno' = blkno /\ (pc[Vac] \in {"wait1", "ep1", "ep2"} \/ ctx \in {"ep1", "ep2"}),
             pc'[Vac] \in {"check", "lock", "lockx"} =>
               /\ blkno' = blkno
               /\ pc[Vac] \in {"check", "lock", "lockx"}
                  \/ (blkno <= nslots /\ blkno \in Slot /\ Live(blkno))
      PROVE  PointInv'
  <2>1. /\ \A s \in Slot : Live(s) => Live(s)'
        /\ \A s \in Slot : Empty(s)' => Empty(s)
        /\ nslots <= nslots'
    BY <1>4, Monotone, Zenon
  <2>2. nslots' \in 0 .. MaxSlots
    BY DiskTypeStep, Zenon DEF DiskType
  <2>3. pc[Vac] \in {"check", "lock", "lockx"} => blkno <= nslots /\ blkno \in Slot /\ Live(blkno)
    BY LocalFacts, Zenon DEF PointInv
  <2>. QED BY <1>4, <2>1, <2>2, <2>3, PointKeep, ZenonT(30)
<1>5. CASE ~Vacuum
  <2>1. UNCHANGED vacVars /\ pc'[Vac] = pc[Vac]
    BY <1>5, NotVacuum, Zenon
  <2>2. ~RemoveHeapTids
    BY <1>5, Zenon DEF Vacuum, VacuumStep
  <2>. QED BY <1>4, <2>1, <2>2, Zenon DEF vacVars, Removed
<1>6. ASSUME pc[Vac] # "remove" PROVE ~RemoveHeapTids
  BY <1>6, ZenonT(30) DEF RemoveHeapTids
<1>7. CASE WaitForInserts
  <2>1. pc[Vac] = "wait1" /\ pc'[Vac] = "ep1" /\ UNCHANGED vacVars
    BY <1>7, WaitMoves, Zenon
  <2>. QED BY <1>4, <1>6, <2>1, ZenonT(30) DEF Removed, vacVars
<1>8. CASE RepairHighestPoint
  <2>1. /\ pc[Vac] = "ep1" /\ pc'[Vac] \in {"ep2", "error", "links", "search"}
        /\ hp' = highestPoint \/ hp' = fallbackPoint
        /\ UNCHANGED <<vdeleted, highestPoint, fallbackPoint, blkno>>
    BY <1>8, HighestMoves, Zenon
  <2>. QED BY <1>4, <1>6, <2>1, ZenonT(30) DEF Removed
<1>9. CASE RepairEntryPoint
  <2>1. /\ pc[Vac] = "ep2" /\ pc'[Vac] \in {"loop", "error", "links", "search"}
        /\ UNCHANGED <<vdeleted, highestPoint, fallbackPoint, hp, blkno>>
    BY <1>9, EntryMoves, Zenon
  <2>. QED BY <1>4, <1>6, <2>1, Zenon DEF Removed
<1>10. pc[Vac] \notin Repairing \cup {"error"} => ctx = "none"
  BY Zenon DEF LocalInv, VacuumLocal
<1>11. CASE LoadPage
  <2>1. /\ pc[Vac] = "loop" /\ pc'[Vac] \in {"check", "wait2", "loop"}
        /\ pc'[Vac] = "check" => blkno' = blkno /\ blkno <= nslots /\ Live(blkno)
        /\ UNCHANGED <<vdeleted, highestPoint, fallbackPoint, hp, ctx>>
    BY <1>11, PageMoves, Zenon
  <2>2. blkno <= nslots => blkno \in Slot
    <3>1. blkno \in 1 .. (MaxSlots + 1) /\ nslots \in 0 .. MaxSlots
      BY ZenonT(30) DEF TypeOK, VacuumType, DiskType
    <3>. QED BY <3>1, BoundAssumption, SMTT(30), Z3T(30) DEF Slot
  <2>3. ctx = "none"
    BY <1>10, <2>1, Zenon DEF Repairing
  <2>. QED BY <1>4, <1>6, <2>1, <2>2, <2>3, ZenonT(30) DEF Removed
<1>12. CASE CheckElement
  <2>1. /\ pc[Vac] = "check" /\ pc'[Vac] \in {"lock", "wait2", "loop"}
        /\ pc'[Vac] = "lock" => blkno' = blkno
        /\ UNCHANGED <<vdeleted, highestPoint, fallbackPoint, hp, ctx>>
    BY <1>12, CheckMoves, ZenonT(30)
  <2>3. ctx = "none"
    BY <1>10, <2>1, Zenon DEF Repairing
  <2>. QED BY <1>4, <1>6, <2>1, <2>3, ZenonT(30) DEF Removed
<1>13. CASE RepairLockShare \/ RepairLockExclusive
  <2>1. /\ pc[Vac] \in {"lock", "lockx"} /\ pc'[Vac] \in {"lockx", "links", "search"}
        /\ ctx' = ctx \/ ctx' = "loop"
        /\ UNCHANGED <<vdeleted, highestPoint, fallbackPoint, hp, blkno>>
    BY <1>13, LockMoves, Zenon
  <2>. QED BY <1>4, <1>6, <2>1, Zenon DEF Removed
<1>14. CASE Search(Vac) \/ OverwriteNeighbors \/ UpdateNeighbors(Vac)
  <2>1. /\ pc[Vac] \in Repairing /\ pc'[Vac] \in Repairing \cup {"error"}
        /\ UNCHANGED vacVars
    BY <1>14, RepairMoves, Zenon
  <2>2. pc[Vac] \in Repairing => Removed /\ pc[Vac] # "remove"
    BY Zenon DEF Repairing, Removed
  <2>3. pc'[Vac] \in Repairing \cup {"error"} =>
          pc'[Vac] \notin {"remove", "wait1", "ep1", "ep2", "check", "lock", "lockx"}
    BY SMTT(30), Z3T(30) DEF Repairing
  <2>. QED BY <1>4, <1>6, <2>1, <2>2, <2>3, ZenonT(30) DEF vacVars
<1>15. CASE RepairFinish
  <2>1. /\ pc[Vac] = "links" /\ ctx' = "none" /\ pc'[Vac] \in {"ep2", "loop", "wait2"}
        /\ pc'[Vac] = "ep2" => ctx = "ep1" /\ blkno' = blkno
        /\ UNCHANGED <<vdeleted, highestPoint, fallbackPoint, hp>>
    BY <1>15, FinishMoves, Zenon
  <2>. QED BY <1>4, <1>6, <2>1, Zenon DEF Removed
<1>16. CASE WaitForInsertsAgain \/ ConfirmRepaired \/ WaitForScans \/ MarkDeleted
  <2>1. /\ pc[Vac] \in {"wait2", "confirm", "wait3", "mark"}
        /\ pc'[Vac] \in {"confirm", "wait3", "notrepaired", "mark", "end"}
        /\ UNCHANGED <<vdeleted, highestPoint, fallbackPoint, hp, ctx>>
    BY <1>16, LastMoves, ZenonT(30)
  <2>3. ctx = "none"
    BY <1>10, <2>1, ZenonT(30) DEF Repairing
  <2>. QED BY <1>4, <1>6, <2>1, <2>3, ZenonT(30) DEF Removed
<1>. QED BY <1>1, <1>2, <1>3, <1>5, <1>7, <1>8, <1>9, <1>11, <1>12, <1>13, <1>14, <1>15, <1>16,
            ZenonT(30) DEF Vacuum, VacuumStep, VacuumLock

-----------------------------------------------------------------------------
\* A new or rewritten neighbor list has no element that is being deleted
LEMMA NewListClean ==
  ASSUME TypeOK, LocalInv, Chain, CleanInv, Next, Waited
  PROVE  /\ \A p \in Inserters : \A t \in Slot : AddElementOnDisk(p, t) => Live(t)' /\ ~Dirty(t)'
         /\ OverwriteNeighbors => ~Dirty(self[Vac])'
<1>0. \A s \in Slot : Live(s) => Live(s)'
  BY NoNewDirty, Zenon
<1>1. /\ DiskType /\ SearchType /\ LinkType
      /\ \A p \in Updaters : \A c \in loaded[p] : c.live => Live(c.tid)
      /\ \A p \in Updaters : \A x \in sel[p] : \E c \in loaded[p] : c.live /\ c.tid = x
  BY Zenon DEF TypeOK, CleanInv, CleanLocal
<1>2. \A s \in Slot : Live(s)' => ~Empty(s)'
  BY SMTT(30), Z3T(30) DEF Live, Empty
<1>3. ASSUME NEW p \in Updaters, NEW x, \E c \in loaded[p] : c.live /\ c.tid = x
      PROVE  x \in Slot /\ Live(x)'
  <2>1. p \in Procs
    BY ProcSets, Zenon
  <2>2. PICK c \in loaded[p] : c.live /\ c.tid = x
    BY <1>3, Zenon
  <2>3. c \in Copies
    BY <1>1, <2>1, ZenonT(30) DEF SearchType
  <2>. QED BY <1>0, <1>1, <2>2, <2>3, CopiesType, ZenonT(30)
<1>4. ASSUME NEW p \in Inserters, NEW t \in Slot, AddElementOnDisk(p, t) PROVE Live(t)' /\ ~Dirty(t)'
  <2>1. /\ heaptids' = [heaptids EXCEPT ![t] = {heaptid[p]}]
        /\ neighbors' = [neighbors EXCEPT ![t] = sel[p]]
    BY <1>4, Zenon DEF AddElementOnDisk
  <2>2. p \in Updaters
    BY ProcSets, Zenon
  <2>3. neighbors'[t] = sel[p] /\ heaptids'[t] # {}
    BY <1>1, <2>1, ZenonT(30) DEF DiskType
  <2>. QED BY <1>1, <1>2, <1>3, <2>2, <2>3, ZenonT(30) DEF Dirty, Live
<1>5. ASSUME OverwriteNeighbors PROVE ~Dirty(self[Vac])'
  <2>1. PICK e, S :
          /\ e = self[Vac] /\ S \in Selections(loaded[Vac], e) /\ pc[Vac] = "search"
          /\ neighbors' = [neighbors EXCEPT ![e] = S]
          /\ UNCHANGED self
    BY <1>5, Zenon DEF OverwriteNeighbors
  <2>2. Vac \in Updaters /\ loaded[Vac] \in SUBSET Copies
    BY <1>1, ProcSets, ZenonT(30) DEF SearchType
  <2>3. \A t \in S : \E c \in loaded[Vac] : c.live /\ c.tid = t
    BY <2>1, <2>2, Selected, ZenonT(30)
  <2>4. neighbors'[e] = S
    BY <1>1, <2>1, LocalFacts, ZenonT(30) DEF DiskType
  <2>5. \A t \in S : ~Empty(t)'
    BY <1>2, <1>3, <2>2, <2>3, ZenonT(30)
  <2>6. self'[Vac] = e
    BY <2>1, Zenon
  <2>. QED BY <2>4, <2>5, <2>6, Zenon DEF Dirty
<1>. QED BY <1>4, <1>5, Zenon

\* What p has and what its step may change without harm
LEMMA CleanKeep ==
  ASSUME TypeOK, LocalInv, NEW p \in Updaters, CleanLocal(p),
         \A s \in Slot : Live(s) => Live(s)',
         \A s \in Slot : Dirty(s)' => Dirty(s),
         loaded[p] \subseteq loaded'[p],
         \A c \in loaded'[p] : c \in loaded[p] \/ (c.tid \in Slot /\ (c.live => Live(c.tid))),
         sel'[p] = sel[p], self'[p] = self[p],
         pc'[p] \in {"links", "load", "link"} => pc[p] \in {"links", "load", "link"}
  PROVE  CleanLocal(p)'
<1>1. loaded[p] \subseteq Copies /\ self[p] \in 0 .. MaxSlots
  BY ProcSets, ZenonT(30) DEF TypeOK, SearchType, LinkType
<1>2. \A c \in loaded'[p] : c.live => Live(c.tid)'
  BY <1>1, CopiesType, Zenon DEF CleanLocal
<1>3. \A x \in sel'[p] : \E c \in loaded'[p] : c.live /\ c.tid = x
  BY ZenonT(30) DEF CleanLocal
<1>4. PICK e : e = self[p]
  BY Zenon
<1>5. e # NULL => e \in Slot
  BY <1>1, <1>4, SMTT(30), Z3T(30) DEF NULL, Slot
<1>6. e # NULL => Live(e)'
  BY <1>4, <1>5, Zenon DEF CleanLocal
<1>7. pc'[p] \in {"links", "load", "link"} => ~Dirty(e)'
  BY <1>4, LocalFacts, Zenon DEF CleanLocal
<1>8. self'[p] = e
  BY <1>4, Zenon
<1>. QED BY <1>2, <1>3, <1>6, <1>7, <1>8, ZenonT(30) DEF CleanLocal, Live, Dirty

LEMMA CleanEmpty ==
  ASSUME NEW p \in Updaters, loaded'[p] = {}, sel'[p] = {}, self'[p] = NULL,
         pc'[p] \notin {"links", "load", "link"}
  PROVE  CleanLocal(p)'
  BY Zenon DEF CleanLocal

LEMMA CleanFrame ==
  ASSUME TypeOK, LocalInv, Chain, CleanInv, Waited, Next, NEW p \in Procs, Others(p),
         p \in Updaters => CleanLocal(p)'
  PROVE  CleanInv'
<1>1. ASSUME NEW r \in Updaters, r # p PROVE CleanLocal(r)'
  <2>1. /\ loaded'[r] = loaded[r] /\ sel'[r] = sel[r] /\ self'[r] = self[r] /\ pc'[r] = pc[r]
    BY <1>1, ProcSets, Zenon DEF Others
  <2>2. CleanLocal(r)
    BY Zenon DEF CleanInv
  <2>. QED BY <2>1, <2>2, CleanKeep, NoNewDirty, ZenonT(30)
<1>. QED BY <1>1, Zenon DEF CleanInv

LEMMA CleanInsert ==
  ASSUME TypeOK, LocalInv, Chain, CleanInv, Waited, Next, NEW p \in Inserters, Insert(p)
  PROVE  CleanInv'
<1>0. /\ p \in Procs /\ p \in Updaters /\ Others(p) /\ CleanLocal(p)
      /\ InsertLocal(p) /\ LinkLocal(p)
  BY ProcSets, OthersStep, Zenon DEF CleanInv, LocalInv
<1>1. SUFFICES CleanLocal(p)'
  BY <1>0, CleanFrame, Zenon
<1>2. /\ \A s \in Slot : Live(s) => Live(s)'
      /\ \A s \in Slot : Dirty(s)' => Dirty(s)
  BY NoNewDirty, Zenon
<1>3. \A w : Become(p, w) => pc'[p] = w
  BY <1>0, BecomeEffect, Zenon
<1>4. CASE InsertStart(p)
  <2>1. pc'[p] = "lock" /\ UNCHANGED <<searchVars, linkVars>>
    BY <1>3, <1>4, Zenon DEF InsertStart
  <2>. QED BY <1>0, <1>2, <2>1, CleanKeep, ZenonT(30) DEF searchVars, linkVars
<1>5. CASE InsertLockShare(p) \/ InsertLockExclusive(p)
  <2>1. /\ pc[p] \in {"lock", "lockx"} /\ UNCHANGED <<self, sel>>
        /\ \/ pc'[p] = "lockx" /\ UNCHANGED searchVars
           \/ pc'[p] = "search" /\ BeginSearch(p, entryPoint)
    BY <1>3, <1>5, ZenonT(30) DEF InsertLockShare, InsertLockExclusive
  <2>2. sel[p] = {} /\ self[p] = NULL /\ loaded[p] = {}
    BY <1>0, <2>1, Zenon DEF InsertLocal
  <2>3. loaded'[p] = {}
    BY <1>0, <2>1, <2>2, BeginEffect, ZenonT(30) DEF searchVars
  <2>4. pc'[p] \notin {"links", "load", "link"}
    BY <2>1, ZenonT(30)
  <2>. QED BY <1>0, <2>1, <2>2, <2>3, <2>4, CleanEmpty, ZenonT(30)
<1>6. CASE Search(p)
  <2>1. ASSUME NEW s \in todo[p], LoadElement(p, s) PROVE CleanLocal(p)'
    <3>1. s \in Slot /\ loaded \in [Procs -> SUBSET Copies]
      BY <1>0, ZenonT(30) DEF TypeOK, SearchType
    <3>2. /\ pc[p] \in {"search", "scan"} /\ UNCHANGED <<self, sel>>
          /\ \/ pc'[p] = "error" /\ UNCHANGED loaded
             \/ pc' = pc /\ loaded' = [loaded EXCEPT ![p] = @ \cup {Copy(s)}]
      BY <1>3, <2>1, Zenon DEF LoadElement, linkVars
    <3>3. Copy(s).tid = s /\ (Copy(s).live <=> Live(s))
      BY Zenon DEF Copy
    <3>4. loaded[p] \subseteq loaded'[p] /\ \A c \in loaded'[p] : c \in loaded[p] \/ c = Copy(s)
      BY <1>0, <3>1, <3>2, ZenonT(30)
    <3>5. pc'[p] \notin {"links", "load", "link"}
      BY <3>2, ZenonT(30)
    <3>. QED BY <1>0, <1>2, <3>1, <3>2, <3>3, <3>4, <3>5, CleanKeep, ZenonT(30)
  <2>2. ASSUME NEW c \in loaded[p], LoadUnvisited(p, c) PROVE CleanLocal(p)'
    <3>1. UNCHANGED <<pc, loaded, self, sel>>
      BY <2>2, Zenon DEF LoadUnvisited, linkVars
    <3>. QED BY <1>0, <1>2, <3>1, CleanKeep, ZenonT(30)
  <2>. QED BY <1>6, <2>1, <2>2, Zenon DEF Search
<1>7. CASE InsertSelect(p)
  <2>1. PICK S \in Selections(loaded[p], NULL) : sel' = [sel EXCEPT ![p] = S]
    BY <1>7, Zenon DEF InsertSelect
  <2>2. /\ pc[p] = "search" /\ pc'[p] = "update" /\ UNCHANGED <<loaded, self>>
    BY <1>3, <1>7, ZenonT(30) DEF InsertSelect, searchVars
  <2>3. sel'[p] = S /\ loaded[p] \in SUBSET Copies
    BY <1>0, <2>1, ZenonT(30) DEF TypeOK, LinkType, SearchType
  <2>4. \A x \in sel'[p] : \E c \in loaded[p] : c.live /\ c.tid = x
    BY <2>3, Selected, ZenonT(30)
  <2>5. self[p] = NULL
    BY <1>0, <2>2, ZenonT(30) DEF InsertLocal
  <2>6. \A c \in loaded[p] : c.live => Live(c.tid)'
    BY <1>0, <1>2, <2>3, CopiesType, ZenonT(30) DEF CleanLocal
  <2>. QED BY <2>2, <2>4, <2>5, <2>6, ZenonT(30) DEF CleanLocal
<1>8. CASE (\E s \in sel[p] : AddDuplicateOnDisk(p, s)) \/ InsertFinish(p) \/ InsertAbort(p)
  <2>1. pc'[p] = "idle" /\ ForgetSearch(p) /\ ForgetLinks(p)
    BY <1>3, <1>8, ZenonT(30) DEF AddDuplicateOnDisk, InsertFinish, InsertAbort
  <2>. QED BY <1>0, <2>1, ForgetEffect, CleanEmpty, ZenonT(30)
<1>9. ASSUME NEW s \in Slot, AddElementOnDisk(p, s) PROVE CleanLocal(p)'
  <2>1. self' = [self EXCEPT ![p] = s] /\ UNCHANGED <<loaded, sel>>
    BY <1>9, Zenon DEF AddElementOnDisk, searchVars
  <2>2. self'[p] = s
    BY <1>0, <2>1, Domains, ZenonT(30)
  <2>3. Live(s)' /\ ~Dirty(s)'
    BY <1>9, NewListClean, ZenonT(30)
  <2>4. loaded[p] \subseteq Copies
    BY <1>0, ZenonT(30) DEF TypeOK, SearchType
  <2>5. \A c \in loaded[p] : c.live => Live(c.tid)'
    BY <1>0, <1>2, <2>4, CopiesType, ZenonT(30) DEF CleanLocal
  <2>. QED BY <1>0, <2>1, <2>2, <2>3, <2>5, ZenonT(30) DEF CleanLocal, Live, Dirty
<1>10. CASE UpdateNeighbors(p)
  <2>1. pc[p] \in {"links", "load", "link"} /\ UNCHANGED <<loaded, self, sel>>
    BY <1>10, Zenon DEF UpdateNeighbors, GetUpdateIndex, LoadElementsForInsert,
       UpdateNeighborOnDisk, searchVars
  <2>. QED BY <1>0, <1>2, <2>1, CleanKeep, ZenonT(30)
<1>. QED BY <1>4, <1>5, <1>6, <1>7, <1>8, <1>9, <1>10, ZenonT(30) DEF Insert, InsertStep

\* The no-op repair of a given entry point finds it repaired already
LEMMA SelfRepair ==
  ASSUME TypeOK, LocalInv, PointInv, EntryRepaired, ReachInv, Waited, Vacuum
  PROVE  /\ RepairHighestPoint =>
              /\ hp'.tid # NULL => hp'.tid \in Slot /\ Live(hp'.tid)
              /\ hp'.tid # NULL => hp'.tid # entryPoint.tid
         /\ RepairEntryPoint /\ entryPoint.tid # NULL /\ entryPoint.tid \notin vdeleted
              /\ ~deleted[entryPoint.tid] =>
              /\ entryPoint.tid \in Slot /\ Live(entryPoint.tid)
              /\ hp.tid = entryPoint.tid => ~Dirty(entryPoint.tid)
         /\ RepairLockShare \/ RepairLockExclusive =>
              /\ blkno \in Slot /\ Live(blkno)
              /\ entryPoint.tid = blkno => ~Dirty(entryPoint.tid)
<1>0. /\ highestPoint \in Point /\ fallbackPoint \in Point /\ entryPoint \in Point
      /\ Removed
  BY Zenon DEF TypeOK, VacuumType, Waited
<1>1. /\ highestPoint.tid # NULL => highestPoint.tid \in Slot /\ Live(highestPoint.tid)
      /\ fallbackPoint.tid # NULL => fallbackPoint.tid \in Slot /\ Live(fallbackPoint.tid)
      /\ entryPoint.tid # NULL => entryPoint.tid \in Slot
      /\ highestPoint.tid # NULL => fallbackPoint.tid # highestPoint.tid
  BY <1>0, Points, Zenon DEF PointInv
<1>2. ASSUME RepairHighestPoint
      PROVE  /\ hp'.tid # NULL => hp'.tid \in Slot /\ Live(hp'.tid)
             /\ hp'.tid # NULL => hp'.tid # entryPoint.tid
  <2>1. \/ hp' = highestPoint /\ ~(highestPoint.tid # NULL /\ highestPoint.tid = entryPoint.tid)
        \/ hp' = fallbackPoint /\ highestPoint.tid # NULL /\ highestPoint.tid = entryPoint.tid
    BY <1>2, Zenon DEF RepairHighestPoint
  <2>. QED BY <1>1, <2>1, Zenon
<1>3. ASSUME RepairEntryPoint, entryPoint.tid # NULL, entryPoint.tid \notin vdeleted,
             ~deleted[entryPoint.tid]
      PROVE  /\ entryPoint.tid \in Slot /\ Live(entryPoint.tid)
             /\ hp.tid = entryPoint.tid => ~Dirty(entryPoint.tid)
  <2>1. pc[Vac] = "ep2"
    BY <1>3, Zenon DEF RepairEntryPoint
  <2>2. entryPoint.tid <= nslots
    <3>1. entryPoint.tid \in 1 .. nslots /\ nslots \in 0 .. MaxSlots
      BY <1>3, Zenon DEF ReachInv, Protected, TypeOK, DiskType
    <3>. QED BY <3>1, SMTT(30), Z3T(30)
  <2>3. ~Empty(entryPoint.tid)
    BY <1>0, <1>1, <1>3, ZenonT(30) DEF PointInv
  <2>. QED BY <1>1, <1>3, <2>1, <2>2, <2>3, ZenonT(30) DEF EntryRepaired, Empty, Live
<1>4. ASSUME RepairLockShare \/ RepairLockExclusive
      PROVE  /\ blkno \in Slot /\ Live(blkno)
             /\ entryPoint.tid = blkno => ~Dirty(entryPoint.tid)
  <2>1. pc[Vac] = "lock" \/ pc[Vac] = "lockx"
    BY <1>4, ZenonT(30) DEF RepairLockShare, RepairLockExclusive
  <2>2. blkno \in Slot /\ Live(blkno)
    BY <2>1, LocalFacts, ZenonT(30) DEF PointInv
  <2>3. ctx = "none"
    BY <2>1, ZenonT(30) DEF LocalInv, VacuumLocal, Repairing
  <2>4. EntryDone /\ blkno # NULL
    BY <2>1, <2>2, <2>3, SMTT(30), Z3T(30) DEF EntryDone, Waited, Removed, NULL, Slot
  <2>. QED BY <2>2, <2>4, ZenonT(30) DEF EntryRepaired
<1>. QED BY <1>2, <1>3, <1>4, ZenonT(30)

LEMMA CleanVacuum ==
  ASSUME TypeOK, LocalInv, Chain, PointInv, EntryRepaired, ReachInv, CleanInv, Waited, Next, Vacuum
  PROVE  CleanInv'
<1>0. /\ Vac \in Procs /\ Vac \in Updaters /\ Others(Vac) /\ CleanLocal(Vac)
      /\ VacuumLocal /\ LinkLocal(Vac)
  BY ProcSets, OthersStep, Zenon DEF CleanInv, LocalInv
<1>1. SUFFICES ASSUME Waited' PROVE CleanLocal(Vac)'
  BY <1>0, CleanFrame, Zenon DEF CleanInv
<1>2. /\ \A s \in Slot : Live(s) => Live(s)'
      /\ \A s \in Slot : Dirty(s)' => Dirty(s)
  BY NoNewDirty, Zenon
<1>3. \A w : Become(Vac, w) => pc'[Vac] = w
  BY Moves, Zenon
<1>4. pc'[Vac] \notin {"idle", "remove", "error", "notrepaired", "wait1"}
  BY <1>1, ZenonT(30) DEF Waited, Removed
<1>5. ASSUME UNCHANGED <<searchVars, linkVars>>, pc'[Vac] \notin {"links", "load", "link"}
      PROVE  CleanLocal(Vac)'
  BY <1>0, <1>2, <1>5, CleanKeep, ZenonT(30) DEF searchVars, linkVars
<1>6. ASSUME NEW s \in Slot, NEW e, NEW w, BeginRepair(s, e, w), UNCHANGED diskVars,
             pc[Vac] \notin Repairing \cup {"error"}, Live(s), e.tid = s => ~Dirty(s)
      PROVE  CleanLocal(Vac)'
  <2>1. /\ self'[Vac] = s /\ UNCHANGED sel
        /\ \/ e.tid = s /\ pc'[Vac] = "links" /\ UNCHANGED searchVars
           \/ e.tid # s /\ pc'[Vac] = "search" /\ BeginSearch(Vac, e)
    BY <1>6, RepairEffect, Zenon
  <2>2. loaded[Vac] = {}
    BY <1>0, <1>6, Zenon DEF VacuumLocal
  <2>3. loaded'[Vac] = {}
    BY <1>0, <2>1, <2>2, BeginEffect, ZenonT(30) DEF searchVars
  <2>4. sel'[Vac] = {}
    BY <1>0, <2>1, <2>2, ZenonT(30) DEF LinkLocal
  <2>5. Live(s)' /\ (e.tid = s => ~Dirty(s)')
    BY <1>2, <1>6, ZenonT(30)
  <2>6. e.tid # s => pc'[Vac] \notin {"links", "load", "link"}
    BY <2>1, ZenonT(30)
  <2>. QED BY <2>1, <2>3, <2>4, <2>5, <2>6, ZenonT(30) DEF CleanLocal, Live, Dirty
<1>7. CASE Search(Vac)
  <2>1. ASSUME NEW s \in todo[Vac], LoadElement(Vac, s) PROVE CleanLocal(Vac)'
    <3>1. s \in Slot /\ loaded \in [Procs -> SUBSET Copies]
      BY <1>0, ZenonT(30) DEF TypeOK, SearchType
    <3>2. /\ pc[Vac] \in {"search", "scan"} /\ UNCHANGED <<self, sel>>
          /\ pc' = pc /\ loaded' = [loaded EXCEPT ![Vac] = @ \cup {Copy(s)}]
      BY <1>3, <1>4, <2>1, ZenonT(30) DEF LoadElement, linkVars
    <3>3. Copy(s).tid = s /\ (Copy(s).live <=> Live(s))
      BY ZenonT(30) DEF Copy
    <3>4. /\ loaded[Vac] \subseteq loaded'[Vac]
          /\ \A c \in loaded'[Vac] : c \in loaded[Vac] \/ c = Copy(s)
      BY <1>0, <3>1, <3>2, ZenonT(30)
    <3>. QED BY <1>0, <1>2, <3>1, <3>2, <3>3, <3>4, CleanKeep, ZenonT(30)
  <2>2. ASSUME NEW c \in loaded[Vac], LoadUnvisited(Vac, c) PROVE CleanLocal(Vac)'
    <3>1. UNCHANGED <<pc, loaded, self, sel>>
      BY <2>2, Zenon DEF LoadUnvisited, linkVars
    <3>. QED BY <1>0, <1>2, <3>1, CleanKeep, ZenonT(30)
  <2>. QED BY <1>7, <2>1, <2>2, Zenon DEF Search
<1>8. CASE OverwriteNeighbors
  <2>1. PICK S \in Selections(loaded[Vac], self[Vac]) : sel' = [sel EXCEPT ![Vac] = S]
    BY <1>8, Zenon DEF OverwriteNeighbors
  <2>2. UNCHANGED <<loaded, self, heaptids>>
    BY <1>8, ZenonT(30) DEF OverwriteNeighbors, searchVars
  <2>3. sel'[Vac] = S /\ loaded[Vac] \in SUBSET Copies
    BY <1>0, <2>1, ZenonT(30) DEF TypeOK, LinkType, SearchType
  <2>4. \A x \in sel'[Vac] : \E c \in loaded[Vac] : c.live /\ c.tid = x
    BY <2>3, Selected, ZenonT(30)
  <2>5. ~Dirty(self[Vac])'
    BY <1>8, NewListClean, Zenon
  <2>. QED BY <1>0, <2>2, <2>4, <2>5, ZenonT(30) DEF CleanLocal, Live
<1>9. CASE UpdateNeighbors(Vac)
  <2>1. pc[Vac] \in {"links", "load", "link"} /\ UNCHANGED <<loaded, self, sel>>
    BY <1>9, Zenon DEF UpdateNeighbors, GetUpdateIndex, LoadElementsForInsert,
       UpdateNeighborOnDisk, searchVars
  <2>. QED BY <1>0, <1>2, <2>1, CleanKeep, ZenonT(30)
<1>10. CASE RepairFinish
  <2>1. ForgetSearch(Vac) /\ ForgetLinks(Vac)
    BY <1>10, Zenon DEF RepairFinish
  <2>2. pc'[Vac] \in {"ep2", "loop", "wait2"}
    BY <1>10, FinishMoves, Zenon
  <2>3. pc'[Vac] \notin {"links", "load", "link"}
    BY <2>2, ZenonT(30)
  <2>. QED BY <1>0, <2>1, <2>3, ForgetEffect, CleanEmpty, ZenonT(30)
<1>11. CASE RepairHighestPoint
  <2>1. /\ pc[Vac] = "ep1" /\ UNCHANGED diskVars
        /\ \/ pc'[Vac] = "ep2" /\ UNCHANGED <<searchVars, linkVars>>
           \/ hp'.tid # NULL /\ BeginRepair(hp'.tid, entryPoint, "ep1")
    BY <1>3, <1>4, <1>11, ZenonT(30) DEF RepairHighestPoint
  <2>2. pc[Vac] \notin Repairing \cup {"error"}
    BY <2>1, ZenonT(30) DEF Repairing
  <2>3. hp'.tid # NULL => hp'.tid \in Slot /\ Live(hp'.tid) /\ hp'.tid # entryPoint.tid
    BY <1>11, SelfRepair, ZenonT(30)
  <2>4. PICK s : s = hp'.tid
    BY ZenonT(30)
  <2>. QED BY <1>5, <1>6, <2>1, <2>2, <2>3, <2>4, ZenonT(30)
<1>12. CASE RepairEntryPoint
  <2>1. /\ pc[Vac] = "ep2" /\ UNCHANGED diskVars
        /\ \/ pc'[Vac] = "loop" /\ UNCHANGED <<searchVars, linkVars>>
           \/ /\ entryPoint.tid # NULL /\ entryPoint.tid \notin vdeleted
              /\ ~deleted[entryPoint.tid]
              /\ BeginRepair(entryPoint.tid, hp, "ep2")
    BY <1>3, <1>4, <1>12, ZenonT(30) DEF RepairEntryPoint
  <2>2. pc[Vac] \notin Repairing \cup {"error"}
    BY <2>1, ZenonT(30) DEF Repairing
  <2>. QED BY <1>5, <1>6, <1>12, <2>1, <2>2, SelfRepair, ZenonT(30)
<1>13. CASE RepairLockShare \/ RepairLockExclusive
  <2>1. /\ pc[Vac] = "lock" \/ pc[Vac] = "lockx" 
        /\ UNCHANGED diskVars
        /\ \/ pc'[Vac] = "lockx" /\ UNCHANGED <<searchVars, linkVars>>
           \/ BeginRepair(blkno, entryPoint, "loop")
    BY <1>3, <1>13, ZenonT(30) DEF RepairLockShare, RepairLockExclusive
  <2>2. pc[Vac] \notin Repairing \cup {"error"}
    BY <2>1, ZenonT(30) DEF Repairing
  <2>. QED BY <1>5, <1>6, <1>13, <2>1, <2>2, SelfRepair, ZenonT(30)
<1>14. CASE LoadPage \/ CheckElement \/ WaitForInserts \/ WaitForInsertsAgain \/ ConfirmRepaired
            \/ WaitForScans \/ MarkDeleted
  <2>1. UNCHANGED <<searchVars, linkVars>>
    BY <1>14, Zenon DEF LoadPage, CheckElement, WaitForInserts, WaitForInsertsAgain,
       ConfirmRepaired, WaitForScans, MarkDeleted
  <2>2. pc'[Vac] \in {"check", "loop", "wait2", "lock", "ep1", "confirm", "wait3",
                      "notrepaired", "mark", "end"}
    BY <1>14, PageMoves, CheckMoves, WaitMoves, LastMoves, ZenonT(30)
  <2>3. pc'[Vac] \notin {"links", "load", "link"}
    BY <2>2, ZenonT(30)
  <2>. QED BY <1>5, <2>1, <2>3, ZenonT(30)
<1>15. ~VacuumStart /\ ~RemoveHeapTids /\ ~VacuumEnd /\ ~VacuumAbort
  <2>1. ~VacuumStart /\ ~VacuumEnd /\ ~VacuumAbort
    BY <1>4, StartMoves, EndMoves, ZenonT(30)
  <2>. QED BY <2>1, Zenon DEF RemoveHeapTids, Waited, Removed
<1>. QED BY <1>7, <1>8, <1>9, <1>10, <1>11, <1>12, <1>13, <1>14, <1>15, ZenonT(30)
         DEF Vacuum, VacuumStep, VacuumLock

LEMMA WaitedStep ==
  ASSUME TypeOK, Next, ~Waited, Waited'
  PROVE  WaitForInserts
<1>1. Vacuum
  BY NotVacuum, Zenon DEF Waited, Removed
<1>2. pc[Vac] \in {"idle", "remove", "error", "notrepaired", "wait1"}
  BY ZenonT(30) DEF Waited, Removed
<1>3. pc'[Vac] \notin {"idle", "remove", "error", "notrepaired", "wait1"}
  BY SMTT(30), Z3T(30) DEF Waited, Removed
<1>4. ~VacuumStart /\ ~VacuumEnd /\ ~VacuumAbort /\ ~RemoveHeapTids
  <2>1. RemoveHeapTids => pc'[Vac] \in {"wait1", "remove"}
    BY Moves, Zenon DEF RemoveHeapTids
  <2>. QED BY <1>3, <2>1, StartMoves, EndMoves, ZenonT(30)
<1>5. ~(pc[Vac] \in Repairing) /\ pc[Vac] # "ep1" /\ pc[Vac] # "ep2" /\ pc[Vac] # "loop"
      /\ pc[Vac] # "check" /\ pc[Vac] # "lock" /\ pc[Vac] # "lockx" /\ pc[Vac] # "wait2"
      /\ pc[Vac] # "confirm" /\ pc[Vac] # "wait3" /\ pc[Vac] # "mark" /\ pc[Vac] # "links"
  BY <1>2, SMTT(30), Z3T(30) DEF Repairing
<1>6. pc[Vac] \notin {"lock", "lockx"}
  BY <1>2, SMTT(30), Z3T(30)
<1>7. ~RepairHighestPoint /\ ~RepairEntryPoint /\ ~LoadPage /\ ~CheckElement
  BY <1>5, HighestMoves, EntryMoves, PageMoves, CheckMoves, ZenonT(30)
<1>8. ~RepairLockShare /\ ~RepairLockExclusive
  BY <1>6, LockMoves, Zenon
<1>9. ~Search(Vac) /\ ~OverwriteNeighbors /\ ~UpdateNeighbors(Vac) /\ ~RepairFinish
  BY <1>5, RepairMoves, FinishMoves, ZenonT(30)
<1>10. ~WaitForInsertsAgain /\ ~ConfirmRepaired /\ ~WaitForScans /\ ~MarkDeleted
  BY <1>5, LastMoves, ZenonT(30)
<1>. QED BY <1>1, <1>4, <1>7, <1>8, <1>9, <1>10, ZenonT(30) DEF Vacuum, VacuumStep, VacuumLock

LEMMA WaitedActions ==
  ASSUME TypeOK, Vacuum, Waited, Waited'
  PROVE  \/ RepairHighestPoint \/ RepairEntryPoint \/ LoadPage \/ CheckElement
         \/ (RepairLockShare \/ RepairLockExclusive)
         \/ (Search(Vac) \/ OverwriteNeighbors \/ UpdateNeighbors(Vac)) \/ RepairFinish
         \/ (WaitForInsertsAgain \/ ConfirmRepaired \/ WaitForScans \/ MarkDeleted)
<1>1. pc'[Vac] \notin {"idle", "remove"} /\ pc[Vac] \notin {"remove", "wait1"}
  BY SMTT(30), Z3T(30) DEF Waited, Removed
<1>2. ~VacuumStart /\ ~VacuumEnd /\ ~VacuumAbort /\ ~RemoveHeapTids /\ ~WaitForInserts
  BY <1>1, StartMoves, EndMoves, ZenonT(30) DEF RemoveHeapTids, WaitForInserts
<1>. QED BY <1>2, ZenonT(30) DEF Vacuum, VacuumStep, VacuumLock

LEMMA CleanStep ==
  ASSUME TypeOK, LocalInv, LockInv, Chain, PointInv, EntryRepaired, ReachInv, CleanInv, NoDeletedLoad,
         Next
  PROVE  CleanInv'
<1>1. CASE Waited
  <2>1. ASSUME NEW q \in Scanners, Scan(q) PROVE CleanInv'
    <3>1. q \in Procs /\ q \notin Updaters /\ Others(q)
      BY <2>1, ProcSets, ProcAssumption, OthersStep, ZenonT(30) DEF Updaters
    <3>. QED BY <1>1, <3>1, CleanFrame, ZenonT(30)
  <2>2. ASSUME NEW h \in HeapTid, HeapDelete(h) PROVE CleanInv'
    <3>1. UNCHANGED <<diskVars, pc, searchVars, linkVars>>
      BY <2>2, Zenon DEF HeapDelete
    <3>2. ASSUME NEW r \in Updaters PROVE CleanLocal(r)'
      <4>1. CleanLocal(r)
        BY <1>1, Zenon DEF CleanInv
      <4>. QED BY <1>1, <3>1, <4>1, CleanKeep, NoNewDirty, ZenonT(30) DEF searchVars, linkVars
    <3>. QED BY <3>2, Zenon DEF CleanInv
  <2>. QED BY <1>1, <2>1, <2>2, CleanInsert, CleanVacuum, ZenonT(30) DEF Next
<1>2. CASE ~Waited /\ Waited'
  <2>1. WaitForInserts
    BY <1>2, WaitedStep, ZenonT(30)
  <2>2. /\ pc[Vac] = "wait1" /\ pc' = [pc EXCEPT ![Vac] = "ep1"] /\ CanExclude(updateLock, Vac)
        /\ UNCHANGED <<searchVars, linkVars>>
    BY <2>1, Zenon DEF WaitForInserts, Become
  <2>3. ASSUME NEW p \in Inserters PROVE CleanLocal(p)'
    <3>1. p \in Procs \ {Vac} /\ p \in Updaters
      BY ProcSets, ProcAssumption, ZenonT(30)
    <3>2. updateLock[p] = "none"
      BY <2>2, <3>1, ZenonT(30) DEF CanExclude
    <3>3. pc[p] \notin Active /\ pc[p] # "error" /\ pc[p] \in InserterPc
      BY <3>1, <3>2, ZenonT(30) DEF LockInv, NoDeletedLoad, TypeOK, ControlType
    <3>4. pc[p] \in {"idle", "lock", "lockx"}
      BY <3>3, ZenonT(30) DEF Active, InserterPc
    <3>5. loaded[p] = {} /\ sel[p] = {} /\ self[p] = NULL
      BY <3>4, ZenonT(30) DEF LocalInv, InsertLocal
    <3>6. pc'[p] = pc[p]
      BY <2>2, <3>1, ZenonT(30) DEF TypeOK, ControlType
    <3>7. pc'[p] \notin {"links", "load", "link"}
      BY <3>4, <3>6, ZenonT(30)
    <3>. QED BY <2>2, <3>1, <3>5, <3>7, CleanEmpty, ZenonT(30) DEF searchVars, linkVars
  <2>4. CleanLocal(Vac)'
    <3>1. pc'[Vac] = "ep1" /\ Vac \in Updaters
      BY <2>1, WaitMoves, ProcSets, ZenonT(30)
    <3>2. loaded[Vac] = {} /\ self[Vac] = NULL
      BY <2>2, ZenonT(30) DEF LocalInv, VacuumLocal, Repairing
    <3>3. sel[Vac] = {}
      BY <3>1, <3>2, ZenonT(30) DEF LocalInv, LinkLocal
    <3>4. pc'[Vac] \notin {"links", "load", "link"}
      BY <3>1, SMTT(30), Z3T(30)
    <3>. QED BY <2>2, <3>1, <3>2, <3>3, <3>4, CleanEmpty, ZenonT(30) DEF searchVars, linkVars
  <2>. QED BY <2>3, <2>4, ZenonT(30) DEF CleanInv, Updaters
<1>. QED BY <1>1, <1>2, ZenonT(30) DEF CleanInv

=============================================================================
