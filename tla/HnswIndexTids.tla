--------------------------- MODULE HnswIndexTids ---------------------------
(***************************************************************************)
(* The heap TIDs of the HNSW index, for every number of backends, elements *)
(* and rows: TidInv says where the TID of an insert is at each of its      *)
(* program points, and what RemoveHeapTids has taken out so far.  It gives *)
(* HeapTidsIndexed and the refinement of IndexAM.  Early and GraphInv say  *)
(* what inserts make of the graph while nothing is deleted, and give       *)
(* OneGraph.                                                               *)
(***************************************************************************)
EXTENDS HnswIndexLemmas, HnswIndexAM

Waiting == {"lock", "lockx", "search", "update"}    \* an insert whose TID is in no element yet
Linking == {"links", "load", "link"}                \* one whose element is written
Unclean == {"idle", "remove", "error", "notrepaired"}

\* The rows of the inserts: each has its own, which is not deleted under it
InserterInv ==
  /\ \A p \in Inserters : heaptid[p] # NULL => pc[p] # "idle" /\ heap[heaptid[p]] = "live"
  /\ \A p, q \in Inserters : p # q /\ heaptid[p] # NULL => heaptid[p] # heaptid[q]

\* A TID is in one element, which is not marked as deleted, and only while its row exists
ElementInv ==
  /\ \A s, t \in Slot : \A h \in heaptids[s] : h \in heaptids[t] => s = t
  /\ \A s \in Slot : \A h \in heaptids[s] : heap[h] # "unused"
  /\ \A s \in Slot : heaptids[s] # {} => s <= nslots /\ ~deleted[s]

\* The TID of a committed row is in an element
CommittedInv ==
  \A h \in HeapTid :
    heap[h] = "live" /\ (\A p \in Inserters : heaptid[p] # h) => h \in Indexed

PlaceInv ==
  \A p \in Inserters : /\ pc[p] \in Waiting => heaptid[p] \notin Indexed
                       /\ pc[p] \in Linking => heaptid[p] \in Indexed

\* RemoveHeapTids has passed the elements before blkno, and later passes find none to remove
DeadInv ==
  /\ \A h \in deadTids : heap[h] = "dead"
  /\ pc[Vac] = "idle" => deadTids = {}
  /\ pc[Vac] = "remove" => \A s \in Slot : s < blkno => heaptids[s] \cap deadTids = {}
  /\ pc[Vac] \notin Unclean => \A s \in Slot : heaptids[s] \cap deadTids = {}

TidInv == InserterInv /\ ElementInv /\ CommittedInv /\ PlaceInv /\ DeadInv

LEMMA Base ==
  ASSUME TypeOK, LocalInv
  PROVE  /\ heap \in [HeapTid -> {"unused", "live", "dead"}]
         /\ heaptid \in [Inserters -> HeapTid \cup {NULL}]
         /\ heaptids \in [Slot -> SUBSET HeapTid] /\ deleted \in [Slot -> BOOLEAN]
         /\ nslots \in Nat /\ nslots <= MaxSlots /\ blkno \in Nat \ {0}
         /\ deadTids \in SUBSET HeapTid
         /\ \A p \in Inserters : pc[p] # "idle" => heaptid[p] \in HeapTid
         /\ NULL \notin HeapTid /\ Vac \notin Inserters
<1>1. /\ heap \in [HeapTid -> {"unused", "live", "dead"}] /\ heaptid \in [Inserters -> 0 .. NTids]
      /\ heaptids \in [Slot -> SUBSET HeapTid] /\ deleted \in [Slot -> BOOLEAN]
      /\ nslots \in 0 .. MaxSlots /\ deadTids \in SUBSET HeapTid /\ blkno \in 1 .. (MaxSlots + 1)
  BY Zenon DEF TypeOK, HeapType, DiskType, VacuumType
<1>2. 0 .. NTids = HeapTid \cup {NULL} /\ NULL \notin HeapTid
  BY BoundAssumption, SMTT(30), Z3T(30) DEF HeapTid, NULL
<1>3. nslots \in Nat /\ nslots <= MaxSlots /\ blkno \in Nat \ {0}
  BY <1>1, BoundAssumption, SMTT(30), Z3T(30)
<1>. QED BY <1>1, <1>2, <1>3, LocalFacts, ProcAssumption, Zenon

LEMMA InIndex ==
  /\ \A h : h \in Indexed <=> \E s \in Slot : h \in heaptids[s]
  /\ \A h : h \in Indexed' <=> \E s \in Slot : h \in heaptids'[s]
  BY Zenon DEF Indexed

LEMMA PcSet ==
  ASSUME TypeOK, NEW p \in Procs, NEW w, Become(p, w)
  PROVE  pc'[p] = w /\ \A r \in Procs \ {p} : pc'[r] = pc[r]
  BY Domains, Zenon DEF Become

-----------------------------------------------------------------------------
\* The steps that move no TID: an insert stays on its side of the write of its element
InsertMoves(p) ==
  \/ pc'[p] = pc[p]
  \/ pc[p] # "idle" /\ pc'[p] = "error"
  \/ pc[p] \in Waiting /\ pc'[p] \in Waiting
  \/ pc[p] \in Linking /\ pc'[p] \in Linking

\* ... and the vacuum does not come back from its later passes
VacuumMoves ==
  \/ pc'[Vac] = pc[Vac] /\ blkno' = blkno
  \/ pc[Vac] \notin Unclean /\ pc'[Vac] \notin {"idle", "remove"}

Quiet ==
  /\ UNCHANGED <<heap, heaptid, heaptids, nslots, deleted, deadTids>>
  /\ \A p \in Inserters : InsertMoves(p)
  /\ VacuumMoves

TidSteps(p) ==
  \/ InsertStart(p) \/ InsertFinish(p) \/ InsertAbort(p)
  \/ \E s \in sel[p] : AddDuplicateOnDisk(p, s)
  \/ \E s \in Slot : AddElementOnDisk(p, s)

LEMMA SearchQuiet ==
  ASSUME TypeOK, NEW p \in Procs, Search(p)
  PROVE  /\ UNCHANGED <<heap, heaptid, heaptids, nslots, deleted, deadTids, blkno>>
         /\ pc[p] \in {"search", "scan"} /\ (pc'[p] = pc[p] \/ pc'[p] = "error")
         /\ \A r \in Procs \ {p} : pc'[r] = pc[r]
<1>1. ASSUME NEW s \in todo[p], LoadElement(p, s)
      PROVE  /\ UNCHANGED <<heap, heaptid, heaptids, nslots, deleted, deadTids, blkno>>
             /\ pc[p] \in {"search", "scan"} /\ (pc' = pc \/ Become(p, "error"))
  BY <1>1, Zenon DEF LoadElement, diskVars, heapVars, vacVars
<1>2. ASSUME NEW c \in loaded[p], LoadUnvisited(p, c)
      PROVE  /\ UNCHANGED <<heap, heaptid, heaptids, nslots, deleted, deadTids, blkno>>
             /\ pc[p] \in {"search", "scan"} /\ pc' = pc
  BY <1>2, Zenon DEF LoadUnvisited, diskVars, heapVars, vacVars
<1>3. /\ UNCHANGED <<heap, heaptid, heaptids, nslots, deleted, deadTids, blkno>>
      /\ pc[p] \in {"search", "scan"} /\ (pc' = pc \/ Become(p, "error"))
  BY <1>1, <1>2, Zenon DEF Search
<1>. QED BY <1>3, PcSet, Zenon

LEMMA UpdateQuiet ==
  ASSUME TypeOK, NEW p \in Updaters, UpdateNeighbors(p)
  PROVE  /\ UNCHANGED <<heap, heaptid, heaptids, nslots, deleted, deadTids, blkno>>
         /\ pc[p] \in Linking /\ (pc'[p] \in Linking \/ pc'[p] = "error")
         /\ \A r \in Procs \ {p} : pc'[r] = pc[r]
<1>1. /\ UNCHANGED <<heap, heaptid, heaptids, nslots, deleted, deadTids, blkno>>
      /\ pc[p] \in {"links", "load", "link"}
      /\ Become(p, "links") \/ Become(p, "load") \/ Become(p, "link") \/ Become(p, "error")
  BY Zenon DEF UpdateNeighbors, GetUpdateIndex, LoadElementsForInsert, UpdateNeighborOnDisk,
               diskVars, heapVars, vacVars
<1>. QED BY <1>1, PcSet, ProcSets, Zenon DEF Linking

LEMMA InsertQuiet ==
  ASSUME TypeOK, NEW p \in Inserters, Insert(p)
  PROVE  Quiet \/ TidSteps(p)
<1>0. p \in Procs /\ p \in Updaters /\ Vac \in Procs /\ Inserters \subseteq Procs /\ p # Vac
  BY ProcSets, ProcAssumption, Zenon
<1>1. CASE Search(p)
  <2>1. pc[p] # "idle"
    BY <1>1, SearchQuiet, <1>0, ZenonT(30)
  <2>. QED BY <1>0, <1>1, <2>1, SearchQuiet, Zenon DEF Quiet, InsertMoves, VacuumMoves
<1>2. CASE UpdateNeighbors(p)
  <2>1. pc[p] # "idle"
    BY <1>2, UpdateQuiet, <1>0, ZenonT(30) DEF Linking
  <2>. QED BY <1>0, <1>2, <2>1, UpdateQuiet, Zenon DEF Quiet, InsertMoves, VacuumMoves
<1>3. CASE InsertLockShare(p) \/ InsertLockExclusive(p) \/ InsertSelect(p)
  <2>1. /\ UNCHANGED <<heap, heaptid, heaptids, nslots, deleted, deadTids, blkno>>
        /\ pc[p] \in {"lock", "lockx", "search"}
        /\ Become(p, "lockx") \/ Become(p, "search") \/ Become(p, "update")
    BY <1>3, Zenon DEF InsertLockShare, InsertLockExclusive, InsertSelect,
                       diskVars, heapVars, vacVars
  <2>2. pc[p] \in Waiting /\ pc'[p] \in Waiting /\ \A r \in Procs \ {p} : pc'[r] = pc[r]
    BY <1>0, <2>1, PcSet, Zenon DEF Waiting
  <2>. QED BY <1>0, <2>1, <2>2, Zenon DEF Quiet, InsertMoves, VacuumMoves
<1>. QED BY <1>1, <1>2, <1>3, Zenon DEF Insert, InsertStep, TidSteps

LEMMA ScanQuiet ==
  ASSUME TypeOK, NEW q \in Scanners, Scan(q)
  PROVE  Quiet
<1>0. q \in Procs /\ q \notin Inserters /\ q # Vac /\ Vac \in Procs /\ Inserters \subseteq Procs
  BY ProcSets, ProcAssumption, Zenon
<1>1. CASE Search(q)
  BY <1>0, <1>1, SearchQuiet, Zenon DEF Quiet, InsertMoves, VacuumMoves
<1>2. CASE ScanStart(q) \/ ScanPause(q) \/ ScanResume(q) \/ ScanEnd(q)
  <2>1. /\ UNCHANGED <<heap, heaptid, heaptids, nslots, deleted, deadTids, blkno>>
        /\ \E w : Become(q, w)
    BY <1>2, Zenon DEF ScanStart, ScanPause, ScanResume, ScanEnd, diskVars, heapVars, vacVars
  <2>2. \A r \in Procs \ {q} : pc'[r] = pc[r]
    BY <1>0, <2>1, PcSet, Zenon
  <2>. QED BY <1>0, <2>1, <2>2, Zenon DEF Quiet, InsertMoves, VacuumMoves
<1>. QED BY <1>1, <1>2, Zenon DEF Scan

LEMMA VacuumQuiet ==
  ASSUME TypeOK, Vacuum
  PROVE  Quiet \/ VacuumStart \/ VacuumAbort \/ RemoveHeapTids \/ MarkDeleted \/ VacuumEnd
<1>0. Vac \in Procs /\ Vac \in Updaters /\ Inserters \subseteq Procs /\ Vac \notin Inserters
  BY ProcSets, ProcAssumption, Zenon
<1> DEFINE Still == UNCHANGED <<heap, heaptid, heaptids, nslots, deleted, deadTids>>
           Later == {"ep1", "ep2", "loop", "check", "lock", "lockx", "search", "links", "wait2",
                     "confirm", "wait3", "mark", "error", "notrepaired"}
           From  == {"wait1", "ep1", "ep2", "loop", "check", "lock", "lockx", "search", "links",
                     "wait2", "confirm", "wait3"}
<1>1. ASSUME Still, pc[Vac] \in From, NEW w \in Later, Become(Vac, w) PROVE Quiet
  <2>1. pc'[Vac] = w /\ \A r \in Procs \ {Vac} : pc'[r] = pc[r]
    BY <1>0, <1>1, PcSet, Zenon
  <2>2. pc[Vac] \notin Unclean /\ w \notin {"idle", "remove"}
    BY <1>1, ZenonT(30) DEF Unclean
  <2>. QED BY <1>0, <1>1, <2>1, <2>2, Zenon DEF Quiet, InsertMoves, VacuumMoves
<1>2. CASE Search(Vac)
  <2>1. pc[Vac] = "search"
    <3>1. pc[Vac] \in {"search", "scan"} /\ pc[Vac] \in VacuumPc
      BY <1>0, <1>2, SearchQuiet, ZenonT(30) DEF TypeOK, ControlType
    <3>. QED BY <3>1, ZenonT(30) DEF VacuumPc
  <2>2. pc[Vac] \notin Unclean /\ pc[Vac] \notin {"idle", "remove"}
    BY <2>1, ZenonT(30) DEF Unclean
  <2>3. /\ UNCHANGED <<heap, heaptid, heaptids, nslots, deleted, deadTids, blkno>>
        /\ (pc'[Vac] = pc[Vac] \/ pc'[Vac] = "error") /\ \A r \in Procs \ {Vac} : pc'[r] = pc[r]
    BY <1>0, <1>2, SearchQuiet, Zenon
  <2>. QED BY <1>0, <2>2, <2>3, Zenon DEF Quiet, InsertMoves, VacuumMoves
<1>3. CASE UpdateNeighbors(Vac)
  <2>1. /\ UNCHANGED <<heap, heaptid, heaptids, nslots, deleted, deadTids, blkno>>
        /\ pc[Vac] \in Linking /\ (pc'[Vac] \in Linking \/ pc'[Vac] = "error")
        /\ \A r \in Procs \ {Vac} : pc'[r] = pc[r]
    BY <1>0, <1>3, UpdateQuiet, Zenon
  <2>2. pc[Vac] \notin Unclean /\ pc'[Vac] \notin {"idle", "remove"}
    BY <2>1, ZenonT(30) DEF Linking, Unclean
  <2>. QED BY <1>0, <2>1, <2>2, Zenon DEF Quiet, InsertMoves, VacuumMoves
<1>4. CASE VacuumLock \/ OverwriteNeighbors
  <2>1. Still /\ pc[Vac] \in From /\ \E w \in Later : Become(Vac, w)
    BY <1>4, Zenon DEF VacuumLock, WaitForInserts, RepairHighestPoint, RepairEntryPoint,
       RepairLockShare, RepairLockExclusive, WaitForInsertsAgain, WaitForScans, BeginRepair,
       OverwriteNeighbors, diskVars, heapVars, vacVars
  <2>. QED BY <1>1, <2>1, Zenon
<1>5. CASE LoadPage \/ CheckElement \/ RepairFinish \/ ConfirmRepaired
  <2>1. Still /\ pc[Vac] \in From /\ \E w \in Later : Become(Vac, w)
    BY <1>5, Zenon DEF LoadPage, CheckElement, RepairFinish, ConfirmRepaired, Advance,
       diskVars, heapVars
  <2>. QED BY <1>1, <2>1, Zenon
<1>. QED BY <1>2, <1>3, <1>4, <1>5, Zenon DEF Vacuum, VacuumStep

LEMMA TidWriters ==
  ASSUME TypeOK, Next
  PROVE  \/ Quiet
         \/ \E p \in Inserters : TidSteps(p)
         \/ \E h \in HeapTid : HeapDelete(h)
         \/ VacuumStart \/ VacuumAbort \/ RemoveHeapTids \/ MarkDeleted \/ VacuumEnd
  BY InsertQuiet, ScanQuiet, VacuumQuiet, Zenon DEF Next

-----------------------------------------------------------------------------
LEMMA TidInit ==
  ASSUME Init PROVE TidInv
<1>1. /\ heaptids = [s \in Slot |-> IF s <= NBuilt THEN {s} ELSE {}]
      /\ nslots = NBuilt /\ deleted = [s \in Slot |-> FALSE]
      /\ heap = [h \in HeapTid |-> IF h <= NBuilt THEN "live" ELSE "unused"]
      /\ heaptid = [p \in Inserters |-> NULL] /\ pc = [p \in Procs |-> "idle"]
      /\ deadTids = {}
  BY Zenon DEF Init
<1>2. /\ \A p \in Inserters : pc[p] = "idle" /\ heaptid[p] = NULL
      /\ pc[Vac] = "idle"
  BY <1>1, ProcSets, ZenonT(30)
<1>3. /\ \A s \in Slot : s <= NBuilt => heaptids[s] = {s}
      /\ \A s \in Slot : ~(s <= NBuilt) => heaptids[s] = {}
      /\ \A s \in Slot : ~deleted[s]
  BY <1>1, ZenonT(30)
<1>4. \A h \in HeapTid : h <= NBuilt => h \in Slot /\ heap[h] = "live"
  BY <1>1, BoundAssumption, SMTT(30), Z3T(30) DEF Slot, HeapTid
<1>5. \A s \in Slot : s <= NBuilt => s \in HeapTid
  BY BoundAssumption, SMTT(30), Z3T(30) DEF Slot, HeapTid
<1>6. InserterInv
  BY <1>2, Zenon DEF InserterInv
<1>7. ElementInv
  BY <1>1, <1>3, <1>4, <1>5, ZenonT(30) DEF ElementInv
<1>8. CommittedInv
  <2>1. ASSUME NEW h \in HeapTid, heap[h] = "live" PROVE h \in Indexed
    <3>1. h <= NBuilt
      BY <1>1, <2>1, ZenonT(30)
    <3>2. h \in Slot /\ h \in heaptids[h]
      BY <1>3, <1>4, <3>1, ZenonT(30)
    <3>. QED BY <3>2, InIndex, ZenonT(30)
  <2>. QED BY <2>1, ZenonT(30) DEF CommittedInv
<1>9. PlaceInv
  BY <1>2, ZenonT(30) DEF PlaceInv, Waiting, Linking
<1>10. DeadInv
  BY <1>1, <1>2, ZenonT(30) DEF DeadInv, Unclean
<1>. QED BY <1>6, <1>7, <1>8, <1>9, <1>10, ZenonT(30) DEF TidInv

\* A step that moves no TID
LEMMA QuietTids ==
  ASSUME TypeOK, LocalInv, TidInv, Quiet
  PROVE  TidInv'
<1>1. /\ UNCHANGED <<heap, heaptid, heaptids, nslots, deleted, deadTids>>
      /\ \A p \in Inserters : InsertMoves(p) /\ VacuumMoves
  BY Zenon DEF Quiet
<1>2. UNCHANGED Indexed
  BY <1>1, Zenon DEF Indexed
<1>3. InserterInv'
  BY <1>1, ZenonT(30) DEF TidInv, InserterInv, InsertMoves, Waiting, Linking
<1>4. ElementInv' /\ CommittedInv'
  BY <1>1, <1>2, Zenon DEF TidInv, ElementInv, CommittedInv
<1>5. PlaceInv'
  BY <1>1, <1>2, ZenonT(30) DEF TidInv, PlaceInv, InsertMoves, Waiting, Linking
<1>6. DeadInv'
  <2>1. VacuumMoves
    BY Zenon DEF Quiet
  <2>. QED BY <1>1, <2>1, ZenonT(30) DEF TidInv, DeadInv, VacuumMoves, Unclean
<1>. QED BY <1>3, <1>4, <1>5, <1>6, ZenonT(30) DEF TidInv

\* What the steps below say of the other backends
LEMMA Becoming ==
  ASSUME TypeOK, NEW p \in Inserters, NEW w, Become(p, w)
  PROVE  pc'[p] = w /\ pc'[Vac] = pc[Vac] /\ \A r \in Inserters \ {p} : pc'[r] = pc[r]
  BY PcSet, ProcSets, ProcAssumption, Zenon

LEMMA StartTids ==
  ASSUME TypeOK, LocalInv, TidInv, NEW p \in Inserters, InsertStart(p)
  PROVE  TidInv'
<1>0. /\ heap \in [HeapTid -> {"unused", "live", "dead"}]
      /\ heaptid \in [Inserters -> HeapTid \cup {NULL}] /\ NULL \notin HeapTid
      /\ heaptids \in [Slot -> SUBSET HeapTid] /\ deadTids \in SUBSET HeapTid
  BY Base, ZenonT(30)
<1>1. PICK h \in HeapTid : /\ heap[h] = "unused"
                           /\ heap' = [heap EXCEPT ![h] = "live"]
                           /\ heaptid' = [heaptid EXCEPT ![p] = h]
  BY Zenon DEF InsertStart
<1>2. /\ pc[p] = "idle" /\ UNCHANGED <<heaptids, nslots, deleted, deadTids, blkno>>
      /\ Become(p, "lock")
  BY Zenon DEF InsertStart, diskVars, vacVars
<1>3. pc'[p] = "lock" /\ pc'[Vac] = pc[Vac] /\ \A r \in Inserters \ {p} : pc'[r] = pc[r]
  BY <1>2, Becoming, Zenon
<1>4. UNCHANGED Indexed
  BY <1>2, Zenon DEF Indexed
<1>5. /\ heap'[h] = "live" /\ \A g \in HeapTid \ {h} : heap'[g] = heap[g]
      /\ heaptid'[p] = h /\ \A r \in Inserters \ {p} : heaptid'[r] = heaptid[r]
  BY <1>0, <1>1, ZenonT(30)
<1>6. h \notin Indexed
  BY <1>1, InIndex, ZenonT(30) DEF TidInv, ElementInv
<1>7. InserterInv'
  BY <1>0, <1>1, <1>3, <1>5, SMTT(30), Z3T(30) DEF TidInv, InserterInv
<1>8. ElementInv'
  BY <1>0, <1>2, <1>5, ZenonT(30) DEF TidInv, ElementInv
<1>9. CommittedInv'
  BY <1>0, <1>2, <1>3, <1>4, <1>5, SMTT(30), Z3T(30) DEF TidInv, CommittedInv, InserterInv
<1>10. PlaceInv'
  BY <1>3, <1>4, <1>5, <1>6, Zenon DEF TidInv, PlaceInv, Waiting, Linking
<1>11. DeadInv'
  <2>1. \A g \in deadTids : heap'[g] = "dead"
    BY <1>0, <1>1, <1>5, ZenonT(30) DEF TidInv, DeadInv
  <2>. QED BY <1>2, <1>3, <2>1, ZenonT(30) DEF TidInv, DeadInv
<1>. QED BY <1>7, <1>8, <1>9, <1>10, <1>11, ZenonT(30) DEF TidInv

\* The TID of an insert enters element s: HnswAddDuplicate, or the write of a new element
LEMMA Entering ==
  ASSUME TypeOK, LocalInv, TidInv, NEW p \in Inserters, NEW s \in Slot, pc[p] = "update",
         heaptids' = [heaptids EXCEPT ![s] = heaptids[s] \cup {heaptid[p]}],
         UNCHANGED <<heap, deadTids>>
  PROVE  /\ heaptid[p] \in HeapTid /\ heaptid[p] \notin Indexed /\ heaptid[p] \notin deadTids
         /\ heaptid[p] # NULL /\ heap[heaptid[p]] = "live"
         /\ Indexed' = Indexed \cup {heaptid[p]}
         /\ \A t \in Slot : \A h : h \in heaptids'[t] <=>
              h \in heaptids[t] \/ (t = s /\ h = heaptid[p])
         /\ \A q \in Inserters \ {p} : heaptid[q] # heaptid[p]
<1>1. heaptid[p] \in HeapTid /\ heaptid[p] # NULL /\ heaptids \in [Slot -> SUBSET HeapTid]
  BY Base, ZenonT(30)
<1>2. heap[heaptid[p]] = "live" /\ \A q \in Inserters \ {p} : heaptid[q] # heaptid[p]
  BY <1>1, ZenonT(30) DEF TidInv, InserterInv
<1>3. heaptid[p] \notin Indexed
  BY ZenonT(30) DEF TidInv, PlaceInv, Waiting
<1>4. heaptid[p] \notin deadTids
  BY <1>2, ZenonT(30) DEF TidInv, DeadInv
<1>5. \A t \in Slot : \A h : h \in heaptids'[t] <=>
        h \in heaptids[t] \/ (t = s /\ h = heaptid[p])
  BY <1>1, ZenonT(30)
<1>6. Indexed' = Indexed \cup {heaptid[p]}
  <2>1. \A h : h \in Indexed' <=> h \in Indexed \/ h = heaptid[p]
    BY <1>5, InIndex, ZenonT(30)
  <2>. QED BY <2>1, ZenonT(30)
<1>. QED BY <1>1, <1>2, <1>3, <1>4, <1>5, <1>6, ZenonT(30)

LEMMA AddTids ==
  ASSUME TypeOK, LocalInv, TidInv, NEW p \in Inserters, NEW s \in Slot, pc[p] = "update",
         heaptids' = [heaptids EXCEPT ![s] = heaptids[s] \cup {heaptid[p]}],
         UNCHANGED <<heap, deadTids, blkno>>,
         \A r \in Inserters \ {p} : heaptid'[r] = heaptid[r] /\ pc'[r] = pc[r],
         pc'[Vac] = pc[Vac],
         \/ heaptid'[p] = heaptid[p] /\ pc'[p] = "links"
         \/ heaptid'[p] = NULL /\ pc'[p] = "idle",
         \A t \in Slot : heaptids'[t] # {} => t <= nslots' /\ ~deleted'[t]
  PROVE  TidInv'
<1>0. heaptid \in [Inserters -> HeapTid \cup {NULL}] /\ NULL \notin HeapTid
  BY Base, ZenonT(30)
<1>1. PICK h : h = heaptid[p]
  BY Zenon
<1>2. /\ h \in HeapTid /\ h \notin Indexed /\ h \notin deadTids /\ h # NULL /\ heap[h] = "live"
      /\ Indexed' = Indexed \cup {h}
      /\ \A t \in Slot : \A g : g \in heaptids'[t] <=> g \in heaptids[t] \/ (t = s /\ g = h)
      /\ \A q \in Inserters \ {p} : heaptid[q] # h
  <2>1. UNCHANGED <<heap, deadTids>>
    BY Zenon
  <2>2. /\ heaptid[p] \in HeapTid /\ heaptid[p] \notin Indexed /\ heaptid[p] \notin deadTids
        /\ heaptid[p] # NULL /\ heap[heaptid[p]] = "live"
        /\ Indexed' = Indexed \cup {heaptid[p]}
        /\ \A t \in Slot : \A g : g \in heaptids'[t] <=>
             g \in heaptids[t] \/ (t = s /\ g = heaptid[p])
        /\ \A q \in Inserters \ {p} : heaptid[q] # heaptid[p]
    BY <2>1, Entering, ZenonT(30)
  <2>. QED BY <1>1, <2>2, ZenonT(30)
<1>3. InserterInv'
  BY <1>0, <1>1, <1>2, SMTT(30), Z3T(30) DEF TidInv, InserterInv
<1>4. ElementInv'
  <2>1. \A t \in Slot : h \notin heaptids[t]
    BY <1>2, InIndex, SMTT(30), Z3T(30)
  <2>2. \A t, u \in Slot : \A g \in heaptids'[t] : g \in heaptids'[u] => t = u
    BY <1>2, <2>1, SMTT(30), Z3T(30) DEF TidInv, ElementInv
  <2>3. \A t \in Slot : \A g \in heaptids'[t] : heap'[g] # "unused"
    BY <1>2, SMTT(30), Z3T(30) DEF TidInv, ElementInv
  <2>. QED BY <2>2, <2>3, SMTT(30), Z3T(30) DEF ElementInv
<1>5. CommittedInv'
  <2>1. ASSUME NEW g \in HeapTid, heap'[g] = "live", \A q \in Inserters : heaptid'[q] # g
        PROVE  g \in Indexed'
    <3>1. CASE g = h
      BY <1>2, <3>1, Zenon
    <3>2. CASE g # h
      <4>1. \A q \in Inserters : heaptid[q] # g
        BY <1>1, <2>1, <3>2, ZenonT(30)
      <4>. QED BY <1>2, <2>1, <4>1, Zenon DEF TidInv, CommittedInv
    <3>. QED BY <3>1, <3>2, Zenon
  <2>. QED BY <2>1, Zenon DEF CommittedInv
<1>6. PlaceInv'
  BY <1>1, <1>2, SMTT(30), Z3T(30) DEF TidInv, PlaceInv, Waiting, Linking
<1>7. DeadInv'
  <2>1. \A t \in Slot : heaptids[t] \cap deadTids = {} => heaptids'[t] \cap deadTids = {}
    BY <1>2, SMTT(30), Z3T(30)
  <2>. QED BY <2>1, Zenon DEF TidInv, DeadInv
<1>. QED BY <1>3, <1>4, <1>5, <1>6, <1>7, ZenonT(30) DEF TidInv

LEMMA DuplicateEffect ==
  ASSUME TypeOK, LocalInv, NEW p \in Inserters, NEW s \in sel[p], AddDuplicateOnDisk(p, s)
  PROVE  /\ s \in Slot /\ pc[p] = "update" /\ heaptids[s] # {}
         /\ heaptids' = [heaptids EXCEPT ![s] = heaptids[s] \cup {heaptid[p]}]
         /\ UNCHANGED <<heap, deadTids, blkno, nslots, deleted>>
         /\ \A r \in Inserters \ {p} : heaptid'[r] = heaptid[r] /\ pc'[r] = pc[r]
         /\ pc'[Vac] = pc[Vac] /\ heaptid'[p] = NULL /\ pc'[p] = "idle"
<1>1. /\ pc[p] = "update" /\ heaptids[s] # {}
      /\ heaptids' = [heaptids EXCEPT ![s] = heaptids[s] \cup {heaptid[p]}]
      /\ UNCHANGED <<heap, deadTids, blkno, nslots, deleted>>
      /\ heaptid' = [heaptid EXCEPT ![p] = NULL] /\ Become(p, "idle")
  BY Zenon DEF AddDuplicateOnDisk, heapVars, vacVars
<1>2. sel[p] \subseteq Slot
  BY ProcSets, Zenon DEF TypeOK, LinkType
<1>3. heaptid'[p] = NULL /\ \A r \in Inserters \ {p} : heaptid'[r] = heaptid[r]
  BY <1>1, Domains, Zenon
<1>. QED BY <1>1, <1>2, <1>3, Becoming, Zenon

LEMMA DuplicateTids ==
  ASSUME TypeOK, LocalInv, TidInv, NEW p \in Inserters, NEW s \in sel[p],
         AddDuplicateOnDisk(p, s)
  PROVE  TidInv'
<1>1. /\ s \in Slot /\ pc[p] = "update" /\ heaptids[s] # {}
      /\ heaptids' = [heaptids EXCEPT ![s] = heaptids[s] \cup {heaptid[p]}]
      /\ UNCHANGED <<heap, deadTids, blkno, nslots, deleted>>
      /\ \A r \in Inserters \ {p} : heaptid'[r] = heaptid[r] /\ pc'[r] = pc[r]
      /\ pc'[Vac] = pc[Vac] /\ heaptid'[p] = NULL /\ pc'[p] = "idle"
  BY DuplicateEffect, Zenon
<1>2. \A t \in Slot : heaptids'[t] # {} => t <= nslots' /\ ~deleted'[t]
  <2>1. \A t \in Slot : heaptids'[t] # {} => heaptids[t] # {}
    BY <1>1, Base, ZenonT(30)
  <2>. QED BY <1>1, <2>1, ZenonT(30) DEF TidInv, ElementInv
<1>. QED BY <1>1, <1>2, AddTids, Zenon

LEMMA ElementEffect ==
  ASSUME TypeOK, LocalInv, TidInv, NEW p \in Inserters, NEW s \in Slot, AddElementOnDisk(p, s)
  PROVE  /\ pc[p] = "update" /\ heaptids[s] = {}
         /\ heaptids' = [heaptids EXCEPT ![s] = heaptids[s] \cup {heaptid[p]}]
         /\ UNCHANGED <<heap, deadTids, blkno, heaptid>>
         /\ nslots' = IF s > nslots THEN s ELSE nslots
         /\ deleted' = [deleted EXCEPT ![s] = FALSE]
         /\ \A r \in Inserters \ {p} : heaptid'[r] = heaptid[r] /\ pc'[r] = pc[r]
         /\ pc'[Vac] = pc[Vac] /\ heaptid'[p] = heaptid[p] /\ pc'[p] = "links"
<1>1. /\ pc[p] = "update" /\ (s = nslots + 1 \/ deleted[s])
      /\ heaptids' = [heaptids EXCEPT ![s] = {heaptid[p]}]
      /\ UNCHANGED <<heap, deadTids, blkno, heaptid>>
      /\ nslots' = IF s > nslots THEN s ELSE nslots
      /\ deleted' = [deleted EXCEPT ![s] = FALSE]
      /\ Become(p, "links")
  BY Zenon DEF AddElementOnDisk, heapVars, vacVars
<1>2. heaptids[s] = {}
  BY <1>1, Base, BoundAssumption, SMTT(30), Z3T(30) DEF TidInv, ElementInv, Slot
<1>3. heaptids[s] \cup {heaptid[p]} = {heaptid[p]}
  BY <1>2, Zenon
<1>. QED BY <1>1, <1>2, <1>3, Becoming, Zenon

LEMMA ElementTids ==
  ASSUME TypeOK, LocalInv, TidInv, NEW p \in Inserters, NEW s \in Slot, AddElementOnDisk(p, s)
  PROVE  TidInv'
<1>1. /\ pc[p] = "update" /\ heaptids[s] = {}
      /\ heaptids' = [heaptids EXCEPT ![s] = heaptids[s] \cup {heaptid[p]}]
      /\ UNCHANGED <<heap, deadTids, blkno, heaptid>>
      /\ nslots' = IF s > nslots THEN s ELSE nslots
      /\ deleted' = [deleted EXCEPT ![s] = FALSE]
      /\ \A r \in Inserters \ {p} : heaptid'[r] = heaptid[r] /\ pc'[r] = pc[r]
      /\ pc'[Vac] = pc[Vac] /\ heaptid'[p] = heaptid[p] /\ pc'[p] = "links"
  BY ElementEffect, Zenon
<1>2. \A t \in Slot : heaptids'[t] # {} => t <= nslots' /\ ~deleted'[t]
  <2>0. heaptids \in [Slot -> SUBSET HeapTid] /\ deleted \in [Slot -> BOOLEAN] /\ nslots \in Nat
    BY Base, Zenon
  <2>1. ASSUME NEW t \in Slot, t # s, heaptids'[t] # {} PROVE t <= nslots' /\ ~deleted'[t]
    <3>1. heaptids[t] # {} /\ deleted'[t] = deleted[t]
      BY <1>1, <2>0, <2>1, Zenon
    <3>2. t <= nslots /\ ~deleted[t]
      BY <3>1, Zenon DEF TidInv, ElementInv
    <3>. QED BY <1>1, <2>0, <3>1, <3>2, BoundAssumption, SMTT(30), Z3T(30) DEF Slot
  <2>2. s <= nslots' /\ ~deleted'[s]
    BY <1>1, <2>0, BoundAssumption, SMTT(30), Z3T(30) DEF Slot
  <2>. QED BY <2>1, <2>2, Zenon
<1>. QED BY <1>1, <1>2, AddTids, Zenon

\* The insert is over: it has returned, or it has ended with an error and its row is dead
LEMMA EndEffect ==
  ASSUME TypeOK, LocalInv, NEW p \in Inserters, InsertFinish(p) \/ InsertAbort(p)
  PROVE  /\ \/ pc[p] = "links" /\ heap' = heap
            \/ pc[p] # "idle" /\ heap' = [heap EXCEPT ![heaptid[p]] = "dead"]
         /\ UNCHANGED <<heaptids, deadTids, blkno, nslots, deleted>>
         /\ \A r \in Inserters \ {p} : heaptid'[r] = heaptid[r] /\ pc'[r] = pc[r]
         /\ pc'[Vac] = pc[Vac] /\ heaptid'[p] = NULL /\ pc'[p] = "idle"
<1>1. /\ \/ pc[p] = "links" /\ heap' = heap
         \/ pc[p] # "idle" /\ heap' = [heap EXCEPT ![heaptid[p]] = "dead"]
      /\ UNCHANGED <<heaptids, deadTids, blkno, nslots, deleted>>
      /\ heaptid' = [heaptid EXCEPT ![p] = NULL] /\ Become(p, "idle")
  BY Zenon DEF InsertFinish, InsertAbort, diskVars, heapVars, vacVars
<1>2. heaptid'[p] = NULL /\ \A r \in Inserters \ {p} : heaptid'[r] = heaptid[r]
  BY <1>1, Domains, Zenon
<1>. QED BY <1>1, <1>2, Becoming, Zenon

LEMMA EndTids ==
  ASSUME TypeOK, LocalInv, TidInv, NEW p \in Inserters, InsertFinish(p) \/ InsertAbort(p)
  PROVE  TidInv'
<1>0. /\ heap \in [HeapTid -> {"unused", "live", "dead"}]
      /\ heaptid \in [Inserters -> HeapTid \cup {NULL}] /\ NULL \notin HeapTid
      /\ heaptids \in [Slot -> SUBSET HeapTid] /\ deadTids \in SUBSET HeapTid
      /\ pc[p] # "idle" => heaptid[p] \in HeapTid
  BY Base, Zenon
<1>1. PICK h : h = heaptid[p]
  BY Zenon
<1>2. /\ \/ pc[p] = "links" /\ heap' = heap
         \/ pc[p] # "idle" /\ heap' = [heap EXCEPT ![h] = "dead"]
      /\ UNCHANGED <<heaptids, deadTids, blkno, nslots, deleted>>
      /\ \A r \in Inserters \ {p} : heaptid'[r] = heaptid[r] /\ pc'[r] = pc[r]
      /\ pc'[Vac] = pc[Vac] /\ heaptid'[p] = NULL /\ pc'[p] = "idle"
  BY <1>1, EndEffect, Zenon
<1>3. /\ h \in HeapTid /\ h # NULL /\ heap[h] = "live"
      /\ \A r \in Inserters \ {p} : heaptid[r] # h
  BY <1>0, <1>1, <1>2, Zenon DEF TidInv, InserterInv
<1>4. /\ \A g \in HeapTid \ {h} : heap'[g] = heap[g]
      /\ heap'[h] = "dead" \/ (pc[p] = "links" /\ heap'[h] = "live")
  BY <1>0, <1>2, <1>3, ZenonT(30)
<1>5. UNCHANGED Indexed
  BY <1>2, Zenon DEF Indexed
<1>6. InserterInv'
  BY <1>0, <1>2, <1>3, <1>4, SMTT(30), Z3T(30) DEF TidInv, InserterInv
<1>7. ElementInv'
  BY <1>0, <1>2, <1>4, ZenonT(30) DEF TidInv, ElementInv
<1>8. CommittedInv'
  <2>1. pc[p] = "links" => h \in Indexed
    BY <1>1, Zenon DEF TidInv, PlaceInv, Linking
  <2>2. ASSUME NEW g \in HeapTid, heap'[g] = "live", \A q \in Inserters : heaptid'[q] # g
        PROVE  g \in Indexed'
    <3>1. CASE g = h
      BY <1>4, <1>5, <2>1, <2>2, <3>1, Zenon
    <3>2. CASE g # h
      BY <1>1, <1>2, <1>4, <1>5, <2>2, <3>2, ZenonT(30) DEF TidInv, CommittedInv
    <3>. QED BY <3>1, <3>2, Zenon
  <2>. QED BY <2>2, Zenon DEF CommittedInv
<1>9. PlaceInv'
  BY <1>2, <1>5, ZenonT(30) DEF TidInv, PlaceInv, Waiting, Linking
<1>10. DeadInv'
  <2>1. \A g \in deadTids : heap'[g] = "dead"
    BY <1>0, <1>3, <1>4, ZenonT(30) DEF TidInv, DeadInv
  <2>. QED BY <1>2, <2>1, ZenonT(30) DEF TidInv, DeadInv
<1>. QED BY <1>6, <1>7, <1>8, <1>9, <1>10, Zenon DEF TidInv

LEMMA DeleteTids ==
  ASSUME TypeOK, LocalInv, TidInv, NEW h \in HeapTid, HeapDelete(h)
  PROVE  TidInv'
<1>0. /\ heap \in [HeapTid -> {"unused", "live", "dead"}]
      /\ heaptid \in [Inserters -> HeapTid \cup {NULL}] /\ NULL \notin HeapTid
      /\ heaptids \in [Slot -> SUBSET HeapTid] /\ deadTids \in SUBSET HeapTid
  BY Base, ZenonT(30)
<1>1. /\ heap[h] = "live" /\ heap' = [heap EXCEPT ![h] = "dead"]
      /\ \A p \in Inserters : heaptid[p] # h
      /\ UNCHANGED <<heaptid, pc, heaptids, deadTids, blkno, nslots, deleted>>
  BY Zenon DEF HeapDelete, diskVars, vacVars
<1>2. heap'[h] = "dead" /\ \A g \in HeapTid \ {h} : heap'[g] = heap[g]
  BY <1>0, <1>1, ZenonT(30)
<1>3. UNCHANGED Indexed
  BY <1>1, Zenon DEF Indexed
<1>4. InserterInv'
  BY <1>0, <1>1, <1>2, ZenonT(30) DEF TidInv, InserterInv
<1>5. ElementInv'
  BY <1>0, <1>1, <1>2, ZenonT(30) DEF TidInv, ElementInv
<1>6. CommittedInv'
  BY <1>1, <1>2, <1>3, Zenon DEF TidInv, CommittedInv
<1>7. PlaceInv'
  BY <1>1, <1>3, Zenon DEF TidInv, PlaceInv
<1>8. DeadInv'
  <2>1. \A g \in deadTids : heap'[g] = "dead"
    BY <1>0, <1>2, ZenonT(30) DEF TidInv, DeadInv
  <2>. QED BY <1>1, <2>1, ZenonT(30) DEF TidInv, DeadInv
<1>. QED BY <1>4, <1>5, <1>6, <1>7, <1>8, ZenonT(30) DEF TidInv

-----------------------------------------------------------------------------
\* The vacuum moves, and the inserts stay where they are
LEMMA VacBecoming ==
  ASSUME TypeOK, NEW w, Become(Vac, w)
  PROVE  pc'[Vac] = w /\ \A r \in Inserters : pc'[r] = pc[r]
  BY PcSet, ProcSets, ProcAssumption, Zenon

LEMMA VacStartTids ==
  ASSUME TypeOK, LocalInv, TidInv, VacuumStart
  PROVE  TidInv'
<1>1. /\ deadTids' = {h \in HeapTid : heap[h] = "dead" /\ seenBy[h] = {}} /\ blkno' = 1
      /\ UNCHANGED <<heap, heaptid, heaptids, nslots, deleted>> /\ Become(Vac, "remove")
  BY Zenon DEF VacuumStart, diskVars, heapVars
<1>2. pc'[Vac] = "remove" /\ \A r \in Inserters : pc'[r] = pc[r]
  BY <1>1, VacBecoming, Zenon
<1>3. UNCHANGED Indexed
  BY <1>1, Zenon DEF Indexed
<1>4. InserterInv' /\ ElementInv' /\ CommittedInv' /\ PlaceInv'
  BY <1>1, <1>2, <1>3, Zenon DEF TidInv, InserterInv, ElementInv, CommittedInv, PlaceInv
<1>5. \A s \in Slot : ~(s < 1)
  BY BoundAssumption, SMTT(30), Z3T(30) DEF Slot
<1>6. DeadInv'
  BY <1>1, <1>2, <1>5, ZenonT(30) DEF DeadInv, Unclean
<1>. QED BY <1>4, <1>6, ZenonT(30) DEF TidInv

LEMMA VacAbortTids ==
  ASSUME TypeOK, LocalInv, TidInv, VacuumAbort
  PROVE  TidInv'
<1>1. /\ deadTids' = {}
      /\ UNCHANGED <<heap, heaptid, heaptids, nslots, deleted>> /\ Become(Vac, "idle")
  BY Zenon DEF VacuumAbort, ForgetVacuum, diskVars, heapVars
<1>2. pc'[Vac] = "idle" /\ \A r \in Inserters : pc'[r] = pc[r]
  BY <1>1, VacBecoming, Zenon
<1>3. UNCHANGED Indexed
  BY <1>1, Zenon DEF Indexed
<1>4. InserterInv' /\ ElementInv' /\ CommittedInv' /\ PlaceInv'
  BY <1>1, <1>2, <1>3, Zenon DEF TidInv, InserterInv, ElementInv, CommittedInv, PlaceInv
<1>6. DeadInv'
  BY <1>1, <1>2, ZenonT(30) DEF DeadInv, Unclean
<1>. QED BY <1>4, <1>6, SMTT(30), Z3T(30) DEF TidInv

LEMMA VacEndTids ==
  ASSUME TypeOK, LocalInv, TidInv, VacuumEnd
  PROVE  TidInv'
<1>0. /\ heap \in [HeapTid -> {"unused", "live", "dead"}]
      /\ heaptid \in [Inserters -> HeapTid \cup {NULL}] /\ NULL \notin HeapTid
      /\ heaptids \in [Slot -> SUBSET HeapTid]
  BY Base, ZenonT(30)
<1>1. /\ pc[Vac] = "end" /\ deadTids' = {}
      /\ heap' = [h \in HeapTid |-> IF h \in deadTids THEN "unused" ELSE heap[h]]
      /\ UNCHANGED <<heaptid, heaptids, nslots, deleted>> /\ Become(Vac, "idle")
  BY Zenon DEF VacuumEnd, ForgetVacuum, diskVars
<1>2. pc'[Vac] = "idle" /\ \A r \in Inserters : pc'[r] = pc[r]
  BY <1>1, VacBecoming, Zenon
<1>3. UNCHANGED Indexed
  BY <1>1, Zenon DEF Indexed
<1>4. /\ \A h \in deadTids : heap[h] = "dead"
      /\ \A s \in Slot : heaptids[s] \cap deadTids = {}
  BY <1>1, ZenonT(30) DEF TidInv, DeadInv, Unclean
<1>5. /\ \A h \in HeapTid : h \notin deadTids => heap'[h] = heap[h]
      /\ \A h \in HeapTid : heap'[h] = "live" => heap[h] = "live"
  BY <1>1, ZenonT(30)
<1>6. InserterInv'
  BY <1>0, <1>1, <1>2, <1>4, <1>5, SMTT(30), Z3T(30) DEF TidInv, InserterInv
<1>7. ElementInv'
  BY <1>0, <1>1, <1>4, <1>5, ZenonT(30) DEF TidInv, ElementInv
<1>8. CommittedInv' /\ PlaceInv'
  BY <1>1, <1>2, <1>3, <1>5, Zenon DEF TidInv, CommittedInv, PlaceInv
<1>9. DeadInv'
  BY <1>1, <1>2, Zenon DEF DeadInv, Unclean
<1>. QED BY <1>6, <1>7, <1>8, <1>9, ZenonT(30) DEF TidInv

LEMMA RemoveEffect ==
  ASSUME TypeOK, LocalInv, RemoveHeapTids
  PROVE  /\ UNCHANGED <<heap, heaptid, nslots, deleted, deadTids>>
         /\ pc[Vac] = "remove" /\ \A r \in Inserters : pc'[r] = pc[r]
         /\ \A s \in Slot : s # blkno => heaptids'[s] = heaptids[s]
         /\ \A s \in Slot : s = blkno /\ s <= nslots => heaptids'[s] = heaptids[s] \ deadTids
         /\ \A s \in Slot : s = blkno /\ ~(s <= nslots) => heaptids'[s] = heaptids[s]
         /\ \/ blkno < nslots /\ blkno' = blkno + 1 /\ pc'[Vac] = "remove"
            \/ ~(blkno < nslots) /\ pc'[Vac] = "wait1"
<1>0. /\ heaptids \in [Slot -> SUBSET HeapTid] /\ nslots \in Nat /\ nslots <= MaxSlots
      /\ blkno \in Nat \ {0}
  BY Base, Zenon
<1>1. /\ UNCHANGED <<heap, heaptid, nslots, deleted, deadTids>> /\ pc[Vac] = "remove"
      /\ IF blkno > nslots THEN heaptids' = heaptids
         ELSE heaptids' = [heaptids EXCEPT ![blkno] = Remaining(heaptids[blkno])]
      /\ Advance(NextPage(blkno), "remove", "wait1")
  BY Zenon DEF RemoveHeapTids, heapVars
<1>2. /\ \A s \in Slot : s # blkno => heaptids'[s] = heaptids[s]
      /\ \A s \in Slot : s = blkno /\ s <= nslots => heaptids'[s] = heaptids[s] \ deadTids
      /\ \A s \in Slot : s = blkno /\ ~(s <= nslots) => heaptids'[s] = heaptids[s]
  BY <1>0, <1>1, SMTT(30), Z3T(30) DEF Remaining
<1>3. CASE blkno < nslots
  <2>1. NextPage(blkno) = blkno + 1 /\ blkno + 1 # NULL
    BY <1>0, <1>3, SMTT(30), Z3T(30) DEF NextPage, NULL
  <2>2. blkno' = blkno + 1 /\ Become(Vac, "remove")
    BY <1>1, <2>1, Zenon DEF Advance
  <2>. QED BY <1>1, <1>2, <1>3, <2>2, VacBecoming, Zenon
<1>4. CASE ~(blkno < nslots)
  <2>1. NextPage(blkno) = NULL
    BY <1>4, Zenon DEF NextPage
  <2>2. Become(Vac, "wait1")
    BY <1>1, <2>1, ZenonT(30) DEF Advance
  <2>. QED BY <1>1, <1>2, <1>4, <2>2, VacBecoming, Zenon
<1>. QED BY <1>3, <1>4, Zenon

LEMMA RemoveTids ==
  ASSUME TypeOK, LocalInv, TidInv, RemoveHeapTids
  PROVE  TidInv'
<1>0. /\ heaptids \in [Slot -> SUBSET HeapTid] /\ nslots \in Nat /\ blkno \in Nat \ {0}
      /\ heaptid \in [Inserters -> HeapTid \cup {NULL}] /\ NULL \notin HeapTid
  BY Base, ZenonT(30)
<1>1. /\ UNCHANGED <<heap, heaptid, nslots, deleted, deadTids>>
      /\ pc[Vac] = "remove" /\ \A r \in Inserters : pc'[r] = pc[r]
      /\ \A s \in Slot : s # blkno => heaptids'[s] = heaptids[s]
      /\ \A s \in Slot : s = blkno /\ s <= nslots => heaptids'[s] = heaptids[s] \ deadTids
      /\ \A s \in Slot : s = blkno /\ ~(s <= nslots) => heaptids'[s] = heaptids[s]
      /\ \/ blkno < nslots /\ blkno' = blkno + 1 /\ pc'[Vac] = "remove"
         \/ ~(blkno < nslots) /\ pc'[Vac] = "wait1"
  BY RemoveEffect, Zenon
<1>2. \A s \in Slot : /\ heaptids'[s] \subseteq heaptids[s]
                      /\ \A h \in heaptids[s] : h \notin deadTids => h \in heaptids'[s]
  BY <1>1, ZenonT(30)
<1>3. \A h \in deadTids : heap[h] = "dead"
  BY ZenonT(30) DEF TidInv, DeadInv
<1>4. /\ \A h : h \in Indexed' => h \in Indexed
      /\ \A h : h \in Indexed /\ h \notin deadTids => h \in Indexed'
  BY <1>2, InIndex, ZenonT(30)
<1>5. InserterInv'
  BY <1>1, Zenon DEF TidInv, InserterInv
<1>6. ElementInv'
  BY <1>1, <1>2, ZenonT(30) DEF TidInv, ElementInv
<1>7. CommittedInv'
  BY <1>1, <1>3, <1>4, Zenon DEF TidInv, CommittedInv
<1>8. PlaceInv'
  <2>1. ASSUME NEW p \in Inserters, pc[p] \in Linking PROVE heaptid[p] \notin deadTids
    <3>1. heaptid[p] \in HeapTid
      BY <2>1, Base, ZenonT(30) DEF Linking
    <3>2. heap[heaptid[p]] = "live"
      BY <1>0, <3>1, ZenonT(30) DEF TidInv, InserterInv
    <3>. QED BY <1>3, <3>2, ZenonT(30)
  <2>. QED BY <1>1, <1>4, <2>1, Zenon DEF TidInv, PlaceInv
<1>9. DeadInv'
  <2>1. \A s \in Slot : s < blkno => heaptids'[s] \cap deadTids = {}
    BY <1>1, <1>2, ZenonT(30) DEF TidInv, DeadInv
  <2>2. \A s \in Slot : s = blkno => heaptids'[s] \cap deadTids = {}
    <3>1. \A s \in Slot : ~(s <= nslots) => heaptids[s] = {}
      BY ZenonT(30) DEF TidInv, ElementInv
    <3>. QED BY <1>1, <3>1, ZenonT(30)
  <2>3. CASE blkno < nslots
    <3>1. \A s \in Slot : s < blkno + 1 => s < blkno \/ s = blkno
      BY <1>0, BoundAssumption, SMTT(30), Z3T(30) DEF Slot
    <3>. QED BY <1>1, <1>3, <2>1, <2>2, <2>3, <3>1, ZenonT(30) DEF DeadInv, Unclean
  <2>4. CASE ~(blkno < nslots)
    <3>1. \A s \in Slot : s > blkno => ~(s <= nslots)
      BY <1>0, <2>4, BoundAssumption, SMTT(30), Z3T(30) DEF Slot
    <3>2. \A s \in Slot : s > blkno => heaptids'[s] = {}
      BY <1>2, <3>1, Zenon DEF TidInv, ElementInv
    <3>3. \A s \in Slot : s < blkno \/ s = blkno \/ s > blkno
      BY <1>0, BoundAssumption, SMTT(30), Z3T(30) DEF Slot
    <3>4. \A s \in Slot : heaptids'[s] \cap deadTids = {}
      BY <2>1, <2>2, <3>2, <3>3, Zenon
    <3>. QED BY <1>1, <1>3, <2>4, <3>4, Zenon DEF DeadInv
  <2>. QED BY <2>3, <2>4, ZenonT(30)
<1>. QED BY <1>5, <1>6, <1>7, <1>8, <1>9, ZenonT(30) DEF TidInv

LEMMA MarkTids ==
  ASSUME TypeOK, LocalInv, TidInv, MarkDeleted
  PROVE  TidInv'
<1>0. deleted \in [Slot -> BOOLEAN]
  BY Base, Zenon
<1>1. /\ UNCHANGED <<heap, heaptid, heaptids, nslots, deadTids>> /\ pc[Vac] = "mark"
      /\ \/ deleted' = deleted
         \/ heaptids[blkno] = {} /\ deleted' = [deleted EXCEPT ![blkno] = TRUE]
      /\ Become(Vac, "mark") \/ Become(Vac, "end")
  BY Zenon DEF MarkDeleted, Advance, Live, heapVars
<1>2. pc'[Vac] \in {"mark", "end"} /\ \A r \in Inserters : pc'[r] = pc[r]
  BY <1>1, VacBecoming, Zenon
<1>3. UNCHANGED Indexed
  BY <1>1, Zenon DEF Indexed
<1>4. InserterInv' /\ CommittedInv' /\ PlaceInv'
  BY <1>1, <1>2, <1>3, Zenon DEF TidInv, InserterInv, CommittedInv, PlaceInv
<1>5. ElementInv'
  <2>1. \A s \in Slot : heaptids[s] # {} => deleted'[s] = deleted[s]
    BY <1>0, <1>1, ZenonT(30)
  <2>. QED BY <1>1, <2>1, Zenon DEF TidInv, ElementInv
<1>6. DeadInv'
  BY <1>1, <1>2, ZenonT(30) DEF TidInv, DeadInv, Unclean
<1>. QED BY <1>4, <1>5, <1>6, Zenon DEF TidInv

LEMMA TidStep ==
  ASSUME TypeOK, LocalInv, TidInv, [Next]_vars
  PROVE  TidInv'
<1>1. ASSUME Next PROVE TidInv'
  BY <1>1, TidWriters, QuietTids, StartTids, DuplicateTids, ElementTids, EndTids, DeleteTids,
     VacStartTids, VacAbortTids, VacEndTids, RemoveTids, MarkTids, Zenon DEF TidSteps
<1>2. ASSUME UNCHANGED vars PROVE TidInv'
  <2>1. Quiet
    BY <1>2, Zenon DEF Quiet, InsertMoves, VacuumMoves, vars, diskVars, heapVars, vacVars
  <2>. QED BY <2>1, QuietTids, ZenonT(30)
<1>. QED BY <1>1, <1>2, ZenonT(30)

\* The inductive invariant of the heap TIDs: where the TID of each insert is, and what
\* RemoveHeapTids has taken out so far.
THEOREM TidInvariance == Spec => [](TypeOK /\ LocalInv /\ TidInv)
<1>1. Init => TidInv
  BY TidInit, ZenonT(30)
<1>2. TypeOK /\ LocalInv /\ TidInv /\ [Next]_vars => TidInv'
  BY TidStep, ZenonT(30)
<1>. QED BY <1>1, <1>2, TypeCorrect, PTL DEF Spec

-----------------------------------------------------------------------------
(* HnswIndex implements IndexAM. *)

\* The row at a TID, in this state and the next
RowAt(h) ==
  IF heap[h] = "live" /\ \E p \in Inserters : heaptid[p] = h THEN "inserting" ELSE heap[h]

LEMMA Rows ==
  /\ RowOf = [h \in HeapTid |-> RowAt(h)] /\ RowOf' = [h \in HeapTid |-> RowAt(h)']
  BY Zenon DEF RowOf, RowAt

LEMMA AMInit ==
  ASSUME Init PROVE AM!Init
<1>1. /\ heaptids = [s \in Slot |-> IF s <= NBuilt THEN {s} ELSE {}]
      /\ heap = [h \in HeapTid |-> IF h <= NBuilt THEN "live" ELSE "unused"]
      /\ heaptid = [p \in Inserters |-> NULL] /\ deadTids = {}
  BY Zenon DEF Init
<1>2. \A h \in HeapTid : \A p \in Inserters : heaptid[p] # h
  BY <1>1, BoundAssumption, SMTT(30), Z3T(30) DEF HeapTid, NULL
<1>3. \A h \in HeapTid : RowAt(h) = IF h <= NBuilt THEN "live" ELSE "unused"
  BY <1>1, <1>2, ZenonT(30) DEF RowAt
<1>4. RowOf \in [HeapTid -> {"unused", "live", "out"}]
  BY <1>3, Rows, ZenonT(30)
<1>5. Indexed = {h \in HeapTid : RowOf[h] = "live"}
  <2>1. \A h \in HeapTid : RowOf[h] = "live" <=> h <= NBuilt
    BY <1>3, Rows, ZenonT(30)
  <2>2. \A h : h \in Indexed <=> h \in Slot /\ h <= NBuilt
    BY <1>1, InIndex, ZenonT(30)
  <2>3. \A h : h \in Slot /\ h <= NBuilt <=> h \in HeapTid /\ h <= NBuilt
    BY BoundAssumption, SMTT(30), Z3T(30) DEF Slot, HeapTid
  <2>. QED BY <2>1, <2>2, <2>3, ZenonT(30)
<1>. QED BY <1>1, <1>4, <1>5, ZenonT(30) DEF AM!Init

LEMMA AMQuiet ==
  ASSUME UNCHANGED <<heap, heaptid, heaptids, deadTids>> PROVE UNCHANGED AM!vars
  BY Zenon DEF AM!vars, RowOf, Indexed

\* One row changes to r
LEMMA RowSet ==
  ASSUME NEW h \in HeapTid, NEW r, RowAt(h)' = r, \A g \in HeapTid \ {h} : RowAt(g)' = RowAt(g)
  PROVE  RowOf' = [RowOf EXCEPT ![h] = r]
  BY Rows, Zenon

LEMMA AMBegin ==
  ASSUME TypeOK, LocalInv, TidInv, NEW p \in Inserters, InsertStart(p)
  PROVE  \E h \in HeapTid : AM!Begin(h)
<1>0. /\ heap \in [HeapTid -> {"unused", "live", "dead"}]
      /\ heaptid \in [Inserters -> HeapTid \cup {NULL}] /\ NULL \notin HeapTid
  BY Base, SMTT(30), Z3T(30)
<1>1. PICK h \in HeapTid : /\ heap[h] = "unused"
                           /\ heap' = [heap EXCEPT ![h] = "live"]
                           /\ heaptid' = [heaptid EXCEPT ![p] = h]
  BY Zenon DEF InsertStart
<1>2. pc[p] = "idle" /\ UNCHANGED <<heaptids, deadTids>>
  BY Zenon DEF InsertStart, diskVars, vacVars
<1>3. heaptid[p] = NULL
  BY <1>2, Zenon DEF TidInv, InserterInv
<1>4. /\ heap'[h] = "live" /\ \A g \in HeapTid \ {h} : heap'[g] = heap[g]
      /\ heaptid'[p] = h /\ \A r \in Inserters \ {p} : heaptid'[r] = heaptid[r]
  BY <1>0, <1>1, Zenon
<1>5. RowAt(h)' = "inserting" /\ RowAt(h) = "unused"
  BY <1>1, <1>4, ZenonT(30) DEF RowAt
<1>6. ASSUME NEW g \in HeapTid \ {h} PROVE RowAt(g)' = RowAt(g)
  <2>1. (\E q \in Inserters : heaptid'[q] = g) <=> (\E q \in Inserters : heaptid[q] = g)
    BY <1>0, <1>3, <1>4, <1>6, ZenonT(30)
  <2>. QED BY <1>4, <1>6, <2>1, ZenonT(30) DEF RowAt
<1>7. RowOf' = [RowOf EXCEPT ![h] = "inserting"]
  BY <1>5, <1>6, RowSet, ZenonT(30)
<1>8. RowOf[h] = "unused"
  BY <1>5, Rows, ZenonT(30)
<1>9. h \notin Indexed
  BY <1>1, InIndex, SMTT(30), Z3T(30) DEF TidInv, ElementInv
<1>10. UNCHANGED <<Indexed, deadTids>>
  BY <1>2, Zenon DEF Indexed
<1>. QED BY <1>7, <1>8, <1>9, <1>10, Zenon DEF AM!Begin

LEMMA AMInsert ==
  ASSUME TypeOK, LocalInv, TidInv, NEW p \in Inserters, NEW s \in Slot, pc[p] = "update",
         heaptids' = [heaptids EXCEPT ![s] = heaptids[s] \cup {heaptid[p]}],
         UNCHANGED <<heap, deadTids>>,
         \A r \in Inserters \ {p} : heaptid'[r] = heaptid[r],
         heaptid'[p] = heaptid[p] \/ heaptid'[p] = NULL
  PROVE  \E h \in HeapTid : AM!Insert(h)
<1>0. NULL \notin HeapTid
  BY Base, SMTT(30), Z3T(30)
<1>1. PICK h : h = heaptid[p]
  BY ZenonT(30)
<1>2. /\ h \in HeapTid /\ h \notin Indexed /\ heap[h] = "live"
      /\ Indexed' = Indexed \cup {h}
      /\ \A q \in Inserters \ {p} : heaptid[q] # h
  BY <1>1, Entering, Zenon
<1>3. RowAt(h) = "inserting"
  BY <1>1, <1>2, Zenon DEF RowAt
<1>4. PICK r \in {"inserting", "live"} : RowAt(h)' = r
  BY <1>2, ZenonT(30) DEF RowAt
<1>5. ASSUME NEW g \in HeapTid \ {h} PROVE RowAt(g)' = RowAt(g)
  <2>1. (\E q \in Inserters : heaptid'[q] = g) <=> (\E q \in Inserters : heaptid[q] = g)
    BY <1>0, <1>1, <1>5, ZenonT(30)
  <2>. QED BY <2>1, ZenonT(30) DEF RowAt
<1>6. RowOf' = [RowOf EXCEPT ![h] = r]
  BY <1>2, <1>4, <1>5, RowSet, ZenonT(30)
<1>7. RowOf[h] = "inserting"
  BY <1>2, <1>3, Rows, ZenonT(30)
<1>. QED BY <1>2, <1>4, <1>6, <1>7, Zenon DEF AM!Insert

\* Rows that die, and nothing else
LEMMA AMDie ==
  ASSUME NEW T \in SUBSET HeapTid, \A h \in T : RowAt(h) # "unused" /\ RowAt(h)' = "dead",
         \A h \in HeapTid \ T : RowAt(h)' = RowAt(h),
         UNCHANGED heaptids, deadTids' \in {deadTids, {}}
  PROVE  AM!Die(T)
<1>1. UNCHANGED Indexed
  BY Zenon DEF Indexed
<1>2. \A h \in T : RowOf[h] # "unused"
  BY Rows, ZenonT(30)
<1>3. RowOf' = [h \in HeapTid |-> IF h \in T THEN "dead" ELSE RowOf[h]]
  BY Rows, ZenonT(30)
<1>. QED BY <1>1, <1>2, <1>3, ZenonT(30) DEF AM!Die

LEMMA AMEnd ==
  ASSUME TypeOK, LocalInv, TidInv, NEW p \in Inserters, InsertFinish(p) \/ InsertAbort(p)
  PROVE  AM!Next
<1>0. /\ heap \in [HeapTid -> {"unused", "live", "dead"}]
      /\ heaptid \in [Inserters -> HeapTid \cup {NULL}] /\ NULL \notin HeapTid
      /\ pc[p] # "idle" => heaptid[p] \in HeapTid
  BY Base, ZenonT(30)
<1>1. PICK h : h = heaptid[p]
  BY SMTT(30), Z3T(30)
<1>2. /\ \/ pc[p] = "links" /\ heap' = heap
         \/ pc[p] # "idle" /\ heap' = [heap EXCEPT ![h] = "dead"]
      /\ UNCHANGED <<heaptids, deadTids>>
      /\ \A r \in Inserters \ {p} : heaptid'[r] = heaptid[r]
      /\ heaptid'[p] = NULL
  BY <1>1, EndEffect, Zenon
<1>3. /\ h \in HeapTid /\ heap[h] = "live"
      /\ \A r \in Inserters \ {p} : heaptid[r] # h
  BY <1>0, <1>1, <1>2, ZenonT(30) DEF TidInv, InserterInv
<1>4. RowAt(h) = "inserting"
  BY <1>1, <1>3, ZenonT(30) DEF RowAt
<1>5. ASSUME NEW g \in HeapTid \ {h} PROVE RowAt(g)' = RowAt(g)
  <2>1. (\E q \in Inserters : heaptid'[q] = g) <=> (\E q \in Inserters : heaptid[q] = g)
    BY <1>0, <1>1, <1>2, <1>5, Zenon
  <2>2. heap'[g] = heap[g]
    BY <1>0, <1>2, <1>3, <1>5, ZenonT(30)
  <2>. QED BY <2>1, <2>2, Zenon DEF RowAt
<1>6. ~ \E q \in Inserters : heaptid'[q] = h
  BY <1>0, <1>2, <1>3, ZenonT(30)
<1>7. CASE pc[p] = "links" /\ heap' = heap
  <2>1. h \in Indexed
    BY <1>1, <1>7, ZenonT(30) DEF TidInv, PlaceInv, Linking
  <2>2. RowAt(h)' = "live"
    BY <1>3, <1>6, <1>7, ZenonT(30) DEF RowAt
  <2>3. RowOf' = [RowOf EXCEPT ![h] = "live"] /\ RowOf[h] = "inserting"
    BY <1>3, <1>4, <1>5, <2>2, RowSet, Rows, ZenonT(30)
  <2>4. UNCHANGED <<Indexed, deadTids>>
    BY <1>2, Zenon DEF Indexed
  <2>5. AM!Commit(h)
    BY <2>1, <2>3, <2>4, ZenonT(30) DEF AM!Commit
  <2>. QED BY <1>3, <2>5, Zenon DEF AM!Next
<1>8. CASE heap' = [heap EXCEPT ![h] = "dead"]
  <2>1. RowAt(h)' = "dead"
    BY <1>0, <1>3, <1>8, ZenonT(30) DEF RowAt
  <2>2. AM!Die({h})
    BY <1>2, <1>3, <1>4, <1>5, <2>1, AMDie, ZenonT(30)
  <2>. QED BY <1>3, <2>2, ZenonT(30) DEF AM!Next
<1>. QED BY <1>2, <1>7, <1>8, ZenonT(30)

LEMMA AMDelete ==
  ASSUME TypeOK, LocalInv, TidInv, NEW h \in HeapTid, HeapDelete(h)
  PROVE  AM!Die({h})
<1>0. heap \in [HeapTid -> {"unused", "live", "dead"}]
  BY Base, ZenonT(30)
<1>1. /\ heap[h] = "live" /\ heap' = [heap EXCEPT ![h] = "dead"]
      /\ UNCHANGED <<heaptid, heaptids, deadTids>>
  BY Zenon DEF HeapDelete, diskVars, vacVars
<1>2. RowAt(h) # "unused" /\ RowAt(h)' = "dead"
  BY <1>0, <1>1, ZenonT(30) DEF RowAt
<1>3. \A g \in HeapTid \ {h} : RowAt(g)' = RowAt(g)
  BY <1>0, <1>1, ZenonT(30) DEF RowAt
<1>. QED BY <1>1, <1>2, <1>3, AMDie, ZenonT(30)

LEMMA AMVacuum ==
  ASSUME TypeOK, LocalInv, TidInv, VacuumStart \/ VacuumAbort \/ VacuumEnd
  PROVE  AM!Next
<1>0. /\ heap \in [HeapTid -> {"unused", "live", "dead"}] /\ deadTids \in SUBSET HeapTid
  BY Base, ZenonT(30)
<1>1. CASE VacuumStart
  <2>1. /\ deadTids' = {h \in HeapTid : heap[h] = "dead" /\ seenBy[h] = {}} /\ pc[Vac] = "idle"
        /\ UNCHANGED <<heap, heaptid, heaptids>>
    BY <1>1, Zenon DEF VacuumStart, diskVars, heapVars
  <2>2. deadTids = {}
    BY <2>1, ZenonT(30) DEF TidInv, DeadInv
  <2>3. PICK D \in SUBSET HeapTid : D = deadTids'
    BY <2>1, ZenonT(30)
  <2>4. \A h \in D : RowOf[h] = "dead"
    BY <2>1, <2>3, Rows, ZenonT(30) DEF RowAt
  <2>5. UNCHANGED <<RowOf, Indexed>>
    BY <2>1, Zenon DEF RowOf, Indexed
  <2>6. AM!BulkDelete(D)
    BY <2>2, <2>3, <2>4, <2>5, ZenonT(30) DEF AM!BulkDelete
  <2>. QED BY <2>6, ZenonT(30) DEF AM!Next
<1>2. CASE VacuumAbort
  <2>1. deadTids' = {} /\ UNCHANGED <<heap, heaptid, heaptids>>
    BY <1>2, Zenon DEF VacuumAbort, ForgetVacuum, diskVars, heapVars
  <2>2. \A h \in HeapTid : RowAt(h)' = RowAt(h)
    BY <2>1, Zenon DEF RowAt
  <2>3. AM!Die({})
    BY <2>1, <2>2, AMDie, ZenonT(30)
  <2>. QED BY <2>3, ZenonT(30) DEF AM!Next
<1>3. CASE VacuumEnd
  <2>1. /\ pc[Vac] = "end" /\ deadTids' = {} /\ UNCHANGED <<heaptid, heaptids>>
        /\ heap' = [h \in HeapTid |-> IF h \in deadTids THEN "unused" ELSE heap[h]]
    BY <1>3, Zenon DEF VacuumEnd, ForgetVacuum, diskVars
  <2>2. deadTids \cap Indexed = {}
    <3>1. \A s \in Slot : heaptids[s] \cap deadTids = {}
      BY <2>1, Zenon DEF TidInv, DeadInv, Unclean
    <3>. QED BY <3>1, InIndex, ZenonT(30)
  <2>3. \A h \in HeapTid : RowAt(h)' = IF h \in deadTids THEN "unused" ELSE RowAt(h)
    BY <1>0, <2>1, ZenonT(30) DEF RowAt
  <2>4. RowOf' = [h \in HeapTid |-> IF h \in deadTids THEN "unused" ELSE RowOf[h]]
    BY <2>3, Rows, ZenonT(30)
  <2>5. UNCHANGED Indexed
    BY <2>1, Zenon DEF Indexed
  <2>6. AM!Free
    BY <2>1, <2>2, <2>4, <2>5, ZenonT(30) DEF AM!Free
  <2>. QED BY <2>6, ZenonT(30) DEF AM!Next
<1>. QED BY <1>1, <1>2, <1>3, ZenonT(30)

LEMMA AMRemove ==
  ASSUME TypeOK, LocalInv, TidInv, RemoveHeapTids
  PROVE  AM!Next
<1>0. heaptids \in [Slot -> SUBSET HeapTid] /\ deadTids \in SUBSET HeapTid
  BY Base, ZenonT(30)
<1>1. /\ UNCHANGED <<heap, heaptid, deadTids>>
      /\ \A s \in Slot : s # blkno => heaptids'[s] = heaptids[s]
      /\ \A s \in Slot : s = blkno /\ s <= nslots => heaptids'[s] = heaptids[s] \ deadTids
      /\ \A s \in Slot : s = blkno /\ ~(s <= nslots) => heaptids'[s] = heaptids[s]
  BY RemoveEffect, Zenon
<1> DEFINE D == Indexed \ Indexed'
<1>2. \A h : h \in Indexed' => h \in Indexed
  BY <1>1, InIndex, ZenonT(30)
<1>3. \A h : h \in Indexed /\ h \notin Indexed' => h \in deadTids
  BY <1>1, InIndex, ZenonT(30)
<1>4. PICK E \in SUBSET HeapTid : E = D
  BY <1>0, <1>3, Zenon
<1>5. E \subseteq deadTids /\ Indexed' = Indexed \ E
  BY <1>2, <1>3, <1>4, SMTT(30), Z3T(30)
<1>6. UNCHANGED RowOf
  BY <1>1, Zenon DEF RowOf
<1>7. AM!Remove(E)
  BY <1>1, <1>5, <1>6, ZenonT(30) DEF AM!Remove
<1>. QED BY <1>7, ZenonT(30) DEF AM!Next

LEMMA AMStep ==
  ASSUME TypeOK, LocalInv, TidInv, [Next]_vars
  PROVE  AM!Next \/ UNCHANGED AM!vars
<1>1. ASSUME UNCHANGED vars PROVE UNCHANGED AM!vars
  <2>1. UNCHANGED <<heap, heaptid, heaptids, deadTids>>
    BY <1>1, Zenon DEF vars, diskVars, heapVars, vacVars
  <2>. QED BY <2>1, AMQuiet, ZenonT(30)
<1>2. ASSUME Quiet \/ MarkDeleted PROVE UNCHANGED AM!vars
  <2>1. UNCHANGED <<heap, heaptid, heaptids, deadTids>>
    BY <1>2, Zenon DEF Quiet, MarkDeleted, heapVars
  <2>. QED BY <2>1, AMQuiet, SMTT(30), Z3T(30)
<1>3. ASSUME NEW p \in Inserters, TidSteps(p) PROVE AM!Next
  <2>1. CASE InsertStart(p)
    BY <2>1, AMBegin, Zenon DEF AM!Next
  <2>2. CASE InsertFinish(p) \/ InsertAbort(p)
    BY <2>2, AMEnd, Zenon
  <2>3. ASSUME NEW s \in sel[p], AddDuplicateOnDisk(p, s) PROVE AM!Next
    <3>1. \E h \in HeapTid : AM!Insert(h)
      BY <2>3, DuplicateEffect, AMInsert, Zenon
    <3>. QED BY <3>1, Zenon DEF AM!Next
  <2>4. ASSUME NEW s \in Slot, AddElementOnDisk(p, s) PROVE AM!Next
    <3>1. \E h \in HeapTid : AM!Insert(h)
      BY <2>4, ElementEffect, AMInsert, Zenon
    <3>. QED BY <3>1, Zenon DEF AM!Next
  <2>. QED BY <1>3, <2>1, <2>2, <2>3, <2>4, Zenon DEF TidSteps
<1>4. ASSUME NEW h \in HeapTid, HeapDelete(h) PROVE AM!Next
  <2>1. AM!Die({h}) /\ {h} \in SUBSET HeapTid
    BY <1>4, AMDelete, ZenonT(30)
  <2>. QED BY <2>1, Zenon DEF AM!Next
<1>. QED BY <1>1, <1>2, <1>3, <1>4, TidWriters, AMVacuum, AMRemove, Zenon

\* hnswinsert and hnswbulkdelete implement what PostgreSQL asks of an index: the initial states
\* map to initial states of IndexAM, and every step is one of its steps or changes neither the
\* rows nor the set of indexed heap TIDs.
THEOREM Refinement == Spec => HnswKeepsTids
<1>1. Init => AM!Init
  BY AMInit, SMTT(30), Z3T(30)
<1>2. TypeOK /\ LocalInv /\ TidInv /\ [Next]_vars => [AM!Next]_(AM!vars)
  BY AMStep, ZenonT(30)
<1>. QED BY <1>1, <1>2, TidInvariance, PTL DEF Spec, HnswKeepsTids, AM!Spec

-----------------------------------------------------------------------------
(* The graph that inserts make, as long as nothing is deleted.              *)

\* Whatever a search has come across is an element, and had heap TIDs
Reached(p) ==
  /\ visited[p] \subseteq 1 .. nslots
  /\ \A c \in loaded[p] : c.live

\* The element of an insert, and what its search is about to load
Owns(p) ==
  /\ self[p] \in 0 .. nslots
  /\ self[p] # NULL => level[self[p]] = newLevel[p]
  /\ pc[p] = "search" => \A s \in visited[p] : s \in todo[p] \/ \E c \in loaded[p] : c.tid = s

Elements ==
  /\ \A s \in Slot : /\ ~deleted[s]
                     /\ s <= nslots => Live(s)
                     /\ neighbors[s] \subseteq 1 .. nslots
  /\ entryPoint.tid \in 0 .. nslots
  /\ entryPoint.tid = NULL => entryPoint.level = -1

\* Before the first vacuum nothing is deleted, and nobody sees anything that is
Early ==
  vacuums = 0 =>
    /\ pc[Vac] = "idle"
    /\ Elements
    /\ \A p \in Procs : Reached(p)
    /\ \A p \in Inserters : Owns(p)

\* The first vacuum ends it
LEMMA NoVacuum ==
  ASSUME TypeOK, Early, Vacuum
  PROVE  vacuums' # 0
<1>1. VacuumStart => vacuums' = vacuums + 1
  BY Zenon DEF VacuumStart
<1>2. VacuumEnd \/ VacuumAbort => UNCHANGED vacuums /\ pc[Vac] # "idle"
  BY Zenon DEF VacuumEnd, VacuumAbort
<1>3. VacuumLock => UNCHANGED vacuums /\ pc[Vac] # "idle"
  BY Zenon DEF VacuumLock, WaitForInserts, RepairHighestPoint, RepairEntryPoint, RepairLockShare,
     RepairLockExclusive, WaitForInsertsAgain, WaitForScans, vacVars
<1>4. Search(Vac) \/ UpdateNeighbors(Vac) => UNCHANGED vacuums /\ pc[Vac] # "idle"
  BY Zenon DEF Search, LoadElement, LoadUnvisited, UpdateNeighbors, GetUpdateIndex,
     LoadElementsForInsert, UpdateNeighborOnDisk, vacVars
<1>5. RemoveHeapTids \/ LoadPage \/ CheckElement \/ OverwriteNeighbors \/ RepairFinish
        \/ ConfirmRepaired \/ MarkDeleted => UNCHANGED vacuums /\ pc[Vac] # "idle"
  BY Zenon DEF RemoveHeapTids, LoadPage, CheckElement, OverwriteNeighbors, RepairFinish,
     ConfirmRepaired, MarkDeleted, vacVars
<1>6. vacuums' = vacuums + 1 \/ (UNCHANGED vacuums /\ pc[Vac] # "idle")
  BY <1>1, <1>2, <1>3, <1>4, <1>5, Zenon DEF Vacuum, VacuumStep
<1>7. vacuums = 0 => pc[Vac] = "idle"
  BY Zenon DEF Early
<1>8. vacuums \in Nat
  BY BoundAssumption, SMTT(30), Z3T(30) DEF TypeOK, VacuumType
<1>. QED BY <1>6, <1>7, <1>8, SMTT(30), Z3T(30)

\* Facts in arithmetic form
LEMMA EarlyFacts ==
  ASSUME TypeOK, LocalInv, Early, vacuums = 0
  PROVE  /\ nslots \in Nat /\ nslots <= MaxSlots /\ 1 .. nslots \subseteq Slot
         /\ \A p \in Inserters : sel[p] \subseteq 1 .. nslots
         /\ \A p \in Inserters : pc[p] \in {"links", "load", "link"} => self[p] \in 1 .. nslots
         /\ \A p \in Inserters : pc[p] \in {"load", "link"} => cur[p] \in 1 .. nslots
         /\ \A p \in Inserters : pc[p] = "update" => self[p] = NULL
<1>1. nslots \in 0 .. MaxSlots
  BY Zenon DEF TypeOK, DiskType
<1>2. nslots \in Nat /\ nslots <= MaxSlots /\ 1 .. nslots \subseteq Slot
  BY <1>1, BoundAssumption, SMTT(30), Z3T(30) DEF Slot
<1>3. ASSUME NEW p \in Inserters PROVE sel[p] \subseteq 1 .. nslots
  <2>1. p \in Updaters /\ p \in Procs
    BY ProcSets, Zenon
  <2>2. /\ \A x \in sel[p] : \E c \in loaded[p] : c.tid = x
        /\ \A c \in loaded[p] : c.tid \in visited[p]
        /\ visited[p] \subseteq 1 .. nslots
    BY <2>1, Zenon DEF LocalInv, LinkLocal, SearchLocal, Early, Reached
  <2>. QED BY <2>2, Zenon
<1>4. ASSUME NEW p \in Inserters, pc[p] \in {"links", "load", "link"} PROVE self[p] \in 1 .. nslots
  <2>1. self[p] \in Slot /\ self[p] \in 0 .. nslots
    BY <1>4, Zenon DEF LocalInv, InsertLocal, Early, Owns
  <2>. QED BY <1>2, <2>1, BoundAssumption, SMTT(30), Z3T(30) DEF Slot
<1>5. ASSUME NEW p \in Inserters, pc[p] \in {"load", "link"} PROVE cur[p] \in 1 .. nslots
  <2>1. p \in Updaters
    BY ProcSets, Zenon
  <2>2. cur[p] \in upd[p] /\ upd[p] \subseteq sel[p]
    BY <1>5, <2>1, Zenon DEF LocalInv, LinkLocal
  <2>. QED BY <1>3, <2>2, Zenon
<1>6. ASSUME NEW p \in Inserters, pc[p] = "update" PROVE self[p] = NULL
  BY <1>6, Zenon DEF LocalInv, InsertLocal
<1>. QED BY <1>2, <1>3, <1>4, <1>5, <1>6, Zenon

\* What an insert does to the elements while nothing is deleted
LEMMA AddEffect ==
  ASSUME TypeOK, LocalInv, Early, vacuums = 0, NEW p \in Inserters, NEW s \in Slot,
         AddElementOnDisk(p, s)
  PROVE  /\ s = nslots + 1 /\ nslots' = nslots + 1
         /\ heaptids'[s] = {heaptid[p]} /\ \A t \in Slot \ {s} : heaptids'[t] = heaptids[t]
         /\ neighbors'[s] = sel[p] /\ \A t \in Slot \ {s} : neighbors'[t] = neighbors[t]
         /\ level'[s] = newLevel[p] /\ \A t \in Slot \ {s} : level'[t] = level[t]
         /\ \A t \in Slot : ~deleted'[t]
         /\ pc[p] = "update" /\ pc'[p] = "links" /\ self'[p] = s
         /\ UNCHANGED <<entryPoint, visited, todo, loaded, heap, ep, newLevel, sel>>
<1>1. /\ pc[p] = "update" /\ Become(p, "links")
      /\ s = nslots + 1 \/ deleted[s]
      /\ nslots' = IF s > nslots THEN s ELSE nslots
      /\ heaptids' = [heaptids EXCEPT ![s] = {heaptid[p]}]
      /\ deleted' = [deleted EXCEPT ![s] = FALSE]
      /\ level' = [level EXCEPT ![s] = newLevel[p]]
      /\ neighbors' = [neighbors EXCEPT ![s] = sel[p]]
      /\ self' = [self EXCEPT ![p] = s]
      /\ UNCHANGED <<entryPoint, visited, todo, loaded, heap, ep, newLevel, sel>>
  BY Zenon DEF AddElementOnDisk, searchVars, heapVars
<1>2. \A t \in Slot : ~deleted[t]
  BY Zenon DEF Early, Elements
<1>3. s = nslots + 1
  BY <1>1, <1>2, Zenon
<1>4. nslots' = nslots + 1
  <2>1. nslots \in Nat
    BY EarlyFacts, Zenon
  <2>. QED BY <1>1, <1>3, <2>1, SMTT(30), Z3T(30)
<1>5. /\ DOMAIN heaptids = Slot /\ DOMAIN level = Slot /\ DOMAIN neighbors = Slot
      /\ DOMAIN deleted = Slot /\ DOMAIN self = Updaters /\ p \in Updaters /\ p \in Procs
  BY ProcSets, Zenon DEF TypeOK, DiskType, LinkType
<1>6. \A t \in Slot : ~deleted'[t]
  BY <1>1, <1>2, <1>5, Zenon
<1>7. /\ heaptids'[s] = {heaptid[p]} /\ \A t \in Slot \ {s} : heaptids'[t] = heaptids[t]
      /\ neighbors'[s] = sel[p] /\ \A t \in Slot \ {s} : neighbors'[t] = neighbors[t]
      /\ level'[s] = newLevel[p] /\ \A t \in Slot \ {s} : level'[t] = level[t]
      /\ self'[p] = s
  BY <1>1, <1>5, Zenon
<1>8. pc'[p] = "links"
  BY <1>1, <1>5, BecomeEffect, Zenon
<1>. QED BY <1>1, <1>3, <1>4, <1>6, <1>7, <1>8, Zenon

\* A link is added, and at most one is replaced by it
LEMMA LinkEffect ==
  ASSUME TypeOK, LocalInv, NEW p \in Updaters, UpdateNeighborOnDisk(p)
  PROVE  /\ UNCHANGED <<nslots, heaptids, deleted, level, entryPoint, visited, todo, loaded, heap,
                        ep, newLevel, self, sel>>
         /\ pc[p] = "link" /\ pc'[p] = "links"
         /\ \A t \in Slot : /\ neighbors'[t] \subseteq neighbors[t] \cup {self[p]}
                            /\ neighbors'[t] = {} => neighbors[t] = {}
<1>1. PICK N \in Linked(cur[p], self[p], lst[p], victim[p], p = Vac) :
        neighbors' = [neighbors EXCEPT ![cur[p]] = N]
  BY Zenon DEF UpdateNeighborOnDisk
<1>2. /\ UNCHANGED <<nslots, heaptids, deleted, level, entryPoint, visited, todo, loaded, heap,
                     ep, newLevel, self, sel>>
      /\ pc[p] = "link" /\ Become(p, "links")
  BY Zenon DEF UpdateNeighborOnDisk, heapVars, searchVars
<1>3. \/ N = neighbors[cur[p]]
      \/ N \subseteq neighbors[cur[p]] \cup {self[p]} /\ self[p] \in N
  BY Zenon DEF Linked
<1>4. DOMAIN neighbors = Slot /\ p \in Procs
  BY ProcSets, Zenon DEF TypeOK, DiskType
<1>5. \A t \in Slot : neighbors'[t] = neighbors[t] \/ (t = cur[p] /\ neighbors'[t] = N)
  BY <1>1, <1>4, Zenon
<1>6. \A t \in Slot : /\ neighbors'[t] \subseteq neighbors[t] \cup {self[p]}
                      /\ neighbors'[t] = {} => neighbors[t] = {}
  BY <1>3, <1>5, Zenon
<1>7. pc'[p] = "links"
  BY <1>2, <1>4, BecomeEffect, Zenon
<1>. QED BY <1>2, <1>6, <1>7, Zenon

LEMMA FinishEffect ==
  ASSUME TypeOK, LocalInv, NEW p \in Inserters, InsertFinish(p)
  PROVE  /\ pc[p] = "links" /\ pc'[p] = "idle" /\ updateLock'[p] = "none"
         /\ UNCHANGED <<diskVars, heap>> /\ ForgetSearch(p) /\ ForgetLinks(p)
         /\ \/ ~Outranks(newLevel[p], ep[p]) /\ entryPoint' = entryPoint
            \/ /\ Outranks(newLevel[p], ep[p]) /\ ~(newLevel[p] > entryPoint.level)
               /\ entryPoint' = entryPoint
            \/ /\ newLevel[p] > entryPoint.level
               /\ entryPoint'.tid = self[p] /\ entryPoint'.level = newLevel[p]
<1>1. /\ pc[p] = "links" /\ Become(p, "idle") /\ updateLock' = Set(updateLock, p, "none")
      /\ UNCHANGED <<diskVars, heap>> /\ ForgetSearch(p) /\ ForgetLinks(p)
      /\ entryPoint' = IF Outranks(newLevel[p], ep[p])
                       THEN EntryIfGreater(self[p], newLevel[p]) ELSE entryPoint
  BY Zenon DEF InsertFinish, heapVars
<1>2. \/ ~Outranks(newLevel[p], ep[p]) /\ entryPoint' = entryPoint
      \/ /\ Outranks(newLevel[p], ep[p]) /\ ~(newLevel[p] > entryPoint.level)
         /\ entryPoint' = entryPoint
      \/ /\ newLevel[p] > entryPoint.level
         /\ entryPoint' = [tid |-> self[p], level |-> newLevel[p]]
  BY <1>1, Zenon DEF EntryIfGreater
<1>3. [tid |-> self[p], level |-> newLevel[p]].tid = self[p]
      /\ [tid |-> self[p], level |-> newLevel[p]].level = newLevel[p]
  BY Zenon
<1>4. p \in Procs
  BY ProcSets, ZenonT(30)
<1>5. pc'[p] = "idle" /\ updateLock'[p] = "none"
  BY <1>1, <1>4, BecomeEffect, Domains, Zenon DEF Set
<1>. QED BY <1>1, <1>2, <1>3, <1>5, Zenon

\* The steps of an insert that write no tuple and no entry point
Silent(p) ==
  /\ UNCHANGED <<diskVars, entryPoint>>
  /\ \/ pc[p] \in {"links", "load"} /\ pc'[p] \in {"links", "load", "link", "error"}
        /\ UNCHANGED <<visited, todo, loaded, ep, newLevel, self, sel, updateLock, heap>>
     \/ InsertStart(p)
     \/ InsertLockShare(p)
     \/ InsertLockExclusive(p)
     \/ Search(p)
     \/ InsertSelect(p)
     \/ InsertAbort(p)

LEMMA InsertCases ==
  ASSUME TypeOK, NEW p \in Inserters, Insert(p)
  PROVE  \/ Silent(p)
         \/ InsertFinish(p)
         \/ \E s \in sel[p] : AddDuplicateOnDisk(p, s)
         \/ \E s \in Slot : AddElementOnDisk(p, s)
         \/ UpdateNeighborOnDisk(p)
<1>1. InsertStart(p) \/ InsertLockShare(p) \/ InsertLockExclusive(p) \/ Search(p)
        \/ InsertSelect(p) \/ InsertAbort(p) => UNCHANGED <<diskVars, entryPoint>>
  BY Zenon DEF InsertStart, InsertLockShare, InsertLockExclusive, Search, LoadElement,
     LoadUnvisited, InsertSelect, InsertAbort
<1>2. p \in Procs
  BY ProcSets, ZenonT(30)
<1>3. (\E x \in upd[p] : GetUpdateIndex(p, x)) \/ LoadElementsForInsert(p) =>
        /\ UNCHANGED <<diskVars, entryPoint>>
        /\ pc[p] \in {"links", "load"} /\ \E w \in {"links", "load", "link", "error"} : Become(p, w)
        /\ UNCHANGED <<visited, todo, loaded, ep, newLevel, self, sel, updateLock, heap>>
  BY Zenon DEF GetUpdateIndex, LoadElementsForInsert, searchVars, lockVars, heapVars
<1>4. (\E w \in {"links", "load", "link", "error"} : Become(p, w)) =>
        pc'[p] \in {"links", "load", "link", "error"}
  BY <1>2, BecomeEffect, Zenon
<1>. QED BY <1>1, <1>3, <1>4, Zenon DEF Insert, InsertStep, UpdateNeighbors, Silent

\* A search that starts at an element
LEMMA SearchReached ==
  ASSUME TypeOK, LocalInv, Early, vacuums = 0, NEW p \in Procs, Search(p), UNCHANGED diskVars
  PROVE  /\ Reached(p)'
         /\ visited[p] \subseteq visited'[p]
         /\ (\A s \in visited[p] : s \in todo[p] \/ \E c \in loaded[p] : c.tid = s) =>
              \/ pc'[p] = "error"
              \/ \A s \in visited'[p] : s \in todo'[p] \/ \E c \in loaded'[p] : c.tid = s
<1>0. /\ visited[p] \subseteq 1 .. nslots /\ \A c \in loaded[p] : c.live
      /\ todo[p] \subseteq visited[p] /\ \A c \in loaded[p] : c.tid \in visited[p]
      /\ \A s \in Slot : (s <= nslots => Live(s)) /\ neighbors[s] \subseteq 1 .. nslots
      /\ nslots' = nslots /\ 1 .. nslots \subseteq Slot
  BY EarlyFacts, Zenon DEF Early, Reached, Elements, LocalInv, SearchLocal, diskVars
<1>1. ASSUME NEW s \in todo[p], LoadElement(p, s)
      PROVE  /\ visited' = visited /\ todo'[p] = todo[p] \ {s}
             /\ \/ pc'[p] = "error" /\ loaded' = loaded
                \/ loaded'[p] = loaded[p] \cup {Copy(s)}
             /\ Copy(s).tid = s /\ Copy(s).live
  <2>1. /\ visited' = visited /\ todo' = [todo EXCEPT ![p] = @ \ {s}]
        /\ \/ Become(p, "error") /\ loaded' = loaded
           \/ loaded' = [loaded EXCEPT ![p] = @ \cup {Copy(s)}]
    BY <1>1, Zenon DEF LoadElement
  <2>2. Copy(s).tid = s /\ Copy(s).live = Live(s)
    BY ZenonT(30) DEF Copy
  <2>3. s \in 1 .. nslots
    BY <1>0, Zenon
  <2>4. s <= nslots /\ s \in Slot
    BY <1>0, <2>3, EarlyFacts, SMTT(30), Z3T(30)
  <2>5. Copy(s).live
    BY <1>0, <2>2, <2>4, Zenon
  <2>. QED BY <2>1, <2>2, <2>5, BecomeEffect, Domains, Zenon
<1>2. ASSUME NEW c \in loaded[p], LoadUnvisited(p, c)
      PROVE  /\ loaded' = loaded
             /\ \E U : U \subseteq 1 .. nslots /\ todo'[p] = U /\ visited'[p] = visited[p] \cup U
             /\ todo[p] = {}
  <2>1. /\ loaded' = loaded /\ todo[p] = {}
        /\ todo' = [todo EXCEPT ![p] = NeighborTids(c) \ visited[p]]
        /\ visited' = [visited EXCEPT ![p] = @ \cup (NeighborTids(c) \ visited[p])]
    BY <1>2, Zenon DEF LoadUnvisited
  <2>2. c.tid \in Slot
    BY <1>0, Zenon
  <2>3. NeighborTids(c) \subseteq 1 .. nslots
    BY <1>0, <2>2, Zenon DEF NeighborTids
  <2>. QED BY <2>1, <2>3, Domains, Zenon
<1>3. CASE \E s \in todo[p] : LoadElement(p, s)
  <2>1. PICK s \in todo[p] : LoadElement(p, s)
    BY <1>3, ZenonT(30)
  <2>2. /\ visited' = visited /\ todo'[p] = todo[p] \ {s}
        /\ \/ pc'[p] = "error" /\ loaded' = loaded
           \/ loaded'[p] = loaded[p] \cup {Copy(s)}
        /\ Copy(s).tid = s /\ Copy(s).live
    BY <1>1, <2>1, Zenon
  <2>3. Reached(p)'
    BY <1>0, <2>2, Zenon DEF Reached
  <2>4. ASSUME \A t \in visited[p] : t \in todo[p] \/ \E c \in loaded[p] : c.tid = t,
               loaded'[p] = loaded[p] \cup {Copy(s)}, NEW t \in visited'[p]
        PROVE  t \in todo'[p] \/ \E c \in loaded'[p] : c.tid = t
    <3>1. CASE t = s
      BY <2>2, <2>4, <3>1, Zenon
    <3>2. CASE t # s
      BY <2>2, <2>4, <3>2, Zenon
    <3>. QED BY <3>1, <3>2, ZenonT(30)
  <2>. QED BY <2>2, <2>3, <2>4, Zenon
<1>4. CASE \E c \in loaded[p] : LoadUnvisited(p, c)
  <2>1. PICK U : /\ loaded' = loaded /\ U \subseteq 1 .. nslots /\ todo'[p] = U
                 /\ visited'[p] = visited[p] \cup U /\ todo[p] = {}
    BY <1>2, <1>4, Zenon
  <2>2. Reached(p)'
    BY <1>0, <2>1, Zenon DEF Reached
  <2>. QED BY <2>1, <2>2, Zenon
<1>. QED BY <1>3, <1>4, Zenon DEF Search

LEMMA BeginReached ==
  ASSUME TypeOK, LocalInv, Early, vacuums = 0, NEW p \in Procs, nslots' = nslots
  PROVE  /\ BeginSearch(p, entryPoint) =>
              /\ Reached(p)' /\ visited'[p] = todo'[p]
              /\ entryPoint.tid # NULL => visited'[p] # {}
         /\ ForgetSearch(p) => Reached(p)'
<1>1. entryPoint.tid \in 0 .. nslots /\ nslots \in Nat
  BY EarlyFacts, Zenon DEF Early, Elements
<1>2. entryPoint.tid # NULL => entryPoint.tid \in 1 .. nslots'
  BY <1>1, SMTT(30), Z3T(30) DEF NULL
<1>3. NoPoint.tid = NULL
  BY SMTT(30), Z3T(30) DEF NoPoint
<1>. QED BY <1>2, <1>3, BeginEffect, Zenon DEF Reached, ForgetSearch

\* The elements are left alone, or one is added, linked or made the entry point
LEMMA ElementsInsert ==
  ASSUME TypeOK, LocalInv, Early, vacuums = 0, NEW p \in Inserters, Insert(p)
  PROVE  /\ Elements' /\ nslots' \in Nat /\ nslots <= nslots'
         /\ \A s \in 1 .. nslots : level'[s] = level[s]
<1>0. /\ nslots \in Nat /\ nslots <= MaxSlots /\ 1 .. nslots \subseteq Slot
      /\ sel[p] \subseteq 1 .. nslots /\ Elements /\ entryPoint.tid \in 0 .. nslots
  BY EarlyFacts, Zenon DEF Early, Elements
<1>1. ASSUME UNCHANGED <<diskVars, entryPoint>>
      PROVE  /\ Elements' /\ nslots' \in Nat /\ nslots <= nslots'
             /\ \A s \in 1 .. nslots : level'[s] = level[s]
  <2>1. Elements'
    BY <1>0, <1>1, Zenon DEF Elements, Live, diskVars
  <2>2. nslots' = nslots /\ level' = level
    BY <1>1, Zenon DEF diskVars
  <2>. QED BY <1>0, <2>1, <2>2, SMTT(30), Z3T(30)
<1>2. ASSUME InsertFinish(p)
      PROVE  /\ Elements' /\ nslots' \in Nat /\ nslots <= nslots'
             /\ \A s \in 1 .. nslots : level'[s] = level[s]
  <2>1. /\ UNCHANGED diskVars /\ pc[p] = "links"
        /\ entryPoint' = entryPoint \/ entryPoint'.tid = self[p]
    BY <1>2, FinishEffect, Zenon
  <2>2. self[p] \in 1 .. nslots
    BY <2>1, EarlyFacts, ZenonT(30)
  <2>3. self[p] \in 0 .. nslots /\ self[p] # NULL
    BY <1>0, <2>2, SMTT(30), Z3T(30) DEF NULL
  <2>4. nslots' = nslots /\ level' = level
    BY <2>1, Zenon DEF diskVars
  <2>5. Elements'
    BY <1>0, <2>1, <2>3, Zenon DEF Elements, Live, diskVars
  <2>. QED BY <1>0, <2>4, <2>5, SMTT(30), Z3T(30)
<1>3. ASSUME NEW s \in sel[p], AddDuplicateOnDisk(p, s)
      PROVE  /\ Elements' /\ nslots' \in Nat /\ nslots <= nslots'
             /\ \A t \in 1 .. nslots : level'[t] = level[t]
  <2>1. /\ heaptids' = [heaptids EXCEPT ![s] = @ \cup {heaptid[p]}]
        /\ UNCHANGED <<nslots, deleted, level, neighbors, entryPoint>>
    BY <1>3, Zenon DEF AddDuplicateOnDisk
  <2>2. DOMAIN heaptids = Slot
    BY Zenon DEF TypeOK, DiskType
  <2>3. \A t \in Slot : Live(t) => Live(t)'
    BY <2>1, <2>2, Zenon DEF Live
  <2>4. Elements'
    BY <1>0, <2>1, <2>3, Zenon DEF Elements
  <2>. QED BY <1>0, <2>1, <2>4, SMTT(30), Z3T(30)
<1>4. ASSUME NEW s \in Slot, AddElementOnDisk(p, s)
      PROVE  /\ Elements' /\ nslots' \in Nat /\ nslots <= nslots'
             /\ \A t \in 1 .. nslots : level'[t] = level[t]
  <2>1. /\ s = nslots + 1 /\ nslots' = nslots + 1 /\ UNCHANGED entryPoint
        /\ heaptids'[s] = {heaptid[p]} /\ neighbors'[s] = sel[p]
    BY <1>4, AddEffect, Zenon
  <2>2. \A t \in Slot \ {s} :
          heaptids'[t] = heaptids[t] /\ neighbors'[t] = neighbors[t] /\ level'[t] = level[t]
    BY <1>4, AddEffect, SMTT(30), Z3T(30)
  <2>3. \A t \in Slot : ~deleted'[t]
    BY <1>4, AddEffect, Zenon
  <2>4. 1 .. nslots \subseteq 1 .. nslots' /\ 0 .. nslots \subseteq 0 .. nslots'
    BY <1>0, <2>1, SMTT(30), Z3T(30)
  <2>5. \A t \in Slot : t # s /\ t <= nslots' => t <= nslots
    BY <1>0, <2>1, BoundAssumption, SMTT(30), Z3T(30) DEF Slot
  <2>6. \A t \in Slot : t <= nslots' => Live(t)'
    BY <1>0, <2>1, <2>5, <2>2, <2>3, Zenon DEF Elements, Live
  <2>7. \A t \in Slot : neighbors'[t] \subseteq 1 .. nslots'
    BY <1>0, <2>1, <2>4, <2>2, Zenon DEF Elements
  <2>8. Elements'
    BY <1>0, <2>1, <2>4, <2>6, <2>7, <2>3, Zenon DEF Elements
  <2>9. \A t \in 1 .. nslots : t \in Slot \ {s}
    BY <1>0, <2>1, SMTT(30), Z3T(30)
  <2>10. nslots' \in Nat /\ nslots <= nslots'
    BY <1>0, <2>1, SMTT(30), Z3T(30)
  <2>. QED BY <2>8, <2>9, <2>10, <2>2, Zenon
<1>5. ASSUME UpdateNeighborOnDisk(p)
      PROVE  /\ Elements' /\ nslots' \in Nat /\ nslots <= nslots'
             /\ \A t \in 1 .. nslots : level'[t] = level[t]
  <2>1. p \in Updaters
    BY ProcSets, Zenon
  <2>2. /\ UNCHANGED <<nslots, heaptids, deleted, level, entryPoint>> /\ pc[p] = "link"
        /\ \A t \in Slot : neighbors'[t] \subseteq neighbors[t] \cup {self[p]}
    BY <1>5, <2>1, LinkEffect, Zenon
  <2>3. self[p] \in 1 .. nslots
    BY <2>2, EarlyFacts, Zenon
  <2>4. Elements'
    BY <1>0, <2>2, <2>3, Zenon DEF Elements, Live
  <2>. QED BY <1>0, <2>2, <2>4, SMTT(30), Z3T(30)
<1>6. Silent(p) => UNCHANGED <<diskVars, entryPoint>>
  BY Zenon DEF Silent
<1>. QED BY <1>1, <1>2, <1>3, <1>4, <1>5, <1>6, InsertCases, Zenon

\* What the insert that moves has reached, and its element
LEMMA OwnInsert ==
  ASSUME TypeOK, LocalInv, Early, vacuums = 0, NEW p \in Inserters, Insert(p)
  PROVE  Reached(p)' /\ Owns(p)'
<1>0. /\ p \in Procs /\ p \in Updaters /\ Reached(p) /\ Owns(p)
      /\ nslots \in Nat /\ NULL \in 0 .. nslots /\ InsertLocal(p)
  BY EarlyFacts, ProcSets, SMTT(30), Z3T(30) DEF Early, NULL, LocalInv
<1>1. ASSUME Silent(p) PROVE Reached(p)' /\ Owns(p)'
  <2>0. nslots' = nslots /\ level' = level /\ UNCHANGED diskVars
    BY <1>1, Zenon DEF Silent, diskVars
  <2>1. ASSUME UNCHANGED <<visited, todo, loaded, newLevel, self>>, pc'[p] # "search"
        PROVE  Reached(p)' /\ Owns(p)'
    BY <1>0, <2>0, <2>1, Zenon DEF Reached, Owns
  <2>2. CASE pc[p] \in {"links", "load"} /\ pc'[p] \in {"links", "load", "link", "error"}
             /\ UNCHANGED <<visited, todo, loaded, ep, newLevel, self, sel, updateLock, heap>>
    <3>1. pc'[p] # "search"
      BY <2>2, ZenonT(30)
    <3>. QED BY <2>1, <2>2, <3>1, Zenon
  <2>3. CASE InsertStart(p)
    <3>1. UNCHANGED <<searchVars, linkVars>> /\ Become(p, "lock")
      BY <2>3, Zenon DEF InsertStart
    <3>2. pc'[p] = "lock"
      BY <1>0, <3>1, BecomeEffect, Zenon
    <3>3. pc'[p] # "search"
      BY <3>2, ZenonT(30)
    <3>. QED BY <2>1, <3>1, <3>3, Zenon DEF searchVars, linkVars
  <2>4. CASE InsertLockShare(p) \/ InsertLockExclusive(p)
    <3>1. /\ pc[p] \in {"lock", "lockx"} /\ UNCHANGED self
          /\ \/ BeginSearch(p, entryPoint) /\ Become(p, "search")
             \/ UNCHANGED searchVars /\ Become(p, "lockx")
      BY <2>4, Zenon DEF InsertLockShare, InsertLockExclusive
    <3>2. self[p] = NULL
      BY <1>0, <3>1, Zenon DEF InsertLocal
    <3>3. self'[p] = NULL
      BY <3>1, <3>2, Zenon
    <3>4. CASE BeginSearch(p, entryPoint)
      <4>1. Reached(p)' /\ visited'[p] = todo'[p]
        BY <1>0, <2>0, <3>4, BeginReached, Zenon
      <4>. QED BY <1>0, <2>0, <3>3, <4>1, Zenon DEF Owns
    <3>5. CASE UNCHANGED searchVars /\ Become(p, "lockx")
      <4>1. pc'[p] = "lockx"
        BY <1>0, <3>5, BecomeEffect, Zenon
      <4>2. pc'[p] # "search"
        BY <4>1, ZenonT(30)
      <4>. QED BY <1>0, <2>0, <3>3, <3>5, <4>2, Zenon DEF Owns, Reached, searchVars
    <3>. QED BY <3>1, <3>4, <3>5, Zenon
  <2>5. CASE Search(p)
    <3>1. UNCHANGED linkVars /\ (UNCHANGED pc \/ pc'[p] = "error")
      BY <1>0, <2>5, Domains, Zenon DEF Search, LoadElement, LoadUnvisited, Become
    <3>2. /\ Reached(p)'
          /\ (\A s \in visited[p] : s \in todo[p] \/ \E c \in loaded[p] : c.tid = s) =>
               \/ pc'[p] = "error"
               \/ \A s \in visited'[p] : s \in todo'[p] \/ \E c \in loaded'[p] : c.tid = s
      BY <1>0, <2>0, <2>5, SearchReached, Zenon
    <3>3. "error" # "search"
      BY SMTT(30), Z3T(30)
    <3>4. pc'[p] = "search" => pc[p] = "search" /\ pc'[p] # "error"
      BY <3>1, <3>3, Zenon
    <3>. QED BY <1>0, <2>0, <3>1, <3>2, <3>4, Zenon DEF Owns, linkVars
  <2>6. CASE InsertSelect(p)
    <3>1. UNCHANGED <<searchVars, self, newLevel>> /\ Become(p, "update")
      BY <2>6, Zenon DEF InsertSelect
    <3>2. pc'[p] = "update"
      BY <1>0, <3>1, BecomeEffect, Zenon
    <3>3. pc'[p] # "search"
      BY <3>2, ZenonT(30)
    <3>. QED BY <2>1, <3>1, <3>3, Zenon DEF searchVars
  <2>7. CASE InsertAbort(p)
    <3>1. ForgetSearch(p) /\ ForgetLinks(p) /\ Become(p, "idle")
      BY <2>7, Zenon DEF InsertAbort
    <3>2. pc'[p] = "idle" /\ self'[p] = NULL /\ Reached(p)'
      BY <1>0, <2>0, <3>1, BecomeEffect, ForgetEffect, BeginReached, Zenon
    <3>3. pc'[p] # "search"
      BY <3>2, ZenonT(30)
    <3>. QED BY <1>0, <2>0, <3>2, <3>3, Zenon DEF Owns
  <2>. QED BY <1>1, <2>2, <2>3, <2>4, <2>5, <2>6, <2>7, Zenon DEF Silent
<1>2. ASSUME nslots' = nslots, ForgetSearch(p), ForgetLinks(p), pc'[p] = "idle"
      PROVE  Reached(p)' /\ Owns(p)'
  <2>1. self'[p] = NULL /\ Reached(p)'
    BY <1>0, <1>2, ForgetEffect, BeginReached, Zenon
  <2>2. pc'[p] # "search"
    BY <1>2, Zenon
  <2>. QED BY <1>0, <1>2, <2>1, <2>2, Zenon DEF Owns
<1>3. CASE InsertFinish(p)
  <2>1. nslots' = nslots /\ ForgetSearch(p) /\ ForgetLinks(p) /\ pc'[p] = "idle"
    BY <1>3, FinishEffect, Zenon DEF diskVars
  <2>. QED BY <1>2, <2>1, ZenonT(30)
<1>4. ASSUME NEW s \in sel[p], AddDuplicateOnDisk(p, s) PROVE Reached(p)' /\ Owns(p)'
  <2>1. nslots' = nslots /\ ForgetSearch(p) /\ ForgetLinks(p) /\ Become(p, "idle")
    BY <1>4, Zenon DEF AddDuplicateOnDisk
  <2>. QED BY <1>0, <1>2, <2>1, BecomeEffect, Zenon
<1>5. ASSUME NEW s \in Slot, AddElementOnDisk(p, s) PROVE Reached(p)' /\ Owns(p)'
  <2>1. /\ s = nslots + 1 /\ nslots' = nslots + 1 /\ level'[s] = newLevel[p]
        /\ pc'[p] = "links" /\ self'[p] = s /\ UNCHANGED <<visited, loaded, newLevel>>
    BY <1>5, AddEffect, Zenon
  <2>2. 1 .. nslots \subseteq 1 .. nslots' /\ s \in 0 .. nslots'
    BY <1>0, <2>1, SMTT(30), Z3T(30)
  <2>3. pc'[p] # "search"
    BY <2>1, ZenonT(30)
  <2>. QED BY <1>0, <2>1, <2>2, <2>3, Zenon DEF Reached, Owns
<1>6. CASE UpdateNeighborOnDisk(p)
  <2>1. UNCHANGED <<nslots, level, visited, loaded, newLevel, self>> /\ pc'[p] = "links"
    BY <1>0, <1>6, LinkEffect, Zenon
  <2>2. pc'[p] # "search"
    BY <2>1, ZenonT(30)
  <2>. QED BY <1>0, <2>1, <2>2, Zenon DEF Reached, Owns
<1>. QED BY <1>1, <1>3, <1>4, <1>5, <1>6, InsertCases, Zenon

LEMMA OwnScan ==
  ASSUME TypeOK, LocalInv, Early, vacuums = 0, NEW q \in Scanners, Scan(q), UNCHANGED diskVars
  PROVE  Reached(q)'
<1>0. q \in Procs /\ Reached(q) /\ nslots' = nslots
  BY ProcSets, Zenon DEF Early, diskVars
<1>1. ScanStart(q) => Reached(q)'
  BY <1>0, BeginReached, Zenon DEF ScanStart
<1>2. ScanEnd(q) => Reached(q)'
  BY <1>0, BeginReached, Zenon DEF ScanEnd
<1>3. Search(q) => Reached(q)'
  BY <1>0, SearchReached, Zenon
<1>4. ScanResume(q) => Reached(q)'
  BY <1>0, Zenon DEF ScanResume, Reached, searchVars
<1>5. ASSUME ScanPause(q) PROVE Reached(q)'
  <2>1. visited' = visited /\ \E V : loaded' = [loaded EXCEPT ![q] = @ \ V]
    BY <1>5, Zenon DEF ScanPause
  <2>2. loaded'[q] \subseteq loaded[q]
    BY <1>0, <2>1, Domains, Zenon
  <2>. QED BY <1>0, <2>1, <2>2, Zenon DEF Reached
<1>. QED BY <1>1, <1>2, <1>3, <1>4, <1>5, Zenon DEF Scan

LEMMA EarlyStep ==
  ASSUME TypeOK, LocalInv, Early, Next
  PROVE  Early'
<1>1. CASE Vacuum
  BY <1>1, NoVacuum, Zenon DEF Early
<1>2. ASSUME NEW h \in HeapTid, HeapDelete(h) PROVE Early'
  <2>1. UNCHANGED <<diskVars, entryPoint, pc, searchVars, linkVars, vacVars>>
    BY <1>2, Zenon DEF HeapDelete
  <2>. QED BY <2>1, Zenon DEF Early, Elements, Reached, Owns, Live, diskVars, searchVars, linkVars,
           vacVars
<1>3. ASSUME NEW q \in Scanners, Scan(q) PROVE Early'
  <2>1. UNCHANGED <<diskVars, entryPoint, linkVars>>
    BY <1>3, Zenon DEF Scan, ScanStart, ScanPause, ScanResume, ScanEnd, Search, LoadElement,
       LoadUnvisited
  <2>2. q # Vac /\ q \in Procs /\ Vac \in Procs \ {q} /\ \A p \in Inserters : p \in Procs \ {q}
    BY ProcSets, ProcAssumption, ZenonT(30)
  <2>3. Others(q)
    BY <1>3, OthersStep, Zenon
  <2>4. /\ UNCHANGED vacuums /\ pc'[Vac] = pc[Vac]
        /\ \A r \in Procs \ {q} : /\ pc'[r] = pc[r] /\ visited'[r] = visited[r]
                                  /\ todo'[r] = todo[r] /\ loaded'[r] = loaded[r]
    BY <2>2, <2>3, Zenon DEF Others, vacVars
  <2> SUFFICES ASSUME vacuums = 0
               PROVE  /\ pc'[Vac] = "idle" /\ Elements'
                      /\ \A p \in Procs : Reached(p)'
                      /\ \A p \in Inserters : Owns(p)'
    BY <2>4, Zenon DEF Early
  <2>5. pc'[Vac] = "idle" /\ Elements'
    BY <2>1, <2>4, Zenon DEF Early, Elements, Live, diskVars
  <2>6. \A p \in Procs \ {q} : Reached(p)'
    BY <2>1, <2>4, Zenon DEF Early, Reached, diskVars
  <2>7. Reached(q)'
    BY <1>3, <2>1, OwnScan, Zenon
  <2>8. ASSUME NEW p \in Inserters PROVE Owns(p)'
    <3>1. Owns(p)
      BY Zenon DEF Early
    <3>2. /\ nslots' = nslots /\ level' = level /\ newLevel' = newLevel /\ self' = self
          /\ pc'[p] = pc[p] /\ visited'[p] = visited[p] /\ todo'[p] = todo[p]
          /\ loaded'[p] = loaded[p]
      BY <2>1, <2>2, <2>4, Zenon DEF diskVars, linkVars
    <3>. QED BY <3>1, <3>2, Zenon DEF Owns
  <2>. QED BY <2>5, <2>6, <2>7, <2>8, Zenon
<1>4. ASSUME NEW p \in Inserters, Insert(p) PROVE Early'
  <2>2. p # Vac /\ p \in Procs /\ Vac \in Procs \ {p}
        /\ \A r \in Inserters \ {p} : r \in Procs \ {p} /\ r \in Updaters \ {p}
    BY ProcSets, ProcAssumption, ZenonT(30)
  <2>3. Others(p)
    BY <1>4, OthersStep, Zenon
  <2>4. /\ UNCHANGED vacuums /\ pc'[Vac] = pc[Vac]
        /\ \A r \in Procs \ {p} : /\ pc'[r] = pc[r] /\ visited'[r] = visited[r]
                                  /\ todo'[r] = todo[r] /\ loaded'[r] = loaded[r]
        /\ \A r \in Updaters \ {p} : newLevel'[r] = newLevel[r] /\ self'[r] = self[r]
    BY <2>2, <2>3, Zenon DEF Others, vacVars
  <2> SUFFICES ASSUME vacuums = 0
               PROVE  /\ pc'[Vac] = "idle" /\ Elements'
                      /\ \A r \in Procs : Reached(r)'
                      /\ \A r \in Inserters : Owns(r)'
    BY <2>4, Zenon DEF Early
  <2>5. pc'[Vac] = "idle"
    BY <2>4, Zenon DEF Early
  <2>6. /\ Elements' /\ nslots' \in Nat /\ nslots <= nslots'
        /\ \A s \in 1 .. nslots : level'[s] = level[s]
    BY <1>4, ElementsInsert, Zenon
  <2>7. nslots \in Nat
    BY EarlyFacts, Zenon
  <2>8. 1 .. nslots \subseteq 1 .. nslots' /\ 0 .. nslots \subseteq 0 .. nslots'
        /\ \A s \in 0 .. nslots : s # NULL => s \in 1 .. nslots
    BY <2>6, <2>7, SMTT(30), Z3T(30) DEF NULL
  <2>9. \A r \in Procs \ {p} : Reached(r)'
    BY <2>4, <2>8, Zenon DEF Early, Reached
  <2>10. ASSUME NEW r \in Inserters \ {p} PROVE Owns(r)'
    <3>1. Owns(r)
      BY Zenon DEF Early
    <3>2. /\ pc'[r] = pc[r] /\ visited'[r] = visited[r] /\ todo'[r] = todo[r]
          /\ loaded'[r] = loaded[r] /\ newLevel'[r] = newLevel[r] /\ self'[r] = self[r]
      BY <2>2, <2>4, Zenon
    <3>. QED BY <2>6, <2>8, <3>1, <3>2, Zenon DEF Owns
  <2>11. Reached(p)' /\ Owns(p)'
    BY <1>4, OwnInsert, Zenon
  <2>. QED BY <2>5, <2>6, <2>9, <2>10, <2>11, Zenon
<1>. QED BY <1>1, <1>2, <1>3, <1>4, Zenon DEF Next

\* ... and nothing was deleted or aborted either
Calm == vacuums = 0 /\ \A h \in HeapTid : heap[h] # "dead"

\* The entry point an insert works with is the one of the metapage or a lower one, and one
\* that found none is alone
Current(p) ==
  /\ self[p] # NULL => updateLock[p] # "none"
  /\ pc[p] \in Active =>
       /\ ep[p].level <= entryPoint.level
       /\ ep[p].tid = NULL <=> entryPoint.tid = NULL
       /\ ep[p].tid = NULL => updateLock[p] = "exclusive"
       /\ pc[p] = "search" /\ ep[p].tid # NULL => visited[p] # {}
       /\ pc[p] = "update" /\ ep[p].tid # NULL => sel[p] # {}

Unowned(s) == \A p \in Inserters : self[p] # s

\* The finished elements are below the entry point, and one element at most has no neighbors
Connected ==
  /\ \A s \in 1 .. nslots : Unowned(s) => entryPoint.tid # NULL /\ level[s] <= entryPoint.level
  /\ \A s, t \in 1 .. nslots : neighbors[s] = {} /\ neighbors[t] = {} => s = t

GraphInv == Calm => Connected /\ \A p \in Inserters : Current(p)

\* Types in the form the steps use
LEMMA Levels ==
  ASSUME TypeOK
  PROVE  /\ entryPoint.level \in Int /\ \A p \in Inserters : ep[p].level \in Int
         /\ \A p \in Inserters : newLevel[p] \in Nat
<1>1. /\ entryPoint \in Point /\ \A p \in Inserters : p \in Updaters
      /\ ep \in [Updaters -> Point] /\ newLevel \in [Updaters -> 0 .. MaxLevel]
  BY ProcSets, Zenon DEF TypeOK, DiskType, LinkType
<1>2. \A e \in Point : e.level \in Int
  BY Points, BoundAssumption, SMTT(30), Z3T(30)
<1>3. \A x \in 0 .. MaxLevel : x \in Nat
  BY BoundAssumption, SMTT(30), Z3T(30)
<1>. QED BY <1>1, <1>2, <1>3, Zenon

\* A step after which nothing is dead is one of a calm state
LEMMA CalmStep ==
  ASSUME TypeOK, LocalInv, Early, Next, Calm'
  PROVE  /\ Calm
         /\ \/ \E q \in Scanners : Scan(q)
            \/ \E p \in Inserters : Insert(p) /\ ~InsertAbort(p)
<1>0. /\ DOMAIN heap = HeapTid /\ vacuums' = 0
      /\ \A h \in HeapTid : heap'[h] # "dead"
  BY Zenon DEF TypeOK, HeapType, Calm
<1>1. ~Vacuum
  BY NoVacuum, Zenon DEF Calm
<1>2. \A h \in HeapTid : ~HeapDelete(h)
  BY <1>0, Zenon DEF HeapDelete
<1>3. ASSUME NEW p \in Inserters, InsertAbort(p) PROVE FALSE
  <2>1. heaptid[p] \in HeapTid /\ heap' = [heap EXCEPT ![heaptid[p]] = "dead"]
    BY <1>3, Zenon DEF InsertAbort, LocalInv, InsertLocal
  <2>. QED BY <1>0, <2>1, Zenon
<1>4. ASSUME NEW q \in Scanners, Scan(q) PROVE Calm
  <2>1. UNCHANGED <<heap, vacuums>>
    BY <1>4, Zenon DEF Scan, ScanStart, ScanPause, ScanResume, ScanEnd, Search, LoadElement,
       LoadUnvisited, vacVars, heapVars
  <2>. QED BY <2>1, Zenon DEF Calm
<1>5. ASSUME NEW p \in Inserters, Insert(p) PROVE Calm
  <2>1. vacuums' = vacuums
    <3>1. p # Vac /\ Others(p)
      BY <1>5, OthersStep, ProcAssumption, ZenonT(30)
    <3>. QED BY <3>1, Zenon DEF Others, vacVars
  <2>2. vacuums = 0
    BY <1>0, <2>1, Zenon DEF Calm
  <2>3. ASSUME InsertStart(p), NEW h \in HeapTid PROVE heap[h] # "dead"
    <3>1. PICK g \in HeapTid : heap[g] = "unused" /\ heap' = [heap EXCEPT ![g] = "live"]
      BY <2>3, Zenon DEF InsertStart
    <3>2. heap[g] # "dead"
      BY <3>1, ZenonT(30)
    <3>3. h # g => heap'[h] = heap[h]
      BY <1>0, <3>1, Zenon
    <3>. QED BY <1>0, <3>2, <3>3, Zenon
  <2>4. Search(p) \/ InsertLockShare(p) \/ InsertLockExclusive(p) \/ InsertSelect(p) => heap' = heap
    BY Zenon DEF Search, LoadElement, LoadUnvisited, InsertLockShare, InsertLockExclusive,
       InsertSelect, heapVars
  <2>5. (\E s \in sel[p] : AddDuplicateOnDisk(p, s)) => heap' = heap
    BY Zenon DEF AddDuplicateOnDisk, heapVars
  <2>6. (\E s \in Slot : AddElementOnDisk(p, s)) => heap' = heap
    BY <2>2, AddEffect, Zenon
  <2>7. UpdateNeighborOnDisk(p) \/ InsertFinish(p) => heap' = heap
    BY LinkEffect, FinishEffect, ProcSets, Zenon
  <2>8. heap' = heap \/ InsertStart(p)
    BY <1>3, <1>5, <2>4, <2>5, <2>6, <2>7, InsertCases, Zenon DEF Silent
  <2>. QED BY <1>0, <2>2, <2>3, <2>8, Zenon DEF Calm
<1>. QED BY <1>1, <1>2, <1>3, <1>4, <1>5, Zenon DEF Next

\* Everybody keeps what is theirs
LEMMA CurrentKept ==
  ASSUME TypeOK, NEW p \in Procs, Others(p), entryPoint' = entryPoint,
         NEW r \in Inserters \ {p}, Current(r)
  PROVE  Current(r)'
<1>1. r \in Procs \ {p} /\ r \in Updaters \ {p}
  BY ProcSets, ZenonT(30)
<1>2. /\ pc'[r] = pc[r] /\ updateLock'[r] = updateLock[r] /\ visited'[r] = visited[r]
      /\ ep'[r] = ep[r] /\ sel'[r] = sel[r] /\ self'[r] = self[r]
  BY <1>1, Zenon DEF Others
<1>. QED BY <1>2, Zenon DEF Current

LEMMA ConnectedKept ==
  ASSUME Connected, UNCHANGED <<nslots, level, entryPoint>>,
         \A r \in Inserters : self'[r] = self[r],
         \A s \in 1 .. nslots : neighbors'[s] = {} => neighbors[s] = {}
  PROVE  Connected'
<1>1. \A s : Unowned(s)' => Unowned(s)
  BY Zenon DEF Unowned
<1>2. \A s \in 1 .. nslots : Unowned(s)' => entryPoint.tid # NULL /\ level[s] <= entryPoint.level
  BY <1>1, Zenon DEF Connected
<1>3. \A s, t \in 1 .. nslots : neighbors'[s] = {} /\ neighbors'[t] = {} => s = t
  BY Zenon DEF Connected
<1>. QED BY <1>2, <1>3, Zenon DEF Connected

\* The insert that moves without writing, has its element or finds it is a duplicate
LEMMA CurrentSilent ==
  ASSUME Cardinality({}) = 0,
         TypeOK, LocalInv, Early, vacuums = 0, NEW p \in Inserters, Silent(p), ~InsertAbort(p),
         Current(p)
  PROVE  Current(p)' /\ self'[p] = self[p]
<1>0. /\ p \in Procs /\ p \in Updaters /\ InsertLocal(p) /\ Owns(p) /\ Reached(p)
      /\ UNCHANGED diskVars /\ nslots' = nslots /\ entryPoint' = entryPoint
  BY ProcSets, Zenon DEF LocalInv, Early, Silent, diskVars
<1>1. CASE pc[p] \in {"links", "load"} /\ pc'[p] \in {"links", "load", "link", "error"}
           /\ UNCHANGED <<visited, todo, loaded, ep, newLevel, self, sel, updateLock, heap>>
  <2>1. pc[p] \in Active /\ pc'[p] # "search" /\ pc'[p] # "update"
    BY <1>1, ZenonT(30) DEF Active
  <2>. QED BY <1>0, <1>1, <2>1, Zenon DEF Current
<1>2. CASE InsertStart(p)
  <2>1. pc'[p] = "lock" /\ UNCHANGED <<updateLock, self>>
    BY <1>0, <1>2, BecomeEffect, Zenon DEF InsertStart, lockVars, linkVars
  <2>2. pc'[p] \notin Active
    BY <2>1, ZenonT(30) DEF Active
  <2>. QED BY <2>1, <2>2, Zenon DEF Current
<1>3. CASE InsertLockShare(p) \/ InsertLockExclusive(p)
  <2>1. pc[p] \in {"lock", "lockx"} /\ self' = self
    BY <1>3, Zenon DEF InsertLockShare, InsertLockExclusive
  <2>2. self[p] = NULL /\ self'[p] = NULL
    BY <1>0, <2>1, ZenonT(30) DEF InsertLocal
  <2>3. \/ Become(p, "lockx")
        \/ /\ Become(p, "search") /\ ep' = [ep EXCEPT ![p] = entryPoint]
           /\ BeginSearch(p, entryPoint)
           /\ entryPoint.tid # NULL \/ updateLock' = Set(updateLock, p, "exclusive")
    BY <1>3, Zenon DEF InsertLockShare, InsertLockExclusive, Outranks
  <2>4. CASE Become(p, "lockx")
    <3>1. pc'[p] = "lockx"
      BY <1>0, <2>4, BecomeEffect, Zenon
    <3>2. pc'[p] \notin Active
      BY <3>1, ZenonT(30) DEF Active
    <3>. QED BY <2>2, <3>2, Zenon DEF Current
  <2>5. CASE /\ Become(p, "search") /\ ep' = [ep EXCEPT ![p] = entryPoint]
             /\ BeginSearch(p, entryPoint)
             /\ entryPoint.tid # NULL \/ updateLock' = Set(updateLock, p, "exclusive")
    <3>1. /\ pc'[p] = "search" /\ ep'[p] = entryPoint
          /\ entryPoint.tid # NULL => visited'[p] # {}
      BY <1>0, <2>5, BecomeEffect, BeginReached, Domains, Zenon
    <3>2. entryPoint.tid = NULL => updateLock'[p] = "exclusive"
      BY <1>0, <2>5, Domains, Zenon DEF Set
    <3>3. pc'[p] # "update"
      BY <3>1, Zenon
    <3>4. entryPoint.level <= entryPoint.level
      BY Levels, SMTT(30), Z3T(30)
    <3>5. ep'[p].level <= entryPoint'.level /\ ep'[p].tid = entryPoint'.tid
      BY <1>0, <3>1, <3>4, Zenon
    <3>6. ep'[p].tid = NULL => updateLock'[p] = "exclusive"
      BY <3>1, <3>2, Zenon
    <3>7. ep'[p].tid # NULL => visited'[p] # {}
      BY <3>1, Zenon
    <3>. QED BY <2>2, <3>3, <3>5, <3>6, <3>7, Zenon DEF Current
  <2>. QED BY <2>3, <2>4, <2>5, Zenon
<1>4. CASE Search(p)
  <2>1. UNCHANGED <<linkVars, updateLock>> /\ pc[p] = "search" /\ (UNCHANGED pc \/ pc'[p] = "error")
    <3>1. pc[p] \in {"search", "scan"} /\ UNCHANGED <<linkVars, updateLock>>
      BY <1>4, Zenon DEF Search, LoadElement, LoadUnvisited, lockVars
    <3>2. pc[p] \in InserterPc
      BY Zenon DEF TypeOK, ControlType
    <3>3. pc[p] = "search"
      BY <3>1, <3>2, ZenonT(30) DEF InserterPc
    <3>4. UNCHANGED pc \/ pc'[p] = "error"
      BY <1>0, <1>4, BecomeEffect, Zenon DEF Search, LoadElement, LoadUnvisited
    <3>. QED BY <3>1, <3>3, <3>4, ZenonT(30)
  <2>2. visited[p] \subseteq visited'[p]
    BY <1>0, <1>4, SearchReached, Zenon
  <2>3. "error" \notin Active /\ "search" \in Active /\ "search" # "update"
    BY SMTT(30), Z3T(30) DEF Active
  <2>4. self' = self /\ ep' = ep
    BY <2>1, Zenon DEF linkVars
  <2>5. CASE UNCHANGED pc
    BY <1>0, <2>1, <2>2, <2>3, <2>4, <2>5, Zenon DEF Current
  <2>6. CASE pc'[p] = "error"
    BY <1>0, <2>1, <2>3, <2>4, <2>6, Zenon DEF Current
  <2>. QED BY <2>1, <2>4, <2>5, <2>6, Zenon
<1>5. CASE InsertSelect(p)
  <2>1. PICK S \in Selections(loaded[p], NULL) : sel' = [sel EXCEPT ![p] = S]
    BY <1>5, Zenon DEF InsertSelect
  <2>2. /\ pc[p] = "search" /\ todo[p] = {} /\ Become(p, "update")
        /\ UNCHANGED <<updateLock, visited, loaded, ep, self>>
    BY <1>5, Zenon DEF InsertSelect, lockVars, searchVars
  <2>3. pc'[p] = "update" /\ sel'[p] = S
    BY <1>0, <2>1, <2>2, BecomeEffect, Domains, Zenon
  <2>4. ASSUME visited[p] # {} PROVE S # {}
    <3>1. PICK s : s \in visited[p]
      BY <2>4, ZenonT(30)
    <3>2. PICK c \in loaded[p] : c.tid = s
      BY <1>0, <2>2, <3>1, Zenon DEF Owns
    <3>3. c.live /\ s \in 1 .. nslots /\ \A d \in loaded[p] : d.live
      BY <1>0, <3>1, Zenon DEF Reached
    <3>4. s # NULL
      BY <3>3, EarlyFacts, SMTT(30), Z3T(30) DEF NULL
    <3>5. s \in {d.tid : d \in {e \in loaded[p] : e.live}} \ {NULL}
      BY <3>2, <3>3, <3>4, Zenon
    <3>6. \/ S = {d.tid : d \in {e \in loaded[p] : e.live}} \ {NULL}
          \/ Cardinality(S) = M
      BY <2>1, <3>3, Zenon DEF Selections
    <3>7. M # 0
      BY BoundAssumption, ZenonT(30)
    <3>. QED BY <3>5, <3>6, <3>7, Zenon
  <2>5. pc[p] \in Active /\ pc'[p] # "search"
    BY <2>2, <2>3, Zenon DEF Active
  <2>. QED BY <1>0, <2>2, <2>3, <2>4, <2>5, Zenon DEF Current
<1>. QED BY <1>1, <1>2, <1>3, <1>4, <1>5, Zenon DEF Silent

\* The graph with the element that an insert adds
LEMMA ConnectedAdd ==
  ASSUME TypeOK, LocalInv, LockInv, Early, vacuums = 0, Connected,
         \A r \in Inserters : Current(r),
         NEW p \in Inserters, NEW s \in Slot, AddElementOnDisk(p, s), Others(p)
  PROVE  Connected'
<1>1. /\ s = nslots + 1 /\ nslots' = nslots + 1 /\ self'[p] = s /\ neighbors'[s] = sel[p]
      /\ pc[p] = "update" /\ entryPoint' = entryPoint
  BY AddEffect, Zenon
<1>2. \A t \in Slot \ {s} : neighbors'[t] = neighbors[t] /\ level'[t] = level[t]
  BY AddEffect, SMTT(30), Z3T(30)
<1>3. nslots \in Nat /\ 1 .. nslots \subseteq Slot /\ self[p] = NULL
  BY <1>1, EarlyFacts, Zenon
<1>4. \A t \in 1 .. nslots' : t = s \/ t \in 1 .. nslots
  BY <1>1, <1>3, SMTT(30), Z3T(30)
<1>5. \A t \in 1 .. nslots : t \in Slot \ {s} /\ t # NULL
  BY <1>1, <1>3, SMTT(30), Z3T(30) DEF NULL
<1>6. \A r \in Inserters \ {p} : self'[r] = self[r] /\ r \in Procs
  <2>1. \A r \in Inserters \ {p} : r \in Updaters \ {p} /\ r \in Procs
    BY ProcSets, Zenon
  <2>. QED BY <2>1, Zenon DEF Others
<1>7. ASSUME NEW t \in 1 .. nslots', Unowned(t)'
      PROVE  entryPoint'.tid # NULL /\ level'[t] <= entryPoint'.level
  <2>1. t # s
    BY <1>1, <1>7, Zenon DEF Unowned
  <2>2. t \in 1 .. nslots /\ t # NULL
    BY <1>4, <1>5, <2>1, Zenon
  <2>3. Unowned(t)
    BY <1>3, <1>6, <1>7, <2>2, Zenon DEF Unowned
  <2>4. entryPoint.tid # NULL /\ level[t] <= entryPoint.level
    BY <2>2, <2>3, Zenon DEF Connected
  <2>. QED BY <1>1, <1>2, <1>5, <2>2, <2>4, Zenon
<1>8. ASSUME sel[p] = {}, NEW t \in 1 .. nslots PROVE FALSE
  <2>1. pc[p] \in Active
    BY <1>1, Zenon DEF Active
  <2>2. entryPoint.tid = NULL /\ updateLock[p] = "exclusive"
    BY <1>1, <1>8, <2>1, Zenon DEF Current
  <2>3. PICK r \in Inserters : self[r] = t
    BY <2>2, Zenon DEF Connected, Unowned
  <2>4. r # p /\ updateLock[r] # "none"
    BY <1>3, <1>5, <2>3, Zenon DEF Current
  <2>5. p \in Procs /\ r \in Procs
    BY ProcSets, Zenon
  <2>. QED BY <2>2, <2>4, <2>5, Zenon DEF LockInv
<1>9. ASSUME NEW t \in 1 .. nslots', NEW u \in 1 .. nslots', neighbors'[t] = {}, neighbors'[u] = {}
      PROVE  t = u
  <2>1. CASE t \in 1 .. nslots /\ u \in 1 .. nslots
    <3>1. neighbors[t] = {} /\ neighbors[u] = {}
      BY <1>2, <1>5, <1>9, <2>1, Zenon
    <3>. QED BY <2>1, <3>1, Zenon DEF Connected
  <2>2. CASE t = s
    BY <1>1, <1>4, <1>8, <1>9, <2>2, Zenon
  <2>3. CASE u = s
    BY <1>1, <1>4, <1>8, <1>9, <2>3, Zenon
  <2>. QED BY <1>4, <2>1, <2>2, <2>3, Zenon
<1>. QED BY <1>7, <1>9, Zenon DEF Connected

\* UpdateGraphOnDisk ends with the entry point
LEMMA GraphFinish ==
  ASSUME TypeOK, LocalInv, LockInv, Early, vacuums = 0, Connected,
         \A r \in Inserters : Current(r),
         NEW p \in Inserters, InsertFinish(p), Others(p)
  PROVE  Connected' /\ \A r \in Inserters : Current(r)'
<1>1. /\ pc[p] = "links" /\ pc'[p] = "idle" /\ UNCHANGED <<nslots, level, neighbors>>
      /\ ForgetLinks(p)
  BY FinishEffect, Zenon DEF diskVars
<1>2. /\ p \in Procs /\ p \in Updaters
      /\ \A r \in Inserters \ {p} : r \in Procs \ {p} /\ r \in Updaters \ {p}
  BY ProcSets, SMTT(30), Z3T(30)
<1>3. self'[p] = NULL
  BY <1>1, <1>2, ForgetEffect, Zenon
<1>4. \A r \in Inserters \ {p} : self'[r] = self[r]
  BY <1>2, Zenon DEF Others
<1>5. self[p] \in 1 .. nslots /\ nslots \in Nat
  BY <1>1, EarlyFacts, Zenon
<1>6. self[p] # NULL /\ \A s \in 1 .. nslots : s # NULL
  BY <1>5, SMTT(30), Z3T(30) DEF NULL
<1>7. /\ ep[p].level <= entryPoint.level
      /\ ep[p].tid = NULL <=> entryPoint.tid = NULL
  <2>1. pc[p] \in Active
    BY <1>1, ZenonT(30) DEF Active
  <2>. QED BY <2>1, Zenon DEF Current
<1>8. entryPoint.tid = NULL => entryPoint.level = -1
  BY Zenon DEF Early, Elements
<1>9. level[self[p]] = newLevel[p]
  BY <1>6, Zenon DEF Early, Owns
<1>10. /\ entryPoint'.tid # NULL /\ entryPoint'.level \in Int
       /\ newLevel[p] <= entryPoint'.level /\ entryPoint.level <= entryPoint'.level
       /\ entryPoint' = entryPoint \/ entryPoint.level < entryPoint'.level
  <2>1. CASE ~Outranks(newLevel[p], ep[p]) /\ entryPoint' = entryPoint
    BY <1>7, <2>1, Levels, SMTT(30), Z3T(30) DEF Outranks
  <2>2. CASE ~(newLevel[p] > entryPoint.level) /\ entryPoint' = entryPoint
    BY <1>8, <2>2, Levels, SMTT(30), Z3T(30)
  <2>3. CASE /\ newLevel[p] > entryPoint.level
             /\ entryPoint'.tid = self[p] /\ entryPoint'.level = newLevel[p]
    BY <1>6, <2>3, Levels, SMTT(30), Z3T(30)
  <2>. QED BY <2>1, <2>2, <2>3, FinishEffect, Zenon
<1>11. ASSUME NEW s \in 1 .. nslots, Unowned(s)' PROVE level[s] <= entryPoint'.level
  <2>1. CASE s = self[p]
    BY <1>9, <1>10, <2>1, Zenon
  <2>2. CASE s # self[p]
    <3>1. Unowned(s)
      BY <1>4, <1>11, <2>2, Zenon DEF Unowned
    <3>2. level[s] <= entryPoint.level
      BY <3>1, Zenon DEF Connected
    <3>3. level[s] \in Int
      <4>1. s \in Slot /\ level \in [Slot -> 0 .. MaxLevel]
        BY EarlyFacts, Zenon DEF TypeOK, DiskType
      <4>2. level[s] \in 0 .. MaxLevel
        BY <4>1, Zenon
      <4>. QED BY <4>2, BoundAssumption, SMTT(30), Z3T(30)
    <3>. QED BY <1>10, <3>2, <3>3, Levels, SMTT(30), Z3T(30)
  <2>. QED BY <2>1, <2>2, ZenonT(30)
<1>12. Connected'
  BY <1>1, <1>10, <1>11, Zenon DEF Connected
<1>13. ASSUME NEW r \in Inserters \ {p} PROVE Current(r)'
  <2>1. CASE entryPoint' = entryPoint
    BY <1>2, <2>1, CurrentKept, Zenon
  <2>2. CASE entryPoint.level < entryPoint'.level
    <3>1. /\ pc'[r] = pc[r] /\ updateLock'[r] = updateLock[r] /\ visited'[r] = visited[r]
          /\ ep'[r] = ep[r] /\ sel'[r] = sel[r] /\ self'[r] = self[r] /\ Current(r)
      BY <1>2, Zenon DEF Others
    <3>2. ASSUME pc[r] \in Active PROVE ep[r].tid # NULL
      <4>1. updateLock[p] # "none"
        BY <1>6, Zenon DEF Current
      <4>2. updateLock[r] # "exclusive"
        BY <1>2, <4>1, Zenon DEF LockInv
      <4>. QED BY <3>1, <3>2, <4>2, Zenon DEF Current
    <3>3. ASSUME pc[r] \in Active PROVE ep[r].level <= entryPoint'.level
      <4>1. ep[r].level <= entryPoint.level
        BY <3>1, <3>3, Zenon DEF Current
      <4>. QED BY <1>10, <4>1, Levels, SMTT(30), Z3T(30)
    <3>. QED BY <1>10, <3>1, <3>2, <3>3, Zenon DEF Current
  <2>. QED BY <1>10, <2>1, <2>2, Zenon
<1>14. Current(p)'
  <2>1. pc'[p] \notin Active
    BY <1>1, Zenon DEF Active
  <2>. QED BY <1>3, <2>1, Zenon DEF Current
<1>. QED BY <1>12, <1>13, <1>14, Zenon

LEMMA GraphStep ==
  ASSUME Cardinality({}) = 0, TypeOK, LocalInv, LockInv, Early, GraphInv, Next
  PROVE  GraphInv'
<1> SUFFICES ASSUME Calm' PROVE Connected' /\ \A p \in Inserters : Current(p)'
  BY Zenon DEF GraphInv
<1>0. /\ vacuums = 0 /\ Connected /\ \A p \in Inserters : Current(p)
  BY CalmStep, Zenon DEF GraphInv, Calm
<1>1. ASSUME NEW q \in Scanners, Scan(q) PROVE Connected' /\ \A p \in Inserters : Current(p)'
  <2>1. UNCHANGED <<diskVars, entryPoint, linkVars>>
    BY <1>1, Zenon DEF Scan, ScanStart, ScanPause, ScanResume, ScanEnd, Search, LoadElement,
       LoadUnvisited
  <2>2. q \in Procs /\ \A p \in Inserters : p \in Inserters \ {q}
    BY ProcSets, ProcAssumption, Zenon
  <2>3. Others(q)
    BY <1>1, OthersStep, Zenon
  <2>4. \A p \in Inserters : Current(p)'
    BY <1>0, <2>1, <2>2, <2>3, CurrentKept, Zenon
  <2>5. UNCHANGED <<nslots, level, entryPoint, self, neighbors>>
    BY <2>1, Zenon DEF diskVars, linkVars
  <2>. QED BY <1>0, <2>4, <2>5, ConnectedKept, Zenon
<1>2. ASSUME NEW p \in Inserters, Insert(p), ~InsertAbort(p)
      PROVE  Connected' /\ \A r \in Inserters : Current(r)'
  <2>0. /\ p \in Procs /\ p \in Updaters /\ Others(p)
        /\ \A r \in Inserters \ {p} : r \in Updaters \ {p}
    BY <1>2, ProcSets, OthersStep, Zenon
  <2>1. \A r \in Inserters \ {p} : self'[r] = self[r]
    BY <2>0, Zenon DEF Others
  <2>2. ASSUME entryPoint' = entryPoint PROVE \A r \in Inserters \ {p} : Current(r)'
    BY <1>0, <2>0, <2>2, CurrentKept, Zenon
  <2>3. CASE Silent(p)
    <3>1. Current(p)' /\ self'[p] = self[p]
      BY <1>0, <1>2, <2>3, CurrentSilent, Zenon
    <3>2. UNCHANGED <<nslots, level, neighbors, entryPoint>>
      BY <2>3, Zenon DEF Silent, diskVars
    <3>3. Connected'
      BY <1>0, <2>1, <3>1, <3>2, ConnectedKept, Zenon
    <3>. QED BY <2>2, <3>1, <3>2, <3>3, Zenon
  <2>4. CASE InsertFinish(p)
    BY <1>0, <2>0, <2>4, GraphFinish, Zenon
  <2>5. ASSUME NEW s \in sel[p], AddDuplicateOnDisk(p, s)
        PROVE  Connected' /\ \A r \in Inserters : Current(r)'
    <3>1. /\ UNCHANGED <<nslots, level, neighbors, entryPoint>> /\ ForgetLinks(p)
          /\ Become(p, "idle") /\ pc[p] = "update"
      BY <2>5, Zenon DEF AddDuplicateOnDisk
    <3>2. self'[p] = NULL /\ pc'[p] = "idle"
      BY <2>0, <3>1, ForgetEffect, BecomeEffect, Zenon
    <3>3. self[p] = NULL /\ pc'[p] \notin Active
      BY <1>0, <3>1, <3>2, EarlyFacts, ZenonT(30) DEF Active
    <3>4. Current(p)'
      BY <3>2, <3>3, Zenon DEF Current
    <3>5. Connected'
      BY <1>0, <2>1, <3>1, <3>2, <3>3, ConnectedKept, Zenon
    <3>. QED BY <2>2, <3>1, <3>4, <3>5, Zenon
  <2>6. ASSUME NEW s \in Slot, AddElementOnDisk(p, s)
        PROVE  Connected' /\ \A r \in Inserters : Current(r)'
    <3>1. Connected'
      BY <1>0, <2>0, <2>6, ConnectedAdd, Zenon
    <3>2. /\ pc[p] = "update" /\ pc'[p] = "links" /\ UNCHANGED <<entryPoint, ep>>
      BY <1>0, <2>6, AddEffect, Zenon
    <3>3. updateLock' = updateLock
      BY <2>6, Zenon DEF AddElementOnDisk, lockVars
    <3>4. pc[p] \in Active /\ pc'[p] # "search" /\ pc'[p] # "update"
      BY <3>2, ZenonT(30) DEF Active
    <3>5. updateLock[p] # "none"
      BY <3>4, Zenon DEF LockInv
    <3>6. Current(p)'
      BY <1>0, <3>2, <3>3, <3>4, <3>5, Zenon DEF Current
    <3>. QED BY <2>2, <3>1, <3>2, <3>6, Zenon
  <2>7. CASE UpdateNeighborOnDisk(p)
    <3>1. /\ UNCHANGED <<nslots, level, entryPoint, self, ep>>
          /\ pc[p] = "link" /\ pc'[p] = "links"
      BY <2>0, <2>7, LinkEffect, Zenon
    <3>2. \A t \in 1 .. nslots : neighbors'[t] = {} => neighbors[t] = {}
      BY <1>0, <2>0, <2>7, LinkEffect, EarlyFacts, Zenon
    <3>3. updateLock' = updateLock
      BY <2>7, Zenon DEF UpdateNeighborOnDisk, lockVars
    <3>4. pc[p] \in Active /\ pc'[p] # "search" /\ pc'[p] # "update"
      BY <3>1, ZenonT(30) DEF Active
    <3>5. Current(p)'
      BY <1>0, <3>1, <3>3, <3>4, Zenon DEF Current
    <3>6. Connected'
      BY <1>0, <3>1, <3>2, ConnectedKept, Zenon
    <3>. QED BY <2>2, <3>1, <3>5, <3>6, Zenon
  <2>. QED BY <1>2, <2>3, <2>4, <2>5, <2>6, <2>7, InsertCases, Zenon
<1>. QED BY <1>1, <1>2, CalmStep, Zenon

\* At most one element of the built graph has no neighbors
BuiltGraph == \A s, t \in 1 .. NBuilt : BuiltNeighbors[s] = {} /\ BuiltNeighbors[t] = {} => s = t

LEMMA GraphStart ==
  ASSUME Init, BuiltGraph
  PROVE  LockInv /\ Early /\ GraphInv
<1>1. /\ nslots = NBuilt /\ vacuums = 0 /\ pc[Vac] = "idle"
      /\ \A p \in Procs : /\ pc[p] = "idle" /\ updateLock[p] = "none" /\ scanLock[p] = "none"
                          /\ visited[p] = {} /\ loaded[p] = {}
      /\ \A p \in Updaters : self[p] = NULL
  BY ProcSets, Zenon DEF Init
<1>2. /\ \A s \in Slot : deleted[s] = FALSE
      /\ \A s \in Slot : s <= NBuilt => heaptids[s] = {s} /\ neighbors[s] = BuiltNeighbors[s]
      /\ \A s \in Slot : ~(s <= NBuilt) => neighbors[s] = {}
  BY Zenon DEF Init
<1>3. /\ NBuilt \in Nat /\ \A s \in 1 .. NBuilt : s \in Slot /\ s <= NBuilt /\ s # NULL
      /\ \A s \in Slot : s <= NBuilt => s \in 1 .. NBuilt
      /\ NULL \in 0 .. NBuilt
  BY BoundAssumption, SMTT(30), Z3T(30) DEF Slot, NULL
<1>4. /\ entryPoint.tid \in 0 .. nslots
      /\ entryPoint.tid = NULL => entryPoint.level = -1
      /\ \A s \in 1 .. nslots : entryPoint.tid # NULL /\ level[s] <= entryPoint.level
  <2>1. CASE NBuilt = 0
    <3>1. entryPoint = NoPoint
      BY <2>1, Zenon DEF Init
    <3>. QED BY <1>1, <2>1, <3>1, SMTT(30), Z3T(30) DEF NoPoint, NULL
  <2>2. CASE NBuilt # 0
    <3>1. PICK s \in 1 .. NBuilt : /\ \A t \in 1 .. NBuilt : level[t] <= level[s]
                                   /\ entryPoint = [tid |-> s, level |-> level[s]]
      BY <2>2, Zenon DEF Init
    <3>2. entryPoint.tid = s /\ entryPoint.level = level[s]
      BY <3>1, Zenon
    <3>3. s \in 0 .. nslots
      BY <1>1, <1>3, SMTT(30), Z3T(30)
    <3>. QED BY <1>1, <1>3, <3>1, <3>2, <3>3, Zenon
  <2>. QED BY <2>1, <2>2, ZenonT(30)
<1>5. LockInv
  <2>1. /\ "idle" \notin Active /\ "idle" \notin Repairing
        /\ "idle" # "scan" /\ "none" # "exclusive"
    BY SMTT(30), Z3T(30) DEF Active, Repairing
  <2>2. /\ \A p \in Inserters : pc[p] = "idle"
        /\ \A q \in Scanners : pc[q] = "idle"
    BY <1>1, ProcSets, Zenon
  <2>. QED BY <1>1, <2>1, <2>2, Zenon DEF LockInv
<1>6. Elements
  <2>1. \A s \in Slot : s <= NBuilt => Live(s)
    BY <1>2, Zenon DEF Live
  <2>2. \A s \in Slot : neighbors[s] \subseteq 1 .. nslots
    <3>1. \A s \in 1 .. NBuilt : BuiltNeighbors[s] \subseteq 1 .. NBuilt
      BY BoundAssumption, Zenon
    <3>. QED BY <1>1, <1>2, <1>3, <3>1, Zenon
  <2>. QED BY <1>1, <1>2, <1>4, <2>1, <2>2, Zenon DEF Elements
<1>7. Early
  <2>1. \A p \in Procs : Reached(p)
    BY <1>1, Zenon DEF Reached
  <2>2. \A p \in Inserters : pc[p] # "search" /\ self[p] = NULL
    BY <1>1, ProcSets, ZenonT(30)
  <2>3. \A p \in Inserters : Owns(p)
    BY <1>1, <1>3, <2>2, Zenon DEF Owns
  <2>. QED BY <1>1, <1>6, <2>1, <2>3, Zenon DEF Early
<1>8. Connected
  <2>1. \A s \in 1 .. NBuilt : neighbors[s] = BuiltNeighbors[s]
    BY <1>2, <1>3, Zenon
  <2>2. \A s, t \in 1 .. nslots : neighbors[s] = {} /\ neighbors[t] = {} => s = t
    <3>1. nslots = NBuilt
      BY <1>1, ZenonT(30)
    <3>. QED BY <2>1, <3>1, Zenon DEF BuiltGraph
  <2>. QED BY <1>4, <2>2, Zenon DEF Connected
<1>9. \A p \in Inserters : Current(p)
  <2>1. \A p \in Inserters : pc[p] \notin Active /\ self[p] = NULL
    BY <1>1, ProcSets, ZenonT(30) DEF Active
  <2>. QED BY <2>1, Zenon DEF Current
<1>. QED BY <1>5, <1>7, <1>8, <1>9, Zenon DEF GraphInv

LEMMA GraphStutter ==
  ASSUME LockInv, Early, GraphInv, UNCHANGED vars
  PROVE  LockInv' /\ Early' /\ GraphInv'
<1>1. /\ UNCHANGED <<nslots, heaptids, deleted, level, neighbors, entryPoint, heap>>
      /\ UNCHANGED <<updateLock, scanLock, pc, visited, todo, loaded, ep, newLevel, self, sel>>
      /\ UNCHANGED <<ctx, vacuums>>
  BY Zenon DEF vars, diskVars, heapVars, lockVars, searchVars, linkVars, vacVars
<1>2. LockInv'
  BY <1>1, Zenon DEF LockInv
<1>3. Elements' = Elements /\ (\A p : Reached(p)' = Reached(p)) /\ (\A p : Owns(p)' = Owns(p))
  BY <1>1, Zenon DEF Elements, Live, Reached, Owns
<1>4. Early'
  BY <1>1, <1>3, Zenon DEF Early
<1>5. Calm' = Calm /\ Connected' = Connected /\ \A p : Current(p)' = Current(p)
  BY <1>1, Zenon DEF Calm, Connected, Unowned, Current
<1>6. GraphInv'
  BY <1>5, Zenon DEF GraphInv
<1>. QED BY <1>2, <1>4, <1>6, ZenonT(30)

-----------------------------------------------------------------------------
INSTANCE FiniteSetTheorems

\* The index and the heap agree, for every number of backends, elements and rows: the TID of
\* a committed row is in one element, and one that the heap may use again is in none.
THEOREM TidsIndexed == Spec => []HeapTidsIndexed
<1>1. TypeOK /\ LocalInv /\ TidInv => HeapTidsIndexed
  <2>. SUFFICES ASSUME TypeOK, LocalInv, TidInv PROVE HeapTidsIndexed
    BY Zenon
  <2>1. ASSUME NEW h \in HeapTid
        PROVE  LET at == {s \in Slot : h \in heaptids[s]}
               IN  /\ heap[h] = "unused" => at = {}
                   /\ heap[h] = "live" /\ (\A p \in Inserters : heaptid[p] # h) => at # {}
                   /\ Cardinality(at) <= 1
                   /\ \A s \in at : s <= nslots /\ ~deleted[s]
    <3> DEFINE at == {s \in Slot : h \in heaptids[s]}
    <3>1. heap[h] = "unused" => at = {}
      BY ZenonT(30) DEF TidInv, ElementInv
    <3>2. heap[h] = "live" /\ (\A p \in Inserters : heaptid[p] # h) => at # {}
      BY InIndex, ZenonT(30) DEF TidInv, CommittedInv
    <3>3. \A s \in at : s <= nslots /\ ~deleted[s]
      BY ZenonT(30) DEF TidInv, ElementInv
    <3>4. Cardinality(at) <= 1
      <4>1. CASE at = {}
        BY <4>1, FS_EmptySet, SMTT(30), Z3T(30)
      <4>2. CASE at # {}
        <5>1. PICK s : s \in at
          BY <4>2, Zenon
        <5>2. at = {s}
          BY <5>1, Zenon DEF TidInv, ElementInv
        <5>3. Cardinality({s}) = 1
          BY FS_Singleton, Zenon
        <5> HIDE DEF at
        <5>. QED BY <5>2, <5>3, SMTT(30), Z3T(30)
      <4>. QED BY <4>1, <4>2, ZenonT(30)
    <3>. QED BY <3>1, <3>2, <3>3, <3>4, ZenonT(30)
  <2>. QED BY <2>1, Zenon DEF HeapTidsIndexed
<1>. QED BY <1>1, TidInvariance, PTL

\* A set of slots has one element at most when any two are the same, and the other way round
LEMMA AtMostOne ==
  ASSUME NEW n \in Nat, NEW T \in SUBSET (1 .. n)
  PROVE  Cardinality(T) <= 1 <=> \A s, t \in T : s = t
<1>1. IsFiniteSet(T)
  <2>1. IsFiniteSet(1 .. n)
    BY FS_Interval, SMTT(30), Z3T(30)
  <2>. QED BY <2>1, FS_Subset, Zenon
<1>2. Cardinality(T) \in Nat
  BY <1>1, FS_CardinalityType, Zenon
<1>3. ASSUME Cardinality(T) <= 1 PROVE \A s, t \in T : s = t
  <2>1. Cardinality(T) = 0 \/ Cardinality(T) = 1
    BY <1>2, <1>3, SMTT(30), Z3T(30)
  <2>2. T = {} \/ \E x : T = {x}
    BY <1>1, <2>1, FS_EmptySet, FS_Singleton, Zenon
  <2>. QED BY <2>2, Zenon
<1>4. ASSUME \A s, t \in T : s = t PROVE Cardinality(T) <= 1
  <2>1. ASSUME T # {} PROVE \E x : T = {x}
    <3>1. PICK x : x \in T
      BY <2>1, Zenon
    <3>2. T = {x}
      BY <1>4, <3>1, Zenon
    <3>. QED BY <3>2, Zenon
  <2>2. Cardinality(T) = 0 \/ Cardinality(T) = 1
    BY <2>1, FS_EmptySet, FS_Singleton, Zenon
  <2>. QED BY <2>2, SMTT(30), Z3T(30)
<1>. QED BY <1>3, <1>4, Zenon

\* Until something is deleted, inserts that run at the same time make one graph: every
\* finished element is at a level the entry point reaches, and one element at most has no
\* neighbors.  It holds for every number of backends and elements, over a built index with at
\* most one isolated element, since an insert that finds no entry point holds the update lock
\* exclusively and any other one selects at least one neighbor.
THEOREM GraphStaysOne ==
  ASSUME Cardinality({s \in 1 .. NBuilt : BuiltNeighbors[s] = {}}) <= 1
  PROVE  Spec => []OneGraph
<1>1. BuiltGraph
  <2> DEFINE B == {s \in 1 .. NBuilt : BuiltNeighbors[s] = {}}
  <2>1. B \in SUBSET (1 .. NBuilt) /\ NBuilt \in Nat /\ Cardinality(B) <= 1
    BY BoundAssumption, ZenonT(30)
  <2>2. ASSUME NEW s \in 1 .. NBuilt, NEW t \in 1 .. NBuilt, BuiltNeighbors[s] = {},
               BuiltNeighbors[t] = {}
        PROVE  s \in B /\ t \in B
    BY <2>2, ZenonT(30)
  <2> HIDE DEF B
  <2>3. \A s, t \in B : s = t
    BY <2>1, AtMostOne, ZenonT(30)
  <2>. QED BY <2>2, <2>3, Zenon DEF BuiltGraph
<1>2. Init => LockInv /\ Early /\ GraphInv
  BY <1>1, GraphStart, ZenonT(30)
<1>3. TypeOK /\ LocalInv /\ LockInv /\ Early /\ GraphInv /\ [Next]_vars =>
        LockInv' /\ Early' /\ GraphInv'
  <2>1. Cardinality({}) = 0
    BY FS_EmptySet, ZenonT(30)
  <2>. QED BY <2>1, LockStep, EarlyStep, GraphStep, GraphStutter, Zenon
<1>4. TypeOK /\ GraphInv => OneGraph
  <2> SUFFICES ASSUME TypeOK, Connected, Calm
               PROVE  /\ \A s \in 1 .. nslots :
                           (\A p \in Inserters : self[p] # s) => level[s] <= entryPoint.level
                      /\ Cardinality({s \in 1 .. nslots : neighbors[s] = {}}) <= 1
    BY Zenon DEF OneGraph, GraphInv, Calm
  <2>1. \A s \in 1 .. nslots :
          (\A p \in Inserters : self[p] # s) => level[s] <= entryPoint.level
    BY Zenon DEF Connected, Unowned
  <2> DEFINE B == {s \in 1 .. nslots : neighbors[s] = {}}
  <2>2. B \in SUBSET (1 .. nslots) /\ \A s, t \in B : s = t
    BY Zenon DEF Connected
  <2>3. nslots \in Nat
    BY BoundAssumption, SMTT(30), Z3T(30) DEF TypeOK, DiskType
  <2> HIDE DEF B
  <2>4. Cardinality(B) <= 1
    BY <2>2, <2>3, AtMostOne, Zenon
  <2>. QED BY <2>1, <2>4, ZenonT(30) DEF B
<1>. QED BY <1>2, <1>3, <1>4, TypeCorrect, PTL DEF Spec

=============================================================================
