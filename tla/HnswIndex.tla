------------------------------ MODULE HnswIndex ------------------------------
(***************************************************************************)
(* The on-disk HNSW graph of pgvector under concurrent INSERT, index scan  *)
(* (iterative ones included) and VACUUM: hnswinsert.c, hnswvacuum.c, the   *)
(* on-disk paths of hnswutils.c and the locking of hnswscan.c.             *)
(*                                                                         *)
(* One atomic step is what the code does under one buffer lock.  The two   *)
(* page-level locks HNSW_UPDATE_LOCK and HNSW_SCAN_LOCK, which the code    *)
(* holds across many buffer locks, are explicit variables.                 *)
(*                                                                         *)
(* Abstractions.                                                           *)
(*  - A slot is an element tuple together with its neighbor tuple; a page  *)
(*    holds one element, so slot numbers are block numbers and the page    *)
(*    chain is 1..nslots.                                                  *)
(*  - Distances are not represented.  Which candidates a search expands    *)
(*    and which it selects as neighbors is a nondeterministic choice.      *)
(*  - The neighbor lists of all layers of an element are one set of at     *)
(*    most M slots.                                                        *)
(*  - Values are not represented: whether a neighbor has the value being   *)
(*    inserted is a nondeterministic choice.                               *)
(***************************************************************************)
EXTENDS Integers, FiniteSets

CONSTANTS
  Inserters,        \* backends that run hnswinsert
  Scanners,         \* backends that scan the index
  Vac,              \* the backend that runs hnswbulkdelete
  MaxSlots,         \* bound on the pages of the index
  NTids,            \* bound on the heap TIDs of the table
  NBuilt,           \* elements the index was built with
  BuiltNeighbors,   \* the graph CREATE INDEX left on them
  MaxLevel,         \* highest level HnswInitElement draws
  M,                \* connections of an element
  HNSW_HEAPTIDS,    \* heap TIDs an element has room for
  MaxVersion,       \* largest tuple version (15 in the code)
  MaxVacuums        \* bound on the number of vacuums

ASSUME ProcAssumption ==
  /\ Inserters \cap Scanners = {}
  /\ Vac \notin Inserters \cup Scanners

ASSUME BoundAssumption ==
  /\ MaxSlots \in Nat /\ NTids \in Nat /\ NBuilt \in Nat
  /\ NBuilt <= MaxSlots /\ NBuilt <= NTids
  /\ BuiltNeighbors \in [1 .. NBuilt -> SUBSET (1 .. NBuilt)]
  /\ MaxLevel \in Nat /\ M \in Nat \ {0} /\ HNSW_HEAPTIDS \in Nat \ {0}
  /\ MaxVersion \in Nat \ {0} /\ MaxVacuums \in Nat

Slot     == 1 .. MaxSlots
HeapTid  == 1 .. NTids
NULL     == 0                    \* an invalid index TID
Updaters == Inserters \cup {Vac}
Procs    == Updaters \cup Scanners

VARIABLES
  \* The index relation: the page chain, element and neighbor tuples, metapage
  nslots, heaptids, deleted, version, level, neighbors, entryPoint,
  gen,              \* history: how many times a slot was marked as deleted
  heap,             \* state of the heap tuples
  seenBy,           \* scans whose snapshot may still see a deleted heap tuple
  updateLock, scanLock,              \* the page-level locks
  pc,
  visited, todo, loaded,             \* a search: v, unvisited, loaded elements
  ep, newLevel, self, sel, upd, cur, lst, victim,  \* an update of the graph
  heaptid,          \* the heap TID being inserted
  resumed,          \* whether a scan is past its first iteration
  \* HnswVacuumState
  deadTids, vdeleted, highestPoint, fallbackPoint, hp, blkno, nextblkno, ctx,
  vacuums

diskVars   == <<nslots, heaptids, deleted, version, level, neighbors, gen>>
heapVars   == <<heap, seenBy>>
lockVars   == <<updateLock, scanLock>>
searchVars == <<visited, todo, loaded>>
linkVars   == <<ep, newLevel, self, sel, upd, cur, lst, victim>>
vacVars    == <<deadTids, vdeleted, highestPoint, fallbackPoint, hp, blkno,
                nextblkno, ctx, vacuums>>
vars == <<diskVars, entryPoint, heapVars, lockVars, pc, searchVars, linkVars,
          heaptid, resumed, vacVars>>

-----------------------------------------------------------------------------
(* State predicates and helpers *)

NoPoint == [tid |-> NULL, level |-> -1]

\* An element with heap TIDs, and one that lost them all but is not yet marked
Live(s)  == heaptids[s] # {}
Empty(s) == s <= nslots /\ heaptids[s] = {} /\ ~deleted[s]

\* HnswLoadElementFromTuple: the in-memory copy of an element
Copy(s) == [tid |-> s, version |-> version[s], gen |-> gen[s], live |-> Live(s)]

Become(p, where) == pc' = [pc EXCEPT ![p] = where]

\* LockPage and UnlockPage of the lock manager, on a lock's table of holders
CanShare(lock, p) == \A q \in Procs \ {p} : lock[q] # "exclusive"
CanExclude(lock, p) == \A q \in Procs \ {p} : lock[q] = "none"
Set(lock, p, mode) == [lock EXCEPT ![p] = mode]

\* Start HnswFindElementNeighbors or GetScanItems at entry point e
BeginSearch(p, e) ==
  LET start == IF e.tid = NULL THEN {} ELSE {e.tid}
  IN  /\ visited' = [visited EXCEPT ![p] = start]
      /\ todo' = [todo EXCEPT ![p] = start]
      /\ loaded' = [loaded EXCEPT ![p] = {}]

ForgetSearch(p) == BeginSearch(p, NoPoint)

ForgetLinks(p) ==
  /\ ep' = [ep EXCEPT ![p] = NoPoint]
  /\ newLevel' = [newLevel EXCEPT ![p] = 0]
  /\ self' = [self EXCEPT ![p] = NULL]
  /\ sel' = [sel EXCEPT ![p] = {}]
  /\ upd' = [upd EXCEPT ![p] = {}]
  /\ cur' = [cur EXCEPT ![p] = NULL]
  /\ lst' = [lst EXCEPT ![p] = {}]
  /\ victim' = [victim EXCEPT ![p] = NULL]

\* HnswUpdateMetaPageInfo with HNSW_UPDATE_ENTRY_GREATER
EntryIfGreater(s, lvl) ==
  IF lvl > entryPoint.level THEN [tid |-> s, level |-> lvl] ELSE entryPoint

\* Whether the entry point read earlier makes the updater set a new one
Outranks(lvl, e) == e.tid = NULL \/ lvl > e.level

-----------------------------------------------------------------------------
(* The index was built over the first NBuilt heap tuples; an element of    *)
(* the highest level is the entry point.                                   *)

Init ==
  /\ nslots = NBuilt
  /\ heaptids = [s \in Slot |-> IF s <= NBuilt THEN {s} ELSE {}]
  /\ deleted = [s \in Slot |-> FALSE]
  /\ version = [s \in Slot |-> 1]
  /\ level \in [Slot -> 0 .. MaxLevel]
  /\ \A s \in Slot : s > NBuilt => level[s] = 0
  /\ neighbors = [s \in Slot |-> IF s <= NBuilt THEN BuiltNeighbors[s] ELSE {}]
  /\ gen = [s \in Slot |-> 0]
  /\ IF NBuilt = 0
     THEN entryPoint = NoPoint
     ELSE \E s \in 1 .. NBuilt :
            /\ \A t \in 1 .. NBuilt : level[t] <= level[s]
            /\ entryPoint = [tid |-> s, level |-> level[s]]
  /\ heap = [h \in HeapTid |-> IF h <= NBuilt THEN "live" ELSE "unused"]
  /\ seenBy = [h \in HeapTid |-> {}]
  /\ updateLock = [p \in Procs |-> "none"]
  /\ scanLock = [p \in Procs |-> "none"]
  /\ pc = [p \in Procs |-> "idle"]
  /\ visited = [p \in Procs |-> {}]
  /\ todo = [p \in Procs |-> {}]
  /\ loaded = [p \in Procs |-> {}]
  /\ ep = [p \in Updaters |-> NoPoint]
  /\ newLevel = [p \in Updaters |-> 0]
  /\ self = [p \in Updaters |-> NULL]
  /\ sel = [p \in Updaters |-> {}]
  /\ upd = [p \in Updaters |-> {}]
  /\ cur = [p \in Updaters |-> NULL]
  /\ lst = [p \in Updaters |-> {}]
  /\ victim = [p \in Updaters |-> NULL]
  /\ heaptid = [p \in Inserters |-> NULL]
  /\ resumed = [p \in Scanners |-> FALSE]
  /\ deadTids = {} /\ vdeleted = {}
  /\ highestPoint = NoPoint /\ fallbackPoint = NoPoint /\ hp = NoPoint
  /\ blkno = 1 /\ nextblkno = NULL /\ ctx = "none" /\ vacuums = 0

-----------------------------------------------------------------------------
(* HnswSearchLayer on disk, for any backend.                               *)

\* HnswLoadElementImpl: load one of the unvisited elements
LoadElement(p, s) ==
  /\ pc[p] \in {"search", "scan"}
  /\ s \in todo[p]
  /\ todo' = [todo EXCEPT ![p] = @ \ {s}]
  /\ IF deleted[s]
     THEN Become(p, "error") /\ UNCHANGED loaded   \* cannot load deleted element
     ELSE /\ loaded' = [loaded EXCEPT ![p] = @ \cup {Copy(s)}]
          /\ UNCHANGED pc
  /\ UNCHANGED <<diskVars, entryPoint, heapVars, lockVars, visited, linkVars,
                 heaptid, resumed, vacVars>>

\* HnswLoadNeighborTids: a tuple deleted or replaced meanwhile is not read
NeighborTids(c) == IF version[c.tid] = c.version THEN neighbors[c.tid] ELSE {}

\* HnswLoadUnvisitedFromDisk: read the unvisited neighbors of a candidate
LoadUnvisited(p, c) ==
  /\ pc[p] \in {"search", "scan"}
  /\ todo[p] = {}
  /\ c \in loaded[p]
  /\ LET unvisited == NeighborTids(c) \ visited[p]
     IN  /\ unvisited # {}
         /\ todo' = [todo EXCEPT ![p] = unvisited]
         /\ visited' = [visited EXCEPT ![p] = @ \cup unvisited]
  /\ UNCHANGED <<diskVars, entryPoint, heapVars, lockVars, pc, loaded, linkVars,
                 heaptid, resumed, vacVars>>

\* RemoveElements and SelectNeighbors: what may be selected among the loaded
\* elements.  Elements being deleted can crowd live ones out of the ef nearest.
Selections(L, me) ==
  LET C == {c.tid : c \in {d \in L : d.live}} \ {me}
  IN  {S \in SUBSET C :
         /\ Cardinality(S) <= M
         /\ (\A c \in L : c.live) => (S = C \/ Cardinality(S) = M)}

-----------------------------------------------------------------------------
(* hnswinsert                                                              *)

\* Bound: a backend starts an insert only if a slot is left for its element
Room ==
  LET pending == {p \in Inserters : pc[p] \notin {"idle", "links", "load", "link"}}
      free    == {s \in Slot : s > nslots \/ deleted[s]}
  IN  Cardinality(pending) < Cardinality(free)

\* The executor has added the heap tuple and calls hnswinsert
InsertStart(p) ==
  /\ pc[p] = "idle" /\ Room
  /\ \E h \in HeapTid :
       /\ heap[h] = "unused"
       /\ heap' = [heap EXCEPT ![h] = "live"]
       /\ heaptid' = [heaptid EXCEPT ![p] = h]
  /\ Become(p, "lock")
  /\ UNCHANGED <<diskVars, entryPoint, seenBy, lockVars, searchVars, linkVars, resumed,
                 vacVars>>

\* HnswInsertTupleOnDisk: shared lock, entry point, random level; release the
\* lock when an exclusive one is needed
InsertLockShare(p) ==
  /\ pc[p] = "lock"
  /\ CanShare(updateLock, p)
  /\ \E lvl \in 0 .. MaxLevel :
       /\ newLevel' = [newLevel EXCEPT ![p] = lvl]
       /\ IF Outranks(lvl, entryPoint)
          THEN /\ Become(p, "lockx")
               /\ UNCHANGED <<updateLock, ep, searchVars>>
          ELSE /\ Become(p, "search")
               /\ updateLock' = Set(updateLock, p, "share")
               /\ ep' = [ep EXCEPT ![p] = entryPoint]
               /\ BeginSearch(p, entryPoint)
  /\ UNCHANGED <<diskVars, entryPoint, heapVars, scanLock, self, sel, upd, cur, lst, victim,
                 heaptid, resumed, vacVars>>

\* Mutant: only a shared lock
InsertLockExclusive_Shared(p) ==
  /\ pc[p] = "lockx"
  /\ CanShare(updateLock, p)
  /\ updateLock' = Set(updateLock, p, "share")
  /\ ep' = [ep EXCEPT ![p] = entryPoint]
  /\ BeginSearch(p, entryPoint)
  /\ Become(p, "search")
  /\ UNCHANGED <<diskVars, entryPoint, heapVars, scanLock, newLevel, self, sel,
                 upd, cur, lst, victim, heaptid, resumed, vacVars>>

\* Exclusive lock and latest entry point
InsertLockExclusive(p) ==
  /\ pc[p] = "lockx"
  /\ CanExclude(updateLock, p)
  /\ updateLock' = Set(updateLock, p, "exclusive")
  /\ ep' = [ep EXCEPT ![p] = entryPoint]
  /\ BeginSearch(p, entryPoint)
  /\ Become(p, "search")
  /\ UNCHANGED <<diskVars, entryPoint, heapVars, scanLock, newLevel, self, sel, upd,
                 cur, lst, victim, heaptid, resumed, vacVars>>

\* End of HnswFindElementNeighbors
InsertSelect(p) ==
  /\ pc[p] = "search" /\ todo[p] = {}
  /\ \E S \in Selections(loaded[p], NULL) : sel' = [sel EXCEPT ![p] = S]
  /\ Become(p, "update")
  /\ UNCHANGED <<diskVars, entryPoint, heapVars, lockVars, searchVars, ep, newLevel,
                 self, upd, cur, lst, victim, heaptid, resumed, vacVars>>

\* Mutant: no check that the element is being deleted (i == 0)
AddDuplicateOnDisk_Unchecked(p, s) ==
  /\ pc[p] = "update"
  /\ s \in sel[p]
  /\ Cardinality(heaptids[s]) < HNSW_HEAPTIDS
  /\ heaptids' = [heaptids EXCEPT ![s] = @ \cup {heaptid[p]}]
  /\ updateLock' = Set(updateLock, p, "none")
  /\ ForgetSearch(p) /\ ForgetLinks(p)
  /\ heaptid' = [heaptid EXCEPT ![p] = NULL]
  /\ Become(p, "idle")
  /\ UNCHANGED <<nslots, deleted, version, level, neighbors, gen, entryPoint,
                 heapVars, scanLock, resumed, vacVars>>

\* FindDuplicateOnDisk, AddDuplicateOnDisk: a selected neighbor has the same
\* value, is not being deleted and has room for one more heap TID
AddDuplicateOnDisk(p, s) ==
  /\ pc[p] = "update"
  /\ s \in sel[p]
  /\ heaptids[s] # {} /\ Cardinality(heaptids[s]) < HNSW_HEAPTIDS
  /\ heaptids' = [heaptids EXCEPT ![s] = @ \cup {heaptid[p]}]
  /\ updateLock' = Set(updateLock, p, "none")
  /\ ForgetSearch(p) /\ ForgetLinks(p)
  /\ heaptid' = [heaptid EXCEPT ![p] = NULL]
  /\ Become(p, "idle")
  /\ UNCHANGED <<nslots, deleted, version, level, neighbors, gen, entryPoint,
                 heapVars, scanLock, resumed, vacVars>>

\* AddElementOnDisk: reuse the slot of a deleted element (HnswFreeOffset), whose
\* version it keeps, or append a page
AddElementOnDisk(p, s) ==
  /\ pc[p] = "update"
  /\ s = nslots + 1 \/ deleted[s]
  /\ nslots' = IF s > nslots THEN s ELSE nslots
  /\ heaptids' = [heaptids EXCEPT ![s] = {heaptid[p]}]
  /\ deleted' = [deleted EXCEPT ![s] = FALSE]
  /\ level' = [level EXCEPT ![s] = newLevel[p]]
  /\ neighbors' = [neighbors EXCEPT ![s] = sel[p]]
  /\ self' = [self EXCEPT ![p] = s]
  /\ upd' = [upd EXCEPT ![p] = sel[p]]
  /\ Become(p, "links")
  /\ UNCHANGED <<version, gen, entryPoint, heapVars, lockVars, searchVars, ep,
                 newLevel, sel, cur, lst, victim, heaptid, resumed, vacVars>>

\* Mutant: the lock is not released
InsertFinish_Locked(p) ==
  /\ pc[p] = "links" /\ upd[p] = {}
  /\ entryPoint' = IF Outranks(newLevel[p], ep[p])
                   THEN EntryIfGreater(self[p], newLevel[p])
                   ELSE entryPoint
  /\ ForgetSearch(p) /\ ForgetLinks(p)
  /\ heaptid' = [heaptid EXCEPT ![p] = NULL]
  /\ Become(p, "idle")
  /\ UNCHANGED <<diskVars, heapVars, lockVars, resumed, vacVars>>

\* UpdateGraphOnDisk: entry point if needed, and release of the lock
InsertFinish(p) ==
  /\ pc[p] = "links" /\ upd[p] = {}
  /\ entryPoint' = IF Outranks(newLevel[p], ep[p])
                   THEN EntryIfGreater(self[p], newLevel[p])
                   ELSE entryPoint
  /\ updateLock' = Set(updateLock, p, "none")
  /\ ForgetSearch(p) /\ ForgetLinks(p)
  /\ heaptid' = [heaptid EXCEPT ![p] = NULL]
  /\ Become(p, "idle")
  /\ UNCHANGED <<diskVars, heapVars, scanLock, resumed, vacVars>>

\* An error, a cancel or a crash aborts the transaction at any point: the heap
\* tuple is dead, what was written to the index stays
InsertAbort(p) ==
  /\ pc[p] # "idle"
  /\ heap' = [heap EXCEPT ![heaptid[p]] = "dead"]
  /\ updateLock' = Set(updateLock, p, "none")
  /\ ForgetSearch(p) /\ ForgetLinks(p)
  /\ heaptid' = [heaptid EXCEPT ![p] = NULL]
  /\ Become(p, "idle")
  /\ UNCHANGED <<diskVars, entryPoint, seenBy, scanLock, resumed, vacVars>>

-----------------------------------------------------------------------------
(* HnswUpdateNeighborsOnDisk, for inserts and for the repairs of a vacuum  *)

\* GetUpdateIndex: the latest neighbors of one of the selected neighbors
GetUpdateIndex(p, x) ==
  /\ pc[p] = "links"
  /\ x \in upd[p]
  /\ cur' = [cur EXCEPT ![p] = x]
  /\ \E c \in loaded[p] :
       /\ c.tid = x
       /\ lst' = [lst EXCEPT ![p] = NeighborTids(c)]
  /\ Become(p, "load")
  /\ UNCHANGED <<diskVars, entryPoint, heapVars, lockVars, searchVars, ep, newLevel,
                 self, sel, upd, victim, heaptid, resumed, vacVars>>

\* GetUpdateIndex: if the list is full, LoadElementsForInsert and
\* HnswUpdateConnection choose the neighbor to replace, the first one that is
\* being deleted if there is one, or decide to leave the list alone
LoadElementsForInsert(p) ==
  LET dying == {t \in lst[p] : ~Live(t)}
      stop(where) == /\ Become(p, where)
                     /\ upd' = [upd EXCEPT ![p] = @ \ {cur[p]}]
                     /\ cur' = [cur EXCEPT ![p] = NULL]
                     /\ lst' = [lst EXCEPT ![p] = {}]
                     /\ UNCHANGED victim
      replace(t)  == /\ Become(p, "link")
                     /\ victim' = [victim EXCEPT ![p] = t]
                     /\ UNCHANGED <<upd, cur, lst>>
  IN  /\ pc[p] = "load"
      /\ \/ Cardinality(lst[p]) < M /\ replace(NULL)
         \/ /\ Cardinality(lst[p]) >= M
            /\ \E t \in lst[p] : deleted[t]
            /\ stop("error")                        \* cannot load deleted element
         \/ /\ Cardinality(lst[p]) >= M
            /\ \A t \in lst[p] : ~deleted[t]
            /\ \/ \E t \in (IF dying # {} THEN dying ELSE lst[p]) : replace(t)
               \/ dying = {} /\ stop("links")
      /\ UNCHANGED <<diskVars, entryPoint, heapVars, lockVars, searchVars, ep,
                     newLevel, self, sel, heaptid, resumed, vacVars>>

\* The neighbor lists x may have after UpdateNeighborOnDisk linked e from it,
\* when list L was read before and w is to be replaced in it (NULL: the new
\* one goes to a free place).  If the list has changed since, any neighbor may
\* be at the place of w, or the place may be free.
Linked(x, e, L, w, checkExisting) ==
  LET N    == neighbors[x]
      free == IF Cardinality(N) < M THEN {N \cup {e}} ELSE {}
  IN  IF checkExisting /\ e \in N THEN {N}
      ELSE IF w = NULL THEN (IF free = {} THEN {N} ELSE free)
      ELSE IF N = L THEN {(N \ {w}) \cup {e}}
      ELSE {(N \ {t}) \cup {e} : t \in N} \cup free

UpdateNeighborOnDisk(p) ==
  /\ pc[p] = "link"
  /\ \E N \in Linked(cur[p], self[p], lst[p], victim[p], p = Vac) :
       neighbors' = [neighbors EXCEPT ![cur[p]] = N]
  /\ upd' = [upd EXCEPT ![p] = @ \ {cur[p]}]
  /\ cur' = [cur EXCEPT ![p] = NULL]
  /\ lst' = [lst EXCEPT ![p] = {}]
  /\ victim' = [victim EXCEPT ![p] = NULL]
  /\ Become(p, "links")
  /\ UNCHANGED <<nslots, heaptids, deleted, version, level, gen, entryPoint,
                 heapVars, lockVars, searchVars, ep, newLevel, self, sel, heaptid,
                 resumed, vacVars>>

-----------------------------------------------------------------------------
(* hnswgettuple                                                            *)

\* First call of a scan: shared lock, entry point
ScanStart(q) ==
  /\ pc[q] = "idle"
  /\ CanShare(scanLock, q)
  /\ entryPoint.tid # NULL
  /\ scanLock' = Set(scanLock, q, "share")
  /\ BeginSearch(q, entryPoint)
  /\ resumed' = [resumed EXCEPT ![q] = FALSE]
  /\ Become(q, "scan")
  /\ UNCHANGED <<diskVars, entryPoint, heapVars, updateLock, linkVars, heaptid,
                 vacVars>>

\* End of an iteration: release the lock; the elements of W are returned to the
\* executor and freed, the discarded ones are kept
ScanPause(q) ==
  /\ pc[q] = "scan" /\ todo[q] = {}
  /\ \E W \in SUBSET loaded[q] :
       /\ W # {}
       /\ loaded' = [loaded EXCEPT ![q] = @ \ W]
  /\ scanLock' = Set(scanLock, q, "none")
  /\ Become(q, "paused")
  /\ UNCHANGED <<diskVars, entryPoint, heapVars, updateLock, visited, todo, linkVars,
                 heaptid, resumed, vacVars>>

\* ResumeScanItems: the next iteration starts from discarded elements
ScanResume(q) ==
  /\ pc[q] = "paused" /\ loaded[q] # {}
  /\ CanShare(scanLock, q)
  /\ scanLock' = Set(scanLock, q, "share")
  /\ resumed' = [resumed EXCEPT ![q] = TRUE]
  /\ Become(q, "scan")
  /\ UNCHANGED <<diskVars, entryPoint, heapVars, updateLock, searchVars, linkVars,
                 heaptid, vacVars>>

\* hnswendscan, or an error, a cancel or a crash during an iteration
ScanEnd(q) ==
  /\ pc[q] # "idle"
  /\ scanLock' = Set(scanLock, q, "none")
  /\ seenBy' = [h \in HeapTid |-> seenBy[h] \ {q}]
  /\ ForgetSearch(q)
  /\ resumed' = [resumed EXCEPT ![q] = FALSE]
  /\ Become(q, "idle")
  /\ UNCHANGED <<diskVars, entryPoint, heap, updateLock, linkVars, heaptid,
                 vacVars>>

-----------------------------------------------------------------------------
(* hnswbulkdelete                                                          *)

\* The heap: a committed tuple is deleted; the snapshots of the scans that run
\* may still see it
HeapDelete(h) ==
  /\ heap[h] = "live"
  /\ \A p \in Inserters : heaptid[p] # h
  /\ heap' = [heap EXCEPT ![h] = "dead"]
  /\ seenBy' = [seenBy EXCEPT ![h] = {q \in Scanners : pc[q] # "idle"}]
  /\ UNCHANGED <<diskVars, entryPoint, lockVars, pc, searchVars, linkVars,
                 heaptid, resumed, vacVars>>

\* InitVacuumState; the callback tells the heap TIDs that are dead to everybody
\* at the start
VacuumStart ==
  /\ pc[Vac] = "idle" /\ vacuums < MaxVacuums
  /\ vacuums' = vacuums + 1
  /\ deadTids' = {h \in HeapTid : heap[h] = "dead" /\ seenBy[h] = {}}
  /\ deadTids' # {}
  /\ vdeleted' = {}
  /\ highestPoint' = NoPoint /\ fallbackPoint' = NoPoint /\ hp' = NoPoint
  /\ blkno' = 1 /\ nextblkno' = NULL /\ ctx' = "none"
  /\ Become(Vac, "remove")
  /\ UNCHANGED <<diskVars, entryPoint, heapVars, lockVars, searchVars, linkVars,
                 heaptid, resumed>>

NextPage(b) == IF b < nslots THEN b + 1 ELSE NULL

\* Move to the page after b, or to the next pass after the last page
Advance(next, pass, after) ==
  /\ blkno' = IF next = NULL THEN 1 ELSE next
  /\ Become(Vac, IF next = NULL THEN after ELSE pass)

\* Mutant: the TIDs of an element are removed only if all are dead
Remaining_AllOrNone(T) == IF T \subseteq deadTids THEN {} ELSE T

\* The heap TIDs for which the callback returns false
Remaining(T) == T \ deadTids

\* RemoveHeapTids, one page
RemoveHeapTids ==
  LET s    == blkno
      left == Remaining(heaptids[s])
      pt   == [tid |-> s, level |-> level[s]]
  IN  /\ pc[Vac] = "remove"
      /\ IF s > nslots
         THEN UNCHANGED <<heaptids, vdeleted, highestPoint, fallbackPoint>>
         ELSE /\ heaptids' = [heaptids EXCEPT ![s] = left]
              /\ vdeleted' = IF left = {} THEN vdeleted \cup {s} ELSE vdeleted
              /\ highestPoint' = IF left # {} /\ pt.level > highestPoint.level
                                 THEN pt ELSE highestPoint
              /\ fallbackPoint' =
                   IF left = {} THEN fallbackPoint
                   ELSE IF pt.level > highestPoint.level
                        THEN (IF highestPoint.tid # NULL THEN highestPoint
                              ELSE fallbackPoint)
                   ELSE IF pt.level > fallbackPoint.level THEN pt
                   ELSE fallbackPoint
      /\ Advance(NextPage(s), "remove", "wait1")
      /\ UNCHANGED <<nslots, deleted, version, level, neighbors, gen, entryPoint,
                     heapVars, lockVars, searchVars, linkVars, heaptid, resumed,
                     deadTids, hp, nextblkno, ctx, vacuums>>

\* RepairGraph: wait for the inserts in flight (lock and unlock)
WaitForInserts ==
  /\ pc[Vac] = "wait1"
  /\ CanExclude(updateLock, Vac)
  /\ Become(Vac, "ep1")
  /\ UNCHANGED <<diskVars, entryPoint, heapVars, lockVars, searchVars, linkVars,
                 heaptid, resumed, vacVars>>

\* Mutant: only elements with a free place are repaired
NeedsUpdated_NotFull(s) == Cardinality(neighbors[s]) < M

NeedsUpdated(s) == neighbors[s] \cap vdeleted # {} \/ Cardinality(neighbors[s]) < M

\* RepairGraphElement up to the search; a no-op when s is the entry point given
BeginRepair(s, e, where) ==
  /\ self' = [self EXCEPT ![Vac] = s]
  /\ newLevel' = [newLevel EXCEPT ![Vac] = level[s]]
  /\ ep' = [ep EXCEPT ![Vac] = e]
  /\ ctx' = where
  /\ IF e.tid = s
     THEN Become(Vac, "links") /\ UNCHANGED searchVars
     ELSE Become(Vac, "search") /\ BeginSearch(Vac, e)
  /\ UNCHANGED <<sel, upd, cur, lst, victim>>

\* First half of RepairGraphEntryPoint: repair the highest non-entry point
RepairHighestPoint ==
  LET h == IF highestPoint.tid # NULL /\ highestPoint.tid = entryPoint.tid
           THEN fallbackPoint ELSE highestPoint
  IN  /\ pc[Vac] = "ep1"
      /\ highestPoint.tid # NULL => CanShare(updateLock, Vac)
      /\ hp' = h
      /\ IF h.tid = NULL \/ (~deleted[h.tid] /\ ~NeedsUpdated(h.tid))
         THEN /\ Become(Vac, "ep2")
              /\ UNCHANGED <<updateLock, searchVars, linkVars, ctx>>
         ELSE /\ updateLock' = Set(updateLock, Vac, "share")
              /\ IF deleted[h.tid]
                 THEN Become(Vac, "error") /\ UNCHANGED <<searchVars, linkVars, ctx>>
                 ELSE BeginRepair(h.tid, entryPoint, "ep1")
      /\ UNCHANGED <<diskVars, entryPoint, heapVars, scanLock, heaptid, resumed,
                     deadTids, vdeleted, highestPoint, fallbackPoint, blkno,
                     nextblkno, vacuums>>

\* Mutant: the entry point is kept if there is no highest point
NewEntryPoint_Kept(e) == IF e.tid \in vdeleted /\ hp.tid # NULL THEN hp ELSE e

\* HNSW_UPDATE_ENTRY_ALWAYS if the entry point is being deleted
NewEntryPoint(e) == IF e.tid \in vdeleted THEN hp ELSE e

\* Second half: replace the entry point if it is being deleted, else repair it
RepairEntryPoint ==
  LET e == entryPoint
  IN  /\ pc[Vac] = "ep2"
      /\ CanExclude(updateLock, Vac)
      /\ entryPoint' = NewEntryPoint(e)
      /\ IF e.tid = NULL \/ e.tid \in vdeleted
            \/ (~deleted[e.tid] /\ ~NeedsUpdated(e.tid))
         THEN /\ Become(Vac, "loop")
              /\ UNCHANGED <<updateLock, searchVars, linkVars, ctx>>
         ELSE /\ updateLock' = Set(updateLock, Vac, "exclusive")
              /\ IF deleted[e.tid]
                 THEN Become(Vac, "error") /\ UNCHANGED <<searchVars, linkVars, ctx>>
                 ELSE BeginRepair(e.tid, hp, "ep2")
      /\ UNCHANGED <<diskVars, heapVars, scanLock, heaptid, resumed, deadTids,
                     vdeleted, highestPoint, fallbackPoint, hp, blkno,
                     nextblkno, vacuums>>

\* RepairGraph: load a page, keep its element unless it is being deleted
LoadPage ==
  LET next == NextPage(blkno)
  IN  /\ pc[Vac] = "loop"
      /\ nextblkno' = next
      /\ IF blkno <= nslots /\ Live(blkno)
         THEN Become(Vac, "check") /\ UNCHANGED blkno
         ELSE Advance(next, "loop", "wait2")
      /\ UNCHANGED <<diskVars, entryPoint, heapVars, lockVars, searchVars, linkVars,
                     heaptid, resumed, deadTids, vdeleted, highestPoint,
                     fallbackPoint, hp, ctx, vacuums>>

\* RepairGraph: skip the element if no neighbor is being deleted
CheckElement ==
  /\ pc[Vac] = "check"
  /\ IF NeedsUpdated(blkno)
     THEN Become(Vac, "lock") /\ UNCHANGED blkno
     ELSE Advance(nextblkno, "loop", "wait2")
  /\ UNCHANGED <<diskVars, entryPoint, heapVars, lockVars, searchVars, linkVars,
                 heaptid, resumed, deadTids, vdeleted, highestPoint,
                 fallbackPoint, hp, nextblkno, ctx, vacuums>>

\* RepairGraph: shared lock, entry point; release it if an exclusive one is needed
RepairLockShare ==
  /\ pc[Vac] = "lock"
  /\ CanShare(updateLock, Vac)
  /\ IF Outranks(level[blkno], entryPoint)
     THEN /\ Become(Vac, "lockx")
          /\ UNCHANGED <<updateLock, searchVars, linkVars, ctx>>
     ELSE /\ updateLock' = Set(updateLock, Vac, "share")
          /\ BeginRepair(blkno, entryPoint, "loop")
  /\ UNCHANGED <<diskVars, entryPoint, heapVars, scanLock, heaptid, resumed, deadTids,
                 vdeleted, highestPoint, fallbackPoint, hp, blkno, nextblkno,
                 vacuums>>

\* RepairGraph: exclusive lock, latest entry point
RepairLockExclusive ==
  /\ pc[Vac] = "lockx"
  /\ CanExclude(updateLock, Vac)
  /\ updateLock' = Set(updateLock, Vac, "exclusive")
  /\ BeginRepair(blkno, entryPoint, "loop")
  /\ UNCHANGED <<diskVars, entryPoint, heapVars, scanLock, heaptid, resumed, deadTids,
                 vdeleted, highestPoint, fallbackPoint, hp, blkno, nextblkno,
                 vacuums>>

\* RepairGraphElement: overwrite the neighbor tuple with the neighbors found
OverwriteNeighbors ==
  /\ pc[Vac] = "search" /\ todo[Vac] = {}
  /\ \E S \in Selections(loaded[Vac], self[Vac]) :
       /\ neighbors' = [neighbors EXCEPT ![self[Vac]] = S]
       /\ sel' = [sel EXCEPT ![Vac] = S]
       /\ upd' = [upd EXCEPT ![Vac] = S]
  /\ Become(Vac, "links")
  /\ UNCHANGED <<nslots, heaptids, deleted, version, level, gen, entryPoint, heapVars,
                 lockVars, searchVars, ep, newLevel, self, cur, lst, victim, heaptid,
                 resumed, vacVars>>

\* Mutant: the lock is not released
RepairFinish_Locked ==
  /\ pc[Vac] = "links" /\ upd[Vac] = {}
  /\ entryPoint' = IF ctx = "loop" /\ Outranks(newLevel[Vac], ep[Vac])
                   THEN EntryIfGreater(self[Vac], newLevel[Vac])
                   ELSE entryPoint
  /\ ForgetSearch(Vac) /\ ForgetLinks(Vac)
  /\ IF ctx = "loop"
     THEN Advance(nextblkno, "loop", "wait2")
     ELSE Become(Vac, IF ctx = "ep1" THEN "ep2" ELSE "loop") /\ UNCHANGED blkno
  /\ ctx' = "none"
  /\ UNCHANGED <<diskVars, heapVars, lockVars, heaptid, resumed, deadTids,
                 vdeleted, highestPoint, fallbackPoint, hp, nextblkno, vacuums>>

\* End of a repair: entry point if needed (RepairGraph only), release the lock
RepairFinish ==
  /\ pc[Vac] = "links" /\ upd[Vac] = {}
  /\ entryPoint' = IF ctx = "loop" /\ Outranks(newLevel[Vac], ep[Vac])
                   THEN EntryIfGreater(self[Vac], newLevel[Vac])
                   ELSE entryPoint
  /\ updateLock' = Set(updateLock, Vac, "none")
  /\ ForgetSearch(Vac) /\ ForgetLinks(Vac)
  /\ IF ctx = "loop"
     THEN Advance(nextblkno, "loop", "wait2")
     ELSE Become(Vac, IF ctx = "ep1" THEN "ep2" ELSE "loop") /\ UNCHANGED blkno
  /\ ctx' = "none"
  /\ UNCHANGED <<diskVars, heapVars, scanLock, heaptid, resumed, deadTids, vdeleted,
                 highestPoint, fallbackPoint, hp, nextblkno, vacuums>>

\* Mutant: no wait
WaitForInsertsAgain_None ==
  /\ pc[Vac] = "wait2"
  /\ Become(Vac, "confirm")
  /\ UNCHANGED <<diskVars, entryPoint, heapVars, lockVars, searchVars, linkVars,
                 heaptid, resumed, vacVars>>

\* MarkDeleted: wait for the inserts in flight
WaitForInsertsAgain ==
  /\ pc[Vac] = "wait2"
  /\ CanExclude(updateLock, Vac)
  /\ Become(Vac, "confirm")
  /\ UNCHANGED <<diskVars, entryPoint, heapVars, lockVars, searchVars, linkVars,
                 heaptid, resumed, vacVars>>

\* ConfirmRepaired, one page; an error when a neighbor is in the deleted list
ConfirmRepaired ==
  LET s == blkno
  IN  /\ pc[Vac] = "confirm"
      /\ IF s <= nslots /\ Live(s) /\ neighbors[s] \cap vdeleted # {}
         THEN Become(Vac, "notrepaired") /\ UNCHANGED blkno
         ELSE Advance(NextPage(s), "confirm", "wait3")
      /\ UNCHANGED <<diskVars, entryPoint, heapVars, lockVars, searchVars, linkVars,
                     heaptid, resumed, deadTids, vdeleted, highestPoint,
                     fallbackPoint, hp, nextblkno, ctx, vacuums>>

\* Mutant: no wait
WaitForScans_None ==
  /\ pc[Vac] = "wait3"
  /\ Become(Vac, "mark")
  /\ UNCHANGED <<diskVars, entryPoint, heapVars, lockVars, searchVars, linkVars,
                 heaptid, resumed, vacVars>>

\* MarkDeleted: wait for the scan iterations in flight
WaitForScans ==
  /\ pc[Vac] = "wait3"
  /\ CanExclude(scanLock, Vac)
  /\ Become(Vac, "mark")
  /\ UNCHANGED <<diskVars, entryPoint, heapVars, lockVars, searchVars, linkVars,
                 heaptid, resumed, vacVars>>

\* Mutants: no wrap at the reserved bits, no increment
NextVersion_NoWrap(v) == v + 1
NextVersion_Same(v) == v


NextVersion(v) == IF v + 1 > MaxVersion THEN 1 ELSE v + 1

\* MarkDeleted, one page
MarkDeleted ==
  LET s == blkno
  IN  /\ pc[Vac] = "mark"
      /\ IF s <= nslots /\ ~deleted[s] /\ ~Live(s)
         THEN /\ deleted' = [deleted EXCEPT ![s] = TRUE]
              /\ neighbors' = [neighbors EXCEPT ![s] = {}]
              /\ version' = [version EXCEPT ![s] = NextVersion(@)]
              /\ gen' = [gen EXCEPT ![s] = @ + 1]
         ELSE UNCHANGED <<deleted, neighbors, version, gen>>
      /\ Advance(NextPage(s), "mark", "end")
      /\ UNCHANGED <<nslots, heaptids, level, entryPoint, heapVars, lockVars,
                     searchVars, linkVars, heaptid, resumed, deadTids, vdeleted,
                     highestPoint, fallbackPoint, hp, nextblkno, ctx, vacuums>>

ForgetVacuum ==
  /\ deadTids' = {} /\ vdeleted' = {}
  /\ highestPoint' = NoPoint /\ fallbackPoint' = NoPoint /\ hp' = NoPoint
  /\ blkno' = 1 /\ nextblkno' = NULL /\ ctx' = "none"

\* hnswbulkdelete returns and the heap makes the dead TIDs available again
VacuumEnd ==
  /\ pc[Vac] = "end"
  /\ heap' = [h \in HeapTid |-> IF h \in deadTids THEN "unused" ELSE heap[h]]
  /\ ForgetVacuum
  /\ Become(Vac, "idle")
  /\ UNCHANGED <<diskVars, entryPoint, seenBy, lockVars, searchVars, linkVars, heaptid,
                 resumed, vacuums>>

\* An error, a cancel or a crash ends the vacuum at any point
VacuumAbort ==
  /\ pc[Vac] # "idle"
  /\ updateLock' = Set(updateLock, Vac, "none")
  /\ ForgetSearch(Vac) /\ ForgetLinks(Vac) /\ ForgetVacuum
  /\ Become(Vac, "idle")
  /\ UNCHANGED <<diskVars, entryPoint, heapVars, scanLock, heaptid, resumed, vacuums>>

-----------------------------------------------------------------------------
Search(p) ==
  \/ \E s \in todo[p] : LoadElement(p, s)
  \/ \E c \in loaded[p] : LoadUnvisited(p, c)

UpdateNeighbors(p) ==
  \/ \E x \in upd[p] : GetUpdateIndex(p, x)
  \/ LoadElementsForInsert(p)
  \/ UpdateNeighborOnDisk(p)

InsertStep(p) ==
  \/ Search(p)
  \/ InsertSelect(p)
  \/ \E s \in sel[p] : AddDuplicateOnDisk(p, s)
  \/ \E s \in Slot : AddElementOnDisk(p, s)
  \/ UpdateNeighbors(p)
  \/ InsertFinish(p)

Insert(p) ==
  \/ InsertStart(p)
  \/ InsertLockShare(p)
  \/ InsertLockExclusive(p)
  \/ InsertStep(p)
  \/ InsertAbort(p)

Scan(q) ==
  \/ ScanStart(q)
  \/ Search(q)
  \/ ScanPause(q)
  \/ ScanResume(q)
  \/ ScanEnd(q)

VacuumStep ==
  \/ RemoveHeapTids
  \/ LoadPage
  \/ CheckElement
  \/ Search(Vac)
  \/ OverwriteNeighbors
  \/ UpdateNeighbors(Vac)
  \/ RepairFinish
  \/ ConfirmRepaired
  \/ MarkDeleted
  \/ VacuumEnd

VacuumLock ==
  \/ WaitForInserts
  \/ RepairHighestPoint
  \/ RepairEntryPoint
  \/ RepairLockShare
  \/ RepairLockExclusive
  \/ WaitForInsertsAgain
  \/ WaitForScans

Vacuum == VacuumStart \/ VacuumLock \/ VacuumStep \/ VacuumAbort

Next ==
  \/ \E p \in Inserters : Insert(p)
  \/ \E q \in Scanners : Scan(q)
  \/ \E h \in HeapTid : HeapDelete(h)
  \/ Vacuum

Spec == Init /\ [][Next]_vars

\* Backends keep running, and the lock manager's queues grant every lock that is
\* released again and again.  Nobody has to start anything, or to fetch the next
\* rows of a scan.
Fairness ==
  /\ \A p \in Inserters :
       /\ WF_vars(InsertStep(p) \/ (pc[p] = "error" /\ InsertAbort(p)))
       /\ SF_vars(InsertLockShare(p))
       /\ SF_vars(InsertLockExclusive(p))
  /\ \A q \in Scanners : WF_vars(Search(q) \/ ScanPause(q))
  /\ WF_vars(VacuumStep \/ (pc[Vac] \in {"error", "notrepaired"} /\ VacuumAbort))
  /\ SF_vars(VacuumLock)

FairSpec == Spec /\ Fairness

-----------------------------------------------------------------------------
(* Properties *)

Point == [tid : 0 .. MaxSlots, level : -1 .. MaxLevel]
Copies == [tid : Slot, version : 1 .. MaxVersion, gen : Nat, live : BOOLEAN]
InserterPc == {"idle", "lock", "lockx", "search", "update", "links", "load", "link",
               "error"}
ScannerPc == {"idle", "scan", "paused", "error"}
VacuumPc == {"idle", "remove", "wait1", "ep1", "ep2", "loop", "check", "lock", "lockx",
             "search", "links", "load", "link", "wait2", "confirm", "wait3", "mark",
             "end", "error", "notrepaired"}

DiskType ==
  /\ nslots \in 0 .. MaxSlots
  /\ heaptids \in [Slot -> SUBSET HeapTid]
  /\ deleted \in [Slot -> BOOLEAN]
  /\ version \in [Slot -> 1 .. MaxVersion]
  /\ level \in [Slot -> 0 .. MaxLevel]
  /\ neighbors \in [Slot -> SUBSET Slot]
  /\ gen \in [Slot -> Nat]

HeapType ==
  /\ heap \in [HeapTid -> {"unused", "live", "dead"}]
  /\ seenBy \in [HeapTid -> SUBSET Scanners]
  /\ heaptid \in [Inserters -> 0 .. NTids]

LockType ==
  /\ updateLock \in [Procs -> {"none", "share", "exclusive"}]
  /\ scanLock \in [Procs -> {"none", "share", "exclusive"}]

ControlType ==
  /\ pc \in [Procs -> InserterPc \cup ScannerPc \cup VacuumPc]
  /\ \A p \in Inserters : pc[p] \in InserterPc
  /\ \A q \in Scanners : pc[q] \in ScannerPc
  /\ pc[Vac] \in VacuumPc
  /\ resumed \in [Scanners -> BOOLEAN]

SearchType ==
  /\ visited \in [Procs -> SUBSET Slot]
  /\ todo \in [Procs -> SUBSET Slot]
  /\ loaded \in [Procs -> SUBSET Copies]

LinkType ==
  /\ ep \in [Updaters -> Point]
  /\ newLevel \in [Updaters -> 0 .. MaxLevel]
  /\ self \in [Updaters -> 0 .. MaxSlots]
  /\ sel \in [Updaters -> SUBSET Slot]
  /\ upd \in [Updaters -> SUBSET Slot]
  /\ cur \in [Updaters -> 0 .. MaxSlots]
  /\ lst \in [Updaters -> SUBSET Slot]
  /\ victim \in [Updaters -> 0 .. MaxSlots]

VacuumType ==
  /\ deadTids \in SUBSET HeapTid
  /\ vdeleted \in SUBSET Slot
  /\ highestPoint \in Point /\ fallbackPoint \in Point /\ hp \in Point
  /\ blkno \in 1 .. (MaxSlots + 1)
  /\ nextblkno \in 0 .. MaxSlots
  /\ ctx \in {"none", "ep1", "ep2", "loop"}
  /\ vacuums \in 0 .. MaxVacuums

\* Every variable has its type: the tuples and the metapage, the heap, the locks,
\* and the local state of inserts, scans and the vacuum
TypeOK ==
  /\ DiskType /\ entryPoint \in Point /\ HeapType /\ LockType
  /\ ControlType /\ SearchType /\ LinkType /\ VacuumType

\* No insert, no vacuum and no first iteration of an index scan ever raises
\* "cannot load deleted element" (HnswLoadElementImpl): the lock barriers of
\* RepairGraph and MarkDeleted keep every element that such a search can reach
\* from being marked while it runs.
NoDeletedLoad ==
  /\ \A p \in Updaters : pc[p] # "error"
  /\ \A q \in Scanners : pc[q] = "error" => resumed[q]

\* Neither the entry point of the metapage nor a neighbor of an element with heap
\* TIDs is ever marked as deleted: MarkDeleted frees tuples only after RepairGraph
\* removed every way to them.
LinksNotDeleted ==
  /\ entryPoint.tid # NULL => ~deleted[entryPoint.tid]
  /\ \A s \in Slot : Live(s) => \A t \in neighbors[s] : ~deleted[t]

\* Once RepairGraph has passed the last page, and for as long as the vacuum runs,
\* no way leads from a live element or the entry point to an element that is
\* being deleted, whatever was inserted meanwhile.
RepairComplete ==
  pc[Vac] \in {"wait2", "confirm", "wait3", "mark", "end"} =>
    /\ entryPoint.tid # NULL => ~Empty(entryPoint.tid)
    /\ \A s \in Slot : Live(s) => \A t \in neighbors[s] : ~Empty(t)

\* The index and the heap agree: the TID of a committed tuple is in one element,
\* a TID is never in two, and one that the heap may reuse is in none (the TIDs
\* vacuum removes, compacts and frees, and the ones duplicates are added to).
HeapTidsIndexed ==
  \A h \in HeapTid :
    LET at == {s \in Slot : h \in heaptids[s]}
    IN  /\ heap[h] = "unused" => at = {}
        /\ heap[h] = "live" /\ (\A p \in Inserters : heaptid[p] # h) => at # {}
        /\ Cardinality(at) <= 1
        /\ \A s \in at : s <= nslots /\ ~deleted[s]

\* An element that lost its last heap TID gets none before it is marked as
\* deleted: AddDuplicateOnDisk must not revive it, since the repair has already
\* begun to unlink it.
NoRevival == [][\A s \in Slot : Empty(s) => heaptids'[s] = {}]_vars

\* When MarkDeleted marks an element, no insert, no repair and no first iteration
\* of a scan in flight has come across it ("Inserts and scans before this point
\* may visit tuples about to be deleted. Inserts and scans after this point will
\* not").
MarkUnseen ==
  [][\A s \in Slot : deleted'[s] /\ ~deleted[s] =>
       /\ \A p \in Updaters : s \notin visited[p] \cup lst[p]
       /\ \A q \in Scanners : pc[q] = "scan" /\ ~resumed[q] => s \notin visited[q]]_vars

\* A scan that resumes reads the neighbors of an element only if it is still the
\* element it loaded: an equal version means the slot was not reused meanwhile.
VersionCheckSound ==
  \A q \in Scanners : \A c \in loaded[q] :
    version[c.tid] = c.version => gen[c.tid] = c.gen

\* While nothing was deleted or aborted, the index is one graph: the entry point is an
\* element of the highest level (the exclusive lock and HNSW_UPDATE_ENTRY_GREATER), and
\* at most one element has no neighbor, the first one, since an insert that saw an empty
\* index reads the entry point again once it has the exclusive lock.
OneGraph ==
  vacuums = 0 /\ (\A h \in HeapTid : heap[h] # "dead") =>
    /\ \A s \in 1 .. nslots :
         (\A p \in Inserters : self[p] # s) => level[s] <= entryPoint.level
    /\ Cardinality({s \in 1 .. nslots : neighbors[s] = {}}) <= 1

\* A vacuum ends, also when inserts and scans run all the time.
VacuumCompletes == pc[Vac] # "idle" ~> pc[Vac] = "idle"

\* An insert ends, also when a vacuum runs.
InsertCompletes == \A p \in Inserters : pc[p] # "idle" ~> pc[p] = "idle"

\* Not so (README, Observations): no scan iteration at all raises "cannot load deleted element": "Locking
\* ensures when neighbors are read, the elements they reference will not be
\* deleted (and replaced) during the iteration" (hnswgettuple).
NoDeletedLoadInScan == \A q \in Scanners : pc[q] # "error"

\* Not so (README, Observations): ConfirmRepaired never raises "hnsw graph not repaired".
GraphRepaired == pc[Vac] # "notrepaired"

\* The entry point is "empty until an element is repaired" at most
\* (RepairGraphEntryPoint): an index with committed tuples has one when the
\* vacuum ends.
EntryRestored ==
  pc[Vac] = "end" /\ entryPoint.tid = NULL =>
    \A h \in HeapTid : heap[h] = "live" => \E p \in Inserters : heaptid[p] = h

=============================================================================
