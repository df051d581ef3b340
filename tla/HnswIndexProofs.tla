-------------------------- MODULE HnswIndexProofs --------------------------
(***************************************************************************)
(* The safety of hnswbulkdelete.  The repair leaves no way to an element   *)
(* that is being deleted (PagesStep, EntryStep), after the second barrier  *)
(* no update holds on to one (SeenStep), and there is always a set of      *)
(* elements, closed under neighbors, that contains whatever a running      *)
(* search can reach and of which none is freed (ReachStep).  At the end,   *)
(* the versions by which a scan tells a tuple that was reused meanwhile.   *)
(***************************************************************************)
EXTENDS HnswIndexLemmas

LEMMA NotNeeded ==
  ASSUME TypeOK, PointInv, Removed, NEW s \in Slot, ~NeedsUpdated(s)
  PROVE  ~Dirty(s)
<1>1. neighbors[s] \cap vdeleted = {} /\ neighbors[s] \subseteq Slot
  BY SMTT(30), Z3T(30) DEF NeedsUpdated, TypeOK, DiskType
<1>2. \A t \in Slot : Empty(t) => t \in vdeleted
  BY Zenon DEF PointInv
<1>. QED BY <1>1, <1>2, Zenon DEF Dirty

LEMMA LiveBound ==
  ASSUME TypeOK, ReachInv
  PROVE  \A s \in Slot : Live(s) => s <= nslots
<1>1. nslots \in 0 .. MaxSlots
  BY Zenon DEF TypeOK, DiskType
<1>2. \A s \in Slot : Live(s) => s \in 1 .. nslots
  BY Zenon DEF ReachInv, Protected
<1>. QED BY <1>1, <1>2, SMTT(30), Z3T(30)

LEMMA PagesStep ==
  ASSUME TypeOK, LocalInv, Chain, PointInv, CleanInv, EntryRepaired, PagesRepaired, ReachInv, Next
  PROVE  PagesRepaired'
<1>1. CASE ~Waited'
  <2>1. pc'[Vac] \in {"idle", "remove", "error", "notrepaired", "wait1"}
    BY <1>1, ZenonT(30) DEF Waited, Removed
  <2>2. pc'[Vac] # "loop" /\ pc'[Vac] \notin {"check", "lock", "lockx"} /\ pc'[Vac] \notin Repairing
        /\ pc'[Vac] \notin {"wait2", "confirm", "wait3", "mark", "end"}
    BY <2>1, ZenonT(30) DEF Repairing
  <2>. QED BY <2>2, Zenon DEF PagesRepaired
<1>2. CASE ~Waited /\ Waited'
  <2>1. pc'[Vac] = "ep1"
    BY <1>2, WaitedStep, WaitMoves, Zenon
  <2>2. pc'[Vac] # "loop" /\ pc'[Vac] \notin {"check", "lock", "lockx"} /\ pc'[Vac] \notin Repairing
        /\ pc'[Vac] \notin {"wait2", "confirm", "wait3", "mark", "end"}
    BY <2>1, ZenonT(30) DEF Repairing
  <2>. QED BY <2>2, Zenon DEF PagesRepaired
<1>. SUFFICES ASSUME Waited, Waited' PROVE PagesRepaired'
  BY <1>1, <1>2, Zenon
<1>3. \A s \in Slot : Dirty(s)' => Dirty(s)
  BY NoNewDirty, Zenon
<1>4. CASE ~Vacuum
  <2>1. UNCHANGED vacVars /\ pc'[Vac] = pc[Vac]
    BY <1>4, NotVacuum, Zenon
  <2>. QED BY <1>3, <2>1, Zenon DEF PagesRepaired, vacVars
<1>5. /\ nslots \in 0 .. MaxSlots /\ blkno \in 1 .. (MaxSlots + 1) /\ nextblkno \in 0 .. MaxSlots
      /\ MaxSlots \in Nat
  BY BoundAssumption, Zenon DEF TypeOK, DiskType, VacuumType
<1>6. \A s \in Slot : Dirty(s) => Live(s) /\ s <= nslots /\ s \in Nat
  BY LiveBound, SMTT(30), Z3T(30) DEF Dirty, Slot
\* The end of the repair of a page
<1>7. ASSUME \A s \in Slot : Dirty(s) => nextblkno # NULL /\ s >= nextblkno,
             pc'[Vac] = IF nextblkno = NULL THEN "wait2" ELSE "loop",
             blkno' = IF nextblkno = NULL THEN 1 ELSE nextblkno
      PROVE  PagesRepaired'
  <2>1. CASE nextblkno = NULL
    <3>1. pc'[Vac] = "wait2" /\ \A s \in Slot : ~Dirty(s)'
      BY <1>3, <1>7, <2>1, Zenon
    <3>2. pc'[Vac] # "loop" /\ pc'[Vac] \notin {"check", "lock", "lockx"} /\ pc'[Vac] \notin Repairing
      BY <3>1, ZenonT(30) DEF Repairing
    <3>. QED BY <3>1, <3>2, Zenon DEF PagesRepaired
  <2>2. CASE nextblkno # NULL
    <3>1. pc'[Vac] = "loop" /\ \A s \in Slot : Dirty(s)' => s >= blkno'
      BY <1>3, <1>7, <2>2, Zenon
    <3>2. pc'[Vac] \notin {"check", "lock", "lockx"} /\ pc'[Vac] \notin Repairing
          /\ pc'[Vac] \notin {"wait2", "confirm", "wait3", "mark", "end"}
      BY <3>1, ZenonT(30) DEF Repairing
    <3>. QED BY <3>1, <3>2, Zenon DEF PagesRepaired
  <2>. QED BY <2>1, <2>2, Zenon
\* A step within the repair of a page
<1>8. ASSUME \A s \in Slot : Dirty(s) => s = blkno \/ (nextblkno # NULL /\ s >= nextblkno),
             pc'[Vac] \in {"check", "lock", "lockx"} \cup Repairing,
             UNCHANGED <<blkno, nextblkno>>
      PROVE  PagesRepaired'
  <2>1. pc'[Vac] # "loop" /\ pc'[Vac] \notin {"wait2", "confirm", "wait3", "mark", "end"}
    BY <1>8, ZenonT(30) DEF Repairing
  <2>. QED BY <1>3, <1>8, <2>1, Zenon DEF PagesRepaired
\* The repair of the entry point
<1>9. ASSUME pc'[Vac] \in {"ep2", "loop", "links", "search", "load", "link", "error"},
             pc'[Vac] = "loop" => blkno' = 1, ctx' # "loop"
      PROVE  PagesRepaired'
  <2>1. pc'[Vac] \notin {"check", "lock", "lockx"}
        /\ pc'[Vac] \notin {"wait2", "confirm", "wait3", "mark", "end"}
    BY <1>9, ZenonT(30)
  <2>2. \A s \in Slot : s >= 1
    BY SMTT(30), Z3T(30) DEF Slot
  <2>. QED BY <1>9, <2>1, <2>2, Zenon DEF PagesRepaired
<1>10. pc[Vac] \notin Repairing \cup {"error"} => ctx = "none"
  BY Zenon DEF LocalInv, VacuumLocal
<1>11. CASE RepairHighestPoint
  <2>1. /\ pc[Vac] = "ep1" /\ pc'[Vac] \in {"ep2", "error", "links", "search"}
        /\ ctx' = ctx \/ ctx' = "ep1"
    BY <1>11, HighestMoves, Zenon
  <2>2. ctx = "none" /\ pc'[Vac] # "loop"
    BY <1>10, <2>1, ZenonT(30) DEF Repairing
  <2>. QED BY <1>9, <2>1, <2>2, Zenon
<1>12. CASE RepairEntryPoint
  <2>1. /\ pc[Vac] = "ep2" /\ pc'[Vac] \in {"loop", "error", "links", "search"}
        /\ ctx' = ctx \/ ctx' = "ep2"
        /\ blkno' = blkno
    BY <1>12, EntryMoves, Zenon
  <2>2. ctx = "none"
    BY <1>10, <2>1, ZenonT(30) DEF Repairing
  <2>3. blkno = 1
    BY <2>1, Zenon DEF PointInv
  <2>. QED BY <1>9, <2>1, <2>2, <2>3, Zenon
<1>13. CASE LoadPage
  <2>1. /\ pc[Vac] = "loop" /\ nextblkno' = NextPage(blkno) /\ UNCHANGED diskVars
        /\ \/ pc'[Vac] = "check" /\ blkno' = blkno /\ blkno <= nslots /\ Live(blkno)
           \/ /\ ~(blkno <= nslots /\ Live(blkno))
              /\ pc'[Vac] = IF nextblkno' = NULL THEN "wait2" ELSE "loop"
              /\ blkno' = IF nextblkno' = NULL THEN 1 ELSE nextblkno'
    <3>1. UNCHANGED diskVars
      BY <1>13, Zenon DEF LoadPage
    <3>. QED BY <1>13, <3>1, PageMoves, Zenon
  <2>2. \A s \in Slot : Dirty(s) => s >= blkno
    BY <2>1, Zenon DEF PagesRepaired
  <2>3. CASE pc'[Vac] = "check" /\ blkno' = blkno
    <3>1. \A s \in Slot : Dirty(s) => s = blkno \/ (nextblkno' # NULL /\ s >= nextblkno')
      BY <1>5, <1>6, <2>1, <2>2, SMTT(30), Z3T(30) DEF NextPage, NULL
    <3>2. /\ pc'[Vac] # "loop" /\ pc'[Vac] \notin {"wait2", "confirm", "wait3", "mark", "end"}
      BY <2>3, ZenonT(30)
    <3>. QED BY <1>3, <2>3, <3>1, <3>2, ZenonT(30) DEF PagesRepaired
  <2>4. CASE /\ ~(blkno <= nslots /\ Live(blkno))
             /\ pc'[Vac] = IF nextblkno' = NULL THEN "wait2" ELSE "loop"
             /\ blkno' = IF nextblkno' = NULL THEN 1 ELSE nextblkno'
    <3>1. \A s \in Slot : Dirty(s) => nextblkno' # NULL /\ s >= nextblkno'
      BY <1>5, <1>6, <2>1, <2>2, <2>4, SMTT(30), Z3T(30) DEF NextPage, NULL
    <3>2. CASE nextblkno' = NULL
      <4>1. pc'[Vac] = "wait2" /\ \A s \in Slot : ~Dirty(s)'
        BY <1>3, <2>4, <3>1, <3>2, ZenonT(30)
      <4>2. pc'[Vac] # "loop" /\ pc'[Vac] \notin {"check", "lock", "lockx"} /\ pc'[Vac] \notin Repairing
        BY <4>1, SMTT(30), Z3T(30) DEF Repairing
      <4>. QED BY <4>1, <4>2, Zenon DEF PagesRepaired
    <3>3. CASE nextblkno' # NULL
      <4>1. pc'[Vac] = "loop" /\ \A s \in Slot : Dirty(s)' => s >= blkno'
        BY <1>3, <2>4, <3>1, <3>3, ZenonT(30)
      <4>2. pc'[Vac] \notin {"check", "lock", "lockx"} /\ pc'[Vac] \notin Repairing
            /\ pc'[Vac] \notin {"wait2", "confirm", "wait3", "mark", "end"}
        BY <4>1, SMTT(30), Z3T(30) DEF Repairing
      <4>. QED BY <4>1, <4>2, Zenon DEF PagesRepaired
    <3>. QED BY <3>2, <3>3, Zenon
  <2>. QED BY <2>1, <2>3, <2>4, Zenon
<1>14. CASE CheckElement
  <2>1. /\ pc[Vac] = "check" /\ nextblkno' = nextblkno
        /\ \/ pc'[Vac] = "lock" /\ blkno' = blkno
           \/ /\ ~NeedsUpdated(blkno)
              /\ pc'[Vac] = IF nextblkno = NULL THEN "wait2" ELSE "loop"
              /\ blkno' = IF nextblkno = NULL THEN 1 ELSE nextblkno
    BY <1>14, CheckMoves, Zenon
  <2>2. \A s \in Slot : Dirty(s) => s = blkno \/ (nextblkno # NULL /\ s >= nextblkno)
    BY <2>1, Zenon DEF PagesRepaired
  <2>3. ~NeedsUpdated(blkno) => ~Dirty(blkno)
    BY <2>1, NotNeeded, LocalFacts, Zenon DEF Waited
  <2>. QED BY <1>7, <1>8, <2>1, <2>2, <2>3, ZenonT(30)
<1>15. CASE RepairLockShare \/ RepairLockExclusive
  <2>1. /\ pc[Vac] \in {"lock", "lockx"} /\ pc'[Vac] \in {"lockx", "links", "search"}
        /\ UNCHANGED <<blkno, nextblkno>>
    BY <1>15, LockMoves, Zenon
  <2>2. pc'[Vac] \in {"check", "lock", "lockx"} \cup Repairing /\ pc[Vac] \in {"check", "lock", "lockx"}
    BY <2>1, ZenonT(30) DEF Repairing
  <2>. QED BY <1>8, <2>1, <2>2, Zenon DEF PagesRepaired
<1>16. CASE Search(Vac) \/ OverwriteNeighbors \/ UpdateNeighbors(Vac)
  <2>1. /\ pc[Vac] \in Repairing /\ pc'[Vac] \in Repairing \cup {"error"} /\ UNCHANGED vacVars
    BY <1>16, RepairMoves, Zenon
  <2>2. pc'[Vac] # "error"
    BY Zenon DEF Waited, Removed
  <2>3. CASE ctx = "loop"
    BY <1>8, <2>1, <2>2, <2>3, ZenonT(30) DEF PagesRepaired, vacVars
  <2>4. CASE ctx # "loop"
    <3>1. pc'[Vac] \in {"ep2", "loop", "links", "search", "load", "link", "error"} /\ pc'[Vac] # "loop"
      BY <2>1, SMTT(30), Z3T(30) DEF Repairing
    <3>. QED BY <1>9, <2>1, <2>4, <3>1, ZenonT(30) DEF vacVars
  <2>. QED BY <2>3, <2>4, ZenonT(30)
<1>17. CASE RepairFinish
  <2>1. /\ pc[Vac] = "links" /\ ctx' = "none" /\ nextblkno' = nextblkno
        /\ \/ ctx = "ep1" /\ pc'[Vac] = "ep2" /\ blkno' = blkno
           \/ ctx \notin {"ep1", "loop"} /\ pc'[Vac] = "loop" /\ blkno' = blkno
           \/ /\ ctx = "loop"
              /\ pc'[Vac] = IF nextblkno = NULL THEN "wait2" ELSE "loop"
              /\ blkno' = IF nextblkno = NULL THEN 1 ELSE nextblkno
    BY <1>17, FinishMoves, ZenonT(30)
  <2>2. pc[Vac] \in Repairing /\ ctx \in {"ep1", "ep2", "loop"}
    BY <2>1, ZenonT(30) DEF Repairing, TypeOK, VacuumType, LocalInv, VacuumLocal
  <2>3. CASE ctx # "loop"
    <3>1. blkno = 1
      BY <2>2, <2>3, Zenon DEF PointInv
    <3>2. pc'[Vac] \in {"ep2", "loop"} /\ blkno' = blkno
      BY <2>1, <2>3, ZenonT(30)
    <3>. QED BY <1>9, <2>1, <3>1, <3>2, ZenonT(30)
  <2>4. CASE ctx = "loop"
    <3>1. \A s \in Slot : Dirty(s) => s = blkno \/ (nextblkno # NULL /\ s >= nextblkno)
      BY <2>2, <2>4, Zenon DEF PagesRepaired
    <3>2. ~Dirty(blkno)
      <4>1. self[Vac] = blkno /\ CleanLocal(Vac)
        BY <2>2, <2>4, ProcSets, ZenonT(30) DEF EntryRepaired, CleanInv
      <4>. QED BY <2>1, <4>1, Zenon DEF CleanLocal
    <3>3. /\ pc'[Vac] = IF nextblkno = NULL THEN "wait2" ELSE "loop"
          /\ blkno' = IF nextblkno = NULL THEN 1 ELSE nextblkno
      BY <2>1, <2>4, ZenonT(30)
    <3>. QED BY <1>7, <3>1, <3>2, <3>3, ZenonT(30)
  <2>. QED BY <2>3, <2>4, Zenon
<1>18. CASE WaitForInsertsAgain \/ ConfirmRepaired \/ WaitForScans \/ MarkDeleted
  <2>1. /\ pc[Vac] \in {"wait2", "confirm", "wait3", "mark"}
        /\ pc'[Vac] \in {"confirm", "wait3", "notrepaired", "mark", "end"}
    BY <1>18, LastMoves, Zenon
  <2>2. /\ pc'[Vac] # "loop" /\ pc'[Vac] \notin {"check", "lock", "lockx"}
        /\ pc'[Vac] \notin Repairing
        /\ pc[Vac] \in {"wait2", "confirm", "wait3", "mark", "end"}
    BY <2>1, ZenonT(30) DEF Repairing
  <2>. QED BY <1>3, <2>2, Zenon DEF PagesRepaired
<1>. QED BY <1>4, <1>11, <1>12, <1>13, <1>14, <1>15, <1>16, <1>17, <1>18, WaitedActions, ZenonT(30)

\* Who sets the entry point once it is repaired, and to what
LEMMA EntryKept ==
  ASSUME TypeOK, LocalInv, Chain, CleanInv, EntryRepaired, Waited, Next, EntryDone,
         ~RepairEntryPoint
  PROVE  entryPoint'.tid # NULL => Live(entryPoint.tid)' /\ ~Dirty(entryPoint.tid)'
<1>1. /\ \A s \in Slot : Live(s) => Live(s)'
      /\ \A s \in Slot : Dirty(s)' => Dirty(s)
  BY NoNewDirty, Zenon
<1>2. entryPoint \in Point /\ \A p \in Updaters : CleanLocal(p)
  BY Zenon DEF TypeOK, CleanInv
<1>3. PICK e : e = entryPoint'.tid
  BY SMTT(30), Z3T(30)
<1>4. entryPoint.tid # NULL =>
        entryPoint.tid \in Slot /\ Live(entryPoint.tid) /\ ~Dirty(entryPoint.tid)
  BY <1>2, Points, Zenon DEF EntryRepaired
<1>5. ASSUME NEW p \in Updaters, pc[p] = "links",
             entryPoint' = entryPoint \/ entryPoint' = EntryIfGreater(self[p], newLevel[p])
      PROVE  e # NULL => e \in Slot /\ Live(e) /\ ~Dirty(e)
  <2>1. self[p] \in Slot /\ self[p] # NULL
    BY <1>5, LocalFacts, SMTT(30), Z3T(30) DEF Slot, NULL
  <2>2. Live(self[p]) /\ ~Dirty(self[p])
    BY <1>2, <1>5, <2>1, ZenonT(30) DEF CleanLocal
  <2>3. e = entryPoint.tid \/ e = self[p]
    BY <1>3, <1>5, SMTT(30), Z3T(30) DEF EntryIfGreater
  <2>. QED BY <1>4, <2>1, <2>2, <2>3, ZenonT(30)
<1>6. e # NULL => e \in Slot /\ Live(e) /\ ~Dirty(e)
  <2>1. ASSUME NEW p \in Inserters, InsertFinish(p) PROVE e # NULL => e \in Slot /\ Live(e) /\ ~Dirty(e)
    <3>1. pc[p] = "links" /\ (entryPoint' = entryPoint
                              \/ entryPoint' = EntryIfGreater(self[p], newLevel[p]))
      BY <2>1, Zenon DEF InsertFinish
    <3>. QED BY <1>5, <3>1, ProcSets, Zenon
  <2>2. ASSUME RepairFinish PROVE e # NULL => e \in Slot /\ Live(e) /\ ~Dirty(e)
    <3>1. pc[Vac] = "links" /\ (entryPoint' = entryPoint
                                \/ entryPoint' = EntryIfGreater(self[Vac], newLevel[Vac]))
      BY <2>2, ZenonT(30) DEF RepairFinish
    <3>. QED BY <1>5, <3>1, ProcSets, ZenonT(30)
  <2>3. ASSUME UNCHANGED entryPoint PROVE e # NULL => e \in Slot /\ Live(e) /\ ~Dirty(e)
    BY <1>3, <1>4, <2>3, ZenonT(30)
  <2>. QED BY <2>1, <2>2, <2>3, EntryWriters, ZenonT(30)
<1>7. e # NULL => Live(e)' /\ ~Dirty(e)'
  BY <1>1, <1>6, Zenon
<1>. QED BY <1>3, <1>7, Zenon DEF Live, Dirty

\* The replacement of the entry point
LEMMA EntryReplaced ==
  ASSUME TypeOK, LocalInv, Chain, PointInv, CleanInv, EntryRepaired, ReachInv, Waited, Next,
         Vacuum, RepairEntryPoint, pc'[Vac] = "loop"
  PROVE  entryPoint'.tid # NULL => Live(entryPoint.tid)' /\ ~Dirty(entryPoint.tid)'
<1>1. /\ \A s \in Slot : Live(s) => Live(s)'
      /\ \A s \in Slot : Dirty(s)' => Dirty(s)
  BY NoNewDirty, Zenon
<1>2. PICK e : e = entryPoint'.tid
  BY ZenonT(30)
<1>3. pc[Vac] = "ep2" /\ Removed /\ hp \in Point /\ entryPoint \in Point
  BY EntryMoves, Zenon DEF Waited, TypeOK, VacuumType
<1>4. /\ entryPoint' = NewEntryPoint(entryPoint)
      /\ entryPoint.tid = NULL \/ entryPoint.tid \in vdeleted
         \/ (~deleted[entryPoint.tid] /\ ~NeedsUpdated(entryPoint.tid))
  <2>1. \A w : Become(Vac, w) => w = "loop"
    BY Moves, Zenon
  <2>2. \A s, x, w : ~BeginRepair(s, x, w)
    BY Moves, Zenon
  <2>3. "error" # "loop"
    BY SMTT(30), Z3T(30)
  <2>. QED BY <2>1, <2>2, <2>3, ZenonT(30) DEF RepairEntryPoint
<1>5. CASE entryPoint.tid \in vdeleted
  <2>1. entryPoint' = hp
    BY <1>4, <1>5, Zenon DEF NewEntryPoint
  <2>2. hp.tid # NULL => hp.tid \in Slot /\ Live(hp.tid) /\ ~Dirty(hp.tid)
    BY <1>3, Points, Zenon DEF PointInv, EntryRepaired
  <2>3. e # NULL => Live(e)' /\ ~Dirty(e)'
    BY <1>1, <1>2, <2>1, <2>2, ZenonT(30)
  <2>. QED BY <1>2, <2>3, Zenon DEF Live, Dirty
<1>6. CASE entryPoint.tid \notin vdeleted
  <2>1. entryPoint' = entryPoint
    BY <1>4, <1>6, Zenon DEF NewEntryPoint
  <2>2. entryPoint.tid # NULL => entryPoint.tid \in Slot /\ Live(entryPoint.tid)
    BY <1>4, <1>6, SelfRepair, Zenon
  <2>3. entryPoint.tid # NULL => ~Dirty(entryPoint.tid)
    BY <1>3, <1>4, <1>6, <2>2, NotNeeded, ZenonT(30)
  <2>4. e # NULL => Live(e)' /\ ~Dirty(e)'
    BY <1>1, <1>2, <2>1, <2>2, <2>3, ZenonT(30)
  <2>. QED BY <1>2, <2>4, Zenon DEF Live, Dirty
<1>. QED BY <1>5, <1>6, Zenon

LEMMA EntryStep ==
  ASSUME TypeOK, LocalInv, LockInv, Chain, PointInv, CleanInv, EntryRepaired, ReachInv, Next
  PROVE  EntryRepaired'
<1>1. CASE ~Waited'
  <2>1. pc'[Vac] \in {"idle", "remove", "error", "notrepaired", "wait1"}
    BY <1>1, ZenonT(30) DEF Waited, Removed
  <2>2. pc'[Vac] # "ep2" /\ pc'[Vac] \notin Repairing
    BY <2>1, ZenonT(30) DEF Repairing
  <2>. QED BY <1>1, <2>2, Zenon DEF EntryRepaired, EntryDone
<1>2. CASE ~Waited /\ Waited'
  <2>1. pc'[Vac] = "ep1"
    BY <1>2, WaitedStep, WaitMoves, Zenon
  <2>2. pc'[Vac] # "ep2" /\ pc'[Vac] \notin Repairing
    BY <2>1, ZenonT(30) DEF Repairing
  <2>. QED BY <2>1, <2>2, Zenon DEF EntryRepaired, EntryDone
<1>. SUFFICES ASSUME Waited, Waited' PROVE EntryRepaired'
  BY <1>1, <1>2, Zenon
<1>3. /\ \A s \in Slot : Live(s) => Live(s)'
      /\ \A s \in Slot : Dirty(s)' => Dirty(s)
  BY NoNewDirty, Zenon
<1>4. /\ Vac \in Procs /\ Vac \in Updaters /\ hp \in Point /\ CleanLocal(Vac) /\ Removed
      /\ pc'[Vac] # "error"
  BY ProcSets, Zenon DEF CleanInv, TypeOK, VacuumType, Waited, Removed
<1>5. hp.tid # NULL => hp.tid \in Slot
  BY <1>4, Points, Zenon
\* The highest point stays repaired
<1>6. ASSUME hp' = hp, hp.tid # NULL => ~Dirty(hp.tid)
      PROVE  hp'.tid # NULL => ~Dirty(hp.tid)'
  <2>1. PICK e : e = hp.tid
    BY SMTT(30), Z3T(30)
  <2>2. e # NULL => ~Dirty(e)'
    BY <1>3, <1>5, <1>6, <2>1, Zenon
  <2>. QED BY <1>6, <2>1, <2>2, Zenon DEF Dirty
<1>7. CASE ~Vacuum
  <2>1. UNCHANGED vacVars /\ pc'[Vac] = pc[Vac] /\ self'[Vac] = self[Vac]
    BY <1>7, NotVacuum, Zenon
  <2>2. ~RepairEntryPoint /\ ~RepairFinish
    BY <1>7, Zenon DEF Vacuum, VacuumLock, VacuumStep
  <2>3. pc'[Vac] = "ep2" /\ hp'.tid # NULL => ~Dirty(hp.tid)'
    BY <1>6, <2>1, Zenon DEF EntryRepaired, vacVars
  <2>4. pc[Vac] \in Repairing /\ ctx = "ep2" => entryPoint' = entryPoint
    <3>1. ASSUME pc[Vac] \in Repairing, ctx = "ep2", NEW p \in Inserters, InsertFinish(p) PROVE FALSE
      <4>1. pc[p] = "links" /\ p # Vac /\ p \in Procs
        BY <3>1, ProcAssumption, ProcSets, ZenonT(30) DEF InsertFinish
      <4>2. pc[p] \in Active
        BY <4>1, ZenonT(30) DEF Active
      <4>. QED BY <1>4, <3>1, <4>1, <4>2, ZenonT(30) DEF LockInv
    <3>. QED BY <2>2, <3>1, EntryWriters, Zenon
  <2>5. pc'[Vac] \in Repairing =>
          /\ ctx' = "ep1" => self'[Vac] = hp'.tid
          /\ ctx' = "ep2" => self'[Vac] = entryPoint'.tid
          /\ ctx' = "loop" => self'[Vac] = blkno'
    BY <2>1, <2>4, Zenon DEF EntryRepaired, vacVars
  <2>6. EntryDone' => EntryDone
    BY <2>1, Zenon DEF EntryDone, vacVars
  <2>. QED BY <2>2, <2>3, <2>5, <2>6, EntryKept, ZenonT(30) DEF EntryRepaired
<1>8. CASE RepairHighestPoint
  <2>1. /\ \/ pc'[Vac] = "ep2" /\ ctx' = ctx
           \/ pc'[Vac] = "search" /\ ctx' = "ep1" /\ self'[Vac] = hp'.tid
           \/ pc'[Vac] = "links" /\ ctx' = "ep1" /\ self'[Vac] = hp'.tid
    BY <1>4, <1>8, HighestMoves, Zenon
  <2>2. ~EntryDone'
    BY <2>1, Zenon DEF EntryDone
  <2>3. ASSUME pc'[Vac] = "ep2", hp'.tid # NULL PROVE ~Dirty(hp.tid)'
    <3>1. hp'.tid \in Slot
      BY <1>8, <2>3, SelfRepair, ZenonT(30) DEF Vacuum, VacuumLock
    <3>2. ~NeedsUpdated(hp'.tid)
      <4>1. \A w : Become(Vac, w) => w = "ep2"
        BY <2>3, Moves, Zenon
      <4>2. \A s, x, w : ~BeginRepair(s, x, w)
        BY <2>3, Moves, Zenon
      <4>3. "error" # "ep2"
        BY SMTT(30), Z3T(30)
      <4>. QED BY <1>8, <2>3, <4>1, <4>2, <4>3, ZenonT(30) DEF RepairHighestPoint
    <3>3. PICK e : e = hp'.tid
      BY SMTT(30), Z3T(30)
    <3>4. ~Dirty(e)'
      BY <1>3, <1>4, <3>1, <3>2, <3>3, NotNeeded, ZenonT(30)
    <3>. QED BY <3>3, <3>4, Zenon DEF Dirty
  <2>4. pc'[Vac] = "ep2" => pc'[Vac] \notin Repairing
    BY SMTT(30), Z3T(30) DEF Repairing
  <2>5. pc'[Vac] \in Repairing =>
          /\ ctx' = "ep1" => self'[Vac] = hp'.tid
          /\ ctx' = "ep2" => self'[Vac] = entryPoint'.tid
          /\ ctx' = "loop" => self'[Vac] = blkno'
    BY <2>1, <2>4, Zenon
  <2>. QED BY <2>2, <2>3, <2>5, ZenonT(30) DEF EntryRepaired
<1>9. CASE RepairEntryPoint
  <2>1. /\ \/ pc'[Vac] = "loop"
           \/ pc'[Vac] = "search" /\ ctx' = "ep2" /\ self'[Vac] = entryPoint.tid
           \/ pc'[Vac] = "links" /\ ctx' = "ep2" /\ self'[Vac] = entryPoint.tid
    BY <1>4, <1>9, EntryMoves, Zenon
  <2>2. pc'[Vac] # "loop" => entryPoint' = entryPoint
    <3>1. Become(Vac, "loop") \/ (entryPoint.tid \notin vdeleted)
      BY <1>9, Zenon DEF RepairEntryPoint
    <3>2. entryPoint' = NewEntryPoint(entryPoint)
      BY <1>9, Zenon DEF RepairEntryPoint
    <3>. QED BY <3>1, <3>2, Moves, Zenon DEF NewEntryPoint
  <2>3. EntryDone' => pc'[Vac] = "loop"
    BY <2>1, Zenon DEF EntryDone
  <2>4. EntryDone' => (entryPoint'.tid # NULL => Live(entryPoint.tid)' /\ ~Dirty(entryPoint.tid)')
    <3>1. Vacuum
      BY <1>9, Zenon DEF Vacuum, VacuumLock
    <3>. QED BY <1>9, <2>3, <3>1, EntryReplaced, ZenonT(30)
  <2>5. pc'[Vac] # "ep2" /\ (pc'[Vac] = "loop" => pc'[Vac] \notin Repairing)
    BY <2>1, ZenonT(30) DEF Repairing
  <2>6. pc'[Vac] \in Repairing =>
          /\ ctx' = "ep1" => self'[Vac] = hp'.tid
          /\ ctx' = "ep2" => self'[Vac] = entryPoint'.tid
          /\ ctx' = "loop" => self'[Vac] = blkno'
    BY <2>1, <2>2, <2>5, Zenon
  <2>. QED BY <2>4, <2>5, <2>6, Zenon DEF EntryRepaired
\* The steps of RepairGraph keep the entry point as EntryKept says
<1>10. ASSUME ~RepairEntryPoint, pc'[Vac] # "ep2", EntryDone' => EntryDone,
              pc'[Vac] \in Repairing =>
                /\ ctx' = "ep1" => self'[Vac] = hp'.tid
                /\ ctx' = "ep2" => self'[Vac] = entryPoint'.tid
                /\ ctx' = "loop" => self'[Vac] = blkno'
       PROVE  EntryRepaired'
  BY <1>10, EntryKept, Zenon DEF EntryRepaired
<1>11. pc[Vac] \notin Repairing \cup {"error"} => ctx = "none"
  BY Zenon DEF LocalInv, VacuumLocal
<1>12. pc[Vac] # "ep2" => ~RepairEntryPoint
  BY Zenon DEF RepairEntryPoint
<1>13. CASE LoadPage \/ CheckElement
  <2>1. /\ pc[Vac] = "loop" \/ pc[Vac] = "check"
        /\ pc'[Vac] \in {"check", "wait2", "loop", "lock"} /\ ctx' = ctx
    BY <1>13, PageMoves, CheckMoves, Zenon
  <2>2. /\ ctx = "none" /\ pc[Vac] # "ep2" /\ pc[Vac] # "ep1" /\ pc'[Vac] # "ep2"
        /\ pc'[Vac] \notin Repairing
    BY <1>11, <2>1, ZenonT(30) DEF Repairing
  <2>3. EntryDone
    BY <2>2, Zenon DEF EntryDone
  <2>. QED BY <1>10, <1>12, <2>2, <2>3, ZenonT(30)
<1>14. CASE RepairLockShare \/ RepairLockExclusive
  <2>1. /\ pc[Vac] \in {"lock", "lockx"} /\ blkno' = blkno
        /\ \/ pc'[Vac] = "lockx" /\ ctx' = ctx
           \/ pc'[Vac] \in {"links", "search"} /\ ctx' = "loop" /\ self'[Vac] = blkno
    BY <1>14, LockMoves, Zenon
  <2>2. /\ ctx = "none" /\ pc[Vac] # "ep2" /\ pc[Vac] # "ep1" /\ pc'[Vac] # "ep2"
        /\ pc'[Vac] = "lockx" => pc'[Vac] \notin Repairing
    BY <1>11, <2>1, ZenonT(30) DEF Repairing
  <2>3. EntryDone
    BY <2>2, Zenon DEF EntryDone
  <2>4. pc'[Vac] \in Repairing => ctx' = "loop" /\ self'[Vac] = blkno'
    BY <2>1, <2>2, Zenon
  <2>. QED BY <1>10, <1>12, <2>2, <2>3, <2>4, ZenonT(30)
<1>15. CASE Search(Vac) \/ OverwriteNeighbors \/ UpdateNeighbors(Vac)
  <2>1. /\ pc[Vac] \in Repairing /\ pc'[Vac] \in Repairing /\ self' = self /\ UNCHANGED vacVars
    BY <1>4, <1>15, RepairMoves, ZenonT(30)
  <2>2. entryPoint' = entryPoint
    BY <1>15, ZenonT(30) DEF Search, LoadElement, LoadUnvisited, OverwriteNeighbors, UpdateNeighbors,
       GetUpdateIndex, LoadElementsForInsert, UpdateNeighborOnDisk
  <2>3. pc[Vac] # "ep2" /\ pc[Vac] # "ep1" /\ pc'[Vac] # "ep2"
    BY <2>1, ZenonT(30) DEF Repairing
  <2>4. EntryDone' => EntryDone
    BY <2>1, <2>3, Zenon DEF EntryDone, vacVars
  <2>. QED BY <1>10, <1>12, <2>1, <2>2, <2>3, <2>4, ZenonT(30) DEF EntryRepaired, vacVars
<1>16. CASE RepairFinish
  <2>1. /\ pc[Vac] = "links" /\ ctx' = "none" /\ hp' = hp
        /\ \/ ctx = "ep1" /\ pc'[Vac] = "ep2"
           \/ ctx \notin {"ep1", "loop"} /\ pc'[Vac] = "loop"
           \/ ctx = "loop" /\ pc'[Vac] = "wait2"
           \/ ctx = "loop" /\ pc'[Vac] = "loop"
    BY <1>16, FinishMoves, ZenonT(30)
  <2>2. /\ pc[Vac] \in Repairing /\ ctx \in {"ep1", "ep2", "loop"} /\ pc'[Vac] \notin Repairing
        /\ pc[Vac] # "ep2" /\ pc[Vac] # "ep1"
    <3>1. pc'[Vac] \in {"ep2", "loop", "wait2"}
      BY <2>1, Zenon
    <3>. QED BY <2>1, <3>1, ZenonT(30) DEF Repairing, TypeOK, VacuumType, LocalInv, VacuumLocal
  <2>3. self[Vac] # NULL => Live(self[Vac]) /\ ~Dirty(self[Vac])
    BY <1>4, <2>1, Zenon DEF CleanLocal
  <2>4. CASE ctx = "ep1"
    <3>1. hp.tid # NULL => ~Dirty(hp.tid)
      BY <2>2, <2>3, <2>4, ZenonT(30) DEF EntryRepaired
    <3>2. pc'[Vac] = "ep2"
      BY <2>1, <2>4, ZenonT(30)
    <3>. QED BY <1>6, <2>1, <2>2, <3>1, <3>2, ZenonT(30) DEF EntryRepaired, EntryDone
  <2>5. CASE ctx = "ep2"
    <3>1. entryPoint' = entryPoint /\ pc'[Vac] = "loop"
      BY <1>16, <2>1, <2>5, ZenonT(30) DEF RepairFinish
    <3>2. PICK e : e = entryPoint.tid
      BY SMTT(30), Z3T(30)
    <3>3. e = self[Vac] /\ e \in Slot
      BY <1>4, <2>1, <2>2, <2>5, <3>2, LocalFacts, ZenonT(30) DEF EntryRepaired
    <3>4. e # NULL => Live(e)' /\ ~Dirty(e)'
      BY <1>3, <2>3, <3>3, ZenonT(30)
    <3>5. entryPoint'.tid # NULL => Live(entryPoint.tid)' /\ ~Dirty(entryPoint.tid)'
      BY <3>1, <3>2, <3>4, ZenonT(30) DEF Live, Dirty
    <3>. QED BY <2>2, <3>1, <3>5, ZenonT(30) DEF EntryRepaired
  <2>6. CASE ctx = "loop"
    <3>1. EntryDone /\ pc'[Vac] # "ep2"
      BY <2>1, <2>2, <2>6, ZenonT(30) DEF EntryDone
    <3>. QED BY <1>10, <1>12, <2>2, <3>1, ZenonT(30)
  <2>. QED BY <2>2, <2>4, <2>5, <2>6, ZenonT(30)
<1>17. CASE WaitForInsertsAgain \/ ConfirmRepaired \/ WaitForScans \/ MarkDeleted
  <2>1. /\ pc[Vac] \in {"wait2", "confirm", "wait3", "mark"} /\ ctx' = ctx
        /\ pc'[Vac] \in {"confirm", "wait3", "notrepaired", "mark", "end"}
    BY <1>17, LastMoves, Zenon
  <2>2. /\ ctx = "none" /\ pc[Vac] # "ep2" /\ pc[Vac] # "ep1" /\ pc'[Vac] # "ep2"
        /\ pc'[Vac] \notin Repairing
    BY <1>11, <2>1, ZenonT(30) DEF Repairing
  <2>3. EntryDone
    BY <2>2, Zenon DEF EntryDone
  <2>. QED BY <1>10, <1>12, <2>2, <2>3, Zenon
<1>. QED BY <1>7, <1>8, <1>9, <1>13, <1>14, <1>15, <1>16, <1>17, WaitedActions, ZenonT(30)

-----------------------------------------------------------------------------
(* What a search and an update come across in one step. *)
SeenAfter(p) ==
  /\ \A x \in visited'[p] : \/ x \in visited[p] \/ x = entryPoint.tid
                            \/ p = Vac /\ pc[Vac] = "ep2" /\ x = hp.tid
                            \/ \E c \in loaded[p] : x \in neighbors[c.tid]
  /\ p \in Updaters =>
       \A x \in lst'[p] : x \in lst[p] \/ \E c \in loaded[p] : x \in neighbors[c.tid]

LEMMA SeenSearch ==
  ASSUME TypeOK, NEW p \in Procs, Search(p)
  PROVE  SeenAfter(p)
<1>0. UNCHANGED lst /\ visited \in [Procs -> SUBSET Slot]
  BY Zenon DEF Search, LoadElement, LoadUnvisited, linkVars, TypeOK, SearchType
<1>1. ASSUME NEW s \in todo[p], LoadElement(p, s) PROVE SeenAfter(p)
  BY <1>0, <1>1, ZenonT(30) DEF LoadElement, SeenAfter
<1>2. ASSUME NEW c \in loaded[p], LoadUnvisited(p, c) PROVE SeenAfter(p)
  <2>1. visited' = [visited EXCEPT ![p] = @ \cup (NeighborTids(c) \ visited[p])]
    BY <1>2, Zenon DEF LoadUnvisited
  <2>2. \A x \in visited'[p] : x \in visited[p] \/ x \in neighbors[c.tid]
    BY <1>0, <2>1, ZenonT(30) DEF NeighborTids
  <2>. QED BY <1>0, <2>2, ZenonT(30) DEF SeenAfter
<1>. QED BY <1>1, <1>2, Zenon DEF Search

LEMMA SeenUpdate ==
  ASSUME TypeOK, NEW p \in Updaters, UpdateNeighbors(p)
  PROVE  SeenAfter(p)
<1>0. UNCHANGED visited /\ lst \in [Updaters -> SUBSET Slot]
  BY Zenon DEF UpdateNeighbors, GetUpdateIndex, LoadElementsForInsert, UpdateNeighborOnDisk,
     searchVars, TypeOK, LinkType
<1>1. ASSUME NEW x \in upd[p], GetUpdateIndex(p, x) PROVE SeenAfter(p)
  <2>1. PICK c \in loaded[p] : lst' = [lst EXCEPT ![p] = NeighborTids(c)]
    BY <1>1, Zenon DEF GetUpdateIndex
  <2>2. \A y \in lst'[p] : y \in neighbors[c.tid]
    BY <1>0, <2>1, ZenonT(30) DEF NeighborTids
  <2>. QED BY <1>0, <2>2, Zenon DEF SeenAfter
<1>2. CASE LoadElementsForInsert(p) \/ UpdateNeighborOnDisk(p)
  <2>1. lst' = lst \/ lst' = [lst EXCEPT ![p] = {}]
    BY <1>2, Zenon DEF LoadElementsForInsert, UpdateNeighborOnDisk
  <2>2. \A y \in lst'[p] : y \in lst[p]
    BY <1>0, <2>1, ZenonT(30)
  <2>. QED BY <1>0, <2>2, Zenon DEF SeenAfter
<1>. QED BY <1>1, <1>2, ZenonT(30) DEF UpdateNeighbors

LEMMA SeenBegin ==
  ASSUME TypeOK, NEW p \in Procs, NEW e, BeginSearch(p, e),
         e = entryPoint \/ (p = Vac /\ pc[Vac] = "ep2" /\ e = hp) \/ e = NoPoint,
         p \in Updaters => lst'[p] = lst[p] \/ lst'[p] = {}
  PROVE  SeenAfter(p)
<1>1. \A x \in visited'[p] : e.tid # NULL /\ x = e.tid
  BY BeginEffect, ZenonT(30)
<1>2. NoPoint.tid = NULL
  BY Points, Zenon
<1>. QED BY <1>1, <1>2, Zenon DEF SeenAfter

LEMMA SeenInsert ==
  ASSUME TypeOK, NEW p \in Inserters, Insert(p)
  PROVE  SeenAfter(p)
<1>0. p \in Procs /\ p \in Updaters
  BY ProcSets, Zenon
<1>1. CASE InsertStart(p) \/ InsertSelect(p) \/ \E s \in Slot : AddElementOnDisk(p, s)
  <2>1. UNCHANGED <<visited, lst>>
    BY <1>1, Zenon DEF InsertStart, InsertSelect, AddElementOnDisk, searchVars, linkVars
  <2>. QED BY <2>1, Zenon DEF SeenAfter
<1>2. CASE InsertLockShare(p) \/ InsertLockExclusive(p)
  <2>1. UNCHANGED lst /\ (UNCHANGED visited \/ BeginSearch(p, entryPoint))
    BY <1>2, Zenon DEF InsertLockShare, InsertLockExclusive, searchVars
  <2>. QED BY <1>0, <2>1, SeenBegin, ZenonT(30) DEF SeenAfter
<1>3. CASE (\E s \in sel[p] : AddDuplicateOnDisk(p, s)) \/ InsertFinish(p) \/ InsertAbort(p)
  <2>1. BeginSearch(p, NoPoint) /\ ForgetLinks(p)
    BY <1>3, Zenon DEF AddDuplicateOnDisk, InsertFinish, InsertAbort, ForgetSearch
  <2>. QED BY <1>0, <2>1, ForgetEffect, SeenBegin, ZenonT(30)
<1>. QED BY <1>0, <1>1, <1>2, <1>3, SeenSearch, SeenUpdate, Zenon DEF Insert, InsertStep

LEMMA SeenVacuum ==
  ASSUME TypeOK, Vacuum
  PROVE  SeenAfter(Vac)
<1>0. Vac \in Procs /\ Vac \in Updaters
  BY ProcSets, Zenon
<1>1. CASE VacuumStart \/ RemoveHeapTids \/ LoadPage \/ CheckElement \/ OverwriteNeighbors
           \/ ConfirmRepaired \/ MarkDeleted \/ VacuumEnd \/ WaitForInserts
           \/ WaitForInsertsAgain \/ WaitForScans
  <2>1. UNCHANGED <<visited, lst>>
    BY <1>1, ZenonT(30) DEF VacuumStart, RemoveHeapTids, LoadPage, CheckElement, OverwriteNeighbors,
       ConfirmRepaired, MarkDeleted, VacuumEnd, WaitForInserts, WaitForInsertsAgain, WaitForScans,
       searchVars, linkVars
  <2>. QED BY <2>1, ZenonT(30) DEF SeenAfter
<1>2. ASSUME NEW s, NEW e, NEW w, BeginRepair(s, e, w),
             e = entryPoint \/ (pc[Vac] = "ep2" /\ e = hp)
      PROVE  SeenAfter(Vac)
  <2>1. UNCHANGED lst /\ (UNCHANGED visited \/ BeginSearch(Vac, e))
    BY <1>2, Zenon DEF BeginRepair, searchVars
  <2>. QED BY <1>0, <1>2, <2>1, SeenBegin, ZenonT(30) DEF SeenAfter
<1>3. CASE RepairHighestPoint \/ RepairLockShare \/ RepairLockExclusive
  <2>1. UNCHANGED <<visited, lst>> \/ \E s, w : BeginRepair(s, entryPoint, w)
    BY <1>3, Zenon DEF RepairHighestPoint, RepairLockShare, RepairLockExclusive,
       searchVars, linkVars
  <2>. QED BY <1>2, <2>1, Zenon DEF SeenAfter
<1>4. CASE RepairEntryPoint
  <2>1. pc[Vac] = "ep2" /\ (UNCHANGED <<visited, lst>> \/ \E s, w : BeginRepair(s, hp, w))
    BY <1>4, Zenon DEF RepairEntryPoint, searchVars, linkVars
  <2>. QED BY <1>2, <2>1, ZenonT(30) DEF SeenAfter
<1>5. CASE RepairFinish \/ VacuumAbort
  <2>1. BeginSearch(Vac, NoPoint) /\ ForgetLinks(Vac)
    BY <1>5, Zenon DEF RepairFinish, VacuumAbort, ForgetSearch
  <2>. QED BY <1>0, <2>1, ForgetEffect, SeenBegin, ZenonT(30)
<1>. QED BY <1>0, <1>1, <1>3, <1>4, <1>5, SeenSearch, SeenUpdate, ZenonT(30)
         DEF Vacuum, VacuumStep, VacuumLock

\* Behind a complete repair live elements have live neighbors only
LEMMA NeighborsLive ==
  ASSUME TypeOK, PagesRepaired, ReachInv,
         pc[Vac] \in {"wait2", "confirm", "wait3", "mark", "end"}
  PROVE  \A s \in Slot : Live(s) => \A t \in neighbors[s] : Live(t)
<1>0. nslots \in 0 .. MaxSlots
  BY Zenon DEF TypeOK, DiskType
<1>1. ASSUME NEW s \in Slot, Live(s), NEW t \in neighbors[s] PROVE Live(t)
  <2>1. ~Empty(t)
    BY <1>1, Zenon DEF PagesRepaired, Dirty
  <2>2. t \in 1 .. nslots /\ ~deleted[t]
    BY <1>1, Zenon DEF ReachInv, Protected
  <2>3. t <= nslots
    BY <1>0, <2>2, SMTT(30), Z3T(30)
  <2>. QED BY <2>1, <2>2, <2>3, ZenonT(30) DEF Empty, Live
<1>. QED BY <1>1, ZenonT(30)

LEMMA SeenStep ==
  ASSUME TypeOK, LocalInv, LockInv, Chain, CleanInv, EntryRepaired, PagesRepaired, SeenLive,
         ReachInv, NoDeletedLoad, Next
  PROVE  SeenLive'
<1>. SUFFICES ASSUME pc'[Vac] \in {"confirm", "wait3"}, NEW p \in Updaters,
                     NEW x \in visited'[p] \cup lst'[p]
              PROVE  heaptids'[x] # {}
  BY Zenon DEF SeenLive, Live
<1>0. p \in Procs /\ Waited'
  BY ProcSets, Zenon DEF Waited, Removed
<1>1. Waited
  <2>1. ASSUME ~Waited PROVE FALSE
    <3>1. pc'[Vac] = "ep1"
      BY <1>0, <2>1, WaitedStep, WaitMoves, ZenonT(30)
    <3>. QED BY <3>1, ZenonT(30)
  <2>. QED BY <2>1, ZenonT(30)
<1>2. \A s \in Slot : Live(s) => Live(s)'
  BY <1>1, NoNewDirty, ZenonT(30)
<1>3. \/ pc[Vac] \in {"confirm", "wait3"} /\ (ConfirmRepaired \/ ~Vacuum)
      \/ WaitForInsertsAgain
  <2>1. CASE ~Vacuum
    BY <2>1, NotVacuum, Zenon
  <2>2. CASE Vacuum
    <3>1. /\ pc'[Vac] \notin {"ep2", "error", "links", "search"} /\ pc'[Vac] \notin Repairing
          /\ pc'[Vac] \notin {"loop", "error", "links", "search"}
          /\ pc'[Vac] \notin {"check", "loop", "wait2", "lock", "lockx", "ep2"}
          /\ pc'[Vac] \notin {"mark", "end"} /\ pc'[Vac] \notin Repairing \cup {"error"}
      BY ZenonT(30) DEF Repairing
    <3>2. ~RepairHighestPoint /\ ~RepairEntryPoint
      BY <3>1, HighestMoves, EntryMoves, ZenonT(30)
    <3>3. ~LoadPage /\ ~CheckElement /\ ~RepairLockShare /\ ~RepairLockExclusive
      BY <3>1, PageMoves, CheckMoves, LockMoves, ZenonT(30)
    <3>4. ~(Search(Vac) \/ OverwriteNeighbors \/ UpdateNeighbors(Vac)) /\ ~RepairFinish
      BY <3>1, RepairMoves, FinishMoves, ZenonT(30)
    <3>5. ~WaitForScans /\ ~MarkDeleted
      <4>1. WaitForScans => pc'[Vac] = "mark"
        BY Moves, ZenonT(30) DEF WaitForScans
      <4>2. MarkDeleted => pc'[Vac] \in {"mark", "end"}
        BY Moves, Zenon DEF MarkDeleted
      <4>. QED BY <3>1, <4>1, <4>2, ZenonT(30)
    <3>6. ConfirmRepaired => pc[Vac] = "confirm"
      BY Zenon DEF ConfirmRepaired
    <3>. QED BY <1>0, <1>1, <2>2, <3>2, <3>3, <3>4, <3>5, <3>6, WaitedActions, ZenonT(30)
  <2>. QED BY <2>1, <2>2, ZenonT(30)
<1>4. CASE pc[Vac] \in {"confirm", "wait3"} /\ (ConfirmRepaired \/ ~Vacuum)
  <2>0. \A y \in visited[p] \cup lst[p] : y \in Slot /\ Live(y)'
    <3>1. visited[p] \subseteq Slot /\ lst[p] \subseteq Slot
      BY <1>0, ZenonT(30) DEF TypeOK, SearchType, LinkType
    <3>. QED BY <1>2, <1>4, <3>1, ZenonT(30) DEF SeenLive
  <2>1. CASE x \in visited[p] \cup lst[p]
    BY <2>0, <2>1, ZenonT(30) DEF Live
  <2>2. CASE x \notin visited[p] \cup lst[p]
    <3>1. p \in Inserters /\ Insert(p)
      <4>1. ASSUME UNCHANGED <<visited, lst>> PROVE FALSE
        BY <2>2, <4>1, ZenonT(30)
      <4>2. ~ConfirmRepaired /\ (\A h \in HeapTid : ~HeapDelete(h))
        BY <4>1, Zenon DEF ConfirmRepaired, HeapDelete, searchVars, linkVars
      <4>3. ASSUME NEW r \in Procs, r # p PROVE ~Others(r)
        BY <1>0, <2>2, <4>3, ZenonT(30) DEF Others
      <4>4. ~Vacuum /\ p \notin Scanners
        BY <1>4, <4>2, ProcAssumption, ZenonT(30) DEF Updaters
      <4>. QED BY <4>2, <4>3, <4>4, OthersStep, ProcSets, ZenonT(30) DEF Next
    <3>2. SeenAfter(p) /\ p # Vac
      BY <3>1, SeenInsert, ProcAssumption, ZenonT(30)
    <3>3. x = entryPoint.tid \/ \E c \in loaded[p] : x \in neighbors[c.tid]
      BY <1>0, <2>2, <3>2, ZenonT(30) DEF SeenAfter
    <3>4. x \in Slot
      <4>1. visited'[p] \subseteq Slot /\ lst'[p] \subseteq Slot
        BY <1>0, SearchTypeStep, LinkTypeStep, ZenonT(30) DEF SearchType, LinkType
      <4>. QED BY <4>1, ZenonT(30)
    <3>5. ASSUME x = entryPoint.tid PROVE Live(x)'
      <4>1. ctx = "none"
        BY <1>4, ZenonT(30) DEF LocalInv, VacuumLocal, Repairing
      <4>2. pc[Vac] # "ep1" /\ pc[Vac] # "ep2" /\ x # NULL
        BY <1>4, <3>4, SMTT(30), Z3T(30) DEF Slot, NULL
      <4>3. EntryDone
        BY <1>1, <4>1, <4>2, ZenonT(30) DEF EntryDone
      <4>. QED BY <1>2, <3>4, <3>5, <4>2, <4>3, ZenonT(30) DEF EntryRepaired
    <3>6. ASSUME NEW c \in loaded[p], x \in neighbors[c.tid] PROVE Live(x)'
      <4>1. c.tid \in visited[p]
        BY <1>0, Zenon DEF LocalInv, SearchLocal
      <4>2. c.tid \in Slot /\ Live(c.tid)
        <5>1. visited[p] \subseteq Slot
          BY <1>0, ZenonT(30) DEF TypeOK, SearchType
        <5>. QED BY <1>4, <4>1, <5>1, ZenonT(30) DEF SeenLive
      <4>3. pc[Vac] \in {"wait2", "confirm", "wait3", "mark", "end"}
        BY <1>4, ZenonT(30)
      <4>. QED BY <1>2, <3>4, <3>6, <4>2, <4>3, NeighborsLive, ZenonT(30)
    <3>. QED BY <3>3, <3>5, <3>6, ZenonT(30) DEF Live
  <2>. QED BY <2>1, <2>2, ZenonT(30)
<1>5. CASE WaitForInsertsAgain
  <2>1. pc[Vac] = "wait2" /\ CanExclude(updateLock, Vac) /\ UNCHANGED <<visited, lst>>
    BY <1>5, Zenon DEF WaitForInsertsAgain, searchVars, linkVars
  <2>2. CASE p = Vac
    <3>1. visited[Vac] = {} /\ lst[Vac] = {}
      BY <1>0, <2>1, <2>2, ZenonT(30) DEF LocalInv, VacuumLocal, LinkLocal, Repairing
    <3>. QED BY <2>1, <2>2, <3>1, ZenonT(30)
  <2>3. CASE p # Vac
    <3>1. p \in Procs \ {Vac} /\ p \in Inserters
      BY <1>0, <2>3, Zenon DEF Updaters
    <3>2. updateLock[p] = "none"
      BY <2>1, <3>1, ZenonT(30) DEF CanExclude
    <3>3. pc[p] \notin Active /\ pc[p] # "error" /\ pc[p] \in InserterPc
      BY <3>1, <3>2, ZenonT(30) DEF LockInv, NoDeletedLoad, TypeOK, ControlType
    <3>4. pc[p] \in {"idle", "lock", "lockx"}
      BY <3>3, ZenonT(30) DEF Active, InserterPc
    <3>5. visited[p] = {} /\ lst[p] = {}
      BY <3>1, <3>4, ZenonT(30) DEF LocalInv, InsertLocal, LinkLocal
    <3>. QED BY <2>1, <3>5, Zenon
  <2>. QED BY <2>2, <2>3, ZenonT(30)
<1>. QED BY <1>3, <1>4, <1>5, ZenonT(30)

\* The set R is still protected after a step, for each of its parts.
NoAdd == \A p \in Inserters : \A s \in Slot : ~AddElementOnDisk(p, s)

DiskPart(R) ==
  /\ R \subseteq 1 .. nslots
  /\ \A s \in R : ~deleted[s] /\ neighbors[s] \subseteq R
  /\ \A s \in Slot : Live(s) => s \in R

LocalPart(R, p) ==
  /\ visited[p] \subseteq R
  /\ lst[p] \subseteq R
  /\ self[p] # NULL => self[p] \in R

LEMMA SelReached ==
  ASSUME TypeOK, LocalInv, NEW R \in SUBSET Slot, Protected(R), NEW p \in Updaters
  PROVE  /\ \A c \in loaded[p] : c.tid \in R /\ neighbors[c.tid] \subseteq R
         /\ sel[p] \subseteq R
<1>0. p \in Procs
  BY ProcSets, Zenon
<1>1. ASSUME NEW c \in loaded[p] PROVE c.tid \in R
  BY <1>0, <1>1, ZenonT(30) DEF LocalInv, SearchLocal, Protected
<1>2. ASSUME NEW x \in sel[p] PROVE x \in R
  <2>1. PICK c \in loaded[p] : c.tid = x
    BY <1>2, Zenon DEF LocalInv, LinkLocal
  <2>. QED BY <1>1, <2>1, ZenonT(30)
<1>. QED BY <1>1, <1>2, Zenon DEF Protected

LEMMA ReachDisk ==
  ASSUME TypeOK, LocalInv, NEW R \in SUBSET Slot, Protected(R), Next, NoAdd
  PROVE  DiskPart(R)'
<1>0. /\ heaptids \in [Slot -> SUBSET HeapTid] /\ deleted \in [Slot -> BOOLEAN]
      /\ neighbors \in [Slot -> SUBSET Slot] /\ DiskPart(R)
  BY Zenon DEF TypeOK, DiskType, Protected, DiskPart
<1>1. ASSUME NEW p \in Inserters, NEW t \in sel[p], AddDuplicateOnDisk(p, t) PROVE DiskPart(R)'
  <2>1. /\ heaptids[t] # {} /\ heaptids' = [heaptids EXCEPT ![t] = @ \cup {heaptid[p]}]
        /\ UNCHANGED <<nslots, deleted, neighbors>>
    BY <1>1, ZenonT(30) DEF AddDuplicateOnDisk
  <2>2. \A s \in Slot : Live(s)' => Live(s)
    BY <1>0, <2>1, ZenonT(30) DEF Live
  <2>. QED BY <1>0, <2>1, <2>2, ZenonT(30) DEF DiskPart
<1>2. CASE RemoveHeapTids
  <2>1. /\ UNCHANGED heaptids \/ heaptids' = [heaptids EXCEPT ![blkno] = Remaining(heaptids[blkno])]
        /\ UNCHANGED <<nslots, deleted, neighbors>>
    BY <1>2, Zenon DEF RemoveHeapTids
  <2>2. \A s \in Slot : Live(s)' => Live(s)
    BY <1>0, <2>1, ZenonT(30) DEF Live, Remaining
  <2>. QED BY <1>0, <2>1, <2>2, Zenon DEF DiskPart
<1>3. ASSUME NEW p \in Updaters, UpdateNeighborOnDisk(p) PROVE DiskPart(R)'
  <2>1. /\ pc[p] = "link" /\ UNCHANGED <<nslots, heaptids, deleted>>
        /\ \E N \in Linked(cur[p], self[p], lst[p], victim[p], p = Vac) :
             neighbors' = [neighbors EXCEPT ![cur[p]] = N]
    BY <1>3, Zenon DEF UpdateNeighborOnDisk
  <2>2. PICK N \in Linked(cur[p], self[p], lst[p], victim[p], p = Vac) :
             neighbors' = [neighbors EXCEPT ![cur[p]] = N]
    BY <2>1, ZenonT(30)
  <2>3. cur[p] \in Slot /\ self[p] \in Slot /\ self[p] # NULL
    BY <2>1, LocalFacts, SMTT(30), Z3T(30) DEF Slot, NULL
  <2>4. N \subseteq neighbors[cur[p]] \cup {self[p]}
    BY <2>3, LinkedBound, ZenonT(30)
  <2>5. self[p] \in R
    BY <2>3, ZenonT(30) DEF Protected
  <2>6. \A s \in R : neighbors'[s] \subseteq R
    <3>. SUFFICES ASSUME NEW s \in R PROVE neighbors'[s] \subseteq R
      BY SMTT(30), Z3T(30)
    <3>1. neighbors[s] \subseteq R /\ s \in Slot
      BY <1>0, Zenon DEF DiskPart
    <3>2. CASE s = cur[p]
      <4>1. neighbors'[s] = N
        BY <1>0, <2>2, <2>3, <3>2, ZenonT(30)
      <4>2. N \subseteq neighbors[s] \cup {self[p]}
        BY <2>4, <3>2, Zenon
      <4>. QED BY <2>5, <3>1, <4>1, <4>2, ZenonT(30)
    <3>3. CASE s # cur[p]
      BY <1>0, <2>2, <3>1, <3>3, ZenonT(30)
    <3>. QED BY <3>2, <3>3, Zenon
  <2>. QED BY <1>0, <2>1, <2>6, Zenon DEF DiskPart, Live
<1>4. CASE OverwriteNeighbors
  <2>1. /\ \E S \in Selections(loaded[Vac], self[Vac]) :
             neighbors' = [neighbors EXCEPT ![self[Vac]] = S]
        /\ UNCHANGED <<nslots, heaptids, deleted>>
    BY <1>4, Zenon DEF OverwriteNeighbors
  <2>2. PICK S \in Selections(loaded[Vac], self[Vac]) :
             neighbors' = [neighbors EXCEPT ![self[Vac]] = S]
    BY <2>1, ZenonT(30)
  <2>3. loaded[Vac] \in SUBSET Copies
    BY ProcSets, ZenonT(30) DEF TypeOK, SearchType
  <2>4. S \subseteq R
    <3>1. \A x \in S : \E c \in loaded[Vac] : c.tid = x
      BY <2>3, Selected, ZenonT(30)
    <3>2. \A c \in loaded[Vac] : c.tid \in R
      BY SelReached, ProcSets, Zenon
    <3>. QED BY <3>1, <3>2, ZenonT(30)
  <2>5. \A s \in R : neighbors'[s] \subseteq R
    BY <1>0, <2>2, <2>4, ZenonT(30) DEF DiskPart
  <2>. QED BY <1>0, <2>1, <2>5, ZenonT(30) DEF DiskPart, Live
<1>5. CASE MarkDeleted
  <2>1. /\ pc[Vac] = "mark" /\ UNCHANGED <<nslots, heaptids>>
        /\ \/ UNCHANGED <<deleted, neighbors>>
           \/ /\ ~Live(blkno) /\ deleted' = [deleted EXCEPT ![blkno] = TRUE]
              /\ neighbors' = [neighbors EXCEPT ![blkno] = {}]
    BY <1>5, ZenonT(30) DEF MarkDeleted
  <2>2. \A s \in R : Live(s)
    BY <2>1, Zenon DEF Protected
  <2>3. \A s \in R : UNCHANGED <<deleted[s], neighbors[s]>>
    <3>. SUFFICES ASSUME NEW s \in R, ~UNCHANGED <<deleted, neighbors>>
                  PROVE  UNCHANGED <<deleted[s], neighbors[s]>>
      BY Zenon
    <3>1. s # blkno /\ s \in Slot
      BY <2>1, <2>2, ZenonT(30)
    <3>. QED BY <1>0, <2>1, <3>1, ZenonT(30)
  <2>. QED BY <1>0, <2>1, <2>3, ZenonT(30) DEF DiskPart, Live
<1>6. CASE UNCHANGED diskVars
  BY <1>0, <1>6, Zenon DEF DiskPart, Live, diskVars
<1>. QED BY <1>1, <1>2, <1>3, <1>4, <1>5, <1>6, DiskWriters, ZenonT(30) DEF NoAdd

LEMMA ReachEntry ==
  ASSUME TypeOK, LocalInv, PointInv, NEW R \in SUBSET Slot, Protected(R), Next
  PROVE  entryPoint'.tid # NULL => entryPoint'.tid \in R
<1>0. entryPoint.tid # NULL => entryPoint.tid \in R
  BY Zenon DEF Protected
<1>1. ASSUME NEW p \in Updaters, pc[p] = "links",
             entryPoint' = entryPoint \/ entryPoint' = EntryIfGreater(self[p], newLevel[p])
      PROVE  entryPoint'.tid # NULL => entryPoint'.tid \in R
  <2>1. self[p] \in Slot /\ self[p] # NULL
    BY <1>1, LocalFacts, SMTT(30), Z3T(30) DEF Slot, NULL
  <2>2. self[p] \in R
    BY <2>1, ZenonT(30) DEF Protected
  <2>3. entryPoint'.tid = entryPoint.tid \/ entryPoint'.tid = self[p]
    BY <1>1, SMTT(30), Z3T(30) DEF EntryIfGreater
  <2>. QED BY <1>0, <2>2, <2>3, ZenonT(30)
<1>2. ASSUME NEW p \in Inserters, InsertFinish(p)
      PROVE  entryPoint'.tid # NULL => entryPoint'.tid \in R
  <2>1. pc[p] = "links" /\ (entryPoint' = entryPoint
                            \/ entryPoint' = EntryIfGreater(self[p], newLevel[p]))
    BY <1>2, Zenon DEF InsertFinish
  <2>. QED BY <1>1, <2>1, ProcSets, ZenonT(30)
<1>3. ASSUME RepairFinish PROVE entryPoint'.tid # NULL => entryPoint'.tid \in R
  <2>1. pc[Vac] = "links" /\ (entryPoint' = entryPoint
                              \/ entryPoint' = EntryIfGreater(self[Vac], newLevel[Vac]))
    BY <1>3, Zenon DEF RepairFinish
  <2>. QED BY <1>1, <2>1, ProcSets, ZenonT(30)
<1>4. ASSUME RepairEntryPoint PROVE entryPoint'.tid # NULL => entryPoint'.tid \in R
  <2>1. pc[Vac] = "ep2" /\ (entryPoint' = entryPoint \/ entryPoint' = hp)
    BY <1>4, ZenonT(30) DEF RepairEntryPoint, NewEntryPoint
  <2>2. Removed
    BY <2>1, ZenonT(30) DEF Removed
  <2>3. hp.tid # NULL => hp.tid \in R
    BY <2>2, Points, ZenonT(30) DEF PointInv, Protected, TypeOK, VacuumType
  <2>. QED BY <1>0, <2>1, <2>3, ZenonT(30)
<1>5. ASSUME UNCHANGED entryPoint PROVE entryPoint'.tid # NULL => entryPoint'.tid \in R
  BY <1>0, <1>5, ZenonT(30)
<1>. QED BY <1>2, <1>3, <1>4, <1>5, EntryWriters, ZenonT(30)

LEMMA ReachSeen ==
  ASSUME TypeOK, LocalInv, PointInv, NEW R \in SUBSET Slot, Protected(R), NEW p \in Updaters,
         SeenAfter(p), visited'[p] \subseteq Slot, lst'[p] \subseteq Slot
  PROVE  visited'[p] \subseteq R /\ lst'[p] \subseteq R
<1>1. \A c \in loaded[p] : neighbors[c.tid] \subseteq R
  BY SelReached, ZenonT(30)
<1>2. \A x \in lst'[p] : x \in R
  BY <1>1, Zenon DEF SeenAfter, Protected
<1>3. ASSUME NEW x \in visited'[p] PROVE x \in R
  <2>1. x # NULL /\ x \in Slot
    BY <1>3, SMTT(30), Z3T(30) DEF Slot, NULL
  <2>2. CASE x \in visited[p] \/ \E c \in loaded[p] : x \in neighbors[c.tid]
    BY <1>1, <2>2, ZenonT(30) DEF Protected
  <2>3. CASE x = entryPoint.tid
    BY <2>1, <2>3, Zenon DEF Protected
  <2>4. CASE pc[Vac] = "ep2" /\ x = hp.tid
    <3>1. Removed
      BY <2>4, ZenonT(30) DEF Removed
    <3>2. Live(hp.tid) /\ hp.tid \in Slot
      BY <2>1, <2>4, <3>1, ZenonT(30) DEF PointInv
    <3>. QED BY <2>4, <3>2, ZenonT(30) DEF Protected
  <2>. QED BY <2>2, <2>3, <2>4, ZenonT(30) DEF SeenAfter
<1>. QED BY <1>2, <1>3, ZenonT(30)

LEMMA SelfInsert ==
  ASSUME TypeOK, NEW p \in Inserters, Insert(p), NoAdd
  PROVE  self'[p] = self[p] \/ self'[p] = NULL
<1>0. p \in Procs /\ p \in Updaters
  BY ProcSets, ZenonT(30)
<1>1. InsertStart(p) \/ InsertLockShare(p) \/ InsertLockExclusive(p) \/ Search(p)
        \/ InsertSelect(p) \/ UpdateNeighbors(p) => UNCHANGED self
  BY Zenon DEF InsertStart, InsertLockShare, InsertLockExclusive, Search, LoadElement,
     LoadUnvisited, InsertSelect, UpdateNeighbors, GetUpdateIndex, LoadElementsForInsert,
     UpdateNeighborOnDisk, linkVars
<1>2. InsertFinish(p) \/ InsertAbort(p) \/ (\E s \in sel[p] : AddDuplicateOnDisk(p, s))
        => self'[p] = NULL
  BY <1>0, ForgetEffect, ZenonT(30) DEF InsertFinish, InsertAbort, AddDuplicateOnDisk
<1>. QED BY <1>1, <1>2, ZenonT(30) DEF Insert, InsertStep, NoAdd

LEMMA SelfVacuum ==
  ASSUME TypeOK, LocalInv, PointInv, EntryRepaired, NEW R \in SUBSET Slot, Protected(R),
         Vacuum, self'[Vac] \in 0 .. MaxSlots
  PROVE  self'[Vac] # NULL => self'[Vac] \in R
<1>. SUFFICES ASSUME self'[Vac] # NULL PROVE self'[Vac] \in R
  BY ZenonT(30)
<1>0. Vac \in Procs /\ Vac \in Updaters /\ self'[Vac] \in Slot
  <2>1. self'[Vac] \in Slot
    BY SMTT(30), Z3T(30) DEF Slot, NULL
  <2>. QED BY <2>1, ProcSets, ZenonT(30)
<1>1. CASE UNCHANGED self
  BY <1>0, <1>1, ZenonT(30) DEF Protected
<1>2. VacuumStart \/ WaitForInserts \/ RemoveHeapTids \/ LoadPage \/ CheckElement
        \/ WaitForInsertsAgain \/ WaitForScans \/ ConfirmRepaired \/ MarkDeleted \/ VacuumEnd
        => UNCHANGED self
  BY Zenon DEF VacuumStart, WaitForInserts, RemoveHeapTids, LoadPage, CheckElement,
     WaitForInsertsAgain, WaitForScans, ConfirmRepaired, MarkDeleted, VacuumEnd, linkVars
<1>3. Search(Vac) \/ OverwriteNeighbors \/ UpdateNeighbors(Vac) => UNCHANGED self
  BY RepairMoves, Zenon
<1>4. ~RepairFinish /\ ~VacuumAbort
  BY <1>0, ForgetEffect, ZenonT(30) DEF RepairFinish, VacuumAbort
<1>5. CASE RepairHighestPoint
  <2>1. CASE UNCHANGED self
    BY <1>1, <2>1, Zenon
  <2>2. CASE ~UNCHANGED self
    <3>1. PICK h : /\ h = highestPoint \/ h = fallbackPoint
                   /\ BeginRepair(h.tid, entryPoint, "ep1")
      BY <1>5, <2>2, ZenonT(30) DEF RepairHighestPoint, linkVars
    <3>2. self'[Vac] = h.tid /\ pc[Vac] = "ep1"
      BY <1>5, <3>1, RepairEffect, ZenonT(30) DEF RepairHighestPoint
    <3>3. Removed
      BY <3>2, Zenon DEF Removed
    <3>4. Live(h.tid) /\ h.tid \in Slot
      BY <1>0, <3>1, <3>2, <3>3, ZenonT(30) DEF PointInv
    <3>. QED BY <3>2, <3>4, ZenonT(30) DEF Protected
  <2>. QED BY <2>1, <2>2, Zenon
<1>6. CASE RepairEntryPoint
  <2>1. CASE UNCHANGED self
    BY <1>1, <2>1, SMTT(30), Z3T(30)
  <2>2. CASE ~UNCHANGED self
    <3>1. BeginRepair(entryPoint.tid, hp, "ep2")
      BY <1>6, <2>2, ZenonT(30) DEF RepairEntryPoint, linkVars
    <3>2. self'[Vac] = entryPoint.tid
      BY <3>1, RepairEffect, ZenonT(30)
    <3>. QED BY <1>0, <3>2, ZenonT(30) DEF Protected
  <2>. QED BY <2>1, <2>2, SMTT(30), Z3T(30)
<1>7. CASE RepairLockShare \/ RepairLockExclusive
  <2>1. CASE UNCHANGED self
    BY <1>1, <2>1, SMTT(30), Z3T(30)
  <2>2. CASE ~UNCHANGED self
    <3>1. BeginRepair(blkno, entryPoint, "loop")
      BY <1>7, <2>2, ZenonT(30) DEF RepairLockShare, RepairLockExclusive, linkVars
    <3>2. self'[Vac] = blkno
      BY <3>1, RepairEffect, ZenonT(30)
    <3>3. pc[Vac] \in {"check", "lock", "lockx"}
      BY <1>7, LockMoves, ZenonT(30)
    <3>4. Live(blkno)
      BY <3>3, ZenonT(30) DEF PointInv
    <3>. QED BY <1>0, <3>2, <3>4, ZenonT(30) DEF Protected
  <2>. QED BY <2>1, <2>2, SMTT(30), Z3T(30)
<1>. QED BY <1>1, <1>2, <1>3, <1>4, <1>5, <1>6, <1>7, ZenonT(30) DEF Vacuum, VacuumStep, VacuumLock

LEMMA ReachLocal ==
  ASSUME TypeOK, LocalInv, PointInv, EntryRepaired, NEW R \in SUBSET Slot, Protected(R), Next,
         NoAdd
  PROVE  \A p \in Updaters : LocalPart(R, p)'
<1>. SUFFICES ASSUME NEW p \in Updaters PROVE LocalPart(R, p)'
  BY SMTT(30), Z3T(30)
<1>0. p \in Procs /\ LocalPart(R, p)
  BY ProcSets, ZenonT(30) DEF LocalPart, Protected
<1>1. visited'[p] \subseteq Slot /\ lst'[p] \subseteq Slot /\ self'[p] \in 0 .. MaxSlots
  <2>1. SearchType' /\ LinkType'
    BY SearchTypeStep, LinkTypeStep, ZenonT(30)
  <2>. QED BY <1>0, <2>1, ZenonT(30) DEF SearchType, LinkType
<1>2. ASSUME NEW r \in Procs, r # p, Others(r) PROVE LocalPart(R, p)'
  <2>1. visited'[p] = visited[p] /\ lst'[p] = lst[p] /\ self'[p] = self[p]
    BY <1>0, <1>2, ZenonT(30) DEF Others
  <2>. QED BY <1>0, <2>1, ZenonT(30) DEF LocalPart
<1>3. ASSUME p \in Inserters, Insert(p) PROVE LocalPart(R, p)'
  <2>1. SeenAfter(p) /\ (self'[p] = self[p] \/ self'[p] = NULL)
    BY <1>3, SeenInsert, SelfInsert, ZenonT(30)
  <2>2. visited'[p] \subseteq R /\ lst'[p] \subseteq R
    BY <1>1, <2>1, ReachSeen, ZenonT(30)
  <2>. QED BY <1>0, <2>1, <2>2, ZenonT(30) DEF LocalPart
<1>4. ASSUME p = Vac, Vacuum PROVE LocalPart(R, p)'
  <2>1. SeenAfter(Vac) /\ (self'[Vac] # NULL => self'[Vac] \in R)
    BY <1>1, <1>4, SeenVacuum, SelfVacuum, ZenonT(30)
  <2>2. visited'[Vac] \subseteq R /\ lst'[Vac] \subseteq R
    BY <1>1, <1>4, <2>1, ReachSeen, ZenonT(30)
  <2>3. p = Vac
    BY <1>4, ZenonT(30)
  <2>. QED BY <2>1, <2>2, <2>3, ZenonT(30) DEF LocalPart
<1>5. ASSUME NEW h \in HeapTid, HeapDelete(h) PROVE LocalPart(R, p)'
  BY <1>0, <1>5, ZenonT(30) DEF HeapDelete, searchVars, linkVars, LocalPart
<1>6. p \notin Scanners
  BY ProcAssumption, Zenon DEF Updaters
<1>. QED BY <1>2, <1>3, <1>4, <1>5, <1>6, OthersStep, ProcSets, ZenonT(30) DEF Next

LEMMA ReachScan ==
  ASSUME TypeOK, LocalInv, NEW R \in SUBSET Slot, Protected(R), Next
  PROVE  \A q \in Scanners : pc'[q] = "scan" /\ ~resumed'[q] => visited'[q] \subseteq R
<1>. SUFFICES ASSUME NEW q \in Scanners, pc'[q] = "scan", ~resumed'[q]
              PROVE  visited'[q] \subseteq R
  BY ZenonT(30)
<1>0. q \in Procs /\ q \notin Inserters /\ q # Vac /\ pc[q] \in ScannerPc
      /\ entryPoint.tid \in 0 .. MaxSlots
  BY ProcSets, ProcAssumption, Points, ZenonT(30) DEF TypeOK, ControlType
<1>1. ASSUME pc[q] = "scan", ~resumed[q] PROVE visited[q] \subseteq R
  BY <1>1, Zenon DEF Protected
<1>2. ASSUME NEW r \in Procs, r # q, Others(r) PROVE visited'[q] \subseteq R
  <2>1. visited'[q] = visited[q] /\ pc'[q] = pc[q] /\ resumed'[q] = resumed[q]
    BY <1>0, <1>2, ZenonT(30) DEF Others
  <2>. QED BY <1>1, <2>1, ZenonT(30)
<1>3. ASSUME NEW h \in HeapTid, HeapDelete(h) PROVE visited'[q] \subseteq R
  <2>1. UNCHANGED <<visited, pc, resumed>>
    BY <1>3, Zenon DEF HeapDelete, searchVars
  <2>. QED BY <1>1, <2>1, ZenonT(30)
<1>4. ASSUME ScanStart(q) PROVE visited'[q] \subseteq R
  <2>1. visited'[q] = {entryPoint.tid} /\ entryPoint.tid \in R
    BY <1>0, <1>4, BeginEffect, ZenonT(30) DEF ScanStart, Protected
  <2>. QED BY <2>1, Zenon
<1>5. ASSUME Search(q) PROVE visited'[q] \subseteq R
  <2>1. SeenAfter(q)
    BY <1>0, <1>5, SeenSearch, ZenonT(30)
  <2>2. pc[q] = "scan" /\ resumed' = resumed
    <3>1. pc[q] \in {"search", "scan"} /\ resumed' = resumed
      BY <1>5, ZenonT(30) DEF Search, LoadElement, LoadUnvisited
    <3>. QED BY <1>0, <3>1, ZenonT(30) DEF ScannerPc
  <2>3. visited[q] \subseteq R
    BY <1>1, <2>2, ZenonT(30)
  <2>4. \A c \in loaded[q] : c.tid \in R /\ neighbors[c.tid] \subseteq R
    BY <1>0, <2>3, ZenonT(30) DEF LocalInv, SearchLocal, Protected
  <2>5. visited'[q] \subseteq Slot
    BY <1>0, SearchTypeStep, ZenonT(30) DEF SearchType
  <2>6. \A x \in visited'[q] : x # NULL
    BY <2>5, SMTT(30), Z3T(30) DEF Slot, NULL
  <2>. QED BY <1>0, <2>1, <2>3, <2>4, <2>6, ZenonT(30) DEF SeenAfter, Protected
<1>6. ~ScanPause(q) /\ ~ScanResume(q) /\ ~ScanEnd(q)
  <2>1. ScanPause(q) => pc'[q] = "paused"
    BY <1>0, BecomeEffect, ZenonT(30) DEF ScanPause
  <2>2. ScanEnd(q) => pc'[q] = "idle"
    BY <1>0, BecomeEffect, ZenonT(30) DEF ScanEnd
  <2>3. ScanResume(q) => resumed'[q] = TRUE
    BY Domains, Zenon DEF ScanResume
  <2>. QED BY <2>1, <2>2, <2>3, ZenonT(30)
<1>. QED BY <1>0, <1>2, <1>3, <1>4, <1>5, <1>6, OthersStep, ProcSets, ZenonT(30) DEF Next, Scan

LEMMA MarkLive ==
  ASSUME TypeOK, LocalInv, Chain, NEW R \in SUBSET Slot, Protected(R), Next, ~WaitForScans,
         pc'[Vac] \in {"mark", "end"}
  PROVE  \A s \in R : Live(s) /\ Live(s)'
<1>1. pc[Vac] \in {"mark", "end"} /\ ~RemoveHeapTids
  <2>1. CASE ~Vacuum
    <3>1. pc'[Vac] = pc[Vac] /\ ~RemoveHeapTids
      BY <2>1, NotVacuum, ZenonT(30) DEF Vacuum, VacuumStep
    <3>. QED BY <3>1, Zenon
  <2>2. CASE Vacuum
    <3>0. ~RemoveHeapTids
      <4>1. RemoveHeapTids => pc'[Vac] \in {"remove", "wait1"}
        BY Moves, Zenon DEF RemoveHeapTids
      <4>. QED BY <4>1, Zenon
    <3>1. Waited' /\ Waited
      <4>1. Waited'
        BY Zenon DEF Waited, Removed
      <4>2. ~WaitForInserts
        BY WaitMoves, Zenon
      <4>. QED BY <4>1, <4>2, WaitedStep, ZenonT(30)
    <3>2. /\ pc'[Vac] \notin {"ep2", "error", "links", "search"}
          /\ pc'[Vac] \notin {"loop", "error", "links", "search"}
          /\ pc'[Vac] \notin {"check", "loop", "wait2", "lock", "lockx", "ep2"}
          /\ pc'[Vac] \notin Repairing \cup {"error"}
          /\ pc'[Vac] \notin {"confirm", "wait3", "notrepaired"}
      BY ZenonT(30) DEF Repairing
    <3>3. ~RepairHighestPoint /\ ~RepairEntryPoint /\ ~(RepairLockShare \/ RepairLockExclusive)
      BY <3>2, HighestMoves, EntryMoves, LockMoves, ZenonT(30)
    <3>4. ~LoadPage /\ ~CheckElement /\ ~RepairFinish
      BY <3>2, PageMoves, CheckMoves, FinishMoves, ZenonT(30)
    <3>5. ~(Search(Vac) \/ OverwriteNeighbors \/ UpdateNeighbors(Vac))
      BY <3>2, RepairMoves, Zenon
    <3>6. WaitForInsertsAgain => pc'[Vac] = "confirm"
      BY Moves, Zenon DEF WaitForInsertsAgain
    <3>7. ConfirmRepaired => pc'[Vac] \in {"confirm", "wait3", "notrepaired"}
      BY Moves, Zenon DEF ConfirmRepaired
    <3>8. MarkDeleted
      BY <2>2, <3>1, <3>2, <3>3, <3>4, <3>5, <3>6, <3>7, WaitedActions, ZenonT(30)
    <3>. QED BY <3>0, <3>8, ZenonT(30) DEF MarkDeleted
  <2>. QED BY <2>1, <2>2, ZenonT(30)
<1>2. \A s \in R : Live(s)
  BY <1>1, Zenon DEF Protected
<1>. QED BY <1>1, <1>2, Monotone, ZenonT(30)

LEMMA ReachKept ==
  ASSUME TypeOK, LocalInv, Chain, PointInv, EntryRepaired, NEW R \in SUBSET Slot, Protected(R),
         Next, NoAdd, ~WaitForScans
  PROVE  Protected(R)'
<1>1. DiskPart(R)' /\ (\A p \in Updaters : LocalPart(R, p)')
  BY ReachDisk, ReachLocal, ZenonT(30)
<1>2. /\ entryPoint'.tid # NULL => entryPoint'.tid \in R
      /\ \A q \in Scanners : pc'[q] = "scan" /\ ~resumed'[q] => visited'[q] \subseteq R
  BY ReachEntry, ReachScan, ZenonT(30)
<1>3. pc'[Vac] \in {"mark", "end"} => \A s \in R : Live(s)'
  BY MarkLive, Zenon
<1>. QED BY <1>1, <1>2, <1>3, ZenonT(30) DEF Protected, DiskPart, LocalPart

LEMMA ReachAdd ==
  ASSUME TypeOK, LocalInv, Chain, PointInv, NEW R \in SUBSET Slot, Protected(R), Next,
         NEW p \in Inserters, NEW s \in Slot, AddElementOnDisk(p, s)
  PROVE  Protected(R \cup {s})'
<1> DEFINE Q == R \cup {s}
<1>0. /\ heaptids \in [Slot -> SUBSET HeapTid] /\ deleted \in [Slot -> BOOLEAN]
      /\ neighbors \in [Slot -> SUBSET Slot] /\ nslots \in 0 .. MaxSlots
      /\ self \in [Updaters -> 0 .. MaxSlots] /\ p \in Updaters
      /\ R \subseteq 1 .. nslots
  BY ProcSets, ZenonT(30) DEF TypeOK, DiskType, LinkType, Protected
<1>1. /\ s = nslots + 1 \/ deleted[s]
      /\ nslots' = IF s > nslots THEN s ELSE nslots
      /\ heaptids' = [heaptids EXCEPT ![s] = {heaptid[p]}]
      /\ deleted' = [deleted EXCEPT ![s] = FALSE]
      /\ neighbors' = [neighbors EXCEPT ![s] = sel[p]]
      /\ self' = [self EXCEPT ![p] = s]
      /\ UNCHANGED <<entryPoint, visited, lst, resumed>>
  BY Zenon DEF AddElementOnDisk, searchVars
<1>2. ~WaitForScans
  <2>2. pc[p] = "update" /\ pc'[p] = "links" /\ p # Vac /\ p \in Procs
    BY BecomeEffect, ProcSets, ProcAssumption, ZenonT(30) DEF AddElementOnDisk
  <2>3. WaitForScans => pc' = [pc EXCEPT ![Vac] = "mark"]
    BY Zenon DEF WaitForScans, Become
  <2>4. WaitForScans => pc'[p] = "update"
    BY <2>2, <2>3, Domains, ZenonT(30)
  <2>. QED BY <2>2, <2>4, ZenonT(30)
<1>3. Q \subseteq 1 .. nslots'
  BY <1>0, <1>1, SMTT(30), Z3T(30) DEF Slot
<1>4. \A t \in Q : ~deleted'[t] /\ neighbors'[t] \subseteq Q
  <2>1. sel[p] \subseteq R
    BY <1>0, SelReached, ZenonT(30)
  <2>2. ~deleted'[s] /\ neighbors'[s] \subseteq R
    BY <1>0, <1>1, <2>1, ZenonT(30)
  <2>3. ASSUME NEW t \in R, t # s PROVE ~deleted'[t] /\ neighbors'[t] \subseteq R
    BY <1>0, <1>1, <2>3, ZenonT(30) DEF Protected
  <2>. QED BY <2>2, <2>3, ZenonT(30)
<1>5. /\ \A t \in Slot : Live(t)' => t \in Q
      /\ Live(s)' /\ \A t \in Slot : Live(t) => Live(t)'
  <2>1. \A t \in Slot \ {s} : Live(t)' <=> Live(t)
    BY <1>0, <1>1, ZenonT(30) DEF Live
  <2>2. Live(s)'
    BY <1>0, <1>1, Zenon DEF Live
  <2>. QED BY <2>1, <2>2, ZenonT(30) DEF Protected
<1>6. entryPoint'.tid # NULL => entryPoint'.tid \in Q
  BY <1>1, Zenon DEF Protected
<1>7. ASSUME NEW r \in Updaters
      PROVE  visited'[r] \subseteq Q /\ lst'[r] \subseteq Q /\ (self'[r] # NULL => self'[r] \in Q)
  BY <1>0, <1>1, <1>7, ZenonT(30) DEF Protected
<1>8. \A q \in Scanners : pc'[q] = "scan" /\ ~resumed'[q] => visited'[q] \subseteq Q
  BY ReachScan, Zenon
<1>9. pc'[Vac] \in {"mark", "end"} => \A t \in Q : Live(t)'
  BY <1>2, <1>5, MarkLive, ZenonT(30)
<1>. QED BY <1>3, <1>4, <1>5, <1>6, <1>7, <1>8, <1>9, ZenonT(30) DEF Protected

\* After the last barrier the live elements are protected by themselves.
LEMMA ReachWait ==
  ASSUME TypeOK, LocalInv, LockInv, CleanInv, EntryRepaired, PagesRepaired, SeenLive, ReachInv,
         WaitForScans
  PROVE  ReachInv'
<1> DEFINE Q == {s \in Slot : Live(s)}
<1>0. PICK R \in SUBSET Slot : Protected(R)
  BY Zenon DEF ReachInv
<1>1. /\ pc[Vac] = "wait3" /\ CanExclude(scanLock, Vac) /\ Become(Vac, "mark")
      /\ UNCHANGED <<nslots, heaptids, deleted, neighbors, entryPoint, visited, lst, self>>
  BY ZenonT(30) DEF WaitForScans, diskVars, searchVars, linkVars
<1>2. /\ Waited /\ EntryDone /\ ctx = "none" /\ self[Vac] = NULL
      /\ pc[Vac] \in {"wait2", "confirm", "wait3", "mark", "end"}
      /\ pc[Vac] \in {"confirm", "wait3"}
  <2>1. ctx = "none" /\ self[Vac] = NULL
    BY <1>1, ZenonT(30) DEF LocalInv, VacuumLocal, Repairing
  <2>. QED BY <1>1, <2>1, ZenonT(30) DEF Waited, Removed, EntryDone
<1>3. Q \subseteq 1 .. nslots /\ \A s \in Q : ~deleted[s]
  BY <1>0, Zenon DEF Protected
<1>4. \A s \in Q : neighbors[s] \subseteq Q
  <2>1. \A s \in Slot : neighbors[s] \subseteq Slot
    BY ZenonT(30) DEF TypeOK, DiskType
  <2>. QED BY <1>2, <2>1, NeighborsLive, ZenonT(30)
<1>5. entryPoint.tid # NULL => entryPoint.tid \in Q
  BY <1>2, Points, ZenonT(30) DEF EntryRepaired, TypeOK
<1>6. ASSUME NEW p \in Updaters
      PROVE  visited[p] \subseteq Q /\ lst[p] \subseteq Q /\ (self[p] # NULL => self[p] \in Q)
  <2>1. visited[p] \subseteq Slot /\ lst[p] \subseteq Slot /\ self[p] \in 0 .. MaxSlots
    BY ProcSets, ZenonT(30) DEF TypeOK, SearchType, LinkType
  <2>2. self[p] # NULL => self[p] \in Slot
    BY <2>1, SMTT(30), Z3T(30) DEF Slot, NULL
  <2>3. visited[p] \subseteq Q /\ lst[p] \subseteq Q
    BY <1>2, <2>1, Zenon DEF SeenLive
  <2>. QED BY <1>2, <2>2, <2>3, ZenonT(30) DEF CleanInv, CleanLocal
<1>7. ASSUME NEW q \in Scanners PROVE pc'[q] # "scan"
  <2>1. q \in Procs /\ q # Vac /\ pc'[q] = pc[q] /\ scanLock[q] = "none"
    BY <1>1, ProcSets, ProcAssumption, Domains, ZenonT(30) DEF Become, CanExclude
  <2>. QED BY <2>1, Zenon DEF LockInv
<1>8. ReachInv'
  <2>1. \A s \in Q : Live(s)' /\ s \in Slot
    BY <1>1, Zenon DEF Live
  <2>2. \A s \in Slot : Live(s)' => s \in Q
    BY <1>1, Zenon DEF Live
  <2>3. \A r \in Updaters : /\ visited'[r] \subseteq Q /\ lst'[r] \subseteq Q
                            /\ (self'[r] # NULL => self'[r] \in Q)
    BY <1>1, <1>6, ZenonT(30)
  <2>4. Q \subseteq 1 .. nslots' /\ \A s \in Q : ~deleted'[s] /\ neighbors'[s] \subseteq Q
    BY <1>1, <1>3, <1>4, ZenonT(30)
  <2>5. entryPoint'.tid # NULL => entryPoint'.tid \in Q
    BY <1>1, <1>5, ZenonT(30)
  <2>6. PICK P : P = Q
    BY Zenon
  <2>7. Protected(P)'
    BY <1>7, <2>1, <2>2, <2>3, <2>4, <2>5, <2>6, ZenonT(30) DEF Protected
  <2>8. P \in SUBSET Slot
    BY <2>6, Zenon
  <2>. QED BY <2>7, <2>8, Zenon DEF ReachInv
<1>. QED BY <1>8, ZenonT(30)

LEMMA ReachStep ==
  ASSUME TypeOK, LocalInv, LockInv, Chain, PointInv, CleanInv, EntryRepaired, PagesRepaired,
         SeenLive, ReachInv, Next
  PROVE  ReachInv'
<1>0. PICK R \in SUBSET Slot : Protected(R)
  BY Zenon DEF ReachInv
<1>1. CASE WaitForScans
  BY <1>1, ReachWait, ZenonT(30)
<1>2. ASSUME NEW p \in Inserters, NEW s \in Slot, AddElementOnDisk(p, s) PROVE ReachInv'
  <2>1. Protected(R \cup {s})'
    BY <1>0, <1>2, ReachAdd, ZenonT(30)
  <2>. QED BY <2>1, Zenon DEF ReachInv
<1>3. CASE NoAdd /\ ~WaitForScans
  <2>1. Protected(R)'
    BY <1>0, <1>3, ReachKept, ZenonT(30)
  <2>. QED BY <2>1, Zenon DEF ReachInv
<1>. QED BY <1>1, <1>2, <1>3, ZenonT(30) DEF NoAdd

\* What a search, an update or the repair of an entry point loads is protected.
LEMMA LoadStep ==
  ASSUME TypeOK, LocalInv, PointInv, ReachInv, NoDeletedLoad, Next
  PROVE  NoDeletedLoad'
<1>0. PICK R \in SUBSET Slot : Protected(R)
  BY Zenon DEF ReachInv
<1>1. \A x \in R : ~deleted[x]
  BY <1>0, Zenon DEF Protected
<1>2. ASSUME NEW p \in Procs, Search(p), pc'[p] = "error", pc[p] # "error" PROVE ~(visited[p] \subseteq R)
  <2>1. PICK s \in todo[p] : LoadElement(p, s)
    BY <1>2, Zenon DEF Search, LoadUnvisited
  <2>2. deleted[s]
    BY <1>2, <2>1, ZenonT(30) DEF LoadElement
  <2>. QED BY <1>1, <2>2, ZenonT(30) DEF LocalInv, SearchLocal
<1>3. ASSUME NEW p \in Updaters, UpdateNeighbors(p) PROVE pc'[p] # "error"
  <2>0. p \in Procs /\ lst[p] \subseteq R
    BY <1>0, ProcSets, Zenon DEF Protected
  <2>1. \A x \in upd[p] : GetUpdateIndex(p, x) => pc'[p] = "load"
    BY <2>0, BecomeEffect, Zenon DEF GetUpdateIndex
  <2>2. UpdateNeighborOnDisk(p) => pc'[p] = "links"
    BY <2>0, BecomeEffect, ZenonT(30) DEF UpdateNeighborOnDisk
  <2>3. LoadElementsForInsert(p) => pc'[p] \in {"link", "links"}
    BY <1>1, <2>0, BecomeEffect, ZenonT(30) DEF LoadElementsForInsert
  <2>. QED BY <1>3, <2>1, <2>2, <2>3, ZenonT(30) DEF UpdateNeighbors
<1>4. ASSUME NEW p \in Inserters, Insert(p) PROVE pc'[p] # "error"
  <2>0. p \in Procs /\ p \in Updaters /\ pc[p] # "error" /\ visited[p] \subseteq R
    BY <1>0, ProcSets, ZenonT(30) DEF NoDeletedLoad, Protected
  <2>1. Search(p) => pc'[p] # "error"
    BY <1>2, <2>0, ZenonT(30)
  <2>2. UpdateNeighbors(p) => pc'[p] # "error"
    BY <1>3, <2>0, ZenonT(30)
  <2>3. InsertStart(p) \/ InsertLockShare(p) \/ InsertLockExclusive(p) \/ InsertSelect(p)
          \/ (\E s \in sel[p] : AddDuplicateOnDisk(p, s)) \/ (\E s \in Slot : AddElementOnDisk(p, s))
          \/ InsertFinish(p) \/ InsertAbort(p)
          => pc'[p] \in {"lock", "lockx", "search", "update", "links", "idle"}
    BY <2>0, BecomeEffect, ZenonT(30) DEF InsertStart, InsertLockShare, InsertLockExclusive,
       InsertSelect, AddDuplicateOnDisk, AddElementOnDisk, InsertFinish, InsertAbort
  <2>4. pc'[p] \in {"lock", "lockx", "search", "update", "links", "idle"} => pc'[p] # "error"
    BY ZenonT(30)
  <2>. QED BY <1>4, <2>1, <2>2, <2>3, <2>4, ZenonT(30) DEF Insert, InsertStep
<1>5. ASSUME Vacuum PROVE pc'[Vac] # "error"
  <2>0. Vac \in Procs /\ Vac \in Updaters /\ pc[Vac] # "error" /\ visited[Vac] \subseteq R
    BY <1>0, ProcSets, ZenonT(30) DEF NoDeletedLoad, Protected
  <2>1. Search(Vac) => pc'[Vac] # "error"
    BY <1>2, <2>0, ZenonT(30)
  <2>2. UpdateNeighbors(Vac) => pc'[Vac] # "error"
    BY <1>3, <2>0, ZenonT(30)
  <2>3. RepairHighestPoint => pc'[Vac] # "error"
    <3>. SUFFICES ASSUME RepairHighestPoint PROVE pc'[Vac] # "error"
      BY ZenonT(30)
    <3>1. /\ pc[Vac] = "ep1"
          /\ \/ pc'[Vac] \in {"ep2", "links", "search"}
             \/ \E h \in {highestPoint, fallbackPoint} : h.tid # NULL /\ deleted[h.tid]
      BY Moves, ZenonT(30) DEF RepairHighestPoint
    <3>2. Removed
      BY <3>1, ZenonT(30) DEF Removed
    <3>3. ASSUME NEW h \in {highestPoint, fallbackPoint}, h.tid # NULL PROVE ~deleted[h.tid]
      <4>1. Live(h.tid) /\ h.tid \in Slot
        BY <3>2, <3>3, Points, ZenonT(30) DEF PointInv, TypeOK, VacuumType
      <4>. QED BY <1>0, <1>1, <4>1, ZenonT(30) DEF Protected
    <3>. QED BY <3>1, <3>3, ZenonT(30)
  <2>4. RepairEntryPoint => pc'[Vac] # "error"
    <3>. SUFFICES ASSUME RepairEntryPoint PROVE pc'[Vac] # "error"
      BY SMTT(30), Z3T(30)
    <3>1. \/ pc'[Vac] \in {"loop", "links", "search"}
          \/ entryPoint.tid # NULL /\ deleted[entryPoint.tid]
      BY Moves, ZenonT(30) DEF RepairEntryPoint
    <3>2. entryPoint.tid # NULL => ~deleted[entryPoint.tid]
      BY <1>0, <1>1, ZenonT(30) DEF Protected
    <3>. QED BY <3>1, <3>2, ZenonT(30)
  <2>5. VacuumStart \/ WaitForInserts \/ RemoveHeapTids \/ LoadPage \/ CheckElement
          \/ OverwriteNeighbors \/ RepairFinish \/ RepairLockShare \/ RepairLockExclusive
          => pc'[Vac] \in {"remove", "wait1", "ep1", "ep2", "loop", "check", "lock", "lockx",
                           "links", "search", "wait2"}
    BY Moves, ZenonT(30) DEF VacuumStart, WaitForInserts, RemoveHeapTids, LoadPage, CheckElement,
       OverwriteNeighbors, RepairFinish, RepairLockShare, RepairLockExclusive
  <2>6. WaitForInsertsAgain \/ WaitForScans \/ ConfirmRepaired \/ MarkDeleted \/ VacuumEnd
          \/ VacuumAbort
          => pc'[Vac] \in {"confirm", "mark", "notrepaired", "wait3", "end", "idle"}
    BY Moves, ZenonT(30) DEF WaitForInsertsAgain, WaitForScans, ConfirmRepaired, MarkDeleted,
       VacuumEnd, VacuumAbort
  <2>7. /\ pc'[Vac] \in {"remove", "wait1", "ep1", "ep2", "loop", "check", "lock", "lockx",
                         "links", "search", "wait2"} => pc'[Vac] # "error"
        /\ pc'[Vac] \in {"confirm", "mark", "notrepaired", "wait3", "end", "idle"}
              => pc'[Vac] # "error"
    BY ZenonT(30)
  <2>. QED BY <1>5, <2>1, <2>2, <2>3, <2>4, <2>5, <2>6, <2>7, ZenonT(30) DEF Vacuum, VacuumStep,
          VacuumLock
<1>6. ASSUME NEW p \in Updaters PROVE pc'[p] # "error"
  <2>0. p \in Procs /\ pc[p] # "error" /\ p \notin Scanners
    BY ProcSets, ProcAssumption, ZenonT(30) DEF NoDeletedLoad, Updaters
  <2>1. ASSUME NEW r \in Procs, r # p, Others(r) PROVE pc'[p] # "error"
    BY <2>0, <2>1, ZenonT(30) DEF Others
  <2>2. ASSUME NEW h \in HeapTid, HeapDelete(h) PROVE pc'[p] # "error"
    BY <2>0, <2>2, ZenonT(30) DEF HeapDelete
  <2>. QED BY <1>4, <1>5, <2>0, <2>1, <2>2, OthersStep, ProcSets, ZenonT(30) DEF Next
<1>7. ASSUME NEW q \in Scanners, pc'[q] = "error" PROVE resumed'[q]
  <2>0. q \in Procs /\ q \notin Inserters /\ q # Vac /\ (pc[q] = "error" => resumed[q])
        /\ pc[q] \in ScannerPc
    BY ProcSets, ProcAssumption, ZenonT(30) DEF NoDeletedLoad, TypeOK, ControlType
  <2>1. ASSUME NEW r \in Procs, r # q, Others(r) PROVE resumed'[q]
    BY <1>7, <2>0, <2>1, ZenonT(30) DEF Others
  <2>2. ASSUME NEW h \in HeapTid, HeapDelete(h) PROVE resumed'[q]
    BY <1>7, <2>0, <2>2, ZenonT(30) DEF HeapDelete
  <2>3. ASSUME Search(q) PROVE resumed'[q]
    <3>1. pc[q] \in {"search", "scan"} /\ resumed' = resumed
      BY <2>3, Zenon DEF Search, LoadElement, LoadUnvisited
    <3>2. pc[q] = "scan" /\ pc[q] # "error"
      BY <2>0, <3>1, ZenonT(30) DEF ScannerPc
    <3>3. ~(visited[q] \subseteq R)
      BY <1>2, <1>7, <2>0, <2>3, <3>2, ZenonT(30)
    <3>. QED BY <1>0, <3>1, <3>2, <3>3, ZenonT(30) DEF Protected
  <2>4. ~ScanStart(q) /\ ~ScanPause(q) /\ ~ScanResume(q) /\ ~ScanEnd(q)
    <3>1. ScanStart(q) \/ ScanPause(q) \/ ScanResume(q) \/ ScanEnd(q)
            => pc'[q] \in {"scan", "paused", "idle"}
      BY <2>0, BecomeEffect, ZenonT(30) DEF ScanStart, ScanPause, ScanResume, ScanEnd
    <3>. QED BY <1>7, <3>1, ZenonT(30)
  <2>. QED BY <2>0, <2>1, <2>2, <2>3, <2>4, OthersStep, ProcSets, ZenonT(30) DEF Next, Scan
<1>. QED BY <1>6, <1>7, ZenonT(30) DEF NoDeletedLoad

-----------------------------------------------------------------------------
(* The inductive invariant, and what it implies. *)

LEMMA InitInv ==
  ASSUME Init
  PROVE  IInv
<1>1. TypeOK /\ LocalInv
  BY InitOK, Zenon
<1>2. /\ nslots = NBuilt
      /\ heaptids = [s \in Slot |-> IF s <= NBuilt THEN {s} ELSE {}]
      /\ deleted = [s \in Slot |-> FALSE]
      /\ neighbors = [s \in Slot |-> IF s <= NBuilt THEN BuiltNeighbors[s] ELSE {}]
      /\ updateLock = [p \in Procs |-> "none"]
      /\ pc = [p \in Procs |-> "idle"]
      /\ visited = [p \in Procs |-> {}] /\ loaded = [p \in Procs |-> {}]
      /\ self = [p \in Updaters |-> NULL] /\ sel = [p \in Updaters |-> {}]
      /\ lst = [p \in Updaters |-> {}]
      /\ ctx = "none"
  BY Zenon DEF Init
<1>3. \A p \in Procs : pc[p] = "idle" /\ updateLock[p] = "none"
  BY <1>2, Zenon
<1>4. pc[Vac] = "idle" /\ ~Removed /\ ~Waited /\ ~EntryDone
  <2>1. pc[Vac] = "idle"
    BY <1>3, ProcSets, ZenonT(30)
  <2>. QED BY <2>1, SMTT(30), Z3T(30) DEF Removed, Waited, EntryDone
<1>5. LockInv
  BY <1>3, ProcSets, ZenonT(30) DEF LockInv, Active, Repairing
<1>6. Chain
  BY <1>2, Zenon DEF Chain
<1>7. PointInv /\ CleanInv
  <2>1. ~(pc[Vac] \in {"wait1", "ep1", "ep2"} \/ ctx \in {"ep1", "ep2"})
    BY <1>2, <1>4, Zenon
  <2>2. /\ pc[Vac] # "remove" /\ pc[Vac] \notin {"remove", "wait1", "ep1"}
        /\ pc[Vac] \notin {"check", "lock", "lockx"}
    BY <1>4, Zenon
  <2>. QED BY <1>4, <2>1, <2>2, ZenonT(30) DEF PointInv, CleanInv
<1>8. RepairInv
  BY <1>2, <1>4, ZenonT(30) DEF RepairInv, EntryRepaired, PagesRepaired, SeenLive, Repairing
<1>9. NoDeletedLoad
  <2>1. \A p \in Procs : pc[p] # "error"
    BY <1>3, SMTT(30), Z3T(30)
  <2>. QED BY <2>1, ProcSets, ZenonT(30) DEF NoDeletedLoad
<1>10. ReachInv
  <2> DEFINE R == 1 .. NBuilt
  <2>1. R \in SUBSET Slot
    <3>1. \A x \in 1 .. NBuilt : x \in 1 .. MaxSlots
      BY BoundAssumption, SMTT(30), Z3T(30)
    <3>. QED BY <3>1, Zenon DEF Slot
  <2>2. \A s \in R : ~deleted[s] /\ neighbors[s] \subseteq R
    <3>1. \A s \in 1 .. NBuilt : BuiltNeighbors[s] \in SUBSET (1 .. NBuilt) /\ s <= NBuilt
      BY BoundAssumption, SMTT(30), Z3T(30)
    <3>. QED BY <1>2, <2>1, <3>1, ZenonT(30)
  <2>3. \A s \in Slot : Live(s) => s \in R
    BY <1>2, SMTT(30), Z3T(30) DEF Live, Slot
  <2>4. entryPoint.tid # NULL => entryPoint.tid \in R
    <3>1. CASE NBuilt = 0
      BY <3>1, SMTT(30), Z3T(30) DEF Init, NoPoint
    <3>2. CASE NBuilt # 0
      <4>1. \E s \in 1 .. NBuilt : entryPoint = [tid |-> s, level |-> level[s]]
        BY <3>2, Zenon DEF Init
      <4>. QED BY <4>1, SMTT(30), Z3T(30)
    <3>. QED BY <3>1, <3>2, ZenonT(30)
  <2>5. \A p \in Updaters : visited[p] = {} /\ lst[p] = {} /\ self[p] = NULL
    BY <1>2, ProcSets, ZenonT(30)
  <2>6. \A q \in Scanners : visited[q] = {}
    BY <1>2, ProcSets, ZenonT(30)
  <2>7. ~(pc[Vac] \in {"mark", "end"}) /\ R \subseteq 1 .. nslots
    BY <1>2, <1>4, ZenonT(30)
  <2>8. Protected(R)
    BY <2>2, <2>3, <2>4, <2>5, <2>6, <2>7, ZenonT(30) DEF Protected
  <2>. QED BY <2>1, <2>8, Zenon DEF ReachInv
<1>. QED BY <1>1, <1>5, <1>6, <1>7, <1>8, <1>9, <1>10, ZenonT(30) DEF IInv

LEMMA NextInv ==
  ASSUME IInv, Next
  PROVE  IInv'
<1>0. /\ TypeOK /\ LocalInv /\ LockInv /\ Chain /\ PointInv /\ CleanInv /\ EntryRepaired
      /\ PagesRepaired /\ SeenLive /\ ReachInv /\ NoDeletedLoad
  BY Zenon DEF IInv, RepairInv
<1>1. TypeOK' /\ LocalInv'
  BY <1>0, DiskTypeStep, EntryTypeStep, HeapTypeStep, LockTypeStep, ControlTypeStep,
     SearchTypeStep, LinkTypeStep, VacuumTypeStep, LocalStep, ZenonT(30) DEF TypeOK
<1>2. LockInv' /\ Chain' /\ PointInv'
  BY <1>0, LockStep, ChainStep, PointStep, ZenonT(30)
<1>3. CleanInv' /\ EntryRepaired' /\ PagesRepaired' /\ SeenLive'
  BY <1>0, CleanStep, EntryStep, PagesStep, SeenStep, ZenonT(30)
<1>4. ReachInv' /\ NoDeletedLoad'
  BY <1>0, ReachStep, LoadStep, ZenonT(30)
<1>. QED BY <1>1, <1>2, <1>3, <1>4, ZenonT(30) DEF IInv, RepairInv

LEMMA StutterInv ==
  ASSUME IInv, UNCHANGED vars
  PROVE  IInv'
<1>0. /\ TypeOK /\ LocalInv /\ LockInv /\ Chain /\ PointInv /\ CleanInv /\ EntryRepaired
      /\ PagesRepaired /\ SeenLive /\ ReachInv /\ NoDeletedLoad
  BY Zenon DEF IInv, RepairInv
<1>1. UNCHANGED <<nslots, heaptids, deleted, neighbors, entryPoint, updateLock, scanLock, pc,
                  visited, loaded, self, sel, lst, resumed, vdeleted, highestPoint,
                  fallbackPoint, hp, blkno, nextblkno, ctx>>
  BY Zenon DEF vars, diskVars, lockVars, searchVars, linkVars, vacVars
<1>2. TypeOK' /\ LocalInv'
  BY <1>0, Stutter, Zenon
<1>3. LockInv' /\ Chain'
  BY <1>0, <1>1, Zenon DEF LockInv, Chain
<1>4. /\ Removed' = Removed /\ Waited' = Waited /\ EntryDone' = EntryDone
      /\ \A s : Live(s)' = Live(s) /\ Empty(s)' = Empty(s) /\ Dirty(s)' = Dirty(s)
  BY <1>1, Zenon DEF Removed, Waited, EntryDone, Live, Empty, Dirty
<1>5. PointInv'
  BY <1>0, <1>1, Zenon DEF PointInv, Removed, Live, Empty
<1>6. CleanInv'
  <2>1. ASSUME NEW p \in Updaters, CleanLocal(p) PROVE CleanLocal(p)'
    BY <1>1, <2>1, ZenonT(30) DEF CleanLocal, Live, Dirty, Empty
  <2>. QED BY <1>0, <1>4, <2>1, ZenonT(30) DEF CleanInv
<1>7. EntryRepaired' /\ PagesRepaired' /\ SeenLive'
  <2>1. EntryRepaired'
    BY <1>0, <1>1, <1>4, ZenonT(30) DEF EntryRepaired, Live, Dirty, Empty
  <2>2. PagesRepaired'
    BY <1>0, <1>1, <1>4, ZenonT(30) DEF PagesRepaired
  <2>3. SeenLive'
    BY <1>0, <1>1, <1>4, ZenonT(30) DEF SeenLive
  <2>. QED BY <2>1, <2>2, <2>3, ZenonT(30)
<1>8. ReachInv'
  BY <1>0, <1>1, Zenon DEF ReachInv, Protected, Live
<1>9. NoDeletedLoad'
  BY <1>0, <1>1, Zenon DEF NoDeletedLoad
<1>. QED BY <1>2, <1>3, <1>4, <1>5, <1>6, <1>7, <1>8, <1>9, ZenonT(30) DEF IInv, RepairInv

LEMMA Consequences ==
  ASSUME IInv
  PROVE  NoDeletedLoad /\ LinksNotDeleted /\ RepairComplete
<1>0. /\ TypeOK /\ LocalInv /\ EntryRepaired /\ PagesRepaired /\ ReachInv /\ NoDeletedLoad
  BY Zenon DEF IInv, RepairInv
<1>1. PICK R \in SUBSET Slot : Protected(R)
  BY <1>0, Zenon DEF ReachInv
<1>2. LinksNotDeleted
  BY <1>1, Zenon DEF LinksNotDeleted, Protected
<1>3. RepairComplete
  <2>. SUFFICES ASSUME pc[Vac] \in {"wait2", "confirm", "wait3", "mark", "end"}
                PROVE  /\ entryPoint.tid # NULL => ~Empty(entryPoint.tid)
                       /\ \A s \in Slot : Live(s) => \A t \in neighbors[s] : ~Empty(t)
    BY Zenon DEF RepairComplete
  <2>1. \A s \in Slot : ~Dirty(s)
    BY <1>0, ZenonT(30) DEF PagesRepaired
  <2>2. ctx = "none"
    BY <1>0, Zenon DEF LocalInv, VacuumLocal, Repairing
  <2>3. EntryDone
    BY <2>2, ZenonT(30) DEF EntryDone, Waited, Removed
  <2>4. entryPoint.tid # NULL => ~Empty(entryPoint.tid)
    BY <1>0, <2>3, Zenon DEF EntryRepaired, Empty, Live
  <2>. QED BY <2>1, <2>4, ZenonT(30) DEF Dirty
<1>. QED BY <1>0, <1>2, <1>3, ZenonT(30)

LEMMA MarkStep ==
  ASSUME IInv, Next
  PROVE  \A s \in Slot : deleted'[s] /\ ~deleted[s] =>
           /\ \A p \in Updaters : s \notin visited[p] \cup lst[p]
           /\ \A q \in Scanners : pc[q] = "scan" /\ ~resumed[q] => s \notin visited[q]
<1>0. TypeOK /\ ReachInv /\ deleted \in [Slot -> BOOLEAN]
  BY Zenon DEF IInv, TypeOK, DiskType
<1>1. PICK R \in SUBSET Slot : Protected(R)
  BY <1>0, Zenon DEF ReachInv
<1>2. ASSUME NEW s \in Slot, deleted'[s], ~deleted[s] PROVE s \notin R
  <2>1. MarkDeleted
    <3>1. RemoveHeapTids \/ (\E p \in Updaters : UpdateNeighborOnDisk(p)) \/ OverwriteNeighbors
            \/ (\E p \in Inserters : \E t \in sel[p] : AddDuplicateOnDisk(p, t))
            \/ UNCHANGED diskVars
            => UNCHANGED deleted
      BY Zenon DEF RemoveHeapTids, UpdateNeighborOnDisk, OverwriteNeighbors, AddDuplicateOnDisk,
         diskVars
    <3>2. ASSUME NEW p \in Inserters, NEW t \in Slot, AddElementOnDisk(p, t) PROVE FALSE
      <4>1. deleted' = [deleted EXCEPT ![t] = FALSE]
        BY <3>2, Zenon DEF AddElementOnDisk
      <4>. QED BY <1>0, <1>2, <4>1, ZenonT(30)
    <3>. QED BY <1>2, <3>1, <3>2, DiskWriters, ZenonT(30)
  <2>2. /\ pc[Vac] = "mark"
        /\ UNCHANGED deleted \/ (~Live(blkno) /\ deleted' = [deleted EXCEPT ![blkno] = TRUE])
    BY <2>1, Zenon DEF MarkDeleted
  <2>3. s = blkno /\ ~Live(blkno)
    BY <1>0, <1>2, <2>2, ZenonT(30)
  <2>4. \A t \in R : Live(t)
    BY <1>1, <2>2, ZenonT(30) DEF Protected
  <2>. QED BY <2>3, <2>4, ZenonT(30)
<1>. QED BY <1>1, <1>2, ZenonT(30) DEF Protected

\* IInv is an inductive invariant of the index: it holds after a build and every
\* step of an insert, a scan, the heap or the vacuum preserves it.
THEOREM Invariance == Spec => []IInv
<1>1. Init => IInv
  BY InitInv, Zenon
<1>2. IInv /\ [Next]_vars => IInv'
  BY NextInv, StutterInv, ZenonT(30)
<1>. QED BY <1>1, <1>2, PTL DEF Spec

\* For any number of inserting and scanning backends and any sizes: no insert, no
\* vacuum and no first iteration of a scan raises "cannot load deleted element"
\* (HnswLoadElementImpl).
THEOREM Safety == Spec => []NoDeletedLoad
<1>1. IInv => NoDeletedLoad
  BY Consequences, ZenonT(30)
<1>. QED BY <1>1, Invariance, PTL

\* Neither the entry point nor a neighbor of a live element is ever marked as
\* deleted by MarkDeleted.
THEOREM LinksSafe == Spec => []LinksNotDeleted
<1>1. IInv => LinksNotDeleted
  BY Consequences, ZenonT(30)
<1>. QED BY <1>1, Invariance, PTL

\* Once RepairGraph is past the last page, nothing leads to an element that is being
\* deleted, whatever is inserted meanwhile.
THEOREM Repaired == Spec => []RepairComplete
<1>1. IInv => RepairComplete
  BY Consequences, ZenonT(30)
<1>. QED BY <1>1, Invariance, PTL

\* MarkDeleted never marks an element that an insert, a repair or a first
\* iteration of a scan in flight has come across.
THEOREM MarksUnseen == Spec => MarkUnseen
<1>1. IInv /\ [Next]_vars =>
        [\A s \in Slot : deleted'[s] /\ ~deleted[s] =>
           /\ \A p \in Updaters : s \notin visited[p] \cup lst[p]
           /\ \A q \in Scanners : pc[q] = "scan" /\ ~resumed[q] => s \notin visited[q]]_vars
  BY MarkStep, Zenon
<1>. QED BY <1>1, Invariance, PTL DEF Spec, MarkUnseen

-----------------------------------------------------------------------------
(* The versions of the tuples *)

\* Version v is the one a slot has after g marks: 1, 2, ... MaxVersion, 1, ...
Numbered(v, g) == \E k \in Nat : g = k * MaxVersion + (v - 1)

\* One vacuum marks a slot at most once: MarkDeleted visits every page once, and
\* vacuums do not overlap
MarkedOnce ==
  /\ \A s \in Slot : gen[s] <= vacuums
  /\ pc[Vac] \notin {"idle", "mark", "end"} => \A s \in Slot : gen[s] < vacuums
  /\ pc[Vac] = "mark" => \A s \in Slot : blkno <= s => gen[s] < vacuums

\* What the backends loaded is not newer than the slots
CopiesNumbered ==
  \A p \in Procs : \A c \in loaded[p] : c.gen <= gen[c.tid] /\ Numbered(c.version, c.gen)

VersionInv ==
  /\ \A s \in Slot : Numbered(version[s], gen[s])
  /\ MarkedOnce
  /\ CopiesNumbered

\* Two counts of marks that differ by less than MaxVersion have different versions
LEMMA SameVersion ==
  ASSUME NEW v \in 1 .. MaxVersion, NEW g \in Nat, NEW h \in Nat, Numbered(v, g), Numbered(v, h),
         g <= h, h - g < MaxVersion
  PROVE  g = h
<1>1. PICK k \in Nat : g = k * MaxVersion + (v - 1)
  BY SMTT(30), Z3T(30) DEF Numbered
<1>2. PICK l \in Nat : h = l * MaxVersion + (v - 1)
  BY SMTT(30), Z3T(30) DEF Numbered
<1>3. MaxVersion \in Nat \ {0}
  BY BoundAssumption, Zenon
<1>4. (l - k) * MaxVersion = h - g
  BY <1>1, <1>2, <1>3, SMTT(30), Z3T(30)
<1>5. CASE l - k >= 1
  <2>1. (l - k) * MaxVersion >= MaxVersion
    BY <1>3, <1>5, SMTT(30), Z3T(30)
  <2>. QED BY <1>3, <1>4, <2>1, SMTT(30), Z3T(30)
<1>6. CASE l - k <= -1
  <2>1. (l - k) * MaxVersion <= -MaxVersion
    BY <1>3, <1>6, SMTT(30), Z3T(30)
  <2>. QED BY <1>3, <1>4, <2>1, SMTT(30), Z3T(30)
<1>7. CASE l = k
  BY <1>1, <1>2, <1>7, ZenonT(30)
<1>. QED BY <1>5, <1>6, <1>7, SMTT(30), Z3T(30)

LEMMA NumberedNext ==
  ASSUME NEW v \in 1 .. MaxVersion, NEW g \in Nat, Numbered(v, g)
  PROVE  Numbered(NextVersion(v), g + 1)
<1>1. PICK k \in Nat : g = k * MaxVersion + (v - 1)
  BY SMTT(30), Z3T(30) DEF Numbered
<1>2. MaxVersion \in Nat \ {0}
  BY BoundAssumption, Zenon
<1>3. CASE v = MaxVersion
  <2>1. NextVersion(v) = 1
    BY <1>2, <1>3, SMTT(30), Z3T(30) DEF NextVersion
  <2>2. g + 1 = (k + 1) * MaxVersion + (1 - 1)
    BY <1>1, <1>2, <1>3, SMTT(30), Z3T(30)
  <2>. QED BY <2>1, <2>2, SMTT(30), Z3T(30) DEF Numbered
<1>4. CASE v # MaxVersion
  <2>1. NextVersion(v) = v + 1
    BY <1>2, <1>4, SMTT(30), Z3T(30) DEF NextVersion
  <2>2. k * MaxVersion \in Int
    BY <1>2, SMTT(30), Z3T(30)
  <2>3. g + 1 = k * MaxVersion + ((v + 1) - 1)
    BY <1>1, <2>2, SMTT(30), Z3T(30)
  <2>. QED BY <2>1, <2>3, Zenon DEF Numbered
<1>. QED BY <1>3, <1>4, Zenon

\* Only MarkDeleted counts a mark, at the page it visits
LEMMA MarkEffect ==
  ASSUME TypeOK, MarkDeleted
  PROVE  /\ pc[Vac] = "mark" /\ UNCHANGED <<loaded, vacuums>>
         /\ \A s \in Slot : \/ gen'[s] = gen[s] /\ version'[s] = version[s]
                            \/ /\ s = blkno /\ gen'[s] = gen[s] + 1
                               /\ version'[s] = NextVersion(version[s])
         /\ \/ pc'[Vac] = "end"
            \/ pc'[Vac] = "mark" /\ blkno' = blkno + 1
<1>1. /\ pc[Vac] = "mark" /\ UNCHANGED <<loaded, vacuums>>
      /\ \/ UNCHANGED <<version, gen>>
         \/ /\ version' = [version EXCEPT ![blkno] = NextVersion(@)]
            /\ gen' = [gen EXCEPT ![blkno] = @ + 1]
      /\ Advance(NextPage(blkno), "mark", "end")
  BY Zenon DEF MarkDeleted, searchVars
<1>2. version \in [Slot -> 1 .. MaxVersion] /\ gen \in [Slot -> Nat]
  BY Zenon DEF TypeOK, DiskType
<1>3. \A s \in Slot : \/ gen'[s] = gen[s] /\ version'[s] = version[s]
                      \/ /\ s = blkno /\ gen'[s] = gen[s] + 1
                         /\ version'[s] = NextVersion(version[s])
  BY <1>1, <1>2, Zenon
<1>4. pc' = [pc EXCEPT ![Vac] = IF NextPage(blkno) = NULL THEN "end" ELSE "mark"]
  BY <1>1, Zenon DEF Advance, Become
<1>5. pc'[Vac] = IF NextPage(blkno) = NULL THEN "end" ELSE "mark"
  BY <1>4, Domains, ProcSets, Zenon
<1>6. NextPage(blkno) # NULL => blkno' = NextPage(blkno)
  BY <1>1, Zenon DEF Advance
<1>7. NextPage(blkno) \in {NULL, blkno + 1}
  BY Zenon DEF NextPage
<1>. QED BY <1>1, <1>3, <1>5, <1>6, <1>7, Zenon

\* What the other steps of a vacuum do to the count of vacuums
LEMMA VacuumCount ==
  ASSUME TypeOK, Vacuum
  PROVE  \/ MarkDeleted
         \/ UNCHANGED <<version, gen>> /\ vacuums' = vacuums + 1 /\ pc[Vac] = "idle"
         \/ UNCHANGED <<version, gen, vacuums>> /\ pc'[Vac] = "idle"
         \/ UNCHANGED <<version, gen, vacuums>> /\ pc[Vac] \notin {"idle", "mark", "end"}
<1>1. VacuumStart => UNCHANGED <<version, gen>> /\ vacuums' = vacuums + 1 /\ pc[Vac] = "idle"
  BY Zenon DEF VacuumStart, diskVars
<1>2. VacuumEnd \/ VacuumAbort => UNCHANGED <<version, gen, vacuums>> /\ Become(Vac, "idle")
  BY Zenon DEF VacuumEnd, VacuumAbort, diskVars
<1>3. VacuumLock => /\ UNCHANGED <<version, gen, vacuums>>
                    /\ pc[Vac] \in {"wait1", "ep1", "ep2", "lock", "lockx", "wait2", "wait3"}
  BY Zenon DEF VacuumLock, WaitForInserts, RepairHighestPoint, RepairEntryPoint, RepairLockShare,
     RepairLockExclusive, WaitForInsertsAgain, WaitForScans, diskVars, vacVars
<1>4. Search(Vac) => UNCHANGED <<version, gen, vacuums>> /\ pc[Vac] \in {"search", "scan"}
  BY Zenon DEF Search, LoadElement, LoadUnvisited, diskVars, vacVars
<1>5. UpdateNeighbors(Vac) =>
        UNCHANGED <<version, gen, vacuums>> /\ pc[Vac] \in {"links", "load", "link"}
  BY Zenon DEF UpdateNeighbors, GetUpdateIndex, LoadElementsForInsert, UpdateNeighborOnDisk,
     diskVars, vacVars
<1>6. RemoveHeapTids \/ LoadPage \/ CheckElement \/ OverwriteNeighbors \/ RepairFinish
        \/ ConfirmRepaired
      => /\ UNCHANGED <<version, gen, vacuums>>
         /\ pc[Vac] \in {"remove", "loop", "check", "search", "links", "confirm"}
  BY Zenon DEF RemoveHeapTids, LoadPage, CheckElement, OverwriteNeighbors, RepairFinish,
     ConfirmRepaired, diskVars, vacVars
<1>7. Become(Vac, "idle") => pc'[Vac] = "idle"
  BY BecomeEffect, ProcSets, Zenon
<1>8. /\ \A x \in {"wait1", "ep1", "ep2", "lock", "lockx", "wait2", "wait3"} : x \notin {"idle", "mark", "end"}
      /\ \A x \in {"search", "scan"} : x \notin {"idle", "mark", "end"}
      /\ \A x \in {"links", "load", "link"} : x \notin {"idle", "mark", "end"}
      /\ \A x \in {"remove", "loop", "check", "search", "links", "confirm"} : x \notin {"idle", "mark", "end"}
  BY SMTT(30), Z3T(30)
<1>. QED BY <1>1, <1>2, <1>3, <1>4, <1>5, <1>6, <1>7, <1>8, Zenon DEF Vacuum, VacuumStep

LEMMA VersionsKept ==
  ASSUME Next
  PROVE  UNCHANGED <<version, gen>> \/ MarkDeleted
<1>1. \A p, s : AddDuplicateOnDisk(p, s) \/ AddElementOnDisk(p, s) => UNCHANGED <<version, gen>>
  BY Zenon DEF AddDuplicateOnDisk, AddElementOnDisk
<1>2. \A p : UpdateNeighborOnDisk(p) => UNCHANGED <<version, gen>>
  BY Zenon DEF UpdateNeighborOnDisk
<1>3. RemoveHeapTids \/ OverwriteNeighbors \/ UNCHANGED diskVars => UNCHANGED <<version, gen>>
  BY Zenon DEF RemoveHeapTids, OverwriteNeighbors, diskVars
<1>. QED BY <1>1, <1>2, <1>3, DiskWriters, Zenon

LEMMA MarkedOnceStep ==
  ASSUME TypeOK, TypeOK', MarkedOnce, Next
  PROVE  MarkedOnce'
<1>0. /\ \A s \in Slot : gen[s] \in Nat /\ gen'[s] \in Nat /\ s \in Nat
      /\ vacuums \in Nat /\ vacuums' \in Nat /\ blkno \in Nat
  <2>1. gen \in [Slot -> Nat] /\ gen' \in [Slot -> Nat]
    BY Zenon DEF TypeOK, DiskType
  <2>2. /\ vacuums \in 0 .. MaxVacuums /\ vacuums' \in 0 .. MaxVacuums
        /\ blkno \in 1 .. (MaxSlots + 1)
    BY Zenon DEF TypeOK, VacuumType
  <2>. QED BY <2>1, <2>2, BoundAssumption, SMTT(30), Z3T(30) DEF Slot
<1>1. CASE MarkDeleted
  <2>1. /\ pc[Vac] = "mark" /\ vacuums' = vacuums
        /\ \A s \in Slot : gen'[s] = gen[s] \/ (s = blkno /\ gen'[s] = gen[s] + 1)
        /\ pc'[Vac] = "end" \/ (pc'[Vac] = "mark" /\ blkno' = blkno + 1)
    BY <1>1, MarkEffect, Zenon
  <2>2. /\ \A s \in Slot : gen[s] <= vacuums
        /\ \A s \in Slot : blkno <= s => gen[s] < vacuums
    BY <2>1, Zenon DEF MarkedOnce
  <2>3. \A s \in Slot : gen'[s] <= vacuums'
    BY <1>0, <2>1, <2>2, SMTT(30), Z3T(30)
  <2>4. \A s \in Slot : blkno + 1 <= s => gen'[s] < vacuums'
    BY <1>0, <2>1, <2>2, SMTT(30), Z3T(30)
  <2>5. pc'[Vac] \in {"idle", "mark", "end"} /\ (pc'[Vac] = "mark" => blkno' = blkno + 1)
    BY <2>1, SMTT(30), Z3T(30)
  <2>. QED BY <2>3, <2>4, <2>5, Zenon DEF MarkedOnce
<1>2. CASE UNCHANGED gen /\ vacuums' = vacuums + 1 /\ pc[Vac] = "idle"
  <2>1. \A s \in Slot : gen'[s] < vacuums'
    BY <1>0, <1>2, SMTT(30), Z3T(30) DEF MarkedOnce
  <2>2. \A s \in Slot : gen'[s] <= vacuums'
    BY <1>0, <2>1, SMTT(30), Z3T(30)
  <2>. QED BY <2>1, <2>2, Zenon DEF MarkedOnce
<1>3. CASE UNCHANGED <<gen, vacuums>> /\ pc'[Vac] = "idle"
  <2>1. pc'[Vac] \in {"idle", "mark", "end"} /\ pc'[Vac] # "mark"
    BY <1>3, Zenon
  <2>. QED BY <1>3, <2>1, Zenon DEF MarkedOnce
<1>4. CASE UNCHANGED <<gen, vacuums>> /\ pc[Vac] \notin {"idle", "mark", "end"}
  <2>1. gen' = gen /\ vacuums' = vacuums
    BY <1>4, Zenon
  <2>2. \A s \in Slot : gen'[s] <= vacuums' /\ gen'[s] < vacuums'
    BY <1>4, <2>1, Zenon DEF MarkedOnce
  <2>. QED BY <2>2, Zenon DEF MarkedOnce
<1>5. CASE UNCHANGED <<gen, vacVars>> /\ pc'[Vac] = pc[Vac]
  BY <1>5, Zenon DEF MarkedOnce, vacVars
<1>6. ASSUME NEW p \in Inserters, Insert(p) PROVE UNCHANGED vacVars /\ pc'[Vac] = pc[Vac]
  <2>1. p # Vac /\ Vac \in Procs
    BY ProcSets, ProcAssumption, Zenon
  <2>2. Others(p)
    BY <1>6, OthersStep, Zenon
  <2>3. Vac \in Procs \ {p}
    BY <2>1, Zenon
  <2>. QED BY <2>1, <2>2, <2>3, Zenon DEF Others
<1>7. ASSUME NEW q \in Scanners, Scan(q) PROVE UNCHANGED vacVars /\ pc'[Vac] = pc[Vac]
  <2>1. q # Vac /\ Vac \in Procs
    BY ProcSets, ProcAssumption, Zenon
  <2>2. Others(q)
    BY <1>7, OthersStep, Zenon
  <2>3. Vac \in Procs \ {q}
    BY <2>1, SMTT(30), Z3T(30)
  <2>. QED BY <2>1, <2>2, <2>3, Zenon DEF Others
<1>8. ASSUME NEW h \in HeapTid, HeapDelete(h) PROVE UNCHANGED vacVars /\ pc'[Vac] = pc[Vac]
  BY <1>8, Zenon DEF HeapDelete
<1>9. UNCHANGED gen \/ MarkDeleted
  BY VersionsKept, Zenon
<1>. QED BY <1>1, <1>2, <1>3, <1>4, <1>5, <1>6, <1>7, <1>8, <1>9, VacuumCount, Zenon DEF Next

\* A search holds what it held or what it copies from a tuple
LEMMA LoadedFrom ==
  ASSUME TypeOK, Next, NEW p \in Procs, NEW c \in loaded'[p]
  PROVE  c \in loaded[p] \/ \E s \in Slot : c = Copy(s)
<1>0. DOMAIN loaded = Procs /\ todo \in [Procs -> SUBSET Slot]
  BY Domains, Zenon DEF TypeOK, SearchType
<1>1. ASSUME NEW r \in Procs, NEW e, BeginSearch(r, e) PROVE c \in loaded[p]
  <2>1. loaded' = [loaded EXCEPT ![r] = {}]
    BY <1>1, Zenon DEF BeginSearch
  <2>. QED BY <1>0, <2>1, Zenon
<1>2. ASSUME NEW r \in Procs, NEW s \in todo[r], LoadElement(r, s)
      PROVE  c \in loaded[p] \/ \E t \in Slot : c = Copy(t)
  <2>1. loaded' = loaded \/ loaded' = [loaded EXCEPT ![r] = @ \cup {Copy(s)}]
    BY <1>2, Zenon DEF LoadElement
  <2>2. s \in Slot
    BY <1>0, Zenon
  <2>. QED BY <1>0, <2>1, <2>2, Zenon
<1>3. ASSUME NEW r \in Scanners, ScanPause(r) PROVE c \in loaded[p]
  <2>1. PICK W : loaded' = [loaded EXCEPT ![r] = @ \ W]
    BY <1>3, Zenon DEF ScanPause
  <2>. QED BY <1>0, <2>1, Zenon
<1>4. UNCHANGED searchVars => c \in loaded[p]
  BY Zenon DEF searchVars
<1>5. ASSUME NEW s, NEW e, NEW w, BeginRepair(s, e, w) PROVE c \in loaded[p]
  <2>1. UNCHANGED searchVars \/ BeginSearch(Vac, e)
    BY <1>5, Zenon DEF BeginRepair
  <2>. QED BY <1>1, <1>4, <2>1, ProcSets, Zenon
<1>6. ASSUME NEW r \in Procs, ForgetSearch(r) PROVE c \in loaded[p]
  BY <1>1, <1>6, Zenon DEF ForgetSearch
<1>7. \A r, d : LoadUnvisited(r, d) => c \in loaded[p]
  BY Zenon DEF LoadUnvisited
<1>8. \A r \in Inserters : \/ InsertLockShare(r)
                           \/ InsertLockExclusive(r)
                           \/ InsertFinish(r)
                           \/ InsertAbort(r)
                           \/ \E s \in sel[r] : AddDuplicateOnDisk(r, s)
        => c \in loaded[p]
  BY <1>1, <1>4, <1>6, ProcSets, Zenon DEF InsertLockShare, InsertLockExclusive, InsertFinish,
     InsertAbort, AddDuplicateOnDisk
<1>9. \A q \in Scanners : ScanStart(q) \/ ScanEnd(q) => c \in loaded[p]
  BY <1>1, <1>6, ProcSets, Zenon DEF ScanStart, ScanEnd
<1>10. \/ VacuumAbort \/ RepairFinish \/ RepairHighestPoint
       \/ RepairEntryPoint \/ RepairLockShare \/ RepairLockExclusive
       => c \in loaded[p]
  BY <1>4, <1>5, <1>6, ProcSets, Zenon DEF VacuumAbort, RepairFinish, RepairHighestPoint,
     RepairEntryPoint, RepairLockShare, RepairLockExclusive
<1>. QED BY <1>2, <1>3, <1>4, <1>7, <1>8, <1>9, <1>10, SearchWriters, Zenon

LEMMA VersionStep ==
  ASSUME TypeOK, TypeOK', VersionInv, Next
  PROVE  VersionInv'
<1>1. MarkedOnce'
  BY MarkedOnceStep, Zenon DEF VersionInv
<1>2. \A s \in Slot : /\ gen[s] \in Nat /\ gen'[s] \in Nat /\ version[s] \in 1 .. MaxVersion
                      /\ \/ gen'[s] = gen[s] /\ version'[s] = version[s]
                         \/ gen'[s] = gen[s] + 1 /\ version'[s] = NextVersion(version[s])
  BY VersionsKept, MarkEffect, Zenon DEF TypeOK, DiskType
<1>3. \A s \in Slot : gen[s] <= gen'[s]
  BY <1>2, SMTT(30), Z3T(30)
<1>4. \A s \in Slot : Numbered(version'[s], gen'[s])
  BY <1>2, NumberedNext, Zenon DEF VersionInv
<1>5. ASSUME NEW p \in Procs, NEW c \in loaded'[p]
      PROVE  c.gen <= gen'[c.tid] /\ Numbered(c.version, c.gen)
  <2>1. CASE c \in loaded[p]
    <3>1. c.gen <= gen[c.tid] /\ Numbered(c.version, c.gen)
      BY <2>1, Zenon DEF VersionInv, CopiesNumbered
    <3>2. c.tid \in Slot /\ c.gen \in Nat
      BY <2>1, SMTT(30), Z3T(30) DEF TypeOK, SearchType, Copies
    <3>. QED BY <1>2, <1>3, <3>1, <3>2, SMTT(30), Z3T(30)
  <2>2. ASSUME NEW s \in Slot, c = Copy(s)
        PROVE  c.gen <= gen'[c.tid] /\ Numbered(c.version, c.gen)
    <3>1. c.tid = s /\ c.version = version[s] /\ c.gen = gen[s]
      BY <2>2, SMTT(30), Z3T(30) DEF Copy
    <3>. QED BY <1>3, <3>1, Zenon DEF VersionInv
  <2>. QED BY <2>1, <2>2, LoadedFrom, Zenon
<1>. QED BY <1>1, <1>4, <1>5, Zenon DEF VersionInv, CopiesNumbered

LEMMA VersionsInit ==
  ASSUME Init
  PROVE  VersionInv
<1>1. /\ gen = [s \in Slot |-> 0] /\ version = [s \in Slot |-> 1] /\ vacuums = 0
      /\ loaded = [p \in Procs |-> {}] /\ pc = [p \in Procs |-> "idle"]
  BY Zenon DEF Init
<1>2. Numbered(1, 0)
  <2>1. 0 = 0 * MaxVersion + (1 - 1)
    BY BoundAssumption, SMTT(30), Z3T(30)
  <2>. QED BY <2>1, ZenonT(30) DEF Numbered
<1>3. \A s \in Slot : Numbered(version[s], gen[s])
  BY <1>1, <1>2, Zenon
<1>4. MarkedOnce
  BY <1>1, ProcSets, SMTT(30), Z3T(30) DEF MarkedOnce
<1>5. CopiesNumbered
  BY <1>1, Zenon DEF CopiesNumbered
<1>. QED BY <1>3, <1>4, <1>5, Zenon DEF VersionInv

LEMMA VersionsInvariant == Spec => [](TypeOK /\ VersionInv)
<1>1. Init => VersionInv
  BY VersionsInit, SMTT(30), Z3T(30)
<1>2. VersionInv /\ TypeOK /\ TypeOK' /\ [Next]_vars => VersionInv'
  <2>1. ASSUME VersionInv, UNCHANGED vars PROVE VersionInv'
    BY <2>1, Zenon DEF VersionInv, MarkedOnce, CopiesNumbered, vars, diskVars, searchVars, vacVars
  <2>. QED BY <2>1, VersionStep, Zenon
<1>. QED BY <1>1, <1>2, TypeCorrect, PTL DEF Spec

\* A copy that is fewer than MaxVersion marks old is told apart by its version
RecentCopies ==
  \A p \in Procs : \A c \in loaded[p] :
    gen[c.tid] - c.gen < MaxVersion /\ version[c.tid] = c.version => gen[c.tid] = c.gen

LEMMA CopiesApart ==
  ASSUME TypeOK, VersionInv, NEW p \in Procs, NEW c \in loaded[p],
         gen[c.tid] - c.gen < MaxVersion, version[c.tid] = c.version
  PROVE  gen[c.tid] = c.gen
<1>1. c.tid \in Slot /\ c.gen \in Nat
  BY SMTT(30), Z3T(30) DEF TypeOK, SearchType, Copies
<1>2. gen[c.tid] \in Nat /\ version[c.tid] \in 1 .. MaxVersion
  BY <1>1, Zenon DEF TypeOK, DiskType
<1>3. /\ c.gen <= gen[c.tid] /\ Numbered(c.version, c.gen)
      /\ Numbered(version[c.tid], gen[c.tid])
  BY <1>1, Zenon DEF VersionInv, CopiesNumbered
<1>. QED BY <1>1, <1>2, <1>3, SameVersion, Zenon

\* The 15 versions that MarkDeleted counts through (the last bit is reserved) are
\* enough to tell a tuple from the one loaded before, whatever was loaded when, as
\* long as the slot was marked fewer than MaxVersion times in between: then
\* HnswLoadNeighborTids reads the neighbors of the element that was loaded, or none.
THEOREM VersionsTellApart == Spec => []RecentCopies
<1>1. TypeOK /\ VersionInv => RecentCopies
  BY CopiesApart, Zenon DEF RecentCopies
<1>. QED BY <1>1, VersionsInvariant, PTL

\* One vacuum marks a slot at most once.  With fewer vacuums than versions the check
\* of HnswLoadNeighborTids is therefore sound for every copy a scan keeps, however
\* long it pauses and whatever is inserted meanwhile.
THEOREM VersionsSound ==
  ASSUME MaxVacuums < MaxVersion
  PROVE  Spec => []VersionCheckSound
<1>1. TypeOK /\ VersionInv => VersionCheckSound
  <2> SUFFICES ASSUME TypeOK, VersionInv, NEW q \in Scanners, NEW c \in loaded[q],
                      version[c.tid] = c.version
               PROVE  gen[c.tid] = c.gen
    BY Zenon DEF VersionCheckSound
  <2>1. q \in Procs
    BY ProcSets, Zenon
  <2>2. c.tid \in Slot /\ c.gen \in Nat
    BY <2>1, SMTT(30), Z3T(30) DEF TypeOK, SearchType, Copies
  <2>3. gen[c.tid] \in Nat /\ gen[c.tid] <= vacuums /\ vacuums \in 0 .. MaxVacuums
    BY <2>2, Zenon DEF VersionInv, MarkedOnce, TypeOK, DiskType, VacuumType
  <2>4. gen[c.tid] - c.gen < MaxVersion
    BY <2>2, <2>3, BoundAssumption, SMTT(30), Z3T(30)
  <2>. QED BY <2>1, <2>4, CopiesApart, Zenon
<1>. QED BY <1>1, VersionsInvariant, PTL

=============================================================================
