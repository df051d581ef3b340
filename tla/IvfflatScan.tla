----------------------------- MODULE IvfflatScan -----------------------------
(***************************************************************************)
(* Index scans of an ivfflat index, beside the inserts and the vacuum of   *)
(* IvfflatIndex.  A scan takes the maxProbes lists with the closest        *)
(* centers, reads them in batches of probes lists, one page at a time with *)
(* no lock or pin in between, and returns each batch sorted by distance.   *)
(*                                                                         *)
(* The tuplesort is a bag: tuples of equal distance leave it in any order. *)
(* A vacuum takes no row that the snapshot of a running scan sees.         *)
(***************************************************************************)
EXTENDS IvfflatIndex, Bags

CONSTANTS
  Scanners,     \* the backends that scan
  Queries,      \* the vectors a scan orders by
  NullQuery,    \* ORDER BY a null
  Settings,     \* the values of probes, max_probes and whether iterative_scan is on
  MaxScans      \* bound: the scans and rescans of a behaviour

ASSUME ScanAssumption ==
  /\ Queries \subseteq Int /\ NullQuery \notin Queries
  /\ Settings \subseteq (Nat \ {0}) \X (Nat \ {0}) \X BOOLEAN
  /\ MaxScans \in Nat

VARIABLES
  spc,          \* where a scanner is
  so,           \* its IvfflatScanOpaqueData
  snapshot,     \* the rows its snapshot sees
  returned,     \* history: the heap TIDs returned since the last rescan
  last,         \* history: the distance of the last tuple returned from the batch
  scans

scanVars == <<spc, so, snapshot, returned, last, scans>>
vars == <<indexVars, scanVars>>

NoScan == [probes |-> 1, maxProbes |-> 1, first |-> TRUE, value |-> NullQuery,
           listPages |-> <<>>, listIndex |-> 0, batchProbes |-> 0, searchPage |-> Invalid,
           sortstate |-> EmptyBag]

ScanInit ==
  /\ Init
  /\ spc = [s \in Scanners |-> "none"] /\ so = [s \in Scanners |-> NoScan]
  /\ snapshot = [s \in Scanners |-> {}] /\ returned = [s \in Scanners |-> EmptyBag]
  /\ last = [s \in Scanners |-> 0] /\ scans = 0

-----------------------------------------------------------------------------
\* GetScanValue: every distance to a null is zero
ScanDistance(x, q) == IF q = NullQuery THEN 0 ELSE Distance(x, q)

Farthest(K, q) ==
  {k \in K : \A j \in K : ScanDistance(Centers[j], q) <= ScanDistance(Centers[k], q)}

\* Mutant: a farther list replaces a closer one
OfferClosest(K, l, n, q) ==
  IF Cardinality(K) < n THEN {K \cup {l}}
  ELSE IF \E k \in Farthest(K, q) : ScanDistance(Centers[l], q) > ScanDistance(Centers[k], q)
  THEN {(K \ {k}) \cup {l} : k \in Farthest(K, q)}
  ELSE {K}

\* The lists kept when list l comes after the lists K: any one of the farthest may be first
\* in the heap
Offer(K, l, n, q) ==
  IF Cardinality(K) < n THEN {K \cup {l}}
  ELSE IF \E k \in Farthest(K, q) : ScanDistance(Centers[l], q) < ScanDistance(Centers[k], q)
  THEN {(K \ {k}) \cup {l} : k \in Farthest(K, q)}
  ELSE {K}

\* GetScanLists: the outcomes of the loop over all lists
KeptLists(n, q) ==
  LET kept[l \in 0 .. Len(Centers)] ==
        IF l = 0 THEN {{}} ELSE UNION {Offer(K, l, n, q) : K \in kept[l - 1]}
  IN  kept[Len(Centers)]

\* The lists leave the heap from the farthest to the closest
ListOrders(K, q) ==
  {f \in [1 .. Cardinality(K) -> K] :
     \A i, j \in 1 .. Cardinality(K) :
       i < j => f[i] # f[j] /\ ScanDistance(Centers[f[i]], q) <= ScanDistance(Centers[f[j]], q)}

Set(s, where, state) == spc' = [spc EXCEPT ![s] = where] /\ so' = [so EXCEPT ![s] = state]

Lower(x, y) == IF x < y THEN x ELSE y
Higher(x, y) == IF x > y THEN x ELSE y

\* ivfflatbeginscan; the settings are read here, and not at a rescan
BeginScan(s, setting) ==
  /\ spc[s] = "none" /\ scans < MaxScans
  /\ Set(s, "begun",
         [NoScan EXCEPT !.probes = Lower(setting[1], Len(Centers)),
                        !.maxProbes = Lower(IF setting[3] THEN Higher(setting[2], setting[1])
                                            ELSE setting[1], Len(Centers))])
  /\ snapshot' = [snapshot EXCEPT ![s] = {t \in Tid : heap[t] = "live"}]
  /\ UNCHANGED <<indexVars, returned, last, scans>>

\* ivfflatrescan: the tuplesort is left as it is
Rescan(s, q) ==
  /\ spc[s] \in {"begun", "ready", "ended"} /\ scans < MaxScans
  /\ Set(s, "ready", [so[s] EXCEPT !.first = TRUE, !.listIndex = 0, !.value = q])
  /\ returned' = [returned EXCEPT ![s] = EmptyBag] /\ scans' = scans + 1
  /\ UNCHANGED <<indexVars, snapshot, last>>

\* Mutant: the tuplesort is not reset
BeginBatchUnreset(s, state) ==
  /\ Set(s, "items", [state EXCEPT !.batchProbes = 0, !.searchPage = Invalid])
  /\ last' = [last EXCEPT ![s] = 0]
  /\ UNCHANGED <<indexVars, snapshot, returned, scans>>

\* GetScanItems begins a batch
BeginBatch(s, state) ==
  /\ Set(s, "items", [state EXCEPT !.batchProbes = 0, !.sortstate = EmptyBag,
                                   !.searchPage = Invalid])
  /\ last' = [last EXCEPT ![s] = 0]
  /\ UNCHANGED <<indexVars, snapshot, returned, scans>>

\* ivfflatgettuple, first call: GetScanLists reads start pages, which do not change
FirstTuple(s) ==
  /\ spc[s] = "ready" /\ so[s].first
  /\ \E K \in KeptLists(so[s].maxProbes, so[s].value) :
       \E f \in ListOrders(K, so[s].value) :
         BeginBatch(s, [so[s] EXCEPT !.first = FALSE,
                          !.listPages = [i \in DOMAIN f |-> startPage[f[i]]]])

\* Mutant: the list is not counted
NextListStuck(s) ==
  /\ spc[s] = "items" /\ so[s].searchPage = Invalid
  /\ IF so[s].listIndex < so[s].maxProbes /\ so[s].batchProbes < so[s].probes
     THEN Set(s, "items", [so[s] EXCEPT !.searchPage = so[s].listPages[so[s].listIndex + 1],
                                        !.batchProbes = @ + 1])
     ELSE Set(s, "sorted", so[s])
  /\ UNCHANGED <<indexVars, snapshot, returned, last, scans>>

\* GetScanItems: the next list of the batch, or the sort
NextList(s) ==
  /\ spc[s] = "items" /\ so[s].searchPage = Invalid
  /\ IF so[s].listIndex < so[s].maxProbes /\ so[s].batchProbes < so[s].probes
     THEN Set(s, "items", [so[s] EXCEPT !.searchPage = so[s].listPages[so[s].listIndex + 1],
                                        !.listIndex = @ + 1, !.batchProbes = @ + 1])
     ELSE Set(s, "sorted", so[s])
  /\ UNCHANGED <<indexVars, snapshot, returned, last, scans>>

\* The tuples of one page, under its share lock
ReadPage(s) ==
  /\ spc[s] = "items" /\ so[s].searchPage # Invalid /\ ~Locked(so[s].searchPage)
  /\ LET tuples == {[tid |-> e.tid, distance |-> ScanDistance(e.vec, so[s].value)] :
                      e \in items[so[s].searchPage]}
     IN  Set(s, "items", [so[s] EXCEPT !.sortstate = @ (+) SetToBag(tuples),
                                       !.searchPage = nextblkno[so[s].searchPage]])
  /\ UNCHANGED <<indexVars, snapshot, returned, last, scans>>

\* ivfflatgettuple is at its loop over the tuplesort
Fetching(s) == spc[s] = "sorted" \/ (spc[s] = "ready" /\ ~so[s].first)

\* Mutant: not sorted
SortedAny(B) == BagToSet(B)

\* tuplesort_gettupleslot
SortedFirst(B) == {x \in BagToSet(B) : \A y \in BagToSet(B) : x.distance <= y.distance}

ReturnTuple(s) ==
  /\ Fetching(s)
  /\ \E x \in SortedFirst(so[s].sortstate) :
       /\ Set(s, "ready", [so[s] EXCEPT !.sortstate = @ (-) SetToBag({x})])
       /\ returned' = [returned EXCEPT ![s] = @ (+) SetToBag({x.tid})]
       /\ last' = [last EXCEPT ![s] = x.distance]
  /\ UNCHANGED <<indexVars, snapshot, scans>>

NextBatch(s) ==
  /\ Fetching(s) /\ so[s].sortstate = EmptyBag /\ so[s].listIndex # so[s].maxProbes
  /\ BeginBatch(s, so[s])

NoMoreTuples(s) ==
  /\ Fetching(s) /\ so[s].sortstate = EmptyBag /\ so[s].listIndex = so[s].maxProbes
  /\ Set(s, "ended", so[s])
  /\ UNCHANGED <<indexVars, snapshot, returned, last, scans>>

\* ivfflatendscan
EndScan(s) ==
  /\ spc[s] \in {"begun", "ready", "ended"}
  /\ Set(s, "none", NoScan)
  /\ snapshot' = [snapshot EXCEPT ![s] = {}] /\ returned' = [returned EXCEPT ![s] = EmptyBag]
  /\ UNCHANGED <<indexVars, last, scans>>

-----------------------------------------------------------------------------
\* A call of ivfflatgettuple
GetTuple(s) ==
  FirstTuple(s) \/ NextList(s) \/ ReadPage(s) \/ ReturnTuple(s) \/ NextBatch(s) \/ NoMoreTuples(s)

ScanNext ==
  \/ \E s \in Scanners :
       \/ \E setting \in Settings : BeginScan(s, setting)
       \/ \E q \in Queries \cup {NullQuery} : Rescan(s, q)
       \/ GetTuple(s)
       \/ EndScan(s)
  \/ IndexStep /\ UNCHANGED scanVars
  \/ \E D \in SUBSET (Tid \ UNION {snapshot[s] : s \in Scanners}) :
       VacuumStart(D) /\ UNCHANGED scanVars

ScanSpec == ScanInit /\ [][ScanNext]_vars

\* A backend that scans is scheduled until the call returns
FairScanSpec == ScanSpec /\ IndexFairness /\ \A s \in Scanners : WF_vars(spc[s] # "ready" /\ GetTuple(s))

\* The lists of a scan, once GetScanLists has chosen them
Probed(s) == {l \in List : \E i \in DOMAIN so[s].listPages : so[s].listPages[i] = startPage[l]}

Chosen(s) == spc[s] \in {"items", "sorted", "ended"} \/ (spc[s] = "ready" /\ ~so[s].first)

ScanTypeOK ==
  /\ spc \in [Scanners -> {"none", "begun", "ready", "items", "sorted", "ended"}]
  /\ \A s \in Scanners :
       /\ so[s].probes \in 1 .. so[s].maxProbes /\ so[s].maxProbes \in List
       /\ so[s].listIndex \in 0 .. so[s].maxProbes
       /\ so[s].searchPage \in 0 .. MaxPages
       /\ IsABag(so[s].sortstate) /\ IsABag(returned[s])
  /\ snapshot \in [Scanners -> SUBSET Tid] /\ scans \in 0 .. MaxScans

\* A scan that has run to its end has returned every row of its snapshot that is indexed in
\* one of its lists, and has returned it once, whatever was inserted, vacuumed and rescanned
\* while it read its pages without holding one; no row of the snapshot is returned twice.
ScanExact ==
  \A s \in Scanners : \A t \in snapshot[s] :
    /\ CopiesIn(t, returned[s]) <= 1
    /\ spc[s] = "ended" =>
         (CopiesIn(t, returned[s]) = 1 <=>
            Indexable(vec[t]) /\ ClosestList[vec[t]] \in Probed(s))

\* GetScanLists leaves listPages full, without repetition, in the order of the distances, and
\* leaves out no list that is closer than one it has taken: the heap of size maxProbes agrees
\* with a sort of all lists.
ClosestProbes ==
  \A s \in Scanners : Chosen(s) =>
    /\ Cardinality(Probed(s)) = so[s].maxProbes /\ Len(so[s].listPages) = so[s].maxProbes
    /\ \A k \in List \ Probed(s), l \in Probed(s) :
         ScanDistance(Centers[l], so[s].value) <= ScanDistance(Centers[k], so[s].value)

\* The tuples of a batch are returned in the order of their distances, also when the scan
\* was restarted before it had returned all of an earlier batch.
BatchOrdered ==
  [][\A s \in Scanners : \A t \in Tid :
       CopiesIn(t, returned'[s]) > CopiesIn(t, returned[s]) => last'[s] >= last[s]]_vars

\* A call of ivfflatgettuple returns, also while inserts append pages to the list it reads.
CallsReturn ==
  \A s \in Scanners : spc[s] \in {"items", "sorted"} ~> spc[s] \in {"ready", "ended"}
=============================================================================
