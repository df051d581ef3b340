------------------------------ MODULE HnswTrace ------------------------------
(***************************************************************************)
(* The page statistics of a scan's trace: HnswTraceRecordElementPage and   *)
(* HnswTraceRecordNeighborPage, which are the same code over two sets of   *)
(* fields.  A step is one access; the fields are those of one of the two.  *)
(*                                                                         *)
(* The array of the pages seen has a fixed capacity.  A page beyond it is  *)
(* counted but not stored, and the search of the array runs up to the      *)
(* number of pages counted: past the capacity it reads what lies behind    *)
(* the array, which may or may not equal the page looked for.              *)
(***************************************************************************)
EXTENDS Integers, FiniteSets

CONSTANTS
  Block,      \* the pages of the index
  NoBlock,    \* InvalidBlockNumber
  Capacity,   \* HNSW_TRACE_MAX_PAGES
  MaxLoads    \* bound: the accesses of a scan

ASSUME TraceAssumption ==
  NoBlock \notin Block /\ Capacity \in Nat \ {0} /\ MaxLoads \in Nat

VARIABLES
  index_loads,     \* accesses
  page_runs,       \* runs of accesses to one page
  last_page,
  distinct_pages,
  pages_seen,      \* the array
  accessed         \* history: the pages accessed

vars == <<index_loads, page_runs, last_page, distinct_pages, pages_seen, accessed>>

\* HnswTraceInit
Init ==
  /\ index_loads = 0 /\ page_runs = 0 /\ distinct_pages = 0
  /\ last_page = NoBlock
  /\ pages_seen = [i \in 1 .. Capacity |-> NoBlock]
  /\ accessed = {}

\* Mutant: the first access starts no run
NewRunNotFirst(blkno) == index_loads > 0 /\ blkno # last_page

\* A new run starts when the page differs from the last
NewRun(blkno) == index_loads = 0 \/ blkno # last_page

\* Mutant: the last page stored is not looked at
StoredButLast(blkno) == \E i \in 1 .. Capacity : i < distinct_pages /\ pages_seen[i] = blkno

\* The search of the array finds the page in its part of the memory
Stored(blkno) == \E i \in 1 .. Capacity : i <= distinct_pages /\ pages_seen[i] = blkno

\* What the search may say: anything, if it leaves the array
Found(blkno) ==
  IF Stored(blkno) THEN {TRUE}
  ELSE IF distinct_pages > Capacity THEN BOOLEAN ELSE {FALSE}

\* The array with a new page, if there is room for it
Store(blkno) ==
  IF distinct_pages < Capacity THEN [pages_seen EXCEPT ![distinct_pages + 1] = blkno]
                               ELSE pages_seen

\* HnswTraceRecordElementPage, HnswTraceRecordNeighborPage
RecordPage(blkno) ==
  /\ index_loads < MaxLoads
  /\ index_loads' = index_loads + 1
  /\ page_runs' = IF NewRun(blkno) THEN page_runs + 1 ELSE page_runs
  /\ last_page' = blkno
  /\ \E found \in Found(blkno) :
       /\ distinct_pages' = IF found THEN distinct_pages ELSE distinct_pages + 1
       /\ pages_seen' = IF found THEN pages_seen ELSE Store(blkno)
  /\ accessed' = accessed \cup {blkno}

Next == \E blkno \in Block : RecordPage(blkno)
Spec == Init /\ [][Next]_vars

-----------------------------------------------------------------------------
\* The fields hold what their C types say.
TypeOK ==
  /\ index_loads \in Nat /\ page_runs \in Nat /\ distinct_pages \in Nat
  /\ last_page \in Block \cup {NoBlock}
  /\ pages_seen \in [1 .. Capacity -> Block \cup {NoBlock}]
  /\ accessed \subseteq Block

\* A figure of index_*_distinct_pages that does not exceed the capacity is exact, and it does
\* not exceed it as long as the pages accessed fit the array.
DistinctExact ==
  /\ distinct_pages <= Capacity => distinct_pages = Cardinality(accessed)
  /\ Cardinality(accessed) <= Capacity => distinct_pages <= Capacity

\* The figures of a line are consistent: the runs are between the distinct pages and the
\* accesses, as "closer to loads = more random I/O" supposes, up to the capacity; beyond it the
\* number of pages may exceed the runs but not the accesses.
Consistent ==
  /\ page_runs <= index_loads /\ distinct_pages <= index_loads
  /\ distinct_pages <= Capacity => distinct_pages <= page_runs
  /\ index_loads > 0 => page_runs > 0

\* Not so (README, Observations): INSTALL_SUMMARY.md on index_element_distinct_pages,
\* "Distinct index pages accessed for elements".
DistinctCounted == distinct_pages = Cardinality(accessed)

=============================================================================
