------------------------------ MODULE HnswScan ------------------------------
(***************************************************************************)
(* An index scan of one backend: hnswbeginscan, hnswrescan, hnswgettuple   *)
(* with iterative scans, hnswendscan, the search of a layer                *)
(* (HnswSearchLayer) and the trace of a scan (HnswTraceStats).             *)
(*                                                                         *)
(* The graph does not change here (HnswIndex has the concurrent updates)   *)
(* but is any of Graphs.  The settings are user-settable variables and may *)
(* change between two calls of hnswgettuple.  Every buffer access adds to  *)
(* pgBufferUsage; hits and reads are not told apart.                       *)
(***************************************************************************)
EXTENDS Integers, FiniteSets, Sequences, FiniteSetsExt, Functions

CONSTANTS
  Element,        \* the elements of the index
  NoElement,      \* an invalid entry point
  MaxLevel,
  Graphs,         \* what the index may hold, see IsGraph
  TidsOf,         \* the heap TIDs of an element
  EfSearch,       \* hnsw.ef_search
  MaxScanTuples,  \* hnsw.max_scan_tuples
  Modes,          \* the values of hnsw.iterative_scan that are used
  TraceModes,     \* the values of hnsw.trace that are used
  MaxTids,        \* HNSW_TRACE_MAX_TIDS
  Memory,         \* what the memory check may say: a subset of BOOLEAN
  MaxScans,       \* bound: hnswrescan calls
  MaxSets         \* bound: changes of a setting

VARIABLES
  graph,
  hnsw_trace, hnsw_iterative_scan,        \* the settings
  pc,
  \* HnswScanOpaqueData; left is heaptidsLength of the elements that were loaded
  first, v, discarded, tuples, w, left, previousDistance, trace,
  \* HnswSearchLayer
  lc, C, W, unvisited,
  bufferUsage,    \* pgBufferUsage of the backend
  entryBlks,      \* pgBufferUsage at the start of a call
  lines,          \* the trace lines emitted
  starts,         \* the index scans counted by pgstat_count_index_scan
  \* History since the last hnswrescan: the candidates whose TIDs were used up, the
  \* TIDs returned, whether the scan said there are no more, the settings it ran
  \* with, distance calls, neighbor lists read, blocks read by index and executor
  used, returned, ended, traced, modes, calls, expanded, indexBlks, heapBlks,
  scans, sets     \* the bounds

settings == <<hnsw_trace, hnsw_iterative_scan, sets>>
search   == <<v, C, W, unvisited, lc, discarded, tuples>>
history  == <<used, returned, ended, traced, modes, calls, expanded, indexBlks, heapBlks>>
vars == <<graph, settings, pc, first, search, w, left, previousDistance, trace,
          bufferUsage, entryBlks, lines, starts, history, scans>>

IsGraph(g) ==
  /\ g.entry \in Element \cup {NoElement}
  /\ g.level \in [Element -> 0 .. MaxLevel]
  /\ g.distance \in [Element -> Nat]
  /\ g.neighbors \in [0 .. MaxLevel -> [Element -> SUBSET Element]]

ASSUME ScanAssumption ==
  /\ NoElement \notin Element
  /\ \A g \in Graphs : IsGraph(g)
  /\ IsFiniteSet(Element) /\ MaxLevel \in Nat
  /\ TidsOf \in [Element -> Seq(Nat)] /\ \A e \in Element : IsInjective(TidsOf[e])
  /\ EfSearch \in Nat \ {0} /\ MaxScanTuples \in Nat \ {0} /\ MaxTids \in Nat
  /\ Modes \subseteq {"off", "relaxed", "strict"}
  /\ TraceModes \subseteq BOOLEAN /\ Memory \subseteq BOOLEAN

None == {NoElement}    \* discarded is NULL
NegInfinity == -1      \* before every distance

dist(e) == graph.distance[e]
Nearest(S)  == {e \in S : \A d \in S : dist(e) <= dist(d)}
Furthest(S) == {e \in S : \A d \in S : dist(e) >= dist(d)}
Ef == IF lc = 0 THEN EfSearch ELSE 1

\* Whether HnswSearchLayer is given a place for the candidates it discards
Keeps == lc = 0 /\ discarded # None

Zero == [distances |-> 0, visited |-> 0, fetches |-> 0, tids |-> <<>>, idx |-> 0,
         before |-> 0]

Init ==
  /\ graph \in Graphs
  /\ hnsw_trace \in TraceModes /\ hnsw_iterative_scan \in Modes
  /\ pc = "closed" /\ first = TRUE
  /\ v = {} /\ C = {} /\ W = {} /\ unvisited = {} /\ lc = 0
  /\ discarded = None /\ tuples = 0 /\ w = <<>> /\ left = [e \in Element |-> 0]
  /\ previousDistance = NegInfinity /\ trace = Zero
  /\ bufferUsage = 0 /\ entryBlks = 0 /\ lines = <<>> /\ starts = 0
  /\ used = {} /\ returned = <<>> /\ ended = FALSE /\ traced = {} /\ modes = {}
  /\ calls = 0 /\ expanded = 0 /\ indexBlks = 0 /\ heapBlks = 0
  /\ scans = 0 /\ sets = 0

-----------------------------------------------------------------------------
\* Mutant: only the snapshot of the buffer counters is taken
TraceInitSnapshot == [trace EXCEPT !.before = bufferUsage]

\* HnswTraceInit
TraceInit == [Zero EXCEPT !.before = bufferUsage]

\* hnswrescan
Restart ==
  /\ scans < MaxScans /\ scans' = scans + 1
  /\ pc' = "idle" /\ first' = TRUE
  /\ v' = {} /\ discarded' = None /\ tuples' = 0 /\ previousDistance' = NegInfinity
  /\ used' = {} /\ returned' = <<>> /\ ended' = FALSE
  /\ traced' = {hnsw_trace} /\ modes' = {}
  /\ calls' = 0 /\ expanded' = 0 /\ indexBlks' = 0 /\ heapBlks' = 0
  /\ UNCHANGED <<graph, settings, C, W, unvisited, lc, w, left, bufferUsage, entryBlks,
                 lines, starts>>

\* hnswbeginscan and the hnswrescan the executor begins with.  With the setting off
\* the trace is uninitialized memory
BeginScan ==
  /\ pc = "closed"
  /\ Restart
  /\ IF hnsw_trace
     THEN trace' = TraceInit
     ELSE \E n \in 0 .. 1 : trace' = [Zero EXCEPT !.fetches = n, !.idx = n, !.before = n]

\* hnswrescan of an open scan
Rescan ==
  /\ pc = "idle"
  /\ Restart
  /\ trace' = IF hnsw_trace THEN TraceInit ELSE trace

\* SET hnsw.trace or hnsw.iterative_scan between two calls
ChangeSetting ==
  /\ pc \in {"closed", "idle"} /\ sets < MaxSets
  /\ sets' = sets + 1
  /\ \/ hnsw_trace' \in TraceModes \ {hnsw_trace} /\ UNCHANGED hnsw_iterative_scan
     \/ hnsw_iterative_scan' \in Modes \ {hnsw_iterative_scan} /\ UNCHANGED hnsw_trace
  /\ UNCHANGED <<graph, pc, first, search, w, left, previousDistance, trace,
                 bufferUsage, entryBlks, lines, starts, history, scans>>

-----------------------------------------------------------------------------
\* A read of n blocks of the index by a call of hnswgettuple
ReadBlocks(n) ==
  /\ bufferUsage' = bufferUsage + n
  /\ indexBlks' = indexBlks + n

\* Mutant: the visited set is cleared when a search is resumed
StartLayerAnew(l, ep, initVisited) ==
  /\ lc' = l /\ C' = ep /\ W' = ep /\ unvisited' = {}
  /\ v' = ep
  /\ tuples' = IF l = 0 THEN tuples + Cardinality(ep) ELSE tuples
  /\ pc' = "search"

\* HnswLoadElementFromTuple: an element that is loaded has all its heap TIDs
Loaded(e) == [left EXCEPT ![e] = Len(TidsOf[e])]

\* HnswSearchLayer up to its loop, at level l from the entry points ep
StartLayer(l, ep, initVisited) ==
  /\ lc' = l /\ C' = ep /\ W' = ep /\ unvisited' = {}
  /\ v' = IF initVisited THEN ep ELSE v
  /\ tuples' = IF initVisited /\ l = 0 THEN tuples + Cardinality(ep) ELSE tuples
  /\ pc' = "search"

\* The discarded heap a search from the entry point starts with at level l
StartDiscarded(l) ==
  IF l = 0 /\ hnsw_iterative_scan # "off" THEN {} ELSE None

\* hnswgettuple up to its loop; for the first call up to the search of a layer
GetTuple ==
  /\ pc = "idle"
  /\ entryBlks' = IF hnsw_trace THEN bufferUsage ELSE 0
  /\ traced' = traced \cup {hnsw_trace} /\ modes' = modes \cup {hnsw_iterative_scan}
  /\ \/ /\ ~first
        /\ pc' = "fetch"
        /\ UNCHANGED <<first, search, w, left, bufferUsage, indexBlks, calls, starts>>
     \/ /\ first /\ graph.entry = NoElement
        /\ starts' = starts + 1
        /\ first' = FALSE /\ w' = <<>> /\ pc' = "fetch"
        /\ ReadBlocks(1)
        /\ UNCHANGED <<search, left, calls>>
     \/ /\ first /\ graph.entry # NoElement
        /\ starts' = starts + 1
        /\ ReadBlocks(2)
        /\ calls' = calls + 1 /\ left' = Loaded(graph.entry)
        /\ LET l == graph.level[graph.entry]
           IN  StartLayer(l, {graph.entry}, TRUE) /\ discarded' = StartDiscarded(l)
        /\ UNCHANGED <<first, w>>
  /\ UNCHANGED <<graph, settings, previousDistance, trace, lines, used, returned, ended, expanded,
                 heapBlks, scans>>

\* The loop of HnswSearchLayer is over
Exhausted == unvisited = {} /\ \A c \in C : \A f \in Furthest(W) : dist(c) > dist(f)

\* The nearest candidate is popped and its unvisited neighbors are read:
\* HnswLoadUnvisitedFromDisk
Expand ==
  /\ pc = "search" /\ unvisited = {} /\ ~Exhausted
  /\ \E c \in Nearest(C) :
       LET new == graph.neighbors[lc][c] \ v
       IN  /\ C' = C \ {c}
           /\ unvisited' = new /\ v' = v \cup new
           /\ tuples' = IF lc = 0 THEN tuples + Cardinality(new) ELSE tuples
           /\ trace' = IF hnsw_trace THEN [trace EXCEPT !.visited = @ + Cardinality(new)]
                                     ELSE trace
  /\ ReadBlocks(1)
  /\ expanded' = expanded + 1
  /\ UNCHANGED <<graph, settings, pc, first, W, lc, discarded, w, left, previousDistance,
                 entryBlks, lines, starts, used, returned, ended, traced, modes, calls,
                 heapBlks, scans>>

\* Mutant: what is not kept is forgotten
DiscardNothing(S) == discarded' = discarded

\* What leaves W, or is never added to it, is kept for the next batch
Discard(S) == discarded' = IF Keeps THEN discarded \cup S ELSE discarded

\* Mutant: one candidate too many
AlwaysAddOneMore == Cardinality(W) <= Ef

\* wlen < ef: wlen, which is never decremented, exceeds ef exactly if W would
AlwaysAdd == Cardinality(W) < Ef

\* One neighbor is loaded (HnswLoadElementImpl) and added, or discarded
Visit ==
  /\ pc = "search"
  /\ \E e \in unvisited :
       LET adds == (\A f \in Furthest(W) : dist(e) < dist(f)) \/ AlwaysAdd
       IN  /\ unvisited' = unvisited \ {e} /\ left' = Loaded(e)
           /\ \/ ~adds /\ Discard({e}) /\ UNCHANGED <<C, W>>
              \/ /\ adds /\ graph.level[e] < lc
                 /\ UNCHANGED <<C, W, discarded>>
              \/ /\ adds /\ graph.level[e] >= lc
                 /\ C' = C \cup {e}
                 /\ \/ AlwaysAdd /\ W' = W \cup {e} /\ UNCHANGED discarded
                    \/ /\ ~AlwaysAdd
                       /\ \E d \in Furthest(W \cup {e}) :
                            W' = (W \cup {e}) \ {d} /\ Discard({d})
  /\ ReadBlocks(1)
  /\ calls' = calls + 1
  /\ trace' = IF hnsw_trace THEN [trace EXCEPT !.distances = @ + 1] ELSE trace
  /\ UNCHANGED <<graph, settings, pc, first, v, lc, tuples, w, previousDistance, entryBlks,
                 lines, starts, used, returned, ended, traced, modes, expanded, heapBlks, scans>>

\* S as the list HnswSearchLayer returns: the nearest candidate is last
Lists(S) ==
  {l \in [1 .. Cardinality(S) -> S] :
     /\ IsInjective(l)
     /\ \A i, j \in DOMAIN l : i < j => dist(l[i]) >= dist(l[j])}

\* GetScanItems has a level to go down to
MoreLevels == lc > 0

\* The end of a layer: GetScanItems goes down a level, or its list (or the one of
\* ResumeScanItems) is complete
FinishLayer ==
  /\ pc = "search" /\ Exhausted
  /\ \/ /\ MoreLevels
        /\ StartLayer(lc - 1, W, TRUE) /\ discarded' = StartDiscarded(lc - 1)
        /\ UNCHANGED <<first, w>>
     \/ /\ ~MoreLevels
        /\ w' \in Lists(W) /\ first' = FALSE
        /\ pc' = "fetch" /\ C' = {} /\ W' = {}
        /\ UNCHANGED <<v, unvisited, lc, discarded, tuples>>
  /\ UNCHANGED <<graph, settings, left, previousDistance, trace, bufferUsage, entryBlks, lines,
                 starts, history, scans>>

-----------------------------------------------------------------------------
\* What hnswgettuple adds to the trace when it returns
CountBlocks(t) == [t EXCEPT !.idx = @ + bufferUsage - entryBlks]

\* hnswgettuple returns false
NoMore ==
  /\ pc' = "idle" /\ ended' = TRUE
  /\ trace' = IF hnsw_trace THEN CountBlocks(trace) ELSE trace
  /\ UNCHANGED <<search, w>>

\* Whether the limits of an iterative scan are reached
Limited == tuples >= MaxScanTuples

\* The first n candidates of the discarded heap
FirstDiscarded(n) ==
  {S \in SUBSET discarded :
     /\ Cardinality(S) = n \/ (S = discarded /\ Cardinality(S) < n)
     /\ \A e \in S, d \in discarded \ S : dist(e) <= dist(d)}

\* Mutant: the candidate stays in the heap
ReturnRemainingAgain == \E d \in Nearest(discarded) : w' = <<d>> /\ UNCHANGED discarded

\* "Return remaining tuples": the first candidate of the discarded heap is the list
ReturnRemaining == \E d \in Nearest(discarded) : w' = <<d>> /\ discarded' = discarded \ {d}

\* The list is empty: an iterative scan goes on with what was discarded, by a search or,
\* at a limit, one by one (ResumeScanItems)
Refill ==
  /\ pc = "fetch" /\ w = <<>>
  /\ \/ /\ hnsw_iterative_scan = "off" \/ discarded \in {None, {}}
        /\ NoMore
     \/ /\ hnsw_iterative_scan # "off" /\ discarded \notin {None, {}}
        /\ UNCHANGED <<ended, trace>>
        /\ \E exceeded \in Memory :
             \/ /\ Limited \/ exceeded
                /\ ReturnRemaining
                /\ UNCHANGED <<pc, v, C, W, unvisited, lc, tuples>>
             \/ /\ ~(Limited \/ exceeded)
                /\ \E ep \in FirstDiscarded(EfSearch) :
                     StartLayer(0, ep, FALSE) /\ discarded' = discarded \ ep
                /\ UNCHANGED w
  /\ UNCHANGED <<graph, settings, first, left, previousDistance, bufferUsage, entryBlks, lines,
                 starts, used, returned, traced, modes, calls, expanded, indexBlks, heapBlks,
                 scans>>

\* The last element of a List, and the List without it
llast(l) == l[Len(l)]
list_delete_last(l) == SubSeq(l, 1, Len(l) - 1)

\* The nearest candidate of the list has no heap TIDs left
DropCandidate ==
  /\ pc = "fetch" /\ w # <<>> /\ left[llast(w)] = 0
  /\ w' = list_delete_last(w)
  /\ used' = used \cup {llast(w)}
  /\ UNCHANGED <<graph, settings, pc, first, search, left, previousDistance, trace,
                 bufferUsage, entryBlks, lines, starts, returned, ended, traced, modes, calls,
                 expanded, indexBlks, heapBlks, scans>>

\* Mutant: nothing is skipped
SkipsNothing(e) == hnsw_iterative_scan = "strict" /\ dist(e) < NegInfinity

\* With strict order the scan has gone beyond the distance of e
Skips(e) == hnsw_iterative_scan = "strict" /\ dist(e) < previousDistance

\* A heap TID of the nearest candidate is returned or skipped
NextTid ==
  /\ pc = "fetch" /\ w # <<>> /\ left[llast(w)] > 0
  /\ LET e == llast(w)
         tid == TidsOf[e][left[e]]
     IN  /\ left' = [left EXCEPT ![e] = @ - 1]
         /\ \/ /\ Skips(e)
               /\ UNCHANGED <<pc, previousDistance, trace, returned>>
            \/ /\ ~Skips(e)
               /\ previousDistance' =
                    IF hnsw_iterative_scan = "strict" THEN dist(e) ELSE previousDistance
               /\ trace' = IF ~hnsw_trace THEN trace ELSE
                    CountBlocks([trace EXCEPT !.fetches = @ + 1,
                                 !.tids = IF trace.fetches < MaxTids THEN Append(@, tid) ELSE @])
               /\ returned' = Append(returned, <<e, tid>>)
               /\ pc' = "tuple"
  /\ UNCHANGED <<graph, settings, first, search, w, bufferUsage, entryBlks, lines, starts, used,
                 ended, traced, modes, calls, expanded, indexBlks, heapBlks, scans>>

\* External: the executor fetches the heap tuple, unless the heap page is still pinned
HeapFetch ==
  /\ pc = "tuple" /\ pc' = "idle"
  /\ \E n \in 0 .. 1 : bufferUsage' = bufferUsage + n /\ heapBlks' = heapBlks + n
  /\ UNCHANGED <<graph, settings, first, search, w, left, previousDistance, trace, entryBlks,
                 lines, starts, used, returned, ended, traced, modes, calls, expanded, indexBlks,
                 scans>>

\* HnswTraceEmit
TraceLine ==
  [topk |-> trace.fetches, topk_ids |-> trace.tids,
   distance_compute_count |-> trace.distances, visited_nodes |-> trace.visited,
   idx_blks |-> trace.idx, heap_blks |-> bufferUsage - trace.before - trace.idx]

\* hnswendscan
EndScan ==
  /\ pc = "idle" /\ pc' = "closed"
  /\ lines' = IF hnsw_trace /\ ~first THEN Append(lines, TraceLine) ELSE lines
  /\ traced' = traced \cup {hnsw_trace}
  /\ UNCHANGED <<graph, settings, first, search, w, left, previousDistance, trace, bufferUsage,
                 entryBlks, starts, used, returned, ended, modes, calls, expanded, indexBlks,
                 heapBlks, scans>>

InCall == GetTuple \/ Expand \/ Visit \/ FinishLayer \/ Refill \/ DropCandidate \/ NextTid
Next == BeginScan \/ Rescan \/ ChangeSetting \/ InCall \/ HeapFetch \/ EndScan

\* A backend inside a call goes on; what the executor does next is its choice
Progress == Expand \/ Visit \/ FinishLayer \/ Refill \/ DropCandidate \/ NextTid \/ HeapFetch
Spec == Init /\ [][Next]_vars
FairSpec == Spec /\ WF_vars(Progress)

-----------------------------------------------------------------------------
Counter == Nat
Trace == [distances : Counter, visited : Counter, fetches : Counter, tids : Seq(Nat),
          idx : Int, before : Int]
Line == [topk : Counter, topk_ids : Seq(Nat), distance_compute_count : Counter,
         visited_nodes : Counter, idx_blks : Int, heap_blks : Int]

\* The fields of a scan descriptor and of a search hold what their C types say.
TypeOK ==
  /\ IsGraph(graph)
  /\ hnsw_trace \in BOOLEAN /\ hnsw_iterative_scan \in {"off", "relaxed", "strict"}
  /\ pc \in {"closed", "idle", "search", "fetch", "tuple"}
  /\ first \in BOOLEAN /\ v \subseteq Element /\ tuples \in Nat
  /\ discarded = None \/ discarded \subseteq Element
  /\ w \in Seq(Element) /\ left \in [Element -> Nat] /\ previousDistance \in Int
  /\ trace \in Trace
  /\ lc \in 0 .. MaxLevel /\ C \subseteq Element /\ W \subseteq Element
  /\ unvisited \subseteq Element
  /\ bufferUsage \in Nat /\ entryBlks \in Nat /\ lines \in Seq(Line) /\ starts \in Nat
  /\ used \subseteq Element /\ returned \in Seq(Element \X Nat)
  /\ ended \in BOOLEAN /\ traced \subseteq BOOLEAN
  /\ modes \subseteq {"off", "relaxed", "strict"}
  /\ calls \in Nat /\ expanded \in Nat /\ indexBlks \in Nat /\ heapBlks \in Nat
  /\ scans \in Nat /\ sets \in Nat

\* The list of the scan; hnswrescan leaves the one of the last scan behind
List == IF first THEN {} ELSE Range(w)

\* Between its batches an iterative scan neither loses nor duplicates a candidate: every
\* element it has loaded at the ground level is in exactly one of the result of the running
\* search, the discarded heap, the list being returned and the candidates used up.
NothingLost ==
  discarded # None =>
    /\ v \ unvisited = W \cup discarded \cup List \cup used
    /\ W \cap (discarded \cup List \cup used) = {}
    /\ discarded \cap (List \cup used) = {}
    /\ List \cap used = {}
    /\ ~first => IsInjective(w)

TidsOfAll(S) == UNION {{<<e, t>> : t \in Range(TidsOf[e])} : e \in S}

\* When a relaxed iterative scan says there are no more tuples it has returned every heap TID
\* of every element it has come across, also those left over at hnsw.max_scan_tuples or at the
\* memory limit ("Return remaining tuples").  Below the limits it has come across everything
\* that can be reached at the ground level from where it entered that level, which is the entry
\* point of the index if the index has no other level.
Complete ==
  ended /\ modes = {"relaxed"} =>
    /\ Range(returned) = TidsOfAll(v)
    /\ tuples < MaxScanTuples /\ TRUE \notin Memory =>
         /\ \A e \in v : graph.neighbors[0][e] \subseteq v
         /\ graph.entry # NoElement =>
              v # {} /\ (graph.level[graph.entry] = 0 => graph.entry \in v)

\* No heap TID is returned twice between two calls of hnswrescan, whatever is set in between.
NoTidTwice == IsInjective(returned)

\* During the search from the entry point W holds the ef nearest of the elements loaded at
\* the level, although W is cut with a counter that never goes down.
NearestKept ==
  pc = "search" /\ first =>
    LET loaded == {e \in v \ unvisited : graph.level[e] >= lc}
    IN  /\ Cardinality(W) = Min({Ef, Cardinality(loaded)})
        /\ \A e \in W, d \in loaded \ W : dist(e) <= dist(d)

\* A plain scan and a strict iterative scan return their tuples in the order of the distance,
\* over all batches.
Ordered ==
  modes \in {{"off"}, {"strict"}} =>
    \A i, j \in DOMAIN returned : i < j => dist(returned[i][1]) <= dist(returned[j][1])

LastLine == lines[Len(lines)]

\* If hnsw.trace is on from hnswrescan to hnswendscan, the line has the number and the order of
\* the TIDs returned since hnswrescan, and the blocks read are split between the index and
\* the executor as they were read, although both share one counter.
TraceExact ==
  pc = "closed" /\ lines # <<>> /\ traced = {TRUE} /\ ~first =>
    LET n == Min({MaxTids, Len(returned)})
    IN  /\ LastLine.topk = Len(returned)
        /\ LastLine.topk_ids = [i \in 1 .. n |-> returned[i][2]]
        /\ LastLine.idx_blks = indexBlks /\ LastLine.heap_blks = heapBlks

\* A call of hnswgettuple returns: the search of a layer and the batches of an iterative
\* scan end.
CallsReturn == (pc \in {"search", "fetch"}) ~> (pc \in {"tuple", "idle"})

-----------------------------------------------------------------------------
\* Not so (README, Observations): INSTALL_SUMMARY.md on distance_compute_count: "Number of distance function calls".
DistancesCounted ==
  pc = "closed" /\ lines # <<>> /\ traced = {TRUE} /\ ~first =>
    LastLine.distance_compute_count = calls

\* Not so (README, Observations): INSTALL_SUMMARY.md on visited_nodes: "HNSW graph nodes expanded during search".
ExpansionsCounted ==
  pc = "closed" /\ lines # <<>> /\ traced = {TRUE} /\ ~first =>
    LastLine.visited_nodes = expanded

\* Not so (README, Observations): ReadMe.md, "`SET hnsw.trace = on;` makes every HNSW index
\* scan emit a JSON line", for what pgstat_count_index_scan counts as an index scan.
EveryScanTraced ==
  pc = "closed" /\ hnsw_trace /\ sets = 0 => Len(lines) = starts

\* Not so (README, Observations): INSTALL_SUMMARY.md on topk: "Number of TIDs the scan returned".
TopkCounted ==
  pc = "closed" /\ lines # <<>> /\ hnsw_trace /\ ~first =>
    LastLine.topk = Len(returned)

=============================================================================
