--------------------------- MODULE HnswScanProofs ---------------------------
(***************************************************************************)
(* The properties of an index scan and of its trace, for every graph,      *)
(* every hnsw.ef_search, every limit and every sequence of calls and       *)
(* changes of the settings.                                                *)
(*                                                                         *)
(* The inductive invariant says where each element that was loaded is (in  *)
(* W, in the discarded heap, in the list or used up), which of its heap    *)
(* TIDs are left, what was returned, and what the trace has counted so     *)
(* far.  Each action has a lemma that it keeps the invariant.              *)
(***************************************************************************)
EXTENDS HnswScan, FiniteSetTheorems, TLAPS

-----------------------------------------------------------------------------
(* The inductive invariant of a scan *)

\* The candidate whose heap TIDs are being returned
Current == IF first \/ w = <<>> THEN {} ELSE {llast(w)}

\* Where a scan is: between two calls no search is under way, a search after the first goes on
\* at the ground level with what was discarded, and before the first call there is nothing yet
PhaseInv ==
  /\ pc # "search" => unvisited = {} /\ W = {} /\ C = {}
  /\ pc = "search" /\ lc > 0 => first /\ discarded = None
  /\ pc = "search" /\ ~first => discarded # None /\ w = <<>>
  /\ pc \in {"search", "fetch", "tuple"} => hnsw_iterative_scan \in modes
  /\ pc \in {"fetch", "tuple"} => ~first
  /\ first => used = {} /\ returned = <<>> /\ ~ended
  /\ first /\ pc # "search" => discarded = None /\ v = {}
  /\ ~first => modes # {}

\* The search of a layer: W and C hold elements that were loaded
SearchInv ==
  /\ unvisited \subseteq v /\ W \subseteq v \ unvisited
  /\ discarded # None => C \subseteq W \cup discarded
  /\ pc = "search" /\ first =>
       /\ W # {} /\ \A e \in W : graph.level[e] >= lc
       /\ graph.entry # NoElement /\ lc <= graph.level[graph.entry]
       /\ lc = 0 /\ hnsw_iterative_scan # "off" => discarded # None

\* The list: each candidate once, none used up, the nearest last
ListInv ==
  ~first =>
    /\ IsInjective(w) /\ List \cap used = {} /\ List \cup used \subseteq v \ unvisited
    /\ \A i, j \in DOMAIN w : i < j => dist(w[i]) >= dist(w[j])

\* The heap TIDs of an element are used from the last to the first, once it is the current one
LeftInv ==
  /\ \A e \in Element : left[e] <= Len(TidsOf[e])
  /\ \A e \in v \ unvisited : e \notin used \cup Current => left[e] = Len(TidsOf[e])
  /\ \A e \in used : left[e] = 0

\* What was returned: TIDs that are not left any more, and all of those if nothing is skipped
ReturnedInv ==
  /\ \A i \in DOMAIN returned :
       /\ returned[i][1] \in used \cup Current
       /\ \E k \in left[returned[i][1]] + 1 .. Len(TidsOf[returned[i][1]]) :
            returned[i][2] = TidsOf[returned[i][1]][k]
  /\ modes \subseteq {"relaxed"} =>
       \A e \in used \cup Current : \A k \in left[e] + 1 .. Len(TidsOf[e]) :
         <<e, TidsOf[e][k]>> \in Range(returned)

\* The order of what was returned and of what is still to come
OrderInv ==
  /\ modes = {"off"} =>
       /\ discarded = None
       /\ \A i \in DOMAIN returned : \A e \in List : dist(returned[i][1]) <= dist(e)
  /\ modes = {"strict"} => \A i \in DOMAIN returned : dist(returned[i][1]) <= previousDistance

\* A relaxed scan at its end, and what it has come across below the limits
ReachInv ==
  /\ modes = {"relaxed"} /\ ~first /\ discarded = None => v = {} /\ graph.entry = NoElement
  /\ ended /\ modes = {"relaxed"} => pc # "search" /\ w = <<>> /\ discarded \in {None, {}}
  /\ discarded # None /\ tuples < MaxScanTuples /\ TRUE \notin Memory =>
       \A e \in v \ unvisited :
         graph.neighbors[0][e] \subseteq v \/ e \in C \/ e \in discarded
  /\ discarded # None => v # {} /\ (graph.level[graph.entry] = 0 => graph.entry \in v)
  /\ pc = "search" /\ first /\ graph.level[graph.entry] = 0 => graph.entry \in v

\* The trace, as long as it was on since hnswrescan
TraceInv ==
  /\ pc # "closed" => traced # {}
  /\ traced = {TRUE} /\ pc # "closed" =>
       /\ trace.fetches = Len(returned)
       /\ trace.tids = [i \in 1 .. Min({MaxTids, Len(returned)}) |-> returned[i][2]]
       /\ bufferUsage - trace.before = indexBlks + heapBlks
       /\ pc \in {"idle", "tuple"} => trace.idx = indexBlks
       /\ pc \in {"search", "fetch"} =>
            hnsw_trace /\ trace.idx + bufferUsage - entryBlks = indexBlks

IInv ==
  /\ TypeOK /\ PhaseInv /\ SearchInv /\ ListInv /\ LeftInv /\ ReturnedInv /\ OrderInv
  /\ ReachInv /\ TraceInv
  /\ NothingLost /\ NearestKept /\ NoTidTwice /\ Ordered /\ TraceExact

-----------------------------------------------------------------------------
(* Sets, lists and numbers *)

LEMMA LeastNat ==
  ASSUME NEW T, T \subseteq Nat, T # {}
  PROVE  \E n \in T : \A m \in T : n <= m
<1>1. PICK n \in T : \A m \in T : ~(<<m, n>> \in OpToRel(<, Nat))
  BY WFMin, NatLessThanWellFounded, Zenon
<1>2. ASSUME NEW m \in T, m < n PROVE FALSE
  <2>1. <<m, n>> \in OpToRel(<, Nat)
    BY <1>2, ZenonT(30) DEF OpToRel
  <2>. QED BY <1>1, <2>1, Zenon
<1>3. \A m \in T : n <= m
  BY <1>2, SMTT(30), Z3T(30)
<1>. QED BY <1>3, Zenon

LEMMA Finite ==
  \A S \in SUBSET Element : IsFiniteSet(S) /\ Cardinality(S) \in Nat
  BY ScanAssumption, FS_Subset, FS_CardinalityType, ZenonT(30)

LEMMA MinOfTwo ==
  ASSUME NEW a \in Nat, NEW b \in Nat
  PROVE  Min({a, b}) = IF a <= b THEN a ELSE b
<1> DEFINE m == IF a <= b THEN a ELSE b
<1>1. m \in {a, b} /\ \A y \in {a, b} : m <= y
  BY SMTT(30), Z3T(30)
<1>2. ASSUME NEW x \in {a, b}, \A y \in {a, b} : x <= y PROVE x = m
  BY <1>1, <1>2, SMTT(30), Z3T(30)
<1> HIDE DEF m
<1>3. Min({a, b}) \in {a, b} /\ \A y \in {a, b} : Min({a, b}) <= y
  BY <1>1, Zenon DEF Min
<1>4. Min({a, b}) = m
  BY <1>2, <1>3, Zenon
<1>. QED BY <1>4, Zenon DEF m

\* What the graph of the index holds
LEMMA GraphFacts ==
  ASSUME TypeOK
  PROVE  /\ \A e \in Element : dist(e) \in Nat /\ graph.level[e] \in 0 .. MaxLevel
         /\ graph.entry \in Element \cup {NoElement}
         /\ \A l \in 0 .. MaxLevel : \A e \in Element : graph.neighbors[l][e] \subseteq Element
<1>1. IsGraph(graph)
  BY Zenon DEF TypeOK
<1>. QED BY <1>1, ZenonT(30) DEF IsGraph, dist

\* A set of candidates has a furthest one
LEMMA FurthestExists ==
  ASSUME TypeOK, NEW S \in SUBSET Element, S # {}
  PROVE  Furthest(S) # {}
<1> SUFFICES ASSUME Furthest(S) = {} PROVE FALSE
  BY SMTT(30), Z3T(30)
<1> DEFINE Bad(R) == R # {} /\ Furthest(R) = {}
           T == {n \in Nat : \E R \in SUBSET Element : Bad(R) /\ n = Cardinality(R)}
<1>1. Cardinality(S) \in T
  BY Finite, SMTT(30), Z3T(30)
<1>2. PICK n \in T : \A m \in T : n <= m
  <2>1. T \subseteq Nat
    BY SMTT(30), Z3T(30)
  <2> HIDE DEF T
  <2>. QED BY <1>1, <2>1, LeastNat, Zenon
<1>3. PICK R \in SUBSET Element : Bad(R) /\ n = Cardinality(R)
  BY <1>2, ZenonT(30)
<1>4. PICK x \in R : TRUE
  BY <1>3, ZenonT(30)
<1>5. R \ {x} \in SUBSET Element /\ Cardinality(R \ {x}) = Cardinality(R) - 1
  BY Finite, FS_RemoveElement, ZenonT(30)
<1>6. ~Bad(R \ {x})
  <2> SUFFICES ASSUME Bad(R \ {x}) PROVE FALSE
    BY Zenon
  <2>1. Cardinality(R \ {x}) \in T
    BY <1>5, Finite, Zenon
  <2>2. Cardinality(R) <= Cardinality(R \ {x}) /\ Cardinality(R) \in Nat
    BY <1>2, <1>3, <2>1, Finite, Zenon
  <2>. QED BY <1>5, <2>2, SMTT(30), Z3T(30)
<1>7. \A e \in R : dist(e) \in Nat
  BY GraphFacts, Zenon
<1>8. CASE R \ {x} = {}
  <2>1. x \in Furthest(R)
    BY <1>7, <1>8, SMTT(30), Z3T(30) DEF Furthest
  <2>. QED BY <1>3, <2>1, Zenon
<1>9. CASE R \ {x} # {}
  <2>1. PICK f \in R \ {x} : \A d \in R \ {x} : dist(f) >= dist(d)
    BY <1>6, <1>9, Zenon DEF Furthest
  <2>2. f \in Furthest(R) \/ x \in Furthest(R)
    BY <1>7, <2>1, SMTT(30), Z3T(30) DEF Furthest
  <2>. QED BY <1>3, <2>2, Zenon
<1>. QED BY <1>8, <1>9, SMTT(30), Z3T(30)

\* The list of a batch has the candidates of W, each once, the nearest last
LEMMA ListOfSet ==
  ASSUME NEW S \in SUBSET Element, NEW l \in Lists(S)
  PROVE  /\ l \in Seq(Element) /\ Range(l) = S /\ IsInjective(l)
         /\ \A i, j \in DOMAIN l : i < j => dist(l[i]) >= dist(l[j])
<1> DEFINE n == Cardinality(S)
<1>1. n \in Nat /\ IsFiniteSet(S)
  BY Finite, Zenon
<1>2. /\ l \in [1 .. n -> S] /\ IsInjective(l)
      /\ \A i, j \in DOMAIN l : i < j => dist(l[i]) >= dist(l[j])
  BY Zenon DEF Lists
<1>3. l \in Injection(1 .. n, S)
  BY <1>2, Zenon DEF Injection
<1>4. Cardinality(1 .. n) = n
  BY <1>1, FS_Interval, SMTT(30), Z3T(30)
<1>5. l \in Surjection(1 .. n, S)
  BY <1>1, <1>3, <1>4, FS_Injection, Zenon
<1>6. \A e \in S : \E i \in 1 .. n : l[i] = e
  BY <1>5, Zenon DEF Surjection
<1>7. Range(l) = S
  BY <1>2, <1>6, Zenon DEF Range
<1>8. l \in Seq(Element)
  BY <1>1, <1>2, SMTT(30), Z3T(30)
<1>. QED BY <1>2, <1>7, <1>8, Zenon

\* The last candidate of a list, and the list without it
LEMMA LastAndFront ==
  ASSUME NEW s \in Seq(Element), s # <<>>
  PROVE  /\ llast(s) \in Element /\ list_delete_last(s) \in Seq(Element)
         /\ Range(s) = Range(list_delete_last(s)) \cup {llast(s)}
         /\ DOMAIN list_delete_last(s) \subseteq DOMAIN s
         /\ \A i \in DOMAIN list_delete_last(s) : list_delete_last(s)[i] = s[i]
         /\ IsInjective(s) =>
              IsInjective(list_delete_last(s)) /\ llast(s) \notin Range(list_delete_last(s))
         /\ Len(s) \in DOMAIN s /\ \A i \in DOMAIN list_delete_last(s) : i < Len(s)
<1>1. /\ Len(s) \in Nat \ {0} /\ DOMAIN s = 1 .. Len(s)
      /\ list_delete_last(s) \in Seq(Element) /\ DOMAIN list_delete_last(s) = 1 .. (Len(s) - 1)
      /\ \A i \in 1 .. (Len(s) - 1) : list_delete_last(s)[i] = s[i]
      /\ llast(s) = s[Len(s)] /\ llast(s) \in Element
  BY SMTT(30), Z3T(30) DEF list_delete_last, llast
<1>2. 1 .. Len(s) = (1 .. (Len(s) - 1)) \cup {Len(s)} /\ Len(s) \notin 1 .. (Len(s) - 1)
  BY <1>1, SMTT(30), Z3T(30)
<1>3. Range(s) = Range(list_delete_last(s)) \cup {llast(s)}
  BY <1>1, <1>2, ZenonT(30) DEF Range
<1>4. IsInjective(s) =>
        IsInjective(list_delete_last(s)) /\ llast(s) \notin Range(list_delete_last(s))
  BY <1>1, <1>2, SMTT(30), Z3T(30) DEF Range, IsInjective
<1>. QED BY <1>1, <1>2, <1>3, <1>4, SMTT(30), Z3T(30)

LEMMA LastInRange == \A s \in Seq(Element) : s # <<>> => llast(s) \in Range(s)
  BY LastAndFront, SMTT(30), Z3T(30)

LEMMA Appended ==
  ASSUME NEW R, NEW s \in Seq(R), NEW x \in R
  PROVE  /\ Append(s, x) \in Seq(R) /\ Len(Append(s, x)) = Len(s) + 1 /\ Len(s) \in Nat
         /\ DOMAIN s = 1 .. Len(s) /\ DOMAIN Append(s, x) = (1 .. Len(s)) \cup {Len(s) + 1}
         /\ Append(s, x)[Len(s) + 1] = x /\ \A i \in 1 .. Len(s) : Append(s, x)[i] = s[i]
         /\ Range(Append(s, x)) = Range(s) \cup {x}
<1>1. /\ Append(s, x) \in Seq(R) /\ Len(Append(s, x)) = Len(s) + 1 /\ Len(s) \in Nat
      /\ DOMAIN s = 1 .. Len(s) /\ DOMAIN Append(s, x) = 1 .. (Len(s) + 1)
      /\ Append(s, x)[Len(s) + 1] = x /\ \A i \in 1 .. Len(s) : Append(s, x)[i] = s[i]
  BY SMTT(30), Z3T(30)
<1>2. 1 .. (Len(s) + 1) = (1 .. Len(s)) \cup {Len(s) + 1}
  BY <1>1, SMTT(30), Z3T(30)
<1> DEFINE t == Append(s, x)
<1> HIDE DEF t
<1>3. /\ DOMAIN s = 1 .. Len(s) /\ DOMAIN t = (1 .. Len(s)) \cup {Len(s) + 1}
      /\ t[Len(s) + 1] = x /\ \A i \in 1 .. Len(s) : t[i] = s[i]
  BY <1>1, <1>2, Zenon DEF t
<1>4. Range(t) = Range(s) \cup {x}
  BY <1>3, SMTT(30), Z3T(30) DEF Range
<1>. QED BY <1>1, <1>2, <1>4, Zenon DEF t

LEMMA TidsDomain ==
  \A e \in Element : TidsOf[e] \in Seq(Nat) /\ DOMAIN TidsOf[e] = 0 + 1 .. Len(TidsOf[e])
  BY ScanAssumption, SMTT(30), Z3T(30)

LEMMA PairsOf ==
  \A s \in Seq(Element \X Nat) : \A i \in DOMAIN s : s[i] = <<s[i][1], s[i][2]>>
  BY SMTT(30), Z3T(30)

-----------------------------------------------------------------------------
(* The steps of hnswgettuple that return heap TIDs *)

\* The nearest candidate of the list, and the list without it
LEMMA CurrentFacts ==
  ASSUME IInv, ~first, w # <<>>
  PROVE  /\ llast(w) \in Element /\ list_delete_last(w) \in Seq(Element)
         /\ List = Range(list_delete_last(w)) \cup {llast(w)} /\ Current = {llast(w)}
         /\ llast(w) \notin Range(list_delete_last(w)) /\ IsInjective(list_delete_last(w))
         /\ llast(w) \in v \ unvisited /\ llast(w) \notin used
<1>1. w \in Seq(Element)
  BY Zenon DEF IInv, TypeOK
<1>2. /\ llast(w) \in Element /\ list_delete_last(w) \in Seq(Element)
      /\ Range(w) = Range(list_delete_last(w)) \cup {llast(w)}
      /\ IsInjective(w) =>
           IsInjective(list_delete_last(w)) /\ llast(w) \notin Range(list_delete_last(w))
  BY <1>1, LastAndFront, Zenon
<1>3. List = Range(w) /\ Current = {llast(w)}
  BY Zenon DEF List, Current
<1>. QED BY <1>2, <1>3, Zenon DEF IInv, ListInv

\* A step that returns nothing, and after which the current candidate has all its TIDs left
LEMMA ReturnedKept ==
  ASSUME IInv, UNCHANGED <<returned, left>>,
         modes' \subseteq {"relaxed"} => modes \subseteq {"relaxed"},
         used \cup Current \subseteq used' \cup Current',
         \A d \in (used' \cup Current') \ (used \cup Current) :
           d \in Element /\ left[d] = Len(TidsOf[d])
  PROVE  ReturnedInv' /\ NoTidTwice'
<1>1. NoTidTwice'
  BY Zenon DEF IInv, NoTidTwice
<1>2. ASSUME NEW d \in (used' \cup Current') \ (used \cup Current)
      PROVE  left[d] + 1 .. Len(TidsOf[d]) = {}
  <2>1. Len(TidsOf[d]) \in Nat /\ left[d] = Len(TidsOf[d])
    BY ScanAssumption, SMTT(30), Z3T(30)
  <2>. QED BY <2>1, SMTT(30), Z3T(30)
<1>3. ReturnedInv'
  <2>1. \A i \in DOMAIN returned :
          /\ returned[i][1] \in used \cup Current
          /\ \E k \in left[returned[i][1]] + 1 .. Len(TidsOf[returned[i][1]]) :
               returned[i][2] = TidsOf[returned[i][1]][k]
    BY Zenon DEF IInv, ReturnedInv
  <2>2. modes \subseteq {"relaxed"} =>
          \A e \in used \cup Current : \A k \in left[e] + 1 .. Len(TidsOf[e]) :
            <<e, TidsOf[e][k]>> \in Range(returned)
    BY Zenon DEF IInv, ReturnedInv
  <2>3. modes \subseteq {"relaxed"} =>
          \A e \in used' \cup Current' : \A k \in left[e] + 1 .. Len(TidsOf[e]) :
            <<e, TidsOf[e][k]>> \in Range(returned)
    BY <1>2, <2>2, Zenon
  <2>. QED BY <2>1, <2>3, Zenon DEF ReturnedInv
<1>. QED BY <1>1, <1>3, Zenon

LEMMA DropCandidateStep ==
  ASSUME IInv, DropCandidate PROVE IInv'
<1> DEFINE e == llast(w)
           f == list_delete_last(w)
<1>1. /\ pc = "fetch" /\ w # <<>> /\ left[e] = 0 /\ w' = f /\ used' = used \cup {e}
      /\ UNCHANGED <<graph, hnsw_trace, hnsw_iterative_scan, sets, pc, first, v, C, W,
                     unvisited, lc, discarded, tuples, left, previousDistance, trace,
                     bufferUsage, entryBlks, lines, starts, returned, ended, traced, modes,
                     calls, expanded, indexBlks, heapBlks, scans>>
  BY Zenon DEF DropCandidate, settings, search
<1>2. ~first
  BY <1>1, Zenon DEF IInv, PhaseInv
<1>3. /\ e \in Element /\ f \in Seq(Element)
      /\ List = Range(f) \cup {e} /\ Current = {e}
      /\ e \notin Range(f) /\ IsInjective(f) /\ e \in v \ unvisited /\ e \notin used
  BY <1>1, <1>2, CurrentFacts, ZenonT(30)
<1>4. /\ DOMAIN f \subseteq DOMAIN w /\ \A i \in DOMAIN f : f[i] = w[i]
  BY <1>1, LastAndFront, Zenon DEF IInv, TypeOK
<1> HIDE DEF e, f
<1>5. List' = Range(f) /\ Current' \subseteq Range(f)
  <2>1. List' = Range(f) /\ Current' = IF f = <<>> THEN {} ELSE {llast(f)}
    BY <1>1, <1>2, Zenon DEF List, Current
  <2>2. f # <<>> => llast(f) \in Range(f)
    BY <1>3, LastInRange, Zenon
  <2>. QED BY <2>1, <2>2, Zenon
<1>6. TypeOK'
  BY <1>1, <1>3, Zenon DEF IInv, TypeOK, dist, IsGraph
<1>7. PhaseInv' /\ SearchInv'
  BY <1>1, <1>2, Zenon DEF IInv, PhaseInv, SearchInv
<1>8. ListInv'
  BY <1>1, <1>2, <1>3, <1>4, <1>5, ZenonT(30) DEF IInv, ListInv, dist
<1>9. LeftInv'
  BY <1>1, <1>3, <1>5, Zenon DEF IInv, LeftInv
<1>10. ReturnedInv' /\ NoTidTwice'
  <2>1. ASSUME NEW d \in (used' \cup Current') \ (used \cup Current)
        PROVE  d \in Element /\ left[d] = Len(TidsOf[d])
    <3>1. d \in List /\ d \in v \ unvisited /\ v \subseteq Element
      BY <1>1, <1>2, <1>3, <1>5, Zenon DEF IInv, ListInv, TypeOK
    <3>. QED BY <3>1, Zenon DEF IInv, LeftInv
  <2>. QED BY <1>1, <1>3, <2>1, ReturnedKept, Zenon
<1>11. OrderInv' /\ Ordered'
  BY <1>1, <1>3, <1>5, Zenon DEF IInv, OrderInv, Ordered, dist
<1>12. ReachInv'
  BY <1>1, Zenon DEF IInv, ReachInv
<1>13. TraceInv' /\ TraceExact'
  BY <1>1, Zenon DEF IInv, TraceInv, TraceExact, LastLine
<1>14. NothingLost'
  BY <1>1, <1>2, <1>3, <1>5, ZenonT(30) DEF IInv, NothingLost
<1>15. NearestKept'
  BY <1>1, Zenon DEF NearestKept
<1>. QED BY <1>6, <1>7, <1>8, <1>9, <1>10, <1>11, <1>12, <1>13, <1>14, <1>15, ZenonT(30) DEF IInv

\* The heap TID that is next, and the list with it
LEMMA NextTidFacts ==
  ASSUME IInv, NextTid
  PROVE  /\ llast(w) \in Element /\ left[llast(w)] \in 1 .. Len(TidsOf[llast(w)])
         /\ TidsOf[llast(w)] \in Seq(Nat) /\ TidsOf[llast(w)][left[llast(w)]] \in Nat
         /\ Current = {llast(w)} /\ llast(w) \in List /\ llast(w) \in v \ unvisited
         /\ llast(w) \notin used /\ \A d \in List : dist(llast(w)) <= dist(d)
<1>1. pc = "fetch" /\ w # <<>> /\ left[llast(w)] > 0
  BY Zenon DEF NextTid
<1>2. ~first
  BY <1>1, Zenon DEF IInv, PhaseInv
<1>3. /\ llast(w) \in Element /\ List = Range(list_delete_last(w)) \cup {llast(w)}
      /\ Current = {llast(w)} /\ llast(w) \in v \ unvisited /\ llast(w) \notin used
  BY <1>1, <1>2, CurrentFacts, Zenon
<1>4. left[llast(w)] <= Len(TidsOf[llast(w)]) /\ left[llast(w)] \in Nat
  BY <1>3, ZenonT(30) DEF IInv, LeftInv, TypeOK
<1>5. TidsOf[llast(w)] \in Seq(Nat)
  BY <1>3, ScanAssumption, ZenonT(30)
<1>6. \A d \in List : dist(llast(w)) <= dist(d)
  <2>1. /\ w \in Seq(Element)
        /\ \A i, j \in DOMAIN w : i < j => dist(w[i]) >= dist(w[j])
        /\ \A d \in Element : dist(d) \in Nat
    BY <1>2, GraphFacts, Zenon DEF IInv, TypeOK, ListInv
  <2>2. List = Range(w)
    BY <1>2, ZenonT(30) DEF List
  <2>3. Len(w) \in Nat \ {0} /\ DOMAIN w = 1 .. Len(w) /\ llast(w) = w[Len(w)]
        /\ \A i \in DOMAIN w : w[i] \in Element
    BY <1>1, <2>1, SMTT(30), Z3T(30) DEF llast
  <2>4. ASSUME NEW i \in DOMAIN w PROVE dist(llast(w)) <= dist(w[i])
    <3>1. i = Len(w) \/ i < Len(w)
      BY <2>3, SMTT(30), Z3T(30)
    <3>2. dist(w[i]) \in Nat /\ dist(llast(w)) \in Nat
      BY <1>3, <2>1, <2>3, Zenon
    <3>3. CASE i = Len(w)
      BY <2>3, <3>2, <3>3, SMTT(30), Z3T(30)
    <3>4. CASE i < Len(w)
      BY <2>1, <2>3, <3>2, <3>4, SMTT(30), Z3T(30)
    <3>. QED BY <3>1, <3>3, <3>4, Zenon
  <2>. QED BY <2>2, <2>4, Zenon DEF Range
<1>. QED BY <1>1, <1>3, <1>4, <1>5, <1>6, SMTT(30), Z3T(30)

LEMMA NextTidStep ==
  ASSUME IInv, NextTid PROVE IInv'
<1> DEFINE e == llast(w)
           tid == TidsOf[e][left[e]]
<1>1. /\ pc = "fetch" /\ w # <<>> /\ left' = [left EXCEPT ![e] = left[e] - 1]
      /\ \/ Skips(e) /\ UNCHANGED <<pc, previousDistance, trace, returned>>
         \/ /\ ~Skips(e) /\ pc' = "tuple" /\ returned' = Append(returned, <<e, tid>>)
            /\ previousDistance' =
                 IF hnsw_iterative_scan = "strict" THEN dist(e) ELSE previousDistance
            /\ trace' = IF ~hnsw_trace THEN trace ELSE
                 CountBlocks([trace EXCEPT !.fetches = @ + 1,
                              !.tids = IF trace.fetches < MaxTids THEN Append(@, tid) ELSE @])
      /\ UNCHANGED <<graph, hnsw_trace, hnsw_iterative_scan, sets, first, v, C, W, unvisited,
                     lc, discarded, tuples, w, bufferUsage, entryBlks, lines, starts, used,
                     ended, traced, modes, calls, expanded, indexBlks, heapBlks, scans>>
  BY Zenon DEF NextTid, settings, search
<1>2. ~first /\ hnsw_iterative_scan \in modes
  BY <1>1, Zenon DEF IInv, PhaseInv
<1>3. /\ e \in Element /\ left[e] \in 1 .. Len(TidsOf[e]) /\ TidsOf[e] \in Seq(Nat) /\ tid \in Nat
      /\ Current = {e} /\ e \in List /\ e \in v \ unvisited /\ e \notin used
      /\ \A d \in List : dist(e) <= dist(d)
  BY NextTidFacts, Zenon
<1> HIDE DEF e, tid
<1>4. /\ left' \in [Element -> Nat] /\ left'[e] = left[e] - 1
      /\ \A d \in Element \ {e} : left'[d] = left[d]
  <2>1. left \in [Element -> Nat]
    BY Zenon DEF IInv, TypeOK
  <2>. QED BY <1>1, <1>3, <2>1, SMTT(30), Z3T(30)
<1>5. List' = List /\ Current' = Current
  BY <1>1, Zenon DEF List, Current
<1>6. \A d \in Element : dist(d) \in Nat
  BY GraphFacts, Zenon DEF IInv
<1>7. /\ returned \in Seq(Element \X Nat) /\ previousDistance \in Int /\ trace \in Trace
      /\ used \subseteq Element
  BY Zenon DEF IInv, TypeOK
<1>8. <<e, tid>> \in Element \X Nat
  BY <1>3, SMTT(30), Z3T(30)
<1>9. /\ returned' \in Seq(Element \X Nat) /\ previousDistance' \in Int
  <2>1. Append(returned, <<e, tid>>) \in Seq(Element \X Nat)
    BY <1>7, <1>8, Appended, Zenon
  <2>2. dist(e) \in Int
    BY <1>3, <1>6, SMTT(30), Z3T(30)
  <2>. QED BY <1>1, <1>7, <2>1, <2>2, Zenon
<1>10. trace' \in Trace
  <2>1. bufferUsage \in Nat /\ entryBlks \in Nat
    BY Zenon DEF IInv, TypeOK
  <2>2. Append(trace.tids, tid) \in Seq(Nat)
    BY <1>3, <1>7, SMTT(30), Z3T(30) DEF Trace
  <2>3. CountBlocks([trace EXCEPT !.fetches = @ + 1,
                     !.tids = IF trace.fetches < MaxTids THEN Append(@, tid) ELSE @]) \in Trace
    <3>1. (IF trace.fetches < MaxTids THEN Append(trace.tids, tid) ELSE trace.tids) \in Seq(Nat)
      BY <1>7, <2>2, Zenon DEF Trace
    <3>2. /\ trace.fetches + 1 \in Nat /\ trace.idx + bufferUsage - entryBlks \in Int
      BY <1>7, <2>1, SMTT(30), Z3T(30) DEF Trace, Counter
    <3>. QED BY <1>7, <3>1, <3>2, Zenon DEF Trace, CountBlocks, Counter
  <2>. QED BY <1>1, <1>7, <2>3, Zenon
<1>11. TypeOK'
  BY <1>1, <1>4, <1>9, <1>10, Zenon DEF IInv, TypeOK
<1>12. PhaseInv' /\ SearchInv'
  BY <1>1, <1>2, Zenon DEF IInv, PhaseInv, SearchInv
<1>13. ListInv'
  BY <1>1, <1>5, Zenon DEF IInv, ListInv, dist
<1>14. LeftInv'
  <2>1. \A d \in Element : left[d] <= Len(TidsOf[d])
    BY Zenon DEF IInv, LeftInv
  <2>2. \A d \in Element : left'[d] <= Len(TidsOf[d])
    BY <1>3, <1>4, <2>1, SMTT(30), Z3T(30)
  <2>3. v \subseteq Element
    BY Zenon DEF IInv, TypeOK
  <2>. QED BY <1>1, <1>3, <1>4, <1>5, <1>7, <2>2, <2>3, ZenonT(30) DEF IInv, LeftInv
<1>15. ASSUME NEW i \in DOMAIN returned
       PROVE  /\ returned[i][1] \in used \cup Current /\ returned[i] \in Element \X Nat
              /\ \E k \in left'[returned[i][1]] + 1 .. Len(TidsOf[returned[i][1]]) :
                   returned[i][2] = TidsOf[returned[i][1]][k]
              /\ returned[i] # <<e, tid>>
  <2> DEFINE d == returned[i][1]
  <2>1. returned[i] \in Element \X Nat
    BY <1>7, SMTT(30), Z3T(30)
  <2>2. PICK k \in left[d] + 1 .. Len(TidsOf[d]) : returned[i][2] = TidsOf[d][k]
    BY Zenon DEF IInv, ReturnedInv
  <2>3. d \in Element /\ left[d] \in Nat /\ Len(TidsOf[d]) \in Nat
    BY <2>1, ScanAssumption, SMTT(30), Z3T(30) DEF IInv, TypeOK
  <2>4. k \in left'[d] + 1 .. Len(TidsOf[d])
    <3> HIDE DEF d
    <3>1. CASE d = e
      BY <1>3, <1>4, <2>3, <3>1, SMTT(30), Z3T(30)
    <3>2. CASE d # e
      BY <1>4, <2>3, <3>2, Zenon
    <3>. QED BY <3>1, <3>2, Zenon
  <2>5. returned[i] # <<e, tid>>
    <3> SUFFICES ASSUME d = e, TidsOf[e][k] = tid PROVE FALSE
      BY <2>2, SMTT(30), Z3T(30)
    <3>1. IsInjective(TidsOf[e]) /\ DOMAIN TidsOf[e] = 1 .. Len(TidsOf[e])
      BY <1>3, ScanAssumption, SMTT(30), Z3T(30)
    <3>2. k \in DOMAIN TidsOf[e] /\ left[e] \in DOMAIN TidsOf[e] /\ k # left[e]
      BY <1>3, <2>3, <3>1, SMTT(30), Z3T(30)
    <3>. QED BY <3>1, <3>2, Zenon DEF IsInjective, tid
  <2>6. d \in used \cup Current
    BY Zenon DEF IInv, ReturnedInv
  <2> HIDE DEF d
  <2>. QED BY <2>1, <2>2, <2>4, <2>5, <2>6, Zenon DEF d
<1>16. \A i \in DOMAIN returned :
       /\ returned[i][1] \in used' \cup Current'
       /\ \E k \in left'[returned[i][1]] + 1 .. Len(TidsOf[returned[i][1]]) :
            returned[i][2] = TidsOf[returned[i][1]][k]
  BY <1>1, <1>5, <1>15, Zenon
<1>17. CASE Skips(e) /\ UNCHANGED <<pc, previousDistance, trace, returned>>
  <2>1. "strict" \in modes
    BY <1>2, <1>17, Zenon DEF Skips
  <2>2. ~(modes \subseteq {"relaxed"})
    BY <2>1, ZenonT(30)
  <2>3. ReturnedInv' /\ NoTidTwice'
    BY <1>1, <1>16, <1>17, <2>2, ZenonT(30) DEF IInv, ReturnedInv, NoTidTwice
  <2>4. OrderInv' /\ Ordered'
    BY <1>1, <1>5, <1>17, Zenon DEF IInv, OrderInv, Ordered, dist
  <2>5. ReachInv'
    BY <1>1, <1>17, Zenon DEF IInv, ReachInv
  <2>6. TraceInv' /\ TraceExact'
    BY <1>1, <1>17, Zenon DEF IInv, TraceInv, TraceExact, LastLine
  <2>7. NothingLost' /\ NearestKept'
    BY <1>1, <1>5, <1>17, Zenon DEF IInv, NothingLost, NearestKept
  <2>. QED BY <1>11, <1>12, <1>13, <1>14, <2>3, <2>4, <2>5, <2>6, <2>7, ZenonT(30) DEF IInv
<1>18. CASE /\ ~Skips(e) /\ pc' = "tuple" /\ returned' = Append(returned, <<e, tid>>)
            /\ previousDistance' =
                 IF hnsw_iterative_scan = "strict" THEN dist(e) ELSE previousDistance
            /\ trace' = IF ~hnsw_trace THEN trace ELSE
                 CountBlocks([trace EXCEPT !.fetches = @ + 1,
                              !.tids = IF trace.fetches < MaxTids THEN Append(@, tid) ELSE @])
  <2> DEFINE n == Len(returned)
  <2>1. /\ n \in Nat /\ DOMAIN returned = 1 .. n /\ Len(returned') = n + 1
        /\ DOMAIN returned' = (1 .. n) \cup {n + 1}
        /\ returned'[n + 1] = <<e, tid>> /\ \A i \in 1 .. n : returned'[i] = returned[i]
        /\ Range(returned') = Range(returned) \cup {<<e, tid>>}
    BY <1>7, <1>8, <1>18, Appended, SMTT(30), Z3T(30)
  <2> HIDE DEF n
  <2>2. n + 1 \notin 1 .. n /\ \A i \in 1 .. n : i < n + 1
    BY <2>1, SMTT(30), Z3T(30)
  <2>3. NoTidTwice'
    <3>1. \A i, j \in 1 .. n : returned[i] = returned[j] => i = j
      BY <2>1, Zenon DEF IInv, NoTidTwice, IsInjective
    <3>2. \A i \in 1 .. n : returned[i] # <<e, tid>>
      BY <1>15, <2>1, Zenon
    <3>3. ASSUME NEW i \in DOMAIN returned', NEW j \in DOMAIN returned',
                 returned'[i] = returned'[j]
          PROVE  i = j
      <4>1. CASE i \in 1 .. n /\ j \in 1 .. n
        BY <2>1, <3>1, <3>3, <4>1, Zenon
      <4>2. CASE i \in 1 .. n /\ j = n + 1
        BY <2>1, <3>2, <3>3, <4>2, Zenon
      <4>3. CASE i = n + 1 /\ j \in 1 .. n
        BY <2>1, <3>2, <3>3, <4>3, Zenon
      <4>. QED BY <2>1, <4>1, <4>2, <4>3, Zenon
    <3>. QED BY <3>3, Zenon DEF NoTidTwice, IsInjective
  <2>4. ReturnedInv'
    <3>1. left'[e] + 1 = left[e] /\ left[e] \in left'[e] + 1 .. Len(TidsOf[e])
      BY <1>3, <1>4, SMTT(30), Z3T(30)
    <3>2. ASSUME NEW i \in DOMAIN returned'
          PROVE  /\ returned'[i][1] \in used' \cup Current'
                 /\ \E k \in left'[returned'[i][1]] + 1 .. Len(TidsOf[returned'[i][1]]) :
                      returned'[i][2] = TidsOf[returned'[i][1]][k]
      <4>1. CASE i \in 1 .. n
        <5>1. returned'[i] = returned[i] /\ i \in DOMAIN returned
          BY <2>1, <4>1, Zenon
        <5>. QED BY <1>16, <5>1, Zenon
      <4>2. CASE i = n + 1
        <5>1. returned'[i][1] = e /\ returned'[i][2] = TidsOf[e][left[e]]
          BY <2>1, <4>2, SMTT(30), Z3T(30) DEF tid
        <5>. QED BY <1>3, <1>5, <3>1, <5>1, ZenonT(30)
      <4>. QED BY <2>1, <4>1, <4>2, Zenon
    <3>3. ASSUME modes \subseteq {"relaxed"}, NEW d \in used \cup Current,
                 NEW k \in left'[d] + 1 .. Len(TidsOf[d])
          PROVE  <<d, TidsOf[d][k]>> \in Range(returned')
      <4>1. CASE d = e /\ k = left[e]
        BY <2>1, <4>1, Zenon DEF tid
      <4>2. CASE ~(d = e /\ k = left[e])
        <5>1. d \in Element /\ left[d] \in Nat /\ Len(TidsOf[d]) \in Nat
          BY <1>3, <1>7, ScanAssumption, SMTT(30), Z3T(30) DEF IInv, TypeOK
        <5>2. k \in left[d] + 1 .. Len(TidsOf[d])
          BY <1>3, <1>4, <4>2, <5>1, SMTT(30), Z3T(30)
        <5>3. <<d, TidsOf[d][k]>> \in Range(returned)
          BY <3>3, <5>2, Zenon DEF IInv, ReturnedInv
        <5>. QED BY <2>1, <5>3, ZenonT(30)
      <4>. QED BY <4>1, <4>2, Zenon
    <3>. QED BY <1>1, <1>5, <3>2, <3>3, ZenonT(30) DEF ReturnedInv
  <2>5. ASSUME NEW i \in 1 .. n PROVE returned[i][1] \in Element /\ dist(returned[i][1]) \in Nat
    BY <1>6, <1>7, <2>1, SMTT(30), Z3T(30)
  <2>6. ASSUME modes \in {{"off"}, {"strict"}}, NEW i \in 1 .. n
        PROVE  dist(returned[i][1]) <= dist(e)
    <3>1. CASE modes = {"off"}
      BY <1>3, <2>1, <3>1, ZenonT(30) DEF IInv, OrderInv
    <3>2. CASE modes = {"strict"}
      <4>1. hnsw_iterative_scan = "strict"
        BY <1>2, <3>2, ZenonT(30)
      <4>2. ~(dist(e) < previousDistance) /\ dist(returned[i][1]) <= previousDistance
        BY <1>18, <2>1, <3>2, <4>1, Zenon DEF Skips, IInv, OrderInv
      <4>. QED BY <1>3, <1>6, <1>7, <2>5, <4>2, SMTT(30), Z3T(30)
    <3>. QED BY <2>6, <3>1, <3>2, Zenon
  <2>7. Ordered'
    <3>1. modes \in {{"off"}, {"strict"}} =>
            \A i, j \in 1 .. n : i < j => dist(returned[i][1]) <= dist(returned[j][1])
      BY <2>1, Zenon DEF IInv, Ordered
    <3>2. returned'[n + 1][1] = e
      BY <2>1, SMTT(30), Z3T(30)
    <3>3. ASSUME NEW i \in (1 .. n) \cup {n + 1}, NEW j \in (1 .. n) \cup {n + 1}, i < j
          PROVE  i \in 1 .. n
      BY <2>1, <3>3, SMTT(30), Z3T(30)
    <3>. QED BY <1>1, <2>1, <2>6, <3>1, <3>2, <3>3, ZenonT(30) DEF Ordered, dist
  <2>8. OrderInv'
    <3>1. returned'[n + 1][1] = e
      BY <2>1, SMTT(30), Z3T(30)
    <3>2. modes = {"off"} => discarded = None
      BY Zenon DEF IInv, OrderInv
    <3>3. modes = {"off"} => \A i \in 1 .. n : \A d \in List : dist(returned[i][1]) <= dist(d)
      BY <2>1, Zenon DEF IInv, OrderInv
    <3>4. modes = {"strict"} => previousDistance' = dist(e) /\ dist(e) <= dist(e)
      BY <1>2, <1>3, <1>6, <1>18, ZenonT(30)
    <3>. QED BY <1>1, <1>3, <1>5, <2>1, <2>6, <3>1, <3>2, <3>3, <3>4, ZenonT(30) DEF OrderInv, dist
  <2>9. ReachInv'
    <3>1. ~(ended /\ modes = {"relaxed"})
      BY <1>1, Zenon DEF IInv, ReachInv
    <3>. QED BY <1>1, <1>18, <3>1, Zenon DEF IInv, ReachInv
  <2>10. TraceInv' /\ TraceExact'
    <3>1. TraceExact'
      BY <1>18, Zenon DEF TraceExact
    <3>2. ASSUME traced = {TRUE}
          PROVE  /\ trace'.fetches = n + 1
                 /\ trace'.tids = [i \in 1 .. Min({MaxTids, n + 1}) |-> returned'[i][2]]
                 /\ trace'.before = trace.before /\ trace'.idx = indexBlks
      <4>1. /\ trace.fetches = n /\ hnsw_trace
            /\ trace.tids = [i \in 1 .. Min({MaxTids, n}) |-> returned[i][2]]
            /\ trace.idx + bufferUsage - entryBlks = indexBlks
        BY <1>1, <3>2, Zenon DEF IInv, TraceInv, n
      <4>2. trace' = CountBlocks([trace EXCEPT !.fetches = @ + 1,
                              !.tids = IF trace.fetches < MaxTids THEN Append(@, tid) ELSE @])
        BY <1>18, <4>1, Zenon
      <4>3. /\ trace'.fetches = trace.fetches + 1 /\ trace'.before = trace.before
            /\ trace'.idx = trace.idx + bufferUsage - entryBlks
            /\ trace'.tids = IF trace.fetches < MaxTids THEN Append(trace.tids, tid) ELSE trace.tids
        BY <1>7, <4>2, ZenonT(30) DEF CountBlocks, Trace
      <4>4. MaxTids \in Nat
        BY ScanAssumption, ZenonT(30)
      <4>5. returned'[n + 1][2] = tid
        BY <2>1, SMTT(30), Z3T(30)
      <4>6. CASE n < MaxTids
        <5>1. Min({MaxTids, n}) = n /\ Min({MaxTids, n + 1}) = n + 1
          BY <2>1, <4>4, <4>6, MinOfTwo, SMTT(30), Z3T(30)
        <5>2. trace'.tids = Append([i \in 1 .. n |-> returned[i][2]], tid)
          BY <4>1, <4>3, <4>6, <5>1, ZenonT(30)
        <5>3. \A i \in 1 .. n : returned[i][2] \in Nat
          BY <1>7, <2>1, SMTT(30), Z3T(30)
        <5>4. Append([i \in 1 .. n |-> returned[i][2]], tid) =
                [i \in 1 .. n + 1 |-> returned'[i][2]]
          BY <1>3, <2>1, <4>5, <5>3, SMTT(30), Z3T(30)
        <5>. QED BY <4>1, <4>3, <5>1, <5>2, <5>4, ZenonT(30)
      <4>7. CASE ~(n < MaxTids)
        <5>1. Min({MaxTids, n}) = MaxTids /\ Min({MaxTids, n + 1}) = MaxTids
          BY <2>1, <4>4, <4>7, MinOfTwo, SMTT(30), Z3T(30)
        <5>2. \A i \in 1 .. MaxTids : i \in 1 .. n
          BY <2>1, <4>4, <4>7, SMTT(30), Z3T(30)
        <5>3. trace'.tids = [i \in 1 .. MaxTids |-> returned[i][2]]
          BY <4>1, <4>3, <4>7, <5>1, Zenon
        <5>4. [i \in 1 .. MaxTids |-> returned[i][2]] = [i \in 1 .. MaxTids |-> returned'[i][2]]
          BY <2>1, <5>2, ZenonT(30)
        <5>. QED BY <4>1, <4>3, <5>1, <5>3, <5>4, ZenonT(30)
      <4>. QED BY <4>6, <4>7, ZenonT(30)
    <3>. QED BY <1>1, <1>18, <2>1, <3>1, <3>2, ZenonT(30) DEF IInv, TraceInv
  <2>11. NothingLost' /\ NearestKept'
    BY <1>1, <1>5, <1>18, ZenonT(30) DEF IInv, NothingLost, NearestKept
  <2>. QED BY <1>11, <1>12, <1>13, <1>14, <2>3, <2>4, <2>7, <2>8, <2>9, <2>10, <2>11, ZenonT(30)
           DEF IInv
<1>. QED BY <1>1, <1>17, <1>18, Zenon

-----------------------------------------------------------------------------
(* The executor between two calls *)

LEMMA HeapFetchStep ==
  ASSUME IInv, HeapFetch PROVE IInv'
<1>1. PICK n \in 0 .. 1 : bufferUsage' = bufferUsage + n /\ heapBlks' = heapBlks + n
  BY Zenon DEF HeapFetch
<1>2. /\ pc = "tuple" /\ pc' = "idle"
      /\ UNCHANGED <<graph, hnsw_trace, hnsw_iterative_scan, sets, first, v, C, W, unvisited,
                     lc, discarded, tuples, w, left, previousDistance, trace, entryBlks,
                     lines, starts, used, returned, ended, traced, modes, calls, expanded,
                     indexBlks, scans>>
  BY Zenon DEF HeapFetch, settings, search
<1>3. bufferUsage \in Nat /\ heapBlks \in Nat /\ indexBlks \in Nat /\ trace \in Trace
  BY Zenon DEF IInv, TypeOK
<1>4. bufferUsage' \in Nat /\ heapBlks' \in Nat
  BY <1>1, <1>3, SMTT(30), Z3T(30)
<1>5. TypeOK'
  BY <1>2, <1>4, Zenon DEF IInv, TypeOK
<1>6. List' = List /\ Current' = Current /\ ~first
  BY <1>2, Zenon DEF List, Current, IInv, PhaseInv
<1>7. PhaseInv' /\ SearchInv' /\ ListInv' /\ LeftInv'
  BY <1>2, <1>6, Zenon DEF IInv, PhaseInv, SearchInv, ListInv, LeftInv, dist
<1>8. ReturnedInv' /\ NoTidTwice' /\ OrderInv' /\ Ordered'
  BY <1>2, <1>6, Zenon DEF IInv, ReturnedInv, NoTidTwice, OrderInv, Ordered, dist
<1>9. ReachInv' /\ NothingLost' /\ NearestKept' /\ TraceExact'
  BY <1>2, <1>6, Zenon DEF IInv, ReachInv, NothingLost, NearestKept, TraceExact
<1>10. TraceInv'
  <2>1. traced = {TRUE} => bufferUsage - trace.before = indexBlks + heapBlks
    BY <1>2, Zenon DEF IInv, TraceInv
  <2>2. traced = {TRUE} => bufferUsage' - trace.before = indexBlks + heapBlks'
    <3>1. trace.before \in Int
      BY <1>3, ZenonT(30) DEF Trace
    <3>. QED BY <1>1, <1>3, <2>1, <3>1, SMTT(30), Z3T(30)
  <2>. QED BY <1>2, <2>2, Zenon DEF IInv, TraceInv
<1>. QED BY <1>5, <1>7, <1>8, <1>9, <1>10, ZenonT(30) DEF IInv

LEMMA EndScanStep ==
  ASSUME IInv, EndScan PROVE IInv'
<1>1. /\ pc = "idle" /\ pc' = "closed" /\ traced' = traced \cup {hnsw_trace}
      /\ lines' = IF hnsw_trace /\ ~first THEN Append(lines, TraceLine) ELSE lines
      /\ UNCHANGED <<graph, hnsw_trace, hnsw_iterative_scan, sets, first, v, C, W, unvisited,
                     lc, discarded, tuples, w, left, previousDistance, trace, bufferUsage,
                     entryBlks, starts, used, returned, ended, modes, calls, expanded,
                     indexBlks, heapBlks, scans>>
  BY Zenon DEF EndScan, settings, search
<1>2. /\ trace \in Trace /\ bufferUsage \in Nat /\ indexBlks \in Nat /\ heapBlks \in Nat
      /\ lines \in Seq(Line) /\ hnsw_trace \in BOOLEAN /\ traced \subseteq BOOLEAN
  BY Zenon DEF IInv, TypeOK
<1>3. /\ TraceLine.topk = trace.fetches /\ TraceLine.topk_ids = trace.tids
      /\ TraceLine.idx_blks = trace.idx
      /\ TraceLine.heap_blks = bufferUsage - trace.before - trace.idx
  BY Zenon DEF TraceLine
<1>4. TraceLine \in Line
  BY <1>2, SMTT(30), Z3T(30) DEF TraceLine, Trace, Line, Counter
<1>5. lines' \in Seq(Line) /\ traced' \subseteq BOOLEAN
  <2>1. Append(lines, TraceLine) \in Seq(Line)
    BY <1>2, <1>4, Appended, Zenon
  <2>. QED BY <1>1, <1>2, <2>1, Zenon
<1>6. TypeOK'
  BY <1>1, <1>5, ZenonT(30) DEF IInv, TypeOK
<1>7. List' = List /\ Current' = Current
  BY <1>1, Zenon DEF List, Current
<1>8. PhaseInv' /\ SearchInv' /\ ListInv' /\ LeftInv'
  BY <1>1, <1>7, Zenon DEF IInv, PhaseInv, SearchInv, ListInv, LeftInv, dist
<1>9. ReturnedInv' /\ NoTidTwice' /\ OrderInv' /\ Ordered'
  BY <1>1, <1>7, Zenon DEF IInv, ReturnedInv, NoTidTwice, OrderInv, Ordered, dist
<1>10. ReachInv' /\ NothingLost' /\ NearestKept' /\ TraceInv'
  BY <1>1, <1>7, Zenon DEF IInv, ReachInv, NothingLost, NearestKept, TraceInv
<1>11. TraceExact'
  <2> SUFFICES ASSUME traced' = {TRUE}, ~first
               PROVE  /\ LastLine' = TraceLine
                      /\ TraceLine.topk = Len(returned)
                      /\ TraceLine.topk_ids =
                           [i \in 1 .. Min({MaxTids, Len(returned)}) |-> returned[i][2]]
                      /\ TraceLine.idx_blks = indexBlks /\ TraceLine.heap_blks = heapBlks
    BY <1>1, Zenon DEF TraceExact
  <2>1. traced # {}
    BY <1>1, Zenon DEF IInv, TraceInv
  <2>2. hnsw_trace = TRUE /\ traced = {TRUE}
    BY <1>1, <1>2, <2>1, Zenon
  <2>3. lines' = Append(lines, TraceLine)
    BY <1>1, <2>2, Zenon
  <2>4. LastLine' = TraceLine
    BY <1>2, <1>4, <2>3, SMTT(30), Z3T(30) DEF LastLine
  <2>5. /\ trace.fetches = Len(returned) /\ trace.idx = indexBlks
        /\ trace.tids = [i \in 1 .. Min({MaxTids, Len(returned)}) |-> returned[i][2]]
        /\ bufferUsage - trace.before = indexBlks + heapBlks
    BY <1>1, <2>2, ZenonT(30) DEF IInv, TraceInv
  <2>6. TraceLine.heap_blks = heapBlks
    <3>1. trace.before \in Int /\ trace.idx \in Int
      BY <1>2, Zenon DEF Trace
    <3>. QED BY <1>2, <1>3, <2>5, <3>1, SMTT(30), Z3T(30)
  <2>. QED BY <1>3, <2>4, <2>5, <2>6, Zenon
<1>. QED BY <1>6, <1>8, <1>9, <1>10, <1>11, ZenonT(30) DEF IInv

LEMMA ChangeSettingStep ==
  ASSUME IInv, ChangeSetting PROVE IInv'
<1>1. /\ pc \in {"closed", "idle"} /\ sets' = sets + 1
      /\ hnsw_trace' \in TraceModes \cup {hnsw_trace}
      /\ hnsw_iterative_scan' \in Modes \cup {hnsw_iterative_scan}
      /\ UNCHANGED <<graph, pc, first, v, C, W, unvisited, lc, discarded, tuples, w, left,
                     previousDistance, trace, bufferUsage, entryBlks, lines, starts, used,
                     returned, ended, traced, modes, calls, expanded, indexBlks, heapBlks,
                     scans>>
  BY Zenon DEF ChangeSetting, search, history
<1>2. /\ sets' \in Nat /\ hnsw_trace' \in BOOLEAN
      /\ hnsw_iterative_scan' \in {"off", "relaxed", "strict"}
  <2>1. /\ sets \in Nat /\ hnsw_trace \in BOOLEAN
        /\ hnsw_iterative_scan \in {"off", "relaxed", "strict"}
    BY Zenon DEF IInv, TypeOK
  <2>2. TraceModes \subseteq BOOLEAN /\ Modes \subseteq {"off", "relaxed", "strict"}
    BY ScanAssumption, Zenon
  <2>3. sets' \in Nat
    BY <1>1, <2>1, SMTT(30), Z3T(30)
  <2>. QED BY <1>1, <2>1, <2>2, <2>3, ZenonT(30)
<1>3. TypeOK'
  BY <1>1, <1>2, Zenon DEF IInv, TypeOK
<1>4. List' = List /\ Current' = Current /\ pc # "search" /\ pc \notin {"fetch", "tuple"}
  BY <1>1, Zenon DEF List, Current
<1>5. PhaseInv' /\ SearchInv' /\ ListInv' /\ LeftInv'
  BY <1>1, <1>4, Zenon DEF IInv, PhaseInv, SearchInv, ListInv, LeftInv, dist
<1>6. ReturnedInv' /\ NoTidTwice' /\ OrderInv' /\ Ordered'
  BY <1>1, <1>4, Zenon DEF IInv, ReturnedInv, NoTidTwice, OrderInv, Ordered, dist
<1>7. ReachInv' /\ NothingLost' /\ NearestKept'
  BY <1>1, <1>4, Zenon DEF IInv, ReachInv, NothingLost, NearestKept
<1>8. TraceInv' /\ TraceExact'
  BY <1>1, <1>4, Zenon DEF IInv, TraceInv, TraceExact, LastLine
<1>. QED BY <1>3, <1>5, <1>6, <1>7, <1>8, Zenon DEF IInv

\* hnswrescan, with the trace set up if it is on
LEMMA RestartStep ==
  ASSUME IInv, Restart, pc \in {"closed", "idle"}, trace' \in Trace,
         hnsw_trace => trace' = TraceInit
  PROVE  IInv'
<1>1. /\ pc' = "idle" /\ first' = TRUE /\ v' = {} /\ discarded' = None /\ tuples' = 0
      /\ previousDistance' = NegInfinity /\ used' = {} /\ returned' = <<>> /\ ended' = FALSE
      /\ traced' = {hnsw_trace} /\ modes' = {} /\ scans' = scans + 1
      /\ calls' = 0 /\ expanded' = 0 /\ indexBlks' = 0 /\ heapBlks' = 0
      /\ UNCHANGED <<graph, hnsw_trace, hnsw_iterative_scan, sets, C, W, unvisited, lc, w,
                     left, bufferUsage, entryBlks, lines, starts>>
  BY Zenon DEF Restart, settings
<1>2. unvisited = {} /\ W = {} /\ C = {}
  BY Zenon DEF IInv, PhaseInv
<1>3. TypeOK'
  <2>1. /\ scans' \in Nat /\ tuples' \in Nat /\ previousDistance' \in Int /\ calls' \in Nat
        /\ expanded' \in Nat /\ indexBlks' \in Nat /\ heapBlks' \in Nat
        /\ returned' \in Seq(Element \X Nat)
    BY <1>1, SMTT(30), Z3T(30) DEF IInv, TypeOK, NegInfinity
  <2>2. traced' \subseteq BOOLEAN
    BY <1>1, Zenon DEF IInv, TypeOK
  <2>3. /\ used' \subseteq Element /\ v' \subseteq Element
        /\ modes' \subseteq {"off", "relaxed", "strict"}
    BY <1>1, ZenonT(30)
  <2>. QED BY <1>1, <2>1, <2>2, <2>3, ZenonT(30) DEF IInv, TypeOK
<1>4. List' = {} /\ Current' = {} /\ DOMAIN returned' = {}
  BY <1>1, SMTT(30), Z3T(30) DEF List, Current
<1>5. PhaseInv' /\ SearchInv' /\ ListInv'
  BY <1>1, <1>2, Zenon DEF PhaseInv, SearchInv, ListInv
<1>6. LeftInv' /\ ReturnedInv' /\ NoTidTwice'
  BY <1>1, <1>4, Zenon DEF IInv, LeftInv, ReturnedInv, NoTidTwice, IsInjective
<1>7. OrderInv' /\ Ordered'
  BY <1>1, <1>4, Zenon DEF OrderInv, Ordered
<1>8. ReachInv' /\ NothingLost' /\ NearestKept'
  BY <1>1, Zenon DEF ReachInv, NothingLost, NearestKept
<1>9. TraceExact'
  BY <1>1, Zenon DEF TraceExact
<1>10. TraceInv'
  <2> SUFFICES ASSUME traced' = {TRUE}
               PROVE  /\ trace'.fetches = Len(returned')
                      /\ trace'.tids =
                           [i \in 1 .. Min({MaxTids, Len(returned')}) |-> returned'[i][2]]
                      /\ bufferUsage' - trace'.before = indexBlks' + heapBlks'
                      /\ trace'.idx = indexBlks'
    BY <1>1, Zenon DEF TraceInv
  <2>1. hnsw_trace
    BY <1>1, Zenon
  <2>2. /\ trace'.fetches = 0 /\ trace'.tids = <<>> /\ trace'.before = bufferUsage /\ trace'.idx = 0
    BY <2>1, ZenonT(30) DEF TraceInit, Zero
  <2>3. Len(returned') = 0 /\ MaxTids \in Nat /\ bufferUsage \in Nat
    BY <1>1, ScanAssumption, Zenon DEF IInv, TypeOK
  <2>4. Min({MaxTids, 0}) = 0
    BY <2>3, MinOfTwo, SMTT(30), Z3T(30)
  <2>5. <<>> = [i \in 1 .. 0 |-> returned'[i][2]]
    BY SMTT(30), Z3T(30)
  <2>6. bufferUsage' - trace'.before = indexBlks' + heapBlks'
    <3>1. bufferUsage' = bufferUsage /\ indexBlks' = 0 /\ heapBlks' = 0
      BY <1>1, Zenon
    <3>. QED BY <2>2, <2>3, <3>1, SMTT(30), Z3T(30)
  <2>. QED BY <1>1, <2>2, <2>3, <2>4, <2>5, <2>6, ZenonT(30)
<1>. QED BY <1>3, <1>5, <1>6, <1>7, <1>8, <1>9, <1>10, ZenonT(30) DEF IInv

LEMMA BeginScanStep ==
  ASSUME IInv, BeginScan \/ Rescan PROVE IInv'
<1>1. pc \in {"closed", "idle"} /\ Restart /\ (hnsw_trace => trace' = TraceInit)
  BY Zenon DEF BeginScan, Rescan
<1>2. trace' \in Trace
  <2>1. trace \in Trace /\ bufferUsage \in Nat
    BY Zenon DEF IInv, TypeOK
  <2>2. ASSUME NEW n \in Nat, NEW b \in Nat
        PROVE  [distances |-> 0, visited |-> 0, fetches |-> n, tids |-> <<>>, idx |-> n,
                before |-> b] \in Trace
    <3>1. 0 \in Nat /\ n \in Int /\ b \in Int /\ <<>> \in Seq(Nat)
      BY SMTT(30), Z3T(30)
    <3>. QED BY <3>1, Zenon DEF Trace, Counter
  <2>3. TraceInit \in Trace
    <3>1. TraceInit = [distances |-> 0, visited |-> 0, fetches |-> 0, tids |-> <<>>,
                       idx |-> 0, before |-> bufferUsage]
      BY SMTT(30), Z3T(30) DEF TraceInit, Zero
    <3>2. 0 \in Nat
      BY SMTT(30), Z3T(30)
    <3>. QED BY <2>1, <2>2, <3>1, <3>2, Zenon
  <2>4. ASSUME NEW n \in 0 .. 1
        PROVE  [Zero EXCEPT !.fetches = n, !.idx = n, !.before = n] \in Trace
    <3>1. n \in Nat /\ n \in Int /\ 0 \in Nat
      BY SMTT(30), Z3T(30)
    <3>2. Zero \in Trace
      BY <2>2, <3>1, Zenon DEF Zero
    <3>. QED BY <3>1, <3>2, Zenon DEF Trace, Counter
  <2>. QED BY <2>1, <2>3, <2>4, Zenon DEF BeginScan, Rescan
<1>. QED BY <1>1, <1>2, RestartStep, Zenon

-----------------------------------------------------------------------------
(* hnswgettuple up to its loop *)

\* The trace of a call starts with the buffer counter at its entry
LEMMA TraceAtEntry ==
  ASSUME IInv, pc = "idle", pc' \in {"search", "fetch"}, NEW n \in Nat,
         bufferUsage' = bufferUsage + n, indexBlks' = indexBlks + n,
         entryBlks' = (IF hnsw_trace THEN bufferUsage ELSE 0), traced' = traced \cup {hnsw_trace},
         UNCHANGED <<trace, returned, heapBlks, hnsw_trace>>
  PROVE  TraceInv' /\ TraceExact'
<1>1. pc' # "closed" /\ pc' \notin {"idle", "tuple"}
  BY Zenon
<1>2. traced # {} /\ traced \subseteq BOOLEAN /\ hnsw_trace \in BOOLEAN
  BY Zenon DEF IInv, TraceInv, TypeOK
<1>3. traced' # {}
  BY Zenon
<1>4. ASSUME traced' = {TRUE}
      PROVE  /\ hnsw_trace /\ traced = {TRUE} /\ entryBlks' = bufferUsage
             /\ trace.fetches = Len(returned)
             /\ trace.tids = [i \in 1 .. Min({MaxTids, Len(returned)}) |-> returned[i][2]]
             /\ bufferUsage - trace.before = indexBlks + heapBlks
             /\ trace.idx = indexBlks
  <2>1. hnsw_trace /\ traced = {TRUE}
    BY <1>2, <1>4, Zenon
  <2>. QED BY <2>1, Zenon DEF IInv, TraceInv
<1>5. /\ bufferUsage \in Nat /\ indexBlks \in Nat /\ heapBlks \in Nat
      /\ trace.before \in Int /\ trace.idx \in Int
  <2>1. trace \in Trace /\ bufferUsage \in Nat /\ indexBlks \in Nat /\ heapBlks \in Nat
    BY Zenon DEF IInv, TypeOK
  <2>. QED BY <2>1, SMTT(30), Z3T(30) DEF Trace
<1>6. ASSUME traced' = {TRUE}
      PROVE  /\ bufferUsage' - trace.before = indexBlks' + heapBlks
             /\ trace.idx + bufferUsage' - entryBlks' = indexBlks'
  <2>1. /\ entryBlks' = bufferUsage /\ bufferUsage - trace.before = indexBlks + heapBlks
        /\ trace.idx = indexBlks
    BY <1>4, <1>6, Zenon
  <2>. QED BY <1>5, <2>1, SMTT(30), Z3T(30)
<1>. QED BY <1>1, <1>3, <1>4, <1>6, Zenon DEF TraceInv, TraceExact

\* A later call: the loop goes on
LEMMA NextCallStep ==
  ASSUME IInv, GetTuple, ~first PROVE IInv'
<1>1. /\ pc = "idle" /\ pc' = "fetch" /\ entryBlks' = (IF hnsw_trace THEN bufferUsage ELSE 0)
      /\ traced' = traced \cup {hnsw_trace} /\ modes' = modes \cup {hnsw_iterative_scan}
      /\ UNCHANGED <<graph, hnsw_trace, hnsw_iterative_scan, sets, first, v, C, W, unvisited,
                     lc, discarded, tuples, w, left, previousDistance, trace, bufferUsage,
                     lines, starts, used, returned, ended, calls, expanded, indexBlks,
                     heapBlks, scans>>
  BY Zenon DEF GetTuple, settings, search
<1>2. /\ hnsw_trace \in BOOLEAN /\ traced \subseteq BOOLEAN /\ bufferUsage \in Nat
      /\ hnsw_iterative_scan \in {"off", "relaxed", "strict"} /\ indexBlks \in Nat
      /\ modes \subseteq {"off", "relaxed", "strict"} /\ modes # {}
  BY Zenon DEF IInv, TypeOK, PhaseInv
<1>3. /\ entryBlks' \in Nat /\ traced' \subseteq BOOLEAN
      /\ modes' \subseteq {"off", "relaxed", "strict"}
  <2>1. 0 \in Nat
    BY SMTT(30), Z3T(30)
  <2>. QED BY <1>1, <1>2, <2>1, Zenon
<1>4. TypeOK'
  BY <1>1, <1>3, Zenon DEF IInv, TypeOK
<1>5. /\ modes' \subseteq {"relaxed"} => modes \subseteq {"relaxed"}
      /\ \A m : modes' = {m} => modes = {m}
  BY <1>1, <1>2, Zenon
<1>6. List' = List /\ Current' = Current
  BY <1>1, Zenon DEF List, Current
<1>7. PhaseInv' /\ SearchInv' /\ ListInv' /\ LeftInv'
  BY <1>1, <1>6, Zenon DEF IInv, PhaseInv, SearchInv, ListInv, LeftInv, dist
<1>8. ReturnedInv' /\ NoTidTwice'
  BY <1>1, <1>5, <1>6, ReturnedKept, Zenon
<1>9. OrderInv' /\ Ordered'
  BY <1>1, <1>5, <1>6, Zenon DEF IInv, OrderInv, Ordered, dist
<1>10. ReachInv'
  BY <1>1, <1>5, Zenon DEF IInv, ReachInv
<1>11. NothingLost' /\ NearestKept'
  BY <1>1, <1>6, Zenon DEF IInv, NothingLost, NearestKept
<1>12. TraceInv' /\ TraceExact'
  <2>1. 0 \in Nat /\ bufferUsage' = bufferUsage + 0 /\ indexBlks' = indexBlks + 0
    BY <1>1, <1>2, SMTT(30), Z3T(30)
  <2>2. pc' \in {"search", "fetch"}
    BY <1>1, Zenon
  <2>. QED BY <1>1, <2>1, <2>2, TraceAtEntry, ZenonT(30)
<1>. QED BY <1>4, <1>7, <1>8, <1>9, <1>10, <1>11, <1>12, ZenonT(30) DEF IInv

\* The first call, and the index is empty
LEMMA EmptyIndexStep ==
  ASSUME IInv, GetTuple, first, graph.entry = NoElement PROVE IInv'
<1>1. /\ pc = "idle" /\ pc' = "fetch" /\ entryBlks' = (IF hnsw_trace THEN bufferUsage ELSE 0)
      /\ traced' = traced \cup {hnsw_trace} /\ modes' = modes \cup {hnsw_iterative_scan}
      /\ starts' = starts + 1 /\ first' = FALSE /\ w' = <<>>
      /\ bufferUsage' = bufferUsage + 1 /\ indexBlks' = indexBlks + 1
      /\ UNCHANGED <<graph, hnsw_trace, hnsw_iterative_scan, sets, v, C, W, unvisited, lc,
                     discarded, tuples, left, previousDistance, trace, lines, used, returned,
                     ended, calls, expanded, heapBlks, scans>>
  BY Zenon DEF GetTuple, settings, search, ReadBlocks
<1>2. /\ hnsw_trace \in BOOLEAN /\ traced \subseteq BOOLEAN /\ bufferUsage \in Nat
      /\ hnsw_iterative_scan \in {"off", "relaxed", "strict"} /\ indexBlks \in Nat
      /\ modes \subseteq {"off", "relaxed", "strict"} /\ starts \in Nat
  BY Zenon DEF IInv, TypeOK
<1>3. /\ unvisited = {} /\ W = {} /\ C = {} /\ used = {} /\ returned = <<>> /\ ~ended
      /\ discarded = None /\ v = {}
  BY <1>1, Zenon DEF IInv, PhaseInv
<1>4. TypeOK'
  <2>1. /\ starts' \in Nat /\ bufferUsage' \in Nat /\ indexBlks' \in Nat /\ 0 \in Nat
        /\ w' \in Seq(Element)
    BY <1>1, <1>2, SMTT(30), Z3T(30)
  <2>2. /\ entryBlks' \in Nat /\ traced' \subseteq BOOLEAN
        /\ modes' \subseteq {"off", "relaxed", "strict"} /\ first' \in BOOLEAN
    BY <1>1, <1>2, <2>1, ZenonT(30)
  <2>. QED BY <1>1, <2>1, <2>2, ZenonT(30) DEF IInv, TypeOK
<1>5. /\ List' = {} /\ Current' = {} /\ IsInjective(<<>>) /\ DOMAIN returned' = {}
      /\ DOMAIN w' = {}
  BY <1>1, <1>3, SMTT(30), Z3T(30) DEF List, Current, Range, IsInjective
<1>6. PhaseInv' /\ SearchInv'
  BY <1>1, <1>3, Zenon DEF IInv, PhaseInv, SearchInv
<1>7. ListInv' /\ LeftInv'
  BY <1>1, <1>3, <1>5, Zenon DEF IInv, ListInv, LeftInv
<1>8. ReturnedInv' /\ NoTidTwice' /\ OrderInv' /\ Ordered'
  BY <1>1, <1>3, <1>5, Zenon DEF IInv, ReturnedInv, NoTidTwice, OrderInv, Ordered
<1>9. ReachInv' /\ NothingLost' /\ NearestKept'
  BY <1>1, <1>3, Zenon DEF ReachInv, NothingLost, NearestKept
<1>10. TraceInv' /\ TraceExact'
  <2>1. 1 \in Nat
    BY SMTT(30), Z3T(30)
  <2>2. pc' \in {"search", "fetch"}
    BY <1>1, Zenon
  <2>. QED BY <1>1, <2>1, <2>2, TraceAtEntry, Zenon
<1>. QED BY <1>4, <1>6, <1>7, <1>8, <1>9, <1>10, ZenonT(30) DEF IInv

\* The first call: the search of the layer of the entry point starts
LEMMA FirstSearchStep ==
  ASSUME IInv, GetTuple, first, graph.entry # NoElement PROVE IInv'
<1> DEFINE ep == graph.entry
           l  == graph.level[ep]
<1>1. /\ pc = "idle" /\ pc' = "search" /\ entryBlks' = (IF hnsw_trace THEN bufferUsage ELSE 0)
      /\ traced' = traced \cup {hnsw_trace} /\ modes' = modes \cup {hnsw_iterative_scan}
      /\ starts' = starts + 1 /\ calls' = calls + 1 /\ left' = Loaded(ep)
      /\ bufferUsage' = bufferUsage + 2 /\ indexBlks' = indexBlks + 2
      /\ lc' = l /\ C' = {ep} /\ W' = {ep} /\ unvisited' = {} /\ v' = {ep}
      /\ tuples' = (IF l = 0 THEN tuples + Cardinality({ep}) ELSE tuples)
      /\ discarded' = StartDiscarded(l)
      /\ UNCHANGED <<graph, hnsw_trace, hnsw_iterative_scan, sets, first, w, previousDistance,
                     trace, lines, used, returned, ended, expanded, heapBlks, scans>>
  BY Zenon DEF GetTuple, settings, ReadBlocks, StartLayer
<1>2. /\ hnsw_trace \in BOOLEAN /\ traced \subseteq BOOLEAN /\ bufferUsage \in Nat
      /\ hnsw_iterative_scan \in {"off", "relaxed", "strict"} /\ indexBlks \in Nat
      /\ modes \subseteq {"off", "relaxed", "strict"} /\ starts \in Nat /\ calls \in Nat
      /\ tuples \in Nat /\ left \in [Element -> Nat]
  BY Zenon DEF IInv, TypeOK
<1>3. used = {} /\ returned = <<>> /\ ~ended
  BY <1>1, Zenon DEF IInv, PhaseInv
<1>4. ep \in Element /\ l \in 0 .. MaxLevel
  BY GraphFacts, ZenonT(30) DEF IInv
<1> HIDE DEF ep, l
<1>5. Cardinality({ep}) = 1
  BY FS_Singleton, ZenonT(30)
<1>6. /\ left' \in [Element -> Nat] /\ left'[ep] = Len(TidsOf[ep])
      /\ \A e \in Element : left'[e] = left[e] \/ left'[e] = Len(TidsOf[e])
      /\ Len(TidsOf[ep]) \in Nat
  BY <1>1, <1>2, <1>4, ScanAssumption, SMTT(30), Z3T(30) DEF Loaded
<1>7. TypeOK'
  <2>1. /\ starts' \in Nat /\ bufferUsage' \in Nat /\ indexBlks' \in Nat /\ 0 \in Nat
        /\ calls' \in Nat /\ tuples' \in Nat
    BY <1>1, <1>2, <1>5, SMTT(30), Z3T(30)
  <2>2. /\ entryBlks' \in Nat /\ traced' \subseteq BOOLEAN
        /\ modes' \subseteq {"off", "relaxed", "strict"}
    BY <1>1, <1>2, <2>1, Zenon
  <2>3. /\ lc' \in 0 .. MaxLevel /\ C' \subseteq Element /\ W' \subseteq Element
        /\ unvisited' \subseteq Element /\ v' \subseteq Element
        /\ discarded' = None \/ discarded' \subseteq Element
    BY <1>1, <1>4, ZenonT(30) DEF StartDiscarded
  <2>. QED BY <1>1, <1>6, <2>1, <2>2, <2>3, ZenonT(30) DEF IInv, TypeOK
<1>8. /\ List' = {} /\ Current' = {} /\ DOMAIN returned' = {} /\ {} # None
  BY <1>1, <1>3, SMTT(30), Z3T(30) DEF List, Current, None
<1>9. l \in Nat /\ (l > 0 => l # 0) /\ l >= l /\ l <= l
  BY <1>4, SMTT(30), Z3T(30)
<1>10. PhaseInv'
  <2>1. discarded' = None \/ discarded' = {}
    BY <1>1, Zenon DEF StartDiscarded
  <2>2. l > 0 => discarded' = None
    BY <1>1, <1>9, Zenon DEF StartDiscarded
  <2>. QED BY <1>1, <1>3, <2>2, Zenon DEF PhaseInv
<1>11. SearchInv'
  <2>1. l = 0 /\ hnsw_iterative_scan # "off" => discarded' # None
    BY <1>1, <1>8, Zenon DEF StartDiscarded
  <2>. QED BY <1>1, <1>9, <2>1, Zenon DEF SearchInv, ep, l
<1>12. ListInv' /\ LeftInv'
  <2>1. \A e \in Element : left'[e] <= Len(TidsOf[e])
    <3>1. \A e \in Element : left[e] <= Len(TidsOf[e]) /\ Len(TidsOf[e]) \in Nat
      BY ScanAssumption, SMTT(30), Z3T(30) DEF IInv, LeftInv
    <3>2. \A e \in Element : Len(TidsOf[e]) <= Len(TidsOf[e])
      BY <3>1, SMTT(30), Z3T(30)
    <3>. QED BY <1>6, <3>1, <3>2, ZenonT(30)
  <2>. QED BY <1>1, <1>3, <1>6, <1>8, <2>1, Zenon DEF ListInv, LeftInv
<1>13. ReturnedInv' /\ NoTidTwice' /\ Ordered'
  BY <1>1, <1>3, <1>8, Zenon DEF IInv, ReturnedInv, NoTidTwice, Ordered
<1>14. OrderInv'
  <2>1. modes' = {"off"} => hnsw_iterative_scan = "off"
    BY <1>1, Zenon
  <2>. QED BY <1>1, <1>8, <2>1, Zenon DEF OrderInv, StartDiscarded
<1>15. ReachInv'
  BY <1>1, <1>3, Zenon DEF ReachInv, ep
<1>16. NothingLost'
  BY <1>1, <1>3, <1>8, Zenon DEF NothingLost, StartDiscarded
<1>17. NearestKept'
  <2>1. {e \in v' \ unvisited' : graph'.level[e] >= lc'} = {ep}
    BY <1>1, <1>9, Zenon DEF l
  <2>2. Ef' \in Nat \ {0}
    BY ScanAssumption, SMTT(30), Z3T(30) DEF Ef
  <2>3. Min({Ef', 1}) = 1
    BY <2>2, MinOfTwo, SMTT(30), Z3T(30)
  <2>. QED BY <1>1, <1>5, <2>1, <2>3, Zenon DEF NearestKept
<1>18. TraceInv' /\ TraceExact'
  <2>1. 2 \in Nat
    BY SMTT(30), Z3T(30)
  <2>2. pc' \in {"search", "fetch"}
    BY <1>1, Zenon
  <2>. QED BY <1>1, <2>1, <2>2, TraceAtEntry, Zenon
<1>. QED BY <1>7, <1>10, <1>11, <1>12, <1>13, <1>14, <1>15, <1>16, <1>17, <1>18, ZenonT(30) DEF IInv

LEMMA GetTupleStep ==
  ASSUME IInv, GetTuple PROVE IInv'
  BY NextCallStep, EmptyIndexStep, FirstSearchStep, Zenon

-----------------------------------------------------------------------------
(* HnswSearchLayer *)

\* A block read during the search adds to the counter and to what the index has read
LEMMA TraceInSearch ==
  ASSUME IInv, pc = "search", pc' = pc,
         bufferUsage' = bufferUsage + 1, indexBlks' = indexBlks + 1,
         trace'.fetches = trace.fetches, trace'.tids = trace.tids,
         trace'.before = trace.before, trace'.idx = trace.idx,
         UNCHANGED <<entryBlks, traced, returned, heapBlks, hnsw_trace>>
  PROVE  TraceInv' /\ TraceExact'
<1>1. pc' = "search" /\ pc' # "closed" /\ pc' \notin {"idle", "tuple"} /\ traced # {}
  BY Zenon DEF IInv, TraceInv
<1>2. traced = {TRUE} =>
        /\ trace.fetches = Len(returned)
        /\ trace.tids = [i \in 1 .. Min({MaxTids, Len(returned)}) |-> returned[i][2]]
        /\ bufferUsage - trace.before = indexBlks + heapBlks
        /\ hnsw_trace /\ trace.idx + bufferUsage - entryBlks = indexBlks
  BY Zenon DEF IInv, TraceInv
<1>3. /\ bufferUsage \in Nat /\ indexBlks \in Nat /\ heapBlks \in Nat /\ entryBlks \in Nat
      /\ trace.before \in Int /\ trace.idx \in Int
  <2>1. trace \in Trace /\ bufferUsage \in Nat /\ indexBlks \in Nat /\ heapBlks \in Nat
        /\ entryBlks \in Nat
    BY Zenon DEF IInv, TypeOK
  <2>. QED BY <2>1, Zenon DEF Trace
<1>4. traced = {TRUE} =>
        /\ bufferUsage' - trace.before = indexBlks' + heapBlks
        /\ trace.idx + bufferUsage' - entryBlks = indexBlks'
  <2>1. traced = {TRUE} => /\ bufferUsage - trace.before = indexBlks + heapBlks
                           /\ trace.idx + bufferUsage - entryBlks = indexBlks
    BY <1>2, Zenon
  <2>. QED BY <1>3, <2>1, SMTT(30), Z3T(30)
<1>. QED BY <1>1, <1>2, <1>4, Zenon DEF TraceInv, TraceExact

LEMMA ExpandStep ==
  ASSUME IInv, Expand PROVE IInv'
<1>1. PICK c \in Nearest(C) :
        LET new == graph.neighbors[lc][c] \ v
        IN  /\ C' = C \ {c} /\ unvisited' = new /\ v' = v \cup new
            /\ tuples' = (IF lc = 0 THEN tuples + Cardinality(new) ELSE tuples)
            /\ trace' = (IF hnsw_trace THEN [trace EXCEPT !.visited = @ + Cardinality(new)]
                                       ELSE trace)
  BY Zenon DEF Expand
<1> DEFINE new == graph.neighbors[lc][c] \ v
<1>2. /\ pc = "search" /\ unvisited = {} /\ bufferUsage' = bufferUsage + 1
      /\ indexBlks' = indexBlks + 1 /\ expanded' = expanded + 1
      /\ UNCHANGED <<graph, hnsw_trace, hnsw_iterative_scan, sets, pc, first, W, lc,
                     discarded, w, left, previousDistance, entryBlks, lines, starts, used,
                     returned, ended, traced, modes, calls, heapBlks, scans>>
  BY Zenon DEF Expand, settings, ReadBlocks
<1>3. /\ C' = C \ {c} /\ unvisited' = new /\ v' = v \cup new
      /\ tuples' = (IF lc = 0 THEN tuples + Cardinality(new) ELSE tuples)
      /\ trace' = (IF hnsw_trace THEN [trace EXCEPT !.visited = @ + Cardinality(new)]
                                 ELSE trace)
  BY <1>1, Zenon
<1>4. /\ tuples \in Nat /\ trace \in Trace /\ bufferUsage \in Nat /\ indexBlks \in Nat
      /\ expanded \in Nat /\ lc \in 0 .. MaxLevel /\ C \subseteq Element /\ v \subseteq Element
  BY Zenon DEF IInv, TypeOK
<1>5. c \in C /\ c \in Element
  BY <1>4, Zenon DEF Nearest
<1>6. new \in SUBSET Element
  <2>1. graph.neighbors[lc][c] \subseteq Element
    BY <1>4, <1>5, GraphFacts, Zenon DEF IInv
  <2>. QED BY <2>1, Zenon
<1>7. graph.neighbors[lc][c] \subseteq v \cup new /\ new \cap v = {}
  BY Zenon
<1> HIDE DEF new
<1>8. Cardinality(new) \in Nat
  BY <1>6, Finite, ZenonT(30)
<1>9. /\ trace' \in Trace /\ trace'.fetches = trace.fetches /\ trace'.tids = trace.tids
      /\ trace'.before = trace.before /\ trace'.idx = trace.idx
  <2>1. trace.visited + Cardinality(new) \in Nat
    BY <1>4, <1>8, SMTT(30), Z3T(30) DEF Trace, Counter
  <2> DEFINE n == trace.visited + Cardinality(new)
  <2> HIDE DEF n
  <2>2. trace' = (IF hnsw_trace THEN [trace EXCEPT !.visited = n] ELSE trace)
    BY <1>3, Zenon DEF n
  <2>3. n \in Counter
    BY <2>1, Zenon DEF Counter, n
  <2>. QED BY <1>4, <2>2, <2>3, Zenon DEF Trace
<1>10. tuples' \in Nat /\ tuples <= tuples'
  BY <1>3, <1>4, <1>8, SMTT(30), Z3T(30)
<1>11. TypeOK'
  <2>1. bufferUsage' \in Nat /\ indexBlks' \in Nat /\ expanded' \in Nat
    BY <1>2, <1>4, SMTT(30), Z3T(30)
  <2>2. C' \subseteq Element /\ v' \subseteq Element /\ unvisited' \subseteq Element
    BY <1>3, <1>4, <1>6, Zenon
  <2>. QED BY <1>2, <1>9, <1>10, <2>1, <2>2, ZenonT(30) DEF IInv, TypeOK
<1>12. v' \ unvisited' = v \ unvisited /\ unvisited' \subseteq v' /\ v \subseteq v'
  BY <1>2, <1>3, <1>7, Zenon
<1>13. List' = List /\ Current' = Current
  BY <1>2, Zenon DEF List, Current
<1>14. PhaseInv'
  BY <1>2, Zenon DEF IInv, PhaseInv
<1>15. SearchInv'
  BY <1>2, <1>3, <1>12, Zenon DEF IInv, SearchInv
<1>16. ListInv' /\ LeftInv'
  BY <1>2, <1>12, <1>13, Zenon DEF IInv, ListInv, LeftInv, dist
<1>17. ReturnedInv' /\ NoTidTwice' /\ OrderInv' /\ Ordered'
  BY <1>2, <1>13, Zenon DEF IInv, ReturnedInv, NoTidTwice, OrderInv, Ordered, dist
<1>18. ReachInv'
  <2>1. discarded # None => lc = 0
    <3>1. lc > 0 \/ lc = 0
      BY <1>4, SMTT(30), Z3T(30)
    <3>. QED BY <1>2, <3>1, Zenon DEF IInv, PhaseInv
  <2>2. tuples' < MaxScanTuples => tuples < MaxScanTuples
    BY <1>4, <1>10, ScanAssumption, SMTT(30), Z3T(30)
  <2>3. discarded # None /\ tuples < MaxScanTuples /\ TRUE \notin Memory =>
          \A e \in v \ unvisited :
            graph.neighbors[0][e] \subseteq v \/ e \in C \/ e \in discarded
    BY Zenon DEF IInv, ReachInv
  <2>4. discarded # None /\ tuples' < MaxScanTuples /\ TRUE \notin Memory =>
          \A e \in v' \ unvisited' :
            graph.neighbors[0][e] \subseteq v' \/ e \in C' \/ e \in discarded
    BY <1>3, <1>7, <1>12, <2>1, <2>2, <2>3, ZenonT(30)
  <2>5. ~first => discarded # None
    BY <1>2, Zenon DEF IInv, PhaseInv
  <2>. QED BY <1>2, <1>12, <2>4, <2>5, ZenonT(30) DEF IInv, ReachInv
<1>19. NothingLost' /\ NearestKept'
  BY <1>2, <1>12, <1>13, ZenonT(30) DEF IInv, NothingLost, NearestKept, Ef, dist
<1>20. TraceInv' /\ TraceExact'
  BY <1>2, <1>9, TraceInSearch, ZenonT(30)
<1>. QED BY <1>11, <1>14, <1>15, <1>16, <1>17, <1>18, <1>19, <1>20, ZenonT(30) DEF IInv

\* The ways a neighbor e is added to W, or not: what is dropped is at most one element
VisitAs(e, drop) ==
  /\ W' = (W \cup {e}) \ drop /\ drop \subseteq W \cup {e}
  /\ drop = {} \/ \E d \in Element : drop = {d}
  /\ discarded = None => discarded' = None
  /\ discarded # None => discarded' = discarded \cup drop /\ discarded' # None
  /\ (C' = C /\ drop = {e}) \/ C' = C \cup {e}
  /\ e \in W' => graph.level[e] >= lc

\* W is cut to ef elements with what is furthest
LEMMA VisitKept ==
  ASSUME IInv, pc = "search", first, first' = first, NEW e \in unvisited,
         UNCHANGED <<graph, lc, v>>, unvisited' = unvisited \ {e},
         LET adds == (\A f \in Furthest(W) : dist(e) < dist(f)) \/ AlwaysAdd
         IN  \/ ~adds /\ W' = W
             \/ adds /\ graph.level[e] < lc /\ W' = W
             \/ /\ graph.level[e] >= lc /\ AlwaysAdd /\ W' = W \cup {e}
             \/ /\ adds /\ graph.level[e] >= lc /\ ~AlwaysAdd
                /\ \E d \in Furthest(W \cup {e}) : W' = (W \cup {e}) \ {d}
  PROVE  NearestKept'
<1> DEFINE L == {x \in v \ unvisited : graph.level[x] >= lc}
           M == {x \in v \ unvisited' : graph.level[x] >= lc}
<1>1. /\ Cardinality(W) = Min({Ef, Cardinality(L)})
      /\ \A a \in W, b \in L \ W : dist(a) <= dist(b)
  BY Zenon DEF IInv, NearestKept
<1>2. /\ v \subseteq Element /\ unvisited \subseteq v /\ W \subseteq v \ unvisited /\ W # {}
      /\ \A x \in W : graph.level[x] >= lc
  BY Zenon DEF IInv, TypeOK, SearchInv
<1>3. /\ L \in SUBSET Element /\ W \in SUBSET Element /\ W \subseteq L /\ e \in Element
      /\ e \notin L /\ e \notin W /\ M \subseteq L \cup {e} /\ L \subseteq M
      /\ (e \in M <=> graph.level[e] >= lc)
  BY <1>2, ZenonT(30)
<1> HIDE DEF L, M
<1>4. /\ \A x \in Element : dist(x) \in Nat
      /\ graph.level[e] \in Nat /\ lc \in Nat
  <2>1. lc \in 0 .. MaxLevel /\ graph.level[e] \in 0 .. MaxLevel
        /\ \A x \in Element : dist(x) \in Nat
    BY <1>3, GraphFacts, ZenonT(30) DEF IInv, TypeOK
  <2>. QED BY <2>1, SMTT(30), Z3T(30)
<1>5. /\ Cardinality(W) \in Nat /\ Cardinality(L) \in Nat /\ Ef \in Nat
      /\ IsFiniteSet(W) /\ IsFiniteSet(L)
  BY <1>3, Finite, ScanAssumption, Zenon DEF Ef
<1>6. Cardinality(W) = IF Ef <= Cardinality(L) THEN Ef ELSE Cardinality(L)
  BY <1>1, <1>5, MinOfTwo, Zenon
<1>7. Cardinality(L \cup {e}) = Cardinality(L) + 1 /\ Cardinality(W \cup {e}) = Cardinality(W) + 1
  BY <1>3, <1>5, FS_AddElement, Zenon
<1>8. Ef' = Ef /\ \A x : dist(x)' = dist(x)
  BY Zenon DEF Ef, dist
<1>9. SUFFICES /\ Cardinality(W') = Min({Ef, Cardinality(M)})
               /\ \A a \in W', b \in M \ W' : dist(a) <= dist(b)
  BY <1>8, Zenon DEF NearestKept, M
<1>10. CASE graph.level[e] < lc
  <2>1. ~(graph.level[e] >= lc)
    BY <1>4, <1>10, SMTT(30), Z3T(30)
  <2>2. W' = W
    BY <2>1, Zenon
  <2>3. M = L
    BY <1>3, <2>1, ZenonT(30)
  <2>. QED BY <1>1, <2>2, <2>3, ZenonT(30)
<1>11. CASE graph.level[e] >= lc
  <2>1. M = L \cup {e}
    BY <1>3, <1>11, Zenon
  <2>2. Cardinality(M) = Cardinality(L) + 1
    BY <1>7, <2>1, Zenon
  <2>3. CASE AlwaysAdd
    <3>1. W' = W \cup {e}
      <4>1. ~(graph.level[e] < lc)
        BY <1>4, <1>11, SMTT(30), Z3T(30)
      <4>. QED BY <2>3, <4>1, ZenonT(30)
    <3>2. Cardinality(W) < Ef
      BY <2>3, ZenonT(30) DEF AlwaysAdd
    <3>3. Cardinality(W) = Cardinality(L)
      BY <1>5, <1>6, <3>2, SMTT(30), Z3T(30)
    <3>4. W = L
      BY <1>3, <1>5, <3>3, FS_Subset, Zenon
    <3>5. Min({Ef, Cardinality(L) + 1}) = Cardinality(L) + 1
      BY <1>5, <3>2, <3>3, MinOfTwo, SMTT(30), Z3T(30)
    <3>. QED BY <1>7, <2>1, <2>2, <3>1, <3>4, <3>5, ZenonT(30)
  <2>4. CASE ~AlwaysAdd
    <3>1. ~(Cardinality(W) < Ef)
      BY <2>4, ZenonT(30) DEF AlwaysAdd
    <3>2. Cardinality(W) = Ef /\ Ef <= Cardinality(L)
      BY <1>5, <1>6, <3>1, SMTT(30), Z3T(30)
    <3>3. Min({Ef, Cardinality(M)}) = Ef
      BY <1>5, <2>2, <3>2, MinOfTwo, SMTT(30), Z3T(30)
    <3>4. Furthest(W) # {}
      BY <1>2, <1>3, FurthestExists, ZenonT(30) DEF IInv
    <3>5. CASE \A f \in Furthest(W) : dist(e) < dist(f)
      <4>1. PICK d \in Furthest(W \cup {e}) : W' = (W \cup {e}) \ {d}
        <5>1. ~(graph.level[e] < lc)
          BY <1>4, <1>11, SMTT(30), Z3T(30)
        <5>. QED BY <2>4, <3>5, <5>1, ZenonT(30)
      <4>2. d \in W \cup {e} /\ \A a \in W \cup {e} : dist(d) >= dist(a)
        BY ZenonT(30) DEF Furthest
      <4>3. Cardinality(W') = Cardinality(W)
        <5>1. IsFiniteSet(W \cup {e}) /\ W \cup {e} \in SUBSET Element
          BY <1>3, Finite, Zenon
        <5>2. Cardinality((W \cup {e}) \ {d}) = Cardinality(W \cup {e}) - 1
          BY <4>2, <5>1, FS_RemoveElement, ZenonT(30)
        <5>. QED BY <1>5, <1>7, <4>1, <5>2, SMTT(30), Z3T(30)
      <4>4. PICK f \in W : dist(e) < dist(f)
        BY <3>4, <3>5, ZenonT(30) DEF Furthest
      <4>5. ASSUME NEW a \in W', NEW b \in M \ W' PROVE dist(a) <= dist(b)
        <5>1. a \in W \cup {e} /\ (b = d \/ b \in L \ W)
          BY <2>1, <4>1, <4>5, ZenonT(30)
        <5>2. /\ dist(a) \in Nat /\ dist(b) \in Nat /\ dist(d) \in Nat /\ dist(e) \in Nat
              /\ dist(f) \in Nat
          BY <1>3, <1>4, <4>2, <5>1, ZenonT(30)
        <5>3. CASE b = d
          <6>1. dist(b) >= dist(a)
            BY <4>2, <5>1, <5>3, Zenon
          <6>. QED BY <5>2, <6>1, Zenon
        <5>4. CASE b \in L \ W
          <6>1. a = e \/ dist(a) <= dist(b)
            BY <1>1, <5>1, <5>4, Zenon
          <6>2. dist(f) <= dist(b)
            BY <1>1, <5>4, ZenonT(30)
          <6>3. dist(e) <= dist(b)
            BY <4>4, <5>2, <6>2, SMTT(30), Z3T(30)
          <6>. QED BY <6>1, <6>3, Zenon
        <5>. QED BY <5>1, <5>3, <5>4, Zenon
      <4>. QED BY <3>2, <3>3, <4>3, <4>5, ZenonT(30)
    <3>6. CASE ~ \A f \in Furthest(W) : dist(e) < dist(f)
      <4>1. W' = W
        BY <2>4, <3>6, Zenon
      <4>2. PICK f \in W : ~(dist(e) < dist(f)) /\ \A a \in W : dist(f) >= dist(a)
        BY <3>6, ZenonT(30) DEF Furthest
      <4>3. \A a \in W : dist(a) <= dist(e)
        <5> TAKE a \in W
        <5>1. dist(a) \in Nat /\ dist(e) \in Nat /\ dist(f) \in Nat /\ dist(f) >= dist(a)
          BY <1>3, <1>4, <4>2, Zenon
        <5>. QED BY <4>2, <5>1, SMTT(30), Z3T(30)
      <4>4. \A a \in W, b \in M \ W : dist(a) <= dist(b)
        BY <1>1, <2>1, <4>3, ZenonT(30)
      <4>. QED BY <3>2, <3>3, <4>1, <4>4, Zenon
    <3>. QED BY <3>5, <3>6, Zenon
  <2>. QED BY <2>3, <2>4, Zenon
<1>12. graph.level[e] < lc \/ graph.level[e] >= lc
  BY <1>4, SMTT(30), Z3T(30)
<1>. QED BY <1>10, <1>11, <1>12, Zenon

LEMMA VisitStep ==
  ASSUME IInv, Visit PROVE IInv'
<1>1. PICK e \in unvisited :
        LET adds == (\A f \in Furthest(W) : dist(e) < dist(f)) \/ AlwaysAdd
        IN  /\ unvisited' = unvisited \ {e} /\ left' = Loaded(e)
            /\ \/ ~adds /\ Discard({e}) /\ UNCHANGED <<C, W>>
               \/ adds /\ graph.level[e] < lc /\ UNCHANGED <<C, W, discarded>>
               \/ /\ adds /\ graph.level[e] >= lc
                  /\ C' = C \cup {e}
                  /\ \/ AlwaysAdd /\ W' = W \cup {e} /\ UNCHANGED discarded
                     \/ /\ ~AlwaysAdd
                        /\ \E d \in Furthest(W \cup {e}) :
                             W' = (W \cup {e}) \ {d} /\ Discard({d})
  BY Zenon DEF Visit
<1>2. /\ pc = "search" /\ bufferUsage' = bufferUsage + 1 /\ indexBlks' = indexBlks + 1
      /\ calls' = calls + 1 /\ unvisited' = unvisited \ {e} /\ left' = Loaded(e)
      /\ trace' = (IF hnsw_trace THEN [trace EXCEPT !.distances = @ + 1] ELSE trace)
      /\ UNCHANGED <<graph, hnsw_trace, hnsw_iterative_scan, sets, pc, first, v, lc, tuples,
                     w, previousDistance, entryBlks, lines, starts, used, returned, ended,
                     traced, modes, expanded, heapBlks, scans>>
  BY <1>1, Zenon DEF Visit, settings, ReadBlocks
<1>3. /\ trace \in Trace /\ bufferUsage \in Nat /\ indexBlks \in Nat /\ calls \in Nat
      /\ lc \in 0 .. MaxLevel /\ C \subseteq Element /\ v \subseteq Element
      /\ W \subseteq Element /\ unvisited \subseteq v /\ W \subseteq v \ unvisited
      /\ discarded = None \/ discarded \subseteq Element
      /\ left \in [Element -> Nat]
  BY Zenon DEF IInv, TypeOK, SearchInv
<1>4. e \in Element /\ e \in v /\ e \notin W /\ graph.level[e] \in 0 .. MaxLevel
  BY <1>3, GraphFacts, Zenon DEF IInv
<1>5. \E drop \in SUBSET Element : VisitAs(e, drop)
  <2>1. Keeps <=> discarded # None
    <3>1. lc > 0 \/ lc = 0
      BY <1>3, SMTT(30), Z3T(30)
    <3>. QED BY <1>2, <3>1, ZenonT(30) DEF IInv, PhaseInv, Keeps
  <2>2. \A S \in SUBSET Element : discarded # None => discarded \cup S # None
    BY <1>3, ScanAssumption, Zenon DEF None
  <2>3. \A S \in SUBSET Element : Discard(S) =>
          /\ discarded = None => discarded' = None
          /\ discarded # None => discarded' = discarded \cup S /\ discarded' # None
    BY <2>1, <2>2, Zenon DEF Discard
  <2>4. graph.level[e] < lc => discarded = None
    <3>1. graph.level[e] < lc => lc > 0
      BY <1>3, <1>4, SMTT(30), Z3T(30)
    <3>. QED BY <1>2, <3>1, ZenonT(30) DEF IInv, PhaseInv
  <2>5. W = (W \cup {e}) \ {e} /\ W \cup {e} = (W \cup {e}) \ {} /\ {e} \in SUBSET Element
    BY <1>4, Zenon
  <2>6. CASE Discard({e}) /\ UNCHANGED <<C, W>>
    <3>1. VisitAs(e, {e})
      BY <1>4, <2>3, <2>5, <2>6, ZenonT(30) DEF VisitAs
    <3>. QED BY <2>5, <3>1, Zenon
  <2>7. CASE graph.level[e] < lc /\ UNCHANGED <<C, W, discarded>>
    <3>1. VisitAs(e, {e})
      BY <1>4, <2>4, <2>5, <2>7, ZenonT(30) DEF VisitAs
    <3>. QED BY <2>5, <3>1, Zenon
  <2>8. CASE graph.level[e] >= lc /\ C' = C \cup {e} /\ W' = W \cup {e} /\ UNCHANGED discarded
    <3>1. discarded # None => discarded' = discarded \cup {}
      BY <2>8, Zenon
    <3>2. VisitAs(e, {})
      BY <2>5, <2>8, <3>1, ZenonT(30) DEF VisitAs
    <3>. QED BY <3>2, Zenon
  <2>9. CASE /\ graph.level[e] >= lc /\ C' = C \cup {e}
             /\ \E d \in Furthest(W \cup {e}) : W' = (W \cup {e}) \ {d} /\ Discard({d})
    <3>1. PICK d \in Furthest(W \cup {e}) : W' = (W \cup {e}) \ {d} /\ Discard({d})
      BY <2>9, Zenon
    <3>2. d \in W \cup {e} /\ d \in Element
      BY <1>3, <1>4, Zenon DEF Furthest
    <3>3. VisitAs(e, {d})
      BY <2>3, <2>9, <3>1, <3>2, ZenonT(30) DEF VisitAs
    <3>. QED BY <3>2, <3>3, Zenon
  <2>. QED BY <1>1, <2>6, <2>7, <2>8, <2>9, ZenonT(30)
<1>6. PICK drop \in SUBSET Element : VisitAs(e, drop)
  BY <1>5, Zenon
<1>7. /\ W' = (W \cup {e}) \ drop /\ drop \subseteq W \cup {e}
      /\ drop = {} \/ \E d \in Element : drop = {d}
      /\ discarded = None => discarded' = None
      /\ discarded # None => discarded' = discarded \cup drop /\ discarded' # None
      /\ (C' = C /\ drop = {e}) \/ C' = C \cup {e}
      /\ e \in W' => graph.level[e] >= lc
  BY <1>6, Zenon DEF VisitAs
<1>8. /\ trace' \in Trace /\ trace'.fetches = trace.fetches /\ trace'.tids = trace.tids
      /\ trace'.before = trace.before /\ trace'.idx = trace.idx
  <2>1. trace.distances + 1 \in Counter
    BY <1>3, SMTT(30), Z3T(30) DEF Trace, Counter
  <2>. QED BY <1>2, <1>3, <2>1, ZenonT(30) DEF Trace
<1>9. /\ left' \in [Element -> Nat] /\ left'[e] = Len(TidsOf[e])
      /\ \A x \in Element : x # e => left'[x] = left[x]
      /\ Len(TidsOf[e]) \in Nat
  BY <1>2, <1>3, <1>4, ScanAssumption, SMTT(30), Z3T(30) DEF Loaded
<1>10. TypeOK'
  <2>1. bufferUsage' \in Nat /\ indexBlks' \in Nat /\ calls' \in Nat
    BY <1>2, <1>3, SMTT(30), Z3T(30)
  <2>2. /\ C' \subseteq Element /\ W' \subseteq Element /\ unvisited' \subseteq Element
        /\ discarded' = None \/ discarded' \subseteq Element
    BY <1>2, <1>3, <1>4, <1>7, ZenonT(30)
  <2>. QED BY <1>2, <1>8, <1>9, <2>1, <2>2, ZenonT(30) DEF IInv, TypeOK
<1>11. v \ unvisited' = (v \ unvisited) \cup {e} /\ unvisited' \subseteq v
  BY <1>2, <1>3, <1>4, Zenon
<1>12. List' = List /\ Current' = Current
  BY <1>2, Zenon DEF List, Current
<1>13. /\ List \cup used \subseteq v \ unvisited /\ Current \subseteq List
       /\ e \notin used \cup Current /\ e \notin List
  <2>1. first => used = {} /\ List = {} /\ Current = {}
    BY Zenon DEF IInv, PhaseInv, List, Current
  <2>2. ~first => List \cup used \subseteq v \ unvisited /\ w = <<>>
    BY <1>2, Zenon DEF IInv, ListInv, PhaseInv
  <2>3. Current \subseteq List
    BY <2>1, <2>2, Zenon DEF Current
  <2>. QED BY <2>1, <2>2, <2>3, ZenonT(30)
<1>14. PhaseInv'
  BY <1>2, <1>7, Zenon DEF IInv, PhaseInv
<1>15. SearchInv'
  <2>1. W' \subseteq v \ unvisited'
    BY <1>3, <1>7, <1>11, Zenon
  <2>2. discarded' # None => C' \subseteq W' \cup discarded'
    <3>1. discarded # None => C \subseteq W \cup discarded
      BY Zenon DEF IInv, SearchInv
    <3>. QED BY <1>7, <3>1, Zenon
  <2>3. ASSUME first PROVE W' # {} /\ \A x \in W' : graph.level[x] >= lc
    <3>1. W # {} /\ \A x \in W : graph.level[x] >= lc
      BY <1>2, <2>3, Zenon DEF IInv, SearchInv
    <3>. QED BY <1>4, <1>7, <3>1, Zenon
  <2>4. first => /\ graph.entry # NoElement /\ lc <= graph.level[graph.entry]
                 /\ lc = 0 /\ hnsw_iterative_scan # "off" => discarded' # None
    BY <1>2, <1>7, Zenon DEF IInv, SearchInv
  <2>. QED BY <1>2, <1>11, <2>1, <2>2, <2>3, <2>4, ZenonT(30) DEF SearchInv
<1>16. ListInv'
  BY <1>2, <1>11, <1>12, Zenon DEF IInv, ListInv, dist
<1>17. LeftInv'
  <2>1. \A x \in Element : left'[x] <= Len(TidsOf[x])
    <3>1. Len(TidsOf[e]) <= Len(TidsOf[e])
      BY <1>9, SMTT(30), Z3T(30)
    <3>2. \A x \in Element : left[x] <= Len(TidsOf[x])
      BY Zenon DEF IInv, LeftInv
    <3>. QED BY <1>9, <3>1, <3>2, Zenon
  <2>2. \A x \in v \ unvisited : x \notin used \cup Current => left[x] = Len(TidsOf[x])
    BY Zenon DEF IInv, LeftInv
  <2>3. \A x \in v \ unvisited' : x \notin used \cup Current => left'[x] = Len(TidsOf[x])
    BY <1>3, <1>9, <1>11, <2>2, Zenon
  <2>4. \A x \in used : left'[x] = 0
    BY <1>3, <1>9, <1>13, Zenon DEF IInv, LeftInv
  <2>. QED BY <1>2, <1>12, <2>1, <2>3, <2>4, ZenonT(30) DEF LeftInv
<1>18. ReturnedInv' /\ NoTidTwice'
  <2>1. \A x \in used \cup Current : left'[x] = left[x]
    BY <1>3, <1>9, <1>13, Zenon
  <2>2. \A i \in DOMAIN returned :
          /\ returned[i][1] \in used \cup Current
          /\ \E k \in left'[returned[i][1]] + 1 .. Len(TidsOf[returned[i][1]]) :
               returned[i][2] = TidsOf[returned[i][1]][k]
    <3> TAKE i \in DOMAIN returned
    <3>1. /\ returned[i][1] \in used \cup Current
          /\ \E k \in left[returned[i][1]] + 1 .. Len(TidsOf[returned[i][1]]) :
               returned[i][2] = TidsOf[returned[i][1]][k]
      BY Zenon DEF IInv, ReturnedInv
    <3>2. left'[returned[i][1]] = left[returned[i][1]]
      BY <2>1, <3>1, Zenon
    <3>. QED BY <3>1, <3>2, ZenonT(30)
  <2>3. modes \subseteq {"relaxed"} =>
          \A x \in used \cup Current : \A k \in left'[x] + 1 .. Len(TidsOf[x]) :
            <<x, TidsOf[x][k]>> \in Range(returned)
    <3>1. modes \subseteq {"relaxed"} =>
          \A x \in used \cup Current : \A k \in left[x] + 1 .. Len(TidsOf[x]) :
            <<x, TidsOf[x][k]>> \in Range(returned)
      BY Zenon DEF IInv, ReturnedInv
    <3>. QED BY <2>1, <3>1, Zenon
  <2>4. ReturnedInv'
    BY <1>2, <1>12, <2>2, <2>3, ZenonT(30) DEF ReturnedInv
  <2>. QED BY <1>2, <2>4, Zenon DEF IInv, NoTidTwice
<1>19. OrderInv' /\ Ordered'
  BY <1>2, <1>7, <1>12, ZenonT(30) DEF IInv, OrderInv, Ordered, dist
<1>20. ReachInv'
  <2>1. discarded' # None => discarded # None /\ discarded' = discarded \cup drop
    BY <1>7, Zenon
  <2>2. discarded # None /\ tuples < MaxScanTuples /\ TRUE \notin Memory =>
          \A x \in v \ unvisited :
            graph.neighbors[0][x] \subseteq v \/ x \in C \/ x \in discarded
    BY Zenon DEF IInv, ReachInv
  <2>3. discarded' # None /\ tuples < MaxScanTuples /\ TRUE \notin Memory =>
          \A x \in v \ unvisited' :
            graph.neighbors[0][x] \subseteq v \/ x \in C' \/ x \in discarded'
    BY <1>7, <1>11, <2>1, <2>2, ZenonT(30)
  <2>4. ~first => discarded' # None
    BY <1>2, <1>7, Zenon DEF IInv, PhaseInv
  <2>. QED BY <1>2, <2>1, <2>3, <2>4, ZenonT(30) DEF IInv, ReachInv
<1>21. NothingLost'
  <2> SUFFICES ASSUME discarded' # None
               PROVE  /\ v \ unvisited' = W' \cup discarded' \cup List \cup used
                      /\ W' \cap (discarded' \cup List \cup used) = {}
                      /\ discarded' \cap (List \cup used) = {}
                      /\ List \cap used = {}
                      /\ ~first => IsInjective(w)
    BY <1>2, <1>12, Zenon DEF NothingLost
  <2>1. /\ v \ unvisited = W \cup discarded \cup List \cup used
        /\ W \cap (discarded \cup List \cup used) = {}
        /\ discarded \cap (List \cup used) = {}
        /\ List \cap used = {}
        /\ ~first => IsInjective(w)
    BY <1>7, Zenon DEF IInv, NothingLost
  <2>2. discarded' = discarded \cup drop /\ e \notin W \cup discarded \cup List \cup used
    BY <1>7, <2>1, Zenon
  <2>3. v \ unvisited' = W' \cup discarded' \cup List \cup used
    BY <1>7, <1>11, <2>1, <2>2, Zenon
  <2>4. W' \cap (discarded' \cup List \cup used) = {}
    BY <1>7, <2>1, <2>2, ZenonT(30)
  <2>5. discarded' \cap (List \cup used) = {}
    BY <1>7, <2>1, <2>2, ZenonT(30)
  <2>. QED BY <2>1, <2>3, <2>4, <2>5, Zenon
<1>22. NearestKept'
  <2>1. CASE first
    BY <1>1, <1>2, <2>1, VisitKept, Zenon
  <2>2. CASE ~first
    BY <1>2, <2>2, Zenon DEF NearestKept
  <2>. QED BY <2>1, <2>2, ZenonT(30)
<1>23. TraceInv' /\ TraceExact'
  BY <1>2, <1>8, TraceInSearch, Zenon
<1>. QED BY <1>10, <1>14, <1>15, <1>16, <1>17, <1>18, <1>19, <1>20, <1>21, <1>22, <1>23, ZenonT(30)
         DEF IInv

\* GetScanItems goes down a level
LEMMA NextLevelStep ==
  ASSUME IInv, FinishLayer, lc > 0 PROVE IInv'
<1>1. /\ pc = "search" /\ pc' = "search" /\ lc' = lc - 1 /\ C' = W /\ W' = W /\ unvisited' = {}
      /\ v' = W
      /\ tuples' = (IF lc - 1 = 0 THEN tuples + Cardinality(W) ELSE tuples)
      /\ discarded' = StartDiscarded(lc - 1)
      /\ UNCHANGED <<graph, hnsw_trace, hnsw_iterative_scan, sets, first, w, left,
                     previousDistance, trace, bufferUsage, entryBlks, lines, starts, used,
                     returned, ended, traced, modes, calls, expanded, indexBlks, heapBlks,
                     scans>>
  BY Zenon DEF FinishLayer, settings, StartLayer, MoreLevels, history
<1>2. /\ lc \in 0 .. MaxLevel /\ W \in SUBSET Element /\ tuples \in Nat /\ v \subseteq Element
      /\ W \subseteq v \ unvisited
  BY Zenon DEF IInv, TypeOK, SearchInv
<1>3. /\ first /\ discarded = None /\ used = {} /\ returned = <<>> /\ ~ended
      /\ hnsw_iterative_scan \in modes
  BY <1>1, Zenon DEF IInv, PhaseInv
<1>4. /\ W # {} /\ \A e \in W : graph.level[e] >= lc
      /\ graph.entry # NoElement /\ lc <= graph.level[graph.entry]
  BY <1>1, <1>3, Zenon DEF IInv, SearchInv
<1>5. \A e \in Element : graph.level[e] \in 0 .. MaxLevel
  BY GraphFacts, Zenon DEF IInv
<1>6. graph.entry \in Element
  BY <1>4, GraphFacts, ZenonT(30) DEF IInv
<1>7. /\ lc - 1 \in 0 .. MaxLevel /\ \A e \in W : graph.level[e] >= lc - 1
      /\ lc - 1 <= graph.level[graph.entry] /\ graph.level[graph.entry] # 0
      /\ (lc - 1 > 0 => lc - 1 # 0)
  BY <1>2, <1>4, <1>5, <1>6, ScanAssumption, SMTT(30), Z3T(30)
<1>8. TypeOK'
  <2>1. tuples' \in Nat
    BY <1>1, <1>2, Finite, SMTT(30), Z3T(30)
  <2>2. /\ lc' \in 0 .. MaxLevel /\ C' \subseteq Element /\ W' \subseteq Element
        /\ unvisited' \subseteq Element /\ v' \subseteq Element
        /\ discarded' = None \/ discarded' \subseteq Element
    BY <1>1, <1>2, <1>7, ZenonT(30) DEF StartDiscarded
  <2>. QED BY <1>1, <2>1, <2>2, ZenonT(30) DEF IInv, TypeOK
<1>9. /\ List' = {} /\ Current' = {} /\ Current = {} /\ DOMAIN returned' = {} /\ {} # None
  BY <1>1, <1>3, SMTT(30), Z3T(30) DEF List, Current, None
<1>10. PhaseInv'
  <2>1. lc' > 0 => discarded' = None
    BY <1>1, <1>7, Zenon DEF StartDiscarded
  <2>. QED BY <1>1, <1>3, <2>1, Zenon DEF PhaseInv
<1>11. SearchInv'
  <2>1. lc' = 0 /\ hnsw_iterative_scan # "off" => discarded' # None
    BY <1>1, <1>9, Zenon DEF StartDiscarded
  <2>. QED BY <1>1, <1>4, <1>7, <2>1, Zenon DEF SearchInv
<1>12. ListInv' /\ LeftInv'
  BY <1>1, <1>2, <1>3, <1>9, Zenon DEF IInv, ListInv, LeftInv
<1>13. ReturnedInv' /\ NoTidTwice' /\ Ordered'
  BY <1>1, <1>3, <1>9, Zenon DEF IInv, ReturnedInv, NoTidTwice, Ordered
<1>14. OrderInv'
  <2>1. modes' = {"off"} => hnsw_iterative_scan = "off"
    BY <1>1, <1>3, Zenon
  <2>. QED BY <1>1, <1>9, <2>1, Zenon DEF OrderInv, StartDiscarded
<1>15. ReachInv'
  BY <1>1, <1>3, <1>4, <1>7, Zenon DEF ReachInv
<1>16. NothingLost'
  BY <1>1, <1>3, <1>9, Zenon DEF NothingLost, StartDiscarded
<1>17. NearestKept'
  <2> DEFINE L == {e \in v \ unvisited : graph.level[e] >= lc}
  <2>1. {e \in v' \ unvisited' : graph'.level[e] >= lc'} = W
    BY <1>1, <1>7, Zenon
  <2>2. Cardinality(W) = Min({1, Cardinality(L)})
    <3>1. Ef = 1
      BY <1>2, SMTT(30), Z3T(30) DEF Ef
    <3>. QED BY <1>1, <1>3, <3>1, Zenon DEF IInv, NearestKept
  <2>3. L \in SUBSET Element
    BY <1>2, Zenon
  <2> HIDE DEF L
  <2>4. Cardinality(W) <= 1 /\ Cardinality(W) \in Nat
    BY <1>2, <2>2, <2>3, Finite, MinOfTwo, SMTT(30), Z3T(30)
  <2>5. Ef' \in Nat \ {0}
    BY ScanAssumption, SMTT(30), Z3T(30) DEF Ef
  <2>6. Min({Ef', Cardinality(W)}) = Cardinality(W)
    BY <2>4, <2>5, MinOfTwo, SMTT(30), Z3T(30)
  <2>. QED BY <1>1, <2>1, <2>6, Zenon DEF NearestKept
<1>18. TraceInv' /\ TraceExact'
  BY <1>1, Zenon DEF IInv, TraceInv, TraceExact
<1>. QED BY <1>8, <1>10, <1>11, <1>12, <1>13, <1>14, <1>15, <1>16, <1>17, <1>18, ZenonT(30) DEF IInv

\* The search of the ground level is over: W is the list
LEMMA ListStep ==
  ASSUME IInv, FinishLayer, ~(lc > 0) PROVE IInv'
<1>1. /\ pc = "search" /\ Exhausted /\ w' \in Lists(W) /\ first' = FALSE /\ pc' = "fetch"
      /\ C' = {} /\ W' = {}
      /\ UNCHANGED <<graph, hnsw_trace, hnsw_iterative_scan, sets, v, unvisited, lc,
                     discarded, tuples, left, previousDistance, trace, bufferUsage, entryBlks,
                     lines, starts, used, returned, ended, traced, modes, calls, expanded,
                     indexBlks, heapBlks, scans>>
  BY Zenon DEF FinishLayer, settings, MoreLevels, history
<1>2. /\ lc \in 0 .. MaxLevel /\ W \in SUBSET Element /\ C \subseteq Element
      /\ W \subseteq v \ unvisited /\ unvisited = {} /\ v \subseteq Element
  BY <1>1, Zenon DEF IInv, TypeOK, SearchInv, Exhausted
<1>3. lc = 0
  BY <1>2, SMTT(30), Z3T(30)
<1>4. /\ w' \in Seq(Element) /\ Range(w') = W /\ IsInjective(w')
      /\ \A i, j \in DOMAIN w' : i < j => dist(w'[i]) >= dist(w'[j])
  BY <1>1, <1>2, ListOfSet, Zenon
<1>5. /\ List = {} /\ Current = {} /\ List' = W /\ Current' \subseteq W
      /\ (~first => discarded # None)
  <2>1. first \/ (w = <<>> /\ discarded # None)
    BY <1>1, Zenon DEF IInv, PhaseInv
  <2>2. Range(<<>>) = {}
    BY SMTT(30), Z3T(30) DEF Range
  <2>3. w' # <<>> => llast(w') \in W
    BY <1>4, LastInRange, Zenon
  <2>. QED BY <1>1, <1>4, <2>1, <2>2, <2>3, Zenon DEF List, Current
<1>6. W \cap used = {} /\ used \subseteq v \ unvisited
  <2>1. CASE first
    BY <2>1, Zenon DEF IInv, PhaseInv
  <2>2. CASE ~first
    BY <1>5, <2>2, Zenon DEF IInv, NothingLost
  <2>. QED BY <2>1, <2>2, ZenonT(30)
<1>7. TypeOK'
  BY <1>1, <1>4, Zenon DEF IInv, TypeOK
<1>8. PhaseInv' /\ SearchInv'
  <2>1. hnsw_iterative_scan \in modes
    BY <1>1, Zenon DEF IInv, PhaseInv
  <2>. QED BY <1>1, <1>2, <2>1, Zenon DEF PhaseInv, SearchInv
<1>9. ListInv'
  BY <1>1, <1>2, <1>4, <1>5, <1>6, Zenon DEF ListInv, dist
<1>10. LeftInv'
  BY <1>1, <1>5, Zenon DEF IInv, LeftInv
<1>11. ReturnedInv' /\ NoTidTwice'
  <2>1. ASSUME NEW d \in (used' \cup Current') \ (used \cup Current)
        PROVE  d \in Element /\ left[d] = Len(TidsOf[d])
    <3>1. d \in W /\ d \notin used \cup Current
      BY <1>1, <1>5, Zenon
    <3>. QED BY <1>2, <3>1, Zenon DEF IInv, LeftInv
  <2>2. used \cup Current \subseteq used' \cup Current'
    BY <1>1, <1>5, Zenon
  <2>. QED BY <1>1, <2>1, <2>2, ReturnedKept, Zenon
<1>12. OrderInv' /\ Ordered'
  <2>1. modes = {"off"} => discarded = None /\ DOMAIN returned = {}
    <3>1. modes = {"off"} => discarded = None
      BY Zenon DEF IInv, OrderInv
    <3>2. first => DOMAIN returned = {}
      <4>1. DOMAIN <<>> = {}
        BY SMTT(30), Z3T(30)
      <4>. QED BY <4>1, Zenon DEF IInv, PhaseInv
    <3>. QED BY <1>5, <3>1, <3>2, Zenon
  <2>. QED BY <1>1, <2>1, Zenon DEF IInv, OrderInv, Ordered, dist
<1>13. ReachInv'
  <2>1. modes = {"relaxed"} => discarded # None
    <3>1. modes = {"relaxed"} => hnsw_iterative_scan = "relaxed"
      BY <1>1, Zenon DEF IInv, PhaseInv
    <3>2. first /\ hnsw_iterative_scan # "off" => discarded # None
      BY <1>1, <1>3, Zenon DEF IInv, SearchInv
    <3>. QED BY <1>5, <3>1, <3>2, ZenonT(30)
  <2>2. ASSUME discarded # None, NEW c \in C PROVE c \in discarded
    <3> SUFFICES ASSUME c \in W PROVE FALSE
      BY <2>2, Zenon DEF IInv, SearchInv
    <3>1. PICK f : f \in Furthest(W)
      BY <1>2, FurthestExists, Zenon DEF IInv
    <3>2. dist(c) > dist(f) /\ dist(f) >= dist(c)
      BY <1>1, <3>1, Zenon DEF Exhausted, Furthest
    <3>3. dist(c) \in Nat /\ dist(f) \in Nat
      BY <1>2, <3>1, GraphFacts, Zenon DEF IInv, Furthest
    <3>. QED BY <3>2, <3>3, SMTT(30), Z3T(30)
  <2>3. discarded # None /\ tuples < MaxScanTuples /\ TRUE \notin Memory =>
          \A e \in v \ unvisited : graph.neighbors[0][e] \subseteq v \/ e \in discarded
    BY <2>2, Zenon DEF IInv, ReachInv
  <2>4. /\ ~(ended /\ modes = {"relaxed"})
        /\ discarded # None => v # {} /\ (graph.level[graph.entry] = 0 => graph.entry \in v)
    BY <1>1, Zenon DEF IInv, ReachInv
  <2>. QED BY <1>1, <2>1, <2>3, <2>4, Zenon DEF ReachInv
<1>14. NothingLost'
  BY <1>1, <1>4, <1>5, Zenon DEF IInv, NothingLost
<1>15. NearestKept' /\ TraceExact'
  BY <1>1, Zenon DEF NearestKept, TraceExact
<1>16. TraceInv'
  BY <1>1, Zenon DEF IInv, TraceInv
<1>. QED BY <1>7, <1>8, <1>9, <1>10, <1>11, <1>12, <1>13, <1>14, <1>15, <1>16, ZenonT(30) DEF IInv

LEMMA FinishLayerStep ==
  ASSUME IInv, FinishLayer PROVE IInv'
  BY NextLevelStep, ListStep, Zenon

-----------------------------------------------------------------------------
(* The list of a batch is used up *)

LEMMA RefillStep ==
  ASSUME IInv, Refill PROVE IInv'
<1>1. /\ pc = "fetch" /\ w = <<>>
      /\ UNCHANGED <<graph, hnsw_trace, hnsw_iterative_scan, sets, first, left,
                     previousDistance, bufferUsage, entryBlks, lines, starts, used, returned,
                     traced, modes, calls, expanded, indexBlks, heapBlks, scans>>
  BY Zenon DEF Refill, settings
<1>2. /\ ~first /\ unvisited = {} /\ W = {} /\ C = {} /\ hnsw_iterative_scan \in modes
      /\ List = {} /\ Current = {}
  <2>1. Range(<<>>) = {}
    BY SMTT(30), Z3T(30) DEF Range
  <2>. QED BY <1>1, <2>1, Zenon DEF IInv, PhaseInv, List, Current
<1>3. /\ trace \in Trace /\ v \subseteq Element /\ used \subseteq Element
      /\ discarded = None \/ discarded \subseteq Element
  BY Zenon DEF IInv, TypeOK
<1>4. CASE (hnsw_iterative_scan = "off" \/ discarded \in {None, {}}) /\ NoMore
  <2>1. /\ pc' = "idle" /\ ended' = TRUE
        /\ trace' = (IF hnsw_trace THEN [trace EXCEPT !.idx = @ + bufferUsage - entryBlks]
                                   ELSE trace)
        /\ UNCHANGED <<v, C, W, unvisited, lc, tuples, discarded, w>>
    BY <1>4, ZenonT(30) DEF NoMore, search, CountBlocks
  <2>2. /\ bufferUsage \in Nat /\ entryBlks \in Nat /\ trace.idx \in Int
    BY <1>3, Zenon DEF IInv, TypeOK, Trace
  <2>3. /\ trace' \in Trace /\ trace'.fetches = trace.fetches /\ trace'.tids = trace.tids
        /\ trace'.before = trace.before
        /\ hnsw_trace => trace'.idx = trace.idx + bufferUsage - entryBlks
    <3> DEFINE n == trace.idx + bufferUsage - entryBlks
    <3>1. n \in Int
      BY <2>2, SMTT(30), Z3T(30)
    <3> HIDE DEF n
    <3>2. trace' = (IF hnsw_trace THEN [trace EXCEPT !.idx = n] ELSE trace)
      BY <2>1, Zenon DEF n
    <3>3. /\ trace' \in Trace /\ trace'.fetches = trace.fetches /\ trace'.tids = trace.tids
          /\ trace'.before = trace.before
          /\ hnsw_trace => trace'.idx = n
      BY <1>3, <3>1, <3>2, ZenonT(30) DEF Trace
    <3>. QED BY <3>3, Zenon DEF n
  <2>4. TypeOK'
    BY <1>1, <2>1, <2>3, ZenonT(30) DEF IInv, TypeOK
  <2>5. List' = List /\ Current' = Current
    BY <1>1, <2>1, Zenon DEF List, Current
  <2>6. PhaseInv' /\ SearchInv' /\ ListInv' /\ LeftInv'
    BY <1>1, <1>2, <2>1, <2>5, ZenonT(30) DEF IInv, PhaseInv, SearchInv, ListInv, LeftInv, dist
  <2>7. ReturnedInv' /\ NoTidTwice' /\ OrderInv' /\ Ordered'
    BY <1>1, <2>1, <2>5, ZenonT(30) DEF IInv, ReturnedInv, NoTidTwice, OrderInv, Ordered, dist
  <2>8. ReachInv'
    <3>1. modes = {"relaxed"} => discarded \in {None, {}}
      BY <1>2, <1>4, Zenon
    <3>. QED BY <1>1, <1>2, <2>1, <3>1, ZenonT(30) DEF IInv, ReachInv
  <2>9. NothingLost' /\ NearestKept' /\ TraceExact'
    BY <1>1, <2>1, <2>5, ZenonT(30) DEF IInv, NothingLost, NearestKept, TraceExact
  <2>10. TraceInv'
    BY <1>1, <2>1, <2>3, ZenonT(30) DEF IInv, TraceInv
  <2>. QED BY <2>4, <2>6, <2>7, <2>8, <2>9, <2>10, ZenonT(30) DEF IInv
<1>5. ASSUME hnsw_iterative_scan # "off", discarded \notin {None, {}}
      PROVE  /\ discarded \subseteq Element /\ modes # {"off"} /\ ~(ended /\ modes = {"relaxed"})
             /\ v \ unvisited = discarded \cup used /\ discarded \cap used = {}
             /\ v # {} /\ (graph.level[graph.entry] = 0 => graph.entry \in v)
             /\ \A S : discarded \ S # None
             /\ \A d \in discarded : left[d] = Len(TidsOf[d])
  <2>1. discarded # None /\ discarded \subseteq Element
    BY <1>3, <1>5, Zenon
  <2>2. v \ unvisited = discarded \cup used /\ discarded \cap used = {}
    BY <1>2, <2>1, Zenon DEF IInv, NothingLost
  <2>3. \A S : discarded \ S # None
    BY <2>1, ScanAssumption, Zenon DEF None
  <2>4. \A d \in discarded : left[d] = Len(TidsOf[d])
    BY <1>2, <2>2, Zenon DEF IInv, LeftInv
  <2>5. modes # {"off"} /\ ~(ended /\ modes = {"relaxed"})
    BY <1>2, <1>5, Zenon DEF IInv, ReachInv
  <2>. QED BY <2>1, <2>2, <2>3, <2>4, <2>5, ZenonT(30) DEF IInv, ReachInv
<1>6. CASE /\ hnsw_iterative_scan # "off" /\ discarded \notin {None, {}}
           /\ \E exceeded \in Memory : Limited \/ exceeded
           /\ ReturnRemaining /\ UNCHANGED <<ended, trace, pc, v, C, W, unvisited, lc, tuples>>
  <2>1. PICK d \in Nearest(discarded) : w' = <<d>> /\ discarded' = discarded \ {d}
    BY <1>6, Zenon DEF ReturnRemaining
  <2>2. UNCHANGED <<ended, trace, pc, v, C, W, unvisited, lc, tuples>>
    BY <1>6, Zenon
  <2>3. /\ discarded \subseteq Element /\ modes # {"off"} /\ ~(ended /\ modes = {"relaxed"})
        /\ v \ unvisited = discarded \cup used /\ discarded \cap used = {}
        /\ v # {} /\ (graph.level[graph.entry] = 0 => graph.entry \in v)
        /\ discarded' # None /\ discarded # None
        /\ \A x \in discarded : left[x] = Len(TidsOf[x])
    BY <1>5, <1>6, <2>1, Zenon
  <2>4. d \in discarded /\ d \in Element
    BY <2>3, Zenon DEF Nearest
  <2>5. /\ w' \in Seq(Element) /\ Range(w') = {d} /\ IsInjective(w') /\ llast(w') = d
        /\ w' # <<>> /\ \A i, j \in DOMAIN w' : ~(i < j)
    BY <2>1, <2>4, SMTT(30), Z3T(30) DEF Range, IsInjective, llast
  <2>6. List' = {d} /\ Current' = {d}
    BY <1>1, <1>2, <2>5, Zenon DEF List, Current
  <2>7. TypeOK'
    <3>1. discarded' \subseteq Element
      BY <2>1, <2>3, Zenon
    <3>. QED BY <1>1, <2>2, <2>5, <3>1, ZenonT(30) DEF IInv, TypeOK
  <2>8. PhaseInv' /\ SearchInv'
    BY <1>1, <1>2, <2>2, ZenonT(30) DEF IInv, PhaseInv, SearchInv
  <2>9. ListInv'
    BY <1>1, <2>2, <2>3, <2>4, <2>5, <2>6, ZenonT(30) DEF ListInv
  <2>10. LeftInv'
    BY <1>1, <1>2, <2>2, <2>6, ZenonT(30) DEF IInv, LeftInv
  <2>11. ReturnedInv' /\ NoTidTwice'
    <3>1. \A x \in (used' \cup Current') \ (used \cup Current) :
            x \in Element /\ left[x] = Len(TidsOf[x])
      BY <1>1, <2>3, <2>4, <2>6, Zenon
    <3>2. used \cup Current \subseteq used' \cup Current'
      BY <1>1, <1>2, Zenon
    <3>. QED BY <1>1, <3>1, <3>2, ReturnedKept, ZenonT(30)
  <2>12. OrderInv' /\ Ordered'
    BY <1>1, <2>3, Zenon DEF IInv, OrderInv, Ordered, dist
  <2>13. ReachInv'
    <3>1. ~(tuples < MaxScanTuples /\ TRUE \notin Memory)
      <4>1. tuples \in Nat /\ MaxScanTuples \in Nat /\ Memory \subseteq BOOLEAN
        BY ScanAssumption, Zenon DEF IInv, TypeOK
      <4>2. Limited => ~(tuples < MaxScanTuples)
        BY <4>1, SMTT(30), Z3T(30) DEF Limited
      <4>. QED BY <1>6, <4>1, <4>2, Zenon
    <3>. QED BY <1>1, <1>2, <2>2, <2>3, <3>1, ZenonT(30) DEF ReachInv
  <2>14. NothingLost'
    BY <1>1, <1>2, <2>1, <2>2, <2>3, <2>4, <2>5, <2>6, ZenonT(30) DEF NothingLost
  <2>15. NearestKept' /\ TraceExact' /\ TraceInv'
    BY <1>1, <2>2, ZenonT(30) DEF IInv, NearestKept, TraceExact, TraceInv
  <2>. QED BY <2>7, <2>8, <2>9, <2>10, <2>11, <2>12, <2>13, <2>14, <2>15, ZenonT(30) DEF IInv
<1>7. CASE /\ hnsw_iterative_scan # "off" /\ discarded \notin {None, {}}
           /\ UNCHANGED <<ended, trace, w>>
           /\ \E ep \in FirstDiscarded(EfSearch) :
                StartLayer(0, ep, FALSE) /\ discarded' = discarded \ ep
  <2>1. PICK ep \in FirstDiscarded(EfSearch) :
          StartLayer(0, ep, FALSE) /\ discarded' = discarded \ ep
    BY <1>7, Zenon
  <2>2. /\ lc' = 0 /\ C' = ep /\ W' = ep /\ unvisited' = {} /\ v' = v /\ tuples' = tuples
        /\ pc' = "search" /\ UNCHANGED <<ended, trace, w>> /\ discarded' = discarded \ ep
    BY <1>7, <2>1, Zenon DEF StartLayer
  <2>3. /\ discarded \subseteq Element /\ modes # {"off"} /\ ~(ended /\ modes = {"relaxed"})
        /\ v \ unvisited = discarded \cup used /\ discarded \cap used = {}
        /\ v # {} /\ (graph.level[graph.entry] = 0 => graph.entry \in v)
        /\ discarded' # None /\ discarded # None
    BY <1>5, <1>7, <2>1, Zenon
  <2>4. ep \subseteq discarded
    BY Zenon DEF FirstDiscarded
  <2>5. List' = {} /\ Current' = {}
    BY <1>1, <1>2, <2>2, ZenonT(30) DEF List, Current
  <2>6. TypeOK'
    <3>1. /\ discarded' \subseteq Element /\ C' \subseteq Element /\ W' \subseteq Element
          /\ unvisited' \subseteq Element
      BY <2>2, <2>3, <2>4, ZenonT(30)
    <3>2. lc' \in 0 .. MaxLevel
      BY <2>2, ScanAssumption, SMTT(30), Z3T(30)
    <3>. QED BY <1>1, <2>2, <3>1, <3>2, ZenonT(30) DEF IInv, TypeOK
  <2>7. PhaseInv' /\ SearchInv'
    <3>1. ~(0 > 0)
      BY SMTT(30), Z3T(30)
    <3>2. PhaseInv'
      BY <1>1, <1>2, <2>2, <2>3, <3>1, ZenonT(30) DEF IInv, PhaseInv
    <3>3. SearchInv'
      BY <1>1, <1>2, <2>2, <2>3, <2>4, ZenonT(30) DEF SearchInv
    <3>. QED BY <3>2, <3>3, Zenon
  <2>8. ListInv' /\ LeftInv'
    BY <1>1, <1>2, <2>2, <2>5, ZenonT(30) DEF IInv, ListInv, LeftInv, dist
  <2>9. ReturnedInv' /\ NoTidTwice' /\ OrderInv' /\ Ordered'
    BY <1>1, <1>2, <2>3, <2>5, ZenonT(30) DEF IInv, ReturnedInv, NoTidTwice, OrderInv, Ordered, dist
  <2>10. ReachInv'
    BY <1>1, <1>2, <2>2, <2>3, ZenonT(30) DEF IInv, ReachInv
  <2>11. NothingLost'
    BY <1>1, <1>2, <2>2, <2>3, <2>4, <2>5, ZenonT(30) DEF IInv, NothingLost
  <2>12. NearestKept' /\ TraceExact' /\ TraceInv'
    BY <1>1, <1>2, <2>2, ZenonT(30) DEF IInv, NearestKept, TraceExact, TraceInv
  <2>. QED BY <2>6, <2>7, <2>8, <2>9, <2>10, <2>11, <2>12, ZenonT(30) DEF IInv
<1>8. \/ (hnsw_iterative_scan = "off" \/ discarded \in {None, {}}) /\ NoMore
      \/ /\ hnsw_iterative_scan # "off" /\ discarded \notin {None, {}}
         /\ \E exceeded \in Memory : Limited \/ exceeded
         /\ ReturnRemaining /\ UNCHANGED <<ended, trace, pc, v, C, W, unvisited, lc, tuples>>
      \/ /\ hnsw_iterative_scan # "off" /\ discarded \notin {None, {}}
         /\ UNCHANGED <<ended, trace, w>>
         /\ \E ep \in FirstDiscarded(EfSearch) :
              StartLayer(0, ep, FALSE) /\ discarded' = discarded \ ep
  BY Zenon DEF Refill
<1>. QED BY <1>4, <1>6, <1>7, <1>8, ZenonT(30)

-----------------------------------------------------------------------------
(* The theorems *)

LEMMA InitInv == Init => IInv
<1> SUFFICES ASSUME Init PROVE IInv
  BY SMTT(30), Z3T(30)
<1>1. /\ graph \in Graphs /\ hnsw_trace \in TraceModes /\ hnsw_iterative_scan \in Modes
      /\ pc = "closed" /\ first = TRUE
      /\ v = {} /\ C = {} /\ W = {} /\ unvisited = {} /\ lc = 0
      /\ discarded = None /\ tuples = 0 /\ w = <<>> /\ left = [e \in Element |-> 0]
      /\ previousDistance = NegInfinity /\ trace = Zero
      /\ bufferUsage = 0 /\ entryBlks = 0 /\ lines = <<>> /\ starts = 0
      /\ used = {} /\ returned = <<>> /\ ended = FALSE /\ traced = {} /\ modes = {}
      /\ calls = 0 /\ expanded = 0 /\ indexBlks = 0 /\ heapBlks = 0
      /\ scans = 0 /\ sets = 0
  BY Zenon DEF Init
<1>2. TypeOK
  <2>1. /\ IsGraph(graph) /\ hnsw_trace \in BOOLEAN
        /\ hnsw_iterative_scan \in {"off", "relaxed", "strict"}
    BY <1>1, ScanAssumption, Zenon
  <2>2. /\ 0 \in Nat /\ 0 \in Int /\ <<>> \in Seq(Element) /\ <<>> \in Seq(Line)
        /\ <<>> \in Seq(Element \X Nat) /\ <<>> \in Seq(Nat) /\ NegInfinity \in Int
        /\ 0 \in 0 .. MaxLevel
    BY ScanAssumption, SMTT(30), Z3T(30) DEF NegInfinity
  <2>3. Zero \in Trace
    BY <2>2, Zenon DEF Zero, Trace, Counter
  <2>4. left \in [Element -> Nat]
    BY <1>1, <2>2, ZenonT(30)
  <2>. QED BY <1>1, <2>1, <2>2, <2>3, <2>4, ZenonT(30) DEF TypeOK
<1>3. /\ List = {} /\ Current = {} /\ DOMAIN returned = {}
  BY <1>1, SMTT(30), Z3T(30) DEF List, Current
<1>4. PhaseInv /\ SearchInv /\ ListInv
  BY <1>1, Zenon DEF PhaseInv, SearchInv, ListInv
<1>5. LeftInv
  <2>1. \A e \in Element : 0 <= Len(TidsOf[e])
    BY ScanAssumption, SMTT(30), Z3T(30)
  <2>2. \A e \in Element : left[e] = 0
    BY <1>1, Zenon
  <2>. QED BY <1>1, <2>1, <2>2, Zenon DEF LeftInv
<1>6. ReturnedInv /\ NoTidTwice /\ OrderInv /\ Ordered
  BY <1>1, <1>3, Zenon DEF ReturnedInv, NoTidTwice, OrderInv, Ordered, IsInjective
<1>7. ReachInv /\ TraceInv /\ NothingLost /\ NearestKept /\ TraceExact
  BY <1>1, Zenon DEF ReachInv, TraceInv, NothingLost, NearestKept, TraceExact
<1>. QED BY <1>2, <1>4, <1>5, <1>6, <1>7, Zenon DEF IInv

LEMMA StutterStep ==
  ASSUME IInv, UNCHANGED vars PROVE IInv'
<1>1. UNCHANGED <<graph, hnsw_trace, hnsw_iterative_scan, sets, pc, first, v, C, W, unvisited,
                  lc, discarded, tuples, w, left, previousDistance, trace, bufferUsage,
                  entryBlks, lines, starts, used, returned, ended, traced, modes, calls,
                  expanded, indexBlks, heapBlks, scans>>
  BY Zenon DEF vars, settings, search, history
<1>2. List' = List /\ Current' = Current
  BY <1>1, Zenon DEF List, Current
<1>3. TypeOK'
  BY <1>1, ZenonT(30) DEF IInv, TypeOK
<1>4. PhaseInv' /\ SearchInv' /\ ListInv' /\ LeftInv'
  BY <1>1, <1>2, Zenon DEF IInv, PhaseInv, SearchInv, ListInv, LeftInv, dist
<1>5. ReturnedInv' /\ NoTidTwice' /\ OrderInv' /\ Ordered'
  BY <1>1, <1>2, Zenon DEF IInv, ReturnedInv, NoTidTwice, OrderInv, Ordered, dist
<1>6. ReachInv' /\ TraceInv' /\ TraceExact'
  BY <1>1, ZenonT(30) DEF IInv, ReachInv, TraceInv, TraceExact, LastLine
<1>7. NothingLost' /\ NearestKept'
  BY <1>1, <1>2, Zenon DEF IInv, NothingLost, NearestKept, Ef, dist
<1>. QED BY <1>3, <1>4, <1>5, <1>6, <1>7, ZenonT(30) DEF IInv

LEMMA Invariance == Spec => []IInv
<1>1. IInv /\ [Next]_vars => IInv'
  <2> SUFFICES ASSUME IInv, [Next]_vars PROVE IInv'
    BY SMTT(30), Z3T(30)
  <2>1. CASE InCall
    BY <2>1, GetTupleStep, ExpandStep, VisitStep, FinishLayerStep, RefillStep,
       DropCandidateStep, NextTidStep, ZenonT(30) DEF InCall
  <2>2. CASE Next /\ ~InCall
    BY <2>2, BeginScanStep, ChangeSettingStep, HeapFetchStep, EndScanStep, Zenon DEF Next
  <2>3. CASE UNCHANGED vars
    BY <2>3, StutterStep, Zenon
  <2>. QED BY <2>1, <2>2, <2>3, Zenon
<1>. QED BY <1>1, InitInv, PTL DEF Spec

\* The fields of a scan descriptor and of a search hold what their C types say, for every
\* graph, every hnsw.ef_search and every sequence of calls and settings.
THEOREM ScanTypes == Spec => []TypeOK
<1>1. IInv => TypeOK
  BY Zenon DEF IInv
<1>. QED BY <1>1, Invariance, PTL

\* An iterative scan of any graph neither loses nor duplicates a candidate between its batches
\* (HnswSearchLayer's discarded heap, ResumeScanItems and the list of hnswgettuple).
THEOREM ScanNothingLost == Spec => []NothingLost
<1>1. IInv => NothingLost
  BY Zenon DEF IInv
<1>. QED BY <1>1, Invariance, PTL

\* During the search from the entry point HnswSearchLayer's W holds the ef nearest of the
\* elements loaded at the level.
THEOREM ScanNearestKept == Spec => []NearestKept
<1>1. IInv => NearestKept
  BY Zenon DEF IInv
<1>. QED BY <1>1, Invariance, PTL

\* hnswgettuple returns no heap TID twice between two calls of hnswrescan, whatever is set in
\* between.
THEOREM ScanNoTidTwice == Spec => []NoTidTwice
<1>1. IInv => NoTidTwice
  BY Zenon DEF IInv
<1>. QED BY <1>1, Invariance, PTL

\* hnswgettuple returns the tuples of a plain scan and of a strict iterative scan in the order
\* of the distance.
THEOREM ScanOrdered == Spec => []Ordered
<1>1. IInv => Ordered
  BY Zenon DEF IInv
<1>. QED BY <1>1, Invariance, PTL

\* The line HnswTraceEmit writes for a scan that was traced throughout has the TIDs returned,
\* in order, and splits the blocks between the index and the executor as they were read.
THEOREM ScanTraceExact == Spec => []TraceExact
<1>1. IInv => TraceExact
  BY Zenon DEF IInv
<1>. QED BY <1>1, Invariance, PTL

\* A relaxed iterative scan that has said there are no more tuples has returned every heap TID
\* of what it came across, and below the limits it came across all that can be reached.
THEOREM ScanComplete == Spec => []Complete
<1>1. IInv => Complete
  <2> SUFFICES ASSUME IInv, ended, modes = {"relaxed"}
               PROVE  /\ Range(returned) = TidsOfAll(v)
                      /\ tuples < MaxScanTuples /\ TRUE \notin Memory =>
                           /\ \A e \in v : graph.neighbors[0][e] \subseteq v
                           /\ graph.entry # NoElement =>
                                v # {} /\ (graph.level[graph.entry] = 0 => graph.entry \in v)
    BY Zenon DEF Complete
  <2>1. ~first /\ pc # "search" /\ w = <<>> /\ discarded \in {None, {}}
    BY Zenon DEF IInv, ReachInv, PhaseInv
  <2>2. unvisited = {} /\ W = {} /\ C = {} /\ Current = {} /\ List = {}
    <3>1. Range(<<>>) = {}
      BY SMTT(30), Z3T(30) DEF Range
    <3>. QED BY <2>1, <3>1, Zenon DEF IInv, PhaseInv, Current, List
  <2>3. /\ discarded = None => v = {} /\ graph.entry = NoElement
        /\ {} # None /\ used \subseteq v
    BY <2>1, ScanAssumption, Zenon DEF IInv, ReachInv, ListInv, None
  <2>4. v = used
    BY <2>1, <2>2, <2>3, ZenonT(30) DEF IInv, NothingLost
  <2>5. /\ returned \in Seq(Element \X Nat) /\ used \subseteq Element
        /\ \A e \in used : left[e] = 0
    BY Zenon DEF IInv, TypeOK, LeftInv
  <2>6. \A e \in used : TidsOf[e] \in Seq(Nat) /\ DOMAIN TidsOf[e] = left[e] + 1 .. Len(TidsOf[e])
    BY <2>5, TidsDomain, Zenon
  <2>7. \A p \in Range(returned) : p \in TidsOfAll(v)
    <3> TAKE p \in Range(returned)
    <3>1. PICK i \in DOMAIN returned : p = returned[i]
      BY Zenon DEF Range
    <3>2. /\ p[1] \in used
          /\ \E k \in left[p[1]] + 1 .. Len(TidsOf[p[1]]) : p[2] = TidsOf[p[1]][k]
      BY <2>2, <3>1, Zenon DEF IInv, ReturnedInv
    <3>3. p[2] \in Range(TidsOf[p[1]])
      BY <2>6, <3>2, Zenon DEF Range
    <3>4. p = <<p[1], p[2]>>
      BY <2>5, <3>1, PairsOf, ZenonT(30)
    <3>5. p \in {<<p[1], t>> : t \in Range(TidsOf[p[1]])}
      BY <3>3, <3>4, ZenonT(30)
    <3>6. {<<p[1], t>> : t \in Range(TidsOf[p[1]])}
            \in {{<<e, t>> : t \in Range(TidsOf[e])} : e \in v}
      BY <2>4, <3>2, Zenon
    <3>. QED BY <3>5, <3>6, Zenon DEF TidsOfAll
  <2>8. \A p \in TidsOfAll(v) : p \in Range(returned)
    <3> TAKE p \in TidsOfAll(v)
    <3>1. PICK e \in used : \E t \in Range(TidsOf[e]) : p = <<e, t>>
      BY <2>4, Zenon DEF TidsOfAll
    <3>2. PICK k \in left[e] + 1 .. Len(TidsOf[e]) : p = <<e, TidsOf[e][k]>>
      BY <2>6, <3>1, Zenon DEF Range
    <3>. QED BY <3>2, Zenon DEF IInv, ReturnedInv
  <2>9. Range(returned) = TidsOfAll(v)
    BY <2>7, <2>8, Zenon
  <2>10. tuples < MaxScanTuples /\ TRUE \notin Memory =>
           \A e \in v : graph.neighbors[0][e] \subseteq v
    BY <2>1, <2>2, <2>3, ZenonT(30) DEF IInv, ReachInv
  <2>11. graph.entry # NoElement =>
           v # {} /\ (graph.level[graph.entry] = 0 => graph.entry \in v)
    BY <2>3, Zenon DEF IInv, ReachInv
  <2>. QED BY <2>9, <2>10, <2>11, Zenon
<1>. QED BY <1>1, Invariance, PTL
=============================================================================
