-------------------------- MODULE HnswTraceProofs --------------------------
(***************************************************************************)
(* The page statistics of a trace, for every capacity of the array, every  *)
(* set of pages and every sequence of accesses.                            *)
(***************************************************************************)
EXTENDS HnswTrace, FiniteSetTheorems, TLAPS

\* Up to the capacity the array holds exactly the pages accessed; once it is exceeded more
\* pages were accessed than fit.
Inv ==
  /\ TypeOK
  /\ IsFiniteSet(accessed)
  /\ distinct_pages <= Capacity =>
       /\ distinct_pages = Cardinality(accessed)
       /\ accessed = {pages_seen[i] : i \in 1 .. distinct_pages}
  /\ distinct_pages > Capacity => Cardinality(accessed) > Capacity
  /\ Consistent
  /\ index_loads > 0 => last_page \in accessed

USE TraceAssumption

LEMMA InitInv == Init => Inv
<1> SUFFICES ASSUME Init PROVE Inv
  BY SMTT(30), Z3T(30)
<1>1. TypeOK /\ Consistent
  BY SMTT(30), Z3T(30) DEF Init, TypeOK, Consistent
<1>2. IsFiniteSet(accessed) /\ Cardinality(accessed) = 0
  BY FS_EmptySet, SMTT(30), Z3T(30) DEF Init
<1>3. accessed = {pages_seen[i] : i \in 1 .. distinct_pages}
  BY SMTT(30), Z3T(30) DEF Init
<1>. QED BY <1>1, <1>2, <1>3, SMTT(30), Z3T(30) DEF Init, Inv

LEMMA NextInv == Inv /\ [Next]_vars => Inv'
<1> SUFFICES ASSUME Inv, [Next]_vars PROVE Inv'
  BY SMTT(30), Z3T(30)
<1>1. CASE UNCHANGED vars
  BY <1>1, SMTT(30), Z3T(30) DEF vars, Inv, TypeOK, Consistent
<1>2. CASE Next
  <2>1. PICK b \in Block : RecordPage(b)
    BY <1>2, SMTT(30), Z3T(30) DEF Next
  <2>2. PICK found \in Found(b) :
          /\ distinct_pages' = IF found THEN distinct_pages ELSE distinct_pages + 1
          /\ pages_seen' = IF found THEN pages_seen ELSE Store(b)
    BY <2>1, SMTT(30), Z3T(30) DEF RecordPage
  <2>3. /\ index_loads' = index_loads + 1
        /\ page_runs' = IF NewRun(b) THEN page_runs + 1 ELSE page_runs
        /\ last_page' = b
        /\ accessed' = accessed \cup {b}
    BY <2>1, SMTT(30), Z3T(30) DEF RecordPage
  <2>4. found \in BOOLEAN /\ (Stored(b) => found)
        /\ (~Stored(b) /\ distinct_pages <= Capacity => ~found)
    <3>1. distinct_pages <= Capacity => ~(distinct_pages > Capacity)
      BY SMTT(30), Z3T(30) DEF Inv, TypeOK
    <3>2. found \in IF Stored(b) THEN {TRUE}
                    ELSE IF distinct_pages > Capacity THEN BOOLEAN ELSE {FALSE}
      BY Zenon DEF Found
    <3>. QED BY <3>1, <3>2, Zenon
  <2>5. TypeOK'
    <3>1. Store(b) \in [1 .. Capacity -> Block \cup {NoBlock}]
      BY SMTT(30), Z3T(30) DEF Store, Inv, TypeOK
    <3>. QED BY <2>2, <2>3, <2>4, <3>1, SMTT(30), Z3T(30) DEF Inv, TypeOK
  <2>6. /\ IsFiniteSet(accessed')
        /\ Cardinality(accessed') =
             IF b \in accessed THEN Cardinality(accessed) ELSE Cardinality(accessed) + 1
        /\ Cardinality(accessed) \in Nat
    BY <2>3, FS_AddElement, FS_CardinalityType, SMTT(30), Z3T(30) DEF Inv
  <2>7. distinct_pages <= Capacity => (Stored(b) <=> b \in accessed)
    BY SMTT(30), Z3T(30) DEF Stored, Inv, TypeOK
  <2>8. distinct_pages' <= Capacity =>
          /\ distinct_pages' = Cardinality(accessed')
          /\ accessed' = {pages_seen'[i] : i \in 1 .. distinct_pages'}
    <3>1. CASE found
      <4>1. ASSUME distinct_pages <= Capacity PROVE b \in accessed
        BY <3>1, <4>1, <2>4, <2>7, Zenon
      <4>. QED BY <3>1, <4>1, <2>2, <2>3, <2>6, SMTT(30), Z3T(30) DEF Inv
    <3>2. CASE ~found
      <4> SUFFICES ASSUME distinct_pages < Capacity
                   PROVE  /\ distinct_pages' = Cardinality(accessed')
                          /\ accessed' = {pages_seen'[i] : i \in 1 .. distinct_pages'}
        BY <3>2, <2>2, SMTT(30), Z3T(30) DEF Inv, TypeOK
      <4>1. distinct_pages' = distinct_pages + 1 /\ b \notin accessed
        BY <3>2, <2>2, <2>4, <2>7, SMTT(30), Z3T(30) DEF Inv, TypeOK
      <4>2. pages_seen' = [pages_seen EXCEPT ![distinct_pages + 1] = b]
        BY <3>2, <2>2, SMTT(30), Z3T(30) DEF Store
      <4>3. accessed = {pages_seen[i] : i \in 1 .. distinct_pages}
            /\ distinct_pages = Cardinality(accessed)
        BY SMTT(30), Z3T(30) DEF Inv, TypeOK
      <4>4. accessed \cup {b} = {pages_seen'[i] : i \in 1 .. (distinct_pages + 1)}
        <5>1. /\ pages_seen'[distinct_pages + 1] = b
              /\ \A i \in 1 .. distinct_pages : pages_seen'[i] = pages_seen[i]
              /\ distinct_pages \in Nat
          BY <4>2, SMTT(30), Z3T(30) DEF Inv, TypeOK
        <5>2. 1 .. (distinct_pages + 1) = (1 .. distinct_pages) \cup {distinct_pages + 1}
          BY <5>1, SMTT(30), Z3T(30)
        <5>3. accessed \cup {b} \subseteq {pages_seen'[i] : i \in 1 .. (distinct_pages + 1)}
          BY <5>1, <5>2, <4>3, Zenon
        <5>4. ASSUME NEW i \in 1 .. (distinct_pages + 1)
              PROVE  pages_seen'[i] \in accessed \cup {b}
          BY <5>1, <5>2, <4>3, Zenon
        <5>. QED BY <5>3, <5>4, Zenon
      <4>. QED BY <4>1, <4>3, <4>4, <2>3, <2>6, Zenon
    <3>. QED BY <3>1, <3>2, <2>4, SMTT(30), Z3T(30)
  <2>9. distinct_pages' > Capacity => Cardinality(accessed') > Capacity
    <3>1. CASE distinct_pages > Capacity
      BY <3>1, <2>6, SMTT(30), Z3T(30) DEF Inv
    <3>2. CASE distinct_pages <= Capacity
      <4>1. CASE found
        BY <3>2, <4>1, <2>2, SMTT(30), Z3T(30) DEF Inv, TypeOK
      <4>2. CASE ~found
        <5>1. b \notin accessed /\ distinct_pages = Cardinality(accessed)
          BY <3>2, <4>2, <2>4, <2>7, Zenon DEF Inv
        <5>. QED BY <3>2, <4>2, <5>1, <2>2, <2>6, Zenon
      <4>. QED BY <4>1, <4>2, <2>4, SMTT(30), Z3T(30)
    <3>. QED BY <3>1, <3>2, SMTT(30), Z3T(30) DEF Inv, TypeOK
  <2>10. Consistent'
    <3>1. ASSUME distinct_pages <= Capacity, ~found PROVE NewRun(b)
      <4>1. b \notin accessed
        BY <3>1, <2>4, <2>7, Zenon
      <4>2. index_loads = 0 \/ last_page \in accessed
        BY SMTT(30), Z3T(30) DEF Inv, TypeOK
      <4>. QED BY <4>1, <4>2, SMTT(30), Z3T(30) DEF NewRun
    <3>. QED BY <3>1, <2>2, <2>3, <2>4, SMTT(30), Z3T(30) DEF Consistent, Inv, TypeOK, NewRun
  <2>11. index_loads' > 0 => last_page' \in accessed'
    BY <2>3, SMTT(30), Z3T(30)
  <2>. QED BY <2>5, <2>6, <2>8, <2>9, <2>10, <2>11, SMTT(30), Z3T(30) DEF Inv
<1>. QED BY <1>1, <1>2, SMTT(30), Z3T(30)

\* HnswTraceRecordElementPage and HnswTraceRecordNeighborPage, whatever the capacity: up to
\* it index_*_distinct_pages is exact.
THEOREM TraceDistinct == Spec => []DistinctExact
<1>1. Inv => DistinctExact
  BY FS_CardinalityType, SMTT(30), Z3T(30) DEF Inv, TypeOK, DistinctExact
<1>. QED BY <1>1, InitInv, NextInv, PTL DEF Spec

\* The numbers of accesses, runs and distinct pages of a trace line fit together.
THEOREM TraceConsistent == Spec => []Consistent
<1>1. Inv => Consistent
  BY SMTT(30), Z3T(30) DEF Inv
<1>. QED BY <1>1, InitInv, NextInv, PTL DEF Spec

=============================================================================
