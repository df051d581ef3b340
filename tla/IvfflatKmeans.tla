--------------------------- MODULE IvfflatKmeans ---------------------------
(***************************************************************************)
(* The k-means of an ivfflat build: kmeans++ to begin with, then Elkan's   *)
(* algorithm, which keeps a lower bound of the distance of each sample to  *)
(* each center and an upper bound of the distance to its own, and computes *)
(* a distance only when the bounds and the triangle inequality leave the   *)
(* closest center open.                                                    *)
(*                                                                         *)
(* Vectors are integers with the absolute difference as distance (the L2   *)
(* distance in one dimension, so that no center is normalised).  Means are *)
(* exact: the samples are multiples of all numbers of samples.  The code   *)
(* keeps half of the distance of two centers; here the other side of a     *)
(* comparison is doubled.  Rounding of floats is left out.                 *)
(***************************************************************************)
EXTENDS Integers, Sequences, FiniteSetsExt

CONSTANTS
  SampleSets,     \* the samples of a build, each a sequence of vectors
  NumCenters,     \* the lists of the index
  RandomVectors,  \* vectors made of random numbers
  MaxIterations   \* 500 in the code

Center == 1 .. NumCenters

ASSUME KmeansAssumption ==
  /\ NumCenters \in Nat \ {0} /\ MaxIterations \in Nat
  /\ RandomVectors \subseteq Int /\ RandomVectors # {}
  /\ SampleSets \subseteq Seq(Int)
  /\ \A x \in SampleSets : \A i \in DOMAIN x, n \in 1 .. Len(x) : x[i] % n = 0

VARIABLES
  samples, centers, closestCenters, lowerBound, upperBound,
  iteration, changes, rj,
  pc, sample, center,   \* where the loops are
  weight,               \* of the samples, while the initial centers are picked
  inertia               \* history: the sum of the squared distances after the last assignment

vars == <<samples, centers, closestCenters, lowerBound, upperBound, iteration, changes, rj,
          pc, sample, center, weight, inertia>>

Sample == DOMAIN samples
Infinity == 1000   \* FLT_MAX, above all distances

Distance(x, y) == IF x >= y THEN x - y ELSE y - x
SampleDistance(j, k) == Distance(samples[j], centers[k])
CenterDistance(k, l) == Distance(centers[k], centers[l])

\* s(c): half of this is the distance within which a sample of center k is closest to it
ClosestOther(k) == Min({Infinity} \cup {CenterDistance(k, l) : l \in Center \ {k}})

\* What a loop over n samples that adds up f ends with
Total(f, n) == LET sum[j \in 0 .. n] == IF j = 0 THEN 0 ELSE sum[j - 1] + f[j] IN sum[n]

Cost(j) == SampleDistance(j, closestCenters[j]) * SampleDistance(j, closestCenters[j])
Inertia == Total([j \in Sample |-> Cost(j)], Len(samples))

Init ==
  /\ samples \in SampleSets
  /\ centers = [k \in Center |-> 0]
  /\ closestCenters = [j \in Sample |-> 1]
  /\ lowerBound = [j \in Sample |-> [k \in Center |-> 0]]
  /\ upperBound = [j \in Sample |-> 0]
  /\ weight = [j \in Sample |-> Infinity * Infinity]
  /\ iteration = 0 /\ changes = 0 /\ rj = FALSE /\ sample = 1 /\ center = 1
  /\ inertia = Infinity * Infinity
  /\ pc = IF samples = <<>> THEN "random" ELSE "first"

-----------------------------------------------------------------------------
\* RandomCenters: there is no data
RandomCenters ==
  /\ pc = "random"
  /\ centers' \in [Center -> RandomVectors]
  /\ pc' = "done"
  /\ UNCHANGED <<samples, closestCenters, lowerBound, upperBound, iteration, changes, rj, sample,
                 center, weight, inertia>>

\* InitCenters: the first center is any sample
FirstCenter ==
  /\ pc = "first"
  /\ \E j \in Sample : centers' = [centers EXCEPT ![1] = samples[j]]
  /\ pc' = "init" /\ center' = 1
  /\ UNCHANGED <<samples, closestCenters, lowerBound, upperBound, iteration, changes, rj, sample,
                 weight, inertia>>

\* The distances to the newest center are computed, and the next center is picked with a
\* probability that grows with the distance to the closest center so far.  A sample of
\* weight zero is picked only if it is the first, and the random number is zero, or the last
InitCenters ==
  /\ pc = "init"
  /\ lowerBound' = [j \in Sample |-> [lowerBound[j] EXCEPT ![center] = SampleDistance(j, center)]]
  /\ weight' = [j \in Sample |->
                  Min({weight[j], SampleDistance(j, center) * SampleDistance(j, center)})]
  /\ IF center = NumCenters
     THEN pc' = "assign" /\ UNCHANGED <<centers, center>>
     ELSE /\ \E j \in Sample :
               /\ weight'[j] > 0 \/ j \in {1, Len(samples)}
               /\ centers' = [centers EXCEPT ![center + 1] = samples[j]]
          /\ center' = center + 1 /\ UNCHANGED pc
  /\ UNCHANGED <<samples, closestCenters, upperBound, iteration, changes, rj, sample, inertia>>

\* Every sample is assigned to its closest initial center, the first of several
Assign ==
  /\ pc = "assign"
  /\ closestCenters' = [j \in Sample |->
       Min({k \in Center : \A l \in Center : lowerBound[j][k] <= lowerBound[j][l]})]
  /\ upperBound' = [j \in Sample |-> Min({lowerBound[j][k] : k \in Center})]
  /\ pc' = "sample" /\ sample' = 1
  /\ UNCHANGED <<samples, centers, lowerBound, iteration, changes, rj, center, weight, inertia>>

\* Mutant: the upper bound of a sample is never brought up to date
RjNever == FALSE

\* Whether the upper bound of a sample is out of date: the centers have moved
RjReset == iteration # 0

\* Step 2: the next sample, unless the upper bound shows that its center has not changed
NextSample ==
  /\ pc = "sample" /\ sample \in Sample
  /\ IF 2 * upperBound[sample] <= ClosestOther(closestCenters[sample])
     THEN sample' = sample + 1 /\ UNCHANGED <<pc, center, rj>>
     ELSE pc' = "center" /\ center' = 1 /\ rj' = RjReset /\ UNCHANGED sample
  /\ UNCHANGED <<samples, centers, closestCenters, lowerBound, upperBound, iteration, changes,
                 weight, inertia>>

\* Step 3: center k cannot be closer than the center of sample j
Excluded(j, k) ==
  \/ k = closestCenters[j]
  \/ upperBound[j] <= lowerBound[j][k]
  \/ 2 * upperBound[j] <= CenterDistance(closestCenters[j], k)

\* Steps 3a and 3b for one center: the distance to the sample's own center is computed once,
\* and the distance to this one if the bounds are still in doubt
CompareCenter ==
  LET j == sample
      own == closestCenters[j]
      dxcx == IF rj THEN SampleDistance(j, own) ELSE upperBound[j]
      known == IF rj THEN [lowerBound[j] EXCEPT ![own] = dxcx] ELSE lowerBound[j]
      dxc == SampleDistance(j, center)
  IN
  /\ pc = "center" /\ center \in Center
  /\ center' = center + 1
  /\ IF Excluded(j, center)
     THEN UNCHANGED <<closestCenters, lowerBound, upperBound, changes, rj>>
     ELSE /\ rj' = FALSE
          /\ IF dxcx > known[center] \/ 2 * dxcx > CenterDistance(own, center)
             THEN /\ lowerBound' = [lowerBound EXCEPT ![j] = [known EXCEPT ![center] = dxc]]
                  /\ IF dxc < dxcx
                     THEN /\ closestCenters' = [closestCenters EXCEPT ![j] = center]
                          /\ upperBound' = [upperBound EXCEPT ![j] = dxc]
                          /\ changes' = changes + 1
                     ELSE /\ upperBound' = [upperBound EXCEPT ![j] = dxcx]
                          /\ UNCHANGED <<closestCenters, changes>>
             ELSE /\ lowerBound' = [lowerBound EXCEPT ![j] = known]
                  /\ upperBound' = [upperBound EXCEPT ![j] = dxcx]
                  /\ UNCHANGED <<closestCenters, changes>>
  /\ UNCHANGED <<samples, centers, iteration, pc, sample, weight, inertia>>

SampleDone ==
  /\ pc = "center" /\ center \notin Center
  /\ pc' = "sample" /\ sample' = sample + 1
  /\ UNCHANGED <<samples, centers, closestCenters, lowerBound, upperBound, iteration, changes, rj,
                 center, weight, inertia>>

\* Mutant: the sum is divided by the number of all samples
CountAll(k) == Len(samples)

\* The number of samples of a center
Count(k) == Total([j \in Sample |-> IF closestCenters[j] = k THEN 1 ELSE 0], Len(samples))

\* SumCenters, for one center
SumCenter(k) ==
  Total([j \in Sample |-> IF closestCenters[j] = k THEN samples[j] ELSE 0], Len(samples))

\* ComputeNewCenters: the mean of the samples of a center, random if it has none
NewCenters ==
  {[k \in Center |-> IF Count(k) > 0 THEN SumCenter(k) \div Count(k) ELSE r[k]] :
     r \in [Center -> RandomVectors]}

\* Mutant: the lower bound is not lowered
LoweredNot(bound, moved) == bound

\* Step 5: the lower bound for a center that has moved
Lowered(bound, moved) == Max({0, bound - moved})

\* Mutant: the changes of all iterations are counted
ChangesKept == changes

\* The number of changes an iteration begins with
ChangesReset == 0

\* Steps 4 to 7: the centers move to the means, and the bounds by as much as the centers; the
\* loop ends when no sample has changed its center, but not in the first iteration
MoveCenters ==
  /\ pc = "sample" /\ sample \notin Sample
  /\ \E new \in NewCenters :
       LET newcdist == [k \in Center |-> Distance(centers[k], new[k])] IN
       /\ centers' = new
       /\ lowerBound' = [j \in Sample |-> [k \in Center |-> Lowered(lowerBound[j][k], newcdist[k])]]
       /\ upperBound' = [j \in Sample |-> upperBound[j] + newcdist[closestCenters[j]]]
  /\ IF (changes = 0 /\ iteration # 0) \/ iteration + 1 = MaxIterations
     THEN pc' = "done" /\ UNCHANGED <<iteration, sample, changes>>
     ELSE pc' = "sample" /\ iteration' = iteration + 1 /\ sample' = 1
          /\ changes' = ChangesReset
  /\ inertia' = Inertia
  /\ UNCHANGED <<samples, closestCenters, rj, center, weight>>

Done == pc = "done" /\ UNCHANGED vars

Next ==
  \/ RandomCenters \/ FirstCenter \/ InitCenters \/ Assign
  \/ NextSample \/ CompareCenter \/ SampleDone \/ MoveCenters \/ Done

Spec == Init /\ [][Next]_vars

-----------------------------------------------------------------------------
TypeOK ==
  /\ centers \in [Center -> Int] /\ closestCenters \in [Sample -> Center]
  /\ lowerBound \in [Sample -> [Center -> Nat]] /\ upperBound \in [Sample -> Nat]
  /\ iteration \in 0 .. MaxIterations /\ changes \in Nat /\ rj \in BOOLEAN
  /\ pc \in {"random", "first", "init", "assign", "sample", "center", "done"}

\* After the samples have been assigned for the first time
Iterating == pc \in {"sample", "center"}

\* The lower bound of a sample and a center is never above their distance, and the upper bound
\* of a sample is never below the distance to its own center: through the moves of the
\* centers, random ones for centers without samples among them, and in the middle of a pass.
BoundsHold ==
  Iterating =>
    /\ \A j \in Sample, k \in Center : lowerBound[j][k] <= SampleDistance(j, k)
    /\ \A j \in Sample : SampleDistance(j, closestCenters[j]) <= upperBound[j]

\* When a pass over the samples is over, every sample is assigned to a center that no other one
\* is closer than, as if all distances had been computed.
ClosestAssigned ==
  pc = "sample" =>
    \A j \in Sample : j < sample =>
      \A k \in Center : SampleDistance(j, closestCenters[j]) <= SampleDistance(j, k)

\* The sum of the squared distances of the samples to their centers is at no point of an
\* iteration above what it was at the end of the one before: neither the means nor the centers
\* drawn at random nor an assignment makes it grow.
InertiaFalls ==
  Iterating /\ iteration # 0 => Inertia <= inertia

\* The iterations stop by themselves (the code: "Give 500 iterations to converge"), in spite of
\* ties and of centers that are drawn at random again and again.
Converges == pc = "done" /\ samples # <<>> => iteration + 1 < MaxIterations
============================================================================
