------------------------- MODULE IvfflatIndexProofs -------------------------
(***************************************************************************)
(* ivfflatinsert and ivfflatbulkdelete for every number of backends, lists,*)
(* pages and rows.  The inductive invariant IInv of IvfflatIndex says how  *)
(* the pages of a list are chained, where an insert may have come on its   *)
(* chain, and which pages the vacuum has cleaned.  The built index has it, *)
(* every step keeps it, and it gives ListsDisjoint, OneEntry, NothingLost, *)
(* VacuumComplete and the refinement of IndexAM.                           *)
(***************************************************************************)
EXTENDS IvfflatIndexAM, WellFoundedInduction, TLAPS

LEMMA LeastNat ==
  ASSUME NEW T, T \subseteq Nat, T # {}
  PROVE  \E n \in T : \A m \in T : n <= m
<1>1. \E n \in T : \A m \in T : ~(<<m, n>> \in OpToRel(<, Nat))
  BY WFMin, NatLessThanWellFounded, Zenon
<1>2. PICK n \in T : \A m \in T : ~(<<m, n>> \in OpToRel(<, Nat))
  BY <1>1, Zenon
<1>3. ASSUME NEW m \in T, m < n PROVE FALSE
  <2>1. <<m, n>> \in Nat \X Nat
    BY SMTT(30), Z3T(30)
  <2>2. <<m, n>> \in OpToRel(<, Nat)
    BY <2>1, <1>3, SMTT(30), Z3T(30) DEF OpToRel
  <2> QED
    BY <2>2, <1>2, Zenon
<1>4. \A m \in T : n <= m
  BY <1>3, SMTT(30), Z3T(30)
<1> QED
  BY <1>4, Zenon

LEMMA ClosestListType == \A v \in Vec : ClosestList[v] \in List
<1> SUFFICES ASSUME NEW v \in Vec PROVE ClosestList[v] \in List
  BY SMTT(30), Z3T(30)
<1> DEFINE Dist(l) == Distance(v, Centers[l])
           D == {Dist(l) : l \in List}
<1>1. Len(Centers) \in Nat \ {0} /\ \A l \in List : Centers[l] \in Int
  BY IvfflatAssumption, SMTT(30), Z3T(30) DEF List
<1>2. \A l \in List : Dist(l) \in Nat
  BY <1>1, IvfflatAssumption, SMTT(30), Z3T(30) DEF Distance
<1>3. D \subseteq Nat /\ D # {}
  <2>1. 1 \in List
    BY <1>1, SMTT(30), Z3T(30) DEF List
  <2> QED
    BY <2>1, <1>2, SMTT(30), Z3T(30)
<1> HIDE DEF Dist
<1>4. PICK d \in D : \A e \in D : d <= e
  BY <1>3, LeastNat, Zenon
<1> DEFINE L == {l \in List : Dist(l) = d}
<1>5. L \subseteq Nat /\ L # {}
  BY SMTT(30), Z3T(30) DEF List
<1>6. PICK l \in L : \A k \in L : l <= k
  <2> HIDE DEF L
  <2> QED
    BY <1>5, LeastNat, Zenon
<1>7. /\ l \in List
      /\ \A k \in List : Dist(l) <= Dist(k)
      /\ \A k \in 1 .. l - 1 : Dist(l) < Dist(k)
  <2>1. l \in List /\ Dist(l) = d
    BY SMTT(30), Z3T(30)
  <2>2. \A k \in List : d <= Dist(k)
    BY <1>4, SMTT(30), Z3T(30)
  <2>3. ASSUME NEW k \in 1 .. l - 1 PROVE d < Dist(k)
    <3>1. k \in List /\ k < l
      BY <2>1, <1>1, SMTT(30), Z3T(30) DEF List
    <3>2. Dist(k) # d
      BY <3>1, <1>6, <2>1, SMTT(30), Z3T(30) DEF List
    <3> QED
      BY <3>1, <3>2, <2>2, <1>2, <1>3, SMTT(30), Z3T(30)
  <2> QED
    BY <2>1, <2>2, <2>3, SMTT(30), Z3T(30)
<1> QED
  BY <1>7, Zenon DEF ClosestList, Dist

-----------------------------------------------------------------------------
\* Rows: an insert under way has a row of its own, and a vacuum takes dead rows
RowInv ==
  /\ \A p \in Inserters : pc[p] # "idle" => tid[p] \in Tid /\ heap[tid[p]] = "inserting"
  /\ \A p, q \in Inserters : p # q /\ pc[p] # "idle" /\ pc[q] # "idle" => tid[p] # tid[q]
  /\ \A t \in deadTids : heap[t] = "dead"
  /\ vpc = "idle" => deadTids = {}

\* Entries: OneEntry, and only vectors that are indexable
EntryInv == OneEntry /\ \A b \in Page : \A e \in items[b] : Indexable(e.vec)

\* The TID of an insert is in the index as soon as it was put on a page, and stays there
HeldInv ==
  /\ \A p \in Inserters : pc[p] \in {"find", "page", "newpage"} => tid[p] \notin Indexed
  /\ \A p \in Inserters :
       pc[p] \in {"update", "done"} /\ Indexable(vec[tid[p]]) => tid[p] \in Indexed
  /\ \A t \in Tid : heap[t] = "live" /\ Indexable(vec[t]) => t \in Indexed

\* Chains: the next page of a page is the next one of the same list in the order of the
\* blocks, and a page without one is the last of its list
ChainInv ==
  /\ \A b \in 1 .. npages : nextblkno[b] # Invalid =>
       /\ b < nextblkno[b] /\ nextblkno[b] <= npages /\ owner[nextblkno[b]] = owner[b]
       /\ \A c \in 1 .. npages : b < c /\ c < nextblkno[b] => owner[c] # owner[b]
  /\ \A b, c \in 1 .. npages : nextblkno[b] = Invalid /\ owner[c] = owner[b] => c <= b
  /\ \A b \in Page : b > npages => nextblkno[b] = Invalid

\* Lists: the start page is the first page of a list, the insert page one of its pages
ListInv ==
  \A l \in List :
    /\ startPage[l] <= npages /\ owner[startPage[l]] = l
    /\ \A c \in 1 .. npages : owner[c] = l => startPage[l] <= c
    /\ insertPage[l] <= npages /\ owner[insertPage[l]] = l

\* An insert is on a page of its own list
InsertInv ==
  \A p \in Inserters : pc[p] \in {"page", "newpage", "update"} =>
    page[p] \in 1 .. npages /\ owner[page[p]] = ListOf(p) /\ Indexable(vec[tid[p]])

\* A vacuum has left no dead entry in the lists before vlist, and none in vlist before
\* searchPage
VacuumInv ==
  /\ vpc = "pages" =>
       /\ searchPage # Invalid => searchPage <= npages /\ owner[searchPage] = vlist
       /\ vinsertPage # Invalid => vinsertPage <= npages /\ owner[vinsertPage] = vlist
       /\ \A b \in 1 .. npages :
            owner[b] < vlist \/ (owner[b] = vlist /\ (searchPage = Invalid \/ b < searchPage)) =>
              \A e \in items[b] : e.tid \notin deadTids
  /\ vpc = "heap" => \A b \in Page : \A e \in items[b] : e.tid \notin deadTids

IInv ==
  TypeOK /\ RowInv /\ EntryInv /\ HeldInv /\ ChainInv /\ ListInv /\ InsertInv /\ VacuumInv
-----------------------------------------------------------------------------
(* What the steps have in common *)

LEMMA IndexedIff == \A t : t \in Indexed <=> \E b \in Page : \E e \in items[b] : e.tid = t
  BY Zenon DEF Indexed

LEMMA IndexedIffNext ==
  \A t : t \in Indexed' <=> \E b \in Page : \E e \in items'[b] : e.tid = t
  BY Zenon DEF Indexed

LEMMA Numbers ==
  /\ Len(Centers) \in Nat \ {0} /\ List = 1 .. Len(Centers)
  /\ MaxPages \in Nat /\ Page = 1 .. MaxPages /\ Invalid = 0
  BY IvfflatAssumption, SMTT(30), Z3T(30) DEF List, Page, Invalid

\* The row of an insert under way, and its list
LEMMA InsertRow ==
  ASSUME IInv, NEW p \in Inserters, pc[p] # "idle"
  PROVE  /\ tid[p] \in Tid /\ heap[tid[p]] = "inserting" /\ vec[tid[p]] \in Vec
         /\ ListOf(p) \in List /\ tid[p] \notin deadTids
<1>1. tid[p] \in Tid /\ heap[tid[p]] = "inserting"
  BY Zenon DEF IInv, RowInv
<1>2. vec[tid[p]] \in Vec
  BY <1>1, SMTT(30), Z3T(30) DEF IInv, TypeOK, HeapType
<1>3. \A t \in deadTids : heap[t] = "dead"
  BY Zenon DEF IInv, RowInv
<1>. QED BY <1>1, <1>2, <1>3, ClosestListType, Zenon DEF ListOf

\* An entry is of a row in use, with a vector of it
LEMMA EntryRow ==
  ASSUME IInv, NEW b \in Page, NEW e \in items[b]
  PROVE  /\ e \in Entry /\ e.tid \in Tid /\ e.vec \in Vec /\ b \in 1 .. npages
         /\ heap[e.tid] # "unused" /\ e.vec = vec[e.tid] /\ owner[b] = ClosestList[e.vec]
<1>1. e \in Entry
  BY SMTT(30), Z3T(30) DEF IInv, TypeOK, PageType
<1>2. b <= npages /\ heap[e.tid] # "unused" /\ e.vec = vec[e.tid] /\ owner[b] = ClosestList[e.vec]
  BY Zenon DEF IInv, EntryInv, OneEntry
<1>. QED BY <1>1, <1>2, Numbers, SMTT(30), Z3T(30) DEF Entry, IInv, TypeOK, PageType

\* The pages of the index are pages
LEMMA PagesInUse ==
  ASSUME IInv PROVE 1 .. npages \subseteq Page
<1>1. npages \in 0 .. MaxPages
  BY Zenon DEF IInv, TypeOK, PageType
<1>. QED BY <1>1, Numbers, SMTT(30), Z3T(30)

\* A row that is not in use has no entry
LEMMA UnusedRow ==
  ASSUME IInv, NEW t, heap[t] = "unused" PROVE t \notin Indexed
<1> SUFFICES ASSUME t \in Indexed PROVE FALSE
  BY SMTT(30), Z3T(30)
<1>1. PICK b \in Page : \E e \in items[b] : e.tid = t
  BY IndexedIff, Zenon
<1>2. PICK e \in items[b] : e.tid = t
  BY <1>1, Zenon
<1>3. heap[e.tid] # "unused"
  BY EntryRow, Zenon
<1>. QED BY <1>2, <1>3, Zenon

\* A step that adds no entry and leaves the rows of the entries in use keeps EntryInv
LEMMA EntriesKept ==
  ASSUME EntryInv, UNCHANGED <<npages, owner>>,
         \A b \in Page : items'[b] \subseteq items[b],
         \A b \in Page : \A e \in items'[b] :
           heap'[e.tid] # "unused" /\ vec'[e.tid] = vec[e.tid]
  PROVE  EntryInv'
<1>1. ASSUME NEW b \in Page, NEW e \in items'[b]
      PROVE  /\ b <= npages' /\ owner'[b] = ClosestList[e.vec]
             /\ heap'[e.tid] # "unused" /\ e.vec = vec'[e.tid] /\ Indexable(e.vec)
  <2>1. e \in items[b]
    BY SMTT(30), Z3T(30)
  <2>2. b <= npages /\ owner[b] = ClosestList[e.vec] /\ e.vec = vec[e.tid] /\ Indexable(e.vec)
    BY <2>1, ZenonT(30) DEF EntryInv, OneEntry
  <2>. QED BY <2>2, Zenon
<1>2. ASSUME NEW b \in Page, NEW c \in Page, NEW e \in items'[b], NEW f \in items'[c],
             e.tid = f.tid
      PROVE  b = c
  <2>1. e \in items[b] /\ f \in items[c]
    BY SMTT(30), Z3T(30)
  <2>. QED BY <1>2, <2>1, Zenon DEF EntryInv, OneEntry
<1>. QED BY <1>1, <1>2, ZenonT(30) DEF EntryInv, OneEntry, Indexable

\* A step that leaves the chains and the lists alone
LEMMA ChainKept ==
  ASSUME ChainInv, UNCHANGED <<nextblkno, npages, owner>> PROVE ChainInv'
  BY SMTT(30), Z3T(30) DEF ChainInv

LEMMA ListsKept ==
  ASSUME ListInv, UNCHANGED <<npages, owner, startPage, insertPage>> PROVE ListInv'
  BY SMTT(30), Z3T(30) DEF ListInv

\* A step that leaves the pages and the lists alone keeps what is said of them
LEMMA PagesKept ==
  ASSUME IInv, UNCHANGED <<items, nextblkno, npages, owner, startPage, insertPage>>
  PROVE  PageType' /\ ListType' /\ ChainInv' /\ ListInv' /\ Indexed' = Indexed
<1>1. PageType' /\ ListType' /\ Indexed' = Indexed
  BY Zenon DEF IInv, TypeOK, PageType, ListType, Indexed
<1>2. ChainInv' /\ ListInv'
  BY ChainKept, ListsKept, SMTT(30), Z3T(30) DEF IInv
<1>. QED BY <1>1, <1>2, SMTT(30), Z3T(30)

\* A step of an insert leaves the vacuum alone
LEMMA VacuumKept ==
  ASSUME IInv, UNCHANGED <<vpc, vlist, searchPage, vinsertPage, deadTids, vacuums>>
  PROVE  /\ VacuumType'
         /\ UNCHANGED <<items, npages, owner>> => VacuumInv'
<1>1. VacuumType'
  BY Zenon DEF IInv, TypeOK, VacuumType
<1>2. UNCHANGED <<items, npages, owner>> => VacuumInv'
  BY Zenon DEF IInv, VacuumInv
<1>. QED BY <1>1, <1>2, SMTT(30), Z3T(30)

-----------------------------------------------------------------------------
(* Inserts *)

LEMMA HeapInsertStep ==
  ASSUME IInv, NEW p \in Inserters, NEW t \in Tid, NEW v \in Vec, HeapInsert(p, t, v)
  PROVE  IInv'
<1>1. /\ pc[p] = "idle" /\ heap[t] = "unused"
      /\ heap' = [heap EXCEPT ![t] = "inserting"] /\ vec' = [vec EXCEPT ![t] = v]
      /\ tid' = [tid EXCEPT ![p] = t] /\ pc' = [pc EXCEPT ![p] = "find"]
      /\ UNCHANGED <<items, nextblkno, npages, owner, startPage, insertPage>>
      /\ UNCHANGED <<vpc, vlist, searchPage, vinsertPage, deadTids, vacuums>>
      /\ UNCHANGED <<page, originalInsertPage, crashes>>
  BY Zenon DEF HeapInsert, Go, pageVars, listVars, vacVars
<1>2. PageType' /\ ListType' /\ ChainInv' /\ ListInv' /\ Indexed' = Indexed
  BY <1>1, PagesKept, ZenonT(30)
<1>3. VacuumType' /\ VacuumInv'
  BY <1>1, VacuumKept, ZenonT(30)
<1>4. HeapType' /\ InsertType' /\ crashes' \in 0 .. MaxCrashes
  BY <1>1, ZenonT(30) DEF IInv, TypeOK, HeapType, InsertType
<1>5. /\ heap'[t] = "inserting" /\ \A u \in Tid \ {t} : heap'[u] = heap[u] /\ vec'[u] = vec[u]
      /\ pc'[p] = "find" /\ tid'[p] = t
      /\ \A q \in Inserters \ {p} : pc'[q] = pc[q] /\ tid'[q] = tid[q]
  BY <1>1, SMTT(30), Z3T(30) DEF IInv, TypeOK, HeapType, InsertType
<1>6. t \notin Indexed
  BY <1>1, UnusedRow, ZenonT(30)
<1>7. \A q \in Inserters \ {p} : pc[q] # "idle" => tid[q] \in Tid \ {t}
  BY <1>1, InsertRow, ZenonT(30)
<1>8. RowInv'
  <2>1. \A u \in deadTids : u \in Tid \ {t} /\ heap[u] = "dead"
    BY <1>1, Zenon DEF IInv, RowInv, TypeOK, VacuumType
  <2>. QED BY <1>1, <1>5, <1>7, <2>1, SMTT(30), Z3T(30) DEF IInv, RowInv
<1>9. EntryInv'
  <2>1. \A b \in Page : \A e \in items[b] : e.tid \in Tid \ {t} /\ heap[e.tid] # "unused"
    BY <1>1, EntryRow, SMTT(30), Z3T(30)
  <2>2. EntryInv
    BY Zenon DEF IInv
  <2>. QED BY <1>1, <1>5, <2>1, <2>2, EntriesKept, SMTT(30), Z3T(30)
<1>10. HeldInv'
  BY <1>2, <1>5, <1>6, <1>7, SMTT(30), Z3T(30) DEF IInv, HeldInv, Indexable
<1>11. InsertInv'
  BY <1>1, <1>5, <1>7, SMTT(30), Z3T(30) DEF IInv, InsertInv, ListOf, Indexable
<1>. QED BY <1>2, <1>3, <1>4, <1>8, <1>9, <1>10, <1>11, ZenonT(30) DEF IInv, TypeOK

\* A step of an insert that leaves the pages and the heap alone
LEMMA MoveStep ==
  ASSUME IInv, NEW p \in Inserters, pc[p] # "idle", pc'[p] # "idle",
         UNCHANGED <<heap, vec, items, nextblkno, npages, owner, startPage, tid>>,
         UNCHANGED <<vpc, vlist, searchPage, vinsertPage, deadTids, vacuums>>,
         UNCHANGED crashes,
         \A q \in Inserters \ {p} : pc'[q] = pc[q],
         pc'[p] \in {"find", "page", "newpage"} => pc[p] \in {"find", "page", "newpage"},
         pc'[p] \in {"update", "done"} /\ Indexable(vec[tid[p]]) => pc[p] \in {"update", "done"},
         InsertType', InsertInv', ListType', ListInv'
  PROVE  IInv'
<1>1. Indexed' = Indexed
  BY Zenon DEF Indexed
<1>2. RowInv'
  BY SMTT(30), Z3T(30) DEF IInv, RowInv
<1>3. EntryInv' /\ HeapType' /\ PageType' /\ ChainInv'
  <2>1. HeapType' /\ PageType'
    BY Zenon DEF IInv, TypeOK, HeapType, PageType
  <2>2. EntryInv'
    BY ZenonT(30) DEF IInv, EntryInv, OneEntry, Indexable
  <2>3. ChainInv'
    BY ChainKept, SMTT(30), Z3T(30) DEF IInv
  <2>. QED BY <2>1, <2>2, <2>3, SMTT(30), Z3T(30)
<1>4. HeldInv'
  BY <1>1, SMTT(30), Z3T(30) DEF IInv, HeldInv, Indexable
<1>5. VacuumType' /\ VacuumInv'
  BY VacuumKept, SMTT(30), Z3T(30)
<1>. QED BY <1>2, <1>3, <1>4, <1>5, Zenon DEF IInv, TypeOK

LEMMA FindInsertPageStep ==
  ASSUME IInv, NEW p \in Inserters, FindInsertPage(p)
  PROVE  IInv'
<1>1. /\ pc[p] = "find"
      /\ UNCHANGED <<heap, vec, items, nextblkno, npages, owner, startPage, insertPage, tid>>
      /\ UNCHANGED <<vpc, vlist, searchPage, vinsertPage, deadTids, vacuums>>
      /\ UNCHANGED crashes
      /\ \/ /\ Indexable(vec[tid[p]]) /\ pc' = [pc EXCEPT ![p] = "page"]
            /\ page' = [page EXCEPT ![p] = insertPage[ListOf(p)]]
            /\ originalInsertPage' = [originalInsertPage EXCEPT ![p] = insertPage[ListOf(p)]]
         \/ /\ ~Indexable(vec[tid[p]]) /\ pc' = [pc EXCEPT ![p] = "done"]
            /\ UNCHANGED <<page, originalInsertPage>>
  BY Zenon DEF FindInsertPage, Go, heapVars, pageVars, listVars, vacVars
<1>2. ListOf(p) \in List
  BY <1>1, InsertRow, Zenon
<1>3. insertPage[ListOf(p)] \in 1 .. npages /\ owner[insertPage[ListOf(p)]] = ListOf(p)
  BY <1>2, Numbers, SMTT(30), Z3T(30) DEF IInv, TypeOK, ListType, PageType, ListInv
<1>4. InsertType'
  <2>1. insertPage[ListOf(p)] \in 0 .. MaxPages
    BY <1>3, Numbers, SMTT(30), Z3T(30) DEF IInv, TypeOK, PageType
  <2>. QED BY <1>1, <2>1, Zenon DEF IInv, TypeOK, InsertType
<1>5. /\ \A q \in Inserters \ {p} : pc'[q] = pc[q] /\ page'[q] = page[q]
      /\ \/ Indexable(vec[tid[p]]) /\ pc'[p] = "page" /\ page'[p] = insertPage[ListOf(p)]
         \/ ~Indexable(vec[tid[p]]) /\ pc'[p] = "done"
  BY <1>1, ZenonT(30) DEF IInv, TypeOK, InsertType
<1>6. InsertInv'
  BY <1>1, <1>3, <1>5, ZenonT(30) DEF IInv, InsertInv, ListOf, Indexable
<1>7. ListType' /\ ListInv'
  BY <1>1, PagesKept, Zenon
<1>. QED BY <1>1, <1>4, <1>5, <1>6, <1>7, MoveStep, Zenon

LEMMA MoveToNextPageStep ==
  ASSUME IInv, NEW p \in Inserters, MoveToNextPage(p)
  PROVE  IInv'
<1>1. /\ pc[p] = "page" /\ nextblkno[page[p]] # Invalid
      /\ UNCHANGED <<heap, vec, items, nextblkno, npages, owner, startPage, insertPage, tid>>
      /\ UNCHANGED <<vpc, vlist, searchPage, vinsertPage, deadTids, vacuums>>
      /\ UNCHANGED <<pc, originalInsertPage, crashes>>
      /\ page' = [page EXCEPT ![p] = nextblkno[page[p]]]
  BY Zenon DEF MoveToNextPage, heapVars, pageVars, listVars, vacVars
<1>2. page[p] \in 1 .. npages /\ owner[page[p]] = ListOf(p) /\ Indexable(vec[tid[p]])
  BY <1>1, Zenon DEF IInv, InsertInv
<1>3. nextblkno[page[p]] \in 1 .. npages /\ owner[nextblkno[page[p]]] = ListOf(p)
  <2>1. nextblkno[page[p]] \in 0 .. MaxPages
    BY <1>2, Numbers, SMTT(30), Z3T(30) DEF IInv, TypeOK, PageType
  <2>. QED BY <1>1, <1>2, <2>1, Numbers, SMTT(30), Z3T(30) DEF IInv, ChainInv
<1>4. InsertType'
  <2>1. nextblkno[page[p]] \in 0 .. MaxPages
    BY <1>3, Numbers, SMTT(30), Z3T(30) DEF IInv, TypeOK, PageType
  <2>. QED BY <1>1, <2>1, Zenon DEF IInv, TypeOK, InsertType
<1>5. page'[p] = nextblkno[page[p]] /\ \A q \in Inserters \ {p} : page'[q] = page[q]
  BY <1>1, Zenon DEF IInv, TypeOK, InsertType
<1>6. InsertInv'
  BY <1>1, <1>2, <1>3, <1>5, ZenonT(30) DEF IInv, InsertInv, ListOf, Indexable
<1>7. ListType' /\ ListInv'
  BY <1>1, PagesKept, Zenon
<1>. QED BY <1>1, <1>4, <1>6, <1>7, MoveStep, Zenon

LEMMA UpdateListStep ==
  ASSUME IInv, NEW p \in Inserters, UpdateList(p)
  PROVE  IInv'
<1>1. /\ pc[p] = "update" /\ pc' = [pc EXCEPT ![p] = "done"]
      /\ UNCHANGED <<heap, vec, items, nextblkno, npages, owner, startPage, tid>>
      /\ UNCHANGED <<vpc, vlist, searchPage, vinsertPage, deadTids, vacuums>>
      /\ UNCHANGED <<page, originalInsertPage, crashes>>
      /\ \/ insertPage' = [insertPage EXCEPT ![ListOf(p)] = page[p]]
         \/ insertPage' = insertPage
  BY Zenon DEF UpdateList, NewInsertPage, Go, heapVars, pageVars, vacVars
<1>2. page[p] \in 1 .. npages /\ owner[page[p]] = ListOf(p) /\ ListOf(p) \in List
  BY <1>1, InsertRow, Zenon DEF IInv, InsertInv
<1>3. ListType'
  <2>1. page[p] \in Page
    BY <1>2, Numbers, SMTT(30), Z3T(30) DEF IInv, TypeOK, PageType
  <2>. QED BY <1>1, <1>2, <2>1, Zenon DEF IInv, TypeOK, ListType
<1>4. \A l \in List : insertPage'[l] = insertPage[l] \/ (l = ListOf(p) /\ insertPage'[l] = page[p])
  BY <1>1, Zenon DEF IInv, TypeOK, ListType
<1>5. ListInv'
  BY <1>1, <1>2, <1>4, SMTT(30), Z3T(30) DEF IInv, ListInv
<1>6. pc'[p] = "done" /\ \A q \in Inserters \ {p} : pc'[q] = pc[q]
  BY <1>1, Zenon DEF IInv, TypeOK, InsertType
<1>7. InsertType'
  BY <1>1, Zenon DEF IInv, TypeOK, InsertType
<1>8. InsertInv'
  BY <1>1, <1>6, Zenon DEF IInv, InsertInv, ListOf, Indexable
<1>. QED BY <1>1, <1>3, <1>5, <1>6, <1>7, <1>8, MoveStep, Zenon

\* PageAddItem on a page of the list, an old one or one that was appended
LEMMA AddItemStep ==
  ASSUME IInv, NEW p \in Inserters, pc[p] \in {"page", "newpage"}, AddItem(p, page[p]),
         UNCHANGED <<heap, vec, nextblkno, npages, owner, startPage, insertPage>>,
         UNCHANGED <<vpc, vlist, searchPage, vinsertPage, deadTids, vacuums>>,
         UNCHANGED crashes
  PROVE  /\ IInv' /\ Indexed' = Indexed \cup {tid[p]}
         /\ tid[p] \notin Indexed /\ Indexable(vec[tid[p]])
<1>1. /\ items' = [items EXCEPT ![page[p]] = @ \cup {EntryOf(tid[p])}]
      /\ UNCHANGED <<tid, page, originalInsertPage>>
      /\ pc' = [pc EXCEPT ![p] = "update"] \/ pc' = [pc EXCEPT ![p] = "done"]
  BY ZenonT(30) DEF AddItem, Go
<1>2. page[p] \in 1 .. npages /\ owner[page[p]] = ListOf(p) /\ Indexable(vec[tid[p]])
  BY Zenon DEF IInv, InsertInv
<1>3. page[p] \in Page
  BY <1>2, PagesInUse, Zenon
<1>4. /\ tid[p] \in Tid /\ heap[tid[p]] = "inserting" /\ vec[tid[p]] \in Vec
      /\ ListOf(p) \in List /\ tid[p] \notin deadTids
  BY InsertRow, Zenon
<1>5. tid[p] \notin Indexed
  BY Zenon DEF IInv, HeldInv
<1> DEFINE e0 == EntryOf(tid[p])
<1>6. e0 \in Entry /\ e0.tid = tid[p] /\ e0.vec = vec[tid[p]]
  BY <1>4, Zenon DEF EntryOf, Entry
<1>7. /\ items'[page[p]] = items[page[p]] \cup {e0}
      /\ \A b \in Page \ {page[p]} : items'[b] = items[b]
  BY <1>1, <1>3, Zenon DEF IInv, TypeOK, PageType
<1> HIDE DEF e0
<1>8. \A b \in Page : \A e : e \in items'[b] <=> e \in items[b] \/ (b = page[p] /\ e = e0)
  BY <1>3, <1>7, ZenonT(30)
<1>9. Indexed' = Indexed \cup {tid[p]}
  <2>1. \A t : t \in Indexed' <=> t \in Indexed \/ t = tid[p]
    BY <1>3, <1>6, <1>8, IndexedIff, IndexedIffNext, ZenonT(30)
  <2>. QED BY <2>1, Zenon
<1>10. /\ pc'[p] \in {"update", "done"}
       /\ \A q \in Inserters \ {p} : pc'[q] = pc[q]
  BY <1>1, Zenon DEF IInv, TypeOK, InsertType
<1>11. TypeOK'
  <2>1. items' \in [Page -> SUBSET Entry]
    BY <1>1, <1>3, <1>6, Zenon DEF IInv, TypeOK, PageType, e0
  <2>2. PageType'
    BY <2>1, Zenon DEF IInv, TypeOK, PageType
  <2>3. InsertType'
    BY <1>1, SMTT(30), Z3T(30) DEF IInv, TypeOK, InsertType
  <2>4. HeapType' /\ ListType' /\ VacuumType' /\ crashes' \in 0 .. MaxCrashes
    BY Zenon DEF IInv, TypeOK, HeapType, ListType, VacuumType
  <2>. QED BY <2>2, <2>3, <2>4, SMTT(30), Z3T(30) DEF TypeOK
<1>12. RowInv'
  BY <1>1, <1>10, SMTT(30), Z3T(30) DEF IInv, RowInv
<1>13. EntryInv'
  <2>1. \A b \in Page : \A e \in items'[b] :
          /\ b <= npages' /\ owner'[b] = ClosestList[e.vec]
          /\ heap'[e.tid] # "unused" /\ e.vec = vec'[e.tid] /\ Indexable(e.vec)
    BY <1>2, <1>4, <1>6, <1>8, Numbers, SMTT(30), Z3T(30) DEF IInv, EntryInv, OneEntry, ListOf
  <2>2. \A b \in Page : \A e \in items[b] : e.tid # tid[p]
    BY <1>5, IndexedIff, Zenon
  <2>3. \A b, c \in Page : \A e \in items'[b], f \in items'[c] : e.tid = f.tid => b = c
    BY <1>6, <1>8, <2>2, SMTT(30), Z3T(30) DEF IInv, EntryInv, OneEntry
  <2>. QED BY <2>1, <2>3, ZenonT(30) DEF EntryInv, OneEntry, Indexable
<1>14. HeldInv'
  <2>1. \A q \in Inserters \ {p} : pc[q] # "idle" => tid[q] # tid[p]
    BY SMTT(30), Z3T(30) DEF IInv, RowInv
  <2>. QED BY <1>1, <1>9, <1>10, <2>1, Zenon DEF IInv, HeldInv, Indexable
<1>15. ChainInv' /\ ListInv'
  BY ChainKept, ListsKept, ZenonT(30) DEF IInv
<1>16. InsertInv'
  BY <1>1, <1>2, <1>10, Zenon DEF IInv, InsertInv, ListOf, Indexable
<1>17. VacuumInv'
  <2>1. \A b \in Page : (\A e \in items[b] : e.tid \notin deadTids) =>
                         (\A e \in items'[b] : e.tid \notin deadTids)
    BY <1>4, <1>6, <1>8, Zenon
  <2>2. 1 .. npages \subseteq Page
    BY PagesInUse, SMTT(30), Z3T(30)
  <2>3. VacuumInv
    BY Zenon DEF IInv
  <2>. QED BY <2>1, <2>2, <2>3, ZenonT(30) DEF VacuumInv
<1>. QED BY <1>2, <1>5, <1>9, <1>11, <1>12, <1>13, <1>14, <1>15, <1>16, <1>17, Zenon DEF IInv

LEMMA InsertOnPageStep ==
  ASSUME IInv, NEW p \in Inserters, InsertOnPage(p) \/ InsertOnNewPage(p)
  PROVE  /\ IInv' /\ Indexed' = Indexed \cup {tid[p]}
         /\ tid[p] \notin Indexed /\ Indexable(vec[tid[p]])
         /\ UNCHANGED <<heap, vec, deadTids>> /\ pc[p] # "idle"
<1>1. /\ pc[p] \in {"page", "newpage"} /\ AddItem(p, page[p])
      /\ UNCHANGED <<heap, vec, nextblkno, npages, owner, startPage, insertPage>>
      /\ UNCHANGED <<vpc, vlist, searchPage, vinsertPage, deadTids, vacuums>>
      /\ UNCHANGED crashes
  BY Zenon DEF InsertOnPage, InsertOnNewPage, heapVars, listVars, vacVars
<1>. QED BY <1>1, AddItemStep, Zenon

LEMMA AppendPageStep ==
  ASSUME IInv, NEW p \in Inserters, AppendPage(p)
  PROVE  IInv'
<1>0. /\ pc[p] = "page" /\ nextblkno[page[p]] = Invalid /\ npages < MaxPages
      /\ npages' = npages + 1
      /\ nextblkno' = [nextblkno EXCEPT ![page[p]] = npages + 1]
      /\ owner' = [owner EXCEPT ![npages + 1] = ListOf(p)]
      /\ page' = [page EXCEPT ![p] = npages + 1] /\ pc' = [pc EXCEPT ![p] = "newpage"]
      /\ UNCHANGED <<heap, vec, items, startPage, insertPage, tid, originalInsertPage, crashes>>
      /\ UNCHANGED <<vpc, vlist, searchPage, vinsertPage, deadTids, vacuums>>
  BY Zenon DEF AppendPage, Go, heapVars, listVars, vacVars
<1>1. nextblkno[page[p]] = Invalid /\ npages < MaxPages /\ npages' = npages + 1
  BY <1>0, Zenon
<1>2. page[p] \in 1 .. npages /\ owner[page[p]] = ListOf(p) /\ Indexable(vec[tid[p]])
  BY <1>0, Zenon DEF IInv, InsertInv
<1>3. ListOf(p) \in List
  BY <1>0, InsertRow, Zenon
<1>4. npages \in 0 .. MaxPages /\ page[p] \in Page /\ npages + 1 \in Page
  BY <1>1, <1>2, Numbers, SMTT(30), Z3T(30) DEF IInv, TypeOK, PageType
<1>5. /\ nextblkno'[page[p]] = npages + 1
      /\ \A b \in Page \ {page[p]} : nextblkno'[b] = nextblkno[b]
      /\ owner'[npages + 1] = ListOf(p)
      /\ \A b \in Page : b # npages + 1 => owner'[b] = owner[b]
  BY <1>0, <1>4, Zenon DEF IInv, TypeOK, PageType
<1>6. /\ pc'[p] = "newpage" /\ page'[p] = npages + 1
      /\ \A q \in Inserters \ {p} : pc'[q] = pc[q] /\ page'[q] = page[q]
  BY <1>0, Zenon DEF IInv, TypeOK, InsertType
<1>7. items[npages + 1] = {}
  BY <1>4, Numbers, EntryRow, SMTT(30), Z3T(30)
<1>8. Indexed' = Indexed
  BY <1>0, Zenon DEF Indexed
<1>9. TypeOK'
  <2>1. PageType'
    BY <1>0, <1>3, <1>4, Numbers, SMTT(30), Z3T(30) DEF IInv, TypeOK, PageType
  <2>2. InsertType'
    BY <1>0, <1>4, Numbers, SMTT(30), Z3T(30) DEF IInv, TypeOK, InsertType
  <2>3. HeapType' /\ ListType' /\ VacuumType' /\ crashes' \in 0 .. MaxCrashes
    BY <1>0, Zenon DEF IInv, TypeOK, HeapType, ListType, VacuumType
  <2>. QED BY <2>1, <2>2, <2>3, Zenon DEF TypeOK
<1>10. RowInv'
  BY <1>0, <1>6, SMTT(30), Z3T(30) DEF IInv, RowInv
<1>11. EntryInv'
  <2>1. \A b \in Page : \A e \in items[b] : b \in 1 .. npages
    BY EntryRow, ZenonT(30)
  <2>. QED BY <1>0, <1>4, <1>5, <2>1, Numbers, SMTT(30), Z3T(30) DEF IInv, EntryInv, OneEntry,
              Indexable
<1>12. HeldInv'
  BY <1>0, <1>6, <1>8, Zenon DEF IInv, HeldInv, Indexable
<1>13. ChainInv'
  <2>1. nextblkno[npages + 1] = Invalid /\ \A b \in Page : nextblkno[b] \in 0 .. MaxPages
    BY <1>4, Numbers, SMTT(30), Z3T(30) DEF IInv, ChainInv, TypeOK, PageType
  <2>2. \A c \in 1 .. npages : owner[c] = ListOf(p) => c <= page[p]
    BY <1>1, <1>2, Zenon DEF IInv, ChainInv
  <2>3. \A b \in 1 .. npages' : nextblkno'[b] # Invalid =>
          /\ b < nextblkno'[b] /\ nextblkno'[b] <= npages' /\ owner'[nextblkno'[b]] = owner'[b]
          /\ \A c \in 1 .. npages' : b < c /\ c < nextblkno'[b] => owner'[c] # owner'[b]
    <3> SUFFICES ASSUME NEW b \in 1 .. npages', nextblkno'[b] # Invalid
                 PROVE  /\ b < nextblkno'[b] /\ nextblkno'[b] <= npages'
                        /\ owner'[nextblkno'[b]] = owner'[b]
                        /\ \A c \in 1 .. npages' :
                             b < c /\ c < nextblkno'[b] => owner'[c] # owner'[b]
      BY Zenon
    <3>1. CASE b = page[p]
      BY <3>1, <1>1, <1>2, <1>4, <1>5, <2>2, Numbers, SMTT(30), Z3T(30)
    <3>2. CASE b # page[p]
      <4>1. b \in 1 .. npages /\ nextblkno'[b] = nextblkno[b] /\ b \in Page
        BY <3>2, <1>1, <1>4, <1>5, <2>1, Numbers, SMTT(30), Z3T(30)
      <4>2. /\ b < nextblkno[b] /\ nextblkno[b] <= npages /\ owner[nextblkno[b]] = owner[b]
            /\ \A c \in 1 .. npages : b < c /\ c < nextblkno[b] => owner[c] # owner[b]
        BY <4>1, Zenon DEF IInv, ChainInv
      <4> DEFINE s == nextblkno[b]
      <4>3. npages' = npages + 1 /\ npages \in Nat /\ s \in Nat /\ s \in Page
        BY <4>1, <4>2, <1>1, <1>4, <2>1, Numbers, SMTT(30), Z3T(30)
      <4>4. owner'[b] = owner[b] /\ owner'[s] = owner[s]
            /\ \A c \in 1 .. npages : owner'[c] = owner[c]
        BY <4>1, <4>2, <4>3, <1>4, <1>5, Numbers, SMTT(30), Z3T(30)
      <4> HIDE DEF s
      <4>5. b < s /\ s <= npages' /\ owner'[s] = owner'[b]
        BY <4>2, <4>3, <4>4, SMTT(30), Z3T(30) DEF s
      <4>6. ASSUME NEW c \in 1 .. npages', b < c, c < s PROVE owner'[c] # owner'[b]
        <5>1. c \in 1 .. npages
          BY <4>6, <4>2, <4>3, SMTT(30), Z3T(30) DEF s
        <5>. QED BY <4>6, <4>2, <4>4, <5>1, Zenon DEF s
      <4>. QED BY <4>1, <4>5, <4>6, ZenonT(30) DEF s
    <3>. QED BY <3>1, <3>2, Zenon
  <2>4. \A b, c \in 1 .. npages' : nextblkno'[b] = Invalid /\ owner'[c] = owner'[b] => c <= b
    <3> SUFFICES ASSUME NEW b \in 1 .. npages', NEW c \in 1 .. npages',
                        nextblkno'[b] = Invalid, owner'[c] = owner'[b]
                 PROVE  c <= b
      BY Zenon
    <3>1. CASE b = npages + 1
      BY <3>1, <1>1, <1>4, SMTT(30), Z3T(30)
    <3>2. CASE b # npages + 1
      <4>1. b \in 1 .. npages /\ b # page[p] /\ nextblkno[b] = Invalid /\ b \in Page
            /\ owner'[b] = owner[b]
        BY <3>2, <1>1, <1>4, <1>5, Numbers, SMTT(30), Z3T(30)
      <4>2. \A d \in 1 .. npages : owner[d] = owner[b] => d <= b
        BY <4>1, Zenon DEF IInv, ChainInv
      <4>3. CASE c \in 1 .. npages
        BY <4>1, <4>2, <4>3, <1>4, <1>5, Numbers, SMTT(30), Z3T(30)
      <4>4. CASE c = npages + 1
        BY <4>1, <4>2, <4>4, <1>2, <1>4, <1>5, <2>2, SMTT(30), Z3T(30)
      <4>. QED BY <4>3, <4>4, <1>1, <1>4, SMTT(30), Z3T(30)
    <3>. QED BY <3>1, <3>2, SMTT(30), Z3T(30)
  <2>5. \A b \in Page : b > npages' => nextblkno'[b] = Invalid
    BY <1>1, <1>2, <1>4, <1>5, Numbers, SMTT(30), Z3T(30) DEF IInv, ChainInv
  <2>. QED BY <2>3, <2>4, <2>5, Zenon DEF ChainInv
<1>14. ListInv'
  <2>1. \A l \in List : startPage[l] \in Page /\ insertPage[l] \in Page
    BY ZenonT(30) DEF IInv, TypeOK, ListType
  <2>2. \A l \in List : owner[page[p]] = l => startPage[l] <= page[p]
    BY <1>2, SMTT(30), Z3T(30) DEF IInv, ListInv
  <2>3. ListInv
    BY Zenon DEF IInv
  <2>. QED BY <1>0, <1>2, <1>3, <1>4, <1>5, <2>1, <2>2, <2>3, Numbers, SMTT(30), Z3T(30) DEF ListInv
<1>15. InsertInv'
  <2>1. \A q \in Inserters : pc[q] \in {"page", "newpage", "update"} =>
          page[q] \in 1 .. npages /\ owner[page[q]] = ListOf(q) /\ Indexable(vec[tid[q]])
    BY Zenon DEF IInv, InsertInv
  <2>2. UNCHANGED <<vec, tid>>
    BY <1>0, ZenonT(30)
  <2>3. ASSUME NEW q \in Inserters, pc'[q] \in {"page", "newpage", "update"}
        PROVE  page'[q] \in 1 .. npages' /\ owner'[page'[q]] = ListOf(q) /\ Indexable(vec[tid[q]])
    <3>1. CASE q = p
      BY <3>1, <1>1, <1>2, <1>4, <1>5, <1>6, SMTT(30), Z3T(30)
    <3>2. CASE q # p
      BY <3>2, <2>1, <2>3, <1>1, <1>4, <1>5, <1>6, Numbers, SMTT(30), Z3T(30)
    <3>. QED BY <3>1, <3>2, Zenon
  <2>. QED BY <2>2, <2>3, Zenon DEF InsertInv, ListOf, Indexable
<1>16. VacuumInv'
  <2>1. searchPage \in 0 .. MaxPages /\ vinsertPage \in 0 .. MaxPages
    BY SMTT(30), Z3T(30) DEF IInv, TypeOK, VacuumType
  <2>. QED BY <1>0, <1>4, <1>5, <1>7, <2>1, Numbers, SMTT(30), Z3T(30) DEF IInv, VacuumInv
<1>. QED BY <1>9, <1>10, <1>11, <1>12, <1>13, <1>14, <1>15, <1>16, Zenon DEF IInv

-----------------------------------------------------------------------------
(* The index that a build leaves *)

LEMMA BuiltLists ==
  ASSUME Init
  PROVE  PageType /\ ListType /\ ChainInv /\ ListInv
<1>1. /\ npages \in Len(Centers) .. MaxPages
      /\ startPage \in [List -> 1 .. npages] /\ startPage[1] = 1
      /\ \A k, l \in List : k < l => startPage[k] < startPage[l]
      /\ insertPage = [l \in List |-> IF l = Len(Centers) THEN npages ELSE startPage[l + 1] - 1]
      /\ owner \in [Page -> List]
      /\ \A b \in Page : /\ startPage[owner[b]] <= b
                         /\ \A l \in List : startPage[l] <= b => l <= owner[b]
      /\ nextblkno = [b \in Page |-> IF b >= npages \/ b = insertPage[owner[b]]
                                     THEN Invalid ELSE b + 1]
  BY Zenon DEF Init, Built
<1>2. \A l \in List : startPage[l] \in Nat /\ 1 <= startPage[l] /\ startPage[l] <= npages
  <2>1. startPage \in [List -> 1 .. npages] /\ npages \in Len(Centers) .. MaxPages
    BY <1>1, Zenon
  <2>. QED BY <2>1, Numbers, SMTT(30), Z3T(30)
<1>3. npages \in Nat /\ npages <= MaxPages /\ Len(Centers) \in List
  BY <1>1, Numbers, SMTT(30), Z3T(30)
<1>4. \A l \in List : insertPage[l] = IF l = Len(Centers) THEN npages ELSE startPage[l + 1] - 1
  BY <1>1, SMTT(30), Z3T(30)
<1>5. \A b \in Page : nextblkno[b] = IF b >= npages \/ b = insertPage[owner[b]]
                                     THEN 0 ELSE b + 1
  BY <1>1, Numbers, Zenon
<1>6. \A b \in Page : owner[b] \in List
  BY <1>1, Zenon
\* The list after the one of a page begins behind the page
<1>7. ASSUME NEW b \in Page, owner[b] # Len(Centers)
      PROVE  owner[b] + 1 \in List /\ b < startPage[owner[b] + 1]
  <2>1. owner[b] + 1 \in List
    BY <1>6, <1>7, Numbers, SMTT(30), Z3T(30)
  <2>2. ~(startPage[owner[b] + 1] <= b)
    BY <1>1, <1>6, <2>1, Numbers, SMTT(30), Z3T(30)
  <2>. QED BY <1>2, <2>1, <2>2, Numbers, SMTT(30), Z3T(30)
<1>8. ASSUME NEW l \in List, l # Len(Centers)
      PROVE  /\ l + 1 \in List /\ insertPage[l] = startPage[l + 1] - 1
             /\ startPage[l] <= insertPage[l] /\ insertPage[l] \in 1 .. npages
  <2>1. l + 1 \in List /\ insertPage[l] = startPage[l + 1] - 1
    BY <1>4, <1>8, Numbers, SMTT(30), Z3T(30)
  <2>2. startPage[l] < startPage[l + 1]
    BY <1>1, <2>1, Numbers, SMTT(30), Z3T(30)
  <2>. QED BY <1>2, <1>3, <2>1, <2>2, Numbers, SMTT(30), Z3T(30)
<1>9. \A l \in List : insertPage[l] \in 1 .. npages /\ startPage[l] <= insertPage[l]
  <2>1. npages \in 1 .. npages
    BY <1>1, Numbers, SMTT(30), Z3T(30)
  <2>. QED BY <1>2, <1>4, <1>8, <2>1, Zenon
<1>10. PageType /\ ListType
  <2>1. ListType
    <3>1. \A l \in List : startPage[l] \in Page /\ insertPage[l] \in Page
      BY <1>2, <1>3, <1>9, Numbers, SMTT(30), Z3T(30)
    <3>. QED BY <1>1, <3>1, Zenon DEF ListType
  <2>2. nextblkno \in [Page -> 0 .. MaxPages]
    <3>1. \A b \in Page : nextblkno[b] \in 0 .. MaxPages
      BY <1>3, <1>5, Numbers, SMTT(30), Z3T(30)
    <3>2. nextblkno = [b \in Page |-> nextblkno[b]]
      BY <1>1, Zenon
    <3>. QED BY <3>1, <3>2, Zenon
  <2>3. items \in [Page -> SUBSET Entry]
    <3>1. PICK place \in [Tid -> 0 .. npages] :
            items = [b \in Page |-> {EntryOf(t) : t \in {u \in Tid : place[u] = b}}]
      BY Zenon DEF Init, Built
    <3>2. \A t \in Tid : EntryOf(t) \in Entry
      BY Zenon DEF Init, EntryOf, Entry
    <3>. QED BY <3>1, <3>2, Zenon
  <2>4. npages \in 0 .. MaxPages /\ owner \in [Page -> List]
    BY <1>1, <1>3, Numbers, SMTT(30), Z3T(30)
  <2>. QED BY <2>1, <2>2, <2>3, <2>4, Zenon DEF PageType
<1>11. ListInv
  <2> SUFFICES ASSUME NEW l \in List
               PROVE  /\ startPage[l] <= npages /\ owner[startPage[l]] = l
                      /\ \A c \in 1 .. npages : owner[c] = l => startPage[l] <= c
                      /\ insertPage[l] <= npages /\ owner[insertPage[l]] = l
    BY Zenon DEF ListInv
  <2>1. \A b \in Page : startPage[l] <= b => l <= owner[b]
    BY <1>1, Zenon
  <2>2. startPage[l] \in Page /\ insertPage[l] \in Page
    BY <1>2, <1>3, <1>9, Numbers, SMTT(30), Z3T(30)
  <2>3. owner[startPage[l]] = l
    <3>1. l <= owner[startPage[l]] /\ owner[startPage[l]] \in List
      BY <1>2, <1>6, <2>1, <2>2, SMTT(30), Z3T(30)
    <3>2. startPage[owner[startPage[l]]] <= startPage[l]
      BY <1>1, <2>2, Zenon
    <3>3. l < owner[startPage[l]] => startPage[l] < startPage[owner[startPage[l]]]
      BY <1>1, <3>1, Zenon
    <3>. QED BY <1>2, <3>1, <3>2, <3>3, Numbers, SMTT(30), Z3T(30)
  <2>4. owner[insertPage[l]] = l
    <3>1. l <= owner[insertPage[l]] /\ owner[insertPage[l]] \in List
      BY <1>6, <1>9, <2>1, <2>2, Zenon
    <3>2. CASE l = Len(Centers)
      BY <3>1, <3>2, Numbers, SMTT(30), Z3T(30)
    <3>3. CASE l # Len(Centers)
      <4>1. l + 1 \in List /\ insertPage[l] = startPage[l + 1] - 1
        BY <1>8, <3>3, SMTT(30), Z3T(30)
      <4>2. startPage[owner[insertPage[l]]] <= insertPage[l]
        BY <1>1, <2>2, Zenon
      <4>3. l + 1 < owner[insertPage[l]] => startPage[l + 1] < startPage[owner[insertPage[l]]]
        BY <1>1, <3>1, <4>1, Zenon
      <4>. QED BY <1>2, <3>1, <4>1, <4>2, <4>3, Numbers, SMTT(30), Z3T(30)
    <3>. QED BY <3>2, <3>3, Zenon
  <2>5. \A c \in 1 .. npages : owner[c] = l => startPage[l] <= c
    BY <1>1, <1>3, Numbers, SMTT(30), Z3T(30)
  <2>. QED BY <1>2, <1>9, <2>3, <2>4, <2>5, SMTT(30), Z3T(30)
<1>12. ChainInv
  <2>1. ASSUME NEW b \in 1 .. npages, nextblkno[b] # Invalid
        PROVE  /\ b < nextblkno[b] /\ nextblkno[b] <= npages /\ owner[nextblkno[b]] = owner[b]
               /\ \A c \in 1 .. npages : b < c /\ c < nextblkno[b] => owner[c] # owner[b]
    <3>1. b \in Page /\ b < npages /\ b # insertPage[owner[b]] /\ nextblkno[b] = b + 1
      BY <1>3, <1>5, <2>1, Numbers, SMTT(30), Z3T(30)
    <3>2. b + 1 \in Page /\ owner[b] \in List /\ owner[b + 1] \in List
      BY <1>3, <1>6, <3>1, Numbers, SMTT(30), Z3T(30)
    <3>3. owner[b] <= owner[b + 1]
      BY <1>1, <1>2, <3>1, <3>2, Numbers, SMTT(30), Z3T(30)
    <3>4. owner[b + 1] <= owner[b]
      <4>1. CASE owner[b] = Len(Centers)
        BY <3>2, <4>1, Numbers, SMTT(30), Z3T(30)
      <4>2. CASE owner[b] # Len(Centers)
        <5>1. owner[b] + 1 \in List /\ b < startPage[owner[b] + 1]
          BY <1>7, <3>1, <4>2, SMTT(30), Z3T(30)
        <5>2. insertPage[owner[b]] = startPage[owner[b] + 1] - 1
          BY <1>8, <3>2, <4>2, Zenon
        <5>3. b + 1 < startPage[owner[b] + 1]
          BY <1>2, <3>1, <5>1, <5>2, Numbers, SMTT(30), Z3T(30)
        <5>4. owner[b] + 1 < owner[b + 1] => startPage[owner[b] + 1] < startPage[owner[b + 1]]
          BY <1>1, <3>2, <5>1, SMTT(30), Z3T(30)
        <5>5. startPage[owner[b + 1]] <= b + 1
          BY <1>1, <3>2, Zenon
        <5>. QED BY <1>2, <3>1, <3>2, <5>1, <5>3, <5>4, <5>5, Numbers, SMTT(30), Z3T(30)
      <4>. QED BY <4>1, <4>2, Zenon
    <3>. QED BY <1>3, <3>1, <3>2, <3>3, <3>4, Numbers, SMTT(30), Z3T(30)
  <2>2. ASSUME NEW b \in 1 .. npages, NEW c \in 1 .. npages, nextblkno[b] = Invalid,
               owner[c] = owner[b]
        PROVE  c <= b
    <3>1. b \in Page /\ c \in Page /\ (b >= npages \/ b = insertPage[owner[b]])
      BY <1>3, <1>5, <2>2, Numbers, SMTT(30), Z3T(30)
    <3>2. CASE b >= npages
      BY <1>3, <3>2, SMTT(30), Z3T(30)
    <3>3. CASE b = insertPage[owner[b]]
      <4>1. CASE owner[b] = Len(Centers)
        BY <1>3, <1>4, <1>6, <3>1, <3>3, <4>1, SMTT(30), Z3T(30)
      <4>2. CASE owner[b] # Len(Centers)
        <5>1. owner[c] + 1 \in List /\ c < startPage[owner[c] + 1]
          BY <1>7, <2>2, <3>1, <4>2, Zenon
        <5>2. insertPage[owner[b]] = startPage[owner[b] + 1] - 1
          BY <1>6, <1>8, <3>1, <4>2, Zenon
        <5>. QED BY <1>2, <2>2, <3>1, <3>3, <5>1, <5>2, Numbers, SMTT(30), Z3T(30)
      <4>. QED BY <4>1, <4>2, Zenon
    <3>. QED BY <3>1, <3>2, <3>3, Zenon
  <2>3. \A b \in Page : b > npages => nextblkno[b] = Invalid
    BY <1>3, <1>5, Numbers, SMTT(30), Z3T(30)
  <2>. QED BY <2>1, <2>2, <2>3, Zenon DEF ChainInv
<1>. QED BY <1>10, <1>11, <1>12, SMTT(30), Z3T(30)

LEMMA BuiltEntries ==
  ASSUME Init
  PROVE  EntryInv /\ Indexed = {t \in Tid : heap[t] = "live" /\ Indexable(vec[t])}
<1>1. PICK place \in [Tid -> 0 .. npages] :
        /\ \A t \in Tid : IF heap[t] = "live" /\ Indexable(vec[t])
                          THEN place[t] # Invalid /\ owner[place[t]] = ClosestList[vec[t]]
                          ELSE place[t] = Invalid
        /\ items = [b \in Page |-> {EntryOf(t) : t \in {u \in Tid : place[u] = b}}]
  BY Zenon DEF Init, Built
<1>2. npages \in 0 .. MaxPages
  BY BuiltLists, Zenon DEF PageType
<1>3. \A b \in Page : \A e : e \in items[b] <=> \E t \in Tid : place[t] = b /\ e = EntryOf(t)
  BY <1>1, Zenon
<1>4. \A t : EntryOf(t).tid = t /\ EntryOf(t).vec = vec[t]
  BY Zenon DEF EntryOf
<1>5. \A t \in Tid : place[t] \in 0 .. npages
  BY <1>1, Zenon
<1>6. ASSUME NEW b \in Page, NEW e \in items[b]
      PROVE  /\ e.tid \in Tid /\ place[e.tid] = b /\ e.vec = vec[e.tid]
             /\ heap[e.tid] = "live" /\ Indexable(e.vec) /\ owner[b] = ClosestList[e.vec]
             /\ b <= npages
  <2>1. PICK t \in Tid : place[t] = b /\ e = EntryOf(t)
    BY <1>3, Zenon
  <2>2. e.tid = t /\ e.vec = vec[t]
    BY <1>4, <2>1, Zenon
  <2>3. place[t] # Invalid /\ b <= npages
    BY <1>2, <1>5, <2>1, Numbers, SMTT(30), Z3T(30)
  <2>4. heap[t] = "live" /\ Indexable(vec[t]) /\ owner[place[t]] = ClosestList[vec[t]]
    BY <1>1, <2>3, Zenon
  <2>. QED BY <2>1, <2>2, <2>3, <2>4, Zenon
<1>7. EntryInv
  BY <1>6, SMTT(30), Z3T(30) DEF EntryInv, OneEntry
<1>8. ASSUME NEW t \in Tid, heap[t] = "live", Indexable(vec[t]) PROVE t \in Indexed
  <2>1. place[t] \in Page
    BY <1>1, <1>2, <1>5, <1>8, Numbers, SMTT(30), Z3T(30)
  <2>2. EntryOf(t) \in items[place[t]]
    BY <1>3, <2>1, Zenon
  <2>. QED BY <1>4, <2>1, <2>2, IndexedIff, Zenon
<1>9. ASSUME NEW t \in Indexed PROVE t \in Tid /\ heap[t] = "live" /\ Indexable(vec[t])
  BY <1>6, IndexedIff, SMTT(30), Z3T(30)
<1>. QED BY <1>7, <1>8, <1>9, Zenon

LEMMA InitInv == Init => IInv
<1> SUFFICES ASSUME Init PROVE IInv
  BY SMTT(30), Z3T(30)
<1>1. PageType /\ ListType /\ ChainInv /\ ListInv
  BY BuiltLists, Zenon
<1>2. EntryInv /\ Indexed = {t \in Tid : heap[t] = "live" /\ Indexable(vec[t])}
  BY BuiltEntries, SMTT(30), Z3T(30)
<1>3. /\ heap \in [Tid -> {"unused", "live"}] /\ vec \in [Tid -> Vec]
      /\ pc = [p \in Inserters |-> "idle"] /\ tid = [p \in Inserters |-> NoTid]
      /\ page = [p \in Inserters |-> Invalid]
      /\ originalInsertPage = [p \in Inserters |-> Invalid]
      /\ vpc = "idle" /\ vlist = 1 /\ searchPage = Invalid /\ vinsertPage = Invalid
      /\ deadTids = {} /\ vacuums = 0 /\ crashes = 0
  BY Zenon DEF Init
<1>4. HeapType /\ InsertType /\ VacuumType /\ crashes \in 0 .. MaxCrashes
  <2>1. HeapType
    BY <1>3, Zenon DEF HeapType
  <2>2. InsertType
    BY <1>3, Numbers, SMTT(30), Z3T(30) DEF InsertType
  <2>3. VacuumType /\ crashes \in 0 .. MaxCrashes
    <3>1. /\ 1 \in List /\ Invalid \in 0 .. MaxPages
          /\ 0 \in 0 .. MaxVacuums /\ 0 \in 0 .. MaxCrashes
      BY Numbers, IvfflatAssumption, SMTT(30), Z3T(30)
    <3>. QED BY <1>3, <3>1, Zenon DEF VacuumType
  <2>. QED BY <2>1, <2>2, <2>3, Zenon
<1>5. RowInv /\ InsertInv /\ VacuumInv
  BY <1>3, Zenon DEF RowInv, InsertInv, VacuumInv
<1>6. HeldInv
  BY <1>2, <1>3, Zenon DEF HeldInv
<1>. QED BY <1>1, <1>2, <1>4, <1>5, <1>6, Zenon DEF IInv, TypeOK

-----------------------------------------------------------------------------

(* Rows that end *)

\* An insert ends, with the row in the index or dead
LEMMA ForgetStep ==
  ASSUME IInv, NEW p \in Inserters, NEW outcome \in {"live", "dead"}, pc[p] # "idle",
         outcome = "live" => pc[p] = "done",
         heap' = [heap EXCEPT ![tid[p]] = outcome], Forget(p),
         UNCHANGED <<vec, items, nextblkno, npages, owner, startPage, insertPage, crashes>>,
         UNCHANGED <<vpc, vlist, searchPage, vinsertPage, deadTids, vacuums>>
  PROVE  IInv'
<1>1. /\ tid' = [tid EXCEPT ![p] = NoTid] /\ page' = [page EXCEPT ![p] = Invalid]
      /\ originalInsertPage' = [originalInsertPage EXCEPT ![p] = Invalid]
      /\ pc' = [pc EXCEPT ![p] = "idle"]
  BY Zenon DEF Forget, Go
<1>2. tid[p] \in Tid /\ heap[tid[p]] = "inserting" /\ tid[p] \notin deadTids
  BY InsertRow, Zenon
<1>3. /\ pc'[p] = "idle"
      /\ \A q \in Inserters \ {p} : pc'[q] = pc[q] /\ tid'[q] = tid[q] /\ page'[q] = page[q]
  BY <1>1, Zenon DEF IInv, TypeOK, InsertType
<1>4. heap'[tid[p]] = outcome /\ \A t \in Tid \ {tid[p]} : heap'[t] = heap[t]
  BY <1>2, Zenon DEF IInv, TypeOK, HeapType
<1>5. \A q \in Inserters \ {p} : pc[q] # "idle" => tid[q] \in Tid /\ tid[q] # tid[p]
  BY InsertRow, ZenonT(30) DEF IInv, RowInv
<1>6. PageType' /\ ListType' /\ ChainInv' /\ ListInv' /\ Indexed' = Indexed
  BY PagesKept, Zenon
<1>7. VacuumType' /\ VacuumInv'
  BY VacuumKept, Zenon
<1>8. HeapType' /\ InsertType' /\ crashes' \in 0 .. MaxCrashes
  BY <1>1, <1>2, Numbers, SMTT(30), Z3T(30) DEF IInv, TypeOK, HeapType, InsertType
<1>9. RowInv'
  <2>1. \A t \in deadTids : t \in Tid \ {tid[p]} /\ heap[t] = "dead"
    BY <1>2, SMTT(30), Z3T(30) DEF IInv, RowInv, TypeOK, VacuumType
  <2>2. \A q \in Inserters : pc'[q] # "idle" => q # p /\ pc[q] # "idle" /\ tid'[q] = tid[q]
    BY <1>3, Zenon
  <2>3. \A q \in Inserters : pc'[q] # "idle" => tid'[q] \in Tid /\ heap'[tid'[q]] = "inserting"
    <3> SUFFICES ASSUME NEW q \in Inserters, pc'[q] # "idle"
                 PROVE  tid'[q] \in Tid /\ heap'[tid'[q]] = "inserting"
      BY Zenon
    <3>1. q \in Inserters \ {p} /\ pc[q] # "idle" /\ tid'[q] = tid[q]
      BY <2>2, Zenon
    <3>2. tid[q] \in Tid \ {tid[p]} /\ heap[tid[q]] = "inserting"
      BY <1>5, <3>1, InsertRow, Zenon
    <3>. QED BY <1>4, <3>1, <3>2, ZenonT(30)
  <2>4. \A q, r \in Inserters :
          q # r /\ pc'[q] # "idle" /\ pc'[r] # "idle" => tid'[q] # tid'[r]
    <3>1. \A q, r \in Inserters :
            q # r /\ pc[q] # "idle" /\ pc[r] # "idle" => tid[q] # tid[r]
      BY Zenon DEF IInv, RowInv
    <3>. QED BY <2>2, <3>1, Zenon
  <2>5. \A t \in deadTids : heap'[t] = "dead"
    BY <1>4, <2>1, Zenon
  <2>6. vpc = "idle" => deadTids = {}
    BY ZenonT(30) DEF IInv, RowInv
  <2>. QED BY <2>3, <2>4, <2>5, <2>6, ZenonT(30) DEF RowInv
<1>10. EntryInv'
  <2>1. \A b \in Page : \A e \in items[b] : e.tid \in Tid /\ heap[e.tid] # "unused"
    BY EntryRow, SMTT(30), Z3T(30)
  <2>2. EntryInv
    BY Zenon DEF IInv
  <2>3. \A t \in Tid : heap[t] # "unused" => heap'[t] # "unused"
    BY <1>4, Zenon
  <2>. QED BY <2>1, <2>2, <2>3, EntriesKept, Zenon
<1>11. HeldInv'
  BY <1>2, <1>3, <1>4, <1>5, <1>6, Zenon DEF IInv, HeldInv, Indexable
<1>12. InsertInv'
  BY <1>3, Zenon DEF IInv, InsertInv, ListOf, Indexable
<1>. QED BY <1>6, <1>7, <1>8, <1>9, <1>10, <1>11, <1>12, Zenon DEF IInv, TypeOK

LEMMA EndInsertStep ==
  ASSUME IInv, NEW p \in Inserters,
         (\E outcome \in {"live", "dead"} : EndInsert(p, outcome)) \/ InsertError(p)
  PROVE  IInv'
<1>1. PICK outcome \in {"live", "dead"} :
        /\ pc[p] # "idle" /\ (outcome = "live" => pc[p] = "done")
        /\ heap' = [heap EXCEPT ![tid[p]] = outcome] /\ Forget(p)
        /\ UNCHANGED <<vec, items, nextblkno, npages, owner, startPage, insertPage, crashes>>
        /\ UNCHANGED <<vpc, vlist, searchPage, vinsertPage, deadTids, vacuums>>
  BY Zenon DEF EndInsert, InsertError, pageVars, listVars, vacVars
<1>. QED BY <1>1, ForgetStep, Zenon

\* A delete kills a row that no insert holds
LEMMA HeapDeleteStep ==
  ASSUME IInv, NEW t \in Tid, HeapDelete(t)
  PROVE  IInv'
<1>1. /\ heap[t] = "live" /\ heap' = [heap EXCEPT ![t] = "dead"]
      /\ UNCHANGED <<vec, items, nextblkno, npages, owner, startPage, insertPage, crashes>>
      /\ UNCHANGED <<vpc, vlist, searchPage, vinsertPage, deadTids, vacuums>>
      /\ UNCHANGED <<pc, tid, page, originalInsertPage>>
  BY Zenon DEF HeapDelete, pageVars, listVars, insVars, vacVars
<1>2. heap'[t] = "dead" /\ \A u \in Tid \ {t} : heap'[u] = heap[u]
  BY <1>1, Zenon DEF IInv, TypeOK, HeapType
<1>3. PageType' /\ ListType' /\ ChainInv' /\ ListInv' /\ Indexed' = Indexed
  BY <1>1, PagesKept, Zenon
<1>4. VacuumType' /\ VacuumInv'
  BY <1>1, VacuumKept, ZenonT(30)
<1>5. HeapType' /\ InsertType' /\ crashes' \in 0 .. MaxCrashes
  BY <1>1, SMTT(30), Z3T(30) DEF IInv, TypeOK, HeapType, InsertType
<1>6. \A p \in Inserters : pc[p] # "idle" => tid[p] \in Tid \ {t}
  BY <1>1, InsertRow, ZenonT(30)
<1>7. RowInv'
  <2>1. \A p \in Inserters : pc[p] # "idle" => tid[p] \in Tid /\ heap'[tid[p]] = "inserting"
    BY <1>2, <1>6, Zenon DEF IInv, RowInv
  <2>2. \A u \in deadTids : heap'[u] = "dead"
    BY <1>2, Zenon DEF IInv, RowInv, TypeOK, VacuumType
  <2>3. pc' = pc /\ tid' = tid /\ deadTids' = deadTids /\ vpc' = vpc
    BY <1>1, Zenon
  <2>. QED BY <2>1, <2>2, <2>3, SMTT(30), Z3T(30) DEF IInv, RowInv
<1>8. EntryInv'
  <2>1. \A b \in Page : \A e \in items[b] : e.tid \in Tid /\ heap[e.tid] # "unused"
    BY EntryRow, SMTT(30), Z3T(30)
  <2>2. EntryInv
    BY Zenon DEF IInv
  <2>3. \A u \in Tid : heap[u] # "unused" => heap'[u] # "unused"
    BY <1>2, ZenonT(30)
  <2>. QED BY <1>1, <2>1, <2>2, <2>3, EntriesKept, Zenon
<1>9. HeldInv' /\ InsertInv'
  BY <1>1, <1>2, <1>3, Zenon DEF IInv, HeldInv, InsertInv, ListOf, Indexable
<1>. QED BY <1>3, <1>4, <1>5, <1>7, <1>8, <1>9, Zenon DEF IInv, TypeOK

LEMMA CrashStep ==
  ASSUME IInv, Crash
  PROVE  IInv'
<1>1. /\ crashes < MaxCrashes /\ crashes' = crashes + 1
      /\ heap' = [t \in Tid |-> IF heap[t] = "inserting" THEN "dead" ELSE heap[t]]
      /\ pc' = [p \in Inserters |-> "idle"] /\ tid' = [p \in Inserters |-> NoTid]
      /\ page' = [p \in Inserters |-> Invalid]
      /\ originalInsertPage' = [p \in Inserters |-> Invalid]
      /\ vpc' = "idle" /\ deadTids' = {}
      /\ UNCHANGED <<vec, items, nextblkno, npages, owner, startPage, insertPage>>
      /\ UNCHANGED <<vlist, searchPage, vinsertPage, vacuums>>
  BY Zenon DEF Crash, pageVars, listVars
<1>2. PageType' /\ ListType' /\ ChainInv' /\ ListInv' /\ Indexed' = Indexed
  BY <1>1, PagesKept, SMTT(30), Z3T(30)
<1>3. HeapType' /\ InsertType' /\ VacuumType' /\ crashes' \in 0 .. MaxCrashes
  <2>1. HeapType' /\ InsertType'
    BY <1>1, Numbers, SMTT(30), Z3T(30) DEF IInv, TypeOK, HeapType, InsertType
  <2>2. VacuumType' /\ crashes' \in 0 .. MaxCrashes
    BY <1>1, IvfflatAssumption, SMTT(30), Z3T(30) DEF IInv, TypeOK, VacuumType
  <2>. QED BY <2>1, <2>2, Zenon
<1>4. RowInv' /\ InsertInv' /\ VacuumInv'
  BY <1>1, Zenon DEF RowInv, InsertInv, VacuumInv
<1>5. EntryInv'
  <2>1. \A b \in Page : \A e \in items[b] : e.tid \in Tid
    BY EntryRow, Zenon
  <2>. QED BY <1>1, <2>1, ZenonT(30) DEF IInv, EntryInv, OneEntry, Indexable
<1>6. HeldInv'
  BY <1>1, <1>2, Zenon DEF IInv, HeldInv, Indexable
<1>. QED BY <1>2, <1>3, <1>4, <1>5, <1>6, Zenon DEF IInv, TypeOK

-----------------------------------------------------------------------------
(* The vacuum *)

\* A step of the vacuum that leaves the entries and the heap alone
LEMMA VacuumMoveStep ==
  ASSUME IInv, RowInv', VacuumInv', ListType', ListInv', VacuumType',
         UNCHANGED <<heap, vec, items, nextblkno, npages, owner, startPage, crashes>>,
         UNCHANGED <<pc, tid, page, originalInsertPage>>
  PROVE  IInv'
<1>1. Indexed' = Indexed
  BY Zenon DEF Indexed
<1>2. HeapType' /\ PageType' /\ InsertType' /\ crashes' \in 0 .. MaxCrashes
  BY Zenon DEF IInv, TypeOK, HeapType, PageType, InsertType
<1>3. EntryInv' /\ ChainInv'
  <2>1. EntryInv'
    BY Zenon DEF IInv, EntryInv, OneEntry, Indexable
  <2>2. ChainInv'
    BY ChainKept, SMTT(30), Z3T(30) DEF IInv
  <2>. QED BY <2>1, <2>2, SMTT(30), Z3T(30)
<1>4. HeldInv' /\ InsertInv'
  BY <1>1, Zenon DEF IInv, HeldInv, InsertInv, ListOf, Indexable
<1>. QED BY <1>2, <1>3, <1>4, SMTT(30), Z3T(30) DEF IInv, TypeOK

LEMMA VacuumStartStep ==
  ASSUME IInv, NEW D \in SUBSET Tid, VacuumStart(D)
  PROVE  IInv'
<1>1. /\ vacuums < MaxVacuums /\ \A t \in D : heap[t] = "dead"
      /\ vpc' = "pages" /\ deadTids' = D /\ vacuums' = vacuums + 1
      /\ vlist' = 1 /\ searchPage' = startPage[1] /\ vinsertPage' = Invalid
      /\ UNCHANGED <<heap, vec, items, nextblkno, npages, owner, startPage, crashes>>
      /\ UNCHANGED <<pc, tid, page, originalInsertPage, insertPage>>
  BY Zenon DEF VacuumStart, BeginList, heapVars, pageVars, listVars, insVars
<1>2. 1 \in List /\ startPage[1] \in Page
  BY Numbers, SMTT(30), Z3T(30) DEF IInv, TypeOK, ListType
<1>3. VacuumType'
  <2>1. vacuums \in 0 .. MaxVacuums
    BY Zenon DEF IInv, TypeOK, VacuumType
  <2>2. vacuums' \in 0 .. MaxVacuums
    BY <1>1, <2>1, IvfflatAssumption, SMTT(30), Z3T(30)
  <2>3. searchPage' \in 0 .. MaxPages /\ vinsertPage' \in 0 .. MaxPages /\ vlist' \in List
    BY <1>1, <1>2, Numbers, SMTT(30), Z3T(30)
  <2>. QED BY <1>1, <2>2, <2>3, Zenon DEF VacuumType
<1>4. RowInv'
  BY <1>1, SMTT(30), Z3T(30) DEF IInv, RowInv
<1>5. ListType' /\ ListInv'
  BY <1>1, PagesKept, ZenonT(30)
<1>6. VacuumInv'
  <2>1. \A b \in 1 .. npages : owner[b] \in List
    BY Numbers, SMTT(30), Z3T(30) DEF IInv, TypeOK, PageType
  <2>2. startPage[1] <= npages /\ owner[startPage[1]] = 1
        /\ \A c \in 1 .. npages : owner[c] = 1 => startPage[1] <= c
    BY <1>2, Zenon DEF IInv, ListInv
  <2>. QED BY <1>1, <1>2, <2>1, <2>2, Numbers, SMTT(30), Z3T(30) DEF VacuumInv
<1>. QED BY <1>1, <1>3, <1>4, <1>5, <1>6, VacuumMoveStep, Zenon

LEMMA VacuumUpdateListStep ==
  ASSUME IInv, VacuumUpdateList
  PROVE  IInv'
<1>1. /\ vpc = "pages" /\ searchPage = Invalid
      /\ \/ vinsertPage # Invalid /\ insertPage' = [insertPage EXCEPT ![vlist] = vinsertPage]
         \/ insertPage' = insertPage
      /\ UNCHANGED <<heap, vec, items, nextblkno, npages, owner, startPage, crashes>>
      /\ UNCHANGED <<pc, tid, page, originalInsertPage, deadTids, vacuums>>
  BY Zenon DEF VacuumUpdateList, NewInsertPage, heapVars, pageVars, insVars
<1>2. \/ /\ vlist < Len(Centers) /\ vpc' = vpc /\ vlist' = vlist + 1
         /\ searchPage' = startPage[vlist + 1] /\ vinsertPage' = Invalid
      \/ /\ ~(vlist < Len(Centers)) /\ vpc' = "heap"
         /\ UNCHANGED <<vlist, searchPage, vinsertPage>>
  BY Zenon DEF VacuumUpdateList, BeginList
<1>3. /\ vlist \in List /\ vinsertPage \in 0 .. MaxPages
      /\ vlist < Len(Centers) => vlist + 1 \in List /\ startPage[vlist + 1] \in Page
  BY Numbers, SMTT(30), Z3T(30) DEF IInv, TypeOK, VacuumType, ListType
<1>4. vinsertPage # Invalid => vinsertPage <= npages /\ owner[vinsertPage] = vlist
  BY <1>1, Zenon DEF IInv, VacuumInv
<1>5. VacuumType'
  BY <1>1, <1>2, <1>3, Numbers, SMTT(30), Z3T(30) DEF IInv, TypeOK, VacuumType
<1>6. RowInv'
  BY <1>1, <1>2, Zenon DEF IInv, RowInv
<1>7. ListType'
  BY <1>1, <1>3, Numbers, SMTT(30), Z3T(30) DEF IInv, TypeOK, ListType
<1>8. ListInv'
  <2>1. \A l \in List : \/ insertPage'[l] = insertPage[l]
                        \/ l = vlist /\ vinsertPage # Invalid /\ insertPage'[l] = vinsertPage
    BY <1>1, SMTT(30), Z3T(30) DEF IInv, TypeOK, ListType
  <2>. QED BY <1>1, <1>4, <2>1, ZenonT(30) DEF IInv, ListInv
<1>9. VacuumInv'
  <2>1. \A b \in 1 .. npages : b \in Page /\ owner[b] \in List
    BY Numbers, SMTT(30), Z3T(30) DEF IInv, TypeOK, PageType
  <2>2. \A b \in 1 .. npages : owner[b] <= vlist => \A e \in items[b] : e.tid \notin deadTids
    BY <1>1, <1>3, <2>1, Numbers, SMTT(30), Z3T(30) DEF IInv, VacuumInv
  <2>3. CASE vlist < Len(Centers)
    <3>1. /\ startPage[vlist + 1] <= npages /\ owner[startPage[vlist + 1]] = vlist + 1
          /\ \A c \in 1 .. npages : owner[c] = vlist + 1 => startPage[vlist + 1] <= c
      BY <1>3, <2>3, ZenonT(30) DEF IInv, ListInv
    <3>. QED BY <1>1, <1>2, <1>3, <2>1, <2>2, <2>3, <3>1, Numbers, SMTT(30), Z3T(30) DEF VacuumInv
  <2>4. CASE ~(vlist < Len(Centers))
    <3>1. \A b \in Page : \A e \in items[b] : b \in 1 .. npages
      BY EntryRow, Zenon
    <3>2. \A b \in 1 .. npages : owner[b] <= vlist
      BY <1>3, <2>1, <2>4, Numbers, SMTT(30), Z3T(30)
    <3>. QED BY <1>1, <1>2, <2>2, <2>4, <3>1, <3>2, Zenon DEF VacuumInv
  <2>. QED BY <2>3, <2>4, Zenon
<1>. QED BY <1>1, <1>5, <1>6, <1>7, <1>8, <1>9, VacuumMoveStep, Zenon

LEMMA VacuumErrorStep ==
  ASSUME IInv, VacuumError
  PROVE  IInv'
<1>1. /\ vpc' = "idle" /\ deadTids' = {}
      /\ UNCHANGED <<heap, vec, items, nextblkno, npages, owner, startPage, crashes>>
      /\ UNCHANGED <<pc, tid, page, originalInsertPage, insertPage>>
      /\ UNCHANGED <<vlist, searchPage, vinsertPage, vacuums>>
  BY ZenonT(30) DEF VacuumError, heapVars, pageVars, listVars, insVars
<1>2. VacuumType' /\ RowInv' /\ VacuumInv'
  BY <1>1, ZenonT(30) DEF IInv, TypeOK, VacuumType, RowInv, VacuumInv
<1>3. ListType' /\ ListInv'
  BY <1>1, PagesKept, SMTT(30), Z3T(30)
<1>. QED BY <1>1, <1>2, <1>3, VacuumMoveStep, ZenonT(30)

\* The dead entries of a page, and only those, leave the index
LEMMA VacuumPageStep ==
  ASSUME IInv, VacuumPage
  PROVE  /\ IInv' /\ UNCHANGED <<heap, vec, deadTids>>
         /\ \E D \in SUBSET deadTids : Indexed' = Indexed \ D
<1>1. /\ vpc = "pages" /\ searchPage # Invalid
      /\ items' = [items EXCEPT ![searchPage] = @ \ Deletable(searchPage)]
      /\ searchPage' = nextblkno[searchPage]
      /\ \/ vinsertPage' = searchPage
         \/ vinsertPage' = vinsertPage
      /\ UNCHANGED <<heap, vec, nextblkno, npages, owner, startPage, insertPage, crashes>>
      /\ UNCHANGED <<pc, tid, page, originalInsertPage, vpc, vlist, deadTids, vacuums>>
  BY ZenonT(30) DEF VacuumPage, heapVars, listVars, insVars
<1>2. searchPage \in 1 .. npages /\ searchPage \in Page /\ owner[searchPage] = vlist
  BY <1>1, Numbers, SMTT(30), Z3T(30) DEF IInv, VacuumInv, TypeOK, VacuumType, PageType
<1>3. \A b \in Page : \A e : e \in items'[b] <=>
        e \in items[b] /\ ~(b = searchPage /\ e.tid \in deadTids)
  BY <1>1, <1>2, Zenon DEF IInv, TypeOK, PageType, Deletable
<1>4. nextblkno[searchPage] \in 0 .. MaxPages
  BY <1>2, SMTT(30), Z3T(30) DEF IInv, TypeOK, PageType
<1> DEFINE D == {t \in deadTids : \E e \in items[searchPage] : e.tid = t}
<1>5. Indexed' = Indexed \ D
  <2>1. \A b, c \in Page : \A e \in items[b], f \in items[c] : e.tid = f.tid => b = c
    BY Zenon DEF IInv, EntryInv, OneEntry
  <2>2. ASSUME NEW t \in Indexed' PROVE t \in Indexed \ D
    <3>0. PICK b \in Page : \E e \in items'[b] : e.tid = t
      BY IndexedIffNext, Zenon
    <3>1. PICK e \in items'[b] : e.tid = t
      BY <3>0, Zenon
    <3>2. e \in items[b] /\ ~(b = searchPage /\ t \in deadTids)
      BY <1>3, <3>1, Zenon
    <3>3. t \notin D
      BY <1>2, <2>1, <3>1, <3>2, Zenon
    <3>. QED BY <3>1, <3>2, <3>3, IndexedIff, Zenon
  <2>3. ASSUME NEW t \in Indexed, t \notin D PROVE t \in Indexed'
    <3>0. PICK b \in Page : \E e \in items[b] : e.tid = t
      BY IndexedIff, Zenon
    <3>1. PICK e \in items[b] : e.tid = t
      BY <3>0, Zenon
    <3>2. e \in items'[b]
      BY <1>3, <2>3, <3>1, Zenon
    <3>. QED BY <3>1, <3>2, IndexedIffNext, Zenon
  <2>. QED BY <2>2, <2>3, Zenon
<1>6. TypeOK'
  <2>1. PageType'
    BY <1>1, <1>2, ZenonT(30) DEF IInv, TypeOK, PageType
  <2>2. VacuumType'
    BY <1>1, <1>2, <1>4, SMTT(30), Z3T(30) DEF IInv, TypeOK, VacuumType
  <2>3. HeapType' /\ ListType' /\ InsertType' /\ crashes' \in 0 .. MaxCrashes
    BY <1>1, Zenon DEF IInv, TypeOK, HeapType, ListType, InsertType
  <2>. QED BY <2>1, <2>2, <2>3, Zenon DEF TypeOK
<1>7. RowInv' /\ ChainInv' /\ ListInv' /\ InsertInv'
  <2>1. RowInv' /\ InsertInv'
    BY <1>1, SMTT(30), Z3T(30) DEF IInv, RowInv, InsertInv, ListOf, Indexable
  <2>2. ChainInv' /\ ListInv'
    BY <1>1, ChainKept, ListsKept, ZenonT(30) DEF IInv
  <2>. QED BY <2>1, <2>2, ZenonT(30)
<1>8. EntryInv'
  <2>1. \A b \in Page : items'[b] \subseteq items[b]
    BY <1>3, SMTT(30), Z3T(30)
  <2>2. EntryInv
    BY Zenon DEF IInv
  <2>3. \A b \in Page : \A e \in items[b] : heap[e.tid] # "unused"
    BY EntryRow, Zenon
  <2>. QED BY <1>1, <2>1, <2>2, <2>3, EntriesKept, ZenonT(30)
<1>9. HeldInv'
  <2>1. \A t \in D : heap[t] = "dead"
    BY SMTT(30), Z3T(30) DEF IInv, RowInv
  <2>2. \A p \in Inserters : pc[p] # "idle" => tid[p] \notin D
    BY InsertRow, ZenonT(30)
  <2> HIDE DEF D
  <2>. QED BY <1>1, <1>5, <2>1, <2>2, ZenonT(30) DEF IInv, HeldInv, Indexable
<1>10. VacuumInv'
  <2>1. \A b \in 1 .. npages : b \in Page
    BY PagesInUse, Zenon
  <2>2. nextblkno[searchPage] # Invalid =>
          /\ nextblkno[searchPage] <= npages /\ owner[nextblkno[searchPage]] = vlist
          /\ searchPage < nextblkno[searchPage]
          /\ \A c \in 1 .. npages :
               searchPage < c /\ c < nextblkno[searchPage] => owner[c] # vlist
    BY <1>2, Zenon DEF IInv, ChainInv
  <2>3. nextblkno[searchPage] = Invalid => \A c \in 1 .. npages : owner[c] = vlist => c <= searchPage
    BY <1>2, Zenon DEF IInv, ChainInv
  <2>4. vinsertPage' # Invalid => vinsertPage' <= npages /\ owner[vinsertPage'] = vlist
    BY <1>1, <1>2, Zenon DEF IInv, VacuumInv
  <2>5. ASSUME NEW b \in 1 .. npages,
               \/ owner[b] < vlist
               \/ owner[b] = vlist /\ (searchPage' = Invalid \/ b < searchPage')
        PROVE  \A e \in items'[b] : e.tid \notin deadTids
    <3>1. owner[b] < vlist \/ (owner[b] = vlist /\ b < searchPage) \/ b = searchPage
      BY <1>1, <1>2, <1>4, <2>2, <2>3, <2>5, Numbers, SMTT(30), Z3T(30)
    <3>2. owner[b] < vlist \/ (owner[b] = vlist /\ b < searchPage) =>
            \A e \in items[b] : e.tid \notin deadTids
      BY <1>1, Zenon DEF IInv, VacuumInv
    <3>. QED BY <1>3, <2>1, <3>1, <3>2, Zenon
  <2>. QED BY <1>1, <2>2, <2>4, <2>5, Zenon DEF VacuumInv
<1>11. D \in SUBSET deadTids
  BY Zenon
<1>. QED BY <1>1, <1>5, <1>6, <1>7, <1>8, <1>9, <1>10, <1>11, Zenon DEF IInv

LEMMA VacuumHeapStep ==
  ASSUME IInv, VacuumHeap
  PROVE  IInv' /\ deadTids \cap Indexed = {}
<1>1. /\ vpc = "heap" /\ vpc' = "idle" /\ deadTids' = {}
      /\ heap' = [t \in Tid |-> IF t \in deadTids THEN "unused" ELSE heap[t]]
      /\ vec' = [t \in Tid |-> IF t \in deadTids THEN NoVec ELSE vec[t]]
      /\ UNCHANGED <<items, nextblkno, npages, owner, startPage, insertPage, crashes>>
      /\ UNCHANGED <<pc, tid, page, originalInsertPage, vlist, searchPage, vinsertPage, vacuums>>
  BY ZenonT(30) DEF VacuumHeap, pageVars, listVars, insVars
<1>2. \A b \in Page : \A e \in items[b] : e.tid \in Tid \ deadTids
  BY <1>1, EntryRow, ZenonT(30) DEF IInv, VacuumInv
<1>3. deadTids \cap Indexed = {}
  BY <1>2, IndexedIff, ZenonT(30)
<1>4. \A t \in Tid \ deadTids : heap'[t] = heap[t] /\ vec'[t] = vec[t]
  BY <1>1, Zenon
<1>5. \A p \in Inserters : pc[p] # "idle" => tid[p] \in Tid \ deadTids
  BY InsertRow, ZenonT(30)
<1>6. PageType' /\ ListType' /\ ChainInv' /\ ListInv' /\ Indexed' = Indexed
  BY <1>1, PagesKept, ZenonT(30)
<1>7. HeapType'
  <2>1. CASE Tid = {}
    BY <1>1, <2>1, ZenonT(30) DEF HeapType
  <2>2. CASE Tid # {}
    <3>1. NoVec \in Vec
      BY <2>2, Zenon DEF NoVec, IInv, TypeOK, HeapType
    <3>. QED BY <1>1, <3>1, SMTT(30), Z3T(30) DEF IInv, TypeOK, HeapType
  <2>. QED BY <2>1, <2>2, ZenonT(30)
<1>8. InsertType' /\ VacuumType' /\ crashes' \in 0 .. MaxCrashes
  BY <1>1, Zenon DEF IInv, TypeOK, InsertType, VacuumType
<1>9. RowInv' /\ VacuumInv'
  BY <1>1, <1>4, <1>5, ZenonT(30) DEF IInv, RowInv, VacuumInv
<1>10. EntryInv'
  <2>1. \A b \in Page : \A e \in items[b] : heap[e.tid] # "unused"
    BY EntryRow, SMTT(30), Z3T(30)
  <2>2. EntryInv
    BY Zenon DEF IInv
  <2>3. UNCHANGED <<items, npages, owner>>
    BY <1>1, Zenon
  <2>4. \A b \in Page : \A e \in items[b] :
          heap'[e.tid] # "unused" /\ vec'[e.tid] = vec[e.tid]
    BY <1>2, <1>4, <2>1, Zenon
  <2>. QED BY <2>2, <2>3, <2>4, EntriesKept, ZenonT(30)
<1>11. HeldInv' /\ InsertInv'
  <2>1. \A t \in Tid : heap'[t] = "live" => t \in Tid \ deadTids
    BY <1>1, SMTT(30), Z3T(30)
  <2>. QED BY <1>1, <1>4, <1>5, <1>6, <2>1, ZenonT(30) DEF IInv, HeldInv, InsertInv, ListOf, Indexable
<1>. QED BY <1>3, <1>6, <1>7, <1>8, <1>9, <1>10, <1>11, Zenon DEF IInv, TypeOK

-----------------------------------------------------------------------------
LEMMA NextInv == IInv /\ [IndexNext]_indexVars => IInv'
<1> SUFFICES ASSUME IInv, [IndexNext]_indexVars PROVE IInv'
  BY ZenonT(30)
<1>1. ASSUME NEW p \in Inserters, NEW t \in Tid, NEW v \in Vec, HeapInsert(p, t, v) PROVE IInv'
  BY <1>1, HeapInsertStep, SMTT(30), Z3T(30)
<1>2. ASSUME NEW p \in Inserters, InsertStep(p) PROVE IInv'
  BY <1>2, FindInsertPageStep, InsertOnPageStep, MoveToNextPageStep, AppendPageStep,
     UpdateListStep, Zenon DEF InsertStep
<1>3. ASSUME NEW p \in Inserters,
             (\E outcome \in {"live", "dead"} : EndInsert(p, outcome)) \/ InsertError(p)
      PROVE  IInv'
  BY <1>3, EndInsertStep, ZenonT(30)
<1>4. ASSUME NEW t \in Tid, HeapDelete(t) PROVE IInv'
  BY <1>4, HeapDeleteStep, SMTT(30), Z3T(30)
<1>5. CASE VacuumStep \/ VacuumError
  BY <1>5, VacuumPageStep, VacuumUpdateListStep, VacuumHeapStep, VacuumErrorStep, Zenon
     DEF VacuumStep
<1>6. ASSUME NEW D \in SUBSET Tid, VacuumStart(D) PROVE IInv'
  BY <1>6, VacuumStartStep, Zenon
<1>7. CASE Crash
  BY <1>7, CrashStep, Zenon
<1>8. CASE UNCHANGED indexVars
  <2>1. UNCHANGED <<heap, vec, items, nextblkno, npages, owner, startPage, insertPage, crashes>>
        /\ UNCHANGED <<pc, tid, page, originalInsertPage>>
        /\ UNCHANGED <<vpc, vlist, searchPage, vinsertPage, deadTids, vacuums>>
    BY <1>8, ZenonT(30) DEF indexVars, heapVars, pageVars, listVars, insVars, vacVars
  <2>2. VacuumType' /\ VacuumInv' /\ ListType' /\ ListInv'
    BY <2>1, VacuumKept, PagesKept, ZenonT(30)
  <2>3. RowInv'
    BY <2>1, Zenon DEF IInv, RowInv
  <2>. QED BY <2>1, <2>2, <2>3, VacuumMoveStep, Zenon
<1>. QED BY <1>1, <1>2, <1>3, <1>4, <1>5, <1>6, <1>7, <1>8, ZenonT(30) DEF IndexNext, IndexStep

\* The inductive invariant: every state of ivfflatinsert and ivfflatbulkdelete, with errors and
\* crashes at any step, is as IInv says.
THEOREM Invariance == IndexSpec => []IInv
  BY InitInv, NextInv, PTL DEF IndexSpec

\* The pages and the records of the lists have their types: every nextblkno is a block of the
\* index or invalid, and insertPage and startPage always are blocks.
THEOREM TypeCorrect == IndexSpec => []TypeOK
<1>1. IInv => TypeOK
  BY Zenon DEF IInv
<1>. QED BY <1>1, Invariance, PTL

\* A row has at most one entry, with its own vector and in the list of the closest center, and
\* none when the heap may use its TID again: for any number of lists, pages, rows and backends.
THEOREM EntriesUnique == IndexSpec => []OneEntry
<1>1. IInv => OneEntry
  BY ZenonT(30) DEF IInv, EntryInv
<1>. QED BY <1>1, Invariance, PTL

\* A page of a list other than its first is the next page of one before it
LEMMA NextPageOf ==
  ASSUME IInv, NEW l \in List, NEW b \in 1 .. npages, owner[b] = l, b # startPage[l]
  PROVE  \E c \in 1 .. npages : c < b /\ owner[c] = l /\ nextblkno[c] = b
<1>1. /\ npages \in Nat /\ 1 .. npages \subseteq Page
      /\ startPage[l] \in Page /\ nextblkno \in [Page -> 0 .. MaxPages]
  <2>1. /\ npages \in 0 .. MaxPages /\ nextblkno \in [Page -> 0 .. MaxPages]
        /\ startPage \in [List -> Page]
    BY Zenon DEF IInv, TypeOK, PageType, ListType
  <2>2. npages \in Nat /\ startPage[l] \in Page
    BY <2>1, Numbers, SMTT(30), Z3T(30)
  <2>. QED BY <2>1, <2>2, PagesInUse, Zenon
<1>2. startPage[l] \in 1 .. npages /\ owner[startPage[l]] = l /\ startPage[l] < b
  BY <1>1, Numbers, SMTT(30), Z3T(30) DEF IInv, ListInv
<1> DEFINE T == {n \in Nat : \E c \in 1 .. npages : c < b /\ owner[c] = l /\ n = b - c}
<1>3. T \subseteq Nat /\ T # {}
  <2>1. b - startPage[l] \in T
    BY <1>1, <1>2, SMTT(30), Z3T(30)
  <2>. QED BY <2>1, Zenon
<1>4. PICK n \in T : \A m \in T : n <= m
  <2> HIDE DEF T
  <2>. QED BY <1>3, LeastNat, ZenonT(30)
<1>5. PICK c \in 1 .. npages : c < b /\ owner[c] = l /\ n = b - c
  BY <1>4, Zenon
<1>6. \A d \in 1 .. npages : d < b /\ owner[d] = l => d <= c
  <2> SUFFICES ASSUME NEW d \in 1 .. npages, d < b, owner[d] = l PROVE d <= c
    BY Zenon
  <2>1. b - d \in T
    BY <1>1, SMTT(30), Z3T(30)
  <2>2. n <= b - d
    BY <1>4, <2>1, Zenon
  <2>. QED BY <2>2, <1>5, <1>1, SMTT(30), Z3T(30)
<1> HIDE DEF T
<1>7. nextblkno[c] # Invalid
  <2>1. nextblkno[c] = Invalid => b <= c
    BY <1>5, Zenon DEF IInv, ChainInv
  <2>. QED BY <2>1, <1>5, <1>1, SMTT(30), Z3T(30)
<1>8. /\ c < nextblkno[c] /\ nextblkno[c] <= npages /\ owner[nextblkno[c]] = l
      /\ c < b /\ b < nextblkno[c] => owner[b] # l
  BY <1>5, <1>7, ZenonT(30) DEF IInv, ChainInv
<1>9. nextblkno[c] \in 1 .. npages
  BY <1>1, <1>8, SMTT(30), Z3T(30)
<1>. QED BY <1>1, <1>5, <1>6, <1>8, <1>9, SMTT(30), Z3T(30)

\* The walk over a list visits the pages of the list, and no others
LEMMA ChainPages ==
  ASSUME IInv, NEW l \in List
  PROVE  Chain(l) = {b \in 1 .. npages : owner[b] = l}
<1> DEFINE O == {b \in 1 .. npages : owner[b] = l}
<1>1. npages \in Nat /\ 1 .. npages \subseteq Page /\ startPage[l] \in Page
  <2>1. /\ npages \in 0 .. MaxPages /\ nextblkno \in [Page -> 0 .. MaxPages]
        /\ startPage \in [List -> Page]
    BY Zenon DEF IInv, TypeOK, PageType, ListType
  <2>2. npages \in Nat /\ startPage[l] \in Page
    BY <2>1, Numbers, SMTT(30), Z3T(30)
  <2>. QED BY <2>1, <2>2, PagesInUse, Zenon
<1>2. ASSUME NEW b \in Chain(l) PROVE b \in O
  <2>1. O \in SUBSET Page
    BY <1>1, Zenon
  <2>2. startPage[l] \in O
    BY <1>1, Numbers, SMTT(30), Z3T(30) DEF IInv, ListInv
  <2>3. \A c \in O : nextblkno[c] \in O \cup {Invalid}
    <3> SUFFICES ASSUME NEW c \in O, nextblkno[c] # Invalid PROVE nextblkno[c] \in O
      BY Zenon
    <3>1. c < nextblkno[c] /\ nextblkno[c] <= npages /\ owner[nextblkno[c]] = owner[c]
      BY SMTT(30), Z3T(30) DEF IInv, ChainInv
    <3>2. nextblkno[c] \in 0 .. MaxPages
      BY <1>1, ZenonT(30) DEF IInv, TypeOK, PageType
    <3>. QED BY <3>1, <3>2, <1>1, Numbers, SMTT(30), Z3T(30)
  <2> HIDE DEF O
  <2>. QED BY <2>1, <2>2, <2>3, ZenonT(30) DEF Chain
<1>3. ASSUME NEW b \in O PROVE b \in Chain(l)
  <2> SUFFICES ASSUME NEW S \in SUBSET Page, startPage[l] \in S,
                      \A c \in S : nextblkno[c] \in S \cup {Invalid}
               PROVE  O \subseteq S
    <3>1. b \in Page
      BY <1>1, Zenon
    <3> HIDE DEF O
    <3>. QED BY <1>3, <3>1, ZenonT(30) DEF Chain
  <2> SUFFICES ASSUME O \ S # {} PROVE FALSE
    BY Zenon
  <2>1. O \ S \subseteq Nat
    BY SMTT(30), Z3T(30)
  <2>2. PICK d \in O \ S : \A m \in O \ S : d <= m
    <3> HIDE DEF O
    <3>. QED BY <2>1, LeastNat, Zenon
  <2>3. d \in 1 .. npages /\ owner[d] = l /\ d # startPage[l]
    BY <2>2, ZenonT(30)
  <2>4. PICK c \in 1 .. npages : c < d /\ owner[c] = l /\ nextblkno[c] = d
    BY <2>3, NextPageOf, SMTT(30), Z3T(30)
  <2>5. c \in S
    BY <2>2, <2>4, SMTT(30), Z3T(30)
  <2>6. d # Invalid
    BY <2>3, Numbers, SMTT(30), Z3T(30)
  <2>. QED BY <2>2, <2>4, <2>5, <2>6, Zenon
<1> HIDE DEF O
<1>4. Chain(l) = O
  BY <1>2, <1>3, Zenon
<1>. QED BY <1>4, Zenon DEF O

\* Every page is on the chain of its one list, and chains grow in the order of the blocks:
\* for any number of lists and backends no two inserts append to the same page.
THEOREM ChainsDisjoint == IndexSpec => []ListsDisjoint
<1>1. IInv => ListsDisjoint
  <2> SUFFICES ASSUME IInv PROVE ListsDisjoint
    BY SMTT(30), Z3T(30)
  <2>1. \A l \in List : Chain(l) = {b \in 1 .. npages : owner[b] = l}
    BY ChainPages, Zenon
  <2>2. ASSUME NEW l \in List PROVE insertPage[l] \in {b \in 1 .. npages : owner[b] = l}
    <3>1. insertPage[l] <= npages /\ owner[insertPage[l]] = l
      BY Zenon DEF IInv, ListInv
    <3>2. insertPage \in [List -> Page] /\ npages \in 0 .. MaxPages
      BY Zenon DEF IInv, TypeOK, PageType, ListType
    <3>. QED BY <3>1, <3>2, Numbers, SMTT(30), Z3T(30)
  <2>3. ASSUME NEW l \in List PROVE insertPage[l] \in Chain(l)
    BY <2>1, <2>2, Zenon
  <2>4. \A b \in 1 .. npages : nextblkno[b] # Invalid => b < nextblkno[b] /\ nextblkno[b] <= npages
    BY Zenon DEF IInv, ChainInv
  <2>. QED BY <2>1, <2>3, <2>4, Zenon DEF ListsDisjoint
<1>. QED BY <1>1, Invariance, PTL

\* A committed row is found by the walk over its list, whatever inserts, vacuums, errors and
\* crashes there were.
THEOREM RowsFound == IndexSpec => []NothingLost
<1>1. IInv => NothingLost
  <2> SUFFICES ASSUME IInv PROVE NothingLost
    BY SMTT(30), Z3T(30)
  <2> SUFFICES ASSUME NEW t \in Tid, heap[t] = "live", Indexable(vec[t])
               PROVE  \E b \in Chain(ClosestList[vec[t]]) : EntryOf(t) \in items[b]
    BY Zenon DEF NothingLost
  <2>1. t \in Indexed
    BY Zenon DEF IInv, HeldInv
  <2>2. PICK b \in Page : \E e \in items[b] : e.tid = t
    BY <2>1, IndexedIff, Zenon
  <2>3. PICK e \in items[b] : e.tid = t
    BY <2>2, Zenon
  <2>4. /\ e \in Entry /\ b \in 1 .. npages /\ e.vec = vec[t]
        /\ owner[b] = ClosestList[vec[t]] /\ vec[t] \in Vec
    BY <2>3, EntryRow, Zenon
  <2>5. e = EntryOf(t)
    BY <2>3, <2>4, ZenonT(30) DEF EntryOf, Entry
  <2>6. ClosestList[vec[t]] \in List
    BY <2>4, ClosestListType, SMTT(30), Z3T(30)
  <2>7. b \in Chain(ClosestList[vec[t]])
    <3>1. Chain(ClosestList[vec[t]]) = {c \in 1 .. npages : owner[c] = ClosestList[vec[t]]}
      BY <2>6, ChainPages, ZenonT(30)
    <3>. QED BY <3>1, <2>4, Zenon
  <2>. QED BY <2>3, <2>5, <2>7, Zenon
<1>. QED BY <1>1, Invariance, PTL

\* ivfflatbulkdelete leaves no entry of a row it was to delete, although the lists grow and
\* their insert pages move while it walks over them without a lock.
THEOREM VacuumsComplete == IndexSpec => []VacuumComplete
<1>1. IInv => VacuumComplete
  BY Zenon DEF IInv, VacuumInv, VacuumComplete, Deletable
<1>. QED BY <1>1, Invariance, PTL

-----------------------------------------------------------------------------
(* The index implements IndexAM *)

LEMMA AMInit == Init => AM!Init
<1> SUFFICES ASSUME Init PROVE AM!Init
  BY SMTT(30), Z3T(30)
<1>1. heap \in [Tid -> {"unused", "live"}] /\ deadTids = {}
  BY ZenonT(30) DEF Init
<1>2. \A t \in Tid : RowOf[t] = IF heap[t] \in {"inserting", "live"} /\ ~Indexable(vec[t])
                                THEN "out" ELSE heap[t]
  BY Zenon DEF RowOf
<1>3. RowOf \in [Tid -> {"unused", "live", "out"}]
  BY <1>1, SMTT(30), Z3T(30) DEF RowOf
<1>4. Indexed = {t \in Tid : RowOf[t] = "live"}
  <2>1. Indexed = {t \in Tid : heap[t] = "live" /\ Indexable(vec[t])}
    BY BuiltEntries, Zenon
  <2>2. \A t \in Tid : RowOf[t] = "live" <=> heap[t] = "live" /\ Indexable(vec[t])
    BY <1>1, <1>2, Zenon
  <2>. QED BY <2>1, <2>2, Zenon
<1>. QED BY <1>1, <1>3, <1>4, Zenon DEF AM!Init

\* The row at a TID, in this state and the next
RowAt(t) == IF heap[t] \in {"inserting", "live"} /\ ~Indexable(vec[t]) THEN "out" ELSE heap[t]

LEMMA Rows ==
  /\ RowOf = [t \in Tid |-> RowAt(t)] /\ RowOf' = [t \in Tid |-> RowAt(t)']
  BY Zenon DEF RowOf, RowAt

\* A step that leaves the heap and the entries alone
LEMMA AMStutter ==
  ASSUME UNCHANGED <<heap, vec, items, deadTids>> PROVE UNCHANGED AM!vars
  BY Zenon DEF AM!vars, RowOf, Indexed

\* Rows that die, and nothing else
LEMMA AMDie ==
  ASSUME IInv, NEW T \in SUBSET Tid, \A t \in T : heap[t] # "unused" /\ heap'[t] = "dead",
         \A t \in Tid \ T : heap'[t] = heap[t],
         UNCHANGED <<vec, items>>, deadTids' \in {deadTids, {}}
  PROVE  AM!Die(T)
<1>1. Indexed' = Indexed
  BY ZenonT(30) DEF Indexed
<1>2. \A t \in T : RowOf[t] # "unused"
  BY Rows, SMTT(30), Z3T(30) DEF RowAt
<1>3. RowOf' = [t \in Tid |-> IF t \in T THEN "dead" ELSE RowOf[t]]
  <2>1. \A t \in Tid : RowAt(t)' = IF t \in T THEN "dead" ELSE RowAt(t)
    BY SMTT(30), Z3T(30) DEF RowAt, Indexable
  <2>. QED BY <2>1, Rows, Zenon
<1>. QED BY <1>1, <1>2, <1>3, SMTT(30), Z3T(30) DEF AM!Die

LEMMA AMBegin ==
  ASSUME IInv, NEW p \in Inserters, NEW t \in Tid, NEW v \in Vec, HeapInsert(p, t, v)
  PROVE  AM!Begin(t)
<1>1. /\ heap[t] = "unused" /\ UNCHANGED <<items, deadTids>>
      /\ heap' = [heap EXCEPT ![t] = "inserting"] /\ vec' = [vec EXCEPT ![t] = v]
  BY Zenon DEF HeapInsert, pageVars, vacVars
<1>2. t \notin Indexed /\ Indexed' = Indexed
  <2>1. t \notin Indexed
    BY <1>1, UnusedRow, Zenon
  <2>. QED BY <1>1, <2>1, Zenon DEF Indexed
<1>3. RowOf[t] = "unused"
  BY <1>1, Rows, Zenon DEF RowAt
<1>4. /\ \A u \in Tid \ {t} : RowAt(u)' = RowAt(u)
      /\ RowAt(t)' \in {"inserting", "out"}
  BY <1>1, SMTT(30), Z3T(30) DEF RowAt, Indexable, IInv, TypeOK, HeapType
<1>5. RowOf' = [RowOf EXCEPT ![t] = RowAt(t)']
  BY <1>4, Rows, Zenon
<1>. QED BY <1>1, <1>2, <1>3, <1>4, <1>5, Zenon DEF AM!Begin

LEMMA AMInsert ==
  ASSUME IInv, NEW p \in Inserters, InsertOnPage(p) \/ InsertOnNewPage(p)
  PROVE  AM!Insert(tid[p]) /\ tid[p] \in Tid
<1>1. /\ Indexed' = Indexed \cup {tid[p]} /\ tid[p] \notin Indexed /\ Indexable(vec[tid[p]])
      /\ UNCHANGED <<heap, vec, deadTids>> /\ pc[p] # "idle"
  BY InsertOnPageStep, Zenon
<1>2. tid[p] \in Tid /\ heap[tid[p]] = "inserting"
  BY <1>1, InsertRow, ZenonT(30)
<1>3. RowOf[tid[p]] = "inserting"
  BY <1>1, <1>2, Rows, Zenon DEF RowAt
<1>4. RowOf' = [RowOf EXCEPT ![tid[p]] = "inserting"]
  <2>1. RowOf' = RowOf
    BY <1>1, ZenonT(30) DEF RowOf
  <2>. QED BY <1>2, <1>3, <2>1, Rows, Zenon
<1>. QED BY <1>1, <1>2, <1>3, <1>4, Zenon DEF AM!Insert

LEMMA AMEndInsert ==
  ASSUME IInv, NEW p \in Inserters,
         (\E outcome \in {"live", "dead"} : EndInsert(p, outcome)) \/ InsertError(p)
  PROVE  AM!Next \/ UNCHANGED AM!vars
<1>1. PICK outcome \in {"live", "dead"} :
        /\ pc[p] # "idle" /\ (outcome = "live" => pc[p] = "done")
        /\ heap' = [heap EXCEPT ![tid[p]] = outcome]
        /\ UNCHANGED <<vec, items, deadTids>>
  BY Zenon DEF EndInsert, InsertError, pageVars, vacVars
<1>2. tid[p] \in Tid /\ heap[tid[p]] = "inserting"
  BY <1>1, InsertRow, Zenon
<1>3. heap'[tid[p]] = outcome /\ \A t \in Tid \ {tid[p]} : heap'[t] = heap[t]
  BY <1>1, <1>2, Zenon DEF IInv, TypeOK, HeapType
<1>4. CASE outcome = "dead"
  <2>1. AM!Die({tid[p]})
    BY <1>1, <1>2, <1>3, <1>4, AMDie, Zenon
  <2>. QED BY <1>2, <2>1, Zenon DEF AM!Next
<1>5. CASE outcome = "live" /\ Indexable(vec[tid[p]])
  <2>1. tid[p] \in Indexed
    BY <1>1, <1>5, Zenon DEF IInv, HeldInv
  <2>2. RowOf[tid[p]] = "inserting"
    BY <1>2, <1>5, Rows, Zenon DEF RowAt
  <2>3. \A t \in Tid \ {tid[p]} : RowAt(t)' = RowAt(t)
    BY <1>1, <1>3, <1>5, Zenon DEF RowAt, Indexable
  <2>4. RowOf' = [RowOf EXCEPT ![tid[p]] = "live"]
    <3>1. PICK u : u = tid[p]
      BY Zenon
    <3>2. u \in Tid
      BY <1>2, <3>1, SMTT(30), Z3T(30)
    <3>3. \A t \in Tid : RowAt(t)' = IF t = u THEN "live" ELSE RowAt(t)
      <4>1. ASSUME NEW t \in Tid, t = u PROVE RowAt(t)' = "live"
        BY <1>1, <1>3, <1>5, <3>1, <4>1, Zenon DEF RowAt, Indexable
      <4>. QED BY <2>3, <3>1, <4>1, ZenonT(30)
    <3>4. RowOf' = [RowOf EXCEPT ![u] = "live"]
      BY <3>2, <3>3, Rows, SMTT(30), Z3T(30)
    <3>. QED BY <3>1, <3>4, Zenon
  <2>5. Indexed' = Indexed
    BY <1>1, Zenon DEF Indexed
  <2>6. AM!Commit(tid[p])
    BY <1>1, <2>1, <2>2, <2>4, <2>5, Zenon DEF AM!Commit
  <2>. QED BY <1>2, <2>6, Zenon DEF AM!Next
<1>6. CASE outcome = "live" /\ ~Indexable(vec[tid[p]])
  <2>1. \A t \in Tid : RowAt(t)' = RowAt(t)
    BY <1>1, <1>2, <1>3, <1>6, Zenon DEF RowAt, Indexable
  <2>2. RowOf' = RowOf
    BY <2>1, Rows, Zenon
  <2>. QED BY <1>1, <2>2, ZenonT(30) DEF AM!vars, Indexed
<1>. QED BY <1>4, <1>5, <1>6, Zenon

LEMMA AMCrash ==
  ASSUME IInv, Crash
  PROVE  \E T \in SUBSET Tid : AM!Die(T)
<1> DEFINE T == {t \in Tid : heap[t] = "inserting"}
<1>1. /\ heap' = [t \in Tid |-> IF heap[t] = "inserting" THEN "dead" ELSE heap[t]]
      /\ UNCHANGED <<vec, items>> /\ deadTids' = {}
  BY Zenon DEF Crash, pageVars
<1>2. /\ \A t \in T : heap[t] # "unused" /\ heap'[t] = "dead"
      /\ \A t \in Tid \ T : heap'[t] = heap[t]
  BY <1>1, SMTT(30), Z3T(30)
<1>3. T \in SUBSET Tid
  BY Zenon
<1> HIDE DEF T
<1>4. AM!Die(T)
  BY <1>1, <1>2, <1>3, AMDie, Zenon
<1>. QED BY <1>3, <1>4, Zenon

LEMMA AMVacuumStart ==
  ASSUME IInv, NEW D \in SUBSET Tid, VacuumStart(D)
  PROVE  AM!BulkDelete(D)
<1>1. /\ vpc = "idle" /\ \A t \in D : heap[t] = "dead"
      /\ deadTids' = D /\ UNCHANGED <<heap, vec, items>>
  BY Zenon DEF VacuumStart, heapVars, pageVars
<1>2. deadTids = {}
  BY <1>1, ZenonT(30) DEF IInv, RowInv
<1>3. \A t \in D : RowOf[t] = "dead"
  BY <1>1, Rows, ZenonT(30) DEF RowAt
<1>4. UNCHANGED <<RowOf, Indexed>>
  BY <1>1, Zenon DEF RowOf, Indexed
<1>. QED BY <1>1, <1>2, <1>3, <1>4, ZenonT(30) DEF AM!BulkDelete

LEMMA AMRemove ==
  ASSUME IInv, VacuumPage
  PROVE  \E D \in SUBSET Tid : AM!Remove(D)
<1>1. UNCHANGED <<heap, vec, deadTids>>
  BY VacuumPageStep, Zenon
<1>2. PICK D \in SUBSET deadTids : Indexed' = Indexed \ D
  BY VacuumPageStep, SMTT(30), Z3T(30)
<1>3. RowOf' = RowOf /\ deadTids \subseteq Tid
  BY <1>1, ZenonT(30) DEF RowOf, IInv, TypeOK, VacuumType
<1>. QED BY <1>1, <1>2, <1>3, Zenon DEF AM!Remove

LEMMA AMFree ==
  ASSUME IInv, VacuumHeap
  PROVE  AM!Free
<1>1. /\ heap' = [t \in Tid |-> IF t \in deadTids THEN "unused" ELSE heap[t]]
      /\ vec' = [t \in Tid |-> IF t \in deadTids THEN NoVec ELSE vec[t]]
      /\ UNCHANGED items /\ deadTids' = {}
  BY Zenon DEF VacuumHeap, pageVars
<1>2. deadTids \cap Indexed = {}
  BY VacuumHeapStep, SMTT(30), Z3T(30)
<1>3. Indexed' = Indexed
  BY <1>1, Zenon DEF Indexed
<1>4. RowOf' = [t \in Tid |-> IF t \in deadTids THEN "unused" ELSE RowOf[t]]
  <2>1. \A t \in Tid : RowAt(t)' = IF t \in deadTids THEN "unused" ELSE RowAt(t)
    BY <1>1, SMTT(30), Z3T(30) DEF RowAt, Indexable
  <2>. QED BY <2>1, Rows, ZenonT(30)
<1>. QED BY <1>1, <1>2, <1>3, <1>4, Zenon DEF AM!Free

LEMMA AMNext == IInv /\ [IndexNext]_indexVars => [AM!Next]_(AM!vars)
<1> SUFFICES ASSUME IInv, [IndexNext]_indexVars PROVE AM!Next \/ UNCHANGED AM!vars
  BY SMTT(30), Z3T(30)
<1>1. ASSUME NEW p \in Inserters, NEW t \in Tid, NEW v \in Vec, HeapInsert(p, t, v)
      PROVE  AM!Next
  BY <1>1, AMBegin, Zenon DEF AM!Next
<1>2. ASSUME NEW p \in Inserters, InsertStep(p) PROVE AM!Next \/ UNCHANGED AM!vars
  <2>1. CASE InsertOnPage(p) \/ InsertOnNewPage(p)
    BY <2>1, AMInsert, Zenon DEF AM!Next
  <2>2. CASE FindInsertPage(p) \/ MoveToNextPage(p) \/ AppendPage(p) \/ UpdateList(p)
    <3>1. UNCHANGED <<heap, vec, items, deadTids>>
      BY <2>2, Zenon DEF FindInsertPage, MoveToNextPage, AppendPage, UpdateList, heapVars,
         pageVars, vacVars
    <3>. QED BY <3>1, AMStutter, Zenon
  <2>. QED BY <1>2, <2>1, <2>2, Zenon DEF InsertStep
<1>3. ASSUME NEW p \in Inserters,
             (\E outcome \in {"live", "dead"} : EndInsert(p, outcome)) \/ InsertError(p)
      PROVE  AM!Next \/ UNCHANGED AM!vars
  BY <1>3, AMEndInsert, Zenon
<1>4. ASSUME NEW t \in Tid, HeapDelete(t) PROVE AM!Next
  <2>1. /\ heap[t] = "live" /\ heap' = [heap EXCEPT ![t] = "dead"]
        /\ UNCHANGED <<vec, items, deadTids>>
    BY <1>4, Zenon DEF HeapDelete, pageVars, vacVars
  <2>2. heap'[t] = "dead" /\ \A u \in Tid \ {t} : heap'[u] = heap[u]
    BY <2>1, Zenon DEF IInv, TypeOK, HeapType
  <2>3. AM!Die({t})
    BY <2>1, <2>2, AMDie, ZenonT(30)
  <2>. QED BY <2>3, SMTT(30), Z3T(30) DEF AM!Next
<1>5. CASE VacuumStep
  <2>1. CASE VacuumPage
    BY <2>1, AMRemove, Zenon DEF AM!Next
  <2>2. CASE VacuumUpdateList
    <3>1. UNCHANGED <<heap, vec, items, deadTids>>
      BY <2>2, Zenon DEF VacuumUpdateList, heapVars, pageVars
    <3>. QED BY <3>1, AMStutter, ZenonT(30)
  <2>3. CASE VacuumHeap
    BY <2>3, AMFree, Zenon DEF AM!Next
  <2>. QED BY <1>5, <2>1, <2>2, <2>3, Zenon DEF VacuumStep
<1>6. CASE VacuumError
  <2>1. UNCHANGED <<heap, vec, items>> /\ deadTids' = {}
    BY <1>6, Zenon DEF VacuumError, heapVars, pageVars
  <2>2. AM!Die({})
    BY <2>1, AMDie, ZenonT(30)
  <2>. QED BY <2>2, SMTT(30), Z3T(30) DEF AM!Next
<1>7. ASSUME NEW D \in SUBSET Tid, VacuumStart(D) PROVE AM!Next
  BY <1>7, AMVacuumStart, Zenon DEF AM!Next
<1>8. CASE Crash
  BY <1>8, AMCrash, Zenon DEF AM!Next
<1>9. CASE UNCHANGED indexVars
  <2>1. UNCHANGED <<heap, vec, items, deadTids>>
    BY <1>9, Zenon DEF indexVars, heapVars, pageVars, vacVars
  <2>. QED BY <2>1, AMStutter, SMTT(30), Z3T(30)
<1>. QED
  BY <1>1, <1>2, <1>3, <1>4, <1>5, <1>6, <1>7, <1>8, <1>9, ZenonT(30) DEF IndexNext, IndexStep

\* ivfflatinsert and ivfflatbulkdelete implement what PostgreSQL asks of an index: the initial
\* states map to initial states of IndexAM, and every step is one of its steps or changes
\* neither the rows nor the set of indexed heap TIDs.
THEOREM Refinement == IndexSpec => IvfflatKeepsTids
  BY AMInit, AMNext, Invariance, PTL DEF IndexSpec, IvfflatKeepsTids, AM!Spec
=============================================================================
