---------------------------- MODULE IvfflatIndex ----------------------------
(***************************************************************************)
(* The entry pages of an ivfflat index under concurrent inserts            *)
(* (ivfflatinsert) and a vacuum (ivfflatbulkdelete).                       *)
(*                                                                         *)
(* A list is a chain of entry pages.  Its record on a list page holds its  *)
(* center and its startPage, which never change after the build, and its   *)
(* insertPage.  A page is read or written under its buffer lock in one     *)
(* step; only a page that an insert has just appended stays locked over    *)
(* two steps.  The order of the entries on a page is left out.  A vector   *)
(* is an integer, the distance of two vectors their absolute difference.   *)
(***************************************************************************)
EXTENDS Integers, FiniteSets, Sequences

CONSTANTS
  Centers,      \* the centers of the lists, a sequence
  Vec,          \* the vectors of the rows
  ZeroNorm,     \* those of norm zero, which a cosine index leaves out
  Tid,          \* heap TIDs
  NoTid,        \* no row
  Inserters,    \* the backends that insert
  PageSize,     \* the entries that fit on a page
  MaxPages,     \* bound: the entry pages of the index
  MaxVacuums,   \* bound: the vacuums of a behaviour
  MaxCrashes    \* bound: the crashes of a behaviour

List == 1 .. Len(Centers)
Page == 1 .. MaxPages
Invalid == 0      \* InvalidBlockNumber

ASSUME IvfflatAssumption ==
  /\ Centers \in Seq(Int) /\ Centers # <<>>
  /\ Vec \subseteq Int /\ ZeroNorm \subseteq Vec
  /\ NoTid \notin Tid
  /\ PageSize \in Nat \ {0} /\ MaxPages \in Nat
  /\ MaxVacuums \in Nat /\ MaxCrashes \in Nat

VARIABLES
  heap,         \* the state of the row at each heap TID
  vec,          \* its vector
  items,        \* the entries of each page
  nextblkno,    \* the next page of its list
  npages,       \* the pages of the relation
  startPage, insertPage,                                  \* of each list
  pc, tid, page, originalInsertPage,                      \* of each inserter
  vpc, vlist, searchPage, vinsertPage, deadTids, vacuums, \* of the vacuum
  crashes,
  owner         \* history: the list a page was added to

heapVars == <<heap, vec>>
pageVars == <<items, nextblkno, npages, owner>>
listVars == <<startPage, insertPage>>
insVars == <<pc, tid, page, originalInsertPage>>
vacVars == <<vpc, vlist, searchPage, vinsertPage, deadTids, vacuums>>
indexVars == <<heapVars, pageVars, listVars, insVars, vacVars, crashes>>

Entry == [tid : Tid, vec : Vec]

HeapType ==
  heap \in [Tid -> {"unused", "inserting", "live", "dead"}] /\ vec \in [Tid -> Vec]

PageType ==
  /\ items \in [Page -> SUBSET Entry] /\ nextblkno \in [Page -> 0 .. MaxPages]
  /\ npages \in 0 .. MaxPages /\ owner \in [Page -> List]

ListType == startPage \in [List -> Page] /\ insertPage \in [List -> Page]

InsertType ==
  /\ pc \in [Inserters -> {"idle", "find", "page", "newpage", "update", "done"}]
  /\ tid \in [Inserters -> Tid \cup {NoTid}]
  /\ page \in [Inserters -> 0 .. MaxPages]
  /\ originalInsertPage \in [Inserters -> 0 .. MaxPages]

VacuumType ==
  /\ vpc \in {"idle", "pages", "heap"} /\ vlist \in List
  /\ searchPage \in 0 .. MaxPages /\ vinsertPage \in 0 .. MaxPages
  /\ deadTids \subseteq Tid /\ vacuums \in 0 .. MaxVacuums

\* The pages, the records of the lists and the local state of the backends hold what their C
\* types say, and every link is a block of the index or InvalidBlockNumber.
TypeOK ==
  HeapType /\ PageType /\ ListType /\ InsertType /\ VacuumType /\ crashes \in 0 .. MaxCrashes

-----------------------------------------------------------------------------
\* The distance function of the operator class
Distance(x, y) == IF x >= y THEN x - y ELSE y - x

\* The list of a vector: the first of those with the least distance
ClosestList ==
  [v \in Vec |->
    CHOOSE l \in List :
      /\ \A k \in List : Distance(v, Centers[l]) <= Distance(v, Centers[k])
      /\ \A k \in 1 .. l - 1 : Distance(v, Centers[l]) < Distance(v, Centers[k])]

\* IvfflatCheckNorm, for the rows of a build and for an insert
Indexable(v) == v \notin ZeroNorm

EntryOf(t) == [tid |-> t, vec |-> vec[t]]
HasSpace(b) == Cardinality(items[b]) < PageSize

\* The page an insert has appended is locked until the insert has put its entry on it
Locked(b) == \E p \in Inserters : pc[p] = "newpage" /\ page[p] = b

\* The list an inserter has chosen
ListOf(p) == ClosestList[vec[tid[p]]]

Go(p, where) == pc' = [pc EXCEPT ![p] = where]

\* The index that a build leaves: the lists follow each other, each on pages that are
\* full but for its last one, at which inserts begin
Built ==
  /\ npages \in Len(Centers) .. MaxPages
  /\ startPage \in [List -> 1 .. npages] /\ startPage[1] = 1
  /\ \A k, l \in List : k < l => startPage[k] < startPage[l]
  /\ insertPage = [l \in List |-> IF l = Len(Centers) THEN npages ELSE startPage[l + 1] - 1]
  /\ owner \in [Page -> List]
  /\ \A b \in Page : /\ startPage[owner[b]] <= b
                     /\ \A l \in List : startPage[l] <= b => l <= owner[b]
  /\ nextblkno = [b \in Page |-> IF b >= npages \/ b = insertPage[owner[b]] THEN Invalid ELSE b + 1]
  /\ \E place \in [Tid -> 0 .. npages] :
       /\ \A t \in Tid : IF heap[t] = "live" /\ Indexable(vec[t])
                         THEN place[t] # Invalid /\ owner[place[t]] = ClosestList[vec[t]]
                         ELSE place[t] = Invalid
       /\ items = [b \in Page |-> {EntryOf(t) : t \in {u \in Tid : place[u] = b}}]
  /\ \A b \in Page :
       /\ Cardinality(items[b]) <= PageSize
       /\ nextblkno[b] # Invalid => Cardinality(items[b]) = PageSize
                                    /\ items[b + 1] # {}

\* The vector of a heap TID that is not in use
NoVec == CHOOSE v \in Vec : TRUE

Init ==
  /\ heap \in [Tid -> {"unused", "live"}] /\ vec \in [Tid -> Vec]
  /\ \A t \in Tid : heap[t] = "unused" => vec[t] = NoVec
  /\ Built
  /\ pc = [p \in Inserters |-> "idle"] /\ tid = [p \in Inserters |-> NoTid]
  /\ page = [p \in Inserters |-> Invalid]
  /\ originalInsertPage = [p \in Inserters |-> Invalid]
  /\ vpc = "idle" /\ vlist = 1 /\ searchPage = Invalid /\ vinsertPage = Invalid
  /\ deadTids = {} /\ vacuums = 0 /\ crashes = 0

-----------------------------------------------------------------------------
\* External: a backend adds a row to the heap, and calls ivfflatinsert.  The bound leaves
\* room for the page of every insert that is under way
HeapInsert(p, t, v) ==
  /\ pc[p] = "idle" /\ heap[t] = "unused"
  /\ npages + Cardinality({q \in Inserters : pc[q] \in {"find", "page"}}) < MaxPages
  /\ heap' = [heap EXCEPT ![t] = "inserting"] /\ vec' = [vec EXCEPT ![t] = v]
  /\ tid' = [tid EXCEPT ![p] = t] /\ Go(p, "find")
  /\ UNCHANGED <<pageVars, listVars, page, originalInsertPage, vacVars, crashes>>

\* InsertTuple leaves out a vector of norm zero, and reads the insert page of the list
\* with the closest center: the centers do not change, so the walk over the list pages
\* is the read of that one list
FindInsertPage(p) ==
  /\ pc[p] = "find"
  /\ IF Indexable(vec[tid[p]])
     THEN /\ page' = [page EXCEPT ![p] = insertPage[ListOf(p)]]
          /\ originalInsertPage' = [originalInsertPage EXCEPT ![p] = insertPage[ListOf(p)]]
          /\ Go(p, "page")
     ELSE Go(p, "done") /\ UNCHANGED <<page, originalInsertPage>>
  /\ UNCHANGED <<heapVars, pageVars, listVars, tid, vacVars, crashes>>

\* PageAddItem, with the page locked
AddItem(p, b) ==
  /\ items' = [items EXCEPT ![b] = @ \cup {EntryOf(tid[p])}]
  /\ Go(p, IF b # originalInsertPage[p] THEN "update" ELSE "done")
  /\ UNCHANGED <<tid, page, originalInsertPage>>

\* The page has space for the entry
InsertOnPage(p) ==
  /\ pc[p] = "page" /\ ~Locked(page[p]) /\ HasSpace(page[p])
  /\ AddItem(p, page[p])
  /\ UNCHANGED <<heapVars, nextblkno, npages, owner, listVars, vacVars, crashes>>

\* The page is full and is not the last one of the list
MoveToNextPage(p) ==
  /\ pc[p] = "page" /\ ~Locked(page[p]) /\ ~HasSpace(page[p])
  /\ nextblkno[page[p]] # Invalid
  /\ page' = [page EXCEPT ![p] = nextblkno[page[p]]]
  /\ UNCHANGED <<heapVars, pageVars, listVars, pc, tid, originalInsertPage, vacVars, crashes>>

\* Mutant: the link to the next page is not looked at
AppendPageAlways(p) ==
  /\ pc[p] = "page" /\ ~Locked(page[p]) /\ ~HasSpace(page[p])
  /\ npages < MaxPages
  /\ npages' = npages + 1
  /\ nextblkno' = [nextblkno EXCEPT ![page[p]] = npages + 1]
  /\ owner' = [owner EXCEPT ![npages + 1] = ListOf(p)]
  /\ page' = [page EXCEPT ![p] = npages + 1] /\ Go(p, "newpage")
  /\ UNCHANGED <<heapVars, items, listVars, tid, originalInsertPage, vacVars, crashes>>

\* The page is full and the last one: a new page is linked to it in one WAL record, and
\* stays locked
AppendPage(p) ==
  /\ pc[p] = "page" /\ ~Locked(page[p]) /\ ~HasSpace(page[p])
  /\ nextblkno[page[p]] = Invalid /\ npages < MaxPages
  /\ npages' = npages + 1
  /\ nextblkno' = [nextblkno EXCEPT ![page[p]] = npages + 1]
  /\ owner' = [owner EXCEPT ![npages + 1] = ListOf(p)]
  /\ page' = [page EXCEPT ![p] = npages + 1] /\ Go(p, "newpage")
  /\ UNCHANGED <<heapVars, items, listVars, tid, originalInsertPage, vacVars, crashes>>

InsertOnNewPage(p) ==
  /\ pc[p] = "newpage"
  /\ AddItem(p, page[p])
  /\ UNCHANGED <<heapVars, nextblkno, npages, owner, listVars, vacVars, crashes>>

\* IvfflatUpdateList, called with the insert page read before, or with none by a vacuum
NewInsertPage(l, b, original) ==
  IF original = Invalid \/ b >= original
  THEN [insertPage EXCEPT ![l] = b] ELSE insertPage

UpdateList(p) ==
  /\ pc[p] = "update"
  /\ insertPage' = NewInsertPage(ListOf(p), page[p], originalInsertPage[p])
  /\ Go(p, "done")
  /\ UNCHANGED <<heapVars, pageVars, startPage, tid, page, originalInsertPage, vacVars, crashes>>

\* The row is dropped from the backend's state
Forget(p) ==
  /\ tid' = [tid EXCEPT ![p] = NoTid] /\ page' = [page EXCEPT ![p] = Invalid]
  /\ originalInsertPage' = [originalInsertPage EXCEPT ![p] = Invalid]
  /\ Go(p, "idle")

\* External: the inserting transaction commits or aborts
EndInsert(p, outcome) ==
  /\ pc[p] = "done" /\ outcome \in {"live", "dead"}
  /\ heap' = [heap EXCEPT ![tid[p]] = outcome]
  /\ Forget(p)
  /\ UNCHANGED <<vec, pageVars, listVars, vacVars, crashes>>

\* External: an error while no buffer is locked, for one when a page cannot be read
InsertError(p) ==
  /\ pc[p] \in {"find", "page", "update"}
  /\ heap' = [heap EXCEPT ![tid[p]] = "dead"]
  /\ Forget(p)
  /\ UNCHANGED <<vec, pageVars, listVars, vacVars, crashes>>

\* External: a transaction that deletes a row commits
HeapDelete(t) ==
  /\ heap[t] = "live"
  /\ heap' = [heap EXCEPT ![t] = "dead"]
  /\ UNCHANGED <<vec, pageVars, listVars, insVars, vacVars, crashes>>

-----------------------------------------------------------------------------
\* Mutant: the walk begins at the insert page
BeginListAtInsertPage(l) ==
  /\ vlist' = l /\ searchPage' = insertPage[l] /\ vinsertPage' = Invalid

\* The start pages, which do not change, are read from the list page
BeginList(l) ==
  /\ vlist' = l /\ searchPage' = startPage[l] /\ vinsertPage' = Invalid

\* A vacuum has found that no snapshot sees the rows D any more
VacuumStart(D) ==
  /\ vpc = "idle" /\ vacuums < MaxVacuums
  /\ D # {} /\ \A t \in D : heap[t] = "dead"
  /\ deadTids' = D /\ vacuums' = vacuums + 1
  /\ BeginList(1) /\ vpc' = "pages"
  /\ UNCHANGED <<heapVars, pageVars, listVars, insVars, crashes>>

Deletable(b) == {e \in items[b] : e.tid \in deadTids}

\* Mutant: the walk ends at the insert page
VacuumPageToInsertPage ==
  /\ vpc = "pages" /\ searchPage # Invalid /\ ~Locked(searchPage)
  /\ items' = [items EXCEPT ![searchPage] = @ \ Deletable(searchPage)]
  /\ vinsertPage' = IF vinsertPage = Invalid /\ Deletable(searchPage) # {}
                    THEN searchPage ELSE vinsertPage
  /\ searchPage' = IF searchPage = insertPage[vlist] THEN Invalid ELSE nextblkno[searchPage]
  /\ UNCHANGED <<heapVars, nextblkno, npages, owner, listVars, insVars, vpc, vlist, deadTids,
                 vacuums, crashes>>

\* One page of the list: its dead entries are deleted under a cleanup lock
VacuumPage ==
  /\ vpc = "pages" /\ searchPage # Invalid /\ ~Locked(searchPage)
  /\ items' = [items EXCEPT ![searchPage] = @ \ Deletable(searchPage)]
  /\ vinsertPage' = IF vinsertPage = Invalid /\ Deletable(searchPage) # {}
                    THEN searchPage ELSE vinsertPage
  /\ searchPage' = nextblkno[searchPage]
  /\ UNCHANGED <<heapVars, nextblkno, npages, owner, listVars, insVars, vpc, vlist, deadTids,
                 vacuums, crashes>>

\* After the last page, inserts are sent to the first page that has lost an entry
VacuumUpdateList ==
  /\ vpc = "pages" /\ searchPage = Invalid
  /\ IF vinsertPage # Invalid
     THEN insertPage' = NewInsertPage(vlist, vinsertPage, Invalid)
     ELSE UNCHANGED insertPage
  /\ IF vlist < Len(Centers)
     THEN BeginList(vlist + 1) /\ UNCHANGED vpc
     ELSE vpc' = "heap" /\ UNCHANGED <<vlist, searchPage, vinsertPage>>
  /\ UNCHANGED <<heapVars, pageVars, startPage, insVars, deadTids, vacuums, crashes>>

\* The vacuum is cancelled (vacuum_delay_point), or a page cannot be read
VacuumError ==
  /\ vpc = "pages"
  /\ vpc' = "idle" /\ deadTids' = {}
  /\ UNCHANGED <<heapVars, pageVars, listVars, insVars, vlist, searchPage, vinsertPage, vacuums,
                 crashes>>

\* External: the heap TIDs of the rows become free for new rows
VacuumHeap ==
  /\ vpc = "heap"
  /\ heap' = [t \in Tid |-> IF t \in deadTids THEN "unused" ELSE heap[t]]
  /\ vec' = [t \in Tid |-> IF t \in deadTids THEN NoVec ELSE vec[t]]
  /\ vpc' = "idle" /\ deadTids' = {}
  /\ UNCHANGED <<pageVars, listVars, insVars, vlist, searchPage, vinsertPage, vacuums,
                 crashes>>

\* External: every backend stops; each page is as its last WAL record left it
Crash ==
  /\ crashes < MaxCrashes
  /\ crashes' = crashes + 1
  /\ heap' = [t \in Tid |-> IF heap[t] = "inserting" THEN "dead" ELSE heap[t]]
  /\ pc' = [p \in Inserters |-> "idle"] /\ tid' = [p \in Inserters |-> NoTid]
  /\ page' = [p \in Inserters |-> Invalid]
  /\ originalInsertPage' = [p \in Inserters |-> Invalid]
  /\ vpc' = "idle" /\ deadTids' = {}
  /\ UNCHANGED <<vec, pageVars, listVars, vlist, searchPage, vinsertPage, vacuums>>

InsertStep(p) ==
  \/ FindInsertPage(p) \/ InsertOnPage(p) \/ MoveToNextPage(p) \/ AppendPage(p)
  \/ InsertOnNewPage(p) \/ UpdateList(p)

VacuumStep == VacuumPage \/ VacuumUpdateList \/ VacuumHeap

\* Every step but the start of a vacuum and a crash
IndexStep ==
  \/ \E p \in Inserters :
       \/ \E t \in Tid, v \in Vec : HeapInsert(p, t, v)
       \/ InsertStep(p)
       \/ \E outcome \in {"live", "dead"} : EndInsert(p, outcome)
       \/ InsertError(p)
  \/ \E t \in Tid : HeapDelete(t)
  \/ VacuumStep
  \/ VacuumError

IndexNext ==
  \/ IndexStep
  \/ \E D \in SUBSET Tid : VacuumStart(D)
  \/ Crash

IndexSpec == Init /\ [][IndexNext]_indexVars

\* A backend that inserts, and a vacuum, are scheduled until they are done
IndexFairness ==
  /\ \A p \in Inserters : WF_indexVars(InsertStep(p))
  /\ WF_indexVars(VacuumStep)

-----------------------------------------------------------------------------
\* The pages that a walk from the start page of a list visits: the least set of pages with
\* the start page and, with each page, the next one
Chain(l) ==
  {b \in Page : \A S \in SUBSET Page :
     /\ startPage[l] \in S
     /\ \A c \in S : nextblkno[c] \in S \cup {Invalid}
     => b \in S}

\* Every page of the index is on the chain of one list, in the order of the block numbers,
\* and the insert page of a list is on its chain: two inserts never append to the same
\* page, and no insert ends up on the chain of another list.
ListsDisjoint ==
  /\ \A l \in List : Chain(l) = {b \in 1 .. npages : owner[b] = l} /\ insertPage[l] \in Chain(l)
  /\ \A b \in 1 .. npages : nextblkno[b] # Invalid => b < nextblkno[b] /\ nextblkno[b] <= npages

\* A row has at most one entry: it is made from the row's own vector and is on a page of the
\* list with the closest center.  A heap TID is used for a new row (VacuumHeap) only when the
\* entry of the old row is gone.
OneEntry ==
  /\ \A b \in Page : \A e \in items[b] :
       /\ b <= npages /\ owner[b] = ClosestList[e.vec]
       /\ heap[e.tid] # "unused" /\ e.vec = vec[e.tid]
  /\ \A b, c \in Page : \A e \in items[b], f \in items[c] : e.tid = f.tid => b = c

\* A walk over the list of a committed row finds its entry, unless its vector has norm zero:
\* neither a concurrent insert, nor a vacuum, nor a crash loses it.
NothingLost ==
  \A t \in Tid : heap[t] = "live" /\ Indexable(vec[t]) =>
    \E b \in Chain(ClosestList[vec[t]]) : EntryOf(t) \in items[b]

\* When ivfflatbulkdelete returns, no entry of a row that it was to delete is left, also when
\* inserts have moved insert pages and appended pages while it ran.
VacuumComplete ==
  vpc = "heap" => \A b \in Page : Deletable(b) = {}
=============================================================================
