--------------------------- MODULE SysCallProofs ---------------------------
(***************************************************************************)
(* Proofs about the modules RuntimeMem, RuntimeMemLoops and Clock: the heap *)
(* of the runtime driver, for every size of the buffer, of the pages and of *)
(* the requests; the loops that search it; and time, for every date.        *)
(***************************************************************************)
EXTENDS RuntimeMemLoops, Clock, WellFoundedInduction, FiniteSetTheorems, TLAPS

\* The page table, entry by entry: a used entry names a block the client holds,
\* and names exactly the block whose page it is.
TableInv ==
  /\ \A s \in DOMAIN blocks : PagesOf(s) \subseteq Page
  /\ \A s \in DOMAIN blocks, p \in Page :
       (pages[p].used /\ pages[p].start = s) <=> p \in PagesOf(s)
  /\ \A p \in Page : pages[p].used => pages[p].start \in DOMAIN blocks

\* The inductive invariant of the heap.
MemInv == TypeOK /\ TableInv /\ RoomForRequest /\ ContentKept

-----------------------------------------------------------------------------
(* The arithmetic of pages.                                                 *)

\* There is at least one page.
LEMMA PageCountType == PageCount \in Nat \ {0}
BY MemAssumption DEF PageCount

\* A request of at least one byte takes at least one page, and enough of them.
LEMMA SizeToPages ==
  ASSUME NEW size \in Nat \ {0}
  PROVE  /\ RT_SIZE_TO_PAGES(size) \in Nat \ {0}
         /\ size <= RT_PAGES_TO_SIZE(RT_SIZE_TO_PAGES(size))
<1>1. /\ size \div RT_PAGE_SIZE \in Nat /\ size % RT_PAGE_SIZE \in 0..(RT_PAGE_SIZE - 1)
      /\ size = RT_PAGE_SIZE * (size \div RT_PAGE_SIZE) + (size % RT_PAGE_SIZE)
  BY MemAssumption
<1> QED  BY <1>1, MemAssumption DEF RT_SIZE_TO_PAGES, RT_PAGES_TO_SIZE

\* A number of bytes takes a number of pages.
LEMMA PagesAreNat ==
  ASSUME NEW size \in Nat
  PROVE  RT_SIZE_TO_PAGES(size) \in Nat
<1>1. size \div RT_PAGE_SIZE \in Nat
  BY MemAssumption
<1>2. (IF size % RT_PAGE_SIZE # 0 THEN 1 ELSE 0) \in Nat
  OBVIOUS
<1> QED  BY <1>1, <1>2 DEF RT_SIZE_TO_PAGES

\* A size that fits in some pages takes no more than these.
LEMMA FittingPages ==
  ASSUME NEW size \in Nat, NEW count \in Nat, size <= RT_PAGES_TO_SIZE(count)
  PROVE  RT_SIZE_TO_PAGES(size) <= count
<1> DEFINE d == size \div RT_PAGE_SIZE
           r == size % RT_PAGE_SIZE
<1>1. d \in Nat /\ r \in 0..(RT_PAGE_SIZE - 1) /\ size = RT_PAGE_SIZE * d + r
  BY MemAssumption
<1>2. RT_PAGE_SIZE * d + r <= RT_PAGE_SIZE * count
  BY <1>1, MemAssumption DEF RT_PAGES_TO_SIZE
<1>3. RT_SIZE_TO_PAGES(size) = d + (IF r # 0 THEN 1 ELSE 0)
  BY DEF RT_SIZE_TO_PAGES
<1> HIDE DEF d, r
<1>4. d <= count /\ (r # 0 => d < count)
  BY <1>1, <1>2, MemAssumption
<1> QED  BY <1>1, <1>3, <1>4

\* The page table and the pages it describes fit in the scratch buffer, and at
\* least one page does: InitializeScratchMemory's division leaves room for both.
THEOREM DataAreaFits ==
  /\ PageCount >= 1
  /\ TableHeaderSize + PageCount * EntrySize + RT_PAGES_TO_SIZE(PageCount) <= ScratchBufferSize
<1> DEFINE room == ScratchBufferSize - TableHeaderSize
           unit == RT_PAGE_SIZE + EntrySize
<1>1. room \in Nat /\ unit \in Nat \ {0}
  BY MemAssumption
<1> HIDE DEF room, unit
<1>2. room = unit * (room \div unit) + (room % unit) /\ room % unit \in 0..(unit - 1)
      /\ room \div unit \in Nat
  BY <1>1
<1>3. PageCount = room \div unit
  BY DEF PageCount, room, unit
<1>4. unit * PageCount <= room
  BY <1>1, <1>2, <1>3
<1>5. unit * PageCount = PageCount * EntrySize + RT_PAGES_TO_SIZE(PageCount)
  BY MemAssumption, PageCountType DEF unit, RT_PAGES_TO_SIZE
<1>6. PageCount * EntrySize \in Nat /\ RT_PAGES_TO_SIZE(PageCount) \in Nat
  BY MemAssumption, PageCountType DEF RT_PAGES_TO_SIZE
<1> QED  BY <1>1, <1>4, <1>5, <1>6, MemAssumption, PageCountType DEF room

\* A run has as many pages as it is long.
LEMMA RunCardinality ==
  ASSUME NEW s \in Nat, NEW n \in Nat \ {0}
  PROVE  Cardinality(Run(s, n)) = n
<1>1. s \in Int /\ (s + n - 1) \in Int
  OBVIOUS
<1>2. Cardinality(s..(s + n - 1)) = IF s > s + n - 1 THEN 0 ELSE (s + n - 1) - s + 1
  BY <1>1, FS_Interval
<1> QED  BY <1>2 DEF Run

-----------------------------------------------------------------------------
(* What the table's operators return.                                       *)

\* A run that is found lies inside the table and is free.
LEMMA FoundRunIsFree ==
  ASSUME TypeOK, NEW n \in Nat \ {0}, NEW s \in LookupFreeMemRegion(n)
  PROVE  /\ s \in Page /\ s + n <= PageCount
         /\ \A p \in Run(s, n) : p \in Page /\ ~pages[p].used
<1>1. lastEmptyPage \in 0..PageCount
  BY DEF TypeOK
<1>2. CASE s \in lastEmptyPage..(PageCount - n) /\ FreeRun(s, n)
  BY <1>1, <1>2, PageCountType DEF FreeRun, Run, Page
<1>3. CASE s \in 0..(lastEmptyPage - n - 1) /\ FreeRun(s, n)
  BY <1>1, <1>3, PageCountType DEF FreeRun, Run, Page
<1> QED  BY <1>2, <1>3 DEF LookupFreeMemRegion, Lowest

\* Counting from a block's first page as long as the entries name it gives the
\* pages that name it, when these are a run.
LEMMA OwnedIsRun ==
  ASSUME NEW table \in [Page -> Entry], NEW s \in Page, NEW n \in Nat \ {0},
         Run(s, n) \subseteq Page,
         \A p \in Page : (table[p].used /\ table[p].start = s) <=> p \in Run(s, n)
  PROVE  Owned(table, s) = Run(s, n)
<1>1. s \in Run(s, n) /\ table[s].start = s
  BY PageCountType DEF Run, Page
<1>2. ASSUME NEW p \in Owned(table, s)
      PROVE  p \in Run(s, n)
  BY <1>1, <1>2, PageCountType DEF Owned, Run, Page
<1>3. ASSUME NEW p \in Run(s, n)
      PROVE  p \in Owned(table, s)
  <2>1. p \in s..(PageCount - 1)
    BY <1>3, PageCountType DEF Run, Page
  <2>2. \A q \in s..p : q \in Run(s, n) /\ q \in Page
    BY <1>3, <2>1, PageCountType DEF Run, Page
  <2> QED  BY <1>1, <2>1, <2>2 DEF Owned
<1> QED  BY <1>2, <1>3

\* So RuntimeFreeMem and realloc attribute to a block the pages it was given.
LEMMA OwnedIsPagesOf ==
  ASSUME TypeOK, TableInv, NEW s \in DOMAIN blocks
  PROVE  /\ Owned(pages, s) = PagesOf(s)
         /\ Cardinality(Owned(pages, s)) = blocks[s].count
<1>1. s \in Page /\ blocks[s].count \in Nat \ {0} /\ pages \in [Page -> Entry]
  BY DEF TypeOK, Block
<1>2. Owned(pages, s) = Run(s, blocks[s].count)
  BY <1>1, OwnedIsRun DEF TableInv, PagesOf
<1>3. s \in Nat
  BY <1>1, PageCountType DEF Page
<1> QED  BY <1>1, <1>2, <1>3, RunCardinality DEF PagesOf

\* A block holds its own first page.
LEMMA HeadIsUsed ==
  ASSUME TypeOK, TableInv, NEW s \in DOMAIN blocks
  PROVE  /\ s \in Page /\ blocks[s] \in Block /\ blocks[s].count \in Nat \ {0}
         /\ s \in PagesOf(s) /\ pages[s].used
<1>1. s \in Page /\ blocks[s] \in Block /\ blocks[s].count \in Nat \ {0}
  BY DEF TypeOK, Block
<1>2. s \in PagesOf(s)
  BY <1>1, PageCountType DEF PagesOf, Run, Page
<1> QED  BY <1>1, <1>2 DEF TableInv

\* Two blocks have no page in common.
LEMMA BlocksDisjoint ==
  ASSUME TypeOK, TableInv, NEW s \in DOMAIN blocks, NEW t \in DOMAIN blocks, s # t,
         NEW p \in PagesOf(s)
  PROVE  p \notin PagesOf(t)
BY DEF TableInv

\* The content of a new block has its type.
LEMMA NewBlockType ==
  ASSUME TypeOK, NEW s \in Page, NEW size \in RequestSizes, NEW written,
         \A p \in DOMAIN written : written[p] \in Content
  PROVE  /\ NewBlock(s, size, written) \in Block
         /\ NewBlock(s, size, written).count = RT_SIZE_TO_PAGES(size)
         /\ NewBlock(s, size, written).size = size
         /\ \A p \in Page : NewBlock(s, size, written).content[p] =
              IF p \notin Run(s, RT_SIZE_TO_PAGES(size)) THEN Scratch
              ELSE IF p \in DOMAIN written THEN written[p] ELSE Zero
<1>1. RT_SIZE_TO_PAGES(size) \in Nat \ {0} /\ size \in Nat
  BY SizeToPages, MemAssumption
<1> DEFINE c == [p \in Page |-> IF p \notin Run(s, RT_SIZE_TO_PAGES(size)) THEN Scratch
                                ELSE IF p \in DOMAIN written THEN written[p] ELSE Zero]
<1>2. c \in [Page -> Content]
  BY DEF Content
<1>3. NewBlock(s, size, written) =
        [base |-> dataAreaBase, size |-> size, count |-> RT_SIZE_TO_PAGES(size), content |-> c]
  BY DEF NewBlock
<1> HIDE DEF c
<1>4. NewBlock(s, size, written) \in Block
  BY <1>1, <1>2, <1>3 DEF TypeOK, Block
<1> QED  BY <1>3, <1>4 DEF c

-----------------------------------------------------------------------------
(* The steps.                                                               *)

\* The initial states satisfy the invariant.
LEMMA MemInit ==
  ASSUME Init
  PROVE  MemInv
<1>1. DOMAIN blocks = {} /\ blocks \in [DOMAIN blocks -> Block]
  BY DEF Init
<1>2. TypeOK
  BY <1>1, PageCountType DEF Init, TypeOK, Page, Entry, FreeEntry, Base, Content
<1>3. TableInv
  BY <1>1 DEF Init, TableInv, FreeEntry
<1> QED  BY <1>1, <1>2, <1>3 DEF MemInv, RoomForRequest, ContentKept

\* malloc takes a free run and gives it to the client.
LEMMA MallocStep ==
  ASSUME MemInv, NEW size \in RequestSizes, malloc(size)
  PROVE  MemInv'
<1>0. TypeOK /\ TableInv /\ RoomForRequest /\ ContentKept
  BY DEF MemInv
<1> DEFINE n == RT_SIZE_TO_PAGES(size)
<1>1. n \in Nat \ {0} /\ size \in Nat /\ size <= RT_PAGES_TO_SIZE(n)
  BY SizeToPages, MemAssumption
<1> HIDE DEF n
<1>2. PICK s \in LookupFreeMemRegion(n) :
        /\ pages' = Allocated(s, n)
        /\ lastEmptyPage' = s + n
        /\ data' = Cleared(s, n)
        /\ blocks' = Give(s, NewBlock(s, size, <<>>))
  BY DEF malloc, n
<1>3. UNCHANGED <<constructed, dataAreaBase>>
  BY DEF malloc
<1>4. /\ s \in Page /\ s + n <= PageCount
      /\ \A p \in Run(s, n) : p \in Page /\ ~pages[p].used
  BY <1>0, <1>1, <1>2, FoundRunIsFree
<1>5. s \in Run(s, n)
  BY <1>1, <1>4, PageCountType DEF Run, Page
<1>6. s \notin DOMAIN blocks
  BY <1>0, <1>4, <1>5, HeadIsUsed
<1> DEFINE b == NewBlock(s, size, <<>>)
<1>7. /\ b \in Block /\ b.count = n /\ b.size = size
      /\ \A p \in Run(s, n) : b.content[p] = Zero
  BY <1>0, <1>4, NewBlockType DEF n
<1> HIDE DEF b
<1>8. /\ DOMAIN blocks' = DOMAIN blocks \cup {s}
      /\ blocks'[s] = b
      /\ \A t \in DOMAIN blocks : blocks'[t] = blocks[t]
      /\ blocks' \in [DOMAIN blocks' -> Block]
  BY <1>0, <1>2, <1>6, <1>7 DEF Give, b, TypeOK
<1>9. PagesOf(s)' = Run(s, n) /\ \A t \in DOMAIN blocks : PagesOf(t)' = PagesOf(t)
  BY <1>7, <1>8 DEF PagesOf
<1>10. \A p \in Page : /\ p \in Run(s, n) => pages'[p].used /\ pages'[p].start = s
                       /\ p \notin Run(s, n) => pages'[p] = pages[p]
  BY <1>2 DEF Allocated
<1>11. TypeOK'
  <2>1. pages' \in [Page -> Entry]
    BY <1>0, <1>2, <1>4 DEF Allocated, TypeOK, Entry
  <2>2. lastEmptyPage' \in 0..PageCount
    BY <1>1, <1>2, <1>4, PageCountType DEF Page
  <2>3. data' \in [Page -> Content]
    BY <1>0, <1>2 DEF Cleared, TypeOK, Content
  <2> QED  BY <1>0, <1>3, <1>4, <1>8, <2>1, <2>2, <2>3 DEF TypeOK
<1>12. TableInv'
  <2>1. \A t \in DOMAIN blocks' : PagesOf(t)' \subseteq Page
    BY <1>0, <1>4, <1>8, <1>9 DEF TableInv
  <2>2. ASSUME NEW t \in DOMAIN blocks', NEW p \in Page
        PROVE  (pages'[p].used /\ pages'[p].start = t) <=> p \in PagesOf(t)'
    BY <1>0, <1>4, <1>6, <1>8, <1>9, <1>10, <2>2 DEF TableInv
  <2>3. \A p \in Page : pages'[p].used => pages'[p].start \in DOMAIN blocks'
    BY <1>0, <1>8, <1>10 DEF TableInv
  <2> QED  BY <2>1, <2>2, <2>3 DEF TableInv
<1>13. RoomForRequest'
  BY <1>0, <1>1, <1>7, <1>8 DEF RoomForRequest, RT_PAGES_TO_SIZE
<1>14. ContentKept'
  <2>1. \A p \in Page : data'[p] = IF p \in Run(s, n) THEN Zero ELSE data[p]
    BY <1>2 DEF Cleared
  <2>2. ASSUME NEW t \in DOMAIN blocks, NEW p \in Page, p \in PagesOf(t)
        PROVE  data'[p] = blocks'[t].content[p]
    BY <1>0, <1>4, <1>8, <2>1, <2>2 DEF TableInv, ContentKept
  <2> QED  BY <1>7, <1>8, <1>9, <2>1, <2>2 DEF ContentKept
<1> QED  BY <1>11, <1>12, <1>13, <1>14 DEF MemInv

\* free gives back the pages of one block.
LEMMA FreeStep ==
  ASSUME MemInv, NEW s \in DOMAIN blocks, free(s)
  PROVE  MemInv'
<1>0. TypeOK /\ TableInv /\ RoomForRequest /\ ContentKept
  BY DEF MemInv
<1>1. /\ pages' = Freed(pages, s)
      /\ blocks' = [t \in DOMAIN blocks \ {s} |-> blocks[t]]
      /\ UNCHANGED <<constructed, lastEmptyPage, dataAreaBase, data>>
  BY DEF free
<1>2. \A p \in Page : pages'[p] = IF p \in PagesOf(s) THEN FreeEntry ELSE pages[p]
  BY <1>0, <1>1, OwnedIsPagesOf DEF Freed
<1>3. /\ DOMAIN blocks' = DOMAIN blocks \ {s}
      /\ \A t \in DOMAIN blocks' : blocks'[t] = blocks[t] /\ PagesOf(t)' = PagesOf(t)
      /\ blocks' \in [DOMAIN blocks' -> Block]
  BY <1>0, <1>1 DEF TypeOK, PagesOf
<1>4. TypeOK'
  <2>1. FreeEntry \in Entry
    BY PageCountType DEF FreeEntry, Entry, Page
  <2>2. pages' \in [Page -> Entry]
    BY <1>0, <1>1, <2>1 DEF Freed, TypeOK
  <2> QED  BY <1>0, <1>1, <1>3, <2>2 DEF TypeOK
<1>5. TableInv'
  <2>1. \A t \in DOMAIN blocks' : PagesOf(t)' \subseteq Page
    BY <1>0, <1>3 DEF TableInv
  <2>2. ASSUME NEW t \in DOMAIN blocks', NEW p \in Page
        PROVE  (pages'[p].used /\ pages'[p].start = t) <=> p \in PagesOf(t)'
    BY <1>0, <1>2, <1>3, <2>2 DEF TableInv, FreeEntry
  <2>3. \A p \in Page : pages'[p].used => pages'[p].start \in DOMAIN blocks'
    BY <1>0, <1>2, <1>3 DEF TableInv, FreeEntry
  <2> QED  BY <2>1, <2>2, <2>3 DEF TableInv
<1>6. RoomForRequest' /\ ContentKept'
  BY <1>0, <1>1, <1>3 DEF RoomForRequest, ContentKept
<1> QED  BY <1>4, <1>5, <1>6 DEF MemInv

\* realloc in place changes only what the client asked for.
LEMMA ReallocInPlaceStep ==
  ASSUME MemInv, NEW s \in DOMAIN blocks, NEW size \in RequestSizes, ReallocInPlace(s, size)
  PROVE  MemInv'
<1>0. TypeOK /\ TableInv /\ RoomForRequest /\ ContentKept
  BY DEF MemInv
<1>1. size \in Nat /\ size <= RT_PAGES_TO_SIZE(blocks[s].count)
  BY <1>0, OwnedIsPagesOf, MemAssumption DEF ReallocInPlace, FitsInPlace
<1>2. /\ blocks' = [blocks EXCEPT ![s].size = size]
      /\ UNCHANGED <<constructed, pages, lastEmptyPage, dataAreaBase, data>>
  BY DEF ReallocInPlace
<1>3. blocks[s] \in Block
  BY <1>0, HeadIsUsed
<1>4. /\ DOMAIN blocks' = DOMAIN blocks
      /\ \A t \in DOMAIN blocks : /\ blocks'[t].count = blocks[t].count
                                  /\ blocks'[t].content = blocks[t].content
                                  /\ PagesOf(t)' = PagesOf(t)
                                  /\ blocks'[t].size = IF t = s THEN size ELSE blocks[t].size
      /\ blocks' \in [DOMAIN blocks' -> Block]
  BY <1>0, <1>1, <1>2, <1>3 DEF TypeOK, Block, PagesOf
<1>5. TypeOK'
  BY <1>0, <1>2, <1>4 DEF TypeOK
<1>6. TableInv'
  BY <1>0, <1>2, <1>4 DEF TableInv
<1>7. RoomForRequest' /\ ContentKept'
  BY <1>0, <1>1, <1>2, <1>4 DEF RoomForRequest, ContentKept
<1> QED  BY <1>5, <1>6, <1>7 DEF MemInv

\* realloc that moves: the new block is disjoint from the old one, so the copy
\* is whole and the free that follows takes the old block only.
LEMMA ReallocMoveStep ==
  ASSUME MemInv, NEW s \in DOMAIN blocks, NEW size \in RequestSizes, ReallocMove(s, size)
  PROVE  MemInv'
<1>0. TypeOK /\ TableInv /\ RoomForRequest /\ ContentKept
  BY DEF MemInv
<1> DEFINE n == RT_SIZE_TO_PAGES(size)
           m == blocks[s].count
<1>1. n \in Nat \ {0} /\ size \in Nat /\ size <= RT_PAGES_TO_SIZE(n)
  BY SizeToPages, MemAssumption
<1>2. /\ s \in Page /\ blocks[s] \in Block /\ m \in Nat \ {0} /\ s \in PagesOf(s)
      /\ PagesOf(s) = Run(s, m)
  BY <1>0, HeadIsUsed DEF PagesOf
<1>3. m < n
  BY <1>0, <1>1, <1>2, OwnedIsPagesOf, MemAssumption DEF ReallocMove, FitsInPlace, RT_PAGES_TO_SIZE
<1> DEFINE old(t) == [p \in Run(t, m) |-> blocks[s].content[s + (p - t)]]
<1>4. PICK t \in LookupFreeMemRegion(n) :
        /\ pages' = Freed(Allocated(t, n), s)
        /\ lastEmptyPage' = t + n
        /\ data' = Copied(s, t, n)
        /\ blocks' = [u \in (DOMAIN blocks \ {s}) \cup {t} |->
                        IF u = t THEN NewBlock(t, size, old(t)) ELSE blocks[u]]
  BY DEF ReallocMove
<1>5. UNCHANGED <<constructed, dataAreaBase>>
  BY DEF ReallocMove
<1> HIDE DEF n, m
<1>6. /\ t \in Page /\ t + n <= PageCount
      /\ \A p \in Run(t, n) : p \in Page /\ ~pages[p].used
  BY <1>0, <1>1, <1>4, FoundRunIsFree
<1>7. t \in Run(t, n) /\ Run(t, m) \subseteq Run(t, n)
  BY <1>1, <1>2, <1>3, <1>6, PageCountType DEF Run, Page
<1>8. t \notin DOMAIN blocks /\ t # s
  BY <1>0, <1>6, <1>7, HeadIsUsed
<1>9. \A u \in DOMAIN blocks : Run(t, n) \cap PagesOf(u) = {}
  BY <1>0, <1>6 DEF TableInv
<1>10. \A p \in Run(t, m) : s + (p - t) \in PagesOf(s) /\ s + (p - t) \in Page
  <2>1. PagesOf(s) \subseteq Page
    BY <1>0 DEF TableInv
  <2>2. \A p \in Run(t, m) : s + (p - t) \in Run(s, m)
    BY <1>2, <1>6, PageCountType DEF Run, Page
  <2> QED  BY <1>2, <2>1, <2>2
<1> DEFINE b == NewBlock(t, size, old(t))
<1>11. /\ b \in Block /\ b.count = n /\ b.size = size
       /\ \A p \in Run(t, n) : b.content[p] = IF p \in Run(t, m) THEN blocks[s].content[s + (p - t)] ELSE Zero
  <2>1. \A p \in DOMAIN old(t) : old(t)[p] \in Content
    BY <1>2, <1>10 DEF Block
  <2>2. /\ b \in Block /\ b.count = n /\ b.size = size
        /\ \A p \in Page : b.content[p] = IF p \notin Run(t, n) THEN Scratch
                                          ELSE IF p \in DOMAIN old(t) THEN old(t)[p] ELSE Zero
    BY <1>0, <1>6, <2>1, NewBlockType DEF n
  <2> QED  BY <1>6, <2>2
<1> HIDE DEF b, old
<1>12. /\ DOMAIN blocks' = (DOMAIN blocks \ {s}) \cup {t}
       /\ blocks'[t] = b
       /\ \A u \in DOMAIN blocks \ {s} : blocks'[u] = blocks[u]
       /\ blocks' \in [DOMAIN blocks' -> Block]
  BY <1>0, <1>4, <1>8, <1>11 DEF b, TypeOK
<1>13. PagesOf(t)' = Run(t, n) /\ \A u \in DOMAIN blocks \ {s} : PagesOf(u)' = PagesOf(u)
  BY <1>11, <1>12 DEF PagesOf
<1>14. Owned(Allocated(t, n), s) = PagesOf(s)
  <2>1. Allocated(t, n) \in [Page -> Entry]
    BY <1>0, <1>6 DEF Allocated, TypeOK, Entry
  <2>2. \A p \in Page : (Allocated(t, n)[p].used /\ Allocated(t, n)[p].start = s) <=> p \in PagesOf(s)
    BY <1>0, <1>8, <1>9 DEF Allocated, TableInv
  <2>3. PagesOf(s) \subseteq Page
    BY <1>0 DEF TableInv
  <2> QED  BY <1>2, <2>1, <2>2, <2>3, OwnedIsRun
<1>15. \A p \in Page : pages'[p] = IF p \in PagesOf(s) THEN FreeEntry
                                   ELSE IF p \in Run(t, n) THEN [used |-> TRUE, start |-> t]
                                   ELSE pages[p]
  BY <1>4, <1>14 DEF Freed, Allocated
<1>16. TypeOK'
  <2>1. pages' \in [Page -> Entry]
    <3>1. FreeEntry \in Entry /\ [used |-> TRUE, start |-> t] \in Entry
      BY <1>6, PageCountType DEF FreeEntry, Entry, Page
    <3>2. pages' = [p \in Page |-> pages'[p]]
      BY <1>4 DEF Freed
    <3> QED  BY <1>0, <1>15, <3>1, <3>2 DEF TypeOK
  <2>2. lastEmptyPage' \in 0..PageCount
    BY <1>1, <1>4, <1>6, PageCountType DEF Page
  <2>3. data' \in [Page -> Content]
    <3>1. Cardinality(Owned(pages, s)) = m
      BY <1>0, OwnedIsPagesOf DEF m
    <3>2. \A p \in Run(t, m) : data[s + (p - t)] \in Content
      BY <1>0, <1>10 DEF TypeOK
    <3>3. \A p \in Page : Cleared(t, n)[p] \in Content
      BY <1>0 DEF Cleared, TypeOK, Content
    <3> QED  BY <1>4, <3>1, <3>2, <3>3 DEF Copied
  <2> QED  BY <1>0, <1>5, <1>6, <1>12, <2>1, <2>2, <2>3 DEF TypeOK
<1>17. TableInv'
  <2>1. \A u \in DOMAIN blocks' : PagesOf(u)' \subseteq Page
    BY <1>0, <1>6, <1>12, <1>13 DEF TableInv
  <2>2. ASSUME NEW u \in DOMAIN blocks', NEW p \in Page
        PROVE  (pages'[p].used /\ pages'[p].start = u) <=> p \in PagesOf(u)'
    <3>1. CASE u = t
      BY <1>0, <1>2, <1>8, <1>9, <1>13, <1>15, <3>1 DEF TableInv, FreeEntry
    <3>2. CASE u # t
      <4>1. u \in DOMAIN blocks /\ u # s /\ PagesOf(u)' = PagesOf(u)
        BY <1>12, <1>13, <2>2, <3>2
      <4>2. p \in PagesOf(u) => p \notin PagesOf(s) /\ p \notin Run(t, n)
        BY <1>0, <1>9, <4>1, BlocksDisjoint
      <4> QED  BY <1>0, <1>15, <3>2, <4>1, <4>2 DEF TableInv, FreeEntry
    <3> QED  BY <3>1, <3>2
  <2>3. \A p \in Page : pages'[p].used => pages'[p].start \in DOMAIN blocks'
    BY <1>0, <1>2, <1>12, <1>15 DEF TableInv, FreeEntry
  <2> QED  BY <2>1, <2>2, <2>3 DEF TableInv
<1>18. RoomForRequest'
  BY <1>0, <1>1, <1>11, <1>12 DEF RoomForRequest, RT_PAGES_TO_SIZE
<1>19. ContentKept'
  <2>1. Cardinality(Owned(pages, s)) = m
    BY <1>0, OwnedIsPagesOf DEF m
  <2>2. \A p \in Page : data'[p] = IF p \in Run(t, m) THEN data[s + (p - t)]
                                   ELSE IF p \in Run(t, n) THEN Zero ELSE data[p]
    BY <1>4, <2>1 DEF Copied, Cleared
  <2>3. ASSUME NEW p \in Page, p \in Run(t, n)
        PROVE  data'[p] = b.content[p]
    BY <1>0, <1>10, <1>11, <2>2, <2>3 DEF ContentKept
  <2>4. ASSUME NEW u \in DOMAIN blocks \ {s}, NEW p \in Page, p \in PagesOf(u)
        PROVE  data'[p] = blocks'[u].content[p]
    <3>1. p \notin Run(t, n) /\ p \notin Run(t, m)
      BY <1>7, <1>9, <2>4
    <3> QED  BY <1>0, <1>12, <2>2, <2>4, <3>1 DEF ContentKept
  <2> QED  BY <1>12, <1>13, <2>3, <2>4 DEF ContentKept
<1> QED  BY <1>16, <1>17, <1>18, <1>19 DEF MemInv

\* The client writes into a page of its own.
LEMMA WriteStep ==
  ASSUME MemInv, NEW s \in DOMAIN blocks, NEW k \in Page, NEW m \in Mark, Write(s, k, m)
  PROVE  MemInv'
<1>0. TypeOK /\ TableInv /\ RoomForRequest /\ ContentKept
  BY DEF MemInv
<1>1. /\ data' = [data EXCEPT ![s + k] = m]
      /\ blocks' = [blocks EXCEPT ![s].content[s + k] = m]
      /\ UNCHANGED <<constructed, pages, lastEmptyPage, dataAreaBase>>
  BY DEF Write
<1>2. s \in Page /\ blocks[s] \in Block
  BY <1>0, HeadIsUsed
<1>3. m \in Content
  BY DEF Content
<1>4. /\ DOMAIN blocks' = DOMAIN blocks
      /\ \A t \in DOMAIN blocks : blocks'[t].count = blocks[t].count /\ blocks'[t].size = blocks[t].size
      /\ \A t \in DOMAIN blocks \ {s} : blocks'[t].content = blocks[t].content
      /\ blocks'[s].content = [blocks[s].content EXCEPT ![s + k] = m]
      /\ blocks' \in [DOMAIN blocks' -> Block]
  BY <1>0, <1>1, <1>2, <1>3 DEF TypeOK, Block
<1>5. \A t \in DOMAIN blocks : PagesOf(t)' = PagesOf(t)
  BY <1>4 DEF PagesOf
<1>6. s + k \in PagesOf(s) /\ s + k \in Page
  <2>1. blocks[s].size <= RT_PAGES_TO_SIZE(blocks[s].count) /\ blocks[s].size \in Nat
    BY <1>0, <1>2 DEF RoomForRequest, Block
  <2>2. blocks[s].count \in Nat /\ s \in Nat /\ k \in Nat
    BY <1>2, PageCountType DEF Block, Page
  <2>3. RT_SIZE_TO_PAGES(blocks[s].size) \in Nat
    BY <2>1, PagesAreNat
  <2>4. k < blocks[s].count
    BY <2>1, <2>2, <2>3, FittingPages DEF Write
  <2>5. s + k \in PagesOf(s)
    BY <2>2, <2>4 DEF PagesOf, Run
  <2> QED  BY <1>0, <2>5 DEF TableInv
<1>7. TypeOK'
  BY <1>0, <1>1, <1>3, <1>4 DEF TypeOK
<1>8. TableInv'
  BY <1>0, <1>1, <1>4, <1>5 DEF TableInv
<1>9. RoomForRequest'
  BY <1>0, <1>4 DEF RoomForRequest
<1>10. ContentKept'
  BY <1>0, <1>1, <1>4, <1>5, <1>6, BlocksDisjoint DEF ContentKept, TypeOK, Block
<1> QED  BY <1>7, <1>8, <1>9, <1>10 DEF MemInv

\* Every step preserves the invariant.
LEMMA MemStep ==
  ASSUME MemInv, [Next]_vars
  PROVE  MemInv'
<1>1. CASE RuntimeCryptLibConstructor
  BY <1>1 DEF RuntimeCryptLibConstructor, MemInv, TypeOK, TableInv, RoomForRequest, ContentKept, PagesOf
<1>2. ASSUME NEW size \in RequestSizes, malloc(size)
      PROVE  MemInv'
  BY <1>2, MallocStep
<1>3. ASSUME NEW s \in Reachable, ClientStep(s)
      PROVE  MemInv'
  <2>1. s \in DOMAIN blocks
    BY DEF Reachable
  <2>2. CASE free(s)
    BY <2>1, <2>2, FreeStep
  <2>3. ASSUME NEW size \in RequestSizes, ReallocInPlace(s, size) \/ ReallocMove(s, size)
        PROVE  MemInv'
    BY <2>1, <2>3, ReallocInPlaceStep, ReallocMoveStep
  <2>4. ASSUME NEW k \in Page, NEW m \in Mark, Write(s, k, m)
        PROVE  MemInv'
    BY <2>1, <2>4, WriteStep
  <2> QED  BY <1>3, <2>2, <2>3, <2>4 DEF ClientStep
<1>4. CASE RuntimeCryptLibAddressChangeEvent
  <2>1. dataAreaBase' \in Base /\ UNCHANGED <<constructed, pages, lastEmptyPage, data, blocks>>
    BY <1>4 DEF RuntimeCryptLibAddressChangeEvent, Base
  <2> QED  BY <2>1 DEF MemInv, TypeOK, TableInv, RoomForRequest, ContentKept, PagesOf
<1>5. CASE UNCHANGED vars
  BY <1>5 DEF vars, MemInv, TypeOK, TableInv, RoomForRequest, ContentKept, PagesOf
<1> QED  BY <1>1, <1>2, <1>3, <1>4, <1>5 DEF Next

-----------------------------------------------------------------------------
(* The theorems.                                                            *)

\* The inductive invariant holds in every reachable state.
THEOREM MemInvariant == Spec => []MemInv
<1>1. Init => MemInv
  BY MemInit
<1>2. MemInv /\ [Next]_vars => MemInv'
  BY MemStep
<1> QED  BY <1>1, <1>2, PTL DEF Spec

\* The allocator's state keeps its types, the cursor included.
THEOREM MemTypeCorrect == Spec => []TypeOK
<1>1. MemInv => TypeOK
  BY DEF MemInv
<1> QED  BY <1>1, MemInvariant, PTL

\* Blocks never overlap and never leave the data area.
THEOREM BlocksNeverOverlap == Spec => []NoOverlap
<1>1. MemInv => NoOverlap
  BY BlocksDisjoint DEF MemInv, NoOverlap, TableInv
<1> QED  BY <1>1, MemInvariant, PTL

\* The page table attributes to each block exactly its pages, and leaks none.
THEOREM TableAlwaysMatches == Spec => []TableMatchesBlocks
<1>1. ASSUME MemInv
      PROVE  TableMatchesBlocks
  <2>1. \A s \in DOMAIN blocks : Owned(pages, s) = PagesOf(s)
    BY <1>1, OwnedIsPagesOf DEF MemInv
  <2>2. \A p \in Page : pages[p].used => \E s \in DOMAIN blocks : p \in PagesOf(s)
    BY <1>1 DEF MemInv, TableInv
  <2> QED  BY <2>1, <2>2 DEF TableMatchesBlocks
<1> QED  BY <1>1, MemInvariant, PTL

\* Every block has room for the bytes last asked for.
THEOREM RoomIsEnough == Spec => []RoomForRequest
<1>1. MemInv => RoomForRequest
  BY DEF MemInv
<1> QED  BY <1>1, MemInvariant, PTL

\* What the client wrote survives every other operation and its own reallocs.
THEOREM ContentIsKept == Spec => []ContentKept
<1>1. MemInv => ContentKept
  BY DEF MemInv
<1> QED  BY <1>1, MemInvariant, PTL

-----------------------------------------------------------------------------
(* Induction.  The principles of the library have operators as parameters;  *)
(* these, which follow from the well-foundedness of <, have sets.            *)

\* The order of the numbers, as a relation.
Less == {ss \in Nat \X Nat : ss[1] < ss[2]}

\* A set of numbers has a smallest one.
LEMMA Minimum ==
  ASSUME NEW S, S \subseteq Nat, S # {}
  PROVE  \E n \in S : \A m \in S : n <= m
<1>1. OpToRel(<, Nat) = Less
  BY Zenon DEF OpToRel, Less
<1>2. IsWellFoundedOn(Less, Nat)
  BY <1>1, NatLessThanWellFounded, Zenon
<1>3. PICK n \in S : \A m \in S : ~(<<m, n>> \in Less)
  BY <1>2, WFMin, Zenon
<1>4. ASSUME NEW m \in S PROVE n <= m
  <2>1. ~(<<m, n>> \in Less) /\ m \in Nat /\ n \in Nat
    BY <1>3
  <2>2. ~(m < n)
    BY <2>1 DEF Less
  <2> QED  BY <2>1, <2>2
<1> QED  BY <1>4

-----------------------------------------------------------------------------
(* The search loops.                                                        *)

\* The check of consecutive pages stops at the first used one.
LEMMA FirstUsedFacts ==
  ASSUME NEW i \in Nat, NEW n \in Nat, NEW behind
  PROVE  /\ FirstUsed(i, n, behind) \in 0..n
         /\ FirstUsed(i, n, behind) = n \/ Used(FirstUsed(i, n, behind) + i, behind)
         /\ \A j \in 0..(FirstUsed(i, n, behind) - 1) : ~Used(j + i, behind)
<1> DEFINE S == {k \in 0..n : k = n \/ Used(k + i, behind)}
<1>1. n \in S /\ S \subseteq Nat
  OBVIOUS
<1>2. PICK k \in S : \A m \in S : k <= m
  BY <1>1, Minimum
<1>3. /\ k \in 0..n /\ (k = n \/ Used(k + i, behind))
      /\ \A j \in 0..(k - 1) : ~Used(j + i, behind)
  <2>1. k \in 0..n /\ (k = n \/ Used(k + i, behind))
    BY <1>2
  <2>2. ASSUME NEW j \in 0..(k - 1), Used(j + i, behind) PROVE FALSE
    <3>1. j \in S /\ j < k
      BY <2>1, <2>2
    <3> QED  BY <1>2, <2>1, <3>1
  <2> QED  BY <2>1, <2>2
<1> QED  BY <1>3, Zenon DEF FirstUsed

\* The skip ends behind the used pages, or where it is not allowed to go on.
LEMMA SkipUsedFacts ==
  ASSUME NEW i \in Nat, NEW s \in Nat, NEW allowed, NEW behind, behind \subseteq Behind
  PROVE  /\ SkipUsed(i, s, allowed, behind) \in s..(s + PageCount + EntriesBehind)
         /\ SkipUsed(i, s, allowed, behind) \in allowed => ~Used(SkipUsed(i, s, allowed, behind) + i, behind)
         /\ \A j \in s..(SkipUsed(i, s, allowed, behind) - 1) : j \in allowed /\ Used(j + i, behind)
<1> DEFINE S == {k \in s..(s + PageCount + EntriesBehind) : k \in allowed => ~Used(k + i, behind)}
<1>1. s + PageCount + EntriesBehind \in S /\ S \subseteq Nat
  BY PageCountType, BehindAssumption DEF Used, Page, Behind
<1>2. PICK k \in S : \A m \in S : k <= m
  BY <1>1, Minimum
<1>3. /\ k \in s..(s + PageCount + EntriesBehind) /\ (k \in allowed => ~Used(k + i, behind))
      /\ \A j \in s..(k - 1) : j \in allowed /\ Used(j + i, behind)
  <2>1. k \in s..(s + PageCount + EntriesBehind) /\ (k \in allowed => ~Used(k + i, behind))
    BY <1>2
  <2>2. ASSUME NEW j \in s..(k - 1), ~(j \in allowed /\ Used(j + i, behind)) PROVE FALSE
    <3>1. j \in S /\ j < k
      BY <2>1, <2>2, PageCountType, BehindAssumption
    <3> QED  BY <1>2, <2>1, <3>1, PageCountType
  <2> QED  BY <2>1, <2>2
<1> QED  BY <1>3, Zenon DEF SkipUsed

\* A failed attempt at i goes on further up, and passes over no free run of the table.
LEMMA SkipPassesNoRun ==
  ASSUME TypeOK, NEW i \in Nat, NEW n \in Nat \ {0}, NEW behind, behind \subseteq Behind,
         NEW allowed, 0 \in allowed,
         FirstUsed(i, n, behind) # n
  PROVE  /\ SkipTo(i, n, allowed, behind) \in Nat /\ SkipTo(i, n, allowed, behind) > i
         /\ \A j \in i..(SkipTo(i, n, allowed, behind) - 1) :
              j + n <= PageCount => ~FreeRun(j, n)
<1> DEFINE f == FirstUsed(i, n, behind)
           k == SkipUsed(i, f, allowed, behind)
<1>1. f \in 0..(n - 1) /\ Used(f + i, behind)
  <2>1. n \in Nat /\ FirstUsed(i, n, behind) \in 0..n /\ Used(FirstUsed(i, n, behind) + i, behind)
    BY FirstUsedFacts
  <2> QED  BY <2>1
<1>2. /\ k \in f..(f + PageCount + EntriesBehind)
      /\ k \in allowed => ~Used(k + i, behind)
      /\ \A j \in f..(k - 1) : j \in allowed /\ Used(j + i, behind)
  <2>1. f \in Nat
    BY <1>1
  <2> HIDE DEF f
  <2> QED  BY <2>1, SkipUsedFacts
<1>3. SkipTo(i, n, allowed, behind) = i + k
  BY DEF SkipTo
<1> HIDE DEF f, k
<1>4. k \in Nat /\ k > 0
  BY <1>1, <1>2, PageCountType, BehindAssumption
<1>5. ASSUME NEW j \in i..(i + k - 1), j + n <= PageCount PROVE ~FreeRun(j, n)
  <2>1. CASE j <= i + f
    <3>1. f + i \in Run(j, n) /\ f + i \in Page
      BY <1>1, <1>4, <1>5, <2>1, PageCountType DEF Run, Page
    <3> QED  BY <3>1, <1>1 DEF FreeRun, Used
  <2>2. CASE j > i + f
    <3>1. j - i \in f..(k - 1) /\ (j - i) + i = j
      BY <1>1, <1>2, <1>4, <2>2, PageCountType, BehindAssumption
    <3>2. Used(j, behind)
      BY <3>1, <1>2
    <3>3. j \in Run(j, n) /\ j \in Page
      BY <1>5, PageCountType DEF Run, Page
    <3> QED  BY <3>2, <3>3 DEF FreeRun, Used
  <2> QED  BY <2>1, <2>2, <1>1
<1> QED  BY <1>3, <1>4, <1>5

\* An attempt succeeds exactly on a free run.
LEMMA AttemptFindsRun ==
  ASSUME NEW i \in Nat, NEW n \in Nat \ {0}, i + n <= PageCount, NEW behind
  PROVE  FirstUsed(i, n, behind) = n <=> FreeRun(i, n)
<1>1. /\ FirstUsed(i, n, behind) \in 0..n
      /\ FirstUsed(i, n, behind) = n \/ Used(FirstUsed(i, n, behind) + i, behind)
      /\ \A j \in 0..(FirstUsed(i, n, behind) - 1) : ~Used(j + i, behind)
  BY FirstUsedFacts
<1>2. ASSUME FirstUsed(i, n, behind) = n, NEW p \in Run(i, n) PROVE ~pages[p].used
  <2>1. p - i \in 0..(n - 1) /\ (p - i) + i = p /\ p \in Page
    BY PageCountType DEF Run, Page
  <2> QED  BY <1>1, <1>2, <2>1 DEF Used
<1>3. ASSUME FirstUsed(i, n, behind) # n PROVE ~FreeRun(i, n)
  <2>1. FirstUsed(i, n, behind) + i \in Run(i, n) /\ FirstUsed(i, n, behind) + i \in Page
    BY <1>1, <1>3, PageCountType DEF Run, Page
  <2> QED  BY <1>1, <1>3, <2>1 DEF FreeRun, Used
<1> QED  BY <1>2, <1>3 DEF FreeRun

\* A loop with a page to try may skip at least the first used page.
CanSkip(last, allowed) == last >= 0 => 0 \in allowed

\* The lowest free run between a page and the last.
Found(n, last) == [i \in Nat |-> Lowest({j \in i..last : FreeRun(j, n)})]

\* One attempt of a loop, which goes on as F says.
Attempt(F, i, n, last, allowed, behind) ==
  IF i > last THEN {}
  ELSE IF FirstUsed(i, n, behind) = n THEN {i}
  ELSE F[SkipTo(i, n, allowed, behind)]

\* The loops of this form.
IsSearch(F, n, last, allowed, behind) ==
  F = [i \in Nat |-> Attempt(F, i, n, last, allowed, behind)]

\* What one attempt of a loop gives, and the rest of the loop.
LEMMA AttemptStep ==
  ASSUME TypeOK, NEW n \in Nat \ {0}, NEW last \in Int, last + n <= PageCount,
         NEW allowed, CanSkip(last, allowed), NEW behind, behind \subseteq Behind, NEW i \in Nat
  PROVE  Found(n, last)[i] = Attempt(Found(n, last), i, n, last, allowed, behind)
<1>1. CASE i > last
  BY <1>1 DEF Attempt, Found, Lowest
<1>2. CASE i <= last /\ FirstUsed(i, n, behind) = n
  <2>1. FreeRun(i, n)
    <3>1. i + n <= PageCount
      BY <1>2, PageCountType
    <3> QED  BY <1>2, <3>1, AttemptFindsRun, Zenon
  <2>2. Lowest({j \in i..last : FreeRun(j, n)}) = {i}
    BY <1>2, <2>1 DEF Lowest
  <2>3. Found(n, last)[i] = {i}
    BY <2>2 DEF Found
  <2>4. ~(i > last)
    BY <1>2
  <2> QED  BY <1>2, <2>3, <2>4, Zenon DEF Attempt
<1>3. CASE i <= last /\ FirstUsed(i, n, behind) # n
  <2> DEFINE to == SkipTo(i, n, allowed, behind)
  <2>1. /\ to \in Nat /\ to > i
        /\ \A j \in i..(to - 1) : j + n <= PageCount => ~FreeRun(j, n)
    <3>1. 0 \in allowed
      BY <1>3 DEF CanSkip
    <3> QED  BY <1>3, <3>1, SkipPassesNoRun, Zenon
  <2> HIDE DEF to
  <2>2. ASSUME NEW j \in i..last, FreeRun(j, n) PROVE j \in to..last
    <3>1. j + n <= PageCount
      BY PageCountType
    <3> QED  BY <2>1, <2>2, <3>1
  <2>3. {j \in i..last : FreeRun(j, n)} = {j \in to..last : FreeRun(j, n)}
    BY <2>1, <2>2
  <2>4. Found(n, last)[i] = Found(n, last)[to]
    BY <2>1, <2>3, Zenon DEF Found
  <2> QED  BY <1>3, <2>4 DEF to, Attempt
<1> QED  BY <1>1, <1>2, <1>3

\* Found takes the steps of such a loop.
LEMMA FoundIsLoop ==
  ASSUME TypeOK, NEW n \in Nat \ {0}, NEW last \in Int, last + n <= PageCount,
         NEW allowed, CanSkip(last, allowed), NEW behind, behind \subseteq Behind
  PROVE  IsSearch(Found(n, last), n, last, allowed, behind)
<1>1. ASSUME NEW i \in Nat
      PROVE  Found(n, last)[i] = Attempt(Found(n, last), i, n, last, allowed, behind)
  BY AttemptStep
<1>2. [i \in Nat |-> Found(n, last)[i]]
        = [i \in Nat |-> Attempt(Found(n, last), i, n, last, allowed, behind)]
  BY <1>1, Zenon
<1> QED  BY <1>2, Zenon DEF Found, IsSearch

\* A loop that takes these steps finds what Found says, by induction on the
\* pages that are left.
LEMMA LoopIsFound ==
  ASSUME TypeOK, NEW n \in Nat \ {0}, NEW last \in Int, last + n <= PageCount,
         NEW allowed, CanSkip(last, allowed), NEW behind, behind \subseteq Behind,
         NEW F, IsSearch(F, n, last, allowed, behind)
  PROVE  F = Found(n, last)
<1>0. ASSUME NEW k \in Nat
      PROVE  Found(n, last)[k] = Attempt(Found(n, last), k, n, last, allowed, behind)
  BY AttemptStep
<1>3. F = [i \in Nat |-> Attempt(F, i, n, last, allowed, behind)]
  BY DEF IsSearch
<1> DEFINE S == {m \in Nat : \E i \in Nat : F[i] # Found(n, last)[i] /\ m = IF i > last THEN 0 ELSE last - i}
<1>1. CASE S = {}
  <2>1. ASSUME NEW i \in Nat, F[i] # Found(n, last)[i] PROVE FALSE
    <3>1. (IF i > last THEN 0 ELSE last - i) \in Nat
      OBVIOUS
    <3>2. (IF i > last THEN 0 ELSE last - i) \in S
      BY <2>1, <3>1
    <3> QED  BY <1>1, <3>2
  <2> QED  BY <1>3, <2>1 DEF Found
<1>2. CASE S # {}
  <2>1. PICK m \in S : \A k \in S : m <= k
    BY <1>2, Minimum
  <2>2. PICK i \in Nat : F[i] # Found(n, last)[i] /\ m = IF i > last THEN 0 ELSE last - i
    BY <2>1
  <2>3. Found(n, last)[i] = Attempt(Found(n, last), i, n, last, allowed, behind)
    BY <1>0, Zenon
  <2>4. F[i] = Attempt(F, i, n, last, allowed, behind)
    BY <1>3, Zenon
  <2>5. /\ i <= last /\ FirstUsed(i, n, behind) # n
        /\ F[SkipTo(i, n, allowed, behind)] # Found(n, last)[SkipTo(i, n, allowed, behind)]
    BY <2>2, <2>3, <2>4 DEF Attempt
  <2> DEFINE to == SkipTo(i, n, allowed, behind)
  <2>6. to \in Nat /\ to > i
    <3>1. 0 \in allowed
      BY <2>5 DEF CanSkip
    <3> QED  BY <2>5, <3>1, SkipPassesNoRun, Zenon
  <2> HIDE DEF to
  <2>7. F[to] # Found(n, last)[to]
    BY <2>5 DEF to
  <2>8. CASE to <= last
    <3>1. last - to \in S
      <4>1. last - to \in Nat /\ last - to = IF to > last THEN 0 ELSE last - to
        BY <2>6, <2>8
      <4> QED  BY <4>1, <2>6, <2>7
    <3>2. m <= last - to
      BY <2>1, <3>1
    <3> QED  BY <2>2, <2>5, <2>6, <3>2
  <2>9. CASE to > last
    \* Behind the last page both are empty.
    <3>1. Found(n, last)[to] = {}
      BY <2>6, <2>9 DEF Found, Lowest
    <3>2. F[to] = {}
      BY <1>3, <2>6, <2>9 DEF Attempt
    <3> QED  BY <2>7, <3>1, <3>2
  <2> QED  BY <2>6, <2>8, <2>9
<1> QED  BY <1>1, <1>2

\* The first loop finds the lowest free run from the cursor on.
LEMMA UpwardFinds ==
  ASSUME TypeOK, NEW n \in Nat \ {0}, n <= PageCount, NEW behind, behind \subseteq Behind
  PROVE  SearchUpward(n, behind) = Lowest({j \in lastEmptyPage..(PageCount - n) : FreeRun(j, n)})
<1> DEFINE last == PageCount - n
           Upward(F) == F = [Index \in Nat |->
                          IF Index > PageCount - n THEN {}
                          ELSE IF FirstUsed(Index, n, behind) = n THEN {Index}
                          ELSE F[SkipTo(Index, n, Nat, behind)]]
<1>1. last \in Int /\ last + n <= PageCount /\ CanSkip(last, Nat)
  BY PageCountType DEF CanSkip
<1>0. \A F : Upward(F) <=> IsSearch(F, n, last, Nat, behind)
  BY Zenon DEF IsSearch, Attempt
<1> HIDE DEF last, Upward
<1>2. Upward(Found(n, last))
  <2>1. IsSearch(Found(n, last), n, last, Nat, behind)
    BY <1>1, FoundIsLoop
  <2> QED  BY <1>0, <2>1, Zenon
<1>3. ASSUME NEW F, Upward(F) PROVE F = Found(n, last)
  <2>1. IsSearch(F, n, last, Nat, behind)
    BY <1>0, <1>3, Zenon
  <2> QED  BY <1>1, <2>1, LoopIsFound
<1>4. (CHOOSE F : Upward(F)) = Found(n, last)
  BY <1>2, <1>3, Zenon
<1>5. SearchUpward(n, behind) = Found(n, last)[lastEmptyPage]
  BY <1>4, Zenon DEF SearchUpward, Upward
<1>6. lastEmptyPage \in Nat
  BY PageCountType DEF TypeOK
<1> QED  BY <1>5, <1>6 DEF Found, last

\* The second loop finds the lowest free run that ends before the cursor.
LEMMA FromStartFinds ==
  ASSUME TypeOK, NEW n \in Nat \ {0}, n <= lastEmptyPage, NEW behind, behind \subseteq Behind
  PROVE  SearchFromStart(n, behind) = Lowest({j \in 0..(lastEmptyPage - n - 1) : FreeRun(j, n)})
<1> DEFINE last == lastEmptyPage - n - 1
           allowed == 0..(lastEmptyPage - n - 1)
           FromStart(F) == F = [Index \in Nat |->
                          IF Index >= lastEmptyPage - n THEN {}
                          ELSE IF FirstUsed(Index, n, behind) = n THEN {Index}
                          ELSE F[SkipTo(Index, n, 0..(lastEmptyPage - n - 1), behind)]]
<1>1. lastEmptyPage \in 0..PageCount
  BY DEF TypeOK
<1>2. last \in Int /\ last + n <= PageCount /\ CanSkip(last, allowed)
  BY <1>1, PageCountType DEF CanSkip
<1>3. \A Index \in Nat : Index >= lastEmptyPage - n <=> Index > last
  BY <1>1, PageCountType
<1>4. ASSUME NEW F
      PROVE  FromStart(F) <=> IsSearch(F, n, last, allowed, behind)
  <2>1. \A Index \in Nat :
          (IF Index >= lastEmptyPage - n THEN {}
           ELSE IF FirstUsed(Index, n, behind) = n THEN {Index}
           ELSE F[SkipTo(Index, n, allowed, behind)])
          = Attempt(F, Index, n, last, allowed, behind)
    <3> HIDE DEF last, allowed
    <3> QED  BY <1>3 DEF Attempt
  <2> QED  BY <2>1, Zenon DEF IsSearch
<1> HIDE DEF last, allowed, FromStart
<1>5. FromStart(Found(n, last))
  <2>1. IsSearch(Found(n, last), n, last, allowed, behind)
    BY <1>2, FoundIsLoop
  <2> QED  BY <1>4, <2>1, Zenon
<1>6. ASSUME NEW F, FromStart(F) PROVE F = Found(n, last)
  <2>1. IsSearch(F, n, last, allowed, behind)
    BY <1>4, <1>6, Zenon
  <2> QED  BY <1>2, <2>1, LoopIsFound
<1>7. (CHOOSE F : FromStart(F)) = Found(n, last)
  BY <1>5, <1>6, Zenon
<1>8. SearchFromStart(n, behind) = Found(n, last)[0]
  BY <1>7, Zenon DEF SearchFromStart, FromStart
<1> QED  BY <1>8 DEF Found, last

\* A free run is found if there is one.
LEMMA LowestExists ==
  ASSUME NEW S, S \subseteq Nat
  PROVE  Lowest(S) = {} <=> S = {}
<1>1. ASSUME S # {} PROVE Lowest(S) # {}
  BY <1>1, Minimum DEF Lowest
<1> QED  BY <1>1 DEF Lowest

\* For every table of the right type, the two loops of LookupFreeMemRegion find
\* the lowest free run of each of their ranges.
LEMMA LoopsFind ==
  ASSUME TypeOK
  PROVE  LoopsFindLowestRun
<1> SUFFICES ASSUME NEW n \in 1..(PageCount + 1), NEW behind \in SUBSET Behind
             PROVE  LookupLoops(n, behind) = LookupFreeMemRegion(n)
  BY DEF LoopsFindLowestRun
<1> DEFINE above == {i \in lastEmptyPage..(PageCount - n) : FreeRun(i, n)}
           below == {i \in 0..(lastEmptyPage - n - 1) : FreeRun(i, n)}
<1>1. lastEmptyPage \in 0..PageCount /\ n \in Nat \ {0}
  BY PageCountType DEF TypeOK
<1>2. LookupFreeMemRegion(n) = IF above # {} THEN Lowest(above) ELSE Lowest(below)
  BY DEF LookupFreeMemRegion
<1>3. above \subseteq Nat /\ below \subseteq Nat
  BY <1>1, PageCountType
<1>4. CASE n > PageCount
  <2>1. above = {} /\ below = {}
    BY <1>1, <1>4, PageCountType
  <2>2. LookupFreeMemRegion(n) = {}
    BY <1>2, <2>1, <1>3, LowestExists
  <2> QED  BY <2>2, <1>4 DEF LookupLoops
<1>5. CASE n <= PageCount
  <2>1. SearchUpward(n, behind) = Lowest(above)
    BY <1>1, <1>5, UpwardFinds
  <2>2. LookupLoops(n, behind) = IF SearchUpward(n, behind) # {} THEN SearchUpward(n, behind)
                         ELSE IF n > lastEmptyPage THEN {} ELSE SearchFromStart(n, behind)
    BY <1>1, <1>5, PageCountType DEF LookupLoops
  <2>3. Lowest(above) = {} <=> above = {}
    BY <1>3, LowestExists
  <2>4. n > lastEmptyPage => Lowest(below) = {}
    <3>1. n > lastEmptyPage => below = {}
      BY <1>1, PageCountType
    <3> QED  BY <3>1, <1>3, LowestExists
  <2>5. n <= lastEmptyPage => SearchFromStart(n, behind) = Lowest(below)
    BY <1>1, FromStartFinds
  <2>6. n > lastEmptyPage \/ n <= lastEmptyPage
    BY <1>1, PageCountType
  <2> HIDE DEF above, below
  <2>7. CASE above # {}
    BY <2>7, <1>2, <2>1, <2>2, <2>3
  <2>8. CASE above = {}
    <3>1. SearchUpward(n, behind) = {} /\ LookupFreeMemRegion(n) = Lowest(below)
      BY <2>8, <1>2, <2>1, <2>3
    <3> QED  BY <3>1, <2>2, <2>4, <2>5, <2>6
  <2> QED  BY <2>7, <2>8
<1> QED  BY <1>1, <1>4, <1>5, PageCountType

\* The loops of LookupFreeMemRegion, which jump over used pages, find the lowest run
\* of free pages, in every reachable table, for every length and whatever the
\* entries they read behind the table hold.
THEOREM LoopsAlwaysFindLowest == Spec => []LoopsFindLowestRun
<1>1. TypeOK => LoopsFindLowestRun
  BY LoopsFind
<1> QED  BY <1>1, MemTypeCorrect, PTL

-----------------------------------------------------------------------------
(* The calendar.                                                            *)

\* Days of a year, as TimerWrapper.c's table has them.
YearLength(y) == CumulativeDays(IsLeap(y))[13]

\* A year has 366 days if its February is long, 365 otherwise.
LEMMA YearLengths ==
  ASSUME NEW y \in Nat
  PROVE  /\ IsLeap(y) = LongFebruary(y)
         /\ YearLength(y) = IF LongFebruary(y) THEN 366 ELSE 365
<1>1. y % 400 = 0 => y % 4 = 0
  OBVIOUS
<1>2. IsLeap(y) <=> LongFebruary(y)
  BY <1>1, Zenon DEF IsLeap, LongFebruary
<1>3. IsLeap(y) \in BOOLEAN /\ LongFebruary(y) \in BOOLEAN
  BY DEF IsLeap, LongFebruary
<1>4. CASE LongFebruary(y)
  <2>1. IsLeap(y) = TRUE
    BY <1>2, <1>3, <1>4
  <2>2. CumulativeDays(IsLeap(y)) = <<0, 31, 60, 91, 121, 152, 182, 213, 244, 274, 305, 335, 366>>
    BY <2>1 DEF CumulativeDays
  <2> QED  BY <1>2, <1>3, <1>4, <2>2 DEF YearLength
<1>5. CASE ~LongFebruary(y)
  <2>1. IsLeap(y) = FALSE
    BY <1>2, <1>3, <1>5
  <2>2. CumulativeDays(IsLeap(y)) = <<0, 31, 59, 90, 120, 151, 181, 212, 243, 273, 304, 334, 365>>
    BY <2>1 DEF CumulativeDays
  <2> QED  BY <1>2, <1>3, <1>5, <2>2 DEF YearLength
<1> QED  BY <1>4, <1>5

\* The next year begins when the days of this one are over.
LEMMA NextYear ==
  ASSUME NEW y \in Nat
  PROVE  NewYear(y) \in Int /\ NewYear(y + 1) = NewYear(y) + YearLength(y)
<1>1. (y \div 4) - ((y - 1) \div 4) = IF y % 4 = 0 THEN 1 ELSE 0
  OBVIOUS
<1>2. (y \div 100) - ((y - 1) \div 100) = IF y % 100 = 0 THEN 1 ELSE 0
  OBVIOUS
<1>3. (y \div 400) - ((y - 1) \div 400) = IF y % 400 = 0 THEN 1 ELSE 0
  OBVIOUS
<1>4. (y % 400 = 0 => y % 100 = 0) /\ (y % 100 = 0 => y % 4 = 0)
  OBVIOUS
<1>5. LongFebruary(y) <=> y % 400 = 0 \/ (y % 4 = 0 /\ y % 100 # 0)
  BY DEF LongFebruary
<1>6. /\ (y - 1) \div 4 \in Int /\ (y - 1) \div 100 \in Int /\ (y - 1) \div 400 \in Int
      /\ y \div 4 \in Int /\ y \div 100 \in Int /\ y \div 400 \in Int
  OBVIOUS
<1>7. (y + 1) - 1 = y
  OBVIOUS
<1> QED  BY <1>1, <1>2, <1>3, <1>4, <1>5, <1>6, <1>7, YearLengths DEF NewYear, FirstYear

\* Later years begin later.
LEMMA YearsGrow ==
  ASSUME NEW y \in Nat, NEW z \in Nat, y < z
  PROVE  NewYear(y + 1) <= NewYear(z)
<1>1. /\ y \div 4 <= (z - 1) \div 4 /\ y \div 400 <= (z - 1) \div 400
      /\ (z - 1) \div 100 <= (y \div 100) + (z - 1 - y)
  OBVIOUS
<1>2. /\ y \div 4 \in Int /\ y \div 100 \in Int /\ y \div 400 \in Int
      /\ (z - 1) \div 4 \in Int /\ (z - 1) \div 100 \in Int /\ (z - 1) \div 400 \in Int
      /\ (y + 1) - 1 = y
  OBVIOUS
<1> QED  BY <1>1, <1>2 DEF NewYear, FirstYear

\* The table of the code counts the days of the calendar.
LEMMA MonthDays ==
  ASSUME NEW y \in Nat, NEW m \in 1..12, NEW d \in 1..31
  PROVE  /\ DayOfYear(y, m, d) = CumulativeDays(IsLeap(y))[m] + d - 1
         /\ CumulativeDays(IsLeap(y))[m + 1] = CumulativeDays(IsLeap(y))[m] + DaysIn(y, m)
         /\ CumulativeDays(IsLeap(y))[m] \in 0..335
         /\ DaysIn(y, m) \in 28..31
<1>1. IsLeap(y) = LongFebruary(y) /\ IsLeap(y) \in BOOLEAN
  BY YearLengths DEF IsLeap
<1>2. CASE m \in 1..3
  BY <1>1, <1>2 DEF DayOfYear, CumulativeDays, DaysIn
<1>3. CASE m \in 4..6
  BY <1>1, <1>3 DEF DayOfYear, CumulativeDays, DaysIn
<1>4. CASE m \in 7..9
  BY <1>1, <1>4 DEF DayOfYear, CumulativeDays, DaysIn
<1>5. CASE m \in 10..12
  BY <1>1, <1>5 DEF DayOfYear, CumulativeDays, DaysIn
<1> QED  BY <1>2, <1>3, <1>4, <1>5

\* The table grows from month to month.
LEMMA TableGrows ==
  ASSUME NEW leap \in BOOLEAN
  PROVE  /\ \A j \in 1..13 : CumulativeDays(leap)[j] \in Nat
         /\ \A j, k \in 1..13 : j <= k => CumulativeDays(leap)[j] <= CumulativeDays(leap)[k]
<1>1. CASE leap = TRUE
  <2>1. CumulativeDays(leap) = <<0, 31, 60, 91, 121, 152, 182, 213, 244, 274, 305, 335, 366>>
    BY <1>1 DEF CumulativeDays
  <2>2. \A j \in 1..13 : CumulativeDays(leap)[j] \in Nat
    BY <2>1
  <2>3. \A j \in 1..12 : CumulativeDays(leap)[j] <= CumulativeDays(leap)[j + 1]
    BY <2>1
  <2>4. ASSUME NEW j \in 1..13, NEW k \in 1..13, j <= k
        PROVE  CumulativeDays(leap)[j] <= CumulativeDays(leap)[k]
    BY <2>1, <2>4
  <2> QED  BY <2>2, <2>4
<1>2. CASE leap = FALSE
  <2>1. CumulativeDays(leap) = <<0, 31, 59, 90, 120, 151, 181, 212, 243, 273, 304, 334, 365>>
    BY <1>2 DEF CumulativeDays
  <2>2. \A j \in 1..13 : CumulativeDays(leap)[j] \in Nat
    BY <2>1
  <2>4. ASSUME NEW j \in 1..13, NEW k \in 1..13, j <= k
        PROVE  CumulativeDays(leap)[j] <= CumulativeDays(leap)[k]
    BY <2>1, <2>4
  <2> QED  BY <2>2, <2>4
<1> QED  BY <1>1, <1>2

\* The day of the year of a date lies in its month, and in its year.
LEMMA DateFacts ==
  ASSUME NEW c, IsDate(c)
  PROVE  /\ c.Year \in Nat /\ c.Year >= FirstYear /\ c.Month \in 1..12 /\ c.Day \in 1..31
         /\ c.sec \in SecondOfDay /\ c.yday \in Nat /\ IsLeap(c.Year) \in BOOLEAN
         /\ CumulativeDays(IsLeap(c.Year))[c.Month] \in Nat
         /\ CumulativeDays(IsLeap(c.Year))[c.Month + 1] \in Nat
         /\ c.yday = CumulativeDays(IsLeap(c.Year))[c.Month] + c.Day - 1
         /\ c.yday < CumulativeDays(IsLeap(c.Year))[c.Month + 1]
         /\ YearLength(c.Year) \in {365, 366} /\ c.yday < YearLength(c.Year)
         /\ NewYear(c.Year) \in Int /\ DayNumber(c) \in Int
<1>1. /\ c.Year \in Nat /\ c.Year >= FirstYear /\ c.Month \in 1..12 /\ c.Day \in 1..31
      /\ c.sec \in SecondOfDay /\ c.yday \in Nat
      /\ c.Day <= DaysIn(c.Year, c.Month) /\ c.yday = DayOfYear(c.Year, c.Month, c.Day)
  BY DEF IsDate, Date
<1>2. IsLeap(c.Year) \in BOOLEAN
  BY DEF IsLeap
<1>3. /\ CumulativeDays(IsLeap(c.Year))[c.Month] \in Nat
      /\ CumulativeDays(IsLeap(c.Year))[c.Month + 1] \in Nat
      /\ CumulativeDays(IsLeap(c.Year))[13] \in Nat
      /\ CumulativeDays(IsLeap(c.Year))[c.Month + 1] <= CumulativeDays(IsLeap(c.Year))[13]
  BY <1>1, <1>2, TableGrows
<1>4. /\ c.yday = CumulativeDays(IsLeap(c.Year))[c.Month] + c.Day - 1
      /\ c.yday < CumulativeDays(IsLeap(c.Year))[c.Month + 1]
  <2>1. /\ DayOfYear(c.Year, c.Month, c.Day) = CumulativeDays(IsLeap(c.Year))[c.Month] + c.Day - 1
        /\ CumulativeDays(IsLeap(c.Year))[c.Month + 1]
             = CumulativeDays(IsLeap(c.Year))[c.Month] + DaysIn(c.Year, c.Month)
        /\ DaysIn(c.Year, c.Month) \in 28..31
    <3>1. c.Year \in Nat /\ c.Month \in 1..12 /\ c.Day \in 1..31
      BY <1>1
    <3>2. DayOfYear(c.Year, c.Month, c.Day) = CumulativeDays(IsLeap(c.Year))[c.Month] + c.Day - 1
      BY <3>1, MonthDays
    <3>3. CumulativeDays(IsLeap(c.Year))[c.Month + 1]
            = CumulativeDays(IsLeap(c.Year))[c.Month] + DaysIn(c.Year, c.Month)
      BY <3>1, MonthDays
    <3>4. DaysIn(c.Year, c.Month) \in 28..31
      BY <3>1, MonthDays
    <3> QED  BY <3>2, <3>3, <3>4
  <2> QED  BY <1>1, <1>3, <2>1
<1>5. YearLength(c.Year) \in {365, 366} /\ NewYear(c.Year) \in Int
  BY <1>1, YearLengths, NextYear
<1>6. c.yday < YearLength(c.Year)
  BY <1>1, <1>3, <1>4 DEF YearLength
<1>7. DayNumber(c) \in Int
  BY <1>1, <1>5 DEF DayNumber
<1> QED  BY <1>1, <1>2, <1>3, <1>4, <1>5, <1>6, <1>7

\* gmtime finds the month of a date from its day of the year.
LEMMA MonthFound ==
  ASSUME NEW c, IsDate(c)
  PROVE  MonthOf(c.yday, IsLeap(c.Year)) = c.Month
<1> DEFINE table == CumulativeDays(IsLeap(c.Year))
           d == c.yday
           Is(m) == /\ m = 1 \/ d >= table[m]
                    /\ \A k \in (m + 1)..12 : d < table[k]
<1>1. /\ c.Month \in 1..12 /\ d \in Nat /\ c.Day \in 1..31 /\ table[c.Month] \in Nat
      /\ d = table[c.Month] + c.Day - 1 /\ d < table[c.Month + 1]
      /\ IsLeap(c.Year) \in BOOLEAN
  BY DateFacts
<1>2. /\ \A j \in 1..13 : table[j] \in Nat
      /\ \A j, k \in 1..13 : j <= k => table[j] <= table[k]
  BY <1>1, TableGrows
<1> HIDE DEF table, d
<1>3. Is(c.Month)
  BY <1>1, <1>2
<1>4. ASSUME NEW m \in 1..12, Is(m) PROVE m = c.Month
  <2>1. CASE m < c.Month
    <3>1. d < table[c.Month]
      BY <1>1, <1>4, <2>1
    <3> QED  BY <1>1, <3>1
  <2>2. CASE m > c.Month
    <3>1. d >= table[m] /\ table[c.Month + 1] <= table[m]
      BY <1>1, <1>2, <1>4, <2>2
    <3> QED  BY <1>1, <1>2, <3>1
  <2> QED  BY <1>1, <2>1, <2>2
<1>5. MonthOf(c.yday, IsLeap(c.Year)) = CHOOSE m \in 1..12 : Is(m)
  BY Zenon DEF MonthOf, table, d
<1> QED
  <2> HIDE DEF Is
  <2> QED  BY <1>1, <1>3, <1>4, <1>5, Zenon

-----------------------------------------------------------------------------
(* The loops over years.                                                    *)

\* The year and the day in it of a day since the epoch.
YearDay(n) ==
  CHOOSE q \in Nat \X Nat : NewYear(q[1]) + q[2] = n /\ q[2] < YearLength(q[1])

\* There is only one.
LEMMA YearDayUnique ==
  ASSUME NEW y \in Nat, NEW d \in Nat, d < YearLength(y)
  PROVE  YearDay(NewYear(y) + d) = <<y, d>>
<1> DEFINE n == NewYear(y) + d
           Is(q) == NewYear(q[1]) + q[2] = n /\ q[2] < YearLength(q[1])
<1>1. NewYear(y) \in Int /\ n \in Int /\ NewYear(y + 1) = NewYear(y) + YearLength(y)
  BY NextYear
<1>2. <<y, d>> \in Nat \X Nat /\ Is(<<y, d>>)
  OBVIOUS
<1>3. ASSUME NEW z \in Nat, NEW e \in Nat, NewYear(z) + e = n, e < YearLength(z)
      PROVE  z = y /\ e = d
  <2>1. NewYear(z) \in Int /\ NewYear(z + 1) = NewYear(z) + YearLength(z)
    BY NextYear
  <2>2. YearLength(y) \in Int /\ YearLength(z) \in Int
    BY YearLengths
  <2>3. ~(y < z)
    <3>1. y < z => NewYear(y + 1) <= NewYear(z)
      BY YearsGrow
    <3> QED  BY <1>1, <1>3, <2>1, <2>2, <3>1
  <2>4. ~(z < y)
    <3>1. z < y => NewYear(z + 1) <= NewYear(y)
      BY YearsGrow
    <3> QED  BY <1>1, <1>3, <2>1, <2>2, <3>1
  <2>5. z = y
    BY <2>3, <2>4
  <2> QED  BY <1>1, <1>3, <2>5
<1> HIDE DEF n
<1>4. ASSUME NEW q \in Nat \X Nat, Is(q) PROVE q = <<y, d>>
  <2>1. q[1] \in Nat /\ q[2] \in Nat /\ q = <<q[1], q[2]>>
    OBVIOUS
  <2>2. q[1] = y /\ q[2] = d
    BY <1>3, <1>4, <2>1
  <2> QED  BY <2>1, <2>2
<1>5. YearDay(n) = CHOOSE q \in Nat \X Nat : Is(q)
  BY Zenon DEF YearDay
<1> QED
  <2> HIDE DEF Is
  <2> QED  BY <1>2, <1>4, <1>5, Zenon DEF n

\* Whoever takes off the years one by one gets there, by induction on the days.
LEMMA YearLoop ==
  \A F : F = [p \in Nat \X Nat |->
               IF p[2] < YearLength(p[1]) THEN p
               ELSE F[<<p[1] + 1, p[2] - YearLength(p[1])>>]]
         => \A p \in Nat \X Nat : F[p] \in Nat \X Nat
                 /\ NewYear(F[p][1]) + F[p][2] = NewYear(p[1]) + p[2] /\ F[p][2] < YearLength(F[p][1])
<1> SUFFICES ASSUME NEW F,
                    F = [p \in Nat \X Nat |->
                           IF p[2] < YearLength(p[1]) THEN p
                           ELSE F[<<p[1] + 1, p[2] - YearLength(p[1])>>]]
             PROVE  \A p \in Nat \X Nat : F[p] \in Nat \X Nat
                 /\ NewYear(F[p][1]) + F[p][2] = NewYear(p[1]) + p[2] /\ F[p][2] < YearLength(F[p][1])
  OBVIOUS
<1> DEFINE Good(p) == F[p] \in Nat \X Nat
                 /\ NewYear(F[p][1]) + F[p][2] = NewYear(p[1]) + p[2] /\ F[p][2] < YearLength(F[p][1])
           S == {d \in Nat : \E y \in Nat : ~Good(<<y, d>>)}
<1>1. \A y, d \in Nat :
        /\ d < YearLength(y) => F[<<y, d>>] = <<y, d>>
        /\ ~(d < YearLength(y)) => F[<<y, d>>] = F[<<y + 1, d - YearLength(y)>>]
  <2> SUFFICES ASSUME NEW y \in Nat, NEW d \in Nat
               PROVE  /\ d < YearLength(y) => F[<<y, d>>] = <<y, d>>
                      /\ ~(d < YearLength(y)) => F[<<y, d>>] = F[<<y + 1, d - YearLength(y)>>]
    BY Zenon
  <2>1. <<y, d>> \in Nat \X Nat /\ <<y, d>>[1] = y /\ <<y, d>>[2] = d
    OBVIOUS
  <2> QED  BY <2>1
<1>2. CASE S # {}
  <2>1. PICK d \in S : \A m \in S : d <= m
    BY <1>2, Minimum
  <2>2. PICK y \in Nat : ~Good(<<y, d>>)
    BY <2>1
  <2>3. d \in Nat /\ YearLength(y) \in {365, 366}
    BY <2>1, YearLengths
  <2>4. CASE d < YearLength(y)
    <3>1. F[<<y, d>>] = <<y, d>>
      <4>1. d \in Nat
        BY <2>3
      <4> HIDE DEF Good, S
      <4> QED  BY <1>1, <4>1, <2>4, Zenon
    <3>2. <<y, d>> \in Nat \X Nat /\ <<y, d>>[1] = y /\ <<y, d>>[2] = d
      BY <2>3
    <3>3. F[<<y, d>>] \in Nat \X Nat
      BY <3>1, <3>2, Zenon
    <3>4. NewYear(F[<<y, d>>][1]) + F[<<y, d>>][2] = NewYear(<<y, d>>[1]) + <<y, d>>[2]
      BY <3>1, Zenon
    <3>5. F[<<y, d>>][2] < YearLength(F[<<y, d>>][1])
      BY <2>4, <3>1, <3>2, Zenon
    <3> QED  BY <2>2, <3>3, <3>4, <3>5, Zenon
  <2>5. CASE ~(d < YearLength(y))
    <3> DEFINE e == d - YearLength(y)
    <3>1. e \in Nat /\ e < d
      BY <2>3, <2>5
    <3>2. F[<<y, d>>] = F[<<y + 1, e>>]
      <4>1. d \in Nat
        BY <2>3
      <4> HIDE DEF Good, S
      <4> QED  BY <1>1, <4>1, <2>5, Zenon
    <3>3. NewYear(y) \in Int /\ NewYear(y + 1) = NewYear(y) + YearLength(y)
      BY NextYear
    <3>4. NewYear(y + 1) + e = NewYear(y) + d
      BY <2>3, <3>3
    <3> HIDE DEF e
    <3>5. Good(<<y + 1, e>>)
      <4>1. \A z \in Nat : ~Good(<<z, e>>) => e \in S
        <5> HIDE DEF Good
        <5> QED  BY <3>1
      <4>2. e \notin S
        <5> HIDE DEF Good, S
        <5> QED  BY <2>1, <2>3, <3>1
      <4>3. y + 1 \in Nat
        OBVIOUS
      <4> HIDE DEF Good, S
      <4> QED  BY <4>1, <4>2, <4>3
    <3>6. Good(<<y, d>>)
      <4>1. <<y, d>>[1] = y /\ <<y, d>>[2] = d /\ <<y + 1, e>>[1] = y + 1 /\ <<y + 1, e>>[2] = e
        OBVIOUS
      <4> QED  BY <3>2, <3>4, <3>5, <4>1
    <3> QED  BY <2>2, <3>6
  <2> QED  BY <2>4, <2>5
<1>3. CASE S = {}
  <2>1. ASSUME NEW p \in Nat \X Nat PROVE Good(p)
    <3>1. p[1] \in Nat /\ p[2] \in Nat /\ p = <<p[1], p[2]>>
      OBVIOUS
    <3>2. Good(<<p[1], p[2]>>)
      BY <1>3, <3>1
    <3> QED  BY <3>1, <3>2
  <2> QED  BY <2>1
<1> QED  BY <1>2, <1>3

\* The recursive function of the loop is defined.
LEMMA YearAndDayIsLoop ==
  YearAndDay = [p \in Nat \X Nat |->
                  IF p[2] < YearLength(p[1]) THEN p
                  ELSE YearAndDay[<<p[1] + 1, p[2] - YearLength(p[1])>>]]
<1> DEFINE G == [p \in Nat \X Nat |-> YearDay(NewYear(p[1]) + p[2])]
           IsLoop(F) == F = [p \in Nat \X Nat |->
                               IF p[2] < CumulativeDays(IsLeap(p[1]))[13] THEN p
                               ELSE F[<<p[1] + 1, p[2] - CumulativeDays(IsLeap(p[1]))[13]>>]]
<1>1. ASSUME NEW p \in Nat \X Nat
      PROVE  G[p] = IF p[2] < YearLength(p[1]) THEN p ELSE G[<<p[1] + 1, p[2] - YearLength(p[1])>>]
  <2>1. p[1] \in Nat /\ p[2] \in Nat /\ p = <<p[1], p[2]>>
    OBVIOUS
  <2>2. CASE p[2] < YearLength(p[1])
    <3>1. YearDay(NewYear(p[1]) + p[2]) = <<p[1], p[2]>>
      BY <2>1, <2>2, YearDayUnique
    <3> QED  BY <2>1, <2>2, <3>1
  <2>3. CASE ~(p[2] < YearLength(p[1]))
    <3> DEFINE q == <<p[1] + 1, p[2] - YearLength(p[1])>>
    <3>1. YearLength(p[1]) \in {365, 366}
      BY <2>1, YearLengths
    <3>2. q \in Nat \X Nat /\ q[1] = p[1] + 1 /\ q[2] = p[2] - YearLength(p[1])
      BY <2>1, <2>3, <3>1
    <3>3. NewYear(p[1]) \in Int /\ NewYear(p[1] + 1) = NewYear(p[1]) + YearLength(p[1])
      BY <2>1, NextYear
    <3>4. NewYear(q[1]) + q[2] = NewYear(p[1]) + p[2]
      BY <2>1, <3>1, <3>2, <3>3
    <3> HIDE DEF q
    <3>5. G[q] = YearDay(NewYear(q[1]) + q[2]) /\ G[p] = YearDay(NewYear(p[1]) + p[2])
      BY <3>2, Zenon
    <3>6. G[p] = G[q]
      BY <3>4, <3>5
    <3> QED  BY <2>3, <3>6 DEF q
  <2> QED  BY <2>2, <2>3
<1>2. G = [p \in Nat \X Nat |->
             IF p[2] < YearLength(p[1]) THEN p ELSE G[<<p[1] + 1, p[2] - YearLength(p[1])>>]]
  <2> HIDE DEF G
  <2>1. [p \in Nat \X Nat |-> G[p]]
          = [p \in Nat \X Nat |->
             IF p[2] < YearLength(p[1]) THEN p ELSE G[<<p[1] + 1, p[2] - YearLength(p[1])>>]]
    BY <1>1
  <2>2. G = [p \in Nat \X Nat |-> G[p]]
    BY DEF G
  <2> QED  BY <2>1, <2>2
<1> HIDE DEF G
<1>3. IsLoop(G)
  BY <1>2, Zenon DEF YearLength
<1>4. IsLoop(CHOOSE F : IsLoop(F))
  <2> HIDE DEF IsLoop
  <2> QED  BY <1>3, Zenon
<1>5. YearAndDay = CHOOSE F : IsLoop(F)
  BY Zenon DEF YearAndDay
<1>6. IsLoop(YearAndDay)
  <2> HIDE DEF IsLoop
  <2> QED  BY <1>4, <1>5, Zenon
<1> QED  BY <1>6, Zenon DEF YearLength

\* The epoch begins with day 0.
LEMMA EpochYear == FirstYear \in Nat /\ NewYear(FirstYear) = 0 /\ NewYear(FirstYear + 1) = 365 /\ NewYear(2149) = 65379
BY DEF NewYear, FirstYear

\* The day number of a date is not negative.
LEMMA DayNumberType ==
  ASSUME NEW c, IsDate(c)
  PROVE  DayNumber(c) \in Nat /\ NewYear(c.Year) \in Nat
<1>1. c.Year \in Nat /\ c.Year >= FirstYear /\ c.yday \in Nat /\ NewYear(c.Year) \in Int
  BY DateFacts
<1>2. FirstYear < c.Year => NewYear(FirstYear + 1) <= NewYear(c.Year)
  BY <1>1, YearsGrow, EpochYear
<1>3. NewYear(c.Year) \in Nat
  BY <1>1, <1>2, EpochYear
<1> QED  BY <1>1, <1>3 DEF DayNumber

\* gmtime finds the year of a date and the day in it.
LEMMA YearFound ==
  ASSUME NEW c, IsDate(c)
  PROVE  YearAndDay[<<FirstYear, DayNumber(c)>>] = <<c.Year, c.yday>>
<1> DEFINE q == YearAndDay[<<FirstYear, DayNumber(c)>>]
           p == <<FirstYear, DayNumber(c)>>
<1>1. c.Year \in Nat /\ c.yday \in Nat /\ c.yday < YearLength(c.Year)
  BY DateFacts
<1>2. DayNumber(c) \in Nat
  BY DayNumberType
<1>3. p \in Nat \X Nat /\ p[1] = FirstYear /\ p[2] = DayNumber(c)
  BY <1>2, EpochYear
<1>4. q \in Nat \X Nat /\ NewYear(q[1]) + q[2] = NewYear(FirstYear) + DayNumber(c) /\ q[2] < YearLength(q[1])
  BY <1>3, YearAndDayIsLoop, YearLoop
<1>5. NewYear(q[1]) + q[2] = NewYear(c.Year) + c.yday
  BY <1>2, <1>4, EpochYear DEF DayNumber
<1> HIDE DEF q
<1>6. q[1] \in Nat /\ q[2] \in Nat /\ q = <<q[1], q[2]>>
  BY <1>4
<1>7. YearDay(NewYear(q[1]) + q[2]) = <<q[1], q[2]>>
  BY <1>4, <1>6, YearDayUnique
<1>8. YearDay(NewYear(c.Year) + c.yday) = <<c.Year, c.yday>>
  BY <1>1, YearDayUnique
<1> QED  BY <1>5, <1>6, <1>7, <1>8 DEF q

\* time() counts the days of the years before, by induction on the years.
LEMMA DaysOfYears ==
  ASSUME NEW y0 \in Nat, y0 >= FirstYear
  PROVE  DaysBefore[y0] = NewYear(y0)
<1> DEFINE G == [y \in Nat |-> IF y <= FirstYear THEN 0 ELSE NewYear(y)]
           IsLoop(F) == F = [y \in Nat |-> IF y <= FirstYear THEN 0
                                           ELSE F[y - 1] + CumulativeDays(IsLeap(y - 1))[13]]
<1>1. IsLoop(G)
  <2>1. ASSUME NEW y \in Nat
        PROVE  G[y] = IF y <= FirstYear THEN 0 ELSE G[y - 1] + CumulativeDays(IsLeap(y - 1))[13]
    <3>1. CASE y <= FirstYear
      BY <3>1
    <3>2. CASE y > FirstYear
      <4>1. y - 1 \in Nat /\ (y - 1) + 1 = y
        BY <3>2, EpochYear
      <4>2. NewYear(y) = NewYear(y - 1) + YearLength(y - 1)
        BY <4>1, NextYear
      <4>3. G[y - 1] = NewYear(y - 1)
        BY <3>2, <4>1, EpochYear
      <4>4. G[y] = NewYear(y)
        BY <3>2, EpochYear
      <4> QED  BY <3>2, <4>2, <4>3, <4>4 DEF YearLength
    <3> QED  BY EpochYear, <3>1, <3>2
  <2> QED  BY <2>1
<1>2. DaysBefore = CHOOSE F : IsLoop(F)
  BY Zenon DEF DaysBefore
<1>3. IsLoop(DaysBefore)
  <2> HIDE DEF IsLoop, G
  <2>1. IsLoop(CHOOSE F : IsLoop(F))
    BY <1>1, Zenon
  <2> QED  BY <1>2, <2>1, Zenon
<1> DEFINE D == DaysBefore
           S == {y \in Nat : y >= FirstYear /\ D[y] # NewYear(y)}
<1>4. ASSUME NEW y \in Nat
      PROVE  D[y] = IF y <= FirstYear THEN 0 ELSE D[y - 1] + CumulativeDays(IsLeap(y - 1))[13]
  BY <1>3
<1> HIDE DEF D, IsLoop
<1>5. CASE S # {}
  <2>1. PICK y \in S : \A m \in S : y <= m
    <3>1. S \subseteq Nat
      OBVIOUS
    <3> HIDE DEF S
    <3> QED  BY <1>5, <3>1, Minimum
  <2>2. y \in Nat /\ y >= FirstYear /\ D[y] # NewYear(y)
    BY <2>1
  <2>3. y # FirstYear
    BY <1>4, <2>2, EpochYear
  <2>4. y - 1 \in Nat /\ y - 1 >= FirstYear /\ (y - 1) + 1 = y
    BY <2>2, <2>3, EpochYear
  <2>5. y - 1 \notin S
    BY <2>1, <2>4
  <2>6. D[y - 1] = NewYear(y - 1)
    BY <2>4, <2>5
  <2>7. NewYear(y) = NewYear(y - 1) + YearLength(y - 1)
    BY <2>4, NextYear
  <2>8. D[y] = D[y - 1] + YearLength(y - 1)
    BY <1>4, <2>2, <2>3, EpochYear DEF YearLength
  <2> QED  BY <2>2, <2>6, <2>7, <2>8
<1>6. CASE S = {}
  BY <1>6 DEF D
<1> QED  BY <1>5, <1>6

-----------------------------------------------------------------------------
(* time and gmtime.                                                         *)

\* The instant of a date, in seconds.
Instant(c) == SECSPERDAY * DayNumber(c) + c.sec

\* The seconds of a day.
LEMMA Seconds ==
  /\ SECSPERDAY \in Nat
  /\ \A s \in SecondOfDay : s \in Nat /\ s < SECSPERDAY
  /\ \A s \in Nat : s < SECSPERDAY => s \in SecondOfDay
<1>1. SECSPERDAY \in Nat
  BY DEF SECSPERDAY
<1>2. \A s \in 0..(SECSPERDAY - 1) : s \in Nat /\ s < SECSPERDAY
  BY <1>1
<1>3. \A s \in Nat : s < SECSPERDAY => s \in 0..(SECSPERDAY - 1)
  BY <1>1
<1> QED  BY <1>1, <1>2, <1>3, Zenon DEF SecondOfDay

\* Hours, minutes and seconds make the second of the day.
LEMMA TimeOfDay ==
  ASSUME NEW c, IsDate(c)
  PROVE  /\ c.sec \in Nat /\ c.sec < SECSPERDAY
         /\ Hour(c) \in 0..23 /\ Minute(c) \in 0..59 /\ Second(c) \in 0..59
         /\ Hour(c) * 3600 + Minute(c) * 60 + Second(c) = c.sec
<1>1. c.sec \in Nat /\ c.sec < SECSPERDAY
  <2>1. c.sec \in SecondOfDay
    BY DateFacts
  <2> QED  BY <2>1, Seconds, Zenon
<1>2. Hour(c) \in 0..23 /\ Minute(c) \in 0..59 /\ Second(c) \in 0..59
  BY <1>1 DEF Hour, Minute, Second, SECSPERDAY
<1>3. Hour(c) * 3600 + Minute(c) * 60 + Second(c) = c.sec
  BY <1>1 DEF Hour, Minute, Second
<1> QED  BY <1>1, <1>2, <1>3

\* Whole days and the seconds of the last one.
LEMMA SplitDays ==
  ASSUME NEW n \in Int, NEW s \in Nat, s < SECSPERDAY
  PROVE  (SECSPERDAY * n + s) \div SECSPERDAY = n /\ (SECSPERDAY * n + s) % SECSPERDAY = s
BY DEF SECSPERDAY

\* CalculateTimeT makes of local time and time zone the instant in universal time.
LEMMA TimeOfClock ==
  ASSUME NEW u, NEW l, NEW z \in Int, IsDate(u), IsDate(l), SameInstant(u, l, z)
  PROVE  CalculateTimeT(l, z) = [day |-> DayNumber(u), sec |-> u.sec]
<1> DEFINE off == IF z # EFI_UNSPECIFIED_TIMEZONE THEN z * 60 ELSE 0
           secs == off + Hour(l) * 3600 + Minute(l) * 60 + Second(l)
           days == DaysBefore[l.Year] + CumulativeDays(IsLeap(l.Year))[l.Month]
                   + (IF l.Day > 0 THEN l.Day - 1 ELSE 0)
<1>1. /\ u.sec \in Nat /\ u.sec < SECSPERDAY /\ l.sec \in Nat
      /\ Hour(l) \in Int /\ Minute(l) \in Int /\ Second(l) \in Int
      /\ Hour(l) * 3600 + Minute(l) * 60 + Second(l) = l.sec
  BY TimeOfDay
<1>2. DayNumber(u) \in Int /\ DayNumber(l) \in Int
  BY DateFacts
<1>3. off = Offset(z) /\ off \in Int
  BY DEF Offset
<1>4. secs = SECSPERDAY * (DayNumber(u) - DayNumber(l)) + u.sec
  BY <1>1, <1>2, <1>3 DEF SameInstant, SECSPERDAY
<1>5. days = DayNumber(l)
  <2>1. /\ l.Year \in Nat /\ l.Year >= FirstYear /\ l.Day \in 1..31 /\ NewYear(l.Year) \in Int
        /\ CumulativeDays(IsLeap(l.Year))[l.Month] \in Nat
        /\ l.yday = CumulativeDays(IsLeap(l.Year))[l.Month] + l.Day - 1
    BY DateFacts
  <2>2. DaysBefore[l.Year] = NewYear(l.Year)
    BY <2>1, DaysOfYears
  <2> QED  BY <2>1, <2>2 DEF DayNumber
<1>6. secs \div SECSPERDAY = DayNumber(u) - DayNumber(l) /\ secs % SECSPERDAY = u.sec
  BY <1>1, <1>2, <1>4, SplitDays
<1>7. days + (secs \div SECSPERDAY) = DayNumber(u)
  BY <1>2, <1>5, <1>6
<1>8. CalculateTimeT(l, z) = [day |-> days + (secs \div SECSPERDAY), sec |-> secs % SECSPERDAY]
  BY Zenon DEF CalculateTimeT
<1> QED  BY <1>6, <1>7, <1>8

\* What a date has in a UINT16 of the MbedTLS build.
LEMMA Narrow ==
  ASSUME NEW c, IsDate(c), build \in {"openssl", "mbedtls"},
         build = "mbedtls" => ~BeyondUint16(c)
  PROVE  UINT16(c.sec) = c.sec /\ UINT16(DayNumber(c)) = DayNumber(c)
<1>1. CASE build = "openssl"
  BY <1>1 DEF UINT16
<1>2. CASE build = "mbedtls"
  <2>1. c.sec \in Nat /\ DayNumber(c) \in Nat /\ NewYear(c.Year) \in Nat
    BY TimeOfDay, DayNumberType
  <2>2. /\ c.Year \in Nat /\ c.yday \in Nat /\ c.yday < YearLength(c.Year)
        /\ YearLength(c.Year) \in {365, 366}
    BY DateFacts
  <2>3. c.sec < 65536 /\ ~(c.Year > 2149) /\ ~(c.Year = 2149 /\ c.yday > 156)
    BY <1>2, <2>1 DEF BeyondUint16
  <2>4. DayNumber(c) < 65536
    <3>1. CASE c.Year = 2149
      BY <3>1, <2>2, <2>3, EpochYear DEF DayNumber
    <3>2. CASE c.Year < 2149
      <4>1. NewYear(c.Year + 1) <= NewYear(2149)
        BY <3>2, <2>2, YearsGrow
      <4>2. NewYear(c.Year + 1) = NewYear(c.Year) + YearLength(c.Year)
        BY <2>2, NextYear
      <4> QED  BY <4>1, <4>2, <2>1, <2>2, EpochYear DEF DayNumber
    <3> QED  BY <3>1, <3>2, <2>2, <2>3
  <2> QED  BY <1>2, <2>1, <2>3, <2>4 DEF UINT16
<1> QED  BY <1>1, <1>2

\* gmtime shows the date of an instant.
LEMMA GmtimeOf ==
  ASSUME NEW c, IsDate(c), build \in {"openssl", "mbedtls"},
         build = "mbedtls" => ~BeyondUint16(c)
  PROVE  gmtime([day |-> DayNumber(c), sec |-> c.sec]) = Fields(c)
<1> DEFINE t == [day |-> DayNumber(c), sec |-> c.sec]
           rem == UINT16(t.sec)
           dayNo == UINT16(t.day)
           year == YearAndDay[<<FirstYear, dayNo>>][1]
           yday == YearAndDay[<<FirstYear, dayNo>>][2]
           month == MonthOf(yday, IsLeap(year))
           mday == (yday - (IF month > 1 THEN CumulativeDays(IsLeap(year))[month] ELSE 0)) + 1
<1>1. rem = c.sec /\ dayNo = DayNumber(c)
  <2>1. t.sec = c.sec /\ t.day = DayNumber(c)
    OBVIOUS
  <2> QED  BY <2>1, Narrow
<1>2. year = c.Year /\ yday = c.yday
  <2>1. YearAndDay[<<FirstYear, dayNo>>] = <<c.Year, c.yday>>
    BY <1>1, YearFound
  <2> QED  BY <2>1
<1>3. month = c.Month
  BY <1>2, MonthFound
<1>4. mday = c.Day
  <2>1. /\ c.Month \in 1..12 /\ c.Day \in 1..31 /\ c.yday \in Nat
        /\ CumulativeDays(IsLeap(c.Year))[c.Month] \in Nat
        /\ c.yday = CumulativeDays(IsLeap(c.Year))[c.Month] + c.Day - 1
    BY DateFacts
  <2>2. CumulativeDays(IsLeap(c.Year))[1] = 0
    BY DEF CumulativeDays
  <2>3. mday = (c.yday - (IF c.Month > 1 THEN CumulativeDays(IsLeap(c.Year))[c.Month] ELSE 0)) + 1
    BY <1>2, <1>3
  <2> QED  BY <2>1, <2>2, <2>3
<1>5. (dayNo + 4) % 7 = c.wday
  BY <1>1 DEF IsDate
<1>6. gmtime(t) = [tm_sec |-> rem % 60, tm_min |-> (rem % 3600) \div 60, tm_hour |-> rem \div 3600,
                   tm_wday |-> (dayNo + 4) % 7, tm_year |-> year - 1900, tm_yday |-> yday,
                   tm_mon |-> month - 1, tm_mday |-> mday]
  BY DEF gmtime
<1> HIDE DEF t, rem, dayNo, year, yday, month, mday
<1>7. gmtime(t) = Fields(c)
  BY <1>1, <1>2, <1>3, <1>4, <1>5, <1>6 DEF Fields, Hour, Minute, Second
<1> QED  BY <1>7 DEF t

\* The epoch is day 0, a Thursday.
LEMMA EpochIsDate == IsDate(Epoch) /\ DayNumber(Epoch) = 0 /\ Epoch.sec = 0 /\ ~BeyondUint16(Epoch)
<1>1. /\ Epoch.Year = FirstYear /\ Epoch.Month = 1 /\ Epoch.Day = 1 /\ Epoch.sec = 0
      /\ Epoch.wday = 4 /\ Epoch.yday = 0
  BY DEF Epoch
<1>2. DayNumber(Epoch) = 0
  BY <1>1, EpochYear DEF DayNumber
<1>3. 0 \in SecondOfDay
  BY DEF SecondOfDay, SECSPERDAY
<1>4. Epoch \in Date
  BY <1>3, EpochYear DEF Epoch, Date
<1>5. DayOfYear(FirstYear, 1, 1) = 0 /\ DaysIn(FirstYear, 1) = 31
  BY DEF DayOfYear, DaysIn
<1>6. Epoch.Year >= FirstYear
  BY <1>1, EpochYear
<1>7. Epoch.Day <= DaysIn(Epoch.Year, Epoch.Month)
  BY <1>1, <1>5
<1>8. IsDate(Epoch)
  BY <1>1, <1>2, <1>4, <1>5, <1>6, <1>7 DEF IsDate
<1>9. ~BeyondUint16(Epoch)
  BY <1>1 DEF BeyondUint16, FirstYear
<1> QED  BY <1>1, <1>2, <1>8, <1>9

-----------------------------------------------------------------------------
(* The clock goes on.                                                       *)

\* The day after a date is a date, one day later.
LEMMA NextDayIsNext ==
  ASSUME NEW c, IsDate(c)
  PROVE  IsDate(NextDay(c)) /\ DayNumber(NextDay(c)) = DayNumber(c) + 1 /\ NextDay(c).sec = c.sec
<1> DEFINE n == NextDay(c)
           newMonth == c.Day = DaysIn(c.Year, c.Month)
           newYear == newMonth /\ c.Month = 12
           Table(m) == CumulativeDays(IsLeap(c.Year))[m]
<1>1. c \in Date /\ c.Day <= DaysIn(c.Year, c.Month) /\ c.wday = (DayNumber(c) + 4) % 7
  BY DEF IsDate
<1>2. /\ c.Year \in Nat /\ c.Month \in 1..12 /\ c.Day \in 1..31 /\ c.sec \in SecondOfDay
      /\ c.wday \in 0..6 /\ c.yday \in 0..365
  BY <1>1 DEF Date
<1>3. /\ n.Year = IF newYear THEN c.Year + 1 ELSE c.Year
      /\ n.Month = IF newYear THEN 1 ELSE IF newMonth THEN c.Month + 1 ELSE c.Month
      /\ n.Day = IF newMonth THEN 1 ELSE c.Day + 1
      /\ n.sec = c.sec /\ n.wday = (c.wday + 1) % 7
      /\ n.yday = IF newYear THEN 0 ELSE c.yday + 1
  BY <1>1 DEF NextDay, Date
<1>5. /\ c.Year >= FirstYear /\ c.yday = Table(c.Month) + c.Day - 1 /\ c.yday < YearLength(c.Year)
      /\ YearLength(c.Year) \in {365, 366} /\ Table(c.Month) \in Nat
      /\ NewYear(c.Year) \in Int /\ DayNumber(c) \in Int
  BY DateFacts
<1>6. Table(c.Month + 1) = Table(c.Month) + DaysIn(c.Year, c.Month) /\ DaysIn(c.Year, c.Month) \in 28..31
  <2>1. c.Year \in Nat
    BY <1>2
  <2>2. c.Month \in 1..12 /\ c.Day \in 1..31
    BY <1>2
  <2> HIDE DEF n, newMonth, newYear
  <2>3. Table(c.Month + 1) = Table(c.Month) + DaysIn(c.Year, c.Month)
    BY <2>1, <2>2, MonthDays
  <2>4. DaysIn(c.Year, c.Month) \in 28..31
    BY <2>1, <2>2, MonthDays
  <2> QED  BY <2>3, <2>4
<1>4. ASSUME n.Year \in Nat, n.Month \in 1..12, n.Day \in 1..31, n.sec \in SecondOfDay,
             n.wday \in 0..6, n.yday \in 0..365
      PROVE  n \in Date
  BY <1>1, <1>4 DEF NextDay, Date
<1> HIDE DEF n
<1>7. n.Year \in Nat /\ n.Year >= FirstYear
  BY <1>2, <1>3, <1>5, EpochYear
<1>8. n.Month \in 1..12 /\ n.Day \in 1..31 /\ n.Day <= DaysIn(n.Year, n.Month)
  <2>1. CASE newMonth
    <3>1. n.Month \in 1..12 /\ n.Day = 1
      BY <2>1, <1>2, <1>3
    <3>2. DaysIn(n.Year, n.Month) \in 28..31
      <4>1. 1 \in 1..31
        OBVIOUS
      <4> QED  BY <3>1, <1>7, <4>1, MonthDays
    <3> QED  BY <3>1, <3>2
  <2>2. CASE ~newMonth
    <3>1. n.Month = c.Month /\ n.Year = c.Year /\ n.Day = c.Day + 1
      BY <2>2, <1>3
    <3> QED  BY <2>2, <3>1, <1>1, <1>2, <1>6
  <2> QED  BY <2>1, <2>2
<1>9. DayNumber(n) = DayNumber(c) + 1
  <2>1. CASE newYear
    <3>1. Table(13) = YearLength(c.Year)
      BY DEF YearLength
    <3>2. c.yday + 1 = YearLength(c.Year)
      BY <2>1, <3>1, <1>2, <1>5, <1>6
    <3>3. n.Year = c.Year + 1 /\ n.yday = 0
      BY <2>1, <1>3
    <3>4. NewYear(c.Year + 1) = NewYear(c.Year) + YearLength(c.Year)
      BY <1>2, NextYear
    <3> QED  BY <3>2, <3>3, <3>4, <1>2, <1>5 DEF DayNumber
  <2>2. CASE ~newYear
    BY <2>2, <1>2, <1>3, <1>5 DEF DayNumber
  <2> QED  BY <2>1, <2>2
<1>10. n.yday = DayOfYear(n.Year, n.Month, n.Day)
  <2>1. /\ DayOfYear(n.Year, n.Month, n.Day) = CumulativeDays(IsLeap(n.Year))[n.Month] + n.Day - 1
    BY <1>7, <1>8, MonthDays
  <2>2. CASE newYear
    <3>1. n.Month = 1 /\ n.Day = 1 /\ n.yday = 0
      BY <2>2, <1>3
    <3>2. CumulativeDays(IsLeap(n.Year))[1] = 0
      BY DEF CumulativeDays
    <3> QED  BY <2>1, <3>1, <3>2
  <2>3. CASE newMonth /\ ~newYear
    <3>1. n.Month = c.Month + 1 /\ n.Day = 1 /\ n.yday = c.yday + 1 /\ n.Year = c.Year
      BY <2>3, <1>3
    <3>2. CumulativeDays(IsLeap(n.Year))[n.Month] = Table(c.Month + 1)
      BY <3>1
    <3> QED  BY <2>1, <2>3, <3>1, <3>2, <1>2, <1>5, <1>6
  <2>4. CASE ~newMonth
    <3>1. n.Month = c.Month /\ n.Day = c.Day + 1 /\ n.yday = c.yday + 1 /\ n.Year = c.Year
      BY <2>4, <1>3
    <3>2. CumulativeDays(IsLeap(n.Year))[n.Month] = Table(c.Month)
      BY <3>1
    <3> QED  BY <2>1, <3>1, <3>2, <1>2, <1>5
  <2> QED  BY <2>2, <2>3, <2>4
<1>11. n.yday \in 0..365
  <2>1. newYear \/ c.yday + 1 < YearLength(c.Year)
    <3>1. CASE ~newYear /\ c.Month = 12
      <4>1. Table(13) = YearLength(c.Year)
        BY DEF YearLength
      <4>2. c.Day < DaysIn(c.Year, 12) /\ Table(13) = Table(12) + DaysIn(c.Year, 12)
        BY <3>1, <1>1, <1>2, <1>6
      <4> QED  BY <3>1, <4>1, <4>2, <1>2, <1>5, <1>6
    <3>2. CASE c.Month < 12
      <4>1. c.yday + 1 < 365
        <5>1. IsLeap(c.Year) \in BOOLEAN
          BY DEF IsLeap
        <5>2. Table(c.Month + 1) <= Table(12)
          BY <5>1, <3>2, <1>2, TableGrows
        <5>3. Table(12) \in 0..335
          BY DEF CumulativeDays
        <5> QED  BY <5>2, <5>3, <1>1, <1>2, <1>5, <1>6
      <4> QED  BY <4>1, <1>2, <1>5
    <3> QED  BY <3>1, <3>2, <1>2
  <2> QED  BY <2>1, <1>2, <1>3, <1>5
<1>12. n.wday \in 0..6 /\ n.wday = (DayNumber(n) + 4) % 7
  BY <1>1, <1>2, <1>3, <1>5, <1>9
<1>13. n \in Date
  BY <1>4, <1>2, <1>3, <1>7, <1>8, <1>11, <1>12 DEF Date
<1>14. IsDate(n)
  BY <1>7, <1>8, <1>10, <1>12, <1>13 DEF IsDate
<1> QED  BY <1>3, <1>9, <1>14 DEF n

\* The clock goes on by the seconds it is told, at most a day, from date to date.
LEMMA LaterIsLater ==
  ASSUME NEW c, IsDate(c), NEW w \in Nat, w <= SECSPERDAY
  PROVE  IsDate(Later(c, w)) /\ Instant(Later(c, w)) = Instant(c) + w
<1>1. c.sec \in Nat /\ c.sec < SECSPERDAY /\ DayNumber(c) \in Int
  BY TimeOfDay, DateFacts
<1>2. c \in Date
  BY DEF IsDate
<1>3. \A s \in Nat : s < SECSPERDAY => s \in SecondOfDay
  BY Seconds, Zenon
<1>4. ASSUME NEW d, IsDate(d), NEW s \in Nat, s < SECSPERDAY
      PROVE  /\ IsDate([d EXCEPT !.sec = s]) /\ [d EXCEPT !.sec = s].sec = s
             /\ DayNumber([d EXCEPT !.sec = s]) = DayNumber(d)
  <2> DEFINE e == [d EXCEPT !.sec = s]
  <2>1. d \in Date /\ s \in SecondOfDay
    BY <1>3, <1>4 DEF IsDate
  <2>2. /\ e \in Date /\ e.sec = s /\ e.Year = d.Year /\ e.Month = d.Month /\ e.Day = d.Day
        /\ e.wday = d.wday /\ e.yday = d.yday
    BY <2>1 DEF Date
  <2> HIDE DEF e
  <2>3. DayNumber(e) = DayNumber(d)
    BY <2>2 DEF DayNumber
  <2>4. /\ d.Year >= FirstYear /\ d.Day <= DaysIn(d.Year, d.Month)
        /\ d.yday = DayOfYear(d.Year, d.Month, d.Day) /\ d.wday = (DayNumber(d) + 4) % 7
    BY <1>4 DEF IsDate
  <2>5. e.Year >= FirstYear
    BY <2>2, <2>4
  <2>6. e.Day <= DaysIn(e.Year, e.Month)
    BY <2>2, <2>4
  <2>7. e.yday = DayOfYear(e.Year, e.Month, e.Day)
    BY <2>2, <2>4
  <2>8. e.wday = (DayNumber(e) + 4) % 7
    BY <2>2, <2>3, <2>4
  <2>9. IsDate(e)
    BY <2>2, <2>5, <2>6, <2>7, <2>8 DEF IsDate
  <2> QED  BY <2>2, <2>3, <2>9 DEF e
<1>5. CASE c.sec + w < SECSPERDAY
  <2>1. Later(c, w) = [c EXCEPT !.sec = c.sec + w]
    BY <1>5 DEF Later
  <2>2. c.sec + w \in Nat
    BY <1>1
  <2>3. IsDate(Later(c, w)) /\ Later(c, w).sec = c.sec + w /\ DayNumber(Later(c, w)) = DayNumber(c)
    BY <1>4, <1>5, <2>1, <2>2
  <2> QED  BY <1>1, <2>3 DEF Instant, SECSPERDAY
<1>6. CASE ~(c.sec + w < SECSPERDAY)
  <2> DEFINE s == (c.sec + w) - SECSPERDAY
             n == NextDay(c)
  <2>1. Later(c, w) = [n EXCEPT !.sec = s]
    BY <1>6 DEF Later
  <2>2. s \in Nat /\ s < SECSPERDAY /\ s = c.sec + w - SECSPERDAY
    BY <1>1, <1>6 DEF SECSPERDAY
  <2>3. IsDate(n) /\ DayNumber(n) = DayNumber(c) + 1
    BY NextDayIsNext
  <2> HIDE DEF s, n
  <2>4. IsDate(Later(c, w)) /\ Later(c, w).sec = s /\ DayNumber(Later(c, w)) = DayNumber(c) + 1
    BY <1>4, <2>1, <2>2, <2>3
  <2> QED  BY <1>1, <2>2, <2>4 DEF Instant, SECSPERDAY
<1> QED  BY <1>5, <1>6

\* It is looked at again before the same time of the next day has passed.
LEMMA WaitType ==
  ASSUME NEW c, IsDate(c)
  PROVE  Wait(c) \in Nat /\ Wait(c) > 0 /\ Wait(c) <= SECSPERDAY
<1> DEFINE after == {i \in 1..Len(Instants) : Instants[i] > c.sec}
           First(i) == \A j \in after : i <= j
<1>1. c.sec \in Nat /\ c.sec < SECSPERDAY /\ SECSPERDAY \in Nat
  BY TimeOfDay DEF SECSPERDAY
<1>2. \A s : s \in SecondOfDay => s \in Nat /\ s < SECSPERDAY
  BY Seconds, Zenon
<1>3. Len(Instants) \in Nat /\ Len(Instants) >= 1 /\ \A i \in 1..Len(Instants) : Instants[i] \in SecondOfDay
  BY InstantsAssumption
<1>4. CASE after = {}
  <2>1. Instants[1] \in Nat /\ Instants[1] < SECSPERDAY
    BY <1>2, <1>3
  <2>2. ~(Instants[1] > c.sec)
    BY <1>3, <1>4
  <2>3. Wait(c) = SECSPERDAY + Instants[1] - c.sec
    BY <1>4 DEF Wait
  <2> QED  BY <1>1, <2>1, <2>2, <2>3
<1>5. CASE after # {}
  <2> DEFINE i == CHOOSE k \in after : First(k)
  <2>1. after \subseteq Nat
    OBVIOUS
  <2>2. \E k \in after : First(k)
    <3> HIDE DEF after
    <3> QED  BY <1>5, <2>1, Minimum
  <2>3. i \in after
    <3> HIDE DEF after, First
    <3> QED  BY <2>2
  <2>4. Wait(c) = Instants[i] - c.sec
    BY <1>5 DEF Wait
  <2> HIDE DEF i
  <2>5. Instants[i] \in Nat /\ Instants[i] < SECSPERDAY /\ Instants[i] > c.sec
    BY <1>2, <1>3, <2>3
  <2> QED  BY <1>1, <2>4, <2>5
<1> QED  BY <1>4, <1>5

-----------------------------------------------------------------------------
(* The order of dates.                                                      *)

\* InternalX509CheckTime tells whether the first date is the later instant.
LEMMA DatesAreInstants ==
  ASSUME NEW b, NEW a, IsDate(b), IsDate(a)
  PROVE  InternalX509CheckTime(b, a) <=> Instant(b) > Instant(a)
<1> DEFINE Table(c) == CumulativeDays(IsLeap(c.Year))[c.Month]
<1>1. /\ b.Year \in Nat /\ b.Month \in 1..12 /\ b.Day \in 1..31 /\ b.yday \in Nat /\ Table(b) \in Nat
      /\ b.yday = Table(b) + b.Day - 1 /\ b.yday < YearLength(b.Year) /\ YearLength(b.Year) \in {365, 366}
      /\ NewYear(b.Year) \in Int /\ DayNumber(b) \in Int
  BY DateFacts
<1>2. /\ a.Year \in Nat /\ a.Month \in 1..12 /\ a.Day \in 1..31 /\ a.yday \in Nat /\ Table(a) \in Nat
      /\ a.yday = Table(a) + a.Day - 1 /\ a.yday < YearLength(a.Year) /\ YearLength(a.Year) \in {365, 366}
      /\ NewYear(a.Year) \in Int /\ DayNumber(a) \in Int
  BY DateFacts
<1>3. /\ b.sec \in Nat /\ b.sec < SECSPERDAY
      /\ Hour(b) \in 0..23 /\ Minute(b) \in 0..59 /\ Second(b) \in 0..59
      /\ Hour(b) * 3600 + Minute(b) * 60 + Second(b) = b.sec
  BY TimeOfDay
<1>4. /\ a.sec \in Nat /\ a.sec < SECSPERDAY
      /\ Hour(a) \in 0..23 /\ Minute(a) \in 0..59 /\ Second(a) \in 0..59
      /\ Hour(a) * 3600 + Minute(a) * 60 + Second(a) = a.sec
  BY TimeOfDay
<1> DEFINE laterTime == \/ Hour(b) > Hour(a)
                        \/ Hour(b) = Hour(a) /\ Minute(b) > Minute(a)
                        \/ Hour(b) = Hour(a) /\ Minute(b) = Minute(a) /\ Second(b) > Second(a)
<1>5. laterTime <=> b.sec > a.sec
  <2> DEFINE Secs(h, m, s) == h * 3600 + m * 60 + s
  <2>1. \A h, i \in 0..23, m, n, s, t \in 0..59 :
          h > i \/ (h = i /\ m > n) \/ (h = i /\ m = n /\ s > t) <=> Secs(h, m, s) > Secs(i, n, t)
    OBVIOUS
  <2>2. Secs(Hour(b), Minute(b), Second(b)) = b.sec /\ Secs(Hour(a), Minute(a), Second(a)) = a.sec
    BY <1>3, <1>4
  <2>3. /\ Hour(b) \in 0..23 /\ Minute(b) \in 0..59 /\ Second(b) \in 0..59
        /\ Hour(a) \in 0..23 /\ Minute(a) \in 0..59 /\ Second(a) \in 0..59
    BY <1>3, <1>4
  <2> HIDE DEF Secs
  <2>4. laterTime <=> Secs(Hour(b), Minute(b), Second(b)) > Secs(Hour(a), Minute(a), Second(a))
    <3> HIDE DEF laterTime
    <3>1. \A h, i \in 0..23 : \A m, n \in 0..59 : \A s, t \in 0..59 :
            h > i \/ (h = i /\ m > n) \/ (h = i /\ m = n /\ s > t) <=> Secs(h, m, s) > Secs(i, n, t)
      BY <2>1
    <3>2. \A m, n \in 0..59 : \A s, t \in 0..59 :
            Hour(b) > Hour(a) \/ (Hour(b) = Hour(a) /\ m > n) \/ (Hour(b) = Hour(a) /\ m = n /\ s > t)
              <=> Secs(Hour(b), m, s) > Secs(Hour(a), n, t)
      BY <2>3, <3>1
    <3> QED  BY <2>3, <3>2 DEF laterTime
  <2> QED  BY <2>2, <2>4, Zenon
<1>6. /\ DayNumber(b) > DayNumber(a) => Instant(b) > Instant(a)
      /\ DayNumber(b) < DayNumber(a) => ~(Instant(b) > Instant(a))
      /\ DayNumber(b) = DayNumber(a) => (Instant(b) > Instant(a) <=> b.sec > a.sec)
  <2>1. \A m, n \in Int, s, t \in Nat : s < SECSPERDAY /\ t < SECSPERDAY =>
          /\ m > n => SECSPERDAY * m + s > SECSPERDAY * n + t
          /\ m < n => ~(SECSPERDAY * m + s > SECSPERDAY * n + t)
          /\ m = n => (SECSPERDAY * m + s > SECSPERDAY * n + t <=> s > t)
    BY DEF SECSPERDAY
  <2>2. /\ DayNumber(b) \in Int /\ b.sec \in Nat /\ b.sec < SECSPERDAY
        /\ DayNumber(a) \in Int /\ a.sec \in Nat /\ a.sec < SECSPERDAY
    BY <1>1, <1>2, <1>3, <1>4
  <2> QED  BY <2>1, <2>2, Zenon DEF Instant
<1>7. ASSUME NEW x, NEW y, IsDate(x), IsDate(y), x.Year < y.Year
      PROVE  DayNumber(x) < DayNumber(y)
  <2>1. /\ x.Year \in Nat /\ x.yday \in Nat /\ x.yday < YearLength(x.Year) /\ NewYear(x.Year) \in Int
        /\ y.Year \in Nat /\ y.yday \in Nat /\ NewYear(y.Year) \in Int
        /\ YearLength(x.Year) \in {365, 366}
    BY <1>7, DateFacts
  <2>2. NewYear(x.Year + 1) <= NewYear(y.Year)
    BY <1>7, <2>1, YearsGrow
  <2>3. NewYear(x.Year + 1) = NewYear(x.Year) + YearLength(x.Year)
    BY <2>1, NextYear
  <2> QED  BY <2>1, <2>2, <2>3 DEF DayNumber
<1>8. ASSUME NEW x, NEW y, IsDate(x), IsDate(y), x.Year = y.Year, x.Month < y.Month
      PROVE  DayNumber(x) < DayNumber(y)
  <2>1. /\ x.Month \in 1..12 /\ x.yday \in Nat /\ IsLeap(x.Year) \in BOOLEAN
        /\ x.yday < CumulativeDays(IsLeap(x.Year))[x.Month + 1] /\ NewYear(x.Year) \in Int
        /\ CumulativeDays(IsLeap(x.Year))[x.Month + 1] \in Nat
    BY <1>8, DateFacts
  <2>2. /\ y.Month \in 1..12 /\ y.yday \in Nat /\ y.Day \in 1..31
        /\ y.yday = Table(y) + y.Day - 1 /\ Table(y) \in Nat
    BY <1>8, DateFacts
  <2>3. CumulativeDays(IsLeap(x.Year))[x.Month + 1] <= CumulativeDays(IsLeap(x.Year))[y.Month]
    <3>1. x.Month + 1 \in 1..13 /\ y.Month \in 1..13 /\ x.Month + 1 <= y.Month
      BY <1>8, <2>1, <2>2
    <3> QED  BY <2>1, <3>1, TableGrows
  <2>4. Table(y) = CumulativeDays(IsLeap(x.Year))[y.Month]
    BY <1>8
  <2>5. x.yday < y.yday
    BY <2>1, <2>2, <2>3, <2>4
  <2> QED  BY <1>8, <2>1, <2>2, <2>5 DEF DayNumber
<1>9. ASSUME b.Year = a.Year, b.Month = a.Month
      PROVE  DayNumber(b) - DayNumber(a) = b.Day - a.Day
  <2>1. Table(b) = Table(a) /\ NewYear(b.Year) = NewYear(a.Year)
    BY <1>9
  <2> HIDE DEF Table
  <2>2. b.Day \in Int /\ b.yday = Table(b) + b.Day - 1 /\ NewYear(b.Year) \in Int /\ Table(b) \in Int
    BY <1>1
  <2>3. a.Day \in Int /\ a.yday = Table(a) + a.Day - 1 /\ NewYear(a.Year) \in Int /\ Table(a) \in Int
    BY <1>2
  <2> QED  BY <2>1, <2>2, <2>3 DEF DayNumber
<1> HIDE DEF Table, laterTime
<1>10. InternalX509CheckTime(b, a) <=>
         \/ b.Year > a.Year
         \/ b.Year = a.Year /\ b.Month > a.Month
         \/ b.Year = a.Year /\ b.Month = a.Month /\ b.Day > a.Day
         \/ b.Year = a.Year /\ b.Month = a.Month /\ b.Day = a.Day /\ laterTime
  BY Zenon DEF InternalX509CheckTime, laterTime
<1>11. CASE b.Year # a.Year
  <2>1. b.Year > a.Year \/ b.Year < a.Year
    BY <1>11, <1>1, <1>2
  <2>2. b.Year > a.Year => DayNumber(a) < DayNumber(b)
    BY <1>7, <1>1, <1>2
  <2>3. b.Year < a.Year => DayNumber(b) < DayNumber(a)
    BY <1>7
  <2> QED  BY <1>1, <1>2, <1>6, <1>10, <1>11, <2>1, <2>2, <2>3
<1>12. CASE b.Year = a.Year /\ b.Month # a.Month
  <2>1. b.Month > a.Month => DayNumber(a) < DayNumber(b)
    BY <1>8, <1>12, <1>1, <1>2
  <2>2. b.Month < a.Month => DayNumber(b) < DayNumber(a)
    BY <1>8, <1>12
  <2> QED  BY <1>1, <1>2, <1>6, <1>10, <1>12, <2>1, <2>2
<1>13. CASE b.Year = a.Year /\ b.Month = a.Month
  <2>1. InternalX509CheckTime(b, a) <=> b.Day > a.Day \/ (b.Day = a.Day /\ b.sec > a.sec)
    <3>1. ~(b.Year > a.Year) /\ ~(b.Month > a.Month)
      BY <1>1, <1>2, <1>13
    <3> QED  BY <1>5, <1>10, <1>13, <3>1, Zenon
  <2>2. DayNumber(b) - DayNumber(a) = b.Day - a.Day
    BY <1>9, <1>13
  <2>3. DayNumber(b) \in Int /\ DayNumber(a) \in Int /\ b.Day \in Int /\ a.Day \in Int
    BY <1>1, <1>2
  <2>4. CASE b.Day > a.Day
    BY <1>6, <2>1, <2>2, <2>3, <2>4
  <2>5. CASE b.Day < a.Day
    BY <1>6, <2>1, <2>2, <2>3, <2>5
  <2>6. CASE b.Day = a.Day
    <3>1. DayNumber(b) = DayNumber(a)
      BY <2>2, <2>3, <2>6
    <3> QED  BY <1>6, <2>1, <2>3, <2>6, <3>1
  <2> QED  BY <2>3, <2>4, <2>5, <2>6
<1> QED  BY <1>11, <1>12, <1>13

-----------------------------------------------------------------------------
(* The invariant.                                                           *)

\* What the clock, its reading and their distance have to do with each other.
ClockInv ==
  /\ build \in {"openssl", "mbedtls"}
  /\ IsDate(clock) /\ IsDate(local)
  /\ zone \in Int /\ SameInstant(clock, local, zone)
  /\ gap \in Nat
  /\ read.Year # 0 =>
       /\ IsDate(read)
       /\ gap = 0 => read = clock
       /\ gap > 0 => Instant(read) < Instant(clock)
  /\ GmtimeTellsClock

\* The initial states satisfy the invariant.
LEMMA ClockInitInv == ClockInit => ClockInv
<1> SUFFICES ASSUME ClockInit PROVE ClockInv
  OBVIOUS
<1>1. PICK s \in Starts : clock = s.utc /\ local = s.local /\ zone = s.zone
  BY DEF ClockInit
<1>2. IsDate(clock) /\ IsDate(local) /\ zone \in Int /\ SameInstant(clock, local, zone)
  BY <1>1, StartsAssumption
<1> QED  BY <1>2 DEF ClockInit, ClockInv, GmtimeTellsClock

\* Time passing keeps it.
LEMMA TickInv == ASSUME ClockInv, Tick PROVE ClockInv'
<1> DEFINE w == Wait(clock)
<1>1. w \in Nat /\ w > 0 /\ w <= SECSPERDAY
  BY WaitType DEF ClockInv
<1>2. clock' = Later(clock, w) /\ local' = Later(local, w) /\ gap' = gap + 1
  BY DEF Tick
<1>3. build' = build /\ zone' = zone /\ read' = read /\ tm' = tm
  BY DEF Tick
<1> HIDE DEF w
<1>4. IsDate(clock') /\ Instant(clock') = Instant(clock) + w
  BY <1>1, <1>2, LaterIsLater DEF ClockInv
<1>5. IsDate(local') /\ Instant(local') = Instant(local) + w
  BY <1>1, <1>2, LaterIsLater DEF ClockInv
<1>6. ASSUME NEW c, IsDate(c) PROVE DayNumber(c) \in Int /\ c.sec \in Int /\ Instant(c) \in Int
  BY <1>6, DateFacts, TimeOfDay DEF Instant, SECSPERDAY
<1>7. IsDate(clock) /\ IsDate(local) /\ zone \in Int /\ SameInstant(clock, local, zone) /\ gap \in Nat
  BY DEF ClockInv
<1>8. Offset(zone) \in Int
  BY <1>7 DEF Offset
<1>9. ASSUME NEW u, NEW l, IsDate(u), IsDate(l)
      PROVE  SameInstant(u, l, zone) <=> Instant(u) - Instant(l) = Offset(zone)
  BY <1>6, <1>8, <1>9 DEF SameInstant, Instant, SECSPERDAY
<1>10. SameInstant(clock', local', zone)
  BY <1>1, <1>4, <1>5, <1>6, <1>7, <1>8, <1>9
<1>11. read.Year # 0 => IsDate(read) /\ Instant(read) < Instant(clock')
  <2> SUFFICES ASSUME read.Year # 0 PROVE IsDate(read) /\ Instant(read) < Instant(clock')
    OBVIOUS
  <2>1. IsDate(read) /\ (gap = 0 => read = clock) /\ (gap > 0 => Instant(read) < Instant(clock))
    BY DEF ClockInv
  <2> QED  BY <1>1, <1>4, <1>6, <1>7, <2>1
<1>12. GmtimeTellsClock'
  BY <1>3 DEF ClockInv, GmtimeTellsClock, Fields, BeyondUint16, Hour, Minute, Second
<1> QED  BY <1>2, <1>3, <1>4, <1>5, <1>7, <1>10, <1>11, <1>12 DEF ClockInv

\* A reading keeps it: gmtime is told the instant of the clock.
LEMMA ReadInv == ASSUME ClockInv, NEW works \in BOOLEAN, Read(works) PROVE ClockInv'
<1>1. tm' = gmtime(time(works)) /\ read' = (IF works THEN clock ELSE [clock EXCEPT !.Year = 0]) /\ gap' = 0
  BY DEF Read
<1>2. build' = build /\ zone' = zone /\ clock' = clock /\ local' = local
  BY DEF Read
<1>3. /\ build \in {"openssl", "mbedtls"} /\ IsDate(clock) /\ IsDate(local) /\ zone \in Int
      /\ SameInstant(clock, local, zone)
  BY DEF ClockInv
<1>4. clock.Year >= FirstYear /\ clock.Year # 0 /\ ~(local.Year < FirstYear)
  <2>1. clock.Year \in Nat /\ clock.Year >= FirstYear /\ local.Year \in Nat /\ local.Year >= FirstYear
    BY <1>3, DateFacts
  <2> QED  BY <2>1 DEF FirstYear
<1>5. CASE works
  <2>1. read' = clock
    BY <1>1, <1>5
  <2>2. time(works) = [day |-> DayNumber(clock), sec |-> clock.sec]
    <3>1. CalculateTimeT(local, zone) = [day |-> DayNumber(clock), sec |-> clock.sec]
      BY <1>3, TimeOfClock
    <3> QED  BY <1>4, <1>5, <3>1 DEF time
  <2>3. (build = "mbedtls" => ~BeyondUint16(clock)) => tm' = Fields(clock)
    BY <1>1, <1>3, <2>2, GmtimeOf
  <2>4. GmtimeTellsClock'
    <3>1. read'.Year # 0
      BY <1>4, <2>1
    <3>2. tm' = Fields(clock) \/ (build = "mbedtls" /\ BeyondUint16(clock))
      BY <2>3
    <3> QED  BY <1>2, <2>1, <3>1, <3>2
             DEF GmtimeTellsClock, Fields, BeyondUint16, Hour, Minute, Second
  <2> QED  BY <1>1, <1>2, <1>3, <2>1, <2>4 DEF ClockInv
<1>6. CASE ~works
  <2>1. read'.Year = 0
    <3>1. clock \in Date
      BY <1>3 DEF IsDate
    <3> QED  BY <1>1, <1>6, <3>1 DEF Date
  <2>2. time(works) = [day |-> DayNumber(Epoch), sec |-> Epoch.sec]
    <3>1. time(works) = [day |-> 0, sec |-> 0]
      BY <1>6 DEF time
    <3> QED  BY <3>1, EpochIsDate
  <2>3. tm' = Fields(Epoch)
    <3>1. gmtime([day |-> DayNumber(Epoch), sec |-> Epoch.sec]) = Fields(Epoch)
      BY <1>3, EpochIsDate, GmtimeOf
    <3> QED  BY <1>1, <2>2, <3>1
  <2>4. GmtimeTellsClock'
    BY <2>1, <2>3 DEF GmtimeTellsClock, Fields, Epoch, Hour, Minute, Second
  <2> QED  BY <1>1, <1>2, <1>3, <2>1, <2>4 DEF ClockInv
<1> QED  BY <1>5, <1>6

\* The inductive invariant of time() and gmtime(): the last reading, its distance from
\* the clock and what struct tm shows of it belong together.
THEOREM ClockInvariant == ClockSpec => []ClockInv
<1>1. ClockInit => ClockInv
  BY ClockInitInv
<1>2. ClockInv /\ [ClockNext]_clockVars => ClockInv'
  <2> SUFFICES ASSUME ClockInv, [ClockNext]_clockVars PROVE ClockInv'
    OBVIOUS
  <2>1. CASE Tick
    BY <2>1, TickInv
  <2>2. ASSUME NEW works \in BOOLEAN, Read(works) PROVE ClockInv'
    BY <2>2, ReadInv
  <2>3. CASE UNCHANGED clockVars
    BY <2>3 DEF clockVars, ClockInv, GmtimeTellsClock, Fields, BeyondUint16, Hour, Minute, Second
  <2> QED  BY <2>1, <2>2, <2>3 DEF ClockNext
<1> QED  BY <1>1, <1>2, PTL DEF ClockSpec

\* Whatever the clock has been through, struct tm shows the date and time at which it was
\* read: for every date from the epoch on, every time zone and both builds.
THEOREM TellsClock == ClockSpec => []GmtimeTellsClock
<1>1. ClockInv => GmtimeTellsClock
  BY DEF ClockInv
<1> QED  BY <1>1, ClockInvariant, PTL

\* The comparison of dates, field by field, orders a reading and a later one as the
\* instants they stand for.
THEOREM InOrder == ClockSpec => []DatesInOrder
<1>1. ASSUME ClockInv PROVE DatesInOrder
  <2> SUFFICES ASSUME read.Year # 0
               PROVE  /\ X509CompareDateTime(read, clock) = IF gap = 0 THEN 0 ELSE -1
                      /\ X509CompareDateTime(clock, read) = IF gap = 0 THEN 0 ELSE 1
    BY DEF DatesInOrder
  <2>1. /\ IsDate(clock) /\ IsDate(read) /\ gap \in Nat /\ (gap = 0 => read = clock)
        /\ gap > 0 => Instant(read) < Instant(clock)
    BY <1>1 DEF ClockInv
  <2>2. Instant(read) \in Int /\ Instant(clock) \in Int
    BY <2>1, DateFacts, TimeOfDay DEF Instant, SECSPERDAY
  <2>3. CASE gap = 0
    BY <2>1, <2>3 DEF X509CompareDateTime
  <2>4. CASE gap > 0
    <3>1. ~(Instant(read) > Instant(clock)) /\ Instant(clock) > Instant(read) /\ read # clock
      BY <2>1, <2>2, <2>4
    <3>2. ~InternalX509CheckTime(read, clock) /\ InternalX509CheckTime(clock, read)
      BY <2>1, <3>1, DatesAreInstants
    <3> QED  BY <2>4, <3>1, <3>2 DEF X509CompareDateTime
  <2> QED  BY <2>1, <2>3, <2>4
<1> QED  BY <1>1, ClockInvariant, PTL
=============================================================================
