----------------------------- MODULE RuntimeMem -----------------------------
(***************************************************************************)
(* malloc, realloc and free of the runtime crypto library                  *)
(* (BaseCryptLib/SysCall/RuntimeMemAllocation.c, in OpensslPkg and         *)
(* MbedTlsPkg): a page table over a buffer allocated once, before the      *)
(* operating system takes over.                                            *)
(*                                                                         *)
(* Every offset the code stores is a multiple of the page size, and stands *)
(* here as a page number.  Memory is kept per page: what the bytes of a    *)
(* last page hold behind those asked for, which ZeroMem leaves alone, is   *)
(* nobody's business.  The client is OpenSSL or Mbed TLS: it asks for at   *)
(* least one byte, hands back only pointers it holds, and loses those from *)
(* before SetVirtualAddressMap, which nobody converts.                     *)
(***************************************************************************)
EXTENDS Integers, FiniteSets

CONSTANTS
  ScratchBufferSize,  \* MIN_REQUIRED_BLOCKS * 1024
  RT_PAGE_SIZE,
  EntrySize,          \* sizeof (RT_MEMORY_PAGE_ENTRY)
  TableHeaderSize,    \* sizeof (RT_MEMORY_PAGE_TABLE) without its one entry
  RequestSizes,       \* bound: the sizes, in bytes, the client asks for
  Mark                \* what the client writes

ASSUME MemAssumption ==
  /\ RT_PAGE_SIZE \in Nat \ {0} /\ EntrySize \in Nat /\ TableHeaderSize \in Nat
  /\ ScratchBufferSize \in Nat
  /\ ScratchBufferSize >= TableHeaderSize + RT_PAGE_SIZE + EntrySize
  /\ RequestSizes \subseteq Nat \ {0}

RT_SIZE_TO_PAGES(size) ==
  (size \div RT_PAGE_SIZE) + (IF size % RT_PAGE_SIZE # 0 THEN 1 ELSE 0)

RT_PAGES_TO_SIZE(count) == count * RT_PAGE_SIZE

\* As many pages as fit behind the table that describes them.
PageCount == (ScratchBufferSize - TableHeaderSize) \div (RT_PAGE_SIZE + EntrySize)

Page == 0..(PageCount - 1)
Zero == "zero"        \* cleared by ZeroMem
Scratch == "scratch"  \* never allocated
Content == Mark \cup {Zero, Scratch}
Base == {"physical", "virtual"}

VARIABLES
  constructed,    \* "no", "failed" or "yes": RuntimeCryptLibConstructor
  pages,          \* mRTPageTable->Pages: PageFlag and StartPageOffset
  lastEmptyPage,  \* mRTPageTable->LastEmptyPageOffset
  dataAreaBase,   \* whether DataAreaBase holds a physical or a virtual address
  data,           \* what each page of the data area holds
  blocks          \* the client's view: what it was given, by first page

vars == <<constructed, pages, lastEmptyPage, dataAreaBase, data, blocks>>

Entry == [used : BOOLEAN, start : Page]
FreeEntry == [used |-> FALSE, start |-> 0]

\* base: the kind of address the client holds; size: the bytes it asked for;
\* count: the pages it was given; content: what it wrote there.
Block == [base : Base, size : Nat, count : Nat \ {0}, content : [Page -> Content]]

TypeOK ==
  /\ constructed \in {"no", "failed", "yes"}
  /\ pages \in [Page -> Entry]
  /\ lastEmptyPage \in 0..PageCount
  /\ dataAreaBase \in Base
  /\ data \in [Page -> Content]
  /\ DOMAIN blocks \subseteq Page
  /\ blocks \in [DOMAIN blocks -> Block]

Init ==
  /\ constructed = "no"
  /\ pages = [p \in Page |-> FreeEntry]
  /\ lastEmptyPage = 0
  /\ dataAreaBase = "physical"
  /\ data = [p \in Page |-> Scratch]
  /\ blocks = [s \in {} |-> 0]

-----------------------------------------------------------------------------
(* The page table.                                                          *)

Run(s, n) == s..(s + n - 1)

FreeRun(s, n) == \A p \in Run(s, n) : ~pages[p].used

Lowest(S) == {i \in S : \A j \in S : i <= j}

\* Variant: the check stops one page short.
LookupChecksOnePageLess(n) ==
  LET above == {i \in lastEmptyPage..(PageCount - n) : FreeRun(i, n - 1)}
      below == {i \in 0..(lastEmptyPage - n - 1) : FreeRun(i, n)}
  IN IF above # {} THEN Lowest(above) ELSE Lowest(below)

\* Variant: the search upward goes one page too far.
LookupGoesPastEnd(n) ==
  LET above == {i \in lastEmptyPage..(PageCount - n + 1) : \A p \in Run(i, n) \cap Page : ~pages[p].used}
      below == {i \in 0..(lastEmptyPage - n - 1) : FreeRun(i, n)}
  IN IF above # {} THEN Lowest(above) ELSE Lowest(below)

\* The first page of a free run of n pages: {} when none is found.  The search
\* goes from the cursor to the end; then from page 0 to a run that ends, with a
\* page to spare, before the cursor.  Skipping the used pages behind a failed
\* attempt passes over no run (RuntimeMemLoops compares this with the loops).
LookupFreeMemRegion(n) ==
  LET above == {i \in lastEmptyPage..(PageCount - n) : FreeRun(i, n)}
      below == {i \in 0..(lastEmptyPage - n - 1) : FreeRun(i, n)}
  IN IF above # {} THEN Lowest(above) ELSE Lowest(below)

\* The table after RuntimeAllocateMem has taken n pages from s on.
Allocated(s, n) ==
  [p \in Page |-> IF p \in Run(s, n) THEN [used |-> TRUE, start |-> s] ELSE pages[p]]

\* Variant: only the flag is compared, so that the block behind is freed as well.
OwnedWithoutStart(table, s) ==
  LET first == table[s].start
  IN {p \in first..(PageCount - 1) : \A q \in first..p : table[q].used}

\* The pages RuntimeFreeMem and realloc attribute to the block at s: from the
\* start its first entry names, as long as the entries name s.
Owned(table, s) ==
  LET first == table[s].start
  IN {p \in first..(PageCount - 1) : \A q \in first..p : table[q].used /\ table[q].start = s}

\* The table after RuntimeFreeMem.
Freed(table, s) ==
  [p \in Page |-> IF p \in Owned(table, s) THEN FreeEntry ELSE table[p]]

-----------------------------------------------------------------------------
(* The operations.  One that returns NULL changes nothing.                  *)

\* InitializeScratchMemory, then the address change event.
RuntimeCryptLibConstructor ==
  /\ constructed = "no"
  /\ constructed' \in {"yes", "failed"}
  /\ UNCHANGED <<pages, lastEmptyPage, dataAreaBase, data, blocks>>

\* The client's view of a new block at s: what "written" says, and zeros behind.
NewBlock(s, size, written) ==
  LET run == Run(s, RT_SIZE_TO_PAGES(size))
  IN [base |-> dataAreaBase, size |-> size, count |-> RT_SIZE_TO_PAGES(size),
      content |-> [p \in Page |-> IF p \notin run THEN Scratch
                                  ELSE IF p \in DOMAIN written THEN written[p] ELSE Zero]]

Cleared(s, n) == [p \in Page |-> IF p \in Run(s, n) THEN Zero ELSE data[p]]

Give(s, block) ==
  [t \in DOMAIN blocks \cup {s} |-> IF t = s THEN block ELSE blocks[t]]

malloc(size) ==
  /\ constructed = "yes"
  /\ \E s \in LookupFreeMemRegion(RT_SIZE_TO_PAGES(size)) :
       /\ pages' = Allocated(s, RT_SIZE_TO_PAGES(size))
       /\ lastEmptyPage' = s + RT_SIZE_TO_PAGES(size)
       /\ data' = Cleared(s, RT_SIZE_TO_PAGES(size))
       /\ blocks' = Give(s, NewBlock(s, size, <<>>))
  /\ UNCHANGED <<constructed, dataAreaBase>>

\* The blocks the client can still reach.
Reachable == {s \in DOMAIN blocks : blocks[s].base = dataAreaBase}

free(s) ==
  /\ pages' = Freed(pages, s)
  /\ blocks' = [t \in DOMAIN blocks \ {s} |-> blocks[t]]
  /\ UNCHANGED <<constructed, lastEmptyPage, dataAreaBase, data>>

\* Variant: the request is compared with one page more than the block has.
FitsOnePageMore(s, size) == size <= RT_PAGES_TO_SIZE(Cardinality(Owned(pages, s)) + 1)

\* "Return the original pointer, if Caller try to reduce region size."
FitsInPlace(s, size) == size <= RT_PAGES_TO_SIZE(Cardinality(Owned(pages, s)))

ReallocInPlace(s, size) ==
  /\ FitsInPlace(s, size)
  /\ blocks' = [blocks EXCEPT ![s].size = size]
  /\ UNCHANGED <<constructed, pages, lastEmptyPage, dataAreaBase, data>>

\* Variant: nothing is copied into the new block.
CopiedNothing(s, t, n) == Cleared(t, n)

\* ZeroMem of the new block at t, then CopyMem of the pages of the block at s.
Copied(s, t, n) ==
  [p \in Page |-> IF p \in Run(t, Cardinality(Owned(pages, s))) THEN data[s + (p - t)]
                  ELSE Cleared(t, n)[p]]

\* Allocate, copy, then free the old block by the new table.  The client
\* expects what it had written, and zeros behind.
ReallocMove(s, size) ==
  /\ ~FitsInPlace(s, size)
  /\ \E t \in LookupFreeMemRegion(RT_SIZE_TO_PAGES(size)) :
       /\ pages' = Freed(Allocated(t, RT_SIZE_TO_PAGES(size)), s)
       /\ lastEmptyPage' = t + RT_SIZE_TO_PAGES(size)
       /\ data' = Copied(s, t, RT_SIZE_TO_PAGES(size))
       /\ blocks' = [u \in (DOMAIN blocks \ {s}) \cup {t} |->
            IF u = t
            THEN NewBlock(t, size, [p \in Run(t, blocks[s].count) |-> blocks[s].content[s + (p - t)]])
            ELSE blocks[u]]
  /\ UNCHANGED <<constructed, dataAreaBase>>

\* The client writes one of the pages it asked for.
Write(s, k, m) ==
  /\ k < RT_SIZE_TO_PAGES(blocks[s].size)
  /\ data' = [data EXCEPT ![s + k] = m]
  /\ blocks' = [blocks EXCEPT ![s].content[s + k] = m]
  /\ UNCHANGED <<constructed, pages, lastEmptyPage, dataAreaBase>>

\* SetVirtualAddressMap, once, outside every call of the library.
RuntimeCryptLibAddressChangeEvent ==
  /\ constructed = "yes"
  /\ dataAreaBase = "physical"
  /\ dataAreaBase' = "virtual"
  /\ UNCHANGED <<constructed, pages, lastEmptyPage, data, blocks>>

ClientStep(s) ==
  \/ free(s)
  \/ \E size \in RequestSizes : ReallocInPlace(s, size) \/ ReallocMove(s, size)
  \/ \E k \in Page, m \in Mark : Write(s, k, m)

Next ==
  \/ RuntimeCryptLibConstructor
  \/ \E size \in RequestSizes : malloc(size)
  \/ \E s \in Reachable : ClientStep(s)
  \/ RuntimeCryptLibAddressChangeEvent

Spec == Init /\ [][Next]_vars

-----------------------------------------------------------------------------
(* Properties.                                                              *)

PagesOf(s) == Run(s, blocks[s].count)

\* No two blocks the client was given share a page, and none reaches past the
\* end of the data area, whatever the order of allocations, moves and frees.
NoOverlap ==
  /\ \A s \in DOMAIN blocks : PagesOf(s) \subseteq Page
  /\ \A s, t \in DOMAIN blocks : s # t => PagesOf(s) \cap PagesOf(t) = {}

\* The table attributes to each block exactly the pages it was given, and no
\* page is in use that belongs to none: freeing gives back all of a block and
\* nothing of its neighbours.
TableMatchesBlocks ==
  /\ \A s \in DOMAIN blocks : Owned(pages, s) = PagesOf(s)
  /\ \A p \in Page : pages[p].used => \E s \in DOMAIN blocks : p \in PagesOf(s)

\* A block always has room for the bytes last asked for, after a realloc that
\* stayed in place as after one that moved.
RoomForRequest ==
  \A s \in DOMAIN blocks : blocks[s].size <= RT_PAGES_TO_SIZE(blocks[s].count)

\* What the client wrote is still there, in a block that was moved as well:
\* nobody else's allocation, copy or free touches it.
ContentKept ==
  \A s \in DOMAIN blocks, p \in Page : p \in PagesOf(s) => data[p] = blocks[s].content[p]

\* RuntimeAllocateMem: "If no proper memory region found, look up from the
\* beginning.  If still not found, return NULL": a request is refused only when
\* no free run of pages is long enough.
RefusedOnlyWithoutRegion ==
  \A n \in 1..PageCount :
    (\E s \in 0..(PageCount - n) : FreeRun(s, n)) => LookupFreeMemRegion(n) # {}
=============================================================================
