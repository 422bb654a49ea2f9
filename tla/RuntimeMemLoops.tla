--------------------------- MODULE RuntimeMemLoops --------------------------
(* The two loops of LookupFreeMemRegion as they are written, to compare     *)
(* with the operator that the other definitions and proofs use.             *)
(*                                                                         *)
(* Neither loop that skips used pages stops at the end of the table: with a *)
(* used page at the end it goes on through the data area, read as entries   *)
(* (SetMem left 0xFF there, which counts as used, and clients write         *)
(* there).  A set "behind" says which of those entries look used, and any   *)
(* may.  Of the first loop only one thing is assumed: some entry, sooner or *)
(* later, does not look used.  Were there none, it would not end.           *)
EXTENDS RuntimeMem

CONSTANT EntriesBehind  \* bound: how many entries behind the table may look used

ASSUME BehindAssumption == EntriesBehind \in Nat

Behind == PageCount..(PageCount + EntriesBehind - 1)

\* PageFlag & RT_PAGE_USED of Pages[i], behind the table too.
Used(i, behind) == IF i \in Page THEN pages[i].used ELSE i \in behind

\* SubIndex after the check of ReqPages consecutive pages: that of the first used one.
FirstUsed(Index, ReqPages, behind) ==
  CHOOSE k \in 0..ReqPages :
    /\ k = ReqPages \/ Used(k + Index, behind)
    /\ \A j \in 0..(k - 1) : ~Used(j + Index, behind)

\* SubIndex after the used pages from SubIndex on, as long as it is in Allowed.
SkipUsed(Index, SubIndex, Allowed, behind) ==
  CHOOSE k \in SubIndex..(SubIndex + PageCount + EntriesBehind) :
    /\ k \in Allowed => ~Used(k + Index, behind)
    /\ \A j \in SubIndex..(k - 1) : j \in Allowed /\ Used(j + Index, behind)

\* Variant: the skip goes one page too far.
SkipsOneMore(Index, ReqPages, Allowed, behind) ==
  Index + SkipUsed(Index, FirstUsed(Index, ReqPages, behind), Allowed, behind) + 1

\* Where a loop goes on behind a failed attempt.
SkipTo(Index, ReqPages, Allowed, behind) ==
  Index + SkipUsed(Index, FirstUsed(Index, ReqPages, behind), Allowed, behind)

\* From the cursor to the end of the table.  Its skip has no limit: any SubIndex is allowed.
SearchUpward(ReqPages, behind) ==
  LET From[Index \in Nat] ==
        IF Index > PageCount - ReqPages THEN {}
        ELSE IF FirstUsed(Index, ReqPages, behind) = ReqPages THEN {Index}
        ELSE From[SkipTo(Index, ReqPages, Nat, behind)]
  IN  From[lastEmptyPage]

\* From the beginning of the table until the cursor.  Its skip limits SubIndex
\* and not Index + SubIndex, and so may leave the table as well.
SearchFromStart(ReqPages, behind) ==
  LET From[Index \in Nat] ==
        IF Index >= lastEmptyPage - ReqPages THEN {}
        ELSE IF FirstUsed(Index, ReqPages, behind) = ReqPages THEN {Index}
        ELSE From[SkipTo(Index, ReqPages, 0..(lastEmptyPage - ReqPages - 1), behind)]
  IN  From[0]

LookupLoops(ReqPages, behind) ==
  IF ReqPages > PageCount THEN {}
  ELSE IF SearchUpward(ReqPages, behind) # {} THEN SearchUpward(ReqPages, behind)
  ELSE IF ReqPages > lastEmptyPage THEN {}
  ELSE SearchFromStart(ReqPages, behind)

\* In every reachable table the two loops, which jump over used pages and may
\* read behind the table, return the lowest run the model's LookupFreeMemRegion
\* returns, for every length and whatever the memory behind the table holds.
LoopsFindLowestRun ==
  \A n \in 1..(PageCount + 1) : \A behind \in SUBSET Behind :
    LookupLoops(n, behind) = LookupFreeMemRegion(n)
=============================================================================
