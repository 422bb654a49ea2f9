---------------------------- MODULE ParallelHash ----------------------------
(***************************************************************************)
(* ParallelHash256HashAll and ParallelHashApExecute                        *)
(* (OpensslPkg/Library/BaseCryptLib/Hash/CryptParallelHash.c): the boot    *)
(* processor and the application processors hash the blocks of one input,  *)
(* each block under its own spin lock, and the boot processor hashes the   *)
(* digests.  One call, from its entry to its return.                       *)
(*                                                                         *)
(* A digest is kept as the slice of the input it was computed from.        *)
(* CShake256HashAll cannot fail on the arguments it gets here: the rate    *)
(* fits the Keccak buffer, and output length and pointers are checked      *)
(* before.  How the application processors are started is the platform's:  *)
(* StartupAllAPs (CryptDispatchApDxe.c, CryptDispatchApPei.c) is asked to  *)
(* return when they have finished; MmStartupThisAp (CryptDispatchApMm.c)   *)
(* does so, or returns at once, as the platform configures it.             *)
(***************************************************************************)
EXTENDS Integers

CONSTANTS
  AP,          \* the application processors
  BSP,         \* the boot processor
  Lengths,     \* bound: values of InputByteLen
  BlockSizes   \* bound: values of BlockSize

ASSUME HashAssumption ==
  BSP \notin AP /\ Lengths \subseteq Nat /\ BlockSizes \subseteq Nat

Processor == AP \cup {BSP}
Free == "free"  \* a spin lock nobody holds

ASSUME FreeAssumption == Free \notin Processor

Dispatches == {"StartupAllAPs", "MmBlocking", "MmNonBlocking"}
Buffers == {"CombinedInput", "mBlockIsCompleted", "mSpinLockList"}

VARIABLES
  dispatch,           \* how DispatchBlockToAp starts the others; fixed
  pc,                 \* where each processor stands
  index,              \* each processor's Index
  inputByteLen,       \* InputByteLen
  mBlockSize,
  mBlockNum,
  mLastBlockSize,
  mSpinLockList,      \* who holds the lock of each block
  mBlockIsCompleted,
  mBlockHashResult,   \* the digests, zero at first
  heap,               \* the buffers allocated and not freed
  returnValue,        \* "none" until the call returns
  clearedNull         \* TRUE when ZeroMem was called on a NULL pointer

argVars == <<dispatch, inputByteLen, mBlockSize, mBlockNum, mLastBlockSize>>
listVars == <<mSpinLockList, mBlockIsCompleted, mBlockHashResult>>
vars == <<argVars, listVars, pc, index, heap, returnValue, clearedNull>>

Blocks == 0..(mBlockNum - 1)

\* The slice of the input a digest was computed from, and whether it is written.
Digest == [whole : BOOLEAN, from : Nat, length : Nat]
ZeroDigest == [whole |-> FALSE, from |-> 0, length |-> 0]

Init ==
  /\ dispatch \in Dispatches
  /\ pc = [p \in Processor |-> "idle"]
  /\ index = [p \in Processor |-> 0]
  /\ inputByteLen = 0
  /\ mBlockSize = 0
  /\ mBlockNum = 0
  /\ mLastBlockSize = 0
  /\ mSpinLockList = [b \in Blocks |-> Free]
  /\ mBlockIsCompleted = [b \in Blocks |-> FALSE]
  /\ mBlockHashResult = [b \in Blocks |-> ZeroDigest]
  /\ heap = {}
  /\ returnValue = "none"
  /\ clearedNull = FALSE

-----------------------------------------------------------------------------
(* ParallelHash256HashAll, up to the dispatch.                              *)

BlockNum(length, size) ==
  IF length % size = 0 THEN length \div size ELSE (length \div size) + 1

LastBlockSize(length, size) == IF length % size = 0 THEN size ELSE length % size

\* InputByteLen, BlockSize or OutputByteLen is 0, or a pointer is NULL.
RefuseArguments ==
  /\ pc[BSP] = "idle"
  /\ pc' = [pc EXCEPT ![BSP] = "returned"]
  /\ returnValue' = "FALSE"
  /\ UNCHANGED <<argVars, listVars, index, heap, clearedNull>>

\* The three buffers are allocated, each of which may fail; the locks and the
\* globals the processors read are set when all of them are there.  What the
\* lists hold means nothing unless their buffer is in the heap.
Prepare(length, size) ==
  /\ pc[BSP] = "idle"
  /\ length # 0 /\ size # 0
  /\ inputByteLen' = length
  /\ mBlockSize' = size
  /\ mBlockNum' = BlockNum(length, size)
  /\ mSpinLockList' = [b \in Blocks' |-> Free]
  /\ mBlockIsCompleted' = [b \in Blocks' |-> FALSE]
  /\ mBlockHashResult' = [b \in Blocks' |-> ZeroDigest]
  /\ heap' \in SUBSET Buffers
  /\ IF heap' = Buffers
     THEN /\ pc' = [pc EXCEPT ![BSP] = "dispatch"]
          /\ mLastBlockSize' = LastBlockSize(length, size)
          /\ UNCHANGED returnValue
     ELSE /\ pc' = [pc EXCEPT ![BSP] = "exit"]
          /\ returnValue' = "FALSE"
          /\ UNCHANGED mLastBlockSize
  /\ UNCHANGED <<dispatch, index, clearedNull>>

-----------------------------------------------------------------------------
(* DispatchBlockToAp.                                                       *)

Running == {a \in AP : pc[a] \notin {"idle", "done"}}

DispatchUnchanged == UNCHANGED <<argVars, listVars, index, heap, returnValue, clearedNull>>

\* No MpServices, or no gMmst: the boot processor does all blocks.
DispatchToNobody ==
  /\ pc[BSP] = "dispatch"
  /\ \A a \in AP : pc[a] = "idle"
  /\ pc' = [pc EXCEPT ![BSP] = "scan"]
  /\ DispatchUnchanged

StartupAllAPs ==
  /\ dispatch = "StartupAllAPs"
  /\ pc[BSP] = "dispatch"
  /\ pc' = [p \in Processor |-> IF p = BSP THEN "wait" ELSE "scan"]
  /\ DispatchUnchanged

\* Variant: an event is passed, and nobody waits for it.
AllAPsNotAwaited ==
  /\ pc[BSP] = "wait"
  /\ pc' = [pc EXCEPT ![BSP] = "scan"]
  /\ DispatchUnchanged

\* No event is passed, so the call is a blocking one.
AllAPsFinished ==
  /\ pc[BSP] = "wait"
  /\ Running = {}
  /\ pc' = [pc EXCEPT ![BSP] = "scan"]
  /\ DispatchUnchanged

\* Starting a processor may fail, which nobody looks at.
MmStartupThisAp(a) ==
  /\ dispatch # "StartupAllAPs"
  /\ pc[BSP] = "dispatch"
  /\ pc[a] = "idle"
  /\ dispatch = "MmBlocking" => Running = {}
  /\ \E next \in {"scan", "done"} : pc' = [pc EXCEPT ![a] = next]
  /\ DispatchUnchanged

MmDispatched ==
  /\ dispatch # "StartupAllAPs"
  /\ pc[BSP] = "dispatch"
  /\ \A a \in AP : pc[a] # "idle"
  /\ dispatch = "MmBlocking" => Running = {}
  /\ pc' = [pc EXCEPT ![BSP] = "scan"]
  /\ DispatchUnchanged

-----------------------------------------------------------------------------
(* Hashing one block, the same on every processor.                          *)

Allocated == heap = Buffers

\* AcquireSpinLockOrFail succeeds.
Acquire(p) ==
  /\ pc[p] = "scan"
  /\ index[p] < mBlockNum
  /\ Allocated
  /\ mSpinLockList[index[p]] = Free
  /\ mSpinLockList' = [mSpinLockList EXCEPT ![index[p]] = p]
  /\ pc' = [pc EXCEPT ![p] = "locked"]
  /\ UNCHANGED <<argVars, mBlockIsCompleted, mBlockHashResult, index, heap, returnValue, clearedNull>>

\* The block is completed: release it and try the next one.
SkipCompleted(p) ==
  /\ pc[p] = "locked"
  /\ Allocated
  /\ mBlockIsCompleted[index[p]]
  /\ mSpinLockList' = [mSpinLockList EXCEPT ![index[p]] = Free]
  /\ pc' = [pc EXCEPT ![p] = "scan"]
  /\ index' = [index EXCEPT ![p] = @ + 1]
  /\ UNCHANGED <<argVars, mBlockIsCompleted, mBlockHashResult, heap, returnValue, clearedNull>>

\* The digest of block b, by the arguments CShake256HashAll gets.
BlockDigest(b, whole) ==
  [whole |-> whole, from |-> b * mBlockSize,
   length |-> IF b = mBlockNum - 1 THEN mLastBlockSize ELSE mBlockSize]

\* Variant: the flag is not looked at once the lock is held.
BeginHashUnchecked(p) ==
  /\ pc[p] = "locked"
  /\ Allocated
  /\ mBlockHashResult' = [mBlockHashResult EXCEPT ![index[p]] = BlockDigest(index[p], FALSE)]
  /\ pc' = [pc EXCEPT ![p] = "hash"]
  /\ UNCHANGED <<argVars, mSpinLockList, mBlockIsCompleted, index, heap, returnValue, clearedNull>>

\* CShake256HashAll begins to write the block's digest.
BeginHash(p) ==
  /\ pc[p] = "locked"
  /\ Allocated
  /\ ~mBlockIsCompleted[index[p]]
  /\ mBlockHashResult' = [mBlockHashResult EXCEPT ![index[p]] = BlockDigest(index[p], FALSE)]
  /\ pc' = [pc EXCEPT ![p] = "hash"]
  /\ UNCHANGED <<argVars, mSpinLockList, mBlockIsCompleted, index, heap, returnValue, clearedNull>>

\* Variant: the lock is not released.
FinishHashKeepsLock(p) ==
  /\ pc[p] = "hash"
  /\ mBlockHashResult' = [mBlockHashResult EXCEPT ![index[p]] = BlockDigest(index[p], TRUE)]
  /\ mBlockIsCompleted' = [mBlockIsCompleted EXCEPT ![index[p]] = TRUE]
  /\ pc' = [pc EXCEPT ![p] = "scan"]
  /\ index' = [index EXCEPT ![p] = IF p = BSP THEN 0 ELSE @ + 1]
  /\ UNCHANGED <<argVars, mSpinLockList, heap, returnValue, clearedNull>>

\* The digest is written, the block marked and released.  The boot processor
\* breaks out of its loop and starts over; the others go on.
FinishHash(p) ==
  /\ pc[p] = "hash"
  /\ mBlockHashResult' = [mBlockHashResult EXCEPT ![index[p]] = BlockDigest(index[p], TRUE)]
  /\ mBlockIsCompleted' = [mBlockIsCompleted EXCEPT ![index[p]] = TRUE]
  /\ mSpinLockList' = [mSpinLockList EXCEPT ![index[p]] = Free]
  /\ pc' = [pc EXCEPT ![p] = "scan"]
  /\ index' = [index EXCEPT ![p] = IF p = BSP THEN 0 ELSE @ + 1]
  /\ UNCHANGED <<argVars, heap, returnValue, clearedNull>>

Locked(p) ==
  /\ pc[p] = "scan"
  /\ index[p] < mBlockNum
  /\ Allocated
  /\ mSpinLockList[index[p]] # Free

-----------------------------------------------------------------------------
(* ParallelHashApExecute.                                                   *)

\* Somebody else holds the lock: leave the block to them.
ApPassesOn(a) ==
  /\ Locked(a)
  /\ index' = [index EXCEPT ![a] = @ + 1]
  /\ UNCHANGED <<argVars, listVars, pc, heap, returnValue, clearedNull>>

ApReturns(a) ==
  /\ pc[a] = "scan"
  /\ index[a] >= mBlockNum
  /\ pc' = [pc EXCEPT ![a] = "done"]
  /\ UNCHANGED <<argVars, listVars, index, heap, returnValue, clearedNull>>

\* The lists were freed under a processor that still works on them.
ApTouchesFreed(a) ==
  /\ \/ pc[a] = "scan" /\ index[a] < mBlockNum
     \/ pc[a] = "locked"
  /\ ~Allocated
  /\ pc' = [pc EXCEPT ![a] = "wild"]
  /\ UNCHANGED <<argVars, listVars, index, heap, returnValue, clearedNull>>

ApStep(a) ==
  \/ Acquire(a) \/ SkipCompleted(a) \/ BeginHash(a) \/ FinishHash(a)
  \/ ApPassesOn(a) \/ ApReturns(a) \/ ApTouchesFreed(a)

-----------------------------------------------------------------------------
(* ParallelHash256HashAll, from the loop that waits for all blocks on.      *)

\* Variant: a block somebody else works on counts as completed.
BspPassesLocked ==
  /\ Locked(BSP)
  /\ index' = [index EXCEPT ![BSP] = @ + 1]
  /\ UNCHANGED <<argVars, listVars, pc, heap, returnValue, clearedNull>>

\* Somebody else works on the block: start over.
BspStartsOver ==
  /\ Locked(BSP)
  /\ index' = [index EXCEPT ![BSP] = 0]
  /\ UNCHANGED <<argVars, listVars, pc, heap, returnValue, clearedNull>>

\* A whole pass found every block completed.
BspAllCompleted ==
  /\ pc[BSP] = "scan"
  /\ index[BSP] = mBlockNum
  /\ pc' = [pc EXCEPT ![BSP] = "combine"]
  /\ UNCHANGED <<argVars, listVars, index, heap, returnValue, clearedNull>>

\* n and L are appended, and the combined input is hashed.
Combine ==
  /\ pc[BSP] = "combine"
  /\ pc' = [pc EXCEPT ![BSP] = "exit"]
  /\ returnValue' = "TRUE"
  /\ UNCHANGED <<argVars, listVars, index, heap, clearedNull>>

\* ZeroMem runs before the pointer is compared with NULL.
Exit ==
  /\ pc[BSP] = "exit"
  /\ clearedNull' = ("CombinedInput" \notin heap)
  /\ heap' = {}
  /\ pc' = [pc EXCEPT ![BSP] = "returned"]
  /\ UNCHANGED <<argVars, listVars, index, returnValue>>

BspStep ==
  \/ RefuseArguments
  \/ \E length \in Lengths, size \in BlockSizes : Prepare(length, size)
  \/ DispatchToNobody \/ StartupAllAPs \/ AllAPsFinished \/ MmDispatched
  \/ \E a \in AP : MmStartupThisAp(a)
  \/ Acquire(BSP) \/ SkipCompleted(BSP) \/ BeginHash(BSP) \/ FinishHash(BSP)
  \/ BspStartsOver \/ BspAllCompleted \/ Combine \/ Exit

Next == BspStep \/ \E a \in AP : ApStep(a)

Spec == Init /\ [][Next]_vars

\* Every processor keeps executing.
FairSpec == Spec /\ WF_vars(BspStep) /\ \A a \in AP : WF_vars(ApStep(a))

-----------------------------------------------------------------------------
(* Properties.                                                              *)

\* The digests that are combined are whole, and the slices they were computed
\* from tile the input: block b starts at b * BlockSize, every block but the
\* last is BlockSize long, and the last one, never empty, ends with the input.
CombinesWholeDigests ==
  pc[BSP] = "combine" =>
    /\ inputByteLen - (mBlockNum - 1) * mBlockSize \in 1..mBlockSize
    /\ \A b \in Blocks : mBlockHashResult[b] =
         [whole |-> TRUE, from |-> b * mBlockSize,
          length |-> IF b = mBlockNum - 1 THEN inputByteLen - b * mBlockSize ELSE mBlockSize]

\* No processor writes to a digest that is completed: a processor that finds
\* the lock free after another one finished does not hash the block again.
CompletedIsFinal ==
  [][\A b \in Blocks : mBlockIsCompleted[b] /\ pc[BSP] # "idle" =>
       mBlockIsCompleted'[b] /\ mBlockHashResult'[b] = mBlockHashResult[b]]_vars

\* When the dispatch service waits for the processors it starts, none of them
\* looks at the locks or the flags after the boot processor has freed them.
FreedListsUntouched ==
  dispatch # "MmNonBlocking" => \A a \in AP : pc[a] # "wild"

\* A call that has begun returns, whatever the processors do with the locks in
\* between: nobody starves the boot processor's restarting loop.
HashReturns == pc[BSP] # "idle" ~> pc[BSP] = "returned"

\* "@retval FALSE  ParallelHash256 digest computation failed": a call that
\* cannot allocate its buffers fails, and clears no memory but its own.
ClearsOnlyItsBuffer == ~clearedNull
=============================================================================
