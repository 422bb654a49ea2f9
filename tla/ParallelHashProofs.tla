------------------------- MODULE ParallelHashProofs -------------------------
(***************************************************************************)
(* Proofs about module ParallelHash, for any number of application         *)
(* processors and any lengths of input and blocks.                         *)
(***************************************************************************)
EXTENDS ParallelHash, TLAPS

ApPlaces == {"idle", "scan", "locked", "hash", "done", "wild"}
BspPlaces == {"idle", "dispatch", "wait", "scan", "locked", "hash", "combine", "exit", "returned"}

HashTypeOK ==
  /\ dispatch \in Dispatches
  /\ pc \in [Processor -> ApPlaces \cup BspPlaces]
  /\ pc[BSP] \in BspPlaces /\ \A a \in AP : pc[a] \in ApPlaces
  /\ index \in [Processor -> Nat]
  /\ inputByteLen \in Nat /\ mBlockSize \in Nat /\ mBlockNum \in Nat /\ mLastBlockSize \in Nat
  /\ mSpinLockList \in [Blocks -> Processor \cup {Free}]
  /\ mBlockIsCompleted \in [Blocks -> BOOLEAN]
  /\ mBlockHashResult \in [Blocks -> Digest]
  /\ heap \subseteq Buffers

\* The globals describe the input as long as the buffers are allocated.
ArgInv ==
  Allocated =>
    /\ mBlockSize # 0
    /\ mLastBlockSize \in 1..mBlockSize
    /\ inputByteLen = (mBlockNum - 1) * mBlockSize + mLastBlockSize

\* A processor at work on a block holds its lock, and hashes only what is not
\* completed.
LockInv ==
  /\ \A p \in Processor : pc[p] \in {"locked", "hash"} =>
       index[p] \in Blocks /\ mSpinLockList[index[p]] = p
  /\ \A p \in Processor : pc[p] = "hash" => ~mBlockIsCompleted[index[p]]

\* A completed block has its whole digest.
DigestInv ==
  \A b \in Blocks : mBlockIsCompleted[b] => mBlockHashResult[b] = BlockDigest(b, TRUE)

\* The boot processor's pass has left completed blocks behind it.
PassInv ==
  /\ pc[BSP] \in {"scan", "locked"} => \A b \in Blocks : b < index[BSP] => mBlockIsCompleted[b]
  /\ pc[BSP] = "scan" => index[BSP] <= mBlockNum
  /\ pc[BSP] = "combine" => mBlockNum # 0 /\ \A b \in Blocks : mBlockIsCompleted[b]
  /\ pc[BSP] \in {"dispatch", "wait", "scan", "locked", "hash"} => mBlockNum # 0
  /\ pc[BSP] \in {"idle", "dispatch", "wait"} => index[BSP] = 0

\* The buffers live until the call is left, and then nobody works on them when
\* the dispatch has waited.
HeapInv ==
  /\ pc[BSP] \in {"dispatch", "wait", "scan", "locked", "hash", "combine"} => Allocated
  /\ pc[BSP] = "idle" => \A a \in AP : pc[a] = "idle"
  /\ dispatch # "MmNonBlocking" /\ pc[BSP] \notin {"dispatch", "wait"} =>
       \A a \in AP : pc[a] \in {"idle", "done"}

HashInv == HashTypeOK /\ ArgInv /\ LockInv /\ DigestInv /\ PassInv /\ HeapInv /\ FreedListsUntouched

-----------------------------------------------------------------------------
\* The blocks of a non-empty input tile it, and the last one is not empty.
LEMMA BlocksTile ==
  ASSUME NEW length \in Nat \ {0}, NEW size \in Nat \ {0}
  PROVE  /\ BlockNum(length, size) \in Nat \ {0}
         /\ LastBlockSize(length, size) \in 1..size
         /\ length = (BlockNum(length, size) - 1) * size + LastBlockSize(length, size)
<1> DEFINE q == length \div size
           r == length % size
<1>1. q \in Nat /\ r \in 0..(size - 1) /\ length = size * q + r
  OBVIOUS
<1>2. BlockNum(length, size) = (IF r = 0 THEN q ELSE q + 1)
      /\ LastBlockSize(length, size) = (IF r = 0 THEN size ELSE r)
  BY DEF BlockNum, LastBlockSize
<1> HIDE DEF q, r
<1>3. r = 0 => q # 0
  BY <1>1
<1>4. CASE r = 0
  <2>1. (q - 1) * size + size = size * q
    BY <1>1
  <2> QED  BY <1>1, <1>2, <1>3, <1>4, <2>1
<1>5. CASE r # 0
  <2>1. BlockNum(length, size) = q + 1 /\ LastBlockSize(length, size) = r
    BY <1>2, <1>5
  <2>2. (BlockNum(length, size) - 1) * size = size * q
    BY <1>1, <2>1
  <2>3. BlockNum(length, size) \in Nat \ {0} /\ r \in 1..size
    BY <1>1, <1>5, <2>1
  <2> QED  BY <1>1, <2>1, <2>2, <2>3
<1> QED  BY <1>4, <1>5

\* The digest of a block has its type.
LEMMA BlockDigestType ==
  ASSUME HashTypeOK, NEW b \in Blocks, NEW whole \in BOOLEAN
  PROVE  BlockDigest(b, whole) \in Digest
<1>1. b \in Nat /\ mBlockSize \in Nat /\ mLastBlockSize \in Nat
  BY DEF HashTypeOK, Blocks
<1>2. b * mBlockSize \in Nat
  BY <1>1
<1> QED  BY <1>1, <1>2 DEF BlockDigest, Digest

\* The initial states satisfy the invariant.
LEMMA HashInit ==
  ASSUME Init
  PROVE  HashInv
<1>1. Blocks = {}
  BY DEF Init, Blocks
<1>2. HashTypeOK
  BY <1>1, HashAssumption DEF Init, HashTypeOK, Processor, ApPlaces, BspPlaces, Dispatches, Buffers
<1> QED  BY <1>1, <1>2, HashAssumption DEF Init, HashInv, ArgInv, Allocated, Buffers, LockInv, DigestInv, PassInv, HeapInv,
            FreedListsUntouched, Processor

-----------------------------------------------------------------------------
(* The steps.                                                               *)

\* Setting the globals and allocating the buffers.
LEMMA PrepareStep ==
  ASSUME HashInv, NEW length \in Lengths, NEW size \in BlockSizes, Prepare(length, size)
  PROVE  HashInv'
<1>0. HashTypeOK /\ LockInv /\ PassInv /\ HeapInv
  BY DEF HashInv
<1>1. length \in Nat \ {0} /\ size \in Nat \ {0}
  BY HashAssumption DEF Prepare
<1>2. /\ mBlockNum' \in Nat \ {0} /\ mLastBlockSize' \in Nat
      /\ mBlockSize' = size /\ inputByteLen' = length
  <2>1. mBlockNum' \in Nat \ {0} /\ mBlockSize' = size /\ inputByteLen' = length
    BY <1>1, BlocksTile DEF Prepare
  <2>2. LastBlockSize(length, size) \in Nat
    BY <1>1, BlocksTile
  <2>3. mLastBlockSize' \in {mLastBlockSize, LastBlockSize(length, size)}
    BY DEF Prepare
  <2> QED  BY <1>0, <2>1, <2>2, <2>3 DEF HashTypeOK
<1>t. heap' = Buffers => /\ mLastBlockSize' \in 1..size
                         /\ inputByteLen' = (mBlockNum' - 1) * mBlockSize' + mLastBlockSize'
  BY <1>1, BlocksTile DEF Prepare
<1>3. /\ mSpinLockList' = [b \in Blocks' |-> Free]
      /\ mBlockIsCompleted' = [b \in Blocks' |-> FALSE]
      /\ mBlockHashResult' = [b \in Blocks' |-> ZeroDigest]
      /\ heap' \in SUBSET Buffers /\ UNCHANGED <<dispatch, index>>
      /\ pc[BSP] = "idle"
  BY DEF Prepare
<1>4. /\ pc' \in [Processor -> ApPlaces \cup BspPlaces]
      /\ pc'[BSP] \in {"dispatch", "exit"} /\ (pc'[BSP] = "dispatch" => heap' = Buffers)
      /\ \A a \in AP : pc'[a] = "idle"
  BY <1>0, HashAssumption DEF Prepare, HashTypeOK, HeapInv, Processor, ApPlaces, BspPlaces
<1>5. HashTypeOK'
  <2>1. ZeroDigest \in Digest
    BY DEF ZeroDigest, Digest
  <2>2. mSpinLockList' \in [Blocks' -> Processor \cup {Free}] /\ mBlockIsCompleted' \in [Blocks' -> BOOLEAN]
        /\ mBlockHashResult' \in [Blocks' -> Digest]
    BY <1>3, <2>1
  <2>3. mLastBlockSize' \in Nat /\ mBlockSize' \in Nat /\ mBlockNum' \in Nat /\ inputByteLen' \in Nat
    BY <1>1, <1>2
  <2>4. pc'[BSP] \in BspPlaces /\ \A a \in AP : pc'[a] \in ApPlaces
    BY <1>4 DEF ApPlaces, BspPlaces
  <2>5. dispatch' \in Dispatches /\ index' \in [Processor -> Nat] /\ heap' \subseteq Buffers
    BY <1>0, <1>3 DEF HashTypeOK
  <2> QED  BY <1>4, <2>2, <2>3, <2>4, <2>5 DEF HashTypeOK
<1>6. ArgInv'
  BY <1>1, <1>2, <1>t DEF ArgInv, Allocated
<1>7. LockInv'
  BY <1>4 DEF LockInv, Processor
<1>8. DigestInv'
  BY <1>3 DEF DigestInv
<1>9. PassInv'
  BY <1>0, <1>2, <1>3, <1>4 DEF PassInv
<1>10. HeapInv' /\ FreedListsUntouched'
  BY <1>4 DEF HeapInv, FreedListsUntouched, Allocated
<1> QED  BY <1>5, <1>6, <1>7, <1>8, <1>9, <1>10 DEF HashInv

\* A step that moves one processor's program counter, or the application
\* processors' from "idle", and nothing else.
LEMMA ControlStep ==
  ASSUME HashInv, UNCHANGED <<argVars, listVars, index>>, heap' \in {heap, {}},
         pc' \in [Processor -> ApPlaces \cup BspPlaces],
         pc'[BSP] \in BspPlaces, \A a \in AP : pc'[a] \in ApPlaces,
         \A p \in Processor : pc'[p] \in {"locked", "hash"} => pc'[p] = pc[p]
  PROVE  HashTypeOK' /\ ArgInv' /\ LockInv' /\ DigestInv'
<1>0. HashTypeOK /\ ArgInv /\ LockInv /\ DigestInv
  BY DEF HashInv
<1>1. Blocks' = Blocks /\ \A b \in Blocks : BlockDigest(b, TRUE)' = BlockDigest(b, TRUE)
  BY DEF argVars, Blocks, BlockDigest
<1>2. HashTypeOK'
  BY <1>0, <1>1 DEF HashTypeOK, argVars, listVars
<1>3. ArgInv'
  BY <1>0 DEF ArgInv, Allocated, Buffers, argVars
<1>4. LockInv'
  BY <1>0, <1>1 DEF LockInv, listVars
<1>5. DigestInv'
  BY <1>0, <1>1 DEF DigestInv, listVars
<1> QED  BY <1>2, <1>3, <1>4, <1>5

\* The steps of the boot processor that only move its program counter.
LEMMA BspControlStep ==
  ASSUME HashInv,
         RefuseArguments \/ DispatchToNobody \/ AllAPsFinished \/ MmDispatched
           \/ BspAllCompleted \/ Combine \/ Exit
  PROVE  HashInv'
<1>0. HashTypeOK /\ PassInv /\ HeapInv /\ FreedListsUntouched
  BY DEF HashInv
<1> USE DEF RefuseArguments, DispatchToNobody, AllAPsFinished, MmDispatched, BspAllCompleted,
            Combine, Exit, DispatchUnchanged
<1>1. UNCHANGED <<argVars, listVars, index>> /\ heap' \in {heap, {}}
  BY <1>0 DEF HashTypeOK
<1>2. PICK place \in {"returned", "scan", "combine", "exit"} : pc' = [pc EXCEPT ![BSP] = place]
  OBVIOUS
<1>3. /\ pc' \in [Processor -> ApPlaces \cup BspPlaces]
      /\ pc'[BSP] = place /\ \A a \in AP : pc'[a] = pc[a]
  BY <1>0, <1>2, HashAssumption DEF HashTypeOK, Processor, ApPlaces, BspPlaces
<1>4. HashTypeOK' /\ ArgInv' /\ LockInv' /\ DigestInv'
  <2>1. pc'[BSP] \in BspPlaces /\ \A a \in AP : pc'[a] \in ApPlaces
    BY <1>0, <1>3 DEF HashTypeOK, BspPlaces
  <2>2. \A p \in Processor : pc'[p] \in {"locked", "hash"} => pc'[p] = pc[p]
    BY <1>3 DEF Processor
  <2> QED  BY <1>1, <1>3, <2>1, <2>2, ControlStep
<1>5. PassInv'
  BY <1>0, <1>3, HashAssumption DEF PassInv, HashTypeOK, Blocks, argVars, listVars
<1>6. HeapInv' /\ FreedListsUntouched'
  BY <1>0, <1>3 DEF HeapInv, FreedListsUntouched, HashTypeOK, Allocated, argVars, Running, Dispatches
<1> QED  BY <1>4, <1>5, <1>6 DEF HashInv

\* Starting the application processors.
LEMMA StartStep ==
  ASSUME HashInv, StartupAllAPs \/ \E a \in AP : MmStartupThisAp(a)
  PROVE  HashInv'
<1>0. HashTypeOK /\ PassInv /\ HeapInv /\ FreedListsUntouched
  BY DEF HashInv
<1> USE DEF StartupAllAPs, MmStartupThisAp, DispatchUnchanged
<1>1. UNCHANGED <<argVars, listVars, index, heap>> /\ heap' \in {heap, {}} /\ pc[BSP] = "dispatch"
  BY <1>0 DEF HashTypeOK
<1>2. /\ pc' \in [Processor -> ApPlaces \cup BspPlaces]
      /\ pc'[BSP] \in {"dispatch", "wait"}
      /\ \A a \in AP : pc'[a] \in {"scan", "done"} \/ pc'[a] = pc[a]
  BY <1>0, HashAssumption DEF HashTypeOK, Processor, ApPlaces, BspPlaces
<1>3. HashTypeOK' /\ ArgInv' /\ LockInv' /\ DigestInv'
  <2>1. pc'[BSP] \in BspPlaces /\ \A a \in AP : pc'[a] \in ApPlaces
    BY <1>0, <1>2 DEF HashTypeOK, BspPlaces, ApPlaces
  <2>2. \A p \in Processor : pc'[p] \in {"locked", "hash"} => pc'[p] = pc[p]
    BY <1>2 DEF Processor
  <2> QED  BY <1>1, <1>2, <2>1, <2>2, ControlStep
<1>4. PassInv'
  BY <1>0, <1>1, <1>2 DEF PassInv, argVars, listVars
<1>5. HeapInv' /\ FreedListsUntouched'
  BY <1>0, <1>1, <1>2 DEF HeapInv, FreedListsUntouched, Allocated, argVars
<1> QED  BY <1>3, <1>4, <1>5 DEF HashInv

\* The steps of an application processor that leave the lists alone.
LEMMA ApControlStep ==
  ASSUME HashInv, NEW a \in AP, ApPassesOn(a) \/ ApReturns(a) \/ ApTouchesFreed(a)
  PROVE  HashInv'
<1>0. HashTypeOK /\ ArgInv /\ LockInv /\ DigestInv /\ PassInv /\ HeapInv /\ FreedListsUntouched
  BY DEF HashInv
<1> USE DEF ApPassesOn, ApReturns, ApTouchesFreed, Locked
<1>1. UNCHANGED <<argVars, listVars, heap>> /\ a \in Processor /\ a # BSP /\ BSP \in Processor
  BY HashAssumption DEF Processor
<1>2. /\ pc' \in [Processor -> ApPlaces \cup BspPlaces]
      /\ \A p \in Processor \ {a} : pc'[p] = pc[p] /\ index'[p] = index[p]
      /\ index' \in [Processor -> Nat]
      /\ pc'[a] \in {"scan", "done", "wild"} /\ pc[a] \in {"scan", "locked"}
  BY <1>0, <1>1 DEF HashTypeOK, ApPlaces
<1>3. Blocks' = Blocks /\ \A b \in Blocks : BlockDigest(b, TRUE)' = BlockDigest(b, TRUE)
  BY <1>1 DEF argVars, Blocks, BlockDigest
<1>4. HashTypeOK'
  BY <1>0, <1>1, <1>2, <1>3 DEF HashTypeOK, argVars, listVars, Processor, ApPlaces
<1>5. ArgInv' /\ DigestInv'
  BY <1>0, <1>1, <1>3 DEF ArgInv, DigestInv, Allocated, argVars, listVars
<1>6. LockInv'
  BY <1>0, <1>1, <1>2, <1>3 DEF LockInv, listVars
<1>7. PassInv'
  BY <1>0, <1>1, <1>2, <1>3 DEF PassInv, listVars, argVars
<1>8. dispatch # "MmNonBlocking" => pc[BSP] \in {"dispatch", "wait"} /\ pc'[a] # "wild"
  <2>1. HAVE dispatch # "MmNonBlocking"
  <2>2. pc[BSP] \in {"dispatch", "wait"}
    BY <1>0, <1>2, <2>1 DEF HeapInv
  <2>3. Allocated
    BY <1>0, <2>2 DEF HeapInv
  <2>4. ApPassesOn(a) \/ ApReturns(a)
    BY <2>3
  <2>5. pc'[a] # "wild"
    BY <1>0, <1>1, <2>4 DEF HashTypeOK
  <2> QED  BY <2>2, <2>5
<1>9. HeapInv'
  BY <1>0, <1>1, <1>2, <1>8, HashAssumption DEF HeapInv, Allocated, argVars, Processor
<1>10. FreedListsUntouched'
  BY <1>0, <1>1, <1>2, <1>8 DEF FreedListsUntouched, argVars, Processor
<1> QED  BY <1>4, <1>5, <1>6, <1>7, <1>9, <1>10 DEF HashInv

\* The boot processor starts its pass over.
LEMMA StartOverStep ==
  ASSUME HashInv, BspStartsOver
  PROVE  HashInv'
<1>0. HashTypeOK /\ ArgInv /\ LockInv /\ DigestInv /\ PassInv /\ HeapInv /\ FreedListsUntouched
  BY DEF HashInv
<1>1. UNCHANGED <<argVars, listVars, heap, pc>> /\ pc[BSP] = "scan"
      /\ index' = [index EXCEPT ![BSP] = 0]
  BY DEF BspStartsOver, Locked
<1>2. /\ index' \in [Processor -> Nat] /\ index'[BSP] = 0
      /\ \A p \in Processor \ {BSP} : index'[p] = index[p]
  BY <1>0, <1>1 DEF HashTypeOK, Processor
<1>3. Blocks' = Blocks /\ \A b \in Blocks : BlockDigest(b, TRUE)' = BlockDigest(b, TRUE)
  BY <1>1 DEF argVars, Blocks, BlockDigest
<1>4. HashTypeOK'
  BY <1>0, <1>1, <1>2, <1>3 DEF HashTypeOK, argVars, listVars
<1>5. ArgInv' /\ DigestInv'
  BY <1>0, <1>1, <1>3 DEF ArgInv, DigestInv, Allocated, argVars, listVars
<1>6. LockInv'
  BY <1>0, <1>1, <1>2, <1>3 DEF LockInv, listVars
<1>7. PassInv'
  BY <1>0, <1>1, <1>2, <1>3 DEF PassInv, listVars, argVars, Blocks, HashTypeOK
<1>8. HeapInv' /\ FreedListsUntouched'
  BY <1>0, <1>1 DEF HeapInv, FreedListsUntouched, Allocated, argVars
<1> QED  BY <1>4, <1>5, <1>6, <1>7, <1>8 DEF HashInv

\* A processor takes the lock of a block nobody holds.
LEMMA AcquireStep ==
  ASSUME HashInv, NEW p \in Processor, Acquire(p)
  PROVE  HashInv'
<1>0. HashTypeOK /\ ArgInv /\ LockInv /\ DigestInv /\ PassInv /\ HeapInv /\ FreedListsUntouched
  BY DEF HashInv
<1>1. /\ pc[p] = "scan" /\ index[p] < mBlockNum /\ mSpinLockList[index[p]] = Free
      /\ mSpinLockList' = [mSpinLockList EXCEPT ![index[p]] = p]
      /\ pc' = [pc EXCEPT ![p] = "locked"]
      /\ UNCHANGED <<argVars, mBlockIsCompleted, mBlockHashResult, index, heap>>
  BY DEF Acquire
<1>2. Blocks' = Blocks /\ index[p] \in Blocks
      /\ \A b \in Blocks : BlockDigest(b, TRUE)' = BlockDigest(b, TRUE)
  BY <1>0, <1>1 DEF argVars, Blocks, BlockDigest, HashTypeOK
<1>3. /\ pc' \in [Processor -> ApPlaces \cup BspPlaces]
      /\ pc'[p] = "locked" /\ \A q \in Processor \ {p} : pc'[q] = pc[q]
      /\ mSpinLockList' \in [Blocks -> Processor \cup {Free}]
      /\ mSpinLockList'[index[p]] = p
      /\ \A b \in Blocks \ {index[p]} : mSpinLockList'[b] = mSpinLockList[b]
  BY <1>0, <1>1, <1>2 DEF HashTypeOK, ApPlaces
<1>4. HashTypeOK'
  <2>1. pc'[BSP] \in BspPlaces /\ \A a \in AP : pc'[a] \in ApPlaces
    BY <1>0, <1>3 DEF HashTypeOK, ApPlaces, BspPlaces, Processor
  <2> QED  BY <1>0, <1>1, <1>2, <1>3, <2>1 DEF HashTypeOK, argVars
<1>5. ArgInv' /\ DigestInv'
  BY <1>0, <1>1, <1>2 DEF ArgInv, DigestInv, Allocated, argVars
<1>6. LockInv'
  <2>1. \A q \in Processor \ {p} : pc[q] \in {"locked", "hash"} => index[q] # index[p]
    BY <1>0, <1>1, FreeAssumption DEF LockInv
  <2> QED  BY <1>0, <1>1, <1>2, <1>3, <2>1 DEF LockInv
<1>7. PassInv'
  BY <1>0, <1>1, <1>2, <1>3, HashAssumption DEF PassInv, argVars, Processor
<1>8. HeapInv' /\ FreedListsUntouched'
  BY <1>0, <1>1, <1>3, HashAssumption DEF HeapInv, FreedListsUntouched, Allocated, argVars, Processor
<1> QED  BY <1>4, <1>5, <1>6, <1>7, <1>8 DEF HashInv

\* A processor finds the block it locked completed, and leaves it.
LEMMA SkipStep ==
  ASSUME HashInv, NEW p \in Processor, SkipCompleted(p)
  PROVE  HashInv'
<1>0. HashTypeOK /\ ArgInv /\ LockInv /\ DigestInv /\ PassInv /\ HeapInv /\ FreedListsUntouched
  BY DEF HashInv
<1>1. /\ pc[p] = "locked" /\ mBlockIsCompleted[index[p]]
      /\ mSpinLockList' = [mSpinLockList EXCEPT ![index[p]] = Free]
      /\ pc' = [pc EXCEPT ![p] = "scan"]
      /\ index' = [index EXCEPT ![p] = @ + 1]
      /\ UNCHANGED <<argVars, mBlockIsCompleted, mBlockHashResult, heap>>
  BY DEF SkipCompleted
<1>2. Blocks' = Blocks /\ index[p] \in Blocks /\ mSpinLockList[index[p]] = p
      /\ \A b \in Blocks : BlockDigest(b, TRUE)' = BlockDigest(b, TRUE)
  BY <1>0, <1>1 DEF argVars, Blocks, BlockDigest, LockInv
<1>3. /\ pc' \in [Processor -> ApPlaces \cup BspPlaces]
      /\ pc'[p] = "scan" /\ index'[p] = index[p] + 1
      /\ \A q \in Processor \ {p} : pc'[q] = pc[q] /\ index'[q] = index[q]
      /\ index' \in [Processor -> Nat]
      /\ mSpinLockList' \in [Blocks -> Processor \cup {Free}]
      /\ \A b \in Blocks \ {index[p]} : mSpinLockList'[b] = mSpinLockList[b]
  BY <1>0, <1>1, <1>2 DEF HashTypeOK, ApPlaces
<1>4. HashTypeOK'
  <2>1. pc'[BSP] \in BspPlaces /\ \A a \in AP : pc'[a] \in ApPlaces
    BY <1>0, <1>3 DEF HashTypeOK, ApPlaces, BspPlaces, Processor
  <2> QED  BY <1>0, <1>1, <1>2, <1>3, <2>1 DEF HashTypeOK, argVars
<1>5. ArgInv' /\ DigestInv'
  BY <1>0, <1>1, <1>2 DEF ArgInv, DigestInv, Allocated, argVars
<1>6. LockInv'
  <2>1. \A q \in Processor \ {p} : pc[q] \in {"locked", "hash"} => index[q] # index[p]
    BY <1>0, <1>2 DEF LockInv
  <2> QED  BY <1>0, <1>1, <1>2, <1>3, <2>1 DEF LockInv
<1>7. PassInv'
  <2>1. CASE p = BSP
    <3>1. mBlockNum' = mBlockNum /\ mBlockNum \in Nat /\ index[BSP] \in Nat /\ index[BSP] + 1 <= mBlockNum
      BY <1>0, <1>1, <1>2, <2>1 DEF argVars, HashTypeOK, Blocks, Processor
    <3>2. \A b \in Blocks : b < index[BSP] + 1 => mBlockIsCompleted[b]
      BY <1>0, <1>1, <1>2, <2>1, <3>1 DEF PassInv, Blocks
    <3> QED  BY <1>0, <1>1, <1>2, <1>3, <2>1, <3>1, <3>2 DEF PassInv
  <2>2. CASE p # BSP
    <3>1. BSP \in Processor \ {p}
      BY <2>2 DEF Processor
    <3> QED  BY <1>0, <1>1, <1>2, <1>3, <3>1 DEF PassInv, argVars
  <2> QED  BY <2>1, <2>2
<1>8. HeapInv' /\ FreedListsUntouched'
  BY <1>0, <1>1, <1>3, HashAssumption DEF HeapInv, FreedListsUntouched, Allocated, argVars, Processor
<1> QED  BY <1>4, <1>5, <1>6, <1>7, <1>8 DEF HashInv

\* A processor begins to write the digest of the block it locked.
LEMMA BeginStep ==
  ASSUME HashInv, NEW p \in Processor, BeginHash(p)
  PROVE  HashInv'
<1>0. HashTypeOK /\ ArgInv /\ LockInv /\ DigestInv /\ PassInv /\ HeapInv /\ FreedListsUntouched
  BY DEF HashInv
<1>1. /\ pc[p] = "locked" /\ ~mBlockIsCompleted[index[p]]
      /\ mBlockHashResult' = [mBlockHashResult EXCEPT ![index[p]] = BlockDigest(index[p], FALSE)]
      /\ pc' = [pc EXCEPT ![p] = "hash"]
      /\ UNCHANGED <<argVars, mSpinLockList, mBlockIsCompleted, index, heap>>
  BY DEF BeginHash
<1>2. Blocks' = Blocks /\ index[p] \in Blocks
      /\ \A b \in Blocks : BlockDigest(b, TRUE)' = BlockDigest(b, TRUE)
  BY <1>0, <1>1 DEF argVars, Blocks, BlockDigest, LockInv
<1>3. /\ pc' \in [Processor -> ApPlaces \cup BspPlaces]
      /\ pc'[p] = "hash" /\ \A q \in Processor \ {p} : pc'[q] = pc[q]
  BY <1>0, <1>1 DEF HashTypeOK, ApPlaces
<1>4. /\ mBlockHashResult' \in [Blocks -> Digest]
      /\ \A b \in Blocks \ {index[p]} : mBlockHashResult'[b] = mBlockHashResult[b]
  BY <1>0, <1>1, <1>2, BlockDigestType DEF HashTypeOK
<1>5. HashTypeOK'
  <2>1. pc'[BSP] \in BspPlaces /\ \A a \in AP : pc'[a] \in ApPlaces
    BY <1>0, <1>3 DEF HashTypeOK, ApPlaces, BspPlaces, Processor
  <2> QED  BY <1>0, <1>1, <1>2, <1>3, <1>4, <2>1 DEF HashTypeOK, argVars
<1>6. ArgInv'
  BY <1>0, <1>1 DEF ArgInv, Allocated, argVars
<1>7. DigestInv'
  BY <1>0, <1>1, <1>2, <1>4 DEF DigestInv
<1>8. LockInv'
  BY <1>0, <1>1, <1>2, <1>3 DEF LockInv
<1>9. PassInv'
  BY <1>0, <1>1, <1>2, <1>3, HashAssumption DEF PassInv, argVars, Processor
<1>10. HeapInv' /\ FreedListsUntouched'
  BY <1>0, <1>1, <1>3, HashAssumption DEF HeapInv, FreedListsUntouched, Allocated, argVars, Processor
<1> QED  BY <1>5, <1>6, <1>7, <1>8, <1>9, <1>10 DEF HashInv

\* A processor completes its block and releases it.
LEMMA FinishStep ==
  ASSUME HashInv, NEW p \in Processor, FinishHash(p)
  PROVE  HashInv'
<1>0. HashTypeOK /\ ArgInv /\ LockInv /\ DigestInv /\ PassInv /\ HeapInv /\ FreedListsUntouched
  BY DEF HashInv
<1>1. /\ pc[p] = "hash"
      /\ mBlockHashResult' = [mBlockHashResult EXCEPT ![index[p]] = BlockDigest(index[p], TRUE)]
      /\ mBlockIsCompleted' = [mBlockIsCompleted EXCEPT ![index[p]] = TRUE]
      /\ mSpinLockList' = [mSpinLockList EXCEPT ![index[p]] = Free]
      /\ pc' = [pc EXCEPT ![p] = "scan"]
      /\ index' = [index EXCEPT ![p] = IF p = BSP THEN 0 ELSE @ + 1]
      /\ UNCHANGED <<argVars, heap>>
  BY DEF FinishHash
<1>2. Blocks' = Blocks /\ index[p] \in Blocks /\ mSpinLockList[index[p]] = p
      /\ \A b \in Blocks : BlockDigest(b, TRUE)' = BlockDigest(b, TRUE)
  BY <1>0, <1>1 DEF argVars, Blocks, BlockDigest, LockInv
<1>3. /\ pc' \in [Processor -> ApPlaces \cup BspPlaces]
      /\ pc'[p] = "scan" /\ index' \in [Processor -> Nat] /\ (p = BSP => index'[BSP] = 0)
      /\ \A q \in Processor \ {p} : pc'[q] = pc[q] /\ index'[q] = index[q]
  BY <1>0, <1>1 DEF HashTypeOK, ApPlaces
<1>4. /\ mBlockHashResult' \in [Blocks -> Digest]
      /\ mBlockHashResult'[index[p]] = BlockDigest(index[p], TRUE)
      /\ \A b \in Blocks \ {index[p]} : mBlockHashResult'[b] = mBlockHashResult[b]
  BY <1>0, <1>1, <1>2, BlockDigestType DEF HashTypeOK
<1>5. /\ mBlockIsCompleted' \in [Blocks -> BOOLEAN]
      /\ mSpinLockList' \in [Blocks -> Processor \cup {Free}]
      /\ mBlockIsCompleted'[index[p]] = TRUE
      /\ \A b \in Blocks \ {index[p]} : mBlockIsCompleted'[b] = mBlockIsCompleted[b]
                                        /\ mSpinLockList'[b] = mSpinLockList[b]
  BY <1>0, <1>1, <1>2 DEF HashTypeOK
<1>6. HashTypeOK'
  <2>1. pc'[BSP] \in BspPlaces /\ \A a \in AP : pc'[a] \in ApPlaces
    BY <1>0, <1>3 DEF HashTypeOK, ApPlaces, BspPlaces, Processor
  <2> QED  BY <1>0, <1>1, <1>2, <1>3, <1>4, <1>5, <2>1 DEF HashTypeOK, argVars
<1>7. ArgInv'
  BY <1>0, <1>1 DEF ArgInv, Allocated, argVars
<1>8. DigestInv'
  BY <1>0, <1>2, <1>4, <1>5 DEF DigestInv
<1>9. LockInv'
  <2>1. \A q \in Processor \ {p} : pc[q] \in {"locked", "hash"} => index[q] \in Blocks \ {index[p]}
    BY <1>0, <1>2 DEF LockInv
  <2> QED  BY <1>0, <1>2, <1>3, <1>5, <2>1 DEF LockInv
<1>10. PassInv'
  <2>1. mBlockNum' = mBlockNum /\ mBlockNum \in Nat
    BY <1>0, <1>1 DEF argVars, HashTypeOK
  <2>2. CASE p = BSP
    BY <1>0, <1>1, <1>2, <1>3, <2>1, <2>2 DEF PassInv, Blocks
  <2>3. CASE p # BSP
    <3>1. BSP \in Processor \ {p}
      BY <2>3 DEF Processor
    <3>2. \A b \in Blocks : mBlockIsCompleted[b] => mBlockIsCompleted'[b]
      BY <1>5
    <3> QED  BY <1>0, <1>2, <1>3, <2>1, <3>1, <3>2 DEF PassInv
  <2> QED  BY <2>2, <2>3
<1>11. HeapInv' /\ FreedListsUntouched'
  BY <1>0, <1>1, <1>3, HashAssumption DEF HeapInv, FreedListsUntouched, Allocated, argVars, Processor
<1> QED  BY <1>6, <1>7, <1>8, <1>9, <1>10, <1>11 DEF HashInv

\* Every step keeps the invariant.
LEMMA HashStep ==
  ASSUME HashInv, [Next]_vars
  PROVE  HashInv'
<1>1. CASE BspStep
  <2>0. BSP \in Processor
    BY DEF Processor
  <2>1. CASE \E length \in Lengths, size \in BlockSizes : Prepare(length, size)
    BY <2>1, PrepareStep
  <2>2. CASE StartupAllAPs \/ \E a \in AP : MmStartupThisAp(a)
    BY <2>2, StartStep
  <2>3. CASE Acquire(BSP) \/ SkipCompleted(BSP) \/ BeginHash(BSP) \/ FinishHash(BSP)
    BY <2>0, <2>3, AcquireStep, SkipStep, BeginStep, FinishStep
  <2>4. CASE BspStartsOver
    BY <2>4, StartOverStep
  <2>5. CASE RefuseArguments \/ DispatchToNobody \/ AllAPsFinished \/ MmDispatched
               \/ BspAllCompleted \/ Combine \/ Exit
    BY <2>5, BspControlStep
  <2> QED  BY <1>1, <2>1, <2>2, <2>3, <2>4, <2>5 DEF BspStep
<1>2. ASSUME NEW a \in AP, ApStep(a)
      PROVE  HashInv'
  <2>0. a \in Processor
    BY DEF Processor
  <2>1. CASE Acquire(a) \/ SkipCompleted(a) \/ BeginHash(a) \/ FinishHash(a)
    BY <2>0, <2>1, AcquireStep, SkipStep, BeginStep, FinishStep
  <2>2. CASE ApPassesOn(a) \/ ApReturns(a) \/ ApTouchesFreed(a)
    BY <2>2, ApControlStep
  <2> QED  BY <1>2, <2>1, <2>2 DEF ApStep
<1>3. CASE UNCHANGED vars
  <2>1. UNCHANGED <<argVars, listVars, pc, index, heap>>
    BY <1>3 DEF vars
  <2>2. Blocks' = Blocks /\ \A b \in Blocks : BlockDigest(b, TRUE)' = BlockDigest(b, TRUE)
    BY <2>1 DEF argVars, Blocks, BlockDigest
  <2> QED  BY <2>1, <2>2 DEF HashInv, HashTypeOK, ArgInv, LockInv, DigestInv, PassInv, HeapInv,
              FreedListsUntouched, Allocated, argVars, listVars
<1> QED  BY <1>1, <1>2, <1>3 DEF Next

-----------------------------------------------------------------------------
(* The theorems.                                                            *)

\* The inductive invariant of ParallelHash256HashAll: locks exclude, completed
\* blocks have whole digests, a pass leaves only completed blocks behind, and
\* the buffers outlive the processors a waiting dispatch started.
THEOREM HashInvariant == Spec => []HashInv
<1>1. Init => HashInv
  BY HashInit
<1>2. HashInv /\ [Next]_vars => HashInv'
  BY HashStep
<1> QED  BY <1>1, <1>2, PTL DEF Spec

\* What the boot processor combines are the whole digests of slices that tile
\* the input, whatever the number of processors and their interleaving.
THEOREM DigestsAreWhole == Spec => []CombinesWholeDigests
<1>1. HashInv => CombinesWholeDigests
  <2> SUFFICES ASSUME HashInv, pc[BSP] = "combine"
               PROVE  /\ inputByteLen - (mBlockNum - 1) * mBlockSize \in 1..mBlockSize
                      /\ \A b \in Blocks : mBlockHashResult[b] =
                           [whole |-> TRUE, from |-> b * mBlockSize,
                            length |-> IF b = mBlockNum - 1 THEN inputByteLen - b * mBlockSize
                                                            ELSE mBlockSize]
    BY DEF CombinesWholeDigests
  <2>1. mBlockNum # 0 /\ \A b \in Blocks : mBlockHashResult[b] = BlockDigest(b, TRUE)
    BY DEF HashInv, PassInv, DigestInv
  <2>2. mBlockNum \in Nat /\ mBlockSize \in Nat /\ mLastBlockSize \in 1..mBlockSize
    BY <2>1 DEF HashInv, HashTypeOK, ArgInv, HeapInv
  <2>3. inputByteLen = (mBlockNum - 1) * mBlockSize + mLastBlockSize
    BY <2>1 DEF HashInv, ArgInv, HeapInv
  <2>4. (mBlockNum - 1) * mBlockSize \in Int
    BY <2>2
  <2>5. inputByteLen - (mBlockNum - 1) * mBlockSize = mLastBlockSize
    BY <2>2, <2>3, <2>4
  <2> QED  BY <2>1, <2>2, <2>5 DEF BlockDigest
<1> QED  BY <1>1, HashInvariant, PTL

\* Under a dispatch that waits, no application processor touches the lists
\* after the boot processor freed them.
THEOREM FreedListsStayUntouched == Spec => []FreedListsUntouched
<1>1. HashInv => FreedListsUntouched
  BY DEF HashInv
<1> QED  BY <1>1, HashInvariant, PTL

\* Once a block is completed no step of any processor touches its digest or
\* takes the mark back.
THEOREM CompletedDigestsAreFinal == Spec => CompletedIsFinal
<1> DEFINE Final == \A b \in Blocks : mBlockIsCompleted[b] /\ pc[BSP] # "idle" =>
                      mBlockIsCompleted'[b] /\ mBlockHashResult'[b] = mBlockHashResult[b]
<1>1. HashInv /\ [Next]_vars => [Final]_vars
  <2> SUFFICES ASSUME HashInv, Next, NEW b \in Blocks, mBlockIsCompleted[b], pc[BSP] # "idle"
               PROVE  mBlockIsCompleted'[b] /\ mBlockHashResult'[b] = mBlockHashResult[b]
    OBVIOUS
  <2>0. HashTypeOK /\ LockInv
    BY DEF HashInv
  <2>1. CASE \E length \in Lengths, size \in BlockSizes : Prepare(length, size)
    BY <2>1 DEF Prepare
  <2>2. CASE \E p \in Processor : BeginHash(p)
    <3>1. PICK p \in Processor : BeginHash(p)
      BY <2>2
    <3>2. index[p] # b /\ UNCHANGED mBlockIsCompleted
      BY <3>1 DEF BeginHash
    <3> QED  BY <2>0, <3>1, <3>2 DEF BeginHash, HashTypeOK
  <2>3. CASE \E p \in Processor : FinishHash(p)
    <3>1. PICK p \in Processor : FinishHash(p)
      BY <2>3
    <3>2. index[p] # b
      BY <2>0, <3>1 DEF FinishHash, LockInv
    <3> QED  BY <2>0, <3>1, <3>2 DEF FinishHash, HashTypeOK
  <2>4. CASE UNCHANGED <<mBlockIsCompleted, mBlockHashResult>>
    BY <2>4
  <2>5. \A p \in Processor : Acquire(p) \/ SkipCompleted(p) => UNCHANGED <<mBlockIsCompleted, mBlockHashResult>>
    BY DEF Acquire, SkipCompleted
  <2>6. \A a \in AP : ApPassesOn(a) \/ ApReturns(a) \/ ApTouchesFreed(a) \/ MmStartupThisAp(a)
          => UNCHANGED <<mBlockIsCompleted, mBlockHashResult>>
    BY DEF ApPassesOn, ApReturns, ApTouchesFreed, MmStartupThisAp, DispatchUnchanged, listVars
  <2>7. RefuseArguments \/ DispatchToNobody \/ StartupAllAPs \/ AllAPsFinished \/ MmDispatched
          \/ BspStartsOver \/ BspAllCompleted \/ Combine \/ Exit
          => UNCHANGED <<mBlockIsCompleted, mBlockHashResult>>
    BY DEF RefuseArguments, DispatchToNobody, StartupAllAPs, AllAPsFinished, MmDispatched,
           BspStartsOver, BspAllCompleted, Combine, Exit, DispatchUnchanged, listVars
  <2> QED  BY <2>1, <2>2, <2>3, <2>4, <2>5, <2>6, <2>7 DEF Next, BspStep, ApStep, Processor
<1> QED  BY <1>1, HashInvariant, PTL DEF Spec, CompletedIsFinal
=============================================================================
