------------------------ MODULE ImageTransferProofs ------------------------
(***************************************************************************)
(* Proofs about module ImageTransfer, for every image, HOB list, region,   *)
(* target size and amount of damage to the responses.                      *)
(***************************************************************************)
EXTENDS ImageTransfer, ImageProviderProofs, TLAPS

-----------------------------------------------------------------------------
(* The inductive invariant behind the properties that hold whatever the     *)
(* responses claim.                                                         *)

\* The handler runs exactly while DXE waits for it.
Alternation == mmPc # "idle" <=> dxePc = "inMm"

\* CommBuffer: what is recorded fits what is allocated, and the message area is
\* the rest of the allocation, without a foreign byte.
CommBufferInv ==
  dxePc \notin {"idle", "done"} =>
    /\ commBufferAllocSize <= commAlloc
    /\ commBufferAllocSize > Headers
    /\ msg.Data \in [1..(commAlloc - Headers) -> Byte]

\* The request in progress fits CommBuffer.
RequestInv ==
  /\ dxePc \notin {"idle", "done", "loop"} => thisRequest <= commAlloc - Headers
  /\ dxePc = "send" => thisRequest <= commBufferAllocSize - Headers
  /\ dxePc \in {"communicate", "inMm"} => commSize = Headers + thisRequest
  /\ mmPc = "dispatched" => commBufferSize = MsgHeaderSize + thisRequest
  /\ mmPc \in {"validated", "snapshot"} => local.InputBufferSize = MsgHeaderSize + thisRequest

\* The reassembly buffer.
ReassemblyInv ==
  /\ dxePc = "loop" => phase = "chunk"
  /\ phase = "size" => localImage = <<>> /\ offset = 0 /\ thisRequest = 0
  /\ phase = "chunk" /\ dxePc # "done" =>
       /\ localImage \in [1..expected.Total -> Byte \cup {Foreign}]
       /\ chunkCapacity \in 1..(commAlloc - Headers)
       /\ dxePc = "loop" => chunkCapacity <= commBufferAllocSize - Headers
       /\ dxePc # "loop" => thisChunk <= commAlloc - Headers
  /\ offset <= Len(localImage)
  /\ \A i \in 1..offset : localImage[i] \in Byte
  /\ phase = "chunk" => Len(localImage) = expected.Total

\* Which buffers are allocated.
HeapInv ==
  /\ dxePc = "idle" => heap = {}
  /\ dxePc = "done" => heap = IF fetchStatus = "SUCCESS" THEN {"LocalImage"} ELSE {}
  /\ dxePc \notin {"idle", "done"} =>
       heap = IF phase = "chunk" THEN {"CommBuffer", "LocalImage"} ELSE {"CommBuffer"}
  /\ dxePc = "idle" => phase = "size"

SafeInv == TypeOK /\ Alternation /\ CommBufferInv /\ RequestInv /\ ReassemblyInv /\ HeapInv /\ CacheInv

\* The driver entry of the provider leaves the transfer alone.
LEMMA MmEntrySafe ==
  ASSUME SafeInv, MmEntry, UNCHANGED <<dxeVars, faultVars>>
  PROVE  SafeInv'
<1> USE ByteAssumption, SizeAssumption, TransferAssumption DEF Headers
<1>0. TypeOK /\ Alternation /\ CommBufferInv /\ RequestInv /\ ReassemblyInv /\ HeapInv /\ CacheInv
  BY DEF SafeInv
<1>1. TypeOK'
  BY <1>0
  DEF MmEntry, TypeOK, ProviderTypeOK, providerVars, handlerVars, dxeVars, faultVars
<1>2. Alternation'
  BY <1>0
  DEF MmEntry, Alternation, TypeOK, ProviderTypeOK, providerVars, handlerVars, dxeVars,
      faultVars
<1>3. CommBufferInv'
  BY <1>0
  DEF MmEntry, CommBufferInv, Alternation, TypeOK, ProviderTypeOK, providerVars,
      handlerVars, dxeVars, faultVars
<1>4. RequestInv'
  BY <1>0
  DEF MmEntry, RequestInv, CommBufferInv, Alternation, TypeOK, ProviderTypeOK,
      providerVars, handlerVars, dxeVars, faultVars
<1>5. ReassemblyInv'
  BY <1>0
  DEF MmEntry, ReassemblyInv, CommBufferInv, TypeOK, ProviderTypeOK, providerVars,
      handlerVars, dxeVars, faultVars
<1>6. HeapInv'
  BY <1>0
  DEF MmEntry, HeapInv, providerVars, handlerVars, dxeVars, faultVars
<1>7. CacheInv'
  BY <1>0
  DEF MmEntry, CacheInv, providerVars, handlerVars, dxeVars, faultVars
<1> QED  BY <1>1, <1>2, <1>3, <1>4, <1>5, <1>6, <1>7 DEF SafeInv

\* Unregistering the handler at ReadyToLock leaves a transfer in progress alone.
LEMMA ReadyToLockSafe ==
  ASSUME SafeInv, OneCryptoImageProviderReadyToLock, UNCHANGED <<dxeVars, faultVars>>
  PROVE  SafeInv'
<1> USE ByteAssumption, SizeAssumption, TransferAssumption DEF Headers
<1>0. TypeOK /\ Alternation /\ CommBufferInv /\ RequestInv /\ ReassemblyInv /\ HeapInv /\ CacheInv
  BY DEF SafeInv
<1>1. TypeOK'
  BY <1>0
  DEF OneCryptoImageProviderReadyToLock, TypeOK, ProviderTypeOK, providerVars, handlerVars,
      dxeVars, faultVars
<1>2. Alternation'
  BY <1>0
  DEF OneCryptoImageProviderReadyToLock, Alternation, TypeOK, ProviderTypeOK, providerVars,
      handlerVars, dxeVars, faultVars
<1>3. CommBufferInv'
  BY <1>0
  DEF OneCryptoImageProviderReadyToLock, CommBufferInv, Alternation, TypeOK,
      ProviderTypeOK, providerVars, handlerVars, dxeVars, faultVars
<1>4. RequestInv'
  BY <1>0
  DEF OneCryptoImageProviderReadyToLock, RequestInv, CommBufferInv, Alternation, TypeOK,
      ProviderTypeOK, providerVars, handlerVars, dxeVars, faultVars
<1>5. ReassemblyInv'
  BY <1>0
  DEF OneCryptoImageProviderReadyToLock, ReassemblyInv, CommBufferInv, TypeOK,
      ProviderTypeOK, providerVars, handlerVars, dxeVars, faultVars
<1>6. HeapInv'
  BY <1>0
  DEF OneCryptoImageProviderReadyToLock, HeapInv, providerVars, handlerVars, dxeVars,
      faultVars
<1>7. CacheInv'
  BY <1>0
  DEF OneCryptoImageProviderReadyToLock, CacheInv, providerVars, handlerVars, dxeVars,
      faultVars
<1> QED  BY <1>1, <1>2, <1>3, <1>4, <1>5, <1>6, <1>7 DEF SafeInv

\* A handler that returns without answering leaves the message as DXE wrote it.
LEMMA QuiesceSafe ==
  ASSUME SafeInv, NEW valid \in BOOLEAN, HandlerQuiesce(valid), UNCHANGED <<dxeVars, faultVars>>
  PROVE  SafeInv'
<1> USE ByteAssumption, SizeAssumption, TransferAssumption DEF Headers
<1>0. TypeOK /\ Alternation /\ CommBufferInv /\ RequestInv /\ ReassemblyInv /\ HeapInv /\ CacheInv
  BY DEF SafeInv
<1>1. TypeOK'
  BY <1>0
  DEF HandlerQuiesce, TypeOK, ProviderTypeOK, providerVars, handlerVars, dxeVars, faultVars
<1>2. Alternation'
  BY <1>0
  DEF HandlerQuiesce, Alternation, TypeOK, ProviderTypeOK, providerVars, handlerVars,
      dxeVars, faultVars
<1>3. CommBufferInv'
  BY <1>0
  DEF HandlerQuiesce, CommBufferInv, Alternation, TypeOK, ProviderTypeOK, providerVars,
      handlerVars, dxeVars, faultVars
<1>4. RequestInv'
  BY <1>0
  DEF HandlerQuiesce, RequestInv, CommBufferInv, Alternation, TypeOK, ProviderTypeOK,
      providerVars, handlerVars, dxeVars, faultVars
<1>5. ReassemblyInv'
  BY <1>0
  DEF HandlerQuiesce, ReassemblyInv, CommBufferInv, TypeOK, ProviderTypeOK, providerVars,
      handlerVars, dxeVars, faultVars
<1>6. HeapInv'
  BY <1>0
  DEF HandlerQuiesce, HeapInv, providerVars, handlerVars, dxeVars, faultVars
<1>7. CacheInv'
  BY <1>0
  DEF HandlerQuiesce, CacheInv, providerVars, handlerVars, dxeVars, faultVars
<1> QED  BY <1>1, <1>2, <1>3, <1>4, <1>5, <1>6, <1>7 DEF SafeInv

\* Clearing the response fields keeps the payload area and records its size.
LEMMA ValidateSafe ==
  ASSUME SafeInv, NEW valid \in BOOLEAN, HandlerValidate(valid), UNCHANGED <<dxeVars, faultVars>>
  PROVE  SafeInv'
<1> USE ByteAssumption, SizeAssumption, TransferAssumption DEF Headers
<1>0. TypeOK /\ Alternation /\ CommBufferInv /\ RequestInv /\ ReassemblyInv /\ HeapInv /\ CacheInv
  BY DEF SafeInv
<1>u. mmPc = "dispatched" /\ mmPc' = "validated" /\ UNCHANGED <<providerVars, commBufferSize, dxeVars, faultVars>>
  BY DEF HandlerValidate
<1>a. msg' \in Message /\ msg'.Data = msg.Data
  BY <1>0 DEF HandlerValidate, TypeOK, ProviderTypeOK, Message, Status, ImageGuids
<1>b. local' \in Locals /\ local'.InputBufferSize = commBufferSize
  BY <1>0 DEF HandlerValidate, TypeOK, ProviderTypeOK, Locals
<1>1. TypeOK'
  BY <1>0, <1>u, <1>a, <1>b
  DEF TypeOK, ProviderTypeOK, providerVars, handlerVars, dxeVars, faultVars
<1>2. Alternation'
  BY <1>0, <1>u, <1>a, <1>b
  DEF Alternation, TypeOK, ProviderTypeOK, providerVars, handlerVars, dxeVars, faultVars
<1>3. CommBufferInv'
  BY <1>0, <1>u, <1>a, <1>b
  DEF CommBufferInv, Alternation, TypeOK, ProviderTypeOK, providerVars, handlerVars,
      dxeVars, faultVars
<1>4. RequestInv'
  BY <1>0, <1>u, <1>a, <1>b
  DEF RequestInv, CommBufferInv, Alternation, TypeOK, ProviderTypeOK, providerVars,
      handlerVars, dxeVars, faultVars
<1>5. ReassemblyInv'
  BY <1>0, <1>u, <1>a, <1>b
  DEF ReassemblyInv, CommBufferInv, TypeOK, ProviderTypeOK, providerVars, handlerVars,
      dxeVars, faultVars
<1>6. HeapInv'
  BY <1>0, <1>u, <1>a, <1>b
  DEF HeapInv, providerVars, handlerVars, dxeVars, faultVars
<1>7. CacheInv'
  BY <1>0, <1>u, <1>a, <1>b
  DEF CacheInv, providerVars, handlerVars, dxeVars, faultVars
<1> QED  BY <1>1, <1>2, <1>3, <1>4, <1>5, <1>6, <1>7 DEF SafeInv

\* Reading the request fields to locals changes no buffer.
LEMMA SnapshotSafe ==
  ASSUME SafeInv, HandlerSnapshot, UNCHANGED <<dxeVars, faultVars>>
  PROVE  SafeInv'
<1> USE ByteAssumption, SizeAssumption, TransferAssumption DEF Headers
<1>0. TypeOK /\ Alternation /\ CommBufferInv /\ RequestInv /\ ReassemblyInv /\ HeapInv /\ CacheInv
  BY DEF SafeInv
<1>u. mmPc = "validated" /\ mmPc' = "snapshot" /\ UNCHANGED <<providerVars, msg, commBufferSize, dxeVars, faultVars>>
  BY DEF HandlerSnapshot
<1>b. local' \in Locals /\ local'.InputBufferSize = local.InputBufferSize
  BY <1>0 DEF HandlerSnapshot, TypeOK, ProviderTypeOK, Locals, Message
<1>1. TypeOK'
  BY <1>0, <1>u, <1>b
  DEF TypeOK, ProviderTypeOK, providerVars, handlerVars, dxeVars, faultVars
<1>2. Alternation'
  BY <1>0, <1>u, <1>b
  DEF Alternation, TypeOK, ProviderTypeOK, providerVars, handlerVars, dxeVars, faultVars
<1>3. CommBufferInv'
  BY <1>0, <1>u, <1>b
  DEF CommBufferInv, Alternation, TypeOK, ProviderTypeOK, providerVars, handlerVars,
      dxeVars, faultVars
<1>4. RequestInv'
  BY <1>0, <1>u, <1>b
  DEF RequestInv, CommBufferInv, Alternation, TypeOK, ProviderTypeOK, providerVars,
      handlerVars, dxeVars, faultVars
<1>5. ReassemblyInv'
  BY <1>0, <1>u, <1>b
  DEF ReassemblyInv, CommBufferInv, TypeOK, ProviderTypeOK, providerVars, handlerVars,
      dxeVars, faultVars
<1>6. HeapInv'
  BY <1>0, <1>u, <1>b
  DEF HeapInv, providerVars, handlerVars, dxeVars, faultVars
<1>7. CacheInv'
  BY <1>0, <1>u, <1>b
  DEF CacheInv, providerVars, handlerVars, dxeVars, faultVars
<1> QED  BY <1>1, <1>2, <1>3, <1>4, <1>5, <1>6, <1>7 DEF SafeInv

\* Refusing an unrecognised header writes only the status.
LEMMA BadHeaderSafe ==
  ASSUME SafeInv, HandlerBadHeader, UNCHANGED <<dxeVars, faultVars>>
  PROVE  SafeInv'
<1> USE ByteAssumption, SizeAssumption, TransferAssumption DEF Headers
<1>0. TypeOK /\ Alternation /\ CommBufferInv /\ RequestInv /\ ReassemblyInv /\ HeapInv /\ CacheInv
  BY DEF SafeInv
<1>u. mmPc = "snapshot" /\ mmPc' = "returned" /\ commBufferSize' = MsgHeaderSize
      /\ UNCHANGED <<providerVars, local, dxeVars, faultVars>>
  BY DEF HandlerBadHeader, Reply, providerVars
<1>a. msg' \in Message /\ msg'.Data = msg.Data
  BY <1>0 DEF HandlerBadHeader, Reply, TypeOK, ProviderTypeOK, Message, Status, ImageGuids
<1>1. TypeOK'
  BY <1>0, <1>u, <1>a
  DEF TypeOK, ProviderTypeOK, providerVars, handlerVars, dxeVars, faultVars
<1>2. Alternation'
  BY <1>0, <1>u, <1>a
  DEF Alternation, TypeOK, ProviderTypeOK, providerVars, handlerVars, dxeVars, faultVars
<1>3. CommBufferInv'
  BY <1>0, <1>u, <1>a
  DEF CommBufferInv, Alternation, TypeOK, ProviderTypeOK, providerVars, handlerVars,
      dxeVars, faultVars
<1>4. RequestInv'
  BY <1>0, <1>u, <1>a
  DEF RequestInv, CommBufferInv, Alternation, TypeOK, ProviderTypeOK, providerVars,
      handlerVars, dxeVars, faultVars
<1>5. ReassemblyInv'
  BY <1>0, <1>u, <1>a
  DEF ReassemblyInv, CommBufferInv, TypeOK, ProviderTypeOK, providerVars, handlerVars,
      dxeVars, faultVars
<1>6. HeapInv'
  BY <1>0, <1>u, <1>a
  DEF HeapInv, providerVars, handlerVars, dxeVars, faultVars
<1>7. CacheInv'
  BY <1>0, <1>u, <1>a
  DEF CacheInv, providerVars, handlerVars, dxeVars, faultVars
<1> QED  BY <1>1, <1>2, <1>3, <1>4, <1>5, <1>6, <1>7 DEF SafeInv

\* Reporting that there is no image writes only the status.
LEMMA NotFoundSafe ==
  ASSUME SafeInv, HandlerNotFound, UNCHANGED <<dxeVars, faultVars>>
  PROVE  SafeInv'
<1> USE ByteAssumption, SizeAssumption, TransferAssumption DEF Headers
<1>0. TypeOK /\ Alternation /\ CommBufferInv /\ RequestInv /\ ReassemblyInv /\ HeapInv /\ CacheInv
  BY DEF SafeInv
<1>u. mmPc = "snapshot" /\ mmPc' = "returned" /\ commBufferSize' = MsgHeaderSize
      /\ UNCHANGED <<providerVars, local, dxeVars, faultVars>>
  BY DEF HandlerNotFound, Reply, providerVars
<1>a. msg' \in Message /\ msg'.Data = msg.Data
  BY <1>0 DEF HandlerNotFound, Reply, TypeOK, ProviderTypeOK, Message, Status, ImageGuids
<1>1. TypeOK'
  BY <1>0, <1>u, <1>a
  DEF TypeOK, ProviderTypeOK, providerVars, handlerVars, dxeVars, faultVars
<1>2. Alternation'
  BY <1>0, <1>u, <1>a
  DEF Alternation, TypeOK, ProviderTypeOK, providerVars, handlerVars, dxeVars, faultVars
<1>3. CommBufferInv'
  BY <1>0, <1>u, <1>a
  DEF CommBufferInv, Alternation, TypeOK, ProviderTypeOK, providerVars, handlerVars,
      dxeVars, faultVars
<1>4. RequestInv'
  BY <1>0, <1>u, <1>a
  DEF RequestInv, CommBufferInv, Alternation, TypeOK, ProviderTypeOK, providerVars,
      handlerVars, dxeVars, faultVars
<1>5. ReassemblyInv'
  BY <1>0, <1>u, <1>a
  DEF ReassemblyInv, CommBufferInv, TypeOK, ProviderTypeOK, providerVars, handlerVars,
      dxeVars, faultVars
<1>6. HeapInv'
  BY <1>0, <1>u, <1>a
  DEF HeapInv, providerVars, handlerVars, dxeVars, faultVars
<1>7. CacheInv'
  BY <1>0, <1>u, <1>a
  DEF CacheInv, providerVars, handlerVars, dxeVars, faultVars
<1> QED  BY <1>1, <1>2, <1>3, <1>4, <1>5, <1>6, <1>7 DEF SafeInv

\* Refusing an image beyond UINT32 caches the resident image.
LEMMA TooLargeSafe ==
  ASSUME SafeInv, HandlerTooLarge, UNCHANGED <<dxeVars, faultVars>>
  PROVE  SafeInv'
<1> USE ByteAssumption, SizeAssumption, TransferAssumption DEF Headers
<1>0. TypeOK /\ Alternation /\ CommBufferInv /\ RequestInv /\ ReassemblyInv /\ HeapInv /\ CacheInv
  BY DEF SafeInv
<1>u. mmPc = "snapshot" /\ mmPc' = "returned" /\ commBufferSize' = MsgHeaderSize /\ UNCHANGED mOneCryptoImageCrc32
      /\ UNCHANGED <<hobList, mDispatchHandle, mReadyToLockRegistration, mmState, local, dxeVars, faultVars>>
  BY DEF HandlerTooLarge, Reply
<1>a. msg' \in Message /\ msg'.Data = msg.Data
  BY <1>0 DEF HandlerTooLarge, Reply, TypeOK, ProviderTypeOK, Message, Status, ImageGuids
<1>b. mOneCryptoImage' \in Image /\ mOneCryptoImage' \in ResidentImage(hobList)
  BY <1>0, LocatedIsResident DEF HandlerTooLarge, AtMostOneImage, TypeOK
<1>1. TypeOK'
  BY <1>0, <1>u, <1>a, <1>b
  DEF TypeOK, ProviderTypeOK, providerVars, handlerVars, dxeVars, faultVars
<1>2. Alternation'
  BY <1>0, <1>u, <1>a, <1>b
  DEF Alternation, TypeOK, ProviderTypeOK, providerVars, handlerVars, dxeVars, faultVars
<1>3. CommBufferInv'
  BY <1>0, <1>u, <1>a, <1>b
  DEF CommBufferInv, Alternation, TypeOK, ProviderTypeOK, providerVars, handlerVars,
      dxeVars, faultVars
<1>4. RequestInv'
  BY <1>0, <1>u, <1>a, <1>b
  DEF RequestInv, CommBufferInv, Alternation, TypeOK, ProviderTypeOK, providerVars,
      handlerVars, dxeVars, faultVars
<1>5. ReassemblyInv'
  BY <1>0, <1>u, <1>a, <1>b
  DEF ReassemblyInv, CommBufferInv, TypeOK, ProviderTypeOK, providerVars, handlerVars,
      dxeVars, faultVars
<1>6. HeapInv'
  BY <1>0, <1>u, <1>a, <1>b
  DEF HeapInv, providerVars, handlerVars, dxeVars, faultVars
<1>7. CacheInv'
  BY <1>0, <1>u, <1>a, <1>b
  DEF CacheInv, providerVars, handlerVars, dxeVars, faultVars
<1> QED  BY <1>1, <1>2, <1>3, <1>4, <1>5, <1>6, <1>7 DEF SafeInv

\* Serving a chunk fills the payload area with image bytes, within its size.
LEMMA ServeSafe ==
  ASSUME SafeInv, HandlerServe, UNCHANGED <<dxeVars, faultVars>>
  PROVE  SafeInv'
<1> USE ByteAssumption, SizeAssumption, TransferAssumption DEF Headers
<1>0. TypeOK /\ Alternation /\ CommBufferInv /\ RequestInv /\ ReassemblyInv /\ HeapInv /\ CacheInv
  BY DEF SafeInv
<1>u. mmPc = "snapshot" /\ mmPc' = "returned"
      /\ UNCHANGED <<hobList, mDispatchHandle, mReadyToLockRegistration, mmState, local, dxeVars, faultVars>>
  BY DEF HandlerServe
<1> DEFINE image == mOneCryptoImage'
           size  == ServedSize(image)
<1>a. /\ image \in ResidentImage(hobList)
      /\ image \in Image
      /\ Len(image.data) <= MAX_UINT32
      /\ mOneCryptoImageCrc32' = ImageCrc(image)
      /\ msg' = [msg EXCEPT !.ImageGuid = ONE_CRYPTO_BINARY_GUID,
                            !.TotalImageSize = Len(image.data),
                            !.Format = image.format,
                            !.Crc32 = ImageCrc(image),
                            !.ReturnedSize = size,
                            !.Data = CopyImage(image, size),
                            !.Status = ServedStatus(image)]
      /\ commBufferSize' = MsgHeaderSize + size
  BY <1>0, LocatedIsResident DEF HandlerServe, AtMostOneImage, TypeOK
<1> HIDE DEF image
<1>b. image.data \in Seq(Byte) /\ Len(image.data) \in Nat /\ image.format \in {PE32, GUIDED_FV}
  BY <1>a DEF Image
<1>c. ImageCrc(image) \in Nat
  <2>1. image.data \in CheckedImages
    BY <1>a, <1>b, SeqIsFun DEF CheckedImages
  <2> QED  BY <1>0, <2>1, CrcAssumption DEF ImageCrc, TypeOK, ProviderTypeOK
<1>d. /\ size \in Nat
      /\ size <= thisRequest
      /\ size # 0 => local.Offset + size <= Len(image.data)
      /\ local.Offset \in Nat
  BY <1>0, <1>b, <1>u DEF ServedSize, CopySize, LowerOf, RequestInv, TypeOK, ProviderTypeOK, Locals
<1>e. /\ msg.Data \in [1..(commAlloc - Headers) -> Byte]
      /\ size <= commAlloc - Headers
      /\ commAlloc - Headers \in Nat
  BY <1>0, <1>d, <1>u DEF Alternation, CommBufferInv, RequestInv, TypeOK
<1>f. CopyImage(image, size) \in [1..(commAlloc - Headers) -> Byte]
  <2>1. Len(msg.Data) = commAlloc - Headers
    BY <1>e, FunIsSeq
  <2>2. \A i \in 1..size : ByteAt(image.data, local.Offset + i) \in Byte
    BY <1>b, <1>d, SeqIsFun DEF ByteAt
  <2> QED  BY <1>d, <1>e, <2>1, <2>2 DEF CopyImage
<1>g. msg' \in Message /\ msg'.Data = CopyImage(image, size)
  <2>1. CopyImage(image, size) \in Seq(Byte \cup {Foreign})
    BY <1>e, <1>f, FunIsSeq
  <2>2. ServedStatus(image) \in Status
    BY DEF ServedStatus, Status
  <2>3. msg \in Message
    BY <1>0 DEF TypeOK, ProviderTypeOK
  <2> QED  BY <1>a, <1>b, <1>c, <1>d, <2>1, <2>2, <2>3 DEF Message, ImageGuids
<1>h. mOneCryptoImage' \in Image /\ mOneCryptoImage' \in ResidentImage(hobList)
  BY <1>a DEF image
<1>i. mOneCryptoImageCrc32' \in Nat /\ commBufferSize' \in Nat
  BY <1>a, <1>c, <1>d
<1>j. msg'.Data \in [1..(commAlloc - Headers) -> Byte]
  BY <1>f, <1>g
<1> HIDE DEF size
<1>1. TypeOK'
  BY <1>0, <1>g, <1>h, <1>i, <1>u
  DEF TypeOK, ProviderTypeOK, providerVars, handlerVars, dxeVars, faultVars
<1>2. Alternation'
  BY <1>0, <1>u
  DEF Alternation, TypeOK, ProviderTypeOK, providerVars, handlerVars, dxeVars, faultVars
<1>3. CommBufferInv'
  BY <1>0, <1>j, <1>u
  DEF CommBufferInv, Alternation, TypeOK, ProviderTypeOK, providerVars, handlerVars,
      dxeVars, faultVars
<1>4. RequestInv'
  BY <1>0, <1>u
  DEF RequestInv, CommBufferInv, Alternation, TypeOK, ProviderTypeOK, providerVars,
      handlerVars, dxeVars, faultVars
<1>5. ReassemblyInv'
  BY <1>0, <1>u
  DEF ReassemblyInv, CommBufferInv, TypeOK, ProviderTypeOK, providerVars, handlerVars,
      dxeVars, faultVars
<1>6. HeapInv'
  BY <1>0, <1>u
  DEF HeapInv, providerVars, handlerVars, dxeVars, faultVars
<1>7. CacheInv'
  BY <1>0, <1>h, <1>u
  DEF CacheInv, providerVars, handlerVars, dxeVars, faultVars
<1> QED  BY <1>1, <1>2, <1>3, <1>4, <1>5, <1>6, <1>7 DEF SafeInv

\* Leaving FetchImageFromMm before the size query allocates nothing.
LEMMA FetchRefusedSafe ==
  ASSUME SafeInv, FetchRefused
  PROVE  SafeInv'
<1> USE ByteAssumption, SizeAssumption, TransferAssumption DEF Headers
<1>0. TypeOK /\ Alternation /\ CommBufferInv /\ RequestInv /\ ReassemblyInv /\ HeapInv /\ CacheInv
  BY DEF SafeInv
<1>1. TypeOK'
  BY <1>0
  DEF FetchRefused, Exit, FetchErrors, Status, TypeOK, ProviderTypeOK, providerVars,
      handlerVars, dxeVars, faultVars
<1>2. Alternation'
  BY <1>0
  DEF FetchRefused, Exit, FetchErrors, Status, Alternation, TypeOK, ProviderTypeOK,
      providerVars, handlerVars, dxeVars, faultVars
<1>3. CommBufferInv'
  BY <1>0
  DEF FetchRefused, Exit, FetchErrors, Status, CommBufferInv, Alternation, TypeOK,
      ProviderTypeOK, providerVars, handlerVars, dxeVars, faultVars
<1>4. RequestInv'
  BY <1>0
  DEF FetchRefused, Exit, FetchErrors, Status, RequestInv, CommBufferInv, Alternation,
      TypeOK, ProviderTypeOK, providerVars, handlerVars, dxeVars, faultVars
<1>5. ReassemblyInv'
  BY <1>0
  DEF FetchRefused, Exit, FetchErrors, Status, ReassemblyInv, CommBufferInv, TypeOK,
      ProviderTypeOK, providerVars, handlerVars, dxeVars, faultVars
<1>6. HeapInv'
  BY <1>0
  DEF FetchRefused, Exit, FetchErrors, Status, HeapInv, providerVars, handlerVars, dxeVars,
      faultVars
<1>7. CacheInv'
  BY <1>0
  DEF FetchRefused, Exit, FetchErrors, Status, CacheInv, providerVars, handlerVars,
      dxeVars, faultVars
<1> QED  BY <1>1, <1>2, <1>3, <1>4, <1>5, <1>6, <1>7 DEF SafeInv

\* Starting FetchImageFromMm allocates CommBuffer with its recorded size.
LEMMA FetchBeginSafe ==
  ASSUME SafeInv, FetchBegin
  PROVE  SafeInv'
<1> USE ByteAssumption, SizeAssumption, TransferAssumption DEF Headers
<1>0. TypeOK /\ Alternation /\ CommBufferInv /\ RequestInv /\ ReassemblyInv /\ HeapInv /\ CacheInv
  BY DEF SafeInv
<1>u. /\ dxePc = "idle" /\ dxePc' = "send" /\ heap' = {"CommBuffer"}
      /\ commAlloc' = TargetSize /\ commBufferAllocSize' = TargetSize
      /\ UNCHANGED <<providerVars, mmPc, commBufferSize, local, region, thisRequest, commSize,
                 commStatus, phase, thisChunk, chunkCapacity, offset, expected, localImage,
                 imageData, fetchStatus, faultVars>>
  BY DEF FetchBegin
<1>b. TargetSize - Headers \in Nat
  OBVIOUS
<1>a. msg' \in Message /\ msg'.Data \in [1..(TargetSize - Headers) -> Byte]
  BY <1>b, EmptyMessageType DEF FetchBegin
<1>1. TypeOK'
  BY <1>0, <1>u, <1>a
  DEF TypeOK, ProviderTypeOK, providerVars, handlerVars, dxeVars, faultVars
<1>2. Alternation'
  BY <1>0, <1>u, <1>a
  DEF Alternation, TypeOK, ProviderTypeOK, providerVars, handlerVars, dxeVars, faultVars
<1>3. CommBufferInv'
  BY <1>0, <1>u, <1>a
  DEF CommBufferInv, Alternation, TypeOK, ProviderTypeOK, providerVars, handlerVars,
      dxeVars, faultVars
<1>4. RequestInv'
  BY <1>0, <1>u, <1>a
  DEF RequestInv, CommBufferInv, Alternation, TypeOK, ProviderTypeOK, HeapInv,
      ReassemblyInv, providerVars, handlerVars, dxeVars, faultVars
<1>5. ReassemblyInv'
  BY <1>0, <1>u, <1>a
  DEF ReassemblyInv, CommBufferInv, TypeOK, ProviderTypeOK, HeapInv, providerVars,
      handlerVars, dxeVars, faultVars
<1>6. HeapInv'
  BY <1>0, <1>u, <1>a
  DEF HeapInv, providerVars, handlerVars, dxeVars, faultVars
<1>7. CacheInv'
  BY <1>0, <1>u, <1>a
  DEF CacheInv, providerVars, handlerVars, dxeVars, faultVars
<1> QED  BY <1>1, <1>2, <1>3, <1>4, <1>5, <1>6, <1>7 DEF SafeInv

\* Writing a request keeps it inside CommBuffer; the reallocation never runs.
LEMMA SendSafe ==
  ASSUME SafeInv, SendImageProviderRequest
  PROVE  SafeInv'
<1> USE ByteAssumption, SizeAssumption, TransferAssumption DEF Headers
<1>0. TypeOK /\ Alternation /\ CommBufferInv /\ RequestInv /\ ReassemblyInv /\ HeapInv /\ CacheInv
  BY DEF SafeInv
<1>u. /\ dxePc = "send"
      /\ UNCHANGED <<providerVars, mmPc, commBufferSize, local, region, thisRequest, commStatus,
                 phase, thisChunk, chunkCapacity, offset, expected, localImage, imageData,
                 faultVars>>
  BY DEF SendImageProviderRequest
<1>a. ~MustGrow
  BY <1>0 DEF SendImageProviderRequest, MustGrow, RequestInv, TypeOK
<1>b. /\ commSize' = Headers + thisRequest
      /\ UNCHANGED <<commAlloc, commBufferAllocSize, heap, fetchStatus>>
      /\ msg' = Request(commAlloc - Headers)
      /\ dxePc' = "communicate"
  BY <1>a DEF SendImageProviderRequest
<1>c. msg' \in Message /\ msg'.Data \in [1..(commAlloc - Headers) -> Byte]
  <2> DEFINE n == commAlloc - Headers
             data == [i \in 1..n |-> IF i <= thisRequest \/ MustGrow THEN 0 ELSE msg.Data[i]]
  <2>1. n \in Nat /\ msg.Data \in [1..n -> Byte]
    BY <1>0 DEF CommBufferInv, SendImageProviderRequest, TypeOK
  <2>2. data \in [1..n -> Byte] /\ data \in Seq(Byte \cup {Foreign})
    BY <2>1, FunIsSeq
  <2>3. offset \in Nat /\ thisRequest \in Nat
    BY <1>0 DEF TypeOK
  <2>4. Request(n) = [EmptyMessage(n) EXCEPT !.Recognised = TRUE, !.Offset = offset,
                         !.RequestedSize = thisRequest, !.Data = data]
    BY DEF Request
  <2> HIDE DEF n, data
  <2>6. EmptyMessage(n) \in Message
    BY <2>1, EmptyMessageType
  <2>5. Request(n) \in Message /\ Request(n).Data = data
    BY <2>2, <2>3, <2>4, <2>6 DEF Message
  <2> QED  BY <1>b, <2>2, <2>5 DEF n
<1>1. TypeOK'
  BY <1>0, <1>u, <1>b, <1>c
  DEF TypeOK, ProviderTypeOK, providerVars, handlerVars, dxeVars, faultVars
<1>2. Alternation'
  BY <1>0, <1>u, <1>b, <1>c
  DEF Alternation, TypeOK, ProviderTypeOK, providerVars, handlerVars, dxeVars, faultVars
<1>3. CommBufferInv'
  BY <1>0, <1>u, <1>b, <1>c
  DEF CommBufferInv, Alternation, TypeOK, ProviderTypeOK, providerVars, handlerVars,
      dxeVars, faultVars
<1>4. RequestInv'
  BY <1>0, <1>u, <1>b, <1>c
  DEF RequestInv, CommBufferInv, Alternation, TypeOK, ProviderTypeOK, providerVars,
      handlerVars, dxeVars, faultVars
<1>5. ReassemblyInv'
  BY <1>0, <1>u, <1>b, <1>c
  DEF ReassemblyInv, CommBufferInv, TypeOK, ProviderTypeOK, providerVars, handlerVars,
      dxeVars, faultVars
<1>6. HeapInv'
  BY <1>0, <1>u, <1>b, <1>c
  DEF HeapInv, providerVars, handlerVars, dxeVars, faultVars
<1>7. CacheInv'
  BY <1>0, <1>u, <1>b, <1>c
  DEF CacheInv, providerVars, handlerVars, dxeVars, faultVars
<1> QED  BY <1>1, <1>2, <1>3, <1>4, <1>5, <1>6, <1>7 DEF SafeInv

\* A refusal by the transport touches only the reported size.
LEMMA TransportRejectsSizeSafe ==
  ASSUME SafeInv, TransportRejectsSize
  PROVE  SafeInv'
<1> USE ByteAssumption, SizeAssumption, TransferAssumption DEF Headers
<1>0. TypeOK /\ Alternation /\ CommBufferInv /\ RequestInv /\ ReassemblyInv /\ HeapInv /\ CacheInv
  BY DEF SafeInv
<1>1. TypeOK'
  BY <1>0
  DEF TransportRejectsSize, CommunicateFails, TypeOK, ProviderTypeOK, providerVars,
      handlerVars, dxeVars, faultVars
<1>2. Alternation'
  BY <1>0
  DEF TransportRejectsSize, CommunicateFails, Alternation, TypeOK, ProviderTypeOK,
      providerVars, handlerVars, dxeVars, faultVars
<1>3. CommBufferInv'
  BY <1>0
  DEF TransportRejectsSize, CommunicateFails, CommBufferInv, Alternation, TypeOK,
      ProviderTypeOK, providerVars, handlerVars, dxeVars, faultVars
<1>4. RequestInv'
  BY <1>0
  DEF TransportRejectsSize, CommunicateFails, RequestInv, CommBufferInv, Alternation,
      TypeOK, ProviderTypeOK, providerVars, handlerVars, dxeVars, faultVars
<1>5. ReassemblyInv'
  BY <1>0
  DEF TransportRejectsSize, CommunicateFails, ReassemblyInv, CommBufferInv, TypeOK,
      ProviderTypeOK, providerVars, handlerVars, dxeVars, faultVars
<1>6. HeapInv'
  BY <1>0
  DEF TransportRejectsSize, CommunicateFails, HeapInv, providerVars, handlerVars, dxeVars,
      faultVars
<1>7. CacheInv'
  BY <1>0
  DEF TransportRejectsSize, CommunicateFails, CacheInv, providerVars, handlerVars, dxeVars,
      faultVars
<1> QED  BY <1>1, <1>2, <1>3, <1>4, <1>5, <1>6, <1>7 DEF SafeInv

\* A failure of the transport touches nothing of the buffers.
LEMMA TransportFailsSafe ==
  ASSUME SafeInv, TransportFails
  PROVE  SafeInv'
<1> USE ByteAssumption, SizeAssumption, TransferAssumption DEF Headers
<1>0. TypeOK /\ Alternation /\ CommBufferInv /\ RequestInv /\ ReassemblyInv /\ HeapInv /\ CacheInv
  BY DEF SafeInv
<1>1. TypeOK'
  BY <1>0
  DEF TransportFails, CommunicateFails, TypeOK, ProviderTypeOK, providerVars, handlerVars,
      dxeVars, faultVars
<1>2. Alternation'
  BY <1>0
  DEF TransportFails, CommunicateFails, Alternation, TypeOK, ProviderTypeOK, providerVars,
      handlerVars, dxeVars, faultVars
<1>3. CommBufferInv'
  BY <1>0
  DEF TransportFails, CommunicateFails, CommBufferInv, Alternation, TypeOK, ProviderTypeOK,
      providerVars, handlerVars, dxeVars, faultVars
<1>4. RequestInv'
  BY <1>0
  DEF TransportFails, CommunicateFails, RequestInv, CommBufferInv, Alternation, TypeOK,
      ProviderTypeOK, providerVars, handlerVars, dxeVars, faultVars
<1>5. ReassemblyInv'
  BY <1>0
  DEF TransportFails, CommunicateFails, ReassemblyInv, CommBufferInv, TypeOK,
      ProviderTypeOK, providerVars, handlerVars, dxeVars, faultVars
<1>6. HeapInv'
  BY <1>0
  DEF TransportFails, CommunicateFails, HeapInv, providerVars, handlerVars, dxeVars,
      faultVars
<1>7. CacheInv'
  BY <1>0
  DEF TransportFails, CommunicateFails, CacheInv, providerVars, handlerVars, dxeVars,
      faultVars
<1> QED  BY <1>1, <1>2, <1>3, <1>4, <1>5, <1>6, <1>7 DEF SafeInv

\* A missing handler touches nothing of the buffers.
LEMMA NoHandlerSafe ==
  ASSUME SafeInv, NoHandler
  PROVE  SafeInv'
<1> USE ByteAssumption, SizeAssumption, TransferAssumption DEF Headers
<1>0. TypeOK /\ Alternation /\ CommBufferInv /\ RequestInv /\ ReassemblyInv /\ HeapInv /\ CacheInv
  BY DEF SafeInv
<1>1. TypeOK'
  BY <1>0
  DEF NoHandler, CommunicateFails, TypeOK, ProviderTypeOK, providerVars, handlerVars,
      dxeVars, faultVars
<1>2. Alternation'
  BY <1>0
  DEF NoHandler, CommunicateFails, Alternation, TypeOK, ProviderTypeOK, providerVars,
      handlerVars, dxeVars, faultVars
<1>3. CommBufferInv'
  BY <1>0
  DEF NoHandler, CommunicateFails, CommBufferInv, Alternation, TypeOK, ProviderTypeOK,
      providerVars, handlerVars, dxeVars, faultVars
<1>4. RequestInv'
  BY <1>0
  DEF NoHandler, CommunicateFails, RequestInv, CommBufferInv, Alternation, TypeOK,
      ProviderTypeOK, providerVars, handlerVars, dxeVars, faultVars
<1>5. ReassemblyInv'
  BY <1>0
  DEF NoHandler, CommunicateFails, ReassemblyInv, CommBufferInv, TypeOK, ProviderTypeOK,
      providerVars, handlerVars, dxeVars, faultVars
<1>6. HeapInv'
  BY <1>0
  DEF NoHandler, CommunicateFails, HeapInv, providerVars, handlerVars, dxeVars, faultVars
<1>7. CacheInv'
  BY <1>0
  DEF NoHandler, CommunicateFails, CacheInv, providerVars, handlerVars, dxeVars, faultVars
<1> QED  BY <1>1, <1>2, <1>3, <1>4, <1>5, <1>6, <1>7 DEF SafeInv

\* Dispatching hands the handler exactly the bytes transmitted.
LEMMA TransportDispatchesSafe ==
  ASSUME SafeInv, TransportDispatches
  PROVE  SafeInv'
<1> USE ByteAssumption, SizeAssumption, TransferAssumption DEF Headers
<1>0. TypeOK /\ Alternation /\ CommBufferInv /\ RequestInv /\ ReassemblyInv /\ HeapInv /\ CacheInv
  BY DEF SafeInv
<1>u. /\ dxePc = "communicate" /\ dxePc' = "inMm" /\ mmPc' = "dispatched"
      /\ commBufferSize' = commSize - CommHeaderOverhead
      /\ UNCHANGED <<providerVars, msg, region, heap, commAlloc, commBufferAllocSize,
                 thisRequest, commSize, commStatus, phase, thisChunk, chunkCapacity, offset,
                 expected, localImage, imageData, fetchStatus, faultVars>>
  BY DEF TransportDispatches
<1>a. local' \in Locals
  BY DEF TransportDispatches, NoLocals, Locals
<1>1. TypeOK'
  BY <1>0, <1>u, <1>a
  DEF TypeOK, ProviderTypeOK, RequestInv, providerVars, handlerVars, dxeVars, faultVars
<1>2. Alternation'
  BY <1>0, <1>u, <1>a
  DEF Alternation, TypeOK, ProviderTypeOK, providerVars, handlerVars, dxeVars, faultVars
<1>3. CommBufferInv'
  BY <1>0, <1>u, <1>a
  DEF CommBufferInv, Alternation, TypeOK, ProviderTypeOK, providerVars, handlerVars,
      dxeVars, faultVars
<1>4. RequestInv'
  BY <1>0, <1>u, <1>a
  DEF RequestInv, CommBufferInv, Alternation, TypeOK, ProviderTypeOK, providerVars,
      handlerVars, dxeVars, faultVars
<1>5. ReassemblyInv'
  BY <1>0, <1>u, <1>a
  DEF ReassemblyInv, CommBufferInv, TypeOK, ProviderTypeOK, providerVars, handlerVars,
      dxeVars, faultVars
<1>6. HeapInv'
  BY <1>0, <1>u, <1>a
  DEF HeapInv, providerVars, handlerVars, dxeVars, faultVars
<1>7. CacheInv'
  BY <1>0, <1>u, <1>a
  DEF CacheInv, providerVars, handlerVars, dxeVars, faultVars
<1> QED  BY <1>1, <1>2, <1>3, <1>4, <1>5, <1>6, <1>7 DEF SafeInv

\* Returning from the handler leaves the buffers to DXE.
LEMMA TransportReturnsSafe ==
  ASSUME SafeInv, TransportReturns
  PROVE  SafeInv'
<1> USE ByteAssumption, SizeAssumption, TransferAssumption DEF Headers
<1>0. TypeOK /\ Alternation /\ CommBufferInv /\ RequestInv /\ ReassemblyInv /\ HeapInv /\ CacheInv
  BY DEF SafeInv
<1>1. TypeOK'
  BY <1>0
  DEF TransportReturns, TypeOK, ProviderTypeOK, providerVars, handlerVars, dxeVars,
      faultVars
<1>2. Alternation'
  BY <1>0
  DEF TransportReturns, Alternation, TypeOK, ProviderTypeOK, providerVars, handlerVars,
      dxeVars, faultVars
<1>3. CommBufferInv'
  BY <1>0
  DEF TransportReturns, CommBufferInv, Alternation, TypeOK, ProviderTypeOK, providerVars,
      handlerVars, dxeVars, faultVars
<1>4. RequestInv'
  BY <1>0
  DEF TransportReturns, RequestInv, CommBufferInv, Alternation, TypeOK, ProviderTypeOK,
      providerVars, handlerVars, dxeVars, faultVars
<1>5. ReassemblyInv'
  BY <1>0
  DEF TransportReturns, ReassemblyInv, CommBufferInv, TypeOK, ProviderTypeOK, Alternation,
      providerVars, handlerVars, dxeVars, faultVars
<1>6. HeapInv'
  BY <1>0
  DEF TransportReturns, HeapInv, Alternation, providerVars, handlerVars, dxeVars, faultVars
<1>7. CacheInv'
  BY <1>0
  DEF TransportReturns, CacheInv, providerVars, handlerVars, dxeVars, faultVars
<1> QED  BY <1>1, <1>2, <1>3, <1>4, <1>5, <1>6, <1>7 DEF SafeInv

\* Adopting the reported region keeps the recorded size within the allocation,
\* since the refused request was within it and the region is smaller still.
LEMMA AdoptRegionSafe ==
  ASSUME SafeInv, AdoptRegion
  PROVE  SafeInv'
<1> USE ByteAssumption, SizeAssumption, TransferAssumption DEF Headers
<1>0. TypeOK /\ Alternation /\ CommBufferInv /\ RequestInv /\ ReassemblyInv /\ HeapInv /\ CacheInv
  BY DEF SafeInv
<1>a. /\ commSize \in Nat /\ Headers \in Nat /\ commBufferAllocSize \in Nat /\ thisRequest \in Nat
      /\ commBufferAllocSize' \in {commBufferAllocSize, commSize}
      /\ thisRequest' \in Nat
      /\ dxePc' # "done" => commSize > Headers /\ commSize < Headers + thisRequest
  BY <1>0 DEF AdoptRegion, RegionCarriesPayload, ClampReducesRequest, Exit, TypeOK
<1>b. /\ dxePc = "reply" /\ dxePc' \in {"send", "done"}
      /\ heap' \subseteq heap
      /\ fetchStatus' \in {fetchStatus, "BAD_BUFFER_SIZE"}
      /\ UNCHANGED <<providerVars, handlerVars, region, commAlloc, commSize, commStatus, phase,
                    thisChunk, chunkCapacity, offset, expected, localImage, imageData, faultVars>>
  BY DEF AdoptRegion, RegionCarriesPayload, ClampReducesRequest, Exit
<1>c. dxePc' = "send" => /\ thisRequest' = commSize - Headers
                        /\ commBufferAllocSize' = commSize
                        /\ commSize > Headers /\ commSize < Headers + thisRequest
  BY <1>a DEF AdoptRegion, RegionCarriesPayload, ClampReducesRequest, Exit
<1>1. TypeOK'
  BY <1>0, <1>a, <1>b
  DEF FetchErrors, TypeOK, ProviderTypeOK, providerVars, handlerVars, faultVars
<1>2. Alternation'
  BY <1>0, <1>a
  DEF AdoptRegion, RegionCarriesPayload, ClampReducesRequest, Exit, Reassembly, FetchErrors,
      Status, Alternation, TypeOK,
      ProviderTypeOK, providerVars, handlerVars, dxeVars, faultVars
<1>3. CommBufferInv'
  BY <1>0, <1>a
  DEF AdoptRegion, RegionCarriesPayload, ClampReducesRequest, Exit, Reassembly, FetchErrors,
      Status, CommBufferInv, Alternation,
      TypeOK, ProviderTypeOK, RequestInv, providerVars, handlerVars, dxeVars, faultVars
<1>4. RequestInv'
  <2>1. mmPc' = "idle"
    BY <1>0, <1>b DEF Alternation, handlerVars
  <2>2. dxePc' = "send" => thisRequest' <= commAlloc' - Headers
    BY <1>0, <1>a, <1>b, <1>c DEF RequestInv, TypeOK
  <2>3. dxePc' = "send" => thisRequest' <= commBufferAllocSize' - Headers
    BY <1>a, <1>c
  <2>4. dxePc' \in {"send", "done"}
    BY <1>b
  <2> HIDE DEF Headers
  <2> QED  BY <2>1, <2>2, <2>3, <2>4 DEF RequestInv
<1>5. ReassemblyInv'
  BY <1>0, <1>a
  DEF AdoptRegion, RegionCarriesPayload, ClampReducesRequest, Exit, Reassembly, FetchErrors,
      Status, ReassemblyInv, CommBufferInv,
      TypeOK, ProviderTypeOK, providerVars, handlerVars, dxeVars, faultVars
<1>6. HeapInv'
  BY <1>0, <1>a
  DEF AdoptRegion, RegionCarriesPayload, ClampReducesRequest, Exit, Reassembly, FetchErrors,
      Status, HeapInv, providerVars,
      handlerVars, dxeVars, faultVars
<1>7. CacheInv'
  BY <1>0, <1>a
  DEF AdoptRegion, RegionCarriesPayload, ClampReducesRequest, Exit, Reassembly, FetchErrors,
      Status, CacheInv, providerVars,
      handlerVars, dxeVars, faultVars
<1> QED  BY <1>1, <1>2, <1>3, <1>4, <1>5, <1>6, <1>7 DEF SafeInv

\* Giving up on a request frees every buffer.
LEMMA RequestFailsSafe ==
  ASSUME SafeInv, RequestFails
  PROVE  SafeInv'
<1> USE ByteAssumption, SizeAssumption, TransferAssumption DEF Headers
<1>0. TypeOK /\ Alternation /\ CommBufferInv /\ RequestInv /\ ReassemblyInv /\ HeapInv /\ CacheInv
  BY DEF SafeInv
<1>1. TypeOK'
  BY <1>0
  DEF RequestFails, Exit, Reassembly, FetchErrors, Status, TypeOK, ProviderTypeOK,
      providerVars, handlerVars, dxeVars, faultVars
<1>2. Alternation'
  BY <1>0
  DEF RequestFails, Exit, Reassembly, FetchErrors, Status, Alternation, TypeOK,
      ProviderTypeOK, providerVars, handlerVars, dxeVars, faultVars
<1>3. CommBufferInv'
  BY <1>0
  DEF RequestFails, Exit, Reassembly, FetchErrors, Status, CommBufferInv, Alternation,
      TypeOK, ProviderTypeOK, providerVars, handlerVars, dxeVars, faultVars
<1>4. RequestInv'
  BY <1>0
  DEF RequestFails, Exit, Reassembly, FetchErrors, Status, RequestInv, CommBufferInv,
      Alternation, TypeOK, ProviderTypeOK, providerVars, handlerVars, dxeVars, faultVars
<1>5. ReassemblyInv'
  BY <1>0
  DEF RequestFails, Exit, Reassembly, FetchErrors, Status, ReassemblyInv, CommBufferInv,
      TypeOK, ProviderTypeOK, providerVars, handlerVars, dxeVars, faultVars
<1>6. HeapInv'
  BY <1>0
  DEF RequestFails, Exit, Reassembly, FetchErrors, Status, HeapInv, providerVars,
      handlerVars, dxeVars, faultVars
<1>7. CacheInv'
  BY <1>0
  DEF RequestFails, Exit, Reassembly, FetchErrors, Status, CacheInv, providerVars,
      handlerVars, dxeVars, faultVars
<1> QED  BY <1>1, <1>2, <1>3, <1>4, <1>5, <1>6, <1>7 DEF SafeInv

\* A refused size query frees CommBuffer.
LEMMA SizeQueryRefusedSafe ==
  ASSUME SafeInv, SizeQueryRefused
  PROVE  SafeInv'
<1> USE ByteAssumption, SizeAssumption, TransferAssumption DEF Headers
<1>0. TypeOK /\ Alternation /\ CommBufferInv /\ RequestInv /\ ReassemblyInv /\ HeapInv /\ CacheInv
  BY DEF SafeInv
<1>a. SizeQueryStatus \in FetchErrors
  BY <1>0 DEF SizeQueryRefused, SizeQueryStatus, FetchErrors, Status, TypeOK, ProviderTypeOK, Message
<1>b. "SUCCESS" \notin FetchErrors
  BY DEF FetchErrors, Status
<1>1. TypeOK'
  BY <1>0, <1>a, <1>b
  DEF SizeQueryRefused, GotResponse, Exit, TypeOK, ProviderTypeOK, providerVars,
      handlerVars, dxeVars, faultVars
<1>2. Alternation'
  BY <1>0, <1>a, <1>b
  DEF SizeQueryRefused, GotResponse, Exit, Alternation, TypeOK, ProviderTypeOK,
      providerVars, handlerVars, dxeVars, faultVars
<1>3. CommBufferInv'
  BY <1>0, <1>a, <1>b
  DEF SizeQueryRefused, GotResponse, Exit, CommBufferInv, Alternation, TypeOK,
      ProviderTypeOK, providerVars, handlerVars, dxeVars, faultVars
<1>4. RequestInv'
  BY <1>0, <1>a, <1>b
  DEF SizeQueryRefused, GotResponse, Exit, RequestInv, CommBufferInv, Alternation, TypeOK,
      ProviderTypeOK, providerVars, handlerVars, dxeVars, faultVars
<1>5. ReassemblyInv'
  BY <1>0, <1>a, <1>b
  DEF SizeQueryRefused, GotResponse, Exit, ReassemblyInv, CommBufferInv, TypeOK,
      ProviderTypeOK, providerVars, handlerVars, dxeVars, faultVars
<1>6. HeapInv'
  BY <1>0, <1>a, <1>b
  DEF SizeQueryRefused, GotResponse, Exit, HeapInv, providerVars, handlerVars, dxeVars,
      faultVars
<1>7. CacheInv'
  BY <1>0, <1>a, <1>b
  DEF SizeQueryRefused, GotResponse, Exit, CacheInv, providerVars, handlerVars, dxeVars,
      faultVars
<1> QED  BY <1>1, <1>2, <1>3, <1>4, <1>5, <1>6, <1>7 DEF SafeInv

\* An accepted size query allocates LocalImage with the announced size.
LEMMA SizeQueryAcceptedSafe ==
  ASSUME SafeInv, SizeQueryAccepted
  PROVE  SafeInv'
<1> USE ByteAssumption, SizeAssumption, TransferAssumption DEF Headers
<1>0. TypeOK /\ Alternation /\ CommBufferInv /\ RequestInv /\ ReassemblyInv /\ HeapInv /\ CacheInv
  BY DEF SafeInv
<1> DEFINE fresh == [i \in 1..msg.TotalImageSize |-> Unwritten]
<1>a. /\ expected' \in [Total : Nat, Crc : Nat, Format : {PE32, GUIDED_FV}]
      /\ expected'.Total = msg.TotalImageSize
      /\ msg.TotalImageSize \in Nat
  BY <1>0 DEF SizeQueryAccepted, TypeOK, ProviderTypeOK, Message
<1>b. /\ fresh \in [1..msg.TotalImageSize -> Byte \cup {Foreign}]
      /\ fresh \in Seq(Byte \cup {Foreign}) /\ Len(fresh) = msg.TotalImageSize
  BY <1>a, FunIsSeq DEF Unwritten
<1>c. localImage' \in {localImage, fresh}
  BY DEF SizeQueryAccepted
<1> HIDE DEF fresh
<1>d. chunkCapacity' \in Nat
  <2>1. chunkCapacity' \in {chunkCapacity, commBufferAllocSize - Headers}
    BY DEF SizeQueryAccepted
  <2>2. dxePc = "reply"
    BY DEF SizeQueryAccepted, GotResponse
  <2> QED  BY <1>0, <2>1, <2>2 DEF TypeOK, CommBufferInv
<1>e. /\ phase' \in {phase, "chunk"}
      /\ heap' \subseteq heap \cup {"LocalImage"}
      /\ fetchStatus' \in {fetchStatus, "BAD_BUFFER_SIZE", "OUT_OF_RESOURCES"}
      /\ dxePc' \in {"loop", "done"}
      /\ UNCHANGED <<providerVars, handlerVars, region, commAlloc, commBufferAllocSize,
                    thisRequest, commSize, commStatus, thisChunk, offset, imageData, faultVars>>
  BY DEF SizeQueryAccepted, Exit
<1>1. TypeOK'
  BY <1>0, <1>a, <1>b, <1>c, <1>d, <1>e
  DEF FetchErrors, TypeOK, ProviderTypeOK, providerVars, handlerVars, faultVars
<1>2. Alternation'
  BY <1>0, <1>a, <1>b, <1>c
  DEF SizeQueryAccepted, GotResponse, Exit, FetchErrors, Status, Alternation, TypeOK,
      ProviderTypeOK, providerVars, handlerVars, dxeVars, faultVars
<1>3. CommBufferInv'
  BY <1>0, <1>a, <1>b, <1>c
  DEF SizeQueryAccepted, GotResponse, Exit, FetchErrors, Status, CommBufferInv,
      Alternation, TypeOK, ProviderTypeOK, providerVars, handlerVars, dxeVars, faultVars
<1>4. RequestInv'
  BY <1>0, <1>a, <1>b, <1>c
  DEF SizeQueryAccepted, GotResponse, Exit, FetchErrors, Status, RequestInv, CommBufferInv,
      Alternation, TypeOK, ProviderTypeOK, providerVars, handlerVars, dxeVars, faultVars
<1>5. ReassemblyInv'
  BY <1>0, <1>a, <1>b, <1>c
  DEF SizeQueryAccepted, GotResponse, Exit, FetchErrors, Status, ReassemblyInv,
      CommBufferInv, TypeOK, ProviderTypeOK, providerVars, handlerVars, dxeVars, faultVars
<1>6. HeapInv'
  BY <1>0, <1>a, <1>b, <1>c
  DEF SizeQueryAccepted, GotResponse, Exit, FetchErrors, Status, HeapInv, providerVars,
      handlerVars, dxeVars, faultVars
<1>7. CacheInv'
  BY <1>0, <1>a, <1>b, <1>c
  DEF SizeQueryAccepted, GotResponse, Exit, FetchErrors, Status, CacheInv, providerVars,
      handlerVars, dxeVars, faultVars
<1> QED  BY <1>1, <1>2, <1>3, <1>4, <1>5, <1>6, <1>7 DEF SafeInv

\* A chunk request fits the recorded size of CommBuffer.
LEMMA RequestChunkSafe ==
  ASSUME SafeInv, RequestChunk
  PROVE  SafeInv'
<1> USE ByteAssumption, SizeAssumption, TransferAssumption DEF Headers
<1>0. TypeOK /\ Alternation /\ CommBufferInv /\ RequestInv /\ ReassemblyInv /\ HeapInv /\ CacheInv
  BY DEF SafeInv
<1>a. expected.Total \in Nat /\ phase = "chunk"
  BY <1>0 DEF TypeOK, RequestChunk, ReassemblyInv
<1>b. /\ thisChunk' \in Nat /\ thisRequest' = thisChunk'
      /\ thisChunk' <= commBufferAllocSize - Headers
      /\ thisChunk' <= commAlloc - Headers
  BY <1>0, <1>a DEF RequestChunk, LowerOf, TypeOK, ReassemblyInv, CommBufferInv
<1>1. TypeOK'
  BY <1>0, <1>a, <1>b
  DEF RequestChunk, TypeOK, ProviderTypeOK, providerVars, handlerVars, dxeVars, faultVars
<1>2. Alternation'
  BY <1>0, <1>a, <1>b
  DEF RequestChunk, Alternation, TypeOK, ProviderTypeOK, providerVars, handlerVars,
      dxeVars, faultVars
<1>3. CommBufferInv'
  BY <1>0, <1>a, <1>b
  DEF RequestChunk, CommBufferInv, Alternation, TypeOK, ProviderTypeOK, providerVars,
      handlerVars, dxeVars, faultVars
<1>4. RequestInv'
  BY <1>0, <1>a, <1>b
  DEF RequestChunk, RequestInv, CommBufferInv, Alternation, TypeOK, ProviderTypeOK,
      providerVars, handlerVars, dxeVars, faultVars
<1>5. ReassemblyInv'
  BY <1>0, <1>a, <1>b
  DEF RequestChunk, ReassemblyInv, CommBufferInv, TypeOK, ProviderTypeOK, providerVars,
      handlerVars, dxeVars, faultVars
<1>6. HeapInv'
  BY <1>0, <1>a, <1>b
  DEF RequestChunk, HeapInv, providerVars, handlerVars, dxeVars, faultVars
<1>7. CacheInv'
  BY <1>0, <1>a, <1>b
  DEF RequestChunk, CacheInv, providerVars, handlerVars, dxeVars, faultVars
<1> QED  BY <1>1, <1>2, <1>3, <1>4, <1>5, <1>6, <1>7 DEF SafeInv

\* A refused chunk frees both buffers.
LEMMA ChunkRefusedSafe ==
  ASSUME SafeInv, ChunkRefused
  PROVE  SafeInv'
<1> USE ByteAssumption, SizeAssumption, TransferAssumption DEF Headers
<1>0. TypeOK /\ Alternation /\ CommBufferInv /\ RequestInv /\ ReassemblyInv /\ HeapInv /\ CacheInv
  BY DEF SafeInv
<1>a. ChunkStatus \in FetchErrors
  BY <1>0 DEF ChunkRefused, RefreshedCapacity, ChunkStatus, FetchErrors, Status, TypeOK,
              ProviderTypeOK, Message
<1>b. "SUCCESS" \notin FetchErrors
  BY DEF FetchErrors, Status
<1>1. TypeOK'
  BY <1>0, <1>a, <1>b
  DEF ChunkRefused, RefreshedCapacity, GotResponse, Exit, TypeOK, ProviderTypeOK, CommBufferInv,
      providerVars,
      handlerVars, dxeVars, faultVars
<1>2. Alternation'
  BY <1>0, <1>a, <1>b
  DEF ChunkRefused, RefreshedCapacity, GotResponse, Exit, Alternation, TypeOK, ProviderTypeOK,
      providerVars,
      handlerVars, dxeVars, faultVars
<1>3. CommBufferInv'
  BY <1>0, <1>a, <1>b
  DEF ChunkRefused, RefreshedCapacity, GotResponse, Exit, CommBufferInv, Alternation, TypeOK,
      ProviderTypeOK,
      providerVars, handlerVars, dxeVars, faultVars
<1>4. RequestInv'
  BY <1>0, <1>a, <1>b
  DEF ChunkRefused, RefreshedCapacity, GotResponse, Exit, RequestInv, CommBufferInv, Alternation,
      TypeOK,
      ProviderTypeOK, providerVars, handlerVars, dxeVars, faultVars
<1>5. ReassemblyInv'
  BY <1>0, <1>a, <1>b
  DEF ChunkRefused, RefreshedCapacity, GotResponse, Exit, ReassemblyInv, CommBufferInv, TypeOK,
      ProviderTypeOK, providerVars, handlerVars, dxeVars, faultVars
<1>6. HeapInv'
  BY <1>0, <1>a, <1>b
  DEF ChunkRefused, RefreshedCapacity, GotResponse, Exit, HeapInv, providerVars, handlerVars, dxeVars,
      faultVars
<1>7. CacheInv'
  BY <1>0, <1>a, <1>b
  DEF ChunkRefused, RefreshedCapacity, GotResponse, Exit, CacheInv, providerVars, handlerVars, dxeVars,
      faultVars
<1> QED  BY <1>1, <1>2, <1>3, <1>4, <1>5, <1>6, <1>7 DEF SafeInv

\* An accepted chunk is copied inside LocalImage, from bytes inside CommBuffer.
LEMMA ChunkAcceptedSafe ==
  ASSUME SafeInv, ChunkAccepted
  PROVE  SafeInv'
<1> USE ByteAssumption, SizeAssumption, TransferAssumption DEF Headers
<1>0. TypeOK /\ Alternation /\ CommBufferInv /\ RequestInv /\ ReassemblyInv /\ HeapInv /\ CacheInv
  BY DEF SafeInv
<1> DEFINE end == offset + msg.ReturnedSize
           n   == commAlloc - Headers
<1>a. /\ msg.ReturnedSize \in 1..n
      /\ end \in offset..expected.Total
      /\ msg.Data \in [1..n -> Byte]
      /\ n \in Nat /\ offset \in Nat /\ expected.Total \in Nat
  BY <1>0 DEF ChunkAccepted, RefreshedCapacity, ChunkStatus, GotResponse, TypeOK, ProviderTypeOK,
              Message,
              ReassemblyInv, CommBufferInv
<1>b. localImage \in [1..expected.Total -> Byte \cup {Foreign}] /\ Len(localImage) = expected.Total
  BY <1>0 DEF ChunkAccepted, RefreshedCapacity, GotResponse, ReassemblyInv
<1>c. localImage' = [i \in 1..expected.Total |-> IF i \in (offset + 1)..end
                                                 THEN ByteAt(msg.Data, i - offset)
                                                 ELSE localImage[i]]
      /\ offset' = end
  BY <1>a, <1>b DEF ChunkAccepted
<1>d. \A i \in (offset + 1)..end : ByteAt(msg.Data, i - offset) \in Byte
  BY <1>a DEF ByteAt
<1>e. /\ localImage' \in [1..expected.Total -> Byte \cup {Foreign}]
      /\ \A i \in 1..end : localImage'[i] \in Byte
  BY <1>0, <1>a, <1>b, <1>c, <1>d DEF ReassemblyInv
<1>f. localImage' \in Seq(Byte \cup {Foreign}) /\ Len(localImage') = expected.Total
  BY <1>a, <1>e, FunIsSeq
<1>g. offset' \in Nat /\ offset' <= expected.Total
  BY <1>a, <1>c
<1>h. \A i \in 1..offset' : localImage'[i] \in Byte
  BY <1>c, <1>e
<1>i. /\ dxePc' = "loop" /\ chunkCapacity' = commBufferAllocSize - Headers
      /\ commBufferAllocSize > Headers /\ commBufferAllocSize <= commAlloc
      /\ dxePc = "reply" /\ phase = "chunk"
  BY <1>0 DEF ChunkAccepted, RefreshedCapacity, GotResponse, CommBufferInv
<1>k. UNCHANGED <<providerVars, handlerVars, region, heap, commAlloc, commBufferAllocSize,
                  thisRequest, commSize, commStatus, phase, thisChunk, expected, imageData,
                  fetchStatus, faultVars>>
  BY DEF ChunkAccepted
<1> HIDE DEF end, n
<1>1. TypeOK'
  BY <1>0, <1>e, <1>f, <1>g, <1>h, <1>i, <1>k
  DEF TypeOK, ProviderTypeOK, providerVars, handlerVars, dxeVars, faultVars
<1>2. Alternation'
  BY <1>0, <1>e, <1>f, <1>g, <1>h, <1>i, <1>k
  DEF Alternation, TypeOK, ProviderTypeOK, providerVars, handlerVars, dxeVars, faultVars
<1>3. CommBufferInv'
  BY <1>0, <1>e, <1>f, <1>g, <1>h, <1>i, <1>k
  DEF CommBufferInv, Alternation, TypeOK, ProviderTypeOK, providerVars, handlerVars,
      dxeVars, faultVars
<1>4. RequestInv'
  BY <1>0, <1>e, <1>f, <1>g, <1>h, <1>i, <1>k
  DEF RequestInv, CommBufferInv, Alternation, TypeOK, ProviderTypeOK, providerVars,
      handlerVars, dxeVars, faultVars
<1>5. ReassemblyInv'
  BY <1>0, <1>e, <1>f, <1>g, <1>h, <1>i, <1>k
  DEF ReassemblyInv, CommBufferInv, TypeOK, ProviderTypeOK, providerVars, handlerVars,
      dxeVars, faultVars
<1>6. HeapInv'
  BY <1>0, <1>e, <1>f, <1>g, <1>h, <1>i, <1>k
  DEF HeapInv, providerVars, handlerVars, dxeVars, faultVars
<1>7. CacheInv'
  BY <1>0, <1>e, <1>f, <1>g, <1>h, <1>i, <1>k
  DEF CacheInv, providerVars, handlerVars, dxeVars, faultVars
<1> QED  BY <1>1, <1>2, <1>3, <1>4, <1>5, <1>6, <1>7 DEF SafeInv

\* The CRC comparison hands LocalImage over or frees it.
LEMMA CheckCrcSafe ==
  ASSUME SafeInv, CheckCrc
  PROVE  SafeInv'
<1> USE ByteAssumption, SizeAssumption, TransferAssumption DEF Headers
<1>0. TypeOK /\ Alternation /\ CommBufferInv /\ RequestInv /\ ReassemblyInv /\ HeapInv /\ CacheInv
  BY DEF SafeInv
<1>a. /\ expected \in [Total : Nat, Crc : Nat, Format : {PE32, GUIDED_FV}]
      /\ localImage \in Seq(Byte \cup {Foreign})
  BY <1>0 DEF TypeOK
<1>b. {[data |-> localImage, format |-> expected.Format]}
         \subseteq [data : Seq(Byte \cup {Foreign}), format : {PE32, GUIDED_FV}]
  BY <1>a
<1>c. /\ imageData' \subseteq [data : Seq(Byte \cup {Foreign}), format : {PE32, GUIDED_FV}]
      /\ fetchStatus' \in {"SUCCESS", "CRC_ERROR"} /\ dxePc' = "done"
      /\ heap' = IF fetchStatus' = "SUCCESS" THEN heap \ {"CommBuffer"} ELSE heap \ {"CommBuffer", "LocalImage"}
  BY <1>0, <1>b DEF CheckCrc, CrcMatches, Exit, TypeOK
<1>d. dxePc = "loop" /\ UNCHANGED <<providerVars, handlerVars, region, commAlloc, commBufferAllocSize,
                 thisRequest, commSize, commStatus, phase, thisChunk, chunkCapacity, offset,
                 expected, localImage, faultVars>>
  BY DEF CheckCrc
<1>1. TypeOK'
  BY <1>0, <1>c, <1>d
  DEF FetchErrors, TypeOK, ProviderTypeOK, providerVars, handlerVars, dxeVars, faultVars
<1>2. Alternation'
  BY <1>0, <1>c, <1>d
  DEF FetchErrors, Alternation, TypeOK, ProviderTypeOK, providerVars, handlerVars, dxeVars,
      faultVars
<1>3. CommBufferInv'
  BY <1>0, <1>c, <1>d
  DEF FetchErrors, CommBufferInv, Alternation, TypeOK, ProviderTypeOK, providerVars,
      handlerVars, dxeVars, faultVars
<1>4. RequestInv'
  BY <1>0, <1>c, <1>d
  DEF FetchErrors, RequestInv, CommBufferInv, Alternation, TypeOK, ProviderTypeOK,
      providerVars, handlerVars, dxeVars, faultVars
<1>5. ReassemblyInv'
  BY <1>0, <1>c, <1>d
  DEF FetchErrors, ReassemblyInv, CommBufferInv, TypeOK, ProviderTypeOK, providerVars,
      handlerVars, dxeVars, faultVars
<1>6. HeapInv'
  BY <1>0, <1>c, <1>d
  DEF FetchErrors, HeapInv, ReassemblyInv, providerVars, handlerVars, dxeVars, faultVars
<1>7. CacheInv'
  BY <1>0, <1>c, <1>d
  DEF FetchErrors, CacheInv, providerVars, handlerVars, dxeVars, faultVars
<1> QED  BY <1>1, <1>2, <1>3, <1>4, <1>5, <1>6, <1>7 DEF SafeInv

\* A damaged payload byte is still a byte.
LEMMA FlipByteSafe ==
  ASSUME SafeInv, FlipByte
  PROVE  SafeInv'
<1> USE ByteAssumption, SizeAssumption, TransferAssumption DEF Headers
<1>0. TypeOK /\ Alternation /\ CommBufferInv /\ RequestInv /\ ReassemblyInv /\ HeapInv /\ CacheInv
  BY DEF SafeInv
<1>u. /\ dxePc = "reply" /\ flips < MaxFlips /\ flips' = flips + 1
      /\ UNCHANGED <<providerVars, mmPc, commBufferSize, local, dxeVars, tampered>>
  BY DEF FlipByte, GotResponse
<1>a. PICK i \in 1..LowerOf(msg.ReturnedSize, Len(msg.Data)), b \in Byte :
        msg' = [msg EXCEPT !.Data[i] = b]
  BY DEF FlipByte
<1>b. msg' \in Message /\ (msg'.Data \in [1..(commAlloc - Headers) -> Byte])
  <2>1. msg.Data \in [1..(commAlloc - Headers) -> Byte] /\ commAlloc - Headers \in Nat
    BY <1>0, <1>u DEF CommBufferInv, TypeOK
  <2>2. [msg.Data EXCEPT ![i] = b] \in [1..(commAlloc - Headers) -> Byte]
    BY <2>1
  <2>3. [msg.Data EXCEPT ![i] = b] \in Seq(Byte \cup {Foreign})
    BY <2>1, <2>2, FunIsSeq
  <2> QED  BY <1>0, <1>a, <2>2, <2>3 DEF Message, TypeOK, ProviderTypeOK
<1>1. TypeOK'
  BY <1>0, <1>u, <1>b
  DEF TypeOK, ProviderTypeOK, providerVars, handlerVars, dxeVars, faultVars
<1>2. Alternation'
  BY <1>0, <1>u, <1>b
  DEF Alternation, TypeOK, ProviderTypeOK, providerVars, handlerVars, dxeVars, faultVars
<1>3. CommBufferInv'
  BY <1>0, <1>u, <1>b
  DEF CommBufferInv, Alternation, TypeOK, ProviderTypeOK, providerVars, handlerVars,
      dxeVars, faultVars
<1>4. RequestInv'
  BY <1>0, <1>u, <1>b
  DEF RequestInv, CommBufferInv, Alternation, TypeOK, ProviderTypeOK, providerVars,
      handlerVars, dxeVars, faultVars
<1>5. ReassemblyInv'
  BY <1>0, <1>u, <1>b
  DEF ReassemblyInv, CommBufferInv, TypeOK, ProviderTypeOK, providerVars, handlerVars,
      dxeVars, faultVars
<1>6. HeapInv'
  BY <1>0, <1>u, <1>b
  DEF HeapInv, providerVars, handlerVars, dxeVars, faultVars
<1>7. CacheInv'
  BY <1>0, <1>u, <1>b
  DEF CacheInv, providerVars, handlerVars, dxeVars, faultVars
<1> QED  BY <1>1, <1>2, <1>3, <1>4, <1>5, <1>6, <1>7 DEF SafeInv

\* A damaged header changes no buffer.
LEMMA TamperHeaderSafe ==
  ASSUME SafeInv, TamperHeader
  PROVE  SafeInv'
<1> USE ByteAssumption, SizeAssumption, TransferAssumption DEF Headers
<1>0. TypeOK /\ Alternation /\ CommBufferInv /\ RequestInv /\ ReassemblyInv /\ HeapInv /\ CacheInv
  BY DEF SafeInv
<1>u. /\ dxePc = "reply" /\ tampered' = TRUE
      /\ UNCHANGED <<providerVars, mmPc, commBufferSize, local, dxeVars, flips>>
  BY DEF TamperHeader, GotResponse
<1>a. msg' \in Message /\ msg'.Data = msg.Data
  <2>1. PICK returned \in Sizes, total \in Sizes, status \in {"SUCCESS", "UNSUPPORTED"}, guid \in ImageGuids :
          msg' = [msg EXCEPT !.ReturnedSize = returned, !.TotalImageSize = total,
                             !.Status = status, !.ImageGuid = guid]
    BY DEF TamperHeader
  <2>2. msg \in Message /\ returned \in Nat /\ total \in Nat /\ status \in Status
    BY <1>0 DEF TypeOK, ProviderTypeOK, Status
  <2> QED  BY <2>1, <2>2 DEF Message
<1>1. TypeOK'
  BY <1>0, <1>u, <1>a
  DEF TypeOK, ProviderTypeOK, providerVars, handlerVars, dxeVars, faultVars
<1>2. Alternation'
  BY <1>0, <1>u, <1>a
  DEF Alternation, TypeOK, ProviderTypeOK, providerVars, handlerVars, dxeVars, faultVars
<1>3. CommBufferInv'
  BY <1>0, <1>u, <1>a
  DEF CommBufferInv, Alternation, TypeOK, ProviderTypeOK, providerVars, handlerVars,
      dxeVars, faultVars
<1>4. RequestInv'
  BY <1>0, <1>u, <1>a
  DEF RequestInv, CommBufferInv, Alternation, TypeOK, ProviderTypeOK, providerVars,
      handlerVars, dxeVars, faultVars
<1>5. ReassemblyInv'
  BY <1>0, <1>u, <1>a
  DEF ReassemblyInv, CommBufferInv, TypeOK, ProviderTypeOK, providerVars, handlerVars,
      dxeVars, faultVars
<1>6. HeapInv'
  BY <1>0, <1>u, <1>a
  DEF HeapInv, providerVars, handlerVars, dxeVars, faultVars
<1>7. CacheInv'
  BY <1>0, <1>u, <1>a
  DEF CacheInv, providerVars, handlerVars, dxeVars, faultVars
<1> QED  BY <1>1, <1>2, <1>3, <1>4, <1>5, <1>6, <1>7 DEF SafeInv

\* A stuttering step changes nothing.
LEMMA StutterSafe ==
  ASSUME SafeInv, UNCHANGED vars
  PROVE  SafeInv'
<1> USE ByteAssumption, SizeAssumption, TransferAssumption DEF Headers
<1>0. TypeOK /\ Alternation /\ CommBufferInv /\ RequestInv /\ ReassemblyInv /\ HeapInv /\ CacheInv
  BY DEF SafeInv
<1>1. TypeOK'
  BY <1>0
  DEF vars, TypeOK, ProviderTypeOK, providerVars, handlerVars, dxeVars, faultVars
<1>2. Alternation'
  BY <1>0
  DEF vars, Alternation, TypeOK, ProviderTypeOK, providerVars, handlerVars, dxeVars,
      faultVars
<1>3. CommBufferInv'
  BY <1>0
  DEF vars, CommBufferInv, Alternation, TypeOK, ProviderTypeOK, providerVars, handlerVars,
      dxeVars, faultVars
<1>4. RequestInv'
  BY <1>0
  DEF vars, RequestInv, CommBufferInv, Alternation, TypeOK, ProviderTypeOK, providerVars,
      handlerVars, dxeVars, faultVars
<1>5. ReassemblyInv'
  BY <1>0
  DEF vars, ReassemblyInv, CommBufferInv, TypeOK, ProviderTypeOK, providerVars,
      handlerVars, dxeVars, faultVars
<1>6. HeapInv'
  BY <1>0
  DEF vars, HeapInv, providerVars, handlerVars, dxeVars, faultVars
<1>7. CacheInv'
  BY <1>0
  DEF vars, CacheInv, providerVars, handlerVars, dxeVars, faultVars
<1> QED  BY <1>1, <1>2, <1>3, <1>4, <1>5, <1>6, <1>7 DEF SafeInv

\* Every step of the composed system preserves the inductive invariant.
LEMMA SafeStep == SafeInv /\ [Next]_vars => SafeInv'
BY MmEntrySafe, ReadyToLockSafe, QuiesceSafe, ValidateSafe, SnapshotSafe, BadHeaderSafe,
   NotFoundSafe, TooLargeSafe, ServeSafe, FetchRefusedSafe, FetchBeginSafe, SendSafe,
   TransportRejectsSizeSafe, TransportFailsSafe, NoHandlerSafe, TransportDispatchesSafe,
   TransportReturnsSafe, AdoptRegionSafe, RequestFailsSafe, SizeQueryRefusedSafe,
   SizeQueryAcceptedSafe, RequestChunkSafe, ChunkRefusedSafe, ChunkAcceptedSafe, CheckCrcSafe,
   FlipByteSafe, TamperHeaderSafe, StutterSafe
DEF Next, MmStep, ProviderStep, HandlerRespond, DxeStep, TransportStep

-----------------------------------------------------------------------------
(* The theorems that follow from SafeInv.                                   *)

\* The initial states of the transfer satisfy the inductive invariant.
LEMMA SafeInit ==
  ASSUME Init
  PROVE  SafeInv
<1> USE ByteAssumption, SizeAssumption, TransferAssumption, HobAssumption DEF Headers
<1>1. msg \in Message
  BY EmptyMessageType DEF Init, ProviderInit
<1>2. NoLocals \in Locals /\ NoImage \in Image
  BY DEF NoLocals, Locals, NoImage, Image
<1>3. TypeOK
  <2>1. ProviderTypeOK
    BY <1>1, <1>2 DEF Init, ProviderInit, ProviderTypeOK
  <2>2. expected \in [Total : Nat, Crc : Nat, Format : {PE32, GUIDED_FV}]
    BY DEF Init
  <2>3. localImage \in Seq(Byte \cup {Foreign})
    BY DEF Init
  <2>4. imageData \subseteq [data : Seq(Byte \cup {Foreign}), format : {PE32, GUIDED_FV}]
    BY DEF Init
  <2>5. flips \in 0..MaxFlips
    BY DEF Init
  <2> HIDE DEF Headers
  <2> QED  BY <2>1, <2>2, <2>3, <2>4, <2>5 DEF Init, TypeOK
<1>4. Alternation /\ CommBufferInv /\ RequestInv /\ HeapInv /\ CacheInv
  BY DEF Init, ProviderInit, Alternation, CommBufferInv, RequestInv, HeapInv, CacheInv
<1>5. ReassemblyInv
  BY DEF Init, ReassemblyInv
<1> QED  BY <1>3, <1>4, <1>5 DEF SafeInv

\* SafeInv holds in every state of the transfer, whatever the responses claim.
THEOREM SafeInvariant == Spec => []SafeInv
<1>1. Init => SafeInv
  BY SafeInit
<1>2. SafeInv /\ [Next]_vars => SafeInv'
  BY SafeStep
<1> QED  BY <1>1, <1>2, PTL DEF Spec

\* The state of the transfer keeps its types.
THEOREM TypeCorrect == Spec => []TypeOK
<1>1. SafeInv => TypeOK
  BY DEF SafeInv
<1> QED  BY <1>1, SafeInvariant, PTL

\* CopyMem stays inside LocalImage and the allocation of CommBuffer whatever a
\* response's header claims, for every image, region, target size and header damage.
THEOREM CopiesStayInBounds == Spec => []CopiesInBounds
<1>1. SafeInv => CopiesInBounds
  <2> SUFFICES ASSUME SafeInv PROVE CopiesInBounds
    OBVIOUS
  <2>1. TypeOK /\ ReassemblyInv
    BY DEF SafeInv
  <2>2. \A i \in 1..Len(localImage) : i <= offset => localImage[i] # Foreign
    BY <2>1, ByteAssumption, SeqIsFun DEF ReassemblyInv, TypeOK
  <2> QED  BY <2>1, <2>2 DEF ReassemblyInv, CopiesInBounds
<1> QED  BY <1>1, SafeInvariant, PTL

\* The size recorded for CommBuffer stays between the headers and what is
\* allocated, and ChunkCapacity between one byte and the rest.
THEOREM RecordedSizeStaysSafe == Spec => []RecordedSizeIsSafe
<1>1. SafeInv => RecordedSizeIsSafe
  <2> SUFFICES ASSUME SafeInv PROVE RecordedSizeIsSafe
    OBVIOUS
  <2>1. TypeOK /\ CommBufferInv /\ ReassemblyInv /\ commAlloc \in Nat /\ Headers \in Nat
    BY SizeAssumption, TransferAssumption DEF SafeInv, TypeOK, Headers
  <2> QED  BY <2>1 DEF CommBufferInv, ReassemblyInv, RecordedSizeIsSafe
<1> QED  BY <1>1, SafeInvariant, PTL

\* A retry never needs the defensive reallocation of CommBuffer.
THEOREM CommBufferNeverGrows == Spec => []NeverGrows
<1>1. SafeInv => NeverGrows
  <2> SUFFICES ASSUME SafeInv PROVE NeverGrows
    OBVIOUS
  <2>1. TypeOK /\ RequestInv /\ Headers \in Nat
    BY SizeAssumption, TransferAssumption DEF SafeInv, Headers
  <2> QED  BY <2>1 DEF TypeOK, RequestInv, NeverGrows, MustGrow
<1> QED  BY <1>1, SafeInvariant, PTL

\* FetchImageFromMm leaves no buffer behind except the image it hands over.
THEOREM NoBufferIsLeft == Spec => []NoBufferLeft
<1>1. SafeInv => NoBufferLeft
  BY DEF SafeInv, HeapInv, NoBufferLeft
<1> QED  BY <1>1, SafeInvariant, PTL

-----------------------------------------------------------------------------
(* Proofs about what is delivered: as long as no response header is         *)
(* damaged and at most one payload byte is, the image handed over is the    *)
(* resident one, and FetchImageFromMm implements module ImageFetch.         *)

\* The damage the CRC is there for.
Intact == flips <= 1 /\ ~tampered

\* The provider's response is in CommBuffer.
Answered == mmPc = "returned" \/ (dxePc = "reply" /\ commStatus = "SUCCESS")

\* A request carries the offset of the loop, and nothing that looks like a
\* response, until the handler has served it.
MessageInv ==
  /\ dxePc = "communicate" \/ mmPc \in {"dispatched", "validated", "snapshot"} =>
       msg.ImageGuid = "zero" /\ msg.ReturnedSize = 0
  /\ dxePc = "communicate" \/ mmPc \in {"dispatched", "validated"} => msg.Offset = offset
  /\ mmPc = "snapshot" => local.Offset = offset

\* The header of a response is that of the resident image, and its payload lies
\* within the image.
HeaderInv ==
  Answered =>
    /\ msg.ImageGuid = ONE_CRYPTO_BINARY_GUID =>
         \E image \in ResidentImage(hobList) :
           /\ Len(image.data) <= MAX_UINT32
           /\ msg.TotalImageSize = Len(image.data)
           /\ msg.Format = image.format
           /\ msg.Crc32 = Crc(image.data)
    /\ msg.ReturnedSize # 0 =>
         \E image \in ResidentImage(hobList) : offset + msg.ReturnedSize <= Len(image.data)

\* What the size query left is the header of the resident image.
ExpectedInv ==
  phase = "chunk" =>
    \E image \in ResidentImage(hobList) :
      /\ Len(image.data) <= MAX_UINT32
      /\ expected = [Total |-> Len(image.data), Crc |-> Crc(image.data), Format |-> image.format]

\* Byte i of the image was damaged, on its way to LocalImage or still in CommBuffer.
DamagedAt(image, i) ==
  \/ i \in 1..offset /\ localImage[i] # image.data[i]
  \/ /\ Answered
     /\ i \in (offset + 1)..(offset + msg.ReturnedSize)
     /\ msg.Data[i - offset] # image.data[i]

\* At most one byte is damaged, and none before the first fault.
DamageInv ==
  \A image \in ResidentImage(hobList) : \A i, j \in Nat :
    DamagedAt(image, i) => flips # 0 /\ (DamagedAt(image, j) => i = j)

DeliveredInv == imageData \in {{}, ResidentImage(hobList)}

\* Nothing is reported before the end.
PendingInv == dxePc # "done" => fetchStatus = "pending"

TruthInv == Intact => HeaderInv /\ ExpectedInv /\ DamageInv /\ DeliveredInv

DeliveryInv == CrcCacheInv /\ MessageInv /\ PendingInv /\ TruthInv

-----------------------------------------------------------------------------
(* Steps that leave the reassembly alone.                                   *)

\* Nothing is damaged or delivered by a step that keeps the reassembly buffer,
\* and after which CommBuffer holds the response it held or an empty one.
LEMMA TruthFrame ==
  ASSUME TruthInv, offset \in Nat,
         UNCHANGED <<hobList, flips, tampered, offset, localImage, expected, imageData, phase>>,
         Answered' => \/ Answered /\ msg' = msg
                      \/ msg'.ImageGuid = "zero" /\ msg'.ReturnedSize = 0
  PROVE  TruthInv'
<1> SUFFICES ASSUME Intact' PROVE (HeaderInv /\ ExpectedInv /\ DamageInv /\ DeliveredInv)'
  BY DEF TruthInv
<1>1. HeaderInv /\ ExpectedInv /\ DamageInv /\ DeliveredInv
  BY DEF TruthInv, Intact
<1>2. HeaderInv'
  BY <1>1 DEF HeaderInv, ONE_CRYPTO_BINARY_GUID
<1>3. ExpectedInv' /\ DeliveredInv'
  BY <1>1 DEF ExpectedInv, DeliveredInv
<1>4. \A image, i : DamagedAt(image, i)' => DamagedAt(image, i)
  BY DEF DamagedAt
<1>5. DamageInv'
  BY <1>1, <1>4 DEF DamageInv
<1> QED  BY <1>2, <1>3, <1>5

\* A step of the provider that does not serve an image.
LEMMA ProviderTruth ==
  ASSUME SafeInv, DeliveryInv, UNCHANGED <<dxeVars, faultVars>>,
         \/ MmEntry \/ OneCryptoImageProviderReadyToLock \/ HandlerSnapshot
         \/ \E valid \in BOOLEAN : HandlerQuiesce(valid) \/ HandlerValidate(valid)
         \/ HandlerBadHeader \/ HandlerNotFound \/ HandlerTooLarge
  PROVE  DeliveryInv'
<1>0. /\ TypeOK /\ Alternation /\ offset \in Nat /\ msg \in Message /\ local \in Locals
      /\ CrcCacheInv /\ MessageInv /\ PendingInv /\ TruthInv
  BY DEF SafeInv, DeliveryInv, TypeOK, ProviderTypeOK
<1>1. UNCHANGED <<dxePc, offset, localImage, expected, imageData, phase, fetchStatus, commStatus,
                  flips, tampered>>
  BY DEF dxeVars, faultVars
<1>2. hobList' = hobList /\ mOneCryptoImageCrc32' = mOneCryptoImageCrc32
  BY DEF MmEntry, OneCryptoImageProviderReadyToLock, HandlerQuiesce, HandlerValidate,
         HandlerSnapshot, HandlerBadHeader, HandlerNotFound, HandlerTooLarge, Reply, providerVars
<1>3. CrcCacheInv' /\ PendingInv'
  BY <1>0, <1>1, <1>2 DEF CrcCacheInv, PendingInv
<1>4. \/ UNCHANGED <<mmPc, msg, local>>
      \/ /\ mmPc = "dispatched" /\ mmPc' = "returned" /\ msg' = msg
      \/ /\ mmPc = "dispatched" /\ mmPc' = "validated" /\ msg'.Offset = msg.Offset
         /\ msg'.ImageGuid = "zero" /\ msg'.ReturnedSize = 0
      \/ /\ mmPc = "validated" /\ mmPc' = "snapshot" /\ msg' = msg /\ local'.Offset = msg.Offset
      \/ /\ mmPc = "snapshot" /\ mmPc' = "returned"
         /\ msg'.ImageGuid = msg.ImageGuid /\ msg'.ReturnedSize = msg.ReturnedSize
  <2>1. CASE MmEntry \/ OneCryptoImageProviderReadyToLock
    BY <2>1 DEF MmEntry, OneCryptoImageProviderReadyToLock, handlerVars
  <2>2. ASSUME NEW valid \in BOOLEAN, HandlerQuiesce(valid)
        PROVE  mmPc = "dispatched" /\ mmPc' = "returned" /\ msg' = msg
    BY <2>2 DEF HandlerQuiesce
  <2>3. ASSUME NEW valid \in BOOLEAN, HandlerValidate(valid)
        PROVE  /\ mmPc = "dispatched" /\ mmPc' = "validated" /\ msg'.Offset = msg.Offset
               /\ msg'.ImageGuid = "zero" /\ msg'.ReturnedSize = 0
    BY <2>3, <1>0 DEF HandlerValidate, Message
  <2>4. CASE HandlerSnapshot
    BY <2>4, <1>0 DEF HandlerSnapshot, Locals
  <2>5. CASE HandlerBadHeader \/ HandlerNotFound \/ HandlerTooLarge
    BY <2>5, <1>0 DEF HandlerBadHeader, HandlerNotFound, HandlerTooLarge, Reply, Message
  <2> QED  BY <2>1, <2>2, <2>3, <2>4, <2>5
<1>5. MessageInv'
  BY <1>0, <1>1, <1>4 DEF MessageInv, Alternation
<1>6. Answered' => \/ Answered /\ msg' = msg
                   \/ msg'.ImageGuid = "zero" /\ msg'.ReturnedSize = 0
  BY <1>0, <1>1, <1>4 DEF MessageInv, Alternation, Answered
<1>7. TruthInv'
  BY <1>0, <1>1, <1>2, <1>6, TruthFrame
<1> QED  BY <1>3, <1>5, <1>7 DEF DeliveryInv

\* Steps of FetchImageFromMm and of the transport that move no image byte.
LEMMA QuietTruth ==
  ASSUME SafeInv, DeliveryInv,
         \/ FetchRefused \/ FetchBegin \/ SendImageProviderRequest \/ AdoptRegion \/ RequestFails
         \/ SizeQueryRefused \/ RequestChunk \/ ChunkRefused \/ TransportStep
  PROVE  DeliveryInv'
<1>0. /\ TypeOK /\ Alternation /\ offset \in Nat /\ Headers \in Nat /\ commAlloc \in Nat
      /\ CrcCacheInv /\ MessageInv /\ PendingInv /\ TruthInv
  BY SizeAssumption, TransferAssumption DEF SafeInv, DeliveryInv, TypeOK, Headers
<1> USE DEF FetchRefused, FetchBegin, SendImageProviderRequest, AdoptRegion, RequestFails,
            SizeQueryRefused, RequestChunk, ChunkRefused, TransportStep, TransportRejectsSize,
            TransportFails, NoHandler, CommunicateFails, TransportDispatches, TransportReturns,
            Exit, GotResponse, providerVars, handlerVars, faultVars
<1>1. /\ UNCHANGED <<hobList, mOneCryptoImageCrc32, offset, localImage, expected, imageData,
                     phase, flips, tampered>>
      /\ dxePc # "done"
  BY <1>0 DEF Alternation
<1>2. CrcCacheInv' /\ PendingInv'
  BY <1>0, <1>1 DEF CrcCacheInv, PendingInv
<1>3. Answered' => Answered /\ msg' = msg
  BY <1>0 DEF Alternation, Answered
<1>4. TruthInv'
  BY <1>0, <1>1, <1>3, TruthFrame
<1>5. CASE SendImageProviderRequest
  <2>1. dxePc' = "communicate" => /\ msg'.ImageGuid = "zero" /\ msg'.ReturnedSize = 0
                                  /\ msg'.Offset = offset
    BY <1>5 DEF Request, EmptyMessage
  <2>2. mmPc' = mmPc /\ mmPc = "idle" /\ offset' = offset
    BY <1>0, <1>5 DEF Alternation
  <2>3. MessageInv'
    BY <2>1, <2>2 DEF MessageInv
  <2> QED  BY <1>2, <1>4, <2>3 DEF DeliveryInv
<1>6. CASE ~SendImageProviderRequest
  <2>1. /\ mmPc' \in {"validated", "snapshot"} => mmPc' = mmPc /\ UNCHANGED <<msg, local>>
        /\ dxePc' # "communicate"
        /\ mmPc' = "dispatched" => (dxePc = "communicate" \/ mmPc = "dispatched") /\ msg' = msg
    BY <1>0, <1>6 DEF Alternation
  <2>2. MessageInv'
    BY <1>0, <1>1, <2>1 DEF MessageInv
  <2> QED  BY <1>2, <1>4, <2>2 DEF DeliveryInv
<1> QED  BY <1>5, <1>6
-----------------------------------------------------------------------------
(* Steps that serve, damage, copy or deliver the image.                     *)

\* The handler answers with a chunk of the resident image at the offset of the loop.
LEMMA ServeTruth ==
  ASSUME SafeInv, DeliveryInv, HandlerServe, UNCHANGED <<dxeVars, faultVars>>
  PROVE  DeliveryInv'
<1> DEFINE cap == commAlloc - Headers
<1>0. /\ TypeOK /\ Alternation /\ CommBufferInv /\ RequestInv /\ CacheInv /\ ProviderTypeOK
      /\ CrcCacheInv /\ MessageInv /\ PendingInv /\ TruthInv
      /\ offset \in Nat /\ thisRequest \in Nat
  BY DEF SafeInv, DeliveryInv, TypeOK
<1>1. UNCHANGED <<dxePc, offset, localImage, expected, imageData, phase, fetchStatus, commStatus,
                  flips, tampered>>
  BY DEF dxeVars, faultVars
<1>2. mmPc = "snapshot" /\ mmPc' = "returned" /\ hobList' = hobList /\ dxePc = "inMm"
      /\ local.Offset = offset
  BY <1>0 DEF HandlerServe, Alternation, MessageInv
<1>3. /\ cap \in Nat /\ thisRequest <= cap /\ msg.Data \in [1..cap -> Byte]
      /\ local.InputBufferSize = MsgHeaderSize + thisRequest
  BY <1>0, <1>2, SizeAssumption, TransferAssumption
  DEF CommBufferInv, RequestInv, TypeOK, Headers
<1>4. PICK image \in ResidentImage(hobList) :
        /\ Len(image.data) <= MAX_UINT32
        /\ mOneCryptoImageCrc32' = Crc(image.data)
        /\ Describes(msg', image, offset)
        /\ msg'.ReturnedSize \in Nat
  <2> HIDE DEF cap
  <2> QED  BY <1>0, <1>2, <1>3, ServeFacts
<1>5. \A other \in ResidentImage(hobList) : other = image
  BY <1>0, <1>4, LocatedIsResident DEF AtMostOneImage
<1> HIDE DEF cap
<1>6. CrcCacheInv' /\ PendingInv' /\ MessageInv'
  BY <1>0, <1>1, <1>2, <1>4 DEF CrcCacheInv, PendingInv, MessageInv
<1>7. ASSUME Intact' PROVE (HeaderInv /\ ExpectedInv /\ DamageInv /\ DeliveredInv)'
  <2>1. ExpectedInv /\ DamageInv /\ DeliveredInv
    BY <1>0, <1>1, <1>7 DEF TruthInv, Intact
  <2>2. HeaderInv'
    BY <1>1, <1>2, <1>4 DEF HeaderInv, Describes
  <2>3. ExpectedInv' /\ DeliveredInv'
    BY <1>1, <1>2, <2>1 DEF ExpectedInv, DeliveredInv
  <2>4. ASSUME NEW i \in Nat, DamagedAt(image, i)'
        PROVE  DamagedAt(image, i)
    <3>1. ASSUME i \in (offset + 1)..(offset + msg'.ReturnedSize)
          PROVE  msg'.Data[i - offset] = image.data[i]
      <4>1. i - offset \in 1..msg'.ReturnedSize /\ offset + (i - offset) = i
        BY <3>1, <1>0, <1>4
      <4> QED  BY <4>1, <1>4 DEF Describes
    <3> QED  BY <2>4, <3>1, <1>1 DEF DamagedAt
  <2>5. DamageInv'
    BY <1>1, <1>2, <1>5, <2>1, <2>4 DEF DamageInv
  <2> QED  BY <2>2, <2>3, <2>5
<1> QED  BY <1>6, <1>7 DEF DeliveryInv, TruthInv
\* Damage to a payload byte is the first, or the transfer is no longer intact.
LEMMA FlipByteTruth ==
  ASSUME SafeInv, DeliveryInv, FlipByte
  PROVE  DeliveryInv'
<1>a. /\ TypeOK /\ Alternation /\ CrcCacheInv /\ MessageInv /\ PendingInv /\ TruthInv
  BY DEF SafeInv, DeliveryInv
<1>b. offset \in Nat /\ msg \in Message /\ flips \in Nat
  BY <1>a, TransferAssumption DEF TypeOK, ProviderTypeOK
<1>c. msg.ReturnedSize \in Nat /\ Len(msg.Data) \in Nat /\ DOMAIN msg.Data = 1..Len(msg.Data)
  BY <1>b DEF Message
<1>0. /\ TypeOK /\ Alternation /\ CrcCacheInv /\ MessageInv /\ PendingInv /\ TruthInv
      /\ offset \in Nat /\ msg \in Message /\ flips \in Nat
      /\ msg.ReturnedSize \in Nat /\ Len(msg.Data) \in Nat /\ DOMAIN msg.Data = 1..Len(msg.Data)
  BY <1>a, <1>b, <1>c
<1>1. /\ UNCHANGED <<hobList, mOneCryptoImageCrc32, mmPc, local, dxePc, offset, localImage,
                     expected, imageData, phase, fetchStatus, commStatus, tampered>>
      /\ flips' = flips + 1 /\ dxePc = "reply" /\ mmPc = "idle"
  BY <1>0 DEF FlipByte, GotResponse, providerVars, dxeVars, Alternation
<1>2. PICK k \in 1..LowerOf(msg.ReturnedSize, Len(msg.Data)), b \in Byte :
        msg' = [msg EXCEPT !.Data[k] = b]
  BY DEF FlipByte
<1>3. /\ \A i \in 1..msg.ReturnedSize : i # k => msg'.Data[i] = msg.Data[i]
      /\ msg'.ReturnedSize = msg.ReturnedSize /\ msg'.ImageGuid = msg.ImageGuid
      /\ msg'.TotalImageSize = msg.TotalImageSize /\ msg'.Format = msg.Format
      /\ msg'.Crc32 = msg.Crc32 /\ k \in Nat
  BY <1>0, <1>2 DEF Message, LowerOf
<1>4. CrcCacheInv' /\ PendingInv' /\ MessageInv'
  BY <1>0, <1>1 DEF CrcCacheInv, PendingInv, MessageInv
<1>5. ASSUME Intact' PROVE (HeaderInv /\ ExpectedInv /\ DamageInv /\ DeliveredInv)'
  <2>1. flips = 0 /\ HeaderInv /\ ExpectedInv /\ DamageInv /\ DeliveredInv
    BY <1>0, <1>1, <1>5 DEF TruthInv, Intact
  <2>2. HeaderInv'
    BY <1>1, <1>3, <2>1 DEF HeaderInv, Answered
  <2>3. ExpectedInv' /\ DeliveredInv'
    BY <1>1, <2>1 DEF ExpectedInv, DeliveredInv
  <2>4. ASSUME NEW image \in ResidentImage(hobList), NEW i \in Nat, DamagedAt(image, i)'
        PROVE  i = offset + k
    <3>1. ~DamagedAt(image, i)
      BY <2>1 DEF DamageInv
    <3>2. /\ i \in (offset + 1)..(offset + msg.ReturnedSize)
          /\ msg'.Data[i - offset] # image.data[i]
      BY <2>4, <3>1, <1>1, <1>3 DEF DamagedAt
    <3>3. Answered
      BY <2>4, <3>1, <1>1, <1>3 DEF DamagedAt, Answered
    <3>4. i - offset \in 1..msg.ReturnedSize /\ msg'.Data[i - offset] # msg.Data[i - offset]
      BY <3>1, <3>2, <3>3, <1>0 DEF DamagedAt
    <3>5. i - offset = k
      BY <3>4, <1>3
    <3> QED  BY <3>5, <1>0, <1>3
  <2>5. DamageInv'
    BY <1>0, <1>1, <2>1, <2>4 DEF DamageInv
  <2> QED  BY <2>2, <2>3, <2>5
<1> QED  BY <1>4, <1>5 DEF DeliveryInv, TruthInv

\* A damaged header ends what the invariant says of the responses.
LEMMA TamperHeaderTruth ==
  ASSUME SafeInv, DeliveryInv, TamperHeader
  PROVE  DeliveryInv'
<1>1. Alternation /\ CrcCacheInv /\ MessageInv /\ PendingInv
  BY DEF SafeInv, DeliveryInv
<1>2. /\ UNCHANGED <<hobList, mOneCryptoImageCrc32, mmPc, dxePc, fetchStatus>>
      /\ tampered' = TRUE /\ dxePc = "reply" /\ mmPc = "idle"
  BY <1>1 DEF TamperHeader, GotResponse, providerVars, dxeVars, Alternation
<1>3. CrcCacheInv' /\ PendingInv' /\ MessageInv'
  BY <1>1, <1>2 DEF CrcCacheInv, PendingInv, MessageInv
<1>4. TruthInv'
  BY <1>2 DEF TruthInv, Intact
<1> QED  BY <1>3, <1>4 DEF DeliveryInv

\* The size query's response gives the loop the resident image's header.
LEMMA SizeQueryAcceptedTruth ==
  ASSUME SafeInv, DeliveryInv, SizeQueryAccepted
  PROVE  DeliveryInv'
<1>0. /\ TypeOK /\ Alternation /\ ReassemblyInv
      /\ CrcCacheInv /\ MessageInv /\ PendingInv /\ TruthInv
  BY DEF SafeInv, DeliveryInv
<1>1. /\ UNCHANGED <<hobList, mOneCryptoImageCrc32, mmPc, offset, imageData, flips, tampered>>
      /\ dxePc = "reply" /\ mmPc = "idle" /\ Answered /\ phase = "size" /\ offset = 0
      /\ expected' = [Total |-> msg.TotalImageSize, Crc |-> msg.Crc32, Format |-> msg.Format]
      /\ msg.ImageGuid = ONE_CRYPTO_BINARY_GUID
  BY <1>0 DEF SizeQueryAccepted, GotResponse, SizeQueryStatus, providerVars, handlerVars,
              faultVars, Alternation,
              Answered, ReassemblyInv
<1>2. dxePc' \in {"loop", "done"} /\ (dxePc' = "loop" => fetchStatus' = fetchStatus)
  BY DEF SizeQueryAccepted, Exit
<1>3. CrcCacheInv' /\ PendingInv' /\ MessageInv'
  BY <1>0, <1>1, <1>2 DEF CrcCacheInv, PendingInv, MessageInv
<1>4. ASSUME Intact' PROVE (HeaderInv /\ ExpectedInv /\ DamageInv /\ DeliveredInv)'
  <2>1. HeaderInv /\ DeliveredInv
    BY <1>0, <1>1, <1>4 DEF TruthInv, Intact
  <2>2. ~Answered'
    BY <1>1, <1>2 DEF Answered
  <2>3. HeaderInv' /\ DeliveredInv'
    BY <1>1, <2>1, <2>2 DEF HeaderInv, DeliveredInv
  <2>4. ExpectedInv'
    BY <1>1, <2>1 DEF HeaderInv, ExpectedInv
  <2>5. \A image, i : ~DamagedAt(image, i)'
    BY <1>1, <2>2 DEF DamagedAt
  <2>6. DamageInv'
    BY <2>5 DEF DamageInv
  <2> QED  BY <2>3, <2>4, <2>6
<1> QED  BY <1>3, <1>4 DEF DeliveryInv, TruthInv

\* Copying a chunk moves its damage, if any, from CommBuffer to LocalImage.
LEMMA ChunkAcceptedTruth ==
  ASSUME SafeInv, DeliveryInv, ChunkAccepted
  PROVE  DeliveryInv'
<1> DEFINE end  == offset + msg.ReturnedSize
           size == IF end > Len(localImage) THEN end ELSE Len(localImage)
<1>0. /\ TypeOK /\ Alternation /\ CommBufferInv /\ ReassemblyInv
      /\ CrcCacheInv /\ MessageInv /\ PendingInv /\ TruthInv
      /\ offset \in Nat /\ msg.ReturnedSize \in Nat /\ Len(localImage) \in Nat /\ thisChunk \in Nat
      /\ commAlloc \in Nat /\ Headers \in Nat
  BY SizeAssumption, TransferAssumption
  DEF SafeInv, DeliveryInv, TypeOK, ProviderTypeOK, Message, Headers
<1>1. /\ UNCHANGED <<hobList, mOneCryptoImageCrc32, mmPc, expected, phase, imageData, fetchStatus,
                     flips, tampered>>
      /\ dxePc = "reply" /\ mmPc = "idle" /\ dxePc' = "loop" /\ Answered /\ phase = "chunk"
      /\ localImage' = [i \in 1..size |-> IF i \in (offset + 1)..end THEN ByteAt(msg.Data, i - offset)
                                          ELSE localImage[i]]
      /\ offset' = end
      /\ msg.ReturnedSize <= thisChunk
  BY <1>0 DEF ChunkAccepted, GotResponse, ChunkStatus, providerVars, handlerVars, faultVars,
              Alternation, Answered
<1>2. CrcCacheInv' /\ PendingInv' /\ MessageInv'
  BY <1>0, <1>1 DEF CrcCacheInv, PendingInv, MessageInv
<1>3. /\ msg.Data \in [1..(commAlloc - Headers) -> Byte]
      /\ msg.ReturnedSize <= commAlloc - Headers
  BY <1>0, <1>1 DEF CommBufferInv, ReassemblyInv
<1>4. ASSUME NEW image, NEW i \in Nat, DamagedAt(image, i)'
      PROVE  DamagedAt(image, i)
  <2>1. i \in 1..end /\ localImage'[i] # image.data[i]
    BY <1>1, <1>4 DEF DamagedAt, Answered
  <2>2. i \in 1..size
    BY <1>0, <2>1
  <2>3. CASE i \in 1..offset
    <3>1. localImage'[i] = localImage[i]
      BY <1>0, <1>1, <2>2, <2>3
    <3> QED  BY <2>1, <2>3, <3>1 DEF DamagedAt
  <2>4. CASE i \in (offset + 1)..end
    <3>1. localImage'[i] = ByteAt(msg.Data, i - offset)
      BY <1>0, <1>1, <2>2, <2>4
    <3>2. i - offset \in DOMAIN msg.Data
      BY <1>0, <1>3, <2>4
    <3> QED  BY <1>1, <2>1, <2>4, <3>1, <3>2 DEF DamagedAt, ByteAt
  <2> QED  BY <1>0, <2>1, <2>3, <2>4
<1> HIDE DEF end, size
<1>5. ASSUME Intact' PROVE (HeaderInv /\ ExpectedInv /\ DamageInv /\ DeliveredInv)'
  <2>1. ExpectedInv /\ DamageInv /\ DeliveredInv
    BY <1>0, <1>1, <1>5 DEF TruthInv, Intact
  <2>2. HeaderInv'
    BY <1>1 DEF HeaderInv, Answered
  <2>3. ExpectedInv' /\ DeliveredInv'
    BY <1>1, <2>1 DEF ExpectedInv, DeliveredInv
  <2>4. DamageInv'
    BY <1>1, <1>4, <2>1 DEF DamageInv
  <2> QED  BY <2>2, <2>3, <2>4
<1> QED  BY <1>2, <1>5 DEF DeliveryInv, TruthInv

\* When the CRC matches, LocalImage is the resident image: one damaged byte
\* would have changed the CRC, and there is no second.
LEMMA CheckedIsResident ==
  ASSUME SafeInv, DeliveryInv, Intact, CheckCrc, CrcMatches
  PROVE  ResidentImage(hobList) = {[data |-> localImage, format |-> expected.Format]}
<1>0. /\ TypeOK /\ ReassemblyInv /\ CacheInv /\ ProviderTypeOK /\ ExpectedInv /\ DamageInv
      /\ dxePc = "loop" /\ phase = "chunk" /\ offset \in Nat /\ offset >= expected.Total
  BY DEF SafeInv, DeliveryInv, TruthInv, TypeOK, ReassemblyInv, CheckCrc
<1>1. PICK image \in ResidentImage(hobList) :
        /\ Len(image.data) <= MAX_UINT32
        /\ expected = [Total |-> Len(image.data), Crc |-> Crc(image.data), Format |-> image.format]
  BY <1>0 DEF ExpectedInv
<1>2. ResidentImage(hobList) = {image} /\ image \in Image
  BY <1>0, LocatedIsResident DEF AtMostOneImage
<1> DEFINE n == Len(image.data)
<1>3. /\ n \in Nat /\ image.data \in [1..n -> Byte] /\ image.data \in CheckedImages
      /\ image = [data |-> image.data, format |-> image.format]
  <2>1. image.data \in Seq(Byte)
    BY <1>2 DEF Image
  <2>2. image.data \in CheckedImages
    BY <1>1, <1>2, CrcType
  <2> QED  BY <1>2, <2>1, <2>2, SeqIsFun DEF Image
<1>4. /\ expected.Total = n /\ expected.Crc = Crc(image.data) /\ expected.Format = image.format
  BY <1>1
<1> HIDE DEF n
<1>5. offset = n /\ localImage \in [1..n -> Byte]
  <2>1. localImage \in [1..n -> Byte \cup {Foreign}] /\ offset <= Len(localImage) /\ Len(localImage) = n
    BY <1>0, <1>4 DEF ReassemblyInv
  <2>2. offset = n
    BY <1>0, <1>3, <1>4, <2>1
  <2>3. \A i \in 1..n : localImage[i] \in Byte
    BY <1>0, <2>2 DEF ReassemblyInv
  <2> QED  BY <2>1, <2>2, <2>3
<1>6. localImage \in CheckedImages
  BY <1>1, <1>3, <1>5, SizeAssumption DEF CheckedImages, n
<1>7. localImage = image.data
  <2> SUFFICES ASSUME NEW k \in 1..n, localImage[k] # image.data[k] PROVE FALSE
    BY <1>3, <1>5
  <2>1. k \in Nat /\ DamagedAt(image, k)
    BY <1>3, <1>5 DEF DamagedAt
  <2>2. ASSUME NEW j \in (1..n) \ {k} PROVE localImage[j] = image.data[j]
    <3>1. j \in Nat /\ j \in 1..offset /\ j # k
      BY <1>3, <1>5
    <3>2. DamagedAt(image, j) => k = j
      BY <1>0, <2>1, <3>1 DEF DamageInv
    <3> QED  BY <3>1, <3>2 DEF DamagedAt
  <2>3. DOMAIN localImage = 1..n /\ DOMAIN image.data = 1..n
    BY <1>3, <1>5
  <2>4. Crc(localImage) # Crc(image.data)
    <3>1. \E d \in DOMAIN localImage :
            /\ localImage[d] # image.data[d]
            /\ \A j \in DOMAIN localImage \ {d} : localImage[j] = image.data[j]
      BY <2>2, <2>3
    <3> QED  BY <1>3, <1>6, <2>3, <3>1, CrcDetects
  <2> QED  BY <1>4, <2>4 DEF CrcMatches
<1> QED  BY <1>2, <1>3, <1>4, <1>7

\* CheckCrc hands over the resident image: one damaged byte changes the CRC.
LEMMA CheckCrcTruth ==
  ASSUME SafeInv, DeliveryInv, CheckCrc
  PROVE  DeliveryInv'
<1>0. TypeOK /\ Alternation /\ CrcCacheInv /\ MessageInv /\ PendingInv /\ TruthInv /\ offset \in Nat
  BY DEF SafeInv, DeliveryInv, TypeOK
<1>1. /\ UNCHANGED <<hobList, mOneCryptoImageCrc32, mmPc, offset, localImage, expected, phase,
                     flips, tampered, msg>>
      /\ dxePc = "loop" /\ mmPc = "idle" /\ dxePc' = "done"
  BY <1>0 DEF CheckCrc, Exit, providerVars, handlerVars, faultVars, Alternation
<1>2. CrcCacheInv' /\ PendingInv' /\ MessageInv'
  BY <1>0, <1>1 DEF CrcCacheInv, PendingInv, MessageInv
<1>3. ASSUME Intact' PROVE (HeaderInv /\ ExpectedInv /\ DamageInv /\ DeliveredInv)'
  <2>1. Intact /\ ExpectedInv /\ DamageInv /\ DeliveredInv
    BY <1>0, <1>1, <1>3 DEF TruthInv, Intact
  <2>2. HeaderInv' /\ ExpectedInv'
    BY <1>1, <2>1 DEF HeaderInv, ExpectedInv, Answered
  <2>3. DamageInv'
    BY <1>1, <2>1 DEF DamageInv, DamagedAt, Answered
  <2>4. DeliveredInv'
    <3>1. CASE CrcMatches
      BY <3>1, <2>1, <1>1, CheckedIsResident DEF CheckCrc, DeliveredInv
    <3>2. CASE ~CrcMatches
      BY <3>2, <2>1, <1>1 DEF CheckCrc, DeliveredInv
    <3> QED  BY <3>1, <3>2
  <2> QED  BY <2>2, <2>3, <2>4
<1> QED  BY <1>2, <1>3 DEF DeliveryInv, TruthInv
-----------------------------------------------------------------------------
(* The theorems.                                                            *)

\* A step that changes nothing keeps the invariant.
LEMMA DeliveryStutter ==
  ASSUME DeliveryInv, UNCHANGED vars
  PROVE  DeliveryInv'
BY DEF vars, providerVars, handlerVars, dxeVars, faultVars, DeliveryInv, CrcCacheInv, MessageInv,
       PendingInv, TruthInv, Intact, HeaderInv, ExpectedInv, DamageInv, DamagedAt, Answered,
       DeliveredInv

\* Every step of the composed system preserves the delivery invariant.
LEMMA DeliveryStep == SafeInv /\ DeliveryInv /\ [Next]_vars => DeliveryInv'
<1> SUFFICES ASSUME SafeInv, DeliveryInv, [Next]_vars PROVE DeliveryInv'
  OBVIOUS
<1>1. CASE MmStep
  BY <1>1, ProviderTruth, ServeTruth DEF MmStep, ProviderStep, HandlerRespond
<1>2. CASE DxeStep
  BY <1>2, QuietTruth, SizeQueryAcceptedTruth, ChunkAcceptedTruth, CheckCrcTruth DEF DxeStep
<1>3. CASE TransportStep
  BY <1>3, QuietTruth
<1> QED  BY <1>1, <1>2, <1>3, FlipByteTruth, TamperHeaderTruth, DeliveryStutter DEF Next

\* The invariant holds before the transfer.
LEMMA DeliveryInit == Init => DeliveryInv
<1> SUFFICES ASSUME Init PROVE DeliveryInv
  OBVIOUS
<1>1. mmPc = "idle" /\ dxePc = "idle" /\ offset = 0 /\ phase = "size" /\ imageData = {}
      /\ fetchStatus = "pending" /\ mOneCryptoImageCrc32 = 0
  BY DEF Init, ProviderInit
<1>2. CrcCacheInv /\ MessageInv /\ PendingInv
  BY <1>1 DEF CrcCacheInv, MessageInv, PendingInv
<1>3. HeaderInv /\ ExpectedInv /\ DamageInv /\ DeliveredInv
  BY <1>1 DEF HeaderInv, ExpectedInv, DamageInv, DamagedAt, DeliveredInv, Answered
<1> QED  BY <1>2, <1>3 DEF DeliveryInv, TruthInv

\* DeliveryInv holds in every state of the transfer.
THEOREM DeliveryInvariant == Spec => []DeliveryInv
<1> QED  BY DeliveryInit, DeliveryStep, SafeInvariant, PTL DEF Spec

\* An image handed to LoadImage is the resident one, byte for byte and with its
\* format, for every image, region and chunk size, as long as no header of a
\* response was damaged and at most one payload byte was.
THEOREM DeliveredAlwaysResident == Spec => []DeliveredIsResident
<1>1. DeliveryInv => DeliveredIsResident
  BY DEF DeliveryInv, TruthInv, Intact, DeliveredInv, DeliveredIsResident
<1> QED  BY <1>1, DeliveryInvariant, PTL

\* Without damage every byte reassembled is the image's in its place, for every
\* image, region and chunk size, and for every way a request is refused, shrunk
\* or left unanswered.
THEOREM ReassembledAlwaysResident == Spec => []ReassembledIsResident
<1>1. SafeInv /\ DeliveryInv => ReassembledIsResident
  <2> SUFFICES ASSUME SafeInv, DeliveryInv, flips = 0, ~tampered,
                      NEW image \in ResidentImage(hobList), NEW i \in 1..offset
               PROVE  localImage[i] = image.data[i]
    BY DEF ReassembledIsResident
  <2>1. offset \in Nat /\ i \in Nat
    BY DEF SafeInv, TypeOK
  <2>2. DamageInv
    BY DEF DeliveryInv, TruthInv, Intact
  <2>3. ~DamagedAt(image, i)
    BY <2>1, <2>2 DEF DamageInv
  <2> QED  BY <2>3 DEF DamagedAt
<1> QED  BY <1>1, SafeInvariant, DeliveryInvariant, PTL

\* A step of the transfer is a step of the abstract fetch, or none.
LEMMA FetchStepRefines ==
  ASSUME SafeInv, DeliveryInv, Intact, [Next]_vars
  PROVE  [Fetch!Next]_(Fetch!fetchVars)
<1>0. TypeOK /\ PendingInv /\ msg \in Message
  BY DEF SafeInv, DeliveryInv, TypeOK, ProviderTypeOK
<1>1. CASE UNCHANGED <<hobList, fetchStatus, imageData>>
  BY <1>1 DEF Fetch!fetchVars
<1>2. ASSUME dxePc # "done", fetchStatus' \in FetchErrors, UNCHANGED <<hobList, imageData>>
      PROVE  Fetch!Next
  BY <1>0, <1>2 DEF PendingInv, Fetch!Next, Fetch!Refuse
<1>3. CASE MmStep
  <2>1. UNCHANGED <<hobList, fetchStatus, imageData>>
    BY <1>3 DEF MmStep, dxeVars, ProviderStep, HandlerRespond, MmEntry,
                OneCryptoImageProviderReadyToLock, HandlerQuiesce, HandlerValidate,
                HandlerSnapshot, HandlerBadHeader, HandlerNotFound, HandlerTooLarge, HandlerServe,
                Reply, providerVars
  <2> QED  BY <1>1, <2>1
<1>4. CASE TransportStep \/ FlipByte \/ TamperHeader \/ FetchBegin \/ RequestChunk \/ ChunkAccepted
           \/ UNCHANGED vars
  <2>1. UNCHANGED <<hobList, fetchStatus, imageData>>
    BY <1>4 DEF TransportStep, TransportRejectsSize, TransportFails, NoHandler, CommunicateFails,
                TransportDispatches, TransportReturns, FlipByte, TamperHeader, FetchBegin,
                RequestChunk, ChunkAccepted, vars, dxeVars, providerVars
  <2> QED  BY <1>1, <2>1
<1>5. CASE FetchRefused
  BY <1>5, <1>2 DEF FetchRefused, Exit, FetchErrors, Status, providerVars
<1>6. CASE SendImageProviderRequest
  <2>1. hobList' = hobList /\ imageData' = imageData /\ dxePc # "done"
        /\ fetchStatus' \in {fetchStatus, "OUT_OF_RESOURCES"}
    BY <1>6 DEF SendImageProviderRequest, Exit, providerVars
  <2> QED  BY <1>1, <1>2, <2>1 DEF FetchErrors
<1>7. CASE AdoptRegion
  <2>1. hobList' = hobList /\ imageData' = imageData /\ dxePc # "done"
        /\ fetchStatus' \in {fetchStatus, "BAD_BUFFER_SIZE"}
    BY <1>7 DEF AdoptRegion, Exit, providerVars
  <2> QED  BY <1>1, <1>2, <2>1 DEF FetchErrors
<1>8. CASE RequestFails
  <2>1. hobList' = hobList /\ imageData' = imageData /\ dxePc # "done"
        /\ fetchStatus' \in {"PROTOCOL_ERROR", "TRANSPORT_ERROR", "NOT_FOUND"}
    BY <1>8 DEF RequestFails, Exit, providerVars
  <2> QED  BY <1>2, <2>1 DEF FetchErrors, Status
<1>9. CASE SizeQueryRefused
  <2>1. hobList' = hobList /\ imageData' = imageData /\ dxePc # "done"
        /\ fetchStatus' = SizeQueryStatus /\ SizeQueryStatus # "SUCCESS"
    BY <1>9 DEF SizeQueryRefused, GotResponse, Exit, providerVars
  <2>2. SizeQueryStatus \in FetchErrors
    BY <1>0, <2>1 DEF SizeQueryStatus, FetchErrors, Message
  <2> QED  BY <1>2, <2>1, <2>2
<1>10. CASE SizeQueryAccepted
  <2>1. hobList' = hobList /\ imageData' = imageData /\ dxePc # "done"
        /\ fetchStatus' \in {fetchStatus, "BAD_BUFFER_SIZE", "OUT_OF_RESOURCES"}
    BY <1>10 DEF SizeQueryAccepted, GotResponse, Exit, providerVars
  <2> QED  BY <1>1, <1>2, <2>1 DEF FetchErrors
<1>11. CASE ChunkRefused
  <2>1. hobList' = hobList /\ imageData' = imageData /\ dxePc # "done"
        /\ fetchStatus' = ChunkStatus /\ ChunkStatus # "SUCCESS"
    BY <1>11 DEF ChunkRefused, GotResponse, Exit, providerVars
  <2>2. ChunkStatus \in FetchErrors
    BY <1>0, <2>1 DEF ChunkStatus, FetchErrors, Message
  <2> QED  BY <1>2, <2>1, <2>2
<1>12. CASE CheckCrc
  <2>1. hobList' = hobList /\ dxePc = "loop"
    BY <1>12 DEF CheckCrc, providerVars
  <2>2. CASE CrcMatches
    <3>1. ResidentImage(hobList) = {[data |-> localImage, format |-> expected.Format]}
      BY <1>12, <2>2, CheckedIsResident
    <3>2. fetchStatus' = "SUCCESS" /\ imageData' = ResidentImage(hobList)
      BY <1>12, <2>2, <3>1 DEF CheckCrc, Exit
    <3>3. fetchStatus = "pending" /\ ResidentImage(hobList) # {}
      BY <1>0, <2>1, <3>1 DEF PendingInv
    <3> QED  BY <2>1, <3>2, <3>3 DEF Fetch!Next, Fetch!Deliver
  <2>3. CASE ~CrcMatches
    BY <1>2, <1>12, <2>1, <2>3 DEF CheckCrc, Exit, FetchErrors
  <2> QED  BY <2>2, <2>3
<1> QED
  BY <1>3, <1>4, <1>5, <1>6, <1>7, <1>8, <1>9, <1>10, <1>11, <1>12 DEF Next, DxeStep

\* FetchImageFromMm implements the fetch of module ImageFetch, the whole resident
\* image or an error in one step, over a transport that damages no header and
\* at most one payload byte.
THEOREM TransferImplementsFetch ==
  ASSUME Tamper = FALSE, MaxFlips <= 1
  PROVE  Spec => FetchRefinesSpec
<1>1. Init => Fetch!Init
  BY DEF Init, Fetch!Init
<1>2. Init => ~tampered
  BY DEF Init
<1>3. ~tampered /\ [Next]_vars => ~tampered'
  BY DEF Next, MmStep, DxeStep, TransportStep, FetchRefused, FetchBegin, SendImageProviderRequest,
         AdoptRegion, RequestFails, SizeQueryRefused, SizeQueryAccepted, RequestChunk, ChunkRefused,
         ChunkAccepted, CheckCrc, TransportRejectsSize, TransportFails, NoHandler, CommunicateFails,
         TransportDispatches, TransportReturns, FlipByte, TamperHeader, vars, faultVars
<1>4. SafeInv /\ ~tampered => Intact
  BY TransferAssumption DEF SafeInv, TypeOK, Intact
<1>5. SafeInv /\ DeliveryInv /\ Intact /\ [Next]_vars => [Fetch!Next]_(Fetch!fetchVars)
  BY FetchStepRefines
<1> QED
  BY <1>1, <1>2, <1>3, <1>4, <1>5, SafeInvariant, DeliveryInvariant, PTL
  DEF Spec, FetchRefinesSpec, Fetch!Spec
=============================================================================
