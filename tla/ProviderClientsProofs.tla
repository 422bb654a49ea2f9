----------------------- MODULE ProviderClientsProofs -----------------------
(***************************************************************************)
(* Proofs about ProviderClients: whatever requests arrive and however the  *)
(* caller rewrites the communication buffer while the handler runs, for    *)
(* every image, HOB list, buffer and request.                              *)
(***************************************************************************)
EXTENDS ProviderClients, ImageProviderProofs, TLAPS

\* The payload area has the size the caller brought, and holds bytes only.
PayloadInv == msg.Data \in [1..capacity -> Byte]

\* The size the handler works with is the one the buffer was validated with, and
\* no answer is in the buffer before the handler has written it.
HandlerInv ==
  /\ mmPc = "dispatched" =>
       /\ commBufferSize = MsgHeaderSize + capacity \/ commBufferSize < MsgHeaderSize
       /\ msg.ImageGuid = "zero"
  /\ mmPc \in {"validated", "snapshot"} =>
       /\ local.InputBufferSize = MsgHeaderSize + capacity
       /\ msg.ImageGuid = "zero"

\* The handler is gone once the notification has run.
LockInv == mmState = "locked" /\ mReadyToLockRegistration => ~mDispatchHandle /\ mmPc = "idle"

ClientInv ==
  /\ TypeOK
  /\ CacheInv
  /\ CrcCacheInv
  /\ PayloadInv
  /\ HandlerInv
  /\ LockInv
  /\ AnswersDescribeResident

\* The payload area the caller brought bounds every response.
LEMMA ClientInvIsConfined == ClientInv => ResponseConfined
<1> SUFFICES ASSUME ClientInv PROVE ResponseConfined
  OBVIOUS
<1>1. capacity \in Nat /\ msg.Data \in [1..capacity -> Byte]
  BY DEF ClientInv, TypeOK, PayloadInv
<1>2. Len(msg.Data) = capacity
  BY <1>1, FunIsSeq
<1>3. \A i \in 1..capacity : msg.Data[i] # Foreign
  BY <1>1, ByteAssumption
<1> QED  BY <1>2, <1>3 DEF ResponseConfined

-----------------------------------------------------------------------------
(* One lemma per action.                                                    *)

\* The driver entry keeps the invariant.
LEMMA MmEntryKeeps ==
  ASSUME ClientInv, MmEntry, UNCHANGED capacity
  PROVE  ClientInv'
<1> USE DEF MmEntry, handlerVars
<1>1. TypeOK'
  BY DEF ClientInv, TypeOK, ProviderTypeOK
<1>2. CacheInv' /\ CrcCacheInv' /\ PayloadInv'
  BY DEF ClientInv, CacheInv, CrcCacheInv, PayloadInv
<1>3. HandlerInv' /\ LockInv'
  BY DEF ClientInv, HandlerInv, LockInv
<1>4. AnswersDescribeResident'
  BY DEF ClientInv, AnswersDescribeResident
<1> QED  BY <1>1, <1>2, <1>3, <1>4 DEF ClientInv

\* The ready-to-lock notification keeps the invariant.
LEMMA ReadyToLockKeeps ==
  ASSUME ClientInv, OneCryptoImageProviderReadyToLock, UNCHANGED capacity
  PROVE  ClientInv'
<1> USE DEF OneCryptoImageProviderReadyToLock, handlerVars
<1>1. TypeOK'
  BY DEF ClientInv, TypeOK, ProviderTypeOK
<1>2. CacheInv' /\ CrcCacheInv' /\ PayloadInv'
  BY DEF ClientInv, CacheInv, CrcCacheInv, PayloadInv
<1>3. HandlerInv' /\ LockInv'
  BY DEF ClientInv, HandlerInv, LockInv
<1>4. AnswersDescribeResident'
  BY DEF AnswersDescribeResident
<1> QED  BY <1>1, <1>2, <1>3, <1>4 DEF ClientInv

\* A call the handler ignores keeps the invariant.
LEMMA QuiesceKeeps ==
  ASSUME ClientInv, NEW valid \in BOOLEAN, HandlerQuiesce(valid), UNCHANGED capacity
  PROVE  ClientInv'
<1> USE DEF HandlerQuiesce, providerVars
<1>1. TypeOK'
  BY DEF ClientInv, TypeOK, ProviderTypeOK
<1>2. CacheInv' /\ CrcCacheInv' /\ PayloadInv'
  BY DEF ClientInv, CacheInv, CrcCacheInv, PayloadInv
<1>3. HandlerInv' /\ LockInv'
  BY DEF ClientInv, HandlerInv, LockInv
<1>4. AnswersDescribeResident'
  BY DEF ClientInv, HandlerInv, AnswersDescribeResident, ONE_CRYPTO_BINARY_GUID
<1> QED  BY <1>1, <1>2, <1>3, <1>4 DEF ClientInv

\* Validating the buffer and clearing the header keeps the invariant.
LEMMA ValidateKeeps ==
  ASSUME ClientInv, NEW valid \in BOOLEAN, HandlerValidate(valid), UNCHANGED capacity
  PROVE  ClientInv'
<1>1. /\ mmPc = "dispatched" /\ mmPc' = "validated" /\ commBufferSize >= MsgHeaderSize
      /\ UNCHANGED <<hobList, mOneCryptoImage, mOneCryptoImageCrc32, mDispatchHandle,
                     mReadyToLockRegistration, mmState, commBufferSize, capacity>>
  BY DEF HandlerValidate, providerVars
<1>2. msg' \in Message /\ msg'.Data = msg.Data /\ msg'.ImageGuid = "zero"
  BY DEF HandlerValidate, ClientInv, TypeOK, ProviderTypeOK, Message, Status, ImageGuids
<1>3. local' \in Locals /\ local'.InputBufferSize = commBufferSize
  BY DEF HandlerValidate, ClientInv, TypeOK, ProviderTypeOK, Locals
<1>4. TypeOK'
  BY <1>1, <1>2, <1>3 DEF ClientInv, TypeOK, ProviderTypeOK
<1>5. CacheInv' /\ CrcCacheInv' /\ PayloadInv'
  BY <1>1, <1>2 DEF ClientInv, CacheInv, CrcCacheInv, PayloadInv
<1>6. HandlerInv'
  BY <1>1, <1>2, <1>3, SizeAssumption DEF ClientInv, HandlerInv, TypeOK, ProviderTypeOK
<1>7. LockInv' /\ AnswersDescribeResident'
  BY <1>1 DEF ClientInv, LockInv, AnswersDescribeResident
<1> QED  BY <1>4, <1>5, <1>6, <1>7 DEF ClientInv

\* Locating the image and copying the request keeps the invariant.
LEMMA SnapshotKeeps ==
  ASSUME ClientInv, HandlerSnapshot, UNCHANGED capacity
  PROVE  ClientInv'
<1>1. /\ mmPc = "validated" /\ mmPc' = "snapshot"
      /\ UNCHANGED <<hobList, mOneCryptoImage, mOneCryptoImageCrc32, mDispatchHandle,
                     mReadyToLockRegistration, mmState, commBufferSize, capacity, msg>>
  BY DEF HandlerSnapshot, providerVars
<1>2. local' \in Locals /\ local'.InputBufferSize = local.InputBufferSize
  BY DEF HandlerSnapshot, ClientInv, TypeOK, ProviderTypeOK, Locals, Message
<1>3. TypeOK'
  BY <1>1, <1>2 DEF ClientInv, TypeOK, ProviderTypeOK
<1>4. CacheInv' /\ CrcCacheInv' /\ PayloadInv'
  BY <1>1 DEF ClientInv, CacheInv, CrcCacheInv, PayloadInv
<1>5. HandlerInv' /\ LockInv'
  BY <1>1, <1>2 DEF ClientInv, HandlerInv, LockInv
<1>6. AnswersDescribeResident'
  BY <1>1 DEF AnswersDescribeResident
<1> QED  BY <1>3, <1>4, <1>5, <1>6 DEF ClientInv

\* A header-only response, written when the image, if it was located, is cached.
LEMMA ReplyKeeps ==
  ASSUME ClientInv, mmPc = "snapshot", NEW status \in Status, Reply(status),
         mOneCryptoImage' \in {mOneCryptoImage} \cup LocateOneCryptoImage,
         UNCHANGED <<mOneCryptoImageCrc32, capacity>>
  PROVE  ClientInv'
<1>1. /\ mmPc' = "returned" /\ commBufferSize' = MsgHeaderSize
      /\ UNCHANGED <<hobList, mOneCryptoImageCrc32, mDispatchHandle,
                     mReadyToLockRegistration, mmState, local, capacity>>
  BY DEF Reply
<1>2. msg' \in Message /\ msg'.Data = msg.Data /\ msg'.ImageGuid = "zero"
  BY DEF Reply, ClientInv, HandlerInv, TypeOK, ProviderTypeOK, Message
<1>3. mOneCryptoImage' \in Image /\ CacheInv'
  <2>1. ProviderTypeOK /\ CacheInv /\ mOneCryptoImage \in Image
    BY DEF ClientInv, TypeOK, ProviderTypeOK
  <2>2. LocateOneCryptoImage = ResidentImage(hobList) /\ ResidentImage(hobList) \subseteq Image
    BY <2>1, LocatedIsResident DEF AtMostOneImage
  <2> QED  BY <1>1, <2>1, <2>2 DEF CacheInv
<1>4. TypeOK'
  BY <1>1, <1>2, <1>3, SizeAssumption DEF ClientInv, TypeOK, ProviderTypeOK
<1>5. CrcCacheInv' /\ PayloadInv'
  BY <1>1, <1>2 DEF ClientInv, CrcCacheInv, PayloadInv
<1>6. HandlerInv' /\ LockInv'
  BY <1>1 DEF ClientInv, HandlerInv, LockInv
<1>7. AnswersDescribeResident'
  BY <1>2 DEF AnswersDescribeResident, ONE_CRYPTO_BINARY_GUID
<1> QED  BY <1>3, <1>4, <1>5, <1>6, <1>7 DEF ClientInv

\* Serving a chunk keeps the invariant: it lies within the buffer and the image.
LEMMA ServeKeeps ==
  ASSUME ClientInv, HandlerServe, UNCHANGED capacity
  PROVE  ClientInv'
<1>1. /\ mmPc = "snapshot" /\ mmPc' = "returned"
      /\ UNCHANGED <<hobList, mDispatchHandle, mReadyToLockRegistration, mmState, local, capacity>>
  BY DEF HandlerServe
<1>2. /\ ProviderTypeOK /\ CacheInv /\ CrcCacheInv
      /\ capacity \in Nat /\ capacity <= capacity /\ msg.Data \in [1..capacity -> Byte]
      /\ local.InputBufferSize = MsgHeaderSize + capacity
  BY <1>1 DEF ClientInv, TypeOK, PayloadInv, HandlerInv
<1>3. /\ mOneCryptoImage' \in ResidentImage(hobList)
      /\ mOneCryptoImage' \in Image
      /\ Len(mOneCryptoImage'.data) <= MAX_UINT32
      /\ mOneCryptoImageCrc32' = Crc(mOneCryptoImage'.data)
      /\ mOneCryptoImageCrc32' \in Nat
      /\ msg' \in Message
      /\ msg'.Data \in [1..capacity -> Byte]
      /\ Describes(msg', mOneCryptoImage', local.Offset)
      /\ msg'.ReturnedSize \in Nat
      /\ msg'.ReturnedSize <= local.RequestedSize
      /\ commBufferSize' = MsgHeaderSize + msg'.ReturnedSize
  BY <1>2, ServeFacts
<1>4. TypeOK'
  BY <1>1, <1>2, <1>3, SizeAssumption DEF TypeOK, ProviderTypeOK
<1>5. CacheInv' /\ CrcCacheInv' /\ PayloadInv'
  BY <1>1, <1>3 DEF CacheInv, CrcCacheInv, PayloadInv
<1>6. HandlerInv' /\ LockInv'
  BY <1>1 DEF ClientInv, HandlerInv, LockInv
<1>7. AnswersDescribeResident'
  BY <1>1, <1>3 DEF AnswersDescribeResident, Describes
<1> QED  BY <1>4, <1>5, <1>6, <1>7 DEF ClientInv

\* The responses that refuse a request keep the invariant.
LEMMA RespondKeeps ==
  ASSUME ClientInv, HandlerRespond, UNCHANGED capacity
  PROVE  ClientInv'
<1>1. CASE HandlerBadHeader
  <2>1. "INVALID_PARAMETER" \in Status
    BY DEF Status
  <2> QED  BY <1>1, <2>1, ReplyKeeps DEF HandlerBadHeader
<1>2. CASE HandlerNotFound
  <2>1. "NOT_FOUND" \in Status
    BY DEF Status
  <2> QED  BY <1>2, <2>1, ReplyKeeps DEF HandlerNotFound
<1>3. CASE HandlerTooLarge
  <2>1. "UNSUPPORTED" \in Status
    BY DEF Status
  <2> QED  BY <1>3, <2>1, ReplyKeeps DEF HandlerTooLarge
<1> QED  BY <1>1, <1>2, <1>3, ServeKeeps DEF HandlerRespond

\* A new request keeps the invariant.
LEMMA CallKeeps ==
  ASSUME ClientInv, Call
  PROVE  ClientInv'
<1>1. PICK ok \in BOOLEAN, off \in Offsets, req \in Requests, n \in Payloads :
        /\ msg' = [EmptyMessage(n) EXCEPT !.Recognised = ok, !.Offset = off, !.RequestedSize = req]
        /\ capacity' = n
        /\ commBufferSize' = MsgHeaderSize + n \/ (n = 0 /\ commBufferSize' \in ShortSizes)
  BY DEF Call
<1>2. off \in Nat /\ req \in Nat /\ n \in Nat
  BY ClientAssumption
<1>3. /\ mmPc = "idle" /\ mDispatchHandle /\ mmPc' = "dispatched" /\ local' = NoLocals
      /\ UNCHANGED <<hobList, mOneCryptoImage, mOneCryptoImageCrc32, mDispatchHandle,
                     mReadyToLockRegistration, mmState>>
  BY DEF Call, providerVars
<1>4. local' \in Locals
  BY <1>3 DEF NoLocals, Locals
<1>5. msg' \in Message /\ msg'.Data = [i \in 1..n |-> 0] /\ msg'.ImageGuid = "zero"
  BY <1>1, <1>2, EmptyMessageType DEF Message
<1>6. /\ commBufferSize' \in Nat
      /\ commBufferSize' = MsgHeaderSize + n \/ commBufferSize' < MsgHeaderSize
  BY <1>1, <1>2, ClientAssumption, SizeAssumption
<1>7. TypeOK'
  BY <1>1, <1>2, <1>3, <1>4, <1>5, <1>6 DEF ClientInv, TypeOK, ProviderTypeOK
<1>8. CacheInv' /\ CrcCacheInv'
  BY <1>3 DEF ClientInv, CacheInv, CrcCacheInv
<1>9. PayloadInv'
  BY <1>1, <1>2, <1>5, ByteAssumption DEF PayloadInv
<1>10. HandlerInv' /\ LockInv'
  BY <1>1, <1>3, <1>5, <1>6 DEF ClientInv, HandlerInv, LockInv
<1>11. AnswersDescribeResident'
  BY <1>3 DEF AnswersDescribeResident
<1> QED  BY <1>7, <1>8, <1>9, <1>10, <1>11 DEF ClientInv

\* The caller rewriting its buffer while the handler runs keeps the invariant.
LEMMA RewriteKeeps ==
  ASSUME ClientInv, Rewrite
  PROVE  ClientInv'
<1>1. PICK ok \in BOOLEAN, off \in Offsets, req \in Requests, n \in Payloads :
        /\ msg' = [msg EXCEPT !.Recognised = ok, !.Offset = off, !.RequestedSize = req]
        /\ commBufferSize' = MsgHeaderSize + n
  BY DEF Rewrite
<1>2. off \in Nat /\ req \in Nat /\ n \in Nat
  BY ClientAssumption
<1>3. /\ mmPc \in {"validated", "snapshot"}
      /\ UNCHANGED <<hobList, mOneCryptoImage, mOneCryptoImageCrc32, mDispatchHandle,
                     mReadyToLockRegistration, mmState, mmPc, local, capacity>>
  BY DEF Rewrite, providerVars
<1>4. msg' \in Message /\ msg'.Data = msg.Data /\ msg'.ImageGuid = msg.ImageGuid
  BY <1>1, <1>2 DEF ClientInv, TypeOK, ProviderTypeOK, Message
<1>5. TypeOK'
  BY <1>1, <1>2, <1>3, <1>4, SizeAssumption DEF ClientInv, TypeOK, ProviderTypeOK
<1>6. CacheInv' /\ CrcCacheInv' /\ PayloadInv'
  BY <1>3, <1>4 DEF ClientInv, CacheInv, CrcCacheInv, PayloadInv
<1>7. HandlerInv' /\ LockInv'
  BY <1>3, <1>4 DEF ClientInv, HandlerInv, LockInv
<1>8. AnswersDescribeResident'
  BY <1>3 DEF AnswersDescribeResident
<1> QED  BY <1>5, <1>6, <1>7, <1>8 DEF ClientInv

\* The return to the caller keeps the invariant.
LEMMA ReturnKeeps ==
  ASSUME ClientInv, Return
  PROVE  ClientInv'
<1> USE DEF Return, providerVars
<1>1. TypeOK'
  BY DEF ClientInv, TypeOK, ProviderTypeOK
<1>2. CacheInv' /\ CrcCacheInv' /\ PayloadInv'
  BY DEF ClientInv, CacheInv, CrcCacheInv, PayloadInv
<1>3. HandlerInv' /\ LockInv'
  BY DEF ClientInv, HandlerInv, LockInv
<1>4. AnswersDescribeResident'
  BY DEF AnswersDescribeResident
<1> QED  BY <1>1, <1>2, <1>3, <1>4 DEF ClientInv

\* Every step keeps the invariant.
LEMMA ClientStep == ClientInv /\ [Next]_vars => ClientInv'
<1> SUFFICES ASSUME ClientInv, [Next]_vars PROVE ClientInv'
  OBVIOUS
<1>1. CASE ProviderStep /\ UNCHANGED capacity
  BY <1>1, MmEntryKeeps, ReadyToLockKeeps, QuiesceKeeps, ValidateKeeps, SnapshotKeeps, RespondKeeps
  DEF ProviderStep
<1>2. CASE UNCHANGED vars
  BY <1>2 DEF vars, providerVars, handlerVars, ClientInv, TypeOK, ProviderTypeOK, CacheInv,
              CrcCacheInv, PayloadInv, HandlerInv, LockInv, AnswersDescribeResident
<1> QED  BY <1>1, <1>2, CallKeeps, RewriteKeeps, ReturnKeeps DEF Next

\* The invariant holds before the driver entry.
LEMMA ClientInit == Init => ClientInv
<1> SUFFICES ASSUME Init PROVE ClientInv
  OBVIOUS
<1>1. NoImage \in Image /\ NoLocals \in Locals
  BY DEF NoImage, Image, NoLocals, Locals
<1>2. EmptyMessage(0) \in Message /\ EmptyMessage(0).Data = [i \in 1..0 |-> 0]
  BY EmptyMessageType
<1>3. TypeOK
  BY <1>1, <1>2 DEF Init, ProviderInit, TypeOK, ProviderTypeOK
<1>4. PayloadInv
  <2>1. [i \in 1..0 |-> 0] \in [1..0 -> Byte]
    BY ByteAssumption
  <2>2. msg.Data = [i \in 1..0 |-> 0] /\ capacity = 0
    BY <1>2 DEF Init, ProviderInit
  <2> QED  BY <2>1, <2>2 DEF PayloadInv
<1>5. CacheInv /\ CrcCacheInv /\ HandlerInv /\ LockInv /\ AnswersDescribeResident
  BY DEF Init, ProviderInit, CacheInv, CrcCacheInv, HandlerInv, LockInv, AnswersDescribeResident
<1> QED  BY <1>3, <1>4, <1>5 DEF ClientInv

-----------------------------------------------------------------------------
(* The theorems.                                                            *)

\* ClientInv is an invariant of the provider with arbitrary callers.
THEOREM ClientInvariant == Spec => []ClientInv
<1> QED  BY ClientInit, ClientStep, PTL DEF Spec

\* The provider's state, its locals and the message keep their types.
THEOREM ClientTypeCorrect == Spec => []TypeOK
<1>1. ClientInv => TypeOK
  BY DEF ClientInv
<1> QED  BY <1>1, ClientInvariant, PTL

\* The handler writes only behind the header of the buffer it was called with,
\* and only bytes of the image, although the caller goes on writing to it.
THEOREM ResponseStaysConfined == Spec => []ResponseConfined
<1> QED  BY ClientInvIsConfined, ClientInvariant, PTL

\* A successful answer describes the resident image and the request as the
\* handler read it, from the first answer to the last.
THEOREM AnswersAlwaysDescribeResident == Spec => []AnswersDescribeResident
<1>1. ClientInv => AnswersDescribeResident
  BY DEF ClientInv
<1> QED  BY <1>1, ClientInvariant, PTL

\* No request reaches the handler after ReadyToLock.
THEOREM LockedStaysSilent == Spec => LockedIsSilent
<1>1. ClientInv /\ [Next]_vars =>
        [mmState = "locked" /\ mReadyToLockRegistration => mmPc' = "idle"]_vars
  <2> SUFFICES ASSUME ClientInv, Next, mmState = "locked", mReadyToLockRegistration
               PROVE  mmPc' = "idle"
    OBVIOUS
  <2>1. mmPc = "idle" /\ ~mDispatchHandle
    BY DEF ClientInv, LockInv
  <2> QED
    BY <2>1 DEF Next, ProviderStep, MmEntry, OneCryptoImageProviderReadyToLock, HandlerQuiesce,
                HandlerValidate, HandlerSnapshot, HandlerRespond, HandlerBadHeader, HandlerNotFound,
                HandlerTooLarge, HandlerServe, Call, Rewrite, Return
<1> QED  BY <1>1, ClientInvariant, PTL DEF Spec, LockedIsSilent
=============================================================================
