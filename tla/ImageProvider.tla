--------------------------- MODULE ImageProvider ---------------------------
(***************************************************************************)
(* The StandaloneMM driver that serves the OneCrypto image to DXE          *)
(* (OneCryptoPkg/OneCryptoLoaders/OneCryptoImageProviderMm.c): discovery   *)
(* of the resident image in the firmware volumes, the MMI handler, and its *)
(* removal at ReadyToLock.                                                 *)
(*                                                                         *)
(* The handler is split where another agent of the Normal World may change *)
(* the shared communication buffer between two of its reads: after the     *)
(* buffer is validated, and after the request fields are copied to locals. *)
(* Whoever sends the requests is left to the modules that extend this one. *)
(* ASSERT is compiled out, as in a RELEASE build.                          *)
(***************************************************************************)
EXTENDS Integers, Sequences

CONSTANTS
  Byte,               \* the bytes of an image
  Foreign,            \* any byte of MM memory that is not a byte of the image
  Crc(_),             \* CalculateCrc32 of a sequence of bytes
  HobLists,           \* the HOB lists the platform may hand to StandaloneMM
  MsgHeaderSize,      \* OFFSET_OF (ONE_CRYPTO_IMAGE_PROVIDER_MSG, Data)
  SectionHeaderSize,  \* sizeof (EFI_COMMON_SECTION_HEADER)
  MAX_UINT32          \* the largest UINT32; scaled down for model checking

ASSUME ByteAssumption == Byte \subseteq Nat /\ 0 \in Byte /\ Foreign \notin Byte

ASSUME SizeAssumption ==
  MsgHeaderSize \in Nat \ {0} /\ SectionHeaderSize \in Nat /\ MAX_UINT32 \in Nat \ {0}

\* The only byte sequences the driver ever computes a CRC of.
CheckedImages == UNION {[1..n -> Byte] : n \in 0..MAX_UINT32}

ASSUME CrcAssumption == \A s \in CheckedImages : Crc(s) \in Nat

-----------------------------------------------------------------------------
(* Firmware volumes, as far as discovery looks at them.  A file holds at    *)
(* most one non-empty PE32 section (<<>> stands for a missing or an empty   *)
(* one) and its GUID_DEFINED sections.                                      *)

ONE_CRYPTO_BINARY_GUID == "OneCryptoBinary"
ONE_CRYPTO_CONTAINER_FV_GUID == "OneCryptoContainerFv"
FileNames == {ONE_CRYPTO_BINARY_GUID, ONE_CRYPTO_CONTAINER_FV_GUID, "Other"}

PE32 == "PE32"
GUIDED_FV == "GUIDED_FV"

GuidedSection == [DataOffset : Nat, bytes : Seq(Byte)]
File == [Name : FileNames, pe32 : Seq(Byte), guided : Seq(GuidedSection)]
FirmwareVolume == [Length : Nat, files : Seq(File)]
HobTypes == {"FV3", "FV", "FV2"}
HobList == [HobTypes -> Seq(FirmwareVolume)]

ASSUME HobAssumption == HobLists \subseteq HobList

Image == [data : Seq(Byte), format : {PE32, GUIDED_FV}]
NoImage == [data |-> <<>>, format |-> PE32]

\* The smallest of a set of positions, as a set: {} when there is none.
Earliest(S) == {i \in S : \A j \in S : i <= j}

\* The image one volume offers: {} when there is none.  A direct PE32 ends the
\* walk at once; the first container is remembered and used only after it.
ScanFvForOneCrypto(fv) ==
  LET files      == fv.files
      direct     == {i \in DOMAIN files : /\ files[i].Name = ONE_CRYPTO_BINARY_GUID
                                          /\ files[i].pe32 # <<>>}
      containers == {i \in DOMAIN files : /\ files[i].Name = ONE_CRYPTO_CONTAINER_FV_GUID
                                          /\ files[i].guided # <<>>}
      section(i) == files[i].guided[1]
      usable     == {i \in Earliest(containers) :
                       /\ section(i).DataOffset < Len(section(i).bytes)
                       /\ Len(section(i).bytes) > SectionHeaderSize}
  IN IF direct # {}
     THEN {[data |-> files[i].pe32, format |-> PE32] : i \in Earliest(direct)}
     ELSE {[data |-> section(i).bytes, format |-> GUIDED_FV] : i \in usable}

\* What the first volume of a kind of HOB that offers an image offers.
ScanHobs(fvs) ==
  LET offering == {i \in DOMAIN fvs : fvs[i].Length # 0 /\ ScanFvForOneCrypto(fvs[i]) # {}}
  IN UNION {ScanFvForOneCrypto(fvs[i]) : i \in Earliest(offering)}

\* The image the HOB lists lead to: FV3 HOBs, then FV, then FV2.
ResidentImage(hobs) ==
  IF ScanHobs(hobs["FV3"]) # {} THEN ScanHobs(hobs["FV3"])
  ELSE IF ScanHobs(hobs["FV"]) # {} THEN ScanHobs(hobs["FV"])
  ELSE ScanHobs(hobs["FV2"])

-----------------------------------------------------------------------------
VARIABLES
  hobList,                  \* the HOB list; fixed for a boot
  mOneCryptoImage,          \* mOneCryptoImageData/Size/Format; NoImage until located
  mOneCryptoImageCrc32,     \* cached CRC, 0 until computed
  mDispatchHandle,          \* TRUE while the MMI handler is registered
  mReadyToLockRegistration, \* TRUE when the ReadyToLock notification is registered
  mmState,                  \* "unloaded", "failed", "loaded" or "locked" (ReadyToLock)
  mmPc,                     \* where the handler stands; "idle" outside an MMI
  msg,                      \* the message in the communication buffer
  commBufferSize,           \* *CommBufferSize
  local                     \* the handler's locals

providerVars == <<hobList, mOneCryptoImage, mOneCryptoImageCrc32, mDispatchHandle,
                  mReadyToLockRegistration, mmState>>
handlerVars == <<mmPc, msg, commBufferSize, local>>

Status == {"SUCCESS", "INVALID_PARAMETER", "NOT_FOUND", "UNSUPPORTED"}
ImageGuids == {"zero", ONE_CRYPTO_BINARY_GUID}

\* Recognised: Signature and Version are the expected ones.
\* Data: the payload area behind the message header.
Message == [Recognised : BOOLEAN, Offset : Nat, RequestedSize : Nat,
            ReturnedSize : Nat, TotalImageSize : Nat, Format : {PE32, GUIDED_FV},
            Crc32 : Nat, Status : Status, ImageGuid : ImageGuids,
            Data : Seq(Byte \cup {Foreign})]

\* A zeroed message with n payload bytes.
EmptyMessage(n) ==
  [Recognised |-> FALSE, Offset |-> 0, RequestedSize |-> 0, ReturnedSize |-> 0,
   TotalImageSize |-> 0, Format |-> PE32, Crc32 |-> 0, Status |-> "SUCCESS",
   ImageGuid |-> "zero", Data |-> [i \in 1..n |-> 0]]

Locals == [InputBufferSize : Nat, Recognised : BOOLEAN, Offset : Nat, RequestedSize : Nat]
NoLocals == [InputBufferSize |-> 0, Recognised |-> FALSE, Offset |-> 0, RequestedSize |-> 0]

ProviderTypeOK ==
  /\ hobList \in HobLists
  /\ mOneCryptoImage \in Image
  /\ mOneCryptoImageCrc32 \in Nat
  /\ mDispatchHandle \in BOOLEAN
  /\ mReadyToLockRegistration \in BOOLEAN
  /\ mmState \in {"unloaded", "failed", "loaded", "locked"}
  /\ mmPc \in {"idle", "dispatched", "validated", "snapshot", "returned"}
  /\ msg \in Message
  /\ commBufferSize \in Nat
  /\ local \in Locals

ProviderInit ==
  /\ hobList \in HobLists
  /\ mOneCryptoImage = NoImage
  /\ mOneCryptoImageCrc32 = 0
  /\ mDispatchHandle = FALSE
  /\ mReadyToLockRegistration = FALSE
  /\ mmState = "unloaded"
  /\ mmPc = "idle"
  /\ msg = EmptyMessage(0)
  /\ commBufferSize = 0
  /\ local = NoLocals

-----------------------------------------------------------------------------
(* The driver's life: entry point and ReadyToLock notification.             *)

\* Registering the handler may fail, and then the driver is not loaded; a
\* failure to register the notification is only logged.
MmEntry ==
  /\ mmState = "unloaded"
  /\ \E registered, notify \in BOOLEAN :
       /\ mmState' = IF registered THEN "loaded" ELSE "failed"
       /\ mDispatchHandle' = registered
       /\ mReadyToLockRegistration' = (registered /\ notify)
  /\ UNCHANGED <<hobList, mOneCryptoImage, mOneCryptoImageCrc32, handlerVars>>

\* Variant: the notification forgets to unregister the handler.
ReadyToLockKeepsHandler ==
  /\ mmState = "loaded"
  /\ mmPc = "idle"
  /\ mmState' = "locked"
  /\ UNCHANGED <<hobList, mOneCryptoImage, mOneCryptoImageCrc32, mDispatchHandle,
                 mReadyToLockRegistration, handlerVars>>

\* Runs outside MMI handler dispatch.
OneCryptoImageProviderReadyToLock ==
  /\ mmState = "loaded"
  /\ mmPc = "idle"
  /\ mmState' = "locked"
  /\ mDispatchHandle' = (mDispatchHandle /\ ~mReadyToLockRegistration)
  /\ UNCHANGED <<hobList, mOneCryptoImage, mOneCryptoImageCrc32,
                 mReadyToLockRegistration, handlerVars>>

-----------------------------------------------------------------------------
(* The MMI handler.                                                         *)

\* The buffer cannot carry a response header, is too large, or fails
\* MmCommBufferValid: quiesce, touching nothing.
HandlerQuiesce(valid) ==
  /\ mmPc = "dispatched"
  /\ \/ commBufferSize < MsgHeaderSize
     \/ commBufferSize - MsgHeaderSize > MAX_UINT32
     \/ ~valid
  /\ mmPc' = "returned"
  /\ UNCHANGED <<providerVars, msg, commBufferSize, local>>

\* The buffer is usable: snapshot its size and clear the response fields.
HandlerValidate(valid) ==
  /\ mmPc = "dispatched"
  /\ commBufferSize >= MsgHeaderSize
  /\ commBufferSize - MsgHeaderSize <= MAX_UINT32
  /\ valid
  /\ local' = [local EXCEPT !.InputBufferSize = commBufferSize]
  /\ msg' = [msg EXCEPT !.ImageGuid = "zero", !.TotalImageSize = 0,
                        !.ReturnedSize = 0, !.Status = "SUCCESS"]
  /\ mmPc' = "validated"
  /\ UNCHANGED <<providerVars, commBufferSize>>

\* Every request field is read exactly once.
HandlerSnapshot ==
  /\ mmPc = "validated"
  /\ local' = [local EXCEPT !.Recognised = msg.Recognised, !.Offset = msg.Offset,
                            !.RequestedSize = msg.RequestedSize]
  /\ mmPc' = "snapshot"
  /\ UNCHANGED <<providerVars, msg, commBufferSize>>

\* LocateOneCryptoImage: {} or the one image, from the cache once it is filled.
LocateOneCryptoImage ==
  IF mOneCryptoImage.data # <<>> THEN {mOneCryptoImage} ELSE ResidentImage(hobList)

\* Return a header-only response.
Reply(status) ==
  /\ msg' = [msg EXCEPT !.Status = status]
  /\ commBufferSize' = MsgHeaderSize
  /\ mmPc' = "returned"
  /\ UNCHANGED <<hobList, mDispatchHandle, mReadyToLockRegistration, mmState, local>>

HandlerBadHeader ==
  /\ mmPc = "snapshot"
  /\ ~local.Recognised
  /\ Reply("INVALID_PARAMETER")
  /\ UNCHANGED <<mOneCryptoImage, mOneCryptoImageCrc32>>

HandlerNotFound ==
  /\ mmPc = "snapshot"
  /\ local.Recognised
  /\ LocateOneCryptoImage = {}
  /\ Reply("NOT_FOUND")
  /\ UNCHANGED <<mOneCryptoImage, mOneCryptoImageCrc32>>

HandlerTooLarge ==
  /\ mmPc = "snapshot"
  /\ local.Recognised
  /\ \E image \in LocateOneCryptoImage :
       /\ Len(image.data) > MAX_UINT32
       /\ mOneCryptoImage' = image
  /\ Reply("UNSUPPORTED")
  /\ UNCHANGED mOneCryptoImageCrc32

\* The byte of MM memory at a position counted from the start of the image.
ByteAt(data, k) == IF k \in DOMAIN data THEN data[k] ELSE Foreign

LowerOf(a, b) == IF a <= b THEN a ELSE b

\* Variant: *CommBufferSize is read again after the snapshot.
CopySizeRereadsBufferSize(image) ==
  LowerOf(LowerOf(local.RequestedSize, commBufferSize - MsgHeaderSize),
          Len(image.data) - local.Offset)

\* The number of bytes copied: what is asked for, what fits behind the header,
\* and what is left of the image.
CopySize(image) ==
  LowerOf(LowerOf(local.RequestedSize, local.InputBufferSize - MsgHeaderSize),
          Len(image.data) - local.Offset)

\* Variant: every chunk is served from the start of the image.
CopyImageFromStart(image, size) ==
  [i \in 1..(IF size > Len(msg.Data) THEN size ELSE Len(msg.Data)) |->
     IF i <= size THEN ByteAt(image.data, i) ELSE msg.Data[i]]

\* Variant: Offset is read again after the bounds check.
CopyImageRereadsOffset(image, size) ==
  [i \in 1..(IF size > Len(msg.Data) THEN size ELSE Len(msg.Data)) |->
     IF i <= size THEN ByteAt(image.data, msg.Offset + i) ELSE msg.Data[i]]

\* CopyMem into the payload area; writing past its end would lengthen it.
CopyImage(image, size) ==
  [i \in 1..(IF size > Len(msg.Data) THEN size ELSE Len(msg.Data)) |->
     IF i <= size THEN ByteAt(image.data, local.Offset + i) ELSE msg.Data[i]]

\* Variant: no check of Offset, so that Remaining underflows.
ServedSizeTrustsOffset(image) == IF local.RequestedSize # 0 THEN CopySize(image) ELSE 0

\* A size query and an offset past the end are answered without payload.
ServedSize(image) ==
  IF local.RequestedSize # 0 /\ local.Offset <= Len(image.data) THEN CopySize(image) ELSE 0

ServedStatus(image) ==
  IF local.RequestedSize # 0 /\ local.Offset > Len(image.data)
  THEN "INVALID_PARAMETER" ELSE "SUCCESS"

ImageCrc(image) ==
  IF mOneCryptoImageCrc32 = 0 THEN Crc(image.data) ELSE mOneCryptoImageCrc32

\* The response to a size query, to an offset past the end, and to a chunk
\* request, all of which carry the image's header.
HandlerServe ==
  /\ mmPc = "snapshot"
  /\ local.Recognised
  /\ \E image \in LocateOneCryptoImage :
       /\ Len(image.data) <= MAX_UINT32
       /\ mOneCryptoImage' = image
       /\ mOneCryptoImageCrc32' = ImageCrc(image)
       /\ msg' = [msg EXCEPT !.ImageGuid = ONE_CRYPTO_BINARY_GUID,
                             !.TotalImageSize = Len(image.data),
                             !.Format = image.format,
                             !.Crc32 = ImageCrc(image),
                             !.ReturnedSize = ServedSize(image),
                             !.Data = CopyImage(image, ServedSize(image)),
                             !.Status = ServedStatus(image)]
       /\ commBufferSize' = MsgHeaderSize + ServedSize(image)
  /\ mmPc' = "returned"
  /\ UNCHANGED <<hobList, mDispatchHandle, mReadyToLockRegistration, mmState, local>>

HandlerRespond == HandlerBadHeader \/ HandlerNotFound \/ HandlerTooLarge \/ HandlerServe

ProviderStep ==
  \/ MmEntry
  \/ OneCryptoImageProviderReadyToLock
  \/ \E valid \in BOOLEAN : HandlerQuiesce(valid) \/ HandlerValidate(valid)
  \/ HandlerSnapshot
  \/ HandlerRespond
=============================================================================
