--------------------------- MODULE ImageTransfer ---------------------------
(***************************************************************************)
(* The transfer of the OneCrypto image from StandaloneMM to DXE:           *)
(* FetchImageFromMm and SendImageProviderRequest of                        *)
(* OneCryptoPkg/OneCryptoLoaders/OneCryptoLoaderDxeFromMm.c, composed with *)
(* the provider of module ImageProvider over the MM communication          *)
(* transport.                                                              *)
(*                                                                         *)
(* Communicate is synchronous, so the two sides alternate; the driver      *)
(* events of the provider (entry, ReadyToLock) come between any two        *)
(* requests.  Every allocation may fail.  The transport may reject a       *)
(* request that does not fit its region, fail, or find no handler; the     *)
(* response may be damaged on its way.                                     *)
(***************************************************************************)
EXTENDS ImageProvider, FiniteSets

CONSTANTS
  CommHeaderOverhead,  \* OFFSET_OF (EFI_MM_COMMUNICATE_HEADER, Data)
  TargetSize,          \* ONE_CRYPTO_COMM_BUFFER_TARGET_SIZE
  Regions,             \* sizes the platform's MM communication region may have
  MaxFlips,            \* bound: payload bytes damaged in one transfer
  Tamper,              \* TRUE when response headers may be damaged as well
  Sizes                \* bound: the sizes a damaged header may show

Headers == CommHeaderOverhead + MsgHeaderSize

ASSUME TransferAssumption ==
  /\ CommHeaderOverhead \in Nat
  /\ TargetSize \in Nat
  /\ TargetSize > Headers
  /\ Regions \subseteq Nat
  /\ MaxFlips \in Nat
  /\ Tamper \in BOOLEAN
  /\ Sizes \subseteq Nat

\* A CRC tells two images of one length apart when a single byte differs.
ASSUME CrcDetects ==
  \A a, b \in CheckedImages :
    /\ DOMAIN a = DOMAIN b
    /\ \E k \in DOMAIN a : a[k] # b[k] /\ \A j \in DOMAIN a \ {k} : a[j] = b[j]
    => Crc(a) # Crc(b)

VARIABLES
  dxePc,               \* where FetchImageFromMm stands
  region,              \* size of the transport's region; fixed for a boot
  heap,                \* the buffers allocated and not yet freed
  commAlloc,           \* bytes really allocated for CommBuffer
  commBufferAllocSize, \* CommBufferAllocSize
  thisRequest,         \* ThisRequest of SendImageProviderRequest
  commSize,            \* CommSize
  commStatus,          \* what Communicate returned
  phase,               \* "size" during the size query, then "chunk"
  thisChunk,           \* ThisChunk
  chunkCapacity,       \* ChunkCapacity
  offset,              \* Offset
  expected,            \* ExpectedTotal, ExpectedCrc and *Format
  localImage,          \* LocalImage
  imageData,           \* *ImageData: {} while NULL, else a set with one image
  fetchStatus,         \* what FetchImageFromMm returned, "pending" before
  flips,               \* payload bytes damaged so far
  tampered             \* TRUE once a response header was damaged

dxeVars == <<dxePc, region, heap, commAlloc, commBufferAllocSize, thisRequest, commSize,
             commStatus, phase, thisChunk, chunkCapacity, offset, expected, localImage,
             imageData, fetchStatus>>
faultVars == <<flips, tampered>>
vars == <<providerVars, handlerVars, dxeVars, faultVars>>

FetchErrors == (Status \ {"SUCCESS"}) \cup
  {"BAD_BUFFER_SIZE", "PROTOCOL_ERROR", "COMPROMISED_DATA", "OUT_OF_RESOURCES",
   "CRC_ERROR", "TRANSPORT_ERROR"}

\* Not yet written by FetchImageFromMm: AllocatePool does not clear memory.
Unwritten == Foreign

Init ==
  /\ ProviderInit
  /\ dxePc = "idle"
  /\ region \in Regions
  /\ heap = {}
  /\ commAlloc = 0
  /\ commBufferAllocSize = 0
  /\ thisRequest = 0
  /\ commSize = 0
  /\ commStatus = "SUCCESS"
  /\ phase = "size"
  /\ thisChunk = 0
  /\ chunkCapacity = 0
  /\ offset = 0
  /\ expected = [Total |-> 0, Crc |-> 0, Format |-> PE32]
  /\ localImage = <<>>
  /\ imageData = {}
  /\ fetchStatus = "pending"
  /\ flips = 0
  /\ tampered = FALSE

TypeOK ==
  /\ ProviderTypeOK
  /\ dxePc \in {"idle", "send", "communicate", "inMm", "reply", "loop", "done"}
  /\ region \in Regions
  /\ heap \subseteq {"CommBuffer", "LocalImage"}
  /\ commAlloc \in Nat /\ commBufferAllocSize \in Nat
  /\ thisRequest \in Nat /\ commSize \in Nat
  /\ commStatus \in {"SUCCESS", "BAD_BUFFER_SIZE", "TRANSPORT_ERROR", "NOT_FOUND"}
  /\ phase \in {"size", "chunk"}
  /\ thisChunk \in Nat /\ chunkCapacity \in Nat /\ offset \in Nat
  /\ expected \in [Total : Nat, Crc : Nat, Format : {PE32, GUIDED_FV}]
  /\ localImage \in Seq(Byte \cup {Foreign})
  /\ imageData \subseteq [data : Seq(Byte \cup {Foreign}), format : {PE32, GUIDED_FV}]
  /\ fetchStatus \in FetchErrors \cup {"pending", "SUCCESS"}
  /\ flips \in 0..MaxFlips
  /\ tampered \in BOOLEAN

-----------------------------------------------------------------------------
(* Leaving FetchImageFromMm.  The exit label frees CommBuffer; "freed" are  *)
(* the buffers the path frees before it jumps there.                        *)

Exit(status, freed) ==
  /\ heap' = heap \ (freed \cup {"CommBuffer"})
  /\ fetchStatus' = status
  /\ dxePc' = "done"

\* Variant: a failed chunk request leaves LocalImage allocated.
ReassemblyForgotten == {}

\* The buffers the paths of the chunk loop free.
Reassembly == IF phase = "chunk" THEN {"LocalImage"} ELSE {}

-----------------------------------------------------------------------------
(* FetchImageFromMm up to the size query.                                   *)

FetchRefused ==
  /\ dxePc = "idle"
  /\ \E status \in {"NOT_FOUND", "OUT_OF_RESOURCES"} : Exit(status, {})
  /\ UNCHANGED <<providerVars, handlerVars, region, commAlloc, commBufferAllocSize,
                 thisRequest, commSize, commStatus, phase, thisChunk, chunkCapacity,
                 offset, expected, localImage, imageData, faultVars>>

FetchBegin ==
  /\ dxePc = "idle"
  /\ heap' = {"CommBuffer"}
  /\ commAlloc' = TargetSize
  /\ commBufferAllocSize' = TargetSize
  /\ msg' = EmptyMessage(TargetSize - Headers)
  /\ dxePc' = "send"
  /\ UNCHANGED <<providerVars, mmPc, commBufferSize, local, region, thisRequest, commSize,
                 commStatus, phase, thisChunk, chunkCapacity, offset, expected, localImage,
                 imageData, fetchStatus, faultVars>>

-----------------------------------------------------------------------------
(* SendImageProviderRequest: one iteration of its loop.                     *)

\* The local buffer is too small for the request: it is replaced by a larger one.
MustGrow == Headers + thisRequest > commBufferAllocSize

\* Variant: the buffer is not cleared, and shows the previous response as well.
RequestKeepsResponse(n) ==
  [msg EXCEPT
     !.Recognised = TRUE, !.Offset = offset, !.RequestedSize = thisRequest,
     !.Data = [i \in 1..n |-> IF MustGrow THEN 0 ELSE msg.Data[i]]]

\* The request as written into a buffer with n payload bytes: ZeroMem clears
\* the headers and the payload bytes transmitted, and nothing behind them.
Request(n) ==
  [EmptyMessage(n) EXCEPT
     !.Recognised = TRUE, !.Offset = offset, !.RequestedSize = thisRequest,
     !.Data = [i \in 1..n |-> IF i <= thisRequest \/ MustGrow THEN 0 ELSE msg.Data[i]]]

SendImageProviderRequest ==
  /\ dxePc = "send"
  /\ \E allocated \in BOOLEAN :
       IF MustGrow /\ ~allocated
       THEN /\ Exit("OUT_OF_RESOURCES", Reassembly)
            /\ commAlloc' = 0
            /\ commBufferAllocSize' = 0
            /\ UNCHANGED <<commSize, msg>>
       ELSE /\ commSize' = Headers + thisRequest
            /\ commAlloc' = IF MustGrow THEN commSize' ELSE commAlloc
            /\ commBufferAllocSize' = IF MustGrow THEN commSize' ELSE commBufferAllocSize
            /\ msg' = Request(commAlloc' - Headers)
            /\ dxePc' = "communicate"
            /\ UNCHANGED <<heap, fetchStatus>>
  /\ UNCHANGED <<providerVars, mmPc, commBufferSize, local, region, thisRequest, commStatus,
                 phase, thisChunk, chunkCapacity, offset, expected, localImage, imageData,
                 faultVars>>

\* Communicate comes back with a status of the transport itself.
CommunicateFails(status, size) ==
  /\ dxePc = "communicate"
  /\ commStatus' = status
  /\ commSize' = size
  /\ dxePc' = "reply"
  /\ UNCHANGED <<providerVars, handlerVars, region, heap, commAlloc, commBufferAllocSize,
                 thisRequest, phase, thisChunk, chunkCapacity, offset, expected, localImage,
                 imageData, fetchStatus, faultVars>>

\* The transport rejects the size and reports what it says is its region's size.
\* It must when the request does not fit; the code also copes with a rejection
\* it cannot adapt to, so any reported size is possible.
TransportRejectsSize ==
  \E size \in Regions : CommunicateFails("BAD_BUFFER_SIZE", size)

TransportFails == CommunicateFails("TRANSPORT_ERROR", commSize)

NoHandler ==
  /\ commSize <= region
  /\ ~mDispatchHandle
  /\ CommunicateFails("NOT_FOUND", commSize)

\* The MM core dispatches the handler on the message behind the MM header.
TransportDispatches ==
  /\ dxePc = "communicate"
  /\ commSize <= region
  /\ mDispatchHandle
  /\ mmPc' = "dispatched"
  /\ commBufferSize' = commSize - CommHeaderOverhead
  /\ local' = NoLocals
  /\ dxePc' = "inMm"
  /\ UNCHANGED <<providerVars, msg, region, heap, commAlloc, commBufferAllocSize,
                 thisRequest, commSize, commStatus, phase, thisChunk, chunkCapacity, offset,
                 expected, localImage, imageData, fetchStatus, faultVars>>

TransportReturns ==
  /\ mmPc = "returned"
  /\ mmPc' = "idle"
  /\ commStatus' = "SUCCESS"
  /\ commSize' = CommHeaderOverhead + commBufferSize
  /\ dxePc' = "reply"
  /\ UNCHANGED <<providerVars, msg, commBufferSize, local, region, heap, commAlloc,
                 commBufferAllocSize, thisRequest, phase, thisChunk, chunkCapacity, offset,
                 expected, localImage, imageData, fetchStatus, faultVars>>

\* Variant: < instead of <= in the comparison with the headers.
RegionCarriesHeaders == commSize >= Headers

\* Variant: no comparison with the headers.
RegionUnchecked == TRUE

\* The region reported holds the headers and at least one payload byte.
RegionCarriesPayload == commSize > Headers

\* Variant: retry although the request stays as large as it was.
ClampKeepsRequest == thisRequest >= commSize - Headers

\* Clamping to the region reported reduces the request.
ClampReducesRequest == thisRequest > commSize - Headers

\* BAD_BUFFER_SIZE: adopt the region, clamp the request to it and retry, unless
\* the region cannot carry a byte or clamping would not reduce the request.
AdoptRegion ==
  /\ dxePc = "reply"
  /\ commStatus = "BAD_BUFFER_SIZE"
  /\ commBufferAllocSize' = IF RegionCarriesPayload THEN commSize ELSE commBufferAllocSize
  /\ IF RegionCarriesPayload /\ ClampReducesRequest
     THEN /\ thisRequest' = commSize - Headers
          /\ dxePc' = "send"
          /\ UNCHANGED <<heap, fetchStatus>>
     ELSE /\ Exit("BAD_BUFFER_SIZE", Reassembly)
          /\ UNCHANGED thisRequest
  /\ UNCHANGED <<providerVars, handlerVars, region, commAlloc, commSize, commStatus, phase,
                 thisChunk, chunkCapacity, offset, expected, localImage, imageData, faultVars>>

\* Any other transport error, or a response too short for its headers.
RequestFails ==
  /\ dxePc = "reply"
  /\ \/ commStatus \in {"TRANSPORT_ERROR", "NOT_FOUND"}
     \/ commStatus = "SUCCESS" /\ commSize < Headers
  /\ Exit(IF commStatus = "SUCCESS" THEN "PROTOCOL_ERROR" ELSE commStatus, Reassembly)
  /\ UNCHANGED <<providerVars, handlerVars, region, commAlloc, commBufferAllocSize,
                 thisRequest, commSize, commStatus, phase, thisChunk, chunkCapacity, offset,
                 expected, localImage, imageData, faultVars>>

GotResponse == dxePc = "reply" /\ commStatus = "SUCCESS" /\ commSize >= Headers

-----------------------------------------------------------------------------
(* FetchImageFromMm: the size query's response.                             *)

\* The status a size-query response leads to.
SizeQueryStatus ==
  IF msg.Status # "SUCCESS" THEN msg.Status
  ELSE IF msg.TotalImageSize = 0 \/ msg.ReturnedSize # 0 THEN "PROTOCOL_ERROR"
  ELSE IF msg.ImageGuid # ONE_CRYPTO_BINARY_GUID THEN "COMPROMISED_DATA"
  ELSE "SUCCESS"

SizeQueryRefused ==
  /\ GotResponse
  /\ phase = "size"
  /\ SizeQueryStatus # "SUCCESS"
  /\ Exit(SizeQueryStatus, {})
  /\ UNCHANGED <<providerVars, handlerVars, region, commAlloc, commBufferAllocSize,
                 thisRequest, commSize, commStatus, phase, thisChunk, chunkCapacity, offset,
                 expected, localImage, imageData, faultVars>>

\* Snapshot the response and allocate the reassembly buffer, which may fail.
SizeQueryAccepted ==
  /\ GotResponse
  /\ phase = "size"
  /\ SizeQueryStatus = "SUCCESS"
  /\ expected' = [Total |-> msg.TotalImageSize, Crc |-> msg.Crc32, Format |-> msg.Format]
  /\ \E allocated \in BOOLEAN :
       IF allocated
       THEN /\ localImage' = [i \in 1..msg.TotalImageSize |-> Unwritten]
            /\ chunkCapacity' = commBufferAllocSize - Headers
            /\ phase' = "chunk"
            /\ IF chunkCapacity' = 0
               THEN heap' = {} /\ fetchStatus' = "BAD_BUFFER_SIZE" /\ dxePc' = "done"
               ELSE /\ heap' = heap \cup {"LocalImage"}
                    /\ dxePc' = "loop"
                    /\ UNCHANGED fetchStatus
       ELSE /\ Exit("OUT_OF_RESOURCES", {})
            /\ UNCHANGED <<localImage, chunkCapacity, phase>>
  /\ UNCHANGED <<providerVars, handlerVars, region, commAlloc, commBufferAllocSize,
                 thisRequest, commSize, commStatus, thisChunk, offset, imageData, faultVars>>

-----------------------------------------------------------------------------
(* FetchImageFromMm: the chunk loop.                                        *)

RequestChunk ==
  /\ dxePc = "loop"
  /\ offset < expected.Total
  /\ thisChunk' = LowerOf(expected.Total - offset, chunkCapacity)
  /\ thisRequest' = thisChunk'
  /\ dxePc' = "send"
  /\ UNCHANGED <<providerVars, handlerVars, region, heap, commAlloc, commBufferAllocSize,
                 commSize, commStatus, phase, chunkCapacity, offset, expected, localImage,
                 imageData, fetchStatus, faultVars>>

\* Variant: the capacity computed before the first chunk is kept.
StaleCapacity == chunkCapacity

\* Recomputed after every request, which may have adopted a smaller region.
RefreshedCapacity == commBufferAllocSize - Headers

\* Variant: a response without payload is accepted.
ChunkStatusAllowsEmpty ==
  IF msg.Status # "SUCCESS" THEN msg.Status
  ELSE IF \/ msg.ReturnedSize > thisChunk
          \/ offset + msg.ReturnedSize > expected.Total THEN "PROTOCOL_ERROR"
  ELSE "SUCCESS"

\* Variant: ReturnedSize is not compared with what was asked for.
ChunkStatusTrustsReturnedSize ==
  IF msg.Status # "SUCCESS" THEN msg.Status
  ELSE IF msg.ReturnedSize = 0 \/ offset + msg.ReturnedSize > expected.Total
       THEN "PROTOCOL_ERROR"
  ELSE "SUCCESS"

\* The status a chunk response leads to.
ChunkStatus ==
  IF RefreshedCapacity = 0 THEN "BAD_BUFFER_SIZE"
  ELSE IF msg.Status # "SUCCESS" THEN msg.Status
  ELSE IF \/ msg.ReturnedSize = 0
          \/ msg.ReturnedSize > thisChunk
          \/ offset + msg.ReturnedSize > expected.Total THEN "PROTOCOL_ERROR"
  ELSE "SUCCESS"

ChunkRefused ==
  /\ GotResponse
  /\ phase = "chunk"
  /\ ChunkStatus # "SUCCESS"
  /\ chunkCapacity' = RefreshedCapacity
  /\ Exit(ChunkStatus, {"LocalImage"})
  /\ UNCHANGED <<providerVars, handlerVars, region, commAlloc, commBufferAllocSize,
                 thisRequest, commSize, commStatus, phase, thisChunk, offset, expected,
                 localImage, imageData, faultVars>>

\* CopyMem into LocalImage; a copy past its end would lengthen it, and a read
\* past the end of CommBuffer brings in foreign bytes.
ChunkAccepted ==
  /\ GotResponse
  /\ phase = "chunk"
  /\ ChunkStatus = "SUCCESS"
  /\ chunkCapacity' = RefreshedCapacity
  /\ LET end  == offset + msg.ReturnedSize
         size == IF end > Len(localImage) THEN end ELSE Len(localImage)
     IN /\ localImage' = [i \in 1..size |-> IF i \in (offset + 1)..end
                                            THEN ByteAt(msg.Data, i - offset)
                                            ELSE localImage[i]]
        /\ offset' = end
  /\ dxePc' = "loop"
  /\ UNCHANGED <<providerVars, handlerVars, region, heap, commAlloc, commBufferAllocSize,
                 thisRequest, commSize, commStatus, phase, thisChunk, expected, imageData,
                 fetchStatus, faultVars>>

\* Variant: the CRC is computed but not compared.
CrcIgnored == TRUE

CrcMatches == Crc(localImage) = expected.Crc

\* The loop is done: compare the CRC and hand the image over.
CheckCrc ==
  /\ dxePc = "loop"
  /\ offset >= expected.Total
  /\ IF CrcMatches
     THEN /\ Exit("SUCCESS", {})
          /\ imageData' = {[data |-> localImage, format |-> expected.Format]}
     ELSE /\ Exit("CRC_ERROR", {"LocalImage"})
          /\ UNCHANGED imageData
  /\ UNCHANGED <<providerVars, handlerVars, region, commAlloc, commBufferAllocSize,
                 thisRequest, commSize, commStatus, phase, thisChunk, chunkCapacity, offset,
                 expected, localImage, faultVars>>

-----------------------------------------------------------------------------
(* Damage to a response before DXE reads it.                                *)

\* One payload byte of a response changes.
FlipByte ==
  /\ GotResponse
  /\ flips < MaxFlips
  /\ \E i \in 1..LowerOf(msg.ReturnedSize, Len(msg.Data)), b \in Byte :
       /\ b # msg.Data[i]
       /\ msg' = [msg EXCEPT !.Data[i] = b]
  /\ flips' = flips + 1
  /\ UNCHANGED <<providerVars, mmPc, commBufferSize, local, dxeVars, tampered>>

\* The response's header shows other values than the provider wrote.
TamperHeader ==
  /\ Tamper
  /\ GotResponse
  /\ \E returned, total \in Sizes, status \in {"SUCCESS", "UNSUPPORTED"}, guid \in ImageGuids :
       msg' = [msg EXCEPT !.ReturnedSize = returned, !.TotalImageSize = total,
                          !.Status = status, !.ImageGuid = guid]
  /\ tampered' = TRUE
  /\ UNCHANGED <<providerVars, mmPc, commBufferSize, local, dxeVars, flips>>

-----------------------------------------------------------------------------
MmStep == ProviderStep /\ UNCHANGED <<dxeVars, faultVars>>

DxeStep ==
  \/ FetchRefused \/ FetchBegin
  \/ SendImageProviderRequest \/ AdoptRegion \/ RequestFails
  \/ SizeQueryRefused \/ SizeQueryAccepted
  \/ RequestChunk \/ ChunkRefused \/ ChunkAccepted \/ CheckCrc

TransportStep ==
  TransportRejectsSize \/ TransportFails \/ NoHandler \/ TransportDispatches \/ TransportReturns

Next == MmStep \/ DxeStep \/ TransportStep \/ FlipByte \/ TamperHeader

\* The calls are synchronous: once made, each side runs to its return.
Fairness ==
  /\ WF_vars(DxeStep)
  /\ WF_vars(TransportStep)
  /\ WF_vars(MmStep /\ mmPc # "idle")

Spec == Init /\ [][Next]_vars
FairSpec == Spec /\ Fairness
-----------------------------------------------------------------------------
(* Properties.                                                              *)

\* FetchImageFromMm promises what module ImageFetch says: the whole resident
\* image or an error, in one step, when no header of a response was damaged
\* and at most one payload byte was.
Fetch == INSTANCE ImageFetch WITH
  Errors <- FetchErrors,
  resident <- ResidentImage(hobList),
  outcome <- fetchStatus,
  delivered <- imageData

FetchRefinesSpec == Fetch!Spec

\* An image handed to LoadImage is the resident one, byte for byte and with its
\* format, as long as no header was damaged and at most one payload byte was:
\* the retries, the chunk boundaries and the CRC comparison leave no gap.
DeliveredIsResident ==
  flips <= 1 /\ ~tampered => imageData \in {{}, ResidentImage(hobList)}

\* Without damage the part of LocalImage below Offset is that part of the resident
\* image, before any CRC is compared: no byte left in CommBuffer by an earlier
\* request or response is taken for the image, although a retry has shrunk the
\* request, or the handler has quiesced and left the buffer as it was.
ReassembledIsResident ==
  flips = 0 /\ ~tampered =>
    \A image \in ResidentImage(hobList) : \A i \in 1..offset : localImage[i] = image.data[i]

\* Whatever a response header claims, CopyMem stays inside LocalImage (which is
\* ExpectedTotal bytes) and inside the allocation of CommBuffer, and every byte
\* below Offset has been copied.  It does not say that the response carried the
\* bytes: ReturnedSize is compared with ThisChunk, not with the request a retry
\* shrank nor with MsgSize, so a damaged header can have bytes copied that an
\* earlier message left in CommBuffer.  ReassembledIsResident is about those.
CopiesInBounds ==
  /\ phase = "chunk" => Len(localImage) = expected.Total
  /\ \A i \in 1..Len(localImage) : i <= offset => localImage[i] # Foreign
  /\ offset <= Len(localImage)

\* The size recorded for CommBuffer never exceeds what is allocated, although
\* the recorded size is overwritten with what the transport reports, and leaves
\* room for the headers, so that ChunkCapacity cannot wrap around.
RecordedSizeIsSafe ==
  dxePc \notin {"idle", "done"} =>
    /\ commBufferAllocSize <= commAlloc
    /\ commBufferAllocSize > Headers
    /\ phase = "chunk" => chunkCapacity > 0 /\ chunkCapacity <= commAlloc - Headers

\* The shrink-to-fit path never needs the defensive reallocation of CommBuffer.
NeverGrows == dxePc = "send" => ~MustGrow

\* When FetchImageFromMm returns, CommBuffer is freed, and LocalImage is freed
\* exactly when it is not handed over.
NoBufferLeft ==
  dxePc = "done" => heap = IF fetchStatus = "SUCCESS" THEN {"LocalImage"} ELSE {}

\* A fetch that has begun returns, with the image or with an error.
FetchTerminates == dxePc # "idle" ~> dxePc = "done"
=============================================================================
