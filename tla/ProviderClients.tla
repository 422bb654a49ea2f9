-------------------------- MODULE ProviderClients --------------------------
(***************************************************************************)
(* The image provider of module ImageProvider serving arbitrary callers.   *)
(* Once the handler is registered, any Normal World agent may send it any  *)
(* message, and on AARCH64 may go on writing to the communication buffer   *)
(* while the handler runs (OneCryptoImageProviderMm.c says so where it     *)
(* copies the size and the request fields to locals).                      *)
(***************************************************************************)
EXTENDS ImageProvider

CONSTANTS
  Offsets,    \* the offsets callers ask for
  Requests,   \* the sizes callers ask for
  Payloads,   \* the payload areas callers bring
  ShortSizes  \* buffer sizes below the message header

ASSUME ClientAssumption ==
  /\ Offsets \subseteq Nat /\ Requests \subseteq Nat /\ Payloads \subseteq Nat
  /\ ShortSizes \subseteq 0..(MsgHeaderSize - 1)

VARIABLE capacity  \* payload bytes of the buffer the handler was called with

vars == <<providerVars, handlerVars, capacity>>

Init == ProviderInit /\ capacity = 0

TypeOK == ProviderTypeOK /\ capacity \in Nat

\* The MM core calls the registered handler with a caller's message.
Call ==
  /\ mmPc = "idle"
  /\ mDispatchHandle
  /\ \E ok \in BOOLEAN, off \in Offsets, req \in Requests, n \in Payloads :
       /\ msg' = [EmptyMessage(n) EXCEPT !.Recognised = ok, !.Offset = off, !.RequestedSize = req]
       /\ capacity' = n
       /\ \/ commBufferSize' = MsgHeaderSize + n
          \/ n = 0 /\ commBufferSize' \in ShortSizes
  /\ local' = NoLocals
  /\ mmPc' = "dispatched"
  /\ UNCHANGED providerVars

\* The caller changes the request or the size while the handler runs.
Rewrite ==
  /\ mmPc \in {"validated", "snapshot"}
  /\ \E ok \in BOOLEAN, off \in Offsets, req \in Requests, n \in Payloads :
       /\ msg' = [msg EXCEPT !.Recognised = ok, !.Offset = off, !.RequestedSize = req]
       /\ commBufferSize' = MsgHeaderSize + n
  /\ UNCHANGED <<providerVars, mmPc, local, capacity>>

\* The MM core takes the response back.
Return ==
  /\ mmPc = "returned"
  /\ mmPc' = "idle"
  /\ UNCHANGED <<providerVars, msg, commBufferSize, local, capacity>>

Next == (ProviderStep /\ UNCHANGED capacity) \/ Call \/ Rewrite \/ Return

Spec == Init /\ [][Next]_vars

-----------------------------------------------------------------------------
\* Whatever the caller writes while the handler runs, the response is confined
\* to the buffer the handler was called with and holds no byte of MM memory
\* other than the image's.
ResponseConfined ==
  /\ Len(msg.Data) = capacity
  /\ \A i \in 1..capacity : msg.Data[i] # Foreign

\* A successful answer describes the image the HOB lists lead to, now and in
\* every later answer: its size, format and CRC, and the bytes at the offset the
\* handler read, no more than were asked for and exactly as many as it reports.
AnswersDescribeResident ==
  mmPc = "returned" /\ msg.ImageGuid = ONE_CRYPTO_BINARY_GUID =>
    \E image \in ResidentImage(hobList) :
      /\ msg.TotalImageSize = Len(image.data)
      /\ msg.Format = image.format
      /\ msg.Crc32 = Crc(image.data)
      /\ msg.ReturnedSize <= local.RequestedSize
      /\ commBufferSize = MsgHeaderSize + msg.ReturnedSize
      /\ \A i \in 1..msg.ReturnedSize : msg.Data[i] = image.data[local.Offset + i]

\* Once ReadyToLock has run with its notification registered, the handler is
\* gone: no request reaches it again.
LockedIsSilent ==
  [][mmState = "locked" /\ mReadyToLockRegistration => mmPc' = "idle"]_vars
=============================================================================
