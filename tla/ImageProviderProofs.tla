------------------------ MODULE ImageProviderProofs ------------------------
(***************************************************************************)
(* Facts about the provider of module ImageProvider, whoever calls it: the *)
(* HOB lists lead to at most one image, and a served response describes    *)
(* that image.  The proofs about ProviderClients and ImageTransfer rest on *)
(* them.                                                                   *)
(***************************************************************************)
EXTENDS ImageProvider, TLAPS

\* A function on 1..n is a sequence of length n.
LEMMA FunIsSeq ==
  ASSUME NEW S, NEW n \in Nat, NEW f \in [1..n -> S]
  PROVE  f \in Seq(S) /\ Len(f) = n /\ DOMAIN f = 1..n
OBVIOUS

\* A sequence is a function on 1..Len.
LEMMA SeqIsFun ==
  ASSUME NEW S, NEW s \in Seq(S)
  PROVE  Len(s) \in Nat /\ DOMAIN s = 1..Len(s) /\ s \in [1..Len(s) -> S]
OBVIOUS

\* A set of positions has at most one earliest element.
LEMMA EarliestUnique ==
  ASSUME NEW S \in SUBSET Nat, NEW i \in Earliest(S), NEW j \in Earliest(S)
  PROVE  i = j
BY DEF Earliest

AtMostOneImage(S) ==
  /\ S \subseteq Image
  /\ \A a, b \in S : a = b
  /\ \A a \in S : a.data # <<>>

\* One volume offers at most one image, and never an empty one.
LEMMA ScanFvType ==
  ASSUME NEW fv \in FirmwareVolume
  PROVE  AtMostOneImage(ScanFvForOneCrypto(fv))
<1> DEFINE files      == fv.files
           direct     == {i \in DOMAIN files : /\ files[i].Name = ONE_CRYPTO_BINARY_GUID
                                          /\ files[i].pe32 # <<>>}
           containers == {i \in DOMAIN files : /\ files[i].Name = ONE_CRYPTO_CONTAINER_FV_GUID
                                          /\ files[i].guided # <<>>}
           section(i) == files[i].guided[1]
           usable     == {i \in Earliest(containers) :
                       /\ section(i).DataOffset < Len(section(i).bytes)
                       /\ Len(section(i).bytes) > SectionHeaderSize}
           fromDirect == {[data |-> files[i].pe32, format |-> PE32] : i \in Earliest(direct)}
           fromContainer == {[data |-> section(i).bytes, format |-> GUIDED_FV] : i \in usable}
<1>1. files \in Seq(File) /\ DOMAIN files \subseteq Nat
  BY DEF FirmwareVolume
<1>2. AtMostOneImage(fromDirect)
  <2>1. ASSUME NEW i \in Earliest(direct)
        PROVE  files[i].pe32 \in Seq(Byte) /\ files[i].pe32 # <<>>
    <3>1. i \in DOMAIN files /\ files[i].pe32 # <<>>
      BY DEF Earliest
    <3>2. files[i] \in File
      BY <1>1, <3>1
    <3> QED  BY <3>1, <3>2 DEF File
  <2>2. \A i, j \in Earliest(direct) : i = j
    BY <1>1, EarliestUnique
  <2>3. ASSUME NEW a \in fromDirect
        PROVE  a \in Image /\ a.data # <<>>
    <3>1. PICK i \in Earliest(direct) : a = [data |-> files[i].pe32, format |-> PE32]
      OBVIOUS
    <3>2. files[i].pe32 \in Seq(Byte) /\ files[i].pe32 # <<>>
      BY <2>1
    <3> HIDE DEF files, direct
    <3> QED  BY <3>1, <3>2 DEF Image
  <2>4. \A a, b \in fromDirect : a = b
    BY <2>2
  <2> QED  BY <2>3, <2>4 DEF AtMostOneImage
<1>3. AtMostOneImage(fromContainer)
  <2>1. ASSUME NEW i \in usable
        PROVE  section(i).bytes \in Seq(Byte) /\ section(i).bytes # <<>>
    <3>1. i \in DOMAIN files /\ files[i].guided # <<>> /\ Len(section(i).bytes) > SectionHeaderSize
      BY DEF Earliest
    <3>2. files[i] \in File
      BY <1>1, <3>1
    <3>5. files[i].guided \in Seq(GuidedSection)
      BY <3>2 DEF File
    <3>3. section(i) \in GuidedSection
      BY <3>1, <3>5
    <3>4. section(i).bytes \in Seq(Byte)
      BY <3>3 DEF GuidedSection
    <3> HIDE DEF section
    <3> QED  BY <3>1, <3>4, SizeAssumption
  <2>2. \A i, j \in usable : i = j
    BY <1>1, EarliestUnique
  <2>3. ASSUME NEW a \in fromContainer
        PROVE  a \in Image /\ a.data # <<>>
    <3>1. PICK i \in usable : a = [data |-> section(i).bytes, format |-> GUIDED_FV]
      OBVIOUS
    <3>2. section(i).bytes \in Seq(Byte) /\ section(i).bytes # <<>>
      BY <2>1
    <3> HIDE DEF section, usable
    <3> QED  BY <3>1, <3>2 DEF Image
  <2>4. \A a, b \in fromContainer : a = b
    BY <2>2
  <2> QED  BY <2>3, <2>4 DEF AtMostOneImage
<1> QED
  BY <1>2, <1>3 DEF ScanFvForOneCrypto

\* The volumes of one kind of HOB offer at most one image.
LEMMA ScanHobsType ==
  ASSUME NEW fvs \in Seq(FirmwareVolume)
  PROVE  AtMostOneImage(ScanHobs(fvs))
<1> DEFINE offering == {i \in DOMAIN fvs : fvs[i].Length # 0 /\ ScanFvForOneCrypto(fvs[i]) # {}}
<1>1. \A i, j \in Earliest(offering) : i = j
  BY EarliestUnique
<1>2. ASSUME NEW i \in Earliest(offering)
      PROVE  AtMostOneImage(ScanFvForOneCrypto(fvs[i]))
  <2>1. i \in DOMAIN fvs
    BY DEF Earliest
  <2>2. fvs[i] \in FirmwareVolume
    BY <2>1
  <2> QED  BY <2>2, ScanFvType
<1>3. \A image \in ScanHobs(fvs) : \E i \in Earliest(offering) : image \in ScanFvForOneCrypto(fvs[i])
  BY DEF ScanHobs
<1> QED
  BY <1>1, <1>2, <1>3, Zenon DEF AtMostOneImage

\* The HOB lists lead to at most one image, and it is not empty.
LEMMA ResidentImageType ==
  ASSUME NEW hobs \in HobLists
  PROVE  AtMostOneImage(ResidentImage(hobs))
<1>1. hobs \in HobList
  BY HobAssumption
<1>2. \A t \in HobTypes : AtMostOneImage(ScanHobs(hobs[t]))
  BY <1>1, ScanHobsType DEF HobList
<1> QED
  BY <1>2 DEF ResidentImage, HobTypes

\* The cached image is the resident one.
CacheInv == mOneCryptoImage = NoImage \/ mOneCryptoImage \in ResidentImage(hobList)

\* Locating the image, cached or not, gives the resident image.
LEMMA LocatedIsResident ==
  ASSUME ProviderTypeOK, CacheInv
  PROVE  LocateOneCryptoImage = ResidentImage(hobList) /\ AtMostOneImage(ResidentImage(hobList))
<1>1. AtMostOneImage(ResidentImage(hobList))
  BY ResidentImageType DEF ProviderTypeOK
<1>2. CASE mOneCryptoImage = NoImage
  BY <1>1, <1>2 DEF LocateOneCryptoImage, NoImage
<1>3. CASE mOneCryptoImage \in ResidentImage(hobList)
  <2>1. mOneCryptoImage.data # <<>>
    BY <1>1, <1>3 DEF AtMostOneImage
  <2>2. ResidentImage(hobList) = {mOneCryptoImage}
    BY <1>1, <1>3 DEF AtMostOneImage
  <2> QED  BY <1>1, <2>1, <2>2 DEF LocateOneCryptoImage
<1> QED  BY <1>2, <1>3 DEF CacheInv

\* A zeroed message is a message with a zeroed payload area.
LEMMA EmptyMessageType ==
  ASSUME NEW n \in Nat
  PROVE  /\ EmptyMessage(n) \in Message
         /\ EmptyMessage(n).Data = [i \in 1..n |-> 0]
         /\ EmptyMessage(n).ReturnedSize = 0
         /\ EmptyMessage(n).ImageGuid = "zero"
<1>1. [i \in 1..n |-> 0] \in Seq(Byte \cup {Foreign})
  BY FunIsSeq, ByteAssumption
<1> QED  BY <1>1 DEF EmptyMessage, Message, Status, ImageGuids

-----------------------------------------------------------------------------
(* What the handler answers.                                                *)

\* The cached CRC, once computed, is the resident image's.
CrcCacheInv ==
  mOneCryptoImageCrc32 = 0 \/ \E image \in ResidentImage(hobList) :
                                /\ Len(image.data) <= MAX_UINT32
                                /\ mOneCryptoImageCrc32 = Crc(image.data)

\* Message m carries the header of an image and its bytes from an offset on.
Describes(m, image, from) ==
  /\ m.ImageGuid = ONE_CRYPTO_BINARY_GUID
  /\ m.TotalImageSize = Len(image.data)
  /\ m.Format = image.format
  /\ m.Crc32 = Crc(image.data)
  /\ m.ReturnedSize # 0 => from + m.ReturnedSize <= Len(image.data)
  /\ \A i \in 1..m.ReturnedSize : m.Data[i] = image.data[from + i]

\* A CRC is only computed of an image whose size fits UINT32, and is a number.
LEMMA CrcType ==
  ASSUME NEW image \in Image, Len(image.data) <= MAX_UINT32
  PROVE  image.data \in CheckedImages /\ Crc(image.data) \in Nat
<1>1. image.data \in Seq(Byte)
  BY DEF Image
<1>2. Len(image.data) \in 0..MAX_UINT32 /\ image.data \in [1..Len(image.data) -> Byte]
  BY <1>1, SeqIsFun, SizeAssumption
<1>3. image.data \in CheckedImages
  BY <1>2 DEF CheckedImages
<1> QED  BY <1>3, CrcAssumption

\* HandlerServe, in a buffer of cap payload bytes of which the caller offers n:
\* the response describes the resident image and stays within what was offered.
LEMMA ServeFacts ==
  ASSUME ProviderTypeOK, CacheInv, CrcCacheInv, HandlerServe,
         NEW n \in Nat, NEW cap \in Nat, n <= cap,
         msg.Data \in [1..cap -> Byte], local.InputBufferSize = MsgHeaderSize + n
  PROVE  /\ mOneCryptoImage' \in ResidentImage(hobList)
         /\ mOneCryptoImage' \in Image
         /\ Len(mOneCryptoImage'.data) <= MAX_UINT32
         /\ mOneCryptoImageCrc32' = Crc(mOneCryptoImage'.data)
         /\ mOneCryptoImageCrc32' \in Nat
         /\ msg' \in Message
         /\ msg'.Data \in [1..cap -> Byte]
         /\ Describes(msg', mOneCryptoImage', local.Offset)
         /\ msg'.ReturnedSize \in Nat
         /\ msg'.ReturnedSize <= n
         /\ msg'.ReturnedSize <= local.RequestedSize
         /\ commBufferSize' = MsgHeaderSize + msg'.ReturnedSize
<1> DEFINE image == mOneCryptoImage'
           size  == ServedSize(image)
<1>1. /\ image \in ResidentImage(hobList)
      /\ image \in Image
      /\ Len(image.data) <= MAX_UINT32
      /\ mOneCryptoImageCrc32' = ImageCrc(image)
      /\ msg' = [msg EXCEPT !.ImageGuid = ONE_CRYPTO_BINARY_GUID,
                            !.TotalImageSize = Len(image.data),
                            !.Format = image.format,
                            !.Crc32 = ImageCrc(image),
                            !.ReturnedSize = size,
                            !.Data = CopyImage(image, size),
                            !.Status = ServedStatus(image)]
      /\ commBufferSize' = MsgHeaderSize + size
  BY LocatedIsResident DEF HandlerServe, AtMostOneImage
<1>2. \A other \in ResidentImage(hobList) : other = image
  BY <1>1, LocatedIsResident DEF AtMostOneImage
<1> HIDE DEF image
<1>3. image.data \in Seq(Byte) /\ Len(image.data) \in Nat /\ image.format \in {PE32, GUIDED_FV}
  BY <1>1 DEF Image
<1>4. ImageCrc(image) = Crc(image.data) /\ Crc(image.data) \in Nat
  <2>1. Crc(image.data) \in Nat
    BY <1>1, CrcType
  <2>2. mOneCryptoImageCrc32 # 0 => mOneCryptoImageCrc32 = Crc(image.data)
    BY <1>2 DEF CrcCacheInv
  <2> QED  BY <2>1, <2>2 DEF ImageCrc
<1>5. local.Offset \in Nat /\ local.RequestedSize \in Nat /\ msg \in Message
  BY DEF ProviderTypeOK, Locals
<1>6. /\ size \in Nat
      /\ size <= n
      /\ size <= local.RequestedSize
      /\ size # 0 => local.Offset + size <= Len(image.data)
  <2>1. local.InputBufferSize - MsgHeaderSize = n
    BY SizeAssumption
  <2> HIDE DEF size
  <2>2. size = IF local.RequestedSize # 0 /\ local.Offset <= Len(image.data)
               THEN LowerOf(LowerOf(local.RequestedSize, n), Len(image.data) - local.Offset)
               ELSE 0
    BY <2>1 DEF size, ServedSize, CopySize
  <2> QED  BY <1>3, <1>5, <2>2 DEF LowerOf
<1> HIDE DEF size
<1>7. Len(msg.Data) = cap
  BY FunIsSeq
<1>8. ASSUME NEW i \in 1..size
      PROVE  /\ local.Offset + i \in DOMAIN image.data
             /\ ByteAt(image.data, local.Offset + i) = image.data[local.Offset + i]
             /\ image.data[local.Offset + i] \in Byte
  BY <1>3, <1>5, <1>6, SeqIsFun DEF ByteAt
<1>9. CopyImage(image, size) =
        [i \in 1..cap |-> IF i <= size THEN ByteAt(image.data, local.Offset + i) ELSE msg.Data[i]]
  BY <1>6, <1>7 DEF CopyImage
<1>10. CopyImage(image, size) \in [1..cap -> Byte]
  BY <1>6, <1>8, <1>9
<1>11. \A i \in 1..size : CopyImage(image, size)[i] = image.data[local.Offset + i]
  BY <1>6, <1>8, <1>9
<1>12. CopyImage(image, size) \in Seq(Byte \cup {Foreign})
  BY <1>10, FunIsSeq
<1>13. ServedStatus(image) \in Status
  BY DEF ServedStatus, Status
<1>14. /\ msg' \in Message
       /\ msg'.Data = CopyImage(image, size)
       /\ msg'.ReturnedSize = size
       /\ msg'.ImageGuid = ONE_CRYPTO_BINARY_GUID
       /\ msg'.TotalImageSize = Len(image.data)
       /\ msg'.Format = image.format
       /\ msg'.Crc32 = Crc(image.data)
  BY <1>1, <1>3, <1>4, <1>5, <1>6, <1>12, <1>13 DEF Message, ImageGuids
<1>15. Describes(msg', image, local.Offset)
  <2>1. \A i \in 1..msg'.ReturnedSize : msg'.Data[i] = image.data[local.Offset + i]
    BY <1>11, <1>14
  <2> QED  BY <1>6, <1>14, <2>1 DEF Describes
<1>16. /\ mOneCryptoImageCrc32' = Crc(image.data) /\ mOneCryptoImageCrc32' \in Nat
       /\ commBufferSize' = MsgHeaderSize + msg'.ReturnedSize
       /\ msg'.Data \in [1..cap -> Byte]
  BY <1>1, <1>4, <1>10, <1>14
<1> QED
  BY <1>1, <1>6, <1>14, <1>15, <1>16 DEF image
=============================================================================
