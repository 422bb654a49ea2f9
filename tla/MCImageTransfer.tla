-------------------------- MODULE MCImageTransfer --------------------------
(* Instances of ImageTransfer for TLC: images of up to four bytes, a scaled *)
(* UINT32, and HOB lists that exercise each outcome of the discovery.       *)
EXTENDS ImageTransfer, SequencesExt

MCByte == {0, 1}

\* A CRC of one bit: it changes whenever one bit does, and may be 0.
MCCrc(s) == FoldSeq(LAMBDA b, acc : IF b = Foreign THEN acc ELSE (b + acc) % 2, 0, s)

Volume(files) == [Length |-> 1, files |-> files]
Driver(data) == [Name |-> ONE_CRYPTO_BINARY_GUID, pe32 |-> data, guided |-> <<>>]
Container(start, bytes) ==
  [Name |-> ONE_CRYPTO_CONTAINER_FV_GUID, pe32 |-> <<>>,
   guided |-> <<[DataOffset |-> start, bytes |-> bytes]>>]
OtherNested == [Name |-> "Other", pe32 |-> <<>>,
                guided |-> <<[DataOffset |-> 0, bytes |-> <<0, 0>>]>>]
Hobs(fv3, fv, fv2) == [t \in HobTypes |-> CASE t = "FV3" -> fv3 [] t = "FV" -> fv [] t = "FV2" -> fv2]

MCHobLists == {
  \* nothing to serve
  Hobs(<<Volume(<<OtherNested>>)>>, <<[Length |-> 0, files |-> <<Driver(<<1>>)>>]>>, <<>>),
  \* a direct PE32, behind a container of the same volume
  Hobs(<<>>, <<Volume(<<Container(0, <<0, 1>>), Driver(<<1, 0, 1>>)>>)>>, <<>>),
  \* a container only, found after another nested volume
  Hobs(<<Volume(<<OtherNested>>)>>, <<>>,
       <<Volume(<<OtherNested, Driver(<<>>), Container(1, <<1, 1, 0, 1>>)>>)>>),
  \* an image that does not fit a UINT32
  Hobs(<<Volume(<<Driver(<<0, 1, 0, 1, 1>>)>>)>>, <<Volume(<<Driver(<<1>>)>>)>>, <<>>)
}
=============================================================================
