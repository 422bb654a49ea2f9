------------------------- MODULE MCProviderClients -------------------------
(* ProviderClients for TLC: two-byte payload areas against images of up to  *)
(* four bytes, offsets up to one past the end.                              *)
EXTENDS ProviderClients, SequencesExt

MCByte == {0, 1}

MCCrc(s) == FoldSeq(LAMBDA b, acc : IF b = Foreign THEN acc ELSE (b + acc) % 2, 0, s)

Volume(files) == [Length |-> 1, files |-> files]
Driver(data) == [Name |-> ONE_CRYPTO_BINARY_GUID, pe32 |-> data, guided |-> <<>>]
Container(start, bytes) ==
  [Name |-> ONE_CRYPTO_CONTAINER_FV_GUID, pe32 |-> <<>>,
   guided |-> <<[DataOffset |-> start, bytes |-> bytes]>>]
Hobs(fv3, fv) == [t \in HobTypes |-> IF t = "FV3" THEN fv3 ELSE IF t = "FV" THEN fv ELSE <<>>]

MCHobLists == {
  Hobs(<<>>, <<>>),
  Hobs(<<>>, <<Volume(<<Container(0, <<0, 1>>), Driver(<<1, 0, 1>>)>>)>>),
  Hobs(<<Volume(<<Container(1, <<1, 1, 0, 1>>)>>)>>, <<Volume(<<Driver(<<1>>)>>)>>),
  Hobs(<<Volume(<<Driver(<<0, 1, 0, 1, 1>>)>>)>>, <<>>)
}
=============================================================================
