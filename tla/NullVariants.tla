---------------------------- MODULE NullVariants ----------------------------
(***************************************************************************)
(* The Null variants: files of BaseCryptLib that a build takes in place of *)
(* the functions it leaves out.  Each function asserts, which a release    *)
(* build does not, and refuses: FALSE, NULL, a size of 0, an error status. *)
(***************************************************************************)
EXTENDS CallSteps, TLC

Refuse(names) == [f \in names |-> <<Goto("FALSE")>>]

BnNumbersNull ==
  Refuse({"BigNumInit", "BigNumFromBin", "BigNumToBin", "BigNumFree", "BigNumAdd",
    "BigNumSub"})

BnModularNull ==
  Refuse({"BigNumMod", "BigNumExpMod", "BigNumInverseMod", "BigNumDiv", "BigNumMulMod"})

\* Two numbers that are compared are equal: BigNumCmp returns 0.
BnQuestionsNull ==
  Refuse({"BigNumBits", "BigNumBytes", "BigNumIsWord", "BigNumIsOdd", "BigNumCopy",
    "BigNumValueOne"})
  @@ ("BigNumCmp" :> <<Goto("TRUE")>>)

BnContextsNull ==
  Refuse({"BigNumRShift", "BigNumConstTime", "BigNumSqrMod", "BigNumNewContext",
    "BigNumContextFree", "BigNumSetUint", "BigNumAddMod"})

AeadAesGcmNull ==
  Refuse({"AeadAesGcmEncrypt", "AeadAesGcmDecrypt"})

AesNull ==
  Refuse({"AesGetContextSize", "AesInit", "AesCbcEncrypt", "AesCbcDecrypt"})

Md5Null ==
  Refuse({"Md5GetContextSize", "Md5Init", "Md5Duplicate", "Md5Update", "Md5Final",
    "Md5HashAll"})

ParallelHashNull ==
  Refuse({"ParallelHash256HashAll"})

Sha1Null ==
  Refuse({"Sha1GetContextSize", "Sha1Init", "Sha1Duplicate", "Sha1Update", "Sha1Final",
    "Sha1HashAll"})

Sha256Null ==
  Refuse({"Sha256GetContextSize", "Sha256Init", "Sha256Duplicate", "Sha256Update",
    "Sha256Final", "Sha256HashAll"})

Sha384Null ==
  Refuse({"Sha384GetContextSize", "Sha384Init", "Sha384Duplicate", "Sha384Update",
    "Sha384Final", "Sha384HashAll"})

Sha512Null ==
  Refuse({"Sha512GetContextSize", "Sha512Init", "Sha512Duplicate", "Sha512Update",
    "Sha512Final", "Sha512HashAll"})

Sm3Null ==
  Refuse({"Sm3GetContextSize", "Sm3Init", "Sm3Duplicate", "Sm3Update", "Sm3Final",
    "Sm3HashAll"})

HmacSha256Null ==
  Refuse({"HmacSha256New", "HmacSha256Free", "HmacSha256SetKey", "HmacSha256Duplicate",
    "HmacSha256Update", "HmacSha256Final", "HmacSha256All"})

HmacSha384Null ==
  Refuse({"HmacSha384New", "HmacSha384Free", "HmacSha384SetKey", "HmacSha384Duplicate",
    "HmacSha384Update", "HmacSha384Final", "HmacSha384All"})

HkdfSha256Null ==
  Refuse({"HkdfSha256ExtractAndExpand", "HkdfSha256Extract", "HkdfSha256Expand"})

HkdfSha384Null ==
  Refuse({"HkdfSha384ExtractAndExpand", "HkdfSha384Extract", "HkdfSha384Expand"})

PemNull ==
  Refuse({"RsaGetPrivateKeyFromPem", "EcGetPrivateKeyFromPem"})

AuthenticodeNull ==
  Refuse({"AuthenticodeVerify"})

DhNull ==
  Refuse({"DhNew", "DhFree", "DhGenerateParameter", "DhSetParameter", "DhGenerateKey",
    "DhComputeKey"})

EcGroupNull ==
  Refuse({"EcGroupInit", "EcGroupGetCurve", "EcGroupGetOrder", "EcGroupFree"})

EcPointNull ==
  Refuse({"EcPointInit", "EcPointDeInit", "EcPointGetAffineCoordinates",
    "EcPointSetAffineCoordinates", "EcPointAdd", "EcPointMul"})

EcPointTestsNull ==
  Refuse({"EcPointInvert", "EcPointIsOnCurve", "EcPointIsAtInfinity", "EcPointEqual",
    "EcPointSetCompressedCoordinates"})

EcKeyNull ==
  Refuse({"EcNewByNid", "EcFree", "EcGenerateKey", "EcGetPubKey", "EcDhComputeKey"})

EcDsaNull ==
  Refuse({"EcDsaSign", "EcDsaVerify"})

Pkcs1OaepNull ==
  Refuse({"Pkcs1v2Encrypt", "RsaOaepEncrypt", "Pkcs1v2Decrypt", "RsaOaepDecrypt"})

Pkcs5Pbkdf2Null ==
  Refuse({"Pkcs5HashPassword"})

Pkcs7SignNull ==
  Refuse({"Pkcs7Sign"})

Pkcs7VerifyEkuNull ==
  Refuse({"GetSignerCertificate", "IsEkuInCertificate", "CheckEKUs",
    "VerifyEKUsInPkcs7Signature"})

Pkcs7VerifyNull ==
  Refuse({"Pkcs7GetSigners", "Pkcs7FreeSigners", "Pkcs7GetCertificatesList",
    "Pkcs7Verify", "Pkcs7GetAttachedContent"})

RsaBasicNull ==
  Refuse({"RsaNew", "RsaFree", "RsaSetKey", "RsaPkcs1Verify"})

RsaExtNull ==
  Refuse({"RsaGetKey", "RsaGenerateKey", "RsaCheckKey", "RsaPkcs1Sign"})

RsaPssNull ==
  Refuse({"RsaPssVerify"})

RsaPssSignNull ==
  Refuse({"RsaPssSign"})

TsNull ==
  Refuse({"ImageTimestampVerify"})

X509ConstructNull ==
  Refuse({"X509ConstructCertificate", "X509ConstructCertificateStackV",
    "X509ConstructCertificateStack", "X509Free", "X509StackFree"})

X509NamesNull ==
  Refuse({"X509GetSubjectName", "X509GetCommonName", "X509GetOrganizationName",
    "RsaGetPublicKeyFromX509", "X509VerifyCert"})

X509FieldsNull ==
  Refuse({"X509GetTBSCert", "EcGetPublicKeyFromX509", "X509GetVersion",
    "X509GetSerialNumber", "X509GetIssuerName"})

X509ExtensionsNull ==
  Refuse({"X509GetSignatureAlgorithm", "X509GetExtensionData", "X509GetExtendedKeyUsage",
    "X509GetValidity"})

X509ChainNull ==
  Refuse({"X509FormatDateTime", "X509CompareDateTime", "X509GetKeyUsage",
    "X509VerifyCertChain", "X509GetCertFromCertChain"})

X509TagNull ==
  Refuse({"Asn1GetTag", "X509GetExtendedBasicConstraints"})

RandNull ==
  Refuse({"RandomSeed", "RandomBytes"})

NullFamily ==
  StandIns(BnNumbersNull @@ BnModularNull @@ BnQuestionsNull @@ BnContextsNull
     @@ AeadAesGcmNull @@ AesNull @@ Md5Null @@ ParallelHashNull @@ Sha1Null @@ Sha256Null
     @@ Sha384Null @@ Sha512Null @@ Sm3Null @@ HmacSha256Null @@ HmacSha384Null
     @@ HkdfSha256Null @@ HkdfSha384Null @@ PemNull @@ AuthenticodeNull @@ DhNull
     @@ EcGroupNull @@ EcPointNull @@ EcPointTestsNull @@ EcKeyNull @@ EcDsaNull
     @@ Pkcs1OaepNull @@ Pkcs5Pbkdf2Null @@ Pkcs7SignNull @@ Pkcs7VerifyEkuNull
     @@ Pkcs7VerifyNull @@ RsaBasicNull @@ RsaExtNull @@ RsaPssNull @@ RsaPssSignNull
     @@ TsNull @@ X509ConstructNull @@ X509NamesNull @@ X509FieldsNull
     @@ X509ExtensionsNull @@ X509ChainNull @@ X509TagNull @@ RandNull)

-----------------------------------------------------------------------------
(* The files of the MbedTLS build, which have functions of the same names.   *)

MbedBnNumbersNull == BnNumbersNull
MbedBnModularNull == BnModularNull
MbedBnQuestionsNull == BnQuestionsNull
MbedBnContextsNull == BnContextsNull
MbedAeadAesGcmNull == AeadAesGcmNull
MbedAesNull == AesNull @@ Refuse({"AesEcbEncrypt", "AesEcbDecrypt"})
MbedMd5Null == Md5Null
MbedParallelHashNull == ParallelHashNull
MbedSha1Null == Sha1Null
MbedSha256Null == Sha256Null
MbedSha384Null == Sha384Null
MbedSha512Null == Sha512Null
MbedSm3Null == Sm3Null
MbedHmacSha256Null == HmacSha256Null
MbedHmacSha384Null == HmacSha384Null
MbedHkdfSha256Null == HkdfSha256Null
MbedHkdfSha384Null == HkdfSha384Null
MbedPemNull == PemNull
MbedAuthenticodeNull == AuthenticodeNull
MbedDhNull == DhNull
MbedEcGroupNull == EcGroupNull
MbedEcPointNull == EcPointNull
MbedEcPointTestsNull == EcPointTestsNull
MbedEcKeyNull == EcKeyNull
MbedEcDsaNull == EcDsaNull
MbedPkcs1OaepNull == Pkcs1OaepNull
MbedPkcs5Pbkdf2Null == Pkcs5Pbkdf2Null
MbedPkcs7SignNull == Pkcs7SignNull
MbedPkcs7VerifyEkuNull == Pkcs7VerifyEkuNull
MbedPkcs7VerifyNull == Pkcs7VerifyNull
MbedRsaBasicNull == RsaBasicNull
MbedRsaExtNull == RsaExtNull
MbedRsaPssNull == RsaPssNull
MbedRsaPssSignNull == RsaPssSignNull
MbedTsNull == TsNull
MbedX509ConstructNull == X509ConstructNull
MbedX509NamesNull == X509NamesNull
MbedX509FieldsNull == X509FieldsNull
MbedX509ExtensionsNull == X509ExtensionsNull
MbedX509ChainNull == X509ChainNull
MbedX509TagNull == X509TagNull
MbedRandNull == RandNull
MbedPkcs7EncryptNull == Refuse({"Pkcs7Encrypt"})

MbedNullFamily ==
  StandIns(MbedBnNumbersNull @@ MbedBnModularNull @@ MbedBnQuestionsNull
     @@ MbedBnContextsNull @@ MbedAeadAesGcmNull @@ MbedAesNull @@ MbedMd5Null
     @@ MbedParallelHashNull @@ MbedSha1Null @@ MbedSha256Null @@ MbedSha384Null
     @@ MbedSha512Null @@ MbedSm3Null @@ MbedHmacSha256Null @@ MbedHmacSha384Null
     @@ MbedHkdfSha256Null @@ MbedHkdfSha384Null @@ MbedPemNull @@ MbedAuthenticodeNull
     @@ MbedDhNull @@ MbedEcGroupNull @@ MbedEcPointNull @@ MbedEcPointTestsNull
     @@ MbedEcKeyNull @@ MbedEcDsaNull @@ MbedPkcs1OaepNull @@ MbedPkcs5Pbkdf2Null
     @@ MbedPkcs7SignNull @@ MbedPkcs7VerifyEkuNull @@ MbedPkcs7VerifyNull
     @@ MbedRsaBasicNull @@ MbedRsaExtNull @@ MbedRsaPssNull @@ MbedRsaPssSignNull
     @@ MbedTsNull @@ MbedX509ConstructNull @@ MbedX509NamesNull @@ MbedX509FieldsNull
     @@ MbedX509ExtensionsNull @@ MbedX509ChainNull @@ MbedX509TagNull @@ MbedRandNull
     @@ MbedPkcs7EncryptNull)
=============================================================================
