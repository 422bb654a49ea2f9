------------------------- MODULE MCProviderObjects -------------------------
(***************************************************************************)
(* ProviderObjects with the functions of the OpenSSL and MbedTLS builds.   *)
(***************************************************************************)
EXTENDS TLC, ProviderObjects

X == INSTANCE OpensslX509
K == INSTANCE OpensslKeys
C == INSTANCE OpensslCurves
S == INSTANCE OpensslPkcs7
MX == INSTANCE MbedX509
MK == INSTANCE MbedKeys
MS == INSTANCE MbedSignatures
Y == INSTANCE OpensslSymmetric
MY == INSTANCE MbedSymmetric
T == INSTANCE TlsObjects
D == INSTANCE OpensslDigests
MD == INSTANCE MbedDigests
N == INSTANCE NullVariants
L == INSTANCE OneCryptoLibs
G == INSTANCE OpensslGlue

\* Pkcs7Sign of the MbedTLS build takes a stack of certificates.
MbedStackFamily ==
  Context(MX!StackFamily.code @@ ("Pkcs7Sign" :> MS!Pkcs7Sign),
          "X509Stack", {"Certs"}, {"X509ConstructCertificateStack"}, {"X509StackFree"})

Families ==
  ("openssl_certificate" :> X!CertificateFamily) @@ ("openssl_stack" :> X!StackFamily)
  @@ ("openssl_x509" :> X!QuestionFamily) @@ ("openssl_rsa" :> K!RsaFamily)
  @@ ("openssl_oaep" :> K!OaepFamily) @@ ("openssl_ec" :> C!EcFamily)
  @@ ("openssl_group" :> C!GroupFamily) @@ ("openssl_point" :> C!PointFamily)
  @@ ("openssl_bn" :> C!BigNumFamily) @@ ("openssl_bnctx" :> C!BigNumContextFamily)
  @@ ("openssl_dh" :> C!DhFamily) @@ ("openssl_signers" :> S!SignersFamily)
  @@ ("openssl_message" :> S!MessageFamily) @@ ("mbedtls_certificate" :> MX!CertificateFamily)
  @@ ("mbedtls_stack" :> MbedStackFamily) @@ ("mbedtls_x509" :> MX!QuestionFamily)
  @@ ("mbedtls_rsa" :> MK!RsaFamily) @@ ("mbedtls_oaep" :> MK!OaepFamily)
  @@ ("mbedtls_signers" :> MS!SignersFamily) @@ ("mbedtls_message" :> MS!MessageFamily)
  @@ ("openssl_hmac256" :> Y!HmacSha256Family)
  @@ ("openssl_hmac384" :> Y!HmacSha384Family) @@ ("openssl_symmetric" :> Y!SymmetricFamily)
  @@ ("mbedtls_hmac256" :> MY!HmacSha256Family)
  @@ ("mbedtls_hmac384" :> MY!HmacSha384Family) @@ ("mbedtls_symmetric" :> MY!SymmetricFamily)
  @@ ("tls" :> T!TlsFamily) @@ ("tls_ctx" :> T!TlsCtxFamily) @@ ("tls_library" :> T!TlsLibraryFamily)
  @@ ("openssl_digest" :> D!DigestFamily) @@ ("mbedtls_digest" :> MD!DigestFamily)
  @@ ("openssl_null" :> N!NullFamily) @@ ("mbedtls_null" :> N!MbedNullFamily)
  @@ ("memory" :> L!MemoryFamily) @@ ("services" :> L!ServiceFamily)
  @@ ("default_provider" :> G!DefaultProviderFamily) @@ ("random" :> G!RandomFamily)

\* What the code does otherwise than the properties say, one line a place.
OpensslFaults ==
  { \* The result of sk_X509_push is not looked at.
    <<"leak", "openssl_stack", "X509ConstructCertificateStack", "X509Cert">>,
    <<"leak", "openssl_stack", "X509ExtendCertificateStack", "X509Cert">>,
    \* A validity without readable times is reported as TRUE.
    <<"result", "openssl_x509", "X509GetValidity", "">>,
    \* The stack of signers is freed with its certificates, after the message.
    <<"dangling", "openssl_signers", "Pkcs7GetSigners", "Rest">>,
    \* No memory, or a certificate that cannot be copied, is not an error.
    <<"result", "openssl_signers", "Pkcs7GetSigners", "">>,
    \* The chain made here and the issuer that was looked up are not freed.
    <<"leak", "openssl_message", "Pkcs7GetCertificatesList", "CtxChain">>,
    <<"leak", "openssl_message", "Pkcs7GetCertificatesList", "Issuer">>,
    \* Errors before the lists are made leave the TRUE of the wrapping.
    <<"result", "openssl_message", "Pkcs7GetCertificatesList", "">>,
    \* The first list stays with the caller when the second cannot be made.
    <<"given", "openssl_message", "Pkcs7GetCertificatesList", "">>,
    \* A message too long for the parser is reported as TRUE.
    <<"result", "openssl_message", "Pkcs7GetAttachedContent", "">>,
    \* Imprints of different length are not compared.
    <<"result", "openssl_message", "ImageTimestampVerify", "">>,
    \* Bytes that could not be filled go to the pool as they are.
    <<"dangling", "openssl_digest", "ossl_pool_add_nonce_data", "data">>,
    <<"dangling", "openssl_digest", "rand_pool_add_additional_data", "data">> }

\* The functions that parse a message with the parser of BaseCryptLib.
MbedtlsParsers ==
  {<<"mbedtls_message", "Pkcs7Verify">>, <<"mbedtls_message", "AuthenticodeVerify">>,
   <<"mbedtls_signers", "Pkcs7GetSigners">>}

MbedtlsFaults ==
  { \* The caller's pointer is set before the certificate is read, and stays.
    <<"given", "mbedtls_certificate", "X509ConstructCertificate", "">>,
    \* The structure at the head of a stack is not freed.
    <<"leak", "mbedtls_stack", "X509StackFree", "X509Stack">>,
    \* The caller's certificates are freed with the signer's; the key is freed
    \* before it is initialised.
    <<"dangling", "mbedtls_stack", "Pkcs7Sign", "X509Stack">>,
    <<"dangling", "mbedtls_stack", "Pkcs7Sign", "Pkey">>,
    \* An extension that was found is answered with an empty one.
    <<"result", "mbedtls_x509", "X509GetExtendedKeyUsage", "">>,
    <<"result", "mbedtls_x509", "X509GetExtendedBasicConstraints", "">>,
    \* The RSA context is freed before it is initialised.
    <<"dangling", "mbedtls_oaep", "Pkcs1v2Encrypt", "RsaContext">>,
    \* A certificate that may sign is not freed.
    <<"leak", "mbedtls_message", "VerifyEKUsInPkcs7Signature", "Signer">>,
    \* A signature that cannot be read, or whose signer is not its last
    \* certificate, is reported as EFI_SUCCESS.
    <<"result", "mbedtls_message", "VerifyEKUsInPkcs7Signature", "">> }
  \cup \* A padding that cannot be set loses the new context.
  {<<"leak", "mbedtls_rsa", f, "Rsa">> :
      f \in {"RsaNew", "RsaGetPublicKeyFromX509", "RsaGetPrivateKeyFromPem"}}
  \cup \* No certificate at all is reported as success.
  {<<"result", "mbedtls_x509", f, "">> :
      f \in {"X509GetCommonName", "X509GetOrganizationName", "X509GetIssuerCommonName",
             "X509GetIssuerOrganizationName"}}
  \cup \* The wrapped copy, the structures and names of the parser are not freed, and
       \* a structure for which there is no memory is not noticed.
  {<<"leak", m[1], m[2], x>> : m \in MbedtlsParsers,
      x \in {"WrapData", "Head", "Next", "Others", "Spare", "Issuer"}}
  \cup {<<"null", m[1], m[2], x>> : m \in MbedtlsParsers, x \in {"Next", "Spare"}}

HmacFaults(hmac, fns) ==
  \* A key that is set again, or a copy over a context that has one, forgets the
  \* buffers; after a copy that failed the pointers to freed buffers stay.
  {<<"leak", hmac, f, x>> : f \in {fns.SetKey, fns.Duplicate}, x \in {"md_ctx", "hmac_ctx"}}
  \cup {<<"dangling", hmac, fns.Free, x>> : x \in {"md_ctx", "hmac_ctx"}}
  \cup {<<"dangling", hmac, f, "hmac_ctx">> : f \in {fns.Update, fns.Final}}

MbedtlsSymmetricFaults ==
  HmacFaults("mbedtls_hmac256",
    [SetKey |-> "HmacSha256SetKey", Duplicate |-> "HmacSha256Duplicate", Free |-> "HmacSha256Free",
     Update |-> "HmacSha256Update", Final |-> "HmacSha256Final"])
  \cup HmacFaults("mbedtls_hmac384",
    [SetKey |-> "HmacSha384SetKey", Duplicate |-> "HmacSha384Duplicate", Free |-> "HmacSha384Free",
     Update |-> "HmacSha384Update", Final |-> "HmacSha384Final"])
  \cup \* A key that cannot be set leaves the cipher behind.
  {<<"leak", "mbedtls_symmetric", f, "Ctx">> : f \in {"AeadAesGcmEncrypt", "AeadAesGcmDecrypt"}}

TlsFaults ==
  { \* Without a second BIO the first one, not yet given to the SSL object, is lost.
    <<"leak", "tls", "TlsNew", "TlsConn.InBio">>,
    \* The extension context is never freed.
    <<"leak", "tls", "TlsSetServerName", "TlsExtCtx">>,
    \* Settings the provider refused, and a session without a key, are EFI_SUCCESS.
    <<"result", "tls", "TlsSetVersion", "">>, <<"result", "tls", "TlsSetSessionId", "">>,
    <<"result", "tls", "TlsGetKeyMaterial", "">> }

\* Numbers that cannot be compared are reported as equal.
NullFaults == {<<"result", n, "BigNumCmp", "">> : n \in {"openssl_null", "mbedtls_null"}}

\* NanoSecondDelay does not wait.
LibraryFaults == {<<"result", "services", "NanoSecondDelay", "">>}

KnownFaults ==
  OpensslFaults \cup MbedtlsFaults \cup MbedtlsSymmetricFaults \cup TlsFaults
  \cup NullFaults \cup LibraryFaults

\* One function alone, held to what its comment says.
EkuFamily ==
  "mbedtls_message" :> NoContext([VerifyEKUsInPkcs7Signature |-> MS!VerifyEKUsInPkcs7Signature])
NoFaults == {}
=============================================================================
