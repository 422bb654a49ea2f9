--------------------------- MODULE MbedSignatures ---------------------------
(***************************************************************************)
(* Signed messages in the MbedTLS build, whose PKCS#7 parser is part of    *)
(* BaseCryptLib.                                                           *)
(***************************************************************************)
EXTENDS CallSteps

\* Data that are not wrapped yet are copied behind a header.  Nobody frees the copy.
WrapPkcs7Data(fail) ==
  <<Null("WrapData"), Try("needs_wrap"), Goto("wrapped"), At("needs_wrap"),
    New("WrapData", fail), At("wrapped")>>

-----------------------------------------------------------------------------
(* The parser.  The first certificate is a part of the local variable Pkcs7: *)
(* Head is what was read into it.  Next is the structure that follows, and   *)
(* Others what was read into it and into the structures behind it.  Spare is *)
(* the structure that is added after every certificate.                      *)

Pkcs7Parts == <<"Head", "Next", "Others", "Spare", "Issuer">>

\* An element of the encoding is read.
ReadElement(fail) == Try(fail)

\* The name of the issuer is a list of its own.
MbedTlsPkcs7GetSignersInfoSet(fail) ==
  <<ReadElement(fail), New("Issuer", fail), ReadElement(fail)>>

\* Errors before the certificates do not end the function, and are forgotten when
\* a certificate is read.  mbedtls_calloc is not looked at.
Pkcs7GetCertificatesOf(bad) ==
  <<Try("read"), ReadElement(bad), New("Head", bad), New("Next", ""),
    Try("one"), ReadElement(bad), Use("Next"), New("Others", bad), New("Spare", ""),
    At("again"), Try("read"), ReadElement(bad), Use("Spare"), Give("Spare", "Others"), Try(bad),
    New("Spare", ""), Goto("again"),
    At("one"), IfNull("Next", "read"), Move("Next", "Spare"), Null("Next"), At("read")>>

\* What was read into the structures behind the first one is freed on an error.
Pkcs7GetSignedData(fail) ==
  Pkcs7GetCertificatesOf("bad") \o <<Try("bad")>> \o MbedTlsPkcs7GetSignersInfoSet("bad")
  \o <<Goto("parsed"), At("bad"), IfNull("Others", "unread"), IfNull("Spare", "chained"),
       Give("Spare", "Others"), At("chained"), Free("Others"), Null("Others"),
       At("unread"), Goto(fail), At("parsed")>>

MbedtlsPkcs7ParseDer(fail) ==
  NullAll(Pkcs7Parts) \o <<ReadElement(fail), Try(fail), ReadElement(fail)>>
  \o Pkcs7GetSignedData(fail)

\* The certificate that the signer names, among those of the message.
MbedTlsPkcs7FindSignerCert(none) == <<IfNull("Head", none), Borrow("Cert", "Head", none)>>

\* The certificate is signed by the trusted one, or by one of the message that is.
MbedTlsPkcs7VerifyCert(fail) == Call("Crt", fail)
MbedTlsPkcs7VerifyCertChain(fail) ==
  <<At("chain"), MbedTlsPkcs7VerifyCert(fail), Try("chain")>>

\* One of the certificates verifies the signature with one of the hashes.
MbedtlsPkcs7SignedDataVerifySigners(fail) == <<Call("Head", fail)>>

\* Fill is the signature that was found good.
MbedTlsPkcs7SignedDataVerify(fail) ==
  MbedTlsPkcs7FindSignerCert(fail) \o <<MbedTlsPkcs7VerifyCert("by_chain"), Goto("trusted"), At("by_chain")>>
  \o MbedTlsPkcs7VerifyCertChain(fail) \o <<At("trusted")>>
  \o MbedtlsPkcs7SignedDataVerifySigners(fail) \o <<Fill, Set(TRUE)>>

\* Next itself and what was read into Head stay behind.
Pkcs7Verify ==
  <<Check>> \o WrapPkcs7Data("FALSE") \o <<Null("Crt")>> \o MbedtlsPkcs7ParseDer("cleanup")
  \o <<New("Crt", "cleanup")>> \o MbedTlsPkcs7SignedDataVerify("cleanup")
  \o <<At("cleanup"), Free("Crt"), IfNull("Next", "end"), Free("Others"), At("end"), Return>>

\* The hash is found at the end of the content, which is then verified.
AuthenticodeVerify == <<Check, ReadElement("FALSE"), Try("FALSE")>> \o Pkcs7Verify

Pkcs7GetAttachedContent == <<Goto("FALSE")>>
Pkcs7GetCertificatesList == <<Goto("FALSE")>>

-----------------------------------------------------------------------------
(* Signers.                                                                  *)

\* After an error that is not the parser's the certificates are not freed at all.
Pkcs7GetSigners ==
  <<Check>> \o WrapPkcs7Data("FALSE") \o <<Null("CertBuf"), Null("OldBuf"), Null("Cert")>>
  \o MbedtlsPkcs7ParseDer("exit")
  \o <<At("signer")>> \o MbedTlsPkcs7FindSignerCert("exit")
  \o <<IfNull("CertBuf", "first"), Move("CertBuf", "OldBuf"), At("first"), New("CertBuf", "exit"),
       Free("OldBuf"), Null("OldBuf"), Use("Cert"), Try("signer"),
       New("TrustedCert", "exit"), Out("TrustedCert"), Out("CertBuf"), Fill, Set(TRUE),
       At("exit"), IfFailed("undo"), IfNull("Next", "kept"), Free("Others"), Goto("kept"),
       At("undo"), Free("CertBuf"), At("kept"), Free("OldBuf"), Return>>

Pkcs7FreeSigners == <<FreePool("CertBuf"), Goto("TRUE")>>

SignersFamily ==
  Context([Pkcs7GetSigners |-> Pkcs7GetSigners, Pkcs7FreeSigners |-> Pkcs7FreeSigners],
          "CertBuf", {}, {"Pkcs7GetSigners"}, {"Pkcs7FreeSigners"})

-----------------------------------------------------------------------------
(* Signing.  X509Stack and Certs are the caller's other certificates.        *)

\* An element is written in front of the others; the buffer may be too short.
WriteElement(short) == Call("Buffer", short)

\* A digest without a name is left out.
MbedTlsPkcs7WriteDigestAlgorithm(short) == <<Try("unnamed"), WriteElement(short), At("unnamed")>>
MbedTlsPkcs7WriteDigestAlgorithmSet(short) ==
  MbedTlsPkcs7WriteDigestAlgorithm(short) \o <<WriteElement(short)>>

\* The content is left out if there is none.
MbedTlsPkcs7WriteContentInfo(short) ==
  <<Try("no_content"), WriteElement(short), At("no_content"), WriteElement(short)>>

\* The certificates of the caller, and the signer's in front of them.
MbedTlsPkcs7WriteCertificates(short) ==
  <<IfNull("Others", "no_others"), Use("Others"), WriteElement(short), At("no_others"), Use("Crt"), WriteElement(short)>>

\* The serial number is copied without a look at the room that is left.
MbedTlsPkcs7WriteInt(short) == <<Use("Buffer"), WriteElement(short)>>
MbedTlsPkcs7WriteIssuerAndSerialNumber(short) ==
  MbedTlsPkcs7WriteInt(short) \o <<Use("Crt"), WriteElement(short)>>
MbedTlsPkcs7WriteSignerInfo(short) ==
  <<WriteElement(short)>> \o MbedTlsPkcs7WriteIssuerAndSerialNumber(short) \o <<WriteElement(short)>>

MbedTlsPkcs7WriteSignersInfoSet(short) == MbedTlsPkcs7WriteSignerInfo(short) \o <<WriteElement(short)>>

\* From the signers, at the end, to the version in front.
MbedTlsPkcs7WriteDer(short) ==
  MbedTlsPkcs7WriteSignersInfoSet(short) \o MbedTlsPkcs7WriteCertificates(short)
  \o MbedTlsPkcs7WriteContentInfo(short) \o MbedTlsPkcs7WriteDigestAlgorithmSet(short)
  \o <<WriteElement(short)>>

\* The other certificates are linked to the certificate of the signer and freed
\* with it.  The key is freed before it was initialised if its text cannot be copied.
Pkcs7Sign ==
  <<Check, Null("Buffer"), Null("Others"), Null("NewPrivateKey"), Null("Crt"), New("Crt", "FALSE"),
    New("NewPrivateKey", "cleanup"), Null("Pkey"), New("Pkey", "cleanup"), Try("cleanup"),
    Call("Pkey", "cleanup"), Try("alone"), Alias("Others", "X509Stack"), At("alone"),
    Call("Pkey", "cleanup"), New("Buffer", "cleanup"), At("write")>>
  \o MbedTlsPkcs7WriteDer("longer")
  \o <<Try("cleanup"), Goto("written"), At("longer"), FreePool("Buffer"), New("Buffer", "cleanup"), Goto("write"),
       At("written"), New("SignedData", "cleanup"), Use("Buffer"), Out("SignedData"), Set(TRUE),
       At("cleanup"), Free("Crt"), IfNull("Others", "unlinked"), Free("Certs"), Free("X509Stack"),
       At("unlinked"), Free("Pkey"), Free("NewPrivateKey"), Free("Buffer"), Return>>

-----------------------------------------------------------------------------
(* Key usages of the signer.                                                 *)

InternalX509FindExtensionData(x, none) ==
  <<At("extension" \o none), Call(x, none), ReadElement("extension" \o none)>>

\* The usage has to be the last one or to be followed by another.
IsEkuInCertificate ==
  <<Set(FALSE), Null("Buffer")>> \o InternalX509FindExtensionData("Cert", "looked")
  \o <<New("Buffer", "looked"), Call("Cert", "looked"), Try("looked"), Set(TRUE),
       At("looked"), Free("Buffer")>>

\* The loop ends at the first usage that is missing.  Fill: one, or all, were found.
CheckEKUs ==
  <<Set(FALSE), Try("checked"), At("usage")>> \o IsEkuInCertificate
  \o <<IfFailed("checked"), Try("enough"), Goto("usage"), At("enough"), Fill, At("checked")>>

\* A certificate without constraints is not freed, nor one for which there is no memory.
IsCertSignerCert(yes, no) ==
  <<Null("Buffer"), Null("Signer"), New("Signer", no)>> \o InternalX509FindExtensionData("Signer", yes)
  \o <<New("Buffer", no), Call("Signer", "constrained"), Free("Signer"), Free("Buffer"), Goto(yes),
       At("constrained"), Free("Signer"), Free("Buffer"), Goto(no)>>

\* The FALSE of the early returns is EFI_SUCCESS, also when a signer was found
\* before the last certificate.
VerifyEKUsInPkcs7Signature ==
  <<Check, Null("Cert"), ReadElement("TRUE"), At("candidate"), Try("last")>>
  \o IsCertSignerCert("found", "another") \o <<At("another"), ReadElement("TRUE"), Goto("candidate"),
       At("found"), Goto("TRUE"), At("last"), New("Cert", "TRUE")>>
  \o CheckEKUs \o <<Free("Cert"), Return>>

-----------------------------------------------------------------------------
(* Timestamps.                                                               *)

ConvertAsn1TimeToEfiTime(fail) == <<Try(fail), Fill>>

\* The token is read up to its time; the certificate of the authority is not used.
ImageTimestampVerify ==
  <<Check, Check, ReadElement("FALSE"), IfNoBuffer("TRUE")>> \o ConvertAsn1TimeToEfiTime("FALSE")
  \o <<Goto("TRUE")>>

MessageFamily ==
  NoContext([Pkcs7Verify |-> Pkcs7Verify, AuthenticodeVerify |-> AuthenticodeVerify,
    Pkcs7GetAttachedContent |-> Pkcs7GetAttachedContent,
    Pkcs7GetCertificatesList |-> Pkcs7GetCertificatesList,
    VerifyEKUsInPkcs7Signature |-> VerifyEKUsInPkcs7Signature,
    ImageTimestampVerify |-> ImageTimestampVerify])
=============================================================================
