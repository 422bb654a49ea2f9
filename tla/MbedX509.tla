------------------------------ MODULE MbedX509 ------------------------------
(***************************************************************************)
(* CryptX509.c of the MbedTLS build.  A certificate is a structure, and    *)
(* Certs the certificates that were read into it; the structures of most   *)
(* functions are local variables, Crt being what was read into one.        *)
(***************************************************************************)
EXTENDS CallSteps

\* The caller's pointer is set before the certificate is read.
X509ConstructCertificate ==
  <<Check, New("SingleX509Cert", "FALSE"), Null("Certs"), Out("SingleX509Cert"),
    New("Certs", "unread"), Goto("TRUE"),
    At("unread"), Free("Certs"), FreePool("SingleX509Cert"), Goto("FALSE")>>

X509Free == <<Free("Certs"), FreePool("SingleX509Cert"), Goto("TRUE")>>

CertificateFamily ==
  Context([X509ConstructCertificate |-> X509ConstructCertificate, X509Free |-> X509Free],
          "SingleX509Cert", {"Certs"}, {"X509ConstructCertificate"}, {"X509Free"})

-----------------------------------------------------------------------------
(* Stacks.                                                                   *)

\* The certificates of the list are read one after the other.
ReadCertificates ==
  <<Set(TRUE), At("next"), Try("end"), Try("end"), Set(FALSE), Ensure("Certs", "end"), Set(TRUE),
    Goto("next"), At("end")>>

X509ConstructCertificateStackV ==
  <<Check, New("X509Stack", "FALSE"), Null("Certs")>> \o ReadCertificates
  \o <<IfFailed("failed"), Out("X509Stack"), Return,
       At("failed"), Free("Certs"), FreePool("X509Stack"), Return>>

\* The same with the stack of an earlier call.
X509ExtendCertificateStackV == <<Check>> \o ReadCertificates \o <<Return>>

X509ConstructCertificateStack == X509ConstructCertificateStackV
X509ExtendCertificateStack == X509ExtendCertificateStackV

\* The structure itself is not freed.
X509StackFree == <<Free("Certs"), Goto("TRUE")>>

StackFamily ==
  Context([X509ConstructCertificateStack |-> X509ConstructCertificateStack,
           X509ExtendCertificateStack |-> X509ExtendCertificateStack,
           X509StackFree |-> X509StackFree],
          "X509Stack", {"Certs"}, {"X509ConstructCertificateStack"}, {"X509StackFree"})

-----------------------------------------------------------------------------
(* Questions about a certificate.                                            *)

OpenCrt == <<Check, Null("Crt"), New("Crt", "exit")>>
CloseCrt == <<At("exit"), Free("Crt"), Return>>

\* An answer that is copied if there is a buffer for it.
CopyAnswer == <<IfNoBuffer("told"), Use("Crt"), Fill, At("told"), Set(TRUE)>>

X509GetSubjectName == OpenCrt \o CopyAnswer \o CloseCrt
X509GetIssuerName == OpenCrt \o <<Try("exit")>> \o CopyAnswer \o CloseCrt
X509GetSerialNumber == OpenCrt \o <<Try("exit")>> \o CopyAnswer \o CloseCrt
X509GetSignatureAlgorithm == OpenCrt \o <<Try("exit")>> \o CopyAnswer \o CloseCrt
X509GetVersion == OpenCrt \o <<Use("Crt"), Fill, Set(TRUE)>> \o CloseCrt
X509GetKeyUsage == OpenCrt \o <<Use("Crt"), Fill, Set(TRUE)>> \o CloseCrt

\* The name is a part of the certificate.
InternalX509GetNIDName == <<Borrow("data", "Crt", "exit"), Try("exit"), Use("data")>> \o CopyAnswer

\* The FALSE for a certificate that is NULL is RETURN_SUCCESS.
InternalX509GetSubjectNIDName ==
  <<Try("TRUE"), Null("Crt"), New("Crt", "exit")>> \o InternalX509GetNIDName \o CloseCrt
InternalX509GetIssuerNIDName ==
  <<Try("TRUE"), Null("Crt"), New("Crt", "exit")>> \o InternalX509GetNIDName \o CloseCrt

X509GetCommonName == InternalX509GetSubjectNIDName
X509GetOrganizationName == InternalX509GetSubjectNIDName
X509GetIssuerCommonName == InternalX509GetIssuerNIDName
X509GetIssuerOrganizationName == InternalX509GetIssuerNIDName

\* Extensions are looked at until one has the object identifier.
InternalX509FindExtensionData ==
  <<At("extension"), Try("searched"), Try("extension"), Borrow("Ptr", "Crt", "extension"),
    At("searched")>>

\* Status is FALSE after the search, found or not, so that the answer is an empty
\* one; only a certificate without extensions gets past the test, and has none.
X509GetExtensionData ==
  OpenCrt \o <<Null("Ptr"), Call("Crt", "exit")>> \o InternalX509FindExtensionData
  \o <<IfFailed("nothing"), IfNull("Ptr", "exit"), Try("short"), Use("Ptr"), Fill, Set(TRUE),
       Goto("exit"), At("short"), Set(FALSE), Goto("exit"), At("nothing"), Set(TRUE), IfNull("Ptr", "absent"), Goto("exit"),
       At("absent"), Fill>> \o CloseCrt

X509GetExtendedKeyUsage == X509GetExtensionData
X509GetExtendedBasicConstraints == X509GetExtensionData

X509GetValidity ==
  OpenCrt \o <<Try("exit"), IfNoBuffer("from"), Use("Crt"), At("from"), Try("exit")>>
  \o CopyAnswer \o CloseCrt

\* Times are numbers read off the string, without a test of their ranges.
X509SetDateTime == <<Try("FALSE"), IfNoBuffer("TRUE"), Fill, Goto("TRUE")>>
X509FormatDateTime == <<Try("FALSE"), IfNoBuffer("FALSE"), Fill, Goto("TRUE")>>

-----------------------------------------------------------------------------
(* Verification and parsing.                                                 *)

X509VerifyCert ==
  <<Check, Null("Ca"), Null("End"), New("Ca", "exit"), New("End", "exit"), Use("Ca"),
    Call("End", "exit"), Fill, Set(TRUE), At("exit"), Free("Ca"), Free("End"), Return>>

\* The chain ends where no certificate follows.
X509VerifyCertChain ==
  <<At("next"), Try("end"), Try("FALSE"), Fill, Set(TRUE), Goto("next"), At("end"), Return>>

X509GetCertFromCertChain ==
  <<Check, At("next"), Try("last"), Try("next"), Fill, Goto("TRUE"),
    At("last"), Check, Fill, Goto("TRUE")>>

X509GetTBSCert == <<Check, Check, Check, Fill, Goto("TRUE")>>

Asn1GetTag == <<Check, Fill, Goto("TRUE")>>

QuestionFamily ==
  NoContext([X509GetSubjectName |-> X509GetSubjectName, X509GetIssuerName |-> X509GetIssuerName,
    X509GetCommonName |-> X509GetCommonName, X509GetOrganizationName |-> X509GetOrganizationName,
    X509GetIssuerCommonName |-> X509GetIssuerCommonName,
    X509GetIssuerOrganizationName |-> X509GetIssuerOrganizationName,
    X509GetVersion |-> X509GetVersion, X509GetSerialNumber |-> X509GetSerialNumber,
    X509GetSignatureAlgorithm |-> X509GetSignatureAlgorithm,
    X509GetExtendedKeyUsage |-> X509GetExtendedKeyUsage,
    X509GetExtendedBasicConstraints |-> X509GetExtendedBasicConstraints,
    X509GetValidity |-> X509GetValidity, X509GetKeyUsage |-> X509GetKeyUsage,
    X509SetDateTime |-> X509SetDateTime, X509FormatDateTime |-> X509FormatDateTime,
    X509VerifyCert |-> X509VerifyCert, X509VerifyCertChain |-> X509VerifyCertChain,
    X509GetCertFromCertChain |-> X509GetCertFromCertChain, X509GetTBSCert |-> X509GetTBSCert,
    Asn1GetTag |-> Asn1GetTag])
=============================================================================
