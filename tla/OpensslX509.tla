---------------------------- MODULE OpensslX509 ----------------------------
(***************************************************************************)
(* CryptX509.c of the OpenSSL build: certificates and stacks of them.      *)
(***************************************************************************)
EXTENDS CallSteps

\* The certificate is a new object of the caller.
X509ConstructCertificate ==
  <<Check, New("SingleX509Cert", "FALSE"), Out("SingleX509Cert"), Goto("TRUE")>>

X509Free == <<Free("SingleX509Cert"), Goto("TRUE")>>

-----------------------------------------------------------------------------
(* Stacks.  The caller gives a stack or NULL; one that could not be filled   *)
(* is freed only if it was made here.                                        *)

\* The certificates of the list, each pushed on the stack.
PushCertificates ==
  <<Set(TRUE), At("next"), Try("end"), Set(FALSE), Try("end"),
    Null("X509Cert"), Construct("X509Cert", "end"), Push("X509Cert", "CertStack"),
    Goto("next"), At("end")>>

X509ConstructCertificateStackV ==
  <<Check, New("CertStack", "FALSE")>> \o PushCertificates
  \o <<IfFailed("failed"), Move("CertStack", "X509Stack"), Out("X509Stack"), Return,
       At("failed"), Free("CertStack"), Return>>

\* The same with the stack of an earlier call.
X509ExtendCertificateStackV ==
  <<Check, Alias("CertStack", "X509Stack")>> \o PushCertificates \o <<Return>>

X509ConstructCertificateStack == X509ConstructCertificateStackV
X509ExtendCertificateStack == X509ExtendCertificateStackV

X509StackFree == <<Free("X509Stack"), Goto("TRUE")>>

-----------------------------------------------------------------------------
(* Questions about a certificate.  It is parsed for the call and freed at    *)
(* the exit label.                                                           *)

OpenCert == <<Check, Null("X509Cert"), Construct("X509Cert", "exit")>>
CloseCert == <<At("exit"), Free("X509Cert"), Return>>

X509GetSubjectName ==
  OpenCert
  \o <<Set(FALSE), Borrow("X509Name", "X509Cert", "exit"), Use("X509Name"), Try("exit"),
       IfNoBuffer("exit"), Use("X509Name"), Fill, Set(TRUE)>>
  \o CloseCert

\* The name that is copied is the subject here too.
X509GetIssuerName == X509GetSubjectName

InternalX509GetNIDName ==
  <<Null("UTF8Name"), Check, Null("X509Cert"), Construct("X509Cert", "exit"), Set(FALSE),
    Borrow("X509Name", "X509Cert", "exit"), Call("X509Name", "exit"),
    Borrow("Entry", "X509Name", "exit"), Borrow("EntryData", "Entry", "exit"),
    NewFrom("UTF8Name", "EntryData", "exit"), IfNoBuffer("exit"),
    Use("UTF8Name"), Fill, Set(TRUE),
    At("exit"), Free("X509Cert"), Free("UTF8Name"), Return>>

X509GetCommonName == InternalX509GetNIDName
X509GetOrganizationName == InternalX509GetNIDName

X509GetVersion ==
  <<Null("X509Cert"), Construct("X509Cert", ""), IfFailed("exit"), Use("X509Cert"), Fill>>
  \o CloseCert

X509GetSerialNumber ==
  OpenCert
  \o <<Set(FALSE), Borrow("Asn1Integer", "X509Cert", "exit"), Try("exit"), Set(TRUE),
       IfNoBuffer("exit"), Use("Asn1Integer"), Fill>>
  \o CloseCert

\* The object of the algorithm belongs to the tables of the provider.
X509GetSignatureAlgorithm ==
  OpenCert
  \o <<Set(FALSE), Call("X509Cert", "exit"), Try("exit"), Set(TRUE), IfNoBuffer("exit"), Fill>>
  \o CloseCert

\* Without extensions, or without this one, the answer is an empty one.
X509GetExtensionData ==
  OpenCert
  \o <<Borrow("Extensions", "X509Cert", "empty"), Call("Extensions", "empty"), Null("Asn1Oct"),
       At("next"), Call("Extensions", "empty"), Borrow("Asn1Oct", "Extensions", "next"), Try("next"),
       Set(FALSE), Try("exit"), Set(TRUE), Use("Asn1Oct"), At("empty"), Fill>>
  \o CloseCert

X509GetExtendedKeyUsage == X509GetExtensionData
X509GetExtendedBasicConstraints == X509GetExtensionData

\* Status keeps the TRUE of the parsing when a time is absent or too long.
X509GetValidity ==
  OpenCert
  \o <<Borrow("F", "X509Cert", "exit"), Borrow("T", "X509Cert", "exit"), Try("exit"),
       IfNoBuffer("to"), Use("F"), At("to"), Try("exit"), IfNoBuffer("done"), Use("T"), Fill,
       At("done"), Set(TRUE)>>
  \o CloseCert

\* The usage is also stored when there is none.
X509GetKeyUsage ==
  OpenCert \o <<Use("X509Cert"), Fill, Try("exit"), Set(TRUE)>> \o CloseCert

X509FormatDateTime ==
  <<New("Dt", "exit"), Call("Dt", "exit"), Try("exit"), IfNoBuffer("done"), Use("Dt"), Fill,
    At("done"), Set(TRUE), At("exit"), Free("Dt"), Return>>

-----------------------------------------------------------------------------
(* Verification.                                                             *)

VerifyObjects == <<"X509Cert", "X509CACert", "CertStore", "CertCtx">>

\* X509_verify_cert is taken to answer 0 or 1; Fill is its 1.
X509VerifyCert ==
  <<Check>> \o NullAll(VerifyObjects)
  \o <<Try("exit"), Construct("X509Cert", "exit"), Construct("X509CACert", "exit"), Set(FALSE),
       New("CertStore", "exit"), Use("X509CACert"), Call("CertStore", "exit"),
       New("CertCtx", "exit"), Use("CertStore"), Use("X509Cert"), Call("CertCtx", "exit"),
       Call("CertCtx", "clean"), Set(TRUE), Fill, At("clean"), Use("CertCtx")>>
  \o <<At("exit")>> \o FreeAll(VerifyObjects) \o <<Return>>

\* Every certificate of the chain is verified against the one before it.
X509VerifyCertChain ==
  <<At("next"), Try("end"), Try("FALSE"), Fill, Set(TRUE), Goto("next"), At("end"), Return>>

-----------------------------------------------------------------------------
(* Parsing of the encoding; the answers are pointers into the input.         *)

X509GetTBSCert == <<Check, Check, Check, Fill, Goto("TRUE")>>

X509GetCertFromCertChain ==
  <<Check, At("next"), Try("last"), Try("next"), Fill, Goto("TRUE"),
    At("last"), Check, Fill, Goto("TRUE")>>

Asn1GetTag == <<Check, Fill, Goto("TRUE")>>

X509CompareDateTime == <<Goto("TRUE")>>

-----------------------------------------------------------------------------

CertificateFamily ==
  Context([X509ConstructCertificate |-> X509ConstructCertificate, X509Free |-> X509Free],
          "SingleX509Cert", {}, {"X509ConstructCertificate"}, {"X509Free"})

StackFamily ==
  Context([X509ConstructCertificateStack |-> X509ConstructCertificateStack,
           X509ExtendCertificateStack |-> X509ExtendCertificateStack,
           X509StackFree |-> X509StackFree],
          "X509Stack", {}, {"X509ConstructCertificateStack"}, {"X509StackFree"})

QuestionFamily ==
  NoContext([X509GetSubjectName |-> X509GetSubjectName, X509GetIssuerName |-> X509GetIssuerName,
    X509GetCommonName |-> X509GetCommonName,
    X509GetOrganizationName |-> X509GetOrganizationName, X509GetVersion |-> X509GetVersion,
    X509GetSerialNumber |-> X509GetSerialNumber,
    X509GetSignatureAlgorithm |-> X509GetSignatureAlgorithm,
    X509GetExtendedKeyUsage |-> X509GetExtendedKeyUsage,
    X509GetExtendedBasicConstraints |-> X509GetExtendedBasicConstraints,
    X509GetValidity |-> X509GetValidity, X509GetKeyUsage |-> X509GetKeyUsage,
    X509FormatDateTime |-> X509FormatDateTime, X509CompareDateTime |-> X509CompareDateTime,
    X509VerifyCert |-> X509VerifyCert, X509VerifyCertChain |-> X509VerifyCertChain,
    X509GetTBSCert |-> X509GetTBSCert, X509GetCertFromCertChain |-> X509GetCertFromCertChain,
    Asn1GetTag |-> Asn1GetTag])
=============================================================================
