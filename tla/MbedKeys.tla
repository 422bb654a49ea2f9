------------------------------ MODULE MbedKeys ------------------------------
(***************************************************************************)
(* RSA keys in the MbedTLS build.  The context is a structure whose        *)
(* numbers belong to it.                                                   *)
(***************************************************************************)
EXTENDS CallSteps

\* Functions that this build does not have: they return FALSE.
Unsupported == <<Goto("FALSE")>>

\* The structure is lost when the padding cannot be set.
NewRsa(fail) == <<New("Rsa", fail), Null("Numbers"), Call("Rsa", fail)>>
RsaNew == NewRsa("FALSE") \o <<Out("Rsa"), Goto("TRUE")>>

ReleaseRsa == <<Free("Numbers"), FreePool("Rsa")>>
RsaFree == ReleaseRsa \o <<Goto("TRUE")>>

\* The number is read, if there is one, and copied to the context.
RsaSetKey ==
  <<Check, Null("Value"), Try("import"), New("Value", "FALSE"), At("import"), Use("Rsa"),
    Ensure("Numbers", "end"), Set(TRUE), At("end"), Free("Value"), Return>>

\* A number that is zero or not set is an empty answer.
RsaGetKey ==
  <<Check, Null("Value"), Use("Rsa"), New("Value", "end"), Try("empty"), Try("end"),
    IfNoBuffer("told"), Call("Value", "end"), At("empty"), Fill, At("told"), Set(TRUE),
    At("end"), Free("Value"), Return>>

RsaGenerateKey == <<Check, Check, Use("Rsa"), Ensure("Numbers", "FALSE"), Goto("TRUE")>>

RsaCheckKey == <<Check, Call("Rsa", "FALSE"), Result("Rsa"), Return>>

\* The key is completed, the sizes compared; Fill is the verification.
RsaPkcs1Verify ==
  <<Check, Call("Rsa", "FALSE"), Check, Check, Use("Rsa"), Call("Rsa", "FALSE"), Fill, Goto("TRUE")>>
RsaPssVerify == RsaPkcs1Verify

RsaPkcs1Sign ==
  <<Check, Call("Rsa", "FALSE"), Check, IfNoBuffer("FALSE"), Call("Rsa", "FALSE"),
    Call("Rsa", "FALSE"), Fill, Goto("TRUE")>>
RsaPssSign == RsaPkcs1Sign

\* The certificate is freed whatever comes after it was read.
RsaGetPublicKeyFromX509 ==
  <<Null("Crt"), New("Crt", "FALSE"), Call("Crt", "drop")>> \o NewRsa("drop")
  \o <<Use("Crt"), New("Numbers", "undo"), Free("Crt"), Out("Rsa"), Goto("TRUE"),
       At("undo")>> \o ReleaseRsa \o <<At("drop"), Free("Crt"), Goto("FALSE")>>

\* A file without a zero at its end is copied first.
RsaGetPrivateKeyFromPem ==
  <<Check, Null("NewPemData"), Try("copy"), Goto("read"), At("copy"), New("NewPemData", "FALSE"),
    At("read"), New("Pk", ""), IfNull("NewPemData", "parsed"), FreePool("NewPemData"),
    At("parsed"), IfNull("Pk", "drop"), Call("Pk", "drop")>> \o NewRsa("drop")
  \o <<Use("Pk"), New("Numbers", "undo"), Free("Pk"), Out("Rsa"), Goto("TRUE"),
       At("undo")>> \o ReleaseRsa \o <<At("drop"), Free("Pk"), Goto("FALSE")>>

\* The exit frees an RSA context that has not been initialised yet.
Pkcs1v2Encrypt ==
  <<Check, Null("OutData"), Null("CertContext"), New("CertContext", "exit"),
    Call("CertContext", "exit"), Null("RsaContext"), Try("exit"), Use("CertContext"),
    New("RsaContext", "exit"), New("OutData", "exit"), Call("RsaContext", "wipe"),
    Out("OutData"), Set(TRUE), Goto("exit"), At("wipe"), FreePool("OutData"), Null("OutData"),
    At("exit"), Free("CertContext"), Free("RsaContext"), Return>>

Pkcs5HashPassword == <<Check, Check, Try("FALSE"), Fill, Goto("TRUE")>>

Pkcs1v2Decrypt == Unsupported
RsaOaepEncrypt == Unsupported
RsaOaepDecrypt == Unsupported
EcGetPrivateKeyFromPem == Unsupported
EcGetPublicKeyFromX509 == Unsupported

RsaFamily ==
  Context([RsaNew |-> RsaNew, RsaFree |-> RsaFree, RsaSetKey |-> RsaSetKey, RsaGetKey |-> RsaGetKey,
    RsaGenerateKey |-> RsaGenerateKey, RsaCheckKey |-> RsaCheckKey,
    RsaPkcs1Verify |-> RsaPkcs1Verify, RsaPssVerify |-> RsaPssVerify,
    RsaPkcs1Sign |-> RsaPkcs1Sign, RsaPssSign |-> RsaPssSign,
    RsaOaepEncrypt |-> RsaOaepEncrypt, RsaOaepDecrypt |-> RsaOaepDecrypt,
    RsaGetPublicKeyFromX509 |-> RsaGetPublicKeyFromX509,
    RsaGetPrivateKeyFromPem |-> RsaGetPrivateKeyFromPem],
    "Rsa", {"Numbers"}, {"RsaNew", "RsaGetPublicKeyFromX509", "RsaGetPrivateKeyFromPem"}, {"RsaFree"})

OaepFamily ==
  NoContext([Pkcs1v2Encrypt |-> Pkcs1v2Encrypt, Pkcs1v2Decrypt |-> Pkcs1v2Decrypt,
    Pkcs5HashPassword |-> Pkcs5HashPassword, EcGetPrivateKeyFromPem |-> EcGetPrivateKeyFromPem,
    EcGetPublicKeyFromX509 |-> EcGetPublicKeyFromX509])
=============================================================================
