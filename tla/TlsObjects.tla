----------------------------- MODULE TlsObjects -----------------------------
(***************************************************************************)
(* TlsLib: how a connection is made, set up, asked and freed.  What it does *)
(* with data is in TlsConnection.  An error status is FALSE here; Fill is   *)
(* the setting that took effect, or the answer.                             *)
(***************************************************************************)
EXTENDS CallSteps

-----------------------------------------------------------------------------
(* Connections.  The SSL object owns the two BIOs once it has been given them. *)

ReleaseTls == <<Free("TlsConn.Ssl"), FreePool("TlsConn")>>
TlsFree == ReleaseTls \o <<Goto("TRUE")>>

\* The store of certificates belongs to the SSL_CTX; a new one is given to it.
TlsNew ==
  <<New("TlsConn", "FALSE"), Null("TlsConn.Ssl"), New("TlsConn.Ssl", "drop"), Use("TlsConn.Ssl"),
    Null("TlsConn.InBio"), New("TlsConn.InBio", "drop"), Use("TlsConn.InBio"),
    Null("TlsConn.OutBio"), New("TlsConn.OutBio", "drop"), Use("TlsConn.OutBio"),
    Give("TlsConn.InBio", "TlsConn.Ssl"), Give("TlsConn.OutBio", "TlsConn.Ssl"),
    Borrow("X509Store", "TlsConn.Ssl", "store"), Use("X509Store"), Goto("made"),
    At("store"), New("X509Store", "drop"), Give("X509Store", "TlsConn.Ssl"), Use("X509Store"),
    At("made"), Out("TlsConn"), Goto("TRUE"), At("drop")>>
  \o ReleaseTls \o <<Goto("FALSE")>>

\* A setting that the provider may refuse, and the function then refuses.
SetOnSsl == <<Check, Call("TlsConn.Ssl", "FALSE"), Fill, Goto("TRUE")>>
\* One that the provider may refuse without the function looking.
SetUnseen == <<Check, Call("TlsConn.Ssl", "TRUE"), Fill, Goto("TRUE")>>
\* Something read from the connection.
GetFromSsl == <<Check, Use("TlsConn.Ssl"), Fill, Goto("TRUE")>>

TlsSetVersion == SetUnseen
TlsSetConnectionEnd == <<Check, Check, Use("TlsConn.Ssl"), Fill, Goto("TRUE")>>
TlsSetVerify == GetFromSsl
TlsSetSecurityLevel == <<Check, Check, Use("TlsConn.Ssl"), Fill, Goto("TRUE")>>

\* The name for SNI may be refused; the one that is verified may not.
TlsSetVerifyHost ==
  <<Check, Use("TlsConn.Ssl"), Borrow("VerifyParam", "TlsConn.Ssl", ""),
    Call("VerifyParam", "FALSE"), Fill, Goto("TRUE")>>

TlsSetCipherList ==
  <<Check, Check, New("MappedCipher", "FALSE"), Use("TlsConn.Ssl"), Use("MappedCipher"),
    Try("mapped"), New("CipherString", "mapped"), Use("MappedCipher"), Use("CipherString"),
    Call("TlsConn.Ssl", "string"), Fill, Set(TRUE),
    At("string"), FreePool("CipherString"), At("mapped"), FreePool("MappedCipher"), Return>>

TlsSetSignatureAlgoList ==
  <<Check, Try("FALSE"), New("SignAlgoStr", "FALSE"), Use("SignAlgoStr"),
    Call("TlsConn.Ssl", "free"), Fill, Set(TRUE), At("free"), FreePool("SignAlgoStr"), Return>>

\* The curve is set before the key is made.
TlsSetEcCurve ==
  <<Check, Check, Call("TlsConn.Ssl", "FALSE"), New("EcKey", "FALSE"),
    Call("TlsConn.Ssl", "free"), Fill, Set(TRUE), At("free"), Free("EcKey"), Return>>

\* The extension context is only ever pointed to by the SSL_CTX.
TlsSetServerName ==
  <<Check, New("TlsExtCtx", "FALSE"), Try("FALSE"), Try("FALSE"), Call("TlsConn.Ssl", "FALSE"),
    Fill, Goto("TRUE")>>

TlsSetSessionId == <<Check, Borrow("Session", "TlsConn.Ssl", "FALSE"), Call("Session", "TRUE"),
                     Fill, Goto("TRUE")>>

\* A certificate in DER or in PEM form.
ReadCertificate ==
  <<Check, Null("BioCert"), Null("Cert"), New("Cert", "pem"), Goto("read"), At("pem"),
    New("BioCert", "exit"), Call("BioCert", "exit"), NewFrom("Cert", "BioCert", "exit"), At("read")>>

\* A certificate that is in the store already is not an error.
TlsSetCaCertificate ==
  ReadCertificate
  \o <<Borrow("X509Store", "TlsConn.Ssl", "exit"), Use("Cert"), Call("X509Store", "there"),
       Goto("added"), At("there"), Try("exit"), At("added"), Fill, Set(TRUE), At("exit"),
       Free("BioCert"), Free("Cert"), Return>>

TlsSetHostPublicCert ==
  ReadCertificate
  \o <<Use("Cert"), Call("TlsConn.Ssl", "exit"), Fill, Set(TRUE), At("exit"),
       Free("BioCert"), Free("Cert"), Return>>

\* The key as RSA, DSA or EC, then from PEM, must fit the certificate.
TlsSetHostPrivateKeyEx ==
  <<Check, Call("TlsConn.Ssl", "pem"), Goto("verify"), At("pem"), New("Bio", "FALSE"),
    NewFrom("Pkey", "Bio", "free"), Call("TlsConn.Ssl", "free"), Set(TRUE), At("free"),
    Free("Pkey"), Free("Bio"), IfFailed("FALSE"), At("verify"), Call("TlsConn.Ssl", "FALSE"),
    Fill, Goto("TRUE")>>

TlsGetVersion == GetFromSsl
TlsGetConnectionEnd == GetFromSsl
TlsGetVerify == GetFromSsl
TlsGetClientRandom == GetFromSsl
TlsGetServerRandom == GetFromSsl
TlsGetCurrentCipher == <<Check, Borrow("Cipher", "TlsConn.Ssl", "FALSE"), Use("Cipher"), Fill, Goto("TRUE")>>
TlsGetSessionId == <<Check, Borrow("Session", "TlsConn.Ssl", "FALSE"), Use("Session"), Fill, Goto("TRUE")>>

\* A session without a key yet gives none.
TlsGetKeyMaterial ==
  <<Check, Borrow("Session", "TlsConn.Ssl", "FALSE"), Call("Session", "TRUE"), Fill, Goto("TRUE")>>

TlsGetHostPublicCert ==
  <<Check, Borrow("Cert", "TlsConn.Ssl", "FALSE"), Use("Cert"), IfNoBuffer("FALSE"), Use("Cert"),
    Fill, Goto("TRUE")>>

TlsGetExportKey == SetOnSsl

\* Without a password.
TlsSetHostPrivateKey == TlsSetHostPrivateKeyEx

\* Not supported.
TlsGetCurrentCompressionId == <<Goto("FALSE")>>
TlsGetCaCertificate == <<Goto("FALSE")>>
TlsGetHostPrivateKey == <<Goto("FALSE")>>
TlsSetCertRevocationList == <<Goto("FALSE")>>
TlsGetCertRevocationList == <<Goto("FALSE")>>

TlsFamily ==
  Context([TlsNew |-> TlsNew, TlsFree |-> TlsFree, TlsSetVersion |-> TlsSetVersion,
    TlsSetConnectionEnd |-> TlsSetConnectionEnd, TlsSetVerify |-> TlsSetVerify,
    TlsSetSecurityLevel |-> TlsSetSecurityLevel, TlsSetVerifyHost |-> TlsSetVerifyHost,
    TlsSetCipherList |-> TlsSetCipherList, TlsSetSignatureAlgoList |-> TlsSetSignatureAlgoList,
    TlsSetEcCurve |-> TlsSetEcCurve, TlsSetServerName |-> TlsSetServerName,
    TlsSetSessionId |-> TlsSetSessionId, TlsSetCaCertificate |-> TlsSetCaCertificate,
    TlsSetHostPublicCert |-> TlsSetHostPublicCert,
    TlsSetHostPrivateKeyEx |-> TlsSetHostPrivateKeyEx, TlsGetVersion |-> TlsGetVersion,
    TlsGetConnectionEnd |-> TlsGetConnectionEnd, TlsGetVerify |-> TlsGetVerify,
    TlsGetClientRandom |-> TlsGetClientRandom, TlsGetServerRandom |-> TlsGetServerRandom,
    TlsGetCurrentCipher |-> TlsGetCurrentCipher, TlsGetSessionId |-> TlsGetSessionId,
    TlsGetKeyMaterial |-> TlsGetKeyMaterial, TlsGetHostPublicCert |-> TlsGetHostPublicCert,
    TlsGetExportKey |-> TlsGetExportKey, TlsSetHostPrivateKey |-> TlsSetHostPrivateKey,
    TlsGetCurrentCompressionId |-> TlsGetCurrentCompressionId,
    TlsGetCaCertificate |-> TlsGetCaCertificate, TlsGetHostPrivateKey |-> TlsGetHostPrivateKey],
    "TlsConn", {"TlsConn.Ssl", "TlsConn.InBio", "TlsConn.OutBio"}, {"TlsNew"}, {"TlsFree"})

-----------------------------------------------------------------------------
(* The contexts connections are made from.                                   *)

TlsCtxNew == <<New("TlsCtx", "FALSE"), Use("TlsCtx"), Out("TlsCtx"), Goto("TRUE")>>
TlsCtxFree == <<Free("TlsCtx"), Goto("TRUE")>>

TlsCtxFamily ==
  Context([TlsCtxNew |-> TlsCtxNew, TlsCtxFree |-> TlsCtxFree], "TlsCtx", {}, {"TlsCtxNew"}, {"TlsCtxFree"})

-----------------------------------------------------------------------------
(* The library.                                                              *)

TlsInitialize == <<Try("FALSE"), Try("FALSE"), Fill, Goto("TRUE")>>
TlsSetCompressionMethod == <<Try("zlib"), Fill, Goto("TRUE"), At("zlib"), Check, Check, Fill, Goto("TRUE")>>

TlsLibraryFamily ==
  NoContext([TlsInitialize |-> TlsInitialize, TlsSetCompressionMethod |-> TlsSetCompressionMethod,
    TlsSetCertRevocationList |-> TlsSetCertRevocationList,
    TlsGetCertRevocationList |-> TlsGetCertRevocationList])
=============================================================================
