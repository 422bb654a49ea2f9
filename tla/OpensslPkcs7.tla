---------------------------- MODULE OpensslPkcs7 ----------------------------
(***************************************************************************)
(* Signed messages in the OpenSSL build: PKCS#7, Authenticode, the         *)
(* timestamps of images and the key usages of signers.  The steps are      *)
(* those of CallSteps.                                                     *)
(***************************************************************************)
EXTENDS CallSteps

\* Data that are not wrapped yet are copied behind a header; SignedData is NULL
\* for data that are used as the caller gave them.
WrapPkcs7Data(fail) ==
  <<Null("SignedData"), Try("needs_wrap"), Goto("wrapped"), At("needs_wrap"),
    New("SignedData", fail), At("wrapped")>>

-----------------------------------------------------------------------------
(* The certificates of a stack, one after the other in a buffer.  Rest is    *)
(* what is still on the stack; the certificates belong to Pkcs7.             *)

\* The certificate at the end of the stack as a buffer of its own.
X509PopCertificate(none, k) ==
  <<Set(FALSE), IfNull("Rest", none), Use("Rest"), Try("more" \o k), Null("Rest"), At("more" \o k),
    Null("Buffer"), New("CertBio", none), Call("CertBio", "unread" \o k),
    New("Buffer", "unread" \o k), Call("CertBio", "unread" \o k),
    Move("Buffer", "SingleCert"), Set(TRUE), Free("CertBio"), Goto("popped" \o k),
    At("unread" \o k), Free("CertBio"), Free("Buffer"), Goto(none), At("popped" \o k)>>

\* The loop ends when no certificate could be taken, whatever the reason.
CollectCertificates(fail, k) ==
  <<At("loop" \o k)>> \o X509PopCertificate("end" \o k, k)
  \o <<IfNull("CertBuf", "first" \o k), Move("CertBuf", "OldBuf"), At("first" \o k),
       New("CertBuf", fail), Free("OldBuf"), Null("OldBuf"), Free("SingleCert"), Null("SingleCert"),
       Goto("loop" \o k), At("end" \o k)>>

\* No memory for the longer buffer leaves Status as the last pop has set it.
\* The answer is complete when nothing is left on the stack.
Pkcs7GetSigners ==
  <<Check>> \o WrapPkcs7Data("FALSE")
  \o NullAll(<<"Pkcs7", "Stack", "CertBuf", "OldBuf", "SingleCert", "Rest">>)
  \o <<Try("exit"), New("Pkcs7", "exit"), Call("Pkcs7", "exit"),
       NewFrom("Stack", "Pkcs7", "exit"), Alias("Rest", "Pkcs7")>>
  \o CollectCertificates("exit", "")
  \o <<IfNull("CertBuf", "exit"), New("TrustedCert", "exit"), Out("TrustedCert"), Out("CertBuf"),
       Set(TRUE), IfNull("Rest", "all"), Goto("exit"), At("all"), Fill,
       At("exit"), Free("SignedData"), Free("Pkcs7"), IfNull("Stack", "no_stack"), Free("Rest"),
       Free("Stack"), At("no_stack"), Free("SingleCert"), IfFailed("undo"), Goto("kept"),
       At("undo"), Free("CertBuf"), At("kept"), Free("OldBuf"), Return>>

Pkcs7FreeSigners == <<Free("CertBuf"), Goto("TRUE")>>

SignersFamily ==
  Context([Pkcs7GetSigners |-> Pkcs7GetSigners, Pkcs7FreeSigners |-> Pkcs7FreeSigners],
          "CertBuf", {}, {"Pkcs7GetSigners"}, {"Pkcs7FreeSigners"})

\* The issuers found among the certificates of the message join the chain.
CollectIssuers ==
  <<At("issuer"), Null("Issuer"), Try("no_issuer"), NewFrom("Issuer", "CertCtx", "no_issuer"),
    Try("issuers_done"), At("no_issuer"),
    IfNull("CtxUntrusted", "issuers_done"), Null("Issuer"),
    Borrow("Issuer", "CtxUntrusted", "issuers_done"), Call("CtxChain", "error"), Goto("issuer"),
    At("issuers_done")>>

\* Status is TRUE after the data were wrapped, and the errors that follow leave
\* it.  The chain belongs to nobody when it was made here.
Pkcs7GetCertificatesList ==
  NullAll(<<"Pkcs7", "CertCtx", "CtxChain", "CtxUntrusted", "SingleCert", "CertBuf", "OldBuf",
            "Signers", "Rest", "Issuer">>)
  \o <<Check>> \o WrapPkcs7Data("error")
  \o <<Set(TRUE), Try("error"), New("Pkcs7", "error"), Call("Pkcs7", "error"),
       NewFrom("Signers", "Pkcs7", "error"), Call("Signers", "error"), New("CertCtx", "error"),
       Call("CertCtx", "error"), Borrow("CtxChain", "CertCtx", "new_chain"), Goto("chain"),
       At("new_chain"), New("CtxChain", "error"), Call("CtxChain", "error"),
       At("chain"), Borrow("CtxUntrusted", "Pkcs7", "no_untrusted"), Use("CtxUntrusted"), At("no_untrusted")>>
  \o CollectIssuers
  \o <<Alias("Rest", "Pkcs7")>> \o CollectCertificates("no_memory", "")
  \o <<IfNull("CertBuf", "no_chain"), Out("CertBuf"), Move("CertBuf", "SignerChainCerts"),
       At("no_chain"), IfNull("Rest", "complete"), Goto("list"), At("complete"),
       Fill, At("list"), IfNull("CtxUntrusted", "good"), Null("CertBuf"), Alias("Rest", "Pkcs7")>>
  \o CollectCertificates("no_memory", "2")
  \o <<IfNull("CertBuf", "good"), Out("CertBuf"), At("good"), Set(TRUE), Goto("error"),
       At("no_memory"), Set(FALSE),
       At("error"), Free("SignedData"), Free("Pkcs7"), Free("Signers"), Free("CertCtx"),
       Free("SingleCert"), Free("OldBuf"), Return>>

-----------------------------------------------------------------------------
(* Verification.  Fill is the signature that was found good.                 *)

Pkcs7Verify ==
  <<Check>> \o NullAll(<<"Pkcs7", "DataBio", "Cert", "CertStore">>) \o <<Try("FALSE")>>
  \o WrapPkcs7Data("FALSE")
  \o <<Try("exit"), New("Pkcs7", "exit"), Call("Pkcs7", "exit"), New("Cert", "exit"),
       New("CertStore", "exit"), Call("CertStore", "exit"), New("DataBio", "exit"),
       Use("CertStore"), Call("Pkcs7", "exit"), Fill, Set(TRUE), At("exit")>>
  \o FreeAll(<<"DataBio", "Cert", "CertStore", "Pkcs7", "SignedData">>) \o <<Return>>

\* The hash in the content is compared, and the signature of the content checked.
AuthenticodeVerify ==
  <<Check, Null("Pkcs7"), New("Pkcs7", "exit"), Call("Pkcs7", "exit"),
    Borrow("SpcIndirectDataContent", "Pkcs7", "exit"), Call("SpcIndirectDataContent", "exit"),
    Use("SpcIndirectDataContent"), Try("exit"), Fill, Set(TRUE), At("exit"), Free("Pkcs7"), Return>>

\* Both kinds of content are parts of the message, as is the NULL of the others.
Pkcs7GetOctetString(none) == <<Borrow("OctStr", "Pkcs7", none)>>

\* A message too long for the parser leaves the Status of the wrapping.
Pkcs7GetAttachedContent ==
  <<Check>> \o NullAll(<<"Content", "Pkcs7", "OctStr">>) \o WrapPkcs7Data("exit")
  \o <<Set(TRUE), Try("exit"), Set(FALSE), New("Pkcs7", "exit"), Call("Pkcs7", "exit"),
       Call("Pkcs7", "good")>> \o Pkcs7GetOctetString("exit")
  \o <<Call("OctStr", "good"), New("Content", "exit"), Use("OctStr"), Out("Content"),
       At("good"), Fill, Set(TRUE), At("exit"), Free("Pkcs7"), Free("SignedData"), Return>>

Pkcs7Encrypt ==
  NullAll(<<"ReturnData", "pBio", "pPkcs7">>)
  \o <<Try("done"), Try("done"), New("pBio", "done"), NewFrom("pPkcs7", "pBio", "done"),
       Call("pPkcs7", "done"), New("ReturnData", "done"), Call("pPkcs7", "drop"),
       Out("ReturnData"), Set(TRUE), Goto("done"),
       At("drop"), FreePool("ReturnData"), Null("ReturnData"),
       At("done"), Free("pPkcs7"), Free("pBio"), Return>>

Pkcs7Sign ==
  <<Check>> \o NullAll(<<"Cert", "Key", "Pkcs7", "DataBio", "PemBio">>)
  \o <<New("PemBio", "exit"), NewFrom("Key", "PemBio", "exit"), Call("Key", "exit"), Try("exit"),
       New("Cert", "exit"), New("DataBio", "exit"), Call("DataBio", "exit"), Use("Cert"),
       NewFrom("Pkcs7", "Key", "exit"), Call("Pkcs7", "exit"), New("P7Data", "exit"), Use("Pkcs7"),
       New("SignedData", "no_copy"), Use("P7Data"), Free("P7Data"), Out("SignedData"), Set(TRUE),
       Goto("exit"), At("no_copy"), Free("P7Data"), At("exit")>>
  \o FreeAll(<<"Cert", "Key", "DataBio", "PemBio", "Pkcs7">>) \o <<Return>>

-----------------------------------------------------------------------------
(* Key usages of the signer.                                                 *)

\* The signer belongs to the message, and outlives the list of signers.
GetSignerCertificate(fail) ==
  <<Null("SignerCert"), NewFrom("Signers", "Pkcs7", fail), Call("Signers", "no_signer"),
    Alias("SignerCert", "Pkcs7"), At("no_signer"), Free("Signers"), IfNull("SignerCert", fail)>>

\* The usages are read from a copy of the certificate.
IsEkuInCertificate ==
  <<Set(FALSE), Null("ClonedCert"), Null("EkuList"), NewFrom("ClonedCert", "SignerCert", "looked"),
    Call("ClonedCert", "looked"), NewFrom("EkuList", "ClonedCert", "looked"),
    Call("EkuList", "looked"), Use("Asn1ToFind"), Set(TRUE),
    At("looked"), Free("ClonedCert"), Free("EkuList")>>

\* Fill: the usage, or all of them, were found.
CheckEKUs ==
  <<Null("Asn1ToFind"), At("usage"), Free("Asn1ToFind"), Null("Asn1ToFind"), Set(FALSE),
    New("Asn1ToFind", "checked")>> \o IsEkuInCertificate
  \o <<IfFailed("checked"), Try("found"), Try("usage"), At("found"), Fill, At("checked"),
       Free("Asn1ToFind")>>

VerifyEKUsInPkcs7Signature ==
  NullAll(<<"Pkcs7", "CertChain", "SignerCert", "SignedData">>) \o <<Try("exit")>>
  \o WrapPkcs7Data("exit")
  \o <<New("Pkcs7", "exit"), Borrow("CertChain", "Pkcs7", "exit"), Call("CertChain", "exit")>>
  \o GetSignerCertificate("exit") \o CheckEKUs
  \o <<At("exit"), Free("SignedData"), Free("Pkcs7"), Return>>

-----------------------------------------------------------------------------
(* Timestamps.                                                               *)

\* The hash of the token is compared with that of the data if they have the same
\* length; Fill is the comparison.
CheckTSTInfo ==
  <<Set(FALSE), Call("TstInfo", "checked"), Null("HashedMsg"), Null("MdCtx"),
    NewFrom("HashAlgo", "TstInfo", "close"), Call("HashAlgo", "close"),
    New("HashedMsg", "close"), New("MdCtx", "close"), Call("MdCtx", "close"), Try("lengths_differ"),
    Call("TstInfo", "close"), Fill, At("lengths_differ"), Set(TRUE),
    At("close"), Free("HashAlgo"), Free("MdCtx"), Free("HashedMsg"), At("checked")>>

\* A time is refused when a field is out of its range.
ConvertAsn1TimeToEfiTime == <<Result("TstInfo")>>

TimestampTokenVerify ==
  NullAll(<<"Token", "Cert", "CertStore", "OutBio", "TstData", "TstInfo">>)
  \o <<Set(FALSE), Try("verified"), New("Token", "token"), Call("Token", "token"), New("Cert", "token"),
       New("CertStore", "token"), Call("CertStore", "token"), New("OutBio", "token"),
       Call("Token", "token"), New("TstData", "token"), Use("OutBio"),
       NewFrom("TstInfo", "TstData", "token")>> \o CheckTSTInfo
  \o <<IfFailed("token"), IfNoBuffer("token")>> \o ConvertAsn1TimeToEfiTime
  \o <<At("token")>> \o FreeAll(<<"Token", "Cert", "CertStore", "OutBio", "TstInfo", "TstData">>)
  \o <<At("verified")>>

\* The token and the digest it is about are parts of the signature.
ImageTimestampVerify ==
  <<Check, Try("FALSE"), Null("Pkcs7"), New("Pkcs7", "exit"), Borrow("SignInfo", "Pkcs7", "exit"),
    Borrow("EncDigest", "SignInfo", "exit"), Borrow("Asn1Type", "SignInfo", "exit"), Use("Asn1Type")>>
  \o TimestampTokenVerify \o <<At("exit"), Free("Pkcs7"), Return>>

MessageFamily ==
  NoContext([Pkcs7GetCertificatesList |-> Pkcs7GetCertificatesList, Pkcs7Verify |-> Pkcs7Verify,
    AuthenticodeVerify |-> AuthenticodeVerify, Pkcs7GetAttachedContent |-> Pkcs7GetAttachedContent,
    Pkcs7Encrypt |-> Pkcs7Encrypt, Pkcs7Sign |-> Pkcs7Sign,
    VerifyEKUsInPkcs7Signature |-> VerifyEKUsInPkcs7Signature,
    ImageTimestampVerify |-> ImageTimestampVerify])
=============================================================================
