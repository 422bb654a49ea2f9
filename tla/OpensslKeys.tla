---------------------------- MODULE OpensslKeys ----------------------------
(***************************************************************************)
(* RSA keys of the OpenSSL build, with the cached EVP_PKEY, and encryption *)
(* with the key of a certificate.                                          *)
(***************************************************************************)
EXTENDS CallSteps

-----------------------------------------------------------------------------
(* RSA.  The context keeps the numbers of the key, and the EVP_PKEY that was *)
(* last made from them; D stands for all the private numbers.                *)

RsaNumbers == <<"Rsa.N", "Rsa.E", "Rsa.D">>

\* AllocateZeroPool gives a context without numbers.
NewRsaContext(fail) == <<New("Rsa", fail), Null("Rsa.Pkey")>> \o NullAll(RsaNumbers)

\* Variant: the cached key is forgotten, not freed.
RsaForgetPkey == <<Null("Rsa.Pkey")>>

RsaInvalidatePkey == <<Free("Rsa.Pkey"), Null("Rsa.Pkey")>>

\* Every caller returns FALSE when there is no key.
RsaBuildEvpPkey ==
  <<IfNull("Rsa.Pkey", "build"), Goto("built"), At("build"),
    IfNull("Rsa.N", "FALSE"), IfNull("Rsa.E", "FALSE")>>
  \o NullAll(<<"ParamBld", "Params", "PkeyCtx", "Pkey">>)
  \o <<New("ParamBld", "FALSE"), Call("Rsa.N", "release"), Call("Rsa.E", "release"),
       IfNull("Rsa.D", "public"), Call("Rsa.D", "release"), At("public"),
       NewFrom("Params", "ParamBld", "release"), New("PkeyCtx", "release"),
       Call("PkeyCtx", "release"), NewFrom("Pkey", "Params", "release"),
       Move("Pkey", "Rsa.Pkey"), At("release")>>
  \o FreeAll(<<"PkeyCtx", "Params", "ParamBld">>)
  \o <<IfNull("Rsa.Pkey", "FALSE"), At("built"), Alias("Pkey", "Rsa.Pkey")>>

\* The numbers of pkey replace those of the context.
RsaExtractBigNums(pkey, fail) ==
  FreeAll(RsaNumbers) \o NullAll(RsaNumbers)
  \o <<NewFrom("Rsa.N", pkey, "none"), NewFrom("Rsa.E", pkey, "none"), NewFrom("Rsa.D", pkey, ""),
       Goto("extracted"), At("none")>>
  \o FreeAll(RsaNumbers) \o NullAll(RsaNumbers) \o <<Goto(fail), At("extracted")>>

RsaNew == NewRsaContext("FALSE") \o <<Out("Rsa"), Goto("TRUE")>>

ReleaseRsa == <<Free("Rsa.Pkey")>> \o FreeAll(RsaNumbers) \o <<FreePool("Rsa")>>
RsaFree == ReleaseRsa \o <<Goto("TRUE")>>

\* Variant: the cached key stays after a number was set.
RsaSetKeyKeepsPkey(bn) ==
  <<Check, Check, Try("set"), Outdate("Rsa.Pkey"), Free(bn), Null(bn), Goto("TRUE"),
    At("set"), Outdate("Rsa.Pkey"), Ensure(bn, "FALSE"), Goto("TRUE")>>

\* The number bn is cleared or set; in both cases the cached key is dropped first.
RsaSetKey(bn) ==
  <<Check>> \o RsaInvalidatePkey
  \o <<Check, Try("set"), Outdate("Rsa.Pkey"), Free(bn), Null(bn), Goto("TRUE"),
       At("set"), Outdate("Rsa.Pkey"), Ensure(bn, "FALSE"), Goto("TRUE")>>

\* A number that is not set is an empty answer.
RsaGetKey(bn) ==
  <<Check, IfNull(bn, "done"), Call(bn, "FALSE"), IfNoBuffer("TRUE"), Use(bn),
    At("done"), Fill, Goto("TRUE")>>

RsaGenerateKey ==
  <<Check, Null("KeyGenCtx"), Null("Pkey"), Null("KeyE")>> \o RsaInvalidatePkey
  \o <<New("KeyGenCtx", "FALSE"), Call("KeyGenCtx", "exit"), Try("keygen"),
       New("KeyE", "exit"), Call("KeyE", "exit"), At("keygen"),
       NewFrom("Pkey", "KeyGenCtx", "exit")>>
  \o RsaExtractBigNums("Pkey", "drop")
  \o <<Move("Pkey", "Rsa.Pkey"), Set(TRUE), Goto("exit"), At("drop"), Free("Pkey"),
       At("exit"), Free("KeyE"), Free("KeyGenCtx"), Return>>

RsaCheckKey ==
  <<Check>> \o RsaBuildEvpPkey
  \o <<NewFrom("PkeyCtx", "Pkey", "FALSE"), Result("PkeyCtx"), Free("PkeyCtx"), Return>>

\* Variant: the result is TRUE unless a step sets it otherwise, and none does.
RsaPkcs1VerifyTrusting ==
  <<Check, Null("PkeyCtx")>> \o RsaBuildEvpPkey
  \o <<Set(TRUE), NewFrom("PkeyCtx", "Pkey", "exit"), Call("PkeyCtx", "exit"), Fill,
       At("exit"), Free("PkeyCtx"), Return>>

\* Fill is the verification that succeeded.
RsaPkcs1Verify ==
  <<Check, Null("PkeyCtx")>> \o RsaBuildEvpPkey
  \o <<NewFrom("PkeyCtx", "Pkey", "exit"), Call("PkeyCtx", "exit"), Fill, Set(TRUE),
       At("exit"), Free("PkeyCtx"), Return>>

\* The signature goes to the buffer only if its size is enough.
RsaPkcs1Sign ==
  <<Check, Null("PkeyCtx")>> \o RsaBuildEvpPkey
  \o <<Call("Pkey", "FALSE"), IfNoBuffer("FALSE"), NewFrom("PkeyCtx", "Pkey", "exit"),
       Call("PkeyCtx", "exit"), Fill, Set(TRUE), At("exit"), Free("PkeyCtx"), Return>>

\* KeyCtx belongs to the digest context.
RsaPssVerify ==
  <<Check, Null("EvpVerifyCtx")>> \o RsaBuildEvpPkey
  \o <<New("EvpVerifyCtx", "exit"), Use("Pkey"), Borrow("KeyCtx", "EvpVerifyCtx", "exit"),
       Call("KeyCtx", "exit"), Call("EvpVerifyCtx", "exit"), Fill, Set(TRUE),
       At("exit"), Free("EvpVerifyCtx"), Return>>

RsaPssSign ==
  <<Check, Null("EvpVerifyCtx")>> \o RsaBuildEvpPkey
  \o <<Call("Pkey", "FALSE"), IfNoBuffer("FALSE"), Check,
       New("EvpVerifyCtx", "exit"), Use("Pkey"), Borrow("KeyCtx", "EvpVerifyCtx", "exit"),
       Call("KeyCtx", "exit"), Call("EvpVerifyCtx", "exit"), Fill, Set(TRUE),
       At("exit"), Free("EvpVerifyCtx"), Return>>

-----------------------------------------------------------------------------
(* OAEP.  The result is a new buffer of the caller.                          *)

\* Variant: the caller gets the buffer before there is something in it.
InternalPkcs1v2EncryptEarly ==
  <<Null("PkeyCtx"), Null("OutData"), NewFrom("PkeyCtx", "Pkey", "done"), Call("PkeyCtx", "done"),
    New("OutData", "done"), Out("OutData"), Call("PkeyCtx", "wipe"), Set(TRUE), Goto("done"),
    At("wipe"), FreePool("OutData"), Null("OutData"), At("done"), Free("PkeyCtx")>>

InternalPkcs1v2Encrypt ==
  <<Null("PkeyCtx"), Null("OutData"), NewFrom("PkeyCtx", "Pkey", "done"), Call("PkeyCtx", "done"),
    New("OutData", "done"), Call("PkeyCtx", "wipe"), Out("OutData"), Set(TRUE), Goto("done"),
    At("wipe"), FreePool("OutData"), Null("OutData"), At("done"), Free("PkeyCtx")>>

\* Decryption has the same objects under other names.
InternalPkcs1v2Decrypt ==
  <<Null("PkeyCtx"), Null("TempData"), NewFrom("PkeyCtx", "Pkey", "done"), Call("PkeyCtx", "done"),
    New("TempData", "done"), Call("PkeyCtx", "wipe"), Out("TempData"), Set(TRUE), Goto("done"),
    At("wipe"), FreePool("TempData"), Null("TempData"), At("done"), Free("PkeyCtx")>>

Pkcs1v2Encrypt ==
  <<Check, Null("CertData"), Null("Pkey"), New("CertData", "exit"),
    NewFrom("Pkey", "CertData", "exit")>> \o InternalPkcs1v2Encrypt
  \o <<At("exit"), Free("CertData"), Free("Pkey"), Return>>

Pkcs1v2Decrypt ==
  <<Check, Null("Pkey"), New("Pkey", "exit")>> \o InternalPkcs1v2Decrypt
  \o <<At("exit"), Free("Pkey"), Return>>

RsaOaepEncrypt == <<Check>> \o RsaBuildEvpPkey \o InternalPkcs1v2Encrypt \o <<Return>>
RsaOaepDecrypt == <<Check>> \o RsaBuildEvpPkey \o InternalPkcs1v2Decrypt \o <<Return>>

-----------------------------------------------------------------------------
(* RSA contexts from a certificate or a PEM file.                            *)

RsaGetPublicKeyFromX509 ==
  <<Check, Null("Pkey"), Null("X509Cert"), Construct("X509Cert", "exit"), Set(FALSE),
    NewFrom("Pkey", "X509Cert", "exit"), Call("Pkey", "exit")>> \o NewRsaContext("exit")
  \o <<NewFrom("Rsa.Pkey", "Pkey", "drop")>> \o RsaExtractBigNums("Rsa.Pkey", "drop")
  \o <<Out("Rsa"), Set(TRUE), Goto("exit"), At("drop"), Free("Rsa.Pkey"), FreePool("Rsa"),
       At("exit"), Free("X509Cert"), Free("Pkey"), Return>>

\* The key read from the file becomes part of the context at once, and is freed
\* with it when the numbers cannot be extracted.
RsaGetPrivateKeyFromPem ==
  <<Check, Null("Pkey"), New("PemBio", "exit"), Call("PemBio", "exit"),
    NewFrom("Pkey", "PemBio", "exit"), Call("Pkey", "exit")>> \o NewRsaContext("exit")
  \o <<Move("Pkey", "Rsa.Pkey")>> \o RsaExtractBigNums("Rsa.Pkey", "drop")
  \o <<Null("Pkey"), Out("Rsa"), Set(TRUE), Goto("exit"), At("drop")>> \o ReleaseRsa
  \o <<Null("Pkey"), At("exit"), Free("Pkey"), Free("PemBio"), Return>>

RsaFamily ==
  Context([RsaNew |-> RsaNew, RsaFree |-> RsaFree, RsaSetKeyN |-> RsaSetKey("Rsa.N"),
    RsaSetKeyE |-> RsaSetKey("Rsa.E"), RsaSetKeyD |-> RsaSetKey("Rsa.D"),
    RsaGetKeyN |-> RsaGetKey("Rsa.N"), RsaGetKeyD |-> RsaGetKey("Rsa.D"),
    RsaGenerateKey |-> RsaGenerateKey, RsaCheckKey |-> RsaCheckKey,
    RsaPkcs1Verify |-> RsaPkcs1Verify, RsaPkcs1Sign |-> RsaPkcs1Sign,
    RsaPssVerify |-> RsaPssVerify, RsaPssSign |-> RsaPssSign,
    RsaOaepEncrypt |-> RsaOaepEncrypt, RsaOaepDecrypt |-> RsaOaepDecrypt,
    RsaGetPublicKeyFromX509 |-> RsaGetPublicKeyFromX509,
    RsaGetPrivateKeyFromPem |-> RsaGetPrivateKeyFromPem],
    "Rsa", {"Rsa.Pkey", "Rsa.N", "Rsa.E", "Rsa.D"},
    {"RsaNew", "RsaGetPublicKeyFromX509", "RsaGetPrivateKeyFromPem"}, {"RsaFree"})

OaepFamily == NoContext([Pkcs1v2Encrypt |-> Pkcs1v2Encrypt, Pkcs1v2Decrypt |-> Pkcs1v2Decrypt])
=============================================================================
