--------------------------- MODULE OpensslCurves ---------------------------
(***************************************************************************)
(* CryptEc.c, CryptDh.c and CryptBn.c of the OpenSSL build: elliptic curve *)
(* keys, Diffie-Hellman and big numbers.                                   *)
(***************************************************************************)
EXTENDS CallSteps

-----------------------------------------------------------------------------
(* Elliptic curve keys.  The context has a key only after one was generated  *)
(* or read.                                                                  *)

EcNewByNid == <<Check, New("Ec", "FALSE"), Null("Ec.Pkey"), Out("Ec"), Goto("TRUE")>>

EcFree == <<Free("Ec.Pkey"), FreePool("Ec"), Goto("TRUE")>>

\* The old key is gone even if no new one is made.
EcGenerateKey ==
  <<Check, IfNoBuffer("FALSE"), Free("Ec.Pkey"), Null("Ec.Pkey"), New("Pkey", "FALSE"),
    Move("Pkey", "Ec.Pkey"), Call("Pkey", "FALSE"), Fill, Goto("TRUE")>>

EcGetPubKey ==
  <<Check, IfNull("Ec.Pkey", "FALSE"), Call("Ec.Pkey", "FALSE"), IfNoBuffer("TRUE"), Fill,
    Goto("TRUE")>>

EcDhObjects == <<"Bld", "Params", "FromdataCtx", "PeerPkey", "DeriveCtx">>

EcDhComputeKey ==
  <<Check, IfNull("Ec.Pkey", "FALSE")>> \o NullAll(EcDhObjects)
  \o <<New("Bld", "fail"), Call("Bld", "fail"), NewFrom("Params", "Bld", "fail"),
       New("FromdataCtx", "fail"), Call("FromdataCtx", "fail"), NewFrom("PeerPkey", "Params", "fail"),
       NewFrom("DeriveCtx", "Ec.Pkey", "fail"), Use("PeerPkey"), Call("DeriveCtx", "fail"),
       Fill, Set(TRUE), At("fail")>>
  \o FreeAll(EcDhObjects) \o <<Return>>

EcDsaSign ==
  <<Check, IfNoBuffer("FALSE"), Check, IfNull("Ec.Pkey", "FALSE"),
    NewFrom("PkeyCtx", "Ec.Pkey", "FALSE"), Call("PkeyCtx", "drop"), Free("PkeyCtx"),
    New("EcDsaSig", "FALSE"), Borrow("R", "EcDsaSig", ""), Call("R", "none"), Use("R"), Fill,
    Free("EcDsaSig"), Goto("TRUE"),
    At("none"), Free("EcDsaSig"), Goto("FALSE"), At("drop"), Free("PkeyCtx"), Goto("FALSE")>>

\* The two numbers belong to the signature once they are set in it.
EcDsaVerify ==
  <<Check, New("EcDsaSig", "FALSE"), New("R", ""), New("S", ""), IfNull("R", "none"),
    IfNull("S", "none"), Give("R", "EcDsaSig"), Give("S", "EcDsaSig"), Use("EcDsaSig"),
    Free("EcDsaSig"), Try("FALSE"), IfNull("Ec.Pkey", "FALSE"),
    NewFrom("PkeyCtx", "Ec.Pkey", "FALSE"), Call("PkeyCtx", "drop"), Free("PkeyCtx"),
    Fill, Goto("TRUE"),
    At("none"), Free("R"), Free("S"), Free("EcDsaSig"), Goto("FALSE"),
    At("drop"), Free("PkeyCtx"), Goto("FALSE")>>

EcGetPublicKeyFromX509 ==
  <<Check, Null("Pkey"), Null("X509Cert"), Construct("X509Cert", "exit"), Set(FALSE),
    NewFrom("Pkey", "X509Cert", "exit"), Call("Pkey", "exit"),
    New("Ec", "exit"), Null("Ec.Pkey"), Call("Pkey", "drop"),
    NewFrom("Ec.Pkey", "Pkey", "drop"), Out("Ec"), Set(TRUE), Goto("exit"),
    At("drop"), FreePool("Ec"), At("exit"), Free("X509Cert"), Free("Pkey"), Return>>

EcGetPrivateKeyFromPem ==
  <<Check, Null("Pkey"), New("PemBio", "exit"), Call("PemBio", "exit"),
    NewFrom("Pkey", "PemBio", "exit"), Call("Pkey", "exit"), New("Ec", "exit"), Null("Ec.Pkey"),
    Move("Pkey", "Ec.Pkey"), Null("Pkey"), Out("Ec"), Set(TRUE),
    At("exit"), Free("Pkey"), Free("PemBio"), Return>>

EcFamily ==
  Context([EcNewByNid |-> EcNewByNid, EcFree |-> EcFree, EcGenerateKey |-> EcGenerateKey,
    EcGetPubKey |-> EcGetPubKey, EcDhComputeKey |-> EcDhComputeKey, EcDsaSign |-> EcDsaSign,
    EcDsaVerify |-> EcDsaVerify, EcGetPublicKeyFromX509 |-> EcGetPublicKeyFromX509,
    EcGetPrivateKeyFromPem |-> EcGetPrivateKeyFromPem],
    "Ec", {"Ec.Pkey"}, {"EcNewByNid", "EcGetPublicKeyFromX509", "EcGetPrivateKeyFromPem"}, {"EcFree"})

-----------------------------------------------------------------------------
(* Groups, points and big numbers are objects of the provider that the       *)
(* caller holds; each operation is one call with them, and its result goes   *)
(* to another object of the caller.                                          *)

Operate(x) == <<Call(x, "FALSE"), Fill, Goto("TRUE")>>

EcGroupInit == <<Check, New("EcGroup", "FALSE"), Out("EcGroup"), Goto("TRUE")>>
EcGroupFree == <<Free("EcGroup"), Goto("TRUE")>>
EcGroupGetCurve == Operate("EcGroup")
EcGroupGetOrder == Operate("EcGroup")

EcPointInit == <<New("EcPoint", "FALSE"), Out("EcPoint"), Goto("TRUE")>>
EcPointDeInit == <<Free("EcPoint"), Goto("TRUE")>>
EcPointGetAffineCoordinates == Operate("EcPoint")
EcPointSetAffineCoordinates == Operate("EcPoint")
EcPointAdd == Operate("EcPoint")
EcPointMul == Operate("EcPoint")
EcPointInvert == Operate("EcPoint")
EcPointIsOnCurve == Operate("EcPoint")
EcPointIsAtInfinity == Operate("EcPoint")
EcPointEqual == Operate("EcPoint")
EcPointSetCompressedCoordinates == Operate("EcPoint")

GroupFamily ==
  Context([EcGroupInit |-> EcGroupInit, EcGroupFree |-> EcGroupFree,
    EcGroupGetCurve |-> EcGroupGetCurve, EcGroupGetOrder |-> EcGroupGetOrder],
    "EcGroup", {}, {"EcGroupInit"}, {"EcGroupFree"})

PointFamily ==
  Context([EcPointInit |-> EcPointInit, EcPointDeInit |-> EcPointDeInit,
    EcPointGetAffineCoordinates |-> EcPointGetAffineCoordinates,
    EcPointSetAffineCoordinates |-> EcPointSetAffineCoordinates, EcPointAdd |-> EcPointAdd,
    EcPointMul |-> EcPointMul, EcPointInvert |-> EcPointInvert,
    EcPointIsOnCurve |-> EcPointIsOnCurve, EcPointIsAtInfinity |-> EcPointIsAtInfinity,
    EcPointEqual |-> EcPointEqual,
    EcPointSetCompressedCoordinates |-> EcPointSetCompressedCoordinates],
    "EcPoint", {}, {"EcPointInit"}, {"EcPointDeInit"})

\* The modular operations need working space of their own.
OperateWithCtx ==
  <<New("Ctx", "FALSE"), Use("Bn"), Call("Ctx", "failed"), Fill, Set(TRUE),
    At("failed"), Free("Ctx"), Return>>

BigNumInit == <<New("Bn", "FALSE"), Out("Bn"), Goto("TRUE")>>
BigNumFromBin == <<New("Bn", "FALSE"), Out("Bn"), Goto("TRUE")>>
BigNumFree == <<Free("Bn"), Goto("TRUE")>>
BigNumToBin == Operate("Bn")
BigNumAdd == Operate("Bn")
BigNumSub == Operate("Bn")
BigNumCopy == Operate("Bn")
BigNumRShift == Operate("Bn")
BigNumSetUint == Operate("Bn")
BigNumMod == OperateWithCtx
BigNumExpMod == OperateWithCtx
BigNumInverseMod == OperateWithCtx
BigNumDiv == OperateWithCtx
BigNumMulMod == OperateWithCtx
BigNumSqrMod == OperateWithCtx
BigNumAddMod == OperateWithCtx

\* Questions that cannot fail.
BigNumCmp == <<Use("Bn"), Fill, Goto("TRUE")>>
BigNumBits == <<Use("Bn"), Fill, Goto("TRUE")>>
BigNumBytes == <<Use("Bn"), Fill, Goto("TRUE")>>
BigNumIsWord == <<Use("Bn"), Fill, Goto("TRUE")>>
BigNumIsOdd == <<Use("Bn"), Fill, Goto("TRUE")>>
BigNumConstTime == <<Use("Bn"), Goto("TRUE")>>

BigNumNewContext == <<New("BnCtx", "FALSE"), Out("BnCtx"), Goto("TRUE")>>
BigNumContextFree == <<Free("BnCtx"), Goto("TRUE")>>

BigNumFamily ==
  Context([BigNumInit |-> BigNumInit, BigNumFromBin |-> BigNumFromBin, BigNumFree |-> BigNumFree,
    BigNumToBin |-> BigNumToBin, BigNumAdd |-> BigNumAdd, BigNumSub |-> BigNumSub,
    BigNumCopy |-> BigNumCopy, BigNumRShift |-> BigNumRShift, BigNumSetUint |-> BigNumSetUint,
    BigNumMod |-> BigNumMod, BigNumExpMod |-> BigNumExpMod, BigNumInverseMod |-> BigNumInverseMod,
    BigNumDiv |-> BigNumDiv, BigNumMulMod |-> BigNumMulMod, BigNumSqrMod |-> BigNumSqrMod,
    BigNumAddMod |-> BigNumAddMod, BigNumCmp |-> BigNumCmp, BigNumBits |-> BigNumBits,
    BigNumBytes |-> BigNumBytes, BigNumIsWord |-> BigNumIsWord, BigNumIsOdd |-> BigNumIsOdd,
    BigNumConstTime |-> BigNumConstTime],
    "Bn", {}, {"BigNumInit", "BigNumFromBin"}, {"BigNumFree"})

BigNumContextFamily ==
  Context([BigNumNewContext |-> BigNumNewContext, BigNumContextFree |-> BigNumContextFree],
    "BnCtx", {}, {"BigNumNewContext"}, {"BigNumContextFree"})

-----------------------------------------------------------------------------
(* Diffie-Hellman.  The key of the context goes with the parameters it was   *)
(* generated for.                                                            *)

DhParts == <<"Dh.BnP", "Dh.BnG", "Dh.Pkey">>

DhNew == <<New("Dh", "FALSE")>> \o NullAll(DhParts) \o <<Out("Dh"), Goto("TRUE")>>

DhFree == FreeAll(DhParts) \o <<FreePool("Dh"), Goto("TRUE")>>

\* New parameters replace the old ones, whose key is freed.
ReplaceParameters ==
  <<Free("Dh.BnP"), Free("Dh.BnG"), Free("Dh.Pkey"), Null("Dh.Pkey"), Outdate("Dh.Pkey"),
    Move("BnP", "Dh.BnP"), Move("BnG", "Dh.BnG")>>

DhGenerateParameter ==
  NullAll(<<"PgenCtx", "ParamsPkey", "BnP", "BnG">>)
  \o <<Check, New("PgenCtx", "fail"), Call("PgenCtx", "fail"), NewFrom("ParamsPkey", "PgenCtx", "fail"),
       NewFrom("BnP", "ParamsPkey", "fail"), New("BnG", "fail"), Call("BnG", "fail")>>
  \o ReplaceParameters
  \o <<Null("BnP"), Null("BnG"), Use("Dh.BnP"), Fill, Set(TRUE), At("fail")>>
  \o FreeAll(<<"BnP", "BnG", "ParamsPkey", "PgenCtx">>) \o <<Return>>

DhSetParameter ==
  <<Null("BnP"), Null("BnG"), Check, New("BnP", ""), New("BnG", ""), IfNull("BnP", "error"),
    IfNull("BnG", "error"), Call("BnG", "error")>>
  \o ReplaceParameters
  \o <<Goto("TRUE"), At("error"), Free("BnP"), Free("BnG"), Goto("FALSE")>>

DhKeyObjects == <<"BnPubKey", "KeygenCtx", "DhParamsPkey", "ParamCtx", "Params", "Bld">>

\* The key stays in the context when it does not fit the caller's buffer.
DhGenerateKey ==
  NullAll(DhKeyObjects)
  \o <<Check, IfNull("Dh.BnP", "FALSE"), IfNull("Dh.BnG", "FALSE"), Free("Dh.Pkey"), Null("Dh.Pkey"),
       New("Bld", "fail"), Call("Dh.BnP", "fail"), Call("Dh.BnG", "fail"),
       NewFrom("Params", "Bld", "fail"), New("ParamCtx", "fail"), Call("ParamCtx", "fail"),
       NewFrom("DhParamsPkey", "Params", "fail"), NewFrom("KeygenCtx", "DhParamsPkey", "fail"),
       Call("KeygenCtx", "fail"), NewFrom("Dh.Pkey", "KeygenCtx", "fail"),
       NewFrom("BnPubKey", "Dh.Pkey", "fail"), Call("BnPubKey", "short"),
       IfNoBuffer("done"), Use("BnPubKey"), Fill, At("done"), Set(TRUE), Goto("fail"),
       At("short"), Free("BnPubKey"), Null("BnPubKey"), At("fail")>>
  \o FreeAll(DhKeyObjects) \o <<Return>>

DhComputeObjects == <<"DeriveCtx", "PeerPkey", "FromdataCtx", "Params", "Bld", "BnPeerPubKey">>

DhComputeKey ==
  NullAll(DhComputeObjects)
  \o <<Check, IfNull("Dh.Pkey", "FALSE"), IfNull("Dh.BnP", "FALSE"), IfNull("Dh.BnG", "FALSE"),
       New("BnPeerPubKey", "fail"), New("Bld", "fail"), Call("Dh.BnP", "fail"),
       Call("Dh.BnG", "fail"), Call("BnPeerPubKey", "fail"), NewFrom("Params", "Bld", "fail"),
       New("FromdataCtx", "fail"), Call("FromdataCtx", "fail"), NewFrom("PeerPkey", "Params", "fail"),
       NewFrom("DeriveCtx", "Dh.Pkey", "fail"), Use("PeerPkey"), Call("DeriveCtx", "fail"),
       Try("fail"), Call("DeriveCtx", "fail"), Fill, Set(TRUE), At("fail")>>
  \o FreeAll(DhComputeObjects) \o <<Return>>

DhFamily ==
  Context([DhNew |-> DhNew, DhFree |-> DhFree, DhGenerateParameter |-> DhGenerateParameter,
    DhSetParameter |-> DhSetParameter, DhGenerateKey |-> DhGenerateKey, DhComputeKey |-> DhComputeKey],
    "Dh", {"Dh.BnP", "Dh.BnG", "Dh.Pkey"}, {"DhNew"}, {"DhFree"})
=============================================================================
