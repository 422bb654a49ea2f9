-------------------------- MODULE OpensslSymmetric --------------------------
(***************************************************************************)
(* Keyed hashes, key derivation and AES-GCM of the OpenSSL build.           *)
(***************************************************************************)
EXTENDS CallSteps

-----------------------------------------------------------------------------
(* HMAC.  The context is a wrapper around an EVP_MAC_CTX; a key may be set    *)
(* again, and a context may be copied over another one.                       *)

HmacMdNew ==
  <<New("Mac", "FALSE"), New("HmacMdCtx", "mac"), NewFrom("HmacMdCtx.Ctx", "Mac", "drop"),
    Free("Mac"), Out("HmacMdCtx"), Goto("TRUE"),
    At("drop"), Free("Mac"), FreePool("HmacMdCtx"), Goto("FALSE"), At("mac"), Free("Mac"), Goto("FALSE")>>

HmacMdFree == <<Free("HmacMdCtx.Ctx"), FreePool("HmacMdCtx"), Goto("TRUE")>>

HmacMdSetKey == <<Check, Call("HmacMdCtx.Ctx", "FALSE"), Goto("TRUE")>>

\* The destination, seen from its side: what it had is freed once there is a copy.
HmacMdDuplicate ==
  <<Check, New("NewCtx", "FALSE"), Free("HmacMdCtx.Ctx"), Move("NewCtx", "HmacMdCtx.Ctx"), Goto("TRUE")>>

HmacMdUpdate == <<Check, Check, Call("HmacMdCtx.Ctx", "FALSE"), Goto("TRUE")>>

HmacMdFinal ==
  <<Check, IfNoBuffer("FALSE"), Use("HmacMdCtx.Ctx"), Call("HmacMdCtx.Ctx", "FALSE"), Fill, Goto("TRUE")>>

HmacMdAll ==
  <<Check, IfNoBuffer("FALSE"), New("Mac", "FALSE"), NewFrom("Ctx", "Mac", "none"), Free("Mac"),
    Call("Ctx", "done"), Call("Ctx", "done"), Use("Ctx"), Call("Ctx", "done"), Fill, Set(TRUE),
    At("done"), Free("Ctx"), Return, At("none"), Free("Mac"), Goto("FALSE")>>

\* The functions for a caller, one set for each hash.
HmacSha256New == HmacMdNew
HmacSha256Free == HmacMdFree
HmacSha256SetKey == HmacMdSetKey
HmacSha256Duplicate == HmacMdDuplicate
HmacSha256Update == HmacMdUpdate
HmacSha256Final == HmacMdFinal
HmacSha256All == HmacMdAll

HmacSha384New == HmacMdNew
HmacSha384Free == HmacMdFree
HmacSha384SetKey == HmacMdSetKey
HmacSha384Duplicate == HmacMdDuplicate
HmacSha384Update == HmacMdUpdate
HmacSha384Final == HmacMdFinal
HmacSha384All == HmacMdAll

HmacSha256Family ==
  Context([HmacSha256New |-> HmacSha256New, HmacSha256Free |-> HmacSha256Free,
    HmacSha256SetKey |-> HmacSha256SetKey, HmacSha256Duplicate |-> HmacSha256Duplicate,
    HmacSha256Update |-> HmacSha256Update, HmacSha256Final |-> HmacSha256Final],
    "HmacMdCtx", {"HmacMdCtx.Ctx"}, {"HmacSha256New"}, {"HmacSha256Free"})

HmacSha384Family ==
  Context([HmacSha384New |-> HmacSha384New, HmacSha384Free |-> HmacSha384Free,
    HmacSha384SetKey |-> HmacSha384SetKey, HmacSha384Duplicate |-> HmacSha384Duplicate,
    HmacSha384Update |-> HmacSha384Update, HmacSha384Final |-> HmacSha384Final],
    "HmacMdCtx", {"HmacMdCtx.Ctx"}, {"HmacSha384New"}, {"HmacSha384Free"})

-----------------------------------------------------------------------------
(* HKDF: a context is initialised, set up and asked; each call may fail.       *)

Derive ==
  <<Check, IfNoBuffer("FALSE"), New("pHkdfCtx", "FALSE"), Call("pHkdfCtx", "free"), Fill, Set(TRUE),
    At("free"), Free("pHkdfCtx"), Return>>

HkdfMdExtractAndExpand == Derive
HkdfMdExtract == Derive
HkdfMdExpand == Derive

HkdfSha256ExtractAndExpand == HkdfMdExtractAndExpand
HkdfSha256Extract == HkdfMdExtract
HkdfSha256Expand == HkdfMdExpand
HkdfSha384ExtractAndExpand == HkdfMdExtractAndExpand
HkdfSha384Extract == HkdfMdExtract
HkdfSha384Expand == HkdfMdExpand

-----------------------------------------------------------------------------
(* AES-GCM.  Sizes are looked at before there is a context.                   *)

AeadAesGcmEncrypt ==
  <<Check, New("Ctx", "FALSE"), Call("Ctx", "done"), Call("Ctx", "done"), Call("Ctx", "done"),
    Fill, Set(TRUE), At("done"), Free("Ctx"), Return>>

\* The tag is compared by the last call.
AeadAesGcmDecrypt ==
  <<Check, New("Ctx", "FALSE"), Call("Ctx", "done"), Call("Ctx", "done"), Call("Ctx", "done"),
    Call("Ctx", "done"), Fill, Set(TRUE), At("done"), Free("Ctx"), Return>>

Pkcs5HashPassword == <<Check, IfNoBuffer("FALSE"), Check, Check, Try("FALSE"), Fill, Goto("TRUE")>>

SymmetricFamily ==
  NoContext([HmacSha256All |-> HmacSha256All, HmacSha384All |-> HmacSha384All,
    HkdfSha256ExtractAndExpand |-> HkdfSha256ExtractAndExpand,
    HkdfSha256Extract |-> HkdfSha256Extract, HkdfSha256Expand |-> HkdfSha256Expand,
    HkdfSha384ExtractAndExpand |-> HkdfSha384ExtractAndExpand,
    HkdfSha384Extract |-> HkdfSha384Extract, HkdfSha384Expand |-> HkdfSha384Expand,
    AeadAesGcmEncrypt |-> AeadAesGcmEncrypt, AeadAesGcmDecrypt |-> AeadAesGcmDecrypt,
    Pkcs5HashPassword |-> Pkcs5HashPassword])
=============================================================================
