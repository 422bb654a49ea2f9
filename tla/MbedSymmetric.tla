--------------------------- MODULE MbedSymmetric ---------------------------
(***************************************************************************)
(* Keyed hashes, key derivation and AES-GCM of the MbedTLS build.           *)
(***************************************************************************)
EXTENDS CallSteps

-----------------------------------------------------------------------------
(* HMAC.  The context is an mbedtls_md_context_t with two buffers.           *)

Buffers == <<"md_ctx", "hmac_ctx">>

\* mbedtls_md_setup leaves an empty context behind when there is no memory.
Setup(fail) ==
  NullAll(Buffers)
  \o <<New("md_ctx", fail), New("hmac_ctx", "empty"), Goto("setup"),
       At("empty"), Free("md_ctx"), Null("md_ctx"), Goto(fail), At("setup")>>

HmacMdNew == <<New("HmacMdCtx", "FALSE")>> \o NullAll(Buffers) \o <<Out("HmacMdCtx"), Goto("TRUE")>>

HmacMdFree == FreeAll(Buffers) \o <<Free("HmacMdCtx"), Goto("TRUE")>>

\* ZeroMem clears the pointers, whatever they point to.
HmacMdSetKey == <<Check>> \o Setup("FALSE") \o <<Call("hmac_ctx", "FALSE"), Goto("TRUE")>>

\* Seen from the destination.  A source without a key cannot be cloned; the
\* buffers are then freed and their pointers stay.
HmacMdDuplicate ==
  <<Check>> \o Setup("FALSE")
  \o <<Call("md_ctx", "failed"), Use("hmac_ctx"), Goto("TRUE"), At("failed")>>
  \o FreeAll(Buffers) \o <<Goto("FALSE")>>

\* The provider refuses a context without a key.
HmacMdUpdate == <<Check, Check, IfNull("hmac_ctx", "FALSE"), Call("hmac_ctx", "FALSE"), Goto("TRUE")>>

\* The context is made ready for the next message with the same key.
HmacMdFinal ==
  <<Check, IfNoBuffer("FALSE"), IfNull("hmac_ctx", "FALSE"), Call("hmac_ctx", "FALSE"), Fill,
    Call("hmac_ctx", "FALSE"), Goto("TRUE")>>

HmacMdAll == <<Try("FALSE"), Fill, Goto("TRUE")>>

\* The functions for a caller, one set for each hash.
HmacSha256New == HmacMdNew
HmacSha256Free == HmacMdFree
HmacSha256SetKey == HmacMdSetKey
HmacSha256Duplicate == HmacMdDuplicate
HmacSha256Update == HmacMdUpdate
HmacSha256Final == HmacMdFinal
HmacSha256All == HmacMdAll

HmacSha384New == HmacMdNew
HmacSha384Free == HmacMdFree
HmacSha384SetKey == HmacMdSetKey
HmacSha384Duplicate == HmacMdDuplicate
HmacSha384Update == HmacMdUpdate
HmacSha384Final == HmacMdFinal
HmacSha384All == HmacMdAll

HmacSha256Family ==
  Context([HmacSha256New |-> HmacSha256New, HmacSha256Free |-> HmacSha256Free,
    HmacSha256SetKey |-> HmacSha256SetKey, HmacSha256Duplicate |-> HmacSha256Duplicate,
    HmacSha256Update |-> HmacSha256Update, HmacSha256Final |-> HmacSha256Final],
    "HmacMdCtx", {"md_ctx", "hmac_ctx"}, {"HmacSha256New"}, {"HmacSha256Free"})

HmacSha384Family ==
  Context([HmacSha384New |-> HmacSha384New, HmacSha384Free |-> HmacSha384Free,
    HmacSha384SetKey |-> HmacSha384SetKey, HmacSha384Duplicate |-> HmacSha384Duplicate,
    HmacSha384Update |-> HmacSha384Update, HmacSha384Final |-> HmacSha384Final],
    "HmacMdCtx", {"md_ctx", "hmac_ctx"}, {"HmacSha384New"}, {"HmacSha384Free"})

-----------------------------------------------------------------------------
(* Functions that are one call of the provider.                              *)

HkdfMdExtractAndExpand == <<Check, IfNoBuffer("FALSE"), Try("FALSE"), Fill, Goto("TRUE")>>
HkdfMdExtract == <<Check, IfNoBuffer("FALSE"), Check, Try("FALSE"), Fill, Goto("TRUE")>>
HkdfMdExpand == <<Check, IfNoBuffer("FALSE"), Check, Try("FALSE"), Fill, Goto("TRUE")>>

HkdfSha256ExtractAndExpand == HkdfMdExtractAndExpand
HkdfSha256Extract == HkdfMdExtract
HkdfSha256Expand == HkdfMdExpand
HkdfSha384ExtractAndExpand == HkdfMdExtractAndExpand
HkdfSha384Extract == HkdfMdExtract
HkdfSha384Expand == HkdfMdExpand

\* The context on the stack gets its cipher when the key is set.
AeadAesGcmEncrypt ==
  <<Check, New("Ctx", "FALSE"), Call("Ctx", "FALSE"), Call("Ctx", "free"), Fill, Set(TRUE),
    At("free"), Free("Ctx"), Return>>
AeadAesGcmDecrypt == AeadAesGcmEncrypt

SymmetricFamily ==
  NoContext([HmacSha256All |-> HmacSha256All, HmacSha384All |-> HmacSha384All,
    HkdfSha256ExtractAndExpand |-> HkdfSha256ExtractAndExpand,
    HkdfSha256Extract |-> HkdfSha256Extract, HkdfSha256Expand |-> HkdfSha256Expand,
    HkdfSha384ExtractAndExpand |-> HkdfSha384ExtractAndExpand,
    HkdfSha384Extract |-> HkdfSha384Extract, HkdfSha384Expand |-> HkdfSha384Expand,
    AeadAesGcmEncrypt |-> AeadAesGcmEncrypt, AeadAesGcmDecrypt |-> AeadAesGcmDecrypt])
=============================================================================
