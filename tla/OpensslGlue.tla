---------------------------- MODULE OpensslGlue ----------------------------
(***************************************************************************)
(* What OpenSSL finds in place of its own files in this build: the default *)
(* provider of uefiprov.c; and random numbers for platforms that have only *)
(* a time stamp counter, in both builds.                                   *)
(***************************************************************************)
EXTENDS CallSteps

\* The functions of the core are taken from its table; the context and the BIO
\* method have to be there both.
ossl_uefi_provider_init ==
  <<Try("FALSE"), Try("FALSE"), Try("FALSE"),
    New("provctx", "release"), New("corebiometh", "release"),
    Use("provctx"), Out("provctx"), Fill, Goto("TRUE"),
    At("release"), Free("provctx"), Null("provctx"), Goto("FALSE")>>

\* The BIO method is not a part of the context and is freed first.
deflt_teardown == <<Use("provctx"), Free("corebiometh"), Free("provctx"), Goto("TRUE")>>

\* Name, version, build and state, as far as they are asked for.
deflt_get_params ==
  <<Try("FALSE"), Try("FALSE"), Try("FALSE"), Try("FALSE"), Fill, Goto("TRUE")>>

\* The table of the operation, or NULL.
deflt_query == <<Try("FALSE"), Fill, Goto("TRUE")>>

DefaultProviderFamily ==
  Context([ossl_uefi_provider_init |-> ossl_uefi_provider_init, deflt_teardown |-> deflt_teardown,
           deflt_get_params |-> deflt_get_params, deflt_query |-> deflt_query],
          "provctx", {"corebiometh"}, {"ossl_uefi_provider_init"}, {"deflt_teardown"})

-----------------------------------------------------------------------------
(* CryptRandTsc.c.                                                           *)

\* The seed of the caller or the counter; then the provider is asked for its state.
RandomSeed == <<Check, Try("FALSE"), Fill, Goto("TRUE")>>
RandomBytes == <<Check, IfNoBuffer("FALSE"), Try("FALSE"), Fill, Goto("TRUE")>>

\* The MbedTLS build has nothing to seed.
MbedRandomSeed == <<Fill, Goto("TRUE")>>

\* Eight bytes at a time; no bytes at all are an error.
MbedRandomBytes ==
  <<Check, IfNoBuffer("FALSE"), Set(FALSE), Try("end"), At("more"), Try("FALSE"), Set(TRUE), Try("more"),
    Fill, At("end"), Return>>
MbedtlsRand == MbedRandomBytes

RandomFamily ==
  NoContext([RandomSeed |-> RandomSeed, RandomBytes |-> RandomBytes,
    MbedRandomSeed |-> MbedRandomSeed, MbedRandomBytes |-> MbedRandomBytes, MbedtlsRand |-> MbedtlsRand])
=============================================================================
