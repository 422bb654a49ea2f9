--------------------------- MODULE OpensslDigests ---------------------------
(***************************************************************************)
(* Hash functions, AES and random numbers of the OpenSSL build.  Contexts   *)
(* are memory of the caller and hold no pointers.                           *)
(***************************************************************************)
EXTENDS CallSteps

\* Fill is the context that is ready for the next call, or the digest.
CopyContext == <<Check, Fill, Goto("TRUE")>>
InitContext == <<Check, Try("FALSE"), Fill, Goto("TRUE")>>
UpdateContext == <<Check, Check, Try("FALSE"), Fill, Goto("TRUE")>>
FinalContext == <<Check, IfNoBuffer("FALSE"), Try("FALSE"), Fill, Goto("TRUE")>>
HashInOneCall == <<IfNoBuffer("FALSE"), Check, Try("FALSE"), Fill, Goto("TRUE")>>
HashInThreeCalls ==
  <<IfNoBuffer("FALSE"), Check, Try("FALSE"), Try("FALSE"), Try("FALSE"), Fill, Goto("TRUE")>>

\* The functions of SM3 have no result.
InitAlways == <<Check, Fill, Goto("TRUE")>>
UpdateAlways == <<Check, Check, Fill, Goto("TRUE")>>
FinalAlways == <<Check, IfNoBuffer("FALSE"), Fill, Goto("TRUE")>>
HashAlways == <<IfNoBuffer("FALSE"), Check, Fill, Goto("TRUE")>>

Md5Init == InitContext
Md5Duplicate == CopyContext
Md5Update == UpdateContext
Md5Final == FinalContext
Md5HashAll == HashInOneCall

Sha1Init == InitContext
Sha1Duplicate == CopyContext
Sha1Update == UpdateContext
Sha1Final == FinalContext
Sha1HashAll == HashInThreeCalls

Sha256Init == InitContext
Sha256Duplicate == CopyContext
Sha256Update == UpdateContext
Sha256Final == FinalContext
Sha256HashAll == HashInThreeCalls

Sha384Init == InitContext
Sha384Duplicate == CopyContext
Sha384Update == UpdateContext
Sha384Final == FinalContext
Sha384HashAll == HashInThreeCalls

Sha512Init == InitContext
Sha512Duplicate == CopyContext
Sha512Update == UpdateContext
Sha512Final == FinalContext
Sha512HashAll == HashInThreeCalls

Sm3Init == InitAlways
Sm3Duplicate == CopyContext
Sm3Update == UpdateAlways
Sm3Final == FinalAlways
Sm3HashAll == HashAlways
-----------------------------------------------------------------------------
(* AES: two key schedules side by side; the cipher itself cannot fail.        *)

AesInit == <<Check, Try("FALSE"), Try("FALSE"), Fill, Goto("TRUE")>>
AesCbcEncrypt == <<Check, IfNoBuffer("FALSE"), Check, Fill, Goto("TRUE")>>
AesCbcDecrypt == AesCbcEncrypt

-----------------------------------------------------------------------------
(* Random numbers, from the library and for the pool of the provider.         *)

RandomSeed == <<Check, Try("FALSE"), Fill, Goto("TRUE")>>
RandomBytes == <<Check, IfNoBuffer("FALSE"), Try("FALSE"), Fill, Goto("TRUE")>>

\* The words of x are filled one by one; the source may end at any of them.
RandGetBytes(x, failed) == <<Try(failed), Ensure(x, failed)>>

\* Room in the pool is given back empty when it could not be filled.
ossl_pool_acquire_entropy ==
  <<Try("told"), New("Buffer", "told")>> \o RandGetBytes("Random", "empty")
  \o <<Use("Random"), Fill, Set(TRUE), Free("Random"), At("empty"), Free("Buffer"), At("told"), Return>>

\* Whether the data were filled is not looked at.
ossl_pool_add_nonce_data ==
  RandGetBytes("data", "add")
  \o <<At("add"), Call("data", "full"), Fill, Set(TRUE), At("full"), Free("data"), Return>>
rand_pool_add_additional_data == ossl_pool_add_nonce_data

DigestFamily ==
  NoContext([
    Md5Init |-> Md5Init, Md5Duplicate |-> Md5Duplicate, Md5Update |-> Md5Update,
    Md5Final |-> Md5Final, Md5HashAll |-> Md5HashAll, Sha1Init |-> Sha1Init,
    Sha1Duplicate |-> Sha1Duplicate, Sha1Update |-> Sha1Update, Sha1Final |-> Sha1Final,
    Sha1HashAll |-> Sha1HashAll, Sha256Init |-> Sha256Init,
    Sha256Duplicate |-> Sha256Duplicate, Sha256Update |-> Sha256Update,
    Sha256Final |-> Sha256Final, Sha256HashAll |-> Sha256HashAll, Sha384Init |-> Sha384Init,
    Sha384Duplicate |-> Sha384Duplicate, Sha384Update |-> Sha384Update,
    Sha384Final |-> Sha384Final, Sha384HashAll |-> Sha384HashAll, Sha512Init |-> Sha512Init,
    Sha512Duplicate |-> Sha512Duplicate, Sha512Update |-> Sha512Update,
    Sha512Final |-> Sha512Final, Sha512HashAll |-> Sha512HashAll, Sm3Init |-> Sm3Init,
    Sm3Duplicate |-> Sm3Duplicate, Sm3Update |-> Sm3Update, Sm3Final |-> Sm3Final,
    Sm3HashAll |-> Sm3HashAll, AesInit |-> AesInit, AesCbcEncrypt |-> AesCbcEncrypt,
    AesCbcDecrypt |-> AesCbcDecrypt, RandomSeed |-> RandomSeed, RandomBytes |-> RandomBytes,
    ossl_pool_acquire_entropy |-> ossl_pool_acquire_entropy,
    ossl_pool_add_nonce_data |-> ossl_pool_add_nonce_data,
    rand_pool_add_additional_data |-> rand_pool_add_additional_data])
=============================================================================
