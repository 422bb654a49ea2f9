----------------------------- MODULE CryptoBoot -----------------------------
(***************************************************************************)
(* Bringing up OneCrypto in one environment: the OneCryptoBin driver entry *)
(* points and CryptoEntry (OneCryptoPkg/OneCryptoBin), the four loaders    *)
(* (OneCryptoPkg/OneCryptoLoaders/OneCryptoLoader*.c), the CRT library     *)
(* that reaches the platform through the loader's dependency table         *)
(* (OneCryptoCrtLib), and the lazy random number services of the loaders.  *)
(*                                                                         *)
(* A loader runs once per boot.  Every allocation and every firmware       *)
(* service may fail.  Fetching the image from MM is the abstract operation *)
(* of module ImageFetch: an image in one of two formats, or an error.      *)
(***************************************************************************)
EXTENDS Naturals

CONSTANT EntryMayFail  \* TRUE: the binary found may be another build, whose
                       \* entry function reports errors, or answers the size
                       \* query with something else than EFI_BUFFER_TOO_SMALL

ASSUME EntryAssumption == EntryMayFail \in BOOLEAN

Loaders == {"Dxe", "DxeFromMm", "DxeByProtocol", "Mm"}

\* The loaders that bring the binary in themselves; the others find it running.
ImageLoaders == {"Dxe", "DxeFromMm"}

VARIABLES
  loader,               \* the loader of this environment; fixed for a boot
  pc,                   \* where the loader stands
  status,               \* its Status; "pending" while it runs
  heap,                 \* what is allocated: pool blocks and the loaded image
  mOneCryptoDepends,    \* "NULL" or "Depends", which may have been freed
  mOneCryptoProtocol,   \* "NULL" or "Protocol"
  populated,            \* TRUE when CryptoInit has filled the protocol
  installed,            \* gOneCryptoProtocolGuid is in the protocol database
  privateProtocol,      \* gOneCryptoPrivateProtocolGuid, as it is found
  binPc,                \* "idle", "loaded" or "failed": the binary's own driver entry
  cpuidReady,           \* the constructor of OpensslLib has run in the binary
  mCryptoDependencies,  \* OneCryptoCrtLib's pointer: "NULL" or "Depends"
  rngProtocol,          \* EFI_RNG_PROTOCOL is installed
  mCachedRngProtocol,   \* the loader has cached it
  mMmRngInitAttempted,  \* the MM loader has looked for it
  random                \* the last answer to a consumer since rngProtocol changed

loaderVars == <<loader, pc, status, heap, mOneCryptoDepends, mOneCryptoProtocol, installed>>
binVars == <<binPc, privateProtocol, cpuidReady, mCryptoDependencies, populated>>
rngVars == <<rngProtocol, mCachedRngProtocol, mMmRngInitAttempted, random>>
vars == <<loaderVars, binVars, rngVars>>

Blocks == {"Depends", "Protocol", "Section", "Image", "ProtocolInstance"}

Places == {"entry", "depends", "section", "extract", "load", "find", "query", "allocate",
           "construct", "install", "exit", "done"}

Statuses == {"pending", "SUCCESS", "NOT_FOUND", "NOT_READY", "OUT_OF_RESOURCES",
             "UNSUPPORTED", "ERROR", "WARNING"}

\* EFI_ERROR: a warning is neither an error nor EFI_SUCCESS.
EFI_ERROR(result) == result \notin {"SUCCESS", "WARNING"}

TypeOK ==
  /\ loader \in Loaders
  /\ pc \in Places
  /\ status \in Statuses
  /\ heap \subseteq Blocks
  /\ mOneCryptoDepends \in {"NULL", "Depends"}
  /\ mOneCryptoProtocol \in {"NULL", "Protocol"}
  /\ mCryptoDependencies \in {"NULL", "Depends"}
  /\ privateProtocol \in {"none", "valid", "bad_signature", "no_entry"}
  /\ binPc \in {"idle", "loaded", "failed"}
  /\ random \in {"none", "number", "unavailable", "failed"}
  /\ populated \in BOOLEAN /\ installed \in BOOLEAN /\ cpuidReady \in BOOLEAN
  /\ rngProtocol \in BOOLEAN /\ mCachedRngProtocol \in BOOLEAN
  /\ mMmRngInitAttempted \in BOOLEAN

\* Another driver may have installed a protocol under the private GUID.
Init ==
  /\ loader \in Loaders
  /\ pc = IF loader \in ImageLoaders THEN "depends" ELSE "entry"
  /\ status = "pending"
  /\ heap = {}
  /\ mOneCryptoDepends = "NULL"
  /\ mOneCryptoProtocol = "NULL"
  /\ populated = FALSE
  /\ installed = FALSE
  /\ privateProtocol \in {"none", "bad_signature", "no_entry"}
  /\ binPc = "idle"
  /\ cpuidReady = FALSE
  /\ mCryptoDependencies = "NULL"
  /\ rngProtocol \in BOOLEAN
  /\ mCachedRngProtocol = FALSE
  /\ mMmRngInitAttempted = FALSE
  /\ random = "none"

-----------------------------------------------------------------------------
(* OneCryptoBin.                                                            *)

\* DxeEntry and MmEntry: the module entry library has run the constructors;
\* the private protocol offers NoSetupCryptoEntry.  When an instance of another
\* driver is already there, LocateProtocol goes on finding that one.
BinEntry ==
  /\ loader \notin ImageLoaders
  /\ binPc = "idle"
  /\ cpuidReady' = TRUE
  /\ \E done \in BOOLEAN :
       /\ binPc' = IF done THEN "loaded" ELSE "failed"
       /\ heap' = IF done THEN heap \cup {"ProtocolInstance"} ELSE heap
       /\ privateProtocol' = IF done /\ privateProtocol = "none" THEN "valid" ELSE privateProtocol
  /\ UNCHANGED <<loader, pc, status, mOneCryptoDepends, mOneCryptoProtocol, installed,
                 mCryptoDependencies, populated, rngVars>>

\* CryptoEntry runs BaseCryptInit first; NoSetupCryptoEntry leaves that to the
\* constructors.
EntrySetup == cpuidReady' = (cpuidReady \/ loader \in ImageLoaders)

-----------------------------------------------------------------------------
(* The loaders, up to the entry function of the binary.                     *)

\* Go to the cleanup code at the end of the entry point.
Leave(result) == pc' = "exit" /\ status' = result

\* Return without cleanup.
Return(error) == pc' = "done" /\ status' = error

Go(next) == pc' = next /\ UNCHANGED status

LocateConstructor ==
  /\ pc = "entry"
  /\ \/ privateProtocol = "none" /\ Leave("NOT_FOUND")
     \/ privateProtocol = "bad_signature" /\ Leave("OUT_OF_RESOURCES")
     \/ privateProtocol = "no_entry" /\ Leave("UNSUPPORTED")
     \/ privateProtocol = "valid" /\ Go("depends")
  /\ UNCHANGED <<loader, heap, mOneCryptoDepends, mOneCryptoProtocol, installed, binVars, rngVars>>

AllocateDepends ==
  /\ pc = "depends"
  /\ \/ /\ IF loader \in ImageLoaders THEN Return("OUT_OF_RESOURCES") ELSE Leave("OUT_OF_RESOURCES")
        /\ UNCHANGED <<heap, mOneCryptoDepends>>
     \/ /\ Go(IF loader \in ImageLoaders THEN "section" ELSE "query")
        /\ heap' = heap \cup {"Depends"}
        /\ mOneCryptoDepends' = "Depends"
  /\ UNCHANGED <<loader, mOneCryptoProtocol, installed, binVars, rngVars>>

\* GetSectionFromAnyFv, or FetchImageFromMm.
GetSection ==
  /\ pc = "section"
  /\ \/ /\ Return(IF loader = "Dxe" THEN "NOT_READY" ELSE "ERROR")
        /\ UNCHANGED heap
     \/ /\ \/ Go("load")
           \/ loader = "DxeFromMm" /\ Go("extract")
        /\ heap' = heap \cup {"Section"}
  /\ UNCHANGED <<loader, mOneCryptoDepends, mOneCryptoProtocol, installed, binVars, rngVars>>

\* The guided section is replaced by a copy of the PE32 it wraps, or freed.
ExtractOneCryptoPe32FromGuidedFv ==
  /\ pc = "extract"
  /\ \/ Return("ERROR") /\ heap' = heap \ {"Section"}
     \/ Go("load") /\ UNCHANGED heap
  /\ UNCHANGED <<loader, mOneCryptoDepends, mOneCryptoProtocol, installed, binVars, rngVars>>

LoadImage ==
  /\ pc = "load"
  /\ \/ Leave("ERROR") /\ UNCHANGED heap
     \/ Go("find") /\ heap' = heap \cup {"Image"}
  /\ UNCHANGED <<loader, mOneCryptoDepends, mOneCryptoProtocol, installed, binVars, rngVars>>

\* HandleProtocol and the search of the export directory.  A loaded image protocol
\* that is NULL leaves with the status HandleProtocol had, which is EFI_SUCCESS.
GetEntryFromLoadedImage ==
  /\ pc = "find"
  /\ Go("query") \/ \E result \in {"SUCCESS", "ERROR"} : Leave(result)
  /\ UNCHANGED <<loader, heap, mOneCryptoDepends, mOneCryptoProtocol, installed, binVars, rngVars>>

-----------------------------------------------------------------------------
(* The two calls of the entry function.                                     *)

\* Entry (mOneCryptoDepends, NULL, &CryptoSize).  Whatever another build answers
\* instead of EFI_BUFFER_TOO_SMALL and a size becomes the loader's own status.
QuerySize ==
  /\ pc = "query"
  /\ EntrySetup
  /\ \/ Go("allocate")
     \/ EntryMayFail /\ \E result \in {"SUCCESS", "WARNING", "ERROR"} : Leave(result)
  /\ UNCHANGED <<loader, heap, mOneCryptoDepends, mOneCryptoProtocol, installed, binPc,
                 privateProtocol, mCryptoDependencies, populated, rngVars>>

AllocateProtocol ==
  /\ pc = "allocate"
  /\ \/ Leave("OUT_OF_RESOURCES") /\ UNCHANGED <<heap, mOneCryptoProtocol>>
     \/ /\ Go("construct")
        /\ heap' = heap \cup {"Protocol"}
        /\ mOneCryptoProtocol' = "Protocol"
  /\ UNCHANGED <<loader, mOneCryptoDepends, installed, binVars, rngVars>>

\* OneCryptoCrtLib keeps the pointer, not a copy of the table.
OneCryptoCrtSetup == mCryptoDependencies' = mOneCryptoDepends

\* Every function pointer of the protocol is filled.
CryptoInit == populated' = TRUE

\* Entry (mOneCryptoDepends, &mOneCryptoProtocol, &CryptoSize).
CryptoEntry == EntrySetup /\ OneCryptoCrtSetup /\ CryptoInit

Construct ==
  /\ pc = "construct"
  /\ \/ /\ CryptoEntry
        /\ Go("install")
        /\ UNCHANGED <<heap, mOneCryptoProtocol>>
     \/ /\ EntryMayFail
        /\ EntrySetup
        /\ Leave("ERROR")
        /\ heap' = heap \ {"Protocol"}
        /\ mOneCryptoProtocol' = "NULL"
        /\ UNCHANGED <<mCryptoDependencies, populated>>
  /\ UNCHANGED <<loader, mOneCryptoDepends, installed, binPc, privateProtocol, rngVars>>

\* Variant: the status of InstallProtocolInterface is not looked at.
InstallProtocolUnchecked ==
  /\ pc = "install"
  /\ Leave("SUCCESS")
  /\ installed' \in BOOLEAN
  /\ UNCHANGED <<loader, heap, mOneCryptoDepends, mOneCryptoProtocol, binVars, rngVars>>

InstallProtocol ==
  /\ pc = "install"
  /\ \/ Leave("ERROR") /\ UNCHANGED installed
     \/ Leave("SUCCESS") /\ installed' = TRUE
  /\ UNCHANGED <<loader, heap, mOneCryptoDepends, mOneCryptoProtocol, binVars, rngVars>>

\* What the loader that fetches from MM takes back on an error.
TakenBack == IF loader = "DxeFromMm" /\ EFI_ERROR(status) THEN {"Image", "Protocol"} ELSE {}

\* Variant: the dependency table is freed on success as well.
FreedAlways == TakenBack \cup {"Section", "Depends"}

\* Variant: the image stays loaded on an error.
FreedWithoutImage ==
  (TakenBack \ {"Image"}) \cup (IF status = "SUCCESS" THEN {"Section"} ELSE {"Section", "Depends"})

\* What the end of the entry point frees: the section always, the dependency table
\* unless the status is EFI_SUCCESS.
Freed == TakenBack \cup (IF status = "SUCCESS" THEN {"Section"} ELSE {"Section", "Depends"})

Exit ==
  /\ pc = "exit"
  /\ pc' = "done"
  /\ heap' = heap \ Freed
  /\ mOneCryptoDepends' = IF loader = "DxeFromMm" /\ status # "SUCCESS" THEN "NULL" ELSE mOneCryptoDepends
  /\ mOneCryptoProtocol' = IF loader = "DxeFromMm" /\ EFI_ERROR(status) THEN "NULL" ELSE mOneCryptoProtocol
  /\ UNCHANGED <<loader, status, installed, binVars, rngVars>>

-----------------------------------------------------------------------------
(* Consumers of the installed protocol.                                     *)

\* The platform's RNG driver comes up, before or after the first request.
RngArrives ==
  /\ ~rngProtocol
  /\ rngProtocol' = TRUE
  /\ random' = "none"
  /\ UNCHANGED <<loaderVars, binVars, mCachedRngProtocol, mMmRngInitAttempted>>

\* Look for EFI_RNG_PROTOCOL: the DXE loaders until they find it, the MM loader once.
MustLocateRng ==
  IF loader = "Mm" THEN ~mMmRngInitAttempted ELSE ~mCachedRngProtocol

\* Variant: every loader looks for the protocol only once.
GetRandomNumber64LocatesOnce ==
  /\ installed
  /\ mCachedRngProtocol' = (mCachedRngProtocol \/ (~mMmRngInitAttempted /\ rngProtocol))
  /\ mMmRngInitAttempted' = TRUE
  /\ random' \in IF mCachedRngProtocol' THEN {"number", "failed"} ELSE {"unavailable"}
  /\ UNCHANGED <<loaderVars, binVars, rngProtocol>>

\* A consumer's request that reaches the loader's GetRandomNumber64 through
\* RngLibOnOneCrypto and OneCryptoCrtLib.
GetRandomNumber64 ==
  /\ installed
  /\ IF mCryptoDependencies = "NULL"
     THEN random' = "unavailable" /\ UNCHANGED <<mCachedRngProtocol, mMmRngInitAttempted>>
     ELSE /\ mCachedRngProtocol' = (mCachedRngProtocol \/ (MustLocateRng /\ rngProtocol))
          /\ mMmRngInitAttempted' = (mMmRngInitAttempted \/ loader = "Mm")
          /\ random' \in IF mCachedRngProtocol' THEN {"number", "failed"} ELSE {"unavailable"}
  /\ UNCHANGED <<loaderVars, binVars, rngProtocol>>

LoaderStep ==
  \/ LocateConstructor \/ AllocateDepends \/ GetSection \/ ExtractOneCryptoPe32FromGuidedFv
  \/ LoadImage \/ GetEntryFromLoadedImage \/ QuerySize \/ AllocateProtocol \/ Construct
  \/ InstallProtocol \/ Exit

Next == LoaderStep \/ BinEntry \/ RngArrives \/ GetRandomNumber64

Spec == Init /\ [][Next]_vars

-----------------------------------------------------------------------------
(* Properties.                                                              *)

\* As long as the protocol is in the database, everything behind it is in
\* place: the protocol is allocated and filled, the binary that implements it is
\* loaded and constructed, and OneCryptoCrtLib's pointer leads to a dependency
\* table that has not been freed.
InstalledIsUsable ==
  installed =>
    /\ populated /\ cpuidReady
    /\ "Protocol" \in heap
    /\ mCryptoDependencies = "Depends" /\ "Depends" \in heap
    /\ loader \in ImageLoaders => "Image" \in heap

\* A loader has put the protocol into the database exactly if it reports success and
\* has built a protocol: none is left behind an error or a warning, which would free
\* the table it needs, and none that was built is lost behind a success.  Success
\* alone does not mean as much: a NULL from HandleProtocol, or a size query that is
\* answered with EFI_SUCCESS, ends the loader with EFI_SUCCESS and no protocol.
StatusTellsDatabase ==
  pc = "done" => (installed <=> status = "SUCCESS" /\ mOneCryptoProtocol = "Protocol")

\* The loader that fetches from MM gives back what it holds on every error path
\* from LoadImage on: the image's pages, the protocol and the section.
FailureLeavesNothing ==
  pc = "done" /\ EFI_ERROR(status) /\ loader = "DxeFromMm" =>
    heap \cap {"Image", "Protocol", "Section"} = {}

\* Once the platform offers random numbers, a request in DXE is never refused
\* for want of the protocol, even when an earlier request was.
LateRngIsFound ==
  loader # "Mm" /\ rngProtocol => random # "unavailable"

\* Docs/Architecture.md, on dependency injection: the loader "calls
\* OneCryptoCrtSetup() before invoking CryptoEntry".
SetupBeforeEntry ==
  pc = "query" => mCryptoDependencies # "NULL"
=============================================================================
