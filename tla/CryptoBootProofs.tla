-------------------------- MODULE CryptoBootProofs --------------------------
(***************************************************************************)
(* Proofs about module CryptoBoot, for binaries whose entry function may   *)
(* fail and for those whose entry function never does.                     *)
(***************************************************************************)
EXTENDS CryptoBoot, TLAPS

\* Where the loader holds an allocated dependency table.
HoldsDepends == {"section", "extract", "load", "find", "query", "allocate", "construct", "install"}

\* What the loader holds on its way to the two calls of the entry function.
HeldInv ==
  /\ pc \in HoldsDepends => mOneCryptoDepends = "Depends" /\ "Depends" \in heap
  /\ pc \in {"construct", "install"} => "Protocol" \in heap
  /\ loader \in ImageLoaders /\ pc \in {"find", "query", "allocate", "construct", "install"} =>
       "Image" \in heap
  /\ pc \in {"entry", "depends", "section", "extract"} => "Image" \notin heap /\ "Protocol" \notin heap
  /\ pc \in {"entry", "depends", "section"} => "Section" \notin heap

\* The binary is constructed before its entry function runs.
ConstructedInv ==
  /\ loader \in ImageLoaders => pc # "entry"
  /\ privateProtocol = "valid" => cpuidReady
  /\ loader \notin ImageLoaders /\ pc \notin {"entry", "exit", "done"} => privateProtocol = "valid"
  /\ loader \in ImageLoaders /\ pc \in {"allocate", "construct", "install"} => cpuidReady

\* There is a protocol from its allocation on, and no status before the end.
BuiltInv ==
  /\ pc \in {"construct", "install"} => mOneCryptoProtocol = "Protocol"
  /\ pc \notin {"construct", "install", "exit", "done"} => mOneCryptoProtocol = "NULL"
  /\ pc \notin {"exit", "done"} => status = "pending"

\* The entry function has done its work, and only then is the protocol installed.
InstallInv ==
  /\ BuiltInv
  /\ pc = "install" => populated /\ mCryptoDependencies = "Depends"
  /\ installed <=> status = "SUCCESS" /\ mOneCryptoProtocol = "Protocol"
  /\ installed => pc \in {"exit", "done"}

BootInv ==
  /\ TypeOK /\ HeldInv /\ ConstructedInv /\ InstallInv
  /\ InstalledIsUsable /\ FailureLeavesNothing /\ LateRngIsFound

\* The initial states satisfy the inductive invariant.
LEMMA BootInit ==
  ASSUME Init
  PROVE  BootInv
BY DEF Init, BootInv, TypeOK, Places, Statuses, Loaders, ImageLoaders, Blocks, HeldInv, HoldsDepends, ConstructedInv,
       InstallInv, BuiltInv, InstalledIsUsable, FailureLeavesNothing, LateRngIsFound

\* Every step of the loader, of the binary and of the platform preserves it.
LEMMA BootStep ==
  ASSUME BootInv, [Next]_vars
  PROVE  BootInv'
<1> USE DEF Loaders, ImageLoaders, HoldsDepends, BuiltInv, EFI_ERROR, loaderVars, binVars, rngVars
<1>0. /\ TypeOK /\ HeldInv /\ ConstructedInv /\ InstallInv
      /\ InstalledIsUsable /\ FailureLeavesNothing /\ LateRngIsFound
  BY DEF BootInv
<1>1. CASE LocateConstructor
  <2>a. pc' \in Places /\ status' \in Statuses
    BY <1>0, <1>1 DEF LocateConstructor, Leave, Go, TypeOK, Places, Statuses
  <2>b. heap' \subseteq Blocks
    BY <1>0, <1>1 DEF LocateConstructor, Leave, Go, TypeOK, Blocks
  <2>1. TypeOK'
    BY <1>0, <1>1, <2>a, <2>b DEF LocateConstructor, Leave, Go, TypeOK
  <2>2. HeldInv'
    BY <1>0, <1>1 DEF LocateConstructor, Leave, Go, HeldInv, TypeOK, Blocks
  <2>3. ConstructedInv'
    BY <1>0, <1>1 DEF LocateConstructor, Leave, Go, ConstructedInv, TypeOK
  <2>4. InstallInv'
    BY <1>0, <1>1 DEF LocateConstructor, Leave, Go, InstallInv, TypeOK, HeldInv
  <2>5. InstalledIsUsable'
    BY <1>0, <1>1 DEF LocateConstructor, Leave, Go, InstalledIsUsable, TypeOK, HeldInv, ConstructedInv, InstallInv
  <2>6. FailureLeavesNothing'
    BY <1>0, <1>1 DEF LocateConstructor, Leave, Go, FailureLeavesNothing, TypeOK, HeldInv, InstallInv
  <2>7. LateRngIsFound'
    BY <1>0, <1>1 DEF LocateConstructor, Leave, Go, LateRngIsFound, InstalledIsUsable, InstallInv
  <2> QED  BY <2>1, <2>2, <2>3, <2>4, <2>5, <2>6, <2>7 DEF BootInv
<1>2. CASE AllocateDepends
  <2>a. pc' \in Places /\ status' \in Statuses
    BY <1>0, <1>2 DEF AllocateDepends, Return, Leave, Go, TypeOK, Places, Statuses
  <2>b. heap' \subseteq Blocks
    BY <1>0, <1>2 DEF AllocateDepends, Return, Leave, Go, TypeOK, Blocks
  <2>1. TypeOK'
    BY <1>0, <1>2, <2>a, <2>b DEF AllocateDepends, Return, Leave, Go, TypeOK
  <2>2. HeldInv'
    BY <1>0, <1>2 DEF AllocateDepends, Return, Leave, Go, HeldInv, TypeOK, Blocks
  <2>3. ConstructedInv'
    BY <1>0, <1>2 DEF AllocateDepends, Return, Leave, Go, ConstructedInv, TypeOK
  <2>4. InstallInv'
    BY <1>0, <1>2 DEF AllocateDepends, Return, Leave, Go, InstallInv, TypeOK, HeldInv
  <2>5. InstalledIsUsable'
    BY <1>0, <1>2 DEF AllocateDepends, Return, Leave, Go, InstalledIsUsable, TypeOK, HeldInv, ConstructedInv, InstallInv
  <2>6. FailureLeavesNothing'
    BY <1>0, <1>2 DEF AllocateDepends, Return, Leave, Go, FailureLeavesNothing, TypeOK, HeldInv, InstallInv
  <2>7. LateRngIsFound'
    BY <1>0, <1>2 DEF AllocateDepends, Return, Leave, Go, LateRngIsFound, InstalledIsUsable, InstallInv
  <2> QED  BY <2>1, <2>2, <2>3, <2>4, <2>5, <2>6, <2>7 DEF BootInv
<1>3. CASE GetSection
  <2>a. pc' \in Places /\ status' \in Statuses
    BY <1>0, <1>3 DEF GetSection, Return, Go, TypeOK, Places, Statuses
  <2>b. heap' \subseteq Blocks
    BY <1>0, <1>3 DEF GetSection, Return, Go, TypeOK, Blocks
  <2>1. TypeOK'
    BY <1>0, <1>3, <2>a, <2>b DEF GetSection, Return, Go, TypeOK
  <2>2. HeldInv'
    BY <1>0, <1>3 DEF GetSection, Return, Go, HeldInv, TypeOK, Blocks
  <2>3. ConstructedInv'
    BY <1>0, <1>3 DEF GetSection, Return, Go, ConstructedInv, TypeOK
  <2>4. InstallInv'
    BY <1>0, <1>3 DEF GetSection, Return, Go, InstallInv, TypeOK, HeldInv
  <2>5. InstalledIsUsable'
    BY <1>0, <1>3 DEF GetSection, Return, Go, InstalledIsUsable, TypeOK, HeldInv, ConstructedInv, InstallInv
  <2>6. FailureLeavesNothing'
    BY <1>0, <1>3 DEF GetSection, Return, Go, FailureLeavesNothing, TypeOK, HeldInv, InstallInv
  <2>7. LateRngIsFound'
    BY <1>0, <1>3 DEF GetSection, Return, Go, LateRngIsFound, InstalledIsUsable, InstallInv
  <2> QED  BY <2>1, <2>2, <2>3, <2>4, <2>5, <2>6, <2>7 DEF BootInv
<1>4. CASE ExtractOneCryptoPe32FromGuidedFv
  <2>a. pc' \in Places /\ status' \in Statuses
    BY <1>0, <1>4 DEF ExtractOneCryptoPe32FromGuidedFv, Return, Go, TypeOK, Places, Statuses
  <2>b. heap' \subseteq Blocks
    BY <1>0, <1>4 DEF ExtractOneCryptoPe32FromGuidedFv, Return, Go, TypeOK, Blocks
  <2>1. TypeOK'
    BY <1>0, <1>4, <2>a, <2>b DEF ExtractOneCryptoPe32FromGuidedFv, Return, Go, TypeOK
  <2>2. HeldInv'
    BY <1>0, <1>4 DEF ExtractOneCryptoPe32FromGuidedFv, Return, Go, HeldInv, TypeOK, Blocks
  <2>3. ConstructedInv'
    BY <1>0, <1>4 DEF ExtractOneCryptoPe32FromGuidedFv, Return, Go, ConstructedInv, TypeOK
  <2>4. InstallInv'
    BY <1>0, <1>4 DEF ExtractOneCryptoPe32FromGuidedFv, Return, Go, InstallInv, TypeOK, HeldInv
  <2>5. InstalledIsUsable'
    BY <1>0, <1>4 DEF ExtractOneCryptoPe32FromGuidedFv, Return, Go, InstalledIsUsable, TypeOK, HeldInv, ConstructedInv, InstallInv
  <2>6. FailureLeavesNothing'
    BY <1>0, <1>4 DEF ExtractOneCryptoPe32FromGuidedFv, Return, Go, FailureLeavesNothing, TypeOK, HeldInv, InstallInv
  <2>7. LateRngIsFound'
    BY <1>0, <1>4 DEF ExtractOneCryptoPe32FromGuidedFv, Return, Go, LateRngIsFound, InstalledIsUsable, InstallInv
  <2> QED  BY <2>1, <2>2, <2>3, <2>4, <2>5, <2>6, <2>7 DEF BootInv
<1>5. CASE LoadImage
  <2>a. pc' \in Places /\ status' \in Statuses
    BY <1>0, <1>5 DEF LoadImage, Leave, Go, TypeOK, Places, Statuses
  <2>b. heap' \subseteq Blocks
    BY <1>0, <1>5 DEF LoadImage, Leave, Go, TypeOK, Blocks
  <2>1. TypeOK'
    BY <1>0, <1>5, <2>a, <2>b DEF LoadImage, Leave, Go, TypeOK
  <2>2. HeldInv'
    BY <1>0, <1>5 DEF LoadImage, Leave, Go, HeldInv, TypeOK, Blocks
  <2>3. ConstructedInv'
    BY <1>0, <1>5 DEF LoadImage, Leave, Go, ConstructedInv, TypeOK
  <2>4. InstallInv'
    BY <1>0, <1>5 DEF LoadImage, Leave, Go, InstallInv, TypeOK, HeldInv
  <2>5. InstalledIsUsable'
    BY <1>0, <1>5 DEF LoadImage, Leave, Go, InstalledIsUsable, TypeOK, HeldInv, ConstructedInv, InstallInv
  <2>6. FailureLeavesNothing'
    BY <1>0, <1>5 DEF LoadImage, Leave, Go, FailureLeavesNothing, TypeOK, HeldInv, InstallInv
  <2>7. LateRngIsFound'
    BY <1>0, <1>5 DEF LoadImage, Leave, Go, LateRngIsFound, InstalledIsUsable, InstallInv
  <2> QED  BY <2>1, <2>2, <2>3, <2>4, <2>5, <2>6, <2>7 DEF BootInv
<1>6. CASE GetEntryFromLoadedImage
  <2>a. pc' \in Places /\ status' \in Statuses
    BY <1>0, <1>6 DEF GetEntryFromLoadedImage, Leave, Go, TypeOK, Places, Statuses
  <2>b. heap' \subseteq Blocks
    BY <1>0, <1>6 DEF GetEntryFromLoadedImage, Leave, Go, TypeOK, Blocks
  <2>1. TypeOK'
    BY <1>0, <1>6, <2>a, <2>b DEF GetEntryFromLoadedImage, Leave, Go, TypeOK
  <2>2. HeldInv'
    BY <1>0, <1>6 DEF GetEntryFromLoadedImage, Leave, Go, HeldInv, TypeOK, Blocks
  <2>3. ConstructedInv'
    BY <1>0, <1>6 DEF GetEntryFromLoadedImage, Leave, Go, ConstructedInv, TypeOK
  <2>4. InstallInv'
    BY <1>0, <1>6 DEF GetEntryFromLoadedImage, Leave, Go, InstallInv, TypeOK, HeldInv
  <2>5. InstalledIsUsable'
    BY <1>0, <1>6 DEF GetEntryFromLoadedImage, Leave, Go, InstalledIsUsable, TypeOK, HeldInv, ConstructedInv, InstallInv
  <2>6. FailureLeavesNothing'
    BY <1>0, <1>6 DEF GetEntryFromLoadedImage, Leave, Go, FailureLeavesNothing, TypeOK, HeldInv, InstallInv
  <2>7. LateRngIsFound'
    BY <1>0, <1>6 DEF GetEntryFromLoadedImage, Leave, Go, LateRngIsFound, InstalledIsUsable, InstallInv
  <2> QED  BY <2>1, <2>2, <2>3, <2>4, <2>5, <2>6, <2>7 DEF BootInv
<1>7. CASE QuerySize
  <2>a. pc' \in Places /\ status' \in Statuses
    BY <1>0, <1>7 DEF QuerySize, EntrySetup, Leave, Go, TypeOK, Places, Statuses
  <2>b. heap' \subseteq Blocks
    BY <1>0, <1>7 DEF QuerySize, EntrySetup, Leave, Go, TypeOK, Blocks
  <2>1. TypeOK'
    BY <1>0, <1>7, <2>a, <2>b DEF QuerySize, EntrySetup, Leave, Go, TypeOK
  <2>2. HeldInv'
    BY <1>0, <1>7 DEF QuerySize, EntrySetup, Leave, Go, HeldInv, TypeOK, Blocks
  <2>3. ConstructedInv'
    BY <1>0, <1>7 DEF QuerySize, EntrySetup, Leave, Go, ConstructedInv, TypeOK
  <2>4. InstallInv'
    BY <1>0, <1>7 DEF QuerySize, EntrySetup, Leave, Go, InstallInv, TypeOK, HeldInv
  <2>5. InstalledIsUsable'
    BY <1>0, <1>7 DEF QuerySize, EntrySetup, Leave, Go, InstalledIsUsable, TypeOK, HeldInv, ConstructedInv, InstallInv
  <2>6. FailureLeavesNothing'
    BY <1>0, <1>7 DEF QuerySize, EntrySetup, Leave, Go, FailureLeavesNothing, TypeOK, HeldInv, InstallInv
  <2>7. LateRngIsFound'
    BY <1>0, <1>7 DEF QuerySize, EntrySetup, Leave, Go, LateRngIsFound, InstalledIsUsable, InstallInv
  <2> QED  BY <2>1, <2>2, <2>3, <2>4, <2>5, <2>6, <2>7 DEF BootInv
<1>8. CASE AllocateProtocol
  <2>a. pc' \in Places /\ status' \in Statuses
    BY <1>0, <1>8 DEF AllocateProtocol, Leave, Go, TypeOK, Places, Statuses
  <2>b. heap' \subseteq Blocks
    BY <1>0, <1>8 DEF AllocateProtocol, Leave, Go, TypeOK, Blocks
  <2>c. mOneCryptoProtocol' \in {"NULL", "Protocol"} /\ UNCHANGED binVars
    BY <1>0, <1>8 DEF AllocateProtocol, Leave, Go, TypeOK
  <2>1. TypeOK'
    BY <1>0, <1>8, <2>a, <2>b, <2>c DEF AllocateProtocol, TypeOK
  <2>2. HeldInv'
    BY <1>0, <1>8 DEF AllocateProtocol, Leave, Go, HeldInv, TypeOK, Blocks
  <2>3. ConstructedInv'
    BY <1>0, <1>8 DEF AllocateProtocol, Leave, Go, ConstructedInv, TypeOK
  <2>4. InstallInv'
    BY <1>0, <1>8 DEF AllocateProtocol, Leave, Go, InstallInv, TypeOK, HeldInv
  <2>5. InstalledIsUsable'
    BY <1>0, <1>8 DEF AllocateProtocol, Leave, Go, InstalledIsUsable, TypeOK, HeldInv, ConstructedInv, InstallInv
  <2>6. FailureLeavesNothing'
    BY <1>0, <1>8 DEF AllocateProtocol, Leave, Go, FailureLeavesNothing, TypeOK, HeldInv, InstallInv
  <2>7. LateRngIsFound'
    BY <1>0, <1>8 DEF AllocateProtocol, Leave, Go, LateRngIsFound, InstalledIsUsable, InstallInv
  <2> QED  BY <2>1, <2>2, <2>3, <2>4, <2>5, <2>6, <2>7 DEF BootInv
<1>9. CASE Construct
  <2>a. pc' \in Places /\ status' \in Statuses
    BY <1>0, <1>9 DEF Construct, CryptoEntry, OneCryptoCrtSetup, CryptoInit, EntrySetup, Leave, Go, TypeOK, Places, Statuses
  <2>b. heap' \subseteq Blocks
    BY <1>0, <1>9 DEF Construct, CryptoEntry, OneCryptoCrtSetup, CryptoInit, EntrySetup, Leave, Go, TypeOK, Blocks
  <2>c. /\ mOneCryptoProtocol' \in {"NULL", "Protocol"}
        /\ mCryptoDependencies' \in {"NULL", "Depends"}
        /\ populated' \in BOOLEAN /\ cpuidReady' \in BOOLEAN
    BY <1>0, <1>9 DEF Construct, CryptoEntry, OneCryptoCrtSetup, CryptoInit, EntrySetup, Leave, Go, TypeOK
  <2>1. TypeOK'
    BY <1>0, <1>9, <2>a, <2>b, <2>c DEF Construct, TypeOK
  <2>2. HeldInv'
    BY <1>0, <1>9 DEF Construct, CryptoEntry, OneCryptoCrtSetup, CryptoInit, EntrySetup, Leave, Go, HeldInv, TypeOK, Blocks
  <2>3. ConstructedInv'
    BY <1>0, <1>9 DEF Construct, CryptoEntry, OneCryptoCrtSetup, CryptoInit, EntrySetup, Leave, Go, ConstructedInv, TypeOK
  <2>4. InstallInv'
    BY <1>0, <1>9 DEF Construct, CryptoEntry, OneCryptoCrtSetup, CryptoInit, EntrySetup, Leave, Go, InstallInv, TypeOK, HeldInv
  <2>5. InstalledIsUsable'
    BY <1>0, <1>9 DEF Construct, CryptoEntry, OneCryptoCrtSetup, CryptoInit, EntrySetup, Leave, Go, InstalledIsUsable, TypeOK, HeldInv, ConstructedInv, InstallInv
  <2>6. FailureLeavesNothing'
    BY <1>0, <1>9 DEF Construct, CryptoEntry, OneCryptoCrtSetup, CryptoInit, EntrySetup, Leave, Go, FailureLeavesNothing, TypeOK, HeldInv, InstallInv
  <2>7. LateRngIsFound'
    BY <1>0, <1>9 DEF Construct, CryptoEntry, OneCryptoCrtSetup, CryptoInit, EntrySetup, Leave, Go, LateRngIsFound, InstalledIsUsable, InstallInv
  <2> QED  BY <2>1, <2>2, <2>3, <2>4, <2>5, <2>6, <2>7 DEF BootInv
<1>10. CASE InstallProtocol
  <2>a. pc' \in Places /\ status' \in Statuses
    BY <1>0, <1>10 DEF InstallProtocol, Leave, TypeOK, Places, Statuses
  <2>b. heap' \subseteq Blocks
    BY <1>0, <1>10 DEF InstallProtocol, Leave, TypeOK, Blocks
  <2>c. installed' \in BOOLEAN
    BY <1>0, <1>10 DEF InstallProtocol, TypeOK
  <2>1. TypeOK'
    BY <1>0, <1>10, <2>a, <2>b, <2>c DEF InstallProtocol, TypeOK
  <2>2. HeldInv'
    BY <1>0, <1>10 DEF InstallProtocol, Leave, HeldInv, TypeOK, Blocks
  <2>3. ConstructedInv'
    BY <1>0, <1>10 DEF InstallProtocol, Leave, ConstructedInv, TypeOK
  <2>4. InstallInv'
    BY <1>0, <1>10 DEF InstallProtocol, Leave, InstallInv, TypeOK, HeldInv
  <2>5. InstalledIsUsable'
    BY <1>0, <1>10 DEF InstallProtocol, Leave, InstalledIsUsable, TypeOK, HeldInv, ConstructedInv, InstallInv
  <2>6. FailureLeavesNothing'
    BY <1>0, <1>10 DEF InstallProtocol, Leave, FailureLeavesNothing, TypeOK, HeldInv, InstallInv
  <2>7. LateRngIsFound'
    BY <1>0, <1>10 DEF InstallProtocol, Leave, LateRngIsFound, InstalledIsUsable, InstallInv
  <2> QED  BY <2>1, <2>2, <2>3, <2>4, <2>5, <2>6, <2>7 DEF BootInv
<1>11. CASE Exit
  <2>a. pc' \in Places /\ status' \in Statuses
    BY <1>0, <1>11 DEF Exit, Freed, TakenBack, TypeOK, Places, Statuses
  <2>b. heap' \subseteq Blocks
    BY <1>0, <1>11 DEF Exit, Freed, TakenBack, TypeOK, Blocks
  <2>1. TypeOK'
    BY <1>0, <1>11, <2>a, <2>b DEF Exit, Freed, TakenBack, TypeOK
  <2>2. HeldInv'
    BY <1>0, <1>11 DEF Exit, Freed, TakenBack, HeldInv, TypeOK, Blocks
  <2>3. ConstructedInv'
    BY <1>0, <1>11 DEF Exit, Freed, TakenBack, ConstructedInv, TypeOK
  <2>4. InstallInv'
    BY <1>0, <1>11 DEF Exit, Freed, TakenBack, InstallInv, TypeOK, HeldInv
  <2>5. InstalledIsUsable'
    BY <1>0, <1>11 DEF Exit, Freed, TakenBack, InstalledIsUsable, TypeOK, HeldInv, ConstructedInv, InstallInv
  <2>6. FailureLeavesNothing'
    BY <1>0, <1>11 DEF Exit, Freed, TakenBack, FailureLeavesNothing, TypeOK, HeldInv, InstallInv
  <2>7. LateRngIsFound'
    BY <1>0, <1>11 DEF Exit, Freed, TakenBack, LateRngIsFound, InstalledIsUsable, InstallInv
  <2> QED  BY <2>1, <2>2, <2>3, <2>4, <2>5, <2>6, <2>7 DEF BootInv
<1>12. CASE BinEntry
  <2>a. pc' \in Places /\ status' \in Statuses
    BY <1>0, <1>12 DEF BinEntry, TypeOK, Places, Statuses
  <2>b. heap' \subseteq Blocks
    BY <1>0, <1>12 DEF BinEntry, TypeOK, Blocks
  <2>1. TypeOK'
    BY <1>0, <1>12, <2>a, <2>b DEF BinEntry, TypeOK
  <2>2. HeldInv'
    BY <1>0, <1>12 DEF BinEntry, HeldInv, TypeOK, Blocks
  <2>3. ConstructedInv'
    BY <1>0, <1>12 DEF BinEntry, ConstructedInv, TypeOK
  <2>4. InstallInv'
    BY <1>0, <1>12 DEF BinEntry, InstallInv, TypeOK, HeldInv
  <2>5. InstalledIsUsable'
    BY <1>0, <1>12 DEF BinEntry, InstalledIsUsable, TypeOK, HeldInv, ConstructedInv, InstallInv
  <2>6. FailureLeavesNothing'
    BY <1>0, <1>12 DEF BinEntry, FailureLeavesNothing, TypeOK, HeldInv, InstallInv
  <2>7. LateRngIsFound'
    BY <1>0, <1>12 DEF BinEntry, LateRngIsFound, InstalledIsUsable, InstallInv
  <2> QED  BY <2>1, <2>2, <2>3, <2>4, <2>5, <2>6, <2>7 DEF BootInv
<1>13. CASE RngArrives
  <2>a. pc' \in Places /\ status' \in Statuses
    BY <1>0, <1>13 DEF RngArrives, TypeOK, Places, Statuses
  <2>b. heap' \subseteq Blocks
    BY <1>0, <1>13 DEF RngArrives, TypeOK, Blocks
  <2>1. TypeOK'
    BY <1>0, <1>13, <2>a, <2>b DEF RngArrives, TypeOK
  <2>2. HeldInv'
    BY <1>0, <1>13 DEF RngArrives, HeldInv, TypeOK, Blocks
  <2>3. ConstructedInv'
    BY <1>0, <1>13 DEF RngArrives, ConstructedInv, TypeOK
  <2>4. InstallInv'
    BY <1>0, <1>13 DEF RngArrives, InstallInv, TypeOK, HeldInv
  <2>5. InstalledIsUsable'
    BY <1>0, <1>13 DEF RngArrives, InstalledIsUsable, TypeOK, HeldInv, ConstructedInv, InstallInv
  <2>6. FailureLeavesNothing'
    BY <1>0, <1>13 DEF RngArrives, FailureLeavesNothing, TypeOK, HeldInv, InstallInv
  <2>7. LateRngIsFound'
    BY <1>0, <1>13 DEF RngArrives, LateRngIsFound, InstalledIsUsable, InstallInv
  <2> QED  BY <2>1, <2>2, <2>3, <2>4, <2>5, <2>6, <2>7 DEF BootInv
<1>14. CASE GetRandomNumber64
  <2>a. pc' \in Places /\ status' \in Statuses
    BY <1>0, <1>14 DEF GetRandomNumber64, MustLocateRng, TypeOK, Places, Statuses
  <2>b. heap' \subseteq Blocks
    BY <1>0, <1>14 DEF GetRandomNumber64, MustLocateRng, TypeOK, Blocks
  <2>c. /\ mCachedRngProtocol' \in BOOLEAN /\ mMmRngInitAttempted' \in BOOLEAN
        /\ random' \in {"none", "number", "unavailable", "failed"}
    BY <1>0, <1>14 DEF GetRandomNumber64, MustLocateRng, TypeOK
  <2>1. TypeOK'
    BY <1>0, <1>14, <2>a, <2>b, <2>c DEF GetRandomNumber64, TypeOK
  <2>2. HeldInv'
    BY <1>0, <1>14 DEF GetRandomNumber64, MustLocateRng, HeldInv, TypeOK, Blocks
  <2>3. ConstructedInv'
    BY <1>0, <1>14 DEF GetRandomNumber64, MustLocateRng, ConstructedInv, TypeOK
  <2>4. InstallInv'
    BY <1>0, <1>14 DEF GetRandomNumber64, MustLocateRng, InstallInv, TypeOK, HeldInv
  <2>5. InstalledIsUsable'
    BY <1>0, <1>14 DEF GetRandomNumber64, MustLocateRng, InstalledIsUsable, TypeOK, HeldInv, ConstructedInv, InstallInv
  <2>6. FailureLeavesNothing'
    BY <1>0, <1>14 DEF GetRandomNumber64, MustLocateRng, FailureLeavesNothing, TypeOK, HeldInv, InstallInv
  <2>7. LateRngIsFound'
    BY <1>0, <1>14 DEF GetRandomNumber64, MustLocateRng, LateRngIsFound, InstalledIsUsable, InstallInv
  <2> QED  BY <2>1, <2>2, <2>3, <2>4, <2>5, <2>6, <2>7 DEF BootInv
<1>15. CASE UNCHANGED vars
  <2>a. pc' \in Places /\ status' \in Statuses
    BY <1>0, <1>15 DEF vars, TypeOK, Places, Statuses
  <2>b. heap' \subseteq Blocks
    BY <1>0, <1>15 DEF vars, TypeOK, Blocks
  <2>1. TypeOK'
    BY <1>0, <1>15, <2>a, <2>b DEF vars, TypeOK
  <2>2. HeldInv'
    BY <1>0, <1>15 DEF vars, HeldInv, TypeOK, Blocks
  <2>3. ConstructedInv'
    BY <1>0, <1>15 DEF vars, ConstructedInv, TypeOK
  <2>4. InstallInv'
    BY <1>0, <1>15 DEF vars, InstallInv, TypeOK, HeldInv
  <2>5. InstalledIsUsable'
    BY <1>0, <1>15 DEF vars, InstalledIsUsable, TypeOK, HeldInv, ConstructedInv, InstallInv
  <2>6. FailureLeavesNothing'
    BY <1>0, <1>15 DEF vars, FailureLeavesNothing, TypeOK, HeldInv, InstallInv
  <2>7. LateRngIsFound'
    BY <1>0, <1>15 DEF vars, LateRngIsFound, InstalledIsUsable, InstallInv
  <2> QED  BY <2>1, <2>2, <2>3, <2>4, <2>5, <2>6, <2>7 DEF BootInv
<1> QED
  BY <1>1, <1>2, <1>3, <1>4, <1>5, <1>6, <1>7, <1>8, <1>9, <1>10, <1>11, <1>12, <1>13, <1>14,
     <1>15 DEF Next, LoaderStep

\* The inductive invariant holds in every state of the boot.
THEOREM BootInvariant == Spec => []BootInv
<1>1. Init => BootInv
  BY BootInit
<1>2. BootInv /\ [Next]_vars => BootInv'
  BY BootStep
<1> QED  BY <1>1, <1>2, PTL DEF Spec

\* The state of the loaders and of the binary keeps its types.
THEOREM BootTypeCorrect == Spec => []TypeOK
<1>1. BootInv => TypeOK
  BY DEF BootInv
<1> QED  BY <1>1, BootInvariant, PTL

\* An installed protocol always stands on a live dependency table, a constructed
\* binary and an allocated, filled protocol, whichever loader installed it.
THEOREM InstalledStaysUsable == Spec => []InstalledIsUsable
<1>1. BootInv => InstalledIsUsable
  BY DEF BootInv
<1> QED  BY <1>1, BootInvariant, PTL

\* The loader that fetches from MM leaks neither image, protocol nor section.
THEOREM FailureIsClean == Spec => []FailureLeavesNothing
<1>1. BootInv => FailureLeavesNothing
  BY DEF BootInv
<1> QED  BY <1>1, BootInvariant, PTL

\* A loader's status and the protocol it has built tell whether it is in the database.
THEOREM StatusAlwaysTells == Spec => []StatusTellsDatabase
<1>1. BootInv => StatusTellsDatabase
  BY DEF BootInv, InstallInv, StatusTellsDatabase
<1> QED  BY <1>1, BootInvariant, PTL

\* A late EFI_RNG_PROTOCOL is found by the next request in DXE.
THEOREM LateRngAlwaysFound == Spec => []LateRngIsFound
<1>1. BootInv => LateRngIsFound
  BY DEF BootInv
<1> QED  BY <1>1, BootInvariant, PTL
=============================================================================
