--------------------------- MODULE OneCryptoLibs ---------------------------
(***************************************************************************)
(* OneCryptoCrtLib and the libraries that stand on it in the provider: how *)
(* a request reaches the services the loader put into the dependency       *)
(* table, and what is refused because no service is behind it.  The table  *)
(* itself, and who fills it when, is in CryptoBoot.                        *)
(***************************************************************************)
EXTENDS CallSteps

Refuse(names) == [f \in names |-> <<Goto("FALSE")>>]

-----------------------------------------------------------------------------
(* Memory.  The table has both functions or is not there: a buffer that was  *)
(* allocated can be freed.                                                   *)

OneCryptoAllocatePool == <<Check, New("Buffer", "FALSE")>>
OneCryptoAllocateZeroPool == OneCryptoAllocatePool \o <<Use("Buffer")>>
OneCryptoFreePool == <<Free("Buffer")>>

AllocatePool == OneCryptoAllocatePool \o <<Out("Buffer"), Goto("TRUE")>>
AllocateZeroPool == OneCryptoAllocateZeroPool \o <<Out("Buffer"), Goto("TRUE")>>
FreePoolOfBuffer == OneCryptoFreePool \o <<Goto("TRUE")>>

MemoryFamily ==
  Context([AllocatePool |-> AllocatePool, AllocateZeroPool |-> AllocateZeroPool,
           FreePool |-> FreePoolOfBuffer],
          "Buffer", {}, {"AllocatePool", "AllocateZeroPool"}, {"FreePool"})

\* The rest of MemoryAllocationLib is not there.
PoolStubs ==
  {"AllocateRuntimePool", "AllocateReservedPool", "AllocateRuntimeZeroPool",
   "AllocateReservedZeroPool"}
CopyPoolStubs == {"AllocateCopyPool", "AllocateRuntimeCopyPool", "AllocateReservedCopyPool"}
ReallocateStubs == {"ReallocatePool", "ReallocateRuntimePool", "ReallocateReservedPool"}
PagesStubs ==
  {"FreeAlignedPages", "AllocatePages", "AllocateRuntimePages", "AllocateReservedPages", "FreePages"}
AlignedPagesStubs ==
  {"AllocateAlignedPages", "AllocateAlignedRuntimePages", "AllocateAlignedReservedPages"}

-----------------------------------------------------------------------------
(* Random numbers.  Every width is made from the service for 64 bits.        *)

OneCryptoGetRandomNumber64 == <<Check, Try("FALSE")>>
GetRandomNumber64 == <<IfNoBuffer("FALSE")>> \o OneCryptoGetRandomNumber64 \o <<Fill, Goto("TRUE")>>
GetRandomNumber32 == <<IfNoBuffer("FALSE")>> \o OneCryptoGetRandomNumber64 \o <<Fill, Goto("TRUE")>>
GetRandomNumber16 == GetRandomNumber32
GetRandomNumber128 ==
  <<IfNoBuffer("FALSE")>> \o OneCryptoGetRandomNumber64 \o OneCryptoGetRandomNumber64
  \o <<Fill, Goto("TRUE")>>

-----------------------------------------------------------------------------
(* Time.                                                                     *)

OneCryptoGetTime == <<Check, Try("FALSE"), Fill, Goto("TRUE")>>
LibGetTime == <<IfNoBuffer("FALSE")>> \o OneCryptoGetTime

\* Without the service, 0 is returned at once.
OneCryptoMicroSecondDelay == <<Check, Fill, Goto("TRUE")>>
MicroSecondDelay == OneCryptoMicroSecondDelay

\* The time asked for is returned as if it had passed.
NanoSecondDelay == <<Goto("TRUE")>>

ClockStubs == {"LibSetTime", "LibGetWakeupTime", "LibSetWakeupTime"}
TimerStubs == {"GetPerformanceCounter", "GetPerformanceCounterProperties", "GetTimeInNanoSecond"}

-----------------------------------------------------------------------------
(* Exports of a loaded image.                                                *)

\* Machine, signature, magic, and the place of the table.
GetExportDirectoryInPeCoffImage ==
  <<IfNoBuffer("FALSE"), Check, Try("FALSE"), Try("FALSE"), Try("FALSE"), Try("FALSE"), Try("FALSE"),
    Fill, Goto("TRUE")>>

\* The names are compared one after the other.
FindExportedFunction ==
  <<IfNoBuffer("FALSE"), Check, At("name"), Try("FALSE"), Try("name"), Fill, Goto("TRUE")>>

ServiceFamily ==
  LET answered ==
        [GetRandomNumber16 |-> GetRandomNumber16, GetRandomNumber32 |-> GetRandomNumber32,
         GetRandomNumber64 |-> GetRandomNumber64, GetRandomNumber128 |-> GetRandomNumber128,
         LibGetTime |-> LibGetTime, MicroSecondDelay |-> MicroSecondDelay,
         NanoSecondDelay |-> NanoSecondDelay,
         GetExportDirectoryInPeCoffImage |-> GetExportDirectoryInPeCoffImage,
         FindExportedFunction |-> FindExportedFunction]
      refused ==
        Refuse(PoolStubs \cup CopyPoolStubs \cup ReallocateStubs \cup PagesStubs
               \cup AlignedPagesStubs \cup ClockStubs \cup TimerStubs \cup {"GetRngGuid"})
  IN  StandIns([f \in DOMAIN answered \cup DOMAIN refused |->
                  IF f \in DOMAIN answered THEN answered[f] ELSE refused[f]])
=============================================================================
