----------------------------- MODULE MCSysCall ------------------------------
(***************************************************************************)
(* What the libraries offer OpenSSL and MbedTLS in place of a C library and  *)
(* an operating system: CRuntime or, in other behaviours, Clock.             *)
(*                                                                         *)
(* CRuntime is asked about strings of up to three of the characters A, a and *)
(* b.  Clock is looked at from the epoch on; in the winter before the leap   *)
(* year 2000, an hour west of Greenwich; in the year 2100, which is not one, *)
(* an hour east; and in the days around 6 June 2149, the 65535th after the   *)
(* epoch.  Seconds 65535 and 65536 are the largest of a UINT16 and the next. *)
(***************************************************************************)
EXTENDS CRuntime, Clock

VARIABLE part

MCTexts == UNION {[1..n -> {65, 97, 98}] : n \in 0..3}
\* Behind the string there is nothing, or a character and another 0.
MCStrings == {s \o <<0>> \o t : s \in MCTexts, t \in {<<>>, <<97, 0>>}}
MCCounts == 0..4
MCLists == UNION {{[i \in 1..n |-> <<k[i], i>>] : k \in [1..n -> 1..3]} : n \in 0..6}
MCBlocks == UNION {[1..n -> {7, 8}] : n \in 0..3}
\* Key usages of the samples, and numbers at the limits of one and two bytes.
MCOids == {<<1, 3, 6, 1, 5, 5, 7, 3, 3>>, <<1, 3, 6, 1, 4, 1, 311, 76, 9, 21, 1>>, <<1, 2, 840, 113549, 1>>}
          \cup {<<1, 3, a, b>> : a, b \in {0, 1, 127, 128, 255, 256, 383, 384, 16383, 16384}}

At(y, m, d, s, w, n) == [Year |-> y, Month |-> m, Day |-> d, sec |-> s, wday |-> w, yday |-> n]
MCEpoch == [utc |-> At(1970, 1, 1, 0, 4, 0), local |-> At(1970, 1, 1, 0, 4, 0), zone |-> EFI_UNSPECIFIED_TIMEZONE]

MCStarts ==
  { MCEpoch,
    [utc |-> At(1999, 12, 1, 0, 3, 334), local |-> At(1999, 11, 30, 82800, 2, 333), zone |-> 60],
    [utc |-> At(2100, 1, 1, 0, 5, 0), local |-> At(2100, 1, 1, 3600, 5, 0), zone |-> -60],
    [utc |-> At(2149, 6, 1, 0, 0, 151), local |-> At(2149, 6, 1, 0, 0, 151), zone |-> EFI_UNSPECIFIED_TIMEZONE] }

MCInstants == <<0, 65535, 65536, 86399>>

-----------------------------------------------------------------------------
\* Each part at rest while the other is looked at.
NothingAsked == question = [fn |-> "none"] /\ asked = FALSE /\ answer = NULL
NoClock == ClockInit /\ build = "openssl" /\ zone = EFI_UNSPECIFIED_TIMEZONE /\ clock = MCEpoch.utc

MCInit == \/ part = "runtime" /\ Init /\ NoClock
          \/ part = "clock" /\ NothingAsked /\ ClockInit

AskRuntime == part = "runtime" /\ Next /\ UNCHANGED <<part, clockVars>>
UseClock == part = "clock" /\ ClockNext /\ UNCHANGED <<part, vars>>

MCNext == AskRuntime \/ UseClock

MCSpec == MCInit /\ [][MCNext]_<<part, vars, clockVars>>
=============================================================================
