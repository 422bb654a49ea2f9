-------------------------- MODULE ProviderObjects --------------------------
(***************************************************************************)
(* The functions of BaseCryptLib and TlsLib, and the objects of OpenSSL or *)
(* MbedTLS that they create, hand over and release.  Every call of the     *)
(* provider may fail.                                                      *)
(*                                                                         *)
(* The functions come in families.  Those of a family work on one context, *)
(* a structure the caller gets from a function that makes one and gives    *)
(* back to one that frees it; in between it calls the others in any order. *)
(* The parts of the context stay where they are from one call to the next. *)
(***************************************************************************)
EXTENDS Naturals, Sequences, FiniteSets, CallSteps

CONSTANTS
  Family,    \* for each family [code, context, parts, makes, uses, frees, answers]:
             \* the steps of each function, the name of the context and of its
             \* parts, the functions that make, use and free the context, and
             \* those that owe an answer
  Known      \* what the code is known to do wrong: kind, family,
             \* function and object

VARIABLES
  family,    \* whose functions are called
  fam,       \* what is known of them: Family[family] without the steps
  fn, code,  \* the function that runs or ran last, and its steps
  pc,        \* the place where it is; 0: it has returned
  place,     \* where the object of each pointer is
  outdated,  \* objects made from data that have changed since
  status,    \* the Status variable of the function
  wants,     \* TRUE: the caller gave a buffer for the answer
  filled,    \* TRUE: the answer is in it
  gained,    \* objects handed to the caller by this call
  faults     \* what went wrong so far and is not known, in the same form

vars == <<family, fam, fn, code, pc, place, outdated, status, wants, filled, gained, faults>>

\* A pointer is not initialised, is NULL, owns a live object, points to one that
\* was freed, points to one the caller has, or into the object of another pointer.
NoPlace == {"junk", "null", "own", "freed", "caller"}

Steps(m, f) == {m.code[f][i] : i \in 1..Len(m.code[f])}

Kept(m) == ({m.context} \cup m.parts) \ {""}
Names(m) ==
  (Kept(m) \cup UNION {UNION {{s.x, s.y} : s \in Steps(m, f)} : f \in DOMAIN m.code})
  \ {"", "TRUE", "FALSE"}

\* Every label that is used is there, once.
ASSUME LabelsAssumption ==
  \A n \in DOMAIN Family : \A f \in DOMAIN Family[n].code : \A s \in Steps(Family[n], f) :
    \/ s.l \in {"", "TRUE", "FALSE"}
    \/ Cardinality({k \in DOMAIN Family[n].code[f] : Family[n].code[f][k] = At(s.l)}) = 1

Init ==
  /\ family \in DOMAIN Family
  /\ fam = [k \in DOMAIN Family[family] \ {"code"} |-> Family[family][k]]
  /\ fn = "" /\ code = <<>> /\ pc = 0
  /\ place = [x \in Names(Family[family]) |-> IF x = fam.context THEN "null" ELSE "junk"]
  /\ outdated = {} /\ faults = {} /\ gained = {}
  /\ status = FALSE /\ wants = FALSE /\ filled = FALSE

-----------------------------------------------------------------------------
(* The caller.                                                              *)

HasContext == fam.context # "" /\ place[fam.context] = "caller"

\* The function owes the caller an answer, in a buffer or as its result.
Answers(f) == f \in fam.answers

\* The context goes to the functions that use it; they are not called without.
Invoke(f) ==
  /\ pc = 0
  /\ \/ f \in fam.makes /\ ~HasContext
     \/ f \in fam.uses \cup fam.frees /\ (HasContext \/ fam.context = "")
  /\ fn' = f /\ code' = Family[family].code[f] /\ pc' = 1
  /\ wants' \in IF Answers(f) THEN BOOLEAN ELSE {FALSE}
  /\ status' = FALSE /\ filled' = FALSE /\ gained' = {}
  /\ UNCHANGED <<family, fam, place, outdated, faults>>

-----------------------------------------------------------------------------
(* The steps.                                                               *)

step == code[pc]
Target(l) == CHOOSE i \in 1..Len(code) : code[i] = At(l)

Running(op) == pc # 0 /\ step.op = op

Owner(x) == IF place[x] \in NoPlace THEN x ELSE place[x]

\* The object x points to is there.
Live(x) == place[Owner(x)] \in {"own", "caller"}

\* What a use of x reports.
Misuse(x) ==
  IF x = "" THEN {}
  ELSE IF place[x] = "null" THEN {<<"null", family, fn, x>>}
  ELSE IF ~Live(x) THEN {<<"dangling", family, fn, x>>}
  ELSE IF x \in outdated THEN {<<"outdated", family, fn, x>>} ELSE {}

\* The object of x is lost when x gets another value.
Loss(x) == IF place[x] = "own" THEN {<<"leak", family, fn, x>>} ELSE {}

\* The caller does not have the context any more.
GivenUp(pl) == pl[fam.context] # "caller" \/ fn \in fam.frees

\* What is left behind by a function that returns.
Left(pl) ==
  {<<"leak", family, fn, x>> : x \in {y \in DOMAIN pl \ Kept(fam) : pl[y] = "own"}}
  \cup {<<"leak", family, fn, x>> : x \in {y \in Kept(fam) :
          pl[y] = "own" /\ (fam.context = "" \/ GivenUp(pl))}}
  \cup {<<"leak", family, fn, x>> : x \in {y \in {fam.context} : fn \in fam.frees /\ pl[y] = "caller"}}

Finish(b, pl, old) ==
  /\ status' = b
  /\ pc' = 0
  /\ faults' = faults \cup ((old \cup Left(pl)) \ Known)
  /\ place' = [x \in DOMAIN pl |->
                  IF x \notin Kept(fam) THEN "junk"
                  ELSE IF ~GivenUp(pl) THEN pl[x]
                  ELSE IF x = fam.context THEN "null" ELSE "junk"]

\* The function goes on at l, or behind the step, with the objects at pl.
JumpTo(l, b, pl, old) ==
  IF l \in {"TRUE", "FALSE"} THEN Finish(l = "TRUE", pl, old)
  ELSE /\ pc' = IF l = "" THEN pc + 1 ELSE Target(l)
       /\ status' = b /\ place' = pl /\ faults' = faults \cup (old \ Known)

Same == UNCHANGED <<family, fam, fn, code, outdated, wants, filled, gained>>
Continue(l) == JumpTo(l, status, place, {})

Becomes(x, p) == [place EXCEPT ![x] = p]

\* Pointers into x go with it.
FreeOf(x) ==
  [y \in DOMAIN place |-> IF y = x \/ place[y] = x THEN "freed" ELSE place[y]]

DoTry == Running("Try") /\ Same /\ \E l \in {"", step.l} : Continue(l)

DoUse ==
  /\ Running("Use") \/ Running("Call")
  /\ \E l \in {"", step.l} : JumpTo(l, status, place, Misuse(step.x))
  /\ Same

DoNull == Running("Null") /\ Same /\ JumpTo("", status, Becomes(step.x, "null"), Loss(step.x))

DoNew ==
  /\ Running("New") \/ Running("Construct")
  /\ LET told == step.op = "Construct"
     IN  \/ JumpTo("", IF told THEN TRUE ELSE status, Becomes(step.x, "own"),
                   Loss(step.x) \cup Misuse(step.y))
         \/ JumpTo(step.l, IF told THEN FALSE ELSE status, Becomes(step.x, "null"),
                   Loss(step.x) \cup Misuse(step.y))
  /\ outdated' = outdated \ {step.x}
  /\ UNCHANGED <<family, fam, fn, code, wants, filled, gained>>

DoEnsure ==
  /\ Running("Ensure") /\ Same
  /\ \/ JumpTo("", status, Becomes(step.x, "own"), {})
     \/ Continue(step.l)

DoBorrow ==
  /\ Running("Borrow") /\ Same
  /\ \/ JumpTo("", status, Becomes(step.x, Owner(step.y)), Misuse(step.y) \cup Loss(step.x))
     \/ /\ step.l # ""
        /\ JumpTo(step.l, status, Becomes(step.x, "null"), Misuse(step.y) \cup Loss(step.x))

DoMove ==
  /\ Running("Move") /\ Same
  /\ JumpTo("", status,
            [z \in DOMAIN place |-> IF z = step.y THEN place[step.x]
                                   ELSE IF z = step.x \/ place[z] = step.x THEN step.y ELSE place[z]],
            Misuse(step.x) \cup Loss(step.y))

\* Push may fail without being noticed.
DoGive ==
  /\ Running("Give") \/ Running("Push")
  /\ \/ JumpTo("", status,
               [z \in DOMAIN place |-> IF z = step.x \/ place[z] = step.x THEN Owner(step.y) ELSE place[z]],
               Misuse(step.x) \cup Misuse(step.y))
     \/ step.op = "Push" /\ JumpTo("", status, place, Misuse(step.x) \cup Misuse(step.y))
  /\ Same

\* Only what the function owns, or the context it is there to free, may be freed.
DoFree ==
  /\ Running("Free") \/ Running("FreePool")
  /\ LET p == place[step.x]
         mine == p = "own" \/ (p = "caller" /\ (fn \in fam.frees \/ step.x \in gained))
     IN  IF p = "null"
         THEN JumpTo("", status, place, IF step.op = "FreePool" THEN Misuse(step.x) ELSE {})
         ELSE JumpTo("", status, FreeOf(step.x), IF mine THEN {} ELSE {<<"dangling", family, fn, step.x>>})
  /\ Same

DoOutdate ==
  /\ Running("Outdate")
  /\ Continue("")
  /\ outdated' = IF place[step.x] = "own" THEN outdated \cup {step.x} ELSE outdated
  /\ UNCHANGED <<family, fam, fn, code, wants, filled, gained>>

DoOut ==
  /\ Running("Out")
  /\ JumpTo("", status, Becomes(step.x, "caller"), Misuse(step.x))
  /\ gained' = gained \cup {step.x}
  /\ UNCHANGED <<family, fam, fn, code, outdated, wants, filled>>

DoFill ==
  /\ Running("Fill")
  /\ Continue("")
  /\ filled' = TRUE
  /\ UNCHANGED <<family, fam, fn, code, outdated, wants, gained>>

DoSet == Running("Set") /\ Same /\ JumpTo("", step.x = "TRUE", place, {})

DoResult == Running("Result") /\ Same /\ \E b \in BOOLEAN : JumpTo("", b, place, Misuse(step.x))

DoTest ==
  /\ Running("IfNull") \/ Running("IfFailed") \/ Running("IfNoBuffer")
  /\ LET yes == CASE step.op = "IfNull" -> place[step.x] = "null"
                  [] step.op = "IfFailed" -> ~status
                  [] OTHER -> ~wants
     IN  Continue(IF yes THEN step.l ELSE "")
  /\ Same

DoGoto == Running("Goto") /\ Same /\ Continue(step.l)
DoLabel == Running("At") /\ Same /\ Continue("")
DoReturn == Running("Return") /\ Same /\ Finish(status, place, {})

Next ==
  \/ \E f \in fam.makes \cup fam.uses \cup fam.frees : Invoke(f)
  \/ DoTry \/ DoUse \/ DoNull \/ DoNew \/ DoEnsure \/ DoBorrow \/ DoMove \/ DoGive \/ DoFree
  \/ DoOutdate \/ DoOut \/ DoFill \/ DoSet \/ DoResult \/ DoTest \/ DoGoto \/ DoLabel \/ DoReturn

Spec == Init /\ [][Next]_vars

-----------------------------------------------------------------------------
(* Properties.                                                              *)

Faults(kinds) == {f \in faults : f[1] \in kinds}

\* Whatever fails, a function that returns has freed, given away or handed to the
\* caller every object it made, and a context that is freed leaves no part behind.
NothingLeaked == Faults({"leak"}) = {}

\* No function uses or frees an object that is not there (NULL, uninitialised,
\* freed before, or freed with the object it is a part of), in any sequence of
\* calls on one context, nor one made from data that changed since.
NothingMisused == Faults({"null", "dangling", "outdated"}) = {}

\* TRUE means that the answer is in the buffer the caller gave.
TruthfulResult == pc = 0 /\ status /\ wants => filled \/ <<"result", family, fn, "">> \in Known

\* A function that fails hands no object to the caller.
FailureGivesNothing == pc = 0 /\ ~status => gained = {} \/ <<"given", family, fn, "">> \in Known
=============================================================================
