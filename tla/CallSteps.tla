----------------------------- MODULE CallSteps -----------------------------
(***************************************************************************)
(* The steps of which a function of BaseCryptLib or TlsLib consists, as    *)
(* far as its objects and its result go.  A function is a sequence of such *)
(* steps; ProviderObjects runs it.                                         *)
(*                                                                         *)
(* Objects have the names of the pointers that hold them.  l is the label  *)
(* where the function goes on when the step does not succeed; going to     *)
(* "TRUE" or "FALSE" returns that result.                                  *)
(***************************************************************************)

EXTENDS Naturals, Sequences

Step(op, x, y, l) == [op |-> op, x |-> x, y |-> y, l |-> l]

\* Arguments and context are looked at, and FALSE is returned or not.
Check == Step("Try", "", "", "FALSE")
\* A call of the provider, or a condition on data, that may go wrong.
Try(l) == Step("Try", "", "", l)
\* The same for a call that is given the object x.
Call(x, l) == Step("Call", x, "", l)
\* A call with the object x whose result does not matter.
Use(x) == Step("Use", x, "", "")
\* The pointer x is set to NULL.
Null(x) == Step("Null", x, "", "")
\* x is a new object, or NULL.
New(x, l) == Step("New", x, "", l)
\* The same, made from the object y.
NewFrom(x, y, l) == Step("New", x, y, l)
\* Status is the result of a call that makes the object x.
Construct(x, l) == Step("Construct", x, "", l)
\* x is filled in; it is allocated if it was NULL.
Ensure(x, l) == Step("Ensure", x, "", l)
\* y is a pointer to something inside x, or NULL.
Borrow(y, x, l) == Step("Borrow", y, x, l)
\* y is the same pointer as x.
Alias(y, x) == Step("Borrow", y, x, "")
\* y takes over the object of x.
Move(x, y) == Step("Move", x, y, "")
\* x becomes a part of y, and is freed with it.
Give(x, y) == Step("Give", x, y, "")
\* The same, with a call that may fail and whose result is not looked at.
Push(x, y) == Step("Push", x, y, "")
\* x is freed with a function that accepts NULL, or after a test.
Free(x) == Step("Free", x, "", "")
\* x is freed with a function that does not accept NULL.
FreePool(x) == Step("FreePool", x, "", "")
\* x was made from data that now change.
Outdate(x) == Step("Outdate", x, "", "")
\* x is handed to the caller.
Out(x) == Step("Out", x, "", "")
\* What the function promises is done: the caller's buffer has the answer, or
\* the signature has been found good.
Fill == Step("Fill", "", "", "")
\* Status becomes TRUE or FALSE, or the result of a call with the object x.
Set(b) == Step("Set", IF b THEN "TRUE" ELSE "FALSE", "", "")
Result(x) == Step("Result", x, "", "")

\* Tests: of a pointer, of the Status, of the caller's buffer.
IfNull(x, l) == Step("IfNull", x, "", l)
IfFailed(l) == Step("IfFailed", "", "", l)
IfNoBuffer(l) == Step("IfNoBuffer", "", "", l)

\* Objects are freed, or pointers set to NULL, one after the other.
FreeAll(names) == [i \in 1..Len(names) |-> Free(names[i])]
NullAll(names) == [i \in 1..Len(names) |-> Null(names[i])]

At(l) == Step("At", "", "", l)
Goto(l) == Step("Goto", "", "", l)
\* The function returns Status.
Return == Step("Return", "", "", "")

-----------------------------------------------------------------------------
(* Functions that share a context: their steps, the name of the context, of *)
(* the objects that stay in it between calls, the functions that make, use  *)
(* and free it, and those that owe the caller an answer.                    *)

Context(calls, context, parts, makes, frees) ==
  [code |-> calls, context |-> context, parts |-> parts, makes |-> makes,
   uses |-> DOMAIN calls \ (makes \cup frees), frees |-> frees,
   answers |-> {f \in DOMAIN calls : \E i \in 1..Len(calls[f]) : calls[f][i] = Fill}]

\* Functions that are each complete in themselves.
NoContext(calls) == Context(calls, "", {}, {}, {})

\* Functions that stand in for others: what a caller of those would wait for is an
\* answer, and these have none.
StandIns(calls) == [NoContext(calls) EXCEPT !.answers = DOMAIN calls]
=============================================================================
