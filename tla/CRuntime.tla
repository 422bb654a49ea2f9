------------------------------ MODULE CRuntime ------------------------------
(***************************************************************************)
(* The functions of the C library that OpenSSL and MbedTLS call and that    *)
(* BaseCryptLib writes itself.  A caller asks one question; the answer is    *)
(* what the code computes, and the properties compare it with what C says.   *)
(*                                                                         *)
(* A string is the memory where it begins: its characters, a 0, and what     *)
(* happens to be behind.  A place in it is its index, and NULL is 0.         *)
(***************************************************************************)
EXTENDS Integers, Sequences, FiniteSets

CONSTANTS
  Strings,          \* memory with a string at its beginning
  Counts,           \* numbers of characters
  Lists,            \* what is sorted: sequences of <<key, tag>>
  Blocks,           \* contents of allocated memory
  Oids,             \* object identifiers, as numbers
  MAX_STRING_SIZE

NULL == 0
Untouched == -1

ASSUME StringsAssumption == \A m \in Strings : \E i \in 1..Len(m) : m[i] = 0

Byte(m, i) == IF i <= Len(m) THEN m[i] ELSE 0
AsciiStrLen(m) == (CHOOSE i \in 1..Len(m) : m[i] = 0 /\ \A j \in 1..(i - 1) : m[j] # 0) - 1
Text(m) == SubSeq(m, 1, AsciiStrLen(m))
Chars(m) == {m[i] : i \in 1..AsciiStrLen(m)}
Least(a, b) == IF a <= b THEN a ELSE b

-----------------------------------------------------------------------------
(* Characters.                                                               *)

isdigit(c) == c \in 48..57
isxdigit(c) == c \in (48..57) \cup (97..102) \cup (65..70)
isspace(c) == c = 32
isalnum(c) == c \in (48..57) \cup (97..122) \cup (65..90)
isupper(c) == c \in 65..90
tolower(c) == IF 65 <= c /\ c <= 90 THEN c - (65 - 97) ELSE c

-----------------------------------------------------------------------------
(* Searching in strings.                                                     *)

\* The first place, up to n, with one of the characters.
ScanMem8(m, n, cs) ==
  IF \E i \in 1..n : m[i] \in cs
  THEN CHOOSE i \in 1..n : m[i] \in cs /\ \A j \in 1..(i - 1) : m[j] \notin cs
  ELSE NULL

strchr(m, c) == ScanMem8(m, AsciiStrLen(m) + 1, {c})

\* The last place seen when the 0 is reached.
strrchr(m, c) ==
  IF \E i \in 1..(AsciiStrLen(m) + 1) : m[i] = c
  THEN CHOOSE i \in 1..(AsciiStrLen(m) + 1) :
         m[i] = c /\ \A j \in (i + 1)..(AsciiStrLen(m) + 1) : m[j] # c
  ELSE NULL

\* The character that is not in the map ends the loop, as the 0 does.
strspn(m1, m2) ==
  IF m1[1] = 0 THEN 0
  ELSE (CHOOSE i \in 1..Len(m1) :
          m1[i] \notin Chars(m2) /\ \A j \in 1..(i - 1) : m1[j] \in Chars(m2)) - 1

strcspn(m1, m2) == ScanMem8(m1, Len(m1), Chars(m2) \cup {0}) - 1

strpbrk(m1, m2) == ScanMem8(m1, AsciiStrLen(m1), Chars(m2))

\* From place i, with n characters to go: only the end of the first string ends
\* the loop, and it is looked for after the step.
RECURSIVE Casecmp(_, _, _, _)
Casecmp(m1, m2, i, n) ==
  LET Val == tolower(Byte(m1, i)) - tolower(Byte(m2, i))
  IN  IF Val # 0 THEN Val
      ELSE IF Byte(m1, i + 1) = 0 \/ n = 1 THEN 0
      ELSE Casecmp(m1, m2, i + 1, n - 1)

strncasecmp(m1, m2, n) == IF n = 0 THEN 0 ELSE Casecmp(m1, m2, 1, n)

strcmp(m1, m2) ==
  LET i == CHOOSE k \in 1..Len(m1) :
             /\ m1[k] # Byte(m2, k) \/ m1[k] = 0
             /\ \A j \in 1..(k - 1) : m1[j] = Byte(m2, j) /\ m1[j] # 0
  IN  m1[i] - Byte(m2, i)

-----------------------------------------------------------------------------
(* Copying strings.  A copy that does not fit is not made at all.            *)

\* n characters of s and a 0 are written to d behind the first at.
Write(d, at, s, n) ==
  [i \in 1..Len(d) |-> IF i \in (at + 1)..(at + n) THEN s[i - at]
                       ELSE IF i = at + n + 1 THEN 0 ELSE d[i]]

AsciiStrCpyS(d, DestMax, m) == IF AsciiStrLen(m) < DestMax THEN Write(d, 0, m, AsciiStrLen(m)) ELSE d

strcpy(d, m) == AsciiStrCpyS(d, Least(AsciiStrLen(m), MAX_STRING_SIZE - 1) + 1, m)

\* There is always a 0 behind the characters, also when they fill the count.
strncpy(d, m, n) ==
  LET count == IF n < MAX_STRING_SIZE THEN n ELSE MAX_STRING_SIZE - 1
  IN  Write(d, 0, m, Least(AsciiStrLen(m), count))

strcat(d, m) ==
  LET DestMax == Least(Least(AsciiStrLen(d), MAX_STRING_SIZE)
                         + Least(AsciiStrLen(m), MAX_STRING_SIZE) + 1, MAX_STRING_SIZE)
  IN  IF AsciiStrLen(d) + AsciiStrLen(m) < DestMax THEN Write(d, AsciiStrLen(d), m, AsciiStrLen(m)) ELSE d

-----------------------------------------------------------------------------
(* Sorting.                                                                  *)

Swap(b, i, j) == [b EXCEPT ![i] = b[j], ![j] = b[i]]
CompareFunction(x, y) == x[1] - y[1]

\* Elements up to the pivot, the last one of the Count from first, go to the left.
\* The result is the list and the place where the next one would go.
RECURSIVE Partition(_, _, _, _, _)
Partition(b, first, Count, LoopCount, NextSwapLocation) ==
  IF LoopCount = Count - 1 THEN <<b, NextSwapLocation>>
  ELSE IF CompareFunction(b[first + LoopCount], b[first + Count - 1]) <= 0
       THEN Partition(Swap(b, first + NextSwapLocation, first + LoopCount), first, Count,
                      LoopCount + 1, NextSwapLocation + 1)
       ELSE Partition(b, first, Count, LoopCount + 1, NextSwapLocation)

\* Variant: the last element of the right part is forgotten.
RECURSIVE QuickSortWorkerShort(_, _, _)
QuickSortWorkerShort(b, first, Count) ==
  IF Count < 2 THEN b
  ELSE LET p == Partition(b, first, Count, 0, 0)
           NextSwapLocation == p[2]
           left == QuickSortWorkerShort(Swap(p[1], first + NextSwapLocation, first + Count - 1), first, NextSwapLocation)
       IN  QuickSortWorkerShort(left, first + NextSwapLocation + 1, Count - NextSwapLocation - 2)

RECURSIVE QuickSortWorker(_, _, _)
QuickSortWorker(b, first, Count) ==
  IF Count < 2 THEN b
  ELSE LET p == Partition(b, first, Count, 0, 0)
           NextSwapLocation == p[2]
           left == QuickSortWorker(Swap(p[1], first + NextSwapLocation, first + Count - 1), first, NextSwapLocation)
       IN  QuickSortWorker(left, first + NextSwapLocation + 1, Count - NextSwapLocation - 1)

\* Without memory for one element nothing is sorted, and nobody is told.
qsort(b, memory) == IF memory THEN QuickSortWorker(b, 1, Len(b)) ELSE b

-----------------------------------------------------------------------------
(* Memory.  A block has a header with the size that was asked for.           *)

malloc(size, memory) ==
  IF memory THEN [Size |-> size, data |-> [i \in 1..size |-> Untouched]] ELSE [Size |-> 0, data |-> <<>>]

\* A block for which there is no memory leaves the old one as it is.
realloc(old, size, memory) ==
  LET new == malloc(size, memory)
  IN  [new |-> [new EXCEPT !.data = [i \in 1..Len(@) |->
                  IF i <= Least(old.Size, size) THEN old.data[i] ELSE @[i]]],
       freed |-> memory]

\* The header has the size of one element.
mbedtls_calloc(num, size, memory) ==
  IF memory THEN [Size |-> size, data |-> [i \in 1..(size * num) |-> 0]] ELSE [Size |-> 0, data |-> <<>>]

-----------------------------------------------------------------------------
(* Object identifiers.  The first two numbers have one digit and are one     *)
(* byte; the others, whose digits are put together first, are one or two.    *)

GetOidFromTxt(oid) ==
  LET Arc(Data) ==
        IF Data < 128 THEN <<Data>>
        ELSE <<((((Data \div 256) % 256) * 2) % 128) + 128, Data % 256>>
      bytes[i \in 2..Len(oid)] == IF i = 2 THEN <<oid[1] * 40 + oid[2]>> ELSE bytes[i - 1] \o Arc(oid[i])
  IN  bytes[Len(oid)]

-----------------------------------------------------------------------------
Questions ==
  [fn : {"isdigit", "isxdigit", "isspace", "isalnum", "isupper", "tolower"}, c : 0..127]
  \cup [fn : {"strchr", "strrchr"}, m : Strings, c : UNION {Chars(m) : m \in Strings} \cup {0}]
  \cup [fn : {"strspn", "strcspn", "strpbrk", "strcmp", "strcat"}, m : Strings, n : Strings]
  \cup [fn : {"strncasecmp"}, m : Strings, n : Strings, count : Counts]
  \cup [fn : {"strcpy"}, m : Strings]
  \cup [fn : {"strncpy"}, m : Strings, count : Counts]
  \cup [fn : {"qsort"}, list : Lists, memory : BOOLEAN]
  \cup [fn : {"realloc"}, old : Blocks, count : Counts, memory : BOOLEAN]
  \cup [fn : {"mbedtls_calloc"}, num : Counts, count : Counts, memory : BOOLEAN]
  \cup [fn : {"GetOidFromTxt"}, oid : Oids]

\* Room for every copy.
Room == [i \in 1..(3 * MAX_STRING_SIZE) |-> Untouched]
Dest(m) == Write(Room, 0, m, AsciiStrLen(m))

Ask(q) ==
  CASE q.fn = "isdigit" -> isdigit(q.c)
    [] q.fn = "isxdigit" -> isxdigit(q.c)
    [] q.fn = "isspace" -> isspace(q.c)
    [] q.fn = "isalnum" -> isalnum(q.c)
    [] q.fn = "isupper" -> isupper(q.c)
    [] q.fn = "tolower" -> tolower(q.c)
    [] q.fn = "strchr" -> strchr(q.m, q.c)
    [] q.fn = "strrchr" -> strrchr(q.m, q.c)
    [] q.fn = "strspn" -> strspn(q.m, q.n)
    [] q.fn = "strcspn" -> strcspn(q.m, q.n)
    [] q.fn = "strpbrk" -> strpbrk(q.m, q.n)
    [] q.fn = "strcmp" -> strcmp(q.m, q.n)
    [] q.fn = "strncasecmp" -> strncasecmp(q.m, q.n, q.count)
    [] q.fn = "strcpy" -> strcpy(Room, q.m)
    [] q.fn = "strncpy" -> strncpy(Room, q.m, q.count)
    [] q.fn = "strcat" -> strcat(Dest(q.m), q.n)
    [] q.fn = "qsort" -> qsort(q.list, q.memory)
    [] q.fn = "realloc" -> realloc([Size |-> Len(q.old), data |-> q.old], q.count, q.memory)
    [] q.fn = "mbedtls_calloc" -> mbedtls_calloc(q.num, q.count, q.memory)
    [] q.fn = "GetOidFromTxt" -> GetOidFromTxt(q.oid)

VARIABLES question, asked, answer

vars == <<question, asked, answer>>

Init == question \in Questions /\ asked = FALSE /\ answer = NULL

Next == ~asked /\ asked' = TRUE /\ answer' = Ask(question) /\ UNCHANGED question

Spec == Init /\ [][Next]_vars

-----------------------------------------------------------------------------
(* What C says.                                                              *)

Sign(n) == IF n > 0 THEN 1 ELSE IF n < 0 THEN -1 ELSE 0

Lower(s) == [i \in 1..Len(s) |-> IF s[i] \in 65..90 THEN s[i] + 32 ELSE s[i]]
First(s, n) == SubSeq(s, 1, Least(n, Len(s)))
IsPrefix(s, t) == Len(s) <= Len(t) /\ First(t, Len(s)) = s

\* The order of two strings: the shorter one or the one with the smaller character.
Order(s, t) ==
  IF s = t THEN 0
  ELSE IF IsPrefix(s, t) THEN -1
  ELSE IF IsPrefix(t, s) THEN 1
  ELSE LET i == CHOOSE k \in 1..Least(Len(s), Len(t)) : s[k] # t[k] /\ First(s, k - 1) = First(t, k - 1)
       IN  Sign(s[i] - t[i])

\* Where the code is known to do something else: strncasecmp does not see that the
\* first string has ended and reads behind two empty ones; a copy is not made when
\* it is too long; strncpy puts one 0 behind the characters whatever the count, so
\* a source of count or more characters has it written one byte beyond the count,
\* and a shorter one is not followed by zeros up to the count; only the blank is a
\* space; a list is not sorted without memory; numbers of an identifier that need
\* more than two bytes, or in which bit 7 is set, come out wrong.
KnownDifference(q) ==
  CASE q.fn = "strncasecmp" ->
         \/ q.count > AsciiStrLen(q.m) /\ AsciiStrLen(q.m) < AsciiStrLen(q.n)
              /\ Text(q.m) # <<>> /\ IsPrefix(Lower(Text(q.m)), Lower(Text(q.n)))
         \/ q.count > 1 /\ Text(q.m) = <<>> /\ Text(q.n) = <<>>
    [] q.fn = "strcpy" -> AsciiStrLen(q.m) >= MAX_STRING_SIZE
    [] q.fn = "strcat" -> AsciiStrLen(q.m) + AsciiStrLen(q.n) >= MAX_STRING_SIZE
    [] q.fn = "strncpy" -> AsciiStrLen(q.m) # q.count - 1 \/ AsciiStrLen(q.m) >= MAX_STRING_SIZE
    [] q.fn = "isspace" -> q.c \in 9..13
    [] q.fn = "qsort" -> ~q.memory
    [] q.fn = "GetOidFromTxt" -> \E i \in 3..Len(q.oid) : q.oid[i] >= 16384 \/ (q.oid[i] > 127 /\ (q.oid[i] \div 128) % 2 = 1)
    [] OTHER -> FALSE

Written(d) == {i \in 1..Len(d) : d[i] # Room[i]}

Base128(n) ==
  IF n < 128 THEN <<n>>
  ELSE IF n < 16384 THEN <<128 + (n \div 128), n % 128>>
  ELSE <<128 + (n \div 16384), 128 + ((n \div 128) % 128), n % 128>>

AsInC(q, a) ==
  CASE q.fn = "isdigit" -> a = (q.c \in 48..57)
    [] q.fn = "isspace" -> a = (q.c \in {32} \cup 9..13)
    [] q.fn = "isxdigit" -> a = (isdigit(q.c) \/ tolower(q.c) \in 97..102)
    [] q.fn = "isalnum" -> a = (isdigit(q.c) \/ tolower(q.c) \in 97..122)
    [] q.fn = "isupper" -> a = (tolower(q.c) # q.c)
    [] q.fn = "tolower" -> a = Lower(<<q.c>>)[1]
    [] q.fn \in {"strchr", "strrchr"} ->
         LET found == {i \in 1..(AsciiStrLen(q.m) + 1) : q.m[i] = q.c}
         IN  IF found = {} THEN a = NULL
             ELSE a \in found /\ \A i \in found : IF q.fn = "strchr" THEN a <= i ELSE a >= i
    [] q.fn = "strspn" ->
         a \in 0..AsciiStrLen(q.m) /\ \A k \in 1..AsciiStrLen(q.m) :
           (k <= a) = (\A i \in 1..k : q.m[i] \in Chars(q.n))
    [] q.fn = "strcspn" ->
         a \in 0..AsciiStrLen(q.m) /\ \A k \in 1..AsciiStrLen(q.m) :
           (k <= a) = (\A i \in 1..k : q.m[i] \notin Chars(q.n))
    [] q.fn = "strpbrk" ->
         IF Chars(q.m) \cap Chars(q.n) = {} THEN a = NULL
         ELSE q.m[a] \in Chars(q.n) /\ \A i \in 1..(a - 1) : q.m[i] \notin Chars(q.n)
    [] q.fn = "strcmp" -> Sign(a) = Order(Text(q.m), Text(q.n))
    [] q.fn = "strncasecmp" ->
         Sign(a) = Order(Lower(First(Text(q.m), q.count)), Lower(First(Text(q.n), q.count)))
    [] q.fn = "strcpy" -> Text(a) = Text(q.m) /\ Written(a) = 1..(AsciiStrLen(q.m) + 1)
    [] q.fn = "strncpy" ->
         a = [i \in 1..Len(Room) |->
               IF i > q.count THEN Room[i] ELSE IF i <= AsciiStrLen(q.m) THEN q.m[i] ELSE 0]
    [] q.fn = "strcat" -> Text(a) = Text(q.m) \o Text(q.n)
    [] q.fn = "qsort" ->
         /\ \A i \in 1..(Len(a) - 1) : a[i][1] <= a[i + 1][1]
         /\ Len(a) = Len(q.list) /\ {a[i] : i \in 1..Len(a)} = {q.list[i] : i \in 1..Len(a)}
    [] q.fn = "realloc" ->
         IF q.memory THEN First(a.new.data, Len(q.old)) = First(q.old, q.count) /\ Len(a.new.data) = q.count
         ELSE ~a.freed
    [] q.fn = "mbedtls_calloc" -> q.memory => \A i \in 1..(q.num * q.count) : a.data[i] = 0
    [] q.fn = "GetOidFromTxt" ->
         LET bytes[i \in 2..Len(q.oid)] ==
               IF i = 2 THEN <<q.oid[1] * 40 + q.oid[2]>> ELSE bytes[i - 1] \o Base128(q.oid[i])
         IN  a = bytes[Len(q.oid)]

\* What a known difference leaves: a copy too long changes nothing, strncpy changes
\* nothing behind its 0, a prefix counts as equal, a list stays as it was.  Of two
\* empty strings and of wrong identifiers nothing is said.
AsKnown(q, a) ==
  CASE q.fn = "strcpy" -> a = Room
    [] q.fn = "strcat" -> a = Dest(q.m)
    [] q.fn = "strncpy" ->
         LET copied == First(First(Text(q.m), q.count), MAX_STRING_SIZE - 1)
         IN  Text(a) = copied /\ Written(a) = 1..(Len(copied) + 1)
    [] q.fn = "strncasecmp" -> Text(q.m) # <<>> => a = 0
    [] q.fn = "isspace" -> ~a
    [] q.fn = "qsort" -> a = q.list
    [] OTHER -> TRUE

\* For every string, list and number of the instance a function of the C runtime
\* gives OpenSSL and MbedTLS the answer they expect of a C library, but for the
\* differences listed above, which go no further than listed.
AnswersAsInC ==
  asked => IF KnownDifference(question) THEN AsKnown(question, answer) ELSE AsInC(question, answer)
=============================================================================
