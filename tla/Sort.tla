-------------------------------- MODULE Sort --------------------------------
(***************************************************************************)
(* sort: the order of cmp_lines, the quicksort with a stack of its own     *)
(* (quicksort_iter), and the printing with -u.  A line is its text and the *)
(* number it starts with, or NoNumber; texts stand for their rank in       *)
(* lexical order.                                                          *)
(***************************************************************************)
EXTENDS Integers, FiniteSets, SequencesExt

CONSTANTS
    NoNumber,
    Texts,     \* lines: [text |-> rank, num |-> number or NoNumber]
    MaxLen,
    STACK      \* entries of the stack of ranges, 64

SortAssumption ==
    /\ MaxLen \in Nat /\ STACK \in Nat
    /\ \A l \in Texts : l.text \in Int /\ l.num \in Int
    /\ \A l, m \in Texts : l.text = m.text => l = m

VARIABLES
    opt,        \* the options -n, -r, -u
    given,      \* the lines read
    arr,        \* and as sorted so far, from 0
    stack, lo, hi, i, j, pivot,
    pc,         \* "pop", "part" or "done"; "error" when the stack is full
    printed

vars == <<opt, given, arr, stack, lo, hi, i, j, pivot, pc, printed>>

Sign(a, b) == IF a < b THEN -1 ELSE IF a > b THEN 1 ELSE 0

\* cmp_lines: lines with a number come first, the text breaks ties.
cmp_lines(a, b) ==
    LET c == IF opt.n /\ (a.num # NoNumber \/ b.num # NoNumber)
             THEN IF a.num = NoNumber THEN 1
                  ELSE IF b.num = NoNumber THEN -1 ELSE Sign(a.num, b.num)
             ELSE 0
        d == IF c # 0 THEN c ELSE Sign(a.text, b.text)
    IN  IF opt.r THEN -d ELSE d

Init ==
    /\ opt \in [n : BOOLEAN, r : BOOLEAN, u : BOOLEAN]
    /\ given \in SeqOf(Texts, MaxLen)
    /\ arr = [x \in 0 .. Len(given) - 1 |-> given[x + 1]]
    /\ stack = IF Len(given) > 1 THEN << <<0, Len(given) - 1>> >> ELSE <<>>
    /\ lo = 0 /\ hi = 0 /\ i = 0 /\ j = 0 /\ pivot = 0
    /\ pc = "pop" /\ printed = <<>>

\* A pass over lo .. hi begins.
Begin(l, h) ==
    /\ lo' = l /\ hi' = h /\ i' = l /\ j' = h
    /\ pivot' = arr[l + (h - l) \div 2]
    /\ pc' = "part"

\* -u prints the first of equal lines.
Unique(s) == FoldLeft(LAMBDA out, l : IF opt.u /\ out # <<>> /\ Last(out) = l
                                      THEN out ELSE Append(out, l), <<>>, s)

Pop ==
    /\ pc = "pop"
    /\ IF stack = <<>>
       THEN /\ printed' = Unique([x \in DOMAIN given |-> arr[x - 1]])
            /\ pc' = "done"
            /\ UNCHANGED <<stack, lo, hi, i, j, pivot>>
       ELSE /\ Begin(Last(stack)[1], Last(stack)[2])
            /\ stack' = Front(stack)
            /\ UNCHANGED printed
    /\ UNCHANGED <<opt, given, arr>>

\* The two scans have no test for the ends of the array; where none stops
\* them they leave it.
\* Mutation: the scan passes over lines that are equal to the pivot.
FromLeft_SkipEqual == LET S == {x \in DOMAIN arr : x >= i /\ cmp_lines(arr[x], pivot) > 0}
                      IN  IF S = {} THEN Len(given) ELSE CHOOSE x \in S : \A y \in S : x <= y

FromLeft == LET S == {x \in DOMAIN arr : x >= i /\ cmp_lines(arr[x], pivot) >= 0}
             IN  IF S = {} THEN Len(given) ELSE CHOOSE x \in S : \A y \in S : x <= y
FromRight == LET S == {x \in DOMAIN arr : x <= j /\ cmp_lines(arr[x], pivot) <= 0}
             IN  IF S = {} THEN -1 ELSE CHOOSE x \in S : \A y \in S : y <= x

Crossed(a, b) == a > b

Exchange ==
    /\ pc = "part" /\ i <= j /\ ~Crossed(FromLeft, FromRight)
    /\ arr' = [arr EXCEPT ![FromLeft] = arr[FromRight], ![FromRight] = arr[FromLeft]]
    /\ i' = FromLeft + 1 /\ j' = FromRight - 1
    /\ UNCHANGED <<opt, given, stack, lo, hi, pivot, pc, printed>>

\* The scans have passed each other at l and r: the smaller part comes next,
\* the larger one is put on the stack.
Split(l, r) ==
    LET left == <<lo, r>>  right == <<l, hi>>
        ls == r - lo + 1   rs == hi - l + 1
    IN  CASE ls > 1 /\ rs > 1 /\ Len(stack) >= STACK ->
               pc' = "error" /\ UNCHANGED <<stack, lo, hi, i, j, pivot>>
          [] ls > 1 /\ rs > 1 /\ Len(stack) < STACK ->
               IF ls < rs THEN Begin(lo, r) /\ stack' = Append(stack, right)
                          ELSE Begin(l, hi) /\ stack' = Append(stack, left)
          [] ls > 1 /\ rs <= 1 -> Begin(lo, r) /\ UNCHANGED stack
          [] ls <= 1 /\ rs > 1 -> Begin(l, hi) /\ UNCHANGED stack
          [] OTHER -> pc' = "pop" /\ UNCHANGED <<stack, lo, hi, i, j, pivot>>

Pass ==
    /\ pc = "part"
    /\ IF i <= j THEN Crossed(FromLeft, FromRight) /\ Split(FromLeft, FromRight)
                 ELSE Split(i, j)
    /\ UNCHANGED <<opt, given, arr, printed>>

Next == Pop \/ Exchange \/ Pass
Spec == Init /\ [][Next]_vars

-----------------------------------------------------------------------------
\* The scans, which test for no bound, stay in the array, for there is always
\* a line that stops them; the stack never holds more than the logarithm of
\* the number of lines, so it suffices; and in the end every line read is
\* there, in order, once with -u.
SortRight ==
    /\ pc = "part" /\ i <= j => FromLeft <= hi /\ FromRight >= lo
    /\ pc # "error" /\ 2 ^ Len(stack) <= 1 + Len(given)
    /\ pc = "done" =>
         /\ \A x, y \in DOMAIN printed : x < y => cmp_lines(printed[x], printed[y]) <= 0
         /\ IF opt.u THEN IsInjective(printed) /\ Range(printed) = Range(given)
            ELSE \A l \in Texts : Cardinality({x \in DOMAIN printed : printed[x] = l})
                                   = Cardinality({x \in DOMAIN given : given[x] = l})
=============================================================================
