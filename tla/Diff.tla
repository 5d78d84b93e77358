--------------------------------- MODULE Diff ---------------------------------
(***************************************************************************)
(* diff: without -u it reads two files side by side, each in pieces of its *)
(* own, until they differ; with -u it reads both, cuts them into lines,    *)
(* and prints what lies between their common beginning and their common    *)
(* end as one hunk.                                                        *)
(***************************************************************************)
EXTENDS Naturals, Sequences, SequencesExt

CONSTANTS
    Bytes,     \* of the files, Nl among them
    Nl,
    MaxInput,  \* bytes of a file
    Buf,       \* bytes a read brings at most (512)
    Contexts   \* values of -U (3 without)

DiffAssumption ==
    Nl \in Bytes /\ MaxInput \in Nat /\ Buf \in Nat \ {0} /\ Contexts \subseteq Nat

Unread == [rc |-> -1]

VARIABLES
    a, b,                  \* the files
    context,               \* -1 without -u
    resta, restb,          \* what is unread of them
    bufa, bufb,            \* what is read and not compared
    byte_pos, line_no,
    verdict                \* what is printed, and the exit status

vars == <<a, b, context, resta, restb, bufa, bufb, byte_pos, line_no, verdict>>

Init ==
    /\ a \in SeqOf(Bytes, MaxInput) /\ b \in SeqOf(Bytes, MaxInput)
    /\ context \in Contexts \cup {-1}
    /\ resta = a /\ restb = b /\ bufa = <<>> /\ bufb = <<>>
    /\ byte_pos = 1 /\ line_no = 1
    /\ verdict = Unread

Least(m, n) == IF m <= n THEN m ELSE n
Drop(s, n) == SubSeq(s, n + 1, Len(s))

-----------------------------------------------------------------------------
(* diff_files                                                              *)

\* What a read may leave in an empty buffer; one that still holds something
\* is not read into.
Reads(buf, rest) == IF buf # <<>> THEN {0}
                    ELSE IF rest = <<>> THEN {0} ELSE 1 .. Least(Buf, Len(rest))

SameUpTo(x, y, m) == \A i \in 1 .. m : x[i] = y[i]
Newlines(x, m) == Len(SelectSeq(SubSeq(x, 1, m), LAMBDA c : c = Nl))

Differ(k, lines) == [rc |-> 1, byte |-> byte_pos + k, line |-> line_no + lines]

\* Only what both buffers hold is compared.
Compared(x, y) == Least(Len(x), Len(y))

Round ==
    /\ verdict = Unread /\ context = -1
    /\ \E na \in Reads(bufa, resta), nb \in Reads(bufb, restb) :
         LET x == bufa \o SubSeq(resta, 1, na)
             y == bufb \o SubSeq(restb, 1, nb)
             m == Compared(x, y)
             k == CHOOSE i \in 0 .. m : SameUpTo(x, y, i) /\ (i = m \/ x[i + 1] # y[i + 1])
         IN
         /\ resta' = Drop(resta, na) /\ restb' = Drop(restb, nb)
         /\ bufa' = Drop(x, m) /\ bufb' = Drop(y, m)
         /\ byte_pos' = byte_pos + k /\ line_no' = line_no + Newlines(x, k)
         /\ verdict' = IF x = <<>> /\ y = <<>> THEN [rc |-> 0]
                       ELSE IF x = <<>> \/ y = <<>> THEN Differ(0, 0)
                       ELSE IF k < m THEN Differ(k, Newlines(x, k)) ELSE Unread
    /\ UNCHANGED <<a, b, context>>

-----------------------------------------------------------------------------
(* diff_unified                                                            *)

\* lines_from_buf: the last line may lack its newline.
Lines(f) ==
    LET ls == FoldLeft(LAMBDA l, c : IF c = Nl THEN Append(l, <<>>)
                                     ELSE [l EXCEPT ![Len(l)] = Append(@, c)], << <<>> >>, f)
    IN  IF Last(ls) = <<>> THEN Front(ls) ELSE ls

\* The common beginning, and the common end of what it leaves.
Prefix(x, y) == CHOOSE i \in 0 .. Compared(x, y) :
                  SameUpTo(x, y, i) /\ (i = Compared(x, y) \/ x[i + 1] # y[i + 1])

Suffix_Whole(x, y, pfx) == Prefix(Reverse(x), Reverse(y))

Suffix(x, y, pfx) == Prefix(Reverse(Drop(x, pfx)), Reverse(Drop(y, pfx)))

Marked(mark, ls) == [i \in DOMAIN ls |-> <<mark, ls[i]>>]

Hunk(x, y) ==
    LET pfx   == Prefix(x, y)
        sfx   == Suffix(x, y, pfx)
        start == pfx - Least(context, pfx)
        a_mid_end == Len(x) - sfx
        b_mid_end == Len(y) - sfx
        a_end == Least(Len(x), a_mid_end + Least(context, sfx))
        b_end == Least(Len(y), b_mid_end + Least(context, sfx))
    IN  [at |-> start + 1, alen |-> a_end - start, blen |-> b_end - start,
         body |-> Marked(" ", SubSeq(x, start + 1, pfx))
                    \o Marked("-", SubSeq(x, pfx + 1, a_mid_end))
                    \o Marked("+", SubSeq(y, pfx + 1, b_mid_end))
                    \o Marked(" ", SubSeq(x, a_mid_end + 1, a_end))]

diff_unified ==
    /\ verdict = Unread /\ context # -1
    /\ LET x == Lines(a)
           y == Lines(b)
       IN  verdict' = IF Prefix(x, y) = Len(x) /\ Prefix(x, y) = Len(y)
                      THEN [rc |-> 0] ELSE [rc |-> 1, hunk |-> Hunk(x, y)]
    /\ UNCHANGED <<a, b, context, resta, restb, bufa, bufb, byte_pos, line_no>>

Next == Round \/ diff_unified
Spec == Init /\ [][Next]_vars

-----------------------------------------------------------------------------
(* Properties.                                                             *)

Only(marks, body) ==
    LET ls == SelectSeq(body, LAMBDA l : l[1] \in marks)
    IN  [i \in DOMAIN ls |-> ls[i][2]]

\* What patch makes of the lines x with a hunk that fits them.
Fits(x, h) == SubSeq(x, h.at, h.at + h.alen - 1) = Only({" ", "-"}, h.body)
Patched(x, h) == SubSeq(x, 1, h.at - 1) \o Only({" ", "+"}, h.body)
                   \o Drop(x, h.at - 1 + h.alen)

\* However the two files are cut into reads, diff finds the first byte and
\* the line in which they differ, or that they do not; and the hunk of -u,
\* applied to the first file, gives the second, with the lengths it states
\* and no more context than asked for.
DiffRight ==
    verdict # Unread =>
      IF context = -1
      THEN /\ verdict.rc = 0 <=> a = b
           /\ verdict.rc = 1 =>
                LET p == verdict.byte IN
                /\ SubSeq(a, 1, p - 1) = SubSeq(b, 1, p - 1) /\ p - 1 <= Compared(a, b)
                /\ p <= Len(a) /\ p <= Len(b) => a[p] # b[p]
                /\ verdict.line = 1 + Newlines(a, p - 1)
      ELSE /\ verdict.rc = 0 <=> Lines(a) = Lines(b)
           /\ verdict.rc = 1 =>
                LET h == verdict.hunk IN
                /\ Fits(Lines(a), h) /\ Patched(Lines(a), h) = Lines(b)
                /\ Len(Only({" ", "+"}, h.body)) = h.blen
                /\ Len(Only({" "}, h.body)) <= 2 * context
=============================================================================
