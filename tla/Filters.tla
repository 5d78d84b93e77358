------------------------------ MODULE Filters ------------------------------
(***************************************************************************)
(* The tools that read a stream of bytes and write another: wc, head,      *)
(* tail, uniq, cut, grep, tr and rev.  Each handles what a read returns    *)
(* byte by byte, whatever its length, into buffers of fixed size.          *)
(*                                                                         *)
(* A byte is Nl, Delim (a blank to wc, the delimiter to cut) or a letter,  *)
(* in the order of their codes; Dots, before them all, stands for the      *)
(* three dots that grep prints.  Options and names are left out where they *)
(* only choose what is printed; what a pipe does is in Pipeline.           *)
(***************************************************************************)
EXTENDS Integers, FiniteSets, SequencesExt

CONSTANTS
    Letters,  \* number of letters
    MaxInput, \* bytes of input
    BUF,      \* bytes a read returns at most
    LINE_MAX,
    RING_CAP, \* bytes tail keeps of a stream
    NL_MAX    \* newlines it remembers

Nl == 1
Delim == 2
Alphabet == 1 .. 2 + Letters
A == 3  \* the first letter
Dots == 0  \* what grep prints for the rest of a long line

FiltersAssumption ==
    /\ {Letters, BUF, RING_CAP} \subseteq Nat \ {0} /\ MaxInput \in Nat
    /\ LINE_MAX \in Nat \ {0, 1} /\ NL_MAX \in Nat \ {0, 1, 2}

\* A line as sort, uniq, cut and grep keep it.
Kept(line, c) == IF Len(line) + 1 < LINE_MAX THEN Append(line, c) ELSE line

\* The last k elements of a sequence; the smaller of two numbers.
LastOf(s, k) == IF k < Len(s) THEN SubSeq(s, Len(s) - k + 1, Len(s)) ELSE s
Least(a, b) == IF a < b THEN a ELSE b

\* tr's sets, as ranges that go up or down.
Sets == {<< <<A, A>> >>, << <<Delim, A>> >>, << <<Nl, Nl>>, <<A, A>> >>}

Tools ==
    {[name |-> "wc"], [name |-> "rev"]}
    \cup [name : {"headLines", "headBytes", "tailBytes", "tailLines",
                  "tailStreamLines", "tailStreamBytes"}, n : 1 .. 2]
    \cup [name : {"uniq"}, show : {"all", "repeated", "single"}]
    \cup [name : {"cutChars", "cutFields"},
          ranges : {<< <<2, 2>> >>, << <<2, 0>> >>, << <<1, 1>>, <<3, 0>> >>}]
    \cup [name : {"grep"}, pat : {<<A, Delim>>, <<A, A>>, <<A, A, Delim>>, <<>>},
          invert : BOOLEAN]
    \cup [name : {"tr"}, set1 : Sets, set2 : {<<>>, << <<A, Delim>> >>, << <<Nl, Nl>> >>},
          complement : BOOLEAN, squeeze : BOOLEAN]

VARIABLES tool, input, left, st, done
vars == <<tool, input, left, st, done>>

-----------------------------------------------------------------------------
(* wc: count_fd.                                                           *)

IsSpace(c) == c \in {Nl, Delim}

WcByte(s, c) ==
    [s EXCEPT !.out = <<@[1] + (IF c = Nl THEN 1 ELSE 0),
                        @[2] + (IF ~IsSpace(c) /\ ~s.hit THEN 1 ELSE 0),
                        @[3] + 1>>,
              !.hit = ~IsSpace(c)]

-----------------------------------------------------------------------------
(* head: what it prints of one read, and whether it goes on.               *)

\* head_lines_fd: bytes of b up to and with its n-th newline.
UpToLine(b, n) ==
    LET at == SelectSeq([i \in DOMAIN b |-> i], LAMBDA i : b[i] = Nl)
    IN  IF Len(at) < n THEN Len(b) ELSE at[n]

HeadLines(s, b) ==
    LET n == UpToLine(b, s.k) IN
    [s EXCEPT !.out = @ \o SubSeq(b, 1, n),
              !.k = @ - Cardinality({i \in 1 .. n : b[i] = Nl})]

HeadBytes(s, b) == [s EXCEPT !.out = @ \o SubSeq(b, 1, Least(Len(b), s.k)),
                             !.k = @ - Least(Len(b), s.k)]

-----------------------------------------------------------------------------
(* tail of a file: seeks.                                                  *)

\* tail_lines_seek_fd reads back from the end, a buffer at a time, until it
\* has seen one newline more than it prints lines.
StartOfLines(f, n) ==
    LET scan[pos \in 0 .. Len(f), seen \in 0 .. n] ==
          LET from == IF pos > BUF THEN pos - BUF ELSE 0
              nls  == {i \in from + 1 .. pos : f[i] = Nl}
          IN  IF pos = 0 THEN 0
              ELSE IF seen + Cardinality(nls) > n
                   THEN CHOOSE i \in nls : Cardinality({j \in nls : j >= i}) = n + 1 - seen
                   ELSE scan[from, seen + Cardinality(nls)]
    IN  scan[Len(f), 0]

StartOfBytes(f, n) == IF Len(f) > n THEN Len(f) - n ELSE 0

-----------------------------------------------------------------------------
(* tail of a stream: a ring of bytes, and a ring of newlines' offsets.     *)

EmptyRing == [buf |-> [i \in 0 .. RING_CAP - 1 |-> 0], head |-> 0, len |-> 0,
              abs_base |-> 0, nls |-> [i \in 0 .. NL_MAX - 1 |-> 0], nl_count |-> 0]

ring_push(r, c) ==
    IF r.len < RING_CAP
    THEN [r EXCEPT !.buf[(r.head + r.len) % RING_CAP] = c, !.len = @ + 1]
    ELSE [r EXCEPT !.buf[r.head] = c, !.head = (@ + 1) % RING_CAP, !.abs_base = @ + 1]

TailByte(r, c) ==
    LET total == r.abs_base + r.len
        r1 == ring_push(r, c)
    IN  IF c # Nl THEN r1
        ELSE [r1 EXCEPT !.nls[r.nl_count % NL_MAX] = total, !.nl_count = @ + 1]

\* ring_write_from_abs: the run up to the end of the buffer, and the rest.
RingFrom(r, abs_start) ==
    LET start  == IF abs_start < r.abs_base THEN r.abs_base ELSE abs_start
        idx    == (r.head + (start - r.abs_base)) % RING_CAP
        remain == r.abs_base + r.len - start
        first  == Least(RING_CAP - idx, remain)
    IN  IF remain <= 0 THEN <<>>
        ELSE [i \in 1 .. first |-> r.buf[idx + i - 1]]
             \o [i \in 1 .. remain - first |-> r.buf[i - 1]]

StreamStart(r, t) ==
    IF t.name = "tailStreamBytes"
    THEN IF t.n < r.abs_base + r.len THEN r.abs_base + r.len - t.n ELSE 0
    ELSE IF r.nl_count > t.n THEN r.nls[(r.nl_count - t.n - 1) % NL_MAX] + 1 ELSE 0

\* -n has to leave room in the ring of newlines.
StreamTail(r, t) ==
    IF t.name = "tailStreamLines" /\ t.n >= NL_MAX - 1 THEN <<>>
    ELSE RingFrom(r, StreamStart(r, t))

-----------------------------------------------------------------------------
(* The line tools.  Each is handed a line without its newline.             *)

\* uniq prints a run of lines when the next run begins.
RunPrinted(t, s) ==
    IF CASE t.show = "all" -> TRUE [] t.show = "repeated" -> s.k > 1 [] OTHER -> s.k = 1
    THEN s.prev \o <<Nl>> ELSE <<>>

UniqLine(t, s) ==
    IF s.k = 0 THEN [s EXCEPT !.prev = s.line, !.k = 1]
    ELSE IF s.prev = s.line THEN [s EXCEPT !.k = @ + 1]
    ELSE [s EXCEPT !.out = @ \o RunPrinted(t, s), !.prev = s.line, !.k = 1]

\* At the end the last run is printed; a line without its newline is not
\* looked at, unless it is the only one.
UniqEnd(t, s) ==
    IF s.k = 0 /\ s.line = <<>> THEN s.out
    ELSE s.out \o RunPrinted(t, IF s.k = 0 THEN [s EXCEPT !.prev = s.line, !.k = 1] ELSE s)

in_ranges(pos, rs) == \E i \in DOMAIN rs : pos >= rs[i][1] /\ (rs[i][2] = 0 \/ pos <= rs[i][2])

Picked(s, rs) == LET at == SelectSeq([i \in DOMAIN s |-> i], LAMBDA i : in_ranges(i, rs))
                 IN  [i \in DOMAIN at |-> s[at[i]]]

\* The fields of a line, and their text with delimiters between them.
Fields(line) == FoldLeft(LAMBDA fs, c : IF c = Delim THEN Append(fs, <<>>)
                                        ELSE [fs EXCEPT ![Len(fs)] = Append(@, c)],
                         << <<>> >>, line)
Joined(fs) == IF fs = <<>> THEN <<>> 
              ELSE FoldLeft(LAMBDA l, f : l \o <<Delim>> \o f, Head(fs), Tail(fs))

\* cut_line_fields: a line without a delimiter is printed whole.
CutLine(t, line) ==
    (CASE t.name = "cutChars" -> Picked(line, t.ranges)
       [] t.name = "cutFields" /\ ~Contains(line, Delim) -> line
       [] OTHER -> Joined(Picked(Fields(line), t.ranges))) \o <<Nl>>

-----------------------------------------------------------------------------
(* grep: Knuth, Morris and Pratt.                                          *)

\* From k matched bytes to how many still match with c next.
Falls(pat, lps, k, c) ==
    LET f[j \in 0 .. Len(pat)] == IF j = 0 \/ (j < Len(pat) /\ c = pat[j + 1]) THEN j ELSE f[lps[j]]
        l == f[k]
    IN  IF l < Len(pat) /\ c = pat[l + 1] THEN l + 1 ELSE l

\* Mutation: after a mismatch the search starts over.
build_kmp_lps_Zero(pat) == [i \in DOMAIN pat |-> 0]

build_kmp_lps(pat) ==
    IF pat = <<>> THEN <<>>
    ELSE FoldLeft(LAMBDA lps, i : Append(lps, Falls(pat, lps, lps[i - 1], pat[i])),
                  <<0>>, [i \in 1 .. Len(pat) - 1 |-> i + 1])

GrepByte(t, s, c) ==
    IF s.hit \/ t.pat = <<>> THEN [s EXCEPT !.hit = TRUE]
    ELSE LET k == Falls(t.pat, build_kmp_lps(t.pat), s.k, c) IN
         [s EXCEPT !.hit = (k = Len(t.pat)),
                   !.k = IF k = Len(t.pat) THEN build_kmp_lps(t.pat)[k] ELSE k]

GrepLine(t, s) ==
    IF (s.hit \/ t.pat = <<>>) = t.invert THEN <<>>
    ELSE s.line \o IF s.trunc THEN <<Dots, Nl>> ELSE <<Nl>>

-----------------------------------------------------------------------------
(* tr.                                                                     *)

\* parse_set: a range goes up or down.
Expanded(set) == FlattenSeq([i \in DOMAIN set |->
    LET a == set[i][1]  b == set[i][2]
    IN  IF a <= b THEN [j \in 1 .. b - a + 1 |-> a + j - 1]
                  ELSE [j \in 1 .. a - b + 1 |-> a - j + 1]])

Selected(t) == LET S == {b \in Alphabet : Contains(Expanded(t.set1), b)}
               IN  IF t.complement THEN Alphabet \ S ELSE S

\* Selected bytes are numbered in the order of their codes, whatever their
\* order in SET1, and mapped to SET2, whose last byte serves for the rest.
TrMap(t) == LET s2 == Expanded(t.set2) IN
    [b \in Alphabet |->
       IF t.set2 = <<>> \/ b \notin Selected(t) THEN b
       ELSE s2[Least(Cardinality({x \in Selected(t) : x <= b}), Len(s2))]]

\* Without SET2: -d deletes, and -s alone squeezes what is selected.
Deleted(t) == IF t.set2 = <<>> /\ ~t.squeeze THEN Selected(t) ELSE {}
Squeezed(t) == IF ~t.squeeze THEN {}
               ELSE IF t.set2 = <<>> THEN Selected(t) ELSE {b \in Alphabet : Contains(Expanded(t.set2), b)}

TrByte(t, s, c) ==
    LET b == TrMap(t)[c] IN
    IF b \in Deleted(t) \/ (b \in Squeezed(t) /\ s.prev = <<b>>) THEN s
    ELSE [s EXCEPT !.out = Append(@, b), !.prev = <<b>>]

-----------------------------------------------------------------------------
(* One read, and the end of the input.                                     *)

LineTools == {"uniq", "cutChars", "cutFields", "grep", "rev"}

EndOfLine(t, s) ==
    LET s1 == CASE t.name = "uniq" -> UniqLine(t, s)
                [] t.name = "grep" -> [s EXCEPT !.out = @ \o GrepLine(t, s), !.k = 0, !.hit = FALSE,
                                                    !.trunc = FALSE]
                [] t.name = "rev"  -> [s EXCEPT !.out = @ \o Reverse(s.line) \o <<Nl>>]
                [] OTHER           -> [s EXCEPT !.out = @ \o CutLine(t, s.line)]
    IN  [s1 EXCEPT !.line = <<>>]

LineByte(t, s, c) ==
    IF c = Nl THEN EndOfLine(t, s)
    ELSE [IF t.name = "grep" THEN GrepByte(t, s, c) ELSE s
            EXCEPT !.line = Kept(s.line, c),
                   !.trunc = @ \/ (t.name = "grep" /\ Kept(s.line, c) = s.line)]

Byte(t, s, c) ==
    CASE t.name = "wc"       -> WcByte(s, c)
      [] t.name = "tr"       -> TrByte(t, s, c)
      [] t.name \in LineTools -> LineByte(t, s, c)
      [] OTHER               -> [s EXCEPT !.ring = TailByte(@, c)]

\* The tail tools that are given a file look at it when they open it.
Seeks(t) == t.name \in {"tailBytes", "tailLines"}
Heads(t) == t.name \in {"headBytes", "headLines"}

AtEnd(t, s) ==
    CASE t.name = "uniq" -> UniqEnd(t, s)
      [] t.name = "rev"  -> s.out \o Reverse(s.line)
      [] t.name \in LineTools \ {"uniq", "rev"} /\ s.line # <<>> -> EndOfLine(t, s).out
      [] t.name \in {"tailStreamLines", "tailStreamBytes"} -> StreamTail(s.ring, t)
      [] t.name = "tailLines" -> SubSeq(input, StartOfLines(input, t.n) + 1, Len(input))
      [] t.name = "tailBytes" -> SubSeq(input, StartOfBytes(input, t.n) + 1, Len(input))
      [] OTHER -> s.out

Init ==
    /\ tool \in Tools
    /\ input \in SeqOf(Alphabet, MaxInput)
    /\ left = input /\ done = FALSE
    /\ st = [out  |-> IF tool.name = "wc" THEN <<0, 0, 0>> ELSE <<>>,
             line |-> <<>>, prev |-> <<>>, hit |-> FALSE, trunc |-> FALSE,
             k    |-> IF Heads(tool) THEN tool.n ELSE 0,
             ring |-> EmptyRing]

\* A read returns what it likes, up to the buffer and the end.
ReadSome ==
    /\ ~done /\ ~Seeks(tool) /\ left # <<>> /\ (Heads(tool) => st.k > 0)
    /\ \E n \in 1 .. Least(BUF, Len(left)) :
         LET b == SubSeq(left, 1, n) IN
         /\ left' = SubSeq(left, n + 1, Len(left))
         /\ st' = CASE tool.name = "headLines" -> HeadLines(st, b)
                    [] tool.name = "headBytes" -> HeadBytes(st, b)
                    [] OTHER -> FoldLeft(LAMBDA s, c : Byte(tool, s, c), st, b)
    /\ UNCHANGED <<tool, input, done>>

Finish ==
    /\ ~done /\ (left = <<>> \/ Seeks(tool) \/ (Heads(tool) /\ st.k = 0))
    /\ st' = [st EXCEPT !.out = AtEnd(tool, st)]
    /\ done' = TRUE
    /\ UNCHANGED <<tool, input, left>>

Next == ReadSome \/ Finish
Spec == Init /\ [][Next]_vars

-----------------------------------------------------------------------------
(* What the tools are for, said of the input as a whole.                   *)

\* The lines of the input, each with its newline, if it has one.
Lines == LET segs == FoldLeft(LAMBDA ls, c :
                         IF c = Nl THEN Append([ls EXCEPT ![Len(ls)] = Append(@, Nl)], <<>>)
                         ELSE [ls EXCEPT ![Len(ls)] = Append(@, c)], << <<>> >>, input)
         IN  IF Last(segs) = <<>> THEN Front(segs) ELSE segs

Terminated == input = <<>> \/ Last(input) = Nl
Text(l) == IF Last(l) = Nl THEN Front(l) ELSE l
Shown(l) == SubSeq(Text(l), 1, Least(Len(Text(l)), LINE_MAX - 1))
ShownLines == [i \in DOMAIN Lines |-> Shown(Lines[i])]
Chosen(P(_)) == SelectSeq([i \in DOMAIN Lines |-> i], P)
Printed(at) == FlattenSeq([i \in DOMAIN at |-> ShownLines[at[i]] \o <<Nl>>])

\* cut: byte i of a line belongs to the field that its delimiters count; a
\* delimiter is printed between two fields that are.
FieldOf(l, i) == 1 + Cardinality({j \in 1 .. i : l[j] = Delim})
CutByte(l, i) ==
    LET sel(f) == in_ranges(f, tool.ranges) IN
    CASE tool.name = "cutChars" -> sel(i)
      [] tool.name = "cutFields" /\ ~Contains(l, Delim) -> TRUE
      [] OTHER -> /\ sel(FieldOf(l, i))
                  /\ l[i] = Delim => \E f \in 1 .. FieldOf(l, i) - 1 : sel(f)
CutExpected(l) == LET at == SelectSeq([i \in DOMAIN l |-> i], LAMBDA i : CutByte(l, i))
                  IN  [i \in DOMAIN at |-> l[at[i]]] \o <<Nl>>

\* tr: the n-th byte of SET1 is mapped to the n-th of SET2.
TrExpected ==
    LET s1 == IF tool.complement
              THEN SetToSortSeq(Alphabet \ Range(Expanded(tool.set1)), <)
              ELSE Expanded(tool.set1)
        s2 == Expanded(tool.set2)
        to(b) == IF ~Contains(s1, b) \/ s2 = <<>> THEN b
                 ELSE LET n == CHOOSE n \in DOMAIN s1 : s1[n] = b IN s2[Least(n, Len(s2))]
        squeezed == IF s2 = <<>> THEN Range(s1) ELSE Range(s2)
        keep(i) == IF tool.squeeze
                   THEN ~(i > 1 /\ to(input[i]) = to(input[i - 1]) /\ to(input[i]) \in squeezed)
                   ELSE s2 # <<>> \/ ~Contains(s1, input[i])
        at == SelectSeq([i \in DOMAIN input |-> i], keep)
    IN  [i \in DOMAIN at |-> to(input[at[i]])]

\* The lines equal to line i that follow it without another between.
RunOf(i) == {j \in i .. Len(Lines) : \A m \in i .. j : ShownLines[m] = ShownLines[i]}
FirstOfRun(i) == i = 1 \/ ShownLines[i] # ShownLines[i - 1]

Expected ==
    CASE tool.name = "wc" ->
           <<Cardinality({i \in DOMAIN input : input[i] = Nl}),
             Cardinality({i \in DOMAIN input : ~IsSpace(input[i]) /\ (i = 1 \/ IsSpace(input[i - 1]))}),
             Len(input)>>
      [] tool.name = "headLines" -> FlattenSeq(SubSeq(Lines, 1, Least(tool.n, Len(Lines))))
      [] tool.name = "headBytes" -> SubSeq(input, 1, Least(tool.n, Len(input)))
      [] tool.name = "tailBytes" -> LastOf(input, tool.n)
      [] tool.name = "tailLines" -> FlattenSeq(LastOf(Lines, tool.n))
      [] tool.name = "tailStreamBytes" -> LastOf(input, Least(tool.n, RING_CAP))
      [] tool.name = "tailStreamLines" ->
           IF tool.n >= NL_MAX - 1 THEN <<>>
           ELSE LastOf(FlattenSeq(LastOf(Lines, tool.n)), RING_CAP)
      [] tool.name = "uniq" ->
           Printed(Chosen(LAMBDA i : FirstOfRun(i) /\
             CASE tool.show = "all" -> TRUE
               [] tool.show = "repeated" -> Cardinality(RunOf(i)) > 1
               [] OTHER -> Cardinality(RunOf(i)) = 1))
      [] tool.name = "grep" ->
           LET found(l) == \E a \in 0 .. Len(l) - Len(tool.pat) :
                             SubSeq(l, a + 1, a + Len(tool.pat)) = tool.pat
           IN  FlattenSeq([i \in DOMAIN Lines |->
                 IF tool.invert = found(Text(Lines[i])) THEN <<>>
                 ELSE Shown(Lines[i])
                      \o (IF Shown(Lines[i]) = Text(Lines[i]) THEN <<>> ELSE <<Dots>>) \o <<Nl>>])
      [] tool.name = "rev" ->
           FlattenSeq([i \in DOMAIN Lines |->
             Reverse(ShownLines[i]) \o (IF Last(Lines[i]) = Nl THEN <<Nl>> ELSE <<>>)])
      [] tool.name = "tr" -> TrExpected
      [] OTHER -> FlattenSeq([i \in DOMAIN Lines |-> CutExpected(ShownLines[i])])

\* Whatever the pieces the input comes in, and wherever a line, a match, a
\* run or the ring's end falls across them, the tools print what they are
\* for.  (tail and uniq are right for input whose last line is ended: tail
\* prints a line too many without, and uniq loses that line.  tr is right for
\* a SET1 in the order of the codes.)
FilterRight ==
    done /\ (Terminated \/ tool.name \notin {"tailLines", "tailStreamLines", "uniq"}) =>
      st.out = Expected
=============================================================================
