--------------------------------- MODULE Xargs ---------------------------------
(***************************************************************************)
(* xargs: the words of its input are kept in an arena, by pointers into    *)
(* it, and handed to a command in batches.  A run of the command ends with *)
(* a code, and fork, execve or wait4 may fail, which count as codes too.   *)
(* A command with more arguments than execve takes fails with 127.         *)
(***************************************************************************)
EXTENDS Naturals, Sequences, SequencesExt

CONSTANTS
    Letters,
    MaxInput,  \* characters of input
    InBuf,     \* characters a read brings at most (512)
    TokBuf,    \* characters of a word, with its end (256)
    Arena,     \* characters of the arena (4096)
    Tokens,    \* pointers (48)
    ArgvSlots, \* run_argv (64)
    BaseArgcs, \* arguments of xargs that go before the words
    MaxArgs,   \* that execve takes (MAX_ARGS - 1)
    PerRuns,   \* values of -n, 0 without
    Codes      \* with which commands end

XargsAssumption ==
    /\ {InBuf, Arena, Tokens, ArgvSlots, MaxArgs} \subseteq Nat \ {0}
    /\ MaxInput \in Nat /\ TokBuf \in Nat \ {0, 1} /\ TokBuf <= Arena
    /\ BaseArgcs \subseteq Nat \ {0} /\ PerRuns \subseteq Nat /\ Codes \subseteq Nat
    /\ \A b \in BaseArgcs : b + 1 < ArgvSlots

Space == 0
End   == -1    \* of a word in the arena

VARIABLES
    input, left, opt,            \* the input, what is unread; the options
    arena, arena_pos, tokens,    \* words, where the next begins, pointers
    tokbuf, in_tok,
    worst, runs,                 \* worst_exit; argument lists run, with their codes
    failed,                      \* "", or what ended the program: a "word" too long, a "read"
    done

batch == <<arena, arena_pos, tokens, worst, runs>>
vars == <<input, left, opt, batch, tokbuf, in_tok, failed, done>>

Least(a, b) == IF a < b THEN a ELSE b

\* per_run: the slots of run_argv without the command's own and the NULL, -n,
\* and the pointers.
per_run ==
    LET slots == ArgvSlots - opt.base - 1
        asked == IF opt.n # 0 THEN Least(opt.n, slots) ELSE slots
    IN  Least(asked, Tokens)

Init ==
    /\ input \in SeqOf({Space} \cup Letters, MaxInput)
    /\ opt \in [n : PerRuns, base : BaseArgcs]
    /\ left = input
    /\ arena = [i \in 0 .. Arena - 1 |-> End] /\ arena_pos = 0 /\ tokens = <<>>
    /\ tokbuf = <<>> /\ in_tok = FALSE
    /\ worst = 0 /\ runs = <<>> /\ failed = "" /\ done = FALSE

\* The string a pointer leads to, now.
StringAt(b, p) ==
    LET e == CHOOSE i \in p .. Arena - 1 : b.arena[i] = End /\ \A j \in p .. i - 1 : b.arena[j] # End
    IN  [i \in 1 .. e - p |-> b.arena[p + i - 1]]

\* The codes with which the next commands end, by turns.
Ends == [0 .. 1 -> Codes]

\* flush_batch, run_one
Flushed(b, ends) ==
    IF b.tokens = <<>> THEN b
    ELSE LET args == [i \in DOMAIN b.tokens |-> StringAt(b, b.tokens[i])]
             rc == IF opt.base + Len(args) > MaxArgs THEN 127 ELSE ends[Len(b.runs) % 2]
         IN  [b EXCEPT !.runs = Append(@, [args |-> args, code |-> rc]),
                       !.worst = IF rc # 0 /\ @ = 0 THEN rc ELSE @,
                       !.tokens = <<>>, !.arena_pos = 0]

\* A word goes behind the others, after the batch has been run when there is
\* no room for it; a batch that is now full is run.
NeedsRoom(b, word) == b.arena_pos + Len(word) + 1 > Arena

Stored(b, word, ends) ==
    LET b1 == IF NeedsRoom(b, word) THEN Flushed(b, ends) ELSE b
        p  == b1.arena_pos
        b2 == [b1 EXCEPT !.arena = [i \in DOMAIN @ |->
                            IF i \in p .. p + Len(word) - 1 THEN word[i - p + 1]
                            ELSE IF i = p + Len(word) THEN End ELSE @[i]],
                         !.arena_pos = @ + Len(word) + 1]
        b3 == IF Len(b2.tokens) >= Tokens THEN Flushed(b2, ends) ELSE b2
    IN  [b3 EXCEPT !.tokens = Append(@, p)]

FlushedIfFull_Late(b, ends) == IF Len(b.tokens) > per_run THEN Flushed(b, ends) ELSE b

FlushedIfFull(b, ends) == IF Len(b.tokens) >= per_run THEN Flushed(b, ends) ELSE b

Batch == [arena |-> arena, arena_pos |-> arena_pos, tokens |-> tokens, worst |-> worst, runs |-> runs]
Becomes(b) ==
    /\ arena' = b.arena /\ arena_pos' = b.arena_pos /\ tokens' = b.tokens
    /\ worst' = b.worst /\ runs' = b.runs

\* The characters of one read.
State(b) == [b |-> b, tok |-> tokbuf, in |-> in_tok, failed |-> ""]
Char(s, c, ends) ==
    CASE s.failed # "" -> s
      [] s.failed = "" /\ c = Space /\ s.in ->
           [s EXCEPT !.b = FlushedIfFull(Stored(s.b, s.tok, ends), ends),
                     !.tok = <<>>, !.in = FALSE]
      [] s.failed = "" /\ c = Space /\ ~s.in -> s
      [] OTHER ->
           IF Len(s.tok) + 1 < TokBuf
           THEN [s EXCEPT !.tok = Append(@, c), !.in = TRUE]
           ELSE [s EXCEPT !.failed = "word"]

ReadSome ==
    /\ ~done /\ left # <<>>
    /\ \E n \in 1 .. Least(InBuf, Len(left)), ends \in Ends :
         LET s == FoldLeft(LAMBDA t, c : Char(t, c, ends), State(Batch), SubSeq(left, 1, n)) IN
         /\ Becomes(s.b)
         /\ tokbuf' = s.tok /\ in_tok' = s.in
         /\ failed' = s.failed /\ done' = (s.failed # "")
         /\ left' = SubSeq(left, n + 1, Len(left))
    /\ UNCHANGED <<input, opt>>

\* A read that fails ends the program at once, with the words it has.
ReadFails ==
    /\ ~done /\ done' = TRUE /\ failed' = "read"
    /\ UNCHANGED <<input, left, opt, batch, tokbuf, in_tok>>

\* The last word may end without a space; what is left is run.
Finish ==
    /\ ~done /\ left = <<>>
    /\ \E ends \in Ends :
         Becomes(Flushed(IF in_tok THEN Stored(Batch, tokbuf, ends) ELSE Batch, ends))
    /\ done' = TRUE
    /\ UNCHANGED <<input, left, opt, tokbuf, in_tok, failed>>

Next == ReadSome \/ ReadFails \/ Finish
Spec == Init /\ [][Next]_vars

-----------------------------------------------------------------------------
(* Properties.                                                             *)

Words == LET ws == FoldLeft(LAMBDA w, c : IF c = Space THEN Append(w, <<>>)
                                          ELSE [w EXCEPT ![Len(w)] = Append(@, c)],
                            << <<>> >>, input)
         IN  SelectSeq(ws, LAMBDA w : w # <<>>)

Given == FlattenSeq([i \in DOMAIN runs |-> runs[i].args])

\* Every word is in the arguments of one run (which execve may still refuse),
\* once and in order, in batches that are neither empty nor larger than -n,
\* however the input is cut and the arena filled; the exit status is the first
\* failure's.  A word that is too long and a read that fails end the program
\* before anything wrong is run.
XargsRight ==
    /\ \A i \in DOMAIN runs : Len(runs[i].args) \in 1 .. per_run
    /\ IsPrefix(Given, Words)
    /\ done /\ failed = "" =>
         /\ Given = Words
         /\ worst = LET bad == SelectSeq(runs, LAMBDA r : r.code # 0) IN
                    IF bad = <<>> THEN 0 ELSE bad[1].code
    /\ failed = "word" => \E i \in DOMAIN Words : Len(Words[i]) >= TokBuf
=============================================================================
