-------------------------------- MODULE MCUser --------------------------------
(***************************************************************************)
(* Small instances of a pipe and of the user programs: pipelines, the      *)
(* shell's line editor, twice, the filters, sort, cp and mv, xargs, diff   *)
(* and find.  A behaviour follows one of them, which; else the pipe stays  *)
(* as it was made, the pipeline and the line editor as they begin, and the *)
(* variables of the other programs are 0.                                  *)
(***************************************************************************)
EXTENDS Pipe, Pipeline, LineEdit, TLC

VARIABLES
    which,
    at, block, exit,
    line, cursor, drawn, browsed, kept, pending,
    ring, ring_next, ring_count, shown, shown_col, alone, entered,
    tool, st,
    input, left, done,
    given, arr, lo, hi, si, sj, pivot,
    opt, stack, printed,
    cmd, start, name, data, todo, in, off, out, faults,
    arena, arena_pos, tokens, tokbuf, in_tok, worst, runs, failed,
    filea, fileb, context, resta, restb, bufa, bufb, byte_pos, line_no, verdict,
    tree, missed, next

\* The variables of one program, and those that programs share.
wordVars  == <<line, cursor, drawn, browsed, kept, pending, ring, ring_next, ring_count,
               shown, shown_col, alone, entered>>
toolVars  == <<tool, st>>
inputVars == <<input, left, done>>
sortVars  == <<given, arr, lo, hi, si, sj, pivot>>
walkVars  == <<stack, printed>>
copyVars  == <<block, exit, cmd, start, name, data, todo, in, off, out, faults>>
argsVars  == <<arena, arena_pos, tokens, tokbuf, in_tok, worst, runs, failed>>
diffVars  == <<filea, fileb, context, resta, restb, bufa, bufb, byte_pos, line_no, verdict>>
findVars  == <<tree, missed, next>>
uvars == <<vars, pipelineVars, which, at, editVars, wordVars, toolVars, inputVars, sortVars, opt,
           walkVars, copyVars, argsVars, diffVars, findVars>>

(* The variables of programs that are not followed.                        *)
NoWord ==
    /\ line = 0 /\ cursor = 0 /\ drawn = 0 /\ browsed = 0 /\ kept = 0 /\ pending = 0
    /\ ring = 0 /\ ring_next = 0 /\ ring_count = 0
    /\ shown = 0 /\ shown_col = 0 /\ alone = 0 /\ entered = 0
NoTool == tool = 0 /\ st = 0
NoInput == input = 0 /\ left = 0 /\ done = 0
NoSort ==
    /\ given = 0 /\ arr = 0 /\ lo = 0 /\ hi = 0 /\ si = 0 /\ sj = 0 /\ pivot = 0
NoWalk == stack = 0 /\ printed = 0
NoCopy ==
    /\ block = 0 /\ exit = 0 /\ cmd = 0 /\ start = 0 /\ name = 0 /\ data = 0 /\ todo = 0
    /\ in = 0 /\ off = 0 /\ out = 0 /\ faults = 0
NoArgs ==
    /\ arena = 0 /\ arena_pos = 0 /\ tokens = 0 /\ tokbuf = 0 /\ in_tok = 0
    /\ worst = 0 /\ runs = 0 /\ failed = 0
NoDiff ==
    /\ filea = 0 /\ fileb = 0 /\ context = 0 /\ resta = 0 /\ restb = 0
    /\ bufa = 0 /\ bufb = 0 /\ byte_pos = 0 /\ line_no = 0 /\ verdict = 0
NoFind == tree = 0 /\ missed = 0 /\ next = 0

\* A line of three characters on a terminal of four columns, and a history of
\* two lines that wraps.
MCPrompt   == <<">">>
MCBuiltins == {<<"a">>}
MCBin      == <<"/">>
MCListing  == <<"/">> :> {<<"a", "b">>} @@ <<>> :> {<<"a">>}
MCDirs     == {<<"a">>}

\* A longer line, without history, and names with a common beginning, in a
\* directory and behind a separator, on a terminal of five columns.
MCTree ==
    <<"b", "/">> :> {<<"a", "c">>, <<"a", "d">>, <<".">>} @@
    <<>> :> {<<"a", "b">>, <<"b">>, <<"a", "a", "c">>} @@
    <<"b", "/", "a", "c", "/">> :> {<<".", "a">>}
C == INSTANCE LineEdit WITH
       text <- line, pos <- cursor, last_draw_len <- drawn, hist_pos <- browsed, saved <- kept,
       tab_pending <- pending, g_hist <- ring, g_hist_next <- ring_next,
       g_hist_count <- ring_count, row <- shown, col <- shown_col, clean <- alone, past <- entered,
       Cap <- 7, Prompt <- MCPrompt, Width <- 5, HIST_MAX <- 1, MaxLines <- 0,
       Characters <- {"a", "b", "c", "d", " ", "/", ".", ";", ">"},
       Chars <- {"a", " ", ";"}, Blank <- " ", Separators <- {";"}, Slash <- "/", Dot <- ".",
       Builtins <- {<<"a", "b", "c">>, <<"b">>}, Bin <- <<"b", "/">>, Listing <- MCTree,
       Dirs <- {<<"b">>, <<"b", "/", "a", "c">>}

F == INSTANCE Filters WITH
       Letters <- 1, MaxInput <- 5, BUF <- 2, LINE_MAX <- 4, RING_CAP <- 4, NL_MAX <- 4

MCTexts == {[text |-> 1, num |-> 7], [text |-> 2, num |-> 5], [text |-> 3, num |-> -1]}
S == INSTANCE Sort WITH pc <- at, i <- si, j <- sj,
       NoNumber <- -1, Texts <- MCTexts, MaxLen <- 5, STACK <- 2

\* Two files and two places in a directory; inode 3 has more than a new file
\* holds, which only a file of the archive may.
AllPaths == {<<"a">>, <<"b">>, <<"d", "a">>, <<"d", "b">>}
Disk(a, b, da, ro) ==
    [name |-> <<"a">> :> a @@ <<"b">> :> b @@ <<"d", "a">> :> da @@ <<"d", "b">> :> 0,
     data |-> 0 :> <<7, 8, 9>> @@ 1 :> <<1, 2, 3>> @@ 2 :> <<4>> @@ 3 :> <<5, 6, 7, 8>> @@ 4 :> <<>>,
     ro |-> ro]
SomeCommands ==
    [tool : {"cp", "mv"}, srcs : {<< <<"-">> >>}, dst : {<<"a">>, <<"b">>}]
    \cup [tool : {"cp", "mv"}, dst : {<<"d">>, <<"a">>, <<"b">>},
          srcs : {<< <<"a">> >>, << <<"a">>, <<"b">> >>, << <<"d", "a">>, <<"a">> >>,
                  << <<"d">>, <<"b">> >>}]
K == INSTANCE Copy WITH pc <- at, buf <- block, status <- exit,
       Dir <- "d", Paths <- AllPaths, Commands <- SomeCommands, Buf <- 2, Cap <- 3, MaxFaults <- 1,
       Files <- {Disk(a, b, da, ro) : a \in {1, 3}, b \in {0, 2}, da \in {0, 1, 2, 4},
                                      ro \in {{3}, {1, 3}, {2, 3}}}

X == INSTANCE Xargs WITH
       Letters <- {1, 2}, MaxInput <- 5, InBuf <- 3, TokBuf <- 4, Arena <- 5, Tokens <- 3,
       ArgvSlots <- 5, BaseArgcs <- {1, 2}, MaxArgs <- 3, PerRuns <- {0, 1, 2}, Codes <- {0, 1, 2}

D == INSTANCE Diff WITH a <- filea, b <- fileb,
       Bytes <- {1, 2}, Nl <- 1, MaxInput <- 4, Buf <- 2, Contexts <- {0, 1}

\* A tree deeper than there are descriptors, and with a path too long.
SmallTree ==
    LET a == <<"a">>  ab == <<"a", "b">>  b == <<"b">>  aba == <<"a", "b", "a">> IN
    <<>> :> "dir" @@ <<ab>> :> "dir" @@ <<aba>> :> "file" @@ <<ab, a>> :> "dir" @@ <<ab, b>> :> "file"
      @@ <<ab, a, aba>> :> "dir" @@ <<ab, a, aba, b>> :> "file"
G == INSTANCE Find WITH
       Root <- <<".">>, Trees <- {SmallTree, <<>> :> "file"}, MaxFds <- 3, MaxPath <- 10, MaxMissed <- 3,
       Patterns <- {<<"a", "*">>, <<"?", "b">>, <<"*", "b", "a">>, <<"a", "*", "a">>,
                    <<"*", "b", "*", "a">>, <<"*", "?", "a">>},
       Depths <- {[min |-> 0, max |-> 64], [min |-> 1, max |-> 2], [min |-> 2, max |-> 3]}

ASSUME ProgramsAssumption ==
    /\ C!LineEditAssumption
    /\ F!FiltersAssumption /\ S!SortAssumption
    /\ K!CopyAssumption /\ X!XargsAssumption /\ D!DiffAssumption /\ G!FindAssumption

-----------------------------------------------------------------------------
\* The pipe, the pipeline and the line of behaviours that follow something else.
NoPipe == PipelineInit /\ mode = "pipeline" /\ prog = [left |-> "retry", right |-> "patient"]
NoRing == Init /\ buf = [i \in Indices |-> 0]
NoLine == EditInit

MCInit ==
    \/ /\ which = "ring" /\ Init
       /\ NoPipe /\ NoLine /\ NoWord /\ NoTool /\ NoInput /\ NoSort /\ NoWalk
       /\ NoCopy /\ NoArgs /\ NoDiff /\ NoFind /\ at = 0 /\ opt = 0
    \/ /\ which = "pipe" /\ PipelineInit
       /\ NoRing /\ NoLine /\ NoWord /\ NoTool /\ NoInput /\ NoSort /\ NoWalk /\ NoCopy /\ NoArgs
       /\ NoDiff /\ NoFind /\ at = 0 /\ opt = 0
    \/ /\ which = "line" /\ EditInit
       /\ NoRing /\ NoPipe /\ NoWord /\ NoTool /\ NoInput /\ NoSort /\ NoWalk
       /\ NoCopy /\ NoArgs /\ NoDiff /\ NoFind /\ at = 0 /\ opt = 0
    \/ /\ which = "complete" /\ C!EditInit
       /\ NoRing /\ NoPipe /\ NoLine /\ NoTool /\ NoInput /\ NoSort /\ NoWalk
       /\ NoCopy /\ NoArgs /\ NoDiff /\ NoFind /\ at = 0 /\ opt = 0
    \/ /\ which = "tool" /\ F!Init
       /\ NoRing /\ NoPipe /\ NoLine /\ NoWord /\ NoSort /\ NoWalk /\ NoCopy /\ NoArgs
       /\ NoDiff /\ NoFind /\ at = 0 /\ opt = 0
    \/ /\ which = "sort" /\ S!Init
       /\ NoRing /\ NoPipe /\ NoLine /\ NoWord /\ NoTool /\ NoInput /\ NoCopy
       /\ NoArgs /\ NoDiff /\ NoFind
    \/ /\ which = "copy" /\ K!Init
       /\ NoRing /\ NoPipe /\ NoLine /\ NoWord /\ NoTool /\ NoInput /\ NoSort /\ NoWalk /\ NoArgs
       /\ NoDiff /\ NoFind /\ opt = 0
    \/ /\ which = "xargs" /\ X!Init
       /\ NoRing /\ NoPipe /\ NoLine /\ NoWord /\ NoTool /\ NoSort /\ NoWalk /\ NoCopy
       /\ NoDiff /\ NoFind /\ at = 0
    \/ /\ which = "diff" /\ D!Init
       /\ NoRing /\ NoPipe /\ NoLine /\ NoWord /\ NoTool /\ NoInput /\ NoSort
       /\ NoWalk /\ NoCopy /\ NoArgs /\ NoFind /\ at = 0 /\ opt = 0
    \/ /\ which = "find" /\ G!Init
       /\ NoRing /\ NoPipe /\ NoLine /\ NoWord /\ NoTool /\ NoInput /\ NoSort
       /\ NoCopy /\ NoArgs /\ NoDiff /\ at = 0

RingNext ==
    /\ which = "ring" /\ Next
    /\ UNCHANGED <<which, at, opt, pipelineVars, editVars, wordVars, toolVars, inputVars,
                   sortVars, walkVars, copyVars, argsVars, diffVars, findVars>>
PipeStep(p) ==
    /\ which = "pipe" /\ Step(p)
    /\ UNCHANGED <<which, vars, at, opt, editVars, wordVars, toolVars, inputVars, sortVars,
                   walkVars, copyVars, argsVars, diffVars, findVars>>
LineNext ==
    /\ which = "line" /\ EditNext
    /\ UNCHANGED <<which, vars, at, opt, pipelineVars, wordVars, toolVars, inputVars,
                   sortVars, walkVars, copyVars, argsVars, diffVars, findVars>>
CompleteNext ==
    /\ which = "complete" /\ C!EditNext
    /\ UNCHANGED <<which, vars, at, opt, pipelineVars, editVars, toolVars, inputVars,
                   sortVars, walkVars, copyVars, argsVars, diffVars, findVars>>
ToolNext ==
    /\ which = "tool" /\ F!Next
    /\ UNCHANGED <<which, vars, at, opt, pipelineVars, editVars, wordVars, sortVars,
                   walkVars, copyVars, argsVars, diffVars, findVars>>
SortNext ==
    /\ which = "sort" /\ S!Next
    /\ UNCHANGED <<which, vars, pipelineVars, editVars, wordVars, toolVars, inputVars,
                   copyVars, argsVars, diffVars, findVars>>
CopyNext ==
    /\ which = "copy" /\ K!Next
    /\ UNCHANGED <<which, vars, opt, pipelineVars, editVars, wordVars, toolVars, inputVars,
                   sortVars, walkVars, argsVars, diffVars, findVars>>
XargsNext ==
    /\ which = "xargs" /\ X!Next
    /\ UNCHANGED <<which, vars, at, pipelineVars, editVars, wordVars, toolVars, sortVars,
                   walkVars, copyVars, diffVars, findVars>>
DiffNext ==
    /\ which = "diff" /\ D!Next
    /\ UNCHANGED <<which, vars, at, opt, pipelineVars, editVars, wordVars, toolVars,
                   inputVars, sortVars, walkVars, copyVars, argsVars, findVars>>
FindNext ==
    /\ which = "find" /\ G!Next
    /\ UNCHANGED <<which, vars, at, pipelineVars, editVars, wordVars, toolVars, inputVars,
                   sortVars, copyVars, argsVars, diffVars>>

MCNext == \/ RingNext \/ (\E p \in Procs : PipeStep(p)) \/ LineNext \/ CompleteNext
          \/ ToolNext \/ SortNext \/ CopyNext \/ XargsNext \/ DiffNext \/ FindNext

\* The scheduler gives every process of a pipeline its turn.
MCSpec == MCInit /\ [][MCNext]_uvars /\ \A p \in Procs : WF_uvars(PipeStep(p))

-----------------------------------------------------------------------------
(* Each program's properties, of the behaviours that follow it.  That the  *)
(* pipe is a FIFO is ImplementsFifo of module Pipe, that no byte is lost   *)
(* between two programs PipelineWhole of module Pipeline, that the         *)
(* terminal shows the line and browsing keeps it LineShown and             *)
(* EditsKeepLine of module LineEdit.                                       *)

\* Pipeline: the shell gets its prompt back whatever the two programs do.
PromptReturns == <>[](which = "pipe" => Ended)

\* Filters and sort: the tools print what they are for, however the input
\* comes (grep.c, uniq.c, tail.c and the others); the scans of sort stay in
\* the array, its stack suffices, and the order is right (sort.c).  Copy,
\* Xargs, Diff and Find: no file is lost on the way (cp.c, mv.c), no word is
\* (xargs.c), the hunk turns one file into the other (diff.c), and every path
\* wanted that no call fails for is printed once (find.c).  TAB extends the
\* line by what belongs to a name, and the line is shown (sh.c).
ToolsRight == /\ which = "complete" => C!LineShown /\ C!Extends(line, C!Completed(line))
              /\ which = "tool" => F!FilterRight
              /\ which = "sort" => S!SortRight
              /\ which = "copy" => K!CopyRight
              /\ which = "xargs" => X!XargsRight
              /\ which = "diff" => D!DiffRight
              /\ which = "find" => G!FindRight
=============================================================================
