------------------------------ MODULE LineEdit ------------------------------
(***************************************************************************)
(* The shell's line editor (read_line of sh.c): the line and its cursor,   *)
(* what the terminal shows of them, the ring of past lines with browsing,  *)
(* and completion of the last word by TAB.  Every step is one key.         *)
(*                                                                         *)
(* The terminal is followed from the start of the row on which the prompt  *)
(* was last printed, as one sequence of cells, Width to a row: what is     *)
(* written past the end of a row goes on in the next, and a carriage       *)
(* return never leads back to a row above.                                 *)
(***************************************************************************)
EXTENDS Integers, FiniteSets, SequencesExt

CONSTANTS
    Cap,       \* room for the line and its NUL: a line has Cap - 1 characters
    Prompt, Width,  \* the prompt, and the columns of the terminal
    HIST_MAX,
    MaxLines,  \* lines entered: bounds the model
    Characters,  \* the characters of lines, names and the prompt
    Chars,     \* characters typed, among them Blank
    Blank,
    Separators,\* "|" and ";": a command begins behind them
    Slash, Dot,
    Builtins,  \* the shell's own commands
    Bin,       \* "/bin/", the directory of the others
    Listing,   \* what a directory lists but for "." and "..", by its path up to
               \* the last slash; <<>> is the working directory
    Dirs       \* paths of directories

ASSUME LineEditAssumption ==
    /\ Cap \in Nat \ {0} /\ HIST_MAX \in Nat \ {0} /\ MaxLines \in Nat
    /\ Width \in Nat \ {0} /\ Prompt \in Seq(Characters)
    /\ Chars \cup Separators \subseteq Characters
    /\ Blank \in Characters /\ Slash \in Characters /\ Blank # Slash
    /\ Builtins \subseteq Seq(Characters) /\ IsFiniteSet(Builtins)
    /\ \A d \in DOMAIN Listing : Listing[d] \subseteq Seq(Characters) /\ IsFiniteSet(Listing[d])

VARIABLES
    text, pos,       \* the line, and where the next character goes
    last_draw_len,
    hist_pos,       \* 0, or which past line is shown, 1 being the newest
    saved,          \* the line as it was when browsing began
    tab_pending,
    g_hist, g_hist_next, g_hist_count,
    row, col,       \* the terminal's cells, and its cursor's place in them
    clean,          \* history: the prompt was the first thing on its row, and prompt
                    \* and line have fitted the row since
    past            \* history: the lines entered, but for blank and repeated ones

hist == <<g_hist, g_hist_next, g_hist_count>>
editVars == <<text, pos, last_draw_len, hist_pos, saved, tab_pending, hist, row, col, clean, past>>

Blanks(n) == [i \in 1 .. n |-> Blank]

\* What cells show after s was written from cell c on.
Overwrite(r, c, s) == SubSeq(r, 1, c) \o s \o SubSeq(r, c + Len(s) + 1, Len(r))

\* A line begins: the prompt is printed where the cursor is.
EmptyLine(r, c) ==
    /\ text' = <<>> /\ pos' = 0 /\ last_draw_len' = 0
    /\ hist_pos' = 0 /\ saved' = <<>> /\ tab_pending' = FALSE
    /\ row' = Overwrite(r, c, Prompt) /\ col' = c + Len(Prompt)
    /\ clean' = (r = <<>> /\ Len(Prompt) < Width)

EditInit ==
    /\ text = <<>> /\ pos = 0 /\ last_draw_len = 0
    /\ hist_pos = 0 /\ saved = <<>> /\ tab_pending = FALSE
    /\ g_hist = [i \in 0 .. HIST_MAX - 1 |-> <<>>]
    /\ g_hist_next = 0 /\ g_hist_count = 0
    /\ row = Prompt /\ col = Len(Prompt) /\ clean = (Len(Prompt) < Width) /\ past = <<>>

-----------------------------------------------------------------------------
(* The terminal.                                                           *)

\* A carriage return leads to the start of the cursor's row; the rows above
\* are out of reach.
RowStart(c) == c - (c % Width)
Reachable(r, c) == SubSeq(r, RowStart(c) + 1, Len(r))

\* Mutation: what the line was longer by is not blanked out.
Padded_Not(line) == Prompt \o line

\* redraw_line writes prompt and line, and blanks over what the last line was
\* longer by, from the start of the row, ...
Padded(line) == Prompt \o line \o Blanks(last_draw_len - Len(line))

Drawn(r, c, line) == Overwrite(Reachable(r, c), 0, Padded(line))

\* ... and, from the start of the row where that ends, prompt and line again up
\* to the cursor.
Redrawn(r, c, line, at) ==
    Overwrite(Reachable(Drawn(r, c, line), Len(Padded(line))), 0, Prompt \o SubSeq(line, 1, at))

Redraw(r, c, line, at) ==
    /\ text' = line /\ pos' = at /\ last_draw_len' = Len(line)
    /\ row' = Redrawn(r, c, line, at) /\ col' = Len(Prompt) + at

Fits(line) == Len(Prompt) + Len(line) < Width

Show(line, at) == Redraw(row, col, line, at) /\ clean' = (clean /\ Fits(line))

-----------------------------------------------------------------------------
(* The past lines.                                                         *)

Slot(back) == (g_hist_next - 1 - back) % HIST_MAX

hist_get_from_end(back) == g_hist[Slot(back)]

is_blank_line(line) == \A i \in DOMAIN line : line[i] = Blank

hist_add(line) ==
    IF is_blank_line(line) \/ (g_hist_count > 0 /\ hist_get_from_end(0) = line)
    THEN UNCHANGED <<hist, past>>
    ELSE /\ g_hist' = [g_hist EXCEPT ![g_hist_next] = line]
         /\ g_hist_next' = (g_hist_next + 1) % HIST_MAX
         /\ g_hist_count' = IF g_hist_count < HIST_MAX THEN g_hist_count + 1 ELSE HIST_MAX
         /\ past' = Append(past, line)

Full == Len(text) + 1 >= Cap

\* read_line is left by Enter, and by a full line without it: no newline is
\* printed then.  A command may leave output without one, too.
Enter ==
    /\ Len(past) < MaxLines
    /\ hist_add(text)
    /\ \/ EmptyLine(<<>>, 0)
       \/ EmptyLine(<<Slash>>, 1)
       \/ Full /\ EmptyLine(Reachable(row, col), col % Width)

Up ==
    /\ g_hist_count > 0
    /\ LET back == IF hist_pos < g_hist_count THEN hist_pos ELSE hist_pos - 1
           line == hist_get_from_end(back)
       IN  /\ hist_pos' = back + 1
           /\ saved' = IF hist_pos = 0 THEN text ELSE saved
           /\ Show(line, Len(line))
    /\ tab_pending' = FALSE
    /\ UNCHANGED <<hist, past>>

Unbrowsed == IF hist_pos = 1 THEN saved ELSE hist_get_from_end(hist_pos - 2)

Down ==
    /\ hist_pos > 0
    /\ hist_pos' = hist_pos - 1
    /\ Show(Unbrowsed, Len(Unbrowsed))
    /\ saved' = IF hist_pos = 1 THEN <<>> ELSE saved
    /\ tab_pending' = FALSE
    /\ UNCHANGED <<hist, past>>

-----------------------------------------------------------------------------
(* Editing.  Every key but the arrows up and down ends browsing.           *)

Edited(line, at) ==
    /\ Show(line, at)
    /\ hist_pos' = 0 /\ saved' = <<>> /\ tab_pending' = FALSE
    /\ UNCHANGED <<hist, past>>

Move == \E at \in {0, Len(text), pos - 1, pos + 1} \cap 0 .. Len(text) : Edited(text, at)

KillLine == Edited(<<>>, 0)

\* Backspace and Ctrl-D; with nothing to delete they do not redraw.
Delete ==
    \E at \in {pos, pos + 1} :
      IF at \in 1 .. Len(text)
      THEN Edited(RemoveAt(text, at), at - 1)
      ELSE /\ hist_pos' = 0 /\ saved' = <<>> /\ tab_pending' = FALSE
           /\ UNCHANGED <<text, pos, last_draw_len, row, col, hist, clean, past>>

Insert == \E c \in Chars : Edited(InsertAt(text, pos + 1, c), pos + 1)

-----------------------------------------------------------------------------
(* Completion.                                                             *)

\* Where the last of some characters is, or 0.
LastOf(line, S) ==
    LET I == {i \in DOMAIN line : line[i] \in S}
    IN  IF I = {} THEN 0 ELSE CHOOSE i \in I : \A j \in I : j <= i

\* find_token_start: the length of what comes before the last word.
Before(line) == LastOf(line, {Blank} \cup Separators)

Token(line) == SubSeq(line, Before(line) + 1, Len(line))

\* is_first_word_segment: nothing but blanks between the word and the
\* beginning of the line or a separator.
FirstWord(line) ==
    LET b == Before(line)
    IN  \E k \in 0 .. b : (k = 0 \/ line[k] \in Separators) /\ is_blank_line(SubSeq(line, k + 1, b))

\* The word's directory and the beginning of a name in it.
Folder(line) == SubSeq(Token(line), 1, LastOf(Token(line), {Slash}))
Prefix(line) == SubSeq(Token(line), LastOf(Token(line), {Slash}) + 1, Len(Token(line)))

\* A first word without a slash is a command, any other word a path.
IsCommand(line) == Folder(line) = <<>> /\ FirstWord(line)
BaseDir(line) == IF IsCommand(line) THEN Bin ELSE Folder(line)

Names(line) ==
    LET dir == BaseDir(line)
    IN  (IF dir \in DOMAIN Listing THEN Listing[dir] ELSE {})
        \cup (IF IsCommand(line) THEN Builtins ELSE {})

\* Names that begin with a dot are completed when the dot was typed.
Hidden(n) == n # <<>> /\ Head(n) = Dot

Candidates(line) ==
    LET typed == Prefix(line)
    IN  {n \in Names(line) : IsPrefix(typed, n) /\ (Hidden(n) => typed # <<>>)}

IsDir(line, n) == ~(IsCommand(line) /\ n \in Builtins) /\ BaseDir(line) \o n \in Dirs

\* The longest common prefix of the candidates.
Common(C) == LET S == {p \in UNION {{SubSeq(n, 1, i) : i \in 0 .. Len(n)} : n \in C} :
                         \A n \in C : IsPrefix(p, n)}
             IN  CHOOSE p \in S : \A q \in S : Len(q) <= Len(p)

\* Mutation: what is appended is the whole name, typed prefix included.
Extension_Whole(line) == Common(Candidates(line))

Extension(line) ==
    LET c == Common(Candidates(line)) IN SubSeq(c, Len(Prefix(line)) + 1, Len(c))

\* As much of s as the line has room for.
Fitting(line, s) == line \o SubSeq(s, 1, IF Len(s) < Cap - 1 - Len(line)
                                         THEN Len(s) ELSE Cap - 1 - Len(line))

\* A unique name that was typed or completed in full is closed.
Closed(longer, c) == IF longer # <<>> /\ Last(longer) = c THEN longer ELSE Fitting(longer, <<c>>)

End(line, n) == IF IsDir(line, n) THEN Slash ELSE Blank

\* do_tab_complete: the line it leaves.
Completed(line) ==
    LET C == Candidates(line)
        ext == Extension(line)
        fits == Len(Fitting(line, ext)) = Len(line) + Len(ext)
    IN  CASE C = {} -> line
          [] C # {} /\ Cardinality(C) = 1 /\ fits ->
              Closed(Fitting(line, ext), End(line, Common(C)))
          [] OTHER  -> Fitting(line, ext)

Ambiguous(line) ==
    LET C == Candidates(line) IN
    C # {} /\ ~(Cardinality(C) = 1
                /\ Len(Fitting(line, Extension(line))) = Len(line) + Len(Extension(line)))

\* The second TAB lists the candidates, and prompt and line below them.
Lists == tab_pending /\ Cardinality(Candidates(text)) > 1 /\ Extension(text) = <<>>

\* The line is redrawn to bring the cursor to its end, what is added is written
\* there, and the line is redrawn once more.
AtEnd ==
    IF pos = Len(text) THEN [row |-> row, col |-> col]
    ELSE [row |-> Redrawn(row, col, text, Len(text)), col |-> Len(Prompt) + Len(text)]

Extended(line) ==
    IF Lists THEN [row |-> Prompt \o text, col |-> Len(Prompt) + Len(text)]
    ELSE LET t == AtEnd
             added == SubSeq(line, Len(text) + 1, Len(line))
         IN  [row |-> Overwrite(t.row, t.col, added), col |-> t.col + Len(added)]

Tab ==
    /\ LET line == Completed(text)
           t == Extended(line)
       IN  /\ Redraw(t.row, t.col, line, Len(line))
           /\ clean' = ((clean \/ Lists) /\ Fits(line))
    /\ tab_pending' = Ambiguous(text)
    /\ hist_pos' = 0 /\ saved' = <<>>
    /\ UNCHANGED <<hist, past>>

-----------------------------------------------------------------------------
EditNext ==
    \/ Enter
    \/ ~Full /\ (Up \/ Down \/ Move \/ KillLine \/ Delete \/ Insert \/ Tab)

EditSpec == EditInit /\ [][EditNext]_editVars

-----------------------------------------------------------------------------
(* Properties.                                                             *)

\* Whatever was typed, deleted, recalled and completed, the prompt and the line
\* up to the cursor stand before the terminal's cursor, however often they have
\* wrapped.  As long as the prompt was the first thing on its row and prompt and
\* line have fitted it, the terminal shows there prompt and line and nothing
\* else, however long the line was before.  (Once they wrap or follow something
\* else a redraw begins where the row begins, which is not where the prompt is.)
\* The line fits its buffer; and a recalled line is the one entered that many
\* lines ago, though the ring has wrapped and overwritten older ones.
LineShown ==
    /\ pos \in 0 .. Len(text) /\ Len(text) < Cap
    /\ SubSeq(row, col - pos - Len(Prompt) + 1, col) = Prompt \o SubSeq(text, 1, pos)
    /\ clean => /\ col = Len(Prompt) + pos
                /\ row = Prompt \o text \o Blanks(Len(row) - Len(Prompt) - Len(text))
    /\ g_hist_count = IF Len(past) < HIST_MAX THEN Len(past) ELSE HIST_MAX
    /\ hist_pos > 0 => text = past[Len(past) - hist_pos + 1]

\* What a line was extended by is, behind its last word, the beginning of a
\* name or of a name and its end.
Extends(line, longer) ==
    /\ IsPrefix(line, longer)
    /\ longer # line =>
         \E n \in Candidates(line), e \in {<<>>, <<Blank>>, <<Slash>>} :
           IsPrefix(Prefix(line) \o SubSeq(longer, Len(line) + 1, Len(longer)), n \o e)

\* Looking through the past loses nothing: the line is kept when the first
\* arrow up leaves it and through all the others, and is there again when the
\* arrow down leads back to the present.  TAB only ever extends the line by a
\* part of a name, and its end.
KeepsLine ==
    /\ hist_pos' > 0 => saved' = IF hist_pos = 0 THEN text ELSE saved
    /\ Down /\ hist_pos' = 0 => text' = saved
    /\ text' # text /\ Tab => Extends(text, text')
EditsKeepLine == [][KeepsLine]_editVars
=============================================================================
