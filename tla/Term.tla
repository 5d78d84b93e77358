-------------------------------- MODULE Term --------------------------------
(* The text console on the framebuffer (kernel-aarch64/termfb.c, the offset  *)
(* of the visible part in fb.c) and the ring that keeps the kernel's log     *)
(* (klog.c, read by sys_dmesg.c).                                            *)
(*                                                                           *)
(* The framebuffer may be taller than the screen.  Scrolling then moves the  *)
(* visible part down by a row of characters and, at the end of the buffer,   *)
(* copies it back to the top; without that room, or when the firmware        *)
(* refuses to move it, every row is copied up.  "ideal" is the screen a      *)
(* reader expects, kept without any of this.                                 *)
(*                                                                           *)
(* A row here is a row of characters: the height of the screen is taken to   *)
(* be a multiple of the height of a character, as it is in every mode the    *)
(* Makefile offers.  A cell is a character with its two colours.             *)
EXTENDS Integers, Sequences
SeqExt == INSTANCE SequencesExt

CONSTANTS Cols, Rows,  \* g_cols, g_rows
          VRows,       \* virt_height, in rows of characters
          Tab,         \* columns from one tab stop to the next (4)
          Letters,     \* characters that are drawn
          Escapes,     \* sequences ESC [ params final that are written
          LogCap,      \* KLOG_CAP
          MaxWrites    \* bound: texts written

Unset == -1             \* an empty parameter
Digits == <<"0", "1", "2", "3", "4", "5", "6", "7", "8", "9">>
IsDigit(c) == \E i \in DOMAIN Digits : c = Digits[i]

\* A sequence is [params, final], of at most as many numbers as the parser has
\* room for (g_ansi_params).  One that sets colours writes its last number, if
\* it has more than one: the parser has no empty number at the end.
TermAssumption ==
  /\ {Cols, Rows, VRows, Tab, LogCap} \subseteq Nat \ {0}
  /\ VRows >= Rows
  /\ "ESC" \notin Letters
  /\ \A e \in Escapes :
       /\ e.params \in Seq({Unset} \cup 0 .. 999) /\ Len(e.params) <= 4
       /\ ~IsDigit(e.final) /\ e.final # ";"
       /\ e.final = "m" /\ Len(e.params) > 1 => e.params[Len(e.params)] # Unset

ASSUME TermAssumption

VARIABLES phys,   \* the framebuffer, row by row
          off,    \* y_offset
          moves,  \* the firmware moves the visible part when asked to
          cur,    \* g_cur_x, g_cur_y and the colours
          tab,    \* the column a tab being written stops at, 0 when none is
          ansi,   \* the parser of escape sequences: its state, the numbers it
                  \* has, and the one being read
          esc,    \* the sequence being written, and where its writer is
          ideal, ideal_cur,
          log, head, len, said,
          writes
screenVars == <<phys, off, moves, cur, tab, ansi, esc, ideal, ideal_cur>>
logVars    == <<log, head, len, said>>
termVars   == <<screenVars, logVars, writes>>

Default == [fg |-> 7, bg |-> 0]
Clamp(n, top) == IF n > top THEN top ELSE n

-----------------------------------------------------------------------------
(* Drawing.  A terminal is a record of the framebuffer and the cursor; every *)
(* operation maps one to the next.                                           *)

Cell(c, at) == IF c = " " THEN <<" ", at.col.bg, at.col.bg>> ELSE <<c, at.col.fg, at.col.bg>>
BlankRow(at) == [x \in 1 .. Cols |-> Cell(" ", at)]

termfb_map_view_y_to_phys(t, y) == ((y + t.off) % VRows) + 1

termfb_draw_char_cell(t, c) ==
  [t EXCEPT !.phys[termfb_map_view_y_to_phys(t, t.cur.y)][t.cur.x + 1] = Cell(c, t.cur)]

\* fb_set_virtual_offset: refused by the firmware or outside the buffer
Moves(t, new) == t.moves /\ new <= VRows - Rows
MovedTo(t, new) == [t EXCEPT !.off = new, !.phys[new + Rows] = BlankRow(t.cur)]

\* Mutation: the visible rows are not copied up.
termfb_copy_viewport_to_phys0_Not(t) == t

termfb_copy_viewport_to_phys0(t) ==
  [t EXCEPT !.phys = [y \in 1 .. VRows |-> IF y <= Rows THEN t.phys[t.off + y] ELSE t.phys[y]]]

RowsCopied(t) ==
  [t EXCEPT !.phys = [y \in 1 .. VRows |-> IF y < Rows THEN t.phys[y + 1]
                                          ELSE IF y = Rows THEN BlankRow(t.cur) ELSE t.phys[y]]]

\* From row new of the buffer, if the firmware will.
Scroll(t, new) == IF Moves(t, new) THEN MovedTo(t, new) ELSE RowsCopied(t)
AtTop(t) == LET up == termfb_copy_viewport_to_phys0(t)
            IN  IF Moves(up, 0) THEN [up EXCEPT !.off = 0] ELSE up

termfb_scroll_one(t) ==
  IF VRows = Rows THEN RowsCopied(t)
  ELSE IF t.off + 1 <= VRows - Rows THEN Scroll(t, t.off + 1)
  ELSE Scroll(AtTop(t), 1)

NewLine(t) == LET down == [t EXCEPT !.cur.x = 0, !.cur.y = Clamp(@ + 1, Rows - 1)]
              IN  IF t.cur.y + 1 >= Rows THEN [termfb_scroll_one(t) EXCEPT !.cur = down.cur] ELSE down

Drawn(t, c) == LET d == termfb_draw_char_cell(t, c)
               IN  IF t.cur.x + 1 >= Cols THEN NewLine(d) ELSE [d EXCEPT !.cur.x = @ + 1]

Back(t) == LET at == IF t.cur.x > 0 THEN [t.cur EXCEPT !.x = @ - 1]
                     ELSE IF t.cur.y > 0 THEN [t.cur EXCEPT !.y = @ - 1, !.x = Cols - 1]
                     ELSE t.cur
           IN  termfb_draw_char_cell([t EXCEPT !.cur = at], " ")

\* termfb_putc; a tab only notes the column it stops at, TabSpace writes it
termfb_putc(t, c) ==
  CASE c = "\r" -> [t EXCEPT !.cur.x = 0]
    [] c = "\n" -> NewLine(t)
    [] c = "\t" -> [t EXCEPT !.tab = (t.cur.x \div Tab + 1) * Tab]
    [] c = "BS" -> Back(t)
    [] OTHER -> Drawn(t, c)

termfb_clear(t) == [t EXCEPT !.phys = [y \in 1 .. VRows |-> BlankRow(t.cur)], !.cur.x = 0, !.cur.y = 0]

-----------------------------------------------------------------------------
(* Escape sequences, read one character at a time.                           *)

DigitValue(c) == (CHOOSE i \in DOMAIN Digits : Digits[i] = c) - 1
Normal == [state |-> "normal", params |-> <<>>, current |-> Unset]

termfb_ansi_push_param(a, v) ==
  [a EXCEPT !.params = IF Len(@) < 4 THEN Append(@, IF v = Unset THEN 0 ELSE v) ELSE @, !.current = Unset]
termfb_ansi_finish_param_if_needed(a) ==
  IF a.current # Unset \/ a.params = <<>> THEN termfb_ansi_push_param(a, a.current) ELSE a

Sgr(col, p) == CASE p = 0 -> Default
                 [] p \in 30 .. 37 -> [col EXCEPT !.fg = p - 30]
                 [] p \in 40 .. 47 -> [col EXCEPT !.bg = p - 40]
                 [] p \in 90 .. 97 -> [col EXCEPT !.fg = p - 90 + 8]
                 [] p \in 100 .. 107 -> [col EXCEPT !.bg = p - 100 + 8]
                 [] OTHER -> col
Coloured(col, ps) == SeqExt!FoldLeft(Sgr, col, ps)

termfb_set_cursor_1based(at, row, col) ==
  [at EXCEPT !.y = Clamp(IF row = 0 THEN 0 ELSE row - 1, Rows - 1),
              !.x = Clamp(IF col = 0 THEN 0 ELSE col - 1, Cols - 1)]

termfb_ansi_handle_csi(t, c) ==
  LET ps == termfb_ansi_finish_param_if_needed(t.ansi).params
      done == [t EXCEPT !.ansi = Normal]
  IN  CASE c = "m" -> [done EXCEPT !.cur.col = Coloured(@, ps)]
        [] c = "J" -> IF ps[1] = 2 THEN termfb_clear(done) ELSE done
        [] c \in {"H", "f"} -> [done EXCEPT !.cur = termfb_set_cursor_1based(@, ps[1], IF Len(ps) >= 2 THEN ps[2] ELSE 1)]
        [] OTHER -> done

\* The parser in each of its states.
Plain(t, c)    == IF c = "ESC" THEN [t EXCEPT !.ansi.state = "esc"] ELSE termfb_putc(t, c)
AfterEsc(t, c) == [t EXCEPT !.ansi = IF c = "[" THEN [Normal EXCEPT !.state = "csi"] ELSE Normal]
DigitRead(t, c) == [t EXCEPT !.ansi.current = (IF @ = Unset THEN 0 ELSE @ * 10) + DigitValue(c)]
InCsi(t, c)    ==
  CASE IsDigit(c) -> DigitRead(t, c)
    [] c = ";" -> [t EXCEPT !.ansi = termfb_ansi_push_param(@, @.current)]
    [] OTHER -> termfb_ansi_handle_csi(t, c)

termfb_putc_ansi(t, c) ==
  CASE t.ansi.state = "normal" -> Plain(t, c)
    [] t.ansi.state = "esc" -> AfterEsc(t, c)
    [] OTHER -> InCsi(t, c)

-----------------------------------------------------------------------------
(* What is written: characters, and whole escape sequences.                  *)

Terminal == [phys |-> phys, off |-> off, moves |-> moves, cur |-> cur, tab |-> tab, ansi |-> ansi]
Shows(t) == /\ phys' = t.phys /\ off' = t.off /\ cur' = t.cur /\ tab' = t.tab /\ ansi' = t.ansi
            /\ UNCHANGED moves
Controls == {"\r", "\n", "\t", "BS"}

\* How a program spells the number n.
Spelled(n) == IF n = Unset THEN <<>>
              ELSE IF n < 10 THEN <<Digits[n + 1]>>
              ELSE IF n < 100 THEN <<Digits[n \div 10 + 1], Digits[(n % 10) + 1]>>
              ELSE <<Digits[n \div 100 + 1], Digits[((n \div 10) % 10) + 1], Digits[(n % 10) + 1]>>

\* The writer has written dig digits of the par-th number of seq.
NoSequence == [seq |-> [params |-> <<>>, final |-> "m"], par |-> 1, dig |-> 0]
Starts(e)  == [seq |-> e, par |-> 1, dig |-> 0]
Params     == esc.seq.params
NumberDone == esc.par <= Len(Params) => esc.dig = Len(Spelled(Params[esc.par]))

(* The screen as a reader expects it: a grid of Rows rows with a cursor.     *)
Scrolled(g, at) == IF at.y + 1 < Rows THEN g
                   ELSE [y \in 1 .. Rows |-> IF y < Rows THEN g[y + 1] ELSE BlankRow(at)]
NextLine(at) == [at EXCEPT !.x = 0, !.y = IF @ + 1 < Rows THEN @ + 1 ELSE Rows - 1]
Written(g, at, c) == [g EXCEPT ![at.y + 1][at.x + 1] = Cell(c, at)]
Prev(at) == IF at.x > 0 THEN [at EXCEPT !.x = @ - 1]
            ELSE IF at.y > 0 THEN [at EXCEPT !.x = Cols - 1, !.y = @ - 1] ELSE at

Expect(c) ==
  LET at == ideal_cur
  IN  CASE c = "\r" -> ideal' = ideal /\ ideal_cur' = [at EXCEPT !.x = 0]
        [] c = "\n" -> ideal' = Scrolled(ideal, at) /\ ideal_cur' = NextLine(at)
        [] c = "\t" -> UNCHANGED <<ideal, ideal_cur>>
        [] c = "BS" -> ideal' = Written(ideal, Prev(at), " ") /\ ideal_cur' = Prev(at)
        [] OTHER -> IF at.x + 1 < Cols
                    THEN ideal' = Written(ideal, at, c) /\ ideal_cur' = [at EXCEPT !.x = @ + 1]
                    ELSE ideal' = Scrolled(Written(ideal, at, c), at) /\ ideal_cur' = NextLine(at)

\* What a sequence asks for: an empty number is 0, and a position counts from 1.
Expected(e) ==
  LET Nth(i) == IF i <= Len(e.params) /\ e.params[i] > 0 THEN e.params[i] ELSE 1
      OrZero == [i \in DOMAIN e.params |-> IF e.params[i] = Unset THEN 0 ELSE e.params[i]]
      ps == IF e.params = <<>> THEN <<0>> ELSE OrZero
      Erases == e.final = "J" /\ ps[1] = 2
  IN  /\ ideal' = IF Erases THEN [y \in 1 .. Rows |-> BlankRow(ideal_cur)] ELSE ideal
      /\ ideal_cur' = CASE e.final = "m" -> [ideal_cur EXCEPT !.col = Coloured(@, ps)]
                        [] Erases -> [ideal_cur EXCEPT !.x = 0, !.y = 0]
                        [] e.final \in {"H", "f"} ->
                             [ideal_cur EXCEPT !.y = Clamp(Nth(1), Rows) - 1, !.x = Clamp(Nth(2), Cols) - 1]
                        [] OTHER -> ideal_cur

-----------------------------------------------------------------------------
(* The kernel's log: a ring of LogCap characters.                            *)

klog_putc(c) == /\ log' = [log EXCEPT ![head] = c]
                /\ head' = (head + 1) % LogCap
                /\ len' = Clamp(len + 1, LogCap)
\* Mutation: the ring is read from its head on, full or not.
klog_at_FromHead(i) == log[(head + i) % LogCap]

klog_at(i) == LET start == (head + LogCap - len) % LogCap IN log[(start + i) % LogCap]
\* what sys_mona_dmesg copies out to a buffer that is large enough
Dmesg == [i \in 1 .. len |-> klog_at(i - 1)]

-----------------------------------------------------------------------------
Cursor0 == [x |-> 0, y |-> 0, col |-> Default]

TermInit ==
  /\ phys = [y \in 1 .. VRows |-> BlankRow(Cursor0)] /\ off = 0 /\ moves \in BOOLEAN
  /\ cur = Cursor0 /\ tab = 0 /\ ansi = Normal /\ esc = NoSequence
  /\ ideal = [y \in 1 .. Rows |-> BlankRow(Cursor0)] /\ ideal_cur = Cursor0
  /\ log = [i \in 0 .. LogCap - 1 |-> " "] /\ head = 0 /\ len = 0 /\ said = <<>>
  /\ writes = 0

\* Nothing that takes several steps is under way.
Settled == tab = 0 /\ ansi = Normal

\* uart_putc: a character a program writes
Char(c) == /\ Settled
           /\ Shows(termfb_putc_ansi(Terminal, c))
           /\ Expect(c)
           /\ UNCHANGED <<esc, logVars>>

\* a character the kernel prints (uart_write) also goes to the log
KernelChar(c) == /\ Settled
                 /\ Shows(termfb_putc_ansi(Terminal, c))
                 /\ Expect(c)
                 /\ klog_putc(c)
                 /\ said' = Append(said, c)
                 /\ UNCHANGED esc

\* a program begins an escape sequence
Escape(e) == /\ Settled
             /\ Shows(termfb_putc_ansi(Terminal, "ESC"))
             /\ esc' = Starts(e)
             /\ UNCHANGED <<ideal, ideal_cur, logVars>>

\* sys_mona_dmesg with DMESG_F_CLEAR
klog_clear == /\ Settled /\ len > 0
              /\ head' = 0 /\ len' = 0 /\ said' = <<>>
              /\ UNCHANGED <<screenVars, log>>

\* one round of the loop that writes a tab
TabSpace == /\ tab # 0
            /\ IF cur.x < tab
               THEN /\ Shows(termfb_putc(Terminal, " "))
                    /\ Expect(" ")
               ELSE tab' = 0 /\ UNCHANGED <<phys, off, moves, cur, ansi, ideal, ideal_cur>>
            /\ UNCHANGED <<esc, logVars>>

\* the next character of an escape sequence
Passes(c) == /\ Shows(termfb_putc_ansi(Terminal, c))
             /\ UNCHANGED logVars
Bracket   == /\ ansi.state = "esc"
             /\ Passes("[") /\ UNCHANGED <<esc, ideal, ideal_cur>>
Number    == /\ ansi.state = "csi" /\ ~NumberDone
             /\ Passes(Spelled(Params[esc.par])[esc.dig + 1])
             /\ esc' = [esc EXCEPT !.dig = @ + 1] /\ UNCHANGED <<ideal, ideal_cur>>
Separator == /\ ansi.state = "csi" /\ NumberDone /\ esc.par < Len(Params)
             /\ Passes(";")
             /\ esc' = [esc EXCEPT !.par = @ + 1, !.dig = 0] /\ UNCHANGED <<ideal, ideal_cur>>
Final     == /\ ansi.state = "csi" /\ NumberDone /\ esc.par >= Len(Params)
             /\ Passes(esc.seq.final)
             /\ Expected(esc.seq)
             /\ esc' = NoSequence

TermNext ==
  \/ /\ writes < MaxWrites /\ writes' = writes + 1
     /\ \/ \E c \in Letters \union Controls : Char(c)
        \/ \E c \in Letters \union {"\n"} : KernelChar(c)
        \/ \E e \in Escapes : Escape(e)
        \/ klog_clear
  \/ /\ TabSpace \/ Bracket \/ Number \/ Separator \/ Final
     /\ UNCHANGED writes

TermSpec == TermInit /\ [][TermNext]_termVars

-----------------------------------------------------------------------------
(* The reader sees the screen that was written, wherever in the framebuffer  *)
(* the visible part is, whether the firmware moves it or not, and whatever   *)
(* colours and positions escape sequences asked for; and the log a program   *)
(* reads is the end of what the kernel printed, in order, also when the ring *)
(* has gone round and after it was cleared (termfb.c, klog.c).               *)
ScreenRight ==
  /\ [y \in 1 .. Rows |-> phys[termfb_map_view_y_to_phys(Terminal, y - 1)]] = ideal
  /\ cur = ideal_cur
KlogRight == Dmesg = SubSeq(said, Len(said) - Clamp(Len(said), LogCap) + 1, Len(said))
ConsoleRight == ScreenRight /\ KlogRight
=============================================================================
