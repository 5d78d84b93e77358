------------------------------- MODULE MCKernel -------------------------------
(***************************************************************************)
(* Small instances of the kernel's components that share no state with one *)
(* another: file descriptors, paths, directory listing, execve, physical   *)
(* memory, the USB endpoints, the USB bus, and the console.  A behaviour   *)
(* follows one of them, which; the components the module extends are else  *)
(* as at the start, and the variables of the others 0.                     *)
(***************************************************************************)
EXTENDS FdTable, Memory, UsbBus, Exec, Term

VARIABLES
    which,
    client, base, slots, pos, listed, place, round, start, changes,
    half, stage, stream, pending, packet, devPid, inPid, buf, packets, accum, chunks,
    delivered, taken, cuts, evens, overflowed,
    txLeft, txPid, txDevPid, txOdd, txLost,
    reports, nread, kbdPid, kbdDevPid, last, typed, missed,
    dirs, cwd, rc

onlyList == <<client, base, slots, pos, listed, place, round, start, changes>>
onlyNet  == <<half, stage, stream, pending, packet, devPid, inPid, buf, packets, accum, chunks,
              delivered, taken, cuts, evens, overflowed,
              txLeft, txPid, txDevPid, txOdd, txLost,
              reports, nread, kbdPid, kbdDevPid, last, typed, missed>>
onlyPath == <<dirs, cwd, rc>>
kvars    == <<vars, memVars, usbVars, execVars, termVars, onlyList, onlyNet, onlyPath, which>>

(* The variables of components that are not followed.                      *)
NoList ==
    /\ client = 0 /\ base = 0 /\ slots = 0 /\ pos = 0 /\ listed = 0 /\ place = 0 /\ round = 0
    /\ start = 0 /\ changes = 0
NoNet ==
    /\ stream = 0 /\ pending = 0 /\ packet = 0 /\ devPid = 0 /\ inPid = 0
    /\ buf = 0 /\ packets = 0 /\ accum = 0 /\ chunks = 0 /\ delivered = 0
    /\ taken = 0 /\ cuts = 0 /\ evens = 0 /\ overflowed = 0
    /\ txLeft = 0 /\ txPid = 0 /\ txDevPid = 0 /\ txOdd = 0 /\ txLost = 0
    /\ reports = 0 /\ nread = 0 /\ kbdPid = 0 /\ kbdDevPid = 0 /\ last = 0
    /\ typed = 0 /\ half = 0 /\ stage = 0 /\ missed = 0
NoPath == dirs = 0 /\ cwd = 0 /\ rc = 0

-----------------------------------------------------------------------------
(* Directory listing: names that do and do not fit a buffer of 3.          *)

MCRecLen == [n \in {"b", "c", "d", "x", "y", "z"} |-> IF n \in {"b", "y"} THEN 2 ELSE 1]

L == INSTANCE Listing WITH pc <- place, off <- pos,
       Archive <- <<"d", "c", "d", "b", "d">>, Names <- {"d", "x", "y", "z"},
       RecLen <- MCRecLen, NSlots <- 3, BufLen <- 3, MAX_ENTRIES <- 2, Rounds <- 3,
       MaxChanges <- 2

-----------------------------------------------------------------------------
(* execve: programs whose segments fit, overlap, touch the end of the      *)
(* region or lie outside, with and without headers of their own; vectors   *)
(* in place, at the end of the region and out of it.                       *)

Put(m, at, cells) == [a \in 1 .. 72 |-> IF a \in at .. at + Len(cells) - 1
                                        THEN cells[a - at + 1] ELSE m[a]]
Junk == [a \in 1 .. 72 |-> 9]

Load(o, va, f, m) == [type |-> "LOAD", off |-> o, va |-> va, filesz |-> f, memsz |-> m]
Note     == [type |-> "NOTE", off |-> 0, va |-> 1, filesz |-> 1, memsz |-> 1]
Phdr(va) == [type |-> "PHDR", off |-> 0, va |-> va, filesz |-> 1, memsz |-> 1]
Prog(phs) == [ok |-> TRUE, file |-> <<21, 22, 23, 24, 25, 26>>, phoff |-> 1, phs |-> phs, entry |-> 3]
File(n, i) == [name |-> n, kind |-> "file", image |-> i]

MCArchive == <<
    File(<<1, 3>>, Prog(<<Load(0, 2, 4, 4), Load(3, 6, 3, 5)>>)),
    [name |-> <<1, 5>>, kind |-> "dir", image |-> 0],
    File(<<1, 3, 1, 4>>, Prog(<<Note, Phdr(3), Load(0, 2, 6, 7), Load(0, 30, 0, 43)>>)),
    File(<<1, 6>>, Prog(<<Load(0, 2, 4, 4), Load(3, 60, 3, 14)>>)),
    File(<<1, 7>>, Prog(<<Note>>)),
    [name |-> <<1>>, kind |-> "trailer", image |-> 0],
    File(<<1, 8>>, Prog(<<Load(0, 2, 4, 4)>>)) >>

MCMems == {Put(Put(Put(Junk, 2, str), 5, argv), w, envp) :
             str \in {<<7, 8, 0>>, <<0, 7, 0>>, <<7, 8, 7>>},
             argv \in {<<2, 3, 0>>, <<70, 2, 4, 0>>, <<0>>},
             w \in {70, 72}, envp \in {<<3>>, <<4, 70, 0>>, <<0>>}}

MCCallers == [mem : MCMems, argv : {0, 5}, envp : {0, 70, 72},
            path : {<<1, 3>>, <<1, 3, 1, 4>>, <<1, 5>>, <<1, 6>>, <<1, 7>>, <<1, 8>>}]

-----------------------------------------------------------------------------
(* USB: pairs of messages that packets of two cells and transfers of three *)
(* packets cut in all ways; the third nearly fills the accumulator.        *)

Msg(t, o, f, lead, pad) == [type |-> t, off |-> o, frame |-> f, lead |-> lead, pad |-> pad]
MCStreams == {<<Msg(1, 4, <<6, 1>>, 0, 2), Msg(1, 2, <<8>>, 0, 1)>>,
              <<Msg(2, 0, <<1>>, 0, 0), Msg(1, 3, <<6, 2>>, 1, 0)>>,
              <<Msg(1, 2, <<6, 1, 4>>, 0, 1), Msg(1, 2, <<6, 1, 4>>, 0, 0)>>}
MCReports == {<<a, b, c, d>> : a, b, c, d \in {<<>>, <<5>>, <<5, 7>>, <<7>>}}

N == INSTANCE UsbNet WITH part <- half, faults <- missed, pc <- stage,
       Streams <- MCStreams, Mps <- 2, Req <- 6, AccumSize <- 10, MaxChunks <- 4,
       TxFrames <- 5, TxPackets <- 4, Reports <- MCReports, MaxFaults <- 2

If(c) == [type |-> "if", class |-> c]
Ep(kind, in, n) == [type |-> "ep", kind |-> kind, in |-> in, num |-> n]
MCConfigs == {
    <<If("hid"), Ep("intr", TRUE, 1)>>,
    <<If("hid"), Ep("intr", TRUE, 1), If("other"), Ep("bulk", TRUE, 2), Ep("bulk", FALSE, 3)>>,
    <<If("ctrl"), Ep("intr", TRUE, 1), If("data"),
      If("data"), Ep("bulk", TRUE, 2), Ep("bulk", FALSE, 2)>>,
    <<If("other"), Ep("bulk", TRUE, 1), Ep("bulk", FALSE, 3),
      If("data"), Ep("bulk", TRUE, 2), Ep("intr", TRUE, 3), Ep("bulk", FALSE, 1)>>,
    <<If("data"), Ep("bulk", TRUE, 1), If("other"), Ep("bulk", FALSE, 2),
      If("data"), Ep("bulk", FALSE, 1), Ep("bulk", FALSE, 3), Ep("bulk", TRUE, 2)>> }

MCCommands == <<"init", "query", "set", "set", "set">>

-----------------------------------------------------------------------------
(* The console: two rows of three in a framebuffer of three.               *)

Esc(ps, f) == [params |-> ps, final |-> f]
MCEscapes == {Esc(<<>>, "H"), Esc(<<2, 3>>, "H"), Esc(<<-1, 12>>, "H"), Esc(<<2>>, "J"),
              Esc(<<>>, "J"), Esc(<<31, 44>>, "m"), Esc(<<>>, "m"), Esc(<<101>>, "m")}

-----------------------------------------------------------------------------
(* Paths of up to three segments; links to a directory, to a link, to one  *)
(* too many, and to nothing.  Memory of a few blocks, with a kernel, a     *)
(* device tree and a framebuffer that begin and end within pages.          *)

MCLinks == [l \in {<<"l">>, <<"a", "l">>, <<"bb", "l">>} |->
              IF l = <<"l">> THEN <<"a">>
              ELSE IF l = <<"a", "l">> THEN <<"..", "l">> ELSE <<"", "a", "l">>]
MCPathLen == [n \in {"a", "l", "bb"} |-> IF n = "bb" THEN 2 ELSE 1]

P == INSTANCE Paths WITH
       MAX_PATH <- 8, MAX_DEPTH <- 3, MAX_SYMLINK_HOPS <- 2, NameLen <- MCPathLen,
       Links <- MCLinks, Regular <- {<<"a", "a">>},
       Places <- {<<"a">>, <<"bb">>, <<"a", "bb">>, <<"bb", "bb">>, <<"a", "bb", "a">>},
       Inputs <- UNION {[1 .. n -> {"", ".", "..", "a", "l", "bb"}] : n \in 1 .. 3}

Machine(size, image, d, f) == [size |-> size, kernel |-> image, dtb |-> d, fb |-> f]
MCBoot == Machine(14, <<3, 4>>, <<8, 8>>, <<0, 0>>)
MCBoots == {MCBoot,
            Machine(40, <<3, 7>>, <<33, 35>>, <<0, 0>>),
            Machine(56, <<1, 9>>, <<30, 33>>, <<44, 60>>),
            Machine(56, <<9, 11>>, <<0, 0>>, <<47, 49>>),
            Machine(65, <<1, 13>>, <<60, 63>>, <<49, 52>>),
            Machine(84, <<3, 7>>, <<83, 84>>, <<60, 63>>)}

ASSUME PartsAssumption ==
    /\ FdAssumption /\ MemoryAssumption /\ RoomToBoot
    /\ L!ListingAssumption /\ P!PathsAssumption

-----------------------------------------------------------------------------
\* No execve, nothing on the bus, and nothing to write, in behaviours that
\* follow something else.
NoExec ==
    /\ call = 0 /\ mem = 0 /\ phase = "none" /\ args = 0 /\ envs = 0
    /\ seg = 0 /\ regs = 0 /\ res = "none"
NoBus  == part = "bus" /\ \A p \in HubPorts : config[p] = <<>>

Follows ==
    \/ which \in {"fd", "memory", "usbbus", "exec", "term"} /\ NoList /\ NoNet /\ NoPath
    \/ which = "list" /\ L!Init /\ NoNet /\ NoPath
    \/ which = "usbnet" /\ N!Init /\ NoList /\ NoPath
    \/ which = "path" /\ P!Init /\ NoList /\ NoNet

MCInit ==
    /\ Follows
    /\ Init
    /\ MemInit  /\ (which # "memory" => machine = MCBoot)
    /\ UsbInit  /\ (which # "usbbus" => NoBus)
    /\ IF which = "exec" THEN ExecInit ELSE NoExec
    /\ TermInit /\ (which # "term" => moves)

FdNext == /\ which = "fd" /\ Next
          /\ UNCHANGED <<which, memVars, usbVars, execVars, termVars, onlyList, onlyNet, onlyPath>>
MemoryNext == /\ which = "memory" /\ MemNext
              /\ UNCHANGED <<which, vars, usbVars, execVars, termVars, onlyList, onlyNet, onlyPath>>
UsbBusNext == /\ which = "usbbus" /\ UsbNext
              /\ UNCHANGED <<which, vars, memVars, execVars, termVars, onlyList, onlyNet, onlyPath>>
ExecveNext == /\ which = "exec" /\ ExecNext
              /\ UNCHANGED <<which, vars, memVars, usbVars, termVars, onlyList, onlyNet, onlyPath>>
ConsoleNext == /\ which = "term" /\ TermNext
               /\ UNCHANGED <<which, vars, memVars, usbVars, execVars, onlyList, onlyNet, onlyPath>>
ListNext == /\ which = "list" /\ L!Next
            /\ UNCHANGED <<which, vars, memVars, usbVars, execVars, termVars, onlyNet, onlyPath>>
UsbNetNext == /\ which = "usbnet" /\ N!Next
              /\ UNCHANGED <<which, vars, memVars, usbVars, execVars, termVars, onlyList, onlyPath>>
PathNext == /\ which = "path" /\ P!Next
            /\ UNCHANGED <<which, vars, memVars, usbVars, execVars, termVars, onlyList, onlyNet>>

MCNext == \/ FdNext \/ MemoryNext \/ UsbBusNext \/ ExecveNext \/ ConsoleNext
          \/ ListNext \/ UsbNetNext \/ PathNext
MCSpec == MCInit /\ [][MCNext]_kvars

-----------------------------------------------------------------------------
(* Each component's properties, of the behaviours that follow it; those of *)
(* the modules extended are stated there.                                  *)

\* Listing: getdents64 lists every name once, and rm -r, which empties in
\* rounds the directory it reads, succeeds exactly when it has (sys_fs.c,
\* vfs.c, rm.c).  Paths: a path leads where its names lead, from any working
\* directory and through any links (sys_util.c, sys_fs.c).  Exec: the program
\* started finds its arguments and its file (sys_proc.c, elf64.c).
CallsRight == /\ which = "list" => L!ListedOnce /\ L!RmRight
              /\ which = "path" => P!PathsSound
              /\ which = "exec" => ExecStartsProgram

\* UsbNet: frames and keys arrive once each and in order, however transfers
\* are cut into packets, repeated or fail, as far as the toggles stay in step,
\* and what they cost when they do not is bounded (usb_net.c, usb_kbd.c).
UsbNetRight ==
    which = "usbnet" => N!UsbFramesIntact /\ N!SentArrives /\ N!KeyTypedOnce
=============================================================================
