---------------------------------- MODULE Exec ----------------------------------
(***************************************************************************)
(* execve: the arguments are read out of the running program, the new one  *)
(* is loaded over it segment by segment, and the arguments are laid out on *)
(* its stack.  The user region is an array of cells, a cell being a        *)
(* character, a pointer or a word; file contents are cells as well.        *)
(***************************************************************************)
EXTENDS Integers, SequencesExt, FiniteSetsExt, Functions

CONSTANTS
    RegionSize,  \* USER_REGION_SIZE, in cells
    MAX_ARGS,    \* also MAX_ENVP
    MAX_STR,
    Callers,     \* [mem, argv, envp, path]: programs about to call execve
    Archive      \* sequence of [name, kind, image]; kind "file", "dir", "bad" or
                 \* "trailer"; image is [ok, file, phoff, phs, entry]

\* The region is at 1 .. RegionSize; 0 is the null pointer and the NUL.
Region == 1 .. RegionSize

\* The numbers of a header are unsigned, whatever the file says.
ExecAssumption ==
    /\ {RegionSize, MAX_ARGS, MAX_STR} \subseteq Nat
    /\ \A c \in Callers : c.mem \in [Region -> Nat]
    /\ Archive \in Seq(Range(Archive))
    /\ \A i \in DOMAIN Archive :
         /\ Archive[i].kind \in {"file", "dir", "bad", "trailer"}
         /\ Archive[i].kind = "file" /\ Archive[i].image.ok =>
              /\ Archive[i].image.phs \in Seq([type : STRING, off : Nat, va : Nat, filesz : Nat, memsz : Nat])
              /\ Archive[i].image.file \in Seq(Nat)

ASSUME ExecAssumption

VARIABLES
    call,   \* the call, with the memory as it was when it was made
    mem,    \* the user region
    phase,  \* "snapshot", "load", "stack" or "done"
    args, envs, \* arg_strs and env_strs
    seg,    \* program header the loader is at
    regs,   \* sp_el0, x0 to x2 and elr as the program starts
    res     \* what execve returned

execVars == <<call, mem, phase, args, envs, seg, regs, res>>

ExecInit ==
    /\ call \in Callers
    /\ mem = call.mem
    /\ phase = "snapshot" /\ args = <<>> /\ envs = <<>> /\ seg = 1
    /\ regs = [sp |-> 0, x0 |-> 0, x1 |-> 0, x2 |-> 0, elr |-> 0]
    /\ res = "none"

Fail(err) == /\ phase' = "done" /\ res' = err
             /\ UNCHANGED <<call, mem, args, envs, seg, regs>>

-----------------------------------------------------------------------------
(* Reading the caller's memory.                                            *)

user_range_ok(p, n) == n = 0 \/ (p \in Region /\ p + n - 1 \in Region)

\* Where the string at p ends: its NUL, if it is near enough and in the region.
Nul(m, p) == {k \in p .. p + MAX_STR - 1 : /\ user_range_ok(p, k - p + 1)
                                           /\ m[k] = 0
                                           /\ \A j \in p .. k - 1 : m[j] # 0}

copy_cstr_from_user(m, p) ==
    IF Nul(m, p) = {} THEN "EFAULT"
    ELSE LET k == CHOOSE k \in Nul(m, p) : TRUE IN SubSeq([i \in Region |-> m[i]], p, k - 1)

\* The vector at v: its strings, or the error its first bad entry gives.
Vector(m, v) ==
    LET Read(i) == v + i \in Region
        Ends    == {i \in 0 .. MAX_ARGS - 1 : Read(i) /\ m[v + i] = 0}
        Bad     == {i \in 0 .. MAX_ARGS - 1 : IF Read(i) THEN m[v + i] # 0 /\ Nul(m, m[v + i]) = {}
                                                         ELSE TRUE}
        Before(i, S) == \A j \in S : i <= j
    IN IF v = 0 THEN [err |-> "none", strs |-> <<>>]
       ELSE IF Bad # {} /\ Before(Min(Bad), Ends) THEN [err |-> "EFAULT", strs |-> <<>>]
       ELSE IF Ends = {} THEN [err |-> "E2BIG", strs |-> <<>>]
       ELSE [err |-> "none",
             strs |-> [i \in 1 .. Min(Ends) |-> copy_cstr_from_user(m, m[v + i - 1])]]

\* cpio_newc_find: the first entry of that name, unless an entry that cannot
\* be parsed or the trailer comes before it.
cpio_newc_find(name) ==
    LET Stop == {i \in 1 .. Len(Archive) : Archive[i].kind \in {"bad", "trailer"}
                                           \/ Archive[i].name = name}
    IN IF Stop = {} \/ Archive[Min(Stop)].kind \in {"bad", "trailer"} THEN 0 ELSE Min(Stop)

Image == Archive[cpio_newc_find(call.path)].image

Slash == 1
Basename(path) == SubSeq(path, 1 + Max({0} \cup {i \in DOMAIN path : path[i] = Slash}), Len(path))

\* sys_execve up to the lookup of the program.
Snapshot ==
    /\ phase = "snapshot"
    /\ LET a == Vector(mem, call.argv)
           e == Vector(mem, call.envp)
           n == cpio_newc_find(call.path)
       IN IF a.err # "none" THEN Fail(a.err)
          ELSE IF e.err # "none" THEN Fail(e.err)
          ELSE IF n = 0 THEN Fail("ENOENT")
          ELSE IF Archive[n].kind = "dir" THEN Fail("EISDIR")
          ELSE /\ args' = IF call.argv = 0 THEN <<Basename(call.path)>> ELSE a.strs
               /\ envs' = e.strs
               /\ phase' = "load"
               /\ UNCHANGED <<call, mem, seg, regs, res>>

-----------------------------------------------------------------------------
(* elf64_load_etexec.  A program header is [type, off, va, filesz, memsz].  *)

\* Mutation: a segment that ends where the region ends is out of it.
range_ok_Short(ph) == ph.va \in Region /\ ph.va + ph.memsz - 1 < RegionSize

range_ok(ph) == ph.va \in Region /\ ph.va + ph.memsz - 1 <= RegionSize

Loads(ph)      == ph.type = "LOAD" /\ ph.memsz > 0
Loadable(i, ph) == /\ ph.memsz >= ph.filesz
                   /\ ph.off + ph.filesz <= Len(i.file)
                   /\ range_ok(ph)

\* Mutation: what the file does not fill is left as it was.
Loaded_NoZeros(m, i, ph) == [a \in Region |->
    IF a \in ph.va .. ph.va + ph.filesz - 1 THEN i.file[ph.off + 1 + a - ph.va] ELSE m[a]]

Loaded(m, i, ph) == [a \in Region |->
    IF a \in ph.va .. ph.va + ph.filesz - 1 THEN i.file[ph.off + 1 + a - ph.va]
    ELSE IF a \in ph.va .. ph.va + ph.memsz - 1 THEN 0
    ELSE m[a]]

LoadSegment ==
    /\ phase = "load" /\ Image.ok /\ seg <= Len(Image.phs)
    /\ LET img == Image
           ph  == img.phs[seg]
       IN IF Loads(ph) /\ ~Loadable(img, ph) THEN Fail("ENOEXEC")
          ELSE /\ mem' = IF Loads(ph) THEN Loaded(mem, img, ph) ELSE mem
               /\ seg' = seg + 1
               /\ UNCHANGED <<call, phase, args, envs, regs, res>>

LoadEnds ==
    /\ phase = "load" /\ (Image.ok => seg > Len(Image.phs))
    /\ IF ~Image.ok \/ ~\E k \in DOMAIN Image.phs : Loads(Image.phs[k]) THEN Fail("ENOEXEC")
       ELSE phase' = "stack" /\ UNCHANGED <<call, mem, args, envs, seg, regs, res>>

-----------------------------------------------------------------------------
(* The stack of the new program.  The greatest that can come up is far     *)
(* smaller than the region, so the checks of its pushes cannot fail.       *)

\* Where the program finds its own headers: said by a header, or inside the
\* segment that starts with the file; 0 where neither is of use.
at_phdr ==
    LET phs   == Image.phs
        Says  == {k \in DOMAIN phs : phs[k].type = "PHDR"}
        Holds == {k \in DOMAIN phs : /\ phs[k].type = "LOAD" /\ phs[k].off = 0
                                     /\ Image.phoff + Len(phs) <= phs[k].filesz}
        at    == IF Says # {} THEN phs[Min(Says)].va
                 ELSE IF Holds # {} THEN phs[Min(Holds)].va + Image.phoff
                 ELSE 0
    IN IF user_range_ok(at, Len(phs)) THEN at ELSE 0

Args == args

\* The strings as they lie in memory, the first pushed uppermost, and where
\* the i-th of them starts.  AT_PLATFORM's is a constant, AT_RANDOM's bytes are.
Platform == <<Slash>>
Random   == <<Slash>>
Pushed   == Args \o envs \o <<call.path, Platform, Random>>
Strings(k) == FlattenSeq([i \in 1 .. k |-> Append(Pushed[k + 1 - i], 0)])
Start(i) == RegionSize + 1 - Len(Strings(i))

PointersOf(from, n) == [i \in 1 .. n |-> Start(from + i)]

\* The auxiliary vector by Linux's numbers, the last pushed first.
Auxv(nstr, phdr) ==
    <<14, 0, 13, 0, 12, 0, 11, 0>>
    \o (IF phdr = 0 THEN <<>> ELSE <<3, phdr>>)
    \o <<5, Len(Image.phs), 4, 1, 9, Image.entry, 6, 4096>>
    \o <<31, Start(nstr - 2), 15, Start(nstr - 1), 25, Start(nstr), 23, 0, 0, 0>>

\* align_down_u64(sp, 16), in cells of 8 bytes.
Aligned(sp) == sp - ((sp - 1) % 2)

BuildStack ==
    /\ phase = "stack"
    /\ LET nstr  == Len(Pushed)
           strs  == Strings(nstr)
           below == RegionSize + 1 - Len(strs)
           words == <<Len(Args)>> \o PointersOf(0, Len(Args)) \o <<0>>
                    \o PointersOf(Len(Args), Len(envs)) \o <<0>> \o Auxv(nstr, at_phdr)
           sp    == Aligned(below) - Len(words)
       IN /\ mem' = SubSeq(mem, 1, sp - 1) \o words
                    \o SubSeq(mem, sp + Len(words), below - 1) \o strs
          /\ regs' = [sp |-> sp, x0 |-> Len(Args), x1 |-> sp + 1, x2 |-> sp + 2 + Len(Args),
                      elr |-> Image.entry]
    /\ phase' = "done" /\ res' = "ok"
    /\ UNCHANGED <<call, args, envs, seg>>

ExecNext == Snapshot \/ LoadSegment \/ LoadEnds \/ BuildStack
ExecSpec == ExecInit /\ [][ExecNext]_execVars

-----------------------------------------------------------------------------
(* Properties.                                                             *)

\* A string, and a vector of strings, as a program reads them.
StringAt(p) == SubSeq(mem, p, Min({k \in Region : k >= p /\ mem[k] = 0}) - 1)
VectorAt(v) == LET n == Min({i \in 0 .. RegionSize - v : mem[v + i] = 0})
               IN [i \in 1 .. n |-> StringAt(mem[v + i - 1])]
\* The value of a type of the auxiliary vector, which a pair of zeros ends.
AuxAt(v) == LET end == Min({i \in 0 .. (RegionSize - v) \div 2 : mem[v + 2 * i] = 0})
            IN [t \in {mem[v + 2 * i] : i \in 0 .. end - 1} |->
                  mem[v + 2 * (CHOOSE i \in 0 .. end - 1 : mem[v + 2 * i] = t) + 1]]

\* The program that execve starts finds on its stack the strings the caller
\* gave, though their memory has been overwritten, by the count, the vectors
\* and the registers alike; and below the stack its file's contents, zeros
\* where the file has none, and its own headers where it is told they are.
ExecStartsProgram ==
    res = "ok" =>
      LET img   == Image
          asked == IF call.argv = 0 THEN <<Basename(call.path)>> ELSE Vector(call.mem, call.argv).strs
          envv  == regs.sp + 2 + mem[regs.sp]
          aux   == AuxAt(envv + Len(envs) + 1)
          Clear(a) == a < regs.sp
      IN /\ mem[regs.sp] = Len(asked) /\ regs.x0 = Len(asked)
         /\ VectorAt(regs.sp + 1) = asked /\ VectorAt(regs.x1) = asked
         /\ VectorAt(envv) = Vector(call.mem, call.envp).strs /\ regs.x2 = envv
         /\ StringAt(aux[31]) = call.path
         /\ regs.elr = img.entry /\ aux[9] = img.entry
         /\ \A k \in DOMAIN img.phs :
              LET ph == img.phs[k]
              IN Loads(ph) => \A j \in 0 .. ph.memsz - 1 : Clear(ph.va + j) =>
                   mem[ph.va + j] = IF j < ph.filesz THEN img.file[ph.off + 1 + j] ELSE 0
         /\ 3 \in DOMAIN aux => \A j \in 0 .. Len(img.phs) - 1 : Clear(aux[3] + j) =>
              mem[aux[3] + j] = img.file[img.phoff + 1 + j]

\* An execve that fails, for its arguments or for want of the program,
\* returns to a caller that is as it was; only a program whose headers are bad
\* may be the end of it.
ExecFailsClean ==
    phase = "done" /\ res # "ok" /\ mem # call.mem =>
      \E k \in DOMAIN Image.phs : LET ph == Image.phs[k]
                                  IN ph.memsz < ph.filesz \/ ph.off + ph.filesz > Len(Image.file)
                                     \/ ph.va < 1 \/ ph.va + ph.memsz > RegionSize + 1
=============================================================================
