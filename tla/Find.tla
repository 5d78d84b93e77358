--------------------------------- MODULE Find ---------------------------------
(***************************************************************************)
(* find: the recursive walk, with a descriptor open for every directory on *)
(* the way down, and the pattern of -name.  Names and patterns are         *)
(* sequences of characters; a path is the sequence of the names below the  *)
(* starting point.  The tree has no symbolic links, which find follows,    *)
(* and does not change meanwhile (module Listing has directories that do). *)
(***************************************************************************)
EXTENDS Naturals, Sequences, SequencesExt, FiniteSets, FiniteSetsExt, Functions

CONSTANTS
    Root,      \* the name of the starting point
    Trees,     \* functions from the paths there are to "dir" or "file"
    Patterns,  \* of -name
    Depths,    \* [min, max] of -mindepth and -maxdepth
    MaxFds,    \* descriptors the program may have open
    MaxPath,   \* of child, with its end (256)
    MaxMissed  \* calls fail until this many paths are missed

FindAssumption ==
    /\ MaxFds \in Nat /\ MaxPath \in Nat \ {0} /\ MaxMissed \in Nat
    /\ \A t \in Trees : \A p \in DOMAIN t : p # <<>> => t[Front(p)] = "dir"

VARIABLES
    tree, opt,   \* opt: <<pattern>>, or <<>>; a type, or "any"; the depths
    stack,       \* the directories being listed, with the names still to come
    missed,      \* history: paths that a failing call kept from the walk
    next,        \* <<the path walk is called with>>, or <<>>
    printed

vars == <<tree, opt, stack, missed, next, printed>>

Init ==
    /\ tree \in Trees
    /\ opt \in [pat : {<<>>} \cup {<<q>> : q \in Patterns}, type : {"any", "dir", "file"}, depth : Depths]
    /\ stack = <<>> /\ missed = {} /\ next = << <<>> >> /\ printed = <<>>

Name(path) == IF path = <<>> THEN Root ELSE Last(path)

-----------------------------------------------------------------------------
(* match_glob goes back to the last star only, and gives it one character  *)
(* more.  A state of its loop is the positions p and t, and those of the   *)
(* star and of what it has not taken, or 0 without one.                    *)

GlobTail_AtEnd(pat, p) == p > Len(pat)

GlobTail(pat, p) == \A i \in p .. Len(pat) : pat[i] = "*"

match_glob(pat, s) ==
    LET pos == 1 .. Len(pat) + 1
        at  == 1 .. Len(s) + 1
        loop[p \in pos, t \in at, star \in pos \cup {0}, start \in at \cup {0}] ==
            IF t > Len(s) THEN GlobTail(pat, p)
            ELSE IF p <= Len(pat) /\ pat[p] = "*" THEN loop[p + 1, t, p, t]
            ELSE IF p <= Len(pat) /\ pat[p] \in {"?", s[t]} THEN loop[p + 1, t + 1, star, start]
            ELSE IF star # 0 THEN loop[star + 1, start + 1, star, start + 1]
            ELSE FALSE
    IN  loop[1, 1, 0, 0]

matches_filters(path) ==
    /\ Len(path) >= opt.depth.min
    /\ opt.type \in {"any", tree[path]}
    /\ opt.pat = <<>> \/ match_glob(opt.pat[1], Name(path))

-----------------------------------------------------------------------------
\* The length of a path as a string, and join_path's refusal.
StrLen(path) == Len(Root) + Len(path) + FoldSeq(LAMBDA n, sum : Len(n) + sum, 0, path)

Children(path) == {p \in DOMAIN tree : p # <<>> /\ Front(p) = path}

Deep(path) == Len(path) >= opt.depth.max

Failing == Cardinality(missed) < MaxMissed

\* walk: the path is printed if it passes, and opened if it is a directory;
\* one that cannot be opened is passed over, ...
walk ==
    /\ next # <<>>
    /\ LET path == next[1] IN
       /\ printed' = IF matches_filters(path) THEN Append(printed, path) ELSE printed
       /\ stack' = IF tree[path] = "dir" /\ ~Deep(path) /\ Len(stack) < MaxFds
                   THEN Append(stack, [path |-> path, todo |-> Children(path)])
                   ELSE stack
    /\ next' = <<>>
    /\ UNCHANGED <<tree, opt, missed>>

\* ... and one that newfstatat fails for is not printed either.
Unknown ==
    /\ next # <<>> /\ Failing
    /\ missed' = missed \cup {next[1]}
    /\ next' = <<>>
    /\ UNCHANGED <<tree, opt, stack, printed>>

\* The next entry of the innermost directory, in the order getdents64 has.
Enter ==
    /\ next = <<>> /\ stack # <<>> /\ Last(stack).todo # {}
    /\ \E p \in Last(stack).todo :
         /\ stack' = [stack EXCEPT ![Len(stack)].todo = @ \ {p}]
         /\ next' = IF StrLen(p) + 1 <= MaxPath THEN <<p>> ELSE <<>>
    /\ UNCHANGED <<tree, opt, missed, printed>>

Leave ==
    /\ next = <<>> /\ stack # <<>> /\ Last(stack).todo = {}
    /\ stack' = Front(stack)
    /\ UNCHANGED <<tree, opt, missed, next, printed>>

\* getdents64 fails: a directory of the overlay does so whose entries do not
\* fit the buffer.  The rest of it is left out, without a word.
Unlisted ==
    /\ next = <<>> /\ stack # <<>> /\ Last(stack).todo # {} /\ Failing
    /\ missed' = missed \cup Last(stack).todo
    /\ stack' = Front(stack)
    /\ UNCHANGED <<tree, opt, next, printed>>

Next == walk \/ Unknown \/ Enter \/ Leave \/ Unlisted
Spec == Init /\ [][Next]_vars

-----------------------------------------------------------------------------
(* Properties.                                                             *)

\* What a pattern means: a star stands for any characters, "?" for one.
Means(pat, s) ==
    LET m[i \in 0 .. Len(pat), j \in 0 .. Len(s)] ==
          IF i = 0 THEN j = 0
          ELSE IF pat[i] = "*" THEN \E k \in 0 .. j : m[i - 1, k]
          ELSE j > 0 /\ pat[i] \in {"?", s[j]} /\ m[i - 1, j - 1]
    IN  m[Len(pat), Len(s)]

Wanted == {p \in DOMAIN tree :
             /\ Len(p) \in opt.depth.min .. opt.depth.max
             /\ opt.type \in {"any", tree[p]}
             /\ opt.pat = <<>> \/ Means(opt.pat[1], Name(p))}

\* Every path that passes the filters is printed once, a directory before
\* what is in it, in any order of the entries - as long as descriptors and
\* the path buffer suffice, and but for what newfstatat and getdents64 fail for
\* and what is below that: all this is left out without a word.  Nothing
\* else is printed.
FindRight ==
    /\ IsInjective(printed) /\ Range(printed) \subseteq Wanted
    /\ \A i, j \in DOMAIN printed : IsStrictPrefix(printed[i], printed[j]) => i < j
    /\ (next = <<>> /\ stack = <<>>) =>
         \A p \in Wanted : (Len(p) <= MaxFds /\ StrLen(p) + 1 <= MaxPath) =>
           (p \in Range(printed) <=> ~\E m \in missed : IsPrefix(m, p))
=============================================================================
