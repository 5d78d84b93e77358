------------------------------- MODULE Files -------------------------------
(***************************************************************************)
(* What the writable file system promises: a tree of directories, names    *)
(* that stand for files, and files that live as long as they have a name.  *)
(***************************************************************************)
EXTENDS Integers, Sequences

CONSTANTS
    Names,      \* paths other than the root, as sequences of components
    ReadOnly,   \* paths taken by the read-only tree below
    Cap,        \* cells in a file
    Zero        \* an unwritten cell

VARIABLES
    dirs,       \* paths that are writable directories
    names,      \* from the paths that name a file to that file
    content     \* from the files there are to their size and cells

vars == <<dirs, names, content>>

Taken == dirs \cup DOMAIN names \cup ReadOnly

Inside(p, d) == Len(p) > Len(d) /\ SubSeq(p, 1, Len(d)) = d

Without(f, x) == [y \in DOMAIN f \ {x} |-> f[y]]

Init == dirs = {} /\ names = <<>> /\ content = <<>>

Mkdir == \E p \in Names \ Taken : dirs' = dirs \cup {p} /\ UNCHANGED <<names, content>>

\* Only an empty directory is removed.
Rmdir ==
    \E d \in dirs :
        /\ \A p \in dirs \cup DOMAIN names : ~Inside(p, d)
        /\ dirs' = dirs \ {d}
        /\ UNCHANGED <<names, content>>

\* A new file, with one name; a symbolic link is born with its text.
Create ==
    \E p \in Names \ Taken :
        /\ DOMAIN names' = DOMAIN names \cup {p}
        /\ names'[p] \notin DOMAIN content
        /\ \A q \in DOMAIN names : names'[q] = names[q]
        /\ DOMAIN content' = DOMAIN content \cup {names'[p]}
        /\ \A f \in DOMAIN content : content'[f] = content[f]
        /\ content'[names'[p]].size <= 1
        /\ \A c \in 0 .. Cap - 1 :
              c >= content'[names'[p]].size => content'[names'[p]].cells[c] = Zero
        /\ UNCHANGED dirs

\* Another name for a file.
Link ==
    \E p \in Names \ Taken, q \in DOMAIN names :
        /\ names' = [x \in DOMAIN names \cup {p} |-> IF x = p THEN names[q] ELSE names[x]]
        /\ UNCHANGED <<dirs, content>>

\* A name goes; the file goes with its last name.
Unlink ==
    \E p \in DOMAIN names :
        /\ names' = Without(names, p)
        /\ content' = IF \E q \in DOMAIN names \ {p} : names[q] = names[p]
                      THEN content ELSE Without(content, names[p])
        /\ UNCHANGED dirs

\* Only file f changes.
OnlyFile(f) ==
    /\ DOMAIN content' = DOMAIN content
    /\ \A g \in DOMAIN content \ {f} : content'[g] = content[g]
    /\ UNCHANGED <<dirs, names>>

\* n cells from position at on are written.  A gap that opens below them shows
\* what this file held there before, or nothing, but never another file.
Write ==
    \E f \in DOMAIN content, at \in 0 .. Cap - 1, n \in 1 .. Cap :
        /\ at + n <= Cap
        /\ OnlyFile(f)
        /\ content'[f].size = IF at + n > content[f].size THEN at + n ELSE content[f].size
        /\ \A c \in 0 .. Cap - 1 :
              c < at \/ c >= at + n => content'[f].cells[c] = content[f].cells[c]

Truncate ==
    \E f \in DOMAIN content :
        OnlyFile(f) /\ content'[f] = [content[f] EXCEPT !.size = 0]

Next == Mkdir \/ Rmdir \/ Create \/ Link \/ Unlink \/ Write \/ Truncate

Spec == Init /\ [][Next]_vars
=============================================================================
