-------------------------------- MODULE Paths --------------------------------
(***************************************************************************)
(* How a path that a program passes becomes the one that the tables of the *)
(* file system are asked for (sys_util.c), and the working directory that  *)
(* relative ones start from (sys_fs.c).                                    *)
(*                                                                         *)
(* A string is the sequence of what stands between its slashes: "/a/b" is  *)
(* <<"", "a", "b">>, "a" is <<"a">>, "/" is <<"", "">>.  A path the kernel *)
(* has made absolute is the sequence of its names.                         *)
(***************************************************************************)
EXTENDS Integers, Sequences, SequencesExt, FiniteSets, Functions

CONSTANTS
    MAX_PATH,         \* bytes of a path, its NUL included
    MAX_DEPTH,        \* names normalize_abs_path keeps track of
    MAX_SYMLINK_HOPS,
    NameLen,          \* the length of each name; "." and ".." have theirs
    Links,            \* symbolic links: path |-> the string it holds
    Regular,          \* paths of regular files
    Places,           \* paths of directories that come and go
    Inputs            \* strings that programs pass

PathsAssumption ==
    /\ MAX_PATH \in Nat /\ MAX_PATH >= 2 /\ MAX_DEPTH \in Nat
    /\ DOMAIN Links \cap (Places \cup Regular) = {} /\ Regular \cap Places = {}

VARIABLES
    dirs,  \* directories besides the root
    cwd,   \* proc_t.cwd
    rc     \* what the last call returned

vars == <<dirs, cwd, rc>>

IsName(s) == s \notin {"", ".", ".."}
SegLen(s) == IF s = "" THEN 0 ELSE IF s = "." THEN 1 ELSE IF s = ".." THEN 2 ELSE NameLen[s]
SumLen(s) == FoldFunction(LAMBDA x, sum : SegLen(x) + sum, 0, s)

\* Bytes of a string, and of an absolute path in the kernel.
StrLen(s) == SumLen(s) + Len(s) - 1
PathLen(p) == IF p = <<>> THEN 1 ELSE SumLen(p) + Len(p)
Str(p) == IF p = <<>> THEN <<"", "">> ELSE <<"">> \o p
IsAbsolute(s) == Len(s) > 1 /\ s[1] = ""

Init ==
    /\ dirs \in {d \in SUBSET Places : \A p \in d : Len(p) > 1 => Front(p) \in d}
    /\ cwd = <<>>
    /\ rc = "none"

-----------------------------------------------------------------------------
(* sys_util.c.                                                             *)

Failed == <<"failed">>

\* Mutation: ".." is dropped, but not the name before it.
Popped_Kept(out) == out

\* What ".." leaves of the names so far; the root is its own parent.
Popped(out) == IF out = <<>> THEN out ELSE Front(out)

\* normalize_abs_path, into a buffer of MAX_PATH bytes: empty names and "."
\* are dropped, ".." takes back a name.
normalize_abs_path(s) ==
    FoldLeft(LAMBDA out, seg :
               IF out = Failed \/ seg \in {"", "."} THEN out
               ELSE IF seg = ".." THEN Popped(out)
               ELSE IF \/ Len(out) >= MAX_DEPTH
                       \/ SumLen(out) + Len(out) + 1 + SegLen(seg) >= MAX_PATH
                    THEN Failed
               ELSE Append(out, seg), <<>>, s)

\* Mutation: a relative path starts at the root.
Joined_AtRoot(from, s) == s

\* The string that resolve_path normalises.
Joined(from, s) == IF IsAbsolute(s) THEN s ELSE Str(from) \o s

resolve_path(from, s) ==
    IF StrLen(Joined(from, s)) + 1 > MAX_PATH THEN Failed
    ELSE normalize_abs_path(Joined(from, s))

abs_path_parent_dir(p) == IF p = <<>> THEN p ELSE Front(p)

-----------------------------------------------------------------------------
(* sys_fs.c.                                                               *)

Exists(p) == p = <<>> \/ p \in dirs \cup Regular \cup DOMAIN Links
IsDir(p) == p = <<>> \/ p \in dirs

\* Mutation: a link's own name is taken for its directory.
follow_symlink_data_Below(link) ==
    IF IsAbsolute(Links[link]) THEN normalize_abs_path(Links[link])
    ELSE normalize_abs_path(Str(link) \o Links[link])

\* What a link stands for: its target, from the link's own directory.
follow_symlink_data(link) ==
    LET target == Links[link]
        dir == Str(abs_path_parent_dir(link))
    IN  IF IsAbsolute(target) THEN normalize_abs_path(target)
        ELSE IF StrLen(dir \o target) + 1 > MAX_PATH THEN Failed
        ELSE normalize_abs_path(dir \o target)

\* The path p after at most n links; a path that does not exist is left, and
\* after MAX_SYMLINK_HOPS links the call fails wherever it has come to.
Followed[n \in Nat, p \in Seq(STRING)] ==
    IF p = Failed \/ p \notin DOMAIN Links THEN p
    ELSE IF n = 1 THEN Failed
    ELSE Followed[n - 1, follow_symlink_data(p)]

resolve_final_symlink(p) == Followed[MAX_SYMLINK_HOPS, p]

\* The path that chdir makes the working directory, if it is a directory.
Target(from, s) ==
    IF resolve_path(from, s) = Failed THEN Failed
    ELSE resolve_final_symlink(resolve_path(from, s))

sys_chdir(s) ==
    LET p == Target(cwd, s) IN
    /\ rc' = IF StrLen(s) + 1 > MAX_PATH THEN "EFAULT"
             ELSE IF p = Failed THEN "EINVAL"
             ELSE IF ~Exists(p) THEN "ENOENT"
             ELSE IF ~IsDir(p) THEN "ENOTDIR" ELSE "ok"
    /\ cwd' = IF rc' = "ok" THEN p ELSE cwd
    /\ UNCHANGED dirs

\* getcwd into a buffer of size bytes.
sys_getcwd(size) ==
    /\ rc' = IF size = 0 THEN "EINVAL"
             ELSE IF PathLen(cwd) + 1 > size THEN "ERANGE" ELSE "ok"
    /\ UNCHANGED <<dirs, cwd>>

\* Directories come and go, whoever works in them.
Change(p) ==
    /\ Front(p) = <<>> \/ Front(p) \in dirs
    /\ \A q \in dirs \cup DOMAIN Links \cup Regular : Len(q) > 1 => Front(q) # p
    /\ dirs' = IF p \in dirs THEN dirs \ {p} ELSE dirs \cup {p}
    /\ UNCHANGED <<cwd, rc>>

Next ==
    \/ \E s \in Inputs : sys_chdir(s)
    \/ \E size \in 0 .. MAX_PATH : sys_getcwd(size)
    \/ \E p \in Places : Change(p)

Spec == Init /\ [][Next]_vars

-----------------------------------------------------------------------------
(* Properties.                                                             *)

\* The name at i of a string is part of what the string stands for unless
\* some ".." takes it back: one that comes before as many names.
Count(s, i, j, P(_)) == Cardinality({x \in i .. j : P(s[x])})
Stays(s, i) ==
    /\ IsName(s[i])
    /\ \A j \in i + 1 .. Len(s) :
         Count(s, i + 1, j, LAMBDA x : x = "..") <= Count(s, i + 1, j, IsName)
Meaning(s) ==
    LET kept == SelectSeq([i \in 1 .. Len(s) |-> i], LAMBDA i : Stays(s, i))
    IN  [n \in 1 .. Len(kept) |-> s[kept[n]]]

\* Whatever the working directory, a path that can be resolved leads where
\* its names and its ".." lead from there, and a symbolic link where its
\* target leads from the directory the link is in.
ResolvedRight ==
    /\ \A s \in Inputs :
         resolve_path(cwd, s) # Failed =>
           resolve_path(cwd, s) = Meaning(IF IsAbsolute(s) THEN s ELSE cwd \o s)
    /\ \A l \in DOMAIN Links :
         follow_symlink_data(l) # Failed =>
           follow_symlink_data(l) =
             Meaning(IF IsAbsolute(Links[l]) THEN Links[l] ELSE Front(l) \o Links[l])

\* The working directory is never a link or a file, whatever chain of links
\* led to it, and the name getcwd delivers leads back to it (though it may
\* have been removed since).
CwdSound ==
    /\ cwd \notin DOMAIN Links \cup Regular
    /\ resolve_path(<<>>, Str(cwd)) = cwd

PathsSound == ResolvedRight /\ CwdSound
=============================================================================
