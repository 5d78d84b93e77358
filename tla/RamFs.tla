------------------------------- MODULE RamFs -------------------------------
(***************************************************************************)
(* The RAM file system over the initramfs: the tables of vfs.c, and the    *)
(* system calls of sys_fs.c that name, open, read and write its files.     *)
(* Every action is one system call, run to its end.                        *)
(*                                                                         *)
(* Paths are sequences of components, absolute and normalised; the root is *)
(* the empty sequence.  A file holds cells: a byte, or in a symbolic link  *)
(* a target, which takes a single cell.  Descriptions (g_descs) stand for  *)
(* all descriptors that share them; FdTable has the sharing.               *)
(***************************************************************************)
EXTENDS Integers, FiniteSets, SequencesExt

CONSTANTS
    Paths,              \* the paths calls may use, the root aside
    Initramfs,          \* from paths to "dir" or "reg"
    MAX_RAMDIRS, MAX_RAMFILES, MAX_RAMINODES, RAMFILE_CAP,
    MAX_SYMLINK_HOPS,
    NDescs,             \* MAX_FILEDESCS
    Zero,               \* a cell that has never been written
    Bytes,              \* what write may write
    Targets,            \* of symbolic links: [abs : BOOLEAN, path : Seq]
    Lens,               \* lengths of reads and writes
    FlagSets            \* subsets of {"CREAT", "EXCL", "TRUNC"}

ASSUME RamFsAssumption ==
    /\ Paths \subseteq Seq(STRING) \ {<<>>}
    /\ Initramfs \in [DOMAIN Initramfs -> {"dir", "reg"}]
    /\ DOMAIN Initramfs \subseteq Paths
    /\ MAX_RAMDIRS \in Nat /\ MAX_RAMFILES \in Nat \ {0}
    /\ MAX_RAMINODES \in Nat \ {0} /\ RAMFILE_CAP \in Nat \ {0}
    /\ MAX_SYMLINK_HOPS \in Nat \ {0}
    /\ NDescs \in Nat \ {0}
    /\ Zero \notin Bytes \cup Targets /\ Bytes \cap Targets = {}
    /\ Lens \subseteq Nat

VARIABLES
    dirs,       \* g_ramdirs, the set of their paths
    files,      \* g_ramfiles: path (the root: unused) and inode_id
    inodes,     \* g_raminodes: used, kind, size, nlink, data
    descs       \* g_descs: kind, file_id and off

vars == <<dirs, files, inodes, descs>>

Root   == <<>>
Files  == 0 .. MAX_RAMFILES - 1
Inodes == 0 .. MAX_RAMINODES - 1
Descs  == 0 .. NDescs - 1
Cells  == 0 .. RAMFILE_CAP - 1

NoFile == [path |-> Root, inode_id |-> 0]
NoDesc == [kind |-> "unused", file_id |-> 0, off |-> 0]
Zeroed == [c \in Cells |-> Zero]
NoInode == [used |-> FALSE, kind |-> "reg", size |-> 0, nlink |-> 0, data |-> Zeroed]

Init ==
    /\ dirs = {}
    /\ files = [s \in Files |-> NoFile]
    /\ inodes = [i \in Inodes |-> NoInode]
    /\ descs = [d \in Descs |-> NoDesc]

AtMost(a, b)  == IF a <= b THEN a ELSE b
AtLeast(a, b) == IF a >= b THEN a ELSE b

-----------------------------------------------------------------------------
(* Looking up.                                                             *)

\* The slot a scan from slot 0 stops at.
FirstSlot(S, s) == s \in S /\ \A t \in S : s <= t

FreeFiles  == {s \in Files : files[s].path = Root}
FreeInodes == {i \in Inodes : ~inodes[i].used}
FreeDescs  == {d \in Descs : descs[d].kind = "unused"}

\* ramfile_find.
FilesAt(p) == {s \in Files : p # Root /\ files[s].path = p}

\* vfs_ramfile_get finds an inode.
Valid(s) == files[s].path # Root /\ inodes[files[s].inode_id].used

InodeOf(s) == inodes[files[s].inode_id]

\* vfs_lookup_abs: what is at p, "none" if nothing.
Lookup(p) ==
    CASE p = Root \/ p \in dirs -> "dir"
      [] p \notin dirs /\ FilesAt(p) # {} ->
            LET s == CHOOSE t \in FilesAt(p) : FirstSlot(FilesAt(p), t)
            IN  IF Valid(s) THEN InodeOf(s).kind ELSE "none"
      [] p \notin dirs \cup {Root} /\ FilesAt(p) = {} /\ p \in DOMAIN Initramfs ->
            Initramfs[p]
      [] OTHER -> "none"

ParentIsDir(p) == p # Root /\ Lookup(Front(p)) = "dir"

Nowhere == <<"?">>      \* no path; where a link with damaged text leads

\* follow_symlink_data: a relative target starts at the link's directory.
Follow(p) ==
    LET s == CHOOSE t \in FilesAt(p) : FirstSlot(FilesAt(p), t)
        text == InodeOf(s).data[0]
    IN  CASE InodeOf(s).size # 1 \/ text \notin Targets -> Nowhere
          [] InodeOf(s).size = 1 /\ text \in Targets ->
                IF text.abs THEN text.path ELSE Front(p) \o text.path

Hop(p, n) == IF Lookup(p) = "lnk" THEN Follow(p) ELSE p

\* resolve_final_symlink: where p leads after the hops allowed.  The last hop
\* is taken but not looked at, so it does not count.
Resolved(p) == FoldLeft(Hop, p, [n \in 1 .. MAX_SYMLINK_HOPS - 1 |-> n])

\* Mutation: running out of hops is success.
Resolves_NoLimit(p) == Resolved(p) # Nowhere

Resolves(p) == Resolved(p) # Nowhere /\ Lookup(Resolved(p)) # "lnk"

-----------------------------------------------------------------------------
(* Names.                                                                  *)

\* vfs_ramfile_create and what it is created with.
Create(p, kind, size, data) ==
    \E s \in Files, i \in Inodes :
        /\ FirstSlot(FreeFiles, s) /\ FirstSlot(FreeInodes, i)
        /\ files' = [files EXCEPT ![s] = [path |-> p, inode_id |-> i]]
        /\ inodes' = [inodes EXCEPT ![i] =
              [used |-> TRUE, kind |-> kind, size |-> size, nlink |-> 1, data |-> data]]

\* A new name may be made at p.
MayName(p) == p \in Paths /\ Lookup(p) = "none" /\ ParentIsDir(p)

sys_mkdirat(p) ==
    /\ MayName(p)
    /\ Cardinality(dirs) < MAX_RAMDIRS
    /\ dirs' = dirs \cup {p}
    /\ UNCHANGED <<files, inodes, descs>>

sys_symlinkat(target, p) ==
    /\ MayName(p)
    /\ Create(p, "lnk", 1, [Zeroed EXCEPT ![0] = target])
    /\ UNCHANGED <<dirs, descs>>

sys_linkat(old, new) ==
    /\ Lookup(old) # "dir" /\ FilesAt(old) # {}
    /\ MayName(new)
    /\ \E t \in FilesAt(old), s \in Files :
          /\ FirstSlot(FilesAt(old), t) /\ Valid(t)
          /\ FirstSlot(FreeFiles, s)
          /\ files' = [files EXCEPT ![s] = [path |-> new, inode_id |-> files[t].inode_id]]
          /\ inodes' = [inodes EXCEPT ![files[t].inode_id].nlink = @ + 1]
    /\ UNCHANGED <<dirs, descs>>

\* Mutation: the inode outlives its last name.
Dropped_Kept(inode) ==
    IF inode.nlink = 0 THEN NoInode ELSE [inode EXCEPT !.nlink = @ - 1]

\* Mutation: the inode goes with its first name.
Dropped_Always(inode) == NoInode

\* raminode_decref.
Dropped(inode) ==
    IF inode.nlink <= 1 THEN NoInode ELSE [inode EXCEPT !.nlink = @ - 1]

\* Mutation: the table is kept dense by moving its last entry down.
sys_unlinkat_Compact(p) ==
    /\ \E s \in FilesAt(p), last \in Files \ FreeFiles :
          /\ \A t \in Files \ FreeFiles : t <= last
          /\ files' = [files EXCEPT ![s] = files[last], ![last] = NoFile]
          /\ inodes' = [inodes EXCEPT ![files[s].inode_id] = Dropped(@)]
    /\ UNCHANGED <<dirs, descs>>

sys_unlinkat(p) ==
    /\ \E s \in FilesAt(p) :
          /\ FirstSlot(FilesAt(p), s)
          /\ files' = [files EXCEPT ![s] = NoFile]
          /\ inodes' = [inodes EXCEPT ![files[s].inode_id] = Dropped(@)]
    /\ UNCHANGED <<dirs, descs>>

\* Mutation: files in the directory do not count.
Below_DirsOnly(d) == {p \in dirs : IsStrictPrefix(d, p)}

\* path_has_prefix_dir.
Below(d) == {p \in dirs \cup {files[s].path : s \in Files} : IsStrictPrefix(d, p)}

sys_rmdir(p) ==
    /\ p \in dirs
    /\ Below(p) = {}
    /\ dirs' = dirs \ {p}
    /\ UNCHANGED <<files, inodes, descs>>

-----------------------------------------------------------------------------
(* Open files.                                                             *)

\* A description is taken, unless they or the caller's descriptors are used
\* up (EMFILE).
Describe(kind, s) ==
    \/ UNCHANGED descs
    \/ \E d \in Descs :
          /\ FirstSlot(FreeDescs, d)
          /\ descs' = [descs EXCEPT ![d] =
                [kind |-> kind, file_id |-> s, off |-> 0]]

OpenExisting(p, flags) ==
    /\ ~({"CREAT", "EXCL"} \subseteq flags)
    /\ \E s \in FilesAt(p) :
          /\ FirstSlot(FilesAt(p), s)
          /\ inodes' = IF "TRUNC" \in flags /\ Valid(s)
                       THEN [inodes EXCEPT ![files[s].inode_id].size = 0] ELSE inodes
          /\ Describe("ramfile", s)
    /\ UNCHANGED <<dirs, files>>

OpenNew(p, flags) ==
    /\ FilesAt(p) = {} /\ "CREAT" \in flags
    /\ MayName(p)
    /\ Create(p, "reg", 0, Zeroed)
    /\ \E s \in Files : FirstSlot(FreeFiles, s) /\ Describe("ramfile", s)
    /\ UNCHANGED dirs

\* A directory, or a file of the initramfs.
OpenReadOnly(p, flags) ==
    /\ FilesAt(p) = {} /\ Lookup(p) # "none"
    /\ ~({"CREAT", "EXCL"} \subseteq flags)
    /\ Describe("readonly", 0)
    /\ UNCHANGED <<dirs, files, inodes>>

sys_openat(p, flags) ==
    LET q == Resolved(p)
    IN  /\ Resolves(p)
        /\ OpenExisting(q, flags) \/ OpenNew(q, flags) \/ OpenReadOnly(q, flags)

\* The last descriptor of a description is closed.
sys_close(d) ==
    /\ descs[d].kind # "unused"
    /\ descs' = [descs EXCEPT ![d] = NoDesc]
    /\ UNCHANGED <<dirs, files, inodes>>

OnRamfile(d) == descs[d].kind = "ramfile" /\ Valid(descs[d].file_id)

sys_read(d, len) ==
    /\ OnRamfile(d)
    /\ LET size == InodeOf(descs[d].file_id).size
       IN  /\ descs[d].off < size
           /\ descs' = [descs EXCEPT ![d].off = @ + AtMost(len, size - @)]
    /\ UNCHANGED <<dirs, files, inodes>>

\* Room from an offset to the end of a file's space.
Room(off) == RAMFILE_CAP - off

sys_write(d, len, b) ==
    /\ OnRamfile(d)
    /\ descs[d].off < RAMFILE_CAP
    /\ len > 0
    /\ LET off == descs[d].off
           n == AtMost(len, Room(off))
           i == files[descs[d].file_id].inode_id
       IN  /\ inodes' = [inodes EXCEPT
                 ![i].data = [c \in Cells |-> IF off <= c /\ c < off + n THEN b ELSE @[c]],
                 ![i].size = AtLeast(@, off + n)]
           /\ descs' = [descs EXCEPT ![d].off = off + n]
    /\ UNCHANGED <<dirs, files>>

\* The three origins differ in what they add to; none leads beyond the end.
sys_lseek(d, off) ==
    /\ OnRamfile(d)
    /\ off <= InodeOf(descs[d].file_id).size
    /\ descs' = [descs EXCEPT ![d].off = off]
    /\ UNCHANGED <<dirs, files, inodes>>

Next ==
    \/ \E p \in Paths : \/ sys_mkdirat(p) \/ sys_unlinkat(p) \/ sys_rmdir(p)
                        \/ \E t \in Targets : sys_symlinkat(t, p)
                        \/ \E q \in Paths : sys_linkat(p, q)
    \/ \E p \in Paths \cup {Root}, flags \in FlagSets : sys_openat(p, flags)
    \/ \E d \in Descs : \/ sys_close(d)
                        \/ \E len \in Lens : sys_read(d, len)
                        \/ \E len \in Lens, b \in Bytes : sys_write(d, len, b)
                        \/ \E off \in 0 .. RAMFILE_CAP : sys_lseek(d, off)

Spec == Init /\ [][Next]_vars
-----------------------------------------------------------------------------
(* Properties.                                                             *)

\* Every table keeps its type; in particular no size or offset passes the space
\* of a file (the subtraction in sys_write).
TypeOK ==
    /\ dirs \subseteq Paths
    /\ files \in [Files -> [path : Paths \cup {Root}, inode_id : Inodes]]
    /\ inodes \in [Inodes -> [used : BOOLEAN, kind : {"reg", "lnk"},
                              size : 0 .. RAMFILE_CAP, nlink : Nat,
                              data : [Cells -> Bytes \cup Targets \cup {Zero}]]]
    /\ descs \in [Descs -> [kind : {"unused", "ramfile", "readonly"},
                            file_id : Files, off : 0 .. RAMFILE_CAP]]

NamesOf(i) == {s \in Files : files[s].path # Root /\ files[s].inode_id = i}

\* The link count of an inode is the number of its names, and an inode is in
\* use exactly as long as it has one, over links, unlinks and reuse of both
\* kinds of slots.
LinkCountsExact ==
    \A i \in Inodes : /\ inodes[i].nlink = Cardinality(NamesOf(i))
                      /\ inodes[i].used <=> NamesOf(i) # {}

OverlayPaths == dirs \cup {files[s].path : s \in Files \ FreeFiles}

\* The overlay and the initramfs form one tree: everything lies in a directory
\* that exists, and no path means two things.
TreeSound ==
    /\ \A p \in OverlayPaths : ParentIsDir(p) /\ p \notin DOMAIN Initramfs
    /\ \A s \in Files \ FreeFiles :
          /\ files[s].path \notin dirs
          /\ \A t \in Files : files[s].path = files[t].path => s = t

\* The overlay stays consistent: names, link counts and tree.
OverlaySound == LinkCountsExact /\ TreeSound

\* A descriptor keeps denoting the file and the name it was opened with until
\* that name is removed, whatever else is created, linked and removed.
OpenFileStays ==
    [][\A d \in Descs :
          LET s == descs[d].file_id
          IN  OnRamfile(d) => files'[s] = files[s] \/ files'[s].path = Root]_vars

\* open never hands out a symbolic link itself: a chain of links is followed
\* to its end or, when it is too long or a circle, refused.
OpensNoLink ==
    [][\A d \in Descs :
          descs[d].kind = "unused" /\ descs'[d].kind = "ramfile" =>
              inodes'[files'[descs'[d].file_id].inode_id].kind = "reg"]_vars

\* The files that names stand for, by inode, and what the files hold.
NameMap ==
    [p \in {files[s].path : s \in Files \ FreeFiles} |->
        files[CHOOSE s \in Files : files[s].path = p].inode_id]
ContentMap ==
    [i \in Inodes \ FreeInodes |-> [size |-> inodes[i].size, cells |-> inodes[i].data]]

\* The tables implement the abstract file system: names that map to files, and
\* files that live as long as they have a name and share no contents.
Abstract == INSTANCE Files WITH
    Names    <- Paths,
    ReadOnly <- DOMAIN Initramfs,
    Cap      <- RAMFILE_CAP,
    dirs     <- dirs,
    names    <- NameMap,
    content  <- ContentMap
ImplementsFiles == Abstract!Spec
=============================================================================
