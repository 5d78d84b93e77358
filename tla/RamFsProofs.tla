----------------------------- MODULE RamFsProofs -----------------------------
(***************************************************************************)
(* The RAM file system for every set of paths, every initramfs and every   *)
(* size of the tables: link counts and the tree stay exact, an open file   *)
(* stays what it was, and open never hands out a symbolic link.            *)
(***************************************************************************)
EXTENDS RamFs, FiniteSetTheorems, SequenceTheorems, TLAPS

Cell     == Bytes \cup Targets \cup {Zero}
FileRec  == [path : Paths \cup {Root}, inode_id : Inodes]
InodeRec == [used : BOOLEAN, kind : {"reg", "lnk"}, size : 0 .. RAMFILE_CAP,
             nlink : Nat, data : [Cells -> Cell]]
DescRec  == [kind : {"unused", "ramfile", "readonly"}, file_id : Files,
             off : 0 .. RAMFILE_CAP]

\* The directories there are.
AllDirs == {Root} \cup dirs \cup {p \in DOMAIN Initramfs : Initramfs[p] = "dir"}

\* TreeSound, with a directory being what it is, not what a lookup finds.
Tree ==
    /\ \A p \in dirs : Front(p) \in AllDirs /\ p \notin DOMAIN Initramfs
    /\ \A s \in Files : files[s].path # Root =>
          /\ Front(files[s].path) \in AllDirs
          /\ files[s].path \notin DOMAIN Initramfs
          /\ files[s].path \notin dirs
          /\ \A t \in Files : files[s].path = files[t].path => s = t

FsInv == TypeOK /\ LinkCountsExact /\ Tree

-----------------------------------------------------------------------------
(* The tables.                                                             *)

LEMMA Sizes ==
    /\ 0 \in Files /\ 0 \in Inodes /\ 0 \in Descs /\ 0 \in Cells
    /\ Files \subseteq Nat /\ Inodes \subseteq Nat /\ Cells \subseteq Nat
    /\ 1 \in 0 .. RAMFILE_CAP /\ 0 \in 0 .. RAMFILE_CAP
    /\ Root \notin Paths /\ <<>> \notin Paths
    /\ RAMFILE_CAP \in Nat
BY RamFsAssumption DEF Files, Inodes, Descs, Cells, Root

LEMMA Records ==
    /\ NoFile \in FileRec /\ NoFile.path = Root
    /\ NoInode \in InodeRec /\ ~NoInode.used /\ NoInode.nlink = 0
    /\ NoDesc \in DescRec /\ NoDesc.kind = "unused" /\ Zeroed \in [Cells -> Cell]
<1>1. Zeroed \in [Cells -> Cell]
  BY DEF Zeroed, Cell
<1>2. NoFile \in FileRec /\ NoFile.path = Root
  BY Sizes DEF NoFile, FileRec
<1>3. NoInode \in InodeRec /\ ~NoInode.used /\ NoInode.nlink = 0
  <2> HIDE DEF Zeroed
  <2> QED
    BY <1>1, Sizes DEF NoInode, InodeRec
<1>4. NoDesc \in DescRec /\ NoDesc.kind = "unused"
  BY Sizes DEF NoDesc, DescRec
<1> QED
  BY <1>1, <1>2, <1>3, <1>4

LEMMA NamesFinite ==
    ASSUME NEW i
    PROVE  IsFiniteSet(NamesOf(i)) /\ Cardinality(NamesOf(i)) \in Nat
<1>1. IsFiniteSet(Files)
  <2>1. MAX_RAMFILES - 1 \in Int
    BY RamFsAssumption
  <2> QED
    BY <2>1, FS_Interval DEF Files
<1>2. NamesOf(i) \in SUBSET Files
  BY DEF NamesOf
<1> QED
  BY <1>1, <1>2, FS_Subset, FS_CardinalityType

\* A slot that is in use is found, and by its path alone.
LEMMA SlotInUse ==
    ASSUME FsInv, NEW s \in Files, files[s].path # Root
    PROVE  /\ Valid(s) /\ FilesAt(files[s].path) = {s}
           /\ Lookup(files[s].path) = InodeOf(s).kind
           /\ files[s].inode_id \in Inodes /\ InodeOf(s).kind \in {"reg", "lnk"}
           /\ InodeOf(s).used
<1> DEFINE p == files[s].path
<1>1. files[s] \in FileRec /\ files[s].inode_id \in Inodes
  BY DEF FsInv, TypeOK, FileRec
<1>2. s \in NamesOf(files[s].inode_id)
  BY DEF NamesOf
<1>3. InodeOf(s).used /\ Valid(s)
  BY <1>1, <1>2 DEF FsInv, LinkCountsExact, Valid, InodeOf
<1>4. FilesAt(p) = {s}
  BY DEF FilesAt, FsInv, Tree
<1>5. (CHOOSE t \in FilesAt(p) : FirstSlot(FilesAt(p), t)) = s
  <2>1. FirstSlot(FilesAt(p), s)
    <3>1. s \in Nat
      BY Sizes
    <3> QED
      BY <1>4, <3>1 DEF FirstSlot
  <2> QED
    BY <1>4, <2>1
<1>6. p # Root /\ p \notin dirs
  BY DEF FsInv, Tree
<1> HIDE DEF p
<1>7. Lookup(p) = InodeOf(s).kind
  BY <1>3, <1>4, <1>5, <1>6 DEF Lookup
<1>8. InodeOf(s).kind \in {"reg", "lnk"}
  BY <1>1 DEF FsInv, TypeOK, InodeOf
<1> QED
  BY <1>1, <1>3, <1>4, <1>7, <1>8 DEF p

\* What a lookup takes for a directory.
LEMMA DirsAreDirs ==
    ASSUME FsInv, NEW p
    PROVE  Lookup(p) = "dir" <=> p \in AllDirs
<1>1. CASE p = Root \/ p \in dirs
  <2>1. Lookup(p) = "dir"
    <3>1. p = Root => FilesAt(p) = {}
      BY DEF FilesAt
    <3> QED
      BY <1>1, <3>1 DEF Lookup
  <2> QED
    BY <1>1, <2>1 DEF AllDirs
<1>2. CASE ~(p = Root \/ p \in dirs) /\ FilesAt(p) # {}
  <2>1. PICK s \in Files : p # Root /\ files[s].path = p
    BY <1>2 DEF FilesAt
  <2>2. Lookup(p) \in {"reg", "lnk"}
    BY <2>1, SlotInUse
  <2>3. p \notin DOMAIN Initramfs
    BY <2>1 DEF FsInv, Tree
  <2> QED
    BY <1>2, <2>2, <2>3 DEF AllDirs
<1>3. CASE ~(p = Root \/ p \in dirs) /\ FilesAt(p) = {}
  <2>1. CASE p \in DOMAIN Initramfs
    <3>1. Lookup(p) = Initramfs[p]
      BY <1>3, <2>1 DEF Lookup
    <3> QED
      BY <1>3, <2>1, <3>1 DEF AllDirs
  <2>2. CASE p \notin DOMAIN Initramfs
    <3>1. Lookup(p) = "none"
      BY <1>3, <2>2 DEF Lookup
    <3> QED
      BY <1>3, <2>2, <3>1 DEF AllDirs
  <2> QED
    BY <2>1, <2>2
<1> QED
  BY <1>1, <1>2, <1>3

\* A name is made where there was nothing, in a directory.
LEMMA NewName ==
    ASSUME FsInv, NEW p, MayName(p)
    PROVE  /\ p \in Paths /\ p # Root /\ p \notin AllDirs /\ p \notin dirs
           /\ p \notin DOMAIN Initramfs /\ Front(p) \in AllDirs
           /\ \A s \in Files : files[s].path # p
<1>1. p \in Paths /\ p # Root /\ Lookup(p) = "none" /\ Front(p) \in AllDirs
  BY Sizes, DirsAreDirs DEF MayName, ParentIsDir
<1>2. p \notin AllDirs
  BY <1>1, DirsAreDirs
<1>3. \A s \in Files : files[s].path # p
  <2> SUFFICES ASSUME NEW s \in Files, files[s].path = p PROVE FALSE
    OBVIOUS
  <2> QED
    BY <1>1, SlotInUse
<1>4. p \notin DOMAIN Initramfs
  <2> SUFFICES ASSUME p \in DOMAIN Initramfs PROVE FALSE
    OBVIOUS
  <2>1. FilesAt(p) = {}
    BY <1>3 DEF FilesAt
  <2>2. Lookup(p) = Initramfs[p]
    BY <1>1, <1>2, <2>1 DEF Lookup, AllDirs
  <2>3. Initramfs[p] \in {"dir", "reg"}
    BY RamFsAssumption
  <2> QED
    BY <1>1, <2>2, <2>3
<1> QED
  BY <1>1, <1>2, <1>3, <1>4 DEF AllDirs

\* Whatever lies in a directory has its path as a strict prefix.
LEMMA ParentIsPrefix ==
    ASSUME NEW p \in Paths
    PROVE  IsStrictPrefix(Front(p), p)
<1>1. p \in Seq(STRING) /\ p # <<>>
  BY RamFsAssumption
<1>2. Len(p) \in Nat /\ Len(p) >= 1
  BY <1>1, EmptySeq
<1> DEFINE n == Len(p) - 1
           f == SubSeq(p, 1, n)
<1>3. n \in Nat /\ n < Len(p)
  BY <1>2
<1>4. f \in Seq(STRING) /\ Len(f) = n /\ \A i \in 1 .. n : f[i] = p[i]
  <2>1. \A i \in 1 .. n : p[i] \in STRING
    BY <1>1, <1>3
  <2>2. /\ f \in Seq(STRING) /\ Len(f) = IF 1 <= n THEN n - 1 + 1 ELSE 0
        /\ \A i \in 1 .. n - 1 + 1 : f[i] = p[1 + i - 1]
    <3> HIDE DEF n
    <3> QED
      BY <1>3, <2>1, SubSeqProperties
  <2> HIDE DEF n, f
  <2> QED
    BY <1>3, <2>2
<1> HIDE DEF n, f
<1>5. SubSeq(f, 1, n) = f
  BY <1>3, <1>4
<1>6. f = SubSeq(p, 1, n) /\ f # p
  BY <1>3, <1>4 DEF f
<1> QED
  BY <1>3, <1>4, <1>5, <1>6 DEF IsStrictPrefix, IsPrefix, Front, f, n

-----------------------------------------------------------------------------
(* Steps on names.                                                         *)

\* A name that is new, in a slot that was free.
LEMMA NamedStep ==
    ASSUME FsInv, NEW p, MayName(p), NEW s \in Files, files[s].path = Root,
           NEW r \in FileRec, r.path = p, files' = [files EXCEPT ![s] = r],
           dirs' = dirs
    PROVE  /\ files' \in [Files -> FileRec] /\ Tree'
           /\ NamesOf(r.inode_id)' = NamesOf(r.inode_id) \cup {s}
           /\ s \notin NamesOf(r.inode_id)
           /\ \A i : i # r.inode_id => NamesOf(i)' = NamesOf(i)
<1>1. files \in [Files -> FileRec]
  BY DEF FsInv, TypeOK, FileRec
<1>2. /\ files' \in [Files -> FileRec] /\ files'[s] = r
      /\ \A t \in Files \ {s} : files'[t] = files[t]
  BY <1>1
<1>3. AllDirs' = AllDirs
  BY DEF AllDirs
<1>4. /\ p # Root /\ p \notin dirs /\ p \notin DOMAIN Initramfs /\ Front(p) \in AllDirs
      /\ \A t \in Files : files[t].path # p
  BY NewName
<1>5. Tree'
  <2>1. \A q \in dirs' : Front(q) \in AllDirs' /\ q \notin DOMAIN Initramfs
    BY <1>3 DEF FsInv, Tree
  <2>2. ASSUME NEW t \in Files, files'[t].path # Root
        PROVE  /\ Front(files'[t].path) \in AllDirs'
               /\ files'[t].path \notin DOMAIN Initramfs
               /\ files'[t].path \notin dirs'
               /\ \A u \in Files : files'[t].path = files'[u].path => t = u
    <3>1. CASE t = s
      BY <1>2, <1>3, <1>4, <3>1
    <3>2. CASE t # s
      BY <1>2, <1>3, <1>4, <2>2, <3>2 DEF FsInv, Tree
    <3> QED
      BY <3>1, <3>2
  <2> QED
    BY <2>1, <2>2 DEF Tree
<1>6. /\ NamesOf(r.inode_id)' = NamesOf(r.inode_id) \cup {s}
      /\ s \notin NamesOf(r.inode_id)
  BY <1>2, <1>4 DEF NamesOf
<1>7. \A i : i # r.inode_id => NamesOf(i)' = NamesOf(i)
  BY <1>2, <1>4 DEF NamesOf
<1> QED
  BY <1>2, <1>5, <1>6, <1>7

LEMMA CreateStep ==
    ASSUME FsInv, NEW p, MayName(p), NEW kind \in {"reg", "lnk"},
           NEW size \in 0 .. RAMFILE_CAP, NEW data \in [Cells -> Cell],
           Create(p, kind, size, data), dirs' = dirs
    PROVE  /\ files' \in [Files -> FileRec] /\ inodes' \in [Inodes -> InodeRec]
           /\ LinkCountsExact' /\ Tree'
           /\ \E s \in Files, i \in Inodes :
                 /\ FirstSlot(FreeFiles, s) /\ i \in FreeInodes
                 /\ files' = [files EXCEPT ![s] = [path |-> p, inode_id |-> i]]
                 /\ inodes' = [inodes EXCEPT ![i] = [used |-> TRUE, kind |-> kind,
                                  size |-> size, nlink |-> 1, data |-> data]]
<1>1. PICK s \in Files, i \in Inodes :
        /\ FirstSlot(FreeFiles, s) /\ FirstSlot(FreeInodes, i)
        /\ files' = [files EXCEPT ![s] = [path |-> p, inode_id |-> i]]
        /\ inodes' = [inodes EXCEPT ![i] = [used |-> TRUE, kind |-> kind,
                         size |-> size, nlink |-> 1, data |-> data]]
  BY DEF Create
<1> DEFINE r == [path |-> p, inode_id |-> i]
           n == [used |-> TRUE, kind |-> kind, size |-> size, nlink |-> 1, data |-> data]
<1>2. files[s].path = Root /\ i \in FreeInodes /\ ~inodes[i].used
  BY <1>1 DEF FirstSlot, FreeFiles, FreeInodes
<1>3. r \in FileRec /\ r.path = p /\ r.inode_id = i
  BY NewName DEF FileRec
<1>4. n \in InodeRec /\ n.used = TRUE /\ n.nlink = 1
  BY DEF InodeRec
<1>5. files' = [files EXCEPT ![s] = r] /\ inodes' = [inodes EXCEPT ![i] = n]
  BY <1>1
<1> HIDE DEF r, n
<1>6. /\ files' \in [Files -> FileRec] /\ Tree'
      /\ NamesOf(i)' = NamesOf(i) \cup {s}
      /\ \A j : j # i => NamesOf(j)' = NamesOf(j)
  BY <1>2, <1>3, <1>5, NamedStep
<1>7. /\ inodes' \in [Inodes -> InodeRec] /\ inodes'[i] = n
      /\ \A j \in Inodes \ {i} : inodes'[j] = inodes[j]
  BY <1>4, <1>5 DEF FsInv, TypeOK, InodeRec, Cell
<1>8. LinkCountsExact'
  <2>1. NamesOf(i)' = {s}
    BY <1>2, <1>6 DEF FsInv, LinkCountsExact
  <2>2. Cardinality({s}) = 1
    BY FS_Singleton
  <2>3. ASSUME NEW j \in Inodes
        PROVE  /\ inodes'[j].nlink = Cardinality(NamesOf(j)')
               /\ inodes'[j].used <=> NamesOf(j)' # {}
    <3>1. CASE j = i
      BY <1>4, <1>7, <2>1, <2>2, <3>1
    <3>2. CASE j # i
      BY <1>6, <1>7, <3>2 DEF FsInv, LinkCountsExact
    <3> QED
      BY <3>1, <3>2
  <2> QED
    BY <2>3 DEF LinkCountsExact
<1> QED
  BY <1>1, <1>2, <1>6, <1>7, <1>8

LEMMA MkdirStep ==
    ASSUME FsInv, NEW p, sys_mkdirat(p)
    PROVE  FsInv'
<1>1. /\ MayName(p) /\ dirs' = dirs \cup {p} /\ UNCHANGED <<files, inodes, descs>>
  BY DEF sys_mkdirat
<1>2. /\ p \in Paths /\ p # Root /\ p \notin DOMAIN Initramfs /\ Front(p) \in AllDirs
      /\ \A t \in Files : files[t].path # p
  BY <1>1, NewName
<1>3. AllDirs' = AllDirs \cup {p}
  BY <1>1 DEF AllDirs
<1>4. TypeOK'
  BY <1>1, <1>2 DEF FsInv, TypeOK
<1>5. LinkCountsExact'
  BY <1>1 DEF FsInv, LinkCountsExact, NamesOf
<1>6. Tree'
  BY <1>1, <1>2, <1>3 DEF FsInv, Tree
<1> QED
  BY <1>4, <1>5, <1>6 DEF FsInv

LEMMA SymlinkStep ==
    ASSUME FsInv, NEW target \in Targets, NEW p, sys_symlinkat(target, p)
    PROVE  FsInv'
<1>1. /\ MayName(p) /\ Create(p, "lnk", 1, [Zeroed EXCEPT ![0] = target])
      /\ UNCHANGED <<dirs, descs>>
  BY DEF sys_symlinkat
<1>2. [Zeroed EXCEPT ![0] = target] \in [Cells -> Cell]
  BY Records DEF Cell
<1>3. /\ files' \in [Files -> FileRec] /\ inodes' \in [Inodes -> InodeRec]
      /\ LinkCountsExact' /\ Tree'
  BY <1>1, <1>2, Sizes, CreateStep
<1>4. TypeOK'
  BY <1>1, <1>3 DEF FsInv, TypeOK, FileRec, InodeRec, Cell
<1> QED
  BY <1>3, <1>4 DEF FsInv

\* A second name counts.
LEMMA LinkStep ==
    ASSUME FsInv, NEW old, NEW new, sys_linkat(old, new)
    PROVE  /\ FsInv'
           /\ \E t \in FilesAt(old), s \in FreeFiles :
                 /\ FilesAt(old) = {t} /\ Valid(t)
                 /\ files' = [files EXCEPT ![s] = [path |-> new, inode_id |-> files[t].inode_id]]
                 /\ inodes' = [inodes EXCEPT ![files[t].inode_id].nlink = @ + 1]
<1>1. PICK t \in FilesAt(old), s \in Files :
        /\ FirstSlot(FilesAt(old), t) /\ Valid(t) /\ FirstSlot(FreeFiles, s)
        /\ files' = [files EXCEPT ![s] = [path |-> new, inode_id |-> files[t].inode_id]]
        /\ inodes' = [inodes EXCEPT ![files[t].inode_id].nlink = @ + 1]
  BY DEF sys_linkat
<1>2. MayName(new) /\ UNCHANGED <<dirs, descs>>
  BY DEF sys_linkat
<1>3. t \in Files /\ files[t].path = old /\ old # Root
  BY <1>1 DEF FilesAt
<1>4. PICK i \in Inodes : i = files[t].inode_id
  BY <1>3, SlotInUse
<1>5. FilesAt(old) = {t} /\ t \in NamesOf(i) /\ inodes[i].used /\ inodes[i] \in InodeRec
  BY <1>3, <1>4, SlotInUse DEF NamesOf, FsInv, TypeOK, InodeRec, Cell, InodeOf
<1> DEFINE r == [path |-> new, inode_id |-> i]
           n == [inodes[i] EXCEPT !.nlink = @ + 1]
<1>6. files[s].path = Root /\ s \in FreeFiles
  BY <1>1 DEF FirstSlot, FreeFiles
<1>7. r \in FileRec /\ r.path = new /\ r.inode_id = i
  BY <1>2, NewName DEF FileRec
<1>8. n \in InodeRec /\ n.used /\ n.nlink = inodes[i].nlink + 1
  <2>1. inodes[i].nlink \in Nat /\ inodes[i].nlink + 1 \in Nat
    BY <1>5 DEF InodeRec
  <2> QED
    BY <1>5, <2>1 DEF InodeRec
<1>9. files' = [files EXCEPT ![s] = r] /\ inodes' = [inodes EXCEPT ![i] = n]
  BY <1>1, <1>4
<1> HIDE DEF r, n
<1>10. /\ files' \in [Files -> FileRec] /\ Tree'
       /\ NamesOf(i)' = NamesOf(i) \cup {s} /\ s \notin NamesOf(i)
       /\ \A j : j # i => NamesOf(j)' = NamesOf(j)
  BY <1>2, <1>6, <1>7, <1>9, NamedStep
<1>11. /\ inodes' \in [Inodes -> InodeRec] /\ inodes'[i] = n
       /\ \A j \in Inodes \ {i} : inodes'[j] = inodes[j]
  BY <1>8, <1>9 DEF FsInv, TypeOK, InodeRec, Cell
<1>12. LinkCountsExact'
  <2>1. Cardinality(NamesOf(i)') = inodes[i].nlink + 1
    <3>1. IsFiniteSet(NamesOf(i))
      BY NamesFinite
    <3>2. Cardinality(NamesOf(i) \cup {s}) = Cardinality(NamesOf(i)) + 1
      BY <1>10, <3>1, FS_AddElement
    <3> QED
      BY <1>10, <3>2 DEF FsInv, LinkCountsExact
  <2>2. ASSUME NEW j \in Inodes
        PROVE  /\ inodes'[j].nlink = Cardinality(NamesOf(j)')
               /\ inodes'[j].used <=> NamesOf(j)' # {}
    <3>1. CASE j = i
      BY <1>8, <1>10, <1>11, <2>1, <3>1
    <3>2. CASE j # i
      BY <1>10, <1>11, <3>2 DEF FsInv, LinkCountsExact
    <3> QED
      BY <3>1, <3>2
  <2> QED
    BY <2>2 DEF LinkCountsExact
<1>13. TypeOK'
  BY <1>2, <1>10, <1>11 DEF FsInv, TypeOK, FileRec, InodeRec, Cell
<1> QED
  BY <1>1, <1>5, <1>6, <1>10, <1>12, <1>13 DEF FsInv

\* A name goes, and the inode with its last one.
LEMMA UnlinkStep ==
    ASSUME FsInv, NEW p \in Paths, sys_unlinkat(p)
    PROVE  /\ FsInv'
           /\ \E s \in Files :
                 /\ FilesAt(p) = {s} /\ files[s].path = p
                 /\ files' = [files EXCEPT ![s] = NoFile]
                 /\ inodes' = [inodes EXCEPT ![files[s].inode_id] = Dropped(@)]
                 /\ inodes[files[s].inode_id].nlink <= 1 <=> NamesOf(files[s].inode_id) = {s}
<1>1. PICK s \in FilesAt(p) :
        /\ files' = [files EXCEPT ![s] = NoFile]
        /\ inodes' = [inodes EXCEPT ![files[s].inode_id] = Dropped(@)]
  BY DEF sys_unlinkat
<1>2. UNCHANGED <<dirs, descs>>
  BY DEF sys_unlinkat
<1>3. s \in Files /\ files[s].path = p /\ p # Root
  BY <1>1 DEF FilesAt
<1>4. PICK i \in Inodes : i = files[s].inode_id
  BY <1>3, SlotInUse
<1>5. FilesAt(p) = {s} /\ s \in NamesOf(i) /\ inodes[i].used /\ inodes[i] \in InodeRec
  BY <1>3, <1>4, SlotInUse DEF NamesOf, FsInv, TypeOK, InodeRec, Cell, InodeOf
<1>6. /\ files' \in [Files -> FileRec] /\ files'[s] = NoFile
      /\ \A t \in Files \ {s} : files'[t] = files[t]
  BY <1>1, <1>3, Records DEF FsInv, TypeOK, FileRec
<1>7. NamesOf(i)' = NamesOf(i) \ {s} /\ \A j : j # i => NamesOf(j)' = NamesOf(j)
  BY <1>3, <1>4, <1>6, Records DEF NamesOf
<1>8. inodes[i].nlink \in Nat /\ inodes[i].nlink = Cardinality(NamesOf(i))
  BY <1>5 DEF InodeRec, FsInv, LinkCountsExact
<1>9. Cardinality(NamesOf(i)') = inodes[i].nlink - 1
  <2>1. IsFiniteSet(NamesOf(i))
    BY NamesFinite
  <2>2. Cardinality(NamesOf(i) \ {s}) = Cardinality(NamesOf(i)) - 1
    BY <1>5, <2>1, FS_RemoveElement
  <2> QED
    BY <1>7, <1>8, <2>2
<1>10. IsFiniteSet(NamesOf(i)')
  BY <1>7, NamesFinite, FS_Subset
<1>11. inodes[i].nlink <= 1 <=> NamesOf(i)' = {}
  <2>1. Cardinality(NamesOf(i)') \in Nat
    BY <1>10, FS_CardinalityType
  <2>2. Cardinality(NamesOf(i)') = 0 <=> NamesOf(i)' = {}
    BY <1>10, FS_EmptySet
  <2> QED
    BY <1>8, <1>9, <2>1, <2>2
<1> DEFINE n == Dropped(inodes[i])
<1>12. /\ n \in InodeRec /\ n.nlink = inodes[i].nlink - 1
       /\ n.used <=> inodes[i].nlink > 1
  <2>1. CASE inodes[i].nlink <= 1
    <3>1. n = NoInode
      BY <2>1 DEF Dropped
    <3>2. inodes[i].nlink = 1
      <4>1. Cardinality(NamesOf(i)') \in Nat
        BY <1>10, FS_CardinalityType
      <4> QED
        BY <1>8, <1>9, <2>1, <4>1
    <3> HIDE DEF n
    <3> QED
      BY <3>1, <3>2, Records
  <2>2. CASE ~(inodes[i].nlink <= 1)
    <3>1. inodes[i].nlink - 1 \in Nat
      BY <1>8, <2>2
    <3>2. n = [inodes[i] EXCEPT !.nlink = @ - 1]
      BY <2>2 DEF Dropped
    <3> HIDE DEF n
    <3> QED
      BY <1>5, <1>8, <2>2, <3>1, <3>2 DEF InodeRec
  <2> QED
    BY <2>1, <2>2
<1>13. inodes' = [inodes EXCEPT ![i] = n]
  BY <1>1, <1>4
<1> HIDE DEF n
<1>14. /\ inodes' \in [Inodes -> InodeRec] /\ inodes'[i] = n
       /\ \A j \in Inodes \ {i} : inodes'[j] = inodes[j]
  BY <1>12, <1>13 DEF FsInv, TypeOK, InodeRec, Cell
<1>15. LinkCountsExact'
  <2>1. ASSUME NEW j \in Inodes
        PROVE  /\ inodes'[j].nlink = Cardinality(NamesOf(j)')
               /\ inodes'[j].used <=> NamesOf(j)' # {}
    <3>1. CASE j = i
      BY <1>8, <1>9, <1>11, <1>12, <1>14, <3>1
    <3>2. CASE j # i
      BY <1>7, <1>14, <3>2 DEF FsInv, LinkCountsExact
    <3> QED
      BY <3>1, <3>2
  <2> QED
    BY <2>1 DEF LinkCountsExact
<1>16. Tree'
  <2>1. AllDirs' = AllDirs
    BY <1>2 DEF AllDirs
  <2>2. \A t \in Files : files'[t].path # Root => t # s /\ files'[t] = files[t]
    BY <1>6, Records
  <2>3. \A q \in dirs' : Front(q) \in AllDirs' /\ q \notin DOMAIN Initramfs
    BY <1>2, <2>1 DEF FsInv, Tree
  <2> QED
    BY <1>2, <2>1, <2>2, <2>3 DEF FsInv, Tree
<1>17. TypeOK'
  BY <1>2, <1>6, <1>14 DEF FsInv, TypeOK, FileRec, InodeRec, Cell
<1>18. inodes[i].nlink <= 1 <=> NamesOf(i) = {s}
  BY <1>5, <1>7, <1>11
<1> QED
  BY <1>1, <1>3, <1>4, <1>5, <1>15, <1>16, <1>17, <1>18 DEF FsInv

\* Nothing lies in a directory that is removed.
LEMMA RmdirStep ==
    ASSUME FsInv, NEW p, sys_rmdir(p)
    PROVE  FsInv'
<1>1. /\ p \in dirs /\ Below(p) = {} /\ dirs' = dirs \ {p}
      /\ UNCHANGED <<files, inodes, descs>>
  BY DEF sys_rmdir
<1>2. dirs \subseteq Paths /\ \A s \in Files : files[s].path \in Paths \cup {Root}
  BY DEF FsInv, TypeOK
<1>3. \A q \in dirs : Front(q) # p
  BY <1>1, <1>2, ParentIsPrefix DEF Below
<1>4. \A s \in Files : files[s].path # Root => Front(files[s].path) # p
  BY <1>1, <1>2, ParentIsPrefix DEF Below
<1>5. \A q \in AllDirs : q # p => q \in AllDirs'
  BY <1>1 DEF AllDirs
<1>6. Tree'
  BY <1>1, <1>3, <1>4, <1>5 DEF FsInv, Tree
<1>7. TypeOK'
  BY <1>1 DEF FsInv, TypeOK
<1>8. LinkCountsExact'
  BY <1>1 DEF FsInv, LinkCountsExact, NamesOf
<1> QED
  BY <1>6, <1>7, <1>8 DEF FsInv

-----------------------------------------------------------------------------
(* Steps on open files.                                                    *)

\* Steps that keep every name, what is in use and the counts.
LEMMA ContentStep ==
    ASSUME FsInv, UNCHANGED <<dirs, files>>,
           inodes' \in [Inodes -> InodeRec], descs' \in [Descs -> DescRec],
           \A i \in Inodes : /\ inodes'[i].used = inodes[i].used
                             /\ inodes'[i].nlink = inodes[i].nlink
    PROVE  FsInv'
<1>1. TypeOK'
  BY DEF FsInv, TypeOK, InodeRec, DescRec, Cell
<1>2. Tree'
  BY DEF FsInv, Tree, AllDirs
<1>3. LinkCountsExact'
  BY DEF FsInv, LinkCountsExact, NamesOf
<1> QED
  BY <1>1, <1>2, <1>3 DEF FsInv

\* A description is taken or not.
LEMMA DescribeStep ==
    ASSUME FsInv, NEW kind \in {"ramfile", "readonly"}, NEW s \in Files, Describe(kind, s)
    PROVE  /\ descs' \in [Descs -> DescRec]
           /\ \A d \in Descs : descs'[d] = descs[d] \/
                 (descs[d].kind = "unused" /\ descs'[d].kind = kind /\ descs'[d].file_id = s)
<1>1. descs \in [Descs -> DescRec]
  BY DEF FsInv, TypeOK, DescRec
<1>2. CASE UNCHANGED descs
  BY <1>1, <1>2
<1>3. CASE ~UNCHANGED descs
  <2> DEFINE n == [kind |-> kind, file_id |-> s, off |-> 0]
  <2>1. PICK d \in Descs : descs[d].kind = "unused" /\ descs' = [descs EXCEPT ![d] = n]
    BY <1>3 DEF Describe, FirstSlot, FreeDescs
  <2>2. n \in DescRec /\ n.kind = kind /\ n.file_id = s
    BY Sizes DEF DescRec
  <2> HIDE DEF n
  <2> QED
    BY <1>1, <2>1, <2>2
<1> QED
  BY <1>2, <1>3

LEMMA OpenExistingStep ==
    ASSUME FsInv, NEW p, NEW flags, OpenExisting(p, flags)
    PROVE  /\ FsInv'
           /\ \E s \in Files :
                 /\ FilesAt(p) = {s} /\ files[s].path = p /\ files[s].path # Root
                 /\ inodes' = inodes \/
                       inodes' = [inodes EXCEPT ![files[s].inode_id].size = 0]
                 /\ \A d \in Descs : descs'[d] = descs[d] \/
                       (descs'[d].kind = "ramfile" => descs'[d].file_id = s)
<1>1. PICK s \in FilesAt(p) :
        /\ inodes' = IF "TRUNC" \in flags /\ Valid(s)
                     THEN [inodes EXCEPT ![files[s].inode_id].size = 0] ELSE inodes
        /\ Describe("ramfile", s)
  BY DEF OpenExisting
<1>2. UNCHANGED <<dirs, files>>
  BY DEF OpenExisting
<1>3. s \in Files /\ files[s].path = p /\ p # Root
  BY <1>1 DEF FilesAt
<1>4. PICK i \in Inodes : i = files[s].inode_id
  BY <1>3, SlotInUse
<1>5. FilesAt(p) = {s}
  BY <1>3, SlotInUse
<1>6. /\ descs' \in [Descs -> DescRec]
      /\ \A d \in Descs : descs'[d] = descs[d] \/
            (descs'[d].kind = "ramfile" => descs'[d].file_id = s)
  BY <1>1, <1>3, DescribeStep
<1>7. inodes \in [Inodes -> InodeRec]
  BY DEF FsInv, TypeOK, InodeRec, Cell
<1> DEFINE n == [inodes[i] EXCEPT !.size = 0]
<1>8. n \in InodeRec /\ n.used = inodes[i].used /\ n.nlink = inodes[i].nlink
  BY <1>7, Sizes DEF InodeRec
<1>9. inodes' = inodes \/ inodes' = [inodes EXCEPT ![i] = n]
  BY <1>1, <1>4
<1> HIDE DEF n
<1>10. /\ inodes' \in [Inodes -> InodeRec]
       /\ \A j \in Inodes : /\ inodes'[j].used = inodes[j].used
                            /\ inodes'[j].nlink = inodes[j].nlink
  BY <1>7, <1>8, <1>9
<1>11. FsInv'
  BY <1>2, <1>6, <1>10, ContentStep
<1>12. inodes' = inodes \/ inodes' = [inodes EXCEPT ![files[s].inode_id].size = 0]
  BY <1>1
<1> QED
  BY <1>3, <1>5, <1>6, <1>11, <1>12

LEMMA OpenNewStep ==
    ASSUME FsInv, NEW p, NEW flags, OpenNew(p, flags)
    PROVE  /\ FsInv'
           /\ MayName(p) /\ dirs' = dirs
           /\ \E s \in Files, i \in Inodes :
                 /\ s \in FreeFiles /\ i \in FreeInodes
                 /\ files' = [files EXCEPT ![s] = [path |-> p, inode_id |-> i]]
                 /\ inodes' = [inodes EXCEPT ![i] = [used |-> TRUE, kind |-> "reg",
                                  size |-> 0, nlink |-> 1, data |-> Zeroed]]
                 /\ \A d \in Descs : descs'[d] = descs[d] \/
                       (descs'[d].kind = "ramfile" => descs'[d].file_id = s)
<1>1. /\ MayName(p) /\ Create(p, "reg", 0, Zeroed) /\ dirs' = dirs
      /\ \E s \in Files : FirstSlot(FreeFiles, s) /\ Describe("ramfile", s)
  BY DEF OpenNew
<1>2. /\ files' \in [Files -> FileRec] /\ inodes' \in [Inodes -> InodeRec]
      /\ LinkCountsExact' /\ Tree'
      /\ \E s \in Files, i \in Inodes :
            /\ FirstSlot(FreeFiles, s) /\ i \in FreeInodes
            /\ files' = [files EXCEPT ![s] = [path |-> p, inode_id |-> i]]
            /\ inodes' = [inodes EXCEPT ![i] = [used |-> TRUE, kind |-> "reg",
                             size |-> 0, nlink |-> 1, data |-> Zeroed]]
  BY <1>1, Sizes, Records, CreateStep
<1>3. PICK s \in Files : FirstSlot(FreeFiles, s) /\ Describe("ramfile", s)
  BY <1>1
<1>4. \A t \in Files : FirstSlot(FreeFiles, t) => t = s
  BY <1>3, Sizes DEF FirstSlot, FreeFiles
<1>5. s \in FreeFiles
  BY <1>3 DEF FirstSlot
<1>6. /\ descs' \in [Descs -> DescRec]
      /\ \A d \in Descs : descs'[d] = descs[d] \/
            (descs'[d].kind = "ramfile" => descs'[d].file_id = s)
  BY <1>3, DescribeStep
<1>7. PICK i \in Inodes :
        /\ i \in FreeInodes
        /\ files' = [files EXCEPT ![s] = [path |-> p, inode_id |-> i]]
        /\ inodes' = [inodes EXCEPT ![i] = [used |-> TRUE, kind |-> "reg",
                         size |-> 0, nlink |-> 1, data |-> Zeroed]]
  BY <1>2, <1>4
<1>8. TypeOK'
  BY <1>1, <1>2, <1>6 DEF FsInv, TypeOK, FileRec, InodeRec, DescRec, Cell
<1> QED
  BY <1>1, <1>2, <1>5, <1>6, <1>7, <1>8 DEF FsInv

LEMMA OpenReadOnlyStep ==
    ASSUME FsInv, NEW p, NEW flags, OpenReadOnly(p, flags)
    PROVE  FsInv' /\ \A d \in Descs : descs'[d] = descs[d] \/ descs'[d].kind = "readonly"
<1>1. Describe("readonly", 0) /\ UNCHANGED <<dirs, files, inodes>>
  BY DEF OpenReadOnly
<1>2. /\ descs' \in [Descs -> DescRec]
      /\ \A d \in Descs : descs'[d] = descs[d] \/ descs'[d].kind = "readonly"
  BY <1>1, Sizes, DescribeStep
<1>3. inodes' \in [Inodes -> InodeRec]
  BY <1>1 DEF FsInv, TypeOK, InodeRec, Cell
<1> QED
  BY <1>1, <1>2, <1>3, ContentStep

\* close, read and lseek change a description.
LEMMA DescStep ==
    ASSUME FsInv, NEW d \in Descs, NEW n \in DescRec, descs' = [descs EXCEPT ![d] = n],
           UNCHANGED <<dirs, files, inodes>>
    PROVE  FsInv'
<1>1. descs' \in [Descs -> DescRec]
  BY DEF FsInv, TypeOK, DescRec
<1>2. inodes' \in [Inodes -> InodeRec]
  BY DEF FsInv, TypeOK, InodeRec, Cell
<1> QED
  BY <1>1, <1>2, ContentStep

LEMMA CloseStep ==
    ASSUME FsInv, NEW d \in Descs, sys_close(d)
    PROVE  FsInv'
BY Records, DescStep DEF sys_close

\* The file behind an open description.
LEMMA OpenFile ==
    ASSUME FsInv, NEW d \in Descs, OnRamfile(d)
    PROVE  /\ descs[d] \in DescRec /\ descs[d].file_id \in Files
           /\ files[descs[d].file_id].path # Root
           /\ files[descs[d].file_id].inode_id \in Inodes
           /\ inodes[files[descs[d].file_id].inode_id] \in InodeRec
           /\ inodes[files[descs[d].file_id].inode_id].used
<1>1. descs[d] \in DescRec /\ descs[d].file_id \in Files
  BY DEF FsInv, TypeOK, DescRec
<1>2. files[descs[d].file_id].path # Root /\ inodes[files[descs[d].file_id].inode_id].used
  BY DEF OnRamfile, Valid
<1>3. files[descs[d].file_id].inode_id \in Inodes
  BY <1>1, <1>2, SlotInUse
<1>4. inodes \in [Inodes -> InodeRec]
  BY DEF FsInv, TypeOK, InodeRec, Cell
<1> QED
  BY <1>1, <1>2, <1>3, <1>4

LEMMA ReadStep ==
    ASSUME FsInv, NEW d \in Descs, NEW len \in Lens, sys_read(d, len)
    PROVE  FsInv'
<1> DEFINE size == InodeOf(descs[d].file_id).size
           off == descs[d].off
           to == off + AtMost(len, size - off)
           n == [descs[d] EXCEPT !.off = to]
<1>1. /\ OnRamfile(d) /\ off < size /\ UNCHANGED <<dirs, files, inodes>>
      /\ descs' = [descs EXCEPT ![d] = n]
  BY DEF sys_read
<1>2. descs[d] \in DescRec /\ off \in 0 .. RAMFILE_CAP /\ size \in 0 .. RAMFILE_CAP
  BY <1>1, OpenFile DEF InodeRec, DescRec, InodeOf
<1>3. len \in Nat
  BY RamFsAssumption
<1> HIDE DEF size, off
<1>4. to \in 0 .. RAMFILE_CAP
  BY <1>1, <1>2, <1>3, Sizes DEF AtMost
<1> HIDE DEF to
<1>5. n \in DescRec
  BY <1>2, <1>4 DEF DescRec
<1> HIDE DEF n
<1> QED
  BY <1>1, <1>5, DescStep

LEMMA LseekStep ==
    ASSUME FsInv, NEW d \in Descs, NEW off \in 0 .. RAMFILE_CAP, sys_lseek(d, off)
    PROVE  FsInv'
<1> DEFINE n == [descs[d] EXCEPT !.off = off]
<1>1. /\ UNCHANGED <<dirs, files, inodes>> /\ descs' = [descs EXCEPT ![d] = n]
      /\ OnRamfile(d)
  BY DEF sys_lseek
<1>2. n \in DescRec
  BY <1>1, OpenFile DEF DescRec
<1> HIDE DEF n
<1> QED
  BY <1>1, <1>2, DescStep

\* An inode with n cells written from position at on.
Written(inode, at, n, b) ==
    [inode EXCEPT
        !.data = [c \in Cells |-> IF at <= c /\ c < at + n THEN b ELSE @[c]],
        !.size = AtLeast(@, at + n)]

\* A write stays in the space of the file.
LEMMA WriteStep ==
    ASSUME FsInv, NEW d \in Descs, NEW len \in Lens, NEW b \in Bytes, sys_write(d, len, b)
    PROVE  /\ FsInv'
           /\ \E i \in Inodes, at \in 0 .. RAMFILE_CAP - 1, n \in 1 .. RAMFILE_CAP :
                 /\ inodes[i].used /\ at + n <= RAMFILE_CAP
                 /\ inodes' = [inodes EXCEPT ![i] = Written(inodes[i], at, n, b)]
<1> DEFINE at == descs[d].off
           n == AtMost(len, Room(at))
<1>1. /\ OnRamfile(d) /\ at < RAMFILE_CAP /\ len > 0 /\ len \in Nat
  BY RamFsAssumption DEF sys_write
<1>2. PICK i \in Inodes : i = files[descs[d].file_id].inode_id
  BY <1>1, OpenFile
<1> DEFINE w == [inodes[i] EXCEPT
                    !.data = [c \in Cells |-> IF at <= c /\ c < at + n THEN b ELSE @[c]],
                    !.size = AtLeast(@, at + n)]
           e == [descs[d] EXCEPT !.off = at + n]
<1>3. /\ inodes' = [inodes EXCEPT ![i] = w] /\ descs' = [descs EXCEPT ![d] = e]
      /\ UNCHANGED <<dirs, files>>
  BY <1>2 DEF sys_write
<1>4. /\ descs[d] \in DescRec /\ at \in 0 .. RAMFILE_CAP
      /\ inodes[i] \in InodeRec /\ inodes[i].used
  BY <1>1, <1>2, OpenFile DEF DescRec
<1> HIDE DEF at
<1>5. /\ at \in 0 .. RAMFILE_CAP - 1 /\ n \in 1 .. RAMFILE_CAP /\ at + n <= RAMFILE_CAP
      /\ at + n \in 0 .. RAMFILE_CAP
  BY <1>1, <1>4, Sizes DEF AtMost, Room
<1> HIDE DEF n
<1>6. e \in DescRec
  BY <1>4, <1>5 DEF DescRec
<1>7. w \in InodeRec /\ w.used = inodes[i].used /\ w.nlink = inodes[i].nlink
  <2>1. AtLeast(inodes[i].size, at + n) \in 0 .. RAMFILE_CAP
    BY <1>4, <1>5 DEF AtLeast, InodeRec
  <2>2. [c \in Cells |-> IF at <= c /\ c < at + n THEN b ELSE inodes[i].data[c]]
          \in [Cells -> Cell]
    BY <1>4 DEF InodeRec, Cell
  <2> QED
    BY <1>4, <2>1, <2>2 DEF InodeRec
<1> HIDE DEF w, e
<1>8. inodes \in [Inodes -> InodeRec] /\ descs \in [Descs -> DescRec]
  BY DEF FsInv, TypeOK, InodeRec, DescRec, Cell
<1>9. FsInv'
  BY <1>3, <1>6, <1>7, <1>8, ContentStep
<1> QED
  BY <1>3, <1>4, <1>5, <1>9 DEF w, Written

-----------------------------------------------------------------------------
(* The invariant.                                                          *)

LEMMA InitSound == Init => FsInv
<1> SUFFICES ASSUME Init PROVE FsInv
  OBVIOUS
<1>1. /\ \A s \in Files : files[s] = NoFile
      /\ \A i \in Inodes : inodes[i] = NoInode
  BY DEF Init
<1>2. \A i \in Inodes : NamesOf(i) = {}
  BY <1>1, Records DEF NamesOf
<1>3. TypeOK
  <2> HIDE DEF NoFile, NoInode, NoDesc
  <2>1. files \in [Files -> FileRec] /\ inodes \in [Inodes -> InodeRec]
        /\ descs \in [Descs -> DescRec]
    BY Records DEF Init
  <2> QED
    BY <2>1 DEF Init, TypeOK, FileRec, InodeRec, DescRec, Cell
<1>4. LinkCountsExact
  BY <1>1, <1>2, Records, FS_EmptySet DEF LinkCountsExact
<1>5. Tree
  BY <1>1, Records DEF Init, Tree
<1> QED
  BY <1>3, <1>4, <1>5 DEF FsInv

LEMMA OpenatCases ==
    ASSUME NEW p, NEW flags, sys_openat(p, flags)
    PROVE  /\ Lookup(Resolved(p)) # "lnk"
           /\ \/ OpenExisting(Resolved(p), flags) \/ OpenNew(Resolved(p), flags)
              \/ OpenReadOnly(Resolved(p), flags)
BY DEF sys_openat, Resolves

LEMMA OpenatStep ==
    ASSUME FsInv, NEW p, NEW flags, sys_openat(p, flags)
    PROVE  FsInv'
BY OpenatCases, OpenExistingStep, OpenNewStep, OpenReadOnlyStep

LEMMA StepSound == FsInv /\ [Next]_vars => FsInv'
<1> SUFFICES ASSUME FsInv, [Next]_vars PROVE FsInv'
  OBVIOUS
<1>1. ASSUME NEW p \in Paths,
             \/ sys_mkdirat(p) \/ sys_unlinkat(p) \/ sys_rmdir(p)
             \/ \E t \in Targets : sys_symlinkat(t, p)
             \/ \E q \in Paths : sys_linkat(p, q)
      PROVE  FsInv'
  BY <1>1, MkdirStep, UnlinkStep, RmdirStep, SymlinkStep, LinkStep
<1>2. ASSUME NEW p \in Paths \cup {Root}, NEW flags \in FlagSets, sys_openat(p, flags)
      PROVE  FsInv'
  BY <1>2, OpenatStep
<1>3. ASSUME NEW d \in Descs,
             \/ sys_close(d)
             \/ \E len \in Lens : sys_read(d, len)
             \/ \E len \in Lens, b \in Bytes : sys_write(d, len, b)
             \/ \E off \in 0 .. RAMFILE_CAP : sys_lseek(d, off)
      PROVE  FsInv'
  BY <1>3, CloseStep, ReadStep, WriteStep, LseekStep
<1>4. CASE UNCHANGED vars
  <2>1. UNCHANGED <<dirs, files, inodes, descs>>
    BY <1>4 DEF vars
  <2>2. inodes' \in [Inodes -> InodeRec] /\ descs' \in [Descs -> DescRec]
    BY <2>1 DEF FsInv, TypeOK, InodeRec, DescRec, Cell
  <2> QED
    BY <2>1, <2>2, ContentStep
<1> QED
  BY <1>1, <1>2, <1>3, <1>4 DEF Next

\* The inductive invariant of vfs.c: types, exact link counts, and names that
\* form one tree with the initramfs.
THEOREM FsInvariant == Spec => []FsInv
<1> QED
  BY InitSound, StepSound, PTL DEF Spec

\* Through any sequence of calls that create, link, remove and reuse slots, the
\* link counts of vfs.c are exact and the overlay is one tree with the initramfs.
THEOREM OverlayStaysSound == Spec => []OverlaySound
<1>1. FsInv => OverlaySound
  <2> SUFFICES ASSUME FsInv PROVE OverlaySound
    OBVIOUS
  <2>1. \A p \in OverlayPaths : ParentIsDir(p) /\ p \notin DOMAIN Initramfs
    <3> SUFFICES ASSUME NEW p \in OverlayPaths
                 PROVE  ParentIsDir(p) /\ p \notin DOMAIN Initramfs
      OBVIOUS
    <3>1. p # Root /\ Front(p) \in AllDirs /\ p \notin DOMAIN Initramfs
      <4>1. CASE p \in dirs
        BY <4>1, Sizes DEF FsInv, TypeOK, Tree
      <4>2. CASE p \notin dirs
        BY <4>2 DEF OverlayPaths, FreeFiles, FsInv, Tree
      <4> QED
        BY <4>1, <4>2
    <3> QED
      BY <3>1, DirsAreDirs DEF ParentIsDir
  <2>2. \A s \in Files \ FreeFiles :
           /\ files[s].path \notin dirs
           /\ \A t \in Files : files[s].path = files[t].path => s = t
    BY DEF FreeFiles, FsInv, Tree
  <2> QED
    BY <2>1, <2>2 DEF OverlaySound, TreeSound, FsInv
<1> QED
  BY <1>1, FsInvariant, PTL

\* A slot of g_ramfiles that is in use keeps its name and its inode until the
\* name is removed, so that a descriptor (g_descs[].file_id) stays on its file.
THEOREM OpenFilesStay == Spec => OpenFileStays
<1> DEFINE Kept == \A s \in Files :
              files[s].path # Root => files'[s] = files[s] \/ files'[s].path = Root
<1>1. FsInv /\ [Next]_vars => Kept
  <2> SUFFICES ASSUME FsInv, [Next]_vars PROVE Kept
    OBVIOUS
  <2>0. ASSUME files' = files PROVE Kept
    BY <2>0
  <2>1. ASSUME NEW r, \E s \in FreeFiles : files' = [files EXCEPT ![s] = r]
        PROVE  Kept
    BY <2>1 DEF FreeFiles, FsInv, TypeOK
  <2>2. ASSUME NEW p \in Paths, sys_unlinkat(p)
        PROVE  Kept
    <3>1. PICK s \in Files : files' = [files EXCEPT ![s] = NoFile]
      BY <2>2, UnlinkStep
    <3> QED
      BY <3>1, Records DEF FsInv, TypeOK
  <2>3. ASSUME NEW p \in Paths, NEW t \in Targets, sys_symlinkat(t, p)
        PROVE  Kept
    <3>1. \E s \in FreeFiles, i \in Inodes : files' = [files EXCEPT ![s] = [path |-> p, inode_id |-> i]]
      BY <2>3 DEF sys_symlinkat, Create, FirstSlot
    <3> QED
      BY <2>1, <3>1
  <2>4. ASSUME NEW p \in Paths, NEW q \in Paths, sys_linkat(p, q)
        PROVE  Kept
    BY <2>1, <2>4, LinkStep
  <2>5. ASSUME NEW p, NEW flags, sys_openat(p, flags)
        PROVE  Kept
    <3>1. CASE OpenExisting(Resolved(p), flags) \/ OpenReadOnly(Resolved(p), flags)
      BY <2>0, <3>1 DEF OpenExisting, OpenReadOnly
    <3>2. CASE OpenNew(Resolved(p), flags)
      BY <2>1, <3>2, OpenNewStep
    <3> QED
      BY <2>5, <3>1, <3>2, OpenatCases
  <2>6. ASSUME NEW p \in Paths, sys_mkdirat(p) \/ sys_rmdir(p)
        PROVE  Kept
    BY <2>0, <2>6 DEF sys_mkdirat, sys_rmdir
  <2>7. ASSUME NEW d \in Descs,
               \/ sys_close(d)
               \/ \E len \in Lens : sys_read(d, len)
               \/ \E len \in Lens, b \in Bytes : sys_write(d, len, b)
               \/ \E off \in 0 .. RAMFILE_CAP : sys_lseek(d, off)
        PROVE  Kept
    BY <2>0, <2>7 DEF sys_close, sys_read, sys_write, sys_lseek
  <2>8. CASE UNCHANGED vars
    BY <2>0, <2>8 DEF vars
  <2> QED
    BY <2>2, <2>3, <2>4, <2>5, <2>6, <2>7, <2>8 DEF Next
<1>2. FsInv /\ Kept =>
        \A d \in Descs :
          LET s == descs[d].file_id
          IN  OnRamfile(d) => files'[s] = files[s] \/ files'[s].path = Root
  BY OpenFile
<1>3. FsInv /\ [Next]_vars =>
        [\A d \in Descs :
          LET s == descs[d].file_id
          IN  OnRamfile(d) => files'[s] = files[s] \/ files'[s].path = Root]_vars
  BY <1>1, <1>2
<1> QED
  BY <1>3, FsInvariant, PTL DEF Spec, OpenFileStays

\* A description that open takes on the RAM file system is on a regular file:
\* resolve_final_symlink never lets it have a link.
THEOREM OpenGivesNoLink == Spec => OpensNoLink
<1> DEFINE NoLink == \A d \in Descs :
              descs[d].kind = "unused" /\ descs'[d].kind = "ramfile" =>
                  inodes'[files'[descs'[d].file_id].inode_id].kind = "reg"
<1>1. FsInv /\ [Next]_vars => NoLink
  <2> SUFFICES ASSUME FsInv, [Next]_vars PROVE NoLink
    OBVIOUS
  <2>0. ASSUME \A d \in Descs : descs'[d] = descs[d] \/ descs'[d].kind # "ramfile"
                                \/ descs[d].kind # "unused"
        PROVE  NoLink
    BY <2>0
  <2>1. inodes \in [Inodes -> InodeRec] /\ files \in [Files -> FileRec]
        /\ descs \in [Descs -> DescRec]
    BY DEF FsInv, TypeOK, InodeRec, FileRec, DescRec, Cell
  <2>2. ASSUME NEW p, NEW flags, sys_openat(p, flags)
        PROVE  NoLink
    <3>1. PICK q : q = Resolved(p)
      OBVIOUS
    <3>2. CASE OpenExisting(q, flags)
      <4>1. PICK s \in Files :
              /\ FilesAt(q) = {s} /\ files[s].path = q /\ files[s].path # Root
              /\ inodes' = inodes \/
                    inodes' = [inodes EXCEPT ![files[s].inode_id].size = 0]
              /\ \A d \in Descs : descs'[d] = descs[d] \/
                    (descs'[d].kind = "ramfile" => descs'[d].file_id = s)
        BY <3>2, OpenExistingStep
      <4>2. InodeOf(s).kind = "reg" /\ files[s].inode_id \in Inodes
        BY <2>2, <3>1, <4>1, OpenatCases, SlotInUse
      <4>3. files' = files
        BY <3>2 DEF OpenExisting
      <4>4. inodes'[files'[s].inode_id].kind = "reg"
        BY <2>1, <4>1, <4>2, <4>3 DEF InodeOf, InodeRec
      <4> QED
        BY <4>1, <4>4
    <3>3. CASE OpenNew(q, flags)
      <4>1. PICK s \in Files, i \in Inodes :
              /\ files' = [files EXCEPT ![s] = [path |-> q, inode_id |-> i]]
              /\ inodes' = [inodes EXCEPT ![i] = [used |-> TRUE, kind |-> "reg",
                               size |-> 0, nlink |-> 1, data |-> Zeroed]]
              /\ \A d \in Descs : descs'[d] = descs[d] \/
                    (descs'[d].kind = "ramfile" => descs'[d].file_id = s)
        BY <3>3, OpenNewStep
      <4>2. files'[s].inode_id = i /\ inodes'[i].kind = "reg"
        BY <2>1, <4>1
      <4> QED
        BY <4>1, <4>2
    <3>4. CASE OpenReadOnly(q, flags)
      BY <2>0, <3>4, OpenReadOnlyStep
    <3> QED
      BY <2>2, <3>1, <3>2, <3>3, <3>4, OpenatCases
  <2>3. ASSUME NEW p \in Paths,
               \/ sys_mkdirat(p) \/ sys_unlinkat(p) \/ sys_rmdir(p)
               \/ \E t \in Targets : sys_symlinkat(t, p)
               \/ \E q \in Paths : sys_linkat(p, q)
        PROVE  NoLink
    BY <2>0, <2>3 DEF sys_mkdirat, sys_unlinkat, sys_rmdir, sys_symlinkat, sys_linkat
  <2>4. ASSUME NEW d \in Descs, sys_close(d)
        PROVE  NoLink
    BY <2>0, <2>1, <2>4, Records DEF sys_close
  <2>5. ASSUME NEW d \in Descs, NEW n, descs[d].kind # "unused",
               descs' = [descs EXCEPT ![d] = n]
        PROVE  NoLink
    BY <2>0, <2>1, <2>5
  <2>6. ASSUME NEW d \in Descs,
               \/ \E len \in Lens : sys_read(d, len)
               \/ \E len \in Lens, b \in Bytes : sys_write(d, len, b)
               \/ \E off \in 0 .. RAMFILE_CAP : sys_lseek(d, off)
        PROVE  NoLink
    <3>1. OnRamfile(d) /\ \E off : descs' = [descs EXCEPT ![d].off = off]
      BY <2>6 DEF sys_read, sys_write, sys_lseek
    <3> QED
      BY <2>5, <3>1 DEF OnRamfile
  <2>7. CASE UNCHANGED vars
    BY <2>0, <2>7 DEF vars
  <2> QED
    BY <2>2, <2>3, <2>4, <2>6, <2>7 DEF Next
<1>2. NoLink => [\A d \in Descs :
          descs[d].kind = "unused" /\ descs'[d].kind = "ramfile" =>
              inodes'[files'[descs'[d].file_id].inode_id].kind = "reg"]_vars
  OBVIOUS
<1> QED
  BY <1>1, <1>2, FsInvariant, PTL DEF Spec, OpensNoLink

-----------------------------------------------------------------------------
(* The abstract file system.                                               *)

Used(f) == {s \in Files : f[s].path # Root}
NamesIn(f) ==
    [p \in {f[s].path : s \in Used(f)} |-> f[CHOOSE s \in Files : f[s].path = p].inode_id]
Content(n) == [size |-> n.size, cells |-> n.data]
ContentIn(m) == [i \in {j \in Inodes : m[j].used} |-> Content(m[i])]

OnePath(f) == \A s, t \in Files : f[s].path # Root /\ f[s].path = f[t].path => s = t

LEMMA Maps ==
    /\ NameMap = NamesIn(files) /\ ContentMap = ContentIn(inodes)
    /\ NameMap' = NamesIn(files') /\ ContentMap' = ContentIn(inodes')
<1>1. Files \ FreeFiles = Used(files) /\ (Files \ FreeFiles)' = Used(files')
  BY DEF FreeFiles, Used
<1>2. /\ Inodes \ FreeInodes = {j \in Inodes : inodes[j].used}
      /\ (Inodes \ FreeInodes)' = {j \in Inodes : inodes'[j].used}
  BY DEF FreeInodes
<1>3. NameMap = NamesIn(files) /\ NameMap' = NamesIn(files')
  BY <1>1 DEF NameMap, NamesIn
<1>4. ContentMap = ContentIn(inodes) /\ ContentMap' = ContentIn(inodes')
  BY <1>2 DEF ContentMap, ContentIn, Content
<1> QED
  BY <1>3, <1>4

\* A path maps to the inode of the one slot that has it.
LEMMA NamesInFacts ==
    ASSUME NEW f, OnePath(f)
    PROVE  /\ DOMAIN NamesIn(f) = {f[s].path : s \in Used(f)}
           /\ \A s \in Used(f) : NamesIn(f)[f[s].path] = f[s].inode_id
<1>1. DOMAIN NamesIn(f) = {f[s].path : s \in Used(f)}
  BY DEF NamesIn
<1>2. ASSUME NEW s \in Used(f)
      PROVE  NamesIn(f)[f[s].path] = f[s].inode_id
  <2>1. (CHOOSE t \in Files : f[t].path = f[s].path) = s
    BY DEF Used, OnePath
  <2> QED
    BY <2>1 DEF NamesIn
<1> QED
  BY <1>1, <1>2

LEMMA InvOnePath == FsInv => OnePath(files)
BY DEF FsInv, Tree, OnePath

LEMMA ContentInFacts ==
    ASSUME NEW m
    PROVE  /\ DOMAIN ContentIn(m) = {j \in Inodes : m[j].used}
           /\ \A i \in Inodes : m[i].used => ContentIn(m)[i] = Content(m[i])
BY DEF ContentIn

\* What is taken in the abstract tree.
LEMMA NewIsFree ==
    ASSUME FsInv, NEW p, MayName(p)
    PROVE  p \in Paths \ Abstract!Taken /\ p \notin DOMAIN NameMap
<1>1. DOMAIN NameMap = {files[s].path : s \in Used(files)}
  BY Maps, InvOnePath, NamesInFacts
<1>2. p \notin DOMAIN NameMap
  BY <1>1, NewName DEF Used
<1> QED
  BY <1>2, NewName DEF Abstract!Taken

LEMMA MkdirRefines ==
    ASSUME FsInv, NEW p, sys_mkdirat(p)
    PROVE  Abstract!Mkdir
<1>1. /\ MayName(p) /\ dirs' = dirs \cup {p} /\ UNCHANGED <<files, inodes, descs>>
  BY DEF sys_mkdirat
<1>2. NameMap' = NameMap /\ ContentMap' = ContentMap
  BY <1>1, Maps
<1> QED
  BY <1>1, <1>2, NewIsFree DEF Abstract!Mkdir

LEMMA RmdirRefines ==
    ASSUME FsInv, NEW p, sys_rmdir(p)
    PROVE  Abstract!Rmdir
<1>1. /\ p \in dirs /\ Below(p) = {} /\ dirs' = dirs \ {p}
      /\ UNCHANGED <<files, inodes, descs>>
  BY DEF sys_rmdir
<1>2. NameMap' = NameMap /\ ContentMap' = ContentMap
  BY <1>1, Maps
<1>3. DOMAIN NameMap = {files[s].path : s \in Used(files)}
  BY Maps, InvOnePath, NamesInFacts
<1>4. ASSUME NEW q \in dirs \cup DOMAIN NameMap, Abstract!Inside(q, p)
      PROVE  FALSE
  <2>1. q \in dirs \cup {files[s].path : s \in Files}
    BY <1>3 DEF Used
  <2>2. p \in Seq(STRING)
    BY <1>1, RamFsAssumption DEF FsInv, TypeOK
  <2>3. Len(q) > Len(p) /\ SubSeq(q, 1, Len(p)) = p
    BY <1>4 DEF Abstract!Inside
  <2>4. SubSeq(p, 1, Len(p)) = p
    BY <2>2
  <2>5. q \in Seq(STRING)
    <3>1. q \in Paths \cup {<<>>}
      BY <2>1 DEF FsInv, TypeOK, Root
    <3>2. <<>> \in Seq(STRING)
      OBVIOUS
    <3> QED
      BY <3>1, <3>2, RamFsAssumption
  <2>6. Len(p) \in Nat /\ Len(q) \in Nat
    BY <2>2, <2>5
  <2>7. IsStrictPrefix(p, q)
    BY <2>3, <2>4, <2>6 DEF IsStrictPrefix, IsPrefix
  <2> QED
    BY <1>1, <2>1, <2>7 DEF Below
<1> QED
  BY <1>1, <1>2, <1>4 DEF Abstract!Rmdir

\* A slot gets a name: the map grows by it.
LEMMA MapGrows ==
    ASSUME FsInv, FsInv', NEW p, MayName(p), NEW s \in FreeFiles, NEW i \in Inodes,
           files' = [files EXCEPT ![s] = [path |-> p, inode_id |-> i]]
    PROVE  /\ DOMAIN NameMap' = DOMAIN NameMap \cup {p}
           /\ NameMap'[p] = i
           /\ \A q \in DOMAIN NameMap : q # p /\ NameMap'[q] = NameMap[q]
<1>1. files \in [Files -> FileRec] /\ s \in Files /\ files[s].path = Root
  BY DEF FsInv, TypeOK, FileRec, FreeFiles
<1>2. /\ files'[s].path = p /\ files'[s].inode_id = i
      /\ \A t \in Files \ {s} : files'[t] = files[t]
  BY <1>1
<1>3. p # Root /\ \A t \in Files : files[t].path # p
  BY NewName
<1>4. Used(files') = Used(files) \cup {s} /\ s \notin Used(files)
  BY <1>1, <1>2, <1>3 DEF Used
<1>5. OnePath(files) /\ OnePath(files')
  BY DEF FsInv, Tree, OnePath
<1>6. /\ DOMAIN NameMap = {files[t].path : t \in Used(files)}
      /\ DOMAIN NameMap' = {files'[t].path : t \in Used(files')}
      /\ \A t \in Used(files) : NameMap[files[t].path] = files[t].inode_id
      /\ \A t \in Used(files') : NameMap'[files'[t].path] = files'[t].inode_id
  <2>1. /\ DOMAIN NamesIn(files) = {files[t].path : t \in Used(files)}
        /\ \A t \in Used(files) : NamesIn(files)[files[t].path] = files[t].inode_id
    BY <1>5, NamesInFacts
  <2>2. PICK f : f = files'
    OBVIOUS
  <2>3. /\ DOMAIN NamesIn(f) = {f[t].path : t \in Used(f)}
        /\ \A t \in Used(f) : NamesIn(f)[f[t].path] = f[t].inode_id
    <3>1. OnePath(f)
      BY <1>5, <2>2 DEF OnePath
    <3> QED
      BY <3>1, NamesInFacts
  <2> QED
    BY <2>1, <2>2, <2>3, Maps
<1>7. \A t \in Used(files) : t \in Used(files') /\ files'[t] = files[t] /\ files[t].path # p
  BY <1>2, <1>3, <1>4 DEF Used
<1>8. DOMAIN NameMap' = DOMAIN NameMap \cup {p}
  BY <1>2, <1>4, <1>6, <1>7
<1>9. NameMap'[p] = i
  BY <1>2, <1>4, <1>6
<1>10. ASSUME NEW q \in DOMAIN NameMap
       PROVE  q # p /\ NameMap'[q] = NameMap[q]
  <2>1. PICK t \in Used(files) : q = files[t].path
    BY <1>6
  <2>2. t \in Used(files') /\ files'[t] = files[t] /\ files[t].path # p
    BY <1>7
  <2>3. NameMap[q] = files[t].inode_id
    BY <1>6, <2>1
  <2>4. NameMap'[files'[t].path] = files'[t].inode_id
    BY <1>6, <2>2
  <2>5. NameMap'[q] = files[t].inode_id
    BY <2>1, <2>2, <2>4
  <2> QED
    BY <2>1, <2>2, <2>3, <2>5
<1> QED
  BY <1>8, <1>9, <1>10

LEMMA CreateRefines ==
    ASSUME FsInv, FsInv', NEW p, MayName(p), NEW s \in FreeFiles, NEW i \in FreeInodes,
           NEW n \in InodeRec, n.used, n.size <= 1,
           \A c \in Cells : c >= n.size => n.data[c] = Zero,
           files' = [files EXCEPT ![s] = [path |-> p, inode_id |-> i]],
           inodes' = [inodes EXCEPT ![i] = n], dirs' = dirs
    PROVE  Abstract!Create
<1>1. i \in Inodes /\ ~inodes[i].used /\ inodes \in [Inodes -> InodeRec]
  BY DEF FreeInodes, FsInv, TypeOK, InodeRec, Cell
<1>2. p \in Paths \ Abstract!Taken
  BY NewIsFree
<1>3. /\ DOMAIN NameMap' = DOMAIN NameMap \cup {p} /\ NameMap'[p] = i
      /\ \A q \in DOMAIN NameMap : NameMap'[q] = NameMap[q]
  BY <1>1, MapGrows
<1>4. inodes'[i] = n /\ \A j \in Inodes \ {i} : inodes'[j] = inodes[j]
  BY <1>1
<1>5. /\ DOMAIN ContentMap = {j \in Inodes : inodes[j].used}
      /\ DOMAIN ContentMap' = {j \in Inodes : inodes'[j].used}
      /\ \A j \in Inodes : inodes[j].used => ContentMap[j] = Content(inodes[j])
      /\ \A j \in Inodes : inodes'[j].used => ContentMap'[j] = Content(inodes'[j])
  BY Maps, ContentInFacts
<1>6. /\ i \notin DOMAIN ContentMap
      /\ DOMAIN ContentMap' = DOMAIN ContentMap \cup {i}
      /\ \A f \in DOMAIN ContentMap : ContentMap'[f] = ContentMap[f]
      /\ ContentMap'[i] = Content(n)
  BY <1>1, <1>4, <1>5
<1>7. Content(n).size = n.size /\ Content(n).cells = n.data
  BY DEF Content
<1> QED
  BY <1>2, <1>3, <1>6, <1>7 DEF Abstract!Create, Cells

LEMMA SymlinkRefines ==
    ASSUME FsInv, NEW target \in Targets, NEW p, sys_symlinkat(target, p)
    PROVE  Abstract!Create
<1> DEFINE data == [Zeroed EXCEPT ![0] = target]
           n == [used |-> TRUE, kind |-> "lnk", size |-> 1, nlink |-> 1, data |-> data]
<1>1. MayName(p) /\ Create(p, "lnk", 1, data) /\ dirs' = dirs
  BY DEF sys_symlinkat
<1>2. data \in [Cells -> Cell] /\ \A c \in Cells : c >= 1 => data[c] = Zero
  <2>1. data \in [Cells -> Cell]
    BY Records DEF Cell
  <2>2. \A c \in Cells : c >= 1 => data[c] = Zeroed[c] /\ Zeroed[c] = Zero
    <3> SUFFICES ASSUME NEW c \in Cells, c >= 1
                 PROVE  data[c] = Zeroed[c] /\ Zeroed[c] = Zero
      OBVIOUS
    <3>1. c # 0
      BY Sizes
    <3>2. Zeroed[c] = Zero
      BY DEF Zeroed
    <3>3. data[c] = Zeroed[c]
      BY <3>1, Records
    <3> QED
      BY <3>2, <3>3
  <2> QED
    BY <2>1, <2>2
<1> HIDE DEF data
<1>3. PICK s \in Files, i \in Inodes :
        /\ FirstSlot(FreeFiles, s) /\ i \in FreeInodes
        /\ files' = [files EXCEPT ![s] = [path |-> p, inode_id |-> i]]
        /\ inodes' = [inodes EXCEPT ![i] = n]
  BY <1>1, <1>2, Sizes, CreateStep
<1>4. n \in InodeRec /\ n.used /\ n.size = 1 /\ n.data = data
  BY <1>2, Sizes DEF InodeRec
<1>5. FsInv'
  BY SymlinkStep
<1>6. s \in FreeFiles
  BY <1>3 DEF FirstSlot
<1> HIDE DEF n
<1>7. \A c \in Cells : c >= n.size => n.data[c] = Zero
  BY <1>2, <1>4
<1>8. n.size <= 1
  BY <1>4
<1> QED
  BY <1>1, <1>3, <1>4, <1>5, <1>6, <1>7, <1>8, CreateRefines

LEMMA OpenNewRefines ==
    ASSUME FsInv, NEW p, NEW flags, OpenNew(p, flags)
    PROVE  Abstract!Create
<1> DEFINE n == [used |-> TRUE, kind |-> "reg", size |-> 0, nlink |-> 1, data |-> Zeroed]
<1>1. FsInv' /\ MayName(p) /\ dirs' = dirs
  BY OpenNewStep
<1>2. PICK s \in FreeFiles, i \in FreeInodes :
        /\ files' = [files EXCEPT ![s] = [path |-> p, inode_id |-> i]]
        /\ inodes' = [inodes EXCEPT ![i] = n]
  BY OpenNewStep
<1>3. n \in InodeRec /\ n.used /\ n.size = 0 /\ n.data = Zeroed
  BY Records, Sizes DEF InodeRec
<1> HIDE DEF n
<1>4. n.size <= 1 /\ \A c \in Cells : c >= n.size => n.data[c] = Zero
  BY <1>3 DEF Zeroed
<1> QED
  BY <1>1, <1>2, <1>3, <1>4, CreateRefines

LEMMA LinkRefines ==
    ASSUME FsInv, NEW old, NEW new, sys_linkat(old, new)
    PROVE  Abstract!Link
<1>1. PICK t \in FilesAt(old), s \in FreeFiles :
        /\ FilesAt(old) = {t} /\ Valid(t)
        /\ files' = [files EXCEPT ![s] = [path |-> new, inode_id |-> files[t].inode_id]]
        /\ inodes' = [inodes EXCEPT ![files[t].inode_id].nlink = @ + 1]
  BY LinkStep
<1>2. MayName(new) /\ dirs' = dirs /\ FsInv'
  BY LinkStep DEF sys_linkat
<1>3. t \in Files /\ files[t].path = old /\ files[t].path # Root
  BY <1>1 DEF FilesAt
<1>4. PICK i \in Inodes : i = files[t].inode_id
  BY <1>3, SlotInUse
<1>5. new \in Paths \ Abstract!Taken
  BY <1>2, NewIsFree
<1>6. old \in DOMAIN NameMap /\ NameMap[old] = i
  <2>1. t \in Used(files)
    BY <1>3 DEF Used
  <2>2. OnePath(files)
    BY InvOnePath
  <2> QED
    BY <1>3, <1>4, <2>1, <2>2, Maps, NamesInFacts
<1>7. /\ DOMAIN NameMap' = DOMAIN NameMap \cup {new} /\ NameMap'[new] = i
      /\ \A q \in DOMAIN NameMap : q # new /\ NameMap'[q] = NameMap[q]
  BY <1>1, <1>2, <1>4, MapGrows
<1>8. NameMap' = [x \in DOMAIN NameMap \cup {new} |-> IF x = new THEN NameMap[old] ELSE NameMap[x]]
  <2>1. NameMap' = [x \in DOMAIN NameMap' |-> NameMap'[x]]
    BY Maps DEF NamesIn
  <2> QED
    BY <1>6, <1>7, <2>1
<1>9. ContentMap' = ContentMap
  <2>1. inodes \in [Inodes -> InodeRec]
    BY DEF FsInv, TypeOK, InodeRec, Cell
  <2> DEFINE n == [inodes[i] EXCEPT !.nlink = @ + 1]
  <2>2. n.used = inodes[i].used /\ n.size = inodes[i].size /\ n.data = inodes[i].data
    BY <2>1 DEF InodeRec
  <2>3. inodes' = [inodes EXCEPT ![i] = n]
    BY <1>1, <1>4
  <2> HIDE DEF n
  <2>4. \A j \in Inodes : inodes'[j].used = inodes[j].used /\ Content(inodes'[j]) = Content(inodes[j])
    BY <2>1, <2>2, <2>3 DEF Content
  <2>5. ContentIn(inodes') = ContentIn(inodes)
    BY <2>4 DEF ContentIn
  <2> QED
    BY <2>5, Maps
<1> QED
  BY <1>2, <1>5, <1>6, <1>8, <1>9 DEF Abstract!Link

LEMMA UnlinkRefines ==
    ASSUME FsInv, NEW p \in Paths, sys_unlinkat(p)
    PROVE  Abstract!Unlink
<1>1. PICK s \in Files :
        /\ FilesAt(p) = {s} /\ files[s].path = p
        /\ files' = [files EXCEPT ![s] = NoFile]
        /\ inodes' = [inodes EXCEPT ![files[s].inode_id] = Dropped(@)]
        /\ inodes[files[s].inode_id].nlink <= 1 <=> NamesOf(files[s].inode_id) = {s}
  BY UnlinkStep
<1>2. FsInv' /\ dirs' = dirs
  BY UnlinkStep DEF sys_unlinkat
<1>3. p # Root /\ files \in [Files -> FileRec] /\ inodes \in [Inodes -> InodeRec]
  BY Sizes DEF FsInv, TypeOK, FileRec, InodeRec, Cell
<1>4. PICK i \in Inodes : i = files[s].inode_id
  BY <1>1, <1>3, SlotInUse
<1>5. inodes[i].used /\ s \in Used(files)
  BY <1>1, <1>3, <1>4, SlotInUse DEF Used, InodeOf
<1>6. /\ files'[s].path = Root /\ \A t \in Files \ {s} : files'[t] = files[t]
      /\ \A t \in Files \ {s} : files[t].path # p
  BY <1>1, <1>3, Records DEF FilesAt
<1>7. Used(files') = Used(files) \ {s}
  BY <1>6 DEF Used
<1>8. /\ DOMAIN NameMap = {files[t].path : t \in Used(files)}
      /\ \A t \in Used(files) : NameMap[files[t].path] = files[t].inode_id
  BY InvOnePath, Maps, NamesInFacts
<1>9. /\ DOMAIN NameMap' = {files'[t].path : t \in Used(files')}
      /\ \A t \in Used(files') : NameMap'[files'[t].path] = files'[t].inode_id
  <2>1. PICK f : f = files'
    OBVIOUS
  <2>2. OnePath(f)
    BY <1>2, <2>1 DEF FsInv, Tree, OnePath
  <2>3. /\ DOMAIN NamesIn(f) = {f[t].path : t \in Used(f)}
        /\ \A t \in Used(f) : NamesIn(f)[f[t].path] = f[t].inode_id
    BY <2>2, NamesInFacts
  <2> QED
    BY <2>1, <2>3, Maps
<1>10. \A t \in Used(files') : t \in Used(files) \ {s} /\ files'[t] = files[t]
  BY <1>6, <1>7 DEF Used
<1>11. DOMAIN NameMap' = DOMAIN NameMap \ {p}
  <2>1. \A t \in Used(files) : t # s => t \in Used(files') /\ files[t].path # p
    BY <1>6, <1>7 DEF Used
  <2>2. \A q \in DOMAIN NameMap' : q \in DOMAIN NameMap \ {p}
    BY <1>8, <1>9, <1>10, <2>1
  <2>3. \A q \in DOMAIN NameMap \ {p} : q \in DOMAIN NameMap'
    <3> SUFFICES ASSUME NEW q \in DOMAIN NameMap \ {p}
                 PROVE  q \in DOMAIN NameMap'
      OBVIOUS
    <3>1. PICK t \in Used(files) : q = files[t].path
      BY <1>8
    <3>2. t # s
      BY <1>1, <3>1
    <3>3. t \in Used(files') /\ files'[t].path = q
      BY <1>10, <2>1, <3>1, <3>2
    <3> QED
      BY <1>9, <3>3
  <2> QED
    BY <2>2, <2>3
<1>12. ASSUME NEW q \in DOMAIN NameMap' PROVE NameMap'[q] = NameMap[q]
  <2>1. PICK t \in Used(files') : q = files'[t].path
    BY <1>9
  <2>2. t \in Used(files) /\ files'[t] = files[t]
    BY <1>10
  <2>3. NameMap'[q] = files[t].inode_id
    BY <1>9, <2>1, <2>2
  <2>4. NameMap[files[t].path] = files[t].inode_id
    BY <1>8, <2>2
  <2> QED
    BY <2>1, <2>2, <2>3, <2>4
<1>13. NameMap' = Abstract!Without(NameMap, p)
  <2>1. NameMap' = [x \in DOMAIN NameMap' |-> NameMap'[x]]
    BY Maps DEF NamesIn
  <2> QED
    BY <1>11, <1>12, <2>1 DEF Abstract!Without
<1>14. p \in DOMAIN NameMap /\ NameMap[p] = i
  BY <1>1, <1>4, <1>5, <1>8
<1>15. (\E q \in DOMAIN NameMap \ {p} : NameMap[q] = i) <=> NamesOf(i) # {s}
  <2>1. s \in NamesOf(i)
    BY <1>1, <1>3, <1>4 DEF NamesOf
  <2>2. ASSUME NEW t \in NamesOf(i), t # s
        PROVE  \E q \in DOMAIN NameMap \ {p} : NameMap[q] = i
    <3>1. t \in Used(files) /\ files[t].inode_id = i /\ files[t].path # p
      BY <1>6, <2>2 DEF NamesOf, Used
    <3> QED
      BY <1>8, <3>1
  <2>3. ASSUME NEW q \in DOMAIN NameMap \ {p}, NameMap[q] = i
        PROVE  NamesOf(i) # {s}
    <3>1. PICK t \in Used(files) : q = files[t].path
      BY <1>8
    <3>2. t # s /\ t \in NamesOf(i)
      BY <1>1, <1>8, <2>3, <3>1 DEF NamesOf, Used
    <3> QED
      BY <3>2
  <2> QED
    BY <2>1, <2>2, <2>3
<1>16. CASE inodes[i].nlink <= 1
  <2>1. inodes' = [inodes EXCEPT ![i] = NoInode]
    BY <1>1, <1>4, <1>16 DEF Dropped
  <2>2. \A j \in Inodes : inodes'[j].used <=> inodes[j].used /\ j # i
    BY <1>3, <2>1, Records
  <2>3. \A j \in Inodes \ {i} : inodes'[j] = inodes[j]
    BY <1>3, <2>1
  <2>4. {j \in Inodes : inodes'[j].used} = {j \in Inodes : inodes[j].used} \ {i}
    BY <2>2
  <2>5. ContentIn(inodes') = [j \in DOMAIN ContentIn(inodes) \ {i} |-> ContentIn(inodes)[j]]
    BY <2>3, <2>4 DEF ContentIn
  <2>6. ContentMap' = Abstract!Without(ContentMap, i)
    BY <2>5, Maps DEF Abstract!Without
  <2>7. ~\E q \in DOMAIN NameMap \ {p} : NameMap[q] = i
    BY <1>1, <1>4, <1>15, <1>16
  <2> QED
    BY <1>2, <1>13, <1>14, <2>6, <2>7 DEF Abstract!Unlink
<1>17. CASE ~(inodes[i].nlink <= 1)
  <2> DEFINE n == [inodes[i] EXCEPT !.nlink = @ - 1]
  <2>1. inodes' = [inodes EXCEPT ![i] = n]
    BY <1>1, <1>4, <1>17 DEF Dropped
  <2>2. n.used = inodes[i].used /\ n.size = inodes[i].size /\ n.data = inodes[i].data
    BY <1>3 DEF InodeRec
  <2> HIDE DEF n
  <2>3. \A j \in Inodes : inodes'[j].used = inodes[j].used /\ Content(inodes'[j]) = Content(inodes[j])
    BY <1>3, <2>1, <2>2 DEF Content
  <2>4. ContentIn(inodes') = ContentIn(inodes)
    BY <2>3 DEF ContentIn
  <2>5. \E q \in DOMAIN NameMap \ {p} : NameMap[q] = i
    BY <1>1, <1>4, <1>15, <1>17
  <2> QED
    BY <1>2, <1>13, <1>14, <2>4, <2>5, Maps DEF Abstract!Unlink
<1> QED
  BY <1>16, <1>17

\* What one file holds changes.
LEMMA OneFileChanges ==
    ASSUME FsInv, NEW i \in Inodes, inodes[i].used, NEW n, n.used,
           inodes' = [inodes EXCEPT ![i] = n], UNCHANGED <<dirs, files>>
    PROVE  /\ Abstract!OnlyFile(i) /\ i \in DOMAIN ContentMap
           /\ ContentMap[i] = Content(inodes[i]) /\ ContentMap'[i] = Content(n)
<1>1. inodes'[i] = n /\ \A j \in Inodes \ {i} : inodes'[j] = inodes[j]
  BY DEF FsInv, TypeOK
<1>2. /\ DOMAIN ContentMap = {j \in Inodes : inodes[j].used}
      /\ DOMAIN ContentMap' = {j \in Inodes : inodes'[j].used}
      /\ \A j \in Inodes : inodes[j].used => ContentMap[j] = Content(inodes[j])
      /\ \A j \in Inodes : inodes'[j].used => ContentMap'[j] = Content(inodes'[j])
  BY Maps, ContentInFacts
<1>3. DOMAIN ContentMap' = DOMAIN ContentMap
  BY <1>1, <1>2
<1>4. \A g \in DOMAIN ContentMap \ {i} : ContentMap'[g] = ContentMap[g]
  BY <1>1, <1>2
<1>5. NameMap' = NameMap
  BY Maps
<1> QED
  BY <1>1, <1>2, <1>3, <1>4, <1>5 DEF Abstract!OnlyFile

LEMMA WriteRefines ==
    ASSUME FsInv, NEW d \in Descs, NEW len \in Lens, NEW b \in Bytes, sys_write(d, len, b)
    PROVE  Abstract!Write
<1>1. PICK i \in Inodes, at \in 0 .. RAMFILE_CAP - 1, n \in 1 .. RAMFILE_CAP :
        /\ inodes[i].used /\ at + n <= RAMFILE_CAP
        /\ inodes' = [inodes EXCEPT ![i] = Written(inodes[i], at, n, b)]
  BY WriteStep
<1> DEFINE data == [c \in Cells |-> IF at <= c /\ c < at + n THEN b ELSE inodes[i].data[c]]
           w == [inodes[i] EXCEPT !.data = data, !.size = AtLeast(@, at + n)]
<1>2. UNCHANGED <<dirs, files>>
  BY DEF sys_write
<1>3. inodes[i] \in InodeRec
  BY DEF FsInv, TypeOK, InodeRec, Cell
<1>4. w.used /\ w.size = AtLeast(inodes[i].size, at + n) /\ w.data = data
  BY <1>1, <1>3 DEF InodeRec
<1>5. inodes' = [inodes EXCEPT ![i] = w]
  BY <1>1 DEF Written
<1> HIDE DEF w
<1>6. /\ Abstract!OnlyFile(i) /\ i \in DOMAIN ContentMap
      /\ ContentMap[i] = Content(inodes[i]) /\ ContentMap'[i] = Content(w)
  BY <1>1, <1>2, <1>4, <1>5, OneFileChanges
<1>7. /\ ContentMap[i].size = inodes[i].size /\ ContentMap[i].cells = inodes[i].data
      /\ ContentMap'[i].size = w.size /\ ContentMap'[i].cells = w.data
  BY <1>6 DEF Content
<1>8. ContentMap'[i].size = IF at + n > ContentMap[i].size THEN at + n ELSE ContentMap[i].size
  <2>1. inodes[i].size \in Nat /\ at + n \in Nat
    BY <1>3, Sizes DEF InodeRec
  <2> QED
    BY <1>4, <1>7, <2>1 DEF AtLeast
<1>9. \A c \in Cells : c < at \/ c >= at + n => ContentMap'[i].cells[c] = ContentMap[i].cells[c]
  <2> SUFFICES ASSUME NEW c \in Cells, c < at \/ c >= at + n
               PROVE  data[c] = inodes[i].data[c]
    BY <1>4, <1>7
  <2> QED
    BY Sizes
<1> QED
  BY <1>1, <1>6, <1>8, <1>9 DEF Abstract!Write, Cells

LEMMA OpenExistingRefines ==
    ASSUME FsInv, NEW p, NEW flags, OpenExisting(p, flags)
    PROVE  Abstract!Truncate \/ UNCHANGED <<dirs, NameMap, ContentMap>>
<1>1. PICK s \in Files :
        /\ files[s].path # Root
        /\ inodes' = inodes \/ inodes' = [inodes EXCEPT ![files[s].inode_id].size = 0]
  BY OpenExistingStep
<1>2. UNCHANGED <<dirs, files>>
  BY DEF OpenExisting
<1>3. PICK i \in Inodes : i = files[s].inode_id
  BY <1>1, SlotInUse
<1>4. inodes[i].used /\ inodes[i] \in InodeRec
  BY <1>1, <1>3, SlotInUse DEF FsInv, TypeOK, InodeRec, Cell, InodeOf
<1>5. CASE inodes' = inodes
  BY <1>2, <1>5, Maps
<1>6. CASE inodes' = [inodes EXCEPT ![i].size = 0]
  <2> DEFINE n == [inodes[i] EXCEPT !.size = 0]
  <2>1. n.used /\ n.size = 0 /\ n.data = inodes[i].data /\ inodes' = [inodes EXCEPT ![i] = n]
    BY <1>4, <1>6 DEF InodeRec
  <2> HIDE DEF n
  <2>2. /\ Abstract!OnlyFile(i) /\ i \in DOMAIN ContentMap
        /\ ContentMap[i] = Content(inodes[i]) /\ ContentMap'[i] = Content(n)
    BY <1>2, <1>4, <2>1, OneFileChanges
  <2>3. Content(n) = [Content(inodes[i]) EXCEPT !.size = 0]
    BY <2>1 DEF Content
  <2> QED
    BY <2>2, <2>3 DEF Abstract!Truncate
<1> QED
  BY <1>1, <1>3, <1>5, <1>6

\* vfs.c and sys_fs.c implement the abstract file system: every call is one of
\* its operations, whatever slots it uses, or changes nothing there.
THEOREM ImplementsFs == Spec => ImplementsFiles
<1> DEFINE Seen == <<dirs, NameMap, ContentMap>>
<1>1. Init => Abstract!Init
  <2> SUFFICES ASSUME Init PROVE Abstract!Init
    OBVIOUS
  <2>1. Used(files) = {} /\ {j \in Inodes : inodes[j].used} = {}
    <3>1. /\ \A s \in Files : files[s] = NoFile
          /\ \A i \in Inodes : inodes[i] = NoInode
      BY DEF Init
    <3> QED
      BY <3>1, Records DEF Used
  <2>2. DOMAIN NameMap = {} /\ DOMAIN ContentMap = {}
    BY <2>1, Maps DEF NamesIn, ContentIn
  <2>3. NameMap = <<>> /\ ContentMap = <<>>
    <3>1. NameMap = [x \in DOMAIN NameMap |-> NameMap[x]]
      BY Maps DEF NamesIn
    <3>2. ContentMap = [x \in DOMAIN ContentMap |-> ContentMap[x]]
      BY Maps DEF ContentIn
    <3> QED
      BY <2>2, <3>1, <3>2
  <2> QED
    BY <2>3 DEF Init, Abstract!Init
<1>2. FsInv /\ [Next]_vars => [Abstract!Next]_Seen
  <2> SUFFICES ASSUME FsInv, [Next]_vars PROVE Abstract!Next \/ UNCHANGED Seen
    OBVIOUS
  <2>0. ASSUME UNCHANGED <<dirs, files, inodes>> PROVE UNCHANGED Seen
    BY <2>0, Maps
  <2>1. ASSUME NEW p \in Paths, sys_mkdirat(p) PROVE Abstract!Next
    BY <2>1, MkdirRefines DEF Abstract!Next
  <2>2. ASSUME NEW p \in Paths, sys_unlinkat(p) PROVE Abstract!Next
    BY <2>2, UnlinkRefines DEF Abstract!Next
  <2>3. ASSUME NEW p \in Paths, sys_rmdir(p) PROVE Abstract!Next
    BY <2>3, RmdirRefines DEF Abstract!Next
  <2>4. ASSUME NEW p \in Paths, NEW t \in Targets, sys_symlinkat(t, p) PROVE Abstract!Next
    BY <2>4, SymlinkRefines DEF Abstract!Next
  <2>5. ASSUME NEW p \in Paths, NEW q \in Paths, sys_linkat(p, q) PROVE Abstract!Next
    BY <2>5, LinkRefines DEF Abstract!Next
  <2>6. ASSUME NEW p \in Paths \cup {Root}, NEW flags \in FlagSets, sys_openat(p, flags)
        PROVE  Abstract!Next \/ UNCHANGED Seen
    <3>1. CASE OpenExisting(Resolved(p), flags)
      BY <3>1, OpenExistingRefines DEF Abstract!Next
    <3>2. CASE OpenNew(Resolved(p), flags)
      BY <3>2, OpenNewRefines DEF Abstract!Next
    <3>3. CASE OpenReadOnly(Resolved(p), flags)
      BY <2>0, <3>3 DEF OpenReadOnly
    <3> QED
      BY <2>6, <3>1, <3>2, <3>3, OpenatCases
  <2>7. ASSUME NEW d \in Descs, NEW len \in Lens, NEW b \in Bytes, sys_write(d, len, b)
        PROVE  Abstract!Next
    BY <2>7, WriteRefines DEF Abstract!Next
  <2>8. ASSUME NEW d \in Descs,
               \/ sys_close(d)
               \/ \E len \in Lens : sys_read(d, len)
               \/ \E off \in 0 .. RAMFILE_CAP : sys_lseek(d, off)
        PROVE  UNCHANGED Seen
    BY <2>0, <2>8 DEF sys_close, sys_read, sys_lseek
  <2>9. CASE UNCHANGED vars
    BY <2>0, <2>9 DEF vars
  <2> HIDE DEF Seen
  <2> QED
    BY <2>1, <2>2, <2>3, <2>4, <2>5, <2>6, <2>7, <2>8, <2>9 DEF Next
<1> QED
  BY <1>1, <1>2, FsInvariant, PTL DEF Spec, ImplementsFiles, Abstract!Spec, Abstract!vars
=============================================================================
