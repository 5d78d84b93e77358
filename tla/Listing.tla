------------------------------- MODULE Listing -------------------------------
(***************************************************************************)
(* Listing a directory in pieces: getdents64 over the initramfs and the    *)
(* RAM overlay, whose position is a count of entries, read by `ls` and by  *)
(* `rm -r`, while files come and go.                                       *)
(***************************************************************************)
EXTENDS Integers, FiniteSets, SequencesExt, Functions

CONSTANTS
    Archive,   \* children of the directory as the archive's entries name them
    Names,     \* names of files that come and go in the overlay
    RecLen,    \* length of a name's record
    NSlots,    \* MAX_RAMDIRS + MAX_RAMFILES
    BufLen,    \* length of the caller's buffer
    MAX_ENTRIES, \* names rm remembers in a round
    Rounds,    \* rounds rm tries
    MaxChanges \* files created or removed meanwhile: bounds the model

ListingAssumption ==
    /\ {NSlots, BufLen, MAX_ENTRIES, Rounds, MaxChanges} \subseteq Nat
    /\ Range(Archive) \cup Names \subseteq DOMAIN RecLen
    /\ \A n \in DOMAIN RecLen : RecLen[n] \in 1 .. BufLen

Slots == 1 .. NSlots
Free  == "free"
Table == [Slots -> Names \cup {Free}]

VARIABLES
    client,  \* "ls" or "rm"
    base,    \* what the archive has in the directory
    slots,   \* the overlay's entries in it, in the order of the tables
    off,     \* the description's position
    listed,  \* names read since the directory was opened
    pc,      \* "read", "remove", "ok" or "failed"
    round,
    start,   \* history: what the directory held when it was first opened
    changes  \* history: files created or removed by others since

vars == <<client, base, slots, off, listed, pc, round, start, changes>>

InOverlay == Range(slots) \ {Free}
Present   == Range(base) \cup InOverlay

Init ==
    /\ client \in {"ls", "rm"}
    /\ base \in IF client = "ls" THEN {<<>>, Archive} ELSE {<<>>}
    /\ slots \in {t \in Table : \A a, b \in Slots : t[a] = t[b] /\ a # b => t[a] = Free}
    /\ off = 0 /\ listed = <<>> /\ pc = "read" /\ round = 1
    /\ start = Present /\ changes = 0

-----------------------------------------------------------------------------
(* One getdents64.  A walk is a record: entries counted, room left, names  *)
(* written, names seen, and whether the walk was stopped.                  *)

\* Mutation: an entry that does not fit is counted all the same.
dents_emit_cb_Counts(w, n) ==
    IF w.emitted < off THEN [w EXCEPT !.emitted = @ + 1]
    ELSE IF RecLen[n] > w.room THEN [w EXCEPT !.stopped = TRUE, !.emitted = @ + 1]
    ELSE [w EXCEPT !.emitted = @ + 1, !.room = @ - RecLen[n], !.out = Append(@, n)]

dents_emit_cb(w, n) ==
    IF w.emitted < off THEN [w EXCEPT !.emitted = @ + 1]
    ELSE IF RecLen[n] > w.room THEN [w EXCEPT !.stopped = TRUE]
    ELSE [w EXCEPT !.emitted = @ + 1, !.room = @ - RecLen[n], !.out = Append(@, n)]

\* Each child once, though the archive names it and all that is below it (of
\* directories with at most the 128 names that vfs_list_ctx_t remembers).
vfs_list_emit_unique(w, n) ==
    IF w.stopped \/ n \in w.seen THEN w
    ELSE dents_emit_cb([w EXCEPT !.seen = @ \cup {n}], n)

EmitEach(start0, names) ==
    LET w[i \in 0 .. Len(names)] ==
          IF i = 0 THEN start0 ELSE vfs_list_emit_unique(w[i - 1], names[i])
    IN w[Len(names)]

\* The archive's entries; being stopped there stops only them.
initramfs_list_dir(w) == [EmitEach(w, base) EXCEPT !.stopped = FALSE]

\* vfs_list_dir: then the tables'.
vfs_list_dir ==
    EmitEach(initramfs_list_dir([emitted |-> 0, room |-> BufLen, out |-> <<>>,
                                 seen |-> {}, stopped |-> FALSE]),
             SelectSeq(slots, LAMBDA n : n # Free))

\* The position after a call is the number of entries counted.
NewOff(w) == IF w.emitted > off THEN w.emitted ELSE off

\* ls prints what it reads, until nothing comes.  Being stopped in the tables
\* makes the whole call fail, whatever it wrote.
ls ==
    /\ client = "ls" /\ pc = "read"
    /\ LET w == vfs_list_dir
       IN IF w.stopped THEN pc' = "failed" /\ UNCHANGED <<off, listed>>
          ELSE /\ off' = NewOff(w)
               /\ listed' = listed \o w.out
               /\ pc' = IF w.out = <<>> THEN "ok" ELSE "read"
    /\ UNCHANGED <<client, base, slots, round, start, changes>>

-----------------------------------------------------------------------------
(* rm -r: read a batch of names, close, remove them, begin again.          *)

\* rm_dir_children's loop of getdents64.
ReadBatch ==
    /\ client = "rm" /\ pc = "read"
    /\ LET w    == vfs_list_dir
           got  == listed \o w.out
           full == Len(got) >= MAX_ENTRIES
       IN IF w.stopped THEN pc' = "failed" /\ UNCHANGED <<off, listed>>
          ELSE /\ off' = NewOff(w)
               /\ listed' = IF full THEN SubSeq(got, 1, MAX_ENTRIES) ELSE got
               /\ pc' = IF w.out # <<>> /\ ~full THEN "read"
                        ELSE IF listed' = <<>> THEN "rmdir" ELSE "remove"
    /\ UNCHANGED <<client, base, slots, round, start, changes>>

Without(n) == [s \in Slots |-> IF slots[s] = n THEN Free ELSE slots[s]]

\* rm_path of one name; a file that is gone already is no matter.
RemoveOne ==
    /\ pc = "remove" /\ listed # <<>>
    /\ slots' = Without(Head(listed))
    /\ listed' = Tail(listed)
    /\ UNCHANGED <<client, base, off, pc, round, start, changes>>

\* Mutation: the directory is read on where the last batch ended.
Reopened_Kept == off

Reopened == 0

NextRound ==
    /\ pc = "remove" /\ listed = <<>>
    /\ off' = Reopened
    /\ round' = round + 1
    /\ pc' = IF round = Rounds THEN "failed" ELSE "read"
    /\ UNCHANGED <<client, base, slots, listed, start, changes>>

\* unlinkat with AT_REMOVEDIR, which wants the directory empty.
Rmdir ==
    /\ pc = "rmdir"
    /\ pc' = IF Present = {} THEN "ok" ELSE "failed"
    /\ UNCHANGED <<client, base, slots, off, listed, round, start, changes>>

-----------------------------------------------------------------------------
(* Another process.                                                        *)

Change ==
    /\ pc \in {"read", "remove", "rmdir"} /\ changes < MaxChanges
    /\ \E n \in Names :
         IF n \in InOverlay THEN slots' = Without(n)
         ELSE \E s \in Slots : /\ slots[s] = Free
                               /\ \A r \in 1 .. s - 1 : slots[r] # Free
                               /\ slots' = [slots EXCEPT ![s] = n]
    /\ changes' = changes + 1
    /\ UNCHANGED <<client, base, off, listed, pc, round, start>>

Work == ls \/ ReadBatch \/ RemoveOne \/ NextRound \/ Rmdir
Next == Work \/ Change
Spec == Init /\ [][Next]_vars

-----------------------------------------------------------------------------
(* Properties.                                                             *)

Bytes(S) == Cardinality({p \in S \X (1 .. BufLen) : p[2] <= RecLen[p[1]]})

\* While nothing changes, a directory that is all in the archive, or fits the
\* buffer, is listed in full, every name once, in as many calls as it takes
\* and however the archive's entries interleave.  With changes, no name is
\* listed that never was there.
ListedOnce ==
    client = "ls" =>
      /\ (changes = 0 /\ (InOverlay = {} \/ Bytes(Present) <= BufLen)) =>
           /\ pc # "failed"
           /\ IsInjective(listed)
           /\ pc = "ok" => Range(listed) = start
      /\ Range(listed) \subseteq start \cup Names

\* rm -r, which empties in rounds the directory it is reading, says that it
\* has removed it only when it has; and as long as nobody adds files, and the
\* directory's entries fit the buffer, it does.
RmRight ==
    client = "rm" /\ Bytes(start) <= BufLen /\ changes = 0 => pc # "failed"

\* sys_fs.c:1337: "Advance directory position by entries emitted in this
\* call."  Every entry is then listed by some call.
EveryEntryListed == client = "ls" /\ pc = "ok" /\ changes = 0 => Range(listed) = start
=============================================================================
