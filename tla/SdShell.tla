------------------------------- MODULE SdShell -------------------------------
(***************************************************************************)
(* The file commands of src/src/sdcard.c on the FAT volume that            *)
(* src/src/ff.c keeps: a window with one sector of the directory or of the *)
(* FAT, the sector buffer of the open file, and the mount state. An action *)
(* is what runs up to the next access to the card; the access may fail,    *)
(* the program may be reset, and cards may go, come or be exchanged        *)
(* between any two of them.                                                *)
(*                                                                         *)
(* disk_status, disk_read and disk_write work as SdCard shows: they        *)
(* succeed, or report an error and change nothing, and they initialise an  *)
(* exchanged card by themselves. The volumes are FAT16 with one sector per *)
(* cluster; one sector holds the directory, another the FAT.               *)
(***************************************************************************)
EXTENDS Integers, FiniteSetsExt

CONSTANTS
    Cards, NoCard,
    Files,         \* the names the user uses
    NumClusters,   \* the clusters of a card
    PerSector,     \* how many typed lines a sector holds
    MaxSize,       \* bound: the longest file, in lines
    MaxFaults      \* bound: the resets and the cards taken out

ASSUME ShellAssumption ==
    /\ NoCard \notin Cards
    /\ NumClusters \in Nat \ {0} /\ PerSector \in Nat \ {0}
    /\ MaxSize \in Nat /\ MaxFaults \in Nat

Clusters == 2..(NumClusters + 1)
EOC == NumClusters + 2          \* the mark of a chain's last cluster
Absent == [size |-> -1, first |-> 0]
New == [size |-> 0, first |-> 0]

VARIABLES
    card,     \* the card in the slot
    disk,     \* what each card holds: directory, FAT and data clusters
    reg,      \* whether FatFs[0] points to fs_storage
    fs,       \* fs_storage: type, id (if it ever got one), last_clst, the window
    fil,      \* the FIL of append and input
    op, name, \* the command under way and its file
    pc,       \* what it does next
    want,     \* history: how many lines its file should have in the end
    trouble,  \* history: a FatFs call of it failed, or wrote less than asked
    from,     \* history: the card whose volume is mounted
    crossed,  \* history: an access for that volume went to another card
    faults    \* history: the resets and the cards taken out

call == <<op, name, pc, want, trouble>>
vars == <<card, disk, reg, fs, fil, call, from, crossed, faults>>

NoFile == [size |-> 0, first |-> 0, clust |-> 0, sect |-> 0, buf |-> 0,
           dirty |-> FALSE, modified |-> FALSE, err |-> FALSE]

\* After a reset the file system object is zero.
Unmounted == [type |-> FALSE, id |-> FALSE, last |-> 0, win |-> "none", img |-> 0, wflag |-> FALSE]

Blank == [dir |-> [f \in Files |-> Absent], fat |-> [k \in Clusters |-> 0],
          data |-> [k \in Clusters |-> [of |-> "none", n |-> 0]]]

Init ==
    /\ card \in Cards /\ disk = [c \in Cards |-> Blank]
    /\ reg = FALSE /\ fs = Unmounted /\ fil = NoFile
    /\ op = "none" /\ name = "none" /\ pc = "prompt" /\ want = 0 /\ trouble = FALSE
    /\ from = NoCard /\ crossed = FALSE /\ faults = 0

-----------------------------------------------------------------------------
(* The world.                                                                *)

Remove ==
    /\ card # NoCard /\ faults < MaxFaults
    /\ card' = NoCard /\ faults' = faults + 1
    /\ UNCHANGED <<disk, reg, fs, fil, call, from, crossed>>

Insert(c) ==
    /\ card = NoCard
    /\ card' = c
    /\ UNCHANGED <<disk, reg, fs, fil, call, from, crossed, faults>>

\* The command is over, with or without trouble; its FIL is gone with it.
Return(bad) ==
    /\ pc' = "prompt" /\ op' = "none" /\ name' = "none" /\ want' = 0
    /\ fil' = NoFile
    /\ trouble' = (trouble \/ bad)

Goto(step, f) == pc' = step /\ fil' = f /\ UNCHANGED <<op, name, want, trouble>>

\* Back to the loop of input and append, for the next line.
NextLine(bad, f) ==
    /\ pc' = "line" /\ fil' = f
    /\ trouble' = (trouble \/ bad)
    /\ UNCHANGED <<op, name, want>>

\* The reset button, or restart: the cards keep what they hold.
Reset ==
    /\ faults < MaxFaults /\ faults' = faults + 1
    /\ reg' = FALSE /\ fs' = Unmounted /\ Return(TRUE) /\ from' = NoCard
    /\ UNCHANGED <<card, disk, crossed>>

-----------------------------------------------------------------------------
(* Accesses to the card in the slot, wherever the volume was mounted from.   *)
(* They fail without a card; a failure with a card in the slot is as if it   *)
(* had been taken out and put back.                                          *)

Works == card # NoCard
Fails == ~Works

Touched == crossed' = (crossed \/ card # from)

Put(part, new) == Works /\ Touched /\ disk' = [disk EXCEPT ![card][part] = new]

\* An error in the middle of a call: ABORT in f_write marks the file and
\* append goes on with the next line, any other call ends the command.
Abort == IF pc \in {"create", "flush"} THEN NextLine(TRUE, [fil EXCEPT !.err = TRUE])
                                       ELSE Return(TRUE)

\* The sector that has to be in the window for the next step.
Wanted == CASE pc \in {"lookup", "entry"} -> "dir"
            [] pc \in {"chain", "seek", "create"} -> "fat"
            [] OTHER -> fs.win

\* move_window: sync_window, if the window is dirty ...
SyncWindow ==
    /\ Wanted # fs.win /\ fs.wflag
    /\ \/ Put(fs.win, fs.img) /\ fs' = [fs EXCEPT !.wflag = FALSE] /\ UNCHANGED <<fil, call>>
       \/ Fails /\ Abort /\ UNCHANGED <<disk, crossed, fs>>
    /\ UNCHANGED <<card, reg, from, faults>>

\* Mutant: what is in the window is not written back before it is replaced.
LoadWindow_Dirty ==
    /\ Wanted # fs.win
    /\ \/ /\ Works /\ Touched
          /\ fs' = [fs EXCEPT !.win = Wanted, !.img = disk[card][Wanted], !.wflag = FALSE]
          /\ UNCHANGED <<fil, call>>
       \/ Fails /\ Abort /\ fs' = [fs EXCEPT !.win = "none", !.img = 0] /\ UNCHANGED crossed
    /\ UNCHANGED <<card, disk, reg, from, faults>>

\* ... and the read of the sector.
LoadWindow ==
    /\ Wanted # fs.win /\ ~fs.wflag
    /\ \/ /\ Works /\ Touched
          /\ fs' = [fs EXCEPT !.win = Wanted, !.img = disk[card][Wanted]]
          /\ UNCHANGED <<fil, call>>
       \/ Fails /\ Abort /\ fs' = [fs EXCEPT !.win = "none", !.img = 0] /\ UNCHANGED crossed
    /\ UNCHANGED <<card, disk, reg, from, faults>>

\* The step runs once its sector is in the window.
At(step) == pc = step /\ Wanted = fs.win

Dirtied(new) == fs' = [fs EXCEPT !.img = new, !.wflag = TRUE]

\* sync_fs: the window, then CTRL_SYNC, which may fail on its own; the end of
\* f_unlink and of f_sync.
SyncFs ==
    /\ pc = "sync"
    /\ \/ fs.wflag /\ Put(fs.win, fs.img) /\ \E bad \in BOOLEAN : Return(bad)
          /\ fs' = [fs EXCEPT !.wflag = FALSE]
       \/ Fails /\ Return(TRUE) /\ UNCHANGED <<disk, crossed, fs>>
    /\ UNCHANGED <<card, reg, from, faults>>

-----------------------------------------------------------------------------
(* mount, unmount, and mount_volume, with which every command begins.        *)

\* A command that finds no registered volume prints an error and is over.
Command(o, f) ==
    /\ pc = "prompt" /\ reg
    /\ op' = o /\ name' = f /\ want' = 0 /\ trouble' = FALSE
    /\ pc' = "volume"
    /\ UNCHANGED <<card, disk, reg, fs, fil, from, crossed, faults>>

\* mount: f_mount registers the object and mounts at once. Once it has an id
\* mount does nothing any more.
mount ==
    /\ pc = "prompt" /\ ~fs.id
    /\ reg' = TRUE /\ fs' = [fs EXCEPT !.type = FALSE]
    /\ op' = "mount" /\ trouble' = FALSE /\ pc' = "volume"
    /\ UNCHANGED <<card, disk, fil, name, want, from, crossed, faults>>

\* unmount: f_mount(0, ...) clears the type, not the id.
unmount ==
    /\ pc = "prompt" /\ fs.id
    /\ reg' = FALSE /\ fs' = IF reg THEN [fs EXCEPT !.type = FALSE] ELSE fs
    /\ UNCHANGED <<card, disk, fil, call, from, crossed, faults>>

AfterVolume == IF op = "mount" THEN Return(FALSE) ELSE Goto("lookup", fil)

\* disk_status says the drive is ready: the tables in memory are taken to be
\* those of the card.
StillMounted ==
    /\ pc = "volume" /\ fs.type /\ Works
    /\ AfterVolume
    /\ UNCHANGED <<card, disk, reg, fs, from, crossed, faults>>

\* It is not, or nothing is mounted: disk_initialize and the boot sector. What
\* the window held is dropped, written or not.
MountVolume ==
    /\ pc = "volume"
    /\ \/ /\ Works
          /\ fs' = [Unmounted EXCEPT !.type = TRUE, !.id = TRUE]
          /\ from' = card
          /\ AfterVolume
       \/ Fails /\ fs' = [fs EXCEPT !.type = FALSE] /\ Return(TRUE) /\ UNCHANGED from
    /\ UNCHANGED <<card, disk, reg, crossed, faults>>

-----------------------------------------------------------------------------
(* Chains.                                                                   *)

\* The k-th cluster of the chain that begins at first, 0 beyond its end.
Nth(fat, first, k) ==
    LET nth[i \in Nat] == IF i = 0 THEN first
                          ELSE IF nth[i - 1] \in Clusters THEN fat[nth[i - 1]] ELSE 0
    IN  IF nth[k] \in Clusters THEN nth[k] ELSE 0

ChainOf(fat, first) == {Nth(fat, first, k) : k \in 0..(NumClusters - 1)} \ {0}

\* How many clusters a file of n lines fills.
Needed(n) == (n + PerSector - 1) \div PerSector

\* The search of create_chain, from the cluster after c round to c; 0 if all
\* clusters are in use.
FreeAfter(fat, c) ==
    LET free == {k \in Clusters : fat[k] = 0}
        later == {k \in free : k > c}
    IN  IF free = {} THEN 0 ELSE IF later # {} THEN Min(later) ELSE Min(free)

\* Mutant: the cluster after the last one is taken, free or not.
Grown_Any(fat, c) == IF c + 1 \in Clusters THEN c + 1 ELSE 2

\* create_chain: the cluster that follows c, or the one the chain grows by
\* (c = 0: a new chain); 0 on a full card, 1 if c is in no chain.
Grown(fat, c) ==
    LET next == IF c + 1 \in Clusters THEN c + 1 ELSE 2
        hint == IF fs.last \in Clusters THEN fs.last ELSE IF c = 0 THEN 1 ELSE c
    IN  CASE c # 0 /\ fat[c] = 0 -> 1
          [] c # 0 /\ fat[c] \in Clusters -> fat[c]
          [] c # 0 /\ fat[c] = EOC /\ fat[next] = 0 -> next
          [] OTHER -> FreeAfter(fat, hint)

Linked(fat, c, new) ==
    [k \in Clusters |-> IF k = new THEN EOC ELSE IF k = c THEN new ELSE fat[k]]

-----------------------------------------------------------------------------
(* f_open, f_unlink and f_opendir.                                           *)

Opened(e, isNew) == [NoFile EXCEPT !.size = e.size, !.first = e.first,
                                   !.clust = e.first, !.modified = isNew]

\* ls; and FR_EXIST or FR_NO_FILE for the others.
LookUp_Nothing ==
    /\ At("lookup")
    /\ \/ op = "ls" /\ Return(FALSE)
       \/ op = "input" /\ fs.img[name] # Absent /\ Return(TRUE)
       \/ op \in {"append", "rm"} /\ fs.img[name] = Absent /\ Return(TRUE)
    /\ UNCHANGED <<card, disk, reg, fs, from, crossed, faults>>

\* f_open of a new file: dir_register.
OpenNew ==
    /\ At("lookup") /\ op = "input" /\ fs.img[name] = Absent
    /\ Dirtied([fs.img EXCEPT ![name] = New])
    /\ Goto("line", Opened(New, TRUE))
    /\ UNCHANGED <<card, disk, reg, from, crossed, faults>>

AfterSeek(f) == Goto(IF f.size % PerSector # 0 THEN "fill" ELSE "line", f)

\* f_open to append.
OpenAppend ==
    /\ At("lookup") /\ op = "append" /\ fs.img[name] # Absent
    /\ LET f == Opened(fs.img[name], FALSE)
       IN  IF f.size > PerSector THEN Goto("seek", f) ELSE AfterSeek(f)
    /\ UNCHANGED <<card, disk, reg, fs, from, crossed, faults>>

\* Its last cluster, or FR_INT_ERR if the chain is short.
Seek ==
    /\ At("seek")
    /\ LET c == Nth(fs.img, fil.first, Needed(fil.size) - 1)
       IN  IF c = 0 THEN Return(TRUE) ELSE AfterSeek([fil EXCEPT !.clust = c])
    /\ UNCHANGED <<card, disk, reg, fs, from, crossed, faults>>

\* Its last sector, if that is not full.
Fill ==
    /\ pc = "fill"
    /\ \/ /\ Works /\ Touched
          /\ Goto("line", [fil EXCEPT !.sect = fil.clust, !.buf = disk[card].data[fil.clust].n])
       \/ Fails /\ Return(TRUE) /\ UNCHANGED crossed
    /\ UNCHANGED <<card, disk, reg, fs, from, faults>>

\* f_unlink: dir_remove ...
RemoveEntry ==
    /\ At("lookup") /\ op = "rm" /\ fs.img[name] # Absent
    /\ Dirtied([fs.img EXCEPT ![name] = Absent])
    /\ LET first == fs.img[name].first
       IN  Goto(IF first # 0 THEN "chain" ELSE "sync", [NoFile EXCEPT !.first = first])
    /\ UNCHANGED <<card, disk, reg, from, crossed, faults>>

\* ... and remove_chain.
RemoveChain ==
    /\ At("chain")
    /\ Dirtied([k \in Clusters |-> IF k \in ChainOf(fs.img, fil.first) THEN 0 ELSE fs.img[k]])
    /\ Goto("sync", fil)
    /\ UNCHANGED <<card, disk, reg, from, crossed, faults>>

-----------------------------------------------------------------------------
(* f_write for each line the user types, until a line that is a dot.         *)

\* Mutant: the file is not marked as modified.
Buffered_NotModified(f, at) == [f EXCEPT !.buf = at, !.dirty = TRUE, !.size = @ + 1]

\* The line goes into the sector buffer.
Buffered(f, at) == [f EXCEPT !.buf = at, !.dirty = TRUE, !.modified = TRUE, !.size = @ + 1]

TypeLine ==
    /\ pc = "line"
    /\ want' = (IF want = 0 THEN fil.size ELSE want) + 1 /\ want' <= MaxSize
    /\ trouble' = (trouble \/ Fails \/ fil.err)
    /\ IF Fails \/ fil.err THEN UNCHANGED <<pc, fil>>
       ELSE IF fil.size % PerSector = 0 THEN pc' = "create" /\ UNCHANGED fil
       ELSE fil' = Buffered(fil, fil.buf + 1) /\ UNCHANGED pc
    /\ UNCHANGED <<card, disk, reg, fs, op, name, from, crossed, faults>>

TypeDot ==
    /\ pc = "line"
    /\ Goto("close", fil)
    /\ UNCHANGED <<card, disk, reg, fs, from, crossed, faults>>

\* On a cluster boundary (an empty file has no cluster): create_chain. A full
\* card ends the call with FR_OK and nothing written.
CreateChain ==
    /\ At("create")
    /\ LET tail == IF fil.size = 0 THEN 0 ELSE fil.clust
           c == Grown(fs.img, tail)
           f == [fil EXCEPT !.clust = c, !.first = IF @ = 0 THEN c ELSE @]
       IN  \/ c < 2 /\ UNCHANGED fs
              /\ IF c = 1 THEN Abort ELSE NextLine(TRUE, [fil EXCEPT !.modified = TRUE])
           \/ c > 1 /\ Goto("flush", f)
              /\ fs' = IF c \in ChainOf(fs.img, tail) THEN fs
                       ELSE [fs EXCEPT !.img = Linked(@, tail, c), !.wflag = TRUE, !.last = c]
    /\ UNCHANGED <<card, disk, reg, from, crossed, faults>>

\* disk_write of the sector buffer.
WriteBuffer == Put("data", [disk[card].data EXCEPT ![fil.sect] = [of |-> name, n |-> fil.buf]])

\* The full sector goes to the card before the line begins a new one.
Flush ==
    /\ pc = "flush"
    /\ LET f == Buffered([fil EXCEPT !.sect = fil.clust], 1) IN
       \/ ~fil.dirty /\ NextLine(FALSE, f) /\ UNCHANGED <<disk, crossed>>
       \/ fil.dirty /\ WriteBuffer /\ NextLine(FALSE, f)
       \/ fil.dirty /\ Fails /\ Abort /\ UNCHANGED <<disk, crossed>>
    /\ UNCHANGED <<card, reg, fs, from, faults>>

\* f_close: f_sync first writes the sector buffer ...
Close ==
    /\ pc = "close"
    /\ \/ ~Works /\ Return(TRUE) /\ UNCHANGED <<disk, crossed>>          \* validate
       \/ Works /\ ~fil.modified /\ Return(FALSE) /\ UNCHANGED <<disk, crossed>>
       \/ Works /\ fil.modified /\ ~fil.dirty /\ Goto("entry", fil) /\ UNCHANGED <<disk, crossed>>
       \/ fil.modified /\ fil.dirty /\ WriteBuffer /\ Goto("entry", fil)
    /\ UNCHANGED <<card, reg, fs, from, faults>>

\* ... then the directory entry.
WriteEntry ==
    /\ At("entry")
    /\ Dirtied([fs.img EXCEPT ![name] = [size |-> fil.size, first |-> fil.first]])
    /\ Goto("sync", fil)
    /\ UNCHANGED <<card, disk, reg, from, crossed, faults>>

Next ==
    \/ Remove \/ (\E c \in Cards : Insert(c)) \/ Reset
    \/ mount \/ unmount \/ Command("ls", "none")
    \/ \E f \in Files : Command("append", f) \/ Command("input", f) \/ Command("rm", f)
    \/ StillMounted \/ MountVolume \/ SyncWindow \/ LoadWindow \/ SyncFs
    \/ LookUp_Nothing \/ OpenNew \/ OpenAppend \/ Seek \/ Fill
    \/ RemoveEntry \/ RemoveChain
    \/ TypeLine \/ TypeDot \/ CreateChain \/ Flush \/ Close \/ WriteEntry

Spec == Init /\ [][Next]_vars

-----------------------------------------------------------------------------
(* Properties.                                                               *)

\* The file f as the card c holds it: its lines lie in clusters of its own.
Backed(c, f) ==
    LET e == disk[c].dir[f]
        cluster(k) == Nth(disk[c].fat, e.first, k)
        full(k) == IF e.size >= (k + 1) * PerSector THEN PerSector ELSE e.size % PerSector
    IN  \A k \in 0..(Needed(e.size) - 1) :
            /\ cluster(k) # 0
            /\ disk[c].data[cluster(k)].of = f
            /\ disk[c].data[cluster(k)].n >= full(k)

\* Whenever the power goes, an access fails or a card is taken out, what the
\* directory of a card says of a file is in the file's clusters: the order of
\* the writes of f_write, f_sync and f_unlink (ff.c:4008, 4120, 5007), unless
\* two cards were mixed up (sd_stale).
EntryIsBacked ==
    ~crossed => \A c \in Cards : \A f \in Files : disk[c].dir[f] # Absent => Backed(c, f)

\* No cluster belongs to two files: neither a new chain nor one that grows takes
\* a cluster in use (ff.c:1541), whatever was interrupted before.
ChainsApart ==
    ~crossed => \A c \in Cards : \A f, g \in Files :
        LET chain(x) == ChainOf(disk[c].fat, disk[c].dir[x].first)
        IN  f # g => chain(f) \intersect chain(g) = {}

\* A command that ends without an error of FatFs has done its work on the card:
\* the file has all its lines, those from before included, or is gone. Only an
\* append of no lines writes nothing (sdcard.c:190-248, 350).
SuccessIsOnCard ==
    [][(op \in {"append", "input", "rm"} /\ pc' = "prompt" /\ ~trouble' /\ ~crossed'
            /\ (op = "append" => want > 0))
        => disk'[from].dir[name].size = IF op = "rm" THEN Absent.size ELSE want]_vars

\* An object that mount_volume finds valid ("The filesystem object is already
\* valid", ff.c:3419) describes the card in the slot.
ObjectIsValid == [][StillMounted => card = from]_vars
=============================================================================
