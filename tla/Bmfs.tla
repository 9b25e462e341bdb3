-------------------------------- MODULE Bmfs --------------------------------
(***************************************************************************)
(* The BMFS file layer of the port (app/bmfs.c): a flat directory of       *)
(* extents in one disk sector, a RAM copy of that sector, and a table of   *)
(* open files, each with its own copy of the extent and of the length.     *)
(*                                                                         *)
(* Names stand for what bmfs_name leaves of a path; NoName is a slot whose *)
(* name[0] is 0, BadName every path bmfs_open refuses.  Disk contents are  *)
(* bytes, addressed from the start of the disk; the directory sector is    *)
(* the variable disk.  ret is what the caller learns of the last call: a   *)
(* descriptor, a count, an offset, a length (the stat calls) or -errno.    *)
(***************************************************************************)
EXTENDS Integers, FiniteSetsExt

CONSTANTS
    Names, NoName, BadName,
    Bytes,          \* the values of a data byte
    InitBytes,      \* those found on the disk at the start
    DirEntries,     \* BMFS_DIR_ENTRIES
    MaxOpen,        \* BMFS_MAX_OPEN
    SectorBytes,    \* BMFS_SECTOR_BYTES
    BlockSectors,   \* BMFS_BLOCK_SECTORS
    MaxReserved,    \* bound: blocks reserved for a file of the initial image
    BlockBound,     \* bound: blocks on the disk; the code has no such check
    PosBound,       \* bound: seek positions
    Lens,           \* the lengths of one read or write
    Offsets,        \* the offsets passed to lseek
    Flags,          \* the flag words passed to open
    Client          \* what the program does beyond plain use, see Habits

(* "share": opens a file that it already has open.                         *)
(* "unlink_open": unlinks a file that it has open.                         *)
(* "sparse": moves a descriptor past the end of its file.                  *)
Habits == {"share", "unlink_open", "sparse"}

ASSUME NamesAssumption == NoName \notin Names /\ BadName \notin Names
ASSUME SizesAssumption ==
    /\ DirEntries \in Nat \ {0}
    /\ MaxOpen \in Nat \ {0}
    /\ SectorBytes \in Nat \ {0}
    /\ BlockSectors \in Nat \ {0}
    /\ MaxReserved \in Nat \ {0}
    /\ BlockBound \in Nat \ {0}
    /\ PosBound \in Nat
ASSUME InputsAssumption ==
    /\ InitBytes \subseteq Bytes
    /\ Lens \subseteq Nat
    /\ Offsets \subseteq Int
    /\ Flags \subseteq SUBSET {"CREAT", "EXCL", "TRUNC", "APPEND"}
ASSUME ClientAssumption == Client \subseteq Habits

FirstDataBlock == 1
DefaultBlocks == 1
FdBase == 3
BlockBytes == BlockSectors * SectorBytes

ENOENT == 2
EEXIST == 17
EINVAL == 22
EMFILE == 24
ENOSPC == 28

Slots == 0 .. DirEntries - 1
Fds == 0 .. MaxOpen - 1          \* indices of files[]; the program sees FdBase + fd
Addrs == 0 .. BlockBound * BlockBytes - 1

Dirent == [name : Names \cup {NoName}, start_block : Nat,
           reserved_blocks : Nat, size : Nat]
File == [used : BOOLEAN, dirty : BOOLEAN, append : BOOLEAN, dir_index : Slots,
         start_block : Nat, reserved_blocks : Nat, size : Nat, pos : Nat]

NoEntry == [name |-> NoName, start_block |-> 0, reserved_blocks |-> 0, size |-> 0]
NoFile == [used |-> FALSE, dirty |-> FALSE, append |-> FALSE, dir_index |-> 0,
           start_block |-> 0, reserved_blocks |-> 0, size |-> 0, pos |-> 0]

VARIABLES
    disk,           \* the directory sector on disk
    data,           \* the bytes of the disk's blocks
    dir,            \* the RAM copy of the directory
    dir_loaded,
    files,          \* the open-file table
    ret

vars == <<disk, data, dir, dir_loaded, files, ret>>

-----------------------------------------------------------------------------
(* The directory.                                                          *)

End(e) == e.start_block + e.reserved_blocks
Capacity(e) == e.reserved_blocks * BlockBytes

UsedSlots(d) == {i \in Slots : d[i].name # NoName}
Matches(d, name) == {i \in UsedSlots(d) : d[i].name = name}
FreeSlots(d) == Slots \ UsedSlots(d)

dir_find(d, name) == Min(Matches(d, name))
dir_find_free_slot(d) == Min(FreeSlots(d))

(* Mutant: past the start of every extent, not past its end.               *)
dir_next_free_block_Start(d) ==
    Max({FirstDataBlock} \cup {d[i].start_block + 1 : i \in UsedSlots(d)})

dir_next_free_block(d) == Max({FirstDataBlock} \cup {End(d[i]) : i \in UsedSlots(d)})

(* dir[] once dir_load has run: read from disk the first time only.        *)
Loaded == IF dir_loaded THEN dir ELSE disk
dir_load == dir' = Loaded /\ dir_loaded' = TRUE

(* The directory becomes d, in RAM and (dir_flush) on disk.                *)
dir_flush(d) == dir' = d /\ dir_loaded' = TRUE /\ disk' = d

OpenOn(i) == {fd \in Fds : files[fd].used /\ files[fd].dir_index = i}

-----------------------------------------------------------------------------
(* open                                                                    *)

FreeFds == {fd \in Fds : ~files[fd].used}

(* The first test of bmfs_open that fails, in the order it makes them.     *)
OpenError(name, flags) ==
    LET found == Matches(Loaded, name) # {}
    IN  CASE FreeFds = {} -> EMFILE
          [] FreeFds # {} /\ ~found /\ "CREAT" \notin flags -> ENOENT
          [] FreeFds # {} /\ ~found /\ "CREAT" \in flags
               -> IF FreeSlots(Loaded) = {} THEN ENOSPC ELSE 0
          [] OTHER -> IF {"CREAT", "EXCL"} \subseteq flags THEN EEXIST ELSE 0

OpenBadPath ==
    /\ ret' = -ENOENT
    /\ UNCHANGED <<disk, data, dir, dir_loaded, files>>

OpenFails(name, flags) ==
    /\ OpenError(name, flags) # 0
    /\ dir_load
    /\ ret' = -OpenError(name, flags)
    /\ UNCHANGED <<disk, data, files>>

(* files[] after the entry e of slot i is opened in the first free place.  *)
FillFd(i, e, flags) ==
    LET fd == Min(FreeFds)
    IN  /\ files' = [files EXCEPT ![fd] =
                [used |-> TRUE, dirty |-> FALSE, append |-> "APPEND" \in flags,
                 dir_index |-> i, start_block |-> e.start_block,
                 reserved_blocks |-> e.reserved_blocks, size |-> e.size,
                 pos |-> IF "APPEND" \in flags THEN e.size ELSE 0]]
        /\ ret' = FdBase + fd

NewEntry(d, name) ==
    [name |-> name, start_block |-> dir_next_free_block(d),
     reserved_blocks |-> DefaultBlocks, size |-> 0]

OpenCreates(name, flags) ==
    /\ Matches(Loaded, name) = {}
    /\ OpenError(name, flags) = 0
    /\ End(NewEntry(Loaded, name)) <= BlockBound
    /\ LET i == dir_find_free_slot(Loaded)
           e == NewEntry(Loaded, name)
       IN  dir_flush([Loaded EXCEPT ![i] = e]) /\ FillFd(i, e, flags)
    /\ UNCHANGED data

(* Mutant: the length is copied to the descriptor before O_TRUNC.          *)
OpenExisting_StaleSize(name, flags) ==
    /\ Matches(Loaded, name) # {}
    /\ OpenError(name, flags) = 0
    /\ LET i == dir_find(Loaded, name)
           e == [Loaded[i] EXCEPT !.size = IF "TRUNC" \in flags THEN 0 ELSE @]
       IN  /\ "share" \in Client \/ OpenOn(i) = {}
           /\ IF "TRUNC" \in flags
              THEN dir_flush([Loaded EXCEPT ![i] = e])
              ELSE dir_load /\ UNCHANGED disk
           /\ FillFd(i, Loaded[i], flags)
    /\ UNCHANGED data

OpenExisting(name, flags) ==
    /\ Matches(Loaded, name) # {}
    /\ OpenError(name, flags) = 0
    /\ LET i == dir_find(Loaded, name)
           e == [Loaded[i] EXCEPT !.size = IF "TRUNC" \in flags THEN 0 ELSE @]
       IN  /\ "share" \in Client \/ OpenOn(i) = {}
           /\ IF "TRUNC" \in flags
              THEN dir_flush([Loaded EXCEPT ![i] = e])
              ELSE dir_load /\ UNCHANGED disk
           /\ FillFd(i, e, flags)
    /\ UNCHANGED data

bmfs_open ==
    \/ OpenBadPath
    \/ \E name \in Names, flags \in Flags :
         \/ OpenFails(name, flags)
         \/ OpenCreates(name, flags)
         \/ OpenExisting(name, flags)

-----------------------------------------------------------------------------
(* read, write, lseek, close, on a descriptor for which bmfs_is_fd holds   *)

bmfs_read(fd, len) ==
    LET f == files[fd]
        n == IF f.pos >= f.size THEN 0
             ELSE IF f.pos + len > f.size THEN f.size - f.pos ELSE len
    IN  /\ f.used
        /\ files' = [files EXCEPT ![fd].pos = @ + n]
        /\ ret' = n
        /\ UNCHANGED <<disk, data, dir, dir_loaded>>

(* Mutant: O_APPEND positions only at open, as the code once did.          *)
WriteOff_AtPos(f) == f.pos

(* Where a write lands, and how many bytes of len fit in the extent: 0 is  *)
(* the -ENOSPC case, an empty request included.                            *)
WriteOff(f) == IF f.append THEN f.size ELSE f.pos
WriteLen(f, len) ==
    IF WriteOff(f) >= Capacity(f) THEN 0
    ELSE IF WriteOff(f) + len > Capacity(f) THEN Capacity(f) - WriteOff(f) ELSE len

(* Mutant: the start block is taken for a sector number.                   *)
Stored_SectorUnits(f, off, n, b) ==
    LET base == f.start_block * SectorBytes + off
    IN  [a \in Addrs |-> IF base <= a /\ a < base + n THEN b ELSE data[a]]

(* The bytes after the sector loop has put n bytes b at offset off of f.   *)
Stored(f, off, n, b) ==
    LET base == f.start_block * BlockBytes + off
    IN  [a \in Addrs |-> IF base <= a /\ a < base + n THEN b ELSE data[a]]

(* Mutant: a write that extends the file does not mark it dirty.           *)
bmfs_write_NotDirty(fd, len, b) ==
    LET f == files[fd]
        off == WriteOff(f)
        n == WriteLen(f, len)
    IN  /\ f.used
        /\ data' = Stored(f, off, n, b)
        /\ files' = [files EXCEPT ![fd].pos = off + n,
                                  ![fd].size = IF n > 0 /\ off + n > @ THEN off + n ELSE @]
        /\ ret' = IF n = 0 THEN -ENOSPC ELSE n
        /\ UNCHANGED <<disk, dir, dir_loaded>>

bmfs_write(fd, len, b) ==
    LET f == files[fd]
        off == WriteOff(f)
        n == WriteLen(f, len)
    IN  /\ f.used
        /\ data' = Stored(f, off, n, b)
        /\ files' = [files EXCEPT ![fd].pos = off + n,
                                  ![fd].size = IF n > 0 /\ off + n > @ THEN off + n ELSE @,
                                  ![fd].dirty = @ \/ (n > 0 /\ off + n > f.size)]
        /\ ret' = IF n = 0 THEN -ENOSPC ELSE n
        /\ UNCHANGED <<disk, dir, dir_loaded>>

SeekBase(f, whence) ==
    CASE whence = 0 -> 0 [] whence = 1 -> f.pos [] whence = 2 -> f.size

(* Mutant: a negative position is not refused.                             *)
bmfs_lseek_Unsigned(fd, offset, whence) ==
    LET f == files[fd]
        np == SeekBase(f, whence) + offset
    IN  /\ f.used
        /\ IF whence \notin 0 .. 2
           THEN ret' = -EINVAL /\ UNCHANGED files
           ELSE /\ np <= PosBound
                /\ "sparse" \in Client \/ np <= f.size
                /\ files' = [files EXCEPT ![fd].pos = np]
                /\ ret' = np
        /\ UNCHANGED <<disk, data, dir, dir_loaded>>

bmfs_lseek(fd, offset, whence) ==
    LET f == files[fd]
        bad == whence \notin 0 .. 2 \/ SeekBase(f, whence) + offset < 0
        np == SeekBase(f, whence) + offset
    IN  /\ f.used
        /\ IF bad
           THEN ret' = -EINVAL /\ UNCHANGED files
           ELSE /\ np <= PosBound
                /\ "sparse" \in Client \/ np <= f.size
                /\ files' = [files EXCEPT ![fd].pos = np]
                /\ ret' = np
        /\ UNCHANGED <<disk, data, dir, dir_loaded>>

(* Mutant: the descriptor's length is added to the stored one.             *)
bmfs_close_Adds(fd) ==
    LET f == files[fd]
    IN  /\ f.used
        /\ IF f.dirty
           THEN dir_flush([dir EXCEPT ![f.dir_index].size = @ + f.size])
           ELSE UNCHANGED <<dir, dir_loaded, disk>>
        /\ files' = [files EXCEPT ![fd] = NoFile]
        /\ ret' = 0
        /\ UNCHANGED data

(* Mutant: the directory is indexed by the descriptor.                     *)
bmfs_close_WrongSlot(fd) ==
    LET f == files[fd]
    IN  /\ f.used
        /\ IF f.dirty
           THEN dir_flush([dir EXCEPT ![fd].size = f.size])
           ELSE UNCHANGED <<dir, dir_loaded, disk>>
        /\ files' = [files EXCEPT ![fd] = NoFile]
        /\ ret' = 0
        /\ UNCHANGED data

(* The fields of a place no longer in use are not kept: bmfs_open sets     *)
(* every one of them before the place is used again.                       *)
bmfs_close(fd) ==
    LET f == files[fd]
    IN  /\ f.used
        /\ IF f.dirty
           THEN dir_flush([dir EXCEPT ![f.dir_index].size = f.size])
           ELSE UNCHANGED <<dir, dir_loaded, disk>>
        /\ files' = [files EXCEPT ![fd] = NoFile]
        /\ ret' = 0
        /\ UNCHANGED data

-----------------------------------------------------------------------------
(* stat and unlink                                                         *)

bmfs_fstat_fd(fd) ==
    /\ files[fd].used
    /\ ret' = files[fd].size
    /\ UNCHANGED <<disk, data, dir, dir_loaded, files>>

bmfs_fstatat(name) ==
    /\ dir_load
    /\ ret' = IF Matches(Loaded, name) = {} THEN -ENOENT
              ELSE Loaded[dir_find(Loaded, name)].size
    /\ UNCHANGED <<disk, data, files>>

(* Mutant: the entry is cleared in RAM and not flushed.                    *)
bmfs_unlink_NoFlush(name) ==
    /\ IF Matches(Loaded, name) = {}
       THEN dir_load /\ ret' = -ENOENT
       ELSE LET i == dir_find(Loaded, name)
            IN  /\ "unlink_open" \in Client \/ OpenOn(i) = {}
                /\ dir' = [Loaded EXCEPT ![i] = NoEntry]
                /\ dir_loaded' = TRUE
                /\ ret' = 0
    /\ UNCHANGED <<disk, data, files>>

bmfs_unlink(name) ==
    /\ IF Matches(Loaded, name) = {}
       THEN dir_load /\ ret' = -ENOENT /\ UNCHANGED disk
       ELSE LET i == dir_find(Loaded, name)
            IN  /\ "unlink_open" \in Client \/ OpenOn(i) = {}
                /\ dir_flush([Loaded EXCEPT ![i] = NoEntry])
                /\ ret' = 0
    /\ UNCHANGED <<data, files>>

-----------------------------------------------------------------------------
(* The program exits, or the machine stops, and is started again: RAM is   *)
(* lost, the disk is not.  Inside the sector loop of bmfs_pwrite the whole *)
(* sectors already written stay.                                           *)

Reboot ==
    /\ dir' = [i \in Slots |-> NoEntry]
    /\ dir_loaded' = FALSE
    /\ files' = [fd \in Fds |-> NoFile]
    /\ ret' = 0
    /\ UNCHANGED disk

Exit == Reboot /\ UNCHANGED data

StopInWrite(fd, len, b) ==
    LET f == files[fd]
        off == WriteOff(f)
    IN  /\ f.used
        /\ \E n \in 1 .. WriteLen(f, len) - 1 :
             /\ (off + n) % SectorBytes = 0
             /\ data' = Stored(f, off, n, b)
        /\ Reboot

-----------------------------------------------------------------------------
(* An image laid out by the bmfs tool: distinct names, extents back to     *)
(* back or apart but never overlapping, lengths within the extent.         *)

Extent(e) == e.start_block .. End(e) - 1

UniqueNames(d) ==
    \A i, j \in UsedSlots(d) : d[i].name = d[j].name => i = j

DisjointExtents(d) ==
    \A i, j \in UsedSlots(d) : i # j => Extent(d[i]) \cap Extent(d[j]) = {}

InData(d) ==
    \A i \in UsedSlots(d) : d[i].start_block >= FirstDataBlock /\ End(d[i]) <= BlockBound

Fits(e) == e.size <= Capacity(e)

GoodImage(d) ==
    /\ UniqueNames(d) /\ DisjointExtents(d) /\ InData(d)
    /\ \A i \in UsedSlots(d) : d[i].reserved_blocks > 0 /\ Fits(d[i])
    /\ \A i \in FreeSlots(d) : d[i] = NoEntry

ImageEntry == [name : Names \cup {NoName}, start_block : 0 .. BlockBound,
               reserved_blocks : 0 .. MaxReserved, size : 0 .. MaxReserved * BlockBytes]

Init ==
    /\ disk \in [Slots -> ImageEntry]
    /\ GoodImage(disk)
    /\ data \in [Addrs -> InitBytes]
    /\ dir = [i \in Slots |-> NoEntry]
    /\ dir_loaded = FALSE
    /\ files = [fd \in Fds |-> NoFile]
    /\ ret = 0

Next ==
    \/ bmfs_open
    \/ \E fd \in Fds, len \in Lens : bmfs_read(fd, len)
    \/ \E fd \in Fds, len \in Lens, b \in Bytes : bmfs_write(fd, len, b)
    \/ \E fd \in Fds, offset \in Offsets, whence \in 0 .. 3 :
         bmfs_lseek(fd, offset, whence)
    \/ \E fd \in Fds : bmfs_close(fd)
    \/ \E fd \in Fds : bmfs_fstat_fd(fd)
    \/ \E name \in Names \cup {BadName} : bmfs_fstatat(name)
    \/ \E name \in Names \cup {BadName} : bmfs_unlink(name)
    \/ Exit
    \/ \E fd \in Fds, len \in Lens, b \in Bytes : StopInWrite(fd, len, b)

Spec == Init /\ [][Next]_vars

-----------------------------------------------------------------------------
(* Properties that hold for every program.                                 *)

(* Every variable keeps its type; in particular the lengths and positions  *)
(* bmfs.c keeps in u64 fields never go negative.                           *)
TypeOK ==
    /\ disk \in [Slots -> Dirent]
    /\ data \in [Addrs -> Bytes]
    /\ dir \in [Slots -> Dirent]
    /\ dir_loaded \in BOOLEAN
    /\ files \in [Fds -> File]
    /\ ret \in Int

(* Whatever is created, unlinked, truncated or lost in a stop, the         *)
(* directory on disk has one entry per name, no two files own the same     *)
(* block, and none owns block 0, where the superblock and the directory    *)
(* are: dir_next_free_block is always past every extent in use.            *)
Layout == UniqueNames(disk) /\ DisjointExtents(disk) /\ InData(disk)

(* Between calls the RAM directory never differs from the disk's: open     *)
(* with a new entry or O_TRUNC, unlink and close each flush what they      *)
(* change in dir[] before they return (bmfs.c:174, 183, 305, 414), and no  *)
(* file is open before the directory was loaded.  A stop loses no entry,   *)
(* only the lengths that descriptors have not yet given to their entries.  *)
CacheCoherent ==
    /\ dir_loaded => dir = disk
    /\ \A fd \in Fds : files[fd].used => dir_loaded

FlushesInClose == disk' # disk => \E fd \in Fds : bmfs_close(fd)

(* "directory changes are only flushed to disk on close()" (bmfs.c:27): no *)
(* other call changes the directory sector.                                *)
OnlyCloseFlushes == [][FlushesInClose]_vars

-----------------------------------------------------------------------------
(* Properties that need a program that neither opens a file twice at once  *)
(* nor unlinks a file it has open: open files copy the extent and length   *)
(* of their entry and never look at it again until close.                  *)

PlainClient == "share" \notin Client /\ "unlink_open" \notin Client

(* No entry claims more bytes than its blocks hold, also after bmfs_close  *)
(* has stored the length a descriptor accumulated.                         *)
SizeFits == \A i \in UsedSlots(disk) : Fits(disk[i])

(* An open descriptor's copy of start and reserved is that of a live       *)
(* entry, its length is at least the stored one, and equal unless dirty.   *)
FdCurrent ==
    \A fd \in Fds : files[fd].used =>
        LET f == files[fd]
            e == dir[f.dir_index]
        IN  /\ e.name # NoName
            /\ f.start_block = e.start_block
            /\ f.reserved_blocks = e.reserved_blocks
            /\ e.size <= f.size
            /\ ~f.dirty => f.size = e.size
            /\ Fits(f)
            /\ OpenOn(f.dir_index) = {fd}

AddrsOf(e) == {a \in Addrs : e.start_block * BlockBytes <= a /\ a < End(e) * BlockBytes}

WritesOneOpenFile ==
    data' # data =>
        \E fd \in Fds :
           LET e == dir[files[fd].dir_index]
           IN  /\ files[fd].used
               /\ e.name # NoName
               /\ \A a \in Addrs : data'[a] # data[a] => a \in AddrsOf(e)

(* A step that changes bytes on disk changes only bytes of one existing    *)
(* file, and the program has that file open: bmfs_pwrite's clamp keeps it  *)
(* inside the extent, and the extent is still the file's own.              *)
WriteIsolation == [][WritesOneOpenFile]_vars

FileEnd(i) == Max({dir[i].size} \cup {files[fd].size : fd \in OpenOn(i)})

KeepsBelowEnd(i) ==
    \A k \in 0 .. FileEnd(i) - 1 :
       LET a == dir[i].start_block * BlockBytes + k
       IN  data'[a] = data[a]

AppendsKeep ==
    \A i \in UsedSlots(dir) :
       (\A fd \in OpenOn(i) : files[fd].append) => KeepsBelowEnd(i)

(* While every descriptor open on a file is an O_APPEND one, the bytes     *)
(* below the file's end never change, wherever lseek moved the positions   *)
(* ("every write goes to the current end of file", bmfs.c:284).            *)
AppendOnly == [][AppendsKeep]_vars

ShrinksToZero == \A i \in Slots : disk'[i].size < disk[i].size => disk'[i].size = 0

(* The length stored in the directory goes down only to 0 (O_TRUNC and     *)
(* unlink): no close overwrites a longer length with a shorter one.        *)
LengthKept == [][ShrinksToZero]_vars

=============================================================================
