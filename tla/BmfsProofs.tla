----------------------------- MODULE BmfsProofs -----------------------------
(***************************************************************************)
(* Proofs about Bmfs, for every number of directory entries, open files,   *)
(* sectors and blocks and every set of names, bytes and requests: first    *)
(* for any program, then for a PlainClient, one that neither opens a file  *)
(* twice at once nor unlinks a file it has open.                           *)
(***************************************************************************)
EXTENDS Bmfs, WellFoundedInduction, TLAPS

(* A set of naturals that is not empty has a least element.                *)
LEMMA MinOfNat ==
    ASSUME NEW S \in SUBSET Nat, S # {}
    PROVE  Min(S) \in S /\ \A y \in S : Min(S) <= y
<1>1. PICK x \in S : \A y \in S : ~(<<y, x>> \in OpToRel(<, Nat))
  BY NatLessThanWellFounded, WFMin, Zenon
<1>2. \A y \in S : ~(y < x)
  <2> TAKE y \in S
  <2>1. y < x => <<y, x>> \in OpToRel(<, Nat)
    BY Zenon DEF OpToRel
  <2>2. QED
    BY <1>1, <2>1, Zenon
<1>3. \A y \in S : x <= y
  BY <1>2
<1>4. QED
  BY <1>3, Zenon DEF Min

(* A set of naturals with an upper bound has a greatest element.           *)
LEMMA MaxOfBounded ==
    ASSUME NEW S \in SUBSET Nat, S # {}, NEW b \in Nat, \A x \in S : x <= b
    PROVE  Max(S) \in S /\ \A y \in S : y <= Max(S)
<1> DEFINE T == {n \in Nat : \E x \in S : n = b - x}
<1>1. T \in SUBSET Nat /\ T # {}
  <2>1. PICK x \in S : TRUE
    BY Zenon
  <2>2. b - x \in Nat
    BY <2>1
  <2>3. QED
    BY <2>1, <2>2, Zenon
<1> HIDE DEF T
<1>2. Min(T) \in T /\ \A n \in T : Min(T) <= n
  BY <1>1, MinOfNat, Zenon
<1>3. PICK x \in S : Min(T) = b - x
  BY <1>2, Zenon DEF T
<1>4. \A y \in S : x >= y
  <2> TAKE y \in S
  <2>1. b - y \in T
    BY DEF T
  <2>2. b - x <= b - y
    BY <2>1, <1>2, <1>3, Zenon
  <2>3. QED
    BY <2>2
<1>5. Max(S) \in S /\ \A y \in S : Max(S) >= y
  BY <1>4, Zenon DEF Max
<1>6. QED
  BY <1>5, Zenon

-----------------------------------------------------------------------------
(* Directories.                                                            *)

DirOK(d) ==
    /\ d \in [Slots -> Dirent]
    /\ UniqueNames(d)
    /\ DisjointExtents(d)
    /\ InData(d)

(* dir_next_free_block is a data block past every extent in use.           *)
LEMMA NextBlockIsFree ==
    ASSUME NEW d, DirOK(d)
    PROVE  /\ dir_next_free_block(d) \in Nat
           /\ FirstDataBlock <= dir_next_free_block(d)
           /\ \A i \in UsedSlots(d) : End(d[i]) <= dir_next_free_block(d)
<1> DEFINE S == {FirstDataBlock} \cup {End(d[i]) : i \in UsedSlots(d)}
<1>1. BlockBound \in Nat /\ BlockBound >= 1
  BY SizesAssumption
<1>2. \A i \in UsedSlots(d) : End(d[i]) \in Nat /\ End(d[i]) <= BlockBound
  BY DEF DirOK, InData, UsedSlots, End, Dirent
<1>3. S \in SUBSET Nat /\ S # {} /\ \A x \in S : x <= BlockBound
  BY <1>1, <1>2 DEF FirstDataBlock
<1>4. Max(S) \in S /\ \A y \in S : y <= Max(S)
  BY <1>1, <1>3, MaxOfBounded, Zenon
<1>5. dir_next_free_block(d) = Max(S)
  BY Zenon DEF dir_next_free_block
<1>6. QED
  BY <1>3, <1>4, <1>5, Zenon

(* dir_find returns a slot with the name, if there is one.                 *)
LEMMA FindReturnsMatch ==
    ASSUME NEW d, NEW name, Matches(d, name) # {}
    PROVE  /\ dir_find(d, name) \in Slots
           /\ d[dir_find(d, name)].name = name
           /\ d[dir_find(d, name)].name # NoName
<1>1. Matches(d, name) \in SUBSET Nat
  BY SizesAssumption DEF Matches, UsedSlots, Slots
<1>2. dir_find(d, name) \in Matches(d, name)
  BY <1>1, MinOfNat, Zenon DEF dir_find
<1>3. QED
  BY <1>2, Zenon DEF Matches, UsedSlots

(* dir_find_free_slot returns a slot not in use.                           *)
LEMMA FreeSlotIsFree ==
    ASSUME NEW d, FreeSlots(d) # {}
    PROVE  /\ dir_find_free_slot(d) \in Slots
           /\ d[dir_find_free_slot(d)].name = NoName
<1>1. FreeSlots(d) \in SUBSET Nat
  BY SizesAssumption DEF FreeSlots, Slots
<1>2. dir_find_free_slot(d) \in FreeSlots(d)
  BY <1>1, MinOfNat, Zenon DEF dir_find_free_slot
<1>3. QED
  BY <1>2, Zenon DEF FreeSlots, UsedSlots

(* The three ways a directory changes keep it well formed.                 *)
LEMMA CreateKeepsDirOK ==
    ASSUME NEW d, DirOK(d), NEW name \in Names, Matches(d, name) = {},
           NEW i \in Slots, d[i].name = NoName,
           End(NewEntry(d, name)) <= BlockBound
    PROVE  DirOK([d EXCEPT ![i] = NewEntry(d, name)])
<1> DEFINE e == NewEntry(d, name)
           dd == [d EXCEPT ![i] = e]
           b == dir_next_free_block(d)
<1>1. /\ b \in Nat /\ FirstDataBlock <= b
      /\ \A j \in UsedSlots(d) : End(d[j]) <= b
  BY NextBlockIsFree, Zenon
<1> HIDE DEF b
<1>2. e = [name |-> name, start_block |-> b, reserved_blocks |-> 1, size |-> 0]
  BY Zenon DEF NewEntry, DefaultBlocks, b
<1>3. e \in Dirent
  BY <1>1, <1>2 DEF Dirent
<1>4. dd \in [Slots -> Dirent] /\ dd[i] = e /\ \A j \in Slots : j # i => dd[j] = d[j]
  BY <1>3, Zenon DEF DirOK
<1>5. name # NoName
  BY NamesAssumption, Zenon
<1>6. UsedSlots(dd) = UsedSlots(d) \cup {i}
  BY <1>2, <1>4, <1>5 DEF UsedSlots
<1>7. i \notin UsedSlots(d)
  BY Zenon DEF UsedSlots
<1>8. \A j \in UsedSlots(d) : d[j].name # name
  BY Zenon DEF Matches
<1> HIDE DEF e, dd
<1>9. UniqueNames(dd)
  BY <1>2, <1>4, <1>6, <1>7, <1>8 DEF UniqueNames, DirOK, UsedSlots
<1>10. \A j \in UsedSlots(d) : Extent(d[j]) \cap Extent(e) = {}
  <2> TAKE j \in UsedSlots(d)
  <2>1. End(d[j]) <= b /\ End(d[j]) \in Nat /\ d[j].start_block \in Nat
    BY <1>1 DEF DirOK, UsedSlots, End, Dirent
  <2>2. Extent(e) = b .. (b + 1) - 1
    BY <1>2, Zenon DEF Extent, End
  <2>3. \A x \in Extent(d[j]) : x \in Int /\ x < b
    BY <2>1, <1>1 DEF Extent
  <2>4. \A x \in Extent(e) : ~(x < b)
    BY <2>2, <1>1
  <2>5. QED
    BY <2>3, <2>4, Zenon
<1>11. DisjointExtents(dd)
  BY <1>4, <1>6, <1>7, <1>10, Zenon DEF DisjointExtents, DirOK, UsedSlots
<1>12. InData(dd)
  BY <1>1, <1>2, <1>4, <1>6 DEF InData, DirOK, UsedSlots, e
<1>13. DirOK(dd)
  BY <1>4, <1>9, <1>11, <1>12, Zenon DEF DirOK
<1>14. QED
  BY <1>13, Zenon DEF dd, e

(* A new length for an entry (O_TRUNC, close) keeps the directory good.    *)
LEMMA ResizeKeepsDirOK ==
    ASSUME NEW d, DirOK(d), NEW i \in Slots, NEW n \in Nat
    PROVE  DirOK([d EXCEPT ![i].size = n])
<1> DEFINE dd == [d EXCEPT ![i].size = n]
<1>1. dd \in [Slots -> Dirent]
  BY Zenon DEF DirOK, Dirent
<1>2. \A j \in Slots : /\ dd[j].name = d[j].name
                       /\ dd[j].start_block = d[j].start_block
                       /\ dd[j].reserved_blocks = d[j].reserved_blocks
  BY Zenon DEF DirOK, Dirent
<1> HIDE DEF dd
<1>3. UsedSlots(dd) = UsedSlots(d)
  BY <1>2, Zenon DEF UsedSlots
<1>4. \A j \in Slots : End(dd[j]) = End(d[j]) /\ Extent(dd[j]) = Extent(d[j])
  BY <1>2, Zenon DEF End, Extent
<1>5. DirOK(dd)
  BY <1>1, <1>2, <1>3, <1>4, Zenon
     DEF DirOK, UniqueNames, DisjointExtents, InData, UsedSlots
<1>6. QED
  BY <1>5, Zenon DEF dd

(* Clearing an entry (unlink) keeps the directory good.                    *)
LEMMA ClearKeepsDirOK ==
    ASSUME NEW d, DirOK(d), NEW i \in Slots
    PROVE  DirOK([d EXCEPT ![i] = NoEntry])
<1> DEFINE dd == [d EXCEPT ![i] = NoEntry]
<1>1. NoEntry \in Dirent
  BY Zenon DEF NoEntry, Dirent
<1>2. dd \in [Slots -> Dirent] /\ dd[i].name = NoName /\ \A j \in Slots : j # i => dd[j] = d[j]
  BY <1>1, Zenon DEF DirOK, NoEntry
<1>3. UsedSlots(dd) = UsedSlots(d) \ {i}
  BY <1>2, Zenon DEF UsedSlots
<1> HIDE DEF dd
<1>4. \A j \in UsedSlots(dd) : j \in UsedSlots(d) /\ dd[j] = d[j]
  BY <1>2, <1>3, Zenon DEF UsedSlots
<1>5. DirOK(dd)
  BY <1>2, <1>4, Zenon DEF DirOK, UniqueNames, DisjointExtents, InData
<1>6. QED
  BY <1>5, Zenon DEF dd

-----------------------------------------------------------------------------
(* The invariant behind Layout and CacheCoherent, for every program.       *)

AnyInv == TypeOK /\ Layout /\ CacheCoherent

(* What dir_load leaves in RAM is what is on disk.                         *)
LEMMA LoadedIsDisk ==
    ASSUME CacheCoherent PROVE Loaded = disk
  BY Zenon DEF CacheCoherent, Loaded

(* The directory on disk is good.                                          *)
LEMMA DiskIsDirOK ==
    ASSUME AnyInv PROVE DirOK(disk) /\ Loaded = disk
  BY LoadedIsDisk, Zenon DEF AnyInv, TypeOK, Layout, DirOK

(* BMFS_BLOCK_BYTES and its multiples are natural numbers.                 *)
LEMMA BlockBytesIsNat ==
    /\ BlockBytes \in Nat
    /\ \A n \in Nat : n * BlockBytes \in Nat
<1>1. \A m, n \in Nat : m * n \in Nat
  OBVIOUS
<1>2. BlockBytes \in Nat
  BY <1>1, SizesAssumption, Zenon DEF BlockBytes
<1>3. QED
  BY <1>1, <1>2, Zenon

(* A place in files[] that open takes is one that was free.                *)
LEMMA FreeFdIsFree ==
    ASSUME FreeFds # {}
    PROVE  Min(FreeFds) \in Fds /\ ~files[Min(FreeFds)].used
<1>1. FreeFds \in SUBSET Nat
  BY SizesAssumption DEF FreeFds, Fds
<1>2. QED
  BY <1>1, MinOfNat, Zenon DEF FreeFds

(* What OpenError returns, and what holds where it returns 0.              *)
LEMMA OpenErrorCases ==
    ASSUME NEW name, NEW flags
    PROVE  /\ OpenError(name, flags) \in Nat
           /\ OpenError(name, flags) = 0 =>
                 /\ FreeFds # {}
                 /\ Matches(Loaded, name) = {} => FreeSlots(Loaded) # {}
<1>1. CASE FreeFds = {}
  BY <1>1 DEF OpenError, EMFILE
<1>2. CASE FreeFds # {} /\ Matches(Loaded, name) = {} /\ "CREAT" \notin flags
  BY <1>2 DEF OpenError, ENOENT
<1>3. CASE FreeFds # {} /\ Matches(Loaded, name) = {} /\ "CREAT" \in flags
  BY <1>3 DEF OpenError, ENOSPC
<1>4. CASE FreeFds # {} /\ Matches(Loaded, name) # {}
  BY <1>4, Zenon DEF OpenError, EEXIST
<1>5. QED
  BY <1>1, <1>2, <1>3, <1>4, Zenon

(* The state after open has filled a place of files[].                     *)
LEMMA FillFdKeepsTypes ==
    ASSUME TypeOK, NEW i \in Slots, NEW e \in Dirent, NEW flags, FreeFds # {},
           FillFd(i, e, flags)
    PROVE  files' \in [Fds -> File] /\ ret' \in Int
<1> DEFINE fd == Min(FreeFds)
<1>1. fd \in Fds
  BY FreeFdIsFree, Zenon
<1>2. fd \in Int
  BY <1>1, SizesAssumption DEF Fds
<1> HIDE DEF fd
<1> DEFINE f == [used |-> TRUE, dirty |-> FALSE, append |-> "APPEND" \in flags,
                 dir_index |-> i, start_block |-> e.start_block,
                 reserved_blocks |-> e.reserved_blocks, size |-> e.size,
                 pos |-> IF "APPEND" \in flags THEN e.size ELSE 0]
<1>3. f \in File
  BY DEF File, Dirent
<1>4. files' = [files EXCEPT ![fd] = f] /\ ret' = FdBase + fd
  BY Zenon DEF FillFd, fd
<1> HIDE DEF f
<1>5. QED
  BY <1>1, <1>2, <1>3, <1>4 DEF TypeOK, FdBase

(* The directory part of the invariant, after a call that flushed d and    *)
(* after one that at most loaded the directory.                            *)
DirInv ==
    /\ disk \in [Slots -> Dirent] /\ dir \in [Slots -> Dirent]
    /\ dir_loaded \in BOOLEAN
    /\ Layout /\ CacheCoherent

(* dir_flush of a good directory keeps the directory invariant.            *)
LEMMA FlushKeepsDirInv ==
    ASSUME NEW d, DirOK(d), dir_flush(d)
    PROVE  DirInv'
  BY Zenon DEF dir_flush, DirOK, DirInv, Layout, CacheCoherent

(* dir_load keeps the directory invariant.                                 *)
LEMMA LoadKeepsDirInv ==
    ASSUME AnyInv, dir_load, UNCHANGED disk
    PROVE  DirInv'
<1>1. DirOK(disk) /\ dir' = disk /\ disk' = disk /\ dir_loaded' = TRUE
  BY DiskIsDirOK, Zenon DEF dir_load
<1>2. QED
  BY <1>1, Zenon DEF DirOK, DirInv, Layout, CacheCoherent

(* So does a step that leaves both copies alone.                           *)
LEMMA SameKeepsDirInv ==
    ASSUME AnyInv, UNCHANGED <<disk, dir, dir_loaded>>,
           \A fd \in Fds : files'[fd].used => files[fd].used
    PROVE  DirInv'
<1>1. disk' = disk /\ dir' = dir /\ dir_loaded' = dir_loaded
  BY Zenon
<1>2. /\ disk \in [Slots -> Dirent] /\ dir \in [Slots -> Dirent] /\ dir_loaded \in BOOLEAN
      /\ Layout /\ CacheCoherent
  BY Zenon DEF AnyInv, TypeOK
<1>3. Layout'
  BY <1>1, <1>2, Zenon DEF Layout
<1>4. CacheCoherent'
  BY <1>1, <1>2 DEF CacheCoherent
<1>5. QED
  BY <1>1, <1>2, <1>3, <1>4, Zenon DEF DirInv

(* The directory invariant and the types of the rest make up AnyInv.       *)
LEMMA AnyInvParts ==
    ASSUME DirInv', data' \in [Addrs -> Bytes], files' \in [Fds -> File], ret' \in Int
    PROVE  AnyInv'
  BY Zenon DEF AnyInv, TypeOK, DirInv

(* A good image with nothing open satisfies AnyInv.                        *)
LEMMA AnyInit == Init => AnyInv
<1> SUFFICES ASSUME Init PROVE AnyInv
  BY Zenon
<1>1. disk \in [Slots -> Dirent]
  BY DEF Init, ImageEntry, Dirent
<1>2. NoEntry \in Dirent
  BY Zenon DEF NoEntry, Dirent
<1>3. 0 \in Slots
  BY SizesAssumption DEF Slots
<1>4. NoFile \in File /\ ~NoFile.used
  BY <1>3, Zenon DEF NoFile, File
<1>5. data \in [Addrs -> Bytes]
  BY InputsAssumption, Zenon DEF Init
<1>6. dir \in [Slots -> Dirent] /\ files \in [Fds -> File] /\ \A fd \in Fds : ~files[fd].used
  BY <1>2, <1>4, Zenon DEF Init
<1>7. Layout
  BY Zenon DEF Init, GoodImage, Layout
<1>8. dir_loaded = FALSE /\ ret \in Int
  BY DEF Init
<1>9. CacheCoherent
  BY <1>6, <1>8, Zenon DEF CacheCoherent
<1>10. TypeOK
  BY <1>1, <1>5, <1>6, <1>8, Zenon DEF TypeOK
<1>11. QED
  BY <1>7, <1>9, <1>10, Zenon DEF AnyInv

(* open *)
LEMMA OpenKeepsAnyInv ==
    ASSUME AnyInv, bmfs_open
    PROVE  AnyInv'
<1>0. /\ TypeOK /\ DirOK(disk) /\ Loaded = disk
      /\ data \in [Addrs -> Bytes] /\ files \in [Fds -> File]
  BY DiskIsDirOK, Zenon DEF AnyInv, TypeOK
<1>1. CASE OpenBadPath
  <2>1. UNCHANGED <<disk, data, dir, dir_loaded, files>> /\ ret' \in Int
    BY <1>1 DEF OpenBadPath, ENOENT
  <2>2. QED
    BY <1>0, <2>1, SameKeepsDirInv, AnyInvParts, Zenon
<1>2. ASSUME NEW name \in Names, NEW flags \in Flags, OpenFails(name, flags)
      PROVE  AnyInv'
  <2>1. ret' \in Int
    BY <1>2, OpenErrorCases DEF OpenFails
  <2>2. DirInv'
    BY <1>2, LoadKeepsDirInv, Zenon DEF OpenFails
  <2>3. QED
    BY <1>0, <1>2, <2>1, <2>2, AnyInvParts, Zenon DEF OpenFails
<1>3. ASSUME NEW name \in Names, NEW flags \in Flags, OpenCreates(name, flags)
      PROVE  AnyInv'
  <2> DEFINE i == dir_find_free_slot(disk)
             e == NewEntry(disk, name)
  <2>1. FreeFds # {} /\ FreeSlots(disk) # {} /\ Matches(disk, name) = {}
    BY <1>0, <1>3, OpenErrorCases, Zenon DEF OpenCreates
  <2>2. i \in Slots /\ disk[i].name = NoName
    BY <2>1, FreeSlotIsFree, Zenon
  <2>3. /\ End(e) <= BlockBound
        /\ dir_flush([disk EXCEPT ![i] = e]) /\ FillFd(i, e, flags)
        /\ data' = data
    BY <1>0, <1>3, Zenon DEF OpenCreates
  <2>4. DirOK([disk EXCEPT ![i] = e])
    BY <1>0, <2>1, <2>2, <2>3, CreateKeepsDirOK, Zenon
  <2>5. DirInv'
    BY <2>3, <2>4, FlushKeepsDirInv, Zenon
  <2>6. e \in Dirent
    BY <1>0, NextBlockIsFree, Zenon DEF NewEntry, Dirent, DefaultBlocks
  <2>7. files' \in [Fds -> File] /\ ret' \in Int
    BY <1>0, <2>1, <2>2, <2>3, <2>6, FillFdKeepsTypes, Zenon
  <2>8. QED
    BY <1>0, <2>3, <2>5, <2>7, AnyInvParts, Zenon
<1>4. ASSUME NEW name \in Names, NEW flags \in Flags, OpenExisting(name, flags)
      PROVE  AnyInv'
  <2> DEFINE i == dir_find(disk, name)
             n == IF "TRUNC" \in flags THEN 0 ELSE disk[i].size
             e == [disk[i] EXCEPT !.size = n]
  <2>1. FreeFds # {} /\ Matches(disk, name) # {}
    BY <1>0, <1>4, OpenErrorCases, Zenon DEF OpenExisting
  <2>2. i \in Slots
    BY <2>1, FindReturnsMatch, Zenon
  <2>3. /\ IF "TRUNC" \in flags
           THEN dir_flush([disk EXCEPT ![i] = e])
           ELSE dir_load /\ UNCHANGED disk
        /\ FillFd(i, e, flags)
        /\ data' = data
    BY <1>0, <1>4, Zenon DEF OpenExisting
  <2>4. disk[i] \in Dirent
    BY <1>0, <2>2, Zenon DEF DirOK
  <2>5. n \in Nat /\ e \in Dirent
    BY <2>4, Zenon DEF Dirent
  <2>6. [disk EXCEPT ![i] = e] = [disk EXCEPT ![i].size = n]
    BY <1>0, <2>2, Zenon DEF DirOK
  <2> HIDE DEF e, n, i
  <2>7. DirOK([disk EXCEPT ![i] = e])
    BY <1>0, <2>2, <2>5, <2>6, ResizeKeepsDirOK, Zenon
  <2>8. DirInv'
    <3>1. CASE "TRUNC" \in flags
      BY <2>3, <2>7, <3>1, FlushKeepsDirInv, Zenon
    <3>2. CASE "TRUNC" \notin flags
      BY <2>3, <3>2, LoadKeepsDirInv, Zenon
    <3>3. QED
      BY <3>1, <3>2, Zenon
  <2>9. files' \in [Fds -> File] /\ ret' \in Int
    BY <1>0, <2>1, <2>2, <2>3, <2>5, FillFdKeepsTypes, Zenon
  <2>10. QED
    BY <1>0, <2>3, <2>8, <2>9, AnyInvParts, Zenon
<1>5. QED
  BY <1>1, <1>2, <1>3, <1>4, Zenon DEF bmfs_open

(* read, write, lseek and close *)
LEMMA ReadKeepsAnyInv ==
    ASSUME AnyInv, NEW fd \in Fds, NEW len \in Lens, bmfs_read(fd, len)
    PROVE  AnyInv'
<1> DEFINE f == files[fd]
           n == IF f.pos >= f.size THEN 0
                ELSE IF f.pos + len > f.size THEN f.size - f.pos ELSE len
<1>1. files \in [Fds -> File] /\ data \in [Addrs -> Bytes] /\ f \in File
  BY Zenon DEF AnyInv, TypeOK
<1>2. len \in Nat /\ f.pos \in Nat /\ f.size \in Nat
  BY <1>1, InputsAssumption, Zenon DEF File
<1>3. n \in Nat
  BY <1>2
<1>4. /\ files' = [files EXCEPT ![fd].pos = @ + n] /\ ret' = n
      /\ UNCHANGED <<disk, data, dir, dir_loaded>>
  BY Zenon DEF bmfs_read
<1> HIDE DEF n
<1>5. files' \in [Fds -> File] /\ \A g \in Fds : files'[g].used = files[g].used
  BY <1>1, <1>2, <1>3, <1>4 DEF File
<1>6. DirInv'
  BY <1>4, <1>5, SameKeepsDirInv, Zenon
<1>7. QED
  BY <1>1, <1>3, <1>4, <1>5, <1>6, AnyInvParts

(* How much a write stores, and where.                                     *)
LEMMA WriteBounds ==
    ASSUME NEW f \in File, NEW len \in Nat
    PROVE  /\ WriteOff(f) \in Nat /\ Capacity(f) \in Nat
           /\ WriteLen(f, len) \in Nat
           /\ WriteLen(f, len) > 0 => WriteOff(f) + WriteLen(f, len) <= Capacity(f)
<1>1. f.size \in Nat /\ f.pos \in Nat /\ f.reserved_blocks \in Nat
  BY Zenon DEF File
<1>2. WriteOff(f) \in Nat
  BY <1>1, Zenon DEF WriteOff
<1>3. Capacity(f) \in Nat
  BY <1>1, BlockBytesIsNat, Zenon DEF Capacity
<1>4. QED
  BY <1>2, <1>3 DEF WriteLen

(* The sector loop of bmfs_pwrite leaves bytes.                            *)
LEMMA StoredIsData ==
    ASSUME data \in [Addrs -> Bytes], NEW f, NEW off, NEW n, NEW b \in Bytes
    PROVE  Stored(f, off, n, b) \in [Addrs -> Bytes]
  BY Zenon DEF Stored

(* bmfs_write keeps AnyInv.                                                *)
LEMMA WriteKeepsAnyInv ==
    ASSUME AnyInv, NEW fd \in Fds, NEW len \in Lens, NEW b \in Bytes,
           bmfs_write(fd, len, b)
    PROVE  AnyInv'
<1> DEFINE f == files[fd]
           off == WriteOff(f)
           n == WriteLen(f, len)
           size == IF n > 0 /\ off + n > f.size THEN off + n ELSE f.size
           dirty == f.dirty \/ (n > 0 /\ off + n > f.size)
<1>1. files \in [Fds -> File] /\ data \in [Addrs -> Bytes] /\ f \in File
  BY Zenon DEF AnyInv, TypeOK
<1>2. len \in Nat /\ f.size \in Nat
  BY <1>1, InputsAssumption, Zenon DEF File
<1>3. off \in Nat /\ n \in Nat
  BY <1>1, <1>2, WriteBounds, Zenon
<1>4. size \in Nat /\ off + n \in Nat
  BY <1>2, <1>3
<1>5. dirty \in BOOLEAN
  BY Zenon
<1>6. /\ files' = [files EXCEPT ![fd].pos = off + n, ![fd].size = size, ![fd].dirty = dirty]
      /\ data' = Stored(f, off, n, b)
      /\ ret' = IF n = 0 THEN -ENOSPC ELSE n
      /\ UNCHANGED <<disk, dir, dir_loaded>>
  BY Zenon DEF bmfs_write
<1> HIDE DEF off, n, size, dirty
<1>7. files' \in [Fds -> File] /\ \A g \in Fds : files'[g].used = files[g].used
  BY <1>1, <1>4, <1>5, <1>6, Zenon DEF File
<1>8. data' \in [Addrs -> Bytes]
  BY <1>1, <1>6, StoredIsData, Zenon
<1>9. ret' \in Int
  BY <1>3, <1>6 DEF ENOSPC
<1>10. DirInv'
  BY <1>6, <1>7, SameKeepsDirInv, Zenon
<1>11. QED
  BY <1>7, <1>8, <1>9, <1>10, AnyInvParts, Zenon

(* bmfs_lseek keeps AnyInv: it refuses negative positions.                 *)
LEMMA LseekKeepsAnyInv ==
    ASSUME AnyInv, NEW fd \in Fds, NEW offset \in Offsets, NEW whence \in 0 .. 3,
           bmfs_lseek(fd, offset, whence)
    PROVE  AnyInv'
<1> DEFINE f == files[fd]
           np == SeekBase(f, whence) + offset
           bad == whence \notin 0 .. 2 \/ SeekBase(f, whence) + offset < 0
<1>1. files \in [Fds -> File] /\ data \in [Addrs -> Bytes] /\ f \in File /\ offset \in Int
  BY InputsAssumption, Zenon DEF AnyInv, TypeOK
<1>2. UNCHANGED <<disk, data, dir, dir_loaded>>
  BY Zenon DEF bmfs_lseek
<1>3. CASE bad
  <2>1. ret' = -EINVAL /\ files' = files
    BY <1>3, Zenon DEF bmfs_lseek
  <2>2. DirInv'
    BY <1>2, <2>1, SameKeepsDirInv, Zenon
  <2>3. QED
    BY <1>1, <1>2, <2>1, <2>2, AnyInvParts DEF EINVAL
<1>4. CASE ~bad
  <2>1. files' = [files EXCEPT ![fd].pos = np] /\ ret' = np
    BY <1>4, Zenon DEF bmfs_lseek
  <2>2. f.pos \in Nat /\ f.size \in Nat
    BY <1>1, Zenon DEF File
  <2>3. SeekBase(f, whence) \in Nat
    BY <1>4, <2>2 DEF SeekBase
  <2>4. np \in Nat
    BY <1>1, <1>4, <2>3
  <2> HIDE DEF np
  <2>5. files' \in [Fds -> File] /\ \A g \in Fds : files'[g].used = files[g].used
    BY <1>1, <2>1, <2>4, Zenon DEF File
  <2>6. DirInv'
    BY <1>2, <2>5, SameKeepsDirInv, Zenon
  <2>7. QED
    BY <1>1, <1>2, <2>1, <2>4, <2>5, <2>6, AnyInvParts
<1>5. QED
  BY <1>3, <1>4, Zenon

(* A place of files[] not in use has its type.                             *)
LEMMA NoFileIsFile == NoFile \in File /\ NoFile.used = FALSE
<1>1. 0 \in Slots
  BY SizesAssumption DEF Slots
<1>2. QED
  BY <1>1, Zenon DEF NoFile, File

(* bmfs_close keeps AnyInv.                                                *)
LEMMA CloseKeepsAnyInv ==
    ASSUME AnyInv, NEW fd \in Fds, bmfs_close(fd)
    PROVE  AnyInv'
<1> DEFINE f == files[fd]
<1>1. /\ files \in [Fds -> File] /\ data \in [Addrs -> Bytes] /\ f \in File
      /\ DirOK(disk) /\ CacheCoherent
  BY DiskIsDirOK, Zenon DEF AnyInv, TypeOK
<1>2. f.used /\ files' = [files EXCEPT ![fd] = NoFile] /\ ret' = 0 /\ data' = data
  BY Zenon DEF bmfs_close
<1>3. files' \in [Fds -> File] /\ \A g \in Fds : files'[g].used => files[g].used
  BY <1>1, <1>2, NoFileIsFile, Zenon
<1>4. dir = disk
  BY <1>1, <1>2, Zenon DEF CacheCoherent
<1>5. f.dir_index \in Slots /\ f.size \in Nat
  BY <1>1, Zenon DEF File
<1>6. CASE f.dirty
  <2>1. dir_flush([disk EXCEPT ![f.dir_index].size = f.size])
    BY <1>4, <1>6, Zenon DEF bmfs_close
  <2>2. DirOK([disk EXCEPT ![f.dir_index].size = f.size])
    BY <1>1, <1>5, ResizeKeepsDirOK, Zenon
  <2>3. DirInv'
    BY <2>1, <2>2, FlushKeepsDirInv, Zenon
  <2>4. QED
    BY <1>1, <1>2, <1>3, <2>3, AnyInvParts
<1>7. CASE ~f.dirty
  <2>1. UNCHANGED <<disk, dir, dir_loaded>>
    BY <1>7, Zenon DEF bmfs_close
  <2>2. DirInv'
    BY <1>3, <2>1, SameKeepsDirInv, Zenon
  <2>3. QED
    BY <1>1, <1>2, <1>3, <2>2, AnyInvParts
<1>8. QED
  BY <1>6, <1>7, Zenon

(* stat and unlink *)
LEMMA FstatKeepsAnyInv ==
    ASSUME AnyInv, NEW fd \in Fds, bmfs_fstat_fd(fd)
    PROVE  AnyInv'
<1>1. files \in [Fds -> File] /\ data \in [Addrs -> Bytes] /\ files[fd].size \in Nat
  BY Zenon DEF AnyInv, TypeOK, File
<1>2. ret' = files[fd].size /\ UNCHANGED <<disk, data, dir, dir_loaded, files>>
  BY Zenon DEF bmfs_fstat_fd
<1>3. DirInv'
  BY <1>2, SameKeepsDirInv, Zenon
<1>4. QED
  BY <1>1, <1>2, <1>3, AnyInvParts

(* bmfs_fstatat keeps AnyInv.                                              *)
LEMMA FstatatKeepsAnyInv ==
    ASSUME AnyInv, NEW name, bmfs_fstatat(name)
    PROVE  AnyInv'
<1>1. files \in [Fds -> File] /\ data \in [Addrs -> Bytes] /\ DirOK(disk) /\ Loaded = disk
  BY DiskIsDirOK, Zenon DEF AnyInv, TypeOK
<1>2. /\ dir_load /\ UNCHANGED <<disk, data, files>>
      /\ ret' = IF Matches(disk, name) = {} THEN -ENOENT ELSE disk[dir_find(disk, name)].size
  BY <1>1, Zenon DEF bmfs_fstatat
<1>3. DirInv'
  BY <1>2, LoadKeepsDirInv, Zenon
<1>4. ret' \in Int
  <2>1. CASE Matches(disk, name) = {}
    BY <2>1, <1>2 DEF ENOENT
  <2>2. CASE Matches(disk, name) # {}
    <3>1. dir_find(disk, name) \in Slots
      BY <2>2, FindReturnsMatch, Zenon
    <3>2. QED
      BY <1>1, <1>2, <2>2, <3>1 DEF DirOK, Dirent
  <2>3. QED
    BY <2>1, <2>2, Zenon
<1>5. QED
  BY <1>1, <1>2, <1>3, <1>4, AnyInvParts, Zenon

(* bmfs_unlink keeps AnyInv.                                               *)
LEMMA UnlinkKeepsAnyInv ==
    ASSUME AnyInv, NEW name, bmfs_unlink(name)
    PROVE  AnyInv'
<1>1. files \in [Fds -> File] /\ data \in [Addrs -> Bytes] /\ DirOK(disk) /\ Loaded = disk
  BY DiskIsDirOK DEF AnyInv, TypeOK
<1>2. data' = data /\ files' = files
  BY Zenon DEF bmfs_unlink
<1>3. CASE Matches(disk, name) = {}
  <2>1. dir_load /\ ret' = -ENOENT /\ UNCHANGED disk
    BY <1>1, <1>3, Zenon DEF bmfs_unlink
  <2>2. DirInv'
    BY <2>1, LoadKeepsDirInv, Zenon
  <2>3. QED
    BY <1>1, <1>2, <2>1, <2>2, AnyInvParts DEF ENOENT
<1>4. CASE Matches(disk, name) # {}
  <2> DEFINE i == dir_find(disk, name)
  <2>1. i \in Slots
    BY <1>4, FindReturnsMatch, Zenon
  <2>2. dir_flush([disk EXCEPT ![i] = NoEntry]) /\ ret' = 0
    BY <1>1, <1>4, Zenon DEF bmfs_unlink
  <2>3. DirInv'
    BY <1>1, <2>1, <2>2, ClearKeepsDirOK, FlushKeepsDirInv, Zenon
  <2>4. QED
    BY <1>1, <1>2, <2>2, <2>3, AnyInvParts
<1>5. QED
  BY <1>3, <1>4, Zenon

(* stops *)
LEMMA RebootKeepsAnyInv ==
    ASSUME AnyInv, Reboot, data' \in [Addrs -> Bytes]
    PROVE  AnyInv'
<1>1. disk' = disk /\ dir_loaded' = FALSE /\ ret' = 0
  BY Zenon DEF Reboot
<1>2. dir' \in [Slots -> Dirent]
  BY Zenon DEF Reboot, NoEntry, Dirent
<1>3. files' \in [Fds -> File] /\ \A fd \in Fds : ~files'[fd].used
  BY NoFileIsFile, Zenon DEF Reboot
<1>4. disk \in [Slots -> Dirent] /\ Layout
  BY Zenon DEF AnyInv, TypeOK
<1>5. Layout'
  BY <1>1, <1>4, Zenon DEF Layout
<1>6. CacheCoherent'
  BY <1>1, <1>3, Zenon DEF CacheCoherent
<1>7. DirInv'
  BY <1>1, <1>2, <1>4, <1>5, <1>6, Zenon DEF DirInv
<1>8. QED
  BY <1>1, <1>3, <1>7, AnyInvParts

(* Every step of the file layer keeps AnyInv.                              *)
LEMMA AnyStep ==
    ASSUME AnyInv, [Next]_vars
    PROVE  AnyInv'
<1>0. data \in [Addrs -> Bytes] /\ files \in [Fds -> File] /\ ret \in Int
  BY Zenon DEF AnyInv, TypeOK
<1>1. CASE bmfs_open
  BY <1>1, OpenKeepsAnyInv, Zenon
<1>2. CASE \E fd \in Fds, len \in Lens : bmfs_read(fd, len)
  BY <1>2, ReadKeepsAnyInv, Zenon
<1>3. CASE \E fd \in Fds, len \in Lens, b \in Bytes : bmfs_write(fd, len, b)
  BY <1>3, WriteKeepsAnyInv, Zenon
<1>4. CASE \E fd \in Fds, offset \in Offsets, whence \in 0 .. 3 :
              bmfs_lseek(fd, offset, whence)
  BY <1>4, LseekKeepsAnyInv, Zenon
<1>5. CASE \E fd \in Fds : bmfs_close(fd)
  BY <1>5, CloseKeepsAnyInv, Zenon
<1>6. CASE \E fd \in Fds : bmfs_fstat_fd(fd)
  BY <1>6, FstatKeepsAnyInv, Zenon
<1>7. CASE \E name \in Names \cup {BadName} : bmfs_fstatat(name)
  BY <1>7, FstatatKeepsAnyInv, Zenon
<1>8. CASE \E name \in Names \cup {BadName} : bmfs_unlink(name)
  BY <1>8, UnlinkKeepsAnyInv, Zenon
<1>9. CASE Exit
  BY <1>0, <1>9, RebootKeepsAnyInv, Zenon DEF Exit
<1>10. CASE \E fd \in Fds, len \in Lens, b \in Bytes : StopInWrite(fd, len, b)
  BY <1>0, <1>10, RebootKeepsAnyInv, StoredIsData DEF StopInWrite
<1>11. CASE UNCHANGED vars
  <2>1. UNCHANGED <<disk, data, dir, dir_loaded, files, ret>>
    BY <1>11, Zenon DEF vars
  <2>2. DirInv'
    BY <2>1, SameKeepsDirInv, Zenon
  <2>3. QED
    BY <1>0, <2>1, <2>2, AnyInvParts, Zenon
<1>12. QED
  BY <1>1, <1>2, <1>3, <1>4, <1>5, <1>6, <1>7, <1>8, <1>9, <1>10, <1>11, Zenon DEF Next

(* AnyInv is an invariant, for every program.                              *)
LEMMA AnyInvHolds == Spec => []AnyInv
<1>1. AnyInv /\ [Next]_vars => AnyInv'
  BY AnyStep, Zenon
<1>2. QED
  BY AnyInit, <1>1, PTL DEF Spec

(* Every field of the directory, the open-file table and the disk keeps    *)
(* its type under every sequence of file calls and stops.                  *)
THEOREM BmfsTypeOK == Spec => []TypeOK
<1>1. AnyInv => TypeOK
  BY Zenon DEF AnyInv
<1>2. QED
  BY AnyInvHolds, <1>1, PTL

(* Whatever the program creates, unlinks or truncates, and wherever the    *)
(* machine stops, the directory on disk keeps one entry per name and       *)
(* disjoint extents inside the data blocks: dir_next_free_block never      *)
(* hands out a block twice.                                                *)
THEOREM LayoutSafe == Spec => []Layout
<1>1. AnyInv => Layout
  BY Zenon DEF AnyInv
<1>2. QED
  BY AnyInvHolds, <1>1, PTL

(* Between calls the RAM directory equals the one on disk, and no file is  *)
(* open before the directory is loaded.                                    *)
THEOREM CacheSafe == Spec => []CacheCoherent
<1>1. AnyInv => CacheCoherent
  BY Zenon DEF AnyInv
<1>2. QED
  BY AnyInvHolds, <1>1, PTL

-----------------------------------------------------------------------------
(* A descriptor f and the directory entry e it was opened on agree.        *)
Agree(f, e) ==
    /\ e.name # NoName
    /\ f.start_block = e.start_block
    /\ f.reserved_blocks = e.reserved_blocks
    /\ e.size <= f.size
    /\ ~f.dirty => f.size = e.size
    /\ Fits(f)

Tracks(fs, d) == \A fd \in Fds : fs[fd].used => Agree(fs[fd], d[fs[fd].dir_index])
Exclusive(fs) ==
    \A g, h \in Fds :
        fs[g].used /\ fs[h].used /\ fs[g].dir_index = fs[h].dir_index => g = h
AllFit(d) == \A i \in UsedSlots(d) : Fits(d[i])

(* The inductive invariant: open files agree with the entries on disk, one *)
(* descriptor per entry, and every length fits its extent.  A length fits  *)
(* after close because it fitted in the descriptor, and that one's extent  *)
(* is still the entry's.                                                   *)
PlainInv == AnyInv /\ Tracks(files, disk) /\ Exclusive(files) /\ AllFit(disk)

(* A change of one place fd of files[], and of the directory slot it is    *)
(* open on, which no other place is.                                       *)
OneChange(fs, gs, d, dd, fd, i) ==
    /\ fs \in [Fds -> File] /\ gs \in [Fds -> File]
    /\ \A j \in Slots : j # i => dd[j] = d[j]
    /\ \A g \in Fds : g # fd => gs[g] = fs[g]
    /\ \A g \in Fds : g # fd /\ fs[g].used => fs[g].dir_index # i
    /\ gs[fd].used => gs[fd].dir_index = i /\ Agree(gs[fd], dd[i])

(* A change of one descriptor and its entry keeps Tracks and Exclusive.    *)
LEMMA ChangeOne ==
    ASSUME NEW fs, NEW gs, NEW d, NEW dd, NEW fd \in Fds, NEW i \in Slots,
           Tracks(fs, d), Exclusive(fs), OneChange(fs, gs, d, dd, fd, i)
    PROVE  Tracks(gs, dd) /\ Exclusive(gs)
<1> USE DEF OneChange
<1>1. \A g \in Fds : gs[g].dir_index \in Slots /\ fs[g].dir_index \in Slots
  BY Zenon DEF File
<1>2. Tracks(gs, dd)
  <2>1. ASSUME NEW g \in Fds, gs[g].used
        PROVE  Agree(gs[g], dd[gs[g].dir_index])
    <3>1. CASE g = fd
      BY <2>1, <3>1, Zenon
    <3>2. CASE g # fd
      <4>1. gs[g] = fs[g] /\ fs[g].used /\ fs[g].dir_index # i
        BY <2>1, <3>2, Zenon
      <4>2. dd[gs[g].dir_index] = d[fs[g].dir_index]
        BY <1>1, <4>1, Zenon
      <4>3. QED
        BY <4>1, <4>2, Zenon DEF Tracks
    <3>3. QED
      BY <3>1, <3>2, Zenon
  <2>2. QED
    BY <2>1, Zenon DEF Tracks
<1>3. Exclusive(gs)
  <2>1. ASSUME NEW g \in Fds, NEW h \in Fds, gs[g].used, gs[h].used,
               gs[g].dir_index = gs[h].dir_index
        PROVE  g = h
    <3>1. CASE g # fd /\ h # fd
      BY <2>1, <3>1, Zenon DEF Exclusive
    <3>2. CASE g = fd /\ h # fd
      BY <2>1, <3>2, Zenon
    <3>3. CASE g # fd /\ h = fd
      BY <2>1, <3>3, Zenon
    <3>4. QED
      BY <3>1, <3>2, <3>3, Zenon
  <2>2. QED
    BY <2>1, Zenon DEF Exclusive
<1>4. QED
  BY <1>2, <1>3, Zenon

(* A directory whose other slots are unchanged still has lengths that fit. *)
LEMMA FitOne ==
    ASSUME NEW d, NEW dd, NEW i \in Slots, AllFit(d),
           \A j \in Slots : j # i => dd[j] = d[j],
           dd[i].name # NoName => Fits(dd[i])
    PROVE  AllFit(dd)
  BY Zenon DEF AllFit, UsedSlots

(* Under PlainInv the entry of an open file is a named slot.               *)
LEMMA OpenIsNamed ==
    ASSUME PlainInv, NEW fd \in Fds, files[fd].used
    PROVE  /\ files[fd] \in File /\ files[fd].dir_index \in Slots
           /\ Agree(files[fd], disk[files[fd].dir_index])
           /\ disk[files[fd].dir_index] \in Dirent
           /\ dir = disk
<1>1. files[fd] \in File /\ files[fd].dir_index \in Slots
  BY Zenon DEF PlainInv, AnyInv, TypeOK, File
<1>2. dir = disk
  BY Zenon DEF PlainInv, AnyInv, CacheCoherent
<1>3. disk \in [Slots -> Dirent]
  BY Zenon DEF PlainInv, AnyInv, TypeOK
<1>4. QED
  BY <1>1, <1>2, <1>3, Zenon DEF PlainInv, Tracks

(* PlainInv implies the two invariants it was made for.                    *)
LEMMA PlainInvIsCurrent ==
    ASSUME PlainInv PROVE FdCurrent /\ SizeFits
<1>1. SizeFits
  BY Zenon DEF PlainInv, AllFit, SizeFits
<1>2. ASSUME NEW fd \in Fds, files[fd].used
      PROVE  /\ Agree(files[fd], dir[files[fd].dir_index])
             /\ OpenOn(files[fd].dir_index) = {fd}
  <2>1. Agree(files[fd], dir[files[fd].dir_index])
    BY <1>2, OpenIsNamed, Zenon
  <2>2. OpenOn(files[fd].dir_index) = {fd}
    BY <1>2, Zenon DEF PlainInv, Exclusive, OpenOn
  <2>3. QED
    BY <2>1, <2>2, Zenon
<1>3. FdCurrent
  BY <1>2, Zenon DEF FdCurrent, Agree
<1>4. QED
  BY <1>1, <1>3, Zenon

(* A good image with nothing open satisfies PlainInv.                      *)
LEMMA PlainInit == Init => PlainInv
<1> SUFFICES ASSUME Init PROVE PlainInv
  OBVIOUS
<1>1. AnyInv
  BY AnyInit, Zenon
<1>2. \A fd \in Fds : ~files[fd].used
  BY NoFileIsFile, Zenon DEF Init
<1>3. AllFit(disk)
  BY Zenon DEF Init, GoodImage, AllFit
<1>4. QED
  BY <1>1, <1>2, <1>3, Zenon DEF PlainInv, Tracks, Exclusive

-----------------------------------------------------------------------------
(* One lemma per kind of step.                                             *)

(* Steps that leave the disk's directory alone and at most move a position.*)
LEMMA MoveKeepsPlainInv ==
    ASSUME PlainInv, AnyInv', disk' = disk,
           \/ files' = files
           \/ \E fd \in Fds, p \in Nat : files' = [files EXCEPT ![fd].pos = p]
    PROVE  PlainInv'
<1>1. files \in [Fds -> File] /\ files' \in [Fds -> File]
  BY Zenon DEF PlainInv, AnyInv, TypeOK
<1>2. \A g \in Fds : /\ files'[g].used = files[g].used
                     /\ files'[g].dir_index = files[g].dir_index
                     /\ files'[g].start_block = files[g].start_block
                     /\ files'[g].reserved_blocks = files[g].reserved_blocks
                     /\ files'[g].size = files[g].size
                     /\ files'[g].dirty = files[g].dirty
  BY <1>1 DEF File
<1>3. Tracks(files, disk)' /\ Exclusive(files)'
  BY <1>2 DEF PlainInv, Tracks, Exclusive, Agree, Fits, Capacity
<1>4. AllFit(disk)'
  BY Zenon DEF PlainInv, AllFit
<1>5. QED
  BY <1>3, <1>4, Zenon DEF PlainInv

(* bmfs_write, whose clamp keeps the length within the extent.             *)
LEMMA WriteKeepsPlainInv ==
    ASSUME PlainInv, AnyInv', NEW fd \in Fds, NEW len \in Lens, NEW b \in Bytes,
           bmfs_write(fd, len, b)
    PROVE  PlainInv'
<1> DEFINE f == files[fd]
           i == f.dir_index
           off == WriteOff(f)
           n == WriteLen(f, len)
           size == IF n > 0 /\ off + n > f.size THEN off + n ELSE f.size
           dirty == f.dirty \/ (n > 0 /\ off + n > f.size)
<1>1. files \in [Fds -> File] /\ files' \in [Fds -> File]
  BY Zenon DEF PlainInv, AnyInv, TypeOK
<1>2. /\ f.used
      /\ files' = [files EXCEPT ![fd].pos = off + n, ![fd].size = size, ![fd].dirty = dirty]
      /\ disk' = disk
  BY Zenon DEF bmfs_write
<1>3. /\ f \in File /\ i \in Slots /\ Agree(f, disk[i]) /\ disk[i] \in Dirent
  BY <1>2, OpenIsNamed, Zenon
<1>4. len \in Nat
  BY InputsAssumption, Zenon
<1>5. /\ off \in Nat /\ n \in Nat /\ Capacity(f) \in Nat
      /\ n > 0 => off + n <= Capacity(f)
  BY <1>3, <1>4, WriteBounds, Zenon
<1>6. f.size \in Nat /\ disk[i].size \in Nat /\ f.size <= Capacity(f)
  BY <1>3, Zenon DEF File, Dirent, Agree, Fits
<1>7. size \in Nat /\ f.size <= size /\ size <= Capacity(f) /\ (~dirty => size = f.size)
  BY <1>5, <1>6, SMTT(30)
<1>8. ~dirty => ~f.dirty
  BY Zenon
<1> HIDE DEF off, n, size, dirty
<1>9. /\ files'[fd].used = f.used /\ files'[fd].dir_index = i
      /\ files'[fd].start_block = f.start_block
      /\ files'[fd].reserved_blocks = f.reserved_blocks
      /\ files'[fd].size = size /\ files'[fd].dirty = dirty
      /\ \A g \in Fds : g # fd => files'[g] = files[g]
  BY <1>1, <1>2, Zenon DEF File
<1>10. Capacity(files'[fd]) = Capacity(f)
  BY <1>9, Zenon DEF Capacity
<1>11. disk[i].size <= size
  BY <1>3, <1>6, <1>7, SMTT(30) DEF Agree
<1>12. Agree(files'[fd], disk[i])
  <2>1. ~files'[fd].dirty => files'[fd].size = disk[i].size
    BY <1>3, <1>7, <1>8, <1>9, Zenon DEF Agree
  <2>2. Fits(files'[fd])
    BY <1>7, <1>9, <1>10, Zenon DEF Fits
  <2>3. QED
    BY <1>3, <1>9, <1>11, <2>1, <2>2, Zenon DEF Agree
<1>13. \A g \in Fds : g # fd /\ files[g].used => files[g].dir_index # i
  BY <1>2, Zenon DEF PlainInv, Exclusive
<1> HIDE DEF i, f
<1>14. OneChange(files, files', disk, disk, fd, i)
  BY <1>1, <1>9, <1>12, <1>13, Zenon DEF OneChange
<1>15. Tracks(files', disk) /\ Exclusive(files')
  BY <1>3, <1>14, ChangeOne, Zenon DEF PlainInv
<1>16. QED
  BY <1>2, <1>15, Zenon DEF PlainInv, Tracks, Exclusive, AllFit

(* bmfs_close, which stores the length of its own entry.                   *)
LEMMA CloseKeepsPlainInv ==
    ASSUME PlainInv, AnyInv', NEW fd \in Fds, bmfs_close(fd)
    PROVE  PlainInv'
<1> DEFINE f == files[fd]
           i == f.dir_index
<1>1. files \in [Fds -> File] /\ files' \in [Fds -> File] /\ disk \in [Slots -> Dirent]
  BY Zenon DEF PlainInv, AnyInv, TypeOK
<1>2. f.used /\ files' = [files EXCEPT ![fd] = NoFile]
  BY Zenon DEF bmfs_close
<1>3. f \in File /\ i \in Slots /\ Agree(f, disk[i]) /\ disk[i] \in Dirent /\ dir = disk
  BY <1>2, OpenIsNamed, Zenon
<1>4. ~files'[fd].used /\ \A g \in Fds : g # fd => files'[g] = files[g]
  BY <1>1, <1>2, NoFileIsFile, Zenon
<1>5. \A g \in Fds : g # fd /\ files[g].used => files[g].dir_index # i
  BY <1>2, Zenon DEF PlainInv, Exclusive
<1>6. \/ disk' = disk
      \/ disk' = [disk EXCEPT ![i].size = f.size]
  BY <1>3, Zenon DEF bmfs_close, dir_flush
<1>7. /\ \A j \in Slots : j # i => disk'[j] = disk[j]
      /\ disk'[i].reserved_blocks = disk[i].reserved_blocks
      /\ disk'[i].size = disk[i].size \/ disk'[i].size = f.size
  BY <1>1, <1>3, <1>6, SMTT(30) DEF Dirent
<1>8. Fits(disk[i]) /\ Capacity(f) = Capacity(disk[i]) /\ Fits(f)
  BY <1>3, Zenon DEF PlainInv, AllFit, UsedSlots, Agree, Capacity
<1>9. Fits(disk'[i])
  BY <1>7, <1>8, Zenon DEF Fits, Capacity
<1>10. AllFit(disk')
  BY <1>3, <1>7, <1>9, FitOne, Zenon DEF PlainInv
<1> HIDE DEF i, f
<1>11. OneChange(files, files', disk, disk', fd, i)
  BY <1>1, <1>4, <1>5, <1>7, Zenon DEF OneChange
<1>12. Tracks(files', disk') /\ Exclusive(files')
  BY <1>3, <1>11, ChangeOne, Zenon DEF PlainInv
<1>13. QED
  BY <1>10, <1>12, Zenon DEF PlainInv, Tracks, Exclusive, AllFit

(* open of the entry e of slot i, which nobody has open: e is what the     *)
(* disk holds there afterwards, whether it was made, truncated or found.   *)
LEMMA FillKeepsPlainInv ==
    ASSUME PlainInv, AnyInv', NEW i \in Slots, NEW e \in Dirent, NEW flags,
           FreeFds # {}, OpenOn(i) = {}, FillFd(i, e, flags),
           disk' = [disk EXCEPT ![i] = e], e.name # NoName, Fits(e)
    PROVE  PlainInv'
<1> DEFINE fd == Min(FreeFds)
           f == [used |-> TRUE, dirty |-> FALSE, append |-> "APPEND" \in flags,
                 dir_index |-> i, start_block |-> e.start_block,
                 reserved_blocks |-> e.reserved_blocks, size |-> e.size,
                 pos |-> IF "APPEND" \in flags THEN e.size ELSE 0]
<1>1. /\ files \in [Fds -> File] /\ files' \in [Fds -> File]
      /\ disk \in [Slots -> Dirent]
  BY Zenon DEF PlainInv, AnyInv, TypeOK
<1>2. fd \in Fds
  BY FreeFdIsFree, Zenon
<1>3. files' = [files EXCEPT ![fd] = f]
  BY Zenon DEF FillFd
<1>4. /\ f.dir_index = i /\ f.start_block = e.start_block /\ f.size = e.size
      /\ f.reserved_blocks = e.reserved_blocks
  BY Zenon
<1>5. Agree(f, e)
  <2>1. e.size \in Nat /\ e.size <= f.size
    BY <1>4 DEF Dirent
  <2>2. Fits(f)
    BY <1>4, Zenon DEF Fits, Capacity
  <2>3. QED
    BY <1>4, <2>1, <2>2, Zenon DEF Agree
<1> HIDE DEF fd, f
<1>6. files'[fd] = f /\ \A g \in Fds : g # fd => files'[g] = files[g]
  BY <1>1, <1>2, <1>3, Zenon
<1>7. disk'[i] = e /\ \A j \in Slots : j # i => disk'[j] = disk[j]
  BY <1>1, Zenon
<1>8. \A g \in Fds : files[g].used => files[g].dir_index # i
  BY Zenon DEF OpenOn
<1>9. OneChange(files, files', disk, disk', fd, i)
  BY <1>1, <1>4, <1>5, <1>6, <1>7, <1>8, Zenon DEF OneChange
<1>10. Tracks(files', disk') /\ Exclusive(files')
  BY <1>2, <1>9, ChangeOne, Zenon DEF PlainInv
<1>11. AllFit(disk')
  <2>1. AllFit(disk) /\ Fits(disk'[i])
    BY <1>7, Zenon DEF PlainInv
  <2>2. QED
    BY <1>7, <2>1, Zenon DEF AllFit, UsedSlots
<1>12. QED
  BY <1>10, <1>11, Zenon DEF PlainInv, Tracks, Exclusive, AllFit

(* open, on every path through bmfs_open.                                  *)
LEMMA OpenKeepsPlainInv ==
    ASSUME PlainInv, PlainClient, AnyInv', bmfs_open
    PROVE  PlainInv'
<1>0. DirOK(disk) /\ Loaded = disk /\ disk \in [Slots -> Dirent]
  BY DiskIsDirOK, Zenon DEF PlainInv, DirOK
<1>1. CASE OpenBadPath
  BY <1>1, MoveKeepsPlainInv, Zenon DEF OpenBadPath
<1>2. ASSUME NEW name \in Names, NEW flags \in Flags, OpenFails(name, flags)
      PROVE  PlainInv'
  BY <1>2, MoveKeepsPlainInv, Zenon DEF OpenFails
<1>3. ASSUME NEW name \in Names, NEW flags \in Flags, OpenCreates(name, flags)
      PROVE  PlainInv'
  <2> DEFINE i == dir_find_free_slot(disk)
             e == NewEntry(disk, name)
  <2>1. FreeFds # {} /\ FreeSlots(disk) # {}
    BY <1>0, <1>3, OpenErrorCases, Zenon DEF OpenCreates
  <2>2. i \in Slots /\ disk[i].name = NoName
    BY <2>1, FreeSlotIsFree, Zenon
  <2>3. disk' = [disk EXCEPT ![i] = e] /\ FillFd(i, e, flags)
    BY <1>0, <1>3, Zenon DEF OpenCreates, dir_flush
  <2>4. e \in Dirent
    BY <1>0, NextBlockIsFree, Zenon DEF NewEntry, Dirent, DefaultBlocks
  <2>5. e.name # NoName /\ Fits(e)
    <3>1. e.name = name /\ e.size = 0 /\ e.reserved_blocks = DefaultBlocks
      BY Zenon DEF NewEntry
    <3>2. QED
      BY <3>1, BlockBytesIsNat, NamesAssumption DEF Fits, Capacity, DefaultBlocks
  <2>6. OpenOn(i) = {}
    BY <2>2, Zenon DEF OpenOn, PlainInv, Tracks, Agree
  <2> HIDE DEF i, e
  <2>7. QED
    BY <2>1, <2>2, <2>3, <2>4, <2>5, <2>6, FillKeepsPlainInv, Zenon
<1>4. ASSUME NEW name \in Names, NEW flags \in Flags, OpenExisting(name, flags)
      PROVE  PlainInv'
  <2> DEFINE i == dir_find(disk, name)
             n == IF "TRUNC" \in flags THEN 0 ELSE disk[i].size
             e == [disk[i] EXCEPT !.size = n]
  <2>1. FreeFds # {} /\ Matches(disk, name) # {}
    BY <1>0, <1>4, OpenErrorCases, Zenon DEF OpenExisting
  <2>2. i \in Slots /\ i \in UsedSlots(disk)
    BY <2>1, FindReturnsMatch, NamesAssumption, Zenon DEF UsedSlots
  <2>3. /\ IF "TRUNC" \in flags
           THEN disk' = [disk EXCEPT ![i] = e]
           ELSE disk' = disk
        /\ FillFd(i, e, flags) /\ OpenOn(i) = {}
    BY <1>0, <1>4, Zenon DEF OpenExisting, dir_flush, PlainClient
  <2>4. disk[i] \in Dirent /\ disk[i].name # NoName /\ Fits(disk[i])
    BY <1>0, <2>2, Zenon DEF PlainInv, AllFit, UsedSlots
  <2>5. /\ e \in Dirent /\ e.name = disk[i].name /\ e.size = n
        /\ e.reserved_blocks = disk[i].reserved_blocks
        /\ "TRUNC" \notin flags => e = disk[i]
    BY <2>4, Zenon DEF Dirent
  <2>6. Fits(e)
    <3>1. Capacity(e) \in Nat /\ Capacity(e) = Capacity(disk[i])
      BY <2>4, <2>5, BlockBytesIsNat, Zenon DEF Capacity, Dirent
    <3>2. QED
      BY <2>4, <2>5, <3>1 DEF Fits
  <2> HIDE DEF i, n, e
  <2>7. disk' = [disk EXCEPT ![i] = e]
    BY <1>0, <2>2, <2>3, <2>5, Zenon
  <2>8. QED
    BY <2>1, <2>2, <2>3, <2>4, <2>5, <2>6, <2>7, FillKeepsPlainInv, Zenon
<1>5. QED
  BY <1>1, <1>2, <1>3, <1>4, Zenon DEF bmfs_open

(* unlink of a file that is not open.                                      *)
LEMMA UnlinkKeepsPlainInv ==
    ASSUME PlainInv, PlainClient, AnyInv', NEW name, bmfs_unlink(name)
    PROVE  PlainInv'
<1>1. Loaded = disk /\ disk \in [Slots -> Dirent] /\ files \in [Fds -> File]
  BY DiskIsDirOK, Zenon DEF PlainInv, AnyInv, TypeOK
<1>2. files' = files
  BY Zenon DEF bmfs_unlink
<1>3. CASE Matches(disk, name) = {}
  BY <1>1, <1>2, <1>3, MoveKeepsPlainInv, Zenon DEF bmfs_unlink
<1>4. CASE Matches(disk, name) # {}
  <2> DEFINE i == dir_find(disk, name)
  <2>1. i \in Slots
    BY <1>4, FindReturnsMatch, Zenon
  <2>2. OpenOn(i) = {} /\ disk' = [disk EXCEPT ![i] = NoEntry]
    BY <1>1, <1>4, Zenon DEF bmfs_unlink, dir_flush, PlainClient
  <2> HIDE DEF i
  <2>3. disk'[i] = NoEntry /\ \A j \in Slots : j # i => disk'[j] = disk[j]
    BY <1>1, <2>1, <2>2, Zenon
  <2>4. \A fd \in Fds : files[fd].used => disk'[files[fd].dir_index] = disk[files[fd].dir_index]
    BY <1>1, <2>2, <2>3, Zenon DEF OpenOn, File
  <2>5. Tracks(files', disk') /\ Exclusive(files')
    BY <1>2, <2>4, Zenon DEF PlainInv, Tracks, Exclusive
  <2>6. AllFit(disk')
    BY <2>1, <2>3, FitOne DEF PlainInv, NoEntry
  <2>7. QED
    BY <2>5, <2>6, Zenon DEF PlainInv, Tracks, Exclusive, AllFit
<1>5. QED
  BY <1>3, <1>4, Zenon

(* A stop empties files[] and leaves the disk's directory.                 *)
LEMMA RebootKeepsPlainInv ==
    ASSUME PlainInv, AnyInv', Reboot
    PROVE  PlainInv'
<1>1. \A fd \in Fds : ~files'[fd].used
  BY NoFileIsFile, Zenon DEF Reboot
<1>2. AllFit(disk')
  BY Zenon DEF Reboot, PlainInv
<1>3. QED
  BY <1>1, <1>2, Zenon DEF PlainInv, Tracks, Exclusive, AllFit

(* Every step of a plain client's program keeps the invariant.             *)
LEMMA PlainStep ==
    ASSUME PlainInv, PlainClient, [Next]_vars
    PROVE  PlainInv'
<1>0. AnyInv' /\ files \in [Fds -> File]
  BY AnyStep, Zenon DEF PlainInv, AnyInv, TypeOK
<1>1. CASE bmfs_open
  BY <1>0, <1>1, OpenKeepsPlainInv, Zenon
<1>2. ASSUME NEW fd \in Fds, NEW len \in Lens, bmfs_read(fd, len)
      PROVE  PlainInv'
  <2> DEFINE f == files[fd]
             n == IF f.pos >= f.size THEN 0
                  ELSE IF f.pos + len > f.size THEN f.size - f.pos ELSE len
  <2>1. len \in Nat /\ f.pos \in Nat /\ f.size \in Nat
    BY <1>0, InputsAssumption, Zenon DEF File
  <2>2. f.pos + n \in Nat
    BY <2>1
  <2>3. disk' = disk /\ files' = [files EXCEPT ![fd].pos = f.pos + n]
    BY <1>0, <1>2, Zenon DEF bmfs_read
  <2> HIDE DEF n, f
  <2>4. QED
    BY <1>0, <2>2, <2>3, MoveKeepsPlainInv, Zenon
<1>3. ASSUME NEW fd \in Fds, NEW len \in Lens, NEW b \in Bytes, bmfs_write(fd, len, b)
      PROVE  PlainInv'
  BY <1>0, <1>3, WriteKeepsPlainInv, Zenon
<1>4. ASSUME NEW fd \in Fds, NEW offset \in Offsets, NEW whence \in 0 .. 3,
             bmfs_lseek(fd, offset, whence)
      PROVE  PlainInv'
  <2> DEFINE f == files[fd]
             np == SeekBase(f, whence) + offset
             bad == whence \notin 0 .. 2 \/ SeekBase(f, whence) + offset < 0
  <2>0. disk' = disk
    BY <1>4, Zenon DEF bmfs_lseek
  <2>1. CASE bad
    BY <1>0, <1>4, <2>0, <2>1, MoveKeepsPlainInv, Zenon DEF bmfs_lseek
  <2>2. CASE ~bad
    <3>1. f.pos \in Nat /\ f.size \in Nat /\ offset \in Int
      BY <1>0, InputsAssumption, Zenon DEF File
    <3>2. SeekBase(f, whence) \in Nat
      BY <2>2, <3>1 DEF SeekBase
    <3>3. np \in Nat
      BY <2>2, <3>1, <3>2
    <3>4. files' = [files EXCEPT ![fd].pos = np]
      BY <1>4, <2>2, Zenon DEF bmfs_lseek
    <3> HIDE DEF np
    <3>5. QED
      BY <1>0, <2>0, <3>3, <3>4, MoveKeepsPlainInv, Zenon
  <2>3. QED
    BY <2>1, <2>2, Zenon
<1>5. ASSUME NEW fd \in Fds, bmfs_close(fd)
      PROVE  PlainInv'
  BY <1>0, <1>5, CloseKeepsPlainInv, Zenon
<1>6. CASE \E fd \in Fds : bmfs_fstat_fd(fd)
  BY <1>0, <1>6, MoveKeepsPlainInv, Zenon DEF bmfs_fstat_fd
<1>7. CASE \E name \in Names \cup {BadName} : bmfs_fstatat(name)
  BY <1>0, <1>7, MoveKeepsPlainInv, Zenon DEF bmfs_fstatat
<1>8. ASSUME NEW name, bmfs_unlink(name)
      PROVE  PlainInv'
  BY <1>0, <1>8, UnlinkKeepsPlainInv, Zenon
<1>9. CASE Reboot
  BY <1>0, <1>9, RebootKeepsPlainInv, Zenon
<1>10. CASE UNCHANGED vars
  BY <1>0, <1>10, MoveKeepsPlainInv, Zenon DEF vars
<1>11. QED
  BY <1>1, <1>2, <1>3, <1>4, <1>5, <1>6, <1>7, <1>8, <1>9, <1>10, Zenon DEF Next, Exit, StopInWrite

(* PlainInv is an invariant for a plain client.                            *)
LEMMA PlainInvHolds == ASSUME PlainClient PROVE Spec => []PlainInv
<1>1. PlainInv /\ [Next]_vars => PlainInv'
  BY PlainStep, Zenon
<1>2. QED
  BY PlainInit, <1>1, PTL DEF Spec

(* For a plain client, no entry of the directory ever claims more bytes    *)
(* than its blocks hold, whichever descriptors wrote, sought or were       *)
(* closed, and wherever the machine stopped.                               *)
THEOREM SizeFitsSafe == ASSUME PlainClient PROVE Spec => []SizeFits
<1>1. PlainInv => SizeFits
  BY PlainInvIsCurrent, Zenon
<1>2. QED
  BY PlainInvHolds, <1>1, PTL

(* For a plain client, the copies bmfs_open put in a descriptor stay those *)
(* of a live entry that no other descriptor is open on.                    *)
THEOREM FdCurrentSafe == ASSUME PlainClient PROVE Spec => []FdCurrent
<1>1. PlainInv => FdCurrent
  BY PlainInvIsCurrent, Zenon
<1>2. QED
  BY PlainInvHolds, <1>1, PTL

-----------------------------------------------------------------------------
(* Block arithmetic: an extent's first byte plus its capacity is its end,  *)
(* and whole blocks compare as their numbers do.                           *)
LEMMA BlockArithmetic ==
    /\ \A m, n \in Nat : (m + n) * BlockBytes = m * BlockBytes + n * BlockBytes
    /\ \A m, n \in Nat : m <= n => m * BlockBytes <= n * BlockBytes
<1>1. \A m, n, b \in Nat : (m + n) * b = m * b + n * b
  OBVIOUS
<1>2. \A m, n, b \in Nat : m <= n => m * b <= n * b
  <2> TAKE m, n, b \in Nat
  <2> HAVE m <= n
  <2>1. n - m \in Nat /\ n = m + (n - m)
    OBVIOUS
  <2>2. n * b = m * b + (n - m) * b
    BY <2>1, <1>1
  <2>3. (n - m) * b \in Nat /\ m * b \in Nat
    BY <2>1
  <2>4. QED
    BY <2>2, <2>3
<1>3. QED
  BY <1>1, <1>2, BlockBytesIsNat

(* A step that stores the first n bytes of a write of len bytes to fd.     *)
Stores(fd, len, n, b) ==
    /\ files[fd].used
    /\ n \in 0 .. WriteLen(files[fd], len)
    /\ data' = Stored(files[fd], WriteOff(files[fd]), n, b)

(* The only steps that change data are writes, whole or stopped.           *)
LEMMA DataSteps ==
    ASSUME PlainInv, [Next]_vars
    PROVE  \/ data' = data
           \/ \E fd \in Fds, len \in Nat, b \in Bytes, n \in Nat : Stores(fd, len, n, b)
<1>0. files \in [Fds -> File] /\ Lens \subseteq Nat
  BY InputsAssumption, Zenon DEF PlainInv, AnyInv, TypeOK
<1>1. ASSUME NEW fd \in Fds, NEW len \in Lens, NEW b \in Bytes, bmfs_write(fd, len, b)
      PROVE  Stores(fd, len, WriteLen(files[fd], len), b) /\ WriteLen(files[fd], len) \in Nat
  <2>1. WriteLen(files[fd], len) \in Nat
    BY <1>0, WriteBounds, Zenon
  <2>2. files[fd].used /\ data' = Stored(files[fd], WriteOff(files[fd]), WriteLen(files[fd], len), b)
    BY <1>1, Zenon DEF bmfs_write
  <2>3. QED
    BY <2>1, <2>2 DEF Stores
<1>2. ASSUME NEW fd \in Fds, NEW len \in Lens, NEW b \in Bytes, StopInWrite(fd, len, b)
      PROVE  \E n \in Nat : Stores(fd, len, n, b)
  <2>1. WriteLen(files[fd], len) \in Nat
    BY <1>0, WriteBounds
  <2>2. PICK n \in 1 .. WriteLen(files[fd], len) - 1 :
               data' = Stored(files[fd], WriteOff(files[fd]), n, b)
    BY <1>2, Zenon DEF StopInWrite
  <2>3. n \in Nat /\ n \in 0 .. WriteLen(files[fd], len)
    BY <2>1, <2>2
  <2>4. QED
    BY <1>2, <2>2, <2>3, Zenon DEF Stores, StopInWrite
<1>3. \/ data' = data
      \/ \E fd \in Fds, len \in Lens, b \in Bytes : bmfs_write(fd, len, b)
      \/ \E fd \in Fds, len \in Lens, b \in Bytes : StopInWrite(fd, len, b)
  BY Zenon DEF Next, vars, bmfs_open, OpenBadPath, OpenFails, OpenCreates, OpenExisting,
         bmfs_read, bmfs_lseek, bmfs_close, bmfs_fstat_fd, bmfs_fstatat, bmfs_unlink, Exit
<1>4. QED
  BY <1>0, <1>1, <1>2, <1>3

(* The bytes such a step changes are those of the request, and lie in the  *)
(* extent of the entry the file was opened on.                             *)
LEMMA StoresInExtent ==
    ASSUME PlainInv, NEW fd \in Fds, NEW len \in Nat, NEW b \in Bytes, NEW n \in Nat,
           Stores(fd, len, n, b), NEW a \in Addrs, data'[a] # data[a]
    PROVE  LET e == disk[files[fd].dir_index]
           IN  /\ e.start_block * BlockBytes + WriteOff(files[fd]) <= a
               /\ a < End(e) * BlockBytes
               /\ e.reserved_blocks > 0
<1> DEFINE f == files[fd]
           e == disk[f.dir_index]
           off == WriteOff(f)
           top == WriteLen(f, len)
<1>1. f \in File /\ e \in Dirent /\ Agree(f, e)
  BY OpenIsNamed, Zenon DEF Stores
<1>2. /\ e.start_block \in Nat /\ e.reserved_blocks \in Nat
      /\ f.start_block = e.start_block /\ f.reserved_blocks = e.reserved_blocks
  BY <1>1, Zenon DEF Dirent, Agree
<1>3. off \in Nat /\ top \in Nat /\ (top > 0 => off + top <= Capacity(f))
  BY <1>1, WriteBounds, Zenon
<1>4. Capacity(f) = e.reserved_blocks * BlockBytes /\ Capacity(f) \in Nat
  BY <1>2, BlockBytesIsNat, Zenon DEF Capacity
<1>5. End(e) * BlockBytes = e.start_block * BlockBytes + Capacity(f)
  <2>1. \A x, y \in Nat : (x + y) * BlockBytes = x * BlockBytes + y * BlockBytes
    BY BlockArithmetic, Zenon
  <2>2. (e.start_block + e.reserved_blocks) * BlockBytes
           = e.start_block * BlockBytes + e.reserved_blocks * BlockBytes
    BY <1>2, <2>1, Zenon
  <2>3. QED
    BY <1>4, <2>2, Zenon DEF End
<1>6. n <= top /\ data' = Stored(f, off, n, b)
  BY <1>3, SMTT(30) DEF Stores
<1>7. a \in Int /\ e.start_block * BlockBytes \in Nat
  BY <1>2, BlockBytesIsNat, SizesAssumption DEF Addrs
<1> HIDE DEF off, top
<1>8. /\ f.start_block * BlockBytes + off <= a
      /\ a < f.start_block * BlockBytes + off + n
  BY <1>6, Zenon DEF Stored
<1> HIDE DEF f, e
<1>9. /\ e.start_block * BlockBytes + off <= a
      /\ a < e.start_block * BlockBytes + off + n
  BY <1>2, <1>8, Zenon
<1>10. n > 0 /\ off + n <= Capacity(f)
  BY <1>3, <1>4, <1>6, <1>7, <1>9
<1>11. a < End(e) * BlockBytes
  BY <1>3, <1>4, <1>5, <1>7, <1>9, <1>10
<1>12. e.reserved_blocks > 0
  <2>1. CASE e.reserved_blocks = 0
    <3>1. Capacity(f) = 0
      BY <1>4, <2>1, BlockBytesIsNat
    <3>2. QED
      BY <1>3, <1>10, <3>1
  <2>2. QED
    BY <1>2, <2>1
<1>13. QED
  BY <1>9, <1>11, <1>12, Zenon DEF f, e, off

(* For a plain client, a step that changes bytes on disk changes only      *)
(* bytes of one existing file that the program has open.                   *)
THEOREM WritesAreIsolated == ASSUME PlainClient PROVE Spec => WriteIsolation
<1>1. ASSUME PlainInv, [Next]_vars PROVE WritesOneOpenFile
  <2> SUFFICES ASSUME data' # data
               PROVE  \E fd \in Fds :
                        /\ files[fd].used
                        /\ dir[files[fd].dir_index].name # NoName
                        /\ \A a \in Addrs : data'[a] # data[a]
                              => a \in AddrsOf(dir[files[fd].dir_index])
    BY Zenon DEF WritesOneOpenFile
  <2>1. PICK fd \in Fds, len \in Nat, b \in Bytes, n \in Nat : Stores(fd, len, n, b)
    BY <1>1, DataSteps, Zenon
  <2> DEFINE e == disk[files[fd].dir_index]
  <2>2. files[fd].used
    BY <2>1, Zenon DEF Stores
  <2>3. /\ files[fd] \in File /\ dir = disk /\ e.name # NoName
        /\ e \in Dirent
    BY <1>1, <2>2, OpenIsNamed, Zenon DEF Agree
  <2>4. ASSUME NEW a \in Addrs, data'[a] # data[a]
        PROVE  e.start_block * BlockBytes <= a /\ a < End(e) * BlockBytes
    <3>1. /\ e.start_block * BlockBytes + WriteOff(files[fd]) <= a
          /\ a < End(e) * BlockBytes
      BY <1>1, <2>1, <2>4, StoresInExtent, Zenon
    <3>2. WriteOff(files[fd]) \in Nat
      BY <2>3, WriteBounds, Zenon
    <3>3. e.start_block * BlockBytes \in Nat
      BY <2>3, BlockBytesIsNat, Zenon DEF Dirent
    <3>4. a \in Int
      BY BlockBytesIsNat, SizesAssumption DEF Addrs
    <3>5. QED
      BY <3>1, <3>2, <3>3, <3>4, SMTT(30)
  <2>5. QED
    BY <2>2, <2>3, <2>4, Zenon DEF AddrsOf
<1>2. PlainInv /\ [Next]_vars => [WritesOneOpenFile]_vars
  BY <1>1, Zenon
<1>3. QED
  BY PlainInvHolds, <1>2, PTL DEF Spec, WriteIsolation

(* For a plain client, the stored length of a file never shrinks except to *)
(* 0: bmfs_close never overwrites a longer length with a shorter one.      *)
THEOREM LengthsAreKept == ASSUME PlainClient PROVE Spec => LengthKept
<1>1. ASSUME PlainInv, [Next]_vars, NEW i \in Slots
      PROVE  disk'[i].size < disk[i].size => disk'[i].size = 0
  <2>0. /\ Loaded = disk /\ disk \in [Slots -> Dirent] /\ disk[i].size \in Nat
        /\ files \in [Fds -> File]
    BY <1>1, DiskIsDirOK, Zenon DEF PlainInv, AnyInv, TypeOK, Dirent
  <2>1. CASE disk' = disk
    BY <2>0, <2>1
  <2>2. ASSUME NEW j \in Slots, NEW e, e.size = 0, disk' = [disk EXCEPT ![j] = e]
        PROVE  disk'[i].size = disk[i].size \/ disk'[i].size = 0
    BY <2>0, <2>2, Zenon
  <2>3. ASSUME NEW name \in Names, NEW flags \in Flags, OpenCreates(name, flags)
        PROVE  disk'[i].size = disk[i].size \/ disk'[i].size = 0
    <3>1. FreeSlots(disk) # {}
      BY <2>0, <2>3, OpenErrorCases, Zenon DEF OpenCreates
    <3>2. dir_find_free_slot(disk) \in Slots
      BY <3>1, FreeSlotIsFree, Zenon
    <3>3. disk' = [disk EXCEPT ![dir_find_free_slot(disk)] = NewEntry(disk, name)]
      BY <2>0, <2>3, Zenon DEF OpenCreates, dir_flush
    <3>4. QED
      BY <2>2, <3>2, <3>3 DEF NewEntry
  <2>4. ASSUME NEW name \in Names, NEW flags \in Flags, OpenExisting(name, flags)
        PROVE  disk' = disk \/ disk'[i].size = disk[i].size \/ disk'[i].size = 0
    <3> DEFINE j == dir_find(disk, name)
               e == [disk[j] EXCEPT !.size = IF "TRUNC" \in flags THEN 0 ELSE @]
    <3>1. j \in Slots
      BY <2>0, <2>4, FindReturnsMatch, Zenon DEF OpenExisting
    <3>2. IF "TRUNC" \in flags THEN disk' = [disk EXCEPT ![j] = e] ELSE disk' = disk
      BY <2>0, <2>4, Zenon DEF OpenExisting, dir_flush
    <3>3. "TRUNC" \in flags => e.size = 0
      BY <2>0, <3>1, Zenon DEF Dirent
    <3> HIDE DEF j, e
    <3>4. QED
      BY <2>2, <3>1, <3>2, <3>3, Zenon
  <2>5. ASSUME NEW fd \in Fds, bmfs_close(fd)
        PROVE  disk' = disk \/ disk'[i].size = disk[i].size \/ disk[i].size <= disk'[i].size
    <3> DEFINE f == files[fd]
               j == f.dir_index
    <3>1. /\ f.used /\ f \in File /\ j \in Slots /\ Agree(f, disk[j])
          /\ disk[j] \in Dirent /\ dir = disk
      BY <1>1, <2>5, OpenIsNamed, Zenon DEF bmfs_close
    <3>2. disk' = disk \/ disk' = [disk EXCEPT ![j].size = f.size]
      BY <2>5, <3>1, Zenon DEF bmfs_close, dir_flush
    <3>3. disk[j].size <= f.size
      BY <3>1, Zenon DEF Agree
    <3> HIDE DEF f, j
    <3>4. QED
      BY <2>0, <3>1, <3>2, <3>3, Zenon DEF Dirent
  <2>6. ASSUME NEW name, bmfs_unlink(name)
        PROVE  disk' = disk \/ disk'[i].size = disk[i].size \/ disk'[i].size = 0
    <3>1. CASE Matches(disk, name) = {}
      BY <2>0, <2>6, <3>1, Zenon DEF bmfs_unlink
    <3>2. CASE Matches(disk, name) # {}
      <4>1. dir_find(disk, name) \in Slots
        BY <3>2, FindReturnsMatch, Zenon
      <4>2. disk' = [disk EXCEPT ![dir_find(disk, name)] = NoEntry]
        BY <2>0, <2>6, <3>2, Zenon DEF bmfs_unlink, dir_flush
      <4>3. QED
        BY <2>2, <4>1, <4>2 DEF NoEntry
    <3>3. QED
      BY <3>1, <3>2, Zenon
  <2>7. \/ disk' = disk
        \/ \E name \in Names, flags \in Flags :
             OpenCreates(name, flags) \/ OpenExisting(name, flags)
        \/ \E fd \in Fds : bmfs_close(fd)
        \/ \E name \in Names \cup {BadName} : bmfs_unlink(name)
    BY <1>1, ZenonT(30) DEF Next, vars, bmfs_open, OpenBadPath, OpenFails, bmfs_read, bmfs_write,
                bmfs_lseek, bmfs_fstat_fd, bmfs_fstatat, Exit, StopInWrite, Reboot
  <2>8. /\ disk'[i].size = disk[i].size => ~(disk'[i].size < disk[i].size)
        /\ disk[i].size <= disk'[i].size /\ disk'[i].size \in Nat
             => ~(disk'[i].size < disk[i].size)
    BY <2>0
  <2>9. disk'[i].size \in Nat
    BY <1>1, AnyStep, Zenon DEF PlainInv, AnyInv, TypeOK, Dirent
  <2>10. QED
    BY <2>1, <2>3, <2>4, <2>5, <2>6, <2>7, <2>8, <2>9, Zenon
<1>2. PlainInv /\ [Next]_vars => [ShrinksToZero]_vars
  BY <1>1, Zenon DEF ShrinksToZero
<1>3. QED
  BY PlainInvHolds, <1>2, PTL DEF Spec, LengthKept

-----------------------------------------------------------------------------
(* The end of a named file is a length that fits its extent, and the       *)
(* descriptor open on the file, if there is one, is at least that long.    *)
LEMMA FileEndBounds ==
    ASSUME PlainInv, dir = disk, NEW i \in UsedSlots(disk)
    PROVE  /\ FileEnd(i) \in Nat /\ FileEnd(i) <= Capacity(disk[i])
           /\ \A fd \in OpenOn(i) : FileEnd(i) <= files[fd].size
<1> DEFINE S == {dir[i].size} \cup {files[fd].size : fd \in OpenOn(i)}
           c == Capacity(disk[i])
<1>1. files \in [Fds -> File] /\ disk \in [Slots -> Dirent] /\ i \in Slots
  BY Zenon DEF PlainInv, AnyInv, TypeOK, UsedSlots
<1>2. disk[i].size \in Nat /\ disk[i].size <= c /\ c \in Nat
  BY <1>1, BlockBytesIsNat, Zenon DEF PlainInv, AllFit, Fits, Capacity, Dirent
<1>3. ASSUME NEW fd \in OpenOn(i)
      PROVE  /\ files[fd].size \in Nat /\ files[fd].size <= c
             /\ disk[i].size <= files[fd].size /\ OpenOn(i) = {fd}
  <2>1. fd \in Fds /\ files[fd].used /\ files[fd].dir_index = i
    BY Zenon DEF OpenOn
  <2>2. Agree(files[fd], disk[i]) /\ files[fd] \in File
    BY <2>1, OpenIsNamed, Zenon
  <2>3. Capacity(files[fd]) = c
    BY <2>2, Zenon DEF Agree, Capacity
  <2>4. OpenOn(i) = {fd}
    BY <2>1, Zenon DEF OpenOn, PlainInv, Exclusive
  <2>5. QED
    BY <2>2, <2>3, <2>4, Zenon DEF Agree, Fits, File
<1> HIDE DEF c
<1>4. S \in SUBSET Nat /\ S # {} /\ \A x \in S : x <= c
  BY <1>2, <1>3, Zenon
<1>5. Max(S) \in S
  BY <1>2, <1>4, MaxOfBounded, Zenon
<1>6. FileEnd(i) = Max(S)
  BY Zenon DEF FileEnd
<1>7. ASSUME NEW fd \in OpenOn(i), NEW x \in S
      PROVE  x <= files[fd].size
  <2>1. x = disk[i].size \/ x = files[fd].size
    BY <1>3, Zenon
  <2>2. QED
    BY <1>3, <2>1
<1> HIDE DEF S
<1>8. Max(S) \in Nat /\ Max(S) <= c /\ \A fd \in OpenOn(i) : Max(S) <= files[fd].size
  BY <1>4, <1>5, <1>7, Zenon
<1>9. QED
  BY <1>6, <1>8, Zenon DEF c

(* A byte of one file below its end is not a byte of another file.         *)
LEMMA OtherFilesByte ==
    ASSUME DirOK(disk), NEW i \in UsedSlots(disk), NEW j \in UsedSlots(disk), i # j,
           NEW k \in Nat, k < Capacity(disk[i]), disk[j].reserved_blocks > 0
    PROVE  LET a == disk[i].start_block * BlockBytes + k
           IN  a < disk[j].start_block * BlockBytes \/ a >= End(disk[j]) * BlockBytes
<1> DEFINE s == disk[i].start_block
           r == disk[i].reserved_blocks
           t == disk[j].start_block
           q == disk[j].reserved_blocks
<1>1. s \in Nat /\ r \in Nat /\ t \in Nat /\ q \in Nat
  BY Zenon DEF DirOK, UsedSlots, Dirent
<1>2. r > 0
  <2>1. CASE r = 0
    <3>1. Capacity(disk[i]) = 0
      BY <2>1, BlockBytesIsNat, SMTT(30) DEF Capacity
    <3>2. QED
      BY <3>1
  <2>2. QED
    BY <1>1, <2>1
<1>3. Extent(disk[i]) = s .. (s + r) - 1 /\ Extent(disk[j]) = t .. (t + q) - 1 /\ q > 0
  <2>1. Extent(disk[i]) = s .. (s + r) - 1
    BY Zenon DEF Extent, End
  <2>2. Extent(disk[j]) = t .. (t + q) - 1
    BY Zenon DEF Extent, End
  <2>3. QED
    BY <2>1, <2>2, Zenon
<1>4. Extent(disk[i]) \cap Extent(disk[j]) = {}
  BY Zenon DEF DirOK, DisjointExtents
<1>5. End(disk[j]) = t + q /\ Capacity(disk[i]) = r * BlockBytes
  BY Zenon DEF End, Capacity
<1> HIDE DEF s, r, t, q
<1>6. s + r <= t \/ t + q <= s
  <2>1. CASE s <= t
    <3>1. ~(t <= (s + r) - 1)
      BY <1>1, <1>3, <1>4, <2>1
    <3>2. QED
      BY <1>1, <3>1
  <2>2. CASE t <= s
    <3>1. ~(s <= (t + q) - 1)
      BY <1>1, <1>2, <1>3, <1>4, <2>2
    <3>2. QED
      BY <1>1, <3>1
  <2>3. QED
    BY <1>1, <2>1, <2>2
<1>7. /\ s * BlockBytes \in Nat /\ r * BlockBytes \in Nat /\ t * BlockBytes \in Nat
      /\ (t + q) * BlockBytes \in Nat
      /\ (s + r) * BlockBytes = s * BlockBytes + r * BlockBytes
  BY <1>1, BlockBytesIsNat, BlockArithmetic
<1>8. CASE s + r <= t
  <2>1. s + r \in Nat /\ (s + r) * BlockBytes <= t * BlockBytes
    BY <1>1, <1>8, BlockArithmetic
  <2>2. s * BlockBytes + k < t * BlockBytes
    BY <1>5, <1>7, <2>1
  <2>3. QED
    BY <2>2, Zenon DEF s, t
<1>9. CASE t + q <= s
  <2>1. t + q \in Nat /\ (t + q) * BlockBytes <= s * BlockBytes
    BY <1>1, <1>9, BlockArithmetic
  <2>2. s * BlockBytes + k >= End(disk[j]) * BlockBytes
    BY <1>5, <1>7, <2>1
  <2>3. QED
    BY <2>2, Zenon DEF s
<1>10. QED
  BY <1>6, <1>8, <1>9, Zenon

(* For a plain client, a file that is only open with O_APPEND keeps every  *)
(* byte below its end, wherever lseek moved the descriptor.                *)
THEOREM AppendsOnlyAppend == ASSUME PlainClient PROVE Spec => AppendOnly
<1>1. ASSUME PlainInv, [Next]_vars, NEW i \in UsedSlots(dir),
             \A g \in OpenOn(i) : files[g].append,
             NEW k \in 0 .. FileEnd(i) - 1
      PROVE  LET a == dir[i].start_block * BlockBytes + k IN data'[a] = data[a]
  <2> DEFINE a == dir[i].start_block * BlockBytes + k
  <2>1. SUFFICES ASSUME NEW fd \in Fds, NEW len \in Nat, NEW b \in Bytes, NEW n \in Nat,
                        Stores(fd, len, n, b), data'[a] # data[a]
                 PROVE  FALSE
    BY <1>1, DataSteps, Zenon
  <2> DEFINE f == files[fd]
             j == f.dir_index
  <2>2. /\ f.used /\ f \in File /\ j \in UsedSlots(disk) /\ dir = disk
        /\ i \in UsedSlots(disk) /\ DirOK(disk)
    <3>1. f.used /\ i \in UsedSlots(dir)
      BY <1>1, <2>1, Zenon DEF Stores
    <3>2. f \in File /\ j \in Slots /\ Agree(f, disk[j]) /\ dir = disk
      BY <1>1, <3>1, OpenIsNamed, Zenon
    <3>3. QED
      BY <1>1, <3>1, <3>2, DiskIsDirOK, Zenon DEF PlainInv, Agree, UsedSlots
  <2>3. /\ FileEnd(i) \in Nat /\ FileEnd(i) <= Capacity(disk[i])
        /\ \A g \in OpenOn(i) : FileEnd(i) <= files[g].size
    BY <1>1, <2>2, FileEndBounds, Zenon
  <2>4. disk[i].start_block \in Nat /\ disk[i].reserved_blocks \in Nat /\ Capacity(disk[i]) \in Nat
    BY <2>2, BlockBytesIsNat, Zenon DEF DirOK, UsedSlots, Dirent, Capacity
  <2>5. k \in Nat /\ k < FileEnd(i) /\ k < Capacity(disk[i])
    BY <1>1, <2>3, <2>4, SMTT(30)
  <2>6. disk[i].start_block * BlockBytes \in Nat /\ a = disk[i].start_block * BlockBytes + k
    BY <2>2, <2>4, BlockBytesIsNat, Zenon
  <2>7. a \in Addrs
    <3>1. End(disk[i]) \in Nat /\ End(disk[i]) <= BlockBound
      BY <2>2, <2>4 DEF DirOK, InData, End
    <3>2. End(disk[i]) * BlockBytes = disk[i].start_block * BlockBytes + Capacity(disk[i])
      BY <2>4, BlockArithmetic, Zenon DEF End, Capacity
    <3>3. End(disk[i]) * BlockBytes <= BlockBound * BlockBytes
      BY <3>1, BlockArithmetic, SizesAssumption, Zenon
    <3>4. BlockBound * BlockBytes \in Nat
      BY SizesAssumption, BlockBytesIsNat, Zenon
    <3> HIDE DEF a
    <3>5. a \in Nat /\ a < BlockBound * BlockBytes
      BY <2>4, <2>5, <2>6, <3>2, <3>3, <3>4, SMTT(30)
    <3>6. QED
      BY <3>4, <3>5 DEF Addrs
  <2>8. WriteOff(f) \in Nat
    BY <2>2, WriteBounds, Zenon
  <2> HIDE DEF a
  <2>9. /\ disk[j].start_block * BlockBytes + WriteOff(f) <= a
        /\ a < End(disk[j]) * BlockBytes
        /\ disk[j].reserved_blocks > 0
    BY <1>1, <2>1, <2>7, StoresInExtent, Zenon
  <2>10. CASE j = i
    <3>1. fd \in OpenOn(i)
      BY <2>2, <2>10, Zenon DEF OpenOn
    <3>2. WriteOff(f) = f.size
      BY <1>1, <3>1, Zenon DEF WriteOff
    <3>3. FileEnd(i) <= WriteOff(f)
      BY <2>3, <3>1, <3>2, Zenon
    <3>4. disk[i].start_block * BlockBytes + WriteOff(f) <= a
      BY <2>9, <2>10, Zenon
    <3> DEFINE base == disk[i].start_block * BlockBytes
    <3>5. base \in Nat /\ a = base + k /\ base + WriteOff(f) <= a
      BY <2>6, <3>4, Zenon
    <3>6. k \in Nat /\ k < WriteOff(f)
      BY <2>3, <2>5, <2>8, <3>3, SMTT(30)
    <3> HIDE DEF base
    <3>7. QED
      BY <2>8, <3>5, <3>6
  <2>11. CASE j # i
    <3>1. a < disk[j].start_block * BlockBytes \/ a >= End(disk[j]) * BlockBytes
      BY <2>2, <2>5, <2>6, <2>9, <2>11, OtherFilesByte, Zenon
    <3>2. disk[j].start_block * BlockBytes \in Nat /\ End(disk[j]) * BlockBytes \in Nat
      BY <2>2, BlockBytesIsNat, SMTT(30) DEF DirOK, UsedSlots, Dirent, End
    <3>3. a \in Nat
      BY <2>5, <2>6, SMTT(30)
    <3>4. QED
      BY <2>8, <2>9, <3>1, <3>2, <3>3, SMTT(30)
  <2>12. QED
    BY <2>10, <2>11, Zenon
<1>2. PlainInv /\ [Next]_vars => [AppendsKeep]_vars
  BY <1>1, Zenon DEF AppendsKeep, KeepsBelowEnd
<1>3. QED
  BY PlainInvHolds, <1>2, PTL DEF Spec, AppendOnly

=============================================================================
