---------------------------- MODULE BmfsMapProofs ---------------------------
(***************************************************************************)
(* The mapping of BmfsRefinement, and the calls of a PlainClient other     *)
(* than write as steps of AbsFs.                                           *)
(***************************************************************************)
EXTENDS BmfsProofs, BmfsRefinement

(* The mapping of BmfsRefinement as operators of a directory d, the bytes  *)
(* dt of the disk and an open-file table fs.                               *)
OnSlot(fs, i) == {fd \in Fds : fs[fd].used /\ fs[fd].dir_index = i}
LengthIn(d, fs, i) == IF OnSlot(fs, i) = {} THEN d[i].size
                      ELSE fs[CHOOSE fd \in OnSlot(fs, i) : TRUE].size
FileIn(d, dt, fs, i) ==
    [k \in 1 .. LengthIn(d, fs, i) |-> dt[d[i].start_block * BlockBytes + k - 1]]
NamesIn(d) == {d[i].name : i \in UsedSlots(d)}
ContentIn(d, dt, fs) == [n \in NamesIn(d) |-> FileIn(d, dt, fs, dir_find(d, n))]
SavedIn(d) == [n \in NamesIn(d) |-> d[dir_find(d, n)].size]
OpenIn(fs) == {fd \in Fds : fs[fd].used}
FdIn(d, fs, fd) ==
    [name |-> d[fs[fd].dir_index].name, pos |-> fs[fd].pos, append |-> fs[fd].append]
FdtIn(d, fs) == [fd \in OpenIn(fs) |-> FdIn(d, fs, fd)]

(* The slot of a name is the one dir_find finds: names are unique.         *)
LEMMA SlotIsFound ==
    ASSUME NEW d, UniqueNames(d), NEW n \in NamesIn(d)
    PROVE  (CHOOSE i \in Slots : d[i].name = n) = dir_find(d, n)
<1>1. PICK i \in UsedSlots(d) : d[i].name = n
  BY Zenon DEF NamesIn
<1>2. n # NoName /\ i \in Slots /\ i \in Matches(d, n)
  BY <1>1, Zenon DEF UsedSlots, Matches
<1>3. dir_find(d, n) \in Slots /\ d[dir_find(d, n)].name = n
  BY <1>2, FindReturnsMatch, Zenon
<1>4. \A j, k \in Slots : d[j].name = n /\ d[k].name = n => j = k
  BY <1>2, Zenon DEF UniqueNames, UsedSlots
<1>5. QED
  BY <1>3, <1>4, Zenon

(* The mapping, by what dir_find returns.                                  *)
LEMMA MapNow ==
    ASSUME AnyInv
    PROVE  /\ Content = ContentIn(disk, data, files)
           /\ Saved = SavedIn(disk)
           /\ Descriptors = FdtIn(disk, files)
<1>1. \A n \in NamesIn(disk) : SlotOf(n) = dir_find(disk, n)
  BY SlotIsFound, Zenon DEF AnyInv, Layout, SlotOf
<1>2. Fds \ FreeFds = OpenIn(files)
  BY Zenon DEF FreeFds, OpenIn
<1>3. Existing = NamesIn(disk)
  BY Zenon DEF Existing, NamesIn
<1>4. \A i : Length(i) = LengthIn(disk, files, i)
  BY Zenon DEF Length, LengthIn, OpenOn, OnSlot
<1>5. Content = ContentIn(disk, data, files)
  BY <1>1, <1>3, <1>4, Zenon DEF Content, ContentIn, FileIn
<1>6. Saved = SavedIn(disk)
  BY <1>1, <1>3, Zenon DEF Saved, SavedIn
<1>7. Descriptors = FdtIn(disk, files)
  BY <1>2, Zenon DEF Descriptors, FdtIn, FdIn
<1>8. QED
  BY <1>5, <1>6, <1>7, Zenon

(* The same in the next state.                                             *)
LEMMA MapNext ==
    ASSUME AnyInv'
    PROVE  /\ Content' = ContentIn(disk', data', files')
           /\ Saved' = SavedIn(disk')
           /\ Descriptors' = FdtIn(disk', files')
<1>1. \A n \in NamesIn(disk') : SlotOf(n)' = dir_find(disk', n)
  <2>1. UniqueNames(disk')
    BY Zenon DEF AnyInv, Layout, UniqueNames, UsedSlots
  <2>2. QED
    BY <2>1, SlotIsFound, Zenon DEF SlotOf
<1>2. Fds \ FreeFds' = OpenIn(files')
  BY Zenon DEF FreeFds, OpenIn
<1>3. Existing' = NamesIn(disk')
  BY Zenon DEF Existing, NamesIn
<1>4. \A i : Length(i)' = LengthIn(disk', files', i)
  BY Zenon DEF Length, LengthIn, OpenOn, OnSlot
<1>5. Content' = ContentIn(disk', data', files')
  BY <1>1, <1>3, <1>4, Zenon DEF Content, ContentIn, FileIn
<1>6. Saved' = SavedIn(disk')
  BY <1>1, <1>3, Zenon DEF Saved, SavedIn
<1>7. Descriptors' = FdtIn(disk', files')
  BY <1>2, Zenon DEF Descriptors, FdtIn, FdIn
<1>8. QED
  BY <1>5, <1>6, <1>7, Zenon

(* A call that fails is Fail.                                              *)
LEMMA FailMaps ==
    ASSUME AnyInv, AnyInv', UNCHANGED <<disk, data, files>>, ret' < 0
    PROVE  Abs!Fail
  BY MapNow, MapNext, Zenon DEF Abs!Fail

-----------------------------------------------------------------------------
(* What the mapping gives in a state of the invariant.                     *)

MapOK(d, fs) ==
    /\ DirOK(d) /\ fs \in [Fds -> File]
    /\ Tracks(fs, d) /\ Exclusive(fs) /\ AllFit(d)

(* The invariant, in this state and in the next.                           *)
LEMMA PlainIsMapOK ==
    /\ PlainInv => MapOK(disk, files) /\ data \in [Addrs -> Bytes]
    /\ PlainInv' => MapOK(disk', files') /\ data' \in [Addrs -> Bytes]
  BY Zenon DEF PlainInv, AnyInv, TypeOK, Layout, DirOK, MapOK, Tracks, Exclusive, AllFit

(* dir_find finds the slot of a name: names are unique.                    *)
LEMMA FindsOwnSlot ==
    ASSUME NEW d, DirOK(d), NEW i \in UsedSlots(d)
    PROVE  /\ dir_find(d, d[i].name) = i
           /\ d[i].name \in Names /\ d[i].name \in NamesIn(d)
           /\ i \in Slots /\ d[i] \in Dirent
<1>1. i \in Slots /\ d[i] \in Dirent /\ d[i].name # NoName
  BY Zenon DEF DirOK, UsedSlots
<1>2. i \in Matches(d, d[i].name)
  BY Zenon DEF Matches
<1>3. dir_find(d, d[i].name) \in UsedSlots(d) /\ d[dir_find(d, d[i].name)].name = d[i].name
  BY <1>2, FindReturnsMatch, Zenon DEF UsedSlots
<1>4. dir_find(d, d[i].name) = i
  BY <1>3, Zenon DEF DirOK, UniqueNames
<1>5. QED
  BY <1>1, <1>4, Zenon DEF NamesIn, Dirent

(* The length of an open file is its descriptor's, of another its entry's. *)
LEMMA OpenLength ==
    ASSUME NEW d, NEW fs, Exclusive(fs), NEW fd \in Fds, fs[fd].used
    PROVE  LengthIn(d, fs, fs[fd].dir_index) = fs[fd].size
<1>1. fd \in OnSlot(fs, fs[fd].dir_index)
  BY Zenon DEF OnSlot
<1>2. \A g \in OnSlot(fs, fs[fd].dir_index) : g = fd
  BY Zenon DEF OnSlot, Exclusive
<1>3. (CHOOSE g \in OnSlot(fs, fs[fd].dir_index) : TRUE) = fd
  BY <1>1, <1>2, Zenon
<1>4. QED
  BY <1>1, <1>3, Zenon DEF LengthIn

(* Of a file that is not open, the length is its entry's.                  *)
LEMMA ClosedLength ==
    ASSUME NEW d, NEW fs, NEW i, OnSlot(fs, i) = {}
    PROVE  LengthIn(d, fs, i) = d[i].size
  BY Zenon DEF LengthIn

(* A length is at least the stored one and fits in the extent.             *)
LEMMA LengthBounds ==
    ASSUME NEW d, NEW fs, MapOK(d, fs), NEW i \in UsedSlots(d)
    PROVE  /\ LengthIn(d, fs, i) \in Nat /\ d[i].size \in Nat
           /\ d[i].size <= LengthIn(d, fs, i)
           /\ LengthIn(d, fs, i) <= Capacity(d[i])
           /\ Capacity(d[i]) \in Nat
<1>1. d[i].size \in Nat /\ d[i].reserved_blocks \in Nat /\ d[i].size <= Capacity(d[i])
  BY Zenon DEF MapOK, DirOK, UsedSlots, Dirent, AllFit, Fits
<1>2. Capacity(d[i]) \in Nat
  BY <1>1, BlockBytesIsNat, Zenon DEF Capacity
<1>3. CASE OnSlot(fs, i) = {}
  BY <1>1, <1>2, <1>3, ClosedLength
<1>4. ASSUME NEW fd \in Fds, fs[fd].used, fs[fd].dir_index = i
      PROVE  LengthIn(d, fs, i) \in Nat /\ d[i].size <= LengthIn(d, fs, i)
             /\ LengthIn(d, fs, i) <= Capacity(d[i])
  <2>1. LengthIn(d, fs, i) = fs[fd].size /\ fs[fd].size \in Nat
    BY <1>4, OpenLength, Zenon DEF MapOK, File
  <2>2. Agree(fs[fd], d[i])
    BY <1>4, Zenon DEF MapOK, Tracks
  <2>3. QED
    BY <2>1, <2>2, Zenon DEF Agree, Fits, Capacity
<1>5. QED
  BY <1>1, <1>2, <1>3, <1>4, Zenon DEF OnSlot

(* The bytes of a file lie on the disk, inside its extent.                 *)
LEMMA FileAddrs ==
    ASSUME NEW d, DirOK(d), NEW i \in UsedSlots(d), NEW k \in Nat, k < Capacity(d[i])
    PROVE  /\ d[i].start_block * BlockBytes + k \in Addrs
           /\ d[i].start_block * BlockBytes \in Nat
<1> DEFINE s == d[i].start_block
           base == s * BlockBytes
<1>1. s \in Nat /\ d[i].reserved_blocks \in Nat /\ Capacity(d[i]) \in Nat /\ base \in Nat
  BY BlockBytesIsNat, Zenon DEF DirOK, UsedSlots, Dirent, Capacity
<1>2. End(d[i]) \in Nat /\ End(d[i]) <= BlockBound
  BY <1>1 DEF DirOK, InData, End
<1>3. End(d[i]) * BlockBytes = base + Capacity(d[i])
  BY <1>1, BlockArithmetic, Zenon DEF End, Capacity
<1>4. End(d[i]) * BlockBytes <= BlockBound * BlockBytes /\ BlockBound * BlockBytes \in Nat
  BY <1>2, BlockArithmetic, BlockBytesIsNat, SizesAssumption, Zenon
<1> HIDE DEF base
<1>5. base + k \in Nat /\ base + k < BlockBound * BlockBytes
  BY <1>1, <1>3, <1>4
<1>6. base + k \in Addrs
  BY <1>4, <1>5 DEF Addrs
<1>7. QED
  BY <1>1, <1>6, Zenon DEF base

(* A file is a sequence of bytes of its length.                            *)
LEMMA FileIsSeq ==
    ASSUME NEW d, NEW dt \in [Addrs -> Bytes], NEW fs, MapOK(d, fs), NEW i \in UsedSlots(d)
    PROVE  /\ FileIn(d, dt, fs, i) \in Seq(Bytes)
           /\ Len(FileIn(d, dt, fs, i)) = LengthIn(d, fs, i)
           /\ \A k \in 1 .. LengthIn(d, fs, i) :
                 FileIn(d, dt, fs, i)[k] = dt[d[i].start_block * BlockBytes + k - 1]
<1> DEFINE L == LengthIn(d, fs, i)
           base == d[i].start_block * BlockBytes
<1>1. L \in Nat /\ L <= Capacity(d[i]) /\ Capacity(d[i]) \in Nat
  BY LengthBounds, Zenon
<1>2. ASSUME NEW k \in 1 .. L
      PROVE  dt[base + k - 1] \in Bytes
  <2>1. k - 1 \in Nat /\ k - 1 < Capacity(d[i])
    BY <1>1
  <2>2. base + k - 1 \in Addrs
    BY <2>1, FileAddrs, Zenon DEF MapOK
  <2>3. QED
    BY <2>2, Zenon
<1>3. FileIn(d, dt, fs, i) = [k \in 1 .. L |-> dt[base + k - 1]]
  BY Zenon DEF FileIn
<1> HIDE DEF L, base
<1>4. FileIn(d, dt, fs, i) \in Seq(Bytes) /\ Len(FileIn(d, dt, fs, i)) = L
  BY <1>1, <1>2, <1>3
<1>5. \A k \in 1 .. L : FileIn(d, dt, fs, i)[k] = dt[base + k - 1]
  BY <1>3, Zenon
<1>6. QED
  BY <1>4, <1>5, Zenon DEF L, base

(* What the mapped variables hold for each slot in use.                    *)
LEMMA MapAt ==
    ASSUME NEW d, DirOK(d), NEW dt, NEW fs, NEW i \in UsedSlots(d)
    PROVE  /\ ContentIn(d, dt, fs)[d[i].name] = FileIn(d, dt, fs, i)
           /\ SavedIn(d)[d[i].name] = d[i].size
<1>1. dir_find(d, d[i].name) = i /\ d[i].name \in NamesIn(d)
  BY FindsOwnSlot, Zenon
<1>2. QED
  BY <1>1, Zenon DEF ContentIn, SavedIn

(* The domains of the mapped variables.                                    *)
LEMMA MapDomains ==
    ASSUME NEW d, NEW dt, NEW fs
    PROVE  /\ DOMAIN ContentIn(d, dt, fs) = NamesIn(d)
           /\ DOMAIN SavedIn(d) = NamesIn(d)
           /\ DOMAIN FdtIn(d, fs) = OpenIn(fs)
           /\ \A fd \in OpenIn(fs) : FdtIn(d, fs)[fd] = FdIn(d, fs, fd)
           /\ ContentIn(d, dt, fs) = [n \in NamesIn(d) |-> ContentIn(d, dt, fs)[n]]
           /\ SavedIn(d) = [n \in NamesIn(d) |-> SavedIn(d)[n]]
           /\ FdtIn(d, fs) = [fd \in OpenIn(fs) |-> FdtIn(d, fs)[fd]]
  BY Zenon DEF ContentIn, SavedIn, FdtIn

(* A function on the names that has each file at its name is the mapped    *)
(* content; the same for the stored lengths.                               *)
LEMMA ContentIs ==
    ASSUME NEW d, DirOK(d), NEW dt, NEW fs, NEW f, f = [n \in NamesIn(d) |-> f[n]],
           \A i \in UsedSlots(d) : f[d[i].name] = FileIn(d, dt, fs, i)
    PROVE  ContentIn(d, dt, fs) = f
<1>1. ASSUME NEW n \in NamesIn(d)
      PROVE  f[n] = FileIn(d, dt, fs, dir_find(d, n))
  <2>1. PICK i \in UsedSlots(d) : n = d[i].name
    BY Zenon DEF NamesIn
  <2>2. QED
    BY <2>1, FindsOwnSlot, Zenon
<1>2. QED
  BY <1>1, Zenon DEF ContentIn

(* The stored lengths.                                                     *)
LEMMA SavedIs ==
    ASSUME NEW d, DirOK(d), NEW f, f = [n \in NamesIn(d) |-> f[n]],
           \A i \in UsedSlots(d) : f[d[i].name] = d[i].size
    PROVE  SavedIn(d) = f
<1>1. ASSUME NEW n \in NamesIn(d)
      PROVE  f[n] = d[dir_find(d, n)].size
  <2>1. PICK i \in UsedSlots(d) : n = d[i].name
    BY Zenon DEF NamesIn
  <2>2. QED
    BY <2>1, FindsOwnSlot, Zenon
<1>2. QED
  BY <1>1, Zenon DEF SavedIn

(* Two states with the same names on the same slots and the same files     *)
(* have the same content.                                                  *)
LEMMA SameContent ==
    ASSUME NEW d, DirOK(d), NEW dt, NEW fs, NEW dd, DirOK(dd), NEW ddt, NEW gs,
           \A i \in Slots : dd[i].name = d[i].name,
           \A i \in UsedSlots(d) : FileIn(dd, ddt, gs, i) = FileIn(d, dt, fs, i)
    PROVE  ContentIn(dd, ddt, gs) = ContentIn(d, dt, fs)
<1> DEFINE f == ContentIn(d, dt, fs)
<1>1. UsedSlots(dd) = UsedSlots(d)
  BY Zenon DEF UsedSlots
<1>2. NamesIn(dd) = NamesIn(d)
  BY <1>1, Zenon DEF NamesIn, UsedSlots
<1>3. f = [n \in NamesIn(dd) |-> f[n]]
  BY <1>2, MapDomains
<1>4. \A i \in UsedSlots(dd) : f[dd[i].name] = FileIn(dd, ddt, gs, i)
  BY <1>1, MapAt DEF UsedSlots
<1> HIDE DEF f
<1>5. ContentIn(dd, ddt, gs) = f
  BY <1>3, <1>4, ContentIs
<1>6. QED
  BY <1>5, Zenon DEF f

Moved(f, g, fd, p) == g = [f EXCEPT ![fd].pos = p]

(* Moving a position moves it in the mapped descriptors and changes        *)
(* nothing else.                                                           *)
LEMMA MoveMaps ==
    ASSUME NEW d, NEW dt, NEW fs, MapOK(d, fs), NEW fd \in Fds, fs[fd].used, NEW p \in Nat,
           NEW gs, Moved(fs, gs, fd, p)
    PROVE  /\ ContentIn(d, dt, gs) = ContentIn(d, dt, fs)
           /\ Moved(FdtIn(d, fs), FdtIn(d, gs), fd, p)
<1>1. fs \in [Fds -> File] /\ DirOK(d) /\ gs = [fs EXCEPT ![fd].pos = p]
  BY Zenon DEF MapOK, Moved
<1>2. \A g \in Fds : /\ gs[g].used = fs[g].used /\ gs[g].dir_index = fs[g].dir_index
                     /\ gs[g].size = fs[g].size /\ gs[g].append = fs[g].append
                     /\ gs[g].pos = IF g = fd THEN p ELSE fs[g].pos
  BY <1>1, Zenon DEF File
<1>3. ASSUME NEW i PROVE LengthIn(d, gs, i) = LengthIn(d, fs, i)
  <2>1. OnSlot(gs, i) = OnSlot(fs, i)
    BY <1>2, Zenon DEF OnSlot
  <2>2. OnSlot(fs, i) # {} => (CHOOSE g \in OnSlot(fs, i) : TRUE) \in Fds
    BY Zenon DEF OnSlot
  <2>3. QED
    BY <1>2, <2>1, <2>2, Zenon DEF LengthIn
<1>4. \A i : FileIn(d, dt, gs, i) = FileIn(d, dt, fs, i)
  BY <1>3, Zenon DEF FileIn
<1>5. ContentIn(d, dt, gs) = ContentIn(d, dt, fs)
  BY <1>4, Zenon DEF ContentIn
<1> DEFINE f == [FdtIn(d, fs) EXCEPT ![fd].pos = p]
<1>6. OpenIn(gs) = OpenIn(fs) /\ fd \in OpenIn(fs)
  BY <1>2, Zenon DEF OpenIn
<1>7. f = [g \in OpenIn(gs) |-> f[g]]
  BY <1>6, MapDomains, Zenon
<1>8. ASSUME NEW g \in OpenIn(gs) PROVE f[g] = FdIn(d, gs, g)
  <2>1. FdtIn(d, fs)[g] = FdIn(d, fs, g) /\ g \in Fds
    BY <1>6, MapDomains, Zenon DEF OpenIn
  <2>2. f[g] = IF g = fd THEN [FdIn(d, fs, g) EXCEPT !.pos = p] ELSE FdIn(d, fs, g)
    BY <1>6, <2>1, MapDomains, ZenonT(30)
  <2>3. QED
    BY <1>2, <2>1, <2>2, Zenon DEF FdIn
<1> HIDE DEF f
<1>9. FdtIn(d, gs) = f
  BY <1>7, <1>8, Zenon DEF FdtIn
<1>10. QED
  BY <1>5, <1>9, Zenon DEF f, Moved

-----------------------------------------------------------------------------
(* Each step of Bmfs is a step of AbsFs.                                   *)

(* What the abstract file layer sees of an open descriptor.                *)
LEMMA SeesOpen ==
    ASSUME PlainInv, NEW fd \in Fds, files[fd].used
    PROVE  LET i == files[fd].dir_index
               n == disk[i].name
           IN  /\ i \in UsedSlots(disk) /\ n \in Names /\ n \in DOMAIN Content
               /\ fd \in DOMAIN Descriptors
               /\ Descriptors[fd].name = n
               /\ Descriptors[fd].pos = files[fd].pos
               /\ Descriptors[fd].append = files[fd].append
               /\ Content[n] = FileIn(disk, data, files, i)
               /\ Len(Content[n]) = files[fd].size
               /\ LengthIn(disk, files, i) = files[fd].size
               /\ Saved[n] = disk[i].size
               /\ Abs!Offset(fd) = WriteOff(files[fd])
<1> DEFINE i == files[fd].dir_index
           n == disk[i].name
<1>1. MapOK(disk, files) /\ DirOK(disk) /\ data \in [Addrs -> Bytes] /\ AnyInv
  BY PlainIsMapOK, Zenon DEF MapOK, PlainInv
<1>2. i \in UsedSlots(disk)
  BY OpenIsNamed, Zenon DEF Agree, UsedSlots
<1>3. n \in Names /\ n \in NamesIn(disk)
  BY <1>1, <1>2, FindsOwnSlot, Zenon
<1>4. fd \in OpenIn(files)
  BY Zenon DEF OpenIn
<1>5. /\ Content = ContentIn(disk, data, files) /\ Saved = SavedIn(disk)
      /\ Descriptors = FdtIn(disk, files)
  BY <1>1, MapNow, Zenon
<1>6. n \in DOMAIN Content /\ fd \in DOMAIN Descriptors /\ Descriptors[fd] = FdIn(disk, files, fd)
  BY <1>3, <1>4, <1>5, MapDomains
<1>7. /\ Descriptors[fd].name = n /\ Descriptors[fd].pos = files[fd].pos
      /\ Descriptors[fd].append = files[fd].append
  BY <1>6 DEF FdIn
<1>8. Content[n] = FileIn(disk, data, files, i) /\ Saved[n] = disk[i].size
  BY <1>1, <1>2, <1>5, MapAt
<1>9. LengthIn(disk, files, i) = files[fd].size
  BY <1>1, OpenLength, Zenon DEF MapOK
<1>10. Len(Content[n]) = files[fd].size
  BY <1>1, <1>2, <1>8, <1>9, FileIsSeq
<1>11. Abs!Offset(fd) = WriteOff(files[fd])
  BY <1>7, <1>10, Zenon DEF Abs!Offset, WriteOff
<1> HIDE DEF i, n
<1>12. QED
  BY <1>2, <1>3, <1>6, <1>7, <1>8, <1>9, <1>10, <1>11, SMTT(30) DEF i, n

(* A step that only moves a position.                                      *)
LEMMA MoveStep ==
    ASSUME PlainInv, PlainInv', UNCHANGED <<disk, data>>, NEW fd \in Fds, files[fd].used,
           NEW p \in Nat, files' = [files EXCEPT ![fd].pos = p]
    PROVE  /\ UNCHANGED <<Content, Saved>>
           /\ Descriptors' = [Descriptors EXCEPT ![fd].pos = p]
<1>1. MapOK(disk, files) /\ AnyInv /\ AnyInv'
  BY PlainIsMapOK, Zenon DEF PlainInv
<1>2. /\ Content = ContentIn(disk, data, files) /\ Saved = SavedIn(disk)
      /\ Descriptors = FdtIn(disk, files)
  BY <1>1, MapNow, Zenon
<1>3. /\ Content' = ContentIn(disk, data, files') /\ Saved' = SavedIn(disk)
      /\ Descriptors' = FdtIn(disk, files')
  BY <1>1, MapNext, Zenon
<1>4. Moved(files, files', fd, p)
  BY Zenon DEF Moved
<1>5. /\ ContentIn(disk, data, files') = ContentIn(disk, data, files)
      /\ Moved(FdtIn(disk, files), FdtIn(disk, files'), fd, p)
  BY <1>1, <1>4, MoveMaps
<1>6. QED
  BY <1>2, <1>3, <1>5, Zenon DEF Moved

(* read                                                                    *)
LEMMA ReadMaps ==
    ASSUME PlainInv, PlainInv', NEW fd \in Fds, NEW len \in Lens, bmfs_read(fd, len)
    PROVE  fd \in DOMAIN Descriptors /\ Abs!Read(fd, len)
<1> DEFINE f == files[fd]
           n == IF f.pos >= f.size THEN 0
                ELSE IF f.pos + len > f.size THEN f.size - f.pos ELSE len
<1>1. files \in [Fds -> File] /\ f \in File /\ f.used
  BY Zenon DEF PlainInv, AnyInv, TypeOK, bmfs_read
<1>2. len \in Nat /\ f.pos \in Nat /\ f.size \in Nat
  BY <1>1, InputsAssumption, Zenon DEF File
<1>3. n \in Nat /\ f.pos + n \in Nat
  BY <1>2
<1>4. /\ files' = [files EXCEPT ![fd].pos = f.pos + n] /\ ret' = n
      /\ UNCHANGED <<disk, data>>
  BY <1>1, Zenon DEF bmfs_read
<1>5. /\ fd \in DOMAIN Descriptors /\ Descriptors[fd].pos = f.pos
      /\ Len(Content[Descriptors[fd].name]) = f.size
  BY <1>1, SeesOpen, Zenon
<1>6. n = LET left == f.size - f.pos IN
              IF left <= 0 THEN 0 ELSE IF len > left THEN left ELSE len
  BY <1>2
<1> HIDE DEF n
<1>7. /\ UNCHANGED <<Content, Saved>>
      /\ Descriptors' = [Descriptors EXCEPT ![fd].pos = f.pos + n]
  BY <1>1, <1>3, <1>4, MoveStep, Zenon
<1>8. Descriptors' = [Descriptors EXCEPT ![fd].pos = @ + ret']
  BY <1>4, <1>5, <1>7, Zenon
<1> HIDE DEF f
<1>9. QED
  BY <1>4, <1>5, <1>6, <1>7, <1>8, Zenon DEF Abs!Read

(* lseek                                                                   *)
LEMMA LseekMaps ==
    ASSUME PlainInv, PlainInv', NEW fd \in Fds, NEW offset \in Offsets,
           NEW whence \in 0 .. 3, bmfs_lseek(fd, offset, whence)
    PROVE  Abs!Fail \/ (fd \in DOMAIN Descriptors /\ Abs!Seek(fd))
<1> DEFINE f == files[fd]
           np == SeekBase(f, whence) + offset
           bad == whence \notin 0 .. 2 \/ SeekBase(f, whence) + offset < 0
<1>1. /\ files \in [Fds -> File] /\ f \in File /\ f.used /\ offset \in Int
      /\ UNCHANGED <<disk, data>> /\ AnyInv /\ AnyInv'
  BY InputsAssumption, Zenon DEF PlainInv, AnyInv, TypeOK, bmfs_lseek
<1>2. CASE bad
  <2>1. ret' = -EINVAL /\ files' = files
    BY <1>2, Zenon DEF bmfs_lseek
  <2>2. QED
    BY <1>1, <2>1, FailMaps DEF EINVAL
<1>3. CASE ~bad
  <2>1. files' = [files EXCEPT ![fd].pos = np] /\ ret' = np
    BY <1>3, Zenon DEF bmfs_lseek
  <2>2. f.pos \in Nat /\ f.size \in Nat
    BY <1>1, Zenon DEF File
  <2>3. SeekBase(f, whence) \in Nat
    BY <1>3, <2>2 DEF SeekBase
  <2>4. np \in Nat
    BY <1>1, <1>3, <2>3
  <2> HIDE DEF np
  <2>5. /\ UNCHANGED <<Content, Saved>>
        /\ Descriptors' = [Descriptors EXCEPT ![fd].pos = np]
    BY <1>1, <2>1, <2>4, MoveStep, Zenon
  <2>6. fd \in DOMAIN Descriptors
    BY <1>1, SeesOpen, Zenon
  <2>7. QED
    BY <2>1, <2>4, <2>5, <2>6, Zenon DEF Abs!Seek
<1>4. QED
  BY <1>2, <1>3, Zenon

(* A step that leaves the disk and files[] alone changes nothing mapped.   *)
LEMMA SameMaps ==
    ASSUME AnyInv, AnyInv', UNCHANGED <<disk, data, files>>
    PROVE  UNCHANGED <<Content, Saved, Descriptors>>
  BY MapNow, MapNext, Zenon

(* fstat                                                                   *)
LEMMA FstatMaps ==
    ASSUME PlainInv, PlainInv', NEW fd \in Fds, bmfs_fstat_fd(fd)
    PROVE  Abs!Stat
<1>1. files[fd].used /\ ret' = files[fd].size /\ UNCHANGED <<disk, data, files>>
  BY Zenon DEF bmfs_fstat_fd
<1>2. fd \in DOMAIN Descriptors /\ Len(Content[Descriptors[fd].name]) = files[fd].size
  BY <1>1, SeesOpen, Zenon
<1>3. UNCHANGED <<Content, Saved, Descriptors>>
  BY <1>1, SameMaps, Zenon DEF PlainInv
<1>4. QED
  BY <1>1, <1>2, <1>3, Zenon DEF Abs!Stat

(* A name that dir_find finds is one of the files, in a slot in use.       *)
LEMMA FoundIsFile ==
    ASSUME AnyInv, NEW name, Matches(disk, name) # {}
    PROVE  LET i == dir_find(disk, name)
           IN  /\ i \in UsedSlots(disk) /\ disk[i].name = name
               /\ name \in DOMAIN Content /\ name \in Names
               /\ Content[name] = FileIn(disk, data, files, i)
               /\ Saved[name] = disk[i].size
<1> DEFINE i == dir_find(disk, name)
<1>1. DirOK(disk)
  BY DiskIsDirOK, Zenon
<1>2. i \in UsedSlots(disk) /\ disk[i].name = name
  BY FindReturnsMatch, Zenon DEF UsedSlots
<1>3. name \in Names /\ name \in NamesIn(disk)
  BY <1>1, <1>2, FindsOwnSlot, Zenon
<1>4. Content = ContentIn(disk, data, files) /\ Saved = SavedIn(disk)
  BY MapNow, Zenon
<1>5. name \in DOMAIN Content
  BY <1>3, <1>4, MapDomains
<1>6. Content[name] = FileIn(disk, data, files, i) /\ Saved[name] = disk[i].size
  BY <1>1, <1>2, <1>4, MapAt
<1> HIDE DEF i
<1>7. QED
  BY <1>2, <1>3, <1>5, <1>6, Zenon DEF i

(* stat by name                                                            *)
LEMMA FstatatMaps ==
    ASSUME PlainInv, PlainInv', NEW name, bmfs_fstatat(name)
    PROVE  Abs!Fail \/ Abs!Stat
<1>1. Loaded = disk /\ AnyInv /\ AnyInv'
  BY DiskIsDirOK, Zenon DEF PlainInv
<1>2. /\ UNCHANGED <<disk, data, files>>
      /\ ret' = IF Matches(disk, name) = {} THEN -ENOENT ELSE disk[dir_find(disk, name)].size
  BY <1>1, Zenon DEF bmfs_fstatat
<1>3. CASE Matches(disk, name) = {}
  BY <1>1, <1>2, <1>3, FailMaps DEF ENOENT
<1>4. CASE Matches(disk, name) # {}
  <2>1. name \in DOMAIN Content /\ ret' = Saved[name]
    BY <1>1, <1>2, <1>4, FoundIsFile, Zenon
  <2>2. UNCHANGED <<Content, Saved, Descriptors>>
    BY <1>1, <1>2, SameMaps, Zenon
  <2>3. QED
    BY <2>1, <2>2, Zenon DEF Abs!Stat
<1>5. QED
  BY <1>3, <1>4, Zenon

-----------------------------------------------------------------------------
(* Steps that change one descriptor.                                       *)

OnlyFd(fs, gs, fd) == \A g \in Fds : g # fd => gs[g] = fs[g]

(* A slot that the changed descriptor is not on keeps its length.          *)
LEMMA OtherLength ==
    ASSUME NEW d, NEW dd, NEW fs, NEW gs, NEW fd, NEW i, dd[i] = d[i],
           OnlyFd(fs, gs, fd), fd \notin OnSlot(fs, i), fd \notin OnSlot(gs, i)
    PROVE  LengthIn(dd, gs, i) = LengthIn(d, fs, i)
<1>1. OnSlot(gs, i) = OnSlot(fs, i)
  BY Zenon DEF OnSlot, OnlyFd
<1>2. OnSlot(fs, i) # {} => /\ (CHOOSE g \in OnSlot(fs, i) : TRUE) \in Fds
                            /\ (CHOOSE g \in OnSlot(fs, i) : TRUE) # fd
  BY Zenon DEF OnSlot
<1>3. QED
  BY <1>1, <1>2 DEF LengthIn, OnlyFd

(* A file on such a slot keeps its bytes if the disk keeps them.           *)
LEMMA OtherFile ==
    ASSUME NEW d, NEW dd, NEW fs, NEW gs, NEW dt, NEW fd, NEW i, dd[i] = d[i],
           OnlyFd(fs, gs, fd), fd \notin OnSlot(fs, i), fd \notin OnSlot(gs, i)
    PROVE  FileIn(dd, dt, gs, i) = FileIn(d, dt, fs, i)
<1>1. LengthIn(dd, gs, i) = LengthIn(d, fs, i)
  BY OtherLength
<1>2. QED
  BY <1>1, Zenon DEF FileIn

(* close                                                                   *)
LEMMA CloseMaps ==
    ASSUME PlainInv, PlainInv', NEW fd \in Fds, bmfs_close(fd)
    PROVE  fd \in DOMAIN Descriptors /\ Abs!Close(fd)
<1> DEFINE f == files[fd]
           i == f.dir_index
           n == disk[i].name
<1>1. /\ MapOK(disk, files) /\ MapOK(disk', files') /\ AnyInv /\ AnyInv'
      /\ DirOK(disk) /\ DirOK(disk') /\ disk \in [Slots -> Dirent]
      /\ files \in [Fds -> File]
  BY PlainIsMapOK, Zenon DEF PlainInv, MapOK, DirOK
<1>2. f.used /\ files' = [files EXCEPT ![fd] = NoFile] /\ ret' = 0 /\ data' = data
  BY Zenon DEF bmfs_close
<1>3. /\ i \in UsedSlots(disk) /\ i \in Slots /\ Agree(f, disk[i]) /\ disk[i] \in Dirent
      /\ dir = disk
  BY <1>2, OpenIsNamed, SeesOpen, Zenon
<1>4. /\ fd \in DOMAIN Descriptors /\ Descriptors[fd].name = n
      /\ Len(Content[n]) = f.size /\ LengthIn(disk, files, i) = f.size
  BY <1>2, SeesOpen, Zenon
<1>5. ~files'[fd].used /\ OnlyFd(files, files', fd)
  BY <1>1, <1>2, NoFileIsFile, Zenon DEF OnlyFd
<1>6. /\ \A j \in Slots : j # i => disk'[j] = disk[j]
      /\ disk'[i].name = n /\ disk'[i].start_block = disk[i].start_block
      /\ disk'[i].size = f.size
  BY <1>1, <1>3 DEF bmfs_close, dir_flush, Agree, Dirent
<1>7. \A j \in Slots : disk'[j].name = disk[j].name
  BY <1>6, Zenon
<1>8. \A g \in OnSlot(files, i) : g = fd
  BY <1>1, <1>2, Zenon DEF OnSlot, MapOK, Exclusive
<1>9. OnSlot(files', i) = {}
  BY <1>5, <1>8, Zenon DEF OnSlot, OnlyFd
<1>10. \A j \in Slots : fd \notin OnSlot(files', j) /\ (j # i => fd \notin OnSlot(files, j))
  BY <1>5, Zenon DEF OnSlot
<1> HIDE DEF f, i, n
<1>11. LengthIn(disk', files', i) = LengthIn(disk, files, i)
  BY <1>4, <1>6, <1>9, ClosedLength
<1>12. FileIn(disk', data', files', i) = FileIn(disk, data, files, i)
  BY <1>2, <1>6, <1>11, Zenon DEF FileIn
<1>13. ASSUME NEW j \in UsedSlots(disk), j # i
       PROVE  FileIn(disk', data', files', j) = FileIn(disk, data, files, j)
  <2>1. j \in Slots /\ disk'[j] = disk[j] /\ fd \notin OnSlot(files', j) /\ fd \notin OnSlot(files, j)
    BY <1>6, <1>10, <1>13, Zenon DEF UsedSlots
  <2>2. FileIn(disk', data, files', j) = FileIn(disk, data, files, j)
    BY <1>5, <2>1, OtherFile
  <2>3. QED
    BY <1>2, <2>2, Zenon
<1>14. ContentIn(disk', data', files') = ContentIn(disk, data, files)
  <2>1. \A j \in UsedSlots(disk) : FileIn(disk', data', files', j) = FileIn(disk, data, files, j)
    BY <1>12, <1>13, Zenon
  <2>2. DirOK(disk) /\ DirOK(disk')
    BY <1>1, Zenon
  <2>3. QED
    BY <1>7, <2>1, <2>2, SameContent
<1>15. UsedSlots(disk') = UsedSlots(disk) /\ NamesIn(disk') = NamesIn(disk)
  BY <1>7, Zenon DEF UsedSlots, NamesIn
<1>16. SavedIn(disk') = [SavedIn(disk) EXCEPT ![n] = f.size]
  <2> DEFINE h == [SavedIn(disk) EXCEPT ![n] = f.size]
  <2>1. h = [m \in NamesIn(disk') |-> h[m]]
    BY <1>15, MapDomains, Zenon
  <2>2. ASSUME NEW j \in UsedSlots(disk') PROVE h[disk'[j].name] = disk'[j].size
    <3>1. j \in Slots /\ j \in UsedSlots(disk) /\ disk'[j].name = disk[j].name
      BY <1>7, <1>15, Zenon DEF UsedSlots
    <3>2. disk[j].name \in DOMAIN SavedIn(disk) /\ SavedIn(disk)[disk[j].name] = disk[j].size
      BY <1>1, <3>1, MapAt, MapDomains, FindsOwnSlot, Zenon
    <3>3. disk[j].name = n => j = i
      BY <1>1, <1>3, <3>1, Zenon DEF DirOK, UniqueNames, n
    <3>4. QED
      BY <1>6, <3>1, <3>2, <3>3, Zenon
  <2> HIDE DEF h
  <2>3. SavedIn(disk') = h
    BY <1>1, <2>1, <2>2, SavedIs, Zenon
  <2>4. QED
    BY <2>3, Zenon DEF h
<1>17. FdtIn(disk', files') = Abs!Without(FdtIn(disk, files), fd)
  <2>1. OpenIn(files') = OpenIn(files) \ {fd}
    BY <1>5, Zenon DEF OpenIn, OnlyFd
  <2>2. \A g \in OpenIn(files') : FdIn(disk', files', g) = FdIn(disk, files, g)
    BY <1>1, <1>5, <1>7, <2>1, Zenon DEF FdIn, OpenIn, File, OnlyFd
  <2>3. QED
    BY <2>1, <2>2, MapDomains, Zenon DEF FdtIn, Abs!Without
<1>18. /\ Content' = Content /\ Saved' = [Saved EXCEPT ![n] = f.size]
       /\ Descriptors' = Abs!Without(Descriptors, fd)
  BY <1>1, <1>14, <1>16, <1>17, MapNow, MapNext
<1>19. QED
  BY <1>2, <1>4, <1>18, Zenon DEF Abs!Close

(* unlink                                                                  *)
LEMMA UnlinkMaps ==
    ASSUME PlainInv, PlainInv', PlainClient, NEW name, bmfs_unlink(name)
    PROVE  Abs!Fail \/ (name \in Names /\ Abs!Unlink(name))
<1>1. /\ Loaded = disk /\ AnyInv /\ AnyInv' /\ DirOK(disk) /\ DirOK(disk')
      /\ disk \in [Slots -> Dirent] /\ files \in [Fds -> File] /\ MapOK(disk, files)
  BY DiskIsDirOK, PlainIsMapOK, Zenon DEF PlainInv, MapOK, DirOK
<1>2. data' = data /\ files' = files
  BY Zenon DEF bmfs_unlink
<1>3. CASE Matches(disk, name) = {}
  BY <1>1, <1>2, <1>3, FailMaps DEF bmfs_unlink, ENOENT
<1>4. CASE Matches(disk, name) # {}
  <2> DEFINE i == dir_find(disk, name)
  <2>1. /\ i \in UsedSlots(disk) /\ disk[i].name = name
        /\ name \in DOMAIN Content /\ name \in Names
    BY <1>1, <1>4, FoundIsFile, Zenon
  <2>2. OpenOn(i) = {} /\ disk' = [disk EXCEPT ![i] = NoEntry] /\ ret' = 0
    BY <1>1, <1>4, Zenon DEF bmfs_unlink, dir_flush, PlainClient
  <2> HIDE DEF i
  <2>3. disk'[i].name = NoName /\ \A j \in Slots : j # i => disk'[j] = disk[j]
    BY <1>1, <2>1, <2>2, Zenon DEF UsedSlots, NoEntry
  <2>4. UsedSlots(disk') = UsedSlots(disk) \ {i}
    BY <2>3, Zenon DEF UsedSlots
  <2>5. \A j \in UsedSlots(disk') : /\ j \in UsedSlots(disk) /\ disk'[j] = disk[j]
                                    /\ disk[j].name # name
    BY <1>1, <2>1, <2>3, <2>4, Zenon DEF UsedSlots, DirOK, UniqueNames
  <2>6. NamesIn(disk') = NamesIn(disk) \ {name}
    BY <2>1, <2>4, <2>5, Zenon DEF NamesIn
  <2>7. \A fd \in OpenIn(files) : files[fd].dir_index \in Slots /\ files[fd].dir_index # i
    BY <1>1, <2>2, Zenon DEF OpenOn, OpenIn, File
  <2>8. FdtIn(disk', files') = FdtIn(disk, files)
    BY <1>2, <2>3, <2>7, Zenon DEF FdtIn, FdIn
  <2>9. ContentIn(disk', data', files') = Abs!Without(ContentIn(disk, data, files), name)
    <3> DEFINE h == Abs!Without(ContentIn(disk, data, files), name)
    <3>1. h = [m \in NamesIn(disk') |-> h[m]]
      BY <2>6, MapDomains, SMTT(30) DEF Abs!Without
    <3>2. ASSUME NEW j \in UsedSlots(disk')
          PROVE  h[disk'[j].name] = FileIn(disk', data', files', j)
      <4>1. /\ ContentIn(disk, data, files)[disk[j].name] = FileIn(disk, data, files, j)
            /\ disk[j].name \in NamesIn(disk)
        BY <1>1, <2>5, MapAt, FindsOwnSlot, SMTT(30)
      <4>2. h[disk'[j].name] = FileIn(disk, data, files, j)
        BY <2>5, <4>1, MapDomains DEF Abs!Without
      <4>3. QED
        BY <1>2, <2>5, <4>2, SMTT(30) DEF FileIn, LengthIn
    <3> HIDE DEF h
    <3>3. ContentIn(disk', data', files') = h
      BY <1>1, <3>1, <3>2, ContentIs
    <3>4. QED
      BY <3>3, Zenon DEF h
  <2>10. SavedIn(disk') = Abs!Without(SavedIn(disk), name)
    <3> DEFINE h == Abs!Without(SavedIn(disk), name)
    <3>1. h = [m \in NamesIn(disk') |-> h[m]]
      BY <2>6, MapDomains, Zenon DEF Abs!Without
    <3>2. ASSUME NEW j \in UsedSlots(disk')
          PROVE  h[disk'[j].name] = disk'[j].size
      <4>1. SavedIn(disk)[disk[j].name] = disk[j].size /\ disk[j].name \in NamesIn(disk)
        BY <1>1, <2>5, MapAt, FindsOwnSlot, SMTT(30)
      <4>2. QED
        BY <2>5, <4>1, MapDomains, Zenon DEF Abs!Without
    <3> HIDE DEF h
    <3>3. SavedIn(disk') = h
      BY <1>1, <3>1, <3>2, SavedIs, Zenon
    <3>4. QED
      BY <3>3, Zenon DEF h
  <2>11. /\ Content' = Abs!Without(Content, name) /\ Saved' = Abs!Without(Saved, name)
         /\ Descriptors' = Descriptors
    BY <1>1, <2>8, <2>9, <2>10, MapNow, MapNext, SMTT(30)
  <2>12. \A fd \in DOMAIN Descriptors : Descriptors[fd].name # name
    <3>1. ASSUME NEW fd \in OpenIn(files) PROVE disk[files[fd].dir_index].name # name
      <4>1. fd \in Fds /\ files[fd].used
        BY Zenon DEF OpenIn
      <4>2. files[fd].dir_index \in UsedSlots(disk)
        BY <4>1, SeesOpen, Zenon
      <4>3. QED
        BY <1>1, <2>1, <2>7, <4>2, Zenon DEF DirOK, UniqueNames
    <3>2. Descriptors = FdtIn(disk, files)
      BY <1>1, MapNow, Zenon
    <3>3. QED
      BY <3>1, <3>2, Zenon DEF FdtIn, FdIn
  <2>13. QED
    BY <2>1, <2>2, <2>11, <2>12, Zenon DEF Abs!Unlink
<1>5. QED
  BY <1>3, <1>4, Zenon

-----------------------------------------------------------------------------
(* open                                                                    *)

(* A function with no argument is the empty sequence.                      *)
LEMMA EmptyFile ==
    ASSUME NEW d, NEW dt, NEW fs, NEW i, LengthIn(d, fs, i) = 0
    PROVE  FileIn(d, dt, fs, i) = << >>
<1>1. 1 .. 0 = {}
  OBVIOUS
<1>2. FileIn(d, dt, fs, i) = [k \in {} |-> dt[d[i].start_block * BlockBytes + k - 1]]
  BY <1>1, Zenon DEF FileIn
<1>3. QED
  BY <1>2

(* open of slot i, which nobody has open, with the entry e: the files on   *)
(* the other slots stay, and i holds a file of e's length.                 *)
Fills(i, e, flags) ==
    /\ i \in Slots /\ e \in Dirent /\ e.name # NoName
    /\ FreeFds # {} /\ OnSlot(files, i) = {} /\ FillFd(i, e, flags)
    /\ disk' = [disk EXCEPT ![i] = e] /\ data' = data

(* What such a step does to files[].                                       *)
LEMMA FillsFd ==
    ASSUME PlainInv, NEW i, NEW e, NEW flags, Fills(i, e, flags)
    PROVE  \E fd \in Fds :
              /\ fd \notin OpenIn(files) /\ OnlyFd(files, files', fd)
              /\ OpenIn(files') = OpenIn(files) \cup {fd}
              /\ files'[fd].used /\ files'[fd].dir_index = i /\ files'[fd].size = e.size
              /\ files'[fd].append = ("APPEND" \in flags)
              /\ files'[fd].pos = IF "APPEND" \in flags THEN e.size ELSE 0
              /\ ret' = FdBase + fd
<1> DEFINE fd == Min(FreeFds)
           f == [used |-> TRUE, dirty |-> FALSE, append |-> "APPEND" \in flags,
                 dir_index |-> i, start_block |-> e.start_block,
                 reserved_blocks |-> e.reserved_blocks, size |-> e.size,
                 pos |-> IF "APPEND" \in flags THEN e.size ELSE 0]
<1>1. fd \in Fds /\ ~files[fd].used /\ files \in [Fds -> File]
  BY FreeFdIsFree, Zenon DEF Fills, PlainInv, AnyInv, TypeOK
<1>2. files' = [files EXCEPT ![fd] = f] /\ ret' = FdBase + fd
  BY Zenon DEF Fills, FillFd
<1>3. /\ f.used /\ f.dir_index = i /\ f.size = e.size
      /\ f.append = ("APPEND" \in flags)
      /\ f.pos = IF "APPEND" \in flags THEN e.size ELSE 0
  BY Zenon
<1> HIDE DEF fd, f
<1>4. files'[fd] = f /\ OnlyFd(files, files', fd)
  BY <1>1, <1>2, Zenon DEF OnlyFd
<1>5. fd \notin OpenIn(files) /\ OpenIn(files') = OpenIn(files) \cup {fd}
  BY <1>1, <1>3, <1>4, Zenon DEF OpenIn, OnlyFd
<1>6. QED
  BY <1>1, <1>2, <1>3, <1>4, <1>5, Zenon

(* The new descriptor is bound as Bind says.                               *)
LEMMA FillsBinds ==
    ASSUME PlainInv, PlainInv', NEW i, NEW e, NEW flags, Fills(i, e, flags),
           NEW c, Len(c) = e.size
    PROVE  Abs!Bind(e.name, c, "APPEND" \in flags)
<1>1. PICK fd \in Fds :
              /\ fd \notin OpenIn(files) /\ OnlyFd(files, files', fd)
              /\ OpenIn(files') = OpenIn(files) \cup {fd}
              /\ files'[fd].used /\ files'[fd].dir_index = i /\ files'[fd].size = e.size
              /\ files'[fd].append = ("APPEND" \in flags)
              /\ files'[fd].pos = IF "APPEND" \in flags THEN e.size ELSE 0
              /\ ret' = FdBase + fd
  BY FillsFd
<1>2. /\ AnyInv /\ AnyInv' /\ disk \in [Slots -> Dirent] /\ files \in [Fds -> File]
  BY Zenon DEF PlainInv, AnyInv, TypeOK
<1>3. disk'[i] = e /\ \A j \in Slots : j # i => disk'[j] = disk[j]
  BY <1>2, Zenon DEF Fills
<1> DEFINE r == [name |-> e.name, append |-> "APPEND" \in flags,
                 pos |-> IF "APPEND" \in flags THEN Len(c) ELSE 0]
<1>4. FdIn(disk', files', fd) = r
  BY <1>1, <1>3, Zenon DEF FdIn
<1>5. ASSUME NEW g \in OpenIn(files) PROVE FdIn(disk', files', g) = FdIn(disk, files, g)
  <2>1. g \in Fds /\ g # fd /\ files[g].used
    BY <1>1, Zenon DEF OpenIn
  <2>2. files'[g] = files[g]
    BY <1>1, <2>1, Zenon DEF OnlyFd
  <2>3. files[g].dir_index \in Slots /\ files[g].dir_index # i
    BY <1>2, <2>1, Zenon DEF Fills, OnSlot, File
  <2>4. QED
    BY <1>3, <2>2, <2>3, Zenon DEF FdIn
<1> HIDE DEF r
<1>6. FdtIn(disk', files') = Abs!With(FdtIn(disk, files), fd, r)
  BY <1>1, <1>4, <1>5, MapDomains, Zenon DEF FdtIn, Abs!With
<1>7. Descriptors = FdtIn(disk, files) /\ Descriptors' = FdtIn(disk', files')
  BY <1>2, MapNow, MapNext, Zenon
<1>8. fd \in Fds \ DOMAIN Descriptors
  BY <1>1, <1>7, MapDomains, Zenon
<1>9. Descriptors' = Abs!With(Descriptors, fd, r)
  BY <1>6, <1>7, Zenon
<1>10. QED
  BY <1>1, <1>8, <1>9, Zenon DEF Abs!Bind, r

(* The slots and files after it.                                           *)
LEMMA FillsFiles ==
    ASSUME PlainInv, PlainInv', NEW i, NEW e, NEW flags, Fills(i, e, flags)
    PROVE  /\ UsedSlots(disk') = UsedSlots(disk) \cup {i}
           /\ disk'[i] = e /\ \A j \in Slots : j # i => disk'[j] = disk[j]
           /\ LengthIn(disk', files', i) = e.size
           /\ \A j \in UsedSlots(disk) : j # i =>
                 FileIn(disk', data', files', j) = FileIn(disk, data, files, j)
<1>1. PICK fd \in Fds :
              /\ fd \notin OpenIn(files) /\ OnlyFd(files, files', fd)
              /\ files'[fd].used /\ files'[fd].dir_index = i /\ files'[fd].size = e.size
  BY FillsFd
<1>2. disk \in [Slots -> Dirent] /\ MapOK(disk', files')
  BY PlainIsMapOK, Zenon DEF PlainInv, AnyInv, TypeOK
<1>3. disk'[i] = e /\ \A j \in Slots : j # i => disk'[j] = disk[j]
  BY <1>2, Zenon DEF Fills
<1>4. UsedSlots(disk') = UsedSlots(disk) \cup {i}
  BY <1>3, Zenon DEF Fills, UsedSlots
<1>5. LengthIn(disk', files', i) = e.size
  BY <1>1, <1>2, OpenLength, Zenon DEF MapOK
<1>6. ASSUME NEW j \in UsedSlots(disk), j # i
      PROVE  FileIn(disk', data', files', j) = FileIn(disk, data, files, j)
  <2>1. disk'[j] = disk[j]
    BY <1>3, <1>6, Zenon DEF UsedSlots
  <2>2. fd \notin OnSlot(files, j) /\ fd \notin OnSlot(files', j)
    BY <1>1, <1>6, Zenon DEF OnSlot, OpenIn
  <2>3. FileIn(disk', data, files', j) = FileIn(disk, data, files, j)
    BY <1>1, <2>1, <2>2, OtherFile, SMTT(30)
  <2>4. QED
    BY <2>3, Zenon DEF Fills
<1>7. QED
  BY <1>3, <1>4, <1>5, <1>6, Zenon

(* open of a name that is not there.                                       *)
LEMMA CreateMaps ==
    ASSUME PlainInv, PlainInv', NEW name \in Names, NEW flags, OpenCreates(name, flags)
    PROVE  Abs!Create(name, "APPEND" \in flags)
<1> DEFINE i == dir_find_free_slot(disk)
           e == NewEntry(disk, name)
<1>1. /\ DirOK(disk) /\ DirOK(disk') /\ Loaded = disk /\ AnyInv /\ AnyInv'
      /\ MapOK(disk, files)
  BY DiskIsDirOK, PlainIsMapOK, Zenon DEF PlainInv, MapOK
<1>2. FreeFds # {} /\ FreeSlots(disk) # {} /\ Matches(disk, name) = {}
  BY <1>1, OpenErrorCases, Zenon DEF OpenCreates
<1>3. i \in Slots /\ disk[i].name = NoName
  BY <1>2, FreeSlotIsFree, Zenon
<1>4. disk' = [disk EXCEPT ![i] = e] /\ FillFd(i, e, flags) /\ data' = data
  BY <1>1, Zenon DEF OpenCreates, dir_flush
<1>5. e \in Dirent /\ e.name = name /\ e.size = 0 /\ name # NoName
  BY <1>1, NextBlockIsFree, NamesAssumption, Zenon DEF NewEntry, Dirent, DefaultBlocks
<1>6. OnSlot(files, i) = {}
  BY <1>1, <1>3, Zenon DEF OnSlot, MapOK, Tracks, Agree
<1> HIDE DEF i, e
<1>7. Fills(i, e, flags)
  BY <1>2, <1>3, <1>4, <1>5, <1>6, Zenon DEF Fills
<1>8. Abs!Bind(name, << >>, "APPEND" \in flags)
  BY <1>5, <1>7, FillsBinds, Zenon
<1>9. /\ UsedSlots(disk') = UsedSlots(disk) \cup {i}
      /\ disk'[i] = e /\ \A j \in Slots : j # i => disk'[j] = disk[j]
      /\ LengthIn(disk', files', i) = 0
      /\ \A j \in UsedSlots(disk) : j # i =>
            FileIn(disk', data', files', j) = FileIn(disk, data, files, j)
  BY <1>5, <1>7, FillsFiles, Zenon
<1>10. FileIn(disk', data', files', i) = << >>
  BY <1>9, EmptyFile, Zenon
<1>11. i \notin UsedSlots(disk) /\ name \notin NamesIn(disk)
  BY <1>2, <1>3, Zenon DEF UsedSlots, NamesIn, Matches
<1>12. NamesIn(disk') = NamesIn(disk) \cup {name}
  BY <1>5, <1>9, <1>11, SMTT(30) DEF NamesIn, UsedSlots
<1>13. \A j \in UsedSlots(disk') : j = i \/ (/\ j \in UsedSlots(disk) /\ j # i
                                            /\ disk'[j] = disk[j] /\ disk[j].name # name
                                            /\ disk[j].name \in NamesIn(disk))
  BY <1>9, <1>11, Zenon DEF UsedSlots, NamesIn
<1>14. ContentIn(disk', data', files') = Abs!With(ContentIn(disk, data, files), name, << >>)
  <2> DEFINE h == Abs!With(ContentIn(disk, data, files), name, << >>)
  <2>1. h = [m \in NamesIn(disk') |-> h[m]]
    BY <1>12, MapDomains, SMTT(30) DEF Abs!With
  <2>2. ASSUME NEW j \in UsedSlots(disk')
        PROVE  h[disk'[j].name] = FileIn(disk', data', files', j)
    <3>1. CASE j = i
      BY <1>5, <1>9, <1>10, <3>1, ZenonT(30) DEF Abs!With
    <3>2. CASE j # i
      <4>1. ContentIn(disk, data, files)[disk[j].name] = FileIn(disk, data, files, j)
        <5>1. DirOK(disk) /\ j \in UsedSlots(disk)
          BY <1>1, <1>13, <3>2, Zenon
        <5>2. QED
          BY <5>1, MapAt, Zenon
      <4>2. /\ disk'[j].name = disk[j].name
            /\ disk[j].name # name /\ disk[j].name \in NamesIn(disk)
            /\ FileIn(disk', data', files', j) = FileIn(disk, data, files, j)
        BY <1>9, <1>13, <3>2, Zenon
      <4>3. QED
        BY <4>1, <4>2, MapDomains, SMTT(30) DEF Abs!With
    <3>3. QED
      BY <3>1, <3>2, Zenon
  <2> HIDE DEF h
  <2>3. ContentIn(disk', data', files') = h
    BY <1>1, <2>1, <2>2, ContentIs
  <2>4. QED
    BY <2>3, Zenon DEF h
<1>15. SavedIn(disk') = Abs!With(SavedIn(disk), name, 0)
  <2> DEFINE h == Abs!With(SavedIn(disk), name, 0)
  <2>1. h = [m \in NamesIn(disk') |-> h[m]]
    BY <1>12, MapDomains, Zenon DEF Abs!With
  <2>2. ASSUME NEW j \in UsedSlots(disk')
        PROVE  h[disk'[j].name] = disk'[j].size
    <3>1. CASE j = i
      BY <1>5, <1>9, <3>1, Zenon DEF Abs!With
    <3>2. CASE j # i
      <4>1. SavedIn(disk)[disk[j].name] = disk[j].size
        BY <1>1, <1>13, <3>2, MapAt, Zenon
      <4>2. QED
        BY <1>9, <1>13, <3>2, <4>1, MapDomains, Zenon DEF Abs!With
    <3>3. QED
      BY <3>1, <3>2, Zenon
  <2> HIDE DEF h
  <2>3. SavedIn(disk') = h
    BY <1>1, <2>1, <2>2, SavedIs, Zenon
  <2>4. QED
    BY <2>3, Zenon DEF h
<1>16. /\ Content = ContentIn(disk, data, files) /\ Saved = SavedIn(disk)
       /\ Content' = ContentIn(disk', data', files') /\ Saved' = SavedIn(disk')
  BY <1>1, MapNow, MapNext, Zenon
<1>17. name \notin DOMAIN Content
  BY <1>11, <1>16, MapDomains, SMTT(30)
<1>18. QED
  BY <1>8, <1>14, <1>15, <1>16, <1>17, Zenon DEF Abs!Create

(* open of a file that is there.                                           *)
LEMMA OpenMaps ==
    ASSUME PlainInv, PlainInv', PlainClient, NEW name \in Names, NEW flags,
           OpenExisting(name, flags)
    PROVE  Abs!Open(name, "APPEND" \in flags) \/ Abs!Truncate(name, "APPEND" \in flags)
<1> DEFINE i == dir_find(disk, name)
           n == IF "TRUNC" \in flags THEN 0 ELSE disk[i].size
           e == [disk[i] EXCEPT !.size = n]
<1>1. /\ DirOK(disk) /\ DirOK(disk') /\ Loaded = disk /\ AnyInv /\ AnyInv'
      /\ MapOK(disk, files) /\ disk \in [Slots -> Dirent] /\ data \in [Addrs -> Bytes]
  BY DiskIsDirOK, PlainIsMapOK, Zenon DEF PlainInv, MapOK, DirOK
<1>2. FreeFds # {} /\ Matches(disk, name) # {}
  BY <1>1, OpenErrorCases, Zenon DEF OpenExisting
<1>3. /\ i \in UsedSlots(disk) /\ i \in Slots /\ disk[i].name = name
      /\ name \in DOMAIN Content
      /\ Content[name] = FileIn(disk, data, files, i) /\ Saved[name] = disk[i].size
  BY <1>1, <1>2, FoundIsFile, Zenon DEF UsedSlots
<1>4. /\ IF "TRUNC" \in flags THEN disk' = [disk EXCEPT ![i] = e] ELSE disk' = disk
      /\ FillFd(i, e, flags) /\ OpenOn(i) = {} /\ data' = data
  BY <1>1, Zenon DEF OpenExisting, dir_flush, PlainClient
<1>5. /\ e \in Dirent /\ e.name = name /\ e.size = n /\ name # NoName
      /\ e.start_block = disk[i].start_block /\ ("TRUNC" \notin flags => e = disk[i])
  BY <1>1, <1>3, NamesAssumption, Zenon DEF Dirent
<1>6. OnSlot(files, i) = {}
  BY <1>4, Zenon DEF OnSlot, OpenOn
<1> HIDE DEF i, e
<1>7. disk' = [disk EXCEPT ![i] = e]
  BY <1>1, <1>3, <1>4, <1>5, Zenon
<1>8. Fills(i, e, flags)
  BY <1>2, <1>3, <1>4, <1>5, <1>6, <1>7, Zenon DEF Fills
<1>9. /\ UsedSlots(disk') = UsedSlots(disk)
      /\ disk'[i] = e /\ \A j \in Slots : j # i => disk'[j] = disk[j]
      /\ LengthIn(disk', files', i) = n
      /\ \A j \in UsedSlots(disk) : j # i =>
            FileIn(disk', data', files', j) = FileIn(disk, data, files, j)
  BY <1>3, <1>5, <1>8, FillsFiles, Zenon
<1>10. LengthIn(disk, files, i) = disk[i].size
  BY <1>6, ClosedLength, Zenon
<1>11. Len(Content[name]) = disk[i].size
  BY <1>1, <1>3, <1>10, FileIsSeq, SMTT(30)
<1>12. \A j \in Slots : disk'[j].name = disk[j].name
  BY <1>3, <1>5, <1>9, Zenon
<1>13. /\ Content = ContentIn(disk, data, files) /\ Saved = SavedIn(disk)
       /\ Content' = ContentIn(disk', data', files') /\ Saved' = SavedIn(disk')
  BY <1>1, MapNow, MapNext, Zenon
<1>14. CASE "TRUNC" \notin flags
  <2>1. n = disk[i].size /\ disk' = disk
    BY <1>4, <1>14, Zenon
  <2>2. FileIn(disk', data', files', i) = FileIn(disk, data, files, i)
    BY <1>4, <1>9, <1>10, <2>1, Zenon DEF FileIn
  <2>3. \A j \in UsedSlots(disk) : FileIn(disk', data', files', j) = FileIn(disk, data, files, j)
    BY <1>9, <2>2, Zenon
  <2>4. Content' = Content
    BY <1>1, <1>12, <1>13, <2>3, SameContent, SMTT(30)
  <2>5. Saved' = Saved
    BY <1>13, <2>1, Zenon
  <2>6. Abs!Bind(name, Content[name], "APPEND" \in flags)
    BY <1>5, <1>8, <1>11, <2>1, FillsBinds, Zenon
  <2>7. QED
    BY <1>3, <2>4, <2>5, <2>6, Zenon DEF Abs!Open
<1>15. CASE "TRUNC" \in flags
  <2>1. n = 0
    BY <1>15, Zenon
  <2>2. FileIn(disk', data', files', i) = << >>
    BY <1>9, <2>1, EmptyFile, Zenon
  <2>3. NamesIn(disk') = NamesIn(disk)
    BY <1>9, <1>12 DEF NamesIn, UsedSlots
  <2>4. \A j \in UsedSlots(disk') :
           /\ j \in UsedSlots(disk) /\ disk'[j].name = disk[j].name
           /\ disk[j].name \in NamesIn(disk) /\ (disk[j].name = name => j = i)
    BY <1>1, <1>3, <1>9, <1>12, Zenon DEF UsedSlots, NamesIn, DirOK, UniqueNames
  <2>5. ContentIn(disk', data', files') = [ContentIn(disk, data, files) EXCEPT ![name] = << >>]
    <3> DEFINE h == [ContentIn(disk, data, files) EXCEPT ![name] = << >>]
    <3>1. h = [m \in NamesIn(disk') |-> h[m]]
      BY <2>3, MapDomains
    <3>2. ASSUME NEW j \in UsedSlots(disk')
          PROVE  h[disk'[j].name] = FileIn(disk', data', files', j)
      <4>1. ContentIn(disk, data, files)[disk[j].name] = FileIn(disk, data, files, j)
        BY <1>1, <2>4, MapAt, ZenonT(30)
      <4>2. CASE j = i
        BY <1>3, <1>12, <2>2, <2>4, <4>2, MapDomains, SMTT(30)
      <4>3. CASE j # i
        BY <1>9, <2>4, <4>1, <4>3, MapDomains, SMTT(30)
      <4>4. QED
        BY <4>2, <4>3, Zenon
    <3> HIDE DEF h
    <3>3. ContentIn(disk', data', files') = h
      BY <1>1, <3>1, <3>2, ContentIs, SMTT(30)
    <3>4. QED
      BY <3>3, Zenon DEF h
  <2>6. SavedIn(disk') = [SavedIn(disk) EXCEPT ![name] = 0]
    <3> DEFINE h == [SavedIn(disk) EXCEPT ![name] = 0]
    <3>1. h = [m \in NamesIn(disk') |-> h[m]]
      BY <2>3, MapDomains, Zenon
    <3>2. ASSUME NEW j \in UsedSlots(disk')
          PROVE  h[disk'[j].name] = disk'[j].size
      <4>1. SavedIn(disk)[disk[j].name] = disk[j].size /\ j \in Slots
        BY <1>1, <2>4, MapAt, Zenon DEF UsedSlots
      <4>2. CASE j = i
        BY <1>3, <1>5, <1>9, <2>1, <2>4, <4>2, MapDomains, Zenon
      <4>3. CASE j # i
        BY <1>9, <2>4, <4>1, <4>3, MapDomains, SMTT(30)
      <4>4. QED
        BY <4>2, <4>3, Zenon
    <3> HIDE DEF h
    <3>3. SavedIn(disk') = h
      BY <1>1, <3>1, <3>2, SavedIs, Zenon
    <3>4. QED
      BY <3>3, Zenon DEF h
  <2>7. Abs!Bind(name, << >>, "APPEND" \in flags)
    BY <1>5, <1>8, <2>1, FillsBinds, Zenon
  <2>8. QED
    BY <1>3, <1>13, <2>5, <2>6, <2>7, Zenon DEF Abs!Truncate
<1>16. QED
  BY <1>14, <1>15, Zenon
=============================================================================
