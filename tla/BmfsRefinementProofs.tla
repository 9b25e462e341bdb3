------------------------ MODULE BmfsRefinementProofs ------------------------
(***************************************************************************)
(* Proof that Bmfs implements AbsFs for every PlainClient: write, the      *)
(* stops of the machine, and the theorem.                                  *)
(***************************************************************************)
EXTENDS BmfsMapProofs

(* write                                                                   *)

(* A write leaves the bytes of the other files.                            *)
LEMMA StoresOther ==
    ASSUME PlainInv, NEW fd \in Fds, NEW len \in Nat, NEW b \in Bytes, NEW n \in Nat,
           Stores(fd, len, n, b), NEW j \in UsedSlots(disk), j # files[fd].dir_index,
           NEW k \in Nat, k < Capacity(disk[j])
    PROVE  data'[disk[j].start_block * BlockBytes + k]
              = data[disk[j].start_block * BlockBytes + k]
<1> DEFINE i == files[fd].dir_index
           a == disk[j].start_block * BlockBytes + k
<1>1. DirOK(disk) /\ i \in UsedSlots(disk) /\ files[fd] \in File
  BY PlainIsMapOK, SeesOpen, OpenIsNamed, Zenon DEF Stores, MapOK
<1>2. a \in Addrs /\ disk[j].start_block * BlockBytes \in Nat
  BY <1>1, FileAddrs, Zenon
<1>3. SUFFICES ASSUME data'[a] # data[a] PROVE FALSE
  BY Zenon
<1>4. WriteOff(files[fd]) \in Nat
  BY <1>1, WriteBounds, Zenon
<1>5. /\ disk[i].start_block * BlockBytes + WriteOff(files[fd]) <= a
      /\ a < End(disk[i]) * BlockBytes
      /\ disk[i].reserved_blocks > 0
  BY <1>2, <1>3, StoresInExtent, Zenon
<1>6. a < disk[i].start_block * BlockBytes \/ a >= End(disk[i]) * BlockBytes
  BY <1>1, <1>5, OtherFilesByte, Zenon
<1>7. disk[i].start_block * BlockBytes \in Nat /\ End(disk[i]) * BlockBytes \in Nat
  BY <1>1, BlockBytesIsNat DEF DirOK, UsedSlots, Dirent, End
<1>8. a \in Nat
  BY <1>2
<1> HIDE DEF a, i
<1>9. QED
  BY <1>4, <1>5, <1>6, <1>7, <1>8

(* In the file itself it puts b at the offset.                             *)
PutsAt(fd, n, b) ==
    LET e == disk[files[fd].dir_index]
        off == WriteOff(files[fd])
    IN  \A k \in Nat : k < Capacity(e) =>
           data'[e.start_block * BlockBytes + k]
              = IF off <= k /\ k < off + n THEN b ELSE data[e.start_block * BlockBytes + k]

(* What the loop of bmfs_write over sectors comes to in the file itself.   *)
LEMMA StoresOwn ==
    ASSUME PlainInv, NEW fd \in Fds, NEW len \in Nat, NEW b \in Bytes, NEW n \in Nat,
           Stores(fd, len, n, b)
    PROVE  PutsAt(fd, n, b)
<1> DEFINE f == files[fd]
           e == disk[f.dir_index]
           base == e.start_block * BlockBytes
           off == WriteOff(f)
<1>1. DirOK(disk) /\ f.dir_index \in UsedSlots(disk) /\ f \in File /\ Agree(f, e)
  BY PlainIsMapOK, SeesOpen, OpenIsNamed, Zenon DEF Stores, MapOK
<1>2. ASSUME NEW k \in Nat, k < Capacity(e)
      PROVE  base + k \in Addrs /\ base \in Nat
  BY <1>1, <1>2, FileAddrs, Zenon
<1>3. f.start_block * BlockBytes = base
  BY <1>1, Zenon DEF Agree
<1>4. off \in Nat
  BY <1>1, WriteBounds, Zenon
<1>5. data' = Stored(f, off, n, b)
  BY Zenon DEF Stores
<1> HIDE DEF base, off, f, e
<1>6. ASSUME NEW k \in Nat, k < Capacity(e)
      PROVE  data'[base + k] = IF off <= k /\ k < off + n THEN b ELSE data[base + k]
  <2>1. base + k \in Addrs /\ base \in Nat
    BY <1>2, <1>6, Zenon
  <2>2. data'[base + k] = IF base + off <= base + k /\ base + k < base + off + n
                          THEN b ELSE data[base + k]
    BY <1>3, <1>5, <2>1, Zenon DEF Stored
  <2>3. QED
    BY <1>4, <2>1, <2>2
<1>7. QED
  BY <1>6, Zenon DEF PutsAt, base, off, f, e

(* A file whose bytes of the disk stay keeps its bytes.                    *)
LEMMA SameBytes ==
    ASSUME NEW d, NEW dt, NEW ddt, NEW fs, MapOK(d, fs), NEW i \in UsedSlots(d),
           \A k \in Nat : k < Capacity(d[i]) =>
              ddt[d[i].start_block * BlockBytes + k] = dt[d[i].start_block * BlockBytes + k]
    PROVE  FileIn(d, ddt, fs, i) = FileIn(d, dt, fs, i)
<1> DEFINE L == LengthIn(d, fs, i)
           base == d[i].start_block * BlockBytes
<1>1. L \in Nat /\ L <= Capacity(d[i]) /\ Capacity(d[i]) \in Nat
  BY LengthBounds, Zenon
<1>2. ASSUME NEW k \in 1 .. L PROVE ddt[base + k - 1] = dt[base + k - 1]
  <2>1. k - 1 \in Nat /\ k - 1 < Capacity(d[i])
    BY <1>1
  <2>2. QED
    BY <2>1, Zenon
<1> HIDE DEF L, base
<1>3. [k \in 1 .. L |-> ddt[base + k - 1]] = [k \in 1 .. L |-> dt[base + k - 1]]
  BY <1>2, Zenon
<1>4. QED
  BY <1>3, Zenon DEF FileIn, L, base

(* The abstract request.                                                   *)
LEMMA RunFacts ==
    ASSUME NEW len \in Lens, NEW n \in 1 .. len, NEW b \in Bytes
    PROVE  /\ Run(n, b) \in Runs /\ Len(Run(n, b)) = n
           /\ \A k \in 1 .. n : Run(n, b)[k] = b
<1>1. n \in Nat
  BY InputsAssumption
<1>2. Run(n, b) \in Runs
  BY DEF Runs
<1>3. Len(Run(n, b)) = n /\ \A k \in 1 .. n : Run(n, b)[k] = b
  BY <1>1 DEF Run
<1>4. QED
  BY <1>2, <1>3, Zenon

(* A write that finds no room.                                             *)
LEMMA WriteFailMaps ==
    ASSUME PlainInv, PlainInv', NEW fd \in Fds, NEW len \in Lens, NEW b \in Bytes,
           bmfs_write(fd, len, b), WriteLen(files[fd], len) = 0
    PROVE  fd \in DOMAIN Descriptors /\ Abs!WriteFails(fd)
<1> DEFINE f == files[fd]
           off == WriteOff(f)
           n == WriteLen(f, len)
           size == IF n > 0 /\ off + n > f.size THEN off + n ELSE f.size
           dirty == f.dirty \/ (n > 0 /\ off + n > f.size)
<1>1. /\ files \in [Fds -> File] /\ f \in File /\ f.used /\ data \in [Addrs -> Bytes]
      /\ off \in Nat /\ f.size \in Nat /\ f.dirty \in BOOLEAN
  BY WriteBounds, Zenon DEF PlainInv, AnyInv, TypeOK, bmfs_write, File
<1>2. /\ data' = Stored(f, off, 0, b) /\ ret' = -ENOSPC /\ disk' = disk
      /\ files' = [files EXCEPT ![fd].pos = off, ![fd].size = f.size,
                                ![fd].dirty = f.dirty]
  <2>1. /\ data' = Stored(f, off, n, b) /\ ret' = (IF n = 0 THEN -ENOSPC ELSE n)
        /\ files' = [files EXCEPT ![fd].pos = off + n, ![fd].size = size, ![fd].dirty = dirty]
        /\ disk' = disk
    BY Zenon DEF bmfs_write
  <2>2. n = 0 /\ off + n = off /\ size = f.size /\ dirty = f.dirty
    BY <1>1
  <2> HIDE DEF n, size, dirty
  <2>3. QED
    BY <2>1, <2>2, Zenon
<1>3. f.start_block * BlockBytes \in Nat
  BY <1>1, BlockBytesIsNat, Zenon DEF File
<1> HIDE DEF off
<1>4. data' = data
  <2>1. \A a \in Addrs : a \in Int
    BY BlockBytesIsNat, SizesAssumption DEF Addrs
  <2>2. QED
    BY <1>1, <1>2, <1>3, <2>1 DEF Stored
<1>5. files' = [files EXCEPT ![fd].pos = off]
  <2>1. [f EXCEPT !.pos = off, !.size = f.size, !.dirty = f.dirty] = [f EXCEPT !.pos = off]
    BY <1>1, Zenon DEF File
  <2>2. files' = [files EXCEPT ![fd] = [f EXCEPT !.pos = off, !.size = f.size, !.dirty = f.dirty]]
    BY <1>1, <1>2, Zenon
  <2>3. QED
    BY <1>1, <2>1, <2>2, Zenon
<1>6. UNCHANGED <<Content, Saved>> /\ Descriptors' = [Descriptors EXCEPT ![fd].pos = off]
  BY <1>1, <1>2, <1>4, <1>5, MoveStep, Zenon
<1>7. fd \in DOMAIN Descriptors /\ Abs!Offset(fd) = off
  BY <1>1, SeesOpen, Zenon DEF off
<1>8. QED
  BY <1>2, <1>6, <1>7 DEF Abs!WriteFails, ENOSPC

(* A write that stores bytes.                                              *)
LEMMA WriteMaps ==
    ASSUME PlainInv, PlainInv', NEW fd \in Fds, NEW len \in Lens, NEW b \in Bytes,
           bmfs_write(fd, len, b), WriteLen(files[fd], len) # 0
    PROVE  fd \in DOMAIN Descriptors /\ \E s \in Runs : Abs!Write(fd, s)
<1> DEFINE f == files[fd]
           i == f.dir_index
           m == disk[i].name
           off == WriteOff(f)
           n == WriteLen(f, len)
           size == IF off + n > f.size THEN off + n ELSE f.size
           s == Run(n, b)
<1>1. /\ MapOK(disk, files) /\ MapOK(disk', files') /\ DirOK(disk) /\ AnyInv /\ AnyInv'
      /\ data \in [Addrs -> Bytes] /\ data' \in [Addrs -> Bytes]
      /\ files \in [Fds -> File] /\ f \in File /\ f.used
  BY PlainIsMapOK, Zenon DEF PlainInv, MapOK, bmfs_write
<1>2. len \in Nat /\ f.size \in Nat
  BY <1>1, InputsAssumption, Zenon DEF File
<1>3. off \in Nat /\ n \in Nat /\ n > 0 /\ n <= len
  <2>1. off \in Nat /\ n \in Nat /\ Capacity(f) \in Nat
    BY <1>1, <1>2, WriteBounds, Zenon
  <2>2. n <= len
    BY <1>2, <2>1 DEF WriteLen
  <2>3. QED
    BY <2>1, <2>2
<1>4. /\ disk' = disk /\ ret' = n /\ data' = Stored(f, off, n, b)
      /\ files' = [files EXCEPT ![fd].pos = off + n, ![fd].size = size,
                                ![fd].dirty = f.dirty \/ (n > 0 /\ off + n > f.size)]
  BY <1>1, <1>3, Zenon DEF bmfs_write
<1>5. Stores(fd, len, n, b) /\ PutsAt(fd, n, b)
  <2>1. Stores(fd, len, n, b)
    BY <1>1, <1>3, <1>4 DEF Stores
  <2>2. QED
    BY <1>2, <1>3, <2>1, StoresOwn, Zenon
<1>6. /\ i \in UsedSlots(disk) /\ m \in DOMAIN Content /\ fd \in DOMAIN Descriptors
      /\ Descriptors[fd].name = m /\ Descriptors[fd].append = f.append
      /\ Content[m] = FileIn(disk, data, files, i) /\ Len(Content[m]) = f.size
      /\ LengthIn(disk, files, i) = f.size /\ Abs!Offset(fd) = off
  BY <1>1, SeesOpen, Zenon
<1> HIDE DEF size, off, n
<1>7. /\ files'[fd].used /\ files'[fd].dir_index = i /\ files'[fd].size = size
      /\ files'[fd].pos = off + n /\ files'[fd].append = f.append
      /\ OnlyFd(files, files', fd)
  BY <1>1, <1>4, Zenon DEF File, OnlyFd
<1> HIDE DEF f, i, m, s
<1>8. MapOK(disk, files') /\ LengthIn(disk, files', i) = size
  <2>1. MapOK(disk, files')
    BY <1>1, <1>4, Zenon
  <2>2. Exclusive(files')
    BY <2>1, Zenon DEF MapOK
  <2>3. LengthIn(disk, files', files'[fd].dir_index) = files'[fd].size
    BY <1>7, <2>2, OpenLength, Zenon
  <2>4. QED
    BY <1>7, <2>1, <2>3, Zenon
<1>9. ASSUME NEW j \in UsedSlots(disk), j # i
      PROVE  FileIn(disk, data', files', j) = FileIn(disk, data, files, j)
  <2>1. fd \notin OnSlot(files, j) /\ fd \notin OnSlot(files', j)
    BY <1>7, <1>9, Zenon DEF OnSlot, i, f
  <2>2. FileIn(disk, data', files', j) = FileIn(disk, data', files, j)
    BY <1>7, <2>1, OtherFile
  <2>3. \A k \in Nat : k < Capacity(disk[j]) =>
            data'[disk[j].start_block * BlockBytes + k] = data[disk[j].start_block * BlockBytes + k]
    BY <1>2, <1>3, <1>5, <1>9, StoresOther, Zenon DEF i, f
  <2>4. FileIn(disk, data', files, j) = FileIn(disk, data, files, j)
    BY <1>1, <2>3, SameBytes, ZenonT(30)
  <2>5. QED
    BY <2>2, <2>4, Zenon
<1>10. /\ Content = ContentIn(disk, data, files) /\ Content' = ContentIn(disk, data', files')
       /\ Saved' = Saved
       /\ Descriptors = FdtIn(disk, files) /\ Descriptors' = FdtIn(disk, files')
  BY <1>1, <1>4, MapNow, MapNext, Zenon
<1>11. Content' = [Content EXCEPT ![m] = Content'[m]]
  <2>1. DOMAIN Content = NamesIn(disk) /\ DOMAIN Content' = NamesIn(disk)
    BY <1>10, MapDomains
  <2>2. ASSUME NEW x \in NamesIn(disk), x # m PROVE Content'[x] = Content[x]
    <3>1. PICK j \in UsedSlots(disk) : x = disk[j].name
      BY Zenon DEF NamesIn
    <3>2. j # i
      BY <2>2, <3>1, Zenon DEF m
    <3>3. QED
      BY <1>1, <1>9, <1>10, <3>1, <3>2, MapAt
  <2>3. Content' = [x \in NamesIn(disk) |-> Content'[x]]
    BY <1>10, MapDomains
  <2>4. Content = [x \in NamesIn(disk) |-> Content[x]]
    BY <1>10, MapDomains
  <2>5. QED
    BY <2>1, <2>2, <2>3, <2>4, Zenon
<1>12. Descriptors' = [Descriptors EXCEPT ![fd].pos = off + n]
  <2> DEFINE h == [Descriptors EXCEPT ![fd].pos = off + n]
  <2>1. OpenIn(files') = OpenIn(files) /\ fd \in OpenIn(files)
    BY <1>1, <1>7, Zenon DEF OpenIn, OnlyFd, f
  <2>2. h = [g \in OpenIn(files') |-> h[g]]
    BY <1>10, <2>1, MapDomains, Zenon
  <2>3. ASSUME NEW g \in OpenIn(files') PROVE h[g] = FdIn(disk, files', g)
    <3>1. Descriptors[g] = FdIn(disk, files, g) /\ g \in Fds /\ g \in DOMAIN Descriptors
      <4>1. g \in OpenIn(files) /\ Descriptors = FdtIn(disk, files)
        BY <1>10, <2>1, Zenon
      <4>2. QED
        BY <4>1, Zenon DEF FdtIn, OpenIn
    <3>2. CASE g = fd
      BY <1>7, <3>1, <3>2 DEF FdIn, i, f
    <3>3. CASE g # fd
      BY <1>7, <3>1, <3>3, Zenon DEF FdIn, OnlyFd
    <3>4. QED
      BY <3>2, <3>3, Zenon
  <2> HIDE DEF h
  <2>4. Descriptors' = h
    BY <1>10, <2>2, <2>3, Zenon DEF FdtIn
  <2>5. QED
    BY <2>4, Zenon DEF h
<1>13. /\ s \in Runs /\ Len(s) = n /\ \A k \in 1 .. n : s[k] = b
  BY <1>2, <1>3, RunFacts DEF s
<1>14. Abs!Overlays(Content[m], off, s, Content'[m])
  <2> DEFINE c == Content[m]
             d == Content'[m]
             base == disk[i].start_block * BlockBytes
  <2>1. Content'[m] = FileIn(disk, data', files', i)
    BY <1>1, <1>6, <1>10, MapAt DEF m
  <2>2. /\ d \in Seq(Bytes) /\ Len(d) = size
        /\ \A k \in 1 .. size : d[k] = data'[base + k - 1]
    <3>1. /\ FileIn(disk, data', files', i) \in Seq(Bytes)
          /\ Len(FileIn(disk, data', files', i)) = LengthIn(disk, files', i)
          /\ \A k \in 1 .. LengthIn(disk, files', i) :
                FileIn(disk, data', files', i)[k] = data'[base + k - 1]
      BY <1>1, <1>6, <1>8, FileIsSeq, SMTT(30)
    <3>2. QED
      BY <1>8, <2>1, <3>1, Zenon
  <2>3. \A k \in 1 .. f.size : c[k] = data[base + k - 1]
    BY <1>1, <1>6, FileIsSeq
  <2>4. size \in Nat /\ size <= Capacity(disk[i]) /\ Capacity(disk[i]) \in Nat
    BY <1>1, <1>4, <1>6, <1>8, LengthBounds, SMTT(30)
  <2>5. base \in Nat
    BY <1>1, <1>6, BlockBytesIsNat, Zenon DEF DirOK, UsedSlots, Dirent
  <2>6. ASSUME NEW k \in 1 .. size
        PROVE  data'[base + k - 1] = IF k > off /\ k <= off + n THEN b ELSE data[base + k - 1]
    <3>1. k - 1 \in Nat /\ k - 1 < Capacity(disk[i])
      BY <2>4
    <3>2. data'[base + k - 1] = IF off <= k - 1 /\ k - 1 < off + n THEN b ELSE data[base + k - 1]
      BY <1>5, <3>1, Zenon DEF PutsAt, i, f, off
    <3>3. (off <= k - 1 /\ k - 1 < off + n) <=> (k > off /\ k <= off + n)
      BY <1>3, <2>4
    <3>4. QED
      BY <3>2, <3>3, Zenon
  <2> HIDE DEF c, d, base
  <2>7. Len(c) = f.size /\ size = IF off + n > f.size THEN off + n ELSE f.size
    BY <1>6, Zenon DEF c, size
  <2>8. ASSUME NEW k \in 1 .. size
        PROVE  IF k > off /\ k <= off + n THEN d[k] = s[k - off] ELSE k <= f.size => d[k] = c[k]
    <3>1. k > off /\ k <= off + n => k - off \in 1 .. n
      BY <1>3, <2>4
    <3>2. k <= f.size => k \in 1 .. f.size
      BY <1>2, <2>4
    <3>3. QED
      BY <1>13, <2>2, <2>3, <2>6, <3>1, <3>2, Zenon
  <2>9. QED
    BY <1>13, <2>2, <2>7, <2>8, Zenon DEF Abs!Overlays, c, d
<1>15. Abs!Write(fd, s)
  BY <1>4, <1>6, <1>10, <1>11, <1>12, <1>13, <1>14, Zenon DEF Abs!Write
<1>16. QED
  BY <1>6, <1>13, <1>15, Zenon

-----------------------------------------------------------------------------
(* Stops.                                                                  *)

(* What dt holds of the file in slot i up to its stored length.            *)
StoredFile(d, dt, i) == [k \in 1 .. d[i].size |-> dt[d[i].start_block * BlockBytes + k - 1]]

(* A table with nothing open maps to no descriptor and the stored lengths. *)
LEMMA NothingOpen ==
    ASSUME NEW d, NEW dt, NEW fs, \A fd \in Fds : ~fs[fd].used
    PROVE  /\ FdtIn(d, fs) = << >>
           /\ \A i : LengthIn(d, fs, i) = d[i].size
           /\ \A i : FileIn(d, dt, fs, i) = StoredFile(d, dt, i)
<1>1. OpenIn(fs) = {}
  BY Zenon DEF OpenIn
<1>2. FdtIn(d, fs) = << >>
  BY <1>1 DEF FdtIn
<1>3. \A i : LengthIn(d, fs, i) = d[i].size
  BY Zenon DEF LengthIn, OnSlot
<1>4. \A i : FileIn(d, dt, fs, i) = StoredFile(d, dt, i)
  BY <1>3, Zenon DEF FileIn, StoredFile
<1>5. QED
  BY <1>2, <1>3, <1>4, Zenon

(* What AbsFs says a stop keeps is what the disk holds up to the stored    *)
(* lengths.                                                                *)
LEMMA KeptIs ==
    ASSUME PlainInv
    PROVE  /\ DOMAIN Abs!Kept = NamesIn(disk)
           /\ Abs!Kept = [m \in NamesIn(disk) |-> Abs!Kept[m]]
           /\ \A i \in UsedSlots(disk) : Abs!Kept[disk[i].name] = StoredFile(disk, data, i)
<1>1. MapOK(disk, files) /\ DirOK(disk) /\ data \in [Addrs -> Bytes] /\ AnyInv
  BY PlainIsMapOK, Zenon DEF PlainInv, MapOK
<1>2. Content = ContentIn(disk, data, files) /\ Saved = SavedIn(disk)
  BY <1>1, MapNow, Zenon
<1>3. DOMAIN Content = NamesIn(disk)
  BY <1>2, MapDomains, Zenon
<1>4. Abs!Kept = [m \in NamesIn(disk) |-> SubSeq(Content[m], 1, Saved[m])]
  BY <1>3, Zenon DEF Abs!Kept
<1>5. ASSUME NEW i \in UsedSlots(disk)
      PROVE  SubSeq(Content[disk[i].name], 1, Saved[disk[i].name]) = StoredFile(disk, data, i)
  <2> DEFINE c == FileIn(disk, data, files, i)
             L == LengthIn(disk, files, i)
             z == disk[i].size
             base == disk[i].start_block * BlockBytes
  <2>1. Content[disk[i].name] = c /\ Saved[disk[i].name] = z
    BY <1>1, <1>2, MapAt, Zenon
  <2>2. L \in Nat /\ z \in Nat /\ z <= L
    BY <1>1, LengthBounds, Zenon
  <2>3. c \in Seq(Bytes) /\ Len(c) = L /\ \A k \in 1 .. L : c[k] = data[base + k - 1]
    BY <1>1, FileIsSeq
  <2> HIDE DEF c, L, z, base
  <2>4. SubSeq(c, 1, z) = [k \in 1 .. z |-> c[k]]
    BY <2>2, <2>3
  <2>5. \A k \in 1 .. z : c[k] = data[base + k - 1]
    BY <2>2, <2>3
  <2>6. SubSeq(c, 1, z) = [k \in 1 .. z |-> data[base + k - 1]]
    BY <2>4, <2>5, Zenon
  <2>7. QED
    BY <2>1, <2>6, Zenon DEF StoredFile, z, base
<1>6. \A i \in UsedSlots(disk) : disk[i].name \in NamesIn(disk)
  BY Zenon DEF NamesIn
<1>7. QED
  BY <1>4, <1>5, <1>6, Zenon

(* After a stop.                                                           *)
LEMMA AfterStop ==
    ASSUME PlainInv, PlainInv', Reboot
    PROVE  /\ Descriptors' = << >> /\ Saved' = Saved /\ ret' = 0
           /\ Content' = ContentIn(disk, data', files')
           /\ \A i \in UsedSlots(disk) :
                 FileIn(disk, data', files', i) = StoredFile(disk, data', i)
<1>1. AnyInv /\ AnyInv' /\ disk' = disk /\ ret' = 0 /\ \A fd \in Fds : ~files'[fd].used
  BY NoFileIsFile, Zenon DEF PlainInv, Reboot
<1>2. /\ Saved = SavedIn(disk) /\ Saved' = SavedIn(disk)
      /\ Content' = ContentIn(disk, data', files') /\ Descriptors' = FdtIn(disk, files')
  BY <1>1, MapNow, MapNext, Zenon
<1>3. /\ FdtIn(disk, files') = << >>
      /\ \A i : FileIn(disk, data', files', i) = StoredFile(disk, data', i)
  BY <1>1, NothingOpen, Zenon
<1>4. QED
  BY <1>1, <1>2, <1>3, Zenon

(* A stop between two calls.                                               *)
LEMMA ExitMaps ==
    ASSUME PlainInv, PlainInv', Exit
    PROVE  Abs!Stop
<1>1. Reboot /\ data' = data /\ DirOK(disk)
  BY PlainIsMapOK, Zenon DEF Exit, MapOK
<1>2. /\ Descriptors' = << >> /\ Saved' = Saved /\ ret' = 0
      /\ Content' = ContentIn(disk, data, files')
      /\ \A i \in UsedSlots(disk) : FileIn(disk, data, files', i) = StoredFile(disk, data, i)
  BY <1>1, AfterStop, Zenon
<1> DEFINE h == Abs!Kept
<1>3. /\ h = [m \in NamesIn(disk) |-> h[m]]
      /\ \A i \in UsedSlots(disk) : h[disk[i].name] = StoredFile(disk, data, i)
  BY KeptIs, Zenon
<1> HIDE DEF h
<1>4. \A i \in UsedSlots(disk) : h[disk[i].name] = FileIn(disk, data, files', i)
  BY <1>2, <1>3, Zenon
<1>5. ContentIn(disk, data, files') = h
  BY <1>1, <1>3, <1>4, ContentIs
<1>6. QED
  BY <1>2, <1>5, Zenon DEF Abs!Stop, h

(* A stop inside the sector loop of a write.                               *)
LEMMA StopMaps ==
    ASSUME PlainInv, PlainInv', NEW fd \in Fds, NEW len \in Lens, NEW b \in Bytes,
           StopInWrite(fd, len, b)
    PROVE  Abs!Stop
<1> DEFINE f == files[fd]
           i == f.dir_index
           m == disk[i].name
           off == WriteOff(f)
           z == disk[i].size
           base == disk[i].start_block * BlockBytes
<1>1. /\ Reboot /\ DirOK(disk) /\ MapOK(disk, files) /\ f.used /\ f \in File
      /\ len \in Nat /\ WriteLen(f, len) \in Nat /\ off \in Nat
  <2>1. Reboot /\ DirOK(disk) /\ MapOK(disk, files) /\ f.used /\ f \in File
    BY PlainIsMapOK, Zenon DEF StopInWrite, MapOK
  <2>2. len \in Nat
    BY InputsAssumption, Zenon
  <2>3. QED
    BY <2>1, <2>2, WriteBounds, Zenon
<1>2. PICK n \in 1 .. WriteLen(f, len) - 1 : data' = Stored(f, off, n, b)
  BY Zenon DEF StopInWrite
<1>3. n \in Nat /\ n \in 1 .. len /\ n \in 0 .. WriteLen(f, len)
  <2>1. Capacity(f) \in Nat
    BY <1>1, WriteBounds, Zenon
  <2>2. WriteLen(f, len) <= len
    BY <1>1, <2>1 DEF WriteLen
  <2>3. QED
    BY <1>1, <1>2, <2>2
<1>4. Stores(fd, len, n, b) /\ PutsAt(fd, n, b)
  <2>1. Stores(fd, len, n, b)
    BY <1>1, <1>2, <1>3, Zenon DEF Stores
  <2>2. QED
    BY <1>1, <1>3, <2>1, StoresOwn, Zenon
<1> DEFINE s == Run(n, b)
<1>5. s \in Runs /\ Len(s) = n /\ \A k \in 1 .. n : s[k] = b
  BY <1>3, RunFacts, Zenon
<1>6. /\ i \in UsedSlots(disk) /\ fd \in DOMAIN Descriptors /\ Descriptors[fd].name = m
      /\ Abs!Offset(fd) = off
  BY <1>1, SeesOpen, Zenon
<1>7. /\ Descriptors' = << >> /\ Saved' = Saved /\ ret' = 0
      /\ Content' = ContentIn(disk, data', files')
      /\ \A j \in UsedSlots(disk) : FileIn(disk, data', files', j) = StoredFile(disk, data', j)
  BY <1>1, AfterStop, Zenon
<1> DEFINE kept == Abs!Kept
<1>8. /\ DOMAIN kept = NamesIn(disk) /\ kept = [x \in NamesIn(disk) |-> kept[x]]
      /\ \A j \in UsedSlots(disk) : kept[disk[j].name] = StoredFile(disk, data, j)
  BY KeptIs, Zenon
<1>9. /\ z \in Nat /\ z <= Capacity(disk[i]) /\ Capacity(disk[i]) \in Nat /\ base \in Nat
  <2>1. z \in Nat /\ z <= Capacity(disk[i]) /\ Capacity(disk[i]) \in Nat
    BY <1>1, <1>6, LengthBounds, SMTT(30)
  <2>2. base \in Nat
    BY <1>1, <1>6, BlockBytesIsNat, Zenon DEF DirOK, UsedSlots, Dirent
  <2>3. QED
    BY <2>1, <2>2, Zenon
<1>10. ASSUME NEW j \in UsedSlots(disk), j # i
       PROVE  StoredFile(disk, data', j) = StoredFile(disk, data, j)
  <2> DEFINE y == disk[j].size
             from == disk[j].start_block * BlockBytes
  <2>1. /\ y \in Nat /\ y <= Capacity(disk[j]) /\ Capacity(disk[j]) \in Nat
    BY <1>1, LengthBounds
  <2>2. from \in Nat
    BY <1>1, BlockBytesIsNat, Zenon DEF DirOK, UsedSlots, Dirent
  <2>3. ASSUME NEW k \in 1 .. y PROVE data'[from + k - 1] = data[from + k - 1]
    <3>1. k - 1 \in Nat /\ k - 1 < Capacity(disk[j])
      BY <2>1
    <3>2. QED
      BY <1>1, <1>3, <1>4, <1>10, <3>1, StoresOther, Zenon
  <2> HIDE DEF y, from
  <2>4. [k \in 1 .. y |-> data'[from + k - 1]] = [k \in 1 .. y |-> data[from + k - 1]]
    BY <2>3, Zenon
  <2>5. QED
    BY <2>4, Zenon DEF StoredFile, y, from
<1>11. StoredFile(disk, data', i) = Abs!Replaced(StoredFile(disk, data, i), off, s)
  <2> DEFINE c == StoredFile(disk, data, i)
  <2>1. c = [k \in 1 .. z |-> data[base + k - 1]]
    BY Zenon DEF StoredFile
  <2>2. ASSUME NEW k \in 1 .. z
        PROVE  data'[base + k - 1] = IF k > off /\ k <= off + n THEN b ELSE data[base + k - 1]
    <3>1. k - 1 \in Nat /\ k - 1 < Capacity(disk[i])
      BY <1>9
    <3>2. data'[base + k - 1] = IF off <= k - 1 /\ k - 1 < off + n THEN b ELSE data[base + k - 1]
      BY <1>4, <3>1, ZenonT(30) DEF PutsAt
    <3>3. (off <= k - 1 /\ k - 1 < off + n) <=> (k > off /\ k <= off + n)
      BY <1>1, <1>3, <1>9
    <3>4. QED
      BY <3>2, <3>3, ZenonT(30)
  <2>3. StoredFile(disk, data', i) = [k \in 1 .. z |-> data'[base + k - 1]]
    BY Zenon DEF StoredFile
  <2> HIDE DEF c, s, z, base, off
  <2>4. Len(c) = z /\ \A k \in 1 .. z : c[k] = data[base + k - 1]
    BY <1>9, <2>1
  <2>5. ASSUME NEW k \in 1 .. z
        PROVE  data'[base + k - 1] = IF k > off /\ k <= off + n THEN s[k - off] ELSE c[k]
    <3>1. k > off /\ k <= off + n => k - off \in 1 .. n
      BY <1>1, <1>3, <1>9
    <3>2. QED
      BY <1>5, <2>2, <2>4, <3>1, ZenonT(30)
  <2>6. Abs!Replaced(c, off, s)
           = [k \in 1 .. z |-> IF k > off /\ k <= off + n THEN s[k - off] ELSE c[k]]
    BY <1>5, <2>4, Zenon DEF Abs!Replaced
  <2>7. QED
    BY <2>3, <2>5, <2>6, Zenon DEF c
<1> DEFINE h == [kept EXCEPT ![m] = Abs!Replaced(@, off, s)]
<1> HIDE DEF kept, s, off
<1>12. h = [x \in NamesIn(disk) |-> h[x]]
  BY <1>8, Zenon
<1>13. ASSUME NEW j \in UsedSlots(disk) PROVE h[disk[j].name] = FileIn(disk, data', files', j)
  <2>1. disk[j].name \in NamesIn(disk) /\ kept[disk[j].name] = StoredFile(disk, data, j)
    BY <1>8, ZenonT(30) DEF NamesIn
  <2>2. CASE j = i
    BY <1>7, <1>8, <1>11, <2>1, <2>2, Zenon
  <2>3. CASE j # i
    <3>1. disk[j].name # m
      BY <1>1, <1>6, <2>3, Zenon DEF DirOK, UniqueNames
    <3>2. QED
      BY <1>7, <1>8, <1>10, <2>1, <2>3, <3>1, SMTT(30)
  <2>4. QED
    BY <2>2, <2>3, Zenon
<1> HIDE DEF h
<1>14. Content' = h
  <2>1. DirOK(disk)
    BY <1>1, Zenon
  <2>2. ContentIn(disk, data', files') = h
    BY <1>12, <1>13, <2>1, ContentIs, SMTT(30)
  <2>3. QED
    BY <1>7, <2>2, Zenon
<1>15. Content' = [Abs!Kept EXCEPT ![Descriptors[fd].name] = Abs!Replaced(@, Abs!Offset(fd), s)]
  BY <1>6, <1>14, Zenon DEF h, kept
<1>16. QED
  BY <1>5, <1>6, <1>7, <1>15, Zenon DEF Abs!Stop

-----------------------------------------------------------------------------
(* The initial image maps to an initial state of AbsFs.                    *)
LEMMA InitMaps == Init => Abs!Init
<1> SUFFICES ASSUME Init PROVE Abs!Init
  BY Zenon
<1>1. /\ PlainInv /\ AnyInv /\ MapOK(disk, files) /\ DirOK(disk) /\ data \in [Addrs -> Bytes]
  BY PlainInit, PlainIsMapOK, Zenon DEF PlainInv, MapOK
<1>2. /\ Content = ContentIn(disk, data, files) /\ Saved = SavedIn(disk)
      /\ Descriptors = FdtIn(disk, files)
  BY <1>1, MapNow, Zenon
<1>3. ret = 0 /\ \A fd \in Fds : ~files[fd].used
  BY NoFileIsFile, Zenon DEF Init
<1>4. Descriptors = << >> /\ \A i : LengthIn(disk, files, i) = disk[i].size
  BY <1>2, <1>3, NothingOpen, Zenon
<1>5. DOMAIN Content = NamesIn(disk)
  BY <1>2, MapDomains
<1>6. ASSUME NEW n \in NamesIn(disk)
      PROVE  n \in Names /\ Content[n] \in Seq(Bytes) /\ Saved[n] = Len(Content[n])
  <2>1. PICK i \in UsedSlots(disk) : n = disk[i].name
    BY Zenon DEF NamesIn
  <2>2. n \in Names /\ Content[n] = FileIn(disk, data, files, i) /\ Saved[n] = disk[i].size
    BY <1>1, <1>2, <2>1, FindsOwnSlot, MapAt, Zenon
  <2>3. /\ FileIn(disk, data, files, i) \in Seq(Bytes)
        /\ Len(FileIn(disk, data, files, i)) = LengthIn(disk, files, i)
    BY <1>1, FileIsSeq, Zenon
  <2>4. QED
    BY <1>4, <2>2, <2>3, Zenon
<1>7. Saved = [n \in DOMAIN Content |-> Len(Content[n])]
  <2>1. Saved = [n \in NamesIn(disk) |-> Saved[n]]
    BY <1>2, MapDomains, Zenon
  <2>2. QED
    BY <1>5, <1>6, <2>1, Zenon
<1>8. QED
  BY <1>3, <1>4, <1>5, <1>6, <1>7, Zenon DEF Abs!Init

(* Every step of bmfs_open is a step of AbsFs.                             *)
LEMMA AnyOpenMaps ==
    ASSUME PlainInv, PlainInv', PlainClient, bmfs_open
    PROVE  \/ Abs!Fail
           \/ \E n \in Names, append \in BOOLEAN :
                Abs!Open(n, append) \/ Abs!Create(n, append) \/ Abs!Truncate(n, append)
<1>0. AnyInv /\ AnyInv'
  BY Zenon DEF PlainInv
<1>1. CASE OpenBadPath
  BY <1>0, <1>1, FailMaps DEF OpenBadPath, ENOENT
<1>2. ASSUME NEW name \in Names, NEW flags \in Flags, OpenFails(name, flags)
      PROVE  Abs!Fail
  <2>1. OpenError(name, flags) \in Nat /\ OpenError(name, flags) # 0
    BY <1>2, OpenErrorCases, Zenon DEF OpenFails
  <2>2. ret' < 0 /\ UNCHANGED <<disk, data, files>>
    BY <1>2, <2>1 DEF OpenFails
  <2>3. QED
    BY <1>0, <2>2, FailMaps, Zenon
<1>3. ASSUME NEW name \in Names, NEW flags \in Flags, OpenCreates(name, flags)
      PROVE  Abs!Create(name, "APPEND" \in flags)
  BY <1>3, CreateMaps, Zenon
<1>4. ASSUME NEW name \in Names, NEW flags \in Flags, OpenExisting(name, flags)
      PROVE  Abs!Open(name, "APPEND" \in flags) \/ Abs!Truncate(name, "APPEND" \in flags)
  BY <1>4, OpenMaps, Zenon
<1>5. \A flags \in Flags : ("APPEND" \in flags) \in BOOLEAN
  OBVIOUS
<1>6. QED
  BY <1>1, <1>2, <1>3, <1>4, <1>5, Zenon DEF bmfs_open

(* Every step of a plain client's program is a step of AbsFs, or changes   *)
(* nothing AbsFs sees.                                                     *)
LEMMA StepMaps ==
    ASSUME PlainInv, PlainInv', PlainClient, [Next]_vars
    PROVE  [Abs!Next]_(Abs!avars)
<1>0. AnyInv /\ AnyInv'
  BY Zenon DEF PlainInv
<1>1. CASE bmfs_open
  BY <1>1, AnyOpenMaps, Zenon DEF Abs!Next
<1>2. ASSUME NEW fd \in Fds, NEW len \in Lens, bmfs_read(fd, len)
      PROVE  Abs!Next
  BY <1>2, ReadMaps, Zenon DEF Abs!Next
<1>3. ASSUME NEW fd \in Fds, NEW len \in Lens, NEW b \in Bytes, bmfs_write(fd, len, b)
      PROVE  Abs!Next
  BY <1>3, WriteMaps, WriteFailMaps, Zenon DEF Abs!Next
<1>4. ASSUME NEW fd \in Fds, NEW offset \in Offsets, NEW whence \in 0 .. 3,
             bmfs_lseek(fd, offset, whence)
      PROVE  Abs!Next
  BY <1>4, LseekMaps, Zenon DEF Abs!Next
<1>5. ASSUME NEW fd \in Fds, bmfs_close(fd)
      PROVE  Abs!Next
  BY <1>5, CloseMaps, Zenon DEF Abs!Next
<1>6. ASSUME NEW fd \in Fds, bmfs_fstat_fd(fd)
      PROVE  Abs!Next
  BY <1>6, FstatMaps, Zenon DEF Abs!Next
<1>7. ASSUME NEW name, bmfs_fstatat(name)
      PROVE  Abs!Next
  BY <1>7, FstatatMaps, Zenon DEF Abs!Next
<1>8. ASSUME NEW name, bmfs_unlink(name)
      PROVE  Abs!Next
  BY <1>8, UnlinkMaps, Zenon DEF Abs!Next
<1>9. CASE Exit
  BY <1>9, ExitMaps, Zenon DEF Abs!Next
<1>10. ASSUME NEW fd \in Fds, NEW len \in Lens, NEW b \in Bytes, StopInWrite(fd, len, b)
       PROVE  Abs!Next
  BY <1>10, StopMaps, Zenon DEF Abs!Next
<1>11. CASE UNCHANGED vars
  <2>1. UNCHANGED <<disk, data, files>> /\ ret' = ret
    BY <1>11, Zenon DEF vars
  <2>2. UNCHANGED <<Content, Saved, Descriptors>>
    BY <1>0, <2>1, SameMaps, Zenon
  <2>3. QED
    BY <2>1, <2>2, Zenon DEF Abs!avars
<1>12. QED
  BY <1>1, <1>2, <1>3, <1>4, <1>5, <1>6, <1>7, <1>8, <1>9, <1>10, <1>11, Zenon DEF Next

(* For every plain client bmfs.c implements AbsFs: with its directory, its *)
(* cache of it, its extents and its copies in open files, and wherever the *)
(* machine stops, the calls do to the files what AbsFs says.               *)
THEOREM BmfsImplementsAbsFs == ASSUME PlainClient PROVE Spec => ImplementsAbsFs
<1>1. PlainInv /\ PlainInv' /\ [Next]_vars => [Abs!Next]_(Abs!avars)
  BY StepMaps, Zenon
<1>2. QED
  BY PlainInvHolds, InitMaps, <1>1, PTL DEF Spec, ImplementsAbsFs, Abs!Spec
=============================================================================
