--------------------------- MODULE BmfsRefinement ---------------------------
(***************************************************************************)
(* Bmfs implements AbsFs, for a program that is a PlainClient: a file's    *)
(* bytes are those of its extent, up to the length of the descriptor open  *)
(* on it or else of its directory entry.                                   *)
(***************************************************************************)
EXTENDS Bmfs, Sequences

(* The directory is the one on disk, of which dir[] is a cache.            *)
Existing == {disk[i].name : i \in UsedSlots(disk)}
SlotOf(n) == CHOOSE i \in Slots : disk[i].name = n

Length(i) == IF OpenOn(i) = {} THEN disk[i].size
             ELSE files[CHOOSE fd \in OpenOn(i) : TRUE].size

Content == [n \in Existing |->
    LET i == SlotOf(n)
    IN  [k \in 1 .. Length(i) |-> data[disk[i].start_block * BlockBytes + k - 1]]]
Saved == [n \in Existing |-> disk[SlotOf(n)].size]
Descriptors == [fd \in Fds \ FreeFds |->
    [name |-> disk[files[fd].dir_index].name,
     pos |-> files[fd].pos, append |-> files[fd].append]]

(* What one call can write: one byte b throughout, all of a request of     *)
(* some length or the first bytes of it.                                   *)
Run(n, b) == [k \in 1 .. n |-> b]
Runs == {Run(n, b) : n \in UNION {1 .. len : len \in Lens}, b \in Bytes}

Abs == INSTANCE AbsFs WITH
    content <- Content, saved <- Saved, fdt <- Descriptors, Writable <- Runs

(* Every call of bmfs.c, and every stop of the machine between calls or    *)
(* inside a write, does to the files what AbsFs says and nothing else.     *)
ImplementsAbsFs == Abs!Spec
=============================================================================
