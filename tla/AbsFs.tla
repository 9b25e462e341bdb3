------------------------------- MODULE AbsFs --------------------------------
(***************************************************************************)
(* What the file calls promise a program: a map from names to sequences of *)
(* bytes, descriptors with a position, and for each file the length that a *)
(* stop of the machine leaves (the one stored by the last close or         *)
(* O_TRUNC).  A file that was created outlives a stop before its close, at *)
(* length 0: open stores the new entry, whatever bmfs.c:27 says of close.  *)
(* No directory, block, sector or cache.  The numbers of the descriptors,  *)
(* the reason of an error and how much of a write fits are left open, and  *)
(* so are the bytes of a gap: a write past the end of a file does not      *)
(* clear what lies between.  A call that fails changes nothing the program *)
(* can see of any file.                                                    *)
(***************************************************************************)
EXTENDS Integers, Sequences

CONSTANTS Names, Fds, FdBase, Bytes,
          Lens,       \* the lengths of one read
          Writable    \* the byte strings one call can write

VARIABLES
    content,    \* name of an existing file -> its bytes
    saved,      \* name of an existing file -> the length a stop leaves
    fdt,        \* descriptor -> [name, pos, append], for those open
    ret

avars == <<content, saved, fdt, ret>>

With(f, x, v) == [y \in DOMAIN f \cup {x} |-> IF y = x THEN v ELSE f[y]]
Without(f, x) == [y \in DOMAIN f \ {x} |-> f[y]]

(* c with s put at offset off, where both have bytes.                      *)
Replaced(c, off, s) ==
    [k \in 1 .. Len(c) |-> IF k > off /\ k <= off + Len(s) THEN s[k - off] ELSE c[k]]

(* c becomes d when s is put at offset off: longer when s reaches past the *)
(* end of c, with any bytes between that end and off.                      *)
Overlays(c, off, s, d) ==
    /\ d \in Seq(Bytes)
    /\ Len(d) = IF off + Len(s) > Len(c) THEN off + Len(s) ELSE Len(c)
    /\ \A k \in 1 .. Len(d) :
          IF k > off /\ k <= off + Len(s) THEN d[k] = s[k - off]
          ELSE k <= Len(c) => d[k] = c[k]

Init ==
    /\ DOMAIN content \subseteq Names
    /\ \A n \in DOMAIN content : content[n] \in Seq(Bytes)
    /\ saved = [n \in DOMAIN content |-> Len(content[n])]
    /\ fdt = << >>
    /\ ret = 0

Bind(n, c, append) ==
    \E fd \in Fds \ DOMAIN fdt :
        /\ ret' = FdBase + fd
        /\ fdt' = With(fdt, fd, [name |-> n, append |-> append,
                                 pos |-> IF append THEN Len(c) ELSE 0])

Create(n, append) ==
    /\ Bind(n, << >>, append)
    /\ n \notin DOMAIN content
    /\ content' = With(content, n, << >>)
    /\ saved' = With(saved, n, 0)

Open(n, append) ==
    /\ n \in DOMAIN content
    /\ Bind(n, content[n], append)
    /\ UNCHANGED <<content, saved>>

Truncate(n, append) ==
    /\ Bind(n, << >>, append)
    /\ n \in DOMAIN content
    /\ content' = [content EXCEPT ![n] = << >>]
    /\ saved' = [saved EXCEPT ![n] = 0]

Fail == ret' < 0 /\ UNCHANGED <<content, saved, fdt>>

(* All of the request, or what is left before the end of the file.         *)
Read(fd, len) ==
    LET left == Len(content[fdt[fd].name]) - fdt[fd].pos
    IN  /\ ret' = IF left <= 0 THEN 0 ELSE IF len > left THEN left ELSE len
        /\ fdt' = [fdt EXCEPT ![fd].pos = @ + ret']
        /\ UNCHANGED <<content, saved>>

(* A write lands at the position, or at the end of the file for O_APPEND.  *)
Offset(fd) == IF fdt[fd].append THEN Len(content[fdt[fd].name]) ELSE fdt[fd].pos

Write(fd, s) ==
    LET n == fdt[fd].name
    IN  /\ ret' = Len(s)
        /\ fdt' = [fdt EXCEPT ![fd].pos = Offset(fd) + Len(s)]
        /\ content' = [content EXCEPT ![n] = content'[n]]
        /\ Overlays(content[n], Offset(fd), s, content'[n])
        /\ UNCHANGED saved

(* A write that fails still moves an O_APPEND descriptor to the end.       *)
WriteFails(fd) ==
    /\ ret' < 0
    /\ fdt' = [fdt EXCEPT ![fd].pos = Offset(fd)]
    /\ UNCHANGED <<content, saved>>

Seek(fd) ==
    /\ ret' \in Nat
    /\ fdt' = [fdt EXCEPT ![fd].pos = ret']
    /\ UNCHANGED <<content, saved>>

Close(fd) ==
    LET n == fdt[fd].name
    IN  /\ ret' = 0
        /\ fdt' = Without(fdt, fd)
        /\ saved' = [saved EXCEPT ![n] = Len(content[n])]
        /\ UNCHANGED content

(* fstat knows the current length, stat by name only the stored one.       *)
Stat ==
    /\ UNCHANGED fdt
    /\ \/ \E fd \in DOMAIN fdt : ret' = Len(content[fdt[fd].name])
       \/ \E n \in DOMAIN content : ret' = saved[n]
    /\ UNCHANGED <<content, saved>>

Unlink(n) ==
    /\ n \in DOMAIN content
    /\ \A fd \in DOMAIN fdt : fdt[fd].name # n
    /\ ret' = 0
    /\ content' = Without(content, n)
    /\ saved' = Without(saved, n)
    /\ UNCHANGED fdt

(* A stop cuts every file to its stored length; a write under way may have *)
(* replaced bytes below that length.                                       *)
Kept == [n \in DOMAIN content |-> SubSeq(content[n], 1, saved[n])]

Stop ==
    /\ fdt' = << >>
    /\ ret' = 0
    /\ \/ content' = Kept
       \/ \E fd \in DOMAIN fdt, s \in Writable :
            content' = [Kept EXCEPT ![fdt[fd].name] = Replaced(@, Offset(fd), s)]
    /\ UNCHANGED saved

Next ==
    \/ Fail \/ Stat \/ Stop
    \/ \E fd \in DOMAIN fdt :
         \/ \E len \in Lens : Read(fd, len)
         \/ WriteFails(fd) \/ Seek(fd) \/ Close(fd)
         \/ \E s \in Writable : Write(fd, s)
    \/ \E n \in Names : Unlink(n)
    \/ \E n \in Names, append \in BOOLEAN :
         Open(n, append) \/ Create(n, append) \/ Truncate(n, append)

Spec == Init /\ [][Next]_avars

=============================================================================
