# A TLA+ model of the BareMetal application port kit

The repository ports musl libc to the BareMetal exokernel: an application is a
flat binary in ring 0, `musl` calls a C dispatcher instead of trapping, and
behind the dispatcher are a file layer on raw sectors (`src/app/bmfs.c`), a heap
on one bump pointer (`src/app/posix_shim.c`) and blocking TCP sockets on lwIP's
callbacks (`src/app/net_shim.c`, `src/app/net_glue.c`). There is one process, one
thread and no interrupts; what makes the code hard is state kept in several
copies, calls in orders nobody tried, stops of the machine, and callbacks that
run inside a blocking call.

## Inventory

| Part | State | Operations | What makes it hard |
| --- | --- | --- | --- |
| File layer, `bmfs.c` | directory sector, its RAM copy, open-file table, blocks | open, read, write, lseek, close, fstat, stat, unlink | three copies of a length; writes clamped to an extent; stops before close or inside a write |
| Heap, `posix_shim.c:29-108` | `heap_cur`, `heap_end` | brk, mmap, munmap | brk and mmap share one pointer; wrap of the address |
| musl's allocator on it, `mallocng/` | `ctx.brk`, record pages, groups | alloc_meta, alloc_group, malloc, free | remembers a break while mmap moves the same pointer |
| Sockets, `net_shim.c` | `socks[]`, accept queues, receive chains | socket, bind, listen, accept, connect, send, recv, close, four callbacks | resets between callback and call, timeouts, reuse of slots |
| Network glue, `net_glue.c` | netif, clock | net_init, net_poll, net_wait_ready | a drain loop with no bound; wrap of the clock |
| Dispatcher, `posix_shim.c:110-458` | descriptor spaces, console | read, write, readv, writev, close, fstat, ... | partial results of vectored calls |
| Start-up, `crt0.c` | entropy buffer | `_start_c`, `fill_random` | a retry loop on a flag of which one byte is written |
| Clocks, `posix_shim.c:364-386` | none | clock_gettime | conversion of a counter |

The parts meet in the dispatcher: one descriptor number space serves console
(0-2), files (3-10) and sockets (100-115), and musl's allocator uses the brk and
mmap of the heap. `PROJECT.json` lists every part, the hazards with the line
where each bites, and the lines every definition models.

## Modules

| Module | Models |
| --- | --- |
| `Bmfs` | `bmfs.c`, whole |
| `AbsFs`, `BmfsRefinement` | what the file calls promise, and the mapping of `Bmfs` to it |
| `Heap` | brk, mmap, munmap |
| `MallocHeap` | `Heap` used by musl's allocator |
| `NetGlue` | the poll loop, the receive ring and the clock of `net_glue.c` |
| `NetShim` | `net_shim.c` on lwIP's callbacks, with `NetGlue` |
| `PosixShim` | read, write, readv and writev of `posix_shim.c` on sockets and the console, on top of `NetShim` |
| `MCBmfs`, `MCBmfsRefinement`, `MCHeap`, `MCMallocHeap`, `MCNetShim`, `MCPosixShim` | instances for TLC |
| `NetInv` | the inductive invariants of the socket layer |
| `BmfsProofs`, `BmfsMapProofs`, `BmfsRefinementProofs`, `HeapProofs`, `NetTableProofs`, `NetStepProofs`, `NetCallProofs`, `NetShimProofs` | theorems and their lemmas |

### Bmfs

`disk` is the directory sector on disk and `data` the bytes of the blocks;
`dir`, `dir_loaded` and `files` are the static variables of `bmfs.c`; `ret` is
what the caller learns. There is one action per call. `bmfs_open` is split by
outcome: a refused path, an error, a new entry, an existing entry. `OpenError`
gives the first of the code's tests that fails. A loop over the table that takes
the first match is `Min` of the matching indices. Names stand for what
`bmfs_name` leaves of a path. The sector loops of `bmfs_pread` and `bmfs_pwrite`
are one step on bytes, except that a stop may fall after any whole sector of a
write (`StopInWrite`). `Exit` is a stop between two calls: all RAM is lost.

`dir_flush` is part of open with a new entry or O_TRUNC, of unlink and of close,
so a stop finds every entry as the last call left it and loses only the lengths
that open descriptors have not yet stored. `CacheCoherent` and `AbsFs` say this.
`OPENISSUES.md:84-87` and the comment at `bmfs.c:27` say instead that only close
flushes and that a new entry is lost without it; `OnlyCloseFlushes` is that
sentence, and the run `bmfs_flush_on_close` shows it violated.

`Client` says what the program does beyond plain use: `"share"` opens a file it
has open, `"unlink_open"` unlinks a file it has open, `"sparse"` moves past the
end of a file. The code allows all three and keeps no state about them; some
promises need their absence. The initial image is one the `bmfs` host tool lays
out (`GoodImage`), any such image.

### AbsFs and BmfsRefinement

`AbsFs` is a map from names to byte strings with descriptors and, for each file,
the length that a stop leaves. It leaves open which descriptor is free, why a call
fails, how much of a write fits, and the bytes of a gap: a write past the end of
a file does not clear what lies between, in the code either. `BmfsRefinement`
reads a file's bytes from its extent up to the length of its descriptor, or of
its entry when it is not open; entries are those on disk, of which `dir[]` is a
cache. The mapping is one for a plain client: without `"share"` a file has one
descriptor, and so one length. A created file survives a stop at length 0.

### Heap and MallocHeap

Addresses are `0 .. Wrap - 1`. `maps` and `taken` are history: the bytes each
successful mmap gave the program, and the mappings into which the program has
since lowered the break. `Exhausted` is the test of `heap_alloc`; where its second
half is undefined (the sum wraps) the model allows both the comparison of the
wrapped sum and the sign test that gcc emits with the flags of `build-app.sh`.

`MallocHeap` adds `ctx`, musl's `struct malloc_context`, as far as it decides
where memory comes from: the first record page is taken with brk (and a guard
page is mapped with MAP_FIXED, which the port ignores and serves by bumping),
later ones with brk at the remembered address, or with mmap once brk has failed.
`meta_alloc_n` is `2UL << meta_alloc_shift`. Groups in pages of their own, groups
inside a slot of another group, and large allocations are actions; size classes
and slots are not.

### NetGlue and NetShim

There is one thread, so a state is either between two calls of the program
(`poll = "out"`) or between two events of the net_poll that the call in progress
has made. `socks` is `socks[]`; `call` is the call in progress with its `start`;
`pcbs` is what lwIP keeps of each connection. A blocking call is an action up to
its first net_poll (`net_shim_accept`, `net_shim_connect`, ...), then one
`AfterPoll` for each turn of its loop: the test of the clock that follows
net_poll, then the head of the loop again (`AcceptHead`, `ConnectHead`,
`RecvHead`, `SendHead`), which returns or polls once more. The callbacks
`on_recv`, `on_err`, `on_connected` and `on_accept` are parts of the `Rx...`
actions and of `TimerDrop`, which happen only inside net_poll. `held` (the
sockets the program has), `lost` (connections left behind by a closed listener),
`dlv` and `got` (bytes delivered and read) and `waited` are history.

lwIP is environment, modelled from the vendored source as far as `net_shim.c`
can see it: a connection in SYN_RCVD has the argument of its listener; a refused
accept aborts the pcb without a callback; closing a listener clears the
`listener` of its half-open connections; tcp_close sends a reset and frees the
pcb when unread data is left, and otherwise leaves it closing without callbacks;
tcp_close of these pcbs returns ERR_OK, so the tcp_abort of `net_shim.c:385` is
not reached; tcp_alloc may take over a closing pcb; tcp_bind, tcp_connect and
tcp_listen want a closed pcb. Any frame may be for any pcb. The program uses only
descriptors it has, and does not send or connect on a listening socket, where
lwIP's own assertions fail.

### PosixShim

`vec` is a vectored call in progress with the locals of its loop, `vret` its
result, `moved` the bytes its pieces have moved (history). A piece on a socket is
a call of `NetShim` and may wait there; a step of `NetShim` inside a piece ends
the piece, the call, or neither (`AfterCall`). A plain read or write is a vectored
call with one piece. On the console a read waits for a first key and takes what
is there, a write puts out everything, and a read from an output or a write to the
input is refused with -EBADF (`ConsoleRefuses`).

## Runs

| Run | Result | Shows |
| --- | --- | --- |
| `bmfs_any_client` | holds | `TypeOK`, `Layout`, `CacheCoherent` for every program |
| `bmfs_plain_client` | holds | `SizeFits`, `FdCurrent`, `WriteIsolation`, `AppendOnly`, `LengthKept`, and that `Bmfs` implements `AbsFs`, for a plain client, gaps included |
| `bmfs_flush_on_close` | violated | open and unlink write the directory sector too, not only close |
| `bmfs_append_shared` | violated | with two descriptors on one file an O_APPEND write is not at the end of the file |
| `heap_arena` | holds | `TypeOK`, `WithinArena`, `MapsDisjoint`, the break moved at will |
| `malloc_one_meta_page` | holds | `WithinArena`, `MallocDisjoint`, `GroupsAligned` while one page of records is enough |
| `malloc_second_meta_page` | violated | the second page of records takes the break back below live groups |
| `malloc_alignment` | violated | with an unaligned end of .bss a large malloc is not 16-byte aligned |
| `net_table` | holds | `TypeOK`, `Ownership`, `StatesAgree`, `SlotsAccounted`, `AcceptInOrder` |
| `net_stream` | holds | the stream, its window, its end, the time-outs, the vectored calls, and that every call returns |
| `net_flood` | violated | under traffic that never pauses a call does not return, time-out or not |
| `net_accept_after_reset` | violated | accept hands out a connection whose pcb is gone |

The violated runs each check one sentence of the repository; `PROJECT.json`
quotes it under "findings". `malloc_one_meta_page` and `malloc_second_meta_page`
belong together: what holds up to `MetasPerArea` live groups (about a hundred in
the real layout) fails at the next one. In the same way `Client`, the
alignment of `BssStop` and `Flood` separate what holds from what does not.

### Bounds

Two directory slots and two descriptors give a full descriptor table, a slot
reused by another name, two descriptors on one file and a file beside another
one. `bmfs_any_client` has two names, every flag the code tests, transfers of 0, 1
and 2 bytes and seeks by -1, 0 and 1. `bmfs_plain_client` has a third name, so
that a create finds the directory full, and bytes of two values; it pays for
them with fewer inputs (transfers of one and two bytes, seeks by 1, four flag
words). Three blocks leave two for data, so a second file always borders the
first. A block has one byte (`bmfs_any_client`, where bytes do not matter but
extents of two blocks do) or two sectors of one byte (`bmfs_plain_client`), which
lets a write stop half way and a file be empty, partial or full. `PosBound`
reaches the end of an extent of one block. Sectors have one byte in every run,
so no run has a write that covers part of a sector. `BlockBound` stops creation
when the model's disk is full: the code has no such test.

The heap runs use pages of 4 addresses, an end of .bss inside a page, ends of RAM
from less than a page to almost four pages away (between eight and nine for the
allocator), and break addresses on both sides of the arena.

`net_table` has three slots, two pcbs and a queue of two: a listener and a queue
filled by connections of which the first was reset while it waited, or a listener
with connections the program has accepted, closed and left behind; one byte each
way per connection, so that data and acknowledgements reach connections in every
state. With three slots the queue is full only when the table is, so `on_accept`
never finds one full and not the other; `SlotsOwned` is proved for every size of
both. Its `View` drops what no action reads: the result of the last call, the
contents of free slots, entries of `acceptq` outside the queue, the data of lost
connections, dhcp once the network is up, and of the clock all but the time since
the call began. `net_stream` has one connection with three bytes, a window of two
and reads of 0, 1 and 2 bytes, so that a read ends inside a pbuf and spans two;
four frames, so that data, FIN and RST can meet in one net_poll; a clock of four
values and a time-out of two, so that every wait can cross the wrap; vectored calls with no piece, and with an
empty piece between two others. `MaxTicks`
bounds the time one net_poll takes; `NicRing` and `MaxFrames` the traffic.

Views of the other runs drop `ret`, which no action reads: a state is visited once
whatever `ret` is, so the conjunct of `TypeOK` on it rests on the theorems
`BmfsTypeOK` and `HeapTypeOK`. Symmetry permutes names, pcbs, or the history's
names of mappings, in runs of safety properties only.

### Fairness

`net_stream` and `net_flood` assume weak fairness of the steps of a call in
progress (`Blocked`, and `SocketPiece` between two pieces): the processor runs
the only thread. They assume it of `Clock`: a hardware counter runs. Nothing is
assumed of the network, of timers that drop a connection, of the program between
calls, or of the keyboard.

## Proofs

For every size of the tables, sectors, blocks, windows and clocks, and every set
of names, bytes, lengths, offsets and flags:

- `BmfsProofs`: `TypeOK`, `Layout` and `CacheCoherent` together are inductive
  (`AnyInv`), for every program. The core is `NextBlockIsFree`: the block given
  to a new file is past every extent in use; it rests on the existence of the
  maximum of a bounded set of naturals, proved from the well-foundedness of `<`.
  Creation stops at `BlockBound` in the model, so nothing is proved about a disk
  that has run out of blocks.
- `BmfsProofs`, for a plain client: `SizeFits` and `FdCurrent`. Neither is
  inductive alone: a stored length fits after close because the descriptor's
  did, in an extent that is still the entry's, and no other descriptor changed
  that entry. `PlainInv` adds `Tracks` (every open descriptor agrees with its
  entry), `Exclusive` (one descriptor per entry) and `AllFit` to `AnyInv`.
  From `PlainInv` follow the action properties
  `WriteIsolation`, `AppendOnly` and `LengthKept`: `DataSteps` reduces every step
  to one that leaves the bytes alone or stores part of a write; `StoresInExtent`
  bounds the bytes it touches; `OtherFilesByte` turns disjoint extents into
  disjoint bytes.
- `BmfsMapProofs` and `BmfsRefinementProofs`: `Bmfs` implements `AbsFs` for every
  plain client (`BmfsImplementsAbsFs`). The initial image maps to an initial
  state (`InitMaps`), and under `PlainInv` every step maps to a step or a stutter
  (`StepMaps`), by one lemma per call and outcome (`OpenMaps`, `WriteMaps`,
  `StopMaps` ...). The mapping is restated as operators of a directory, the bytes
  and the descriptors (`ContentIn`, `SavedIn`, `FdtIn`), so that a step is a
  change of their arguments. Unique names make the entry found for a name the one
  that has it (`FindsOwnSlot`); one descriptor per file makes the length its
  descriptor's (`OpenLength`); disjoint extents keep a write out of the other
  files (`StoresOther`).
- `HeapProofs`: `TypeOK`, `WithinArena` and `MapsDisjoint` if no request wraps
  (`NoWrap`). The last needs that every mapping into which the break was not
  lowered lies below the bump pointer.
- `HeapProofs`, on `MallocHeap`: as long as there is one page of records,
  everything in use lies in the arena and is apart (`OnePageSafe`), and one page
  is enough for as many groups as it has records (`FewGroupsSafe`; the run
  `malloc_second_meta_page` shows what happens beyond). `MallocInv` says that everything
  in use lies below the bump pointer (`Placed`), that the first page of records
  is found above all of it, and that before that page nothing is in use
  (`Fresh`): without the last, alloc_meta could take the first page at a break it
  remembers from before. `CountInv` adds that spare records and groups in use
  together are `MetasPerArea`. `AlignedGroups` needs neither, nor that no sum
  wraps: the pointer and the remembered break stay multiples of `Align` if
  `BssStop` and `Wrap` are (`AlignedStart`). The lemmas on `alloc_meta`,
  `MapGroup` and `mmap` say what one call leaves of the pointer and the context
  (`MetaGives`, `GroupGives`, `Bumps`); every action is a composition of these.
- `NetShimProofs`: `TypeOK`, `Ownership`, `StatesAgree`, `SlotsAccounted`,
  `StreamInOrder`, `WindowFollowsReader`, `EndAfterData`, `AcceptInOrder` and
  `TimeoutOnTime`, all from `NetInvariant` of `NetInv`. `SlotsAccounted` is not
  reasoned about as it stands: `SlotInv` says the same by positions in the rings
  (who is at position `i` of queue `l`), which a step changes one at a time.
  `Ownership` needs that open connections have their callbacks set, and that a
  socket still points only to a pcb whose argument is that socket.
  `ReadInv` says of a receive chain that its pbufs are consecutive and where its
  first unread byte is; `WinInv` keeps window plus unread bytes constant.
  `EndAfterData` is about a recv that reports the end at once as well as one
  that has waited. Every
  step of lwIP or of a call reduces to one of a few kinds of change (a pcb freed,
  a slot filled, a queue shortened, bytes read): `NetTableProofs` has the lemmas
  for each kind, `NetStepProofs` applies them to the frames, timers and
  callbacks, `NetCallProofs` to the calls, `NetShimProofs` puts the steps
  together.
- `NetShimProofs`, on `PosixShim`: every behaviour of `PosixShim` is one of `NetShim`
  (`PosixImplementsNet`), so that everything above also holds of programs that
  use vectored calls; then `VecInOrder` and `VecExact`, from `NetInvariant` and
  an invariant of the loop (`VecInv`: the total is the lengths of the pieces
  before the current one, and is what was moved). What a step of the socket layer
  moves is read off the invariants: `RecvBytes`, `SendBytes`.

The assumptions are those named in the modules (sizes are positive, inputs
have their types, a clock that does not wrap twice in one wait), with
`PlainClient`, `NoWrap`, `MallocNoWrap` (the same for all requests of the
allocator), `FewGroups` and `AlignedStart` stated in the theorems that need
them.

Only model-checked: the liveness properties `CallsReturn` and `VecReturns`, as
the provers cannot reason about fairness.

## Not modelled

- The kernel behind `libBareMetal`, lwIP below its pcbs (segments,
  retransmission, ARP, IP, DHCP), musl apart from the allocator's use of the
  heap, the layout of stat structures, build scripts and examples.
- Failing drives: the code ignores the results of `b_nvs_read` and `b_nvs_write`.
- The transfer loops of `bmfs.c` sector by sector with the scratch buffer.
- `read` and `write` on files in `PosixShim`: they are one call of `Bmfs` each
  and do not wait.
- The start-up code, a fixed sequence around one retry loop, and the conversion
  of the clock.
