# libshmipc in TLA+

libshmipc passes messages between processes through shared memory: a lock-free
ring buffer (`core/src/ipc_buffer.c`), a channel with blocking, timed reads on
top of it (`ipc_channel.c`), memory that processes find by name (`ipc_mmap.c`),
functions that open a ring or a channel by path (`ipc_init.c`), and a Java
binding.  This directory holds TLA+ models of these parts, the TLC
configurations that check them on small instances, and machine-checked proofs of
their safety for every instance.  Below, "buffer", "channel", "mmap" and "init"
with a number are lines of these four files, "JNI" of
`java/native/src/lib_shm_ipc_jni_IpcChannel.c`.

    tlc -workers 2 -config buf_mpsc.cfg MCIpcBuffer      # any of the runs
    tlapm IpcBufferProof.tla                             # any of the proofs

## 1. Inventory

| component | state | operations | status |
|---|---|---|---|
| circular buffer, `ipc_buffer.c` | `head`, `tail` (64-bit offsets, bit 0 a lock), `data_size`, data region | create, attach, write, read, peek, skip, skip_force, sizes | modelled, proved |
| channel, `ipc_channel.c` | `notify` (32 bits) in shared memory; per call: the block being filled, the deadline | create, connect, destroy, write, read, try_read, peek, skip, skip_force, sizes | modelled, safety proved |
| futex, `ipc_futex.c` | the kernel's wait queue on `notify` | wait, wake_all (wake_one is never called) | Linux path modelled in the channel |
| segment, `ipc_mmap.c` | the kernel's names and objects; per caller: descriptor, mapping, segment | ipc_mmap, ipc_unmap, ipc_unlink | modelled, proved |
| initialisation, `ipc_init.c` | the handles it returns | create/attach a buffer, create/connect a channel at a path, sizes | modelled, with a violated promise |
| JNI binding, `java/native/src` | the native handle | init; write and read | init modelled and proved about, the conversion of results is not |
| utilities, `ipc_utils.c/.h` | none | power of two, align, relative, timespec to ns | all but the last modelled |
| public types, `include/shmipc` | none | status codes, entries, result macros | codes and entries appear in the models |
| Java API, library loader, former JNI copy, tests, build scripts | none that is shared | | not modelled (section 8) |

**How they interact.**  A writer or reader calls the channel; the channel calls
the buffer, possibly several times in one call (`_try_read` peeks, allocates,
reads, and starts over if the entry changed).  The processes share only
`head`, `tail`, `data_size`, the data region and `notify`.  There is no mutex:
every shared access is an atomic load or a compare-and-swap, or a plain access
to the data region that one of the two lock bits is meant to protect.
`skip_force` takes no lock.  The memory itself comes from `ipc_mmap`, which
creates it under a name or joins what another process has created; `ipc_init.c`
and the JNI's init call it and then create a ring in the memory, or attach to
the one they assume is there.  Nothing tells a joiner whether that has happened.

**What is hard.**

* *Interleaving.*  Decisions are taken on words loaded earlier (the free space
  of buffer 173 before the lock of 186; the named offset of 396 before
  the lock of 403; skip_force's size of 454 before its swap of 456).  Between two
  system calls of `ipc_mmap` others create, truncate, open and unlink.
* *Starting.*  A consumer that starts first polls memory in which the ring is
  still being created.
* *The ring's arithmetic.*  Entries are contiguous, so a lap may end with a
  placeholder, whose size nobody compares with the free space.
* *Sleeping and waking.*  Reader and writer meet at `notify`, between a peek, a
  load and a wait on one side and a commit, an increment and a wake on the other.
* *Crashes.*  A process may die holding a lock bit, or with a name created and
  no length given, in memory that outlives it.
* *Retries.*  Placeholders recurse, small destinations loop, timeouts end waits.
* *Width.*  Sizes are unsigned words, and searches for a power of two double
  until they reach it, or for ever.

**What makes each part correct.**  Buffer: it is a FIFO queue; entries are
delivered once, whole, in order; nothing uncommitted is read and nothing
committed overwritten; no call waits for a lock, and refusals are true.
Channel: no byte is
copied outside the block allocated; what leaves the buffer reaches the caller;
a sleeper is woken; reads return by their deadline; writer and readers never
wait for each other.  Segment: who shares a name shares one memory, at its full
length; every error path undoes what was done.  Opening: who has the same memory
works on the same ring, and the ring fits.  Sizes: what is suggested is accepted
and suffices; what is validated is created.  The complete list of hazards, each
at its line and with the properties aimed at it, is in `PROJECT.json`.

## 2. Modules

| module | what it is |
|---|---|
| `IpcBuffer` | the ring: state, one action per atomic access, fairness, properties, refinement mapping |
| `FifoQueue` | what the ring promises: an abstract queue, one atomic step per operation |
| `IpcBufferInv` | the inductive invariant `IInv`, and the part of it that needs no lock on `head`, `CoreInv` |
| `IpcStartup` | EXTENDS `IpcBufferInv`: the ring while `ipc_buffer_create` is still setting it up |
| `IpcChannel` | EXTENDS `IpcBuffer`: the channel's calls around the buffer's, `notify`, sleepers, time |
| `ShmSegment` | `ipc_mmap.c`, one action per system call, failures and crashes |
| `SharedMemory` | what `ShmSegment` amounts to: memory that is created, extended once, opened, given, left |
| `IpcEndpoints` | EXTENDS `ShmSegment`: `ipc_init.c` and the JNI's init on top of its steps |
| `IpcSizes` | the size arithmetic and its loops, in words that wrap |
| `RingArithmetic` | lemmas on `%`, alignment and laps |
| `IpcBufferProof`, `IpcFifoProof` | the ring: invariants, and that it implements the queue |
| `IpcStartupProof` | the ring under creation: invariant, and that it implements the queue from the first store on |
| `IpcChannelProof` | the channel: safety, delivery, rounds, and that it uses its buffer as a buffer |
| `ShmSegmentProof`, `IpcEndpointsProof`, `IpcSizesProof` | the theorems of these modules |
| `MC...` | instances for TLC, with symmetry where it is sound |

Definitions marked `(* Mutation: ... *)` are plausible bugs in the definition
that follows them.  They are not part of any specification: putting one in place
of its neighbour must break the property `PROJECT.json` pairs it with, which
shows that the property sees that code.

### IpcBuffer

| variables | in the code |
|---|---|
| `head`, `headLocked`; `tail`, `tailLocked` | `header->head`, `header->tail`: offset and lock bit of one atomic word, always accessed in one action |
| `mem` | the data region, by 8-byte words; a payload fills its words with one value |
| `pc`, `call`, `at`, `hdr`, `ret`, `dest` | each process's place in its call, arguments, local `tail`/`head`, local or planned `EntryHeader`, status, and what read copied or peek reported |
| `known` | the offset a consumer's last result carried: what it can pass to `skip` |
| `dead` | the processes that have died |
| `live` | history only: entries committed and not yet passed by `head`; no guard reads it |

A write is `WriteCall` (or `WriteReject`), `WriteLoadTail`, `WriteLoadHead`,
`WriteLock`, `WriteFill`, `WriteSeq`, `WriteCommit`; a placeholder sends
`WriteCommit` back to `WriteLoadTail`, as the recursion of line 211 does.  read,
peek and skip share the code shape lock - look - move or put back, and the
actions `LoadHead`, `LockHead`, `ReadTail`, `ReadHeader`, then `CopyPayload`
and `Advance`, or `Unlock`; `call[p].op` selects where they differ.  skip_force
is `ForceLoadHead`, `ForceLoadTail`, `ForceReadSize`, `ForceAdvance`.  The plain
stores of a header and its payload are one action where only the lock holder,
or skip_force through one aligned word, can look; `seq` is a step of its own.
Memory starts with anything in `InitWords`, because `ipc_buffer_create` does
not clear it.

The atomics are sequentially consistent (plain `atomic_*` calls), so
interleaving is the right model.  The one data race in the C sense, line 454
against a writer's stores, is a read of an aligned 8-byte word: the model lets
it return whatever is there before or after each store.

Left out of the buffer: refusals of NULL arguments, error bodies and messages,
overflow of the 64-bit offsets (580 years at 1 GB/s), the wrap of
`sizeof(EntryHeader) + size` (151) for sizes within 31 bytes of 2^64, which no
caller has memory for, and buffers below 32 bytes, which refuse every write.

### IpcStartup

`create` is the next store of `ipc_buffer_create` (99-101): `data_size`, `head`,
`tail`.  Producers write through the handle that create returned or through one
attached later, so `Use` lets them in when `create` is `"done"`; consumers may
run at any time, since `ipc_buffer_attach` checks nothing and zeroed memory looks
like an empty ring.  `StoreHead` overwrites `head` with its lock bit, as
`atomic_init` does.  `disturbed` is history: the lock was taken from its holder,
and no moment without a holder has passed since.

### IpcChannel

A process has a place `cpc` in the channel call beside its place `pc` in the
buffer call; the channel moves on when the buffer call has returned.  `notify`
counts modulo `NotifyMod`; `expected` is a reader's `expected_notify`; a reader
in the kernel's queue has `cpc = "asleep"`; `block` is `read_entry` with the
size of its allocation and its `size` field, `given` what the caller was
handed; `due` says that the reader's deadline is past.  `Notify` and `Wake` are
two steps (162-163, 178-179) with others' steps between them; `ReadWait` is one
(FUTEX_WAIT compares and enqueues under the kernel's lock).  `TryReturn` is the
way out of `_try_read` into whichever of the two callers is there, including
what line 288 makes of a retryable status.  `Expire` is the clock, `Interrupt`
EINTR.

Left out of the channel: failures of `clock_gettime(CLOCK_MONOTONIC)` and futex
errors other than EAGAIN, EINTR and ETIMEDOUT (neither can happen with the
arguments the code passes), negative timeouts, connect and destroy (process-local).

### FifoQueue

Entries carry a ticket from a growing clock; `Append`, `Take` of the oldest by
one consumer, `Drop` of the oldest, `Forget` of what was received.  The
refinement mapping of `IpcBuffer` takes the queue **from memory**, not from the
history: the entry's ticket is the `seq` word, its length the `payload_size`
word, its contents the payload words at each live offset; `clock` is `tail`;
`received` is what a returned read has copied.  So `ImplementsFifo` fails if
memory is corrupted, if an entry is taken out of order, twice, or in part.

### ShmSegment and SharedMemory

`bound` and `length` are the kernel's names and objects; `fd`, `mapped`,
`segment` are what a user has: its descriptor, its mapping, and the
`IpcMemorySegment` it was given; `pc`, `req`, `actual` the call.  `ipc_mmap` is
`MmapCall`, `ShmCreate` (`O_EXCL`), then `Truncate` and `StatNew`, or `ShmOpen`
and `StatOld`, then `Mmap` with the close behind it, and `Allocate`; `ipc_unmap`
is `UnmapCall`; `ipc_unlink` is `UnlinkCall` and `UnlinkUnmap`.  The calls of a
user in `MayFail` may fail at each of these, with the clean-up the code does
there.  `Stored` is what the system makes of a length: `Granule` is 1 where
lengths are kept to the byte (Linux) and the page size where they are rounded
up.  `Crash` closes and unmaps, leaves the names, and lets the process start
again.  A library user has at most one segment here: the library keeps no
table, so a process with several is several users.  `Allocate` stands for the two
`malloc`s at the end of `ipc_mmap` (mmap 123, 136) with what either failure
undoes; heap blocks are not counted, so `NoLeak` is about descriptors and
mappings and would not see a missing `free`.

`SharedMemory` has no system calls: a memory is created empty under a name,
extended once, opened, given to its holders at full length, and freed when
nothing refers to it.  The mapping: a user holds what its descriptor is on or
what it has mapped; what it is given is the size in its segment.

### IpcEndpoints

An opener runs `ipc_mmap` through `ShmSegment`'s actions (`Open`, `SegmentStep`)
and then `Finish`es: it creates a ring, attaches to one, or fails.  `opening` is
how, in which role and with which size; `ring` the `data_size` found in each
object, as the size of the segment it was created for; `handle` the memory the
endpoint works on.  `MemoryOf` is the one difference between the callers: the
binding passes `segment->memory`, `ipc_init.c` the address of the segment
structure, which lies in the process's own heap.  Users outside `Openers` call
`ipc_mmap`, `ipc_unmap` and `ipc_unlink` as they like; neither way of opening
gives the segment back, so openers have no other call.

### IpcSizes

One caller asks for suggestions (`SuggestCall`), creates (`CreateCall`), or
creates through `_validate_size` (`InitCall`), for a buffer or a channel.  `pc`
names the loop it is in, `pow` the loop's variable, `target` what it is compared
with; `Double` is one round.  All sums and differences are taken modulo
`Modulus`, 2^64 in the code.  `outcome`, `suggested` and `validated` are what
came of it.

## 3. Runs

Distinct states as measured, on two workers.

| run | instance | checks | states, time |
|---|---|---|---|
| `buf_mpsc` | 2 producers, 1 consumer (read, skip), ring 64, payloads 0, 8, 12, 72, two values, destinations of 8 and 12 | `LockDiscipline`, `NoIllegalState`, `LockedEntryReady`, `RingBound`, `LiveIntact`, `CopyIntact`, `RefusalsAreTrue`, `ImplementsFifo` | 877 000, 50 s |
| `buf_start` | 1 producer, 2 consumers, all operations, ring 64, from the first store of create | `StartInv`, `LockHasHolder`, `IllegalOnlyAtStart`, `EntriesJoin`, `DeliveredOnce`, `SkipsWhatWasNamed`, `RefusalsAreTrue`, `ImplementsFifo` | 644 000, 40 s |
| `buf_crash` | 2 producers and 1 consumer (read, skip_force), a producer and the consumer may die anywhere, fairness | `IInv`, `CallsReturn`, `OnlyLocksBlock` | 74 000, 20 s |
| `buf_oversize` | ring 64, payload 24 | `EmptyRingTakesEntry` is **violated** | |
| `chan_spsc` | 1 producer that may die, 1 consumer with all five calls, allocations may fail, fairness | `ChannelTypeOK`, `OkMeansEntry`, `RingTurns`, `ReadsReturn` | 387 000, 55 s |
| `chan_spmc` | 1 producer, 2 readers, allocations may fail, `NotifyMod` 2 | `CopyFits`, `ReceivedIsGiven`, `RoundCostsEntry`, `WakeupPending` | 2 560 000, 57 s |
| `chan_ok_no_data` | 1 producer, 1 reader | `ReadOkHasData` is **violated** | |
| `chan_sleep` | 1 producer, 1 reader | `NoSleepOverData` is **violated** | |
| `shm` | 3 users of one name, one whose calls may fail and who may die, 3 objects, sizes 8 and 12 | `MappedWhole`, `NoLeak`, `LostStays`, `SharesMemory`, `GetsIn` | 788 000, 72 s |
| `endpoints` | 2 openers, one of whom may fail and die, and a third user who maps, unmaps and unlinks; 2 objects, capacities 6 and 12 | `RingFits`, `RingKeepsSize` | 1 660 000, 78 s |
| `endpoints_init` | 2 openers and a third user, nobody fails | `EndpointsMeet` is **violated** | |
| `sizes` | words of 9 bits, headers of 128 and 64 bytes as in the code | `OverflowsOnlyAboveHalf`, `SuggestedSuffices`, `ValidatedIsCreated`, `CallsEnd`, `TinyChannelHangs` | 22 000, 3 s |

**Why the bounds are enough for what they show.**

* Payloads of 8 and 12 bytes make entries of 32 and 40 (the second with
  padding).  On a ring of 64 each sequence leaves a different rest of the lap:
  too small for the entry, for the entry but not a header behind it, or 24
  exactly; so placeholders of several sizes and both sides of the comparison of
  line 185 occur.  72 exceeds the ring (`IPC_ERR_ENTRY_TOO_LARGE`), 0 is refused.
* `MaxTail` stops new writes once that many bytes were committed: 72 and 128 on
  a ring of 64 take writers into the second and third lap, so that words are
  reused and a stale process can come back a lap late.  `buf_crash` needs one
  lap: it is about who dies where.  48 in `chan_spmc` allows two entries, so that a
  reader may peek at one and find a larger or a smaller one when it reads, and
  the allocation for it may fail in the second round.
* Refusals on stale offsets need more than one process on a side.  In `buf_mpsc`
  a writer may come to `WriteLoadHead` with a tail that the other producer has
  moved and find too little space; in `buf_start` skip_force may compare with
  `tail` a head that the other consumer has moved.  `RefusalsAreTrue` is checked
  in these two, against a writer that loads head before tail and a skip_force that
  takes the other's progress for an empty ring.
* `InitWords = {64}` in `buf_mpsc` stands for memory that create does not clear:
  it is not zero, so nothing rests on zeroed memory.  `buf_start` has the zeroed
  memory that `ipc_mmap` hands out.
* `NotifyMod` is 2 or 3 for 2^32, so the counter wraps within a run.  In
  `chan_spsc` three notifications can fall between a reader's load of `notify`
  and its wait; it then compares equal and sleeps over them.  `WakeupPending` says
  nothing of that state; `RingTurns` and `ReadsReturn` do: such a reader is woken by
  the writers that come after, or its deadline ends the wait.
* Three users of a segment: one creates, one joins, one unlinks in between.
  Three objects: the name can be rebound while two older objects are in use.
  With `Granule` 8 the size 12 is stored as 16 and 8 stays 8, so both kinds of
  system occur in one run.
* In `endpoints` the two capacities give segments of 200 and 208 bytes, with
  rings of 8 and 16; `Granule` 16 rounds 200 to 208, so a ring may be created
  in more memory than was asked for, and a joiner may find another size.
  `Overhead` is 192, the headers of channel and ring.
* Words of 9 bits hold the real headers and two more powers of two above them.
  `Capacities` and `Given` are the boundaries of every formula: around the
  headers, around each power, around half of the words and at their end.
* The proofs below cover the safety properties for all constants; the runs'
  further use is to show that these are not vacuous and which code they depend
  on (the mutations), and to check liveness.
* `CHECK_DEADLOCK FALSE` only in `buf_crash`, where the system really may stop:
  those allowed to die may be dead while the bound on `tail` is reached.

A run of `buf_start` includes the states of an established ring with one
producer and two consumers, and a run of `chan_spsc` those of an established
channel with one reader, live or timed; there are no separate runs for these.

**Fairness and why the code justifies it.**  `CallFairness` and
`ChannelFairness`: each live process inside a call is weakly fair; that is the
operating system's scheduler, and no call of the library waits inside user
space.  A dead process is owed nothing.  Weak fairness per process is enough
because each local step is enabled until taken.  `FairSpec` of `IpcBuffer` adds
that producers and consumers call again and again (the loops of `core/tests`).
For the channel, what a property needs beyond that is its premise:
`RingTurns` assumes `CallsKeepComing` (writers and readers come back, nobody
dies, allocations succeed) but not that timeouts elapse, so the ring must turn by
notifications alone; `ReadsReturn` assumes `TimePasses` and no calls at all.
That a reader's timeout fires while it sleeps is `ReadTimeout`, a step of the
kernel.  In `ShmSegment` a running process goes on with a call it has started;
`GetsIn` has as its premise that the user keeps asking.  In `IpcSizes` a started
call goes on.

Calls are lock-free and not wait-free: the lock loops start over when another
process has moved the word first, so one of several producers, like one of
several consumers, may lose every compare-and-swap.  `CallsReturn` therefore
promises a return under a premise, `<>[]Unrivalled(p)`: from some moment on no other
process of the same side is inside a call (dead, possibly with the lock, or
idle), while those of the other side do as they like.  That does not rest on
`MaxTail`: a producer's compare-and-swaps are on `tail`, which no consumer moves,
and a consumer's on `head`, which no producer moves.  It does rest on payloads that leave a header's room in the ring; a
writer of a larger one and a consumer that removes its placeholders keep each
other busy (section 5).  `ReadsReturn` is checked with one consumer, where the
premise holds by itself.

## 4. What is proved

For all sets of producers and consumers, all ring sizes that are a multiple of 8
and at least 32, all payload sizes, values, destinations, initial memory,
choices of operations and crashes:

| theorem | property | what it says |
|---|---|---|
| `IpcBufferProof!Invariance` | `IInv` | the inductive invariant |
| `TypeCorrect` | `TypeOK` | no size or offset read from memory leaves its type |
| `LocksHold` | `LockDiscipline` | each lock bit is held by exactly one process |
| `NeverIllegalState` | `NoIllegalState` | no ILLEGAL_STATE branch of the buffer is taken |
| `NoOverrun` | `RingBound` | writers never run into unread entries |
| `EntriesIntact` | `LiveIntact` | committed entries stay as written |
| `EntriesJoined` | `EntriesJoin` | head to tail is tiled by whole entries |
| `ReadsIntact` | `CopyIntact` | a read's copy is the committed payload |
| `NeverUnready` | `LockedEntryReady` | line 506 is dead code |
| `ExactlyOnce` | `DeliveredOnce` | no entry goes to two consumers |
| `SkipsExactly` | `SkipsWhatWasNamed` | an action property: a skip removes only what it named, data exactly if it answers IPC_OK |
| `TruthfulRefusals` | `RefusalsAreTrue` | an action property: EMPTY and NO_SPACE are true of the ring when they are decided |
| `IpcFifoProof!ImplementsQueue` | `ImplementsFifo` | the ring, read from its memory, implements `FifoQueue` |
| `OversizeNeverStored` | | no entry within 24 bytes of the ring's size is ever in it |
| `IpcStartupProof!StartInvariance` | `StartInv` | the inductive invariant of the startup |
| `SizeIsKnown` | | nobody reckons with the ring's size before it is stored |
| `NoLockLeftBehind` | `LockHasHolder` | a locked head has a consumer in its section, at that offset |
| `LocksRecover` | | `LockDiscipline` holds whenever nobody holds head, and whenever creation has disturbed nobody or that is over |
| `IllegalEndsWithStart` | `IllegalOnlyAtStart` | the spurious ILLEGAL_STATE of creation ends with that |
| `StartEntriesJoined`, `StartExactlyOnce`, `StartEntriesIntact`, `StartSkipsExactly`, `StartTruthfulRefusals` | `EntriesJoin`, `DeliveredOnce`, `RingBound` and `LiveIntact`, `SkipsWhatWasNamed`, `RefusalsAreTrue` | what an established ring keeps, one under creation keeps |
| `StartImplementsQueue` | `ImplementsFifo` | it implements `FifoQueue` from the first store of create on |
| `IpcChannelProof!BufferHolds` | `IInv` | the buffer's invariant holds under the channel |
| `NoWakeupLost` | `WakeupPending` | a sleeper whose `notify` has moved is about to be woken |
| `NoBlockOverrun` | `CopyFits` | a copy never exceeds its allocation |
| `ChannelTypes` | `ChannelTypeOK` | the channel's counter and locals stay in their types |
| `NothingLostInside` | `ReceivedIsGiven` | what a read takes out of the buffer its caller gets |
| `OkIsHonest` | `OkMeansEntry` | IPC_OK comes with an entry taken out of the ring, or, from read only, with nothing |
| `RoundsCost` | `RoundCostsEntry` | `_try_read` goes round only when another consumer got the entry it peeked |
| `ChannelUsesBuffer` | | a channel's behaviours are, for its buffer, behaviours of `IpcBuffer` (`ChannelSpec => Spec`) |
| `ChannelIsSafe` | `RefusalsAreTrue`, and seven more of the buffer | so the buffer's properties hold under the channel |
| `ChannelImplementsQueue` | `ImplementsFifo` | and the buffer inside a channel implements `FifoQueue` |

For all users, names, objects and sizes, any unit of rounding, and any failures
and crashes:

| theorem | property | what it says |
|---|---|---|
| `ShmSegmentProof!TypeCorrect` | `TypeOK` | names, objects and what users hold stay in their types |
| `MapsWhole` | `MappedWhole` | a mapping is the whole of an object that has its length |
| `LeaksNothing` | `NoLeak` | a call that ended left no descriptor and no mapping beyond its segment's |
| `StaysLost` | `LostStays` | an abandoned name is not usable again |
| `ImplementsSharedMemory` | `SharesMemory` | the system calls implement `SharedMemory` |
| `IpcEndpointsProof!RingInside` | `RingFits` | a Java endpoint's ring is in the memory it has mapped and lies inside it |
| `RingSizeStays` | `RingKeepsSize` | a ring keeps its size under an endpoint |
| `EndpointsUseSegments` | | the openers' behaviours are behaviours of `ShmSegment` (`EndpointsSpec => Spec`) |
| `EndpointsAreSafe` | `SharesMemory`, `MappedWhole`, `NoLeak`, `LostStays` | so the segments' properties hold under the openers |

For all word widths, powers, headers, capacities and sizes that
`SizesAssumption` allows (`IpcSizesProof`): `TypeCorrect`, `Overflows`
(`OverflowsOnlyAboveHalf`), `SuggestionHolds` (`SuggestedSuffices`),
`ValidationHolds` (`ValidatedIsCreated`), `TinyHangs` (`TinyChannelHangs`).

**Assumptions.**  `BufSizeAssumption`, `CallAssumption`, `ChannelAssumption`:
sizes are naturals, the ring is aligned; that it is a power of two is not
needed once the mask is a remainder.  `SegmentAssumption`: sizes and the unit of
rounding are positive, `None` is no name or object.  `EndpointAssumption`: users
and objects are different things; `SuggestionAssumption`: what the binding's
capacities come to is among the sizes asked for.  `SizesAssumption`: the words
are twice their half, the powers are closed under doubling up to it and a factor
of two apart, and the headers and one unit of data fit in half of the words.
TLC evaluates each of them in the runs.
`ChannelAssumption` has the payload sizes among the destinations a buffer's
reader may bring, since a channel allocates what it has peeked; only
`ChannelUsesBuffer` and what follows from it need that.

**The ring.**  None of the properties is inductive alone.  `RingBound` for
a placeholder holds because its writer found room for the entry *and* because
entry offsets are *boundaries*: aligned, with at least a header's room to the
end of the lap (`Boundary`).  A placeholder takes the
rest w of the lap when w < s + 24 for an entry of size s.  The free space ends
at `head` one lap on.  If that were inside the placeholder, the boundary there
would leave 24 bytes to the end of the lap, behind at least s bytes of free
space, so w would be at least s + 24 (`PlannedFits`).  `WriterInv` carries the space check
from the load of `head` to the commit: `head` only grows, so the room only grows
while the compare-and-swap guarantees that `tail` has not moved.  `LiveInv` says
that entries are disjoint extents within their lap, tiling head to tail;
`WriterApart` that a writer's extent, behind all of them and less than a lap
away, shares no word with any.  From that `LiveIntact` follows for each store.
For consumers, `HoldsEntry` says that the header in hand is that of a live entry
as long as `head` is still there: immediate under the lock, and for skip_force
because an offset `head` has left never comes back.  `PassEntry` is the one
lemma for every way `head` moves.  Each action has its lemma; `NextIInv` joins
them.

None of this needs the lock on `head`.  The bit is what makes consumers answer
LOCKED instead of ILLEGAL_STATE; what protects the entries is that `head` moves
only by a compare-and-swap on an offset that never comes back.  So the invariant
is in two parts.  `CoreInv` claims things of the entry in a consumer's hands only
while `head` is still there, and is preserved with any number of consumers in
the section of `head`.  `HeadDiscipline` and `NoIllegalState` are added in `IInv`
and have their own lemmas (`HeadStep`, `DisciplineKept`, `LegalKept`).

`TruthfulRefusals` is about stale words.  A writer is refused on a `tail` loaded
before `head`: if `tail` has moved on in between, there is even less room than it
reckons.  skip_force is told EMPTY when `tail` equals a `head` loaded earlier; the
`head` of that moment lies between the two.

**The queue.**  `QueueStored`: given `CoreInv`, the queue that the mapping reads
from memory is the history's data entries, since these are intact.  Then the
swap of tail in `WriteCommit` is `Append` (or a stutter, for a placeholder), the
swap of head in `Advance` and `ForceAdvance` is `Take` or `Drop` of the entry with
the least ticket, the start of a consumer's call is `Forget`, and every other
step stutters (`StepImplements`).  `DataInv` adds that every data entry, stored
or about to be, passed the test of line 185, hence `OversizeNeverStored`.

**The startup.**  In `StartInv` the ring is unused, at zero and empty, until create is done; so the
store of `data_size` meets nobody who needs it, the store of `tail` changes
nothing, and the store of `head` changes only the lock bit, which `CoreInv` does
not mention.  Two consumers may then be in the section of `head`.  `LockHasHolder`
survives that: a consumer that advances or unlocks clears the bit, and one that
fails to do so fails because the bit is clear or `head` has moved, so whoever set
it since is still in the section.  `HeadDiscipline` returns at the first moment the
section is empty, since a locked head would have a holder, and from there the
lemmas of the ring keep it.

**The channel.**  Each step is either a step of the buffer inside a call
(`InnerStep`) or leaves the buffer alone or starts a call in it
(`ChannelDrives`).  For the start of a read this takes an invariant: the size of
the block is a payload size, because it was peeked (`BlockSize`, `DataInv`).  Then
`ChannelSpec => Spec`, and every theorem of the ring applies.  `WakeupPending`
needs that a writer adds before it wakes; `CopyFits` that the only read of the
buffer carries `block.size`, never more than the allocation.  `GivenInv` is what
`ReceivedIsGiven` needs: between the buffer's read and the return, a peek or a
write leaves nothing that could be taken for a received payload.  `RoundInv` is
what `RoundCostsEntry` and `OkMeansEntry` need.  From the peek to the end of the
read, either another consumer has moved `head` past the peeked offset, or the
entry at `head` is one the block has room for (`Ahead`); the buffer's read can
answer TOO_SMALL, or pass a placeholder, in the first case only.  And an
IPC_OK of that read is preceded by its copy.

**Segments and endpoints.**  `SegInv` says for each point of a call what its user
holds, and that no two creators have the same object (`OneCreator`).  Therefore
the one step that changes a length, `Truncate`, is taken on an object that
nobody has mapped and nobody else is about to extend; and freeing an object
disturbs nobody.  The steps of an endpoint are steps of the segments
(`DrivesSegments`), so `SegInv` holds there too.  `RingFills` adds that a ring
is as large as its object: whoever creates one passes the segment's size, which
is the object's length, so a second creation cannot change it.

**Sizes.**  `SizesInv` says where each loop is going: `pow` stays on the powers
until it passes the last, and stops on the first that is not below `target`.  So
from a size that is headers plus a power p, the check of create finds p, and the
two searches of `suggest_size` and create agree.

**Only model-checked.**  Liveness under fairness is beyond the proof system:
`CallsReturn`, `OnlyLocksBlock`, `RingTurns`, `ReadsReturn`, `GetsIn`, `CallsEnd`.
Every invariant and every action property of the passing runs is proved.

## 5. What the runs found

* **`ipc_channel_read` may return IPC_OK with nothing** (channel 288).  It peeks,
  finds an entry, and calls `_try_read`, which peeks again.  If a writer has
  locked tail in between (NOT_READY), or another reader has the head (LOCKED) or
  took the entry (EMPTY), `_try_read` returns a retryable status; line 288 then
  tests the *peek's* status, IPC_OK, which is not one to retry, and the function
  returns it through the error constructor.  The caller sees IPC_OK and an
  untouched destination; the binding then reads the size and the pointer of an
  entry nobody filled in (JNI 144).  `core/README.md:33` promises a retry.
  (`chan_ok_no_data`)  That is the only way to an IPC_OK without an entry
  (`OkMeansEntry`), and try_read has none.
* **A reader can sleep over an entry** (channel 318).  `notify` is loaded after
  the peek, so a write that commits and notifies between the two is missed.  The
  reader sleeps until the next write or its timeout.  The test at
  `core/tests/suites/ipc_channel_concurrency_test.cpp:227` makes one write and
  waits for up to 2000 seconds.  (`chan_sleep`)  What still holds: a full ring
  wakes the sleeper (`RingTurns`), thanks to lines 161-164.
* **Entries of more than ring - 24 bytes are accepted and can never be stored**
  (buffer 153 against 185): each attempt fills the ring with a placeholder and
  answers NO_SPACE_CONTIGUOUS.  (`buf_oversize`; `OversizeNeverStored` proves for
  every ring that none is ever stored.)
* **What `ipc_init.c` opens by path is not shared** (init 70, 101, 132, 165).  The
  four functions pass the segment structure, not its memory, so each process
  works on the bytes of its own heap block; `core/README.md:10` offers
  communication between processes.  (`endpoints_init`)  The JNI binding does the
  same steps with the segment's memory, and its rings are there (`RingFits`).

Noticed on the way:

* create's store of `head` (buffer 100) unlocks it under a consumer that came
  early: two consumers may then be at one entry, and one may be told
  ILLEGAL_STATE.  No entry is lost or delivered twice, and it ends with the
  first moment nobody holds `head` (`buf_start`).
* A second creation over memory in use, as when a Java producer starts again,
  sends `head` and `tail` back to 0 under everyone's calls.
* A creator that fails or dies between `shm_open` and `ftruncate` leaves a name
  that no call of the library can use or remove (`LostStays`).
* Where the system rounds lengths up, a joiner that asks for the same size as the
  creator is refused (mmap 97), since the rounded length is compared.
* `ipc_unlink` of a name another peer has removed returns before it unmaps (189).
* `ipc_channel_create` with a size of 1 to 63 never returns (`TinyChannelHangs`);
  searches above 2^63 do not end either.
* `skip` at a placeholder's offset removes the placeholder and answers
  OFFSET_MISMATCH, though it never removes data then (`SkipsWhatWasNamed`);
  `skip_force`, when it loses, reports the word it found with
  the lock bit in it; a crash between commit and notify leaves sleepers
  uninformed; error offsets may be copied from a `peek_entry` never filled in;
  `free(read_entry.payload)` at channel 297, 307 and 322 always frees NULL.
* The binding frees no payload it has read, and loses the entry if no Java array
  can be made (JNI 149).

## 6. Hazards no property covers

Each is in `PROJECT.json` with its reason: how long the pointer of a peek is good
after its entry was consumed, for which the API states nothing beyond
`LiveIntact`; starvation of one of several producers or consumers (buffer 186, 239,
channel 425), which compare-and-swap loops permit, and of which `CallsReturn` says
only that it ends with the rivalry, and `RoundCostsEntry` that each lost round
of a reader is an entry for another; heap blocks that an error path of `ipc_mmap`
might forget (mmap 112); uninitialised error offsets, which are only
reported; what a second creation does to the entries in the ring, beyond
`RingKeepsSize`; and the conversion of results to Java values.

## 7. What could follow

The plan of modules is done, and so are the proofs of their safety.  Still worth
doing: two producers with two readers on the channel, whose state space is large
(its safety is proved); and the JNI's write and read on top of `IpcChannel`, once
its handling of an IPC_OK without an entry is settled.

## 8. Not modelled, and why

* The conversion of results to Java values: one channel call each way and then
  allocation in the JVM; what is hard about it comes from the channel.
* The Java classes and the library loader: declarations, and a temporary file.
* The former copy of the JNI binding under `java/native/native`: no build file
  names it.
* The Apple futex: another kernel interface with the same protocol; it truncates
  timeouts to 32-bit microseconds.
* `ipc_timespec_to_nanos`: the channel model knows of a deadline only whether it
  has passed; the product wraps for timeouts above 584 years.
* `ipc_buffer_attach`, `ipc_channel_connect` and destroy, as calls on an
  established ring: process-local allocation and release.
* Refusals of NULL arguments and the result macros: no state.
* Tests, build, release and CI scripts.
