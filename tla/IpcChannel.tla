----------------------------- MODULE IpcChannel -----------------------------
(***************************************************************************)
(* The channel of core/src/ipc_channel.c: the buffer of IpcBuffer, whose   *)
(* calls it makes one after another, and a counter, notify, in the shared  *)
(* memory, on which blocked readers sleep (core/src/ipc_futex.c, Linux).   *)
(* A channel call is a sequence of buffer calls: pc says where a process   *)
(* is inside the buffer, cpc where it is in the channel call around it,    *)
(* and cpc moves on when pc is back at "idle".                             *)
(***************************************************************************)
EXTENDS IpcBuffer

CONSTANTS
  ChannelOps,     \* the channel calls consumers make
  NotifyMod,      \* notify is a uint32_t: 2^32 in the code
  AllocMayFail    \* whether malloc and realloc may return NULL

ASSUME ChannelAssumption ==
  /\ ChannelOps \subseteq {"read", "try_read", "peek", "skip", "skip_force"}
  /\ NotifyMod \in Nat \ {0, 1}
  /\ AllocMayFail \in BOOLEAN
  /\ {"read", "peek"} \subseteq ConsumerOps
  /\ PayloadSizes \subseteq Capacities

VARIABLES
  notify,     \* channel->header->notify
  cpc,        \* where each process is in its channel call
  cop,        \* the channel call each consumer is in, or made last
  expected,   \* expected_notify of a reader
  due,        \* whether the timeout of a reader's call has elapsed
  block,      \* read_entry: the bytes allocated for it and its size field
  given,      \* the block the last call has handed to its caller
  cret        \* the status of a consumer's last channel call

cvars == <<notify, cpc, cop, expected, due, block, given, cret>>

NoBlock == [cap |-> 0, size |-> 0]     \* payload == NULL

(* ipc_buffer.c never answers IPC_ERR_CORRUPTED, but the list has it.      *)
RetryStatuses ==
  {"IPC_ERR_NOT_READY", "IPC_EMPTY", "IPC_ERR_CORRUPTED", "IPC_ERR_LOCKED"}

(* ipc_channel_create: the buffer's state, and notify at zero.             *)
ChannelInit ==
  /\ Init
  /\ notify = 0
  /\ cpc = [p \in Procs |-> "idle"]
  /\ cop = [c \in Consumers |-> "none"]
  /\ expected = [c \in Consumers |-> 0]
  /\ due = [c \in Consumers |-> FALSE]
  /\ block = [c \in Consumers |-> NoBlock]
  /\ given = [c \in Consumers |-> NoBlock]
  /\ cret = [c \in Consumers |-> "IPC_OK"]

At(p, label) == cpc[p] = label /\ pc[p] = "idle"
MoveTo(p, label) == cpc' = [cpc EXCEPT ![p] = label]

-----------------------------------------------------------------------------
(* ipc_channel_write                                                       *)

ChannelWrite(p, n, v) ==
  /\ At(p, "idle")
  /\ WriteCall(p, n, v)
  /\ MoveTo(p, "write")
  /\ UNCHANGED <<notify, cop, expected, due, block, given, cret>>

ChannelWriteReject(p, n) ==
  /\ At(p, "idle")
  /\ WriteReject(p, n)
  /\ UNCHANGED cvars

(* Mutation: only a new entry is worth a notification.                     *)
WriteDoneSilent(p) ==
  /\ At(p, "write")
  /\ MoveTo(p, IF ret[p] = "IPC_OK" THEN "notify" ELSE "idle")
  /\ UNCHANGED <<vars, notify, cop, expected, due, block, given, cret>>

(* Readers are told of a new entry, and also that the writer has found no  *)
(* room; every other error is returned without a word to them.             *)
WriteDone(p) ==
  /\ At(p, "write")
  /\ MoveTo(p, IF ret[p] \in {"IPC_OK", "IPC_ERR_NO_SPACE_CONTIGUOUS"}
                 THEN "notify" ELSE "idle")
  /\ UNCHANGED <<vars, notify, cop, expected, due, block, given, cret>>

(* Mutation: the counter never wraps around.                               *)
NotifyUnbounded(p) ==
  /\ At(p, "notify")
  /\ notify' = notify + 1
  /\ MoveTo(p, "wake")
  /\ UNCHANGED <<vars, cop, expected, due, block, given, cret>>

Notify(p) ==
  /\ At(p, "notify")
  /\ notify' = (notify + 1) % NotifyMod
  /\ MoveTo(p, "wake")
  /\ UNCHANGED <<vars, cop, expected, due, block, given, cret>>

(* Mutation: ipc_futex_wake_one.                                           *)
WakeOne(p) ==
  LET sleepers == {c \in Consumers : cpc[c] = "asleep"} IN
  /\ At(p, "wake")
  /\ \/ /\ sleepers = {}
        /\ MoveTo(p, "idle")
        /\ UNCHANGED expected
     \/ \E c \in sleepers :
          /\ cpc' = [cpc EXCEPT ![p] = "idle", ![c] = "read_loop"]
          /\ expected' = [expected EXCEPT ![c] = 0]
  /\ UNCHANGED <<vars, notify, cop, due, block, given, cret>>

(* ipc_futex_wake_all: every sleeper goes round its loop again.            *)
Wake(p) ==
  /\ At(p, "wake")
  /\ cpc' = [q \in Procs |-> IF q = p THEN "idle"
                             ELSE IF cpc[q] = "asleep" THEN "read_loop"
                             ELSE cpc[q]]
  /\ expected' = [c \in Consumers |-> IF cpc[c] = "asleep" THEN 0 ELSE expected[c]]
  /\ UNCHANGED <<vars, notify, cop, due, block, given, cret>>

-----------------------------------------------------------------------------
(* The consumers' calls start.  The caller has freed what it was given.    *)

StartCall(c, op, label) ==
  /\ At(c, "idle")
  /\ op \in ChannelOps
  /\ MoveTo(c, label)
  /\ cop' = [cop EXCEPT ![c] = op]
  /\ given' = [given EXCEPT ![c] = NoBlock]
  /\ cret' = [cret EXCEPT ![c] = "IPC_OK"]
  /\ UNCHANGED <<notify, expected, due, block>>

ChannelRead(c) == StartCall(c, "read", "read_loop") /\ UNCHANGED vars

ChannelTryRead(c) == StartCall(c, "try_read", "try_loop") /\ UNCHANGED vars

ChannelPeek(c) == StartCall(c, "peek", "forward") /\ PeekCall(c)

ChannelSkip(c) ==
  StartCall(c, "skip", "forward") /\ (SkipCall(c) \/ SkipReject(c))

ChannelSkipForce(c) == StartCall(c, "skip_force", "forward") /\ SkipForceCall(c)

(* A call returns s; read_entry goes to the caller or is freed.            *)
ChannelReturn(c, s, handed) ==
  /\ MoveTo(c, "idle")
  /\ cret' = [cret EXCEPT ![c] = s]
  /\ given' = [given EXCEPT ![c] = handed]
  /\ block' = [block EXCEPT ![c] = NoBlock]
  /\ due' = [due EXCEPT ![c] = FALSE]
  /\ UNCHANGED <<notify, cop, expected>>

(* peek, skip and skip_force return what the buffer has answered.          *)
Forwarded(c) ==
  /\ At(c, "forward")
  /\ ChannelReturn(c, ret[c], NoBlock)
  /\ UNCHANGED vars

-----------------------------------------------------------------------------
(* _try_read: peek for the size, make room, read; the entry may have been  *)
(* taken by another consumer in between and the next be larger.            *)

TryPeek(c) ==
  /\ At(c, "try_loop")
  /\ PeekCall(c)
  /\ MoveTo(c, "try_peek")
  /\ UNCHANGED <<notify, cop, expected, due, block, given, cret>>

(* Mutation: ipc_channel_read does not fill in dest.                       *)
TryReturnKept(c, s) ==
  ChannelReturn(c,
    IF cop[c] = "read" /\ s \in RetryStatuses THEN "IPC_OK" ELSE s,
    IF s = "IPC_OK" /\ cop[c] = "try_read" THEN block[c] ELSE NoBlock)

(* Mutation: every caller of _try_read takes a retry for success.          *)
TryReturnHidden(c, s) ==
  ChannelReturn(c,
    IF s \in RetryStatuses THEN "IPC_OK" ELSE s,
    IF s = "IPC_OK" THEN [block[c] EXCEPT !.size = dest[c].size] ELSE NoBlock)

(* What _try_read returns, as its caller passes it on.  ipc_channel_read   *)
(* keeps the status of its own peek, which was IPC_OK, and returns that if *)
(* _try_read asks for a retry.                                             *)
TryReturn(c, s) ==
  ChannelReturn(c,
    IF cop[c] = "read" /\ s \in RetryStatuses THEN "IPC_OK" ELSE s,
    IF s = "IPC_OK" THEN [block[c] EXCEPT !.size = dest[c].size] ELSE NoBlock)

(* Mutation: the size is raised and the allocation is not.                 *)
GrownInPlace(c, n) == IF block[c].cap = 0 THEN [cap |-> n, size |-> n]
                      ELSE [block[c] EXCEPT !.size = n]

(* Mutation: an allocation is never enlarged.                              *)
GrownOnce(c, n) == IF block[c].cap = 0 THEN [cap |-> n, size |-> n] ELSE block[c]

Grown(c, n) == IF block[c].cap = 0 \/ block[c].size < n
                 THEN [cap |-> n, size |-> n] ELSE block[c]

TryPeekDone(c) ==
  LET b == Grown(c, dest[c].size) IN
  /\ At(c, "try_peek")
  /\ \/ /\ ret[c] # "IPC_OK"
        /\ TryReturn(c, ret[c])
        /\ UNCHANGED vars
     \/ /\ ret[c] = "IPC_OK" /\ b # block[c] /\ AllocMayFail
        /\ TryReturn(c, "IPC_ERR_SYSTEM")
        /\ UNCHANGED vars
     \/ /\ ret[c] = "IPC_OK"
        /\ block' = [block EXCEPT ![c] = b]
        /\ ReadCall(c, b.size)
        /\ MoveTo(c, "try_read")
        /\ UNCHANGED <<notify, cop, expected, due, given, cret>>

TryReadDone(c) ==
  /\ At(c, "try_read")
  /\ \/ /\ ret[c] = "IPC_ERR_TOO_SMALL"
        /\ MoveTo(c, "try_loop")
        /\ UNCHANGED <<notify, cop, expected, due, block, given, cret>>
     \/ /\ ret[c] # "IPC_ERR_TOO_SMALL"
        /\ TryReturn(c, ret[c])
  /\ UNCHANGED vars

-----------------------------------------------------------------------------
(* ipc_channel_read                                                        *)

ReadPeek(c) ==
  /\ At(c, "read_loop")
  /\ PeekCall(c)
  /\ MoveTo(c, "read_peek")
  /\ UNCHANGED <<notify, cop, expected, due, block, given, cret>>

ReadPeekDone(c) ==
  /\ At(c, "read_peek")
  /\ \/ /\ ret[c] \in RetryStatuses \cup {"IPC_OK"}
        /\ MoveTo(c, IF ret[c] = "IPC_OK" THEN "try_loop" ELSE "read_clock")
        /\ UNCHANGED <<notify, cop, expected, due, block, given, cret>>
     \/ /\ ret[c] \notin RetryStatuses \cup {"IPC_OK"}
        /\ ChannelReturn(c, ret[c], NoBlock)
  /\ UNCHANGED vars

(* Mutation: only an empty channel lets a read time out.                   *)
ReadClockWhenEmpty(c) ==
  /\ At(c, "read_clock")
  /\ \/ /\ due[c] /\ ret[c] = "IPC_EMPTY"
        /\ ChannelReturn(c, "IPC_ERR_TIMEOUT", NoBlock)
     \/ /\ ~due[c] \/ ret[c] # "IPC_EMPTY"
        /\ MoveTo(c, "read_notify")
        /\ UNCHANGED <<notify, cop, expected, due, block, given, cret>>
  /\ UNCHANGED vars

ReadClock(c) ==
  /\ At(c, "read_clock")
  /\ \/ /\ due[c]
        /\ ChannelReturn(c, "IPC_ERR_TIMEOUT", NoBlock)
     \/ /\ ~due[c]
        /\ MoveTo(c, "read_notify")
        /\ UNCHANGED <<notify, cop, expected, due, block, given, cret>>
  /\ UNCHANGED vars

(* notify is loaded here, after the peek that found nothing to read.       *)
ReadNotify(c) ==
  /\ At(c, "read_notify")
  /\ expected' = [expected EXCEPT ![c] = notify]
  /\ MoveTo(c, "read_wait")
  /\ UNCHANGED <<vars, notify, cop, due, block, given, cret>>

(* The wait is over: expected_notify goes out of scope, the loop goes on.  *)
ReadAgain(c) ==
  /\ MoveTo(c, "read_loop")
  /\ expected' = [expected EXCEPT ![c] = 0]

(* FUTEX_WAIT compares and goes to sleep in one step.                      *)
ReadWait(c) ==
  /\ At(c, "read_wait")
  /\ \/ /\ notify = expected[c]
        /\ MoveTo(c, "asleep")
        /\ UNCHANGED expected
     \/ /\ notify # expected[c]
        /\ ReadAgain(c)
  /\ UNCHANGED <<vars, notify, cop, due, block, given, cret>>

(* ETIMEDOUT: the wait ends, and the loop decides.                         *)
ReadTimeout(c) ==
  /\ At(c, "asleep")
  /\ due[c]
  /\ ReadAgain(c)
  /\ UNCHANGED <<vars, notify, cop, due, block, given, cret>>

(* EINTR ends it too.                                                      *)
Interrupt(c) ==
  /\ At(c, "asleep")
  /\ ReadAgain(c)
  /\ UNCHANGED <<vars, notify, cop, due, block, given, cret>>

(* Time passes.                                                            *)
Expire(c) ==
  /\ cop[c] = "read" /\ cpc[c] # "idle" /\ ~due[c]
  /\ due' = [due EXCEPT ![c] = TRUE]
  /\ UNCHANGED <<vars, notify, cpc, cop, expected, block, given, cret>>

-----------------------------------------------------------------------------
ProducerStep(p) ==
  \/ WriteStep(p) /\ UNCHANGED cvars
  \/ WriteDone(p) \/ Notify(p) \/ Wake(p)

ConsumerStep(c) ==
  \/ ConsumeStep(c) /\ UNCHANGED cvars
  \/ Forwarded(c) \/ TryPeek(c) \/ TryPeekDone(c) \/ TryReadDone(c)
  \/ ReadPeek(c) \/ ReadPeekDone(c) \/ ReadClock(c) \/ ReadNotify(c)
  \/ ReadWait(c) \/ ReadTimeout(c)

ChannelNext ==
  \/ \E p \in Producers \ dead :
       \/ \E n \in PayloadSizes, v \in Values : ChannelWrite(p, n, v)
       \/ \E n \in PayloadSizes : ChannelWriteReject(p, n)
       \/ ProducerStep(p)
  \/ \E c \in Consumers \ dead :
       \/ ChannelRead(c) \/ ChannelTryRead(c)
       \/ ChannelPeek(c) \/ ChannelSkip(c) \/ ChannelSkipForce(c)
       \/ ConsumerStep(c) \/ Interrupt(c) \/ Expire(c)
  \/ \E p \in Procs \ dead : Crash(p) /\ UNCHANGED cvars

ChannelSpec == ChannelInit /\ [][ChannelNext]_<<vars, cvars>>

(* Every live process that is inside a call keeps being scheduled.  That   *)
(* an awake reader's timeout elapses is left to the specification.         *)
ChannelFairness ==
  /\ \A p \in Producers : WF_<<vars, cvars>>(p \notin dead /\ ProducerStep(p))
  /\ \A c \in Consumers : WF_<<vars, cvars>>(c \notin dead /\ ConsumerStep(c))

FairChannelSpec == ChannelSpec /\ ChannelFairness

-----------------------------------------------------------------------------
(* Properties.                                                             *)

ChannelLabels ==
  { "idle", "write", "notify", "wake", "forward", "try_loop", "try_peek",
    "try_read", "read_loop", "read_peek", "read_clock", "read_notify",
    "read_wait", "asleep" }

Blocks == [cap : Nat, size : Nat]

(* The types of the channel's counter and of every call's locals.          *)
ChannelTypeOK ==
  /\ TypeOK
  /\ notify \in 0 .. NotifyMod - 1
  /\ cpc \in [Procs -> ChannelLabels]
  /\ cop \in [Consumers -> ChannelOps \cup {"none"}]
  /\ expected \in [Consumers -> 0 .. NotifyMod - 1]
  /\ due \in [Consumers -> BOOLEAN]
  /\ block \in [Consumers -> Blocks]
  /\ given \in [Consumers -> Blocks]
  /\ cret \in [Consumers -> Statuses \cup {"IPC_ERR_SYSTEM", "IPC_ERR_TIMEOUT"}]

(* A reader that sleeps although notify has moved on since it looked is    *)
(* about to be woken: FUTEX_WAIT compares, and writers add before they     *)
(* wake (ipc_channel.c:162, 178).                                          *)
WakeupPending ==
  \A c \in Consumers : cpc[c] = "asleep" /\ notify # expected[c] =>
    \E p \in Producers : cpc[p] = "wake"

(* The payload ipc_buffer_read copies fits in the bytes that _try_read has *)
(* allocated for it, although another entry may have come to the head      *)
(* since it peeked (ipc_channel.c:440-467).                                *)
CopyFits ==
  \A c \in Consumers : pc[c] = "r_copy" => hdr[c].payload_size <= block[c].cap

(* What CopyFits rests on: size never exceeds the allocation, and the only *)
(* reads of the buffer are those of _try_read, with that size.             *)
CallFits(c) ==
  /\ block[c].size <= block[c].cap
  /\ pc[c] # "idle" /\ call[c].op = "read" =>
       cpc[c] = "try_read" /\ call[c].n <= block[c].cap
  /\ pc[c] = "r_copy" => hdr[c].payload_size <= call[c].n

(* The loop of _try_read has no deadline (ipc_channel.c:425), but it goes  *)
(* round only at the expense of the ring: the entry that was peeked is     *)
(* gone, and it was another consumer that took it.  So a lone reader never *)
(* goes round, and of several one gets on.                                 *)
RoundCostsEntry ==
  \A c \in Consumers :
    cpc[c] = "try_read" /\ pc[c] = "r_unlock" /\ ret[c] = "IPC_ERR_TOO_SMALL" =>
      known[c] < at[c] /\ \E d \in Consumers : d # c

(* No entry is lost between the buffer and the caller: one that was taken  *)
(* out of the buffer for a read or try_read has been handed over whole.    *)
ReceivedIsGiven ==
  \A c \in Consumers :
    At(c, "idle") /\ HasReceived(c) /\ cop[c] \in {"read", "try_read"} =>
      cret[c] = "IPC_OK" /\ given[c].size = dest[c].size

(* And conversely an IPC_OK is never half true: its caller has an entry,   *)
(* with its size, and the ring has it no more; or else the call was a read *)
(* of ipc_channel_read that was beaten to the entry, and the caller has    *)
(* nothing at all (ipc_channel.c:288).                                     *)
OkComesWithEntry ==
  \A c \in Consumers :
    /\ cpc[c] \in {"read_peek", "read_clock", "try_peek", "try_read"}
    /\ cpc'[c] = "idle" /\ cret'[c] = "IPC_OK"
    => \/ HasReceived(c) /\ given'[c].size = dest[c].size
       \/ cop[c] = "read" /\ given'[c] = NoBlock

OkMeansEntry == [][OkComesWithEntry]_<<vars, cvars>>

(* core/README.md:33 promises that a read retries by itself on states such *)
(* as not ready and locked: it returns IPC_OK with an entry, never with    *)
(* none because _try_read has come upon such a state.                      *)
ReadOkHasData ==
  \A c \in Consumers :
    At(c, "idle") /\ cop[c] = "read" /\ cret[c] = "IPC_OK" => given[c] # NoBlock

(* A reader blocks until a writer writes (the test of that name,           *)
(* ipc_channel_concurrency_test.cpp:227): once every write has returned,   *)
(* no reader is asleep while the only entry there waits for it.            *)
NoSleepOverData ==
  \A c \in Consumers :
    cpc[c] = "asleep" /\ ~headLocked /\ ~tailLocked
      /\ (\A p \in Producers : cpc[p] = "idle")
    => head = tail

(* Producers write and consumers read again and again, nobody dies and the *)
(* readers' allocations succeed; timeouts may be as long as they like.     *)
CallsKeepComing ==
  /\ \A p \in Producers :
       WF_<<vars, cvars>>(\E n \in PayloadSizes, v \in Values : ChannelWrite(p, n, v))
  /\ \A c \in Consumers : SF_<<vars, cvars>>(ChannelRead(c))
  /\ [](dead = {} /\ \A c \in Consumers : cret[c] # "IPC_ERR_SYSTEM")

(* The ring never wedges, however long the timeouts are: a writer that     *)
(* finds it full wakes the readers who sleep over what is in it (line 161).*)
RingTurns == CallsKeepComing => <>(tail >= MaxTail)

TimePasses ==
  \A c \in Consumers : WF_<<vars, cvars>>(c \notin dead /\ Expire(c))

(* A reader comes back by its timeout at the latest, whatever the writers  *)
(* do, and though they may have died with tail locked.                     *)
ReadsReturn ==
  TimePasses =>
    \A c \in Consumers : cpc[c] # "idle" ~> (cpc[c] = "idle" \/ c \in dead)

=============================================================================
