-------------------------- MODULE IpcChannelProof --------------------------
(***************************************************************************)
(* A channel only drives its buffer through the buffer's own calls, so the *)
(* inductive invariant of the buffer holds in it and its entries are still *)
(* the queue of FifoQueue; no wakeup is lost once a reader sleeps; a       *)
(* payload never outgrows the block it is copied to; and an entry that     *)
(* ipc_buffer_read took out of the buffer reaches the caller.              *)
(***************************************************************************)
EXTENDS IpcChannel, IpcFifoProof

ChannelLocals ==
  /\ cpc \in [Procs -> ChannelLabels]
  /\ block \in [Consumers -> Blocks]

ChannelInv ==
  /\ IInv /\ ChannelLocals /\ WakeupPending
  /\ \A c \in Consumers : CallFits(c)

-----------------------------------------------------------------------------
(* What the buffer's steps do to a call.                                   *)

(* Only ReadHeader leads to the copy, and it has compared the sizes.       *)
LEMMA StepWithinCall ==
  ASSUME TypeOK, NEW p \in Procs, WriteStep(p) \/ ConsumeStep(p)
  PROVE  /\ OthersKeep(p) /\ pc[p] # "idle"
         /\ pc'[p] = "idle" \/ call'[p] = call[p]
         /\ pc'[p] = "r_copy" => hdr'[p].payload_size <= call'[p].n
<1>1. CASE WriteStep(p)
  BY <1>1
  DEF TypeOK, OthersKeep, WriteStep, Goto, Return, WriteLoadTail, WriteLoadHead,
      WriteLock, WriteFill, WriteSeq, WriteCommit
<1>2. CASE LoadHead(p) \/ LockHead(p) \/ ReadTail(p)
  BY <1>2 DEF TypeOK, OthersKeep, Goto, Return, GiveBack, LoadHead, LockHead,
              ReadTail
<1>3. CASE ReadHeader(p)
  BY <1>3 DEF TypeOK, OthersKeep, Goto, GiveBack, ReadHeader
<1>4. CASE CopyPayload(p) \/ Advance(p) \/ Unlock(p)
  BY <1>4 DEF TypeOK, OthersKeep, Goto, Return, CopyPayload, Advance, Unlock
<1>5. CASE ForceLoadHead(p) \/ ForceLoadTail(p) \/ ForceReadSize(p)
           \/ ForceAdvance(p)
  BY <1>5 DEF TypeOK, OthersKeep, Goto, Return, ForceLoadHead, ForceLoadTail,
              ForceReadSize, ForceAdvance
<1> QED
  BY <1>1, <1>2, <1>3, <1>4, <1>5 DEF ConsumeStep

(* A step inside the buffer leaves the channel's bookkeeping true.         *)
LEMMA InnerStep ==
  ASSUME ChannelInv, IInv', NEW p \in Procs,
         WriteStep(p) \/ ConsumeStep(p), UNCHANGED cvars
  PROVE  ChannelInv'
<1> USE DEF ChannelInv, cvars
<1>1. /\ OthersKeep(p) /\ pc[p] # "idle"
      /\ pc'[p] = "idle" \/ call'[p] = call[p]
      /\ pc'[p] = "r_copy" => hdr'[p].payload_size <= call'[p].n
  BY StepWithinCall DEF IInv, CoreInv
<1>2. ChannelLocals' /\ WakeupPending'
  BY DEF ChannelLocals, WakeupPending
<1>3. \A c \in Consumers : CallFits(c)'
  BY <1>1 DEF CallFits, OthersKeep, Procs
<1> QED
  BY <1>2, <1>3

(* p goes on outside the buffer, and wakes nobody.                         *)
LEMMA OuterStep ==
  ASSUME ChannelInv, IInv', NEW p \in Procs, NEW l \in ChannelLabels,
         pc[p] = "idle", pc'[p] = "idle", MoveTo(p, l), cpc[p] # "wake",
         OthersKeep(p),
         l = "asleep" => notify' = expected'[p],
         notify' = notify \/ (l = "wake" /\ p \in Producers),
         \A c \in Consumers \ {p} : expected'[c] = expected[c] /\ block'[c] = block[c],
         p \in Consumers => block'[p] \in Blocks /\ block'[p].size <= block'[p].cap,
         block' \in [Consumers -> Blocks]
  PROVE  ChannelInv'
<1> USE DEF ChannelInv
<1>1. cpc' = [cpc EXCEPT ![p] = l] /\ cpc \in [Procs -> ChannelLabels]
  BY DEF MoveTo, ChannelLocals
<1>2. ChannelLocals'
  BY <1>1 DEF ChannelLocals
<1>3. WakeupPending'
  <2> SUFFICES ASSUME NEW c \in Consumers, cpc'[c] = "asleep", notify' # expected'[c]
               PROVE  \E q \in Producers : cpc'[q] = "wake"
    BY DEF WakeupPending
  <2>1. c # p /\ cpc[c] = "asleep" /\ expected'[c] = expected[c]
    BY <1>1 DEF Procs
  <2>2. CASE notify' = notify
    BY <1>1, <2>1, <2>2 DEF WakeupPending, Procs
  <2>3. CASE l = "wake" /\ p \in Producers
    BY <1>1, <2>3
  <2> QED
    BY <2>2, <2>3
<1>4. \A c \in Consumers : CallFits(c)'
  BY <1>1 DEF CallFits, OthersKeep, Procs
<1> QED
  BY <1>2, <1>3, <1>4

(* p enters the buffer with a call that is not a read.                     *)
LEMMA EnterStep ==
  ASSUME ChannelInv, IInv', NEW p \in Procs, NEW l \in ChannelLabels \ {"asleep"},
         MoveTo(p, l), cpc[p] # "wake", UNCHANGED <<notify, expected, block>>,
         NEW c \in Calls, NEW m \in {"w_tail", "r_head", "f_head"}, Enter(p, c, m),
         c.op # "read"
  PROVE  ChannelInv'
<1> USE DEF ChannelInv
<1>1. cpc' = [cpc EXCEPT ![p] = l] /\ cpc \in [Procs -> ChannelLabels]
  BY DEF MoveTo, ChannelLocals
<1>2. /\ OthersKeep(p) /\ call'[p].op # "read" /\ pc'[p] # "r_copy"
  BY DEF Enter, Goto, OthersKeep, IInv, CoreInv, TypeOK
<1>3. ChannelLocals'
  BY <1>1 DEF ChannelLocals
<1>4. WakeupPending'
  BY <1>1 DEF WakeupPending, Procs
<1>5. \A d \in Consumers : CallFits(d)'
  BY <1>1, <1>2 DEF CallFits, OthersKeep, Procs
<1> QED
  BY <1>3, <1>4, <1>5

-----------------------------------------------------------------------------
(* The channel's steps, one by one.                                        *)

(* A step of the channel alone leaves the buffer's invariant as it is.     *)
LEMMA BufferIdle ==
  ASSUME IInv, UNCHANGED vars
  PROVE  IInv' /\ \A p \in Procs : OthersKeep(p)
BY StutterIInv DEF vars, OthersKeep

LEMMA ReadCallStep ==
  ASSUME IInv, NEW p \in Procs, NEW n \in Nat, ReadCall(p, n)
  PROVE  IInv'
<1> DEFINE k == [op |-> "read", n |-> n, v |-> 0]
<1>1. k \in Calls /\ "r_head" \in Labels \ HeadSection
  BY DEF Calls, Labels, HeadSection
<1>2. Enter(p, k, "r_head")
  BY DEF ReadCall
<1> HIDE DEF k
<1>3. CoreInv'
  BY <1>1, <1>2, ConsumerCallStep DEF IInv
<1>4. OthersKeep(p) /\ HeadStep(p)
  BY <1>1, <1>2, EnterHead DEF IInv, CoreInv
<1> QED
  BY <1>3, <1>4, LockStep

LEMMA ChannelWriteStep ==
  ASSUME ChannelInv, NEW p \in Producers, NEW n \in PayloadSizes, NEW v \in Values,
         ChannelWrite(p, n, v)
  PROVE  ChannelInv'
<1>0. p \in Procs
  BY DEF Procs
<1>1. IInv'
  BY ProduceStep DEF ChannelInv, ChannelWrite, Produce
<1>2. [op |-> "write", n |-> n, v |-> v] \in Calls
  BY CallAssumption DEF Calls
<1> QED
  BY <1>0, <1>1, <1>2, EnterStep DEF ChannelWrite, WriteCall, At, ChannelLabels

LEMMA ChannelWriteRejectStep ==
  ASSUME ChannelInv, NEW p \in Producers, NEW n \in PayloadSizes,
         ChannelWriteReject(p, n)
  PROVE  ChannelInv'
<1> USE DEF ChannelInv
<1>1. IInv'
  BY ProduceStep DEF ChannelWriteReject, Produce
<1>2. /\ pc' = pc /\ OthersKeep(p) /\ pc[p] = "idle"
  BY DEF ChannelWriteReject, WriteReject, Return, Goto, OthersKeep, IInv, CoreInv, TypeOK
<1>3. ChannelLocals' /\ WakeupPending'
  BY DEF ChannelLocals, WakeupPending, ChannelWriteReject, cvars
<1>4. \A c \in Consumers : CallFits(c)'
  BY <1>2 DEF CallFits, OthersKeep, Procs, ChannelWriteReject, cvars
<1> QED
  BY <1>1, <1>3, <1>4

LEMMA WriteDoneStep ==
  ASSUME ChannelInv, NEW p \in Procs, WriteDone(p)
  PROVE  ChannelInv'
BY BufferIdle, OuterStep
DEF ChannelInv, WriteDone, At, ChannelLabels, ChannelLocals, CallFits, vars

LEMMA NotifyStep ==
  ASSUME ChannelInv, NEW p \in Producers, Notify(p)
  PROVE  ChannelInv'
BY BufferIdle, OuterStep
DEF ChannelInv, Notify, At, ChannelLabels, ChannelLocals, CallFits, Procs, vars

(* Nobody is asleep after a wake.                                          *)
LEMMA WakeStep ==
  ASSUME ChannelInv, NEW p \in Procs, Wake(p)
  PROVE  ChannelInv'
<1> USE DEF ChannelInv
<1>1. IInv'
  BY BufferIdle DEF Wake
<1>2. /\ \A q \in Procs : cpc'[q] # "asleep"
      /\ \A q \in Procs : cpc[q] = "try_read" => cpc'[q] = "try_read"
  BY DEF Wake, At
<1>3. ChannelLocals'
  BY DEF Wake, ChannelLocals, ChannelLabels
<1>4. WakeupPending'
  BY <1>2 DEF WakeupPending, Procs
<1>5. \A c \in Consumers : CallFits(c)'
  BY <1>2 DEF CallFits, Wake, vars, Procs
<1> QED
  BY <1>1, <1>3, <1>4, <1>5

LEMMA StartCallStep ==
  ASSUME ChannelInv, NEW c \in Consumers, NEW op, NEW l \in {"read_loop", "try_loop"},
         StartCall(c, op, l), UNCHANGED vars
  PROVE  ChannelInv'
BY BufferIdle, OuterStep
DEF ChannelInv, StartCall, At, ChannelLabels, ChannelLocals, CallFits, Procs, vars

LEMMA ForwardStep ==
  ASSUME ChannelInv, NEW c \in Consumers,
         ChannelPeek(c) \/ ChannelSkip(c) \/ ChannelSkipForce(c)
  PROVE  ChannelInv'
<1>0. c \in Procs /\ "forward" \in ChannelLabels
  BY DEF Procs, ChannelLabels
<1>1. CASE ChannelPeek(c)
  <2>1. [op |-> "peek", n |-> 0, v |-> 0] \in Calls
    BY DEF Calls
  <2> QED
    BY <1>0, <1>1, <2>1, ConsumeStepInv, EnterStep
    DEF Consume, ChannelInv, ChannelPeek, StartCall, At, PeekCall
<1>2. CASE StartCall(c, "skip", "forward") /\ SkipCall(c)
  <2>1. [op |-> "skip", n |-> known[c], v |-> 0] \in Calls
    BY DEF Calls, ChannelInv, IInv, CoreInv, TypeOK
  <2> QED
    BY <1>0, <1>2, <2>1, ConsumeStepInv, EnterStep
    DEF Consume, ChannelInv, StartCall, At, SkipCall
<1>3. CASE StartCall(c, "skip", "forward") /\ SkipReject(c)
  <2>1. IInv'
    BY <1>0, <1>3, ConsumeStepInv DEF ChannelInv, Consume
  <2>2. pc' = pc /\ OthersKeep(c) /\ pc[c] = "idle"
    BY <1>3 DEF SkipReject, Return, Goto, OthersKeep, ChannelInv, IInv, CoreInv, TypeOK
  <2> QED
    BY <1>0, <1>3, <2>1, <2>2, OuterStep
    DEF ChannelInv, StartCall, At, ChannelLocals, CallFits
<1>4. CASE ChannelSkipForce(c)
  <2>1. [op |-> "skip_force", n |-> 0, v |-> 0] \in Calls
    BY DEF Calls
  <2> QED
    BY <1>0, <1>4, <2>1, ConsumeStepInv, EnterStep
    DEF Consume, ChannelInv, ChannelSkipForce, StartCall, At, SkipForceCall
<1> QED
  BY <1>1, <1>2, <1>3, <1>4 DEF ChannelSkip

(* Every return frees the block or hands it over.                          *)
LEMMA ReturnStep ==
  ASSUME ChannelInv, NEW c \in Consumers, NEW s, NEW b, pc[c] = "idle",
         cpc[c] # "wake", ChannelReturn(c, s, b), UNCHANGED vars
  PROVE  ChannelInv'
<1>1. block' = [block EXCEPT ![c] = NoBlock] /\ block \in [Consumers -> Blocks]
  BY DEF ChannelReturn, ChannelInv, ChannelLocals
<1>2. NoBlock \in Blocks /\ NoBlock.size <= NoBlock.cap
  BY DEF NoBlock, Blocks
<1> QED
  BY <1>1, <1>2, BufferIdle, OuterStep
  DEF ChannelInv, ChannelReturn, ChannelLabels, Procs, vars

LEMMA MoveStep ==
  ASSUME ChannelInv, NEW c \in Consumers, NEW l \in ChannelLabels \ {"wake"},
         pc[c] = "idle", cpc[c] # "wake", MoveTo(c, l),
         l = "asleep" => notify = expected'[c],
         \A d \in Consumers \ {c} : expected'[d] = expected[d],
         UNCHANGED <<vars, notify, block>>
  PROVE  ChannelInv'
BY BufferIdle, OuterStep DEF ChannelInv, ChannelLocals, CallFits, Procs, vars

LEMMA AgainStep ==
  ASSUME ChannelInv, NEW c \in Consumers, pc[c] = "idle", cpc[c] # "wake",
         ReadAgain(c), UNCHANGED <<vars, notify, block>>
  PROVE  ChannelInv'
<1>1. "read_loop" \in ChannelLabels \ {"wake"} /\ MoveTo(c, "read_loop")
  BY DEF ChannelLabels, ReadAgain
<1>2. \A d \in Consumers \ {c} : expected'[d] = expected[d]
  BY DEF ReadAgain
<1> QED
  BY <1>1, <1>2, MoveStep

LEMMA PeekStep ==
  ASSUME ChannelInv, NEW c \in Consumers, TryPeek(c) \/ ReadPeek(c)
  PROVE  ChannelInv'
<1>1. c \in Procs /\ [op |-> "peek", n |-> 0, v |-> 0] \in Calls
  BY DEF Procs, Calls
<1>2. IInv'
  BY ConsumeStepInv DEF ChannelInv, TryPeek, ReadPeek, Consume
<1> QED
  BY <1>1, <1>2, EnterStep
  DEF TryPeek, ReadPeek, At, PeekCall, ChannelLabels

(* _try_read calls ipc_buffer_read with the size of a block it has made    *)
(* large enough.                                                           *)
LEMMA TryPeekDoneStep ==
  ASSUME ChannelInv, NEW c \in Consumers, TryPeekDone(c)
  PROVE  ChannelInv'
<1> DEFINE b == Grown(c, dest[c].size)
<1>0. c \in Procs /\ pc[c] = "idle" /\ cpc[c] = "try_peek"
  BY DEF Procs, TryPeekDone, At
<1>1. CASE UNCHANGED vars /\ \E s \in {ret[c], "IPC_ERR_SYSTEM"} : TryReturn(c, s)
  BY <1>0, <1>1, ReturnStep DEF TryReturn
<1>2. CASE /\ block' = [block EXCEPT ![c] = b]
           /\ ReadCall(c, b.size)
           /\ MoveTo(c, "try_read")
           /\ UNCHANGED <<notify, cop, expected, due, given, cret>>
  <2> USE DEF ChannelInv
  <2>1. b \in Blocks /\ b.size <= b.cap
    <3>1. dest[c].size \in Nat
      BY <1>0 DEF IInv, CoreInv, TypeOK, Received
    <3>2. block[c] \in Blocks /\ block[c].size <= block[c].cap
      BY DEF ChannelLocals, CallFits
    <3> QED
      BY <3>1, <3>2 DEF Grown, Blocks
  <2>2. b.size \in Nat
    BY <2>1 DEF Blocks
  <2> HIDE DEF b
  <2>3. IInv'
    BY <1>0, <1>2, <2>2, ReadCallStep
  <2>4. /\ OthersKeep(c) /\ pc'[c] # "r_copy" /\ call'[c].n = b.size
    BY <1>0, <1>2 DEF ReadCall, Enter, Goto, OthersKeep, IInv, CoreInv, TypeOK
  <2>5. /\ cpc' = [cpc EXCEPT ![c] = "try_read"] /\ cpc \in [Procs -> ChannelLabels]
        /\ block \in [Consumers -> Blocks]
    BY <1>2 DEF MoveTo, ChannelLocals
  <2>6. ChannelLocals'
    BY <1>2, <2>1, <2>5 DEF ChannelLocals, ChannelLabels
  <2>7. WakeupPending'
    BY <1>0, <1>2, <2>5 DEF WakeupPending, Procs
  <2>8. \A d \in Consumers : CallFits(d)'
    BY <1>0, <1>2, <2>1, <2>4, <2>5 DEF CallFits, OthersKeep, Procs
  <2> QED
    BY <2>3, <2>6, <2>7, <2>8
<1> QED
  BY <1>1, <1>2 DEF TryPeekDone

LEMMA TryReadDoneStep ==
  ASSUME ChannelInv, NEW c \in Consumers, TryReadDone(c)
  PROVE  ChannelInv'
BY ReturnStep, MoveStep DEF TryReadDone, TryReturn, At, ChannelLabels

LEMMA ReadStep ==
  ASSUME ChannelInv, NEW c \in Consumers,
         \/ ReadPeekDone(c) \/ ReadClock(c) \/ ReadNotify(c) \/ ReadWait(c)
         \/ ReadTimeout(c) \/ Interrupt(c) \/ Expire(c) \/ Forwarded(c)
  PROVE  ChannelInv'
<1>0. {"idle", "try_loop", "read_clock", "read_notify", "read_wait", "asleep",
       "read_loop"} \subseteq ChannelLabels \ {"wake"}
  BY DEF ChannelLabels
<1>1. CASE ReadPeekDone(c)
  BY <1>0, <1>1, ReturnStep, MoveStep DEF ReadPeekDone, At
<1>2. CASE ReadClock(c)
  BY <1>0, <1>2, ReturnStep, MoveStep DEF ReadClock, At
<1>3. CASE ReadNotify(c)
  BY <1>0, <1>3, MoveStep DEF ReadNotify, At
<1>4. CASE ReadWait(c)
  <2>1. CASE notify = expected[c]
    BY <1>0, <1>4, <2>1, MoveStep DEF ReadWait, ReadAgain, At
  <2>2. CASE notify # expected[c]
    BY <1>0, <1>4, <2>2, AgainStep DEF ReadWait, At
  <2> QED
    BY <2>1, <2>2
<1>5. CASE ReadTimeout(c) \/ Interrupt(c)
  BY <1>0, <1>5, AgainStep DEF ReadTimeout, Interrupt, At
<1>6. CASE Expire(c)
  BY <1>6, BufferIdle
  DEF ChannelInv, Expire, ChannelLocals, WakeupPending, CallFits, vars
<1>7. CASE Forwarded(c)
  BY <1>7, ReturnStep DEF Forwarded, At
<1> QED
  BY <1>1, <1>2, <1>3, <1>4, <1>5, <1>6, <1>7

-----------------------------------------------------------------------------
(* The theorems.                                                           *)

LEMMA InitChannelInv == ChannelInit => ChannelInv
<1> SUFFICES ASSUME ChannelInit PROVE ChannelInv
  OBVIOUS
<1>1. IInv
  BY InitIInv DEF ChannelInit
<1>2. NoBlock \in Blocks /\ NoBlock.size <= NoBlock.cap
  BY DEF NoBlock, Blocks
<1> QED
  BY <1>1, <1>2
  DEF ChannelInit, Init, ChannelInv, ChannelLocals, ChannelLabels, WakeupPending,
      CallFits, Procs

LEMMA ProducerStepInv ==
  ASSUME ChannelInv, NEW p \in Producers,
         \/ \E n \in PayloadSizes, v \in Values : ChannelWrite(p, n, v)
         \/ \E n \in PayloadSizes : ChannelWriteReject(p, n)
         \/ ProducerStep(p)
  PROVE  ChannelInv'
<1>0. p \in Procs
  BY DEF Procs
<1>1. CASE \/ \E n \in PayloadSizes, v \in Values : ChannelWrite(p, n, v)
           \/ \E n \in PayloadSizes : ChannelWriteReject(p, n)
  BY <1>0, <1>1, ChannelWriteStep, ChannelWriteRejectStep
<1>2. CASE WriteStep(p) /\ UNCHANGED cvars
  <2>1. IInv'
    BY <1>2, ProduceStep DEF ChannelInv, Produce
  <2> QED
    BY <1>0, <1>2, <2>1, InnerStep
<1>3. CASE WriteDone(p) \/ Notify(p) \/ Wake(p)
  BY <1>0, <1>3, WriteDoneStep, NotifyStep, WakeStep
<1> QED
  BY <1>1, <1>2, <1>3 DEF ProducerStep

LEMMA ConsumerStepInv ==
  ASSUME ChannelInv, NEW c \in Consumers,
         \/ ChannelRead(c) \/ ChannelTryRead(c)
         \/ ChannelPeek(c) \/ ChannelSkip(c) \/ ChannelSkipForce(c)
         \/ ConsumerStep(c) \/ Interrupt(c) \/ Expire(c)
  PROVE  ChannelInv'
<1>1. CASE ChannelRead(c) \/ ChannelTryRead(c)
  BY <1>1, StartCallStep DEF ChannelRead, ChannelTryRead
<1>2. CASE ChannelPeek(c) \/ ChannelSkip(c) \/ ChannelSkipForce(c)
  BY <1>2, ForwardStep
<1>3. CASE ConsumeStep(c) /\ UNCHANGED cvars
  <2>1. IInv'
    BY <1>3, ConsumeStepInv DEF ChannelInv, Consume
  <2>2. c \in Procs
    BY DEF Procs
  <2> QED
    BY <1>3, <2>1, <2>2, InnerStep
<1>4. CASE TryPeek(c) \/ TryPeekDone(c) \/ TryReadDone(c) \/ ReadPeek(c)
  BY <1>4, PeekStep, TryPeekDoneStep, TryReadDoneStep
<1>5. CASE \/ ReadPeekDone(c) \/ ReadClock(c) \/ ReadNotify(c) \/ ReadWait(c)
           \/ ReadTimeout(c) \/ Interrupt(c) \/ Expire(c) \/ Forwarded(c)
  BY <1>5, ReadStep
<1> QED
  BY <1>1, <1>2, <1>3, <1>4, <1>5 DEF ConsumerStep

LEMMA NextChannelInv ==
  ChannelInv /\ [ChannelNext]_<<vars, cvars>> => ChannelInv'
<1> SUFFICES ASSUME ChannelInv, [ChannelNext]_<<vars, cvars>> PROVE ChannelInv'
  OBVIOUS
<1>1. CASE ChannelNext
  <2>1. ASSUME NEW p \in Procs, Crash(p), UNCHANGED cvars PROVE ChannelInv'
    <3>1. IInv'
      BY <2>1, CrashStep DEF ChannelInv
    <3> QED
      BY <2>1, <3>1
      DEF ChannelInv, Crash, ChannelLocals, WakeupPending, CallFits, cvars
  <2> QED
    BY <1>1, <2>1, ProducerStepInv, ConsumerStepInv DEF ChannelNext
<1>2. CASE UNCHANGED <<vars, cvars>>
  BY <1>2, BufferIdle
  DEF ChannelInv, ChannelLocals, WakeupPending, CallFits, vars, cvars
<1> QED
  BY <1>1, <1>2

(* The inductive invariant of the channel holds in every reachable state.  *)
THEOREM ChannelInvariance == ChannelSpec => []ChannelInv
<1>1. ChannelInit => ChannelInv
  BY InitChannelInv
<1>2. ChannelInv /\ [ChannelNext]_<<vars, cvars>> => ChannelInv'
  BY NextChannelInv
<1> QED
  BY <1>1, <1>2, PTL DEF ChannelSpec

(* All that IInv says of a buffer, and with it every invariant that        *)
(* IpcBufferProof derives, is true of the buffer inside a channel.         *)
THEOREM BufferHolds == ChannelSpec => []IInv
<1>1. ChannelInv => IInv
  BY DEF ChannelInv
<1> QED
  BY <1>1, ChannelInvariance, PTL

(* A reader that sleeps past a change of notify is about to be woken.      *)
THEOREM NoWakeupLost == ChannelSpec => []WakeupPending
<1>1. ChannelInv => WakeupPending
  BY DEF ChannelInv
<1> QED
  BY <1>1, ChannelInvariance, PTL

(* ipc_buffer_read never copies past the block _try_read allocated.        *)
THEOREM NoBlockOverrun == ChannelSpec => []CopyFits
<1>1. ChannelInv => CopyFits
  <2> SUFFICES ASSUME ChannelInv, NEW c \in Consumers, pc[c] = "r_copy"
               PROVE  hdr[c].payload_size <= block[c].cap
    BY DEF CopyFits
  <2>1. call[c].op = "read" /\ c \in Procs
    BY DEF ChannelInv, IInv, CoreInv, LocalInv, ReaderInv, Procs
  <2>2. hdr[c].payload_size <= call[c].n /\ call[c].n <= block[c].cap
    BY <2>1 DEF ChannelInv, CallFits
  <2>3. hdr[c].payload_size \in Nat /\ call[c].n \in Nat /\ block[c].cap \in Nat
    BY <2>1 DEF ChannelInv, ChannelLocals, Blocks, IInv, CoreInv, TypeOK, Headers, Calls
  <2> QED
    BY <2>2, <2>3
<1> QED
  BY <1>1, ChannelInvariance, PTL

-----------------------------------------------------------------------------
(* Types.                                                                  *)

ChannelStatuses == Statuses \cup {"IPC_ERR_SYSTEM", "IPC_ERR_TIMEOUT"}

LocalTypes ==
  /\ notify \in 0 .. NotifyMod - 1
  /\ cop \in [Consumers -> ChannelOps \cup {"none"}]
  /\ expected \in [Consumers -> 0 .. NotifyMod - 1]
  /\ due \in [Consumers -> BOOLEAN]
  /\ given \in [Consumers -> Blocks]
  /\ cret \in [Consumers -> ChannelStatuses]

(* Every return hands out a block and a status of the right types.         *)
LEMMA HandOverTypes ==
  ASSUME LocalTypes, NEW c \in Consumers, NEW s, s \in ChannelStatuses,
         NEW b, b \in Blocks, ChannelReturn(c, s, b)
  PROVE  LocalTypes'
<1>1. due' \in [Consumers -> BOOLEAN]
  BY Zenon DEF LocalTypes, ChannelReturn
<1>2. cret' \in [Consumers -> ChannelStatuses]
  BY Zenon DEF LocalTypes, ChannelReturn
<1>3. given' \in [Consumers -> Blocks]
  BY Zenon DEF LocalTypes, ChannelReturn
<1>4. notify' = notify /\ cop' = cop /\ expected' = expected
  BY DEF ChannelReturn
<1> QED
  BY <1>1, <1>2, <1>3, <1>4 DEF LocalTypes, ChannelStatuses, Statuses, Blocks

LEMMA TryReturnIsTyped ==
  ASSUME ChannelInv, LocalTypes, NEW c \in Consumers, NEW s \in ChannelStatuses,
         TryReturn(c, s)
  PROVE  LocalTypes'
<1>1. dest[c].size \in Nat /\ block[c] \in Blocks
  BY DEF ChannelInv, ChannelLocals, IInv, CoreInv, TypeOK, Received, Procs
<1>2. [block[c] EXCEPT !.size = dest[c].size] \in Blocks /\ NoBlock \in Blocks
  BY <1>1 DEF Blocks, NoBlock
<1>3. "IPC_OK" \in ChannelStatuses
  BY DEF ChannelStatuses, Statuses
<1>4. PICK t \in ChannelStatuses, b \in Blocks : ChannelReturn(c, t, b)
  BY <1>2, <1>3 DEF TryReturn
<1> QED BY <1>4, HandOverTypes

LEMMA StatusTypes ==
  ASSUME IInv, NEW p \in Procs
  PROVE  ret[p] \in ChannelStatuses
BY DEF IInv, CoreInv, TypeOK, ChannelStatuses

LEMMA NextTypes ==
  ASSUME ChannelInv, LocalTypes, [ChannelNext]_<<vars, cvars>>
  PROVE  LocalTypes'
<1>0. \A c \in Consumers : ret[c] \in ChannelStatuses
  BY StatusTypes DEF ChannelInv, Procs
<1>1. {"IPC_ERR_SYSTEM", "IPC_ERR_TIMEOUT", "IPC_OK"} \subseteq ChannelStatuses
      /\ NoBlock \in Blocks
  BY DEF ChannelStatuses, Statuses, NoBlock, Blocks
<1>2. ASSUME UNCHANGED cvars PROVE LocalTypes'
  BY <1>2 DEF LocalTypes, cvars
<1>3. ASSUME NEW p \in Producers,
             \/ \E n \in PayloadSizes, v \in Values : ChannelWrite(p, n, v)
             \/ \E n \in PayloadSizes : ChannelWriteReject(p, n)
             \/ ProducerStep(p)
      PROVE  LocalTypes'
  <2>1. CASE Notify(p)
    BY <2>1, ChannelAssumption DEF Notify, LocalTypes
  <2>2. CASE Wake(p)
    BY <2>2, ChannelAssumption DEF Wake, LocalTypes
  <2>3. CASE ~Notify(p) /\ ~Wake(p)
    BY <1>2, <1>3, <2>3
    DEF ProducerStep, ChannelWrite, ChannelWriteReject, WriteDone, LocalTypes
  <2> QED BY <2>1, <2>2, <2>3
<1>4. ASSUME NEW c \in Consumers,
             \/ ChannelRead(c) \/ ChannelTryRead(c)
             \/ ChannelPeek(c) \/ ChannelSkip(c) \/ ChannelSkipForce(c)
      PROVE  LocalTypes'
  <2>1. \E op, l : StartCall(c, op, l)
    BY <1>4
    DEF ChannelRead, ChannelTryRead, ChannelPeek, ChannelSkip, ChannelSkipForce
  <2> QED BY <1>1, <2>1 DEF StartCall, LocalTypes
<1>5. ASSUME NEW c \in Consumers, Forwarded(c) \/ ReadPeekDone(c) \/ ReadClock(c)
      PROVE  LocalTypes'
  <2>1. \/ \E s \in ChannelStatuses : ChannelReturn(c, s, NoBlock)
        \/ UNCHANGED <<notify, cop, expected, due, given, cret>>
    BY <1>0, <1>1, <1>5 DEF Forwarded, ReadPeekDone, ReadClock
  <2>2. ASSUME NEW s \in ChannelStatuses, ChannelReturn(c, s, NoBlock)
        PROVE  LocalTypes'
    BY <1>1, <2>2, HandOverTypes
  <2>3. CASE UNCHANGED <<notify, cop, expected, due, given, cret>>
    BY <2>3 DEF LocalTypes
  <2> QED BY <2>1, <2>2, <2>3
<1>6. ASSUME NEW c \in Consumers, TryPeekDone(c) \/ TryReadDone(c)
      PROVE  LocalTypes'
  <2>1. \/ \E s \in ChannelStatuses : TryReturn(c, s)
        \/ UNCHANGED <<notify, cop, expected, due, given, cret>>
    BY <1>0, <1>1, <1>6 DEF TryPeekDone, TryReadDone
  <2> QED BY <2>1, TryReturnIsTyped DEF LocalTypes
<1>7. ASSUME NEW c \in Consumers,
             \/ TryPeek(c) \/ ReadPeek(c) \/ ReadNotify(c) \/ ReadWait(c)
             \/ ReadTimeout(c) \/ Interrupt(c) \/ Expire(c)
      PROVE  LocalTypes'
  <2>1. /\ UNCHANGED <<notify, cop, given, cret>>
        /\ expected' \in {expected, [expected EXCEPT ![c] = notify],
                          [expected EXCEPT ![c] = 0]}
        /\ due' \in {due, [due EXCEPT ![c] = TRUE]}
    BY <1>7
    DEF TryPeek, ReadPeek, ReadNotify, ReadWait, ReadTimeout, Interrupt, Expire,
        ReadAgain
  <2>2. expected' \in [Consumers -> 0 .. NotifyMod - 1]
    BY <2>1, ChannelAssumption DEF LocalTypes
  <2>3. due' \in [Consumers -> BOOLEAN]
    BY Zenon, <2>1 DEF LocalTypes
  <2> QED BY <2>1, <2>2, <2>3 DEF LocalTypes
<1> QED
  BY <1>2, <1>3, <1>4, <1>5, <1>6, <1>7 DEF ChannelNext, ConsumerStep, vars, cvars

LEMMA InitTypes == ChannelInit => LocalTypes
BY ChannelAssumption
DEF ChannelInit, LocalTypes, ChannelStatuses, Statuses, NoBlock, Blocks

(* ChannelTypeOK holds in every state of a channel: notify and what        *)
(* readers remember of it stay 32-bit words, and every call returns a      *)
(* status of its list (ipc_channel.c).                                     *)
THEOREM ChannelTypes == ChannelSpec => []ChannelTypeOK
<1>1. ChannelInit => LocalTypes
  BY InitTypes
<1>2. ChannelInv /\ LocalTypes /\ [ChannelNext]_<<vars, cvars>> => LocalTypes'
  BY NextTypes
<1>3. ChannelInv /\ LocalTypes => ChannelTypeOK
  BY DEF ChannelInv, IInv, CoreInv, ChannelLocals, LocalTypes, ChannelTypeOK, ChannelStatuses
<1> QED
  BY <1>1, <1>2, <1>3, ChannelInvariance, PTL DEF ChannelSpec

-----------------------------------------------------------------------------
(* A channel makes the calls of its buffer; only the destination of a read *)
(* has a size of the channel's choosing.                                   *)
LEMMA ProducerDrives ==
  ASSUME NEW p \in Producers,
         \/ \E n \in PayloadSizes, v \in Values : ChannelWrite(p, n, v)
         \/ \E n \in PayloadSizes : ChannelWriteReject(p, n)
         \/ ProducerStep(p)
  PROVE  Produce(p) \/ UNCHANGED vars
BY DEF ChannelWrite, ChannelWriteReject, ProducerStep, WriteDone, Notify, Wake, Produce

LEMMA ConsumerDrives ==
  ASSUME NEW c \in Consumers,
         \/ ChannelRead(c) \/ ChannelTryRead(c)
         \/ ChannelPeek(c) \/ ChannelSkip(c) \/ ChannelSkipForce(c)
         \/ ConsumerStep(c) \/ Interrupt(c) \/ Expire(c)
  PROVE  \/ Consume(c) \/ UNCHANGED vars
         \/ TryPeekDone(c) /\ \E n : ReadCall(c, n)
<1>1. CASE \/ ChannelRead(c) \/ ChannelTryRead(c) \/ Forwarded(c)
           \/ TryReadDone(c) \/ ReadPeekDone(c) \/ ReadClock(c)
           \/ ReadNotify(c) \/ ReadWait(c) \/ ReadTimeout(c)
           \/ Interrupt(c) \/ Expire(c)
  BY <1>1
  DEF ChannelRead, ChannelTryRead, Forwarded, TryReadDone, ReadPeekDone,
      ReadClock, ReadNotify, ReadWait, ReadTimeout, Interrupt, Expire
<1>2. CASE TryPeekDone(c)
  BY <1>2 DEF TryPeekDone
<1>3. CASE \/ ChannelPeek(c) \/ ChannelSkip(c) \/ ChannelSkipForce(c)
           \/ TryPeek(c) \/ ReadPeek(c) \/ ConsumeStep(c)
  BY <1>3 DEF ChannelPeek, ChannelSkip, ChannelSkipForce, TryPeek, ReadPeek, Consume
<1> QED
  BY <1>1, <1>2, <1>3 DEF ConsumerStep

LEMMA ChannelDrives ==
  ASSUME [ChannelNext]_<<vars, cvars>>
  PROVE  \/ [Next]_vars
         \/ \E c \in Consumers : \E n : ReadCall(c, n)
BY ProducerDrives, ConsumerDrives DEF ChannelNext, Next

-----------------------------------------------------------------------------
(* Delivery.                                                               *)

Reads == {"read", "try_read"}

(* Where c is between taking an entry and handing it over: what it peeked  *)
(* carries no payload, nor does a write, and what it has read is given as  *)
(* it returns.                                                             *)
PayloadFree ==
  {"try_peek", "read_peek", "read_clock", "write", "notify", "wake"}

GivenInv(c) ==
  /\ pc[c] # "idle" => cpc[c] # "idle"
  /\ cpc[c] = "forward" => cop[c] \notin Reads
  /\ cpc[c] \in PayloadFree => dest[c].words = {}
  /\ cpc[c] = "idle" /\ HasReceived(c) /\ cop[c] \in Reads =>
       cret[c] = "IPC_OK" /\ given[c].size = dest[c].size

LEMMA KeepsGiven ==
  ASSUME NEW c \in Consumers, GivenInv(c),
         pc'[c] = pc[c], ret'[c] = ret[c], dest'[c] = dest[c],
         cop'[c] = cop[c], given'[c] = given[c], cret'[c] = cret[c],
         \/ cpc'[c] = cpc[c]
         \/ cpc[c] = "asleep" /\ cpc'[c] = "read_loop"
  PROVE  GivenInv(c)'
BY DEF GivenInv, PayloadFree, HasReceived

(* Only a read that has a block copies.                                    *)
LEMMA PeekCopiesNothing ==
  ASSUME ChannelInv, NEW c \in Consumers, ConsumeStep(c), cpc[c] # "try_read",
         dest[c].words = {}
  PROVE  dest'[c].words = {}
<1>1. c \in Procs /\ dest \in [Procs -> Received]
  BY DEF Procs, ChannelInv, IInv, CoreInv, TypeOK
<1>2. pc[c] # "r_copy"
  BY <1>1 DEF ChannelInv, CallFits, IInv, CoreInv, LocalInv, ReaderInv
<1>3. CASE ReadHeader(c)
  <2>1. CASE dest' = dest
    BY <2>1
  <2>2. CASE dest' = [dest EXCEPT ![c].offset = at[c],
                                  ![c].size = HeaderAt(RELATIVE(at[c])).payload_size]
    BY <1>1, <2>2 DEF Received
  <2> QED BY <1>3, <2>1, <2>2 DEF ReadHeader
<1>4. CASE ~ReadHeader(c)
  BY <1>2, <1>4
  DEF ConsumeStep, LoadHead, LockHead, ReadTail, CopyPayload, Advance, Unlock,
      ForceLoadHead, ForceLoadTail, ForceReadSize, ForceAdvance
<1> QED BY <1>3, <1>4

LEMMA InnerGiven ==
  ASSUME ChannelInv, NEW c \in Consumers, GivenInv(c), ConsumeStep(c),
         UNCHANGED cvars
  PROVE  GivenInv(c)'
<1>1. pc[c] # "idle"
  BY StepWithinCall DEF ChannelInv, IInv, CoreInv, Procs
<1>2. cpc[c] \in PayloadFree => dest'[c].words = {}
  BY PeekCopiesNothing DEF GivenInv, PayloadFree
<1> QED BY <1>1, <1>2 DEF GivenInv, PayloadFree, cvars

(* A call that returns without a payload has none to give.                 *)
LEMMA ReturnGiven ==
  ASSUME ChannelInv, LocalTypes, NEW c \in Consumers, GivenInv(c), At(c, cpc[c]),
         NEW s, NEW b, ChannelReturn(c, s, b), UNCHANGED vars,
         \/ dest[c].words = {} \/ cop[c] \notin Reads \/ ret[c] # "IPC_OK"
         \/ s = "IPC_OK" /\ b.size = dest[c].size
  PROVE  GivenInv(c)'
<1>1. /\ cop'[c] = cop[c] /\ cpc'[c] = "idle" /\ cret'[c] = s /\ given'[c] = b
      /\ pc'[c] = "idle" /\ ret'[c] = ret[c] /\ dest'[c] = dest[c]
  <2>1. c \in Procs /\ cpc \in [Procs -> ChannelLabels]
    BY DEF Procs, ChannelInv, ChannelLocals
  <2>2. given \in [Consumers -> Blocks] /\ cret \in [Consumers -> ChannelStatuses]
    BY DEF LocalTypes
  <2> QED BY <2>1, <2>2 DEF ChannelReturn, MoveTo, At, vars
<1> QED BY <1>1 DEF GivenInv, PayloadFree, HasReceived

LEMMA TryReturnGiven ==
  ASSUME ChannelInv, LocalTypes, NEW c \in Consumers, GivenInv(c), At(c, cpc[c]),
         NEW s, TryReturn(c, s), UNCHANGED vars,
         dest[c].words = {} \/ s = ret[c]
  PROVE  GivenInv(c)'
<1> DEFINE t == IF cop[c] = "read" /\ s \in RetryStatuses THEN "IPC_OK" ELSE s
           b == IF s = "IPC_OK" THEN [block[c] EXCEPT !.size = dest[c].size]
                ELSE NoBlock
<1>1. ChannelReturn(c, t, b)
  BY DEF TryReturn
<1>2. CASE dest[c].words = {} \/ ret[c] # "IPC_OK"
  BY <1>1, <1>2, ReturnGiven
<1>3. CASE s = "IPC_OK"
  <2>1. block[c] \in Blocks
    BY DEF ChannelInv, ChannelLocals
  <2>2. t = "IPC_OK" /\ b.size = dest[c].size
    BY <1>3, <2>1 DEF Blocks, RetryStatuses
  <2> HIDE DEF t, b
  <2> QED BY <1>1, <2>2, ReturnGiven
<1> QED BY <1>2, <1>3

(* c's own steps.                                                          *)
LEMMA OwnGiven ==
  ASSUME ChannelInv, LocalTypes, NEW c \in Consumers, GivenInv(c),
         \/ ChannelRead(c) \/ ChannelTryRead(c)
         \/ ChannelPeek(c) \/ ChannelSkip(c) \/ ChannelSkipForce(c)
         \/ ConsumerStep(c) \/ Interrupt(c) \/ Expire(c)
  PROVE  GivenInv(c)'
<1>0. /\ c \in Procs /\ cpc \in [Procs -> ChannelLabels]
      /\ pc \in [Procs -> Labels] /\ dest \in [Procs -> Received]
      /\ cop \in [Consumers -> ChannelOps \cup {"none"}]
  BY DEF Procs, ChannelInv, ChannelLocals, IInv, CoreInv, TypeOK, LocalTypes
<1>1. CASE ChannelRead(c) \/ ChannelTryRead(c)
  BY <1>0, <1>1 DEF ChannelRead, ChannelTryRead, StartCall, MoveTo, At, vars, GivenInv, PayloadFree
<1>2. CASE ChannelPeek(c) \/ ChannelSkip(c) \/ ChannelSkipForce(c)
  <2>1. cpc'[c] = "forward" /\ cop'[c] \notin Reads
    BY <1>0, <1>2
    DEF ChannelPeek, ChannelSkip, ChannelSkipForce, StartCall, MoveTo, Reads
  <2> QED BY <2>1 DEF GivenInv, PayloadFree
<1>3. CASE ConsumeStep(c) /\ UNCHANGED cvars
  BY <1>3, InnerGiven
<1>4. CASE TryPeek(c) \/ ReadPeek(c)
  <2>1. cpc'[c] \in {"try_peek", "read_peek"} /\ dest'[c] = NoDest
    BY <1>0, <1>4 DEF TryPeek, ReadPeek, PeekCall, Enter, MoveTo
  <2> QED BY <2>1 DEF GivenInv, PayloadFree, NoDest
<1>5. CASE Forwarded(c)
  <2>1. cop[c] \notin Reads /\ cpc[c] = "forward"
    BY <1>5 DEF Forwarded, At, GivenInv, PayloadFree
  <2> QED BY <1>5, <2>1, ReturnGiven DEF Forwarded
<1>6. CASE TryPeekDone(c)
  <2>1. cpc[c] = "try_peek" /\ At(c, cpc[c]) /\ dest[c].words = {}
    BY <1>6 DEF TryPeekDone, At, GivenInv, PayloadFree
  <2>2. CASE UNCHANGED vars /\ \E s \in {ret[c], "IPC_ERR_SYSTEM"} : TryReturn(c, s)
    BY <2>1, <2>2, TryReturnGiven
  <2>3. CASE MoveTo(c, "try_read")
    BY <1>0, <2>3 DEF MoveTo, GivenInv, PayloadFree
  <2> QED BY <1>6, <2>2, <2>3 DEF TryPeekDone
<1>7. CASE TryReadDone(c)
  <2>1. At(c, cpc[c]) /\ UNCHANGED vars
    BY <1>7 DEF TryReadDone, At
  <2>2. CASE TryReturn(c, ret[c])
    BY <2>1, <2>2, TryReturnGiven
  <2>3. CASE MoveTo(c, "try_loop")
    BY <1>0, <2>3 DEF MoveTo, GivenInv, PayloadFree
  <2> QED BY <1>7, <2>2, <2>3 DEF TryReadDone
<1>8. CASE ReadPeekDone(c) \/ ReadClock(c)
  <2>0. At(c, cpc[c]) /\ UNCHANGED vars /\ cpc[c] \in {"read_peek", "read_clock"}
    BY <1>8 DEF ReadPeekDone, ReadClock, At
  <2>1. At(c, cpc[c]) /\ UNCHANGED vars /\ dest[c].words = {} /\ dest'[c] = dest[c]
    BY <2>0 DEF GivenInv, PayloadFree, vars
  <2>2. CASE \E s : ChannelReturn(c, s, NoBlock)
    BY <2>1, <2>2, ReturnGiven
  <2>3. CASE \E l \in {"try_loop", "read_clock", "read_notify"} : MoveTo(c, l)
    BY <1>0, <2>1, <2>3 DEF MoveTo, GivenInv, PayloadFree
  <2> QED BY <1>8, <2>2, <2>3 DEF ReadPeekDone, ReadClock
<1>9. CASE ReadNotify(c) \/ ReadWait(c) \/ ReadTimeout(c) \/ Interrupt(c)
  <2>1. cpc'[c] \in {"read_wait", "asleep", "read_loop"}
    BY <1>0, <1>9
    DEF ReadNotify, ReadWait, ReadTimeout, Interrupt, ReadAgain, MoveTo
  <2> QED BY <2>1 DEF GivenInv, PayloadFree
<1>10. CASE Expire(c)
  BY <1>10, KeepsGiven DEF Expire, vars
<1> QED
  BY <1>1, <1>2, <1>3, <1>4, <1>5, <1>6, <1>7, <1>8, <1>9, <1>10 DEF ConsumerStep

(* A consumer's step is about its own call.                                *)
LEMMA ConsumersApart ==
  ASSUME ChannelInv, LocalTypes, NEW c \in Consumers, NEW d \in Consumers \ {c},
         \/ ChannelRead(d) \/ ChannelTryRead(d)
         \/ ChannelPeek(d) \/ ChannelSkip(d) \/ ChannelSkipForce(d)
         \/ ConsumerStep(d) \/ Interrupt(d) \/ Expire(d)
  PROVE  /\ OthersKeep(d)
         /\ cpc'[c] = cpc[c] /\ cop'[c] = cop[c]
         /\ given'[c] = given[c] /\ cret'[c] = cret[c]
<1> DEFINE Same == /\ cpc'[c] = cpc[c] /\ cop'[c] = cop[c]
                   /\ given'[c] = given[c] /\ cret'[c] = cret[c]
<1>0. /\ c \in Procs \ {d} /\ d \in Procs /\ cpc \in [Procs -> ChannelLabels]
      /\ cop \in [Consumers -> ChannelOps \cup {"none"}]
      /\ given \in [Consumers -> Blocks] /\ cret \in [Consumers -> ChannelStatuses]
      /\ TypeOK
  BY DEF Procs, ChannelInv, ChannelLocals, IInv, CoreInv, LocalTypes
<1>2. UNCHANGED vars => OthersKeep(d)
  BY DEF vars, OthersKeep
<1>3. ASSUME NEW k, NEW l, Enter(d, k, l) PROVE OthersKeep(d)
  BY <1>0, <1>3 DEF Enter, Goto, OthersKeep, TypeOK
<1>4. ASSUME NEW s, NEW b, ChannelReturn(d, s, b) PROVE Same
  BY <1>0, <1>4 DEF ChannelReturn, MoveTo
<1>5. ASSUME NEW l, MoveTo(d, l), UNCHANGED <<cop, given, cret>> PROVE Same
  BY <1>0, <1>5 DEF MoveTo
<1> HIDE DEF Same
<1>1. SUFFICES OthersKeep(d) /\ Same
  BY DEF Same
<1>6. CASE ConsumeStep(d) /\ UNCHANGED cvars
  <2>1. OthersKeep(d)
    BY <1>0, <1>6, StepWithinCall
  <2>2. Same
    BY <1>6 DEF Same, cvars
  <2> QED BY <2>1, <2>2
<1>7. CASE \/ ChannelRead(d) \/ ChannelTryRead(d)
           \/ ChannelPeek(d) \/ ChannelSkip(d) \/ ChannelSkipForce(d)
  <2>1. \E op, l : StartCall(d, op, l)
    BY <1>7
    DEF ChannelRead, ChannelTryRead, ChannelPeek, ChannelSkip, ChannelSkipForce
  <2>2. Same
    BY <1>0, <2>1 DEF StartCall, MoveTo, Same
  <2>3. SkipReject(d) => OthersKeep(d)
    BY <1>0 DEF SkipReject, Return, Goto, OthersKeep, TypeOK
  <2>4. OthersKeep(d)
    BY <1>2, <1>3, <1>7, <2>3
    DEF ChannelRead, ChannelTryRead, ChannelPeek, ChannelSkip, ChannelSkipForce,
        PeekCall, SkipCall, SkipForceCall
  <2> QED BY <2>2, <2>4
<1>8. CASE Forwarded(d) \/ ReadPeekDone(d) \/ ReadClock(d) \/ TryReadDone(d)
  <2>1. \/ \E s, b : ChannelReturn(d, s, b)
        \/ \E l : MoveTo(d, l) /\ UNCHANGED <<cop, given, cret>>
    BY <1>8 DEF Forwarded, ReadPeekDone, ReadClock, TryReadDone, TryReturn
  <2>2. OthersKeep(d)
    BY <1>2, <1>8 DEF Forwarded, ReadPeekDone, ReadClock, TryReadDone
  <2> QED BY <1>4, <1>5, <2>1, <2>2
<1>9. CASE TryPeek(d) \/ ReadPeek(d)
  <2>1. Same
    BY <1>5, <1>9 DEF TryPeek, ReadPeek
  <2>2. OthersKeep(d)
    BY <1>3, <1>9 DEF TryPeek, ReadPeek, PeekCall
  <2> QED BY <2>1, <2>2
<1>10. CASE TryPeekDone(d)
  <2>1. Same
    BY <1>4, <1>5, <1>10 DEF TryPeekDone, TryReturn
  <2>2. OthersKeep(d)
    BY <1>2, <1>3, <1>10 DEF TryPeekDone, ReadCall
  <2> QED BY <2>1, <2>2
<1>11. CASE \/ ReadNotify(d) \/ ReadWait(d) \/ ReadTimeout(d)
            \/ Interrupt(d) \/ Expire(d)
  <2>1. Same
    BY <1>5, <1>11
    DEF ReadNotify, ReadWait, ReadTimeout, Interrupt, Expire, ReadAgain, Same
  <2>2. OthersKeep(d)
    BY <1>2, <1>11 DEF ReadNotify, ReadWait, ReadTimeout, Interrupt, Expire
  <2> QED BY <2>1, <2>2
<1> QED
  BY <1>6, <1>7, <1>8, <1>9, <1>10, <1>11 DEF ConsumerStep

(* The steps of another consumer, and of the producers.                    *)
LEMMA OthersGiven ==
  ASSUME ChannelInv, LocalTypes, NEW c \in Consumers, GivenInv(c),
         NEW d \in Consumers \ {c},
         \/ ChannelRead(d) \/ ChannelTryRead(d)
         \/ ChannelPeek(d) \/ ChannelSkip(d) \/ ChannelSkipForce(d)
         \/ ConsumerStep(d) \/ Interrupt(d) \/ Expire(d)
  PROVE  GivenInv(c)'
<1>1. c \in Procs \ {d}
  BY DEF Procs
<1>2. /\ OthersKeep(d)
      /\ cpc'[c] = cpc[c] /\ cop'[c] = cop[c]
      /\ given'[c] = given[c] /\ cret'[c] = cret[c]
  BY ConsumersApart
<1> QED
  BY <1>1, <1>2, KeepsGiven DEF OthersKeep

LEMMA ProducerGiven ==
  ASSUME ChannelInv, NEW c \in Consumers, GivenInv(c), NEW p \in Producers,
         \/ \E n \in PayloadSizes, v \in Values : ChannelWrite(p, n, v)
         \/ \E n \in PayloadSizes : ChannelWriteReject(p, n)
         \/ ProducerStep(p)
  PROVE  GivenInv(c)'
<1>0. /\ c \in Procs /\ p \in Procs /\ cpc \in [Procs -> ChannelLabels]
      /\ TypeOK
  BY DEF Procs, ChannelInv, ChannelLocals, IInv, CoreInv
<1>1. cop' = cop /\ given' = given /\ cret' = cret
  BY DEF ChannelWrite, ChannelWriteReject, ProducerStep, WriteDone, Notify, Wake,
         cvars
<1>2. CASE WriteStep(p) /\ UNCHANGED cvars
  <2>1. OthersKeep(p) /\ pc[p] # "idle"
    BY <1>0, <1>2, StepWithinCall
  <2>2. dest' = dest
    BY <1>2 DEF WriteStep, WriteLoadTail, WriteLoadHead, WriteLock, WriteFill,
                WriteSeq, WriteCommit
  <2> QED BY <1>0, <1>2, <2>1, <2>2 DEF OthersKeep, GivenInv, HasReceived, cvars
<1>3. CASE \E n \in PayloadSizes, v \in Values : ChannelWrite(p, n, v)
  <2>1. /\ c # p => /\ pc'[c] = pc[c] /\ ret'[c] = ret[c] /\ dest'[c] = dest[c]
                   /\ cpc'[c] = cpc[c]
        /\ c = p => dest'[c] = NoDest /\ cpc'[c] = "write"
    BY <1>0, <1>3 DEF ChannelWrite, WriteCall, Enter, Goto, MoveTo, TypeOK
  <2> QED BY <1>1, <2>1 DEF GivenInv, PayloadFree, HasReceived, NoDest
<1>4. CASE \E n \in PayloadSizes : ChannelWriteReject(p, n)
  <2>1. /\ c # p => ret'[c] = ret[c]
        /\ c = p => ret'[c] # "IPC_OK"
        /\ pc'[c] = pc[c] /\ dest' = dest /\ cpc' = cpc
    BY <1>0, <1>4 DEF ChannelWriteReject, WriteReject, Return, Goto, TypeOK, cvars
  <2> QED BY <1>1, <2>1 DEF GivenInv, HasReceived
<1>5. CASE WriteDone(p) \/ Notify(p) \/ Wake(p)
  <2>1. pc' = pc /\ ret' = ret /\ dest' = dest
    BY <1>5 DEF WriteDone, Notify, Wake, vars
  <2>2. c # p => \/ cpc'[c] = cpc[c]
                 \/ cpc[c] = "asleep" /\ cpc'[c] = "read_loop"
    <3>1. CASE WriteDone(p) \/ Notify(p)
      BY <1>0, <3>1 DEF WriteDone, Notify, MoveTo
    <3>2. CASE Wake(p)
      BY <1>0, <3>2 DEF Wake
    <3> QED BY <1>5, <3>1, <3>2
  <2>6. pc[p] = "idle" /\ cpc[p] \in PayloadFree
    BY <1>5 DEF WriteDone, Notify, Wake, At, PayloadFree
  <2>3. CASE c # p
    BY <1>1, <2>1, <2>2, <2>3, KeepsGiven
  <2>4. CASE c = p
    <3>1. cpc'[c] \in {"notify", "wake", "idle"}
      BY <1>0, <1>5, <2>4 DEF WriteDone, Notify, Wake, MoveTo
    <3> QED BY <1>1, <2>1, <2>4, <2>6, <3>1 DEF GivenInv, PayloadFree, HasReceived
  <2> QED BY <2>3, <2>4
<1> QED BY <1>2, <1>3, <1>4, <1>5 DEF ProducerStep

(* What a read takes out of the buffer it hands to its caller, with its    *)
(* size, whatever came before the entry in its loop (ipc_channel.c:440).   *)
THEOREM NothingLostInside == ChannelSpec => []ReceivedIsGiven
<1> DEFINE Given == \A c \in Consumers : GivenInv(c)
<1>1. ChannelInit => Given
  BY DEF ChannelInit, Init, GivenInv, PayloadFree, HasReceived, NoDest, Procs
<1>2. ASSUME ChannelInv, LocalTypes, Given, [ChannelNext]_<<vars, cvars>>
      PROVE  Given'
  <2> SUFFICES ASSUME NEW c \in Consumers PROVE GivenInv(c)'
    OBVIOUS
  <2>1. GivenInv(c)
    BY <1>2
  <2>2. CASE UNCHANGED <<vars, cvars>>
    BY <2>1, <2>2, KeepsGiven DEF vars, cvars
  <2>3. ASSUME NEW p \in Procs, Crash(p), UNCHANGED cvars PROVE GivenInv(c)'
    BY <2>1, <2>3, KeepsGiven DEF Crash, cvars
  <2> QED
    BY <1>2, <2>1, <2>2, <2>3, OwnGiven, OthersGiven, ProducerGiven DEF ChannelNext
<1>3. Given => ReceivedIsGiven
  BY DEF GivenInv, ReceivedIsGiven, At, Reads
<1>4. ChannelInit => LocalTypes
  BY InitTypes
<1> HIDE DEF Given
<1>5. ChannelInv /\ LocalTypes /\ [ChannelNext]_<<vars, cvars>> => LocalTypes'
  BY NextTypes
<1>6. ChannelInv /\ LocalTypes /\ Given /\ [ChannelNext]_<<vars, cvars>> => Given'
  BY <1>2
<1> QED
  BY <1>1, <1>3, <1>4, <1>5, <1>6, ChannelInvariance, PTL DEF ChannelSpec

-----------------------------------------------------------------------------
(* Rounds of _try_read.                                                    *)

(* Since c peeked, either somebody else has moved head past what c saw, or *)
(* an entry that c has room for, n bytes, is still there.                  *)
Ahead(c, n) ==
  \/ known[c] < head /\ \E d \in Consumers : d # c
  \/ known[c] = head /\ \E e \in live : e.off = head /\ e.len > 0 /\ e.len <= n

Peeked(c) ==
  \E e \in live : e.off = at[c] /\ e.len > 0 /\ e.len = dest[c].size

Locking == {"r_head", "r_lock"} \cup HeadSection

RoundInv(c) ==
  /\ cpc[c] = "try_peek" /\ pc[c] # "idle" =>
       /\ call[c].op = "peek" /\ pc[c] \in Locking \ {"r_copy"}
       /\ pc[c] = "r_advance" => Placeholder(hdr[c])
       /\ pc[c] = "r_unlock" /\ ret[c] = "IPC_OK" => Peeked(c)
  /\ cpc[c] = "try_peek" /\ pc[c] = "idle" /\ ret[c] = "IPC_OK" =>
       Ahead(c, dest[c].size) /\ dest[c].size \in PayloadSizes \ {0}
  /\ cpc[c] = "try_read" /\ pc[c] # "idle" =>
       /\ call[c].op = "read" /\ pc[c] \in Locking
       /\ Ahead(c, call[c].n)
       /\ pc[c] = "r_unlock" /\ ret[c] = "IPC_ERR_TOO_SMALL" =>
            known[c] < at[c] /\ \E d \in Consumers : d # c
       /\ pc[c] = "r_unlock" => ret[c] # "IPC_OK"
  /\ cpc[c] = "try_read" /\ pc[c] = "idle" /\ ret[c] = "IPC_OK" =>
       dest[c].words # {}

(* What a step of somebody else may do about c.                            *)
Elsewhere(c) ==
  /\ pc'[c] = pc[c] /\ call'[c] = call[c] /\ at'[c] = at[c]
  /\ hdr'[c] = hdr[c] /\ dest'[c] = dest[c] /\ ret'[c] = ret[c]
  /\ known'[c] = known[c]
  /\ cpc'[c] = cpc[c] \/ cpc'[c] \notin {"try_peek", "try_read"}
  /\ \/ head' = head /\ live \subseteq live'
     \/ head < head' /\ \E d \in Consumers : d # c

LEMMA AheadStays ==
  ASSUME IInv, IInv', NEW c \in Consumers, NEW n \in Nat, Ahead(c, n),
         known'[c] = known[c],
         \/ head' = head /\ live \subseteq live'
         \/ head < head' /\ \E d \in Consumers : d # c
  PROVE  Ahead(c, n)'
<1>1. known[c] \in Nat /\ head \in Nat /\ head' \in Nat
  BY DEF IInv, CoreInv, TypeOK
<1> QED
  BY <1>1 DEF Ahead

LEMMA ElsewhereRound ==
  ASSUME IInv, IInv', NEW c \in Consumers, RoundInv(c), Elsewhere(c)
  PROVE  RoundInv(c)'
<1>1. /\ c \in Procs /\ dest[c].size \in Nat /\ call[c].n \in Nat
      /\ head \in Nat /\ head' \in Nat
  BY DEF Procs, IInv, CoreInv, TypeOK, Received, Calls
<1>2. \A n \in Nat : Ahead(c, n) => Ahead(c, n)'
  BY AheadStays DEF Elsewhere
<1>3. pc[c] = "r_unlock" /\ Peeked(c) => Peeked(c)'
  <2>1. pc[c] = "r_unlock" => at[c] = head /\ at'[c] = head'
    BY <1>1 DEF IInv, HeadDiscipline, HeadHolders, HeadSection, Elsewhere
  <2> QED
    BY <1>1, <2>1 DEF Peeked, Elsewhere
<1> QED
  BY <1>1, <1>2, <1>3 DEF RoundInv, Elsewhere, Placeholder

(* With head locked, the entry that is there is the one that was.          *)
LEMMA RoomForHead ==
  ASSUME IInv, NEW c \in Consumers, NEW n \in Nat, Ahead(c, n), at[c] = head,
         NEW e \in live, e.off = head, e.len = 0 \/ e.len > n
  PROVE  known[c] < head /\ \E d \in Consumers : d # c
<1>1. \A f \in live : f.off = head => f = e
  BY TicketsDiffer DEF IInv
<1>2. e.len \in Nat
  BY LiveTypes DEF IInv, CoreInv
<1> QED
  BY <1>1, <1>2 DEF Ahead

(* The steps of ipc_buffer_peek.                                           *)
LEMMA PeekRound ==
  ASSUME IInv, IInv', DataInv, NEW c \in Consumers, RoundInv(c), ConsumeStep(c),
         cpc[c] = "try_peek", cpc' = cpc
  PROVE  RoundInv(c)'
<1>0. /\ c \in Procs /\ pc \in [Procs -> Labels] /\ call \in [Procs -> Calls]
      /\ at \in [Procs -> Nat] /\ hdr \in [Procs -> Headers]
      /\ dest \in [Procs -> Received] /\ ret \in [Procs -> Statuses]
      /\ known \in [Consumers -> Nat] /\ head \in Nat /\ tail \in Nat
  BY DEF Procs, IInv, CoreInv, TypeOK
<1>1. pc[c] # "idle"
  BY <1>0, StepWithinCall DEF IInv, CoreInv
<1>2. /\ call[c].op = "peek" /\ pc[c] \in Locking \ {"r_copy"}
      /\ pc[c] = "r_advance" => Placeholder(hdr[c])
      /\ pc[c] = "r_unlock" /\ ret[c] = "IPC_OK" => Peeked(c)
  BY <1>1 DEF RoundInv
<1>3. pc[c] \in HeadSection => at[c] = head /\ headLocked
  BY <1>0 DEF IInv, HeadDiscipline, HeadHolders
<1>4. CASE LoadHead(c) \/ LockHead(c) \/ ReadTail(c)
  <2>1. \/ pc'[c] \in {"r_head", "r_lock", "r_tail", "r_header"} /\ call'[c] = call[c]
        \/ pc'[c] = "r_unlock" /\ ret'[c] # "IPC_OK" /\ call'[c] = call[c]
        \/ pc'[c] = "idle" /\ ret'[c] # "IPC_OK"
    BY <1>0, <1>4 DEF LoadHead, LockHead, ReadTail, GiveBack, Goto, Return
  <2> QED
    BY <1>2, <2>1 DEF RoundInv, Locking, HeadSection
<1>5. CASE ReadHeader(c)
  <2>1. at[c] = head /\ at[c] < tail
    BY <1>0, <1>3, <1>5
    DEF ReadHeader, HeadSection, IInv, CoreInv, LocalInv, ReaderInv
  <2>2. PICK e \in live : /\ e.off = at[c]
                          /\ HeaderAt(RELATIVE(at[c])) =
                               [payload_size |-> e.len, entry_size |-> e.size]
    BY <1>0, <2>1, EntryAtHead DEF IInv
  <2>3. e.len \in Nat
    BY LiveTypes DEF IInv, CoreInv
  <2>4. call'[c] = call[c] /\ live' = live /\ at'[c] = at[c]
    BY <1>5 DEF ReadHeader, shared
  <2>5. CASE pc'[c] = "r_advance"
    <3>1. Placeholder(hdr'[c])
      BY <1>0, <1>2, <1>5, <2>5 DEF ReadHeader, GiveBack, Goto
    <3> QED
      BY <1>2, <2>4, <2>5, <3>1 DEF RoundInv, Locking, HeadSection, Placeholder
  <2>6. CASE pc'[c] = "r_unlock"
    <3>1. ret'[c] = "IPC_OK" => e.len > 0 /\ dest'[c].size = e.len
      BY <1>0, <1>2, <1>5, <2>2, <2>3, <2>6
      DEF ReadHeader, GiveBack, Goto, Placeholder, Received
    <3>2. ret'[c] = "IPC_OK" => Peeked(c)'
      BY <2>2, <2>4, <3>1 DEF Peeked
    <3> QED
      BY <1>2, <2>4, <2>6, <3>2 DEF RoundInv, Locking, HeadSection
  <2> QED
    BY <1>0, <1>2, <1>5, <2>5, <2>6 DEF ReadHeader, GiveBack, Goto
<1>6. CASE Advance(c)
  <2>1. pc'[c] = "r_head" /\ call'[c] = call[c]
    BY <1>0, <1>2, <1>3, <1>6 DEF Advance, Goto, HeadSection
  <2> QED
    BY <1>2, <2>1 DEF RoundInv, Locking
<1>7. CASE Unlock(c)
  <2>1. at[c] = head /\ headLocked
    BY <1>3, <1>7 DEF Unlock, HeadSection
  <2>2. /\ pc'[c] = "idle" /\ ret'[c] = ret[c] /\ dest' = dest
        /\ head' = head /\ live' = live
        /\ ret[c] = "IPC_OK" => known'[c] = head
    BY <1>0, <1>7, <2>1 DEF Unlock, Return, Goto, Report
  <2>3. ret[c] = "IPC_OK" => Peeked(c)
    BY <1>2, <1>7 DEF Unlock
  <2>4. dest[c].size \in Nat
    BY <1>0 DEF Received
  <2>5. ret'[c] = "IPC_OK" => Ahead(c, dest[c].size)'
    BY <2>1, <2>2, <2>3, <2>4 DEF Ahead, Peeked
  <2>6. ret[c] = "IPC_OK" => dest[c].size \in PayloadSizes \ {0}
    BY <2>3, <2>4 DEF Peeked, DataInv, Storable
  <2> QED
    BY <2>2, <2>5, <2>6 DEF RoundInv
<1>8. CASE CopyPayload(c) \/ ForceLoadHead(c) \/ ForceLoadTail(c)
           \/ ForceReadSize(c) \/ ForceAdvance(c)
  BY <1>2, <1>8
  DEF CopyPayload, ForceLoadHead, ForceLoadTail, ForceReadSize, ForceAdvance,
      Locking, HeadSection
<1> QED
  BY <1>4, <1>5, <1>6, <1>7, <1>8 DEF ConsumeStep

(* The steps of ipc_buffer_read: a placeholder is passed only when c is    *)
(* beaten already, and TOO_SMALL is answered only then.                    *)
LEMMA ReadRound ==
  ASSUME IInv, IInv', NEW c \in Consumers, RoundInv(c), ConsumeStep(c),
         cpc[c] = "try_read", cpc' = cpc
  PROVE  RoundInv(c)'
<1>0. /\ c \in Procs /\ pc \in [Procs -> Labels] /\ call \in [Procs -> Calls]
      /\ at \in [Procs -> Nat] /\ hdr \in [Procs -> Headers]
      /\ ret \in [Procs -> Statuses] /\ dest \in [Procs -> Received]
      /\ known \in [Consumers -> Nat] /\ head \in Nat /\ head' \in Nat /\ tail \in Nat
      /\ call[c].n \in Nat
  BY DEF Procs, IInv, CoreInv, TypeOK, Calls
<1>1. pc[c] # "idle"
  BY <1>0, StepWithinCall DEF IInv, CoreInv
<1>2. /\ call[c].op = "read" /\ pc[c] \in Locking /\ Ahead(c, call[c].n)
      /\ pc[c] = "r_unlock" => ret[c] # "IPC_OK"
  BY <1>1 DEF RoundInv
<1>3. pc[c] \in HeadSection => at[c] = head /\ headLocked
  BY <1>0 DEF IInv, HeadDiscipline, HeadHolders
<1>4. CASE LoadHead(c) \/ LockHead(c) \/ ReadTail(c) \/ CopyPayload(c)
  <2>1. \/ /\ pc'[c] \in Locking /\ call'[c] = call[c] /\ known'[c] = known[c]
           /\ head' = head /\ live' = live
           /\ pc'[c] = "r_unlock" => ret'[c] \notin {"IPC_OK", "IPC_ERR_TOO_SMALL"}
        \/ pc'[c] = "idle" /\ ret'[c] # "IPC_OK"
    BY <1>0, <1>4
    DEF LoadHead, LockHead, ReadTail, CopyPayload, GiveBack, Goto, Return, Locking,
        HeadSection, shared
  <2> QED
    BY <1>2, <2>1 DEF RoundInv, Ahead, Locking, HeadSection
<1>5. CASE ReadHeader(c)
  <2>1. at[c] = head /\ at[c] < tail
    BY <1>0, <1>3, <1>5
    DEF ReadHeader, HeadSection, IInv, CoreInv, LocalInv, ReaderInv
  <2>2. PICK e \in live : /\ e.off = at[c]
                          /\ HeaderAt(RELATIVE(at[c])) =
                               [payload_size |-> e.len, entry_size |-> e.size]
    BY <1>0, <2>1, EntryAtHead DEF IInv
  <2>3. e.len \in Nat
    BY LiveTypes DEF IInv, CoreInv
  <2>4. /\ call'[c] = call[c] /\ live' = live /\ at' = at /\ head' = head
        /\ known' = known
    BY <1>5 DEF ReadHeader, shared
  <2>5. /\ pc'[c] \in {"r_advance", "r_unlock", "r_copy"}
        /\ pc'[c] = "r_unlock" => ret'[c] # "IPC_OK"
        /\ pc'[c] = "r_unlock" /\ ret'[c] = "IPC_ERR_TOO_SMALL" => call[c].n < e.len
    BY <1>0, <1>2, <1>5, <2>2 DEF ReadHeader, GiveBack, Goto
  <2>6. call[c].n < e.len => known[c] < head /\ \E d \in Consumers : d # c
    BY <1>0, <1>2, <2>1, <2>2, <2>3, RoomForHead
  <2> QED
    BY <1>2, <2>1, <2>4, <2>5, <2>6 DEF RoundInv, Ahead, Locking, HeadSection
<1>6. CASE Advance(c)
  <2>1. pc[c] = "r_advance" /\ at[c] = head
    BY <1>3, <1>6 DEF Advance, HeadSection
  <2>2. CASE pc'[c] = "idle"
    <3>1. dest'[c] = dest[c] /\ ~Placeholder(hdr[c])
      BY <1>0, <1>3, <1>6, <2>1, <2>2 DEF Advance, Goto, HeadSection
    <3>2. ReaderInv(c) /\ HasCopied(c)
      BY <1>0, <1>2, <2>1, <3>1 DEF IInv, CoreInv, LocalInv, HasCopied
    <3>3. PICK e \in live : dest[c] = [offset |-> e.off, size |-> e.len,
                                       words |-> {e.val}]
      BY <2>1, <3>2 DEF ReaderInv
    <3>4. dest[c].words # {}
      BY <3>3
    <3> QED
      BY <2>2, <3>1, <3>4 DEF RoundInv
  <2>3. CASE pc'[c] # "idle"
    <3>1. /\ pc'[c] = "r_head" /\ call'[c] = call[c] /\ known'[c] = known[c]
          /\ Placeholder(hdr[c]) /\ head' = at[c] + hdr[c].entry_size
      BY <1>0, <1>6, <2>3 DEF Advance, Goto, Return
    <3>2. PICK e \in live : e.off = at[c] /\ hdr[c] = [payload_size |-> e.len,
                                                       entry_size |-> e.size]
      BY <1>0, <2>1 DEF IInv, CoreInv, LocalInv, ReaderInv, HoldsEntry
    <3>3. e.len = 0
      BY <3>1, <3>2 DEF Placeholder
    <3>4. known[c] < head /\ \E d \in Consumers : d # c
      BY <1>0, <1>2, <2>1, <3>2, <3>3, RoomForHead
    <3>5. e.size \in Nat
      BY LiveTypes DEF IInv, CoreInv
    <3>6. head <= head'
      BY <1>0, <2>1, <3>1, <3>2, <3>5
    <3> QED
      BY <1>0, <1>2, <3>1, <3>4, <3>6 DEF RoundInv, Ahead, Locking
  <2> QED
    BY <2>2, <2>3
<1>7. CASE Unlock(c)
  <2>1. pc'[c] = "idle" /\ ret'[c] # "IPC_OK"
    BY <1>0, <1>2, <1>7 DEF Unlock, Return, Goto
  <2> QED
    BY <2>1 DEF RoundInv
<1>8. CASE ForceLoadHead(c) \/ ForceLoadTail(c) \/ ForceReadSize(c) \/ ForceAdvance(c)
  BY <1>2, <1>8
  DEF ForceLoadHead, ForceLoadTail, ForceReadSize, ForceAdvance, Locking, HeadSection
<1> QED
  BY <1>4, <1>5, <1>6, <1>7, <1>8 DEF ConsumeStep

(* c's own steps; the block that a read is given has room for the entry    *)
(* that the peek saw.                                                      *)
LEMMA OwnRound ==
  ASSUME ChannelInv, ChannelInv', DataInv, NEW c \in Consumers, RoundInv(c),
         \/ ChannelRead(c) \/ ChannelTryRead(c)
         \/ ChannelPeek(c) \/ ChannelSkip(c) \/ ChannelSkipForce(c)
         \/ ConsumerStep(c) \/ Interrupt(c) \/ Expire(c)
  PROVE  RoundInv(c)'
<1>0. /\ c \in Procs /\ cpc \in [Procs -> ChannelLabels] /\ TypeOK
      /\ block[c] \in Blocks /\ IInv /\ IInv'
  BY DEF Procs, ChannelInv, ChannelLocals, IInv, CoreInv
<1>1. CASE ConsumeStep(c) /\ UNCHANGED cvars
  <2>1. cpc' = cpc
    BY <1>1 DEF cvars
  <2> QED
    BY <1>0, <1>1, <2>1, PeekRound, ReadRound DEF RoundInv
<1>2. ASSUME cpc'[c] \notin {"try_peek", "try_read"} PROVE RoundInv(c)'
  BY <1>2 DEF RoundInv
<1>3. CASE TryPeek(c)
  <2>1. /\ cpc'[c] = "try_peek" /\ pc'[c] = "r_head" /\ call'[c].op = "peek"
    BY <1>0, <1>3 DEF TryPeek, PeekCall, Enter, Goto, MoveTo, TypeOK
  <2> QED
    BY <2>1 DEF RoundInv, Locking
<1>4. CASE TryPeekDone(c)
  <2> DEFINE b == Grown(c, dest[c].size)
  <2>1. CASE \E s : TryReturn(c, s)
    <3>1. cpc'[c] = "idle"
      BY <1>0, <2>1 DEF TryReturn, ChannelReturn, MoveTo
    <3> QED
      BY <1>2, <3>1
  <2>2. CASE ret[c] = "IPC_OK" /\ ReadCall(c, b.size) /\ MoveTo(c, "try_read")
    <3>1. dest[c].size \in Nat /\ b.size \in Nat /\ b.size >= dest[c].size
      BY <1>0 DEF Grown, Blocks, TypeOK, Received
    <3>2. Ahead(c, dest[c].size)
      BY <1>4, <2>2 DEF RoundInv, TryPeekDone, At
    <3> HIDE DEF b
    <3>3. /\ cpc'[c] = "try_read" /\ pc'[c] = "r_head" /\ call'[c].op = "read"
          /\ call'[c].n = b.size /\ known' = known /\ head' = head /\ live' = live
      BY <1>0, <2>2 DEF ReadCall, Enter, Goto, MoveTo, TypeOK, shared
    <3>4. \A e \in live : e.len \in Nat
      BY <1>0, LiveTypes
    <3>5. Ahead(c, call[c].n)'
      BY <3>1, <3>2, <3>3, <3>4 DEF Ahead
    <3> QED
      BY <3>3, <3>5 DEF RoundInv, Locking
  <2> QED
    BY <1>4, <2>1, <2>2 DEF TryPeekDone
<1>5. CASE TryReadDone(c) \/ Forwarded(c) \/ ReadPeekDone(c) \/ ReadClock(c)
  <2>1. cpc'[c] \in {"idle", "try_loop", "read_clock", "read_notify"}
    BY <1>0, <1>5
    DEF TryReadDone, Forwarded, ReadPeekDone, ReadClock, TryReturn, ChannelReturn, MoveTo
  <2> QED
    BY <1>2, <2>1
<1>6. CASE \/ ChannelRead(c) \/ ChannelTryRead(c) \/ ReadPeek(c)
           \/ ChannelPeek(c) \/ ChannelSkip(c) \/ ChannelSkipForce(c)
           \/ ReadNotify(c) \/ ReadWait(c) \/ ReadTimeout(c) \/ Interrupt(c)
  <2>1. cpc'[c] \in {"read_loop", "try_loop", "read_peek", "forward", "read_wait",
                     "asleep"}
    BY <1>0, <1>6
    DEF ChannelRead, ChannelTryRead, ReadPeek, ChannelPeek, ChannelSkip,
        ChannelSkipForce, StartCall, ReadNotify, ReadWait, ReadTimeout, Interrupt,
        ReadAgain, MoveTo
  <2> QED
    BY <1>2, <2>1
<1>7. CASE Expire(c)
  BY <1>7 DEF Expire, vars, RoundInv, Ahead, Peeked, Placeholder
<1> QED
  BY <1>1, <1>3, <1>4, <1>5, <1>6, <1>7 DEF ConsumerStep

(* The steps of the others.                                                *)
LEMMA ConsumersElsewhere ==
  ASSUME ChannelInv, LocalTypes, NEW c \in Consumers, NEW d \in Consumers \ {c},
         \/ ChannelRead(d) \/ ChannelTryRead(d)
         \/ ChannelPeek(d) \/ ChannelSkip(d) \/ ChannelSkipForce(d)
         \/ ConsumerStep(d) \/ Interrupt(d) \/ Expire(d)
  PROVE  Elsewhere(c)
<1>1. CoreInv /\ c \in Procs \ {d} /\ d \in Procs
  BY DEF ChannelInv, IInv, Procs
<1>2. OthersKeep(d) /\ cpc'[c] = cpc[c]
  BY ConsumersApart
<1>3. /\ known'[c] = known[c]
      /\ (head' = head /\ live' = live) \/ head < head'
  BY <1>1, ConsumerDrives, ConsumerRing DEF vars
<1> QED
  BY <1>1, <1>2, <1>3 DEF Elsewhere, OthersKeep

LEMMA ProducersRound ==
  ASSUME ChannelInv, ChannelInv', NEW c \in Consumers, RoundInv(c),
         NEW p \in Producers,
         \/ \E n \in PayloadSizes, v \in Values : ChannelWrite(p, n, v)
         \/ \E n \in PayloadSizes : ChannelWriteReject(p, n)
         \/ ProducerStep(p)
  PROVE  RoundInv(c)'
<1>1. /\ c \in Procs /\ p \in Procs /\ cpc \in [Procs -> ChannelLabels]
      /\ TypeOK /\ TailDiscipline /\ IInv /\ IInv'
  BY DEF Procs, ChannelInv, ChannelLocals, IInv, CoreInv
<1>2. \/ cpc' = cpc /\ (WriteStep(p) \/ cpc[p] = "idle")
      \/ \E l \in {"write", "notify", "wake", "idle"} : MoveTo(p, l)
      \/ Wake(p)
  BY DEF ChannelWrite, ChannelWriteReject, ProducerStep, WriteDone, Notify, At, cvars
<1>3. CASE c # p
  <2>1. OthersKeep(p) /\ known' = known /\ head' = head /\ live \subseteq live'
    BY <1>1, ProducerDrives, ProduceHead, ProducerRing DEF vars, OthersKeep
  <2>2. cpc'[c] = cpc[c] \/ cpc'[c] \notin {"try_peek", "try_read"}
    BY <1>1, <1>2, <1>3 DEF MoveTo, Wake
  <2> QED
    BY <1>1, <1>3, <2>1, <2>2, ElsewhereRound DEF Elsewhere, OthersKeep
<1>4. CASE c = p
  <2>1. WriteStep(c) => pc[c] \notin Locking \cup {"idle"}
    BY DEF WriteStep, WriteLoadTail, WriteLoadHead, WriteLock, WriteFill, WriteSeq,
           WriteCommit, Locking, HeadSection
  <2>2. cpc'[c] \notin {"try_peek", "try_read"}
    BY <1>1, <1>2, <1>4, <2>1 DEF MoveTo, Wake, RoundInv
  <2> QED
    BY <2>2 DEF RoundInv
<1> QED
  BY <1>3, <1>4

LEMMA NextRound ==
  ASSUME ChannelInv, ChannelInv', LocalTypes, DataInv, NEW c \in Consumers,
         RoundInv(c), [ChannelNext]_<<vars, cvars>>
  PROVE  RoundInv(c)'
<1>0. IInv /\ IInv'
  BY DEF ChannelInv
<1>1. CASE UNCHANGED <<vars, cvars>>
  BY <1>0, <1>1, ElsewhereRound DEF Elsewhere, vars, cvars
<1>2. ASSUME NEW p \in Procs, Crash(p), UNCHANGED cvars PROVE RoundInv(c)'
  BY <1>0, <1>2, ElsewhereRound DEF Elsewhere, Crash, shared, cvars
<1>3. ASSUME NEW d \in Consumers,
             \/ ChannelRead(d) \/ ChannelTryRead(d)
             \/ ChannelPeek(d) \/ ChannelSkip(d) \/ ChannelSkipForce(d)
             \/ ConsumerStep(d) \/ Interrupt(d) \/ Expire(d)
      PROVE  RoundInv(c)'
  <2>1. CASE d = c
    BY <1>3, <2>1, OwnRound
  <2>2. CASE d # c
    BY <1>0, <1>3, <2>2, ConsumersElsewhere, ElsewhereRound
  <2> QED
    BY <2>1, <2>2
<1> QED
  BY <1>1, <1>2, <1>3, ProducersRound DEF ChannelNext

(* What was peeked is the size of an entry, and so is what a reader makes  *)
(* its block for.                                                          *)
BlockSize(c) == block[c].size \in PayloadSizes \cup {0}

LEMMA GrownSize ==
  ASSUME ChannelInv, NEW c \in Consumers, RoundInv(c), BlockSize(c), At(c, "try_peek"),
         ret[c] = "IPC_OK"
  PROVE  Grown(c, dest[c].size).size \in PayloadSizes
<1> DEFINE n == dest[c].size
<1>0. n \in PayloadSizes \ {0}
  BY DEF RoundInv, At
<1> HIDE DEF n
<1>1. n \in Nat /\ n # 0
  BY <1>0, CallAssumption
<1>2. block[c].size \in Nat /\ block[c].cap \in Nat
  BY DEF ChannelInv, ChannelLocals, Blocks
<1>3. Grown(c, n).size \in PayloadSizes
  BY <1>0, <1>1, <1>2 DEF Grown, BlockSize
<1> QED
  BY <1>3 DEF n

LEMMA NextBlockSize ==
  ASSUME ChannelInv, NEW c \in Consumers, RoundInv(c), BlockSize(c),
         [ChannelNext]_<<vars, cvars>>
  PROVE  BlockSize(c)'
<1>0. block \in [Consumers -> Blocks]
  BY DEF ChannelInv, ChannelLocals
<1>1. CASE block' = block
  BY <1>1 DEF BlockSize
<1>2. ASSUME NEW d \in Consumers, NEW s, NEW b, ChannelReturn(d, s, b)
      PROVE  BlockSize(c)'
  BY <1>0, <1>2 DEF ChannelReturn, NoBlock, BlockSize
<1>3. ASSUME NEW d \in Consumers, TryPeekDone(d)
      PROVE  BlockSize(c)'
  <2>1. CASE /\ ret[d] = "IPC_OK"
             /\ block' = [block EXCEPT ![d] = Grown(d, dest[d].size)]
    BY <1>0, <1>3, <2>1, GrownSize DEF BlockSize, TryPeekDone
  <2> QED
    BY <1>2, <1>3, <2>1 DEF TryPeekDone, TryReturn
<1>4. \/ block' = block
      \/ \E d \in Consumers : TryPeekDone(d) \/ \E s, b : ChannelReturn(d, s, b)
  <2>1. ASSUME NEW p \in Producers,
               \/ \E n \in PayloadSizes, v \in Values : ChannelWrite(p, n, v)
               \/ \E n \in PayloadSizes : ChannelWriteReject(p, n)
               \/ ProducerStep(p)
        PROVE  block' = block
    BY <2>1
    DEF ChannelWrite, ChannelWriteReject, ProducerStep, WriteDone, Notify, Wake, cvars
  <2>2. ASSUME NEW d \in Consumers,
               \/ ChannelRead(d) \/ ChannelTryRead(d)
               \/ ChannelPeek(d) \/ ChannelSkip(d) \/ ChannelSkipForce(d)
        PROVE  block' = block
    BY <2>2
    DEF ChannelRead, ChannelTryRead, ChannelPeek, ChannelSkip, ChannelSkipForce, StartCall
  <2>3. ASSUME NEW d \in Consumers,
               \/ Forwarded(d) \/ TryReadDone(d) \/ ReadPeekDone(d) \/ ReadClock(d)
        PROVE  block' = block \/ \E s, b : ChannelReturn(d, s, b)
    BY <2>3 DEF Forwarded, TryReadDone, TryReturn, ReadPeekDone, ReadClock
  <2>4. ASSUME NEW d \in Consumers,
               \/ TryPeek(d) \/ ReadPeek(d) \/ ReadNotify(d) \/ ReadWait(d)
               \/ ReadTimeout(d) \/ Interrupt(d) \/ Expire(d)
        PROVE  block' = block
    BY <2>4 DEF TryPeek, ReadPeek, ReadNotify, ReadWait, ReadTimeout, Interrupt, Expire
  <2> QED
    BY <2>1, <2>2, <2>3, <2>4 DEF ChannelNext, ConsumerStep, cvars
<1> QED
  BY <1>1, <1>2, <1>3, <1>4

LEMMA ChannelData ==
  ASSUME CoreInv, DataInv, [ChannelNext]_<<vars, cvars>>
  PROVE  DataInv'
<1>1. ASSUME NEW c \in Consumers, NEW n, ReadCall(c, n)
      PROVE  DataInv'
  <2>1. c \in Procs
    BY DEF Procs
  <2>2. WriteArgs'
    BY <1>1, <2>1 DEF ReadCall, Enter, DataInv, WriteArgs, CoreInv, TypeOK
  <2> QED
    BY <1>1, <2>1, <2>2, StorableKeep DEF DataInv, Storable
<1> QED
  BY <1>1, DataKeeps, ChannelDrives

AllRounds ==
  LocalTypes /\ DataInv /\ \A c \in Consumers : RoundInv(c) /\ BlockSize(c)

LEMMA RoundsHold == ChannelSpec => []AllRounds
<1>1. ChannelInit => AllRounds
  <2>1. ChannelInit => \A c \in Consumers : RoundInv(c) /\ BlockSize(c)
    BY DEF ChannelInit, RoundInv, BlockSize, NoBlock, Procs
  <2> QED
    BY <2>1, InitTypes, InitData DEF AllRounds, ChannelInit
<1>2. ChannelInv /\ ChannelInv' /\ AllRounds /\ [ChannelNext]_<<vars, cvars>> => AllRounds'
  <2> SUFFICES ASSUME ChannelInv, ChannelInv', AllRounds, [ChannelNext]_<<vars, cvars>>
               PROVE  AllRounds'
    OBVIOUS
  <2>1. LocalTypes'
    BY NextTypes DEF AllRounds
  <2>2. DataInv'
    BY ChannelData DEF AllRounds, ChannelInv, IInv
  <2>3. \A c \in Consumers : RoundInv(c)' /\ BlockSize(c)'
    BY NextRound, NextBlockSize DEF AllRounds
  <2> QED
    BY <2>1, <2>2, <2>3 DEF AllRounds
<1> QED
  BY <1>1, <1>2, ChannelInvariance, PTL DEF ChannelSpec

(* A reader is sent round the loop of _try_read only when another consumer *)
(* has taken the entry it peeked (ipc_channel.c:425): a lone reader never  *)
(* is, and each round of one is an entry for another.                      *)
THEOREM RoundsCost == ChannelSpec => []RoundCostsEntry
<1>1. AllRounds => RoundCostsEntry
  BY DEF AllRounds, RoundInv, RoundCostsEntry
<1> QED
  BY <1>1, RoundsHold, PTL

(* The four ways out of read and try_read.                                 *)
LEMMA WhoReturns ==
  ASSUME ChannelInv, LocalTypes, ChannelNext, NEW c \in Consumers,
         cpc[c] \in {"read_peek", "read_clock", "try_peek", "try_read"},
         cpc'[c] = "idle"
  PROVE  TryPeekDone(c) \/ TryReadDone(c) \/ ReadPeekDone(c) \/ ReadClock(c)
<1>0. c \in Procs /\ cpc \in [Procs -> ChannelLabels]
  BY DEF Procs, ChannelInv, ChannelLocals
<1>1. ASSUME NEW p \in Producers,
             \/ \E n \in PayloadSizes, v \in Values : ChannelWrite(p, n, v)
             \/ \E n \in PayloadSizes : ChannelWriteReject(p, n)
             \/ ProducerStep(p)
      PROVE  FALSE
  <2>1. \/ cpc' = cpc
        \/ /\ cpc[p] \in {"idle", "write", "notify"}
           /\ \E l : MoveTo(p, l)
        \/ Wake(p)
    BY <1>1
    DEF ChannelWrite, ChannelWriteReject, ProducerStep, WriteDone, Notify, At, cvars
  <2> QED
    BY <1>0, <2>1 DEF MoveTo, Wake, At
<1>2. ASSUME NEW d \in Consumers \ {c},
             \/ ChannelRead(d) \/ ChannelTryRead(d)
             \/ ChannelPeek(d) \/ ChannelSkip(d) \/ ChannelSkipForce(d)
             \/ ConsumerStep(d) \/ Interrupt(d) \/ Expire(d)
      PROVE  FALSE
  BY <1>2, ConsumersApart
<1>3. ~(\/ ChannelRead(c) \/ ChannelTryRead(c)
        \/ ChannelPeek(c) \/ ChannelSkip(c) \/ ChannelSkipForce(c)
        \/ Forwarded(c) \/ Interrupt(c) \/ ReadWait(c) \/ ReadTimeout(c))
  BY DEF ChannelRead, ChannelTryRead, ChannelPeek, ChannelSkip, ChannelSkipForce,
         StartCall, Forwarded, Interrupt, ReadWait, ReadTimeout, At
<1>4. ~(Expire(c) \/ TryPeek(c) \/ ReadPeek(c) \/ ReadNotify(c))
  BY <1>0 DEF Expire, TryPeek, ReadPeek, ReadNotify, MoveTo
<1>5. cpc' # cpc
  OBVIOUS
<1> QED
  BY <1>1, <1>2, <1>3, <1>4, <1>5 DEF ChannelNext, ConsumerStep, cvars

(* An IPC_OK of read or try_read comes with an entry that was taken out of *)
(* the ring, or, from read only, with nothing (ipc_channel.c:288).         *)
THEOREM OkIsHonest == ChannelSpec => OkMeansEntry
<1>1. ASSUME ChannelInv, AllRounds, [ChannelNext]_<<vars, cvars>>
      PROVE  [OkComesWithEntry]_<<vars, cvars>>
  <2> SUFFICES ASSUME ChannelNext, NEW c \in Consumers,
                      cpc[c] \in {"read_peek", "read_clock", "try_peek", "try_read"},
                      cpc'[c] = "idle", cret'[c] = "IPC_OK"
               PROVE  \/ HasReceived(c) /\ given'[c].size = dest[c].size
                      \/ cop[c] = "read" /\ given'[c] = NoBlock
    BY <1>1 DEF OkComesWithEntry
  <2>0. /\ c \in Procs /\ cpc \in [Procs -> ChannelLabels] /\ LocalTypes
        /\ given \in [Consumers -> Blocks] /\ cret \in [Consumers -> ChannelStatuses]
        /\ block[c] \in Blocks /\ RoundInv(c)
    BY <1>1 DEF Procs, ChannelInv, ChannelLocals, AllRounds, LocalTypes
  <2>1. TryPeekDone(c) \/ TryReadDone(c) \/ ReadPeekDone(c) \/ ReadClock(c)
    BY <1>1, <2>0, WhoReturns
  <2>2. ASSUME NEW s, s \notin {"IPC_OK"}, TryReturn(c, s)
        PROVE  cop[c] = "read" /\ given'[c] = NoBlock
    BY <2>0, <2>2 DEF TryReturn, ChannelReturn
  <2>3. CASE TryPeekDone(c)
    <3>1. \E s \in {ret[c], "IPC_ERR_SYSTEM"} : s # "IPC_OK" /\ TryReturn(c, s)
      BY <2>0, <2>3 DEF TryPeekDone, MoveTo
    <3> QED
      BY <2>2, <3>1
  <2>4. CASE TryReadDone(c)
    <3>1. TryReturn(c, ret[c]) /\ At(c, "try_read")
      BY <2>0, <2>4 DEF TryReadDone, MoveTo
    <3>2. CASE ret[c] = "IPC_OK"
      <4>1. HasReceived(c)
        BY <2>0, <3>1, <3>2 DEF RoundInv, HasReceived, At
      <4>2. given'[c].size = dest[c].size
        BY <2>0, <3>1, <3>2 DEF TryReturn, ChannelReturn, Blocks
      <4> QED
        BY <4>1, <4>2
    <3> QED
      BY <2>2, <3>1, <3>2
  <2>5. CASE ReadPeekDone(c) \/ ReadClock(c)
    BY <2>0, <2>5 DEF ReadPeekDone, ReadClock, ChannelReturn, MoveTo
  <2> QED
    BY <2>1, <2>3, <2>4, <2>5
<1> QED
  BY <1>1, ChannelInvariance, RoundsHold, PTL DEF ChannelSpec, OkMeansEntry

-----------------------------------------------------------------------------
(* The buffer.                                                             *)

LEMMA StepsBuffer ==
  ASSUME ChannelInv, AllRounds, [ChannelNext]_<<vars, cvars>>
  PROVE  [Next]_vars
<1>1. ASSUME NEW p \in Producers \ dead,
             \/ \E n \in PayloadSizes, v \in Values : ChannelWrite(p, n, v)
             \/ \E n \in PayloadSizes : ChannelWriteReject(p, n)
             \/ ProducerStep(p)
      PROVE  [Next]_vars
  BY <1>1, ProducerDrives DEF Next
<1>2. ASSUME NEW c \in Consumers \ dead, TryPeekDone(c)
      PROVE  [Next]_vars
  <2>1. CASE UNCHANGED vars
    BY <2>1
  <2>2. CASE ret[c] = "IPC_OK" /\ ReadCall(c, Grown(c, dest[c].size).size)
    <3>1. Grown(c, dest[c].size).size \in Capacities
      BY <1>2, <2>2, GrownSize, ChannelAssumption DEF AllRounds, TryPeekDone
    <3>2. Consume(c)
      BY <2>2, <3>1 DEF Consume
    <3> QED
      BY <3>2 DEF Next
  <2> QED
    BY <1>2, <2>1, <2>2 DEF TryPeekDone
<1>3. ASSUME NEW c \in Consumers \ dead, ~TryPeekDone(c),
             \/ ChannelRead(c) \/ ChannelTryRead(c)
             \/ ChannelPeek(c) \/ ChannelSkip(c) \/ ChannelSkipForce(c)
             \/ ConsumerStep(c) \/ Interrupt(c) \/ Expire(c)
      PROVE  [Next]_vars
  BY <1>3, ConsumerDrives DEF Next
<1> QED
  BY <1>1, <1>2, <1>3 DEF ChannelNext, Next, vars

(* What a channel does to its buffer is a behaviour of the buffer: whatever*)
(* is true of every use of ipc_buffer.c is true of the use ipc_channel.c   *)
(* makes of it.                                                            *)
THEOREM ChannelUsesBuffer == ChannelSpec => Spec
<1>1. ChannelInit => Init
  BY DEF ChannelInit
<1> QED
  BY <1>1, StepsBuffer, ChannelInvariance, RoundsHold, PTL DEF ChannelSpec, Spec

(* So a channel's entries are as safe in its ring as a buffer's, a skip of *)
(* a channel removes what it names, and a channel that reports to be empty *)
(* or full is.                                                             *)
THEOREM ChannelIsSafe ==
  ChannelSpec => /\ [](RingBound /\ LiveIntact /\ EntriesJoin)
                 /\ [](CopyIntact /\ LockedEntryReady /\ DeliveredOnce)
                 /\ SkipsWhatWasNamed /\ RefusalsAreTrue
BY ChannelUsesBuffer, NoOverrun, EntriesIntact, EntriesJoined, ReadsIntact,
   NeverUnready, ExactlyOnce, SkipsExactly, TruthfulRefusals, PTL

(* Whatever the channel's callers do, the entries of its buffer are a      *)
(* queue: ipc_channel.c never breaks what ipc_buffer.c promises.           *)
THEOREM ChannelImplementsQueue == ChannelSpec => ImplementsFifo
BY ChannelUsesBuffer, ImplementsQueue
=============================================================================
