---------------------------- MODULE IpcFifoProof ----------------------------
(***************************************************************************)
(* The ring implements the queue.  An entry is appended by the CAS that    *)
(* unlocks tail, and taken or dropped by the CAS that moves head past it;  *)
(* every other step leaves the queue alone.  What is in the queue is read  *)
(* from the ring's memory, and CoreInv says that it is there.            *)
(***************************************************************************)
EXTENDS IpcBufferProof

(* The queue as the history has it.                                        *)
Abs(e) == [ticket |-> e.off, len |-> e.len, words |-> {e.val}]
DataEntries == {e \in live : e.len > 0}
Queue == {Abs(e) : e \in DataEntries}

(* A call that writes writes what its caller could pass.                   *)
WriteArgs ==
  \A p \in Procs :
    call[p].op = "write" => call[p].n \in PayloadSizes /\ call[p].v \in Values

NothingYet == [ticket |-> 0, len |-> 0, words |-> {}]

-----------------------------------------------------------------------------
(* The payload of an entry in memory is the one that was written.          *)
LEMMA WordsAre ==
  ASSUME CoreInv, NEW e \in live, e.len > 0
  PROVE  Words(RELATIVE(e.off), e.len) = {e.val}
<1> DEFINE r == RELATIVE(e.off)
<1>1. e.off \in Nat /\ e.len \in Nat /\ e.size \in Nat /\ e.val \in Nat
  BY LiveTypes DEF CoreInv
<1>2. \A c \in PayloadCells(r, e.len) : mem[c] = e.val
  BY DEF CoreInv, LiveIntact
<1>3. r \in 0 .. BufSize - 1 /\ r % 8 = 0 /\ r + e.size <= BufSize /\ 24 + e.len <= e.size
  BY <1>1, RelativeFacts, ModAligned, BufSizeAssumption
  DEF CoreInv, LiveInv, EntryFits, Boundary, RELATIVE, IPC_DATA_ALIGN, HeaderSize
<1> HIDE DEF r
<1>4. r + 24 \in PayloadCells(r, e.len)
  <2>1. r + 24 \in 0 .. BufSize - 1 /\ (r + 24) % 8 = 0
    BY <1>1, <1>3, BufSizeAssumption
  <2> QED
    BY <1>1, <1>3, <2>1 DEF PayloadCells, Cells, HeaderSize, IPC_DATA_ALIGN
<1>5. Words(r, e.len) = {e.val}
  BY <1>2, <1>4 DEF Words
<1> QED
  BY <1>5 DEF r

(* So the queue that is stored is the queue of the history.                *)
LEMMA QueueStored == CoreInv => StoredEntries = Queue
<1> SUFFICES ASSUME CoreInv PROVE StoredEntries = Queue
  OBVIOUS
<1> DEFINE Stored(e) == LET h == HeaderAt(RELATIVE(e.off)) IN
             [ticket |-> mem[SeqCell(RELATIVE(e.off))], len |-> h.payload_size,
              words |-> Words(RELATIVE(e.off), h.payload_size)]
<1>1. ASSUME NEW e \in DataEntries PROVE Stored(e) = Abs(e)
  <2>1. e \in live /\ e.len > 0
    BY DEF DataEntries
  <2>2. /\ mem[SeqCell(RELATIVE(e.off))] = e.off
        /\ HeaderAt(RELATIVE(e.off)) = [payload_size |-> e.len, entry_size |-> e.size]
    BY <2>1 DEF CoreInv, LiveIntact
  <2>3. Words(RELATIVE(e.off), e.len) = {e.val}
    BY <2>1, WordsAre
  <2> QED BY <2>2, <2>3 DEF Abs
<1>2. StoredEntries = {Stored(e) : e \in DataEntries}
  BY DEF StoredEntries, DataEntries
<1> HIDE DEF Stored
<1> QED BY <1>1, <1>2 DEF Queue

LEMMA QueueStoredNext == CoreInv' => (StoredEntries = Queue)'
BY QueueStored, PTL

-----------------------------------------------------------------------------
(* The steps between the two.                                              *)

(* p does something that neither appends nor removes, and has nothing to   *)
(* show for it.                                                            *)
Quiet(p) ==
  /\ live' = live /\ tail' = tail
  /\ OthersKeep(p) /\ ~HasReceived(p)'

LEMMA QuietImplements ==
  ASSUME CoreInv, CoreInv', NEW p \in Procs, Quiet(p)
  PROVE  [Fifo!Next]_(Fifo!vars)
<1>1. StoredEntries' = StoredEntries
  BY QueueStored, QueueStoredNext DEF Quiet, Queue, DataEntries
<1>2. \A q \in Consumers \ {p} : LastReceived'[q] = LastReceived[q]
  BY DEF Quiet, OthersKeep, LastReceived, HasReceived, Procs
<1>3. CASE p \in Consumers
  <2>1. LastReceived' = [LastReceived EXCEPT ![p] = NothingYet]
    <3>1. LastReceived'[p] = NothingYet
      BY <1>3 DEF Quiet, LastReceived, NothingYet
    <3> QED BY <1>2, <1>3, <3>1 DEF LastReceived
  <2>2. Fifo!Forget(p)
    BY <1>1, <2>1 DEF Quiet, Fifo!Forget, Fifo!Nothing, NothingYet
  <2> QED BY <1>3, <2>2 DEF Fifo!Next
<1>4. CASE p \notin Consumers
  <2>1. LastReceived' = LastReceived
    BY <1>2, <1>4 DEF LastReceived
  <2> QED BY <1>1, <2>1 DEF Quiet, Fifo!vars
<1> QED BY <1>3, <1>4

(* Between calls and inside them, a process that is neither at the CAS of  *)
(* a commit nor at one that moves head is quiet.                           *)
LEMMA EnterQuiet ==
  ASSUME CoreInv, NEW p \in Procs, NEW c, NEW l \in Labels \ {"idle"}, Enter(p, c, l)
  PROVE  Quiet(p)
BY DEF CoreInv, TypeOK, Enter, Goto, Quiet, OthersKeep, HasReceived, shared

(* A call that returns without having copied has nothing to hand out.      *)
LEMMA EmptyHanded ==
  ASSUME CoreInv, NEW p \in Procs, pc[p] # "idle", pc[p] # "r_advance"
  PROVE  dest[p].words = {}
BY DEF CoreInv, LocalInv, ReceivedInv, HasCopied

LEMMA RejectQuiet ==
  ASSUME CoreInv, NEW p \in Procs,
         SkipReject(p) \/ \E n \in PayloadSizes : WriteReject(p, n)
  PROVE  Quiet(p)
BY DEF CoreInv, TypeOK, SkipReject, WriteReject, Return, Goto, Quiet, OthersKeep,
       HasReceived, shared

LEMMA WriterQuiet ==
  ASSUME CoreInv, NEW p \in Procs,
         \/ WriteLoadTail(p) \/ WriteLoadHead(p) \/ WriteLock(p)
         \/ WriteFill(p) \/ WriteSeq(p)
  PROVE  Quiet(p)
BY EmptyHanded
DEF CoreInv, TypeOK, WriteLoadTail, WriteLoadHead, WriteLock, WriteFill, WriteSeq,
    Return, Goto, Quiet, OthersKeep, HasReceived, shared

LEMMA ReaderQuiet ==
  ASSUME CoreInv, NEW p \in Procs,
         \/ LoadHead(p) \/ LockHead(p) \/ ReadTail(p) \/ ReadHeader(p)
         \/ CopyPayload(p) \/ Unlock(p)
  PROVE  Quiet(p)
<1>1. CASE LoadHead(p) \/ LockHead(p) \/ ReadTail(p) \/ Unlock(p)
  BY <1>1, EmptyHanded
  DEF CoreInv, TypeOK, LoadHead, LockHead, ReadTail, Unlock, GiveBack,
      Return, Goto, Quiet, OthersKeep, HasReceived, shared
<1>2. CASE ReadHeader(p)
  BY <1>2 DEF CoreInv, TypeOK, ReadHeader, GiveBack, Goto, Quiet, OthersKeep,
              HasReceived, shared
<1>3. CASE CopyPayload(p)
  BY <1>3 DEF CoreInv, TypeOK, CopyPayload, Goto, Quiet, OthersKeep, HasReceived, shared
<1> QED BY <1>1, <1>2, <1>3

LEMMA ForceQuiet ==
  ASSUME CoreInv, NEW p \in Procs,
         ForceLoadHead(p) \/ ForceLoadTail(p) \/ ForceReadSize(p)
  PROVE  Quiet(p)
BY EmptyHanded
DEF CoreInv, TypeOK, ForceLoadHead, ForceLoadTail, ForceReadSize,
    Return, Goto, Quiet, OthersKeep, HasReceived, shared

-----------------------------------------------------------------------------
(* The commit appends its entry, or lets time pass for a placeholder.      *)
LEMMA CommitImplements ==
  ASSUME CoreInv, CoreInv', WriteArgs, NEW p \in Procs, WriteCommit(p)
  PROVE  [Fifo!Next]_(Fifo!vars)
<1> DEFINE h == hdr[p]
           new == [off |-> at[p], size |-> h.entry_size, len |-> h.payload_size,
                   val |-> call[p].v]
<1>1. /\ pc[p] = "w_commit" /\ LocalInv(p) /\ dest[p].words = {}
      /\ at[p] \in Nat /\ call[p] \in Calls /\ h \in Headers
      /\ head \in Nat /\ tail \in Nat
  BY DEF WriteCommit, CoreInv, TypeOK, LocalInv, ReceivedInv, HasCopied
<1>2. /\ call[p].op = "write" /\ call[p].n > 0 /\ h = PlannedHeader(p)
      /\ HeaderAt(RELATIVE(at[p])) = h /\ HeaderSize + h.payload_size <= h.entry_size
      /\ EntrySize(call[p].n) <= BufSize /\ Boundary(at[p])
  <2>1. /\ call[p].op = "write" /\ call[p].n > 0 /\ h = PlannedHeader(p)
        /\ HeaderAt(RELATIVE(at[p])) = h
        /\ EntrySize(call[p].n) <= BufSize /\ Boundary(at[p])
    BY <1>1 DEF LocalInv, WriterInv, TailSection
  <2> QED BY <1>1, <2>1, PlannedFacts DEF Calls
<1>3. tailLocked /\ tail = at[p]
  BY <1>1 DEF CoreInv, TailDiscipline, TailHolders, TailSection
<1>4. mem[EntrySizeCell(RELATIVE(at[p]))] = h.entry_size
  BY <1>2 DEF HeaderAt
<1>5. /\ tail' = at[p] + h.entry_size /\ live' = live \cup {new} /\ dest' = dest
      /\ OthersKeep(p)
  BY <1>3, <1>4 DEF WriteCommit, CoreInv, TypeOK, OthersKeep, Return, Goto
<1>6. tail' > tail
  BY <1>1, <1>2, <1>3, <1>5 DEF Headers, HeaderSize
<1>7. LastReceived' = LastReceived
  BY <1>1, <1>5 DEF LastReceived, HasReceived, OthersKeep, Procs
<1>8. StoredEntries' = Queue' /\ StoredEntries = Queue
  BY QueueStored, QueueStoredNext
<1>9. CASE Placeholder(h)
  <2>1. Queue' = Queue
    BY <1>5, <1>9 DEF Queue, DataEntries, Placeholder
  <2>2. Fifo!Tick
    BY <1>6, <1>7, <1>8, <2>1 DEF Fifo!Tick
  <2> QED BY <2>2 DEF Fifo!Next
<1>10. CASE ~Placeholder(h)
  <2>1. h.payload_size = call[p].n
    BY <1>2, <1>10 DEF PlannedHeader, Placeholder
  <2>2. call[p].n \in PayloadSizes /\ call[p].v \in Values
    BY <1>2 DEF WriteArgs
  <2>3. Queue' = Queue \cup {Abs(new)}
    BY <1>2, <1>5, <2>1 DEF Queue, DataEntries
  <2>4. Abs(new) = [ticket |-> tail, len |-> call[p].n, words |-> {call[p].v}]
    BY <1>3, <2>1 DEF Abs
  <2>5. Fifo!Append(call[p].n, call[p].v)
    BY <1>2, <1>6, <1>7, <1>8, <2>3, <2>4 DEF Fifo!Append
  <2>6. \E len \in PayloadSizes, v \in Values : Fifo!Append(len, v)
    BY <2>2, <2>5 DEF Fifo!Append
  <2> QED BY <2>6 DEF Fifo!Next
<1> QED BY <1>9, <1>10

(* head passes an entry: what is removed is the oldest of the queue, and a *)
(* consumer that has copied it has received it.                            *)
LEMMA PassImplements ==
  ASSUME CoreInv, CoreInv', NEW p \in Consumers, OthersKeep(p),
         pc[p] \in {"r_advance", "f_advance"}, at[p] = head,
         live' = {e \in live : e.off # at[p]}, tail' = tail, dest' = dest,
         HasReceived(p)' <=> HasCopied(p),
         ~HasCopied(p) => dest[p].words = {}
  PROVE  [Fifo!Next]_(Fifo!vars)
<1>0. p \in Procs
  BY DEF Procs
<1>1. PICK e \in live : e.off = at[p] /\ hdr[p] = [payload_size |-> e.len,
                                                   entry_size |-> e.size]
  BY <1>0 DEF CoreInv, LocalInv, ReaderInv, HoldsEntry
<1>2. \A f \in live : f.off = e.off => f = e
  BY TicketsDiffer
<1>3. live' = live \ {e}
  BY <1>1, <1>2
<1>4. StoredEntries' = Queue' /\ StoredEntries = Queue
  BY QueueStored, QueueStoredNext
<1>5. e.len \in Nat /\ e.off \in Nat
  BY LiveTypes DEF CoreInv
<1>6. \A q \in Consumers \ {p} : LastReceived'[q] = LastReceived[q]
  BY DEF OthersKeep, LastReceived, HasReceived, Procs
<1>7. LastReceived[p] = NothingYet
  BY DEF LastReceived, HasReceived, NothingYet
<1>8. CASE e.len = 0
  <2>1. Queue' = Queue
    BY <1>3, <1>8 DEF Queue, DataEntries
  <2>2. ~HasCopied(p)
    BY <1>1, <1>8 DEF HasCopied, Placeholder
  <2>3. LastReceived' = LastReceived
    <3>1. LastReceived'[p] = NothingYet
      BY <2>2 DEF LastReceived, NothingYet
    <3> QED BY <1>6, <1>7, <3>1 DEF LastReceived
  <2> QED BY <1>4, <2>1, <2>3 DEF Fifo!vars
<1>9. CASE e.len > 0
  <2>1. Abs(e) \in Queue /\ Queue' = Queue \ {Abs(e)}
    <3>1. \A f \in live : Abs(f) = Abs(e) => f = e
      BY <1>2 DEF Abs
    <3>2. DataEntries' = DataEntries \ {e} /\ e \in DataEntries
      BY <1>3, <1>9 DEF DataEntries
    <3> QED BY <3>1, <3>2 DEF Queue, DataEntries
  <2>2. \A x \in Queue : Abs(e).ticket <= x.ticket
    <3>1. \A f \in live : e.off <= f.off
      BY <1>1, LiveTypes DEF CoreInv, LiveInv, EntryFits
    <3> QED BY <3>1 DEF Queue, DataEntries, Abs
  <2>3. Fifo!Oldest(Abs(e))
    BY <1>4, <2>1, <2>2 DEF Fifo!Oldest
  <2>4. CASE HasCopied(p)
    <3>1. dest[p] = [offset |-> e.off, size |-> e.len, words |-> {e.val}]
      <4>1. ReaderInv(p)
        BY <1>0 DEF CoreInv, LocalInv
      <4>2. PICK f \in live : f.off = at[p]
                /\ dest[p] = [offset |-> f.off, size |-> f.len, words |-> {f.val}]
        BY <2>4, <4>1 DEF ReaderInv
      <4> QED BY <1>1, <1>2, <4>2
    <3>2. LastReceived'[p] = Abs(e)
      BY <2>4, <3>1 DEF LastReceived, Abs
    <3>3. LastReceived' = [LastReceived EXCEPT ![p] = Abs(e)]
      BY <1>6, <3>2 DEF LastReceived
    <3>4. Fifo!Take(p, Abs(e))
      BY <1>4, <2>1, <2>3, <3>3 DEF Fifo!Take
    <3>5. \E x \in StoredEntries : Fifo!Take(p, x)
      BY <1>4, <2>1, <3>4 DEF Fifo!Take
    <3> QED BY <3>5 DEF Fifo!Next
  <2>5. CASE ~HasCopied(p)
    <3>1. LastReceived'[p] = NothingYet
      BY <2>5 DEF LastReceived, NothingYet
    <3>2. LastReceived' = LastReceived
      BY <1>6, <1>7, <3>1 DEF LastReceived
    <3>3. Fifo!Drop(Abs(e))
      BY <1>4, <2>1, <2>3, <3>2 DEF Fifo!Drop
    <3>4. \E x \in StoredEntries : Fifo!Drop(x)
      BY <1>4, <2>1, <3>3 DEF Fifo!Drop
    <3> QED BY <3>4 DEF Fifo!Next
  <2> QED BY <2>4, <2>5
<1> QED BY <1>5, <1>8, <1>9

LEMMA AdvanceImplements ==
  ASSUME CoreInv, CoreInv', NEW p \in Consumers, Advance(p)
  PROVE  [Fifo!Next]_(Fifo!vars)
<1>1. p \in Procs /\ pc[p] = "r_advance" /\ LocalInv(p) /\ hdr[p] \in Headers
  BY DEF Advance, CoreInv, TypeOK, Procs
<1>2. OthersKeep(p) /\ tail' = tail /\ dest' = dest
  BY <1>1 DEF Advance, CoreInv, TypeOK, OthersKeep, Return, Goto
<1>3. CASE ~headLocked \/ head # at[p]
  <2>1. live' = live /\ Return(p, "IPC_ERR_ILLEGAL_STATE")
    BY <1>3 DEF Advance
  <2>2. Quiet(p)
    BY <1>1, <1>2, <2>1 DEF CoreInv, TypeOK, Return, Quiet, HasReceived
  <2> QED BY <1>1, <2>2, QuietImplements
<1>4. CASE headLocked /\ head = at[p]
  <2>1. ~HasCopied(p) => dest[p].words = {}
    BY <1>1 DEF LocalInv, ReceivedInv
  <2>2. live' = {e \in live : e.off # at[p]}
    BY <1>4 DEF Advance
  <2>3. HasReceived(p)' <=> HasCopied(p)
    <3>1. CASE Placeholder(hdr[p])
      BY <1>1, <1>4, <3>1 DEF Advance, CoreInv, TypeOK, Goto, HasReceived, HasCopied
    <3>2. CASE ~Placeholder(hdr[p])
      <4>1. pc'[p] = "idle" /\ ret'[p] = "IPC_OK"
        BY <1>1, <1>4, <3>2 DEF Advance, CoreInv, TypeOK, Goto, Return
      <4>2. ASSUME HasCopied(p) PROVE dest[p].words # {}
        <5>1. ReaderInv(p)
          BY <1>1 DEF LocalInv
        <5>2. PICK e \in live : dest[p] = [offset |-> e.off, size |-> e.len,
                                           words |-> {e.val}]
          BY <1>4, <4>2, <5>1 DEF ReaderInv
        <5>3. dest[p].words = {e.val}
          BY <5>2
        <5> QED BY <5>3
      <4> QED BY <1>2, <2>1, <4>1, <4>2 DEF HasReceived
    <3> QED BY <3>1, <3>2
  <2> QED BY <1>1, <1>2, <1>4, <2>1, <2>2, <2>3, PassImplements
<1> QED BY <1>3, <1>4

LEMMA ForceAdvanceImplements ==
  ASSUME CoreInv, CoreInv', NEW p \in Consumers, ForceAdvance(p)
  PROVE  [Fifo!Next]_(Fifo!vars)
<1>1. /\ p \in Procs /\ pc[p] = "f_advance" /\ dest[p].words = {} /\ ~HasCopied(p)
  BY EmptyHanded DEF ForceAdvance, Procs, HasCopied
<1>2. OthersKeep(p) /\ tail' = tail /\ dest' = dest /\ ~HasReceived(p)'
  BY <1>1 DEF ForceAdvance, CoreInv, TypeOK, OthersKeep, Return, Goto, HasReceived
<1>3. CASE live' = live
  BY <1>1, <1>2, <1>3, QuietImplements DEF Quiet
<1>4. CASE live' = {e \in live : e.off # at[p]} /\ head = at[p]
  BY <1>1, <1>2, <1>4, PassImplements
<1> QED BY <1>3, <1>4 DEF ForceAdvance

-----------------------------------------------------------------------------
LEMMA ProduceImplements ==
  ASSUME CoreInv, CoreInv', WriteArgs, NEW p \in Producers, Produce(p)
  PROVE  [Fifo!Next]_(Fifo!vars)
<1>0. p \in Procs /\ {"w_tail", "r_head", "f_head"} \subseteq Labels \ {"idle"}
  BY DEF Procs, Labels
<1>1. CASE \E n \in PayloadSizes, v \in Values : WriteCall(p, n, v)
  BY <1>0, <1>1, EnterQuiet, QuietImplements DEF WriteCall
<1>2. CASE \E n \in PayloadSizes : WriteReject(p, n)
  BY <1>0, <1>2, RejectQuiet, QuietImplements
<1>3. CASE WriteCommit(p)
  BY <1>0, <1>3, CommitImplements
<1>4. CASE WriteStep(p) /\ ~WriteCommit(p)
  BY <1>0, <1>4, WriterQuiet, QuietImplements DEF WriteStep
<1> QED BY <1>1, <1>2, <1>3, <1>4 DEF Produce

LEMMA ConsumeImplements ==
  ASSUME CoreInv, CoreInv', NEW p \in Consumers, Consume(p)
  PROVE  [Fifo!Next]_(Fifo!vars)
<1>0. p \in Procs /\ {"w_tail", "r_head", "f_head"} \subseteq Labels \ {"idle"}
  BY DEF Procs, Labels
<1>1. CASE \/ \E cap \in Capacities : ReadCall(p, cap)
           \/ PeekCall(p) \/ SkipCall(p) \/ SkipForceCall(p)
  <2>1. Quiet(p)
    BY <1>0, <1>1, EnterQuiet DEF ReadCall, PeekCall, SkipCall, SkipForceCall
  <2> QED BY <1>0, <2>1, QuietImplements
<1>2. CASE SkipReject(p)
  BY <1>0, <1>2, RejectQuiet, QuietImplements
<1>3. CASE Advance(p) \/ ForceAdvance(p)
  BY <1>3, AdvanceImplements, ForceAdvanceImplements
<1>4. CASE ConsumeStep(p) /\ ~Advance(p) /\ ~ForceAdvance(p)
  <2>1. Quiet(p)
    BY <1>0, <1>4, ReaderQuiet, ForceQuiet DEF ConsumeStep
  <2> QED BY <1>0, <2>1, QuietImplements
<1> QED BY <1>1, <1>2, <1>3, <1>4 DEF Consume

LEMMA StepImplements ==
  ASSUME CoreInv, CoreInv', WriteArgs, [Next]_vars
  PROVE  [Fifo!Next]_(Fifo!vars)
<1>1. CASE UNCHANGED <<tail, live, pc, ret, dest>>
  <2>1. StoredEntries' = StoredEntries
    BY <1>1, QueueStored, QueueStoredNext DEF Queue, DataEntries
  <2>2. LastReceived' = LastReceived
    BY <1>1 DEF LastReceived, HasReceived
  <2> QED BY <1>1, <2>1, <2>2 DEF Fifo!vars
<1>2. ASSUME NEW p \in Procs, Crash(p) PROVE [Fifo!Next]_(Fifo!vars)
  BY <1>1, <1>2 DEF Crash, shared
<1> QED
  BY <1>1, <1>2, ProduceImplements, ConsumeImplements DEF Next, vars

LEMMA InitImplements == Init => Fifo!Init
<1> SUFFICES ASSUME Init PROVE Fifo!Init
  OBVIOUS
<1>1. StoredEntries = {}
  BY DEF Init, StoredEntries
<1>2. LastReceived = [c \in Consumers |-> NothingYet]
  BY DEF Init, LastReceived, HasReceived, NothingYet, NoDest, Procs
<1> QED BY <1>1, <1>2 DEF Init, Fifo!Init, Fifo!Nothing, NothingYet

-----------------------------------------------------------------------------
(* Nobody changes the arguments of a call.                                 *)
LEMMA ArgsKeep ==
  ASSUME CoreInv, WriteArgs, [Next]_vars PROVE WriteArgs'
<1>1. CASE UNCHANGED vars
  BY <1>1 DEF vars, WriteArgs
<1>2. ASSUME NEW p \in Producers, Produce(p) PROVE WriteArgs'
  BY <1>2
  DEF CoreInv, TypeOK, WriteArgs, Produce, WriteCall, WriteReject, WriteStep, Enter,
      Return, Goto, NoCall, WriteLoadTail, WriteLoadHead, WriteLock, WriteFill,
      WriteSeq, WriteCommit, Procs
<1>3. ASSUME NEW p \in Consumers, Consume(p) PROVE WriteArgs'
  <2>1. \A q \in Procs : call'[q].op = "write" => call'[q] = call[q]
    <3> USE <1>3 DEF CoreInv, TypeOK, Procs
    <3>1. CASE \E cap \in Capacities : ReadCall(p, cap)
      BY <3>1 DEF ReadCall, Enter
    <3>2. CASE PeekCall(p) \/ SkipCall(p) \/ SkipForceCall(p)
      BY <3>2 DEF PeekCall, SkipCall, SkipForceCall, Enter
    <3>3. CASE SkipReject(p)
      BY <3>3 DEF SkipReject, Return, NoCall
    <3>4. CASE LoadHead(p) \/ LockHead(p) \/ ReadTail(p) \/ ReadHeader(p)
      BY <3>4 DEF LoadHead, LockHead, ReadTail, ReadHeader, Return, Goto, NoCall
    <3>5. CASE CopyPayload(p) \/ Advance(p) \/ Unlock(p)
      BY <3>5 DEF CopyPayload, Advance, Unlock, Return, Goto, NoCall
    <3>6. CASE ForceLoadHead(p) \/ ForceLoadTail(p)
      BY <3>6 DEF ForceLoadHead, ForceLoadTail, Return, Goto, NoCall
    <3>7. CASE ForceReadSize(p) \/ ForceAdvance(p)
      BY <3>7 DEF ForceReadSize, ForceAdvance, Return, Goto, NoCall
    <3> QED
      BY <3>1, <3>2, <3>3, <3>4, <3>5, <3>6, <3>7 DEF Consume, ConsumeStep
  <2> QED BY <2>1 DEF WriteArgs
<1>4. ASSUME NEW p \in Procs, Crash(p) PROVE WriteArgs'
  BY <1>4 DEF Crash, WriteArgs
<1> QED BY <1>1, <1>2, <1>3, <1>4 DEF Next

(* ipc_buffer.c implements FifoQueue, for any number of producers and      *)
(* consumers, any size of the ring and any payloads, wherever they die.    *)
THEOREM ImplementsQueue == Spec => ImplementsFifo
<1>1. Init => WriteArgs
  BY DEF Init, WriteArgs, NoCall
<1>2. IInv /\ WriteArgs /\ [Next]_vars => WriteArgs'
  BY ArgsKeep DEF IInv
<1>3. IInv /\ IInv' /\ WriteArgs /\ [Next]_vars => [Fifo!Next]_(Fifo!vars)
  <2>1. IInv' => CoreInv'
    BY DEF IInv
  <2> QED
    BY <2>1, StepImplements DEF IInv
<1> QED
  BY <1>1, <1>2, <1>3, InitImplements, Invariance, PTL
  DEF Spec, ImplementsFifo, Fifo!Spec

-----------------------------------------------------------------------------
(* What comes to be in the ring.                                           *)

(* A data entry is one that a caller passed, and it leaves room for a      *)
(* header in its lap.                                                      *)
Storable(e) ==
  e.len > 0 => e.len \in PayloadSizes /\ EntrySize(e.len) + HeaderSize <= BufSize

DataInv == WriteArgs /\ \A e \in live : Storable(e)

LEMMA OnlyCommitAdds ==
  ASSUME NEW p \in Procs,
         Produce(p) \/ Consume(p) \/ (\E n : ReadCall(p, n)) \/ Crash(p)
  PROVE  live' \subseteq live \/ WriteCommit(p)
<1>1. CASE Produce(p)
  BY <1>1
  DEF Produce, WriteStep, WriteCall, WriteReject, Enter, shared, WriteLoadTail,
      WriteLoadHead, WriteLock, WriteFill, WriteSeq
<1>2. CASE \/ (\E n : ReadCall(p, n)) \/ PeekCall(p) \/ SkipCall(p)
           \/ SkipReject(p) \/ SkipForceCall(p) \/ Crash(p)
  BY <1>2 DEF ReadCall, PeekCall, SkipCall, SkipReject, SkipForceCall, Enter, Crash, shared
<1>3. CASE ConsumeStep(p)
  BY <1>3
  DEF ConsumeStep, LoadHead, LockHead, ReadTail, ReadHeader, CopyPayload, Advance,
      Unlock, ForceLoadHead, ForceLoadTail, ForceReadSize, ForceAdvance, shared
<1> QED
  BY <1>1, <1>2, <1>3 DEF Consume

LEMMA CommitStorable ==
  ASSUME CoreInv, WriteArgs, NEW p \in Procs, WriteCommit(p),
         NEW e \in live', e \notin live
  PROVE  Storable(e)
<1>1. e.len = hdr[p].payload_size
  BY DEF WriteCommit
<1>2. hdr[p] = PlannedHeader(p) /\ call[p].op = "write" /\ call[p].n \in Nat
  BY DEF WriteCommit, CoreInv, TypeOK, Calls, LocalInv, WriterInv, TailSection
<1>3. SpaceToWrap(p) <= BufSize /\ SpaceToWrap(p) \in Int
  <2>1. RELATIVE(at[p]) \in 0 .. BufSize - 1
    BY RelativeFacts DEF CoreInv, TypeOK
  <2> QED
    BY <2>1, BufSizeAssumption DEF SpaceToWrap
<1>4. EntrySize(call[p].n) \in Nat /\ BufSize \in Nat /\ HeaderSize \in Nat
  BY <1>2, EntrySizeFacts, BufSizeAssumption DEF HeaderSize
<1>5. CASE SpaceToWrap(p) < EntrySize(call[p].n) + HeaderSize
  <2>1. e.len = 0
    BY <1>1, <1>2, <1>5 DEF PlannedHeader
  <2> QED
    BY <2>1 DEF Storable
<1>6. CASE ~(SpaceToWrap(p) < EntrySize(call[p].n) + HeaderSize)
  <2>1. e.len = call[p].n
    BY <1>1, <1>2, <1>6 DEF PlannedHeader
  <2>2. EntrySize(call[p].n) + HeaderSize <= BufSize
    BY <1>3, <1>4, <1>6
  <2> QED
    BY <1>2, <2>1, <2>2 DEF Storable, WriteArgs
<1> QED
  BY <1>5, <1>6

LEMMA StorableKeep ==
  ASSUME CoreInv, DataInv, NEW p \in Procs,
         Produce(p) \/ Consume(p) \/ (\E n : ReadCall(p, n)) \/ Crash(p)
  PROVE  \A e \in live' : Storable(e)
BY OnlyCommitAdds, CommitStorable DEF DataInv

LEMMA DataKeeps == CoreInv /\ DataInv /\ [Next]_vars => DataInv'
<1> SUFFICES ASSUME CoreInv, DataInv, [Next]_vars PROVE DataInv'
  OBVIOUS
<1>1. WriteArgs'
  BY ArgsKeep DEF DataInv
<1>2. \A e \in live' : Storable(e)
  BY StorableKeep DEF Next, Procs, vars, DataInv
<1> QED
  BY <1>1, <1>2 DEF DataInv, Storable

LEMMA InitData == Init => DataInv
BY DEF Init, DataInv, WriteArgs, NoCall

(* The size check of ipc_buffer.c:153 lets entries pass that line 185 then *)
(* never stores: whatever comes into the ring leaves room for a header     *)
(* behind it, so what has more than BufSize - HeaderSize bytes never does, *)
(* however empty the ring and however often it is tried.                   *)
THEOREM OversizeNeverStored ==
  Spec => [](\A e \in live : e.len > 0 => EntrySize(e.len) + HeaderSize <= BufSize)
<1>1. DataInv => \A e \in live : e.len > 0 => EntrySize(e.len) + HeaderSize <= BufSize
  BY DEF DataInv, Storable
<1>2. IInv => CoreInv
  BY DEF IInv
<1> QED
  BY <1>1, <1>2, InitData, DataKeeps, Invariance, PTL DEF Spec
=============================================================================
