--------------------------- MODULE IpcStartupProof ---------------------------
(***************************************************************************)
(* A consumer that polls the memory while ipc_buffer_create still sets it  *)
(* up does no lasting harm: StartInv is an inductive invariant.  The store *)
(* of head may unlock it under a consumer, so nothing here can rest on the *)
(* lock on head; CoreInv does not, and until the creation is done the ring *)
(* is empty and stays so.                                                  *)
(***************************************************************************)
EXTENDS IpcStartup, IpcFifoProof

(* Nobody is writing, and there is nothing to read.                        *)
Unused ==
  /\ head = 0 /\ tail = 0 /\ live = {} /\ ~tailLocked
  /\ \A p \in Procs : pc[p] \notin {"w_tail", "w_head", "w_lock"} \cup TailSection

-----------------------------------------------------------------------------
(* The stores of the creation.                                             *)

(* Unlocking head is no business of CoreInv.                               *)
LEMMA UnlockCore ==
  ASSUME CoreInv, headLocked' = FALSE,
         UNCHANGED <<head, tail, tailLocked, mem, live, pc, call, at, hdr, dest,
                     ret, known, dead>>
  PROVE  CoreInv'
<1>1. TypeOK'
  BY DEF CoreInv, TypeOK
<1>2. TailDiscipline' /\ RingInv'
  BY DEF CoreInv, TailDiscipline, TailHolders, RingInv, Boundary
<1>3. LiveInv' /\ LiveIntact'
  BY DEF CoreInv, LiveInv, LiveIntact, EntryFits, EntriesJoin, EntryAt, HeaderAt
<1>4. \A p \in Procs : LocalInv(p)'
  <2> SUFFICES ASSUME NEW p \in Procs PROVE LocalInv(p)'
    OBVIOUS
  <2>0. WriterInv(p) /\ ReaderInv(p) /\ ReceivedInv(p)
    BY DEF CoreInv, LocalInv
  <2>1. WriterInv(p)'
    BY <2>0 DEF WriterInv, PlannedHeader, SpaceToWrap, FreeSpace, HeaderAt, Boundary
  <2>2. ReaderInv(p)'
    BY <2>0 DEF ReaderInv, HoldsEntry, HasCopied, Boundary
  <2>3. ReceivedInv(p)'
    BY <2>0 DEF ReceivedInv, HasCopied, HasReceived
  <2> QED
    BY <2>1, <2>2, <2>3 DEF LocalInv
<1>5. DeliveredOnce'
  BY DEF CoreInv, DeliveredOnce, HasReceived, EntryAt
<1> QED
  BY <1>1, <1>2, <1>3, <1>4, <1>5 DEF CoreInv

(* The store of head moves nothing: it only clears the lock bit.           *)
LEMMA StoreHeadUnlocks ==
  ASSUME StartInv, StoreHead
  PROVE  /\ UNCHANGED <<head, tail, tailLocked, mem, live, pc, call, at, hdr, dest,
                        ret, known, dead>>
         /\ headLocked' = FALSE
BY DEF StartInv, StoreHead

(* The other two leave the buffer as it is.                                *)
LEMMA StoreIdle ==
  ASSUME StartInv, StoreDataSize \/ StoreTail
  PROVE  UNCHANGED vars
BY DEF StartInv, StoreDataSize, StoreTail, vars, CoreInv, TypeOK

LEMMA CalmTyped == ASSUME StartInv, Calm PROVE disturbed' \in BOOLEAN
BY Zenon DEF Calm

(* With no lock taken from anybody the discipline goes on, and it comes    *)
(* back when nobody is left in the section.                                *)
LEMMA CalmDiscipline ==
  ASSUME StartInv, Calm, LockHasHolder', HeadDiscipline => HeadDiscipline'
  PROVE  ~disturbed' => HeadDiscipline'
<1> SUFFICES ASSUME ~disturbed' PROVE HeadDiscipline'
  OBVIOUS
<1>1. ~disturbed \/ HeadHolders' = {}
  BY DEF Calm
<1>2. CASE ~disturbed
  BY <1>2 DEF StartInv
<1>3. CASE HeadHolders' = {}
  BY <1>3 DEF HeadDiscipline, LockHasHolder
<1> QED
  BY <1>1, <1>2, <1>3

LEMMA IdleLock ==
  ASSUME UNCHANGED vars
  PROVE  /\ LockHasHolder => LockHasHolder'
         /\ HeadDiscipline => HeadDiscipline'
BY DEF vars, HeadHolders, HeadDiscipline, LockHasHolder

LEMMA StoreStep ==
  ASSUME StartInv, StoreDataSize \/ StoreTail
  PROVE  StartInv'
<1>1. UNCHANGED vars /\ Calm
  BY StoreIdle DEF StoreDataSize, StoreTail
<1>2. CoreInv'
  BY <1>1, StutterCore DEF StartInv
<1>3. LockHasHolder' /\ (HeadDiscipline => HeadDiscipline')
  BY <1>1, IdleLock DEF StartInv
<1>4. (~disturbed' => HeadDiscipline') /\ disturbed' \in BOOLEAN
  BY <1>1, <1>3, CalmDiscipline, CalmTyped
<1>5. Unused' <=> Unused
  BY <1>1 DEF Unused, vars
<1>6. /\ create' \in {"data_size", "head", "tail", "done"} /\ create' # "data_size"
      /\ create' = "done" \/ create # "done"
      /\ data_size' = BufSize /\ data_size' \in Nat
  BY BufSizeAssumption DEF StartInv, StoreDataSize, StoreTail
<1>7. create' # "done" => Unused'
  BY <1>5, <1>6 DEF StartInv, Unused
<1> QED
  BY <1>2, <1>3, <1>4, <1>6, <1>7 DEF StartInv, Unused

LEMMA StoreHeadStep ==
  ASSUME StartInv, StoreHead
  PROVE  StartInv'
<1>1. /\ UNCHANGED <<head, tail, tailLocked, mem, live, pc, call, at, hdr, dest,
                     ret, known, dead>>
      /\ headLocked' = FALSE
  BY StoreHeadUnlocks
<1>2. CoreInv'
  BY <1>1, UnlockCore DEF StartInv
<1>3. LockHasHolder'
  BY <1>1 DEF LockHasHolder
<1>4. HeadHolders' = HeadHolders
  BY <1>1 DEF HeadHolders
<1>5. disturbed' = (HeadHolders # {})
  BY DEF StoreHead
<1>6. (~disturbed' => HeadDiscipline') /\ disturbed' \in BOOLEAN
  BY <1>1, <1>4, <1>5 DEF HeadDiscipline
<1>7. Unused'
  BY <1>1 DEF StartInv, StoreHead, Unused
<1>8. create' = "tail" /\ data_size' \in Nat /\ data_size' = BufSize
  BY DEF StartInv, StoreHead
<1> QED
  BY <1>2, <1>3, <1>6, <1>7, <1>8 DEF StartInv, Unused

-----------------------------------------------------------------------------
(* The use of the buffer.                                                  *)

(* Only a compare-and-swap that finds head locked at its own offset        *)
(* unlocks it, and one that fails was not made by the holder at head.      *)
LEMMA HolderKept ==
  ASSUME LockHasHolder, NEW p \in Procs, OthersKeep(p), HeadStep(p)
  PROVE  LockHasHolder'
<1> SUFFICES ASSUME headLocked' PROVE \E q \in HeadHolders' : at'[q] = head'
  BY DEF LockHasHolder
<1>1. CASE pc'[p] \in HeadSection /\ at'[p] = head'
  BY <1>1 DEF HeadHolders
<1>2. CASE ~(pc'[p] \in HeadSection /\ at'[p] = head')
  <2>1. headLocked /\ head' = head /\ ~(pc[p] \in HeadSection /\ at[p] = head)
    BY <1>2 DEF HeadStep
  <2>2. PICK q \in Procs : pc[q] \in HeadSection /\ at[q] = head
    BY <2>1 DEF LockHasHolder, HeadHolders
  <2>3. pc'[q] \in HeadSection /\ at'[q] = head'
    BY <2>1, <2>2 DEF OthersKeep
  <2> QED
    BY <2>3 DEF HeadHolders
<1> QED
  BY <1>1, <1>2

(* An empty ring gives a consumer nothing to move head past, or to skip.   *)
LEMMA ConsumeUnused ==
  ASSUME CoreInv, Unused, NEW p \in Consumers, Consume(p)
  PROVE  Unused'
<1>1. p \in Procs /\ pc \in [Procs -> Labels] /\ at[p] \in Nat
  BY DEF CoreInv, TypeOK, Procs
<1>2. pc[p] \notin {"r_header", "r_copy", "r_advance", "f_size", "f_advance"}
  BY <1>1 DEF CoreInv, LocalInv, ReaderInv, Unused
<1>3. CASE SkipReject(p)
  BY <1>1, <1>3 DEF SkipReject, Return, Goto, Unused, shared
<1>4. ASSUME NEW c, NEW l \in {"r_head", "f_head"}, Enter(p, c, l)
      PROVE  Unused'
  BY <1>1, <1>4 DEF Enter, Goto, Unused, shared, TailSection
<1>5. CASE LoadHead(p) \/ LockHead(p) \/ ReadTail(p) \/ Unlock(p)
  BY <1>1, <1>5 DEF LoadHead, LockHead, ReadTail, Unlock, GiveBack, Return, Goto,
                    Unused, shared, TailSection
<1>6. CASE ForceLoadHead(p) \/ ForceLoadTail(p)
  BY <1>1, <1>6 DEF ForceLoadHead, ForceLoadTail, Return, Goto, Unused, shared,
                    TailSection
<1>7. ~(ReadHeader(p) \/ CopyPayload(p) \/ Advance(p) \/ ForceReadSize(p)
        \/ ForceAdvance(p))
  BY <1>2 DEF ReadHeader, CopyPayload, Advance, ForceReadSize, ForceAdvance
<1> QED
  BY <1>3, <1>4, <1>5, <1>6, <1>7
  DEF Consume, ConsumeStep, ReadCall, PeekCall, SkipCall, SkipForceCall

LEMMA UseCore ==
  ASSUME StartInv, Use
  PROVE  /\ CoreInv' /\ Next
         /\ \E p \in Procs : OthersKeep(p) /\ HeadStep(p)
         /\ create # "done" => Unused'
<1> USE DEF StartInv
<1>1. TypeOK /\ TailDiscipline
  BY DEF CoreInv
<1>2. ASSUME NEW p \in Producers \ dead, Produce(p), create = "done"
      PROVE  /\ CoreInv' /\ Next
             /\ \E q \in Procs : OthersKeep(q) /\ HeadStep(q)
  BY <1>1, <1>2, ProduceCore, ProduceHead DEF Next, Procs
<1>3. ASSUME NEW p \in Consumers \ dead, Consume(p)
      PROVE  /\ CoreInv' /\ Next
             /\ \E q \in Procs : OthersKeep(q) /\ HeadStep(q)
             /\ create # "done" => Unused'
  <2>1. create # "done" => Unused'
    BY <1>3, ConsumeUnused DEF Unused
  <2> QED
    BY <1>1, <1>3, <2>1, ConsumeCore, ConsumeHead DEF Next, Procs
<1>4. ASSUME NEW p \in Procs \ dead, Crash(p)
      PROVE  /\ CoreInv' /\ Next
             /\ \E q \in Procs : OthersKeep(q) /\ HeadStep(q)
             /\ create # "done" => Unused'
  <2>1. create # "done" => Unused'
    BY <1>4 DEF Unused, Crash, shared
  <2> QED
    BY <1>1, <1>4, <2>1, CrashCore, CrashHead DEF Next
<1> QED
  BY <1>2, <1>3, <1>4 DEF Use

LEMMA UseStep ==
  ASSUME StartInv, Use
  PROVE  StartInv'
<1>1. CoreInv' /\ Calm /\ (create # "done" => Unused')
  BY UseCore DEF Use
<1>2. PICK p \in Procs : OthersKeep(p) /\ HeadStep(p)
  BY UseCore
<1>3. LockHasHolder' /\ (HeadDiscipline => HeadDiscipline')
  BY <1>2, HolderKept, DisciplineKept DEF StartInv
<1>4. (~disturbed' => HeadDiscipline') /\ disturbed' \in BOOLEAN
  BY <1>1, <1>3, CalmDiscipline, CalmTyped
<1>5. create' = create /\ data_size' = data_size
  BY DEF Use
<1> QED
  BY <1>1, <1>3, <1>4, <1>5 DEF StartInv, Unused

LEMMA StutterStart ==
  ASSUME StartInv, UNCHANGED startvars
  PROVE  StartInv'
<1>1. UNCHANGED vars /\ UNCHANGED svars
  BY DEF startvars
<1>2. CoreInv'
  BY <1>1, StutterCore DEF StartInv
<1>3. LockHasHolder' /\ (HeadDiscipline => HeadDiscipline')
  BY <1>1, IdleLock DEF StartInv
<1>4. Unused' <=> Unused
  BY <1>1 DEF Unused, vars
<1> QED
  BY <1>1, <1>2, <1>3, <1>4 DEF StartInv, Unused, svars

LEMMA InitStart == StartInit => StartInv
<1> SUFFICES ASSUME StartInit PROVE StartInv
  OBVIOUS
<1>1. Init /\ IInv
  BY InitIInv DEF StartInit
<1>2. Unused
  BY <1>1 DEF Init, Unused, TailSection
<1>3. LockHasHolder
  BY <1>1 DEF Init, LockHasHolder
<1> QED
  BY <1>1, <1>2, <1>3 DEF StartInv, StartInit, IInv, Unused

-----------------------------------------------------------------------------
(* The theorems.                                                           *)

(* The inductive invariant of the startup holds in every reachable state.  *)
THEOREM StartInvariance == StartSpec => []StartInv
<1>1. StartInv /\ [StartNext]_startvars => StartInv'
  BY StoreStep, StoreHeadStep, UseStep, StutterStart DEF StartNext
<1> QED
  BY <1>1, InitStart, PTL DEF StartSpec

(* Whoever reckons with the size of the ring finds it stored, although     *)
(* nobody waits for the creator: a consumer gets there only with an entry, *)
(* and entries come after the creation (ipc_buffer.c:99).                  *)
THEOREM SizeIsKnown == StartSpec => []SizeKnown
<1>1. StartInv => SizeKnown
  <2> SUFFICES ASSUME StartInv, NEW p \in Procs, create = "data_size",
                      pc[p] \in {"w_lock", "w_fill", "w_seq", "w_commit", "r_header",
                                 "r_copy", "r_advance", "f_size", "f_advance"}
               PROVE  FALSE
    BY DEF StartInv, SizeKnown
  <2>1. tail = 0 /\ at[p] \in Nat
    BY DEF StartInv, CoreInv, TypeOK
  <2>2. pc[p] \notin {"w_lock"} \cup TailSection
    BY DEF StartInv
  <2>3. LocalInv(p)
    BY DEF StartInv, CoreInv
  <2> QED
    BY <2>1, <2>2, <2>3 DEF LocalInv, ReaderInv, TailSection
<1> QED
  BY <1>1, StartInvariance, PTL

(* A locked head always has somebody who will unlock it, even when the     *)
(* creation has taken the lock from the consumer that had it and another   *)
(* one has locked head since (ipc_buffer.c:100).                           *)
THEOREM NoLockLeftBehind == StartSpec => []LockHasHolder
<1>1. StartInv => LockHasHolder
  BY DEF StartInv
<1> QED
  BY <1>1, StartInvariance, PTL

(* No entry is lost or torn by two consumers in the section of head.       *)
THEOREM StartEntriesJoined == StartSpec => []EntriesJoin
<1>1. StartInv => EntriesJoin
  BY DEF StartInv, CoreInv, LiveInv
<1> QED
  BY <1>1, StartInvariance, PTL

(* Nor delivered to both of them: the compare-and-swap of one will fail.   *)
THEOREM StartExactlyOnce == StartSpec => []DeliveredOnce
<1>1. StartInv => DeliveredOnce
  BY DEF StartInv, CoreInv
<1> QED
  BY <1>1, StartInvariance, PTL

(* Writers and what they have written stay apart, and what was committed   *)
(* stays as it was until head passes it.                                   *)
THEOREM StartEntriesIntact == StartSpec => [](RingBound /\ LiveIntact)
<1>1. StartInv => RingBound /\ LiveIntact
  BY CoreRingBound DEF StartInv, CoreInv
<1> QED
  BY <1>1, StartInvariance, PTL

(* A skip removes nothing but the entry it was given, data if it succeeds. *)
THEOREM StartSkipsExactly == StartSpec => SkipsWhatWasNamed
<1>1. StartInv /\ [StartNext]_startvars => [SkipRemovesNamed]_vars
  <2> SUFFICES ASSUME StartInv, [StartNext]_startvars PROVE [SkipRemovesNamed]_vars
    OBVIOUS
  <2>1. CASE Use
    <3>1. CoreInv /\ Next
      BY <2>1, UseCore DEF StartInv
    <3> QED
      BY <3>1, SkipStep DEF SkipRemovesNamed
  <2>2. CASE StoreHead
    BY <2>2 DEF StoreHead, SkipRemovesNamed
  <2>3. CASE StoreDataSize \/ StoreTail \/ UNCHANGED startvars
    BY <2>3, StoreIdle DEF startvars
  <2> QED
    BY <2>1, <2>2, <2>3 DEF StartNext
<1> QED
  BY <1>1, StartInvariance, PTL DEF StartSpec, SkipsWhatWasNamed

(* What a call is refused for was so when it was decided, even of a ring   *)
(* that is still being created, and by a consumer that has lost its lock.  *)
THEOREM StartTruthfulRefusals == StartSpec => RefusalsAreTrue
<1>1. StartInv /\ [StartNext]_startvars => [TruthfulRefusal]_vars
  <2> SUFFICES ASSUME StartInv, [StartNext]_startvars PROVE [TruthfulRefusal]_vars
    OBVIOUS
  <2>1. CASE Use
    BY <2>1, UseCore, RefusalStep DEF StartInv
  <2>2. CASE StoreHead
    BY <2>2 DEF StoreHead, TruthfulRefusal
  <2>3. CASE StoreDataSize \/ StoreTail \/ UNCHANGED startvars
    BY <2>3, StoreIdle DEF startvars
  <2> QED
    BY <2>1, <2>2, <2>3 DEF StartNext
<1> QED
  BY <1>1, StartInvariance, PTL DEF StartSpec, RefusalsAreTrue

(* The locks are locks again as soon as no consumer has head locked: what  *)
(* the creation has disturbed does not outlast the calls it disturbed.     *)
THEOREM LocksRecover == StartSpec => [](HeadHolders = {} \/ ~disturbed => LockDiscipline)
<1>1. StartInv => (HeadHolders = {} \/ ~disturbed => LockDiscipline)
  <2> SUFFICES ASSUME StartInv, HeadHolders = {} \/ ~disturbed PROVE LockDiscipline
    OBVIOUS
  <2>1. HeadHolders = {} => HeadDiscipline
    BY DEF StartInv, LockHasHolder, HeadDiscipline
  <2> QED
    BY <2>1 DEF StartInv, CoreInv, LockDiscipline
<1> QED
  BY <1>1, StartInvariance, PTL

(* The illegal state that the creation can cause is gone for good once no  *)
(* consumer has head locked.                                               *)
THEOREM IllegalEndsWithStart == StartSpec => IllegalOnlyAtStart
<1> DEFINE Legal == ~disturbed => \A p \in Procs :
                      pc[p] # "idle" /\ ret'[p] = "IPC_ERR_ILLEGAL_STATE"
                        => ret[p] = "IPC_ERR_ILLEGAL_STATE"
<1>1. StartInv /\ [StartNext]_startvars => [Legal]_startvars
  <2> SUFFICES ASSUME StartInv, StartNext, ~disturbed,
                      NEW q \in Procs, ret'[q] = "IPC_ERR_ILLEGAL_STATE"
               PROVE  ret[q] = "IPC_ERR_ILLEGAL_STATE"
    OBVIOUS
  <2>1. CASE Use
    <3>1. PICK p \in Procs : OthersKeep(p) /\ HeadStep(p)
      BY <2>1, UseCore
    <3> QED
      BY <3>1, LegalKept DEF StartInv, Illegal
  <2>2. CASE StoreHead
    BY <2>2 DEF StoreHead
  <2>3. CASE StoreDataSize \/ StoreTail
    BY <2>3, StoreIdle DEF vars
  <2> QED
    BY <2>1, <2>2, <2>3 DEF StartNext
<1> QED
  BY <1>1, StartInvariance, PTL DEF StartSpec, IllegalOnlyAtStart

(* From the first store on the ring is the queue of FifoQueue: a consumer  *)
(* that attached too early loses, repeats and reorders nothing.            *)
THEOREM StartImplementsQueue == StartSpec => ImplementsFifo
<1>1. StartInit => WriteArgs /\ Fifo!Init
  BY InitImplements DEF StartInit, Init, WriteArgs, NoCall
<1>2. ASSUME StartInv, StartInv', WriteArgs, [StartNext]_startvars
      PROVE  [Fifo!Next]_(Fifo!vars) /\ WriteArgs'
  <2>0. CoreInv /\ CoreInv'
    BY <1>2 DEF StartInv
  <2>1. CASE Use
    <3>1. Next
      BY <1>2, <2>1, UseCore
    <3> QED
      BY <1>2, <2>0, <3>1, StepImplements, ArgsKeep
  <2>2. CASE StoreHead
    <3>1. UNCHANGED <<tail, live, mem, pc, call, ret, dest>>
      BY <1>2, <2>2, StoreHeadUnlocks
    <3>2. StoredEntries' = StoredEntries
      BY <2>0, <3>1, QueueStored, QueueStoredNext DEF Queue, DataEntries
    <3>3. LastReceived' = LastReceived /\ WriteArgs'
      BY <1>2, <3>1 DEF LastReceived, HasReceived, WriteArgs
    <3> QED
      BY <3>1, <3>2, <3>3 DEF Fifo!vars
  <2>3. CASE StoreDataSize \/ StoreTail \/ UNCHANGED startvars
    <3>1. UNCHANGED vars
      BY <1>2, <2>3, StoreIdle DEF startvars
    <3> QED
      BY <1>2, <2>0, <3>1, StepImplements, ArgsKeep
  <2> QED
    BY <1>2, <2>1, <2>2, <2>3 DEF StartNext
<1>3. /\ StartInv /\ StartInv' /\ WriteArgs /\ [StartNext]_startvars
      => [Fifo!Next]_(Fifo!vars) /\ WriteArgs'
  BY <1>2
<1> QED
  BY <1>1, <1>3, StartInvariance, PTL DEF StartSpec, ImplementsFifo, Fifo!Spec

=============================================================================
