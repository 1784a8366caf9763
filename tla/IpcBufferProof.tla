--------------------------- MODULE IpcBufferProof ---------------------------
(***************************************************************************)
(* IInv of IpcBufferInv is an inductive invariant of IpcBuffer, for every  *)
(* ring size, every number of producers and consumers, and processes that  *)
(* die anywhere; the safety properties of IpcBuffer follow from it.        *)
(* CoreInv is preserved without the lock on head (IpcStartupProof needs    *)
(* that), so the lock's own part, HeadDiscipline, is proved apart.         *)
(***************************************************************************)
EXTENDS IpcBufferInv, RingArithmetic

-----------------------------------------------------------------------------
(* Sizes and places.                                                       *)

LEMMA EntrySizeFacts ==
  ASSUME NEW n \in Nat
  PROVE  /\ EntrySize(n) \in Nat
         /\ EntrySize(n) % 8 = 0
         /\ HeaderSize + n <= EntrySize(n)
<1>1. 24 + n \in Nat
  OBVIOUS
<1> QED
  BY <1>1, AlignUp8 DEF EntrySize, ALIGN_UP, HeaderSize, IPC_DATA_ALIGN

LEMMA RelativeFacts ==
  ASSUME NEW off \in Nat
  PROVE  RELATIVE(off) \in 0 .. BufSize - 1
BY BufSizeAssumption, ModRange DEF RELATIVE

(* A header that starts at a boundary is inside the data region.           *)
LEMMA HeaderCells ==
  ASSUME NEW off \in Nat, Boundary(off)
  PROVE  /\ SeqCell(RELATIVE(off)) \in Cells
         /\ PayloadSizeCell(RELATIVE(off)) \in Cells
         /\ EntrySizeCell(RELATIVE(off)) \in Cells
<1> DEFINE r == RELATIVE(off)
<1>1. r \in 0 .. BufSize - 1 /\ r + 24 <= BufSize
  BY RelativeFacts DEF Boundary, HeaderSize
<1>2. r % 8 = 0
  BY BufSizeAssumption, ModAligned DEF Boundary, RELATIVE, IPC_DATA_ALIGN
<1> HIDE DEF r
<1>3. r + 8 \in 0 .. BufSize - 1 /\ (r + 8) % 8 = 0
  BY <1>1, <1>2, BufSizeAssumption
<1>4. r + 16 \in 0 .. BufSize - 1 /\ (r + 16) % 8 = 0
  BY <1>1, <1>2, BufSizeAssumption
<1> QED
  BY <1>1, <1>2, <1>3, <1>4
  DEF Cells, SeqCell, PayloadSizeCell, EntrySizeCell, IPC_DATA_ALIGN, r

(* The places of the s bytes from off on, when they end within their lap.  *)
Extent(off, s) == {c \in Cells : RELATIVE(off) <= c /\ c < RELATIVE(off) + s}

LEMMA CellsInExtent ==
  ASSUME NEW off \in Nat, Boundary(off), NEW s \in Nat, NEW n \in Nat,
         HeaderSize + n <= s
  PROVE  /\ SeqCell(RELATIVE(off)) \in Extent(off, s)
         /\ PayloadSizeCell(RELATIVE(off)) \in Extent(off, s)
         /\ EntrySizeCell(RELATIVE(off)) \in Extent(off, s)
         /\ PayloadCells(RELATIVE(off), n) \subseteq Extent(off, s)
<1>1. RELATIVE(off) \in 0 .. BufSize - 1
  BY RelativeFacts
<1> QED
  BY <1>1, HeaderCells
  DEF Extent, SeqCell, PayloadSizeCell, EntrySizeCell, PayloadCells,
      HeaderSize, Cells

(* An offset s bytes after a boundary is one again if the s bytes end      *)
(* where a header still fits, or exactly at the end of the lap.            *)
LEMMA NextBoundary ==
  ASSUME NEW off \in Nat, Boundary(off), NEW s \in Nat, s % 8 = 0,
         \/ RELATIVE(off) + s + HeaderSize <= BufSize
         \/ RELATIVE(off) + s = BufSize
  PROVE  Boundary(off + s)
<1>1. (off + s) % 8 = 0
  BY DEF Boundary, IPC_DATA_ALIGN
<1>2. RELATIVE(off) \in 0 .. BufSize - 1
  BY RelativeFacts
<1>3. BufSize \in Nat \ {0}
  BY BufSizeAssumption
<1>4. CASE RELATIVE(off) + s + HeaderSize <= BufSize
  <2>1. (off % BufSize) + s < BufSize /\ s \in 0 .. BufSize
    BY <1>2, <1>4, BufSizeAssumption DEF RELATIVE, HeaderSize
  <2>2. (off + s) % BufSize = (off % BufSize) + s
    BY <1>3, <2>1, ModSameLap
  <2> QED
    BY <1>1, <1>4, <2>2 DEF Boundary, RELATIVE, IPC_DATA_ALIGN
<1>5. CASE RELATIVE(off) + s = BufSize
  <2>1. (off % BufSize) + s >= BufSize /\ s \in 0 .. BufSize
    BY <1>2, <1>5, BufSizeAssumption DEF RELATIVE
  <2>2. (off + s) % BufSize = ((off % BufSize) + s) - BufSize
    BY <1>3, <2>1, ModNextLap
  <2> QED
    BY <1>1, <1>5, <2>2, BufSizeAssumption
    DEF Boundary, RELATIVE, IPC_DATA_ALIGN, HeaderSize
<1> QED
  BY <1>4, <1>5

(* What ipc_buffer_write plans for the tail it has loaded: an entry of its *)
(* own size or a placeholder, which ends where the next entry may start.   *)
LEMMA PlannedFacts ==
  ASSUME NEW p \in Procs, at[p] \in Nat, Boundary(at[p]),
         call[p].n \in Nat, call[p].n > 0, EntrySize(call[p].n) <= BufSize
  PROVE  LET h == PlannedHeader(p) IN
         /\ h \in Headers
         /\ h.entry_size % 8 = 0
         /\ HeaderSize + h.payload_size <= h.entry_size
         /\ RELATIVE(at[p]) + h.entry_size <= BufSize
         /\ Boundary(at[p] + h.entry_size)
<1> DEFINE r == RELATIVE(at[p])
           n == call[p].n
           s == EntrySize(n)
<1>1. r \in 0 .. BufSize - 1 /\ r + 24 <= BufSize
  BY RelativeFacts DEF Boundary, HeaderSize
<1>2. s \in Nat /\ s % 8 = 0 /\ 24 + n <= s
  BY EntrySizeFacts DEF HeaderSize
<1>3. r % 8 = 0
  BY BufSizeAssumption, ModAligned DEF Boundary, RELATIVE, IPC_DATA_ALIGN
<1>4. (BufSize - r) % 8 = 0
  BY <1>1, <1>3, BufSizeAssumption DEF IPC_DATA_ALIGN
<1> HIDE DEF r, s, n
<1>5. CASE BufSize - r < s + 24
  <2>1. PlannedHeader(p) = [payload_size |-> 0, entry_size |-> BufSize - r]
    BY <1>5 DEF PlannedHeader, SpaceToWrap, HeaderSize, r, s, n
  <2>2. Boundary(at[p] + (BufSize - r))
    BY <1>1, <1>4, NextBoundary, BufSizeAssumption DEF r
  <2> QED
    BY <1>1, <1>4, <2>1, <2>2, BufSizeAssumption DEF Headers, HeaderSize, r
<1>6. CASE ~(BufSize - r < s + 24)
  <2>1. PlannedHeader(p) = [payload_size |-> n, entry_size |-> s]
    BY <1>6 DEF PlannedHeader, SpaceToWrap, HeaderSize, r, s, n
  <2>2. r + s + 24 <= BufSize
    BY <1>1, <1>2, <1>6, BufSizeAssumption
  <2>3. Boundary(at[p] + s)
    BY <1>2, <2>2, NextBoundary DEF r, HeaderSize
  <2> QED
    BY <1>1, <1>2, <2>1, <2>2, <2>3, BufSizeAssumption DEF Headers, HeaderSize, r, n
<1> QED
  BY <1>5, <1>6

(* The free space was checked for the entry; it is enough for a            *)
(* placeholder too, because head is a boundary: a ring whose head is in    *)
(* the lap before has at least a header left there.                        *)
LEMMA PlannedFits ==
  ASSUME NEW p \in Procs, at[p] \in Nat, head \in Nat, Boundary(at[p]),
         Boundary(head), head <= at[p], at[p] - head <= BufSize,
         call[p].n \in Nat, EntrySize(call[p].n) <= FreeSpace(p)
  PROVE  at[p] + PlannedHeader(p).entry_size <= head + BufSize
<1> DEFINE r == RELATIVE(at[p])
           h == RELATIVE(head)
           d == at[p] - head
           s == EntrySize(call[p].n)
<1>1. r \in 0 .. BufSize - 1 /\ h \in 0 .. BufSize - 1 /\ h + 24 <= BufSize
  BY RelativeFacts DEF Boundary, HeaderSize
<1>2. s \in Nat /\ d \in 0 .. BufSize /\ s <= BufSize - d
  BY EntrySizeFacts, BufSizeAssumption DEF FreeSpace
<1>3. \/ h + d < BufSize /\ r = h + d
      \/ h + d >= BufSize /\ r = (h + d) - BufSize
  <2>1. at[p] = head + d
    BY <1>2
  <2>2. h + d < BufSize \/ h + d >= BufSize
    BY <1>1, <1>2, BufSizeAssumption
  <2>3. CASE h + d < BufSize
    <3>1. (head + d) % BufSize = (head % BufSize) + d
      BY <1>2, <2>3, BufSizeAssumption, ModSameLap DEF RELATIVE
    <3> QED
      BY <2>1, <2>3, <3>1 DEF RELATIVE
  <2>4. CASE h + d >= BufSize
    <3>1. (head + d) % BufSize = ((head % BufSize) + d) - BufSize
      BY <1>2, <2>4, BufSizeAssumption, ModNextLap DEF RELATIVE
    <3> QED
      BY <2>1, <2>4, <3>1 DEF RELATIVE
  <2> QED
    BY <2>2, <2>3, <2>4
<1>4. PlannedHeader(p).entry_size = IF BufSize - r < s + 24 THEN BufSize - r ELSE s
  BY DEF PlannedHeader, SpaceToWrap, HeaderSize
<1>5. at[p] = head + d
  BY <1>2
<1> HIDE DEF r, h, d, s
<1> QED
  BY <1>1, <1>2, <1>3, <1>4, <1>5, BufSizeAssumption

-----------------------------------------------------------------------------
(* Entries and the writer's region do not overlap in memory.               *)

LEMMA LiveTypes ==
  ASSUME TypeOK, NEW e \in live
  PROVE  e.off \in Nat /\ e.size \in Nat /\ e.len \in Nat /\ e.val \in Nat
BY DEF TypeOK, Entries

LEMMA EntryExtent ==
  ASSUME TypeOK, LiveInv, NEW e \in live
  PROVE  /\ SeqCell(RELATIVE(e.off)) \in Extent(e.off, e.size)
         /\ PayloadSizeCell(RELATIVE(e.off)) \in Extent(e.off, e.size)
         /\ EntrySizeCell(RELATIVE(e.off)) \in Extent(e.off, e.size)
         /\ PayloadCells(RELATIVE(e.off), e.len) \subseteq Extent(e.off, e.size)
BY LiveTypes, CellsInExtent DEF LiveInv, EntryFits

(* A writer has the tail locked: the bytes it may touch belong to no       *)
(* committed entry.                                                        *)
LEMMA WriterApart ==
  ASSUME TypeOK, RingInv, LiveInv, NEW p \in Procs, WriterInv(p),
         pc[p] \in TailSection, at[p] = tail, NEW e \in live
  PROVE  Extent(e.off, e.size) \cap Extent(at[p], hdr[p].entry_size) = {}
<1> DEFINE s == hdr[p].entry_size
<1>1. at[p] \in Nat /\ head \in Nat /\ call[p].n \in Nat /\ s \in Nat
  BY DEF TypeOK, Calls, Headers
<1>2. RELATIVE(at[p]) + s <= BufSize
  <2>1. /\ Boundary(at[p]) /\ call[p].n > 0 /\ EntrySize(call[p].n) <= BufSize
        /\ hdr[p] = PlannedHeader(p)
    BY DEF WriterInv
  <2> QED
    BY <1>1, <2>1, PlannedFacts
<1>3. e.off \in Nat /\ e.size \in Nat
  BY LiveTypes
<1>4. /\ RELATIVE(e.off) + e.size <= BufSize
      /\ head <= e.off /\ e.off + e.size <= at[p]
  BY DEF LiveInv, EntryFits
<1>5. at[p] + s <= head + BufSize
  BY DEF WriterInv
<1>6. at[p] + s <= e.off + BufSize
  BY <1>1, <1>3, <1>4, <1>5, BufSizeAssumption
<1>7. BufSize \in Nat \ {0}
  BY BufSizeAssumption
<1> HIDE DEF s
<1>8. \/ RELATIVE(e.off) + e.size <= RELATIVE(at[p])
      \/ RELATIVE(at[p]) + s <= RELATIVE(e.off)
  BY <1>1, <1>2, <1>3, <1>4, <1>6, <1>7, Apart DEF RELATIVE
<1>9. RELATIVE(e.off) \in Nat /\ RELATIVE(at[p]) \in Nat
  BY <1>1, <1>3, RelativeFacts
<1> QED
  BY <1>1, <1>3, <1>8, <1>9 DEF Extent, Cells, s

-----------------------------------------------------------------------------
(* What a step leaves alone.                                               *)

(* A step of p changes no other process's locals.                          *)
OthersKeep(p) ==
  \A q \in Procs \ {p} :
    /\ pc'[q] = pc[q] /\ call'[q] = call[q] /\ at'[q] = at[q]
    /\ hdr'[q] = hdr[q] /\ dest'[q] = dest[q] /\ ret'[q] = ret[q]

(* What is known of a process survives the steps of the others: head and   *)
(* tail only grow, no entry goes that head has not passed, and the memory  *)
(* of the writer that has the tail locked is its own.                      *)
LEMMA Stable ==
  ASSUME TypeOK, TypeOK', NEW q \in Procs, LocalInv(q),
         pc'[q] = pc[q], call'[q] = call[q], at'[q] = at[q],
         hdr'[q] = hdr[q], dest'[q] = dest[q], ret'[q] = ret[q],
         head <= head', tail <= tail',
         pc[q] \in {"w_seq", "w_commit"} => mem' = mem,
         \A e \in live : head' <= e.off => e \in live'
  PROVE  LocalInv(q)'
<1> USE DEF TailSection, HeadSection
<1>1. at[q] \in Nat /\ head \in Nat /\ head' \in Nat /\ tail \in Nat /\ tail' \in Nat
  BY DEF TypeOK
<1>2. WriterInv(q)'
  <2>1. EntrySize(call[q].n) \in Nat
    BY EntrySizeFacts DEF TypeOK, Calls
  <2>2. PlannedHeader(q)' = PlannedHeader(q)
    BY DEF PlannedHeader, SpaceToWrap
  <2>3. hdr[q].entry_size \in Nat
    BY DEF TypeOK, Headers
  <2>4. /\ pc[q] \in {"w_tail", "w_head", "w_lock"} \cup TailSection =>
            call[q].op = "write" /\ call[q].n > 0 /\ EntrySize(call[q].n) <= BufSize
        /\ pc[q] \in {"w_head", "w_lock"} \cup TailSection =>
            Boundary(at[q]) /\ at[q] <= tail'
    BY <1>1 DEF LocalInv, WriterInv
  <2>5. pc[q] \in {"w_lock"} \cup TailSection =>
          hdr[q] = PlannedHeader(q) /\ EntrySize(call[q].n) <= FreeSpace(q)'
    BY <1>1, <2>1, BufSizeAssumption DEF LocalInv, WriterInv, FreeSpace
  <2>6. pc[q] \in TailSection => at[q] + hdr[q].entry_size <= head' + BufSize
    BY <1>1, <2>3, BufSizeAssumption DEF LocalInv, WriterInv
  <2>7. pc[q] \in {"w_seq", "w_commit"} => HeaderAt(RELATIVE(at[q]))' = HeaderAt(RELATIVE(at[q]))
    BY DEF HeaderAt
  <2> QED
    BY <2>2, <2>4, <2>5, <2>6, <2>7 DEF LocalInv, WriterInv
<1>3. pc[q] \in {"r_copy", "r_advance", "f_advance"} /\ at[q] = head' => HoldsEntry(q)'
  <2> SUFFICES ASSUME pc[q] \in {"r_copy", "r_advance", "f_advance"}, at[q] = head'
               PROVE  HoldsEntry(q)'
    OBVIOUS
  <2>1. at[q] = head /\ HoldsEntry(q)
    BY <1>1 DEF LocalInv, ReaderInv
  <2> QED
    BY <1>1, <2>1 DEF HoldsEntry
<1>4. ReaderInv(q)'
  <2>1. HasCopied(q)' /\ at[q] = head' =>
          \E e \in live' : e.off = at[q] /\ dest[q] =
            [offset |-> e.off, size |-> e.len, words |-> {e.val}]
    <3> SUFFICES ASSUME HasCopied(q)', at[q] = head'
                 PROVE  \E e \in live' : e.off = at[q] /\ dest[q] =
                          [offset |-> e.off, size |-> e.len, words |-> {e.val}]
      OBVIOUS
    <3>1. HasCopied(q) /\ at[q] <= head
      BY DEF LocalInv, ReaderInv, HasCopied
    <3>2. at[q] = head
      BY <1>1, <3>1
    <3>3. PICK e \in live : e.off = at[q] /\ dest[q] =
                             [offset |-> e.off, size |-> e.len, words |-> {e.val}]
      BY <3>1, <3>2, Zenon DEF LocalInv, ReaderInv
    <3>4. e \in live'
      BY <1>1, <3>3
    <3> QED
      BY <3>3, <3>4
  <2>2. pc[q] \in {"r_lock", "f_tail", "f_size", "f_advance"} \cup HeadSection =>
          at[q] <= head' /\ Boundary(at[q])
    BY <1>1 DEF LocalInv, ReaderInv
  <2>3. pc[q] \in {"r_header", "r_copy", "r_advance", "f_size", "f_advance"} =>
          at[q] < tail'
    BY <1>1 DEF LocalInv, ReaderInv
  <2>4. pc[q] = "r_copy" => call'[q].op = "read" /\ ~Placeholder(hdr'[q])
    BY DEF LocalInv, ReaderInv
  <2>5. pc[q] \in {"r_lock"} \cup HeadSection /\ call[q].op = "skip" =>
          at[q] = call[q].n
    BY <1>1 DEF LocalInv, ReaderInv
  <2> HIDE DEF HeadSection, TailSection
  <2> QED
    BY <1>3, <2>1, <2>2, <2>3, <2>4, <2>5 DEF ReaderInv
<1>5. ReceivedInv(q)'
  <2>1. dest[q].offset \in Nat
    BY DEF TypeOK, Received
  <2>2. HasReceived(q)' = HasReceived(q) /\ HasCopied(q)' = HasCopied(q)
    BY <1>1 DEF HasCopied, HasReceived
  <2>3. /\ pc[q] # "idle" /\ ~HasCopied(q) => dest[q].words = {}
        /\ HasReceived(q) => dest[q].offset < head
    BY DEF LocalInv, ReceivedInv
  <2> HIDE DEF HasReceived, HasCopied
  <2> QED
    BY <1>1, <2>1, <2>2, <2>3 DEF ReceivedInv
<1> QED
  BY <1>2, <1>4, <1>5 DEF LocalInv

(* A step that changes only p's locals, and not whether p has tail locked, *)
(* leaves the ring as it is; the lock bit of head does not matter.         *)
LEMMA LocalStep ==
  ASSUME CoreInv, TypeOK', NEW p \in Procs, OthersKeep(p),
         UNCHANGED <<head, tail, tailLocked, mem, live>>,
         pc'[p] \in TailSection <=> pc[p] \in TailSection,
         pc[p] \in TailSection => at'[p] = at[p],
         LocalInv(p)',
         HasReceived(p)' => HasReceived(p) /\ dest'[p] = dest[p]
  PROVE  CoreInv'
<1>1. TailHolders' = TailHolders
  BY DEF TailHolders, OthersKeep
<1>2. TailDiscipline'
  <2>1. \A q \in TailHolders : at'[q] = at[q]
    BY DEF TailHolders, OthersKeep
  <2> QED
    BY <1>1, <2>1 DEF CoreInv, TailDiscipline
<1>3. RingInv' /\ LiveInv' /\ LiveIntact'
  BY DEF CoreInv, RingInv, LiveInv, LiveIntact, EntryFits, EntriesJoin, EntryAt,
         Boundary, HeaderAt
<1>4. ASSUME NEW q \in Procs PROVE LocalInv(q)'
  <2>1. CASE q = p
    BY <2>1
  <2>2. CASE q # p
    <3>1. head \in Nat /\ tail \in Nat
      BY DEF CoreInv, TypeOK
    <3> QED
      BY <2>2, <3>1, Stable DEF CoreInv, OthersKeep
  <2> QED
    BY <2>1, <2>2
<1>5. DeliveredOnce'
  <2>1. \A q \in Consumers : HasReceived(q)' => HasReceived(q) /\ dest'[q] = dest[q]
    BY DEF OthersKeep, HasReceived, Procs
  <2> QED
    BY <2>1 DEF CoreInv, DeliveredOnce, EntryAt
<1> QED
  BY <1>2, <1>3, <1>4, <1>5 DEF CoreInv

LEMMA ReturnTypes ==
  ASSUME TypeOK, NEW p \in Procs, NEW s \in Statuses, Return(p, s)
  PROVE  /\ pc' \in [Procs -> Labels] /\ ret' \in [Procs -> Statuses]
         /\ call' \in [Procs -> Calls] /\ at' \in [Procs -> Nat]
         /\ hdr' \in [Procs -> Headers]
BY DEF TypeOK, Return, Goto, Labels, Calls, NoCall, NoHdr, Headers

LEMMA GotoTypes ==
  ASSUME TypeOK, NEW p \in Procs, NEW l \in Labels, Goto(p, l)
  PROVE  pc' \in [Procs -> Labels]
BY DEF TypeOK, Goto

-----------------------------------------------------------------------------
(* ipc_buffer_write, step by step.                                         *)

LEMMA WriteCallStep ==
  ASSUME CoreInv, NEW p \in Procs, NEW n \in PayloadSizes, NEW v \in Values,
         WriteCall(p, n, v)
  PROVE  CoreInv'
<1> USE DEF WriteCall, Enter, Goto
<1>1. n \in Nat /\ v \in Nat
  BY CallAssumption
<1>2. TypeOK'
  BY <1>1 DEF CoreInv, TypeOK, shared, Labels, Calls, NoDest, Received, Statuses
<1>3. /\ pc[p] = "idle" /\ pc'[p] = "w_tail"
      /\ call'[p] = [op |-> "write", n |-> n, v |-> v]
      /\ dest'[p].words = {} /\ ret'[p] = "IPC_OK"
      /\ OthersKeep(p) /\ UNCHANGED shared
  BY DEF CoreInv, TypeOK, OthersKeep, NoDest
<1>4. LocalInv(p)'
  BY <1>3 DEF LocalInv, WriterInv, ReaderInv, ReceivedInv, HasReceived,
              HasCopied, HeadSection, TailSection
<1> QED
  BY <1>2, <1>3, <1>4, LocalStep DEF shared, HeadSection, TailSection, HasReceived

LEMMA WriteRejectStep ==
  ASSUME CoreInv, NEW p \in Procs, NEW n \in PayloadSizes, WriteReject(p, n)
  PROVE  CoreInv'
<1> USE DEF WriteReject, Return, Goto
<1>1. TypeOK'
  BY DEF CoreInv, TypeOK, shared, Labels, Calls, NoCall, NoHdr, Headers, Statuses
<1>2. /\ pc[p] = "idle" /\ pc'[p] = "idle" /\ dest' = dest /\ head' = head
      /\ OthersKeep(p) /\ UNCHANGED shared
  BY DEF CoreInv, TypeOK, OthersKeep, shared
<1>3. LocalInv(p)'
  BY <1>2 DEF CoreInv, LocalInv, WriterInv, ReaderInv, ReceivedInv, HasReceived,
              HasCopied, HeadSection, TailSection
<1> QED
  BY <1>1, <1>2, <1>3, LocalStep DEF shared, HeadSection, TailSection, HasReceived

LEMMA WriteLoadTailStep ==
  ASSUME CoreInv, NEW p \in Procs, WriteLoadTail(p)
  PROVE  CoreInv'
<1>1. TypeOK'
  <2>1. CASE Return(p, "IPC_ERR_LOCKED")
    BY <2>1, ReturnTypes DEF WriteLoadTail, CoreInv, TypeOK, shared, Statuses
  <2>2. CASE Goto(p, "w_head") /\ at' = [at EXCEPT ![p] = tail]
             /\ UNCHANGED <<call, hdr, ret>>
    BY <2>2, GotoTypes DEF WriteLoadTail, CoreInv, TypeOK, shared, Labels
  <2> QED
    BY <2>1, <2>2 DEF WriteLoadTail
<1> USE DEF WriteLoadTail, Return, Goto
<1>2. /\ pc[p] = "w_tail" /\ dest' = dest /\ tail' = tail
      /\ OthersKeep(p) /\ UNCHANGED shared
      /\ \/ pc'[p] = "idle"
         \/ pc'[p] = "w_head" /\ at'[p] = tail /\ call'[p] = call[p]
  BY DEF CoreInv, TypeOK, OthersKeep, shared
<1>3. LocalInv(p) /\ Boundary(tail) /\ tail \in Nat /\ dest[p].words = {}
  BY <1>2 DEF CoreInv, RingInv, TypeOK, LocalInv, ReceivedInv, HasCopied
<1>4. LocalInv(p)'
  BY <1>2, <1>3 DEF LocalInv, WriterInv, ReaderInv, ReceivedInv, HasReceived,
                    HasCopied, HeadSection, TailSection
<1> QED
  BY <1>1, <1>2, <1>3, <1>4, LocalStep DEF shared, HeadSection, TailSection, HasReceived

LEMMA WriteLoadHeadStep ==
  ASSUME CoreInv, NEW p \in Procs, WriteLoadHead(p)
  PROVE  CoreInv'
<1>1. /\ pc[p] = "w_head" /\ LocalInv(p) /\ dest[p].words = {}
      /\ at[p] \in Nat /\ call[p].n \in Nat
  BY DEF WriteLoadHead, CoreInv, TypeOK, Calls, LocalInv, ReceivedInv, HasCopied
<1>2. /\ Boundary(at[p]) /\ at[p] <= tail
      /\ call[p].op = "write" /\ call[p].n > 0 /\ EntrySize(call[p].n) <= BufSize
  BY <1>1 DEF LocalInv, WriterInv
<1>3. PlannedHeader(p) \in Headers
  BY <1>1, <1>2, PlannedFacts
<1>4. TypeOK'
  <2>1. CASE Return(p, "IPC_ERR_NO_SPACE_CONTIGUOUS")
    BY <2>1, ReturnTypes DEF WriteLoadHead, CoreInv, TypeOK, shared, Statuses
  <2>2. CASE /\ Goto(p, "w_lock") /\ UNCHANGED <<call, at, ret>>
             /\ hdr' = [hdr EXCEPT ![p] = PlannedHeader(p)]
    BY <1>3, <2>2, GotoTypes DEF WriteLoadHead, CoreInv, TypeOK, shared, Labels
  <2> QED
    BY <2>1, <2>2 DEF WriteLoadHead
<1> USE DEF WriteLoadHead, Return, Goto
<1>5. /\ dest' = dest /\ head' = head /\ tail' = tail
      /\ OthersKeep(p) /\ UNCHANGED shared
      /\ \/ pc'[p] = "idle"
         \/ /\ pc'[p] = "w_lock" /\ at'[p] = at[p] /\ call'[p] = call[p]
            /\ hdr'[p] = PlannedHeader(p) /\ EntrySize(call[p].n) <= FreeSpace(p)
  BY DEF CoreInv, TypeOK, OthersKeep, shared
<1>6. LocalInv(p)'
  BY <1>1, <1>2, <1>5
  DEF LocalInv, WriterInv, ReaderInv, ReceivedInv, HasReceived, HasCopied,
      HeadSection, TailSection, PlannedHeader, SpaceToWrap, FreeSpace
<1> QED
  BY <1>1, <1>4, <1>5, <1>6, LocalStep DEF shared, HeadSection, TailSection, HasReceived

LEMMA WriteLockStep ==
  ASSUME CoreInv, NEW p \in Procs, WriteLock(p)
  PROVE  CoreInv'
<1> USE DEF WriteLock, Goto
<1>1. TypeOK'
  BY DEF CoreInv, TypeOK, Labels
<1>2. /\ pc[p] = "w_lock" /\ LocalInv(p) /\ dest[p].words = {}
      /\ at[p] \in Nat /\ call[p].n \in Nat /\ head \in Nat
  BY DEF CoreInv, TypeOK, Calls, LocalInv, ReceivedInv, HasCopied
<1>3. /\ OthersKeep(p) /\ at' = at /\ call' = call /\ hdr' = hdr /\ dest' = dest
      /\ ret' = ret /\ head' = head /\ tail' = tail /\ mem' = mem /\ live' = live
      /\ headLocked' = headLocked
  BY DEF CoreInv, TypeOK, OthersKeep
<1>4. CASE tailLocked \/ tail # at[p]
  <2>1. pc'[p] = "w_tail" /\ UNCHANGED shared
    BY <1>4 DEF CoreInv, TypeOK, shared
  <2>2. LocalInv(p)'
    BY <1>2, <1>3, <2>1 DEF LocalInv, WriterInv, ReaderInv, ReceivedInv,
       HasReceived, HasCopied, HeadSection, TailSection
  <2> QED
    BY <1>1, <1>2, <1>3, <2>1, <2>2, LocalStep
    DEF shared, HeadSection, TailSection, HasReceived, CoreInv
<1>5. CASE ~tailLocked /\ tail = at[p]
  <2>1. pc'[p] = "w_fill" /\ tailLocked' = TRUE
    BY <1>5 DEF CoreInv, TypeOK
  <2>2. TailDiscipline'
    <3>1. TailHolders = {} /\ TailHolders' = {p}
      BY <1>2, <1>3, <1>5, <2>1
      DEF CoreInv, TailDiscipline, TailHolders, TailSection, OthersKeep
    <3> QED
      BY <1>3, <1>5, <2>1, <3>1 DEF CoreInv, TailDiscipline
  <2>3. at[p] + hdr[p].entry_size <= head + BufSize
    <3>1. /\ Boundary(at[p]) /\ hdr[p] = PlannedHeader(p)
          /\ EntrySize(call[p].n) <= FreeSpace(p)
      BY <1>2 DEF LocalInv, WriterInv
    <3>2. Boundary(head) /\ head <= at[p] /\ at[p] - head <= BufSize
      BY <1>5 DEF CoreInv, RingInv
    <3> QED
      BY <1>2, <3>1, <3>2, PlannedFits
  <2>4. LocalInv(p)'
    BY <1>2, <1>3, <2>1, <2>3 DEF LocalInv, WriterInv, ReaderInv, ReceivedInv,
       HasReceived, HasCopied, HeadSection, TailSection, PlannedHeader, SpaceToWrap, FreeSpace
  <2>5. RingInv' /\ LiveInv' /\ LiveIntact'
    BY <1>3 DEF CoreInv, RingInv, LiveInv, LiveIntact, EntryFits, EntriesJoin,
       EntryAt, Boundary, HeaderAt
  <2>6. ASSUME NEW q \in Procs \ {p} PROVE LocalInv(q)'
    <3>1. head \in Nat /\ tail \in Nat
      BY DEF CoreInv, TypeOK
    <3> QED
      BY <1>1, <1>3, <3>1, Stable DEF CoreInv, OthersKeep
  <2>7. DeliveredOnce'
    <3>1. \A q \in Consumers : HasReceived(q)' <=> HasReceived(q)
      BY <1>2, <1>3, <2>1 DEF OthersKeep, HasReceived, Procs
    <3> QED
      BY <1>3, <3>1 DEF CoreInv, DeliveredOnce, EntryAt
  <2> QED
    BY <1>1, <1>3, <2>2, <2>4, <2>5, <2>6, <2>7 DEF CoreInv
<1> QED
  BY <1>4, <1>5

(* A step of the writer that has the tail locked, within its own region.   *)
LEMMA FillStep ==
  ASSUME CoreInv, TypeOK', NEW p \in Procs, OthersKeep(p),
         pc[p] \in TailSection, pc'[p] \in TailSection,
         \A c \in Cells \ Extent(at[p], hdr[p].entry_size) : mem'[c] = mem[c],
         UNCHANGED <<head, tail, tailLocked, live, call, at, hdr, dest, ret>>,
         LocalInv(p)'
  PROVE  CoreInv'
<1>1. TailHolders' = TailHolders
  BY DEF TailHolders, OthersKeep, TailSection
<1>2. TailDiscipline'
  BY <1>1 DEF CoreInv, TailDiscipline
<1>3. RingInv' /\ LiveInv'
  BY DEF CoreInv, RingInv, LiveInv, EntryFits, EntriesJoin, EntryAt, Boundary
<1>4. at[p] = tail /\ \A q \in Procs \ {p} : pc[q] \notin TailSection
  BY DEF CoreInv, TailDiscipline, TailHolders
<1>5. LiveIntact'
  <2> SUFFICES ASSUME NEW e \in live
               PROVE  LET r == RELATIVE(e.off) IN
                      /\ mem'[SeqCell(r)] = e.off
                      /\ HeaderAt(r)' = [payload_size |-> e.len, entry_size |-> e.size]
                      /\ \A c \in PayloadCells(r, e.len) : mem'[c] = e.val
    BY DEF LiveIntact
  <2>1. WriterInv(p)
    BY DEF CoreInv, LocalInv
  <2>2. \A c \in Extent(e.off, e.size) : mem'[c] = mem[c]
    BY <1>4, <2>1, WriterApart DEF CoreInv, Extent
  <2>3. /\ SeqCell(RELATIVE(e.off)) \in Extent(e.off, e.size)
        /\ PayloadSizeCell(RELATIVE(e.off)) \in Extent(e.off, e.size)
        /\ EntrySizeCell(RELATIVE(e.off)) \in Extent(e.off, e.size)
        /\ PayloadCells(RELATIVE(e.off), e.len) \subseteq Extent(e.off, e.size)
    BY EntryExtent DEF CoreInv
  <2> QED
    BY <2>2, <2>3 DEF CoreInv, LiveIntact, HeaderAt
<1>6. ASSUME NEW q \in Procs \ {p} PROVE LocalInv(q)'
  <2>1. head \in Nat /\ tail \in Nat
    BY DEF CoreInv, TypeOK
  <2>2. pc[q] \notin {"w_seq", "w_commit"}
    BY <1>4 DEF TailSection
  <2> QED
    BY <2>1, <2>2, Stable DEF CoreInv, OthersKeep
<1>7. DeliveredOnce'
  <2>1. \A q \in Consumers : HasReceived(q)' <=> HasReceived(q)
    BY DEF OthersKeep, HasReceived, Procs, TailSection
  <2> QED
    BY <2>1 DEF CoreInv, DeliveredOnce, EntryAt
<1> QED
  BY <1>2, <1>3, <1>5, <1>6, <1>7 DEF CoreInv

LEMMA WriteFillStep ==
  ASSUME CoreInv, NEW p \in Procs, WriteFill(p)
  PROVE  CoreInv'
<1> DEFINE r == RELATIVE(at[p])
           h == hdr[p]
<1> USE DEF WriteFill, Goto
<1>1. /\ pc[p] = "w_fill" /\ LocalInv(p) /\ dest[p].words = {}
      /\ at[p] \in Nat /\ call[p].n \in Nat /\ h \in Headers
  BY DEF CoreInv, TypeOK, Calls, LocalInv, ReceivedInv, HasCopied
<1>2. /\ Boundary(at[p]) /\ call[p].n > 0 /\ EntrySize(call[p].n) <= BufSize
      /\ h = PlannedHeader(p)
  BY <1>1 DEF LocalInv, WriterInv, TailSection
<1>3. HeaderSize + h.payload_size <= h.entry_size
  BY <1>1, <1>2, PlannedFacts
<1>4. /\ PayloadSizeCell(r) \in Extent(at[p], h.entry_size)
      /\ EntrySizeCell(r) \in Extent(at[p], h.entry_size)
      /\ PayloadCells(r, h.payload_size) \subseteq Extent(at[p], h.entry_size)
      /\ PayloadSizeCell(r) \in Cells /\ EntrySizeCell(r) \in Cells
  BY <1>1, <1>2, <1>3, CellsInExtent, HeaderCells DEF Headers
<1>5. TypeOK'
  <2>1. mem' \in [Cells -> Nat]
    BY <1>1 DEF CoreInv, TypeOK, Calls, Headers
  <2> QED
    BY <2>1, GotoTypes DEF CoreInv, TypeOK, Labels
<1>6. /\ OthersKeep(p) /\ pc'[p] = "w_seq"
  BY DEF CoreInv, TypeOK, OthersKeep
<1>7. \A c \in Cells \ Extent(at[p], h.entry_size) : mem'[c] = mem[c]
  BY <1>4
<1>8. /\ HeaderAt(r)' = h
      /\ \A c \in PayloadCells(r, h.payload_size) : mem'[c] = call[p].v
  <2>1. r \in Nat
    BY <1>1, RelativeFacts
  <2>2. mem'[PayloadSizeCell(r)] = h.payload_size /\ mem'[EntrySizeCell(r)] = h.entry_size
    BY <1>4, <2>1 DEF PayloadSizeCell, EntrySizeCell
  <2>3. \A c \in PayloadCells(r, h.payload_size) : mem'[c] = call[p].v
    BY <2>1 DEF PayloadSizeCell, EntrySizeCell, PayloadCells, HeaderSize, Cells
  <2> QED
    BY <1>1, <2>2, <2>3 DEF HeaderAt, Headers
<1>9. LocalInv(p)'
  BY <1>1, <1>6, <1>8 DEF LocalInv, WriterInv, ReaderInv, ReceivedInv, HasReceived,
     HasCopied, HeadSection, TailSection, PlannedHeader, SpaceToWrap, FreeSpace
<1> QED
  BY <1>1, <1>5, <1>6, <1>7, <1>9, FillStep DEF TailSection

LEMMA WriteSeqStep ==
  ASSUME CoreInv, NEW p \in Procs, WriteSeq(p)
  PROVE  CoreInv'
<1> DEFINE r == RELATIVE(at[p])
           h == hdr[p]
<1> USE DEF WriteSeq, Goto
<1>1. /\ pc[p] = "w_seq" /\ LocalInv(p) /\ dest[p].words = {}
      /\ at[p] \in Nat /\ call[p].n \in Nat /\ h \in Headers /\ r \in Nat
  BY RelativeFacts DEF CoreInv, TypeOK, Calls, LocalInv, ReceivedInv, HasCopied
<1>2. /\ Boundary(at[p]) /\ call[p].n > 0 /\ EntrySize(call[p].n) <= BufSize
      /\ h = PlannedHeader(p)
  BY <1>1 DEF LocalInv, WriterInv, TailSection
<1>3. HeaderSize + h.payload_size <= h.entry_size
  BY <1>1, <1>2, PlannedFacts
<1>4. SeqCell(r) \in Extent(at[p], h.entry_size) /\ SeqCell(r) \in Cells
  BY <1>1, <1>2, <1>3, CellsInExtent, HeaderCells DEF Headers
<1>5. TypeOK'
  <2>1. mem' \in [Cells -> Nat]
    BY <1>1 DEF CoreInv, TypeOK
  <2> QED
    BY <2>1, GotoTypes DEF CoreInv, TypeOK, Labels
<1>6. /\ OthersKeep(p) /\ pc'[p] = "w_commit"
  BY DEF CoreInv, TypeOK, OthersKeep
<1>7. /\ \A c \in Cells \ {SeqCell(r)} : mem'[c] = mem[c]
      /\ mem'[SeqCell(r)] = at[p]
  BY <1>4 DEF CoreInv, TypeOK
<1>8. /\ HeaderAt(r)' = h
      /\ \A c \in PayloadCells(r, h.payload_size) : mem'[c] = call[p].v
  <2>1. /\ HeaderAt(r) = h
        /\ \A c \in PayloadCells(r, h.payload_size) : mem[c] = call[p].v
    BY <1>1 DEF LocalInv, WriterInv
  <2>2. PayloadSizeCell(r) \in Cells /\ EntrySizeCell(r) \in Cells
    BY <1>1, <1>2, HeaderCells
  <2>3. HeaderAt(r)' = HeaderAt(r)
    BY <1>1, <1>7, <2>2 DEF HeaderAt, SeqCell, PayloadSizeCell, EntrySizeCell
  <2>4. \A c \in PayloadCells(r, h.payload_size) : mem'[c] = mem[c]
    BY <1>1, <1>7 DEF PayloadCells, SeqCell, HeaderSize, Cells
  <2> QED
    BY <2>1, <2>3, <2>4
<1>9. LocalInv(p)'
  BY <1>1, <1>6, <1>7, <1>8 DEF LocalInv, WriterInv, ReaderInv, ReceivedInv,
     HasReceived, HasCopied, HeadSection, TailSection, PlannedHeader, SpaceToWrap, FreeSpace
<1> QED
  BY <1>1, <1>4, <1>5, <1>6, <1>7, <1>9, FillStep DEF TailSection

LEMMA WriteCommitStep ==
  ASSUME CoreInv, NEW p \in Procs, WriteCommit(p)
  PROVE  CoreInv'
<1> DEFINE r == RELATIVE(at[p])
           h == hdr[p]
           new == [off |-> at[p], size |-> h.entry_size, len |-> h.payload_size,
                   val |-> call[p].v]
<1>1. /\ pc[p] = "w_commit" /\ LocalInv(p) /\ dest[p].words = {}
      /\ at[p] \in Nat /\ call[p] \in Calls /\ h \in Headers
      /\ head \in Nat /\ tail \in Nat
  BY DEF WriteCommit, CoreInv, TypeOK, LocalInv, ReceivedInv, HasCopied
<1>2. /\ Boundary(at[p]) /\ call[p].op = "write" /\ call[p].n > 0
      /\ EntrySize(call[p].n) <= BufSize /\ h = PlannedHeader(p)
      /\ at[p] + h.entry_size <= head + BufSize
      /\ HeaderAt(r) = h /\ mem[SeqCell(r)] = at[p]
      /\ \A c \in PayloadCells(r, h.payload_size) : mem[c] = call[p].v
  BY <1>1 DEF LocalInv, WriterInv, TailSection
<1>3. /\ h.entry_size % 8 = 0
      /\ HeaderSize + h.payload_size <= h.entry_size
      /\ r + h.entry_size <= BufSize
      /\ Boundary(at[p] + h.entry_size)
  BY <1>1, <1>2, PlannedFacts DEF Calls
<1>4. tailLocked /\ tail = at[p] /\ TailHolders = {p}
  BY <1>1 DEF CoreInv, TailDiscipline, TailHolders, TailSection
<1>5. /\ tail' = at[p] + h.entry_size /\ tailLocked' = FALSE
      /\ live' = live \cup {new} /\ dest' = dest
      /\ head' = head /\ headLocked' = headLocked /\ mem' = mem
      /\ \/ Return(p, "IPC_OK")
         \/ /\ Goto(p, "w_tail") /\ at' = [at EXCEPT ![p] = 0]
            /\ hdr' = [hdr EXCEPT ![p] = NoHdr] /\ UNCHANGED <<call, ret>>
  <2>1. mem[EntrySizeCell(r)] = h.entry_size
    BY <1>2 DEF HeaderAt
  <2> QED
    BY <1>4, <2>1 DEF WriteCommit
<1>6. /\ new \in Entries /\ tail <= tail' /\ tail' \in Nat
      /\ h.entry_size \in Nat /\ h.payload_size \in Nat
      /\ new.off = at[p] /\ new.size = h.entry_size /\ new.len = h.payload_size
      /\ new.val = call[p].v /\ new \in live' /\ new.off + new.size = tail'
  BY <1>1, <1>4, <1>5 DEF Entries, Calls, Headers
<1>7. TypeOK'
  <2>1. /\ pc' \in [Procs -> Labels] /\ ret' \in [Procs -> Statuses]
        /\ call' \in [Procs -> Calls] /\ at' \in [Procs -> Nat]
        /\ hdr' \in [Procs -> Headers]
    <3>1. CASE Return(p, "IPC_OK")
      BY <3>1, ReturnTypes DEF CoreInv, Statuses
    <3>2. CASE Goto(p, "w_tail") /\ at' = [at EXCEPT ![p] = 0]
               /\ hdr' = [hdr EXCEPT ![p] = NoHdr] /\ UNCHANGED <<call, ret>>
      BY <3>2, GotoTypes DEF CoreInv, TypeOK, Labels, NoHdr, Headers
    <3> QED
      BY <1>5, <3>1, <3>2
  <2> QED
    BY <1>5, <1>6, <2>1 DEF WriteCommit, CoreInv, TypeOK
<1>8. /\ OthersKeep(p) /\ pc'[p] \in {"idle", "w_tail"}
      /\ pc'[p] = "w_tail" => call'[p] = call[p]
  BY <1>5 DEF CoreInv, TypeOK, OthersKeep, Return, Goto
<1> HIDE DEF r, h, new
<1>9. TailDiscipline'
  <2>1. TailHolders' = {}
    BY <1>1, <1>4, <1>8 DEF TailHolders, TailSection, OthersKeep
  <2> QED
    BY <1>5, <2>1 DEF TailDiscipline
<1>10. RingInv'
  <2>1. Boundary(head') /\ Boundary(tail')
    BY <1>3, <1>5 DEF CoreInv, RingInv
  <2>2. head <= tail' /\ tail' - head <= BufSize
    BY <1>1, <1>2, <1>4, <1>5, <1>6, BufSizeAssumption DEF CoreInv, RingInv
  <2> QED
    BY <1>5, <2>1, <2>2 DEF RingInv
<1>11. LiveInv'
  <2>0. PICK e0 : e0 = new
    OBVIOUS
  <2>1. EntryFits(e0)'
    <3>1. head <= at[p]
      BY <1>4 DEF CoreInv, RingInv
    <3>2. RELATIVE(at[p]) + h.entry_size <= BufSize
      BY <1>3 DEF r
    <3> QED
      BY <1>1, <1>2, <1>3, <1>5, <1>6, <2>0, <3>1, <3>2 DEF EntryFits, IPC_DATA_ALIGN
  <2>2. \A e \in live : EntryFits(e)'
    BY <1>1, <1>5, <1>6, LiveTypes DEF CoreInv, LiveInv, EntryFits, Boundary
  <2>3. \A e \in live : e.off + e.size <= new.off
    BY <1>4 DEF CoreInv, LiveInv, EntryFits, new
  <2>4. EntriesJoin'
    <3>1. \E e \in live' : e.off = tail
      BY <1>4, <1>6
    <3>2. \A off \in Nat : EntryAt(off) => EntryAt(off)'
      BY <1>5 DEF EntryAt
    <3>3. head' = tail' \/ EntryAt(head)'
      BY <1>1, <1>4, <1>5, <3>1, <3>2 DEF CoreInv, LiveInv, EntriesJoin, EntryAt
    <3>4. \A e \in live' : head' <= e.off
      <4>1. \A e \in live : head' <= e.off
        BY <1>5 DEF CoreInv, LiveInv, EntryFits
      <4>2. head' <= new.off
        BY <1>4, <1>5, <1>6 DEF CoreInv, RingInv
      <4> QED
        BY <1>5, <4>1, <4>2
    <3>5. \A e \in live : e.off + e.size = tail' \/ EntryAt(e.off + e.size)'
      <4> TAKE e \in live
      <4>1. e.off + e.size \in Nat
        BY LiveTypes DEF CoreInv
      <4>2. CASE e.off + e.size = tail
        BY <3>1, <4>2 DEF EntryAt
      <4>3. CASE EntryAt(e.off + e.size)
        BY <3>2, <4>1, <4>3
      <4> QED
        BY <4>2, <4>3 DEF CoreInv, LiveInv, EntriesJoin
    <3> QED
      BY <1>5, <1>6, <3>3, <3>4, <3>5 DEF EntriesJoin
  <2>5. \A e \in live' : EntryFits(e)'
    BY <1>5, <2>0, <2>1, <2>2
  <2>6. \A e, f \in live' : \/ e = f
                            \/ e.off + e.size <= f.off \/ f.off + f.size <= e.off
    BY <1>5, <2>3 DEF CoreInv, LiveInv
  <2> QED
    BY <2>4, <2>5, <2>6 DEF LiveInv
<1>12. LiveIntact'
  <2>1. mem[SeqCell(r)] = new.off
    BY <1>2 DEF new
  <2>2. HeaderAt(r) = [payload_size |-> new.len, entry_size |-> new.size]
    BY <1>1, <1>2 DEF new, h, Headers
  <2>3. \A c \in PayloadCells(r, new.len) : mem[c] = new.val
    BY <1>2 DEF new
  <2>4. r = RELATIVE(new.off)
    BY DEF new, r
  <2> QED
    BY <1>5, <2>1, <2>2, <2>3, <2>4 DEF CoreInv, LiveIntact, HeaderAt
<1>13. LocalInv(p)'
  BY <1>1, <1>2, <1>5, <1>8 DEF LocalInv, WriterInv, ReaderInv, ReceivedInv,
     HasReceived, HasCopied, HeadSection, TailSection
<1>14. ASSUME NEW q \in Procs \ {p} PROVE LocalInv(q)'
  BY <1>1, <1>5, <1>6, <1>7, <1>8, Stable DEF CoreInv, OthersKeep
<1>15. DeliveredOnce'
  <2>1. \A q \in Consumers : HasReceived(q)' => HasReceived(q) /\ dest'[q].offset < tail
    <3> TAKE q \in Consumers
    <3> HAVE HasReceived(q)'
    <3>1. HasReceived(q)
      BY <1>1, <1>5, <1>8 DEF OthersKeep, HasReceived, Procs
    <3>2. dest[q].offset < head /\ dest[q].offset \in Nat
      BY <3>1 DEF CoreInv, LocalInv, ReceivedInv, TypeOK, Received, Procs
    <3> QED
      BY <1>1, <1>5, <3>1, <3>2 DEF CoreInv, RingInv
  <2>2. \A q \in Consumers : dest[q].offset \in Nat
    BY DEF CoreInv, TypeOK, Received, Procs
  <2> QED
    BY <1>1, <1>4, <1>5, <2>1, <2>2 DEF CoreInv, DeliveredOnce, EntryAt, new
<1> QED
  BY <1>7, <1>8, <1>9, <1>10, <1>11, <1>12, <1>13, <1>14, <1>15
  DEF CoreInv, OthersKeep

-----------------------------------------------------------------------------
(* ipc_buffer_read, peek, skip and skip_force, step by step.               *)

LEMMA ConsumerCallStep ==
  ASSUME CoreInv, NEW p \in Procs, NEW c \in Calls, NEW l \in {"r_head", "f_head"},
         Enter(p, c, l)
  PROVE  CoreInv'
<1> USE DEF Enter, Goto
<1>1. TypeOK'
  BY DEF CoreInv, TypeOK, shared, Labels, NoDest, Received, Statuses
<1>2. /\ pc[p] = "idle" /\ pc'[p] \in {"r_head", "f_head"}
      /\ dest'[p].words = {} /\ ret'[p] = "IPC_OK"
      /\ OthersKeep(p) /\ UNCHANGED shared
  BY DEF CoreInv, TypeOK, OthersKeep, NoDest
<1>3. LocalInv(p)'
  BY <1>2 DEF LocalInv, WriterInv, ReaderInv, ReceivedInv, HasReceived,
              HasCopied, HeadSection, TailSection
<1> QED
  BY <1>1, <1>2, <1>3, LocalStep DEF shared, HeadSection, TailSection, HasReceived

LEMMA SkipRejectStep ==
  ASSUME CoreInv, NEW p \in Procs, SkipReject(p)
  PROVE  CoreInv'
<1> USE DEF SkipReject, Return, Goto
<1>1. TypeOK'
  BY DEF CoreInv, TypeOK, shared, Labels, Calls, NoCall, NoHdr, Headers, Statuses
<1>2. /\ pc[p] = "idle" /\ pc'[p] = "idle" /\ dest' = dest /\ head' = head
      /\ OthersKeep(p) /\ UNCHANGED shared
  BY DEF CoreInv, TypeOK, OthersKeep, shared
<1>3. LocalInv(p)'
  BY <1>2 DEF CoreInv, LocalInv, WriterInv, ReaderInv, ReceivedInv, HasReceived,
              HasCopied, HeadSection, TailSection
<1> QED
  BY <1>1, <1>2, <1>3, LocalStep DEF shared, HeadSection, TailSection, HasReceived

(* A consumer's local step to a place where little is known of its locals. *)
LEMMA ForgetfulStep ==
  ASSUME CoreInv, TypeOK', NEW p \in Procs, OthersKeep(p),
         UNCHANGED <<head, tail, tailLocked, mem, live>>,
         pc[p] # "idle", pc[p] \notin TailSection,
         dest'[p].words = {} \/ (pc'[p] = "idle" /\ ret'[p] # "IPC_OK"),
         \/ pc'[p] \in {"idle", "r_head", "f_head"}
         \/ /\ pc'[p] = "r_lock" /\ at'[p] = head
            /\ call'[p].op = "skip" => at'[p] = call'[p].n
  PROVE  CoreInv'
<1>1. ~HasReceived(p)'
  BY DEF HasReceived
<1>2. at'[p] = head => at'[p] <= head' /\ Boundary(at'[p])
  BY DEF CoreInv, TypeOK, RingInv
<1>3. LocalInv(p)'
  BY <1>1, <1>2 DEF LocalInv, WriterInv, ReaderInv, ReceivedInv,
         HasCopied, HeadSection, TailSection
<1> QED
  BY <1>1, <1>3, LocalStep DEF TailSection

LEMMA LoadHeadStep ==
  ASSUME CoreInv, NEW p \in Consumers, LoadHead(p)
  PROVE  CoreInv'
<1>0. p \in Procs
  BY DEF Procs
<1>1. /\ pc[p] = "r_head" /\ dest[p].words = {} /\ head \in Nat
  BY <1>0 DEF LoadHead, CoreInv, TypeOK, LocalInv, ReceivedInv, HasCopied
<1>2. PICK s \in {"IPC_ERR_LOCKED", "IPC_ERR_OFFSET_MISMATCH"} :
        \/ Return(p, s) /\ Report(p, head)
        \/ /\ at' = [at EXCEPT ![p] = head] /\ Goto(p, "r_lock")
           /\ UNCHANGED <<call, hdr, ret, known>>
           /\ call[p].op = "skip" => head = call[p].n
  BY DEF LoadHead
<1>3. UNCHANGED <<shared, dest, dead>>
  BY DEF LoadHead
<1>4. CASE Return(p, s) /\ Report(p, head)
  <2>1. TypeOK'
    BY <1>0, <1>1, <1>3, <1>4, ReturnTypes DEF Report, CoreInv, TypeOK, shared, Statuses
  <2>2. OthersKeep(p) /\ pc'[p] = "idle" /\ ret'[p] = s
    BY <1>0, <1>3, <1>4 DEF CoreInv, TypeOK, OthersKeep, Return, Goto
  <2> QED
    BY <1>0, <1>1, <1>3, <2>1, <2>2, ForgetfulStep DEF shared, TailSection
<1>5. CASE /\ at' = [at EXCEPT ![p] = head] /\ Goto(p, "r_lock")
           /\ UNCHANGED <<call, hdr, ret, known>>
           /\ call[p].op = "skip" => head = call[p].n
  <2>1. TypeOK'
    BY <1>0, <1>1, <1>3, <1>5, GotoTypes DEF CoreInv, TypeOK, shared, Labels
  <2>2. /\ OthersKeep(p) /\ pc'[p] = "r_lock" /\ at'[p] = head
        /\ call'[p].op = "skip" => at'[p] = call'[p].n
    BY <1>0, <1>3, <1>5 DEF CoreInv, TypeOK, OthersKeep, Goto
  <2> QED
    BY <1>0, <1>1, <1>3, <2>1, <2>2, ForgetfulStep DEF shared, TailSection
<1> QED
  BY <1>2, <1>4, <1>5

LEMMA LockHeadStep ==
  ASSUME CoreInv, NEW p \in Procs, LockHead(p)
  PROVE  CoreInv'
<1> USE DEF LockHead, Goto
<1>1. TypeOK'
  BY DEF CoreInv, TypeOK, Labels
<1>2. pc[p] = "r_lock" /\ dest[p].words = {} /\ LocalInv(p)
  BY DEF CoreInv, LocalInv, ReceivedInv, HasCopied
<1>3. /\ OthersKeep(p) /\ at' = at /\ call' = call /\ dest' = dest
      /\ UNCHANGED <<head, tail, tailLocked, mem, live>>
      /\ pc'[p] \in {"r_tail", "r_head"}
  BY DEF CoreInv, TypeOK, OthersKeep
<1>4. LocalInv(p)'
  BY <1>2, <1>3 DEF LocalInv, WriterInv, ReaderInv, ReceivedInv, HasReceived,
     HasCopied, HeadSection, TailSection, Boundary
<1> QED
  BY <1>1, <1>2, <1>3, <1>4, LocalStep DEF HeadSection, TailSection, HasReceived

LEMMA ReadTailStep ==
  ASSUME CoreInv, NEW p \in Procs, ReadTail(p)
  PROVE  CoreInv'
<1> USE DEF ReadTail, GiveBack, Goto
<1>1. TypeOK'
  BY DEF CoreInv, TypeOK, shared, Labels, Statuses
<1>2. /\ pc[p] = "r_tail" /\ dest[p].words = {} /\ at[p] \in Nat /\ head \in Nat
      /\ tail \in Nat
  BY DEF CoreInv, TypeOK, LocalInv, ReceivedInv, HasCopied
<1>3. /\ OthersKeep(p) /\ at' = at /\ dest' = dest /\ tail' = tail /\ head' = head
      /\ UNCHANGED shared
      /\ \/ pc'[p] = "r_unlock"
         \/ pc'[p] = "r_header" /\ at[p] # tail
  BY <1>2 DEF CoreInv, TypeOK, OthersKeep, shared
<1>4. at[p] <= tail /\ at[p] <= head /\ Boundary(at[p])
  BY <1>2 DEF CoreInv, LocalInv, ReaderInv, HeadSection, RingInv
<1>5. call'[p] = call[p] /\ (call[p].op = "skip" => at[p] = call[p].n)
  BY <1>2 DEF CoreInv, LocalInv, ReaderInv, HeadSection
<1>6. LocalInv(p)'
  BY <1>2, <1>3, <1>4, <1>5 DEF LocalInv, WriterInv, ReaderInv, ReceivedInv,
     HasReceived, HasCopied, HeadSection, TailSection
<1> QED
  BY <1>1, <1>2, <1>3, <1>6, LocalStep DEF shared, HeadSection, TailSection, HasReceived

(* A consumer at head, with tail past it, has an entry before it.          *)
LEMMA EntryAtHead ==
  ASSUME CoreInv, NEW p \in Procs, at[p] = head, at[p] < tail
  PROVE  \E e \in live : /\ e.off = at[p]
                        /\ mem[SeqCell(RELATIVE(at[p]))] = at[p]
                        /\ HeaderAt(RELATIVE(at[p])) =
                             [payload_size |-> e.len, entry_size |-> e.size]
                        /\ \A c \in PayloadCells(RELATIVE(at[p]), e.len) : mem[c] = e.val
<1>1. head # tail
  BY DEF CoreInv, TypeOK
<1>2. PICK e \in live : e.off = head
  BY <1>1 DEF CoreInv, LiveInv, EntriesJoin, EntryAt
<1> QED
  BY <1>2 DEF CoreInv, LiveIntact

(* The header a consumer reads is the entry's if head is still there;      *)
(* otherwise it is whatever a writer has left in that place.               *)
LEMMA ReadHeaderStep ==
  ASSUME CoreInv, NEW p \in Procs, ReadHeader(p)
  PROVE  CoreInv'
<1> DEFINE r == RELATIVE(at[p])
           h == HeaderAt(r)
           op == call[p].op
<1>1. pc[p] = "r_header" /\ LocalInv(p) /\ dest[p].words = {} /\ at[p] \in Nat
  BY DEF ReadHeader, CoreInv, TypeOK, LocalInv, ReceivedInv, HasCopied
<1>2. at[p] <= head /\ Boundary(at[p]) /\ at[p] < tail
  BY <1>1 DEF LocalInv, ReaderInv, HeadSection
<1>3. h \in Headers
  BY <1>1, <1>2, HeaderCells DEF CoreInv, TypeOK, HeaderAt, Headers
<1>4. at[p] = head => \E e \in live : e.off = at[p]
                         /\ h = [payload_size |-> e.len, entry_size |-> e.size]
  BY <1>2, EntryAtHead
<1>5. /\ UNCHANGED <<shared, call, at, known, dead>>
      /\ \/ GiveBack(p, "IPC_ERR_NOT_READY") /\ UNCHANGED <<hdr, dest>>
         \/ /\ hdr' = [hdr EXCEPT ![p] = h]
            /\ \/ /\ Placeholder(h) \/ op = "skip"
                  /\ Goto(p, "r_advance") /\ UNCHANGED <<ret, dest>>
               \/ /\ GiveBack(p, "IPC_OK")
                  /\ dest' = [dest EXCEPT ![p].offset = at[p],
                                          ![p].size = h.payload_size]
               \/ GiveBack(p, "IPC_ERR_TOO_SMALL") /\ UNCHANGED dest
               \/ /\ ~Placeholder(h) /\ op = "read"
                  /\ Goto(p, "r_copy") /\ UNCHANGED <<ret, dest>>
  BY DEF ReadHeader
<1> HIDE DEF r, h, op
<1>6. /\ pc' \in [Procs -> Labels] /\ ret' \in [Procs -> Statuses]
      /\ dest' \in [Procs -> Received] /\ hdr' \in [Procs -> Headers]
  <2>1. dest' \in [Procs -> Received]
    <3>1. dest' = dest \/ dest' = [dest EXCEPT ![p].offset = at[p],
                                              ![p].size = h.payload_size]
      BY <1>5
    <3>2. h.payload_size \in Nat
      BY <1>3 DEF Headers
    <3> QED
      BY <1>1, <3>1, <3>2 DEF CoreInv, TypeOK, Received
  <2>2. pc' \in [Procs -> Labels]
    BY <1>5 DEF CoreInv, TypeOK, Goto, GiveBack, Labels
  <2>3. ret' \in [Procs -> Statuses]
    BY <1>5 DEF CoreInv, TypeOK, GiveBack, Statuses
  <2>4. hdr' \in [Procs -> Headers]
    BY <1>3, <1>5 DEF CoreInv, TypeOK
  <2> QED
    BY <2>1, <2>2, <2>3, <2>4
<1>7. TypeOK'
  BY <1>5, <1>6 DEF CoreInv, TypeOK, shared
<1>8. /\ OthersKeep(p) /\ at' = at /\ tail' = tail /\ head' = head /\ live' = live
      /\ UNCHANGED shared /\ dest'[p].words = {} /\ call' = call
      /\ \/ pc'[p] = "r_unlock"
         \/ pc'[p] = "r_advance" /\ hdr'[p] = h /\ (Placeholder(h) \/ op = "skip")
         \/ pc'[p] = "r_copy" /\ hdr'[p] = h /\ ~Placeholder(h) /\ op = "read"
  BY <1>1, <1>5 DEF CoreInv, TypeOK, OthersKeep, GiveBack, Goto, shared, Received
<1>9. pc'[p] \in {"r_advance", "r_copy"} /\ at[p] = head => HoldsEntry(p)'
  BY <1>4, <1>8 DEF HoldsEntry
<1>10. call[p].op = "skip" => at[p] = call[p].n
  BY <1>1 DEF LocalInv, ReaderInv, HeadSection
<1>11. LocalInv(p)'
  BY <1>2, <1>8, <1>9, <1>10 DEF LocalInv, WriterInv, ReaderInv, ReceivedInv,
     HasReceived, HasCopied, HeadSection, TailSection, op
<1> QED
  BY <1>1, <1>7, <1>8, <1>11, LocalStep DEF shared, HeadSection, TailSection, HasReceived

(* What is copied of an entry that head has not passed is its payload.     *)
LEMMA CopiedEntry ==
  ASSUME CoreInv, NEW p \in Procs, pc[p] = "r_copy", at[p] = head
  PROVE  \E e \in live : /\ e.off = at[p] /\ e.len = hdr[p].payload_size
                        /\ Words(RELATIVE(at[p]), hdr[p].payload_size) = {e.val}
<1> DEFINE r == RELATIVE(at[p])
           n == hdr[p].payload_size
<1>1. /\ at[p] \in Nat /\ ~Placeholder(hdr[p]) /\ HoldsEntry(p)
  BY DEF CoreInv, TypeOK, LocalInv, ReaderInv
<1>2. PICK e \in live : e.off = at[p] /\ hdr[p] = [payload_size |-> e.len,
                                                   entry_size |-> e.size]
  BY <1>1 DEF HoldsEntry
<1>3. n = e.len /\ e.len > 0 /\ e.len \in Nat /\ e.size \in Nat /\ e.val \in Nat
  BY <1>1, <1>2, LiveTypes DEF CoreInv, Placeholder
<1>4. \A c \in PayloadCells(r, n) : mem[c] = e.val
  BY <1>2, <1>3 DEF CoreInv, LiveIntact
<1>5. r + 24 \in PayloadCells(r, n)
  <2>1. r \in 0 .. BufSize - 1 /\ r % 8 = 0 /\ r + e.size <= BufSize /\ 24 + n <= e.size
    BY <1>1, <1>2, <1>3, RelativeFacts, ModAligned, BufSizeAssumption
    DEF CoreInv, LiveInv, EntryFits, Boundary, RELATIVE, IPC_DATA_ALIGN, HeaderSize
  <2> HIDE DEF r
  <2>2. r + 24 \in 0 .. BufSize - 1 /\ (r + 24) % 8 = 0
    BY <1>3, <2>1, BufSizeAssumption
  <2> QED
    BY <1>3, <2>1, <2>2 DEF PayloadCells, Cells, HeaderSize, IPC_DATA_ALIGN
<1>6. Words(r, n) = {e.val}
  BY <1>4, <1>5 DEF Words
<1> QED
  BY <1>2, <1>3, <1>6

LEMMA CopyPayloadStep ==
  ASSUME CoreInv, NEW p \in Procs, CopyPayload(p)
  PROVE  CoreInv'
<1> DEFINE d == [offset |-> at[p], size |-> hdr[p].payload_size,
                 words |-> Words(RELATIVE(at[p]), hdr[p].payload_size)]
<1>1. pc[p] = "r_copy" /\ LocalInv(p) /\ at[p] \in Nat /\ hdr[p] \in Headers
  BY DEF CopyPayload, CoreInv, TypeOK
<1>2. /\ at[p] <= head /\ Boundary(at[p]) /\ at[p] < tail /\ ~Placeholder(hdr[p])
      /\ call[p].op = "read" /\ (at[p] = head => HoldsEntry(p))
  BY <1>1 DEF LocalInv, ReaderInv, HeadSection
<1>3. at[p] = head => \E e \in live : e.off = at[p] /\
        d = [offset |-> e.off, size |-> e.len, words |-> {e.val}]
  BY <1>1, CopiedEntry
<1>4. d \in Received
  <2>1. Words(RELATIVE(at[p]), hdr[p].payload_size) \subseteq Nat
    BY DEF CoreInv, TypeOK, Words, PayloadCells
  <2> QED
    BY <1>1, <2>1 DEF Received, Headers
<1>5. /\ dest' = [dest EXCEPT ![p] = d] /\ Goto(p, "r_advance")
      /\ UNCHANGED <<shared, call, at, hdr, ret, known, dead>>
  BY DEF CopyPayload
<1> HIDE DEF d
<1>6. TypeOK'
  BY <1>4, <1>5, GotoTypes DEF CoreInv, TypeOK, shared, Labels
<1>7. /\ OthersKeep(p) /\ at' = at /\ tail' = tail /\ head' = head /\ live' = live
      /\ UNCHANGED shared /\ hdr' = hdr /\ ret' = ret /\ call' = call
      /\ pc'[p] = "r_advance" /\ dest'[p] = d
  BY <1>5 DEF Goto, CoreInv, TypeOK, OthersKeep, shared
<1>8. HasCopied(p)' /\ (at[p] = head => HoldsEntry(p)')
  BY <1>2, <1>7 DEF HoldsEntry, HasCopied, Placeholder
<1>9. LocalInv(p)'
  BY <1>2, <1>3, <1>7, <1>8 DEF LocalInv, WriterInv, ReaderInv, ReceivedInv,
     HasReceived, HeadSection, TailSection
<1> QED
  BY <1>1, <1>6, <1>7, <1>9, LocalStep DEF shared, HeadSection, TailSection, HasReceived

(* head moves past the entry it was at.                                    *)
LEMMA PassEntry ==
  ASSUME CoreInv, TypeOK', NEW p \in Procs, OthersKeep(p),
         pc[p] \in {"r_advance", "f_advance"}, at[p] = head,
         head' = at[p] + hdr[p].entry_size,
         live' = {e \in live : e.off # at[p]},
         UNCHANGED <<tail, tailLocked, mem, dest>>,
         \/ pc'[p] = "idle"
         \/ pc'[p] = "r_head" /\ Placeholder(hdr[p])
  PROVE  CoreInv'
<1>1. /\ LocalInv(p) /\ head \in Nat /\ head' \in Nat /\ tail \in Nat
      /\ HoldsEntry(p)
  BY DEF CoreInv, TypeOK, LocalInv, ReaderInv
<1>2. PICK x \in live : x.off = head /\ head' = head + x.size
  BY <1>1 DEF HoldsEntry
<1>3. x.size \in Nat /\ x.size > 0 /\ EntryFits(x)
  <2>1. x.size \in Nat /\ x.len \in Nat /\ EntryFits(x)
    BY LiveTypes DEF CoreInv, LiveInv
  <2> QED
    BY <2>1 DEF EntryFits, HeaderSize
<1>4. live' = {e \in live : e.off # head} /\ head < head' /\ head' <= tail
  BY <1>1, <1>2, <1>3 DEF EntryFits
<1>5. \A e \in live' : head' <= e.off
  <2> SUFFICES ASSUME NEW e \in live' PROVE head' <= e.off
    OBVIOUS
  <2>1. e \in live /\ e # x /\ head <= e.off /\ HeaderSize + e.len <= e.size
    BY <1>2, <1>4 DEF CoreInv, LiveInv, EntryFits
  <2>2. e.off \in Nat /\ e.size \in Nat /\ e.len \in Nat
    BY <2>1, LiveTypes DEF CoreInv
  <2>3. x.off + x.size <= e.off \/ e.off + e.size <= x.off
    BY <2>1 DEF CoreInv, LiveInv
  <2> QED
    BY <1>1, <1>2, <2>1, <2>2, <2>3 DEF HeaderSize
<1>6. TailDiscipline'
  <2>1. TailHolders' = TailHolders /\ p \notin TailHolders
    BY DEF TailHolders, TailSection, OthersKeep
  <2>2. \A q \in TailHolders : at'[q] = at[q]
    BY <2>1 DEF OthersKeep, TailHolders
  <2> QED
    BY <2>1, <2>2 DEF CoreInv, TailDiscipline
<1>7. RingInv'
  <2>1. Boundary(head') /\ Boundary(tail')
    BY <1>2, <1>3 DEF CoreInv, RingInv, EntryFits
  <2>2. head' <= tail' /\ tail' - head' <= BufSize
    BY <1>1, <1>4, BufSizeAssumption DEF CoreInv, RingInv
  <2> QED
    BY <2>1, <2>2 DEF RingInv
<1>8. LiveInv'
  <2>1. \A e \in live' : EntryFits(e)'
    BY <1>4, <1>5 DEF CoreInv, LiveInv, EntryFits, Boundary
  <2>2. \A off \in Nat : off # head /\ EntryAt(off) => EntryAt(off)'
    BY <1>4 DEF EntryAt
  <2>3. head' = tail' \/ EntryAt(head)'
    <3>1. head' = tail \/ EntryAt(head')
      BY <1>2 DEF CoreInv, LiveInv, EntriesJoin
    <3>2. EntryAt(head') => \E e \in live' : e.off = head'
      BY <1>1, <1>4 DEF EntryAt
    <3> QED
      BY <3>1, <3>2 DEF EntryAt
  <2>4. \A e \in live' : e.off + e.size = tail' \/ EntryAt(e.off + e.size)'
    <3> SUFFICES ASSUME NEW e \in live'
                 PROVE  e.off + e.size = tail' \/ EntryAt(e.off + e.size)'
      OBVIOUS
    <3>1. e \in live
      BY <1>4
    <3>2. e.off \in Nat /\ e.size \in Nat
      BY <3>1, LiveTypes DEF CoreInv
    <3>3. e.off + e.size \in Nat /\ e.off + e.size # head
      BY <1>1, <1>4, <1>5, <3>2
    <3> QED
      BY <2>2, <3>1, <3>3 DEF CoreInv, LiveInv, EntriesJoin
  <2> QED
    BY <1>4, <1>5, <2>1, <2>3, <2>4 DEF CoreInv, LiveInv, EntriesJoin
<1>9. LiveIntact'
  BY <1>4 DEF CoreInv, LiveIntact, HeaderAt
<1>10. dest[p].words # {} => dest[p].offset = head /\ pc'[p] = "idle"
  <2>1. CASE HasCopied(p)
    <3>1. \E e \in live : e.off = at[p] /\ dest[p] =
             [offset |-> e.off, size |-> e.len, words |-> {e.val}]
      BY <1>1, <2>1, Zenon DEF LocalInv, ReaderInv
    <3> QED
      BY <2>1, <3>1 DEF HasCopied
  <2>2. CASE ~HasCopied(p)
    BY <1>1, <2>2 DEF LocalInv, ReceivedInv
  <2> QED
    BY <2>1, <2>2
<1>11. LocalInv(p)'
  BY <1>1, <1>4, <1>10 DEF LocalInv, WriterInv, ReaderInv, ReceivedInv,
     HasReceived, HasCopied, HeadSection, TailSection
<1>12. ASSUME NEW q \in Procs \ {p} PROVE LocalInv(q)'
  <2>1. \A e \in live : head' <= e.off => e \in live'
    BY <1>1, <1>4
  <2> QED
    BY <1>1, <1>4, <2>1, Stable DEF CoreInv, OthersKeep
<1>13. DeliveredOnce'
  <2>1. \A q \in Consumers : HasReceived(q)' /\ q # p =>
          HasReceived(q) /\ dest[q].offset < head /\ dest[q].offset \in Nat
    BY DEF CoreInv, LocalInv, ReceivedInv, TypeOK, Received, Procs, OthersKeep,
           HasReceived
  <2>2. HasReceived(p)' => dest[p].offset = head
    BY <1>10 DEF HasReceived
  <2>3. \A q \in Consumers : HasReceived(q)' => ~EntryAt(dest[q].offset)'
    <3> TAKE q \in Consumers
    <3> HAVE HasReceived(q)'
    <3>1. dest[q].offset \in Nat /\ dest[q].offset < head'
      BY <1>1, <1>4, <2>1, <2>2
    <3>2. \A e \in live' : e.off \in Nat
      BY <1>4, LiveTypes DEF CoreInv
    <3> QED
      BY <1>1, <1>5, <3>1, <3>2 DEF EntryAt
  <2>4. \A q1, q2 \in Consumers :
          HasReceived(q1)' /\ HasReceived(q2)' /\ dest[q1].offset = dest[q2].offset
            => q1 = q2
    <3> TAKE q1, q2 \in Consumers
    <3> HAVE HasReceived(q1)' /\ HasReceived(q2)' /\ dest[q1].offset = dest[q2].offset
    <3>1. CASE q1 # p /\ q2 # p
      BY <2>1, <3>1 DEF CoreInv, DeliveredOnce
    <3>2. CASE q1 = p \/ q2 = p
      BY <1>1, <2>1, <2>2, <3>2
    <3> QED
      BY <3>1, <3>2
  <2> QED
    BY <2>3, <2>4 DEF DeliveredOnce
<1> QED
  BY <1>6, <1>7, <1>8, <1>9, <1>11, <1>12, <1>13 DEF CoreInv, OthersKeep

(* A compare-and-swap that finds another word at the end of a call leaves  *)
(* everything shared as it is.                                             *)
LEMMA IllegalStep ==
  ASSUME CoreInv, NEW p \in Procs, pc[p] \in HeadSection,
         Return(p, "IPC_ERR_ILLEGAL_STATE"),
         UNCHANGED <<head, headLocked, live, known>>,
         UNCHANGED <<tail, tailLocked, mem, dest, dead>>
  PROVE  CoreInv'
<1>1. TypeOK'
  BY ReturnTypes DEF CoreInv, TypeOK, Statuses
<1>2. /\ OthersKeep(p) /\ pc'[p] = "idle" /\ ret'[p] # "IPC_OK"
      /\ pc[p] # "idle" /\ pc[p] \notin TailSection
  BY DEF CoreInv, TypeOK, OthersKeep, Return, Goto, HeadSection, TailSection
<1> QED
  BY <1>1, <1>2, ForgetfulStep

LEMMA AdvanceStep ==
  ASSUME CoreInv, NEW p \in Consumers, Advance(p)
  PROVE  CoreInv'
<1>0. p \in Procs
  BY DEF Procs
<1>1. /\ pc[p] = "r_advance" /\ at[p] \in Nat /\ hdr[p] \in Headers /\ head \in Nat
  BY <1>0 DEF Advance, CoreInv, TypeOK
<1>2. CASE headLocked /\ head = at[p]
  <2>1. /\ head' = at[p] + hdr[p].entry_size /\ headLocked' = FALSE
        /\ live' = {e \in live : e.off # at[p]}
        /\ UNCHANGED <<tail, tailLocked, mem, dest, dead>>
        /\ \/ /\ Placeholder(hdr[p]) /\ Goto(p, "r_head")
              /\ at' = [at EXCEPT ![p] = 0] /\ hdr' = [hdr EXCEPT ![p] = NoHdr]
              /\ UNCHANGED <<call, ret, known>>
           \/ Return(p, "IPC_OK") /\ Report(p, at[p])
    BY <1>2 DEF Advance
  <2>2. TypeOK'
    <3>1. head' \in Nat /\ live' \subseteq Entries
      BY <1>1, <2>1 DEF CoreInv, TypeOK, Headers
    <3>2. CASE Return(p, "IPC_OK") /\ Report(p, at[p])
      BY <1>0, <1>1, <2>1, <3>1, <3>2, ReturnTypes
      DEF CoreInv, TypeOK, Report, Statuses
    <3>3. CASE /\ Placeholder(hdr[p]) /\ Goto(p, "r_head")
               /\ at' = [at EXCEPT ![p] = 0] /\ hdr' = [hdr EXCEPT ![p] = NoHdr]
               /\ UNCHANGED <<call, ret, known>>
      BY <1>0, <2>1, <3>1, <3>3, GotoTypes DEF CoreInv, TypeOK, Labels, NoHdr, Headers
    <3> QED
      BY <2>1, <3>2, <3>3
  <2>3. /\ OthersKeep(p)
        /\ \/ pc'[p] = "idle"
           \/ pc'[p] = "r_head" /\ Placeholder(hdr[p])
    BY <1>0, <1>1, <2>1 DEF CoreInv, TypeOK, OthersKeep, Return, Goto
  <2> QED
    BY <1>0, <1>1, <1>2, <2>1, <2>2, <2>3, PassEntry
<1>3. CASE ~headLocked \/ head # at[p]
  BY <1>0, <1>1, <1>3, IllegalStep DEF Advance, HeadSection
<1> QED
  BY <1>2, <1>3

LEMMA UnlockStep ==
  ASSUME CoreInv, NEW p \in Consumers, Unlock(p)
  PROVE  CoreInv'
<1>0. p \in Procs
  BY DEF Procs
<1>1. /\ pc[p] = "r_unlock" /\ at[p] \in Nat /\ dest[p].words = {}
      /\ ret[p] \in Statuses
  BY <1>0 DEF Unlock, CoreInv, TypeOK, LocalInv, ReceivedInv, HasCopied
<1>2. CASE headLocked /\ head = at[p]
  <2>1. /\ headLocked' = FALSE /\ Return(p, ret[p])
        /\ UNCHANGED <<head, tail, tailLocked, mem, live, dest, dead>>
        /\ Report(p, at[p]) \/ UNCHANGED known
    BY <1>2 DEF Unlock
  <2>2. TypeOK'
    BY <1>0, <1>1, <2>1, ReturnTypes DEF CoreInv, TypeOK, Report
  <2>3. OthersKeep(p) /\ pc'[p] = "idle" /\ dest' = dest
    BY <1>0, <2>1 DEF CoreInv, TypeOK, OthersKeep, Return, Goto
  <2> QED
    BY <1>0, <1>1, <2>1, <2>2, <2>3, ForgetfulStep DEF TailSection
<1>3. CASE ~headLocked \/ head # at[p]
  BY <1>0, <1>1, <1>3, IllegalStep DEF Unlock, HeadSection
<1> QED
  BY <1>2, <1>3

LEMMA ForceLoadHeadStep ==
  ASSUME CoreInv, NEW p \in Procs, ForceLoadHead(p)
  PROVE  CoreInv'
<1> USE DEF ForceLoadHead, Goto
<1>1. TypeOK'
  BY DEF CoreInv, TypeOK, shared, Labels
<1>2. /\ pc[p] = "f_head" /\ dest[p].words = {} /\ head \in Nat /\ Boundary(head)
  BY DEF CoreInv, TypeOK, LocalInv, ReceivedInv, HasCopied, RingInv
<1>3. /\ OthersKeep(p) /\ at'[p] = head /\ dest' = dest /\ head' = head
      /\ pc'[p] = "f_tail" /\ ret' = ret /\ UNCHANGED shared
  BY DEF CoreInv, TypeOK, OthersKeep, shared
<1>4. LocalInv(p)'
  BY <1>2, <1>3 DEF LocalInv, WriterInv, ReaderInv, ReceivedInv,
     HasReceived, HasCopied, HeadSection, TailSection
<1> QED
  BY <1>1, <1>2, <1>3, <1>4, LocalStep DEF shared, HeadSection, TailSection, HasReceived

LEMMA ForceLoadTailStep ==
  ASSUME CoreInv, NEW p \in Consumers, ForceLoadTail(p)
  PROVE  CoreInv'
<1>0. p \in Procs
  BY DEF Procs
<1>1. /\ pc[p] = "f_tail" /\ dest[p].words = {} /\ at[p] \in Nat /\ head \in Nat /\ tail \in Nat /\ head <= tail
      /\ at[p] <= head /\ Boundary(at[p])
  BY <1>0 DEF ForceLoadTail, CoreInv, TypeOK, LocalInv, ReceivedInv, HasCopied, RingInv, ReaderInv
<1>2. CASE at[p] = tail
  <2>1. Return(p, "IPC_EMPTY") /\ Report(p, at[p]) /\ UNCHANGED <<shared, dest, dead>>
    BY <1>2 DEF ForceLoadTail
  <2>2. TypeOK'
    BY <1>0, <1>1, <2>1, ReturnTypes DEF CoreInv, TypeOK, shared, Report, Statuses
  <2>3. /\ OthersKeep(p) /\ pc'[p] = "idle" /\ dest' = dest /\ UNCHANGED shared
    BY <1>0, <2>1 DEF CoreInv, TypeOK, OthersKeep, Return, Goto
  <2> QED
    BY <1>0, <1>1, <2>2, <2>3, ForgetfulStep DEF shared, TailSection
<1>3. CASE at[p] # tail
  <2>1. /\ Goto(p, "f_size") /\ UNCHANGED <<call, at, hdr, ret, known>>
        /\ UNCHANGED <<shared, dest, dead>>
    BY <1>3 DEF ForceLoadTail
  <2>2. TypeOK'
    BY <1>0, <2>1, GotoTypes DEF CoreInv, TypeOK, shared, Labels
  <2>3. OthersKeep(p) /\ pc'[p] = "f_size" /\ head' = head /\ tail' = tail
    BY <1>0, <2>1 DEF CoreInv, TypeOK, OthersKeep, Goto, shared
  <2>4. LocalInv(p)'
    BY <1>1, <1>3, <2>1, <2>3 DEF LocalInv, WriterInv, ReaderInv, ReceivedInv,
       HasReceived, HasCopied, HeadSection, TailSection
  <2> QED
    BY <1>0, <1>1, <2>1, <2>2, <2>3, <2>4, LocalStep
    DEF shared, HeadSection, TailSection, HasReceived
<1> QED
  BY <1>2, <1>3

LEMMA ForceReadSizeStep ==
  ASSUME CoreInv, NEW p \in Procs, ForceReadSize(p)
  PROVE  CoreInv'
<1> DEFINE h == HeaderAt(RELATIVE(at[p]))
<1>1. /\ pc[p] = "f_size" /\ LocalInv(p) /\ dest[p].words = {} /\ at[p] \in Nat
      /\ head \in Nat
  BY DEF ForceReadSize, CoreInv, TypeOK, LocalInv, ReceivedInv, HasCopied
<1>2. at[p] <= head /\ at[p] < tail /\ Boundary(at[p])
  BY <1>1 DEF LocalInv, ReaderInv
<1>3. h \in Headers
  BY <1>1, <1>2, HeaderCells DEF CoreInv, TypeOK, HeaderAt, Headers
<1>4. /\ hdr' = [hdr EXCEPT ![p] = h] /\ Goto(p, "f_advance")
      /\ UNCHANGED <<shared, call, at, dest, ret, known, dead>>
  BY DEF ForceReadSize
<1> HIDE DEF h
<1>5. TypeOK'
  BY <1>3, <1>4, GotoTypes DEF CoreInv, TypeOK, shared, Labels
<1>6. /\ OthersKeep(p) /\ pc'[p] = "f_advance" /\ at' = at /\ hdr'[p] = h
      /\ head' = head /\ tail' = tail /\ live' = live
  BY <1>4 DEF CoreInv, TypeOK, OthersKeep, Goto, shared
<1>7. at[p] = head => HoldsEntry(p)'
  BY <1>2, <1>6, EntryAtHead DEF HoldsEntry, h
<1>8. LocalInv(p)'
  BY <1>1, <1>2, <1>4, <1>6, <1>7 DEF LocalInv, WriterInv, ReaderInv, ReceivedInv,
     HasReceived, HasCopied, HeadSection, TailSection
<1> QED
  BY <1>1, <1>4, <1>5, <1>6, <1>8, LocalStep DEF shared, HeadSection, TailSection, HasReceived

LEMMA ForceAdvanceStep ==
  ASSUME CoreInv, NEW p \in Consumers, ForceAdvance(p)
  PROVE  CoreInv'
<1>0. p \in Procs
  BY DEF Procs
<1>1. /\ pc[p] = "f_advance" /\ at[p] \in Nat /\ hdr[p] \in Headers /\ head \in Nat
      /\ dest[p].words = {}
  BY <1>0 DEF ForceAdvance, CoreInv, TypeOK, LocalInv, ReceivedInv, HasCopied
<1>2. UNCHANGED <<headLocked, tail, tailLocked, mem, dest, dead>>
  BY DEF ForceAdvance
<1>3. CASE ~headLocked /\ head = at[p]
  <2>1. /\ head' = at[p] + hdr[p].entry_size /\ Return(p, "IPC_OK")
        /\ live' = {e \in live : e.off # at[p]} /\ Report(p, at[p])
    BY <1>3 DEF ForceAdvance
  <2>2. TypeOK'
    <3>1. head' \in Nat /\ live' \subseteq Entries
      BY <1>1, <2>1 DEF CoreInv, TypeOK, Headers
    <3> QED
      BY <1>0, <1>1, <1>2, <2>1, <3>1, ReturnTypes
      DEF CoreInv, TypeOK, Report, Statuses
  <2>3. OthersKeep(p) /\ pc'[p] = "idle"
    BY <1>0, <1>2, <2>1 DEF CoreInv, TypeOK, OthersKeep, Return, Goto
  <2> QED
    BY <1>0, <1>1, <1>2, <1>3, <2>1, <2>2, <2>3, PassEntry
<1>4. CASE headLocked \/ head # at[p]
  <2>1. /\ Return(p, "IPC_ALREADY_SKIPPED") /\ UNCHANGED <<head, live>>
        /\ Report(p, IF headLocked THEN head + 1 ELSE head)
    BY <1>4 DEF ForceAdvance
  <2>2. TypeOK'
    BY <1>0, <1>1, <1>2, <2>1, ReturnTypes DEF CoreInv, TypeOK, Report, Statuses
  <2>3. /\ OthersKeep(p) /\ pc'[p] = "idle"
        /\ UNCHANGED shared
    BY <1>0, <1>2, <2>1 DEF CoreInv, TypeOK, OthersKeep, Return, Goto, shared
  <2> QED
    BY <1>0, <1>1, <1>2, <2>1, <2>2, <2>3, ForgetfulStep
    DEF shared, TailSection
<1> QED
  BY <1>3, <1>4

LEMMA CrashCore ==
  ASSUME CoreInv, NEW p \in Procs, Crash(p)
  PROVE  CoreInv'
<1>1. /\ UNCHANGED <<head, headLocked, tail, tailLocked, mem, live, pc, call, at,
                    hdr, dest, ret, known>>
      /\ dead' = dead \cup {p}
  BY DEF Crash, shared
<1> QED
  BY <1>1 DEF CoreInv, TypeOK, TailDiscipline, RingInv, LiveInv, LiveIntact,
     LocalInv, WriterInv, ReaderInv, ReceivedInv, DeliveredOnce, EntryFits,
     EntriesJoin, EntryAt, HeaderAt, TailHolders, HoldsEntry, HasCopied, HasReceived, PlannedHeader, SpaceToWrap, FreeSpace

LEMMA ProduceCore ==
  ASSUME CoreInv, NEW p \in Producers, Produce(p)
  PROVE  CoreInv'
<1>0. p \in Procs
  BY DEF Procs
<1>1. CASE \E n \in PayloadSizes, v \in Values : WriteCall(p, n, v)
  BY <1>0, <1>1, WriteCallStep
<1>2. CASE \E n \in PayloadSizes : WriteReject(p, n)
  BY <1>0, <1>2, WriteRejectStep
<1>3. CASE WriteLoadTail(p)
  BY <1>0, <1>3, WriteLoadTailStep
<1>4. CASE WriteLoadHead(p)
  BY <1>0, <1>4, WriteLoadHeadStep
<1>5. CASE WriteLock(p)
  BY <1>0, <1>5, WriteLockStep
<1>6. CASE WriteFill(p)
  BY <1>0, <1>6, WriteFillStep
<1>7. CASE WriteSeq(p)
  BY <1>0, <1>7, WriteSeqStep
<1>8. CASE WriteCommit(p)
  BY <1>0, <1>8, WriteCommitStep
<1> QED
  BY <1>1, <1>2, <1>3, <1>4, <1>5, <1>6, <1>7, <1>8 DEF Produce, WriteStep

LEMMA ConsumeCore ==
  ASSUME CoreInv, NEW p \in Consumers, Consume(p)
  PROVE  CoreInv'
<1>0. p \in Procs
  BY DEF Procs
<1>1. ASSUME NEW cap \in Capacities, ReadCall(p, cap) PROVE CoreInv'
  <2>1. [op |-> "read", n |-> cap, v |-> 0] \in Calls
    BY CallAssumption DEF Calls
  <2> QED
    BY <1>0, <1>1, <2>1, ConsumerCallStep DEF ReadCall
<1>2. CASE PeekCall(p)
  <2>1. [op |-> "peek", n |-> 0, v |-> 0] \in Calls
    BY DEF Calls
  <2> QED
    BY <1>0, <1>2, <2>1, ConsumerCallStep DEF PeekCall
<1>3. CASE SkipCall(p)
  <2>1. [op |-> "skip", n |-> known[p], v |-> 0] \in Calls
    BY DEF Calls, CoreInv, TypeOK
  <2> QED
    BY <1>0, <1>3, <2>1, ConsumerCallStep DEF SkipCall
<1>4. CASE SkipForceCall(p)
  <2>1. [op |-> "skip_force", n |-> 0, v |-> 0] \in Calls
    BY DEF Calls
  <2> QED
    BY <1>0, <1>4, <2>1, ConsumerCallStep DEF SkipForceCall
<1>5. CASE SkipReject(p)
  BY <1>0, <1>5, SkipRejectStep
<1>6. CASE LoadHead(p)
  BY <1>6, LoadHeadStep
<1>7. CASE LockHead(p)
  BY <1>0, <1>7, LockHeadStep
<1>8. CASE ReadTail(p)
  BY <1>0, <1>8, ReadTailStep
<1>9. CASE ReadHeader(p)
  BY <1>0, <1>9, ReadHeaderStep
<1>10. CASE CopyPayload(p)
  BY <1>0, <1>10, CopyPayloadStep
<1>11. CASE Advance(p)
  BY <1>11, AdvanceStep
<1>12. CASE Unlock(p)
  BY <1>12, UnlockStep
<1>13. CASE ForceLoadHead(p)
  BY <1>0, <1>13, ForceLoadHeadStep
<1>14. CASE ForceLoadTail(p)
  BY <1>14, ForceLoadTailStep
<1>15. CASE ForceReadSize(p)
  BY <1>0, <1>15, ForceReadSizeStep
<1>16. CASE ForceAdvance(p)
  BY <1>16, ForceAdvanceStep
<1> QED
  BY <1>1, <1>2, <1>3, <1>4, <1>5, <1>6, <1>7, <1>8, <1>9, <1>10, <1>11, <1>12,
     <1>13, <1>14, <1>15, <1>16 DEF Consume, ConsumeStep

LEMMA StutterCore == ASSUME CoreInv, UNCHANGED vars PROVE CoreInv'
BY DEF vars, CoreInv, TypeOK, TailDiscipline, RingInv, LiveInv, LiveIntact,
   LocalInv, WriterInv, ReaderInv, ReceivedInv, DeliveredOnce, EntryFits,
   EntriesJoin, EntryAt, HeaderAt, TailHolders, HoldsEntry, HasCopied,
   HasReceived, PlannedHeader, SpaceToWrap, FreeSpace

-----------------------------------------------------------------------------
(* The lock on head.                                                       *)

Illegal(p) == ret[p] = "IPC_ERR_ILLEGAL_STATE"

(* What a step of p may do to the section behind the lock on head: leave   *)
(* things as they are (and head too, if it is locked); enter it; leave it  *)
(* with the compare-and-swap that unlocks head; or fail to unlock head.    *)
HeadStep(p) ==
  \/ /\ pc'[p] \in HeadSection <=> pc[p] \in HeadSection
     /\ pc[p] \in HeadSection => at'[p] = at[p]
     /\ headLocked' = headLocked /\ (headLocked => head' = head)
     /\ Illegal(p)' => Illegal(p)
  \/ /\ ~headLocked /\ head = at[p] /\ headLocked'
     /\ pc[p] \notin HeadSection /\ pc'[p] \in HeadSection
     /\ head' = head /\ at'[p] = at[p] /\ ret'[p] = ret[p]
  \/ /\ headLocked /\ head = at[p] /\ ~headLocked'
     /\ pc[p] \in HeadSection /\ pc'[p] \notin HeadSection
     /\ Illegal(p)' => Illegal(p)
  \/ /\ ~headLocked \/ head # at[p]
     /\ headLocked' = headLocked /\ head' = head
     /\ pc[p] \in HeadSection /\ pc'[p] \notin HeadSection

LEMMA EnterHead ==
  ASSUME TypeOK, NEW p \in Procs, NEW c, NEW l \in Labels \ HeadSection, Enter(p, c, l)
  PROVE  OthersKeep(p) /\ HeadStep(p)
BY DEF TypeOK, OthersKeep, Goto, Enter, shared, HeadStep, HeadSection, Illegal

LEMMA ProduceHead ==
  ASSUME TypeOK, TailDiscipline, NEW p \in Procs, Produce(p)
  PROVE  OthersKeep(p) /\ HeadStep(p)
<1> USE DEF TypeOK, OthersKeep, Goto, Return, Enter, shared
<1>1. ASSUME NEW n \in PayloadSizes, NEW v \in Values, WriteCall(p, n, v)
      PROVE  OthersKeep(p) /\ HeadStep(p)
  BY <1>1 DEF WriteCall, HeadStep, HeadSection, Illegal
<1>2. ASSUME NEW n \in PayloadSizes, WriteReject(p, n)
      PROVE  OthersKeep(p) /\ HeadStep(p)
  BY <1>2 DEF WriteReject, HeadStep, HeadSection, Illegal
<1>3. CASE WriteLoadTail(p)
  BY <1>3 DEF WriteLoadTail, HeadStep, HeadSection, Illegal
<1>4. CASE WriteLoadHead(p)
  BY <1>4 DEF WriteLoadHead, HeadStep, HeadSection, Illegal
<1>5. CASE WriteLock(p)
  BY <1>5 DEF WriteLock, HeadStep, HeadSection, Illegal
<1>6. CASE WriteFill(p)
  BY <1>6 DEF WriteFill, HeadStep, HeadSection, Illegal
<1>7. CASE WriteSeq(p)
  BY <1>7 DEF WriteSeq, HeadStep, HeadSection, Illegal
<1>8. CASE WriteCommit(p)
  <2>1. tailLocked /\ tail = at[p]
    BY <1>8 DEF WriteCommit, TailDiscipline, TailHolders, TailSection
  <2> QED
    BY <1>8, <2>1 DEF WriteCommit, HeadStep, HeadSection, Illegal
<1> QED
  BY <1>1, <1>2, <1>3, <1>4, <1>5, <1>6, <1>7, <1>8 DEF Produce, WriteStep

LEMMA ConsumeHead ==
  ASSUME TypeOK, NEW p \in Procs, Consume(p)
  PROVE  OthersKeep(p) /\ HeadStep(p)
<1> USE DEF TypeOK, OthersKeep, Goto, Return, shared
<1>1. ASSUME NEW c, NEW l \in {"r_head", "f_head"}, Enter(p, c, l)
      PROVE  OthersKeep(p) /\ HeadStep(p)
  BY <1>1 DEF Enter, HeadStep, HeadSection, Illegal
<1>2. CASE SkipReject(p)
  BY <1>2 DEF SkipReject, HeadStep, HeadSection, Illegal
<1>3. CASE LoadHead(p)
  BY <1>3 DEF LoadHead, HeadStep, HeadSection, Illegal
<1>4. CASE LockHead(p)
  BY <1>4 DEF LockHead, HeadStep, HeadSection, Illegal
<1>5. CASE ReadTail(p)
  BY <1>5 DEF ReadTail, GiveBack, HeadStep, HeadSection, Illegal
<1>6. CASE ReadHeader(p)
  <2>1. /\ pc[p] = "r_header" /\ OthersKeep(p) /\ UNCHANGED <<shared, at>>
        /\ pc'[p] \in {"r_unlock", "r_advance", "r_copy"}
        /\ Illegal(p)' => Illegal(p)
    BY <1>6 DEF ReadHeader, GiveBack, Illegal
  <2> QED
    BY <2>1 DEF HeadStep, HeadSection
<1>7. CASE CopyPayload(p)
  BY <1>7 DEF CopyPayload, HeadStep, HeadSection, Illegal
<1>8. CASE Advance(p)
  BY <1>8 DEF Advance, HeadStep, HeadSection, Illegal
<1>9. CASE Unlock(p)
  BY <1>9 DEF Unlock, HeadStep, HeadSection, Illegal
<1>10. CASE ForceLoadHead(p)
  BY <1>10 DEF ForceLoadHead, HeadStep, HeadSection, Illegal
<1>11. CASE ForceLoadTail(p)
  BY <1>11 DEF ForceLoadTail, HeadStep, HeadSection, Illegal
<1>12. CASE ForceReadSize(p)
  BY <1>12 DEF ForceReadSize, HeadStep, HeadSection, Illegal
<1>13. CASE ForceAdvance(p)
  BY <1>13 DEF ForceAdvance, HeadStep, HeadSection, Illegal
<1>14. CASE \/ \E cap \in Capacities : ReadCall(p, cap)
            \/ PeekCall(p) \/ SkipCall(p) \/ SkipForceCall(p)
  BY <1>1, <1>14 DEF ReadCall, PeekCall, SkipCall, SkipForceCall
<1> QED
  BY <1>2, <1>3, <1>4, <1>5, <1>6, <1>7, <1>8, <1>9, <1>10, <1>11, <1>12, <1>13,
     <1>14 DEF Consume, ConsumeStep

LEMMA CrashHead ==
  ASSUME TypeOK, NEW p \in Procs, Crash(p)
  PROVE  OthersKeep(p) /\ HeadStep(p)
BY DEF Crash, TypeOK, OthersKeep, HeadStep, Illegal, shared

LEMMA DisciplineKept ==
  ASSUME HeadDiscipline, NEW p \in Procs, OthersKeep(p), HeadStep(p)
  PROVE  HeadDiscipline'
<1> USE DEF HeadDiscipline
<1>1. \A q \in Procs \ {p} : (q \in HeadHolders' <=> q \in HeadHolders) /\ at'[q] = at[q]
  BY DEF HeadHolders, OthersKeep
<1>2. p \in HeadHolders <=> pc[p] \in HeadSection
  BY DEF HeadHolders
<1>3. p \in HeadHolders' <=> pc'[p] \in HeadSection
  BY DEF HeadHolders
<1>4. HeadHolders \subseteq Procs /\ HeadHolders' \subseteq Procs
  BY DEF HeadHolders
<1>5. CASE p \in HeadHolders /\ p \in HeadHolders'
  <2>1. HeadHolders = {p}
    BY <1>5
  <2>2. HeadHolders' = {p}
    BY <1>1, <1>4, <1>5, <2>1
  <2> QED
    BY <1>2, <1>3, <1>5, <2>1, <2>2 DEF HeadStep
<1>6. CASE p \notin HeadHolders /\ p \notin HeadHolders'
  <2>1. HeadHolders' = HeadHolders
    BY <1>1, <1>4, <1>6
  <2> QED
    BY <1>1, <1>2, <1>3, <1>4, <1>6, <2>1 DEF HeadStep
<1>7. CASE p \notin HeadHolders /\ p \in HeadHolders'
  <2>1. /\ ~headLocked /\ head = at[p] /\ headLocked' /\ head' = head
        /\ at'[p] = at[p]
    BY <1>2, <1>3, <1>7 DEF HeadStep
  <2>2. HeadHolders' = {p}
    BY <1>1, <1>4, <1>7, <2>1
  <2> QED
    BY <2>1, <2>2
<1>8. CASE p \in HeadHolders /\ p \notin HeadHolders'
  <2>1. HeadHolders = {p} /\ headLocked /\ head = at[p]
    BY <1>8
  <2>2. HeadHolders' = {}
    BY <1>1, <1>4, <1>8, <2>1
  <2>3. ~headLocked'
    BY <1>2, <1>3, <1>8, <2>1 DEF HeadStep
  <2> QED
    BY <2>2, <2>3
<1> QED
  BY <1>5, <1>6, <1>7, <1>8

(* While the lock on head works, whoever is in its section can unlock it.  *)
LEMMA LegalKept ==
  ASSUME HeadDiscipline, NEW p \in Procs, OthersKeep(p), HeadStep(p),
         NEW q \in Procs, Illegal(q)'
  PROVE  Illegal(q)
<1>1. CASE q # p
  BY <1>1 DEF OthersKeep, Illegal
<1>2. CASE q = p
  <2>1. pc[p] \in HeadSection => headLocked /\ head = at[p]
    BY DEF HeadDiscipline, HeadHolders
  <2> QED
    BY <1>2, <2>1 DEF HeadStep, Illegal
<1> QED
  BY <1>1, <1>2

-----------------------------------------------------------------------------
(* The theorems.                                                           *)

LEMMA InitIInv == Init => IInv
<1> SUFFICES ASSUME Init PROVE IInv
  OBVIOUS
<1> USE DEF Init
<1>1. TypeOK
  <2>1. mem \in [Cells -> Nat]
    BY CallAssumption
  <2> QED
    BY <2>1 DEF TypeOK, Labels, Calls, NoCall, Headers, NoHdr, Received, NoDest,
       Statuses
<1>2. HeadHolders = {} /\ TailHolders = {}
  BY DEF HeadHolders, TailHolders, HeadSection, TailSection
<1>3. HeadDiscipline /\ TailDiscipline
  BY <1>2 DEF HeadDiscipline, TailDiscipline
<1>4. RingInv
  <2>1. (0 % BufSize) = 0
    BY BufSizeAssumption
  <2> QED
    BY <2>1, BufSizeAssumption
    DEF RingInv, Boundary, RELATIVE, HeaderSize, IPC_DATA_ALIGN
<1>5. LiveInv /\ LiveIntact
  BY DEF LiveInv, LiveIntact, EntriesJoin
<1>6. \A p \in Procs : LocalInv(p)
  BY DEF LocalInv, WriterInv, ReaderInv, ReceivedInv, HasReceived, HasCopied,
         NoDest, HeadSection, TailSection
<1> QED
  BY <1>1, <1>3, <1>4, <1>5, <1>6
  DEF IInv, CoreInv, NoIllegalState, DeliveredOnce, HasReceived, NoDest, Procs

LEMMA LockStep ==
  ASSUME IInv, CoreInv', NEW p \in Procs, OthersKeep(p), HeadStep(p)
  PROVE  IInv'
<1>1. HeadDiscipline'
  BY DisciplineKept DEF IInv
<1>2. NoIllegalState'
  BY LegalKept DEF IInv, NoIllegalState, Illegal
<1> QED
  BY <1>1, <1>2 DEF IInv

LEMMA ProduceStep ==
  ASSUME IInv, NEW p \in Producers, Produce(p)
  PROVE  IInv'
BY ProduceCore, ProduceHead, LockStep DEF IInv, CoreInv, Procs

LEMMA ConsumeStepInv ==
  ASSUME IInv, NEW p \in Consumers, Consume(p)
  PROVE  IInv'
BY ConsumeCore, ConsumeHead, LockStep DEF IInv, CoreInv, Procs

LEMMA CrashStep ==
  ASSUME IInv, NEW p \in Procs, Crash(p)
  PROVE  IInv'
BY CrashCore, CrashHead, LockStep DEF IInv, CoreInv

LEMMA StutterIInv == ASSUME IInv, UNCHANGED vars PROVE IInv'
BY StutterCore DEF vars, IInv, HeadDiscipline, HeadHolders, NoIllegalState

LEMMA NextIInv == IInv /\ [Next]_vars => IInv'
BY ProduceStep, ConsumeStepInv, CrashStep, StutterIInv DEF Next

(* The inductive invariant holds in every reachable state.                 *)
THEOREM Invariance == Spec => []IInv
<1>1. Init => IInv
  BY InitIInv
<1>2. IInv /\ [Next]_vars => IInv'
  BY NextIInv
<1> QED
  BY <1>1, <1>2, PTL DEF Spec

(* The header, the locals and the history keep their types: no size read   *)
(* from shared memory and no offset computed from one is out of range.     *)
THEOREM TypeCorrect == Spec => []TypeOK
<1>1. IInv => TypeOK
  BY DEF IInv, CoreInv
<1> QED
  BY <1>1, Invariance, PTL

(* head and tail are each locked by one process at a time, the one that    *)
(* set the bit, until that process unlocks it.                             *)
THEOREM LocksHold == Spec => []LockDiscipline
<1>1. IInv => LockDiscipline
  BY DEF IInv, CoreInv, LockDiscipline
<1> QED
  BY <1>1, Invariance, PTL

(* No call ever returns IPC_ERR_ILLEGAL_STATE from ipc_buffer.c.           *)
THEOREM NeverIllegalState == Spec => []NoIllegalState
<1>1. IInv => NoIllegalState
  BY DEF IInv
<1> QED
  BY <1>1, Invariance, PTL

LEMMA CoreRingBound == CoreInv => RingBound
<1> SUFFICES ASSUME CoreInv PROVE RingBound
  OBVIOUS
<1>1. \A p \in TailHolders : at[p] + hdr[p].entry_size <= head + BufSize
  BY DEF CoreInv, LocalInv, WriterInv, TailHolders
<1>2. \A p \in TailHolders : at[p] \in Nat /\ hdr[p].entry_size \in Nat
  BY DEF CoreInv, TypeOK, Headers, TailHolders
<1>3. head \in Nat
  BY DEF CoreInv, TypeOK
<1> QED
  BY <1>1, <1>2, <1>3, BufSizeAssumption DEF RingBound, CoreInv, RingInv

(* A writer, of an entry or of a placeholder, never runs into the entries  *)
(* that head has not passed.                                               *)
THEOREM NoOverrun == Spec => []RingBound
<1>1. IInv => RingBound
  BY CoreRingBound DEF IInv
<1> QED
  BY <1>1, Invariance, PTL

(* What was committed stays in memory as it was until head passes it.      *)
THEOREM EntriesIntact == Spec => []LiveIntact
<1>1. IInv => LiveIntact
  BY DEF IInv, CoreInv
<1> QED
  BY <1>1, Invariance, PTL

(* head, tail and the entries between them always join up.                 *)
THEOREM EntriesJoined == Spec => []EntriesJoin
<1>1. IInv => EntriesJoin
  BY DEF IInv, CoreInv, LiveInv
<1> QED
  BY <1>1, Invariance, PTL

(* What a read has copied when it gives the entry up is what was written.  *)
THEOREM ReadsIntact == Spec => []CopyIntact
<1>1. IInv => CopyIntact
  <2> SUFFICES ASSUME IInv, NEW p \in Consumers, HasCopied(p)
               PROVE  \E e \in live : dest[p] = [offset |-> e.off, size |-> e.len,
                                                 words |-> {e.val}]
    BY DEF CopyIntact, HasCopied
  <2>1. ReaderInv(p) /\ at[p] = head
    BY DEF IInv, CoreInv, LocalInv, Procs, HeadDiscipline, HeadHolders, HeadSection,
           HasCopied
  <2> QED
    BY <2>1 DEF ReaderInv
<1> QED
  BY <1>1, Invariance, PTL

(* The sequence number never disagrees once tail was seen unlocked and     *)
(* past head.                                                              *)
THEOREM NeverUnready == Spec => []LockedEntryReady
<1>1. IInv => LockedEntryReady
  <2> SUFFICES ASSUME IInv, NEW p \in Consumers, pc[p] = "r_header"
               PROVE  mem[SeqCell(RELATIVE(at[p]))] = at[p]
    BY DEF LockedEntryReady
  <2>1. at[p] = head /\ at[p] < tail /\ p \in Procs
    BY DEF IInv, CoreInv, HeadDiscipline, HeadHolders, HeadSection, LocalInv,
           ReaderInv, Procs
  <2> QED
    BY <2>1, EntryAtHead DEF IInv
<1> QED
  BY <1>1, Invariance, PTL

(* No entry is handed to two consumers, or to one and left for another.    *)
THEOREM ExactlyOnce == Spec => []DeliveredOnce
<1>1. IInv => DeliveredOnce
  BY DEF IInv, CoreInv
<1> QED
  BY <1>1, Invariance, PTL

(* Only p's own step takes p out of r_advance, and it is Advance(p).       *)
LEMMA LeavesAdvance ==
  ASSUME CoreInv, Next, NEW p \in Procs, pc[p] = "r_advance", pc'[p] # pc[p]
  PROVE  Advance(p)
<1>1. pc \in [Procs -> Labels]
  BY DEF CoreInv, TypeOK
<1>2. ASSUME NEW q \in Procs, OthersKeep(q) PROVE q = p
  BY <1>2 DEF OthersKeep
<1>3. ASSUME NEW q \in Producers, Produce(q) PROVE FALSE
  BY <1>1, <1>3
  DEF Procs, Produce, WriteStep, WriteCall, WriteReject, Enter, Goto, Return,
      WriteLoadTail, WriteLoadHead, WriteLock, WriteFill, WriteSeq, WriteCommit
<1>4. ASSUME NEW q \in Consumers, Consume(q) PROVE Advance(p)
  BY <1>1, <1>4
  DEF Procs, Consume, ConsumeStep, ReadCall, PeekCall, SkipCall, SkipReject,
      SkipForceCall, Enter, Goto, Return, LoadHead, LockHead, ReadTail, GiveBack,
      ReadHeader, CopyPayload, Advance, Unlock, ForceLoadHead, ForceLoadTail,
      ForceReadSize, ForceAdvance
<1> QED
  BY <1>3, <1>4 DEF Next, Crash

(* No two entries start at the same offset, which is their ticket.         *)
LEMMA TicketsDiffer ==
  ASSUME CoreInv, NEW e \in live, NEW f \in live, e.off = f.off PROVE e = f
<1>1. /\ e.off \in Nat /\ e.size \in Nat /\ e.len \in Nat
      /\ f.off \in Nat /\ f.size \in Nat /\ f.len \in Nat
  BY LiveTypes DEF CoreInv
<1>2. e.size > 0 /\ f.size > 0
  BY <1>1 DEF CoreInv, LiveInv, EntryFits, HeaderSize
<1> QED
  BY <1>1, <1>2 DEF CoreInv, LiveInv

LEMMA SkipStep ==
  ASSUME CoreInv, Next, NEW p \in Consumers, call[p].op = "skip",
         pc[p] = "r_advance", pc'[p] # pc[p]
  PROVE  SkipTakesNamed(p)
<1>1. p \in Procs /\ pc \in [Procs -> Labels] /\ ret \in [Procs -> Statuses]
  BY DEF CoreInv, TypeOK, Procs
<1>2. Advance(p) /\ LocalInv(p)
  BY <1>1, LeavesAdvance DEF CoreInv
<1>3. CASE ~headLocked \/ head # at[p]
  <2>1. live' = live /\ ret'[p] = "IPC_ERR_ILLEGAL_STATE"
    BY <1>1, <1>2, <1>3 DEF Advance, Return
  <2> QED
    BY <2>1 DEF SkipTakesNamed
<1>4. CASE headLocked /\ head = at[p]
  <2>1. at[p] = call[p].n /\ HoldsEntry(p)
    BY <1>2, <1>4 DEF LocalInv, ReaderInv, HeadSection
  <2>2. PICK e \in live : e.off = at[p] /\ hdr[p] = [payload_size |-> e.len,
                                                     entry_size |-> e.size]
    BY <2>1 DEF HoldsEntry
  <2>3. live' = live \ {e}
    <3>1. live' = {f \in live : f.off # at[p]}
      BY <1>2, <1>4 DEF Advance
    <3>2. \A f \in live : f.off = e.off => f = e
      BY TicketsDiffer
    <3> QED
      BY <2>2, <3>1, <3>2
  <2>4. CASE Placeholder(hdr[p])
    <3>1. pc'[p] = "r_head" /\ ~(e.len > 0)
      BY <1>1, <1>2, <1>4, <2>2, <2>4 DEF Advance, Goto, Placeholder
    <3> QED
      BY <2>1, <2>2, <2>3, <3>1 DEF SkipTakesNamed
  <2>5. CASE ~Placeholder(hdr[p])
    <3>1. pc'[p] = "idle" /\ ret'[p] = "IPC_OK"
      BY <1>1, <1>2, <1>4, <2>5 DEF Advance, Goto, Return
    <3>2. e.len > 0
      BY <2>2, <2>5, LiveTypes DEF CoreInv, Placeholder
    <3> QED
      BY <2>1, <2>2, <2>3, <3>1, <3>2 DEF SkipTakesNamed
  <2> QED
    BY <2>4, <2>5
<1> QED
  BY <1>3, <1>4

(* What a skip removes is the entry at the offset it was given: with data  *)
(* if it answers IPC_OK, a placeholder otherwise.                          *)
THEOREM SkipsExactly == Spec => SkipsWhatWasNamed
<1>1. IInv /\ [Next]_vars => [SkipRemovesNamed]_vars
  BY SkipStep DEF SkipRemovesNamed, IInv
<1> QED
  BY <1>1, Invariance, PTL DEF Spec, SkipsWhatWasNamed

(* Three steps decide that a call is refused for want of data or of space. *)
LEMMA WhoRefuses ==
  ASSUME CoreInv, Next, NEW p \in Procs, ret'[p] # ret[p],
         ret'[p] \in {"IPC_EMPTY", "IPC_ERR_NO_SPACE_CONTIGUOUS"}
  PROVE  WriteLoadHead(p) \/ ReadTail(p) \/ ForceLoadTail(p)
<1>1. ret \in [Procs -> Statuses]
  BY DEF CoreInv, TypeOK
<1>2. ASSUME NEW q \in Producers, Produce(q)
      PROVE  WriteLoadHead(p)
  BY <1>1, <1>2
  DEF Procs, Produce, WriteStep, WriteCall, WriteReject, Enter, Return,
      WriteLoadTail, WriteLoadHead, WriteLock, WriteFill, WriteSeq, WriteCommit
<1>3. ASSUME NEW q \in Consumers, Consume(q)
      PROVE  ReadTail(p) \/ ForceLoadTail(p)
  <2>0. q \in Procs
    BY DEF Procs
  <2>1. CASE \/ \E cap \in Capacities : ReadCall(q, cap)
             \/ PeekCall(q) \/ SkipCall(q) \/ SkipForceCall(q)
    BY <1>1, <2>0, <2>1 DEF ReadCall, PeekCall, SkipCall, SkipForceCall, Enter
  <2>2. CASE SkipReject(q) \/ LoadHead(q) \/ LockHead(q)
    BY <1>1, <2>0, <2>2 DEF SkipReject, LoadHead, LockHead, Return
  <2>3. CASE ReadTail(q) \/ ReadHeader(q) \/ CopyPayload(q)
    BY <1>1, <2>0, <2>3 DEF ReadTail, ReadHeader, CopyPayload, GiveBack
  <2>4. CASE Advance(q) \/ Unlock(q)
    BY <1>1, <2>0, <2>4 DEF Advance, Unlock, Return
  <2>5. CASE ForceLoadHead(q) \/ ForceLoadTail(q) \/ ForceReadSize(q) \/ ForceAdvance(q)
    BY <1>1, <2>0, <2>5
    DEF ForceLoadHead, ForceLoadTail, ForceReadSize, ForceAdvance, Return
  <2> QED
    BY <1>3, <2>1, <2>2, <2>3, <2>4, <2>5 DEF Consume, ConsumeStep
<1> QED
  BY <1>2, <1>3 DEF Next, Crash

(* What a consumer has loaded of head is never ahead of it, so when tail   *)
(* is found there, so is head: the ring is empty, lock or no lock.         *)
LEMMA EmptyRing ==
  ASSUME CoreInv, NEW p \in Procs, at[p] <= head, at[p] = tail
  PROVE  live = {}
<1> SUFFICES ASSUME NEW e \in live PROVE FALSE
  OBVIOUS
<1>1. /\ e.off \in Nat /\ e.size \in Nat /\ e.len \in Nat
      /\ head \in Nat /\ tail \in Nat
  BY LiveTypes DEF CoreInv, TypeOK
<1>2. e.size > 0 /\ head <= e.off /\ e.off + e.size <= tail
  BY <1>1 DEF CoreInv, LiveInv, EntryFits, HeaderSize
<1> QED
  BY <1>1, <1>2

LEMMA RefusalStep ==
  ASSUME CoreInv, Next
  PROVE  TruthfulRefusal
<1> SUFFICES ASSUME NEW p \in Procs, ret'[p] # ret[p],
                    ret'[p] \in {"IPC_EMPTY", "IPC_ERR_NO_SPACE_CONTIGUOUS"}
             PROVE  /\ ret'[p] = "IPC_EMPTY" => live = {}
                    /\ ret'[p] = "IPC_ERR_NO_SPACE_CONTIGUOUS" =>
                         BufSize - (tail - head) < EntrySize(call[p].n)
  BY DEF TruthfulRefusal
<1>1. /\ LocalInv(p) /\ at[p] \in Nat /\ head \in Nat /\ tail \in Nat
      /\ call[p].n \in Nat /\ ret \in [Procs -> Statuses]
  BY DEF CoreInv, TypeOK, Calls
<1>2. CASE WriteLoadHead(p)
  <2>1. FreeSpace(p) < EntrySize(call[p].n) /\ ret'[p] = "IPC_ERR_NO_SPACE_CONTIGUOUS"
    BY <1>1, <1>2 DEF WriteLoadHead, Return
  <2>2. at[p] <= tail
    BY <1>1, <1>2 DEF WriteLoadHead, LocalInv, WriterInv
  <2>3. EntrySize(call[p].n) \in Nat /\ BufSize \in Nat
    BY <1>1, EntrySizeFacts, BufSizeAssumption
  <2> QED
    BY <1>1, <2>1, <2>2, <2>3 DEF FreeSpace
<1>3. CASE ReadTail(p) \/ ForceLoadTail(p)
  <2>1. at[p] = tail /\ ret'[p] = "IPC_EMPTY"
    BY <1>1, <1>3 DEF ReadTail, ForceLoadTail, GiveBack, Return
  <2>2. at[p] <= head
    BY <1>1, <1>3 DEF ReadTail, ForceLoadTail, LocalInv, ReaderInv, HeadSection
  <2> QED
    BY <2>1, <2>2, EmptyRing
<1> QED
  BY <1>2, <1>3, WhoRefuses

(* A call that is refused for want of an entry or of space is refused      *)
(* rightly, at the moment in which it is decided.                          *)
THEOREM TruthfulRefusals == Spec => RefusalsAreTrue
<1>1. IInv /\ [Next]_vars => [TruthfulRefusal]_vars
  BY RefusalStep DEF IInv
<1> QED
  BY <1>1, Invariance, PTL DEF Spec, RefusalsAreTrue

(* What a step does to the ring, and to what others have been told of it:  *)
(* only a consumer moves head, and no entry goes unless head moves.        *)
LEMMA ProducerRing ==
  ASSUME NEW p \in Procs, Produce(p)
  PROVE  known' = known /\ head' = head /\ live \subseteq live'
BY DEF Produce, WriteStep, WriteCall, WriteReject, Enter, shared, WriteLoadTail,
       WriteLoadHead, WriteLock, WriteFill, WriteSeq, WriteCommit

LEMMA ConsumerRing ==
  ASSUME CoreInv, NEW p \in Procs, Consume(p) \/ (\E n : ReadCall(p, n))
  PROVE  /\ \A c \in Consumers \ {p} : known'[c] = known[c]
         /\ \/ head' = head /\ live' = live
            \/ head < head'
<1>1. /\ known \in [Consumers -> Nat] /\ head \in Nat
      /\ \A h \in Headers : h.entry_size \in Nat
  BY DEF CoreInv, TypeOK, Headers
<1>2. CASE (\E n : ReadCall(p, n)) \/ PeekCall(p) \/ SkipCall(p) \/ SkipForceCall(p)
  BY <1>2 DEF ReadCall, PeekCall, SkipCall, SkipForceCall, Enter, shared
<1>3. CASE \/ SkipReject(p) \/ LoadHead(p) \/ LockHead(p) \/ ReadTail(p)
           \/ ReadHeader(p) \/ CopyPayload(p) \/ Unlock(p)
           \/ ForceLoadHead(p) \/ ForceLoadTail(p) \/ ForceReadSize(p)
  BY <1>1, <1>3
  DEF SkipReject, LoadHead, LockHead, ReadTail, ReadHeader, CopyPayload,
      Unlock, ForceLoadHead, ForceLoadTail, ForceReadSize, Report, shared
<1>4. CASE Advance(p) \/ ForceAdvance(p)
  <2>1. \A c \in Consumers \ {p} : known'[c] = known[c]
    BY <1>1, <1>4 DEF Advance, ForceAdvance, Report
  <2>2. CASE head' = head /\ live' = live
    BY <2>1, <2>2
  <2>3. CASE /\ head = at[p] /\ head' = at[p] + hdr[p].entry_size
             /\ pc[p] \in {"r_advance", "f_advance"}
    <3>1. PICK e \in live : hdr[p] = [payload_size |-> e.len, entry_size |-> e.size]
      BY <2>3 DEF CoreInv, LocalInv, ReaderInv, HoldsEntry
    <3>2. e.size \in Nat /\ e.size > 0
      BY LiveTypes DEF CoreInv, LiveInv, EntryFits, HeaderSize
    <3> QED
      BY <1>1, <2>1, <2>3, <3>1, <3>2
  <2> QED
    BY <1>4, <2>2, <2>3 DEF Advance, ForceAdvance
<1>5. CASE \E cap \in Capacities : ReadCall(p, cap)
  BY <1>2, <1>5
<1> QED
  BY <1>2, <1>3, <1>4, <1>5 DEF Consume, ConsumeStep

=============================================================================
