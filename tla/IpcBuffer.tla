----------------------------- MODULE IpcBuffer -----------------------------
(***************************************************************************)
(* The circular buffer of core/src/ipc_buffer.c, shared by any number of   *)
(* producers and consumers.  One action is one atomic access to the shared *)
(* header (a load or a compare-and-swap of head or tail) or one access to  *)
(* the data region that the code makes without synchronisation of its own. *)
(*                                                                         *)
(* head and tail are absolute byte offsets that only grow; bit 0 of each   *)
(* word is a lock.  Offsets are multiples of 8, so the bit is free, and it *)
(* is modelled as a Boolean variable beside the offset: every access reads *)
(* or writes the two together, as the one word they are.                   *)
(***************************************************************************)
EXTENDS Integers

CONSTANTS
  Producers,      \* threads or processes that call ipc_buffer_write
  Consumers,      \* those that call read, peek, skip and skip_force
  BufSize,        \* header->data_size: the bytes of the data region
  PayloadSizes,   \* the sizes producers pass to ipc_buffer_write
  Values,         \* the contents of payloads
  Capacities,     \* the dest->size consumers pass to ipc_buffer_read
  ConsumerOps,    \* the operations consumers call
  InitWords,      \* what the memory handed to ipc_buffer_create may hold
  MayCrash,       \* the processes that may die in the middle of a call
  MaxTail         \* bound: no write starts once tail has reached it

IPC_DATA_ALIGN == 8
HeaderSize == 24            \* sizeof(EntryHeader): seq, payload_size, entry_size

(* data_size is a power of two; a ring below 32 bytes, which               *)
(* ipc_buffer_create also accepts, refuses every write as too large.       *)
ASSUME BufSizeAssumption ==
  BufSize \in Nat /\ BufSize >= 32 /\ BufSize % IPC_DATA_ALIGN = 0

ASSUME CallAssumption ==
  /\ PayloadSizes \subseteq Nat
  /\ Values \subseteq Nat
  /\ Capacities \subseteq Nat
  /\ InitWords \subseteq Nat
  /\ ConsumerOps \subseteq {"read", "peek", "skip", "skip_force"}
  /\ MaxTail \in Nat

Procs == Producers \cup Consumers

Statuses ==
  { "IPC_OK", "IPC_EMPTY", "IPC_ALREADY_SKIPPED", "IPC_ERR_INVALID_ARGUMENT",
    "IPC_ERR_ENTRY_TOO_LARGE", "IPC_ERR_TOO_SMALL", "IPC_ERR_ILLEGAL_STATE",
    "IPC_ERR_NO_SPACE_CONTIGUOUS", "IPC_ERR_NOT_READY", "IPC_ERR_LOCKED",
    "IPC_ERR_OFFSET_MISMATCH" }

VARIABLES
  head, headLocked,   \* the word header->head: offset and lock bit
  tail, tailLocked,   \* the word header->tail
  mem,                \* the data region, in words of 8 bytes
  pc,                 \* where each process is in its call
  call,               \* the operation each process is in, and its arguments
  at,                 \* the local `tail' of a writer, `head' of a consumer
  hdr,                \* the EntryHeader a writer writes, a consumer has read
  dest,               \* what ipc_buffer_read has copied out for the caller
  ret,                \* the status of the last call (or the one it will return)
  known,              \* the offset a consumer's last call reported to it
  dead,               \* the processes that have died
  live                \* history: the entries committed and not yet passed by head

shared == <<head, headLocked, tail, tailLocked, mem, live>>
vars == <<head, headLocked, tail, tailLocked, mem, pc, call, at, hdr, dest,
          ret, known, dead, live>>

-----------------------------------------------------------------------------
(* Layout of the data region.                                              *)

ALIGN_UP(s, align) == ((s + align - 1) \div align) * align

(* BufSize is a power of two, so the mask (max - 1) takes the remainder.   *)
RELATIVE(off) == off % BufSize

(* The sum does not wrap: payloads are sizes of memory the caller has.     *)
EntrySize(n) == ALIGN_UP(HeaderSize + n, IPC_DATA_ALIGN)

Cells == {c \in 0 .. BufSize - 1 : c % IPC_DATA_ALIGN = 0}

(* The words of a header that starts at relative offset r.                 *)
SeqCell(r) == r
PayloadSizeCell(r) == r + 8
EntrySizeCell(r) == r + 16

(* The words that the n bytes after that header touch.                     *)
PayloadCells(r, n) == {c \in Cells : r + HeaderSize <= c /\ c < r + HeaderSize + n}

Words(r, n) == {mem[c] : c \in PayloadCells(r, n)}

NoCall == [op |-> "none", n |-> 0, v |-> 0]
NoHdr == [payload_size |-> 0, entry_size |-> 0]
NoDest == [offset |-> 0, size |-> 0, words |-> {}]

Placeholder(h) == h.payload_size = 0

-----------------------------------------------------------------------------
(* The state ipc_buffer_create leaves; ipc_buffer_attach adds none to it.  *)
Init ==
  /\ head = 0 /\ headLocked = FALSE
  /\ tail = 0 /\ tailLocked = FALSE
  /\ mem \in [Cells -> InitWords]
  /\ pc = [p \in Procs |-> "idle"]
  /\ call = [p \in Procs |-> NoCall]
  /\ at = [p \in Procs |-> 0]
  /\ hdr = [p \in Procs |-> NoHdr]
  /\ dest = [p \in Procs |-> NoDest]
  /\ ret = [p \in Procs |-> "IPC_OK"]
  /\ known = [p \in Consumers |-> 0]
  /\ dead = {}
  /\ live = {}

Goto(p, label) == pc' = [pc EXCEPT ![p] = label]

(* A call returns s; its locals go out of scope.                           *)
Return(p, s) ==
  /\ Goto(p, "idle")
  /\ ret' = [ret EXCEPT ![p] = s]
  /\ call' = [call EXCEPT ![p] = NoCall]
  /\ at' = [at EXCEPT ![p] = 0]
  /\ hdr' = [hdr EXCEPT ![p] = NoHdr]

Report(p, off) == known' = [known EXCEPT ![p] = off]

(* A call starts: its arguments are taken, and what the last one returned  *)
(* is forgotten.                                                           *)
Enter(p, c, label) ==
  /\ pc[p] = "idle"
  /\ Goto(p, label)
  /\ call' = [call EXCEPT ![p] = c]
  /\ dest' = [dest EXCEPT ![p] = NoDest]
  /\ ret' = [ret EXCEPT ![p] = "IPC_OK"]
  /\ UNCHANGED <<shared, at, hdr, known, dead>>

-----------------------------------------------------------------------------
(* ipc_buffer_write                                                        *)

WriteCall(p, n, v) ==
  /\ n > 0 /\ EntrySize(n) <= BufSize
  /\ tail < MaxTail
  /\ Enter(p, [op |-> "write", n |-> n, v |-> v], "w_tail")

(* The calls refused on their arguments alone.                             *)
WriteReject(p, n) ==
  /\ pc[p] = "idle"
  /\ n = 0 \/ EntrySize(n) > BufSize
  /\ Return(p, IF n = 0 THEN "IPC_ERR_INVALID_ARGUMENT"
                        ELSE "IPC_ERR_ENTRY_TOO_LARGE")
  /\ UNCHANGED <<shared, dest, known, dead>>

(* Mutation: a locked tail is waited for.                                  *)
WriteLoadTailSpins(p) ==
  /\ pc[p] = "w_tail"
  /\ ~tailLocked
  /\ at' = [at EXCEPT ![p] = tail]
  /\ Goto(p, "w_head")
  /\ UNCHANGED <<shared, call, hdr, dest, ret, known, dead>>

(* Mutation: head is loaded before tail (hdr keeps it in between), and the *)
(* space is reckoned from these two.                                       *)
WriteLoadTailAfterHead(p) ==
  LET loaded == hdr[p].payload_size = 1 IN
  /\ pc[p] = "w_tail"
  /\ \/ /\ ~loaded
        /\ hdr' = [hdr EXCEPT ![p] = [payload_size |-> 1, entry_size |-> head]]
        /\ UNCHANGED <<pc, call, at, ret>>
     \/ /\ loaded /\ ~tailLocked
        /\ BufSize - (tail - hdr[p].entry_size) < EntrySize(call[p].n)
        /\ Return(p, "IPC_ERR_NO_SPACE_CONTIGUOUS")
     \/ /\ loaded /\ ~tailLocked
        /\ BufSize - (tail - hdr[p].entry_size) >= EntrySize(call[p].n)
        /\ at' = [at EXCEPT ![p] = tail]
        /\ hdr' = [hdr EXCEPT ![p] = NoHdr]
        /\ Goto(p, "w_head")
        /\ UNCHANGED <<call, ret>>
     \/ /\ loaded /\ tailLocked
        /\ Return(p, "IPC_ERR_LOCKED")
  /\ UNCHANGED <<shared, dest, known, dead>>

WriteLoadTail(p) ==
  /\ pc[p] = "w_tail"
  /\ \/ /\ tailLocked
        /\ Return(p, "IPC_ERR_LOCKED")
     \/ /\ ~tailLocked
        /\ at' = [at EXCEPT ![p] = tail]
        /\ Goto(p, "w_head")
        /\ UNCHANGED <<call, hdr, ret>>
  /\ UNCHANGED <<shared, dest, known, dead>>

(* Mutation: the header of the oldest entry is taken for free space.       *)
FreeSpaceNoHeader(p) == BufSize - (at[p] - (head + HeaderSize))

FreeSpace(p) == BufSize - (at[p] - head)
SpaceToWrap(p) == BufSize - RELATIVE(at[p])

(* The entry goes at the tail only if a header still fits behind it;       *)
(* otherwise a placeholder takes the rest of the lap.                      *)
PlannedHeader(p) ==
  LET n == call[p].n IN
  IF SpaceToWrap(p) < EntrySize(n) + HeaderSize
    THEN [payload_size |-> 0, entry_size |-> SpaceToWrap(p)]
    ELSE [payload_size |-> n, entry_size |-> EntrySize(n)]

(* head is loaded after tail, and its lock bit is ignored.                 *)
WriteLoadHead(p) ==
  /\ pc[p] = "w_head"
  /\ \/ /\ FreeSpace(p) < EntrySize(call[p].n)
        /\ Return(p, "IPC_ERR_NO_SPACE_CONTIGUOUS")
     \/ /\ FreeSpace(p) >= EntrySize(call[p].n)
        /\ hdr' = [hdr EXCEPT ![p] = PlannedHeader(p)]
        /\ Goto(p, "w_lock")
        /\ UNCHANGED <<call, at, ret>>
  /\ UNCHANGED <<shared, dest, known, dead>>

(* Mutation: the lock bit is set whatever offset is beside it.             *)
WriteLockAnywhere(p) ==
  /\ pc[p] = "w_lock"
  /\ ~tailLocked
  /\ tailLocked' = TRUE
  /\ Goto(p, "w_fill")
  /\ UNCHANGED <<head, headLocked, tail, mem, live, call, at, hdr, dest, ret,
                 known, dead>>

WriteLock(p) ==
  /\ pc[p] = "w_lock"
  /\ \/ /\ ~tailLocked /\ tail = at[p]
        /\ tailLocked' = TRUE
        /\ Goto(p, "w_fill")
     \/ /\ tailLocked \/ tail # at[p]
        /\ Goto(p, "w_tail")
        /\ UNCHANGED tailLocked
  /\ UNCHANGED <<head, headLocked, tail, mem, live, call, at, hdr, dest, ret,
                 known, dead>>

(* Mutation: memcpy is given the size of the entry.                        *)
WriteFillWholeEntry(p) ==
  LET r == RELATIVE(at[p]) IN
  /\ pc[p] = "w_fill"
  /\ mem' = [c \in Cells |->
               IF c = PayloadSizeCell(r) THEN hdr[p].payload_size
               ELSE IF c = EntrySizeCell(r) THEN hdr[p].entry_size
               ELSE IF c \in PayloadCells(r, hdr[p].entry_size) THEN call[p].v
               ELSE mem[c]]
  /\ Goto(p, "w_seq")
  /\ UNCHANGED <<head, headLocked, tail, tailLocked, live, call, at, hdr, dest,
                 ret, known, dead>>

(* payload_size, entry_size and, unless it is a placeholder, the payload.  *)
WriteFill(p) ==
  LET r == RELATIVE(at[p]) IN
  /\ pc[p] = "w_fill"
  /\ mem' = [c \in Cells |->
               IF c = PayloadSizeCell(r) THEN hdr[p].payload_size
               ELSE IF c = EntrySizeCell(r) THEN hdr[p].entry_size
               ELSE IF c \in PayloadCells(r, hdr[p].payload_size) THEN call[p].v
               ELSE mem[c]]
  /\ Goto(p, "w_seq")
  /\ UNCHANGED <<head, headLocked, tail, tailLocked, live, call, at, hdr, dest,
                 ret, known, dead>>

(* Mutation: seq is the offset in the lap.                                 *)
WriteSeqRelative(p) ==
  /\ pc[p] = "w_seq"
  /\ mem' = [mem EXCEPT ![SeqCell(RELATIVE(at[p]))] = RELATIVE(at[p])]
  /\ Goto(p, "w_commit")
  /\ UNCHANGED <<head, headLocked, tail, tailLocked, live, call, at, hdr, dest,
                 ret, known, dead>>

WriteSeq(p) ==
  /\ pc[p] = "w_seq"
  /\ mem' = [mem EXCEPT ![SeqCell(RELATIVE(at[p]))] = at[p]]
  /\ Goto(p, "w_commit")
  /\ UNCHANGED <<head, headLocked, tail, tailLocked, live, call, at, hdr, dest,
                 ret, known, dead>>

(* The compare-and-swap that unlocks tail and moves it past the entry; a   *)
(* placeholder is followed by the same call again.                         *)
WriteCommit(p) ==
  /\ pc[p] = "w_commit"
  /\ \/ /\ tailLocked /\ tail = at[p]
        /\ tail' = at[p] + mem[EntrySizeCell(RELATIVE(at[p]))]
        /\ tailLocked' = FALSE
        /\ live' = live \cup {[off |-> at[p], size |-> hdr[p].entry_size,
                               len |-> hdr[p].payload_size, val |-> call[p].v]}
        /\ \/ /\ Placeholder(hdr[p])
              /\ Goto(p, "w_tail")
              /\ at' = [at EXCEPT ![p] = 0]
              /\ hdr' = [hdr EXCEPT ![p] = NoHdr]
              /\ UNCHANGED <<call, ret>>
           \/ /\ ~Placeholder(hdr[p])
              /\ Return(p, "IPC_OK")
     \/ /\ ~tailLocked \/ tail # at[p]
        /\ Return(p, "IPC_ERR_ILLEGAL_STATE")
        /\ UNCHANGED <<tail, tailLocked, live>>
  /\ UNCHANGED <<head, headLocked, mem, dest, known, dead>>

-----------------------------------------------------------------------------
(* ipc_buffer_read, ipc_buffer_peek and ipc_buffer_skip: the three lock    *)
(* head, look at the entry there, and either move head past it or put it   *)
(* back as it was.                                                         *)

ReadCall(p, cap) ==
  /\ "read" \in ConsumerOps
  /\ Enter(p, [op |-> "read", n |-> cap, v |-> 0], "r_head")

PeekCall(p) ==
  /\ "peek" \in ConsumerOps
  /\ Enter(p, [op |-> "peek", n |-> 0, v |-> 0], "r_head")

(* A caller skips at the offset it was last told of.                       *)
SkipCall(p) ==
  /\ "skip" \in ConsumerOps
  /\ known[p] % IPC_DATA_ALIGN = 0
  /\ Enter(p, [op |-> "skip", n |-> known[p], v |-> 0], "r_head")

SkipReject(p) ==
  /\ "skip" \in ConsumerOps
  /\ pc[p] = "idle"
  /\ known[p] % IPC_DATA_ALIGN # 0
  /\ Return(p, "IPC_ERR_INVALID_ARGUMENT")
  /\ UNCHANGED <<shared, dest, known, dead>>

(* Mutation: skip takes whatever is at head.                               *)
LoadHeadUnnamed(p) ==
  /\ pc[p] = "r_head"
  /\ \/ /\ headLocked
        /\ Return(p, "IPC_ERR_LOCKED")
        /\ Report(p, head)
     \/ /\ ~headLocked
        /\ at' = [at EXCEPT ![p] = head]
        /\ Goto(p, "r_lock")
        /\ UNCHANGED <<call, hdr, ret, known>>
  /\ UNCHANGED <<shared, dest, dead>>

LoadHead(p) ==
  LET mismatch == call[p].op = "skip" /\ head # call[p].n IN
  /\ pc[p] = "r_head"
  /\ \/ /\ headLocked \/ mismatch
        /\ Return(p, IF headLocked THEN "IPC_ERR_LOCKED"
                                    ELSE "IPC_ERR_OFFSET_MISMATCH")
        /\ Report(p, head)
     \/ /\ ~headLocked /\ ~mismatch
        /\ at' = [at EXCEPT ![p] = head]
        /\ Goto(p, "r_lock")
        /\ UNCHANGED <<call, hdr, ret, known>>
  /\ UNCHANGED <<shared, dest, dead>>

(* Mutation: the lock is taken even if it is held.                         *)
LockHeadShared(p) ==
  /\ pc[p] = "r_lock"
  /\ \/ /\ head = at[p]
        /\ headLocked' = TRUE
        /\ Goto(p, "r_tail")
     \/ /\ head # at[p]
        /\ Goto(p, "r_head")
        /\ UNCHANGED headLocked
  /\ UNCHANGED <<head, tail, tailLocked, mem, live, call, at, hdr, dest, ret,
                 known, dead>>

LockHead(p) ==
  /\ pc[p] = "r_lock"
  /\ \/ /\ ~headLocked /\ head = at[p]
        /\ headLocked' = TRUE
        /\ Goto(p, "r_tail")
     \/ /\ headLocked \/ head # at[p]
        /\ Goto(p, "r_head")
        /\ UNCHANGED headLocked
  /\ UNCHANGED <<head, tail, tailLocked, mem, live, call, at, hdr, dest, ret,
                 known, dead>>

(* Nothing to consume: head is unlocked where it is, and s is returned.    *)
GiveBack(p, s) ==
  /\ Goto(p, "r_unlock")
  /\ ret' = [ret EXCEPT ![p] = s]

ReadTail(p) ==
  /\ pc[p] = "r_tail"
  /\ \/ /\ at[p] = tail
        /\ GiveBack(p, "IPC_EMPTY")
     \/ /\ at[p] # tail /\ tailLocked
        /\ GiveBack(p, "IPC_ERR_NOT_READY")
     \/ /\ at[p] # tail /\ ~tailLocked
        /\ Goto(p, "r_header")
        /\ UNCHANGED ret
  /\ UNCHANGED <<shared, call, at, hdr, dest, known, dead>>

HeaderAt(r) == [payload_size |-> mem[PayloadSizeCell(r)],
                entry_size   |-> mem[EntrySizeCell(r)]]

(* What each operation does with the header h of the entry it has locked.  *)
ReadHeader(p) ==
  LET r == RELATIVE(at[p])
      h == HeaderAt(r)
      op == call[p].op
  IN
  /\ pc[p] = "r_header"
  /\ \/ /\ mem[SeqCell(r)] # at[p]
        /\ GiveBack(p, "IPC_ERR_NOT_READY")
        /\ UNCHANGED <<hdr, dest>>
     \/ /\ mem[SeqCell(r)] = at[p]
        /\ hdr' = [hdr EXCEPT ![p] = h]
        /\ \/ /\ Placeholder(h) \/ op = "skip"
              /\ Goto(p, "r_advance")
              /\ UNCHANGED <<ret, dest>>
           \/ /\ ~Placeholder(h) /\ op = "peek"
              /\ dest' = [dest EXCEPT ![p].offset = at[p],
                                      ![p].size = h.payload_size]
              /\ GiveBack(p, "IPC_OK")
           \/ /\ ~Placeholder(h) /\ op = "read" /\ call[p].n < h.payload_size
              /\ GiveBack(p, "IPC_ERR_TOO_SMALL")
              /\ UNCHANGED dest
           \/ /\ ~Placeholder(h) /\ op = "read" /\ call[p].n >= h.payload_size
              /\ Goto(p, "r_copy")
              /\ UNCHANGED <<ret, dest>>
  /\ UNCHANGED <<shared, call, at, known, dead>>

(* Mutation: memcpy is given the size of the destination.                  *)
CopyPayloadWholeDest(p) ==
  /\ pc[p] = "r_copy"
  /\ dest' = [dest EXCEPT ![p] = [offset |-> at[p], size |-> hdr[p].payload_size,
                                  words |-> Words(RELATIVE(at[p]), call[p].n)]]
  /\ Goto(p, "r_advance")
  /\ UNCHANGED <<shared, call, at, hdr, ret, known, dead>>

CopyPayload(p) ==
  LET n == hdr[p].payload_size IN
  /\ pc[p] = "r_copy"
  /\ dest' = [dest EXCEPT ![p] = [offset |-> at[p], size |-> n,
                                  words |-> Words(RELATIVE(at[p]), n)]]
  /\ Goto(p, "r_advance")
  /\ UNCHANGED <<shared, call, at, hdr, ret, known, dead>>

(* Mutation: a store where the compare-and-swap is.                        *)
AdvanceUnchecked(p) ==
  /\ pc[p] = "r_advance"
  /\ head' = at[p] + hdr[p].entry_size
  /\ headLocked' = FALSE
  /\ live' = {e \in live : e.off # at[p]}
  /\ Return(p, "IPC_OK")
  /\ Report(p, at[p])
  /\ UNCHANGED <<tail, tailLocked, mem, dest, dead>>

(* head moves past the entry and is unlocked; a placeholder is followed by *)
(* the same call again, with the same arguments.                           *)
Advance(p) ==
  /\ pc[p] = "r_advance"
  /\ \/ /\ headLocked /\ head = at[p]
        /\ head' = at[p] + hdr[p].entry_size
        /\ headLocked' = FALSE
        /\ live' = {e \in live : e.off # at[p]}
        /\ \/ /\ Placeholder(hdr[p])
              /\ Goto(p, "r_head")
              /\ at' = [at EXCEPT ![p] = 0]
              /\ hdr' = [hdr EXCEPT ![p] = NoHdr]
              /\ UNCHANGED <<call, ret, known>>
           \/ /\ ~Placeholder(hdr[p])
              /\ Return(p, "IPC_OK")
              /\ Report(p, at[p])
     \/ /\ ~headLocked \/ head # at[p]
        /\ Return(p, "IPC_ERR_ILLEGAL_STATE")
        /\ UNCHANGED <<head, headLocked, live, known>>
  /\ UNCHANGED <<tail, tailLocked, mem, dest, dead>>

(* Mutation: an empty buffer is reported with head still locked.           *)
UnlockForgotten(p) ==
  /\ pc[p] = "r_unlock"
  /\ headLocked' = (ret[p] = "IPC_EMPTY")
  /\ Return(p, ret[p])
  /\ UNCHANGED <<head, tail, tailLocked, mem, live, dest, known, dead>>

(* An empty buffer is reported without its offset, except by skip.         *)
Unlock(p) ==
  /\ pc[p] = "r_unlock"
  /\ \/ /\ headLocked /\ head = at[p]
        /\ headLocked' = FALSE
        /\ Return(p, ret[p])
        /\ \/ /\ ret[p] # "IPC_EMPTY" \/ call[p].op = "skip"
              /\ Report(p, at[p])
           \/ /\ ret[p] = "IPC_EMPTY" /\ call[p].op # "skip"
              /\ UNCHANGED known
     \/ /\ ~headLocked \/ head # at[p]
        /\ Return(p, "IPC_ERR_ILLEGAL_STATE")
        /\ UNCHANGED <<headLocked, known>>
  /\ UNCHANGED <<head, tail, tailLocked, mem, live, dest, dead>>

-----------------------------------------------------------------------------
(* ipc_buffer_skip_force: no lock is taken, and entry_size is read from    *)
(* memory that a writer may be filling or have filled again.               *)

SkipForceCall(p) ==
  /\ "skip_force" \in ConsumerOps
  /\ Enter(p, [op |-> "skip_force", n |-> 0, v |-> 0], "f_head")

ForceLoadHead(p) ==
  /\ pc[p] = "f_head"
  /\ at' = [at EXCEPT ![p] = head]
  /\ Goto(p, "f_tail")
  /\ UNCHANGED <<shared, call, hdr, dest, ret, known, dead>>

(* Mutation: an entry that another consumer has passed since head was      *)
(* loaded is taken for the end of the ring's entries.                      *)
ForceLoadTailMoved(p) ==
  /\ pc[p] = "f_tail"
  /\ \/ /\ at[p] = tail \/ at[p] # head
        /\ Return(p, "IPC_EMPTY")
        /\ Report(p, at[p])
     \/ /\ at[p] # tail /\ at[p] = head
        /\ Goto(p, "f_size")
        /\ UNCHANGED <<call, at, hdr, ret, known>>
  /\ UNCHANGED <<shared, dest, dead>>

ForceLoadTail(p) ==
  /\ pc[p] = "f_tail"
  /\ \/ /\ at[p] = tail
        /\ Return(p, "IPC_EMPTY")
        /\ Report(p, at[p])
     \/ /\ at[p] # tail
        /\ Goto(p, "f_size")
        /\ UNCHANGED <<call, at, hdr, ret, known>>
  /\ UNCHANGED <<shared, dest, dead>>

ForceReadSize(p) ==
  /\ pc[p] = "f_size"
  /\ hdr' = [hdr EXCEPT ![p] = HeaderAt(RELATIVE(at[p]))]
  /\ Goto(p, "f_advance")
  /\ UNCHANGED <<shared, call, at, dest, ret, known, dead>>

(* Mutation: head moves though a consumer has it locked.                   *)
ForceAdvanceLocked(p) ==
  /\ pc[p] = "f_advance"
  /\ head = at[p]
  /\ head' = at[p] + hdr[p].entry_size
  /\ live' = {e \in live : e.off # at[p]}
  /\ Return(p, "IPC_OK")
  /\ Report(p, at[p])
  /\ UNCHANGED <<headLocked, tail, tailLocked, mem, dest, dead>>

(* Mutation: a store where the compare-and-swap is.                        *)
ForceAdvanceStale(p) ==
  /\ pc[p] = "f_advance"
  /\ ~headLocked
  /\ head' = at[p] + hdr[p].entry_size
  /\ live' = {e \in live : e.off # at[p]}
  /\ Return(p, "IPC_OK")
  /\ Report(p, at[p])
  /\ UNCHANGED <<headLocked, tail, tailLocked, mem, dest, dead>>

(* A compare-and-swap that fails reports the word it found, lock bit and   *)
(* all.                                                                    *)
ForceAdvance(p) ==
  /\ pc[p] = "f_advance"
  /\ \/ /\ ~headLocked /\ head = at[p]
        /\ head' = at[p] + hdr[p].entry_size
        /\ live' = {e \in live : e.off # at[p]}
        /\ Return(p, "IPC_OK")
        /\ Report(p, at[p])
     \/ /\ headLocked \/ head # at[p]
        /\ Return(p, "IPC_ALREADY_SKIPPED")
        /\ Report(p, IF headLocked THEN head + 1 ELSE head)
        /\ UNCHANGED <<head, live>>
  /\ UNCHANGED <<headLocked, tail, tailLocked, mem, dest, dead>>

-----------------------------------------------------------------------------
(* A process dies, in a call or outside; whatever it had locked stays      *)
(* locked, and nobody in the code undoes it.                               *)
Crash(p) ==
  /\ p \in MayCrash
  /\ dead' = dead \cup {p}
  /\ UNCHANGED <<shared, pc, call, at, hdr, dest, ret, known>>

WriteStep(p) ==
  \/ WriteLoadTail(p) \/ WriteLoadHead(p) \/ WriteLock(p)
  \/ WriteFill(p) \/ WriteSeq(p) \/ WriteCommit(p)

ConsumeStep(p) ==
  \/ LoadHead(p) \/ LockHead(p) \/ ReadTail(p) \/ ReadHeader(p)
  \/ CopyPayload(p) \/ Advance(p) \/ Unlock(p)
  \/ ForceLoadHead(p) \/ ForceLoadTail(p) \/ ForceReadSize(p) \/ ForceAdvance(p)

Produce(p) ==
  \/ \E n \in PayloadSizes, v \in Values : WriteCall(p, n, v)
  \/ \E n \in PayloadSizes : WriteReject(p, n)
  \/ WriteStep(p)

Consume(p) ==
  \/ \E cap \in Capacities : ReadCall(p, cap)
  \/ PeekCall(p) \/ SkipCall(p) \/ SkipReject(p) \/ SkipForceCall(p)
  \/ ConsumeStep(p)

Next ==
  \/ \E p \in Producers \ dead : Produce(p)
  \/ \E p \in Consumers \ dead : Consume(p)
  \/ \E p \in Procs \ dead : Crash(p)

Spec == Init /\ [][Next]_vars

(* Every live process that is inside a call keeps being scheduled; whether *)
(* and when one dies is left open.                                         *)
CallFairness ==
  /\ \A p \in Producers : WF_vars(p \notin dead /\ WriteStep(p))
  /\ \A p \in Consumers : WF_vars(p \notin dead /\ ConsumeStep(p))

(* Besides, producers keep calling ipc_buffer_write and consumers keep     *)
(* calling ipc_buffer_read with room for any entry, as the loops of        *)
(* core/tests do.                                                          *)
KeepWriting(p) == \E n \in PayloadSizes, v \in Values : WriteCall(p, n, v)
KeepReading(p) == \E cap \in Capacities :
                    (\A n \in PayloadSizes : n <= cap) /\ ReadCall(p, cap)

FairSpec ==
  /\ Spec
  /\ CallFairness
  /\ \A p \in Producers : WF_vars(p \notin dead /\ KeepWriting(p))
  /\ \A p \in Consumers : WF_vars(p \notin dead /\ KeepReading(p))

-----------------------------------------------------------------------------
(* Properties.                                                             *)

Labels ==
  { "idle", "w_tail", "w_head", "w_lock", "w_fill", "w_seq", "w_commit",
    "r_head", "r_lock", "r_tail", "r_header", "r_copy", "r_advance",
    "r_unlock", "f_head", "f_tail", "f_size", "f_advance" }

Calls == [op : {"none", "write", "read", "peek", "skip", "skip_force"},
          n : Nat, v : Nat]
Headers == [payload_size : Nat, entry_size : Nat]
Received == [offset : Nat, size : Nat, words : SUBSET Nat]
Entries == [off : Nat, size : Nat, len : Nat, val : Nat]

(* The types of the shared words, of every process's locals, and of the    *)
(* history of committed entries.                                           *)
TypeOK ==
  /\ head \in Nat /\ headLocked \in BOOLEAN
  /\ tail \in Nat /\ tailLocked \in BOOLEAN
  /\ mem \in [Cells -> Nat]
  /\ pc \in [Procs -> Labels]
  /\ call \in [Procs -> Calls]
  /\ at \in [Procs -> Nat]
  /\ hdr \in [Procs -> Headers]
  /\ dest \in [Procs -> Received]
  /\ ret \in [Procs -> Statuses]
  /\ known \in [Consumers -> Nat]
  /\ dead \subseteq Procs
  /\ live \subseteq Entries

HeadSection == {"r_tail", "r_header", "r_copy", "r_advance", "r_unlock"}
TailSection == {"w_fill", "w_seq", "w_commit"}
HeadHolders == {p \in Procs : pc[p] \in HeadSection}
TailHolders == {p \in Procs : pc[p] \in TailSection}

(* The lock bit of each word is a lock: it is set exactly while one        *)
(* process is between its _lock and the compare-and-swap that undoes it,   *)
(* and the word still holds the offset that process locked.                *)
HeadDiscipline ==
  /\ headLocked <=> HeadHolders # {}
  /\ \A p, q \in HeadHolders : p = q
  /\ \A p \in HeadHolders : at[p] = head

TailDiscipline ==
  /\ tailLocked <=> TailHolders # {}
  /\ \A p, q \in TailHolders : p = q
  /\ \A p \in TailHolders : at[p] = tail

LockDiscipline == HeadDiscipline /\ TailDiscipline

(* Whoever locked a word can unlock it: no call ever answers that it found *)
(* the word changed under its lock (ipc_buffer.c:202, 248, 270, 289, ...). *)
NoIllegalState == \A p \in Procs : ret[p] # "IPC_ERR_ILLEGAL_STATE"

(* Neither the entries between head and tail nor the one being written     *)
(* behind them take more than the ring has, although a writer checks the   *)
(* free space before it locks tail and a placeholder is not checked at all.*)
RingBound ==
  /\ head <= tail /\ tail - head <= BufSize
  /\ \A p \in TailHolders : at[p] + hdr[p].entry_size - head <= BufSize

(* Every committed entry that head has not passed is still in memory as    *)
(* its writer left it: header, sequence number and payload.                *)
LiveIntact ==
  \A e \in live :
    LET r == RELATIVE(e.off) IN
    /\ mem[SeqCell(r)] = e.off
    /\ HeaderAt(r) = [payload_size |-> e.len, entry_size |-> e.size]
    /\ \A c \in PayloadCells(r, e.len) : mem[c] = e.val

(* head and tail are joined by whole entries: head, whichever of read,     *)
(* peek, skip or skip_force moved it last, is where an entry starts, and   *)
(* each entry ends where the next one starts or where tail is.             *)
EntryAt(off) == \E e \in live : e.off = off

EntriesJoin ==
  /\ head = tail \/ EntryAt(head)
  /\ \A e \in live :
       /\ head <= e.off
       /\ e.off + e.size = tail \/ EntryAt(e.off + e.size)

(* What ipc_buffer_read has copied, by the time it gives the entry up, is  *)
(* the payload committed at that offset, all of it.                        *)
CopyIntact ==
  \A p \in Consumers :
    pc[p] = "r_advance" /\ call[p].op = "read" /\ ~Placeholder(hdr[p]) =>
      \E e \in live : dest[p] = [offset |-> e.off, size |-> e.len,
                                 words |-> {e.val}]

(* A consumer that finds tail unlocked and past head finds the entry there *)
(* complete: the answer IPC_ERR_NOT_READY of ipc_buffer.c:506 never comes. *)
LockedEntryReady ==
  \A p \in Consumers : pc[p] = "r_header" => mem[SeqCell(RELATIVE(at[p]))] = at[p]

(* No entry is handed out twice, and none that was handed out is still     *)
(* there to be read.                                                       *)
HasReceived(p) == pc[p] = "idle" /\ ret[p] = "IPC_OK" /\ dest[p].words # {}

DeliveredOnce ==
  \A p \in Consumers : HasReceived(p) =>
    /\ ~EntryAt(dest[p].offset)
    /\ \A q \in Consumers : HasReceived(q) /\ dest[q].offset = dest[p].offset
                              => p = q

(* Whatever a skip takes out of the ring was at the offset its caller      *)
(* named, whatever others did since the caller learnt of it: the one data  *)
(* entry there if the skip answers IPC_OK, and at most a placeholder if it *)
(* goes on to answer IPC_ERR_OFFSET_MISMATCH (ipc_buffer.c:396, 433).      *)
SkipTakesNamed(p) ==
  LET ok == pc'[p] = "idle" /\ ret'[p] = "IPC_OK" IN
  \/ live' = live /\ ~ok
  \/ \E e \in live : /\ e.off = call[p].n /\ live' = live \ {e}
                    /\ ok <=> e.len > 0

SkipRemovesNamed ==
  \A p \in Consumers :
    call[p].op = "skip" /\ pc[p] = "r_advance" /\ pc'[p] # pc[p] => SkipTakesNamed(p)

SkipsWhatWasNamed == [][SkipRemovesNamed]_vars

(* A refusal is true of the ring when it is decided, although it may rest  *)
(* on an offset that others have moved since it was loaded (the tail of a  *)
(* writer, the head of skip_force): who is told that the ring is empty     *)
(* could not have had an entry, and who is told that there is no space     *)
(* could not have had it (ipc_buffer.c:173, 444, 510).                     *)
TruthfulRefusal ==
  \A p \in Procs : ret'[p] # ret[p] =>
    /\ ret'[p] = "IPC_EMPTY" => live = {}
    /\ ret'[p] = "IPC_ERR_NO_SPACE_CONTIGUOUS" =>
         BufSize - (tail - head) < EntrySize(call[p].n)

RefusalsAreTrue == [][TruthfulRefusal]_vars

(* ipc_buffer.c:156 refuses the entries that exceed the buffer, so on an   *)
(* empty ring whose tail is at the start of a lap, where no entry could    *)
(* have more room, one that was not refused is stored and not replaced by  *)
(* a placeholder.                                                          *)
EmptyRingTakesEntry ==
  \A p \in Producers :
    pc[p] = "w_lock" /\ at[p] = head /\ at[p] = tail /\ RELATIVE(tail) = 0
      => ~Placeholder(hdr[p])

(* No call of ipc_buffer.c waits for a lock: whoever holds one, even if it *)
(* died holding it, a call returns once its caller stays the only producer *)
(* (or the only consumer) that is in one, while the other side goes on.    *)
(* More the code does not give: the loops of lines 162-186 and 231-239     *)
(* start over when a rival has moved the word first, so one of several     *)
(* producers, or consumers, may lose every compare-and-swap.  And a writer *)
(* whose entry is within a header of the ring's size lays placeholders for *)
(* as long as consumers remove them; payloads are smaller than that here.  *)
Rivals(p) == (IF p \in Producers THEN Producers ELSE Consumers) \ {p}

Unrivalled(p) == \A q \in Rivals(p) : pc[q] = "idle" \/ q \in dead

CallsReturn ==
  \A p \in Procs :
    <>[]Unrivalled(p) => (pc[p] # "idle" ~> (pc[p] = "idle" \/ p \in dead))

(* Data keeps flowing: the ring goes round until the bound on tail, and    *)
(* everything that was committed is then consumed.                         *)
KeepsFlowing == <>(tail >= MaxTail) /\ []<>(head = tail)

(* The locks are the only thing a process can take with it when it dies:   *)
(* data keeps flowing past the dead as long as none of them held one and   *)
(* somebody is left to write and to read.                                  *)
OnlyLocksBlock ==
  [](/\ (HeadHolders \cup TailHolders) \cap dead = {}
     /\ Producers \ dead # {} /\ Consumers \ dead # {}) => KeepsFlowing

-----------------------------------------------------------------------------
(* What the buffer promises: FifoQueue, with the entries taken from memory *)
(* as they are there, the offset of an entry as its ticket.                *)
StoredEntries ==
  { LET h == HeaderAt(RELATIVE(e.off)) IN
    [ticket |-> mem[SeqCell(RELATIVE(e.off))], len |-> h.payload_size,
     words |-> Words(RELATIVE(e.off), h.payload_size)]
    : e \in {e \in live : e.len > 0} }

LastReceived ==
  [p \in Consumers |->
     IF HasReceived(p)
       THEN [ticket |-> dest[p].offset, len |-> dest[p].size,
             words |-> dest[p].words]
       ELSE [ticket |-> 0, len |-> 0, words |-> {}]]

Fifo == INSTANCE FifoQueue WITH
  Lengths <- PayloadSizes, queue <- StoredEntries, clock <- tail,
  received <- LastReceived

(* The buffer implements the queue.                                        *)
ImplementsFifo == Fifo!Spec

=============================================================================
