---------------------------- MODULE IpcBufferInv ----------------------------
(***************************************************************************)
(* The inductive invariant of IpcBuffer: what has to be known of the ring, *)
(* of the entries in it and of the locals of every process for the         *)
(* properties of IpcBuffer to be preserved by each step.  TLC checks it,   *)
(* IpcBufferProof proves it.                                               *)
(***************************************************************************)
EXTENDS IpcBuffer

(* An offset where an entry may start: aligned, with room for a header     *)
(* before the end of its lap.  It is what the `+ sizeof(EntryHeader)' of   *)
(* ipc_buffer.c:185 is for.                                                *)
Boundary(off) ==
  /\ off % IPC_DATA_ALIGN = 0
  /\ RELATIVE(off) + HeaderSize <= BufSize

RingInv ==
  /\ Boundary(head) /\ Boundary(tail)
  /\ head <= tail /\ tail - head <= BufSize

EntryFits(e) ==
  /\ Boundary(e.off)
  /\ e.size % IPC_DATA_ALIGN = 0 /\ HeaderSize + e.len <= e.size
  /\ RELATIVE(e.off) + e.size <= BufSize
  /\ Boundary(e.off + e.size)
  /\ head <= e.off /\ e.off + e.size <= tail

LiveInv ==
  /\ \A e \in live : EntryFits(e)
  /\ \A e, f \in live : e = f \/ e.off + e.size <= f.off \/ f.off + f.size <= e.off
  /\ EntriesJoin

(* A consumer's copy of the header of the entry it is about to pass.       *)
HoldsEntry(p) ==
  \E e \in live : e.off = at[p] /\ hdr[p] = [payload_size |-> e.len,
                                             entry_size |-> e.size]

WriterInv(p) ==
  /\ pc[p] \in {"w_tail", "w_head", "w_lock"} \cup TailSection =>
       call[p].op = "write" /\ call[p].n > 0 /\ EntrySize(call[p].n) <= BufSize
  /\ pc[p] \in {"w_head", "w_lock"} \cup TailSection =>
       Boundary(at[p]) /\ at[p] <= tail
  /\ pc[p] \in {"w_lock"} \cup TailSection =>
       hdr[p] = PlannedHeader(p) /\ EntrySize(call[p].n) <= FreeSpace(p)
  /\ pc[p] \in TailSection => at[p] + hdr[p].entry_size <= head + BufSize
  /\ pc[p] \in {"w_seq", "w_commit"} =>
       /\ HeaderAt(RELATIVE(at[p])) = hdr[p]
       /\ \A c \in PayloadCells(RELATIVE(at[p]), hdr[p].payload_size) :
            mem[c] = call[p].v
  /\ pc[p] = "w_commit" => mem[SeqCell(RELATIVE(at[p]))] = at[p]

HasCopied(p) ==
  pc[p] = "r_advance" /\ call[p].op = "read" /\ ~Placeholder(hdr[p])

(* Of the entry at at[p] nothing is claimed once head has passed it: the   *)
(* compare-and-swap at the end of the call then fails.                     *)
ReaderInv(p) ==
  /\ pc[p] \in {"r_lock", "f_tail", "f_size", "f_advance"} \cup HeadSection =>
       at[p] <= head /\ Boundary(at[p])
  /\ pc[p] \in {"r_header", "r_copy", "r_advance", "f_size", "f_advance"} =>
       at[p] < tail
  /\ pc[p] \in {"r_copy", "r_advance", "f_advance"} /\ at[p] = head => HoldsEntry(p)
  /\ pc[p] = "r_copy" => call[p].op = "read" /\ ~Placeholder(hdr[p])
  /\ HasCopied(p) /\ at[p] = head =>
       \E e \in live : e.off = at[p] /\ dest[p] = [offset |-> e.off, size |-> e.len,
                                                   words |-> {e.val}]
  /\ pc[p] \in {"r_lock"} \cup HeadSection /\ call[p].op = "skip" => at[p] = call[p].n

(* Only a read that has copied hands out a payload, and head passes the    *)
(* entry before its caller sees it.                                        *)
ReceivedInv(p) ==
  /\ pc[p] # "idle" /\ ~HasCopied(p) => dest[p].words = {}
  /\ HasReceived(p) => dest[p].offset < head

LocalInv(p) == WriterInv(p) /\ ReaderInv(p) /\ ReceivedInv(p)

(* What holds whether or not the lock on head keeps consumers apart: tail, *)
(* the memory and the entries need the lock on tail and the                *)
(* compare-and-swaps on head, and not that one consumer at a time is       *)
(* behind the lock bit of head, which ipc_buffer_create may clear under    *)
(* its holder (IpcStartup).                                                *)
CoreInv ==
  /\ TypeOK /\ TailDiscipline
  /\ RingInv /\ LiveInv /\ LiveIntact
  /\ \A p \in Procs : LocalInv(p)
  /\ DeliveredOnce

IInv == CoreInv /\ HeadDiscipline /\ NoIllegalState

=============================================================================
