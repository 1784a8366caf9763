----------------------------- MODULE IpcStartup -----------------------------
(***************************************************************************)
(* The circular buffer of IpcBuffer from the moment its memory exists:     *)
(* ipc_buffer_create (core/src/ipc_buffer.c:67-104) sets it up while       *)
(* consumers that have attached to the same memory may already be polling  *)
(* it.  Memory fresh from ipc_mmap is all zero, which a consumer takes for *)
(* an empty ring, and ipc_buffer_attach does not wait for a creator: a     *)
(* reader that is started first, as the JNI binding allows, is in exactly  *)
(* this situation.                                                         *)
(*                                                                         *)
(* Producers write through the handle that ipc_buffer_create returned, or  *)
(* through one attached afterwards, so they write only once it is done.    *)
(***************************************************************************)
EXTENDS IpcBufferInv

VARIABLES
  create,       \* the next store of ipc_buffer_create, or "done"
  data_size,    \* header->data_size, 0 until it is stored
  disturbed     \* history: the lock on head was taken from its holder, and
                \* since then head has not been without a holder

svars == <<create, data_size, disturbed>>
startvars == <<vars, svars>>

StartInit ==
  /\ Init
  /\ create = "data_size"
  /\ data_size = 0
  /\ disturbed = FALSE

Calm == disturbed' = (disturbed /\ HeadHolders' # {})

StoreDataSize ==
  /\ create = "data_size"
  /\ data_size' = BufSize
  /\ create' = "head"
  /\ UNCHANGED vars
  /\ Calm

(* Mutation: the store of head leaves the word locked.                     *)
StoreHeadLocked ==
  /\ create = "head"
  /\ head' = 0 /\ headLocked' = TRUE
  /\ create' = "tail"
  /\ disturbed' = (HeadHolders # {})
  /\ UNCHANGED <<tail, tailLocked, mem, live, pc, call, at, hdr, dest, ret,
                 known, dead, data_size>>

(* atomic_init does not look at the lock bit: it unlocks head under whoever *)
(* has locked it.                                                          *)
StoreHead ==
  /\ create = "head"
  /\ head' = 0 /\ headLocked' = FALSE
  /\ create' = "tail"
  /\ disturbed' = (HeadHolders # {})
  /\ UNCHANGED <<tail, tailLocked, mem, live, pc, call, at, hdr, dest, ret,
                 known, dead, data_size>>

StoreTail ==
  /\ create = "tail"
  /\ tail' = 0 /\ tailLocked' = FALSE
  /\ create' = "done"
  /\ UNCHANGED <<head, headLocked, mem, live, pc, call, at, hdr, dest, ret,
                 known, dead, data_size>>
  /\ Calm

(* Producers have to wait for ipc_buffer_create; consumers do not.         *)
Use ==
  /\ \/ create = "done" /\ \E p \in Producers \ dead : Produce(p)
     \/ \E p \in Consumers \ dead : Consume(p)
     \/ \E p \in Procs \ dead : Crash(p)
  /\ Calm
  /\ UNCHANGED <<create, data_size>>

StartNext == StoreDataSize \/ StoreHead \/ StoreTail \/ Use

StartSpec == StartInit /\ [][StartNext]_startvars

-----------------------------------------------------------------------------
(* Nobody computes a place in the ring before its size is there: with a    *)
(* size of 0 the mask of ipc_utils.h:12 would leave every offset as it is. *)
SizeKnown ==
  \A p \in Procs :
    pc[p] \in {"w_lock", "w_fill", "w_seq", "w_commit", "r_header", "r_copy",
               "r_advance", "f_size", "f_advance"}
      => data_size = BufSize

(* Taking the lock from its holder wedges nothing: a locked head always    *)
(* has someone in its critical section at that offset, who will unlock it, *)
(* although two consumers may be in there at once.                         *)
LockHasHolder ==
  headLocked => \E p \in HeadHolders : at[p] = head

(* The spurious IPC_ERR_ILLEGAL_STATE that the creation can cause          *)
(* (ipc_buffer.c:100 against 248, 270, 289) ends with the first moment at  *)
(* which no consumer has head locked: from then on no call meets it.       *)
IllegalOnlyAtStart ==
  [][~disturbed => \A p \in Procs :
       pc[p] # "idle" /\ ret'[p] = "IPC_ERR_ILLEGAL_STATE"
         => ret[p] = "IPC_ERR_ILLEGAL_STATE"]_startvars

(* The inductive invariant of the startup: what the ring keeps without the *)
(* lock on head, the ring empty until the creation is done, and the lock   *)
(* doing its work again as soon as the creation has stopped disturbing it. *)
StartInv ==
  /\ CoreInv
  /\ create \in {"data_size", "head", "tail", "done"}
  /\ data_size \in Nat /\ disturbed \in BOOLEAN
  /\ create # "data_size" => data_size = BufSize
  /\ create # "done" =>
       /\ head = 0 /\ tail = 0 /\ live = {} /\ ~tailLocked
       /\ \A p \in Procs : pc[p] \notin {"w_tail", "w_head", "w_lock"} \cup TailSection
  /\ LockHasHolder
  /\ ~disturbed => HeadDiscipline

=============================================================================
