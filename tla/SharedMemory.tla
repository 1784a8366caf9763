---------------------------- MODULE SharedMemory ----------------------------
(***************************************************************************)
(* What ipc_mmap promises the processes that share memory by name: a name  *)
(* is bound to at most one memory, a memory gets its length once and keeps *)
(* it for as long as it is bound or held, and whoever is given the memory  *)
(* is given all of it.  A memory outlives its name while someone holds it. *)
(***************************************************************************)
EXTENDS Integers

CONSTANTS Users, Names, Objects, None

VARIABLES
  bound,    \* the memory each name is bound to, or None
  length,   \* the bytes of each memory, 0 until it is given its length
  hold,     \* the memory each user keeps alive, or None
  given     \* the bytes each user has been given to use, 0 for none

vars == <<bound, length, hold, given>>

Init ==
  /\ bound = [n \in Names |-> None]
  /\ length = [o \in Objects |-> 0]
  /\ hold = [u \in Users |-> None]
  /\ given = [u \in Users |-> 0]

InUse(o) == (\E n \in Names : bound[n] = o) \/ (\E u \in Users : hold[u] = o)

(* A memory that nothing refers to is bound to the name, empty.            *)
Create(u, n) ==
  /\ bound[n] = None /\ hold[u] = None
  /\ \E o \in Objects :
       /\ ~InUse(o)
       /\ bound' = [bound EXCEPT ![n] = o]
       /\ hold' = [hold EXCEPT ![u] = o]
       /\ length' = [length EXCEPT ![o] = 0]
  /\ UNCHANGED given

(* The one time a memory gets its length.                                  *)
Extend(u) ==
  /\ hold[u] # None /\ length[hold[u]] = 0
  /\ length'[hold[u]] \in Nat \ {0}
  /\ length' = [length EXCEPT ![hold[u]] = length'[hold[u]]]
  /\ UNCHANGED <<bound, hold, given>>

Open(u, n) ==
  /\ bound[n] # None /\ hold[u] = None
  /\ hold' = [hold EXCEPT ![u] = bound[n]]
  /\ UNCHANGED <<bound, length, given>>

Give(u) ==
  /\ hold[u] # None /\ given[u] = 0 /\ length[hold[u]] > 0
  /\ given' = [given EXCEPT ![u] = length[hold[u]]]
  /\ UNCHANGED <<bound, length, hold>>

Leave(u) ==
  /\ hold' = [hold EXCEPT ![u] = None]
  /\ given' = [given EXCEPT ![u] = 0]
  /\ UNCHANGED <<bound, length>>

(* Only a user that has been given memory takes names away.                *)
Unbind(u, n) ==
  /\ given[u] > 0
  /\ bound' = [bound EXCEPT ![n] = None]
  /\ UNCHANGED <<length, hold, given>>

Next ==
  \E u \in Users :
    \/ Extend(u) \/ Give(u) \/ Leave(u)
    \/ \E n \in Names : Create(u, n) \/ Open(u, n) \/ Unbind(u, n)

Spec == Init /\ [][Next]_vars
=============================================================================
