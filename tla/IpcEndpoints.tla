---------------------------- MODULE IpcEndpoints ----------------------------
(***************************************************************************)
(* Rings and channels opened by path: core/src/ipc_init.c and the native   *)
(* init of the Java binding (lib_shm_ipc_jni_IpcChannel.c), on top of the  *)
(* segments of ShmSegment.  Both get a segment from ipc_mmap and create a  *)
(* ring in it or attach to the one that is there; they differ in what they *)
(* take for the memory of the segment.                                     *)
(*                                                                         *)
(* A user opens one endpoint, and has no call to close it: neither way of  *)
(* opening gives the segment back to the caller.                           *)
(***************************************************************************)
EXTENDS ShmSegment

CONSTANTS
  Openers,      \* the users that open endpoints; the others call ipc_mmap
  Overhead,     \* the bytes of a segment that hold headers
  MinData,      \* the least data that the size checks demand
  Capacities    \* the capacities Java asks for

ASSUME EndpointAssumption ==
  /\ Openers \subseteq Users
  /\ Overhead \in Nat /\ MinData \in Nat \ {0}
  /\ Objects \cap Users = {} /\ None \notin Users

VARIABLES
  opening,    \* how each user opens or has opened its endpoint: through
              \* "init" or "jni", in which role, which size; or NoOpening
  handle,     \* the memory each endpoint works on: an object, or the user
              \* itself, for a structure in its own heap; or None
  ring        \* the size of the ring created in each object, 0 for none

evars == <<vars, opening, handle, ring>>

NoOpening == [by |-> "nobody", role |-> "none", size |-> 0]

EndpointsInit ==
  /\ Init
  /\ opening = [u \in Users |-> NoOpening]
  /\ handle = [u \in Users |-> None]
  /\ ring = [o \in Objects |-> 0]

(* is_power_of_2 of what the headers leave, up to the sizes TLC can add.   *)
IsRingSize(s) == \E k \in 0..30 : s = Overhead + 2 ^ k

(* ipc_channel_suggest_size.                                               *)
SuggestSize(c) ==
  IF c < MinData
  THEN Overhead + MinData
  ELSE CHOOSE s \in Overhead + c .. Overhead + 2 * c :
         IsRingSize(s) /\ \A t \in Overhead + c .. s - 1 : ~IsRingSize(t)

(* What Java's capacities come to is among the sizes that are asked for.   *)
ASSUME SuggestionAssumption == \A c \in Capacities : SuggestSize(c) \in Sizes

Open(u, n, s, by, role) ==
  /\ u \in Openers /\ opening[u] = NoOpening /\ handle[u] = None
  /\ MmapCall(u, n, s)
  /\ opening' = [opening EXCEPT ![u] = [by |-> by, role |-> role, size |-> s]]
  /\ UNCHANGED <<handle, ring>>

(* _validate_size comes first; a size it refuses changes nothing.          *)
InitOpen(u, n, s, role) ==
  /\ s >= Overhead + MinData /\ IsRingSize(s)
  /\ Open(u, n, s, "init", role)

JniOpen(u, n, c, role) ==
  Open(u, n, SuggestSize(c), "jni", role)

(* Mutation: the binding passes the size of the segment it asked for.      *)
SizeOfRequest(u) == opening[u].size

(* The memory and the size that are passed to create and attach.  ipc_init *)
(* passes the address of the IpcMemorySegment and the size it was given,   *)
(* the binding passes the segment's memory and size.                       *)
MemoryOf(u) == IF opening[u].by = "jni" THEN segment[u].memory ELSE u
SizeOf(u) == IF opening[u].by = "jni" THEN segment[u].size ELSE opening[u].size

(* ipc_buffer_create and ipc_channel_create, which look at the size and at *)
(* nothing that is in the memory.                                          *)
Create(u) ==
  /\ opening[u].role = "create" /\ IsRingSize(SizeOf(u))
  /\ handle' = [handle EXCEPT ![u] = MemoryOf(u)]
  /\ ring' = IF MemoryOf(u) \in Objects
             THEN [ring EXCEPT ![MemoryOf(u)] = SizeOf(u)]
             ELSE ring
  /\ UNCHANGED opening

(* ipc_buffer_attach and ipc_channel_connect, which look at nothing.       *)
Attach(u) ==
  /\ opening[u].role = "attach"
  /\ handle' = [handle EXCEPT ![u] = MemoryOf(u)]
  /\ UNCHANGED <<opening, ring>>

(* No segment, a size that create refuses, or no memory for the handle: no *)
(* endpoint, and the segment stays mapped.                                 *)
Fail(u) ==
  /\ \/ segment[u] = NoSegment
     \/ opening[u].role = "create" /\ ~IsRingSize(SizeOf(u))
     \/ u \in MayFail
  /\ opening' = [opening EXCEPT ![u] = NoOpening]
  /\ UNCHANGED <<handle, ring>>

(* ipc_mmap has returned.                                                  *)
Finish(u) ==
  /\ opening[u] # NoOpening /\ handle[u] = None /\ pc[u] = "idle"
  /\ \/ segment[u] # NoSegment /\ (Create(u) \/ Attach(u))
     \/ Fail(u)
  /\ UNCHANGED vars

(* A new object holds zeros.                                               *)
SegmentStep(u) ==
  /\ Step(u)
  /\ ring' = [o \in Objects |-> IF length'[o] = 0 THEN 0 ELSE ring[o]]
  /\ UNCHANGED <<opening, handle>>

(* The other users of the segments.                                        *)
SegmentCall(u) ==
  /\ u \notin Openers
  /\ \/ \E n \in Names, s \in Sizes : MmapCall(u, n, s)
     \/ UnmapCall(u) \/ UnlinkCall(u)
  /\ UNCHANGED <<opening, handle, ring>>

EndpointCrash(u) ==
  /\ Crash(u)
  /\ opening' = [opening EXCEPT ![u] = NoOpening]
  /\ handle' = [handle EXCEPT ![u] = None]
  /\ UNCHANGED ring

EndpointsNext ==
  \E u \in Users :
    \/ \E n \in Names, r \in {"create", "attach"} :
         \/ \E s \in Sizes : InitOpen(u, n, s, r)
         \/ \E c \in Capacities : JniOpen(u, n, c, r)
    \/ Finish(u) \/ SegmentStep(u) \/ SegmentCall(u) \/ EndpointCrash(u)

EndpointsSpec == EndpointsInit /\ [][EndpointsNext]_evars

-----------------------------------------------------------------------------
EndpointsOf(ways) == {u \in Openers : handle[u] # None /\ opening[u].by \in ways}

(* core/README.md:10 offers communication between processes through shared *)
(* memory: endpoints that have the same memory mapped must work on the     *)
(* same ring, however they were opened (ipc_init.c:70, 101, 132, 165 pass  *)
(* the segment structure).                                                 *)
EndpointsMeet ==
  \A u, v \in EndpointsOf({"init", "jni"}) :
    mapped[u].obj = mapped[v].obj => handle[u] = handle[v]

(* The ring that a Java process works on is in the memory it has mapped,   *)
(* so that who shares that memory shares the ring, and lies inside the     *)
(* mapping, although attach takes the size from the memory, whoever wrote  *)
(* it there.                                                               *)
RingFits ==
  \A u \in EndpointsOf({"jni"}) :
    handle[u] = mapped[u].obj /\ ring[handle[u]] <= mapped[u].size

(* A ring never changes its size under an endpoint, not even if another    *)
(* one creates it anew in the same memory, so that the offsets of both go  *)
(* on to denote the same places (ipc_mmap.c:97 and the binding's line 62). *)
RingKeepsSize ==
  [][\A u \in Openers :
       handle[u] \in Objects /\ handle'[u] = handle[u] /\ ring[handle[u]] > 0
         => ring'[handle[u]] = ring[handle[u]]]_evars

=============================================================================
