------------------------- MODULE IpcEndpointsProof -------------------------
(***************************************************************************)
(* Endpoints opened by path, for any number of processes, names, objects   *)
(* and sizes: what opens them drives its segment through ipc_mmap's own    *)
(* steps, so SegInv holds of it, and a ring, once it is in an object, has  *)
(* the length of that object for its size.                                 *)
(***************************************************************************)
EXTENDS IpcEndpoints, ShmSegmentProof

EndpointTypes ==
  /\ opening \in [Users -> [by : {"nobody", "init", "jni"},
                            role : {"none", "create", "attach"}, size : Nat]]
  /\ handle \in [Users -> Objects \cup Users \cup {None}]
  /\ ring \in [Objects -> Nat]

(* Whoever has an endpoint keeps the segment it was opened with.           *)
Opened(u) ==
  /\ opening[u] # NoOpening => u \in Openers
  /\ handle[u] # None => /\ opening[u] # NoOpening
                        /\ pc[u] = "idle" /\ segment[u] # NoSegment
                        /\ handle[u] = MemoryOf(u)

(* A ring fills the object it was created in.                              *)
RingFills == \A o \in Objects : ring[o] \in {0, length[o]}

EndpointsInv ==
  /\ SegInv /\ EndpointTypes /\ RingFills
  /\ \A u \in Users : Opened(u)

-----------------------------------------------------------------------------
(* The segments.                                                           *)

(* Opening an endpoint takes no step that the segments do not know.        *)
LEMMA DrivesSegments ==
  ASSUME [EndpointsNext]_evars PROVE [Next]_vars
<1>1. ASSUME NEW u \in Users, NEW n \in Names, NEW s \in Sizes, MmapCall(u, n, s)
      PROVE  [Next]_vars
  BY <1>1 DEF Next
<1>2. ASSUME NEW u \in Users, NEW n \in Names, NEW r \in {"create", "attach"},
             \/ \E s \in Sizes : InitOpen(u, n, s, r)
             \/ \E c \in Capacities : JniOpen(u, n, c, r)
      PROVE  [Next]_vars
  BY <1>1, <1>2, SuggestionAssumption DEF InitOpen, JniOpen, Open
<1>3. ASSUME NEW u \in Users,
             Finish(u) \/ SegmentStep(u) \/ SegmentCall(u) \/ EndpointCrash(u)
      PROVE  [Next]_vars
  <2>1. CASE Finish(u)
    BY <2>1 DEF Finish
  <2>2. CASE SegmentStep(u)
    BY <2>2 DEF SegmentStep, Next
  <2>3. CASE SegmentCall(u)
    BY <1>1, <2>3 DEF SegmentCall, Next
  <2>4. CASE EndpointCrash(u)
    BY <2>4 DEF EndpointCrash, Next
  <2> QED BY <1>3, <2>1, <2>2, <2>3, <2>4
<1>4. CASE UNCHANGED evars
  BY <1>4 DEF evars, vars
<1> QED BY <1>2, <1>3, <1>4 DEF EndpointsNext

(* An object in use keeps its length; any other gets one or loses it.      *)
LEMMA Lengths ==
  ASSUME SegInv, [Next]_vars, NEW o \in Objects
  PROVE  /\ length'[o] = length[o] \/ length'[o] = 0 \/ length[o] = 0
         /\ \A v \in Users : mapped[v].obj = o => length'[o] = length[o]
<1>0. \A v \in Users : mapped[v].obj = o => length[o] > 0 /\ InUse(o)
  BY SegmentAssumption DEF SegInv, UserInv, Whole, NoMap, InUse
<1>1. ASSUME NEW u \in Users, NewObject(u)
      PROVE  length'[o] = length[o] \/ (length'[o] = 0 /\ ~InUse(o))
  BY <1>1 DEF NewObject, SegInv, TypeOK
<1>2. ASSUME NEW u \in Users, Truncate(u)
      PROVE  length'[o] = length[o] \/ length[o] = 0
  BY <1>2 DEF Truncate, SegInv, TypeOK, UserInv
<1>3. CASE length' = length
  BY <1>3
<1>4. \/ length' = length
      \/ \E u \in Users : NewObject(u) \/ Truncate(u)
  BY DEF Next, vars, kernel, MmapCall, Step, ShmCreate, StatNew, ShmOpen, StatOld,
         Mmap, Allocate, UnlinkUnmap, Unmap, UnmapCall, UnlinkCall, Crash
<1>5. length[o] \in Nat
  BY DEF SegInv, TypeOK
<1> QED BY <1>0, <1>1, <1>2, <1>3, <1>4, <1>5

(* What an endpoint of the binding works on is what it has mapped.         *)
LEMMA HandleOf ==
  ASSUME SegInv, NEW u \in Users, pc[u] = "idle", segment[u] # NoSegment
  PROVE  /\ segment[u].memory = mapped[u].obj /\ segment[u].memory \in Objects
         /\ segment[u].size = length[mapped[u].obj]
<1>1. Described(u) /\ Whole(u)
  BY DEF SegInv, UserInv
<1>2. segment[u].memory \in Objects
  BY <1>1 DEF Described, SegInv, TypeOK
<1>3. mapped[u].obj = segment[u].memory /\ mapped[u].size = segment[u].size
  BY <1>1 DEF Described
<1>4. mapped[u] # NoMap
  BY <1>2, <1>3, SegmentAssumption DEF NoMap
<1> QED BY <1>1, <1>2, <1>3, <1>4 DEF Whole

(* Nor does it move another user in its call.                              *)
LEMMA OthersWait ==
  ASSUME SegInv, NEW u \in Users,
         \/ \E n \in Names, s \in Sizes : MmapCall(u, n, s)
         \/ Step(u) \/ UnmapCall(u) \/ UnlinkCall(u) \/ Crash(u)
  PROVE  \A v \in Users \ {u} : pc'[v] = pc[v] /\ segment'[v] = segment[v]
<1>1. \/ pc' = pc
      \/ \E l : Goto(u, l)
  BY DEF Step, ShmCreate, NewObject, Truncate, StatNew, ShmOpen, StatOld, Mmap,
         Allocate, UnlinkUnmap, Unmap, MmapCall, UnmapCall, UnlinkCall, Crash, Return
<1>2. \A v \in Users \ {u} : pc'[v] = pc[v]
  BY <1>1 DEF Goto, SegInv, TypeOK
<1> QED BY <1>2, StepOthers DEF Alone

-----------------------------------------------------------------------------
(* The steps.                                                              *)

(* Nobody's segment moves in another's call.                               *)
LEMMA KeepsOpened ==
  ASSUME EndpointsInv, NEW v \in Users, opening'[v] = opening[v],
         handle'[v] = handle[v], pc'[v] = pc[v], segment'[v] = segment[v]
  PROVE  Opened(v)'
BY DEF EndpointsInv, Opened, MemoryOf

LEMMA OpenInv ==
  ASSUME EndpointsInv, SegInv', NEW u \in Users, NEW n, NEW s \in Sizes,
         NEW b \in {"init", "jni"}, NEW r \in {"create", "attach"},
         Open(u, n, s, b, r)
  PROVE  EndpointsInv'
<1> USE DEF EndpointsInv
<1>1. EndpointTypes' /\ RingFills'
  BY SegmentAssumption DEF EndpointTypes, RingFills, Open, MmapCall, kernel
<1>2. ASSUME NEW v \in Users PROVE Opened(v)'
  <2>1. CASE v = u
    BY <2>1 DEF Opened, Open
  <2>2. CASE v # u
    BY <2>2, KeepsOpened
    DEF Open, MmapCall, Goto, EndpointTypes, SegInv, TypeOK
  <2> QED BY <2>1, <2>2
<1> QED BY <1>1, <1>2

(* A ring is made in the memory of a segment, with the segment's size.     *)
LEMMA RingMade ==
  ASSUME EndpointsInv, NEW u \in Users, pc[u] = "idle", segment[u] # NoSegment,
         Create(u)
  PROVE  \A o \in Objects : ring'[o] = ring[o] \/ ring'[o] = length[o]
<1>1. CASE MemoryOf(u) \in Objects
  <2>1. opening[u].by = "jni"
    BY <1>1, EndpointAssumption DEF MemoryOf
  <2>2. SizeOf(u) = length[MemoryOf(u)]
    BY <2>1, HandleOf DEF EndpointsInv, SizeOf, MemoryOf
  <2>3. ring' = [ring EXCEPT ![MemoryOf(u)] = length[MemoryOf(u)]]
    BY <1>1, <2>2 DEF Create
  <2> QED BY <1>1, <2>3 DEF EndpointsInv, EndpointTypes
<1>2. CASE MemoryOf(u) \notin Objects
  BY <1>2 DEF Create
<1> QED BY <1>1, <1>2

LEMMA FinishInv ==
  ASSUME EndpointsInv, SegInv', NEW u \in Users, Finish(u)
  PROVE  EndpointsInv'
<1> USE DEF EndpointsInv
<1>1. UNCHANGED vars /\ pc[u] = "idle" /\ handle[u] = None /\ opening[u] # NoOpening
  BY DEF Finish
<1>2. CASE Fail(u)
  <2>1. EndpointTypes' /\ RingFills'
    BY <1>1, <1>2 DEF Fail, EndpointTypes, RingFills, NoOpening, vars
  <2>2. ASSUME NEW v \in Users PROVE Opened(v)'
    <3>1. CASE v = u
      BY <1>1, <1>2, <3>1 DEF Fail, Opened, EndpointTypes
    <3>2. CASE v # u
      BY <1>1, <1>2, <3>2, KeepsOpened DEF Fail, EndpointTypes, vars
    <3> QED BY <3>1, <3>2
  <2> QED BY <2>1, <2>2
<1>3. CASE segment[u] # NoSegment /\ (Create(u) \/ Attach(u))
  <2>1. /\ handle' = [handle EXCEPT ![u] = MemoryOf(u)] /\ opening' = opening
        /\ opening[u] \in [by : {"nobody", "init", "jni"},
                           role : {"none", "create", "attach"}, size : Nat]
    BY <1>3 DEF Create, Attach, EndpointTypes
  <2>2. MemoryOf(u) \in Objects \cup Users
    BY <1>1, <1>3, HandleOf DEF MemoryOf
  <2>3. \A o \in Objects : ring'[o] = ring[o] \/ ring'[o] = length[o]
    BY <1>1, <1>3, RingMade DEF Attach
  <2>4. ring' \in [Objects -> Nat]
    <3>1. segment[u].size \in Nat /\ opening[u].size \in Nat
      BY <2>1 DEF SegInv, TypeOK
    <3>2. SizeOf(u) \in Nat
      BY <3>1 DEF SizeOf
    <3> QED BY <1>3, <3>2 DEF Create, Attach, EndpointTypes
  <2>5. EndpointTypes' /\ RingFills'
    BY <1>1, <2>1, <2>2, <2>3, <2>4 DEF EndpointTypes, RingFills, vars
  <2>6. ASSUME NEW v \in Users PROVE Opened(v)'
    <3>1. CASE v = u
      BY <1>1, <1>3, <2>1, <3>1 DEF Opened, MemoryOf, vars, EndpointTypes
    <3>2. CASE v # u
      BY <1>1, <2>1, <3>2, KeepsOpened DEF EndpointTypes, vars
    <3> QED BY <3>1, <3>2
  <2> QED BY <2>5, <2>6
<1> QED BY <1>2, <1>3 DEF Finish

LEMMA SegmentStepInv ==
  ASSUME EndpointsInv, SegInv', NEW u \in Users, SegmentStep(u)
  PROVE  EndpointsInv'
<1> USE DEF EndpointsInv
<1>1. /\ Step(u) /\ opening' = opening /\ handle' = handle
      /\ ring' = [o \in Objects |-> IF length'[o] = 0 THEN 0 ELSE ring[o]]
  BY DEF SegmentStep
<1>2. [Next]_vars
  BY <1>1 DEF Next
<1>3. EndpointTypes'
  BY <1>1 DEF EndpointTypes
<1>4. RingFills'
  BY <1>1, <1>2, Lengths DEF RingFills
<1>5. pc[u] # "idle"
  BY <1>1 DEF Step, ShmCreate, Truncate, StatNew, ShmOpen, StatOld, Mmap, Allocate,
              UnlinkUnmap
<1>6. \A v \in Users \ {u} : pc'[v] = pc[v] /\ segment'[v] = segment[v]
  BY <1>1, OthersWait
<1>7. ASSUME NEW v \in Users PROVE Opened(v)'
  <2>1. CASE v = u
    BY <1>1, <1>5, <2>1 DEF Opened
  <2>2. CASE v # u
    BY <1>1, <1>6, <2>2, KeepsOpened
  <2> QED BY <2>1, <2>2
<1> QED BY <1>3, <1>4, <1>7

LEMMA SegmentCallInv ==
  ASSUME EndpointsInv, SegInv', NEW u \in Users, SegmentCall(u)
  PROVE  EndpointsInv'
<1> USE DEF EndpointsInv
<1>1. /\ u \notin Openers /\ opening' = opening /\ handle' = handle /\ ring' = ring
  BY DEF SegmentCall
<1>2. \A v \in Users \ {u} : pc'[v] = pc[v] /\ segment'[v] = segment[v]
  BY OthersWait DEF SegmentCall
<1>3. length' = length
  BY DEF SegmentCall, MmapCall, UnmapCall, Unmap, UnlinkCall, kernel
<1>4. EndpointTypes' /\ RingFills'
  BY <1>1, <1>3 DEF EndpointTypes, RingFills
<1>5. ASSUME NEW v \in Users PROVE Opened(v)'
  <2>1. CASE v = u
    BY <1>1, <2>1 DEF Opened
  <2>2. CASE v # u
    BY <1>1, <1>2, <2>2, KeepsOpened
  <2> QED BY <2>1, <2>2
<1> QED BY <1>4, <1>5

LEMMA EndpointCrashInv ==
  ASSUME EndpointsInv, SegInv', NEW u \in Users, EndpointCrash(u)
  PROVE  EndpointsInv'
<1> USE DEF EndpointsInv
<1>1. /\ opening' = [opening EXCEPT ![u] = NoOpening]
      /\ handle' = [handle EXCEPT ![u] = None] /\ ring' = ring /\ length' = length
  BY DEF EndpointCrash, Crash, kernel
<1>2. \A v \in Users \ {u} : pc'[v] = pc[v] /\ segment'[v] = segment[v]
  BY OthersWait DEF EndpointCrash
<1>3. EndpointTypes' /\ RingFills'
  BY <1>1 DEF EndpointTypes, RingFills, NoOpening
<1>4. ASSUME NEW v \in Users PROVE Opened(v)'
  <2>1. CASE v = u
    BY <1>1, <2>1 DEF Opened, EndpointTypes
  <2>2. CASE v # u
    BY <1>1, <1>2, <2>2, KeepsOpened DEF EndpointTypes
  <2> QED BY <2>1, <2>2
<1> QED BY <1>3, <1>4

LEMMA EndpointsNextInv ==
  ASSUME EndpointsInv, [EndpointsNext]_evars PROVE EndpointsInv'
<1>1. SegInv'
  BY DrivesSegments, NextInv DEF EndpointsInv
<1>2. ASSUME NEW u \in Users, NEW n \in Names, NEW r \in {"create", "attach"},
             \/ \E s \in Sizes : InitOpen(u, n, s, r)
             \/ \E c \in Capacities : JniOpen(u, n, c, r)
      PROVE  EndpointsInv'
  BY <1>1, <1>2, OpenInv, SuggestionAssumption DEF InitOpen, JniOpen
<1>3. CASE UNCHANGED evars
  BY <1>1, <1>3
  DEF evars, vars, EndpointsInv, EndpointTypes, RingFills, Opened, MemoryOf
<1> QED
  BY <1>1, <1>2, <1>3, FinishInv, SegmentStepInv, SegmentCallInv, EndpointCrashInv
  DEF EndpointsNext

LEMMA EndpointsInitInv == EndpointsInit => EndpointsInv
<1> SUFFICES ASSUME EndpointsInit PROVE EndpointsInv
  OBVIOUS
<1>1. SegInv
  BY InitInv DEF EndpointsInit
<1>2. EndpointTypes /\ RingFills /\ \A u \in Users : Opened(u)
  BY DEF EndpointsInit, EndpointTypes, RingFills, Opened, NoOpening
<1> QED BY <1>1, <1>2 DEF EndpointsInv

-----------------------------------------------------------------------------
(* The theorems.                                                           *)

LEMMA EndpointsHold == EndpointsSpec => []EndpointsInv
<1>1. EndpointsInv /\ [EndpointsNext]_evars => EndpointsInv'
  BY EndpointsNextInv
<1> QED BY <1>1, EndpointsInitInv, PTL DEF EndpointsSpec

LEMMA JniHandle ==
  ASSUME EndpointsInv, NEW u \in EndpointsOf({"jni"})
  PROVE  /\ handle[u] = mapped[u].obj /\ handle[u] \in Objects
         /\ mapped[u].size = length[handle[u]]
<1>1. /\ u \in Users /\ handle[u] # None /\ opening[u].by = "jni"
  BY EndpointAssumption DEF EndpointsOf
<1>2. pc[u] = "idle" /\ segment[u] # NoSegment /\ handle[u] = segment[u].memory
  BY <1>1 DEF EndpointsInv, Opened, MemoryOf
<1>3. handle[u] = mapped[u].obj /\ handle[u] \in Objects
  BY <1>1, <1>2, HandleOf DEF EndpointsInv
<1>4. mapped[u] # NoMap
  BY <1>3, SegmentAssumption DEF NoMap
<1> QED BY <1>1, <1>3, <1>4 DEF EndpointsInv, SegInv, UserInv, Whole

(* The ring that a Java process works on is in the memory it has mapped    *)
(* and lies inside it, although its size was read from there.              *)
THEOREM RingInside == EndpointsSpec => []RingFits
<1>1. ASSUME EndpointsInv, NEW u \in EndpointsOf({"jni"})
      PROVE  handle[u] = mapped[u].obj /\ ring[handle[u]] <= mapped[u].size
  <2>1. /\ handle[u] = mapped[u].obj /\ handle[u] \in Objects
        /\ mapped[u].size = length[handle[u]]
    BY <1>1, JniHandle
  <2>2. length[handle[u]] \in Nat /\ ring[handle[u]] \in {0, length[handle[u]]}
    BY <1>1, <2>1 DEF EndpointsInv, RingFills, SegInv, TypeOK
  <2> QED BY <2>1, <2>2
<1>2. EndpointsInv => RingFits
  BY <1>1 DEF RingFits
<1> QED BY <1>2, EndpointsHold, PTL

(* A ring keeps its size for as long as an endpoint works on it, even if   *)
(* it is created anew under that endpoint.                                 *)
THEOREM RingSizeStays == EndpointsSpec => RingKeepsSize
<1>1. ASSUME EndpointsInv, EndpointsInv', [EndpointsNext]_evars, NEW u \in Openers,
             handle[u] \in Objects, handle'[u] = handle[u], ring[handle[u]] > 0
      PROVE  ring'[handle[u]] = ring[handle[u]]
  <2> DEFINE o == handle[u]
  <2>1. u \in Users /\ handle[u] # None /\ u \notin Objects
    BY <1>1, EndpointAssumption, SegmentAssumption
  <2>2. opening[u].by = "jni"
    BY <1>1, <2>1 DEF EndpointsInv, Opened, MemoryOf
  <2>3. mapped[u].obj = o
    BY <1>1, <2>1, <2>2, JniHandle DEF EndpointsOf
  <2>4. length'[o] = length[o]
    BY <1>1, <2>1, <2>3, DrivesSegments, Lengths DEF EndpointsInv
  <2>5. ring[o] = length[o] /\ length[o] > 0
    BY <1>1 DEF EndpointsInv, RingFills
  <2>6. ASSUME NEW w \in Users, Finish(w) PROVE ring'[o] \in {ring[o], length[o]}
    BY <1>1, <2>6, RingMade DEF Finish, Attach, Fail
  <2>7. ASSUME NEW w \in Users, SegmentStep(w) PROVE ring'[o] = ring[o]
    BY <1>1, <2>4, <2>5, <2>7 DEF SegmentStep
  <2>8. \/ ring' = ring
        \/ \E w \in Users : Finish(w) \/ SegmentStep(w)
    BY <1>1 DEF EndpointsNext, evars, InitOpen, JniOpen, Open, SegmentCall,
                EndpointCrash
  <2> QED BY <2>5, <2>6, <2>7, <2>8
<1>2. EndpointsInv /\ EndpointsInv' /\ [EndpointsNext]_evars =>
        [\A u \in Openers :
           handle[u] \in Objects /\ handle'[u] = handle[u] /\ ring[handle[u]] > 0
             => ring'[handle[u]] = ring[handle[u]]]_evars
  BY <1>1
<1> QED BY <1>2, EndpointsHold, PTL DEF EndpointsSpec, RingKeepsSize

(* Opening by path is one of the ways to use ipc_mmap: whatever is true of *)
(* every use of ipc_mmap.c is true of those that ipc_init.c and the        *)
(* binding make of it.                                                     *)
THEOREM EndpointsUseSegments == EndpointsSpec => Spec
<1>1. EndpointsInit => Init
  BY DEF EndpointsInit
<1> QED BY <1>1, DrivesSegments, PTL DEF EndpointsSpec, Spec

(* So what an endpoint has mapped is the whole of its object, no way of    *)
(* opening leaves a descriptor behind, and the segments under the          *)
(* endpoints are the shared memory of SharedMemory.                        *)
THEOREM EndpointsAreSafe ==
  EndpointsSpec => [](MappedWhole /\ NoLeak) /\ LostStays /\ SharesMemory
BY EndpointsUseSegments, MapsWhole, LeaksNothing, StaysLost, ImplementsSharedMemory, PTL
=============================================================================
