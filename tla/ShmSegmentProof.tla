--------------------------- MODULE ShmSegmentProof ---------------------------
(***************************************************************************)
(* What ipc_mmap.c gives its callers, proved for any number of users,      *)
(* names, objects and sizes, wherever their calls fail and whenever they   *)
(* die.  The inductive invariant says what a user holds at each point of a *)
(* call; the rest is that no step of one user disturbs it for another.     *)
(***************************************************************************)
EXTENDS ShmSegment, TLAPS

(* What a user holds at each point of its calls.                           *)
Empty(u) == fd[u] = None /\ mapped[u] = NoMap

Described(u) ==
  /\ fd[u] = None
  /\ mapped[u] = [obj |-> segment[u].memory, size |-> segment[u].size]
  /\ segment[u].memory = None => segment[u] = NoSegment
  /\ segment[u].memory # None => segment[u].name # None

Asking(u) == req[u].name \in Names /\ req[u].size \in Sizes /\ segment[u] = NoSegment

Whole(u) ==
  mapped[u] # NoMap => /\ mapped[u].obj # None
                       /\ mapped[u].size = length[mapped[u].obj]
                       /\ mapped[u].size > 0

UserInv(u) ==
  /\ pc[u] \in {"idle", "unmap"} => Described(u)
  /\ pc[u] \notin {"idle", "unmap"} => Asking(u)
  /\ pc[u] \in {"create", "open"} => Empty(u)
  /\ pc[u] \in {"truncate", "stat_new", "stat_old", "map"} =>
       fd[u] # None /\ mapped[u] = NoMap
  /\ pc[u] = "truncate" => length[fd[u]] = 0
  /\ pc[u] = "stat_new" => length[fd[u]] > 0
  /\ pc[u] = "map" => actual[u] = length[fd[u]] /\ actual[u] > 0
  /\ pc[u] = "alloc" => /\ fd[u] = None /\ mapped[u].obj # None
                        /\ mapped[u].size = actual[u]
  /\ Whole(u)

(* Two creators never have the same object.                                *)
OneCreator ==
  \A u, v \in Users :
    u # v /\ pc[u] = "truncate" /\ pc[v] = "truncate" => fd[u] # fd[v]

SegInv == TypeOK /\ OneCreator /\ \A u \in Users : UserInv(u)

-----------------------------------------------------------------------------
Maps == [obj : Objects \cup {None}, size : Nat]
Requests == [name : Names \cup {None}, size : Nat]
Segments == [name : Names \cup {None}, memory : Objects \cup {None}, size : Nat]

(* The records of a user that has nothing.                                 *)
LEMMA Nothing == NoMap \in Maps /\ NoReq \in Requests /\ NoSegment \in Segments
BY DEF NoMap, NoReq, NoSegment, Maps, Requests, Segments

(* ftruncate with a size that is not 0 leaves a length that is not 0.      *)
LEMMA StoredPositive ==
  ASSUME NEW s \in Sizes PROVE Stored(s) \in Nat \ {0}
<1>1. s \in Nat /\ s >= 1 /\ Granule \in Nat /\ Granule >= 1
  BY SegmentAssumption
<1> DEFINE q == (s + Granule - 1) \div Granule
<1>2. q \in Nat /\ q >= 1
  BY <1>1
<1>3. q * Granule \in Nat /\ q * Granule >= 1
  <2> HIDE DEF q
  <2> QED BY <1>1, <1>2
<1> QED BY <1>3 DEF Stored

(* The types and the other users' facts survive a step of one user that    *)
(* leaves the lengths of what they hold alone.                             *)
LEMMA Frame ==
  ASSUME TypeOK, NEW v \in Users, UserInv(v),
         fd'[v] = fd[v], mapped'[v] = mapped[v], segment'[v] = segment[v],
         pc'[v] = pc[v], req'[v] = req[v], actual'[v] = actual[v],
         fd[v] # None => length'[fd[v]] = length[fd[v]],
         mapped[v].obj # None => length'[mapped[v].obj] = length[mapped[v].obj]
  PROVE  UserInv(v)'
BY DEF UserInv, Described, Asking, Empty, Whole, NoMap, NoSegment

LEMMA InitInv == Init => SegInv
<1> SUFFICES ASSUME Init PROVE SegInv
  OBVIOUS
<1>1. TypeOK
  BY SegmentAssumption DEF Init, TypeOK, NoMap, NoSegment, NoReq, Labels
<1>2. OneCreator
  BY DEF Init, OneCreator
<1>3. ASSUME NEW u \in Users PROVE UserInv(u)
  BY DEF Init, UserInv, Described, Asking, Empty, Whole, NoMap, NoSegment
<1> QED BY <1>1, <1>2, <1>3 DEF SegInv


(* Nothing that the other users have or rely on changes.                   *)
Others(u) ==
  \A v \in Users \ {u} :
    /\ fd'[v] = fd[v] /\ mapped'[v] = mapped[v] /\ segment'[v] = segment[v]
    /\ pc'[v] = pc[v] /\ req'[v] = req[v] /\ actual'[v] = actual[v]
    /\ fd[v] # None => length'[fd[v]] = length[fd[v]]
    /\ mapped[v].obj # None => length'[mapped[v].obj] = length[mapped[v].obj]

(* A step keeps the invariant if it does so for the user that takes it and *)
(* leaves the others alone.                                                *)
LEMMA LocalStep ==
  ASSUME SegInv, NEW u \in Users, TypeOK', Others(u), UserInv(u)',
         pc'[u] = "truncate" => \A v \in Users \ {u} : fd[v] # fd'[u]
  PROVE  SegInv'
<1>1. ASSUME NEW v \in Users \ {u} PROVE UserInv(v)'
  BY <1>1, Frame DEF SegInv, Others
<1>2. OneCreator'
  BY DEF SegInv, OneCreator, Others
<1> QED BY <1>1, <1>2 DEF SegInv

-----------------------------------------------------------------------------
(* One lemma for each system call.                                         *)

(* A call of ipc_mmap starts.                                              *)
LEMMA MmapCallInv ==
  ASSUME SegInv, NEW u \in Users, NEW n \in Names, NEW s \in Sizes,
         MmapCall(u, n, s) PROVE SegInv'
<1> USE DEF kernel, Goto, Return, Close, Munmap
<1>1. TypeOK'
  <2>1. pc' \in [Users -> Labels]
    BY SegmentAssumption DEF SegInv, TypeOK, MmapCall, Labels
  <2>2. req' \in [Users -> [name : Names \cup {None}, size : Nat]]
    <3>1. [name |-> n, size |-> s] \in Requests
      BY SegmentAssumption
      DEF SegInv, TypeOK, MmapCall, UserInv, Asking, Maps, Segments,
          NoSegment, Requests
    <3> QED BY <3>1, Nothing DEF SegInv, TypeOK, MmapCall, Requests
  <2> QED BY <2>1, <2>2 DEF SegInv, TypeOK, MmapCall
<1>2. Others(u)
  BY SegmentAssumption DEF SegInv, TypeOK, MmapCall, Others, UserInv
<1>3. UserInv(u)'
  BY SegmentAssumption
  DEF SegInv, TypeOK, MmapCall, UserInv, Described, Asking, Empty, Whole,
      NoMap, NoSegment, NoReq
<1> QED BY <1>1, <1>2, <1>3, LocalStep DEF MmapCall, SegInv, TypeOK

(* fstat, by the creator.                                                  *)
LEMMA StatNewInv ==
  ASSUME SegInv, NEW u \in Users, StatNew(u) PROVE SegInv'
<1> USE DEF kernel, Goto, Return, Close, Munmap
<1>1. TypeOK'
  <2>1. pc' \in [Users -> Labels]
    BY SegmentAssumption DEF SegInv, TypeOK, StatNew, Labels
  <2>2. actual' \in [Users -> Nat]
    BY SegmentAssumption DEF SegInv, TypeOK, StatNew, UserInv
  <2>3. fd' \in [Users -> Objects \cup {None}]
    BY SegmentAssumption DEF SegInv, TypeOK, StatNew, UserInv, Asking
  <2>4. req' \in [Users -> [name : Names \cup {None}, size : Nat]]
    BY Nothing DEF SegInv, TypeOK, StatNew, Requests
  <2> QED BY <2>1, <2>2, <2>3, <2>4 DEF SegInv, TypeOK, StatNew
<1>2. Others(u)
  BY SegmentAssumption DEF SegInv, TypeOK, StatNew, Others, UserInv
<1>3. UserInv(u)'
  BY SegmentAssumption
  DEF SegInv, TypeOK, StatNew, UserInv, Described, Asking, Empty, Whole,
      NoMap, NoSegment, NoReq
<1> QED BY <1>1, <1>2, <1>3, LocalStep DEF StatNew, SegInv, TypeOK

(* shm_open of an existing name.                                           *)
LEMMA ShmOpenInv ==
  ASSUME SegInv, NEW u \in Users, ShmOpen(u) PROVE SegInv'
<1> USE DEF kernel, Goto, Return, Close, Munmap
<1>1. TypeOK'
  <2>1. pc' \in [Users -> Labels]
    BY SegmentAssumption DEF SegInv, TypeOK, ShmOpen, Labels
  <2>2. actual' \in [Users -> Nat]
    BY SegmentAssumption DEF SegInv, TypeOK, ShmOpen, UserInv
  <2>3. fd' \in [Users -> Objects \cup {None}]
    <3>1. bound[req[u].name] \in Objects \cup {None}
      BY SegmentAssumption
      DEF SegInv, TypeOK, ShmOpen, UserInv, Asking, Maps, Segments,
          NoSegment, Requests
    <3> QED BY <3>1, Nothing DEF SegInv, TypeOK, ShmOpen, UserInv, Asking
  <2>4. req' \in [Users -> [name : Names \cup {None}, size : Nat]]
    BY Nothing DEF SegInv, TypeOK, ShmOpen, Requests
  <2> QED BY <2>1, <2>2, <2>3, <2>4 DEF SegInv, TypeOK, ShmOpen
<1>2. Others(u)
  BY SegmentAssumption DEF SegInv, TypeOK, ShmOpen, Others, UserInv
<1>3. UserInv(u)'
  BY SegmentAssumption
  DEF SegInv, TypeOK, ShmOpen, UserInv, Described, Asking, Empty, Whole,
      NoMap, NoSegment, NoReq
<1> QED BY <1>1, <1>2, <1>3, LocalStep DEF ShmOpen, SegInv, TypeOK

(* fstat, by a process that joins.                                         *)
LEMMA StatOldInv ==
  ASSUME SegInv, NEW u \in Users, StatOld(u) PROVE SegInv'
<1> USE DEF kernel, Goto, Return, Close, Munmap
<1>1. TypeOK'
  <2>1. pc' \in [Users -> Labels]
    BY SegmentAssumption DEF SegInv, TypeOK, StatOld, Labels
  <2>2. actual' \in [Users -> Nat]
    BY SegmentAssumption DEF SegInv, TypeOK, StatOld, UserInv
  <2>3. fd' \in [Users -> Objects \cup {None}]
    BY SegmentAssumption DEF SegInv, TypeOK, StatOld, UserInv, Asking
  <2>4. req' \in [Users -> [name : Names \cup {None}, size : Nat]]
    BY Nothing DEF SegInv, TypeOK, StatOld, Requests
  <2> QED BY <2>1, <2>2, <2>3, <2>4 DEF SegInv, TypeOK, StatOld
<1>2. Others(u)
  BY SegmentAssumption DEF SegInv, TypeOK, StatOld, Others, UserInv
<1>3. UserInv(u)'
  BY SegmentAssumption
  DEF SegInv, TypeOK, StatOld, UserInv, Described, Asking, Empty, Whole,
      NoMap, NoSegment, NoReq
<1> QED BY <1>1, <1>2, <1>3, LocalStep DEF StatOld, SegInv, TypeOK

(* mmap and close.                                                         *)
LEMMA MmapInv ==
  ASSUME SegInv, NEW u \in Users, Mmap(u) PROVE SegInv'
<1> USE DEF kernel, Goto, Return, Close, Munmap
<1>1. TypeOK'
  <2>1. pc' \in [Users -> Labels]
    BY SegmentAssumption DEF SegInv, TypeOK, Mmap, Labels
  <2>2. actual' \in [Users -> Nat]
    BY SegmentAssumption DEF SegInv, TypeOK, Mmap, UserInv
  <2>3. fd' \in [Users -> Objects \cup {None}]
    BY SegmentAssumption DEF SegInv, TypeOK, Mmap, UserInv, Asking
  <2>4. req' \in [Users -> [name : Names \cup {None}, size : Nat]]
    BY Nothing DEF SegInv, TypeOK, Mmap, Requests
  <2>5. mapped' \in [Users -> [obj : Objects \cup {None}, size : Nat]]
    <3>1. [obj |-> fd[u], size |-> actual[u]] \in Maps
      BY SegmentAssumption
      DEF SegInv, TypeOK, Mmap, UserInv, Asking, Maps, Segments,
          NoSegment, Requests
    <3> QED BY <3>1, Nothing DEF SegInv, TypeOK, Mmap, Maps
  <2> QED BY <2>1, <2>2, <2>3, <2>4, <2>5 DEF SegInv, TypeOK, Mmap
<1>2. Others(u)
  BY SegmentAssumption DEF SegInv, TypeOK, Mmap, Others, UserInv
<1>3. UserInv(u)'
  BY SegmentAssumption
  DEF SegInv, TypeOK, Mmap, UserInv, Described, Asking, Empty, Whole,
      NoMap, NoSegment, NoReq
<1> QED BY <1>1, <1>2, <1>3, LocalStep DEF Mmap, SegInv, TypeOK

(* The segment is allocated, or the mapping undone.                        *)
LEMMA AllocateInv ==
  ASSUME SegInv, NEW u \in Users, Allocate(u) PROVE SegInv'
<1> USE DEF kernel, Goto, Return, Close, Munmap
<1>1. TypeOK'
  <2>1. pc' \in [Users -> Labels]
    BY SegmentAssumption DEF SegInv, TypeOK, Allocate, Labels
  <2>2. actual' \in [Users -> Nat]
    BY SegmentAssumption DEF SegInv, TypeOK, Allocate, UserInv
  <2>3. req' \in [Users -> [name : Names \cup {None}, size : Nat]]
    BY Nothing DEF SegInv, TypeOK, Allocate, Requests
  <2>4. mapped' \in [Users -> [obj : Objects \cup {None}, size : Nat]]
    BY Nothing DEF SegInv, TypeOK, Allocate, Maps
  <2>5. segment' \in [Users -> [name : Names \cup {None},
                              memory : Objects \cup {None}, size : Nat]]
    <3>1. [name |-> req[u].name, memory |-> mapped[u].obj,
            size |-> actual[u]] \in Segments
      BY SegmentAssumption
      DEF SegInv, TypeOK, Allocate, UserInv, Asking, Maps, Segments,
          NoSegment, Requests
    <3> QED BY <3>1, Nothing DEF SegInv, TypeOK, Allocate, Segments
  <2> QED BY <2>1, <2>2, <2>3, <2>4, <2>5 DEF SegInv, TypeOK, Allocate
<1>2. Others(u)
  BY SegmentAssumption DEF SegInv, TypeOK, Allocate, Others, UserInv
<1>3. UserInv(u)'
  BY SegmentAssumption
  DEF SegInv, TypeOK, Allocate, UserInv, Described, Asking, Empty, Whole,
      NoMap, NoSegment, NoReq
<1> QED BY <1>1, <1>2, <1>3, LocalStep DEF Allocate, SegInv, TypeOK

(* munmap, by ipc_unmap or ipc_unlink.                                     *)
LEMMA UnmapInv ==
  ASSUME SegInv, NEW u \in Users, pc[u] \in {"idle", "unmap"}, Unmap(u) PROVE SegInv'
<1> USE DEF kernel, Goto, Return, Close, Munmap
<1>1. TypeOK'
  <2>1. pc' \in [Users -> Labels]
    BY SegmentAssumption DEF SegInv, TypeOK, Unmap, Labels
  <2>2. actual' \in [Users -> Nat]
    BY SegmentAssumption DEF SegInv, TypeOK, Unmap, UserInv
  <2>3. req' \in [Users -> [name : Names \cup {None}, size : Nat]]
    BY Nothing DEF SegInv, TypeOK, Unmap, Requests
  <2>4. mapped' \in [Users -> [obj : Objects \cup {None}, size : Nat]]
    BY Nothing DEF SegInv, TypeOK, Unmap, Maps
  <2>5. segment' \in [Users -> [name : Names \cup {None},
                              memory : Objects \cup {None}, size : Nat]]
    BY Nothing DEF SegInv, TypeOK, Unmap, Segments
  <2> QED BY <2>1, <2>2, <2>3, <2>4, <2>5 DEF SegInv, TypeOK, Unmap
<1>2. Others(u)
  BY SegmentAssumption DEF SegInv, TypeOK, Unmap, Others, UserInv
<1>3. UserInv(u)'
  BY SegmentAssumption
  DEF SegInv, TypeOK, Unmap, UserInv, Described, Asking, Empty, Whole,
      NoMap, NoSegment, NoReq
<1> QED BY <1>1, <1>2, <1>3, LocalStep DEF Unmap, SegInv, TypeOK

(* The name is taken away, or ipc_unlink ends.                             *)
LEMMA UnlinkCallInv ==
  ASSUME SegInv, NEW u \in Users, UnlinkCall(u) PROVE SegInv'
<1> USE DEF kernel, Goto, Return, Close, Munmap
<1>1. TypeOK'
  <2>1. pc' \in [Users -> Labels]
    BY SegmentAssumption DEF SegInv, TypeOK, UnlinkCall, Labels
  <2>2. actual' \in [Users -> Nat]
    BY SegmentAssumption DEF SegInv, TypeOK, UnlinkCall, UserInv
  <2>3. req' \in [Users -> [name : Names \cup {None}, size : Nat]]
    BY Nothing DEF SegInv, TypeOK, UnlinkCall, Requests
  <2>4. bound' \in [Names -> Objects \cup {None}]
    BY SegmentAssumption DEF SegInv, TypeOK, UnlinkCall, UserInv
  <2> QED BY <2>1, <2>2, <2>3, <2>4 DEF SegInv, TypeOK, UnlinkCall
<1>2. Others(u)
  BY SegmentAssumption DEF SegInv, TypeOK, UnlinkCall, Others, UserInv
<1>3. UserInv(u)'
  BY SegmentAssumption
  DEF SegInv, TypeOK, UnlinkCall, UserInv, Described, Asking, Empty, Whole,
      NoMap, NoSegment, NoReq
<1> QED BY <1>1, <1>2, <1>3, LocalStep DEF UnlinkCall, SegInv, TypeOK

(* The user dies.                                                          *)
LEMMA CrashInv ==
  ASSUME SegInv, NEW u \in Users, Crash(u) PROVE SegInv'
<1> USE DEF kernel, Goto, Return, Close, Munmap
<1>1. TypeOK'
  <2>1. pc' \in [Users -> Labels]
    BY SegmentAssumption DEF SegInv, TypeOK, Crash, Labels
  <2>2. actual' \in [Users -> Nat]
    BY SegmentAssumption DEF SegInv, TypeOK, Crash, UserInv
  <2>3. fd' \in [Users -> Objects \cup {None}]
    BY SegmentAssumption DEF SegInv, TypeOK, Crash, UserInv, Asking
  <2>4. req' \in [Users -> [name : Names \cup {None}, size : Nat]]
    BY Nothing DEF SegInv, TypeOK, Crash, Requests
  <2>5. mapped' \in [Users -> [obj : Objects \cup {None}, size : Nat]]
    BY Nothing DEF SegInv, TypeOK, Crash, Maps
  <2>6. segment' \in [Users -> [name : Names \cup {None},
                              memory : Objects \cup {None}, size : Nat]]
    BY Nothing DEF SegInv, TypeOK, Crash, Segments
  <2> QED BY <2>1, <2>2, <2>3, <2>4, <2>5, <2>6 DEF SegInv, TypeOK, Crash
<1>2. Others(u)
  BY SegmentAssumption DEF SegInv, TypeOK, Crash, Others, UserInv
<1>3. UserInv(u)'
  BY SegmentAssumption
  DEF SegInv, TypeOK, Crash, UserInv, Described, Asking, Empty, Whole,
      NoMap, NoSegment, NoReq
<1> QED BY <1>1, <1>2, <1>3, LocalStep DEF Crash, SegInv, TypeOK

(* A name is bound to an object that nobody has.                           *)
LEMMA NewObjectInv ==
  ASSUME SegInv, NEW u \in Users, pc[u] = "create", NewObject(u),
         UNCHANGED <<mapped, segment>>
  PROVE  SegInv'
<1> USE DEF Goto
<1>1. PICK o \in Objects :
        /\ ~InUse(o)
        /\ bound' = [bound EXCEPT ![req[u].name] = o]
        /\ length' = [length EXCEPT ![o] = 0]
        /\ fd' = [fd EXCEPT ![u] = o]
  BY DEF NewObject
<1>2. pc' = [pc EXCEPT ![u] = "truncate"] /\ UNCHANGED <<mapped, segment, req, actual>>
  BY DEF NewObject
<1>3. \A v \in Users : fd[v] # o /\ mapped[v].obj # o
  BY <1>1 DEF InUse
<1>4. TypeOK'
  BY <1>1, <1>2 DEF SegInv, TypeOK, Labels
<1>5. Others(u)
  BY <1>1, <1>2, <1>3 DEF SegInv, TypeOK, Others
<1>6. UserInv(u)'
  BY <1>1, <1>2, SegmentAssumption DEF SegInv, TypeOK, UserInv, Asking, Empty, Whole
<1> QED BY <1>1, <1>2, <1>3, <1>4, <1>5, <1>6, LocalStep DEF SegInv, TypeOK

(* shm_open with O_CREAT | O_EXCL.                                         *)
LEMMA ShmCreateInv ==
  ASSUME SegInv, NEW u \in Users, ShmCreate(u) PROVE SegInv'
<1> USE DEF kernel, Goto, Return
<1>1. CASE NewObject(u)
  BY <1>1, NewObjectInv DEF ShmCreate
<1>2. CASE ~NewObject(u)
  <2>1. pc' \in [Users -> Labels]
    BY <1>2 DEF SegInv, TypeOK, ShmCreate, Labels
  <2>2. actual' \in [Users -> Nat]
    BY <1>2 DEF SegInv, TypeOK, ShmCreate
  <2>3. req' \in [Users -> Requests]
    BY <1>2, Nothing DEF SegInv, TypeOK, ShmCreate, Requests
  <2>4. TypeOK'
    BY <1>2, <2>1, <2>2, <2>3 DEF SegInv, TypeOK, ShmCreate, Requests
  <2>5. Others(u)
    BY <1>2 DEF SegInv, TypeOK, ShmCreate, Others
  <2>6. UserInv(u)'
    BY <1>2
    DEF SegInv, TypeOK, ShmCreate, UserInv, Described, Asking, Empty, Whole,
        NoMap, NoSegment
  <2> QED BY <1>2, <2>4, <2>5, <2>6, LocalStep DEF ShmCreate, SegInv, TypeOK
<1> QED BY <1>1, <1>2

(* ftruncate gives a length to an object that nobody else has mapped or is *)
(* about to map, and leaves alone those that have one.                     *)
LEMMA TruncateInv ==
  ASSUME SegInv, NEW u \in Users, Truncate(u) PROVE SegInv'
<1> USE DEF Goto, Return, Close
<1>1. CASE length' = length
  <2>1. pc' \in [Users -> Labels] /\ fd' \in [Users -> Objects \cup {None}]
    BY <1>1 DEF SegInv, TypeOK, Truncate, Labels
  <2>2. actual' \in [Users -> Nat]
    BY <1>1 DEF SegInv, TypeOK, Truncate
  <2>3. req' \in [Users -> Requests]
    BY <1>1, Nothing DEF SegInv, TypeOK, Truncate, Requests
  <2>4. Stored(req[u].size) \in Nat \ {0} /\ fd[u] \in Objects /\ length[fd[u]] = 0
    BY StoredPositive DEF SegInv, TypeOK, Truncate, UserInv, Asking
  <2>5. /\ pc' = [pc EXCEPT ![u] = "idle"] /\ fd' = [fd EXCEPT ![u] = None]
    BY <1>1, <2>4 DEF SegInv, TypeOK, Truncate
  <2>6. TypeOK'
    BY <1>1, <2>1, <2>2, <2>3 DEF SegInv, TypeOK, Truncate, Requests
  <2>7. Others(u)
    BY <1>1 DEF SegInv, TypeOK, Truncate, Others
  <2>8. UserInv(u)'
    BY <1>1, <2>5
    DEF SegInv, TypeOK, Truncate, UserInv, Described, Asking, Whole, NoMap, NoSegment
  <2> QED BY <2>5, <2>6, <2>7, <2>8, LocalStep DEF SegInv, TypeOK
<1>2. CASE length' # length
  <2> DEFINE s == Stored(req[u].size)
  <2>1. s \in Nat \ {0} /\ fd[u] \in Objects /\ length[fd[u]] = 0
    BY StoredPositive DEF SegInv, TypeOK, Truncate, UserInv, Asking
  <2>2. /\ length' = [length EXCEPT ![fd[u]] = s]
        /\ pc' = [pc EXCEPT ![u] = "stat_new"]
        /\ UNCHANGED <<bound, fd, mapped, segment, req, actual>>
    BY <1>2 DEF Truncate
  <2> HIDE DEF s
  <2>3. TypeOK'
    BY <2>1, <2>2 DEF SegInv, TypeOK, Labels
  <2>4. UserInv(u)'
    BY <2>1, <2>2 DEF SegInv, TypeOK, Truncate, UserInv, Asking, Whole
  <2>5. ASSUME NEW v \in Users \ {u} PROVE UserInv(v)'
    BY <2>1, <2>2, <2>5 DEF SegInv, OneCreator, TypeOK, Truncate, UserInv, Whole,
       Asking, Described, Empty
  <2>6. OneCreator'
    BY <2>2 DEF SegInv, TypeOK, OneCreator
  <2> QED BY <2>3, <2>4, <2>5, <2>6 DEF SegInv
<1> QED BY <1>1, <1>2

-----------------------------------------------------------------------------
(* Every step keeps the invariant.                                         *)
LEMMA NextInv == SegInv /\ [Next]_vars => SegInv'
<1> SUFFICES ASSUME SegInv, [Next]_vars PROVE SegInv'
  OBVIOUS
<1>1. CASE UNCHANGED vars
  BY <1>1
  DEF vars, SegInv, TypeOK, OneCreator, UserInv, Described, Asking, Empty, Whole
<1>2. ASSUME NEW u \in Users, NEW n \in Names, NEW s \in Sizes, MmapCall(u, n, s)
      PROVE  SegInv'
  BY <1>2, MmapCallInv
<1>3. ASSUME NEW u \in Users, Step(u) PROVE SegInv'
  <2>1. CASE ShmCreate(u)
    BY <2>1, ShmCreateInv
  <2>2. CASE Truncate(u)
    BY <2>2, TruncateInv
  <2>3. CASE StatNew(u)
    BY <2>3, StatNewInv
  <2>4. CASE ShmOpen(u)
    BY <2>4, ShmOpenInv
  <2>5. CASE StatOld(u)
    BY <2>5, StatOldInv
  <2>6. CASE Mmap(u)
    BY <2>6, MmapInv
  <2>7. CASE Allocate(u)
    BY <2>7, AllocateInv
  <2>8. CASE UnlinkUnmap(u)
    BY <2>8, UnmapInv DEF UnlinkUnmap
  <2> QED
    BY <1>3, <2>1, <2>2, <2>3, <2>4, <2>5, <2>6, <2>7, <2>8 DEF Step
<1>4. ASSUME NEW u \in Users, UnmapCall(u) PROVE SegInv'
  BY <1>4, UnmapInv DEF UnmapCall
<1>5. ASSUME NEW u \in Users, UnlinkCall(u) PROVE SegInv'
  BY <1>5, UnlinkCallInv
<1>6. ASSUME NEW u \in Users, Crash(u) PROVE SegInv'
  BY <1>6, CrashInv
<1> QED BY <1>1, <1>2, <1>3, <1>4, <1>5, <1>6 DEF Next

LEMMA Invariance == Spec => []SegInv
<1> QED BY InitInv, NextInv, PTL DEF Spec

(* Every variable has its type (the locals and results of ipc_mmap.c).     *)
THEOREM TypeCorrect == Spec => []TypeOK
<1>1. SegInv => TypeOK
  BY DEF SegInv
<1> QED BY <1>1, Invariance, PTL

(* What a process has mapped is the whole of the object, in spite of the   *)
(* other processes that create, truncate, join and unlink it.              *)
THEOREM MapsWhole == Spec => []MappedWhole
<1>1. SegInv => MappedWhole
  BY DEF SegInv, UserInv, Whole, MappedWhole
<1> QED BY <1>1, Invariance, PTL

(* Whichever way a call ends, its caller has no descriptor left and the    *)
(* mapping that its segment describes.                                     *)
THEOREM LeaksNothing == Spec => []NoLeak
<1>1. SegInv => NoLeak
  BY DEF SegInv, UserInv, Described, NoLeak
<1> QED BY <1>1, Invariance, PTL

-----------------------------------------------------------------------------
(* A name whose object was abandoned before ftruncate.                     *)

(* Outside its calls, and in those that have not got the object open, a    *)
(* user has nothing of an abandoned object.                                *)
LEMMA LostStep ==
  ASSUME SegInv, SegInv', [Next]_vars, NEW n \in Names, Lost(n) PROVE Lost(n)'
<1> USE DEF kernel, Goto, Return, Close, Munmap
<1> DEFINE o == bound[n]
<1>1. o \in Objects /\ length[o] = 0
  BY DEF Lost, Abandoned, SegInv, TypeOK
<1>2. \A v \in Users : segment[v].name # n /\ ~(pc[v] = "truncate" /\ fd[v] = o)
  BY DEF Lost, Abandoned
<1>3. CASE UNCHANGED vars
  BY <1>3 DEF vars, Lost, Abandoned
<1>4. ASSUME NEW u \in Users,
             \/ \E m \in Names, s \in Sizes : MmapCall(u, m, s)
             \/ Step(u) \/ UnmapCall(u) \/ UnlinkCall(u) \/ Crash(u)
      PROVE  Lost(n)'
  <2>1. bound'[n] = o
    BY <1>1, <1>2, <1>4
    DEF Lost, Abandoned, SegInv, TypeOK, UserInv, Asking, NewObject,
        MmapCall, Step, ShmCreate, Truncate, StatNew, ShmOpen, StatOld, Mmap,
        Allocate, UnlinkUnmap, Unmap, UnmapCall, UnlinkCall, Crash
  <2>2. length'[o] = 0
    BY <1>1, <1>2, <1>4
    DEF SegInv, TypeOK, UserInv, Asking, NewObject, InUse,
        MmapCall, Step, ShmCreate, Truncate, StatNew, ShmOpen, StatOld, Mmap,
        Allocate, UnlinkUnmap, Unmap, UnmapCall, UnlinkCall, Crash
  <2>3. \A v \in Users \ {u} :
          /\ segment'[v] = segment[v] /\ req'[v] = req[v]
          /\ pc'[v] = pc[v] /\ fd'[v] = fd[v]
    BY <1>4
    DEF SegInv, TypeOK, NewObject,
        MmapCall, Step, ShmCreate, Truncate, StatNew, ShmOpen, StatOld, Mmap,
        Allocate, UnlinkUnmap, Unmap, UnmapCall, UnlinkCall, Crash
  <2>4. ~(pc'[u] = "truncate" /\ fd'[u] = o)
    BY <1>1, <1>2, <1>4
    DEF SegInv, TypeOK, NewObject, InUse,
        MmapCall, Step, ShmCreate, Truncate, StatNew, ShmOpen, StatOld, Mmap,
        Allocate, UnlinkUnmap, Unmap, UnmapCall, UnlinkCall, Crash
  <2>5. segment'[u].name # n
    BY <1>2, <1>4, SegmentAssumption
    DEF Lost, SegInv, TypeOK, NoSegment, NewObject,
        MmapCall, Step, ShmCreate, Truncate, StatNew, ShmOpen, StatOld, Mmap,
        Allocate, UnlinkUnmap, Unmap, UnmapCall, UnlinkCall, Crash
  <2>6. req'[u].name = n => /\ pc'[u] \in {"create", "open", "stat_old"}
                            /\ fd'[u] \in {None, o}
    BY <1>1, <1>2, <1>4, SegmentAssumption
    DEF Lost, SegInv, TypeOK, UserInv, Asking, Empty, NoReq, NewObject, InUse,
        MmapCall, Step, ShmCreate, Truncate, StatNew, ShmOpen, StatOld, Mmap,
        Allocate, UnlinkUnmap, Unmap, UnmapCall, UnlinkCall, Crash
  <2> QED
    BY <1>1, <1>2, <2>1, <2>2, <2>3, <2>4, <2>5, <2>6, SegmentAssumption
    DEF Lost, Abandoned
<1> QED BY <1>3, <1>4 DEF Next

(* No sequence of calls and crashes brings such a name back to use.        *)
THEOREM StaysLost == Spec => LostStays
<1>1. SegInv /\ SegInv' /\ [Next]_vars => [\A n \in Names : Lost(n) => Lost(n)']_vars
  BY LostStep
<1> QED BY <1>1, Invariance, PTL DEF Spec, LostStays

-----------------------------------------------------------------------------
(* The refinement: every system call is a step of SharedMemory, or changes *)
(* nothing that the users share.                                           *)

Hold == [u \in Users |-> IF fd[u] # None THEN fd[u] ELSE mapped[u].obj]
Given == [u \in Users |-> segment[u].size]

Alone(u) ==
  \A v \in Users \ {u} :
    /\ fd'[v] = fd[v] /\ mapped'[v] = mapped[v] /\ segment'[v] = segment[v]

(* Each step of a user touches that user and what nobody else relies on.   *)
LEMMA StepOthers ==
  ASSUME SegInv, NEW u \in Users,
         \/ \E n \in Names, s \in Sizes : MmapCall(u, n, s)
         \/ Step(u) \/ UnmapCall(u) \/ UnlinkCall(u) \/ Crash(u)
  PROVE  Alone(u)
BY DEF Alone, SegInv, TypeOK, NewObject, Step, ShmCreate, Truncate, StatNew, ShmOpen,
       StatOld, Mmap, Allocate, UnlinkUnmap, Unmap, MmapCall, UnmapCall,
       UnlinkCall, Crash, Goto, Return, Close, Munmap, kernel

(* How what the users hold changes with one of them.                       *)
LEMMA HoldOf ==
  ASSUME NEW u \in Users, Alone(u), NEW h, h = IF fd'[u] # None THEN fd'[u] ELSE mapped'[u].obj
  PROVE  /\ Hold' = [Hold EXCEPT ![u] = h]
         /\ Given' = [Given EXCEPT ![u] = segment'[u].size]
<1>1. Hold' = [Hold EXCEPT ![u] = h]
  BY DEF Hold, Alone
<1>2. Given' = [Given EXCEPT ![u] = segment'[u].size]
  BY DEF Given, Alone
<1> QED BY <1>1, <1>2

(* A user that holds nothing: what SharedMemory says of it.                *)
LEMMA HeldBy ==
  ASSUME SegInv, NEW u \in Users
  PROVE  /\ Hold[u] = IF fd[u] # None THEN fd[u] ELSE mapped[u].obj
         /\ Given[u] = segment[u].size
         /\ \A o \in Objects : Shared!InUse(o) => InUse(o)
BY DEF Hold, Given, Shared!InUse, InUse

(* A failing call and a death leave the memory.                            *)
LEMMA LeaveStep ==
  ASSUME SegInv, NEW u \in Users, Alone(u), UNCHANGED kernel,
         fd'[u] = None, mapped'[u] = NoMap, segment'[u] = NoSegment
  PROVE  Shared!Leave(u)
<1>1. Hold' = [Hold EXCEPT ![u] = None] /\ Given' = [Given EXCEPT ![u] = 0]
  BY HoldOf DEF NoMap, NoSegment
<1> QED BY <1>1 DEF Shared!Leave, Hold, Given, kernel

(* A step that touches neither is none.                                    *)
LEMMA StutterStep ==
  ASSUME SegInv, NEW u \in Users, Alone(u), UNCHANGED <<bound, length>>,
         segment'[u] = segment[u],
         (IF fd'[u] # None THEN fd'[u] ELSE mapped'[u].obj)
           = (IF fd[u] # None THEN fd[u] ELSE mapped[u].obj)
  PROVE  UNCHANGED Shared!vars
<1>1. Hold' = Hold /\ Given' = Given
  BY DEF Hold, Given, Alone
<1> QED BY <1>1 DEF Shared!vars, Hold, Given

LEMMA InitShared == Init => Shared!Init
<1> SUFFICES ASSUME Init PROVE Shared!Init
  OBVIOUS
<1>1. Hold = [u \in Users |-> None] /\ Given = [u \in Users |-> 0]
  BY DEF Init, Hold, Given, NoMap, NoSegment
<1> QED BY <1>1 DEF Init, Shared!Init, Hold, Given

(* ipc_mmap.                                                               *)
LEMMA CreateShared ==
  ASSUME SegInv, SegInv', NEW u \in Users, Alone(u), ShmCreate(u)
  PROVE  Shared!Next \/ UNCHANGED Shared!vars
<1> USE DEF Goto, Return, kernel
<1>1. CASE NewObject(u)
  <2> DEFINE n == req[u].name
  <2>1. PICK o \in Objects :
          /\ ~InUse(o)
          /\ bound' = [bound EXCEPT ![n] = o]
          /\ length' = [length EXCEPT ![o] = 0]
          /\ fd' = [fd EXCEPT ![u] = o]
    BY <1>1 DEF NewObject
  <2>2. n \in Names /\ bound[n] = None /\ Empty(u) /\ o # None
    BY <1>1, SegmentAssumption DEF NewObject, ShmCreate, SegInv, UserInv, Asking
  <2>3. fd'[u] = o /\ UNCHANGED segment
    BY <1>1, <2>1 DEF NewObject, ShmCreate, SegInv, TypeOK
  <2>4. Hold' = [Hold EXCEPT ![u] = o] /\ Given' = Given
    <3>1. Hold' = [Hold EXCEPT ![u] = o]
      BY HoldOf, <2>2, <2>3
    <3>2. Given' = Given
      BY <2>3 DEF Given
    <3> QED BY <3>1, <3>2
  <2>5. Hold[u] = None
    BY <2>2 DEF Hold, Empty, NoMap
  <2>6. ~Shared!InUse(o)
    BY <2>1, HeldBy
  <2>7. Shared!Create(u, n)
    BY <2>1, <2>2, <2>4, <2>5, <2>6 DEF Shared!Create, Hold, Given
  <2>8. \E m \in Names : Shared!Create(u, m)
    BY <2>2, <2>7 DEF Shared!Create
  <2> QED BY <2>8 DEF Shared!Next
<1>2. CASE ~NewObject(u)
  BY <1>2, StutterStep DEF ShmCreate
<1> QED BY <1>1, <1>2

LEMMA TruncateShared ==
  ASSUME SegInv, SegInv', NEW u \in Users, Alone(u), Truncate(u)
  PROVE  Shared!Next \/ UNCHANGED Shared!vars
<1> USE DEF Goto, Return, kernel, Close
<1> DEFINE s == Stored(req[u].size)
<1>1. /\ s \in Nat \ {0} /\ fd[u] \in Objects /\ length[fd[u]] = 0
      /\ fd[u] # None /\ mapped[u] = NoMap /\ segment[u] = NoSegment
  BY StoredPositive, SegmentAssumption DEF SegInv, TypeOK, Truncate, UserInv, Asking
<1> HIDE DEF s
<1>2. CASE length' = [length EXCEPT ![fd[u]] = s] /\ UNCHANGED fd
  <2>1. Hold' = Hold /\ Given' = Given
    BY <1>2 DEF Truncate, Hold, Given
  <2>2. Hold[u] = fd[u]
    BY <1>1 DEF Hold
  <2>3. length'[fd[u]] = s
    BY <1>1, <1>2 DEF SegInv, TypeOK
  <2>4. Shared!Extend(u)
    BY <1>1, <1>2, <2>1, <2>2, <2>3 DEF Shared!Extend, Truncate, Hold, Given
  <2> QED BY <2>4 DEF Shared!Next
<1>3. CASE length' = length /\ fd' = [fd EXCEPT ![u] = None]
  <2>1. fd'[u] = None /\ mapped'[u] = NoMap /\ segment'[u] = NoSegment
    BY <1>1, <1>3 DEF Truncate, SegInv, TypeOK
  <2>2. Shared!Leave(u)
    BY <1>3, <2>1, LeaveStep DEF Truncate
  <2> QED BY <2>2 DEF Shared!Next
<1> QED BY <1>2, <1>3 DEF Truncate, s

(* fstat, in either kind of process, and the call to mmap: a stutter, or   *)
(* the descriptor is closed and nothing is left.                           *)
LEMMA CallShared ==
  ASSUME SegInv, SegInv', NEW u \in Users, Alone(u),
         StatNew(u) \/ StatOld(u) \/ Mmap(u)
  PROVE  Shared!Next \/ UNCHANGED Shared!vars
<1> USE DEF Goto, Return, kernel, Close
<1>1. /\ fd[u] # None /\ mapped[u] = NoMap /\ segment[u] = NoSegment
      /\ UNCHANGED <<bound, length, segment>>
  BY DEF SegInv, StatNew, StatOld, Mmap, UserInv, Asking
<1>2. CASE fd'[u] = fd[u]
  <2>1. UNCHANGED Shared!vars
    BY <1>1, <1>2, StutterStep
  <2> QED BY <2>1
<1>3. CASE fd'[u] = None /\ mapped'[u] = NoMap
  <2>1. Shared!Leave(u)
    BY <1>1, <1>3, LeaveStep
  <2> QED BY <2>1 DEF Shared!Next
<1>4. CASE fd'[u] = None /\ mapped'[u] = [obj |-> fd[u], size |-> actual[u]]
  <2>1. mapped'[u].obj = fd[u]
    BY <1>4
  <2>2. UNCHANGED Shared!vars
    BY <1>1, <1>4, <2>1, StutterStep
  <2> QED BY <2>2
<1> QED BY <1>1, <1>2, <1>3, <1>4 DEF StatNew, StatOld, Mmap, SegInv, TypeOK

LEMMA OpenShared ==
  ASSUME SegInv, SegInv', NEW u \in Users, Alone(u), ShmOpen(u)
  PROVE  Shared!Next \/ UNCHANGED Shared!vars
<1> USE DEF Goto, Return, kernel
<1> DEFINE n == req[u].name
<1>1. n \in Names /\ Empty(u)
  BY DEF SegInv, ShmOpen, UserInv, Asking
<1>2. CASE fd' = [fd EXCEPT ![u] = bound[n]] /\ bound[n] # None
  <2>1. fd'[u] = bound[n]
    BY <1>2 DEF SegInv, TypeOK
  <2>2. Hold' = [Hold EXCEPT ![u] = bound[n]] /\ Given' = Given
    <3>1. Hold' = [Hold EXCEPT ![u] = bound[n]]
      BY <1>2, <2>1, HoldOf
    <3>2. Given' = Given
      BY DEF ShmOpen, Given
    <3> QED BY <3>1, <3>2
  <2>3. Hold[u] = None
    BY <1>1 DEF Hold, Empty, NoMap
  <2>4. Shared!Open(u, n)
    BY <1>2, <2>2, <2>3 DEF Shared!Open, ShmOpen, Hold, Given
  <2>5. \E m \in Names : Shared!Open(u, m)
    BY <1>1, <2>4 DEF Shared!Open
  <2> QED BY <2>5 DEF Shared!Next
<1>3. CASE UNCHANGED fd
  BY <1>3, StutterStep DEF ShmOpen
<1> QED BY <1>2, <1>3 DEF ShmOpen

(* The caller is given the whole of the object, or nothing.                *)
LEMMA AllocateShared ==
  ASSUME SegInv, SegInv', NEW u \in Users, Alone(u), Allocate(u)
  PROVE  Shared!Next \/ UNCHANGED Shared!vars
<1> USE DEF Goto, Return, kernel, Munmap
<1> DEFINE o == mapped[u].obj
<1>1. /\ fd[u] = None /\ o # None /\ mapped[u] # NoMap /\ segment[u] = NoSegment
      /\ mapped[u].size = actual[u] /\ actual[u] = length[o] /\ actual[u] > 0
  BY SegmentAssumption DEF SegInv, Allocate, UserInv, Asking, Whole, NoMap
<1>2. CASE UNCHANGED mapped
  <2>1. segment'[u].size = length[o]
    BY <1>1, <1>2 DEF Allocate, SegInv, TypeOK, NoMap
  <2>2. Hold' = Hold /\ Given' = [Given EXCEPT ![u] = length[o]]
    <3>1. Hold' = Hold
      BY <1>2 DEF Allocate, Hold
    <3>2. Given' = [Given EXCEPT ![u] = length[o]]
      BY <2>1, HoldOf
    <3> QED BY <3>1, <3>2
  <2>3. Hold[u] = o /\ Given[u] = 0
    BY <1>1 DEF Hold, Given, NoSegment
  <2>4. Shared!Give(u)
    BY <1>1, <2>2, <2>3 DEF Shared!Give, Allocate, Hold, Given
  <2> QED BY <2>4 DEF Shared!Next
<1>3. CASE mapped' = [mapped EXCEPT ![u] = NoMap] /\ UNCHANGED segment
  <2>1. mapped'[u] = NoMap /\ fd'[u] = None
    BY <1>1, <1>3 DEF Allocate, SegInv, TypeOK
  <2>2. Shared!Leave(u)
    BY <1>1, <1>3, <2>1, LeaveStep DEF Allocate
  <2> QED BY <2>2 DEF Shared!Next
<1> QED BY <1>2, <1>3 DEF Allocate

(* ipc_unmap, the end of ipc_unlink, and death.                            *)
LEMMA LeaveShared ==
  ASSUME SegInv, SegInv', NEW u \in Users, Alone(u),
         (pc[u] \in {"idle", "unmap"} /\ Unmap(u)) \/ Crash(u)
  PROVE  Shared!Next \/ UNCHANGED Shared!vars
<1> USE DEF Goto, Return, kernel, Munmap, Close
<1>1. CASE UNCHANGED <<mapped, segment, fd>>
  <2>1. UNCHANGED Shared!vars
    BY <1>1, StutterStep DEF Unmap, Crash
  <2> QED BY <2>1
<1>2. CASE fd'[u] = None /\ mapped'[u] = NoMap /\ segment'[u] = NoSegment
  <2>1. Shared!Leave(u)
    BY <1>2, LeaveStep DEF Unmap, Crash
  <2> QED BY <2>1 DEF Shared!Next
<1> QED BY <1>1, <1>2 DEF SegInv, TypeOK, UserInv, Described, Unmap, Crash

(* Only who was given memory takes its name away.                          *)
LEMMA UnlinkShared ==
  ASSUME SegInv, SegInv', NEW u \in Users, Alone(u), UnlinkCall(u)
  PROVE  Shared!Next \/ UNCHANGED Shared!vars
<1> USE DEF Goto, Return
<1> DEFINE n == segment[u].name
<1>1. segment[u].memory # None /\ n \in Names
  BY DEF SegInv, TypeOK, UnlinkCall, UserInv, Described
<1>2. segment[u].size > 0
  <2>1. Whole(u) /\ Described(u)
    BY DEF SegInv, UnlinkCall, UserInv
  <2>2. mapped[u].obj = segment[u].memory /\ mapped[u].size = segment[u].size
    BY <2>1 DEF Described
  <2>3. mapped[u] # NoMap
    BY <1>1, <2>2 DEF NoMap
  <2> QED BY <2>1, <2>2, <2>3 DEF Whole
<1>3. Hold' = Hold /\ Given' = Given /\ Given[u] > 0
  BY <1>2 DEF UnlinkCall, Hold, Given
<1>4. CASE bound' = [bound EXCEPT ![n] = None]
  <2>1. Shared!Unbind(u, n)
    BY <1>3, <1>4 DEF Shared!Unbind, UnlinkCall, Hold, Given
  <2> QED BY <1>1, <2>1 DEF Shared!Next
<1>5. CASE UNCHANGED bound
  BY <1>5, StutterStep DEF UnlinkCall
<1> QED BY <1>4, <1>5 DEF UnlinkCall

LEMMA NextShared ==
  ASSUME SegInv, SegInv', [Next]_vars PROVE [Shared!Next]_(Shared!vars)
<1>1. CASE UNCHANGED vars
  BY <1>1 DEF vars, Shared!vars
<1>2. ASSUME NEW u \in Users,
             \/ \E n \in Names, s \in Sizes : MmapCall(u, n, s)
             \/ Step(u) \/ UnmapCall(u) \/ UnlinkCall(u) \/ Crash(u)
      PROVE  Shared!Next \/ UNCHANGED Shared!vars
  <2>1. Alone(u)
    BY <1>2, StepOthers
  <2>2. ASSUME NEW n \in Names, NEW s \in Sizes, MmapCall(u, n, s)
        PROVE  UNCHANGED Shared!vars
    BY <2>1, <2>2, StutterStep DEF MmapCall, kernel
  <2>3. CASE Step(u)
    BY <2>1, <2>3, CreateShared, TruncateShared, CallShared, OpenShared,
       AllocateShared, LeaveShared DEF Step, UnlinkUnmap
  <2> QED BY <1>2, <2>1, <2>2, <2>3, LeaveShared, UnlinkShared DEF UnmapCall
<1> QED BY <1>1, <1>2 DEF Next

(* ipc_mmap.c implements SharedMemory, in any interleaving of its system   *)
(* calls, with failures and deaths anywhere.                               *)
THEOREM ImplementsSharedMemory == Spec => SharesMemory
<1>1. SegInv /\ SegInv' /\ [Next]_vars => [Shared!Next]_(Shared!vars)
  BY NextShared
<1> QED BY <1>1, InitShared, Invariance, PTL DEF Spec, SharesMemory, Shared!Spec
=============================================================================
