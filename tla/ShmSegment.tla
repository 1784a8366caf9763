----------------------------- MODULE ShmSegment -----------------------------
(***************************************************************************)
(* core/src/ipc_mmap.c: processes that find shared memory by name.  One    *)
(* action is one system call with the local code up to the next, because   *)
(* the calls of several processes interleave and each of them may fail.    *)
(*                                                                         *)
(* A user is one caller with at most one segment.  The library keeps no    *)
(* table of segments, so a process with several is several users.          *)
(***************************************************************************)
EXTENDS Integers

CONSTANTS
  Users,      \* callers of ipc_mmap, ipc_unmap and ipc_unlink
  Names,      \* the paths they pass
  Objects,    \* identities for the kernel's shared memory objects
  Sizes,      \* the sizes they ask for
  Granule,    \* the unit in which the system allots shared memory
  MayFail,    \* the users whose system calls and allocations may fail
  MayCrash,   \* the users that may die, and start again with nothing
  None        \* no object, no name

ASSUME SegmentAssumption ==
  /\ Sizes \subseteq Nat \ {0}
  /\ Granule \in Nat \ {0}
  /\ None \notin Objects /\ None \notin Names

VARIABLES
  bound,      \* the kernel's name space: the object of each name, or None
  length,     \* the length of each object
  fd,         \* the object each user's descriptor is open on, or None
  mapped,     \* the object in each user's address space, and how much of it
  segment,    \* the IpcMemorySegment each user was given
  pc,         \* where each user is in its call
  req,        \* the path and size of that call
  actual      \* the local actual_size of ipc_mmap

kernel == <<bound, length>>
vars == <<bound, length, fd, mapped, segment, pc, req, actual>>

NoMap == [obj |-> None, size |-> 0]
NoSegment == [name |-> None, memory |-> None, size |-> 0]
NoReq == [name |-> None, size |-> 0]

(* What fstat reports of an object that ftruncate gave s bytes.            *)
Stored(s) == ((s + Granule - 1) \div Granule) * Granule

(* The kernel frees an object that has no name, descriptor or mapping.     *)
InUse(o) ==
  \/ \E n \in Names : bound[n] = o
  \/ \E u \in Users : fd[u] = o \/ mapped[u].obj = o

Init ==
  /\ bound = [n \in Names |-> None]
  /\ length = [o \in Objects |-> 0]
  /\ fd = [u \in Users |-> None]
  /\ mapped = [u \in Users |-> NoMap]
  /\ segment = [u \in Users |-> NoSegment]
  /\ pc = [u \in Users |-> "idle"]
  /\ req = [u \in Users |-> NoReq]
  /\ actual = [u \in Users |-> 0]

Goto(u, label) == pc' = [pc EXCEPT ![u] = label]

(* The end of a call.  Its status is what its caller can see: a segment    *)
(* after ipc_mmap, none after ipc_unmap and ipc_unlink.                    *)
Return(u) ==
  /\ Goto(u, "idle")
  /\ req' = [req EXCEPT ![u] = NoReq]
  /\ actual' = [actual EXCEPT ![u] = 0]

Close(u) == fd' = [fd EXCEPT ![u] = None]

Munmap(u) == mapped' = [mapped EXCEPT ![u] = NoMap]

-----------------------------------------------------------------------------
(* ipc_mmap.  A call without a path or with size 0 is refused at once and  *)
(* changes nothing.                                                        *)

MmapCall(u, n, s) ==
  /\ pc[u] = "idle" /\ segment[u] = NoSegment
  /\ Goto(u, "create")
  /\ req' = [req EXCEPT ![u] = [name |-> n, size |-> s]]
  /\ UNCHANGED <<kernel, fd, mapped, segment, actual>>

(* The name is bound to an object that was not in use, of length 0.        *)
NewObject(u) ==
  LET n == req[u].name IN
  /\ bound[n] = None
  /\ \E o \in Objects :
       /\ ~InUse(o)
       /\ bound' = [bound EXCEPT ![n] = o]
       /\ length' = [length EXCEPT ![o] = 0]
       /\ fd' = [fd EXCEPT ![u] = o]
  /\ Goto(u, "truncate")
  /\ UNCHANGED <<req, actual>>

(* Mutation: a name that exists is an error, not a reason to open it.      *)
ShmCreateOnly(u) ==
  /\ pc[u] = "create"
  /\ \/ NewObject(u)
     \/ /\ bound[req[u].name] # None
        /\ Return(u)
        /\ UNCHANGED <<kernel, fd>>
  /\ UNCHANGED <<mapped, segment>>

(* Mutation: shm_open without O_EXCL: an existing object is opened too.    *)
ShmCreateShared(u) ==
  /\ pc[u] = "create"
  /\ \/ NewObject(u)
     \/ /\ bound[req[u].name] # None
        /\ fd' = [fd EXCEPT ![u] = bound[req[u].name]]
        /\ Goto(u, "truncate")
        /\ UNCHANGED <<kernel, req, actual>>
  /\ UNCHANGED <<mapped, segment>>

(* shm_open with O_CREAT | O_EXCL: a new object, EEXIST, or another error. *)
ShmCreate(u) ==
  /\ pc[u] = "create"
  /\ \/ NewObject(u)
     \/ /\ bound[req[u].name] # None
        /\ Goto(u, "open")
        /\ UNCHANGED <<kernel, fd, req, actual>>
     \/ /\ u \in MayFail
        /\ Return(u)
        /\ UNCHANGED <<kernel, fd>>
  /\ UNCHANGED <<mapped, segment>>

(* ftruncate: if it fails, the name stays bound to an object of length 0.  *)
Truncate(u) ==
  /\ pc[u] = "truncate"
  /\ \/ /\ length' = [length EXCEPT ![fd[u]] = Stored(req[u].size)]
        /\ Goto(u, "stat_new")
        /\ UNCHANGED <<fd, req, actual>>
     \/ /\ u \in MayFail
        /\ Close(u)
        /\ Return(u)
        /\ UNCHANGED length
  /\ UNCHANGED <<bound, mapped, segment>>

(* fstat in the process that created the object: its length is taken as    *)
(* it is, whatever was asked for.                                          *)
StatNew(u) ==
  /\ pc[u] = "stat_new"
  /\ \/ /\ actual' = [actual EXCEPT ![u] = length[fd[u]]]
        /\ Goto(u, "map")
        /\ UNCHANGED <<fd, req>>
     \/ /\ u \in MayFail
        /\ Close(u)
        /\ Return(u)
  /\ UNCHANGED <<kernel, mapped, segment>>

(* shm_open of the name that existed a moment ago; it may be gone again.   *)
ShmOpen(u) ==
  LET n == req[u].name IN
  /\ pc[u] = "open"
  /\ \/ /\ bound[n] # None
        /\ fd' = [fd EXCEPT ![u] = bound[n]]
        /\ Goto(u, "stat_old")
        /\ UNCHANGED <<req, actual>>
     \/ /\ bound[n] = None \/ u \in MayFail
        /\ Return(u)
        /\ UNCHANGED fd
  /\ UNCHANGED <<kernel, mapped, segment>>

(* Mutation: the size asked for is taken for the size of the object.       *)
StatOldTrusting(u) ==
  /\ pc[u] = "stat_old"
  /\ actual' = [actual EXCEPT ![u] = req[u].size]
  /\ Goto(u, "map")
  /\ UNCHANGED <<kernel, fd, mapped, segment, req>>

(* fstat in a process that joins: the object must have the size asked for. *)
StatOld(u) ==
  /\ pc[u] = "stat_old"
  /\ \/ /\ length[fd[u]] = req[u].size
        /\ actual' = [actual EXCEPT ![u] = length[fd[u]]]
        /\ Goto(u, "map")
        /\ UNCHANGED <<fd, req>>
     \/ /\ length[fd[u]] # req[u].size
        /\ Close(u)
        /\ Return(u)
     \/ /\ u \in MayFail
        /\ Close(u)
        /\ Return(u)
  /\ UNCHANGED <<kernel, mapped, segment>>

(* mmap, and close whether or not it worked.                               *)
Mmap(u) ==
  /\ pc[u] = "map"
  /\ Close(u)
  /\ \/ /\ mapped' = [mapped EXCEPT ![u] = [obj |-> fd[u], size |-> actual[u]]]
        /\ Goto(u, "alloc")
        /\ UNCHANGED <<req, actual>>
     \/ /\ u \in MayFail
        /\ Return(u)
        /\ UNCHANGED mapped
  /\ UNCHANGED <<kernel, segment>>

(* Mutation: the segment records the size asked for.                       *)
AllocateRequested(u) ==
  /\ pc[u] = "alloc"
  /\ segment' = [segment EXCEPT ![u] = [name |-> req[u].name,
                                        memory |-> mapped[u].obj,
                                        size |-> req[u].size]]
  /\ Return(u)
  /\ UNCHANGED <<kernel, fd, mapped>>

(* The two allocations of the segment; without them the mapping is undone. *)
Allocate(u) ==
  /\ pc[u] = "alloc"
  /\ \/ /\ segment' = [segment EXCEPT ![u] = [name |-> req[u].name,
                                              memory |-> mapped[u].obj,
                                              size |-> actual[u]]]
        /\ Return(u)
        /\ UNCHANGED mapped
     \/ /\ u \in MayFail
        /\ Munmap(u)
        /\ Return(u)
        /\ UNCHANGED segment
  /\ UNCHANGED <<kernel, fd>>

-----------------------------------------------------------------------------
(* ipc_unmap and ipc_unlink, of a segment that ipc_mmap returned           *)

(* munmap; a segment whose unmapping fails stays with the caller.          *)
Unmap(u) ==
  /\ \/ /\ Munmap(u)
        /\ segment' = [segment EXCEPT ![u] = NoSegment]
        /\ Return(u)
     \/ /\ u \in MayFail
        /\ Return(u)
        /\ UNCHANGED <<mapped, segment>>
  /\ UNCHANGED <<kernel, fd>>

UnmapCall(u) ==
  /\ pc[u] = "idle" /\ segment[u] # NoSegment
  /\ Unmap(u)

(* Mutation: ipc_unlink also frees the segment when the name is gone.      *)
UnlinkCallFrees(u) ==
  /\ pc[u] = "idle" /\ segment[u] # NoSegment
  /\ \/ /\ bound[segment[u].name] # None
        /\ bound' = [bound EXCEPT ![segment[u].name] = None]
        /\ Goto(u, "unmap")
        /\ UNCHANGED <<segment, req, actual>>
     \/ /\ bound[segment[u].name] = None
        /\ segment' = [segment EXCEPT ![u] = NoSegment]
        /\ Return(u)
        /\ UNCHANGED bound
  /\ UNCHANGED <<length, fd, mapped>>

(* shm_unlink: whatever object the name is bound to now loses it.  If the  *)
(* name is gone, the segment stays mapped and with the caller.             *)
UnlinkCall(u) ==
  /\ pc[u] = "idle" /\ segment[u] # NoSegment
  /\ \/ /\ bound[segment[u].name] # None
        /\ bound' = [bound EXCEPT ![segment[u].name] = None]
        /\ Goto(u, "unmap")
        /\ UNCHANGED <<req, actual>>
     \/ /\ bound[segment[u].name] = None \/ u \in MayFail
        /\ Return(u)
        /\ UNCHANGED bound
  /\ UNCHANGED <<length, fd, mapped, segment>>

UnlinkUnmap(u) == pc[u] = "unmap" /\ Unmap(u)

(* The process dies; the system closes and unmaps what it had, and the     *)
(* names stay.  It may start again.                                        *)
Crash(u) ==
  /\ u \in MayCrash
  /\ pc[u] # "idle" \/ segment[u] # NoSegment \/ mapped[u] # NoMap
  /\ Close(u)
  /\ Munmap(u)
  /\ segment' = [segment EXCEPT ![u] = NoSegment]
  /\ Return(u)
  /\ UNCHANGED kernel

-----------------------------------------------------------------------------
(* A step inside a call that has started.                                  *)
Step(u) ==
  \/ ShmCreate(u) \/ Truncate(u) \/ StatNew(u) \/ ShmOpen(u) \/ StatOld(u)
  \/ Mmap(u) \/ Allocate(u) \/ UnlinkUnmap(u)

Next ==
  \E u \in Users :
    \/ \E n \in Names, s \in Sizes : MmapCall(u, n, s)
    \/ Step(u)
    \/ UnmapCall(u) \/ UnlinkCall(u)
    \/ Crash(u)

Spec == Init /\ [][Next]_vars

(* A running process goes on with a call it has started.                   *)
FairSpec == Spec /\ \A u \in Users : WF_vars(Step(u))

-----------------------------------------------------------------------------
Labels ==
  { "idle", "create", "truncate", "stat_new", "open", "stat_old", "map",
    "alloc", "unmap" }

(* Every variable has its type (the locals and results of ipc_mmap.c).   *)
TypeOK ==
  /\ bound \in [Names -> Objects \cup {None}]
  /\ length \in [Objects -> Nat]
  /\ fd \in [Users -> Objects \cup {None}]
  /\ mapped \in [Users -> [obj : Objects \cup {None}, size : Nat]]
  /\ segment \in [Users -> [name : Names \cup {None},
                            memory : Objects \cup {None}, size : Nat]]
  /\ pc \in [Users -> Labels]
  /\ req \in [Users -> [name : Names \cup {None}, size : Nat]]
  /\ actual \in [Users -> Nat]

(* What a process has mapped is the whole of the object, no more and no    *)
(* less: it is never mapped between another's shm_open and ftruncate, and  *)
(* its length never changes under the mapping (ipc_mmap.c:30, 97, 110).    *)
MappedWhole ==
  \A u \in Users :
    mapped[u] # NoMap => /\ mapped[u].size = length[mapped[u].obj]
                         /\ mapped[u].size > 0

(* Whichever way a call ended, its caller has no descriptor left and has   *)
(* exactly the mapping that its segment describes, so that nothing is lost *)
(* and nothing unmapped is used (the error paths of ipc_mmap.c:35-147, and *)
(* ipc_unlink's return at 189).                                            *)
NoLeak ==
  \A u \in Users : pc[u] = "idle" =>
    /\ fd[u] = None
    /\ mapped[u] = [obj |-> segment[u].memory, size |-> segment[u].size]
    /\ segment[u] # NoSegment => segment[u].memory # None

(* A name is abandoned if its object has no length and the process that    *)
(* was to give it one failed or died between lines 30 and 35.              *)
Abandoned(n) ==
  /\ bound[n] # None /\ length[bound[n]] = 0
  /\ \A u \in Users : ~(pc[u] = "truncate" /\ fd[u] = bound[n])

(* Nothing but the abandoned object is in use under the name any more.     *)
Lost(n) ==
  /\ Abandoned(n)
  /\ \A u \in Users : segment[u].name # n
  /\ \A u \in Users : req[u].name = n =>
       /\ pc[u] \in {"create", "open", "stat_old"}
       /\ fd[u] \in {None, bound[n]}

(* No sequence of calls and crashes brings such a name back to use: it     *)
(* cannot be opened at any size, and ipc_unlink takes a segment, which     *)
(* nobody can get any more (ipc_mmap.c:35-44, 97 and 189).                 *)
LostStays == [][\A n \in Names : Lost(n) => Lost(n)']_vars

(* What the users share, seen without the system calls.                    *)
Shared == INSTANCE SharedMemory WITH
  hold <- [u \in Users |-> IF fd[u] # None THEN fd[u] ELSE mapped[u].obj],
  given <- [u \in Users |-> segment[u].size]

(* The system calls of ipc_mmap.c, in any interleaving and failing         *)
(* anywhere, amount to SharedMemory: objects get their length once, joiners*)
(* get the object the name was bound to, at its full length.               *)
SharesMemory == Shared!Spec

(* A user whose own calls do not fail gets its segment, if it keeps asking *)
(* for the size that the object of the name has: losing the race to create *)
(* it, or meeting it before it has a length, costs a retry and no more     *)
(* (ipc_mmap.c:58-109).                                                    *)
GetsIn ==
  \A u \in Users \ (MayFail \cup MayCrash), n \in Names, s \in Sizes :
    (/\ <>[](bound[n] # None /\ length[bound[n]] = s)
     /\ []<>(pc[u] = "create" /\ req[u] = [name |-> n, size |-> s]))
      => []<>(segment[u].name = n)
=============================================================================
