------------------------------ MODULE IpcSizes ------------------------------
(***************************************************************************)
(* The size arithmetic of core/src/ipc_buffer.c, ipc_channel.c, ipc_init.c *)
(* and ipc_utils.c, in words that wrap: a caller asks for a suggestion,    *)
(* and creates a ring or a channel with that or another size.  The search  *)
(* for a power of two runs step by step, since it may never end.           *)
(***************************************************************************)
EXTENDS Integers

CONSTANTS
  Modulus,        \* the number of values of uint64_t and size_t
  Powers,         \* the powers of two among them
  BufferHeader,   \* BUFFER_HEADER_SIZE_ALIGNED
  ChannelHeader,  \* CHANNEL_HEADER_SIZE_ALIGNED
  DataAlign,      \* IPC_DATA_ALIGN
  Capacities,     \* the capacities for which a size is asked
  Given           \* the sizes that callers make up

Words == 0..(Modulus - 1)
Half == Modulus \div 2
Kinds == {"buffer", "channel"}

ASSUME SizesAssumption ==
  /\ Modulus \in Nat /\ Half \in Nat \ {0} /\ Modulus = 2 * Half
  /\ Powers \subseteq 1..Half /\ {1, DataAlign, Half} \subseteq Powers
  /\ \A p \in Powers : p = Half \/ 2 * p \in Powers
  /\ \A p, q \in Powers : p < q => 2 * p <= q
  /\ BufferHeader \in Words \ {0} /\ ChannelHeader \in Words \ {0}
  /\ BufferHeader + ChannelHeader + DataAlign <= Half
  /\ Capacities \subseteq Words /\ Given \subseteq Words

VARIABLES
  pc,         \* "idle", or the loop the call is in: "suggest", "validate", "create"
  kind,       \* of the call, or of the last one
  arg,        \* its argument
  pow,        \* the variable of its loop
  target,     \* where its loop is to end
  suggested,  \* the last suggestion: its kind, the capacity asked, the size
  outcome,    \* of the last creation
  validated   \* whether _validate_size has let the size of the creation pass

vars == <<pc, kind, arg, pow, target, suggested, outcome, validated>>

NoSuggestion == [kind |-> "buffer", asked |-> 0, size |-> 0]

Plus(a, b) == (a + b) % Modulus
Minus(a, b) == (a - b) % Modulus

Overhead(k) ==
  IF k = "buffer" THEN BufferHeader ELSE ChannelHeader + BufferHeader
MinSize(k) == Overhead(k) + DataAlign

Init ==
  /\ pc = "idle" /\ kind = "buffer" /\ arg = 0 /\ pow = 1 /\ target = 0
  /\ suggested = NoSuggestion
  /\ outcome = "none" /\ validated = FALSE

Search(loop, n) == pc' = loop /\ pow' = 1 /\ target' = n

-----------------------------------------------------------------------------
(* find_next_power_of_2 and is_power_of_2 run the same loop.               *)

(* Mutation: the loop goes on when the power is reached.                   *)
SmallerOrEqual == pow <= target

Smaller == pow < target

Looping == pc # "idle" /\ Smaller

(* Mutation: the loop stops when the next power would not fit.             *)
DoubleChecked ==
  /\ Looping
  /\ IF pow < Half
     THEN pow' = 2 * pow /\ UNCHANGED pc
     ELSE pc' = "idle" /\ UNCHANGED pow
  /\ UNCHANGED <<kind, arg, target, suggested, outcome, validated>>

Double ==
  /\ Looping
  /\ pow' = Plus(pow, pow)
  /\ UNCHANGED <<pc, kind, arg, target, suggested, outcome, validated>>

(* The suggest_size functions of the buffer, the channel and ipc_init.     *)
SuggestCall(k, n) ==
  /\ pc = "idle"
  /\ kind' = k /\ arg' = n
  /\ \/ /\ Plus(n, Overhead(k)) < MinSize(k)
        /\ suggested' = [kind |-> k, asked |-> n, size |-> MinSize(k)]
        /\ UNCHANGED <<pc, pow, target>>
     \/ /\ Plus(n, Overhead(k)) >= MinSize(k)
        /\ Search("suggest", n)
        /\ UNCHANGED suggested
  /\ outcome' = "none" /\ validated' = FALSE

(* Mutation: the power of two is taken of capacity and headers together.   *)
SuggestDoneTogether ==
  /\ pc = "suggest" /\ ~Smaller
  /\ pc' = "idle"
  /\ suggested' = [kind |-> kind, asked |-> arg, size |-> pow]
  /\ UNCHANGED <<kind, arg, pow, target, outcome, validated>>

SuggestDone ==
  /\ pc = "suggest" /\ ~Smaller
  /\ pc' = "idle"
  /\ suggested' = [kind |-> kind, asked |-> arg, size |-> Plus(pow, Overhead(kind))]
  /\ UNCHANGED <<kind, arg, pow, target, outcome, validated>>

(* What ipc_buffer_create is given of the size: ipc_channel_create takes   *)
(* its own header off without looking whether there is room for it.        *)
BufferBytes(k, s) == IF k = "buffer" THEN s ELSE Minus(s, ChannelHeader)

(* ipc_channel_create refuses size 0, ipc_buffer_create what is too small  *)
(* for its header; the rest must be a power of two.                        *)
Creation(k, s) ==
  IF (k = "channel" /\ s = 0) \/ BufferBytes(k, s) < BufferHeader
  THEN pc' = "idle" /\ outcome' = "refused" /\ UNCHANGED <<pow, target>>
  ELSE /\ Search("create", Minus(BufferBytes(k, s), BufferHeader))
       /\ outcome' = "none"

CreateCall(k, s) ==
  /\ pc = "idle"
  /\ kind' = k /\ arg' = s
  /\ Creation(k, s)
  /\ validated' = FALSE
  /\ UNCHANGED suggested

CreateDone ==
  /\ pc = "create" /\ ~Smaller
  /\ pc' = "idle"
  /\ outcome' = IF pow = target THEN "created" ELSE "refused"
  /\ UNCHANGED <<kind, arg, pow, target, suggested, validated>>

(* Mutation: the bound on the size forgets the channel's header.           *)
InitCallLoose(k, s) ==
  /\ pc = "idle"
  /\ kind' = k /\ arg' = s
  /\ IF s < BufferHeader + DataAlign
     THEN outcome' = "refused" /\ UNCHANGED <<pc, pow, target>>
     ELSE Search("validate", Minus(s, Overhead(k))) /\ outcome' = "none"
  /\ validated' = FALSE
  /\ UNCHANGED suggested

(* ipc_init's _validate_size, which ends the call or goes on to create.    *)
InitCall(k, s) ==
  /\ pc = "idle"
  /\ kind' = k /\ arg' = s
  /\ IF s < MinSize(k)
     THEN outcome' = "refused" /\ UNCHANGED <<pc, pow, target>>
     ELSE Search("validate", Minus(s, Overhead(k))) /\ outcome' = "none"
  /\ validated' = FALSE
  /\ UNCHANGED suggested

ValidateDone ==
  /\ pc = "validate" /\ ~Smaller
  /\ IF pow = target
     THEN Creation(kind, arg) /\ validated' = TRUE
     ELSE /\ pc' = "idle" /\ outcome' = "refused"
          /\ UNCHANGED <<pow, target, validated>>
  /\ UNCHANGED <<kind, arg, suggested>>

Next ==
  \/ \E k \in Kinds :
       \/ \E n \in Capacities : SuggestCall(k, n)
       \/ \E s \in Given \cup {suggested.size} : CreateCall(k, s) \/ InitCall(k, s)
  \/ Double \/ SuggestDone \/ CreateDone \/ ValidateDone

Spec == Init /\ [][Next]_vars

(* A call that has started goes on.                                        *)
FairSpec == Spec /\ WF_vars(Double \/ SuggestDone \/ CreateDone \/ ValidateDone)

-----------------------------------------------------------------------------
TypeOK ==
  /\ pc \in {"idle", "suggest", "validate", "create"}
  /\ kind \in Kinds
  /\ arg \in Words /\ pow \in Words /\ target \in Words
  /\ suggested \in [kind : Kinds, asked : Words, size : Words]
  /\ outcome \in {"none", "created", "refused"}
  /\ validated \in BOOLEAN

(* A loop whose end is at most half of the words never loses its power: it *)
(* overflows to 0 only when looking for more (ipc_utils.c:12 and 29,       *)
(* ipc_init.c:181).                                                        *)
OverflowsOnlyAboveHalf == pow = 0 => target > Half

(* A creation with the suggested size succeeds and has the capacity that   *)
(* was asked for (ipc_buffer.c:55, ipc_channel.c:39, ipc_init.c:24), if    *)
(* adding the headers to it did not wrap.                                  *)
SuggestedSuffices ==
  /\ pc = "idle" /\ outcome # "none"
  /\ arg = suggested.size /\ kind = suggested.kind
  /\ suggested.size > 0
  /\ suggested.asked + Overhead(kind) < Modulus
  => outcome = "created" /\ target >= suggested.asked

(* What _validate_size lets pass, create accepts, and the ring has room    *)
(* for data: path-based initialisation does not map memory in vain.        *)
ValidatedIsCreated ==
  validated /\ pc = "idle" => outcome = "created" /\ target >= DataAlign

(* Every call ends whose loop has to look no further than half of the      *)
(* words.                                                                  *)
CallsEnd == (pc # "idle" /\ target <= Half) ~> (pc = "idle")

(* ipc_channel_create does not return when the size is below its header's  *)
(* (ipc_channel.c:67): the subtraction wraps, and no power of two is as    *)
(* large as what is left.                                                  *)
TinyChannelHangs ==
  [][pc = "create" /\ kind = "channel" /\ arg < ChannelHeader => pc' = "create"]_vars
=============================================================================
