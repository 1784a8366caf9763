----------------------------- MODULE FifoQueue -----------------------------
(***************************************************************************)
(* What core/src/ipc_buffer.c promises its callers, without the ring: a    *)
(* queue that many producers append to and many consumers take from, one   *)
(* atomic step each.  An entry is known by its ticket, which the queue's   *)
(* clock hands out in increasing order; the oldest entry is the only one   *)
(* that can be taken, by exactly one consumer, or dropped.                 *)
(***************************************************************************)
EXTENDS Naturals

CONSTANTS
  Consumers,   \* who takes entries
  Lengths,     \* the payload lengths producers append
  Values       \* the contents of payloads

VARIABLES
  queue,       \* the entries appended and neither taken nor dropped
  clock,       \* above every ticket handed out so far
  received     \* what each consumer's last call has handed it

vars == <<queue, clock, received>>

Nothing == [ticket |-> 0, len |-> 0, words |-> {}]

Oldest(e) == e \in queue /\ \A f \in queue : e.ticket <= f.ticket

Init ==
  /\ queue = {}
  /\ clock = 0
  /\ received = [c \in Consumers |-> Nothing]

(* Time may pass without an entry: a ticket is never used.                 *)
Tick ==
  /\ clock' > clock
  /\ UNCHANGED <<queue, received>>

Append(len, v) ==
  /\ len > 0
  /\ clock' > clock
  /\ queue' = queue \cup {[ticket |-> clock, len |-> len, words |-> {v}]}
  /\ UNCHANGED received

Take(c, e) ==
  /\ Oldest(e)
  /\ queue' = queue \ {e}
  /\ received' = [received EXCEPT ![c] = e]
  /\ UNCHANGED clock

Drop(e) ==
  /\ Oldest(e)
  /\ queue' = queue \ {e}
  /\ UNCHANGED <<clock, received>>

(* The consumer calls again and gives up what it had received.             *)
Forget(c) ==
  /\ received' = [received EXCEPT ![c] = Nothing]
  /\ UNCHANGED <<queue, clock>>

Next ==
  \/ Tick
  \/ \E len \in Lengths, v \in Values : Append(len, v)
  \/ \E c \in Consumers, e \in queue : Take(c, e)
  \/ \E e \in queue : Drop(e)
  \/ \E c \in Consumers : Forget(c)

Spec == Init /\ [][Next]_vars

=============================================================================
