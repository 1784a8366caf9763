---------------------------- MODULE IpcSizesProof ----------------------------
(***************************************************************************)
(* The size arithmetic, proved for words, headers, capacities and sizes of *)
(* any range that the assumption on them allows.  The inductive invariant  *)
(* says where each loop is going and what follows from where it stopped.   *)
(***************************************************************************)
EXTENDS IpcSizes, TLAPS

(* The size of a ring with p bytes of data.                                *)
Holding(k, p) == Overhead(k) + p

Fitting == {p \in Powers : p >= DataAlign}

(* The loop stays on the powers until it loses them all; one that looks    *)
(* for a power never goes past it.                                         *)
LoopInv ==
  /\ pow \in Powers \cup {0}
  /\ pow = 0 => target > Half
  /\ pc # "idle" /\ target \in Powers => 0 < pow /\ pow <= target

SuggestInv ==
  /\ pc = "suggest" => arg = target /\ target >= DataAlign
  /\ \/ suggested.size = 0
     \/ \E p \in Fitting :
          /\ suggested.size = Holding(suggested.kind, p)
          /\ suggested.asked + Overhead(suggested.kind) < Modulus => suggested.asked <= p

(* A size that leaves a power of two for the data is looked for and found. *)
AcceptInv ==
  \A p \in Fitting :
    /\ arg = Holding(kind, p)
    /\ pc \in {"validate", "create"} \/ (pc = "idle" /\ outcome # "none")
    => target = p /\ (pc = "idle" => outcome = "created")

ValidInv ==
  /\ pc # "idle" => outcome = "none"
  /\ pc = "validate" => arg = Holding(kind, target) /\ target >= DataAlign
  /\ validated => /\ pc \in {"create", "idle"}
                  /\ pc = "idle" => outcome # "none"
                  /\ \E p \in Fitting : arg = Holding(kind, p)

TinyInv == pc = "create" /\ kind = "channel" /\ arg < ChannelHeader => target > Half

SizesInv == TypeOK /\ LoopInv /\ SuggestInv /\ AcceptInv /\ ValidInv /\ TinyInv

-----------------------------------------------------------------------------
(* Words that wrap.                                                        *)

LEMMA NoWrap == ASSUME NEW a \in Words PROVE a % Modulus = a
BY SizesAssumption DEF Words

LEMMA WrapUp ==
  ASSUME NEW a \in Int, Modulus <= a, a < 2 * Modulus PROVE a % Modulus = a - Modulus
BY SizesAssumption

LEMMA WrapDown ==
  ASSUME NEW a \in Int, 0 - Modulus <= a, a < 0 PROVE a % Modulus = a + Modulus
BY SizesAssumption

(* Additions and subtractions of uint64_t and size_t.                      *)
LEMMA Sums ==
  ASSUME NEW a \in Words, NEW b \in Words
  PROVE  /\ Plus(a, b) \in Words /\ Minus(a, b) \in Words
         /\ Plus(a, b) = IF a + b < Modulus THEN a + b ELSE a + b - Modulus
         /\ Minus(a, b) = IF a >= b THEN a - b ELSE a - b + Modulus
<1>0. a \in Nat /\ b \in Nat /\ Modulus \in Nat /\ a < Modulus /\ b < Modulus
  BY SizesAssumption DEF Words
<1>1. Plus(a, b) = IF a + b < Modulus THEN a + b ELSE a + b - Modulus
  BY <1>0, NoWrap, WrapUp DEF Plus, Words
<1>2. Minus(a, b) = IF a >= b THEN a - b ELSE a - b + Modulus
  BY <1>0, NoWrap, WrapDown DEF Minus, Words
<1> QED BY <1>0, <1>1, <1>2 DEF Words

(* The constants, as the steps use them.                                   *)
LEMMA Constants ==
  /\ Modulus \in Nat /\ Half \in Nat \ {0} /\ Modulus = 2 * Half
  /\ Words \subseteq Nat /\ 0 \in Words /\ 1 \in Words
  /\ DataAlign \in Powers /\ 1 \in Powers /\ Half \in Powers
  /\ \A p \in Powers : p \in Words /\ 1 <= p /\ p <= Half
<1>1. Modulus \in Nat /\ Half \in Nat \ {0} /\ Modulus = 2 * Half
  BY SizesAssumption
<1>2. Powers \subseteq 1..Half
  BY SizesAssumption
<1>3. ASSUME NEW p \in Powers PROVE p \in Words /\ 1 <= p /\ p <= Half
  <2>1. p \in 1..Half
    BY <1>2
  <2> QED BY <1>1, <2>1 DEF Words
<1>4. Words \subseteq Nat /\ 0 \in Words /\ 1 \in Words
  BY <1>1 DEF Words
<1>5. DataAlign \in Powers /\ 1 \in Powers /\ Half \in Powers
  BY SizesAssumption
<1> QED BY <1>1, <1>3, <1>4, <1>5

(* The headers leave room for the data.                                    *)
LEMMA Headers ==
  /\ BufferHeader \in Nat /\ 0 < BufferHeader /\ BufferHeader \in Words
  /\ ChannelHeader \in Nat /\ 0 < ChannelHeader /\ ChannelHeader \in Words
  /\ BufferHeader + ChannelHeader + DataAlign <= Half
  /\ \A k \in Kinds : /\ Overhead(k) \in Words /\ 0 < Overhead(k)
                      /\ Overhead(k) + DataAlign <= Half
                      /\ MinSize(k) = Overhead(k) + DataAlign
<1>1. /\ BufferHeader \in Nat /\ 0 < BufferHeader /\ BufferHeader \in Words
      /\ ChannelHeader \in Nat /\ 0 < ChannelHeader /\ ChannelHeader \in Words
      /\ BufferHeader + ChannelHeader + DataAlign <= Half
  BY SizesAssumption DEF Words
<1>2. DataAlign \in Nat
  BY Constants
<1> QED BY <1>1, <1>2, Constants DEF Kinds, Overhead, MinSize, Words

(* A size that leaves a power of two for the data is not refused outright, *)
(* and that power is what the loop is to find.                             *)
LEMMA Remainder ==
  ASSUME NEW k \in Kinds, NEW p \in Powers
  PROVE  /\ Holding(k, p) \in Words /\ 0 < Holding(k, p)
         /\ BufferBytes(k, Holding(k, p)) >= BufferHeader
         /\ Minus(BufferBytes(k, Holding(k, p)), BufferHeader) = p
<1>1. p \in Nat /\ 1 <= p /\ p <= Half /\ DataAlign \in Nat /\ 1 <= DataAlign
  BY Constants
<1>2. ASSUME NEW c \in Words, c + BufferHeader < Half
      PROVE  /\ c + BufferHeader + p \in Words
             /\ Minus(c + BufferHeader + p, c) = BufferHeader + p
  <2>1. c + BufferHeader + p \in Words
    BY <1>1, <1>2, Constants, Headers DEF Words
  <2>2. c \in Nat
    BY Constants
  <2> QED BY <1>1, <2>1, <2>2, Sums, Headers
<1>3. BufferHeader + p \in Words /\ Minus(BufferHeader + p, BufferHeader) = p
  <2>1. BufferHeader + p \in Words
    BY <1>1, Constants, Headers DEF Words
  <2> QED BY <1>1, <2>1, Sums, Headers
<1>4. CASE k = "buffer"
  BY <1>1, <1>3, <1>4, Headers DEF Holding, Overhead, BufferBytes
<1>5. CASE k = "channel"
  <2>1. ChannelHeader + BufferHeader < Half
    BY <1>1, Constants, Headers
  <2>2. Minus(ChannelHeader + BufferHeader + p, ChannelHeader) = BufferHeader + p
    BY <1>2, <2>1, Headers
  <2>3. ChannelHeader + BufferHeader + p \in Words
    BY <1>2, <2>1, Headers
  <2> QED BY <1>1, <1>3, <1>5, <2>2, <2>3, Headers DEF Holding, Overhead, BufferBytes
<1> QED BY <1>4, <1>5 DEF Kinds

-----------------------------------------------------------------------------
LEMMA InitInv == Init => SizesInv
<1> SUFFICES ASSUME Init PROVE SizesInv
  OBVIOUS
<1>1. TypeOK
  <2>1. NoSuggestion \in [kind : Kinds, asked : Words, size : Words]
    BY Constants DEF NoSuggestion, Kinds
  <2> QED BY <2>1, Constants DEF Init, TypeOK, Kinds
<1>2. LoopInv
  BY Constants DEF Init, LoopInv
<1> QED
  BY <1>1, <1>2
  DEF Init, SizesInv, SuggestInv, AcceptInv, ValidInv, TinyInv, NoSuggestion

(* A loop starts at 1, the least of the powers.                            *)
LEMMA LoopStarts ==
  ASSUME TypeOK', pow' = 1 PROVE LoopInv'
<1>1. pow' \in Powers /\ pow' # 0 /\ 0 < pow'
  BY Constants
<1>2. target' \in Powers => pow' <= target'
  BY Constants
<1> QED BY <1>1, <1>2 DEF LoopInv

(* The loop doubles a power below the end, and passes no power by.         *)
LEMMA DoubleInv == ASSUME SizesInv, Double PROVE SizesInv'
<1> USE DEF SizesInv, Double, Looping, Smaller
<1>1. pow \in Powers \cup {0} /\ pow \in Words /\ target \in Words /\ pow < target
  BY DEF TypeOK, LoopInv
<1>2. TypeOK'
  BY <1>1, Sums DEF TypeOK
<1>3. LoopInv'
  <2>1. CASE pow = 0
    BY <1>1, <2>1, Sums, Constants DEF LoopInv, Words
  <2>2. CASE pow = Half
    <3>1. pow' = 0
      BY <1>1, <2>2, Sums, Constants DEF Words
    <3>2. \A p \in Powers : p <= Half
      BY Constants
    <3> QED BY <1>1, <2>2, <3>1, <3>2, Constants DEF LoopInv, Words
  <2>3. CASE pow # 0 /\ pow # Half
    <3>1. pow \in Powers /\ 2 * pow \in Powers
      BY <1>1, <2>3, SizesAssumption
    <3>2. pow' = 2 * pow
      BY <1>1, <3>1, Sums, Constants DEF Words
    <3>3. target \in Powers => 2 * pow <= target
      BY <1>1, <3>1, SizesAssumption
    <3> QED BY <3>1, <3>2, <3>3, Constants DEF LoopInv, Words
  <2> QED BY <2>1, <2>2, <2>3
<1>4. (SuggestInv /\ AcceptInv /\ ValidInv /\ TinyInv)'
  BY DEF SuggestInv, AcceptInv, ValidInv, TinyInv
<1> QED BY <1>2, <1>3, <1>4

(* Where a loop has stopped.                                               *)
LEMMA Stopped ==
  ASSUME SizesInv, pc # "idle", ~Smaller
  PROVE  /\ pow \in Powers /\ pow >= target
         /\ target \in Powers => pow = target
         /\ target <= Half
BY Constants DEF SizesInv, TypeOK, LoopInv, Smaller, Words

(* The suggestion is the power above what was asked, with the headers.     *)
LEMMA SuggestDoneInv == ASSUME SizesInv, SuggestDone PROVE SizesInv'
<1> USE DEF SizesInv, SuggestDone
<1>1. pow \in Powers /\ pow \in Words /\ pow >= target /\ kind \in Kinds
  BY Stopped, Constants DEF TypeOK
<1>2. Plus(pow, Overhead(kind)) = Holding(kind, pow)
  BY <1>1, Sums, Constants, Headers DEF Holding, Words
<1>3. Holding(kind, pow) \in Words
  BY <1>1, Remainder
<1>4. pow \in Fitting /\ arg <= pow
  BY <1>1, Constants DEF SuggestInv, Fitting, Words, TypeOK
<1>5. TypeOK'
  BY <1>1, <1>2, <1>3 DEF TypeOK
<1>6. SuggestInv'
  BY <1>2, <1>4 DEF SuggestInv
<1>7. (LoopInv /\ AcceptInv /\ ValidInv /\ TinyInv)'
  BY DEF LoopInv, AcceptInv, ValidInv, TinyInv
<1> QED BY <1>5, <1>6, <1>7

LEMMA SuggestCallInv ==
  ASSUME SizesInv, NEW k \in Kinds, NEW n \in Capacities, SuggestCall(k, n)
  PROVE  SizesInv'
<1> USE DEF SizesInv, SuggestCall, Search
<1>1. n \in Words /\ Overhead(k) \in Words /\ MinSize(k) = Holding(k, DataAlign)
  BY Constants, Headers, SizesAssumption DEF Holding
<1>2. DataAlign \in Fitting /\ MinSize(k) \in Words
  BY <1>1, Constants, Remainder DEF Fitting, Words
<1>3. CASE Plus(n, Overhead(k)) < MinSize(k) /\ UNCHANGED <<pc, pow, target>>
           /\ suggested' = [kind |-> k, asked |-> n, size |-> MinSize(k)]
  <2>1. TypeOK'
    BY <1>1, <1>2, <1>3 DEF TypeOK
  <2>2. n + Overhead(k) < Modulus => n <= DataAlign
    BY <1>1, <1>3, Sums, Constants, Headers DEF Words
  <2>3. SuggestInv'
    BY <1>1, <1>2, <1>3, <2>2 DEF SuggestInv
  <2>4. (LoopInv /\ AcceptInv /\ ValidInv /\ TinyInv)'
    BY <1>3 DEF LoopInv, AcceptInv, ValidInv, TinyInv
  <2> QED BY <2>1, <2>3, <2>4
<1>4. CASE Plus(n, Overhead(k)) >= MinSize(k) /\ pc' = "suggest" /\ pow' = 1
           /\ target' = n /\ UNCHANGED suggested
  <2>1. TypeOK'
    BY <1>1, <1>4, Constants DEF TypeOK
  <2>2. n >= DataAlign
    <3>1. n \in Nat /\ n < Modulus /\ DataAlign \in Nat /\ Overhead(k) \in Nat
      BY <1>1, Constants DEF Words
    <3>2. Plus(n, Overhead(k)) >= Overhead(k) + DataAlign
      BY <1>4, Headers
    <3>3. Plus(n, Overhead(k)) = IF n + Overhead(k) < Modulus
                                 THEN n + Overhead(k) ELSE n + Overhead(k) - Modulus
      BY <1>1, Sums
    <3>4. Modulus \in Nat
      BY Constants
    <3> QED BY <3>1, <3>2, <3>3, <3>4
  <2>3. LoopInv'
    BY <1>4, <2>1, LoopStarts
  <2>4. SuggestInv'
    BY <1>4, <2>2 DEF SuggestInv
  <2>5. (AcceptInv /\ ValidInv /\ TinyInv)'
    BY <1>4 DEF AcceptInv, ValidInv, TinyInv
  <2> QED BY <2>1, <2>3, <2>4, <2>5
<1> QED BY <1>3, <1>4
(* What the two creating calls and the validation have in common: the      *)
(* creation of kind' with size arg'.                                       *)
LEMMA CreationInv ==
  ASSUME SizesInv, Creation(kind', arg'), kind' \in Kinds, arg' \in Words,
         UNCHANGED suggested, validated' \in BOOLEAN,
         validated' => \E p \in Fitting : arg' = Holding(kind', p)
  PROVE  SizesInv'
<1> USE DEF SizesInv, Creation, Search
<1> DEFINE k == kind'
           s == arg'
           r == Minus(BufferBytes(k, s), BufferHeader)
<1>1. BufferBytes(k, s) \in Words /\ r \in Words
  BY Sums, Headers DEF BufferBytes
<1>2. ASSUME NEW p \in Fitting, s = Holding(k, p)
      PROVE  /\ r = p
             /\ ~((k = "channel" /\ s = 0) \/ BufferBytes(k, s) < BufferHeader)
  <2>1. /\ 0 < Holding(k, p) /\ BufferBytes(k, Holding(k, p)) >= BufferHeader
        /\ Holding(k, p) \in Words
    BY Remainder DEF Fitting
  <2>2. r = p
    BY <1>2, Remainder DEF Fitting
  <2>3. s # 0 /\ BufferBytes(k, s) >= BufferHeader
    BY <1>2, <2>1, Constants
  <2>4. ~(BufferBytes(k, s) < BufferHeader)
    <3>1. BufferBytes(k, s) \in Nat /\ BufferHeader \in Nat
      BY <1>1, Constants, Headers
    <3> HIDE DEF k, s
    <3> QED BY <3>1, <2>3
  <2> QED BY <2>2, <2>3, <2>4
<1>3. CASE pc' = "idle" /\ outcome' = "refused" /\ UNCHANGED <<pow, target>>
           /\ ((k = "channel" /\ s = 0) \/ BufferBytes(k, s) < BufferHeader)
  <2>1. \A p \in Fitting : arg' # Holding(kind', p)
    BY <1>2, <1>3
  <2>2. TypeOK'
    BY <1>3 DEF TypeOK
  <2>3. LoopInv'
    BY <1>3 DEF LoopInv
  <2>4. (SuggestInv /\ AcceptInv /\ ValidInv /\ TinyInv)'
    BY <1>3, <2>1 DEF SuggestInv, AcceptInv, ValidInv, TinyInv
  <2> QED BY <2>2, <2>3, <2>4
<1>4. CASE pc' = "create" /\ pow' = 1 /\ target' = r /\ outcome' = "none"
           /\ ~((k = "channel" /\ s = 0) \/ BufferBytes(k, s) < BufferHeader)
  <2>1. TypeOK'
    BY <1>1, <1>4, Constants DEF TypeOK
  <2>2. LoopInv'
    BY <1>4, <2>1, LoopStarts
  <2>3. AcceptInv'
    BY <1>2, <1>4 DEF AcceptInv
  <2>4. TinyInv'
    <3>1. SUFFICES ASSUME kind' = "channel", arg' < ChannelHeader PROVE target' > Half
      BY DEF TinyInv
    <3>2. s \in Nat /\ 0 < s /\ s < ChannelHeader
      BY <1>4, <3>1, Constants
    <3>3. BufferBytes(k, s) = s - ChannelHeader + Modulus
      BY <3>1, <3>2, Sums, Constants, Headers DEF BufferBytes
    <3>4. r = s - ChannelHeader + Modulus - BufferHeader
      <4> HIDE DEF s, k
      <4> QED BY <1>1, <3>2, <3>3, Sums, Constants, Headers
    <3>5. DataAlign \in Nat
      BY Constants
    <3> HIDE DEF r, s
    <3> QED BY <1>4, <3>2, <3>4, <3>5, Constants, Headers
  <2>5. (SuggestInv /\ ValidInv)'
    BY <1>4 DEF SuggestInv, ValidInv
  <2> QED BY <2>1, <2>2, <2>3, <2>4, <2>5
<1> QED BY <1>3, <1>4

LEMMA CreateCallInv ==
  ASSUME SizesInv, NEW k \in Kinds, NEW s \in Words, CreateCall(k, s) PROVE SizesInv'
BY CreationInv DEF CreateCall

LEMMA CreateDoneInv == ASSUME SizesInv, CreateDone PROVE SizesInv'
<1> USE DEF SizesInv, CreateDone
<1>1. target \in Powers => pow = target
  BY Stopped
<1>2. TypeOK'
  BY DEF TypeOK
<1>3. AcceptInv'
  BY <1>1 DEF AcceptInv, Fitting
<1>4. (LoopInv /\ SuggestInv /\ ValidInv /\ TinyInv)'
  BY DEF LoopInv, SuggestInv, ValidInv, TinyInv
<1> QED BY <1>2, <1>3, <1>4

LEMMA InitCallInv ==
  ASSUME SizesInv, NEW k \in Kinds, NEW s \in Words, InitCall(k, s) PROVE SizesInv'
<1> USE DEF SizesInv, InitCall, Search
<1>1. /\ s \in Nat /\ s < Modulus /\ DataAlign \in Nat /\ Overhead(k) \in Nat
      /\ Overhead(k) \in Words
  BY Constants, Headers DEF Words
<1>2. CASE s < MinSize(k) /\ outcome' = "refused" /\ UNCHANGED <<pc, pow, target>>
  <2>1. \A p \in Fitting : s # Holding(k, p)
    BY <1>1, <1>2, Constants, Headers DEF Fitting, Holding
  <2>2. TypeOK'
    BY <1>2 DEF TypeOK
  <2>3. (LoopInv /\ SuggestInv /\ AcceptInv /\ ValidInv /\ TinyInv)'
    BY <1>2, <2>1 DEF LoopInv, SuggestInv, AcceptInv, ValidInv, TinyInv
  <2> QED BY <2>2, <2>3
<1>3. CASE s >= MinSize(k) /\ pc' = "validate" /\ pow' = 1
           /\ target' = Minus(s, Overhead(k)) /\ outcome' = "none"
  <2>1. s >= Overhead(k) + DataAlign
    BY <1>3, Headers
  <2>2. Minus(s, Overhead(k)) = s - Overhead(k) /\ Minus(s, Overhead(k)) \in Words
    BY <1>1, <2>1, Sums
  <2>3. TypeOK'
    BY <1>3, <2>2, Constants DEF TypeOK
  <2>4. LoopInv'
    BY <1>3, <2>3, LoopStarts
  <2>5. target' >= DataAlign /\ arg' = Holding(kind', target')
    BY <1>1, <1>3, <2>1, <2>2 DEF Holding
  <2>6. AcceptInv'
    <3>1. ASSUME NEW p \in Fitting, s = Holding(k, p) PROVE Minus(s, Overhead(k)) = p
      BY <1>1, <2>2, <3>1, Constants DEF Fitting, Holding
    <3> QED BY <1>3, <3>1 DEF AcceptInv
  <2>7. (SuggestInv /\ ValidInv /\ TinyInv)'
    BY <1>3, <2>5 DEF SuggestInv, ValidInv, TinyInv
  <2> QED BY <2>3, <2>4, <2>6, <2>7
<1> QED BY <1>2, <1>3, <1>1, Headers

LEMMA ValidateDoneInv == ASSUME SizesInv, ValidateDone PROVE SizesInv'
<1> USE DEF SizesInv, ValidateDone
<1>1. pow \in Powers /\ (target \in Powers => pow = target)
  BY Stopped
<1>2. CASE pow = target
  <2>1. target \in Fitting /\ arg = Holding(kind, target)
    BY <1>1, <1>2 DEF ValidInv, Fitting
  <2> QED BY <1>2, <2>1, CreationInv DEF TypeOK
<1>3. CASE pow # target
  <2>1. \A p \in Fitting : arg # Holding(kind, p)
    BY <1>1, <1>3 DEF AcceptInv, Fitting
  <2>2. TypeOK'
    BY <1>3 DEF TypeOK
  <2>3. (LoopInv /\ SuggestInv /\ AcceptInv /\ ValidInv /\ TinyInv)'
    BY <1>3, <2>1 DEF LoopInv, SuggestInv, AcceptInv, ValidInv, TinyInv
  <2> QED BY <2>2, <2>3
<1> QED BY <1>2, <1>3

LEMMA NextInv == SizesInv /\ [Next]_vars => SizesInv'
<1> SUFFICES ASSUME SizesInv, [Next]_vars PROVE SizesInv'
  OBVIOUS
<1>1. CASE UNCHANGED vars
  BY <1>1
  DEF vars, SizesInv, TypeOK, LoopInv, SuggestInv, AcceptInv, ValidInv, TinyInv
<1>2. ASSUME NEW k \in Kinds, NEW s \in Given \cup {suggested.size},
             CreateCall(k, s) \/ InitCall(k, s)
      PROVE  SizesInv'
  <2>1. s \in Words
    BY SizesAssumption DEF SizesInv, TypeOK
  <2> QED BY <1>2, <2>1, CreateCallInv, InitCallInv
<1> QED
  BY <1>1, <1>2, SuggestCallInv, DoubleInv, SuggestDoneInv, CreateDoneInv,
     ValidateDoneInv DEF Next

LEMMA Invariance == Spec => []SizesInv
<1> QED BY InitInv, NextInv, PTL DEF Spec

-----------------------------------------------------------------------------
(* Every variable has its type: the arguments, loops and results are words.*)
THEOREM TypeCorrect == Spec => []TypeOK
<1>1. SizesInv => TypeOK
  BY DEF SizesInv
<1> QED BY <1>1, Invariance, PTL

(* The loops of ipc_utils.c and ipc_init.c lose their power only when they *)
(* look for more than half of the words.                                   *)
THEOREM Overflows == Spec => []OverflowsOnlyAboveHalf
<1>1. SizesInv => OverflowsOnlyAboveHalf
  BY DEF SizesInv, LoopInv, OverflowsOnlyAboveHalf
<1> QED BY <1>1, Invariance, PTL

(* The size that a suggest function returned is accepted and sufficient.   *)
THEOREM SuggestionHolds == Spec => []SuggestedSuffices
<1>1. SizesInv => SuggestedSuffices
  <2> SUFFICES ASSUME SizesInv, pc = "idle", outcome # "none",
                      arg = suggested.size, kind = suggested.kind,
                      suggested.size > 0,
                      suggested.asked + Overhead(kind) < Modulus
               PROVE  outcome = "created" /\ target >= suggested.asked
    BY DEF SuggestedSuffices
  <2>1. suggested.size # 0 /\ suggested.asked \in Nat
    BY Constants DEF SizesInv, TypeOK
  <2>2. PICK p \in Fitting : arg = Holding(kind, p) /\ suggested.asked <= p
    BY <2>1 DEF SizesInv, SuggestInv
  <2>3. target = p /\ outcome = "created"
    BY <2>2 DEF SizesInv, AcceptInv
  <2>4. p \in Nat
    BY Constants DEF Fitting
  <2> QED BY <2>1, <2>2, <2>3, <2>4
<1> QED BY <1>1, Invariance, PTL

(* A size that ipc_init has validated is one that create accepts.          *)
THEOREM ValidationHolds == Spec => []ValidatedIsCreated
<1>1. SizesInv => ValidatedIsCreated
  BY DEF SizesInv, ValidInv, AcceptInv, Fitting, ValidatedIsCreated
<1> QED BY <1>1, Invariance, PTL

(* ipc_channel_create does not return from a size below its header's.      *)
THEOREM TinyHangs == Spec => TinyChannelHangs
<1>1. SizesInv /\ [Next]_vars =>
        [pc = "create" /\ kind = "channel" /\ arg < ChannelHeader => pc' = "create"]_vars
  <2> SUFFICES ASSUME SizesInv, Next,
                      pc = "create", kind = "channel", arg < ChannelHeader
               PROVE  pc' = "create"
    BY DEF vars
  <2>1. target > Half /\ target \in Nat /\ Half \in Nat
    BY Constants DEF SizesInv, TypeOK, TinyInv
  <2>2. ~CreateDone
    <3>1. SUFFICES ASSUME CreateDone PROVE FALSE
      OBVIOUS
    <3>2. target <= Half
      BY <3>1, Stopped DEF CreateDone
    <3> QED BY <2>1, <3>2
  <2> QED
    BY <2>2 DEF Next, SuggestCall, CreateCall, InitCall, Double, SuggestDone, ValidateDone
<1> QED BY <1>1, Invariance, PTL DEF Spec, TinyChannelHangs
=============================================================================
