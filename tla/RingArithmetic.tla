--------------------------- MODULE RingArithmetic ---------------------------
(***************************************************************************)
(* Facts about remainders, for offsets that only grow and the place they   *)
(* have in a ring: RELATIVE of core/src/ipc_utils.h:12 is x % b.           *)
(***************************************************************************)
EXTENDS Integers, TLAPS

(* The place of an offset is a place in the ring.                          *)
LEMMA ModRange ==
  ASSUME NEW b \in Nat \ {0}, NEW x \in Nat
  PROVE  x % b \in 0 .. b - 1
OBVIOUS

(* Quotient and remainder.                                                 *)
LEMMA DivMod ==
  ASSUME NEW b \in Nat \ {0}, NEW x \in Nat
  PROVE  /\ x = (b * (x \div b)) + (x % b)
         /\ x \div b \in Nat
         /\ x % b \in 0 .. b - 1
OBVIOUS

LEMMA ModUnique ==
  ASSUME NEW b \in Nat \ {0}, NEW q \in Nat, NEW r \in 0 .. b - 1
  PROVE  ((b * q) + r) % b = r
OBVIOUS

(* Going on from x by s bytes stays in x's lap, ...                        *)
LEMMA ModSameLap ==
  ASSUME NEW b \in Nat \ {0}, NEW x \in Nat, NEW s \in 0 .. b,
         (x % b) + s < b
  PROVE  (x + s) % b = (x % b) + s
OBVIOUS

(* ... or ends in the next one.                                            *)
LEMMA ModNextLap ==
  ASSUME NEW b \in Nat \ {0}, NEW x \in Nat, NEW s \in 0 .. b,
         (x % b) + s >= b
  PROVE  (x + s) % b = ((x % b) + s) - b
<1> DEFINE q == x \div b
           r == x % b
<1>1. x = (b * q) + r /\ q \in Nat /\ r \in 0 .. b - 1
  BY DivMod
<1>2. b * (q + 1) = (b * q) + b /\ q + 1 \in Nat
  BY <1>1
<1>3. x + s = (b * (q + 1)) + ((r + s) - b)
  BY <1>1, <1>2
<1>4. (r + s) - b \in 0 .. b - 1
  BY <1>1
<1> HIDE DEF q, r
<1>5. ((b * (q + 1)) + ((r + s) - b)) % b = (r + s) - b
  BY <1>2, <1>4, ModUnique
<1> QED
  BY <1>3, <1>5 DEF r

(* An aligned offset has an aligned place in an aligned ring.              *)
LEMMA ModAligned ==
  ASSUME NEW b \in Nat \ {0}, b % 8 = 0, NEW x \in Nat, x % 8 = 0
  PROVE  (x % b) % 8 = 0
<1> DEFINE q == x \div b
           r == x % b
           k == b \div 8
           j == x \div 8
           m == k * q
<1>1. x = (b * q) + r /\ q \in Nat /\ r \in 0 .. b - 1
  BY DivMod
<1>2. b = 8 * k /\ k \in Nat /\ x = 8 * j /\ j \in Nat
  OBVIOUS
<1>3. b * q = 8 * m /\ m \in Nat
  BY <1>1, <1>2
<1>4. r = 8 * (j - m)
  BY <1>1, <1>2, <1>3
<1> HIDE DEF q, r, k, j, m
<1>5. r % 8 = 0
  BY <1>1, <1>2, <1>3, <1>4
<1> QED
  BY <1>5 DEF r

(* ALIGN_UP(s, 8) is the next multiple of 8.                               *)
LEMMA AlignUp8 ==
  ASSUME NEW s \in Nat
  PROVE  LET u == ((s + 8 - 1) \div 8) * 8 IN
         u \in Nat /\ u % 8 = 0 /\ s <= u /\ u < s + 8
OBVIOUS

(* Two stretches of a ring, [x, x+s) and [y, y+t), neither of which goes   *)
(* past the end of its lap, and which both lie in one window of b bytes    *)
(* without overlapping, have no place in common.                           *)
LEMMA Apart ==
  ASSUME NEW b \in Nat \ {0}, NEW x \in Nat, NEW s \in Nat, NEW y \in Nat,
         NEW t \in Nat,
         (x % b) + s <= b, (y % b) + t <= b,
         x + s <= y, y + t <= x + b
  PROVE  (x % b) + s <= y % b \/ (y % b) + t <= x % b
<1> DEFINE d == y - x
<1>1. d \in 0 .. b /\ y = x + d
  OBVIOUS
<1>2. x % b \in 0 .. b - 1 /\ y % b \in 0 .. b - 1
  BY ModRange
<1>3. CASE (x % b) + d < b
  <2>1. (x + d) % b = (x % b) + d
    BY <1>1, <1>3, ModSameLap
  <2> QED
    BY <1>1, <1>2, <2>1
<1>4. CASE (x % b) + d >= b
  <2>1. (x + d) % b = ((x % b) + d) - b
    BY <1>1, <1>4, ModNextLap
  <2> QED
    BY <1>1, <1>2, <2>1
<1>5. (x % b) + d < b \/ (x % b) + d >= b
  BY <1>1, <1>2
<1> QED
  BY <1>3, <1>4, <1>5, Zenon

=============================================================================
