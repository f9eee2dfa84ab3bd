--------------------------- MODULE ScheduledProofs ---------------------------
(* Proofs about the scheduled messages, for any number of authors, rows,      *)
(* dispatchers, errors and crashes: the arithmetic of recurrences and the     *)
(* walk that computes it, the rows and the dispatcher, the series and the     *)
(* promise of ScheduledPromise they keep.                                     *)
EXTENDS MCSeries, InductionLemmas

-------------------------------------------------------------------------------
(* The arithmetic of recurrences, for every length D of the day, every       *)
(* occurrence t that fired and every clock: once here, for the dispatcher's  *)
(* day and for the day of the arithmetic in MCSeries.                        *)

Kinds == {"daily", "weekly", "weekdays"}
Weekend(D, u) == (u \div D) % 7 \in {5, 6}
Slot(D, t, kind, u) ==
    \/ kind = "daily"    /\ (u - t) % D = 0
    \/ kind = "weekly"   /\ (u - t) % (7 * D) = 0
    \/ kind = "weekdays" /\ (u - t) % D = 0 /\ ~Weekend(D, u)

\* u is the first slot after both t and c.
FirstSlot(D, t, kind, c, u) ==
    /\ u \in Nat /\ u > t /\ u > c /\ Slot(D, t, kind, u)
    /\ \A v \in Nat : v > t /\ v > c /\ Slot(D, t, kind, v) => u <= v

Ahead(D, t, kind, c) ==
    {u \in (Later(t, c) + 1)..(Later(t, c) + 7 * D) : Slot(D, t, kind, u)}

(* Integer division rounds down. *)
LEMMA DivBounds ==
    ASSUME NEW d \in Nat \ {0}, NEW x \in Nat
    PROVE  x \div d \in Nat /\ d * (x \div d) <= x /\ x < d * (x \div d) + d
  BY Z3

LEMMA MultipleMod ==
    ASSUME NEW d \in Nat \ {0}, NEW q \in Nat
    PROVE  (d * q) % d = 0
  BY Z3

(* A multiple of d is d times its quotient. *)
LEMMA ModIsMultiple ==
    ASSUME NEW d \in Nat \ {0}, NEW x \in Nat, x % d = 0
    PROVE  x \div d \in Nat /\ x = d * (x \div d)
  BY Z3

(* Sums and differences of multiples are multiples. *)
LEMMA ModSum ==
    ASSUME NEW d \in Nat \ {0}, NEW x \in Nat, NEW y \in Nat, x % d = 0
    PROVE  (x + y) % d = 0 <=> y % d = 0
<1>1. PICK q \in Nat : x = d * q
  BY ModIsMultiple
<1>2. ASSUME y % d = 0 PROVE (x + y) % d = 0
  <2>1. PICK k \in Nat : y = d * k
    BY <1>2, ModIsMultiple
  <2>2. x + y = d * (q + k) /\ q + k \in Nat
    BY <1>1, <2>1, Z3
  <2> QED
    BY <2>2, MultipleMod
<1>3. ASSUME (x + y) % d = 0 PROVE y % d = 0
  <2>a. x + y \in Nat
    OBVIOUS
  <2>1. PICK k \in Nat : x + y = d * k
    BY <1>3, <2>a, ModIsMultiple
  <2>2. k >= q
    <3>1. d * q <= d * k
      BY <1>1, <2>1
    <3> QED
      BY <3>1, Z3
  <2>3. y = d * (k - q) /\ k - q \in Nat
    BY <1>1, <2>1, <2>2, Z3
  <2> QED
    BY <2>3, MultipleMod
<1> QED
  BY <1>2, <1>3

(* The next multiple of p steps after t that lies beyond now: the slot a   *)
(* daily or weekly series finds.                                           *)
LEMMA NextMultiple ==
    ASSUME NEW p \in Nat \ {0}, NEW t \in Nat, NEW w \in Nat, w >= t
    PROVE  \E q \in Nat : t + p * q \in (w + 1)..(w + p)
<1> DEFINE q == (w - t) \div p
           u == t + p * (q + 1)
<1>1. q \in Nat /\ p * q <= w - t /\ w - t < p * q + p
  BY DivBounds
<1>2. u = t + p * q + p
  BY <1>1, Z3
<1>3. u \in (w + 1)..(w + p)
  <2>1. p * q \in Nat
    BY <1>1, Z3
  <2> QED
    BY <1>1, <1>2, <2>1, Z3
<1>4. q + 1 \in Nat
  BY <1>1
<1> QED
  BY <1>3, <1>4, Zenon

(* A whole number of steps after t is on the grid of the series. *)
LEMMA OnGrid ==
    ASSUME NEW p \in Nat \ {0}, NEW t \in Nat, NEW q \in Nat
    PROVE  /\ t + p * q \in Nat /\ t + p * q >= t
           /\ (t + p * q - t) % p = 0
<1>1. p * q \in Nat /\ t + p * q - t = p * q
  BY Z3
<1> QED
  BY <1>1, MultipleMod

(* Of three consecutive days one is no weekend day. *)
LEMMA WeekdayWithinThreeDays ==
    ASSUME NEW D \in Nat \ {0}, NEW u \in Nat
    PROVE  \E k \in 0..2 : ~Weekend(D, u + k * D)
<1>1. u \div D \in Nat
  BY DivBounds
<1>2. (u + D) \div D = u \div D + 1
  BY Z3
<1>3. (u + 2 * D) \div D = u \div D + 2
  BY Z3
<1> DEFINE n == u \div D
<1>4. n % 7 \in {5, 6} /\ (n + 1) % 7 \in {5, 6} => (n + 2) % 7 \notin {5, 6}
  BY <1>1, Z3
<1>5. CASE n % 7 \notin {5, 6}
  <2>1. u + 0 * D = u
    OBVIOUS
  <2> QED
    BY <1>5, <2>1 DEF Weekend
<1>6. CASE (n + 1) % 7 \notin {5, 6}
  <2>1. u + 1 * D = u + D
    OBVIOUS
  <2> QED
    BY <1>2, <1>6, <2>1 DEF Weekend
<1>7. CASE (n + 2) % 7 \notin {5, 6}
  BY <1>3, <1>7 DEF Weekend
<1> QED
  BY <1>4, <1>5, <1>6, <1>7

(* A series always has a slot in the week after any instant. *)
LEMMA SlotWithinAWeek ==
    ASSUME NEW D \in Nat \ {0}, NEW t \in Nat, NEW c \in Nat, NEW kind \in Kinds
    PROVE  Ahead(D, t, kind, c) # {}
<1> DEFINE w == Later(t, c)
<1>1. w \in Nat /\ w >= t
  BY DEF Later
<1>2. 7 * D \in Nat \ {0}
  OBVIOUS
<1>3. CASE kind = "daily"
  <2>1. PICK q \in Nat : t + D * q \in (w + 1)..(w + D)
    BY <1>1, <1>2, NextMultiple
  <2> DEFINE u == t + D * q
  <2>2. u \in (w + 1)..(w + 7 * D)
    BY <1>1, <1>2, <2>1
  <2>3. Slot(D, t, kind, u)
    BY <1>2, <1>3, OnGrid DEF Slot
  <2> QED
    BY <2>2, <2>3, Zenon DEF Ahead
<1>4. CASE kind = "weekly"
  <2> DEFINE p == 7 * D
  <2>1. p \in Nat \ {0}
    BY <1>2
  <2> HIDE DEF p
  <2>2. PICK q \in Nat : t + p * q \in (w + 1)..(w + p)
    BY <1>1, <2>1, NextMultiple
  <2> DEFINE u == t + p * q
  <2>3. (u - t) % p = 0
    BY <2>1, OnGrid
  <2> USE DEF p
  <2>4. Slot(D, t, kind, u)
    BY <1>4, <2>3, Zenon DEF Slot
  <2> QED
    BY <2>2, <2>4, Zenon DEF Ahead
<1>5. CASE kind = "weekdays"
  <2>1. PICK q \in Nat : t + D * q \in (w + 1)..(w + D)
    BY <1>1, <1>2, NextMultiple
  <2>2. t + D * q \in Nat
    BY <1>2, OnGrid
  <2>3. PICK k \in 0..2 : ~Weekend(D, t + D * q + k * D)
    BY <2>2, WeekdayWithinThreeDays
  <2> DEFINE u == t + D * (q + k)
  <2>4. t + D * q + k * D = u
    BY <1>2, <2>3, Z3
  <2>5. u \in (w + 1)..(w + 7 * D)
    BY <1>1, <1>2, <2>1, <2>2, <2>4, Z3
  <2>6. (u - t) % D = 0
    BY <1>2, OnGrid
  <2>7. Slot(D, t, kind, u)
    BY <1>5, <2>3, <2>4, <2>6, Zenon DEF Slot
  <2> QED
    BY <2>5, <2>7, Zenon DEF Ahead
<1> QED
  BY <1>3, <1>4, <1>5 DEF Kinds

(* What the search over the week ahead chooses is the first slot of all. *)
LEMMA SearchFindsFirstSlot ==
    ASSUME NEW D \in Nat \ {0}, NEW t \in Nat, NEW c \in Nat, NEW kind \in Kinds
    PROVE  LET S == Ahead(D, t, kind, c)
           IN  FirstSlot(D, t, kind, c, CHOOSE u \in S : \A v \in S : u <= v)
<1> DEFINE S == Ahead(D, t, kind, c)
           w == Later(t, c)
           p == 7 * D
<1>1. w \in Nat /\ w >= t /\ w >= c /\ (w = t \/ w = c) /\ p \in Nat \ {0}
  BY DEF Later
<1>2. S = {u \in (w + 1)..(w + p) : Slot(D, t, kind, u)}
  BY Zenon DEF Ahead
<1>3. S # {}
  BY SlotWithinAWeek
<1> HIDE DEF S, w, p
<1>4. S \in SUBSET Nat
  BY <1>1, <1>2
<1>5. \E u \in S : \A v \in S : u <= v
  BY <1>3, <1>4, LeastNatural
<1> DEFINE n == CHOOSE u \in S : \A v \in S : u <= v
<1>6. n \in S /\ \A v \in S : n <= v
  BY <1>5
<1> HIDE DEF n
<1>7. n \in (w + 1)..(w + p) /\ Slot(D, t, kind, n)
  BY <1>2, <1>6
<1>8. ASSUME NEW v \in Nat, v > t, v > c, Slot(D, t, kind, v) PROVE n <= v
  <2>1. CASE v \in (w + 1)..(w + p)
    BY <1>2, <1>6, <1>8, <2>1
  <2>2. CASE v \notin (w + 1)..(w + p)
    BY <1>1, <1>7, <1>8, <2>2
  <2> QED
    BY <2>1, <2>2
<1>9. FirstSlot(D, t, kind, c, n)
  BY <1>1, <1>7, <1>8 DEF FirstSlot
<1> QED
  BY <1>9 DEF n, S

(* There is but one first slot. *)
LEMMA FirstSlotIsUnique ==
    ASSUME NEW D, NEW t \in Nat, NEW c \in Nat, NEW kind, NEW u, NEW v,
           FirstSlot(D, t, kind, c, u), FirstSlot(D, t, kind, c, v)
    PROVE  u = v
<1>1. u <= v /\ v <= u /\ u \in Nat /\ v \in Nat
  BY DEF FirstSlot
<1> QED
  BY <1>1

(* Days to the next day of the working week. *)
Skips(D, u, k) == ~Weekend(D, u + k * D) /\ \A j \in 1..(k - 1) : Weekend(D, u + j * D)

LEMMA SkipExists ==
    ASSUME NEW D \in Nat \ {0}, NEW u \in Nat PROVE \E k \in 1..3 : Skips(D, u, k)
<1>1. PICK j \in 0..2 : ~Weekend(D, (u + D) + j * D)
  BY WeekdayWithinThreeDays
<1>2. /\ u + 1 * D = (u + D) + 0 * D /\ u + 2 * D = (u + D) + 1 * D
      /\ u + 3 * D = (u + D) + 2 * D
  OBVIOUS
<1>3. \E k \in 1..3 : ~Weekend(D, u + k * D)
  <2>1. CASE j = 0
    BY <1>1, <1>2, <2>1
  <2>2. CASE j = 1
    BY <1>1, <1>2, <2>2
  <2>3. CASE j = 2
    BY <1>1, <1>2, <2>3
  <2> QED
    BY <2>1, <2>2, <2>3
<1> DEFINE S == {k \in 1..3 : ~Weekend(D, u + k * D)}
<1>4. PICK k \in S : \A j2 \in S : k <= j2
  <2>1. S \in SUBSET Nat /\ S # {}
    BY <1>3
  <2> HIDE DEF S
  <2> QED
    BY <2>1, LeastNatural
<1>5. \A i \in 1..(k - 1) : i \in 1..3 /\ i \notin S
  BY <1>4
<1> QED
  BY <1>4, <1>5 DEF Skips

\* The step between slots, and where it leads from u.
Period(D, kind) == IF kind = "weekly" THEN 7 * D ELSE D
Leads(D, kind, u, v) ==
    \/ kind = "daily" /\ v = u + D
    \/ kind = "weekly" /\ v = u + 7 * D
    \/ kind = "weekdays" /\ \E k \in 1..3 : Skips(D, u, k) /\ v = u + k * D

StepsFrom(u, d) == {u + j * d : j \in Nat \ {0}}

(* Of the multiples of d after t, those after u are whole steps away. *)
LEMMA StepsApart ==
    ASSUME NEW d \in Nat \ {0}, NEW t \in Nat, NEW u \in Nat, NEW v \in Nat,
           u >= t, (u - t) % d = 0, v > u, (v - t) % d = 0
    PROVE  v \in StepsFrom(u, d)
<1>1. u - t \in Nat /\ v - u \in Nat /\ (u - t) + (v - u) = v - t
  OBVIOUS
<1>2. (v - u) % d = 0
  BY <1>1, ModSum
<1>3. PICK q \in Nat : v - u = d * q
  BY <1>1, <1>2, ModIsMultiple
<1>4. q # 0
  <2>1. d * 0 = 0
    OBVIOUS
  <2> QED
    BY <1>3, <2>1
<1>5. v = u + q * d
  <2>1. d * q = q * d
    BY Z3
  <2> QED
    BY <1>3, <2>1
<1> QED
  BY <1>4, <1>5 DEF StepsFrom

(* A step leads from a slot, or from the occurrence that fired, to the next  *)
(* slot, and a day ahead at least.                                           *)
LEMMA StepFindsNextSlot ==
    ASSUME NEW D \in Nat \ {0}, NEW t \in Nat, NEW kind \in Kinds, NEW u \in Nat, u >= t,
           (u - t) % Period(D, kind) = 0, NEW v, Leads(D, kind, u, v)
    PROVE  FirstSlot(D, t, kind, u, v) /\ v >= u + D /\ (v - t) % Period(D, kind) = 0
<1>0. Period(D, kind) \in Nat \ {0}
  BY DEF Period
<1> PICK p \in Nat \ {0} : p = Period(D, kind)
  BY <1>0
<1>1. (u - t) % p = 0 /\ (kind # "weekly" => p = D) /\ (kind = "weekly" => p = 7 * D)
  BY DEF Period
<1>2. PICK k \in 1..3 : /\ v = u + k * p /\ (kind # "weekdays" => k = 1)
                        /\ kind = "weekdays" => Skips(D, u, k)
  <2>1. CASE kind = "weekdays"
    BY <1>1, <2>1 DEF Leads
  <2>2. CASE kind # "weekdays"
    <3>1. v = u + p
      BY <1>1, <2>2 DEF Leads, Kinds
    <3>2. 1 \in 1..3 /\ 1 * p = p
      OBVIOUS
    <3> QED
      BY <2>2, <3>1, <3>2
  <2> QED
    BY <2>1, <2>2
<1>3. k * p \in Nat /\ k * p >= p /\ p >= D
  <2>1. k = 1 \/ k = 2 \/ k = 3
    OBVIOUS
  <2> QED
    BY <1>1, <2>1
<1> PICK m \in Nat : m = k * p
  BY <1>3
<1>4. v = u + m /\ v \in Nat /\ v >= u + D /\ v > u
  BY <1>2, <1>3
<1>5. (v - t) % p = 0
  <2>1. m % p = 0
    <3>1. m = p * k
      BY Z3
    <3> QED
      BY <3>1, MultipleMod
  <2> PICK x \in Nat : x = u - t
    OBVIOUS
  <2>2. x % p = 0 /\ v - t = x + m
    BY <1>1, <1>4
  <2>3. (x + m) % p = 0
    BY <2>1, <2>2, ModSum
  <2> QED
    BY <2>2, <2>3
<1>6. Slot(D, t, kind, v)
  <2>1. kind = "weekdays" => ~Weekend(D, v)
    BY <1>1, <1>2 DEF Skips
  <2> QED
    BY <1>1, <1>5, <2>1 DEF Slot, Kinds
<1>7. ASSUME NEW w \in Nat, w > u, Slot(D, t, kind, w) PROVE v <= w
  <2>1. (w - t) % p = 0
    BY <1>1, <1>7 DEF Slot
  <2>2. PICK j \in Nat \ {0} : w = u + j * p
    <3>1. w \in StepsFrom(u, p)
      BY <1>1, <1>7, <2>1, StepsApart
    <3> QED
      BY <3>1 DEF StepsFrom
  <2>3. j >= k
    <3>1. CASE kind = "weekdays"
      <4>1. ~Weekend(D, u + j * D)
        BY <1>1, <1>7, <2>2, <3>1 DEF Slot
      <4>2. j \notin 1..(k - 1)
        BY <1>2, <3>1, <4>1 DEF Skips
      <4> QED
        BY <4>2
    <3>2. CASE kind # "weekdays"
      BY <1>2, <3>2
    <3> QED
      BY <3>1, <3>2
  <2>4. j * p >= k * p
    BY <1>1, <2>3, Z3
  <2> QED
    BY <1>1, <1>2, <1>3, <2>2, <2>4
<1>8. FirstSlot(D, t, kind, u, v)
  BY <1>4, <1>6, <1>7 DEF FirstSlot
<1> QED
  BY <1>4, <1>5, <1>8

(* A walk that starts with a step from t, and steps on until it passes c. *)
Walks(D, t, kind, c, F) ==
    /\ F \in [Nat -> Nat] /\ Leads(D, kind, t, F[0])
    /\ \A i \in Nat \ {0} :
          IF F[i - 1] > c THEN F[i] = F[i - 1] ELSE Leads(D, kind, F[i - 1], F[i])

(* Where the walk stands after k more steps. *)
Stands(D, t, kind, c, u, k) ==
    /\ u \in Nat /\ u > t /\ Slot(D, t, kind, u) /\ (u - t) % Period(D, kind) = 0
    /\ \A v \in Nat : v > t /\ v > c /\ Slot(D, t, kind, v) => u <= v
    /\ u > c \/ u >= (k + 1) * D

(* Given steps enough, a walk stops at the first slot after now. *)
LEMMA WalkFindsFirstSlot ==
    ASSUME NEW D \in Nat \ {0}, NEW A \in Nat \ {0}, NEW t \in Nat, NEW kind \in Kinds,
           NEW c \in Nat, c < A * D, NEW F, Walks(D, t, kind, c, F)
    PROVE  FirstSlot(D, t, kind, c, F[A - 1])
<1> DEFINE S == {i \in 0..(A - 1) : Stands(D, t, kind, c, F[i], i)}
<1>1. 0 \in S
  <2>1. (t - t) % Period(D, kind) = 0
    <3>1. Period(D, kind) \in Nat \ {0} /\ t - t = Period(D, kind) * 0
      BY DEF Period
    <3> QED
      BY <3>1, MultipleMod
  <2>2. /\ FirstSlot(D, t, kind, t, F[0]) /\ F[0] >= t + D
        /\ (F[0] - t) % Period(D, kind) = 0
    BY <2>1, StepFindsNextSlot DEF Walks
  <2>3. F[0] \in Nat /\ F[0] >= (0 + 1) * D
    BY <2>2 DEF FirstSlot
  <2>4. Stands(D, t, kind, c, F[0], 0)
    BY <2>2, <2>3 DEF Stands, FirstSlot
  <2> QED
    BY <2>4
<1>2. ASSUME NEW i \in 0..(A - 2), i \in S PROVE i + 1 \in S
  <2>1. i + 1 \in Nat \ {0} /\ (i + 1) - 1 = i /\ Stands(D, t, kind, c, F[i], i)
        /\ i + 1 \in 0..(A - 1)
    BY <1>2
  <2>2. CASE F[i] > c
    <3>1. F[i + 1] = F[i]
      BY <2>1, <2>2 DEF Walks
    <3> QED
      BY <2>1, <2>2, <3>1 DEF Stands
  <2>3. CASE ~(F[i] > c)
    <3>1. Leads(D, kind, F[i], F[i + 1])
      BY <2>1, <2>3 DEF Walks
    <3>2. F[i] \in Nat /\ F[i] >= t /\ F[i] <= c /\ F[i] >= (i + 1) * D
      BY <2>1, <2>3 DEF Stands
    <3>3. /\ FirstSlot(D, t, kind, F[i], F[i + 1]) /\ F[i + 1] >= F[i] + D
          /\ (F[i + 1] - t) % Period(D, kind) = 0
      BY <2>1, <3>1, <3>2, StepFindsNextSlot DEF Stands
    <3>4. F[i + 1] >= (i + 2) * D
      <4>1. (i + 2) * D = (i + 1) * D + D
        BY Z3
      <4> QED
        BY <3>2, <3>3, <4>1 DEF FirstSlot
    <3>5. Stands(D, t, kind, c, F[i + 1], i + 1)
      <4>1. \A v \in Nat : v > t /\ v > c /\ Slot(D, t, kind, v) => F[i + 1] <= v
        BY <3>2, <3>3 DEF FirstSlot
      <4>2. (i + 1) + 1 = i + 2
        OBVIOUS
      <4> QED
        BY <3>3, <3>4, <4>1, <4>2 DEF Stands, FirstSlot
    <3> QED
      BY <2>1, <3>5
  <2> QED
    BY <2>2, <2>3
<1> HIDE DEF S
<1>3. 0..(A - 1) \subseteq S
  <2>1. A - 1 \in Nat /\ (A - 1) - 1 = A - 2
    OBVIOUS
  <2> QED
    BY <1>1, <1>2, <2>1, SetInduction
<1>4. Stands(D, t, kind, c, F[A - 1], A - 1)
  BY <1>3 DEF S
<1>5. ((A - 1) + 1) * D = A * D /\ A * D \in Nat
  BY Z3
<1> QED
  BY <1>4, <1>5 DEF Stands, FirstSlot

(* Catching up: from a slot that has passed, the next slot after now is the  *)
(* one it would have been from where the series began.                       *)
LEMMA FirstSlotMeets ==
    ASSUME NEW D \in Nat \ {0}, NEW t \in Nat, NEW kind \in Kinds, NEW c \in Nat,
           NEW f, FirstSlot(D, t, kind, 0, f), f <= c, NEW u, FirstSlot(D, t, kind, c, u)
    PROVE  FirstSlot(D, f, kind, c, u)
<1>1. f \in Nat /\ f > t /\ Slot(D, t, kind, f) /\ u \in Nat /\ u > c
  BY DEF FirstSlot
<1>2. ASSUME NEW v \in Nat, v > f PROVE Slot(D, t, kind, v) <=> Slot(D, f, kind, v)
  <2> DEFINE p == Period(D, kind)
  <2>1. p \in Nat \ {0} /\ (kind # "weekly" => p = D) /\ (kind = "weekly" => p = 7 * D)
    BY DEF Period
  <2>2. (f - t) % p = 0
    BY <1>1, <2>1 DEF Slot
  <2>3. f - t \in Nat /\ v - f \in Nat /\ (f - t) + (v - f) = v - t
    BY <1>1, <1>2
  <2>4. (v - t) % p = 0 <=> (v - f) % p = 0
    <3> HIDE DEF p
    <3> QED
      BY <2>1, <2>2, <2>3, ModSum
  <2> QED
    BY <2>1, <2>4 DEF Slot
<1> QED
  BY <1>1, <1>2 DEF FirstSlot

-------------------------------------------------------------------------------
(* The two days the arithmetic is used with: the dispatcher's, and the one   *)
(* of the walk in MCSeries.                                                  *)

(* The occurrence the dispatcher enqueues is a slot of the series after    *)
(* both now and the occurrence that fired, and the first one: nothing is   *)
(* replayed and nothing that is still to come is skipped.  This is what    *)
(* next_occurrence's doc promises, for every clock and length of outage.   *)
THEOREM NextOccurrenceIsFirstFutureSlot ==
    ASSUME NEW t \in Nat, NEW c \in Nat, NEW kind \in RepeatKinds \ {"none"}
    PROVE  LET n == NextOccurrence(t, kind, c)
           IN  /\ n \in Nat /\ n > c /\ n > t
               /\ IsSlot(t, kind, n)
               /\ \A u \in Nat : u > t /\ u > c /\ IsSlot(t, kind, u) => n <= u
<1>1. kind \in Kinds /\ Day \in Nat \ {0}
  BY DayAssumption DEF RepeatKinds, Kinds
<1>2. \A u : IsSlot(t, kind, u) <=> Slot(Day, t, kind, u)
  BY DEF IsSlot, IsWeekend, Weekday, Slot, Weekend
<1>3. SlotsAfter(t, kind, c) = Ahead(Day, t, kind, c)
  BY <1>2 DEF SlotsAfter, Ahead
<1>4. FirstSlot(Day, t, kind, c, NextOccurrence(t, kind, c))
  BY <1>1, <1>3, SearchFindsFirstSlot DEF NextOccurrence
<1> QED
  BY <1>2, <1>4 DEF FirstSlot

(* A step of the walk leads to a slot. *)
LEMMA WalkSteps ==
    ASSUME NEW u \in Nat, NEW kind \in Kinds
    PROVE  R!Step(u, kind) \in Nat /\ Leads(CheckDay, kind, u, R!Step(u, kind))
<1>1. CheckDay \in Nat \ {0}
  BY HorizonAssumption
<1>2. CASE kind = "daily"
  BY <1>1, <1>2 DEF R!Step, Leads
<1>3. CASE kind = "weekly"
  BY <1>1, <1>3 DEF R!Step, Leads
<1>4. CASE kind = "weekdays"
  <2>1. \A v : R!IsWeekend(v) <=> Weekend(CheckDay, v)
    BY DEF R!IsWeekend, R!Weekday, Weekend
  <2>2. R!DaysToNextWeekday(u) \in 1..3 /\ Skips(CheckDay, u, R!DaysToNextWeekday(u))
    <3>1. \E k \in 1..3 : Skips(CheckDay, u, k)
      BY <1>1, SkipExists
    <3>2. \A k \in 1..3 : Skips(CheckDay, u, k) <=>
              /\ ~R!IsWeekend(u + k * CheckDay)
              /\ \A j \in 1..(k - 1) : R!IsWeekend(u + j * CheckDay)
      BY <2>1 DEF Skips
    <3> QED
      BY <3>1, <3>2 DEF R!DaysToNextWeekday
  <2> PICK k \in 1..3 : k = R!DaysToNextWeekday(u)
    BY <2>2
  <2>3. R!Step(u, kind) = u + k * CheckDay
    BY <1>4 DEF R!Step
  <2>4. u + k * CheckDay \in Nat
    <3>1. k = 1 \/ k = 2 \/ k = 3
      OBVIOUS
    <3> QED
      BY <1>1, <3>1
  <2> QED
    BY <1>4, <2>2, <2>3, <2>4 DEF Leads
<1> QED
  BY <1>2, <1>3, <1>4 DEF Kinds

(* The walk, which the code writes as a loop, is a walk between slots. *)
LEMMA WalkWalks ==
    ASSUME NEW t \in Nat, NEW kind \in Kinds, NEW c \in Nat
    PROVE  Walks(CheckDay, t, kind, c, R!Walk(t, kind, c))
<1> DEFINE Onwards(u) == IF u > c THEN u ELSE R!Step(u, kind)
           G == [i \in Nat \ {0} |-> [u \in Nat |-> Onwards(u)]]
           Eqn(F) == F = [k \in Nat |-> IF k = 0 THEN R!Step(t, kind) ELSE Onwards(F[k - 1])]
           W1 == CHOOSE F : Eqn(F)
<1>1. \A u \in Nat : Onwards(u) \in Nat
  BY WalkSteps
<1>2. R!Walk(t, kind, c) = W1
  BY DEF R!Walk, R!Passed
<1> HIDE DEF Onwards
<1>3. G \in [Nat \ {0} -> [Nat -> Nat]]
  BY <1>1
<1>4. PICK f \in [Nat -> Nat] :
          f[0] = R!Step(t, kind) /\ \A i \in Nat \ {0} : f[i] = G[i][f[i - 1]]
  <2> PICK first \in Nat : first = R!Step(t, kind)
    BY WalkSteps
  <2> HIDE DEF G
  <2>1. PICK f : NatRecursive(f, Nat, first, G)
    BY <1>3, NatRecursionExists
  <2> QED
    BY <2>1 DEF NatRecursive
<1>5. Eqn(f)
  <2>1. ASSUME NEW i \in Nat \ {0} PROVE f[i] = Onwards(f[i - 1])
    <3>1. i - 1 \in Nat /\ f[i - 1] \in Nat
      OBVIOUS
    <3>2. f[i] = G[i][f[i - 1]]
      BY <1>4
    <3> QED
      BY <3>1, <3>2
  <2>2. \A i \in Nat : f[i] = IF i = 0 THEN R!Step(t, kind) ELSE Onwards(f[i - 1])
    BY <1>4, <2>1
  <2>3. f = [k \in Nat |-> f[k]]
    OBVIOUS
  <2> HIDE DEF G
  <2> QED
    BY <2>2, <2>3, Zenon
<1>6. Eqn(W1)
  <2> HIDE DEF Eqn
  <2> QED
    BY <1>5
<1> HIDE DEF W1
<1>7. /\ W1[0] = R!Step(t, kind)
      /\ \A i \in Nat \ {0} : W1[i] = Onwards(W1[i - 1])
  BY <1>6
<1>8. W1 \in [Nat -> Nat]
  <2>1. \A n \in Nat : W1[n] \in Nat
    <3> SUFFICES ASSUME NEW n \in Nat PROVE W1[n] \in Nat
      OBVIOUS
    <3> DEFINE S == {i \in 0..n : W1[i] \in Nat}
    <3>1. 0 \in S
      BY <1>7, WalkSteps
    <3>2. ASSUME NEW i \in 0..(n - 1), i \in S PROVE i + 1 \in S
      <4>1. W1[i + 1] = Onwards(W1[i]) /\ W1[i] \in Nat
        BY <1>7, <3>2
      <4> QED
        BY <1>1, <4>1
    <3> HIDE DEF S
    <3>3. 0..n \subseteq S
      BY <3>1, <3>2, SetInduction
    <3>4. n \in S
      BY <3>3
    <3> QED
      BY <3>4 DEF S
  <2>2. W1 = [k \in Nat |-> W1[k]]
    BY <1>6
  <2> HIDE DEF Eqn
  <2> QED
    BY <2>1, <2>2
<1>9. Leads(CheckDay, kind, t, W1[0])
  BY <1>7, WalkSteps
<1>10. ASSUME NEW i \in Nat \ {0}
       PROVE  IF W1[i - 1] > c THEN W1[i] = W1[i - 1]
              ELSE Leads(CheckDay, kind, W1[i - 1], W1[i])
  <2>1. W1[i] = Onwards(W1[i - 1]) /\ W1[i - 1] \in Nat
    BY <1>7, <1>8
  <2> QED
    BY <2>1, WalkSteps DEF Onwards
<1> QED
  BY <1>2, <1>8, <1>9, <1>10 DEF Walks

(* The walk of the code and the search find the first slot: the walk when    *)
(* its steps, a day each at least, reach beyond the clock.                   *)
LEMMA LoopFindsFirstSlot ==
    ASSUME NEW t \in Nat, NEW kind \in Kinds, NEW c \in 0..Horizon
    PROVE  /\ FirstSlot(CheckDay, t, kind, c, R!LoopResult(t, kind, c))
           /\ FirstSlot(CheckDay, t, kind, c, R!NextOccurrence(t, kind, c))
<1>1. CheckDay \in Nat \ {0} /\ CheckAdvance \in Nat \ {0} /\ c \in Nat
      /\ c < CheckAdvance * CheckDay
  <2>1. CheckAdvance * CheckDay \in Nat
    BY HorizonAssumption, Z3
  <2> QED
    BY <2>1, HorizonAssumption
<1>2. FirstSlot(CheckDay, t, kind, c, R!LoopResult(t, kind, c))
  BY <1>1, WalkWalks, WalkFindsFirstSlot DEF R!LoopResult
<1>3. \A u : R!IsSlot(t, kind, u) <=> Slot(CheckDay, t, kind, u)
  BY DEF R!IsSlot, R!IsWeekend, R!Weekday, Slot, Weekend
<1>4. R!SlotsAfter(t, kind, c) = Ahead(CheckDay, t, kind, c)
  BY <1>3 DEF R!SlotsAfter, R!Later, Later, Ahead
<1>5. FirstSlot(CheckDay, t, kind, c, R!NextOccurrence(t, kind, c))
  BY <1>1, <1>4, SearchFindsFirstSlot DEF R!NextOccurrence
<1> QED
  BY <1>2, <1>5

(* The inputs stay what the dispatcher can meet. *)
InputsOK ==
    part = "arithmetic" => fired \in Nat /\ repeat \in Kinds /\ clock \in 0..Horizon

LEMMA InputsGive == InputsOK => RecurrenceIsRight
<1> SUFFICES ASSUME InputsOK, part = "arithmetic"
             PROVE  R!WalkFindsNextSlot /\ R!CatchUpMeetsSeries
  BY DEF RecurrenceIsRight
<1>1. fired \in Nat /\ repeat \in Kinds /\ clock \in 0..Horizon /\ 0 \in 0..Horizon
      /\ clock \in Nat /\ CheckDay \in Nat \ {0}
  BY HorizonAssumption DEF InputsOK
<1>2. R!WalkFindsNextSlot
  <2>1. R!LoopResult(fired, repeat, clock) = R!NextOccurrence(fired, repeat, clock)
    BY <1>1, LoopFindsFirstSlot, FirstSlotIsUnique
  <2> QED
    BY <2>1 DEF R!WalkFindsNextSlot
<1>3. R!CatchUpMeetsSeries
  <2> PICK first : first = R!LoopResult(fired, repeat, 0)
    OBVIOUS
  <2> PICK u : u = R!LoopResult(fired, repeat, clock)
    OBVIOUS
  <2>1. /\ FirstSlot(CheckDay, fired, repeat, 0, first)
        /\ FirstSlot(CheckDay, fired, repeat, clock, u) /\ first \in Nat
    BY <1>1, LoopFindsFirstSlot DEF FirstSlot
  <2>2. ASSUME first <= clock PROVE R!LoopResult(first, repeat, clock) = u
    <3>1. FirstSlot(CheckDay, first, repeat, clock, u)
      BY <1>1, <2>1, <2>2, FirstSlotMeets
    <3>2. FirstSlot(CheckDay, first, repeat, clock, R!LoopResult(first, repeat, clock))
      BY <1>1, <2>1, LoopFindsFirstSlot
    <3> QED
      BY <1>1, <2>1, <3>1, <3>2, FirstSlotIsUnique
  <2> QED
    BY <2>2 DEF R!CatchUpMeetsSeries
<1> QED
  BY <1>2, <1>3

(* The walk of next_occurrence_from finds the first slot after now, and a    *)
(* series that caught up in one jump meets the one that advanced slot by     *)
(* slot: for any day, any occurrence that fired and any clock that the steps *)
(* of the walk reach.                                                        *)
THEOREM RecurrenceIsAlwaysRight == SeriesSpec => []RecurrenceIsRight
<1>1. SeriesInit => InputsOK
  <2>1. R!Init => fired \in Nat /\ repeat \in Kinds /\ clock \in 0..Horizon
    BY HorizonAssumption DEF R!Init, R!RepeatKinds, Kinds
  <2> QED
    BY <2>1 DEF SeriesInit, InputsOK
<1>2. InputsOK /\ [SeriesNext]_<<part, vars, inputs>> => InputsOK'
  BY HorizonAssumption
     DEF SeriesNext, Rows, Arithmetic, R!Tick, inputs, InputsOK
<1> QED
  BY <1>1, <1>2, InputsGive, PTL DEF SeriesSpec

-------------------------------------------------------------------------------
USE DEF RowIds, MsgIds, Instants

-------------------------------------------------------------------------------
(* Types of the operators the actions are built from *)

LEMMA NoRowIsNoRow == NoRow \notin Row
  BY DEF NoRow, Row

LEMMA NoMessageIsNoMessage == NoMessage \notin Message
  BY DEF NoMessage, Message

LEMMA ExistingRow ==
    ASSUME TypeOK, NEW r \in RowIds
    PROVE  /\ Exists(r) => rows[r] \in Row
           /\ Pending(r) => Exists(r)
           /\ rows[r].status = "delivered" => Exists(r)
  BY DEF TypeOK, Exists, Pending, NoRow

LEMMA BackoffType == ASSUME NEW a \in Nat PROVE Backoff(a) \in Nat
<1>1. \A i \in 1..9 : BackoffMinutes[i] \in Nat
  BY DEF BackoffMinutes
<1>2. (IF a < 8 THEN a + 1 ELSE 9) \in 1..9
  OBVIOUS
<1> QED
  BY <1>1, <1>2 DEF Backoff

LEMMA NewRowType ==
    ASSUME NEW u \in Users, NEW b \in Bodies, NEW due \in Nat,
           NEW f \in Files \cup {NoFile}, NEW rep \in Repeats, NEW o \in RowIds
    PROVE  NewRow(u, b, due, f, rep, o) \in Row
  BY DEF NewRow, Row

LEMMA EditedType ==
    ASSUME NEW row \in Row, NEW b \in Bodies, NEW due \in Nat,
           NEW f \in Files \cup {NoFile}
    PROVE  Edited(row, b, due, f) \in Row
  BY DEF Edited, Row

LEMMA AcceptedDueType == AcceptedDue \subseteq Nat
  BY ScheduleAssumption DEF AcceptedDue

LEMMA RequestType ==
    ASSUME TypeOK, NEW u \in Users, req[u].op \in {"post", "patch"}
    PROVE  req[u] \in Request
<1>1. req[u] \in Request \cup {NoRequest}
  BY DEF TypeOK
<1>2. NoRequest.op = "none"
  BY DEF NoRequest
<1> QED
  BY <1>1, <1>2

LEMMA SuccessorType ==
    ASSUME TypeOK, NEW row \in Row, row.repeat # "none"
    PROVE  Successor(row) \in Row
<1>1. row.due \in Nat /\ now \in Nat /\ row.repeat \in RepeatKinds \ {"none"}
  BY ScheduleAssumption DEF TypeOK, Row
<1>2. NextOccurrence(row.due, row.repeat, now) \in Nat
  BY <1>1, NextOccurrenceIsFirstFutureSlot
<1>3. row.user \in Users /\ row.body \in Bodies /\ row.repeat \in Repeats /\ row.origin \in RowIds
  BY DEF Row
<1> QED
  BY <1>2, <1>3, NewRowType DEF Successor

LEMMA IdleType == Idle \in TickState
  BY DEF Idle, TickState

LEMMA DoneType ==
    ASSUME TypeOK, NEW d \in Dispatchers
    PROVE  Done(d) \in TickState
  BY IdleType DEF TypeOK, Done, TickState

LEMMA SnapshotType ==
    ASSUME TypeOK, SnapshotsAreOld, NEW d \in Dispatchers,
           disp[d].pc \in {"deliver", "drop", "link"}
    PROVE  disp[d].cur \in RowIds /\ Snapshot(d) \in Row
<1>1. disp[d].batch \in [RowIds -> Row \cup {NoRow}]
  BY DEF TypeOK, TickState
<1>2. disp[d].cur \in RowIds /\ disp[d].batch[disp[d].cur] # NoRow
  BY DEF SnapshotsAreOld, Remaining
<1> QED
  BY <1>1, <1>2 DEF Snapshot

-------------------------------------------------------------------------------
(* TypeOK *)

LEMMA TypeInit == Init => TypeOK
  BY ScheduleAssumption, IdleType DEF Init, TypeOK

LEMMA TypeHandler ==
    ASSUME TypeOK, NEW u \in Users, HandlerStep(u)
    PROVE  TypeOK'
<1>1. ASSUME NEW b \in Bodies, NEW f \in AnyFile, NEW rep \in Repeats, PostCheck(u, b, f, rep)
      PROVE  TypeOK'
  BY <1>1 DEF PostCheck, TypeOK, Request, AnyFile
<1>2. ASSUME PostInsert(u)
      PROVE  TypeOK'
  <2>1. req[u] \in Request
    BY <1>2, RequestType DEF PostInsert
  <2>2. req' \in [Users -> Request \cup {NoRequest}]
    BY <1>2 DEF PostInsert, TypeOK
  <2>3. rows' \in [RowIds -> Row \cup {NoRow}] /\ nextId' \in 1..(MaxRows + 1)
    <3>1. CASE UNCHANGED <<rows, nextId>>
      BY <3>1 DEF TypeOK
    <3>2. CASE nextId \in RowIds /\ nextId' = nextId + 1 /\ \E due \in AcceptedDue :
                rows' = [rows EXCEPT ![nextId] =
                    NewRow(u, req[u].body, due, req[u].file, req[u].repeat, nextId)]
      <4>1. \A due \in AcceptedDue :
              NewRow(u, req[u].body, due, req[u].file, req[u].repeat, nextId) \in Row
        BY <2>1, <3>2, NewRowType, AcceptedDueType DEF Request
      <4> QED
        BY <3>2, <4>1, ScheduleAssumption DEF TypeOK
    <3> QED
      BY <1>2, <3>1, <3>2, ScheduleAssumption DEF PostInsert, TypeOK
  <2> QED
    BY <1>2, <2>2, <2>3 DEF PostInsert, TypeOK
<1>3. ASSUME NEW r \in RowIds, NEW b \in Bodies, NEW f \in AnyFile, PatchCheck(u, r, b, f)
      PROVE  TypeOK'
  <2>1. rows[r].repeat \in Repeats
    BY <1>3, ExistingRow DEF PatchCheck, Row
  <2> QED
    BY <1>3, <2>1 DEF PatchCheck, TypeOK, Request, AnyFile
<1>4. ASSUME PatchWrite(u)
      PROVE  TypeOK'
  <2>1. req[u] \in Request
    BY <1>4, RequestType DEF PatchWrite
  <2>2. req' \in [Users -> Request \cup {NoRequest}]
    BY <1>4 DEF PatchWrite, TypeOK
  <2>3. rows' \in [RowIds -> Row \cup {NoRow}]
    <3>1. CASE UNCHANGED rows
      BY <3>1 DEF TypeOK
    <3>2. ASSUME Updatable(u, req[u].row), NEW due \in AcceptedDue,
                  rows' = [rows EXCEPT ![req[u].row] = Edited(@, req[u].body, due, req[u].file)]
          PROVE  rows' \in [RowIds -> Row \cup {NoRow}]
      <4>1. CASE req[u].row \in RowIds
        <5>1. rows[req[u].row] \in Row
          BY <3>2, <4>1, ExistingRow DEF Updatable
        <5>2. req[u].body \in Bodies /\ req[u].file \in Files \cup {NoFile} /\ due \in Nat
          BY <2>1, AcceptedDueType DEF Request
        <5>3. Edited(rows[req[u].row], req[u].body, due, req[u].file) \in Row
          BY <5>1, <5>2, EditedType
        <5> QED
          BY <3>2, <5>3 DEF TypeOK
      <4>2. CASE req[u].row \notin RowIds
        BY <3>2, <4>2 DEF TypeOK
      <4> QED
        BY <4>1, <4>2
    <3> QED
      BY <1>4, <3>1, <3>2 DEF PatchWrite
  <2> QED
    BY <1>4, <2>2, <2>3 DEF PatchWrite, TypeOK
<1>5. ASSUME NEW r \in RowIds, Cancel(u, r)
      PROVE  TypeOK'
  <2>1. rows[r].origin \in RowIds
    BY <1>5, ExistingRow DEF Cancel, Updatable, Row
  <2> QED
    BY <1>5, <2>1 DEF Cancel, TypeOK
<1> QED
  BY <1>1, <1>2, <1>3, <1>4, <1>5 DEF HandlerStep

LEMMA TypeEnvironment ==
    ASSUME TypeOK,
           \/ Tick \/ Crash
           \/ \E u \in Users : ModerateAuthor(u) \/ PurgeChat(u) \/ PurgeAuth(u)
           \/ \E b \in Bodies : ModerateBody(b)
           \/ \E S \in SUBSET RowIds : DeleteRoom(S)
    PROVE  TypeOK'
<1>1. CASE Tick
  BY <1>1 DEF Tick, TypeOK
<1>2. CASE Crash
  BY <1>2, IdleType DEF Crash, TypeOK
<1>3. ASSUME NEW u \in Users, ModerateAuthor(u)
      PROVE  TypeOK'
  BY <1>3 DEF ModerateAuthor, TypeOK
<1>4. ASSUME NEW b \in Bodies, ModerateBody(b)
      PROVE  TypeOK'
  BY <1>4 DEF ModerateBody, TypeOK
<1>5. ASSUME NEW u \in Users, PurgeChat(u)
      PROVE  TypeOK'
  <2>1. {rows[r].origin : r \in OwnedBy(u)} \subseteq RowIds
    BY ExistingRow DEF OwnedBy, Row
  <2>2. rows' \in [RowIds -> Row \cup {NoRow}]
    BY <1>5 DEF PurgeChat, TypeOK
  <2>3. messages' \in [MsgIds -> Message \cup {NoMessage}]
    BY <1>5 DEF PurgeChat, TypeOK
  <2>4. uploads' \in [Files -> MsgIds \cup {Unlinked, Gone}]
    BY <1>5 DEF PurgeChat, TypeOK
  <2> QED
    BY <1>5, <2>1, <2>2, <2>3, <2>4 DEF PurgeChat, TypeOK
<1>6. ASSUME NEW u \in Users, PurgeAuth(u)
      PROVE  TypeOK'
  BY <1>6 DEF PurgeAuth, TypeOK
<1>7. ASSUME NEW S \in SUBSET RowIds, DeleteRoom(S)
      PROVE  TypeOK'
  <2>1. rows' \in [RowIds -> Row \cup {NoRow}]
    BY <1>7 DEF DeleteRoom, TypeOK
  <2>2. messages' \in [MsgIds -> Message \cup {NoMessage}]
    BY <1>7 DEF DeleteRoom, TypeOK
  <2>3. uploads' \in [Files -> MsgIds \cup {Unlinked, Gone}]
    BY <1>7 DEF DeleteRoom, TypeOK
  <2> QED
    BY <1>7, <2>1, <2>2, <2>3 DEF DeleteRoom, TypeOK
<1> QED
  BY <1>1, <1>2, <1>3, <1>4, <1>5, <1>6, <1>7

LEMMA TypeDispatch ==
    ASSUME TypeOK, SnapshotsAreOld, NEW d \in Dispatchers, DispatchStep(d)
    PROVE  TypeOK'
<1>1. CASE SelectDue(d)
  <2>1. PICK S \in SUBSET Due :
          disp' = [disp EXCEPT ![d] =
                [pc |-> "next", cur |-> 0, msg |-> 0,
                 batch |-> [r \in RowIds |-> IF r \in S THEN rows[r] ELSE NoRow]]]
    BY <1>1 DEF SelectDue
  <2>2. [pc |-> "next", cur |-> 0, msg |-> 0,
         batch |-> [r \in RowIds |-> IF r \in S THEN rows[r] ELSE NoRow]] \in TickState
    BY DEF TypeOK, TickState
  <2> QED
    BY <1>1, <2>1, <2>2 DEF SelectDue, TypeOK
<1>2. ASSUME NEW r \in RowIds, Validate(d, r)
      PROVE  TypeOK'
  <2>1. disp[d].batch[r] \in Row
    <3>1. disp[d].batch \in [RowIds -> Row \cup {NoRow}]
      BY DEF TypeOK, TickState
    <3> QED
      BY <1>2, <3>1 DEF Validate, Remaining
  <2>2. \A pc \in {"deliver", "drop"} :
          [disp[d] EXCEPT !.cur = r, !.pc = pc] \in TickState
    BY ZenonT(60) DEF TypeOK, TickState
  <2>3. <<r, disp[d].batch[r].body>> \in RowIds \X Bodies
    BY <2>1 DEF Row
  <2> QED
    BY <1>2, <2>2, <2>3 DEF Validate, TypeOK
<1>3. CASE LoseClaim(d)
  BY <1>3, DoneType DEF LoseClaim, TypeOK
<1>4. CASE Drop(d)
  <2>1. disp[d].cur \in RowIds /\ rows[disp[d].cur] \in Row
    BY <1>4, SnapshotType, ExistingRow DEF Drop, CanClaim
  <2>2. [rows[disp[d].cur] EXCEPT !.status = "dropped"] \in Row
    BY <2>1 DEF Row
  <2>3. rows' \in [RowIds -> Row \cup {NoRow}]
    BY <1>4, <2>1, <2>2 DEF Drop, TypeOK
  <2>4. rows[disp[d].cur].origin \in RowIds
    BY <2>1 DEF Row
  <2> QED
    BY <1>4, <2>3, <2>4, DoneType DEF Drop, TypeOK
<1>5. CASE Deliver(d)
  <2> DEFINE r == disp[d].cur
             row == Snapshot(d)
             claimed == [rows EXCEPT ![r].status = "delivered"]
  <2>1. r \in RowIds /\ row \in Row /\ rows[r] \in Row
    BY <1>5, SnapshotType, ExistingRow DEF Deliver, CanClaim
  <2>2. claimed \in [RowIds -> Row \cup {NoRow}]
    <3>1. [rows[r] EXCEPT !.status = "delivered"] \in Row
      BY <2>1 DEF Row
    <3> QED
      BY <2>1, <3>1 DEF TypeOK
  <2>3. rows' \in [RowIds -> Row \cup {NoRow}] /\ nextId' \in 1..(MaxRows + 1)
    <3>1. CASE row.repeat = "none"
      BY <1>5, <2>2, <3>1 DEF Deliver, TypeOK
    <3>2. CASE row.repeat # "none"
      <4>1. Successor(row) \in Row
        BY <2>1, <3>2, SuccessorType
      <4>2. nextId \in RowIds /\ rows' = [claimed EXCEPT ![nextId] = Successor(row)]
            /\ nextId' = nextId + 1
        BY <1>5, <3>2 DEF Deliver
      <4>3. nextId' \in 1..(MaxRows + 1)
        BY <4>2, ScheduleAssumption
      <4> HIDE DEF claimed, r, row
      <4>4. rows' \in [RowIds -> Row \cup {NoRow}]
        BY <2>2, <4>1, <4>2
      <4> QED
        BY <4>3, <4>4
    <3> QED
      BY <3>1, <3>2
  <2>4. messages' \in [MsgIds -> Message \cup {NoMessage}] /\ nextMsg' \in 1..(MaxRows + 2)
    <3>1. [row |-> r, user |-> row.user, body |-> row.body] \in Message
      BY <2>1 DEF Message, Row
    <3> QED
      BY <1>5, <3>1, ScheduleAssumption, SMTT(60) DEF Deliver, TypeOK
  <2>5. disp' \in [Dispatchers -> TickState]
    <3>1. nextMsg \in MsgIds => [disp[d] EXCEPT !.pc = "link", !.msg = nextMsg] \in TickState
      BY ZenonT(60) DEF TypeOK, TickState
    <3> QED
      BY <1>5, <3>1, DoneType DEF Deliver, TypeOK
  <2> QED
    BY <1>5, <2>3, <2>4, <2>5 DEF Deliver, TypeOK
<1>6. CASE Link(d)
  <2>1. disp[d].msg \in MsgIds
    BY <1>6 DEF Link, SnapshotsAreOld
  <2>2. uploads' \in [Files -> MsgIds \cup {Unlinked, Gone}]
    BY <1>6, <2>1 DEF Link, LinkTarget, TypeOK
  <2> QED
    BY <1>6, <2>2, DoneType DEF Link, TypeOK
<1>7. CASE Fail(d)
  <2>1. disp[d].cur \in RowIds /\ Snapshot(d) \in Row
    BY <1>7, SnapshotType DEF Fail
  <2>2. rows' \in [RowIds -> Row \cup {NoRow}]
    <3>1. CASE ~CanClaim(disp[d].cur)
      BY <1>7, <3>1 DEF Fail, Bump, TypeOK
    <3>2. CASE CanClaim(disp[d].cur)
      <4> DEFINE r == disp[d].cur
      <4>1. rows[r] \in Row
        BY <2>1, <3>2, ExistingRow DEF CanClaim
      <4>2. now + Backoff(Snapshot(d).attempts) \in Nat
        <5>1. Snapshot(d).attempts \in Nat
          BY <2>1 DEF Row
        <5>2. Backoff(Snapshot(d).attempts) \in Nat
          BY <5>1, BackoffType
        <5> QED
          BY <5>2 DEF TypeOK
      <4>3. \A a, n \in Nat : [rows[r] EXCEPT !.attempts = a, !.notBefore = n] \in Row
        BY <4>1 DEF Row
      <4>4. (IF rows[r].attempts < MaxAttempts THEN rows[r].attempts + 1
                                               ELSE rows[r].attempts) \in Nat
        BY <4>1, ScheduleAssumption DEF Row
      <4> QED
        BY <1>7, <2>1, <3>2, <4>2, <4>3, <4>4 DEF Fail, Bump, TypeOK
    <3> QED
      BY <3>1, <3>2
  <2>3. faults' \in Nat
    BY <1>7 DEF Fail, TypeOK
  <2> QED
    BY <1>7, <2>2, <2>3, DoneType DEF Fail, TypeOK
<1> QED
  BY <1>1, <1>2, <1>3, <1>4, <1>5, <1>6, <1>7 DEF DispatchStep

-------------------------------------------------------------------------------
(* The rest of the inductive invariant.  Two frames cover most actions:    *)
(* one for what an action may do to rows that exist, one for what it may   *)
(* do to the dispatchers' snapshots.                                       *)

IdBookkeeping == FreshIds /\ SnapshotsAreOld /\ SameOwner /\ DeliveredExactlyOnce

(* An existing row keeps its author, its series and its recurrence, or     *)
(* goes; none appears.                                                     *)
RowsOnlyEdited ==
    /\ nextId' = nextId
    /\ \A r \in RowIds : rows'[r] # NoRow =>
          /\ rows[r] # NoRow
          /\ rows'[r].user = rows[r].user
          /\ rows'[r].origin = rows[r].origin
          /\ rows'[r].repeat = rows[r].repeat

(* A dispatcher only ever forgets parts of its batch. *)
SnapshotsOnlyShrink ==
    \A d \in Dispatchers :
        /\ \A r \in RowIds : disp'[d].batch[r] # NoRow =>
              disp'[d].batch[r] = disp[d].batch[r]
        /\ disp'[d].pc \in {"deliver", "drop", "link"} =>
              /\ disp'[d].cur \in RowIds
              /\ disp'[d].batch[disp'[d].cur] # NoRow
        /\ disp'[d].pc = "link" =>
              /\ disp'[d].batch[disp'[d].cur].file \in Files
              /\ disp'[d].msg \in MsgIds

SnapshotOwners ==
    \A d \in Dispatchers : \A r \in Remaining(d) :
          Exists(r) => /\ rows[r].user = disp[d].batch[r].user
                       /\ rows[r].origin = disp[d].batch[r].origin
                       /\ rows[r].repeat = disp[d].batch[r].repeat

LEMMA ShrinkKeepsSnapshots ==
    ASSUME SnapshotsAreOld, SnapshotOwners, RowsOnlyEdited, SnapshotsOnlyShrink
    PROVE  SnapshotsAreOld' /\ SnapshotOwners'
<1>1. \A d \in Dispatchers, r \in RowIds :
        r \in Remaining(d)' => r \in Remaining(d) /\ disp'[d].batch[r] = disp[d].batch[r]
  BY DEF SnapshotsOnlyShrink, Remaining
<1>2. SnapshotsAreOld'
  BY <1>1 DEF SnapshotsAreOld, RowsOnlyEdited, SnapshotsOnlyShrink, Remaining, Snapshot
<1>3. SnapshotOwners'
  BY <1>1 DEF SnapshotOwners, RowsOnlyEdited, Exists, Remaining
<1> QED
  BY <1>2, <1>3

LEMMA UnchangedSnapshots ==
    ASSUME TypeOK, SnapshotsAreOld, disp' = disp
    PROVE  SnapshotsOnlyShrink
  BY DEF SnapshotsOnlyShrink, SnapshotsAreOld, Remaining, Snapshot

LEMMA DoneShrinks ==
    ASSUME TypeOK, SnapshotsAreOld, NEW d \in Dispatchers,
           disp' = [disp EXCEPT ![d] = Done(d)]
    PROVE  SnapshotsOnlyShrink
<1>1. \A r \in RowIds : Done(d).batch[r] # NoRow => Done(d).batch[r] = disp[d].batch[r]
  BY DEF Done, Idle, TypeOK, TickState
<1>2. Done(d).pc \in {"idle", "next"}
  BY DEF Done, Idle
<1>3. disp'[d] = Done(d) /\ \A e \in Dispatchers \ {d} : disp'[e] = disp[e]
  BY DEF TypeOK
<1>4. ASSUME NEW e \in Dispatchers \ {d}
      PROVE  /\ disp[e].pc \in {"deliver", "drop", "link"} =>
                   disp[e].cur \in RowIds /\ disp[e].batch[disp[e].cur] # NoRow
             /\ disp[e].pc = "link" =>
                   disp[e].batch[disp[e].cur].file \in Files /\ disp[e].msg \in MsgIds
  BY DEF SnapshotsAreOld, Remaining, Snapshot
<1> QED
  BY <1>1, <1>2, <1>3, <1>4 DEF SnapshotsOnlyShrink

MessageOwners ==
    \A m \in MsgIds : messages[m] # NoMessage =>
        rows[messages[m].row].user = messages[m].user

(* An action that touches no message and no delivered row. *)
DeliveriesUntouched ==
    /\ messages' = messages
    /\ \A r \in RowIds :
          /\ rows[r].status = "delivered" => rows'[r] = rows[r]
          /\ rows'[r].status = "delivered" => rows[r].status = "delivered"

(* An action that deletes rows deletes the messages they became. *)
DeliveriesDeleted ==
    /\ \A m \in MsgIds : messages'[m] \in {messages[m], NoMessage}
    /\ \A r \in RowIds : rows'[r] \in {rows[r], NoRow}
    /\ \A m \in MsgIds : messages[m] # NoMessage =>
          (messages'[m] = NoMessage <=> rows'[messages[m].row] = NoRow)

LEMMA MessageRows ==
    ASSUME TypeOK, NEW m \in MsgIds
    PROVE  /\ messages[m] # NoMessage => messages[m] \in Message
           /\ messages[m].row \in RowIds => messages[m] # NoMessage
  BY ScheduleAssumption DEF TypeOK, Message, NoMessage

LEMMA UntouchedKeepsDeliveries ==
    ASSUME TypeOK, DeliveredExactlyOnce, MessageOwners, DeliveriesUntouched
    PROVE  DeliveredExactlyOnce' /\ MessageOwners'
<1>1. \A m \in MsgIds : messages[m] # NoMessage => messages[m].row \in RowIds
  BY MessageRows DEF Message
<1>2. DeliveredExactlyOnce'
  BY <1>1 DEF DeliveredExactlyOnce, DeliveriesUntouched
<1>3. MessageOwners'
  BY <1>1 DEF MessageOwners, DeliveredExactlyOnce, DeliveriesUntouched
<1> QED
  BY <1>2, <1>3

LEMMA DeletedKeepsDeliveries ==
    ASSUME TypeOK, DeliveredExactlyOnce, MessageOwners, DeliveriesDeleted
    PROVE  DeliveredExactlyOnce' /\ MessageOwners'
<1>1. \A m \in MsgIds : messages[m] # NoMessage => messages[m].row \in RowIds
  BY MessageRows DEF Message
<1>2. \A m \in MsgIds : messages'[m] # NoMessage =>
        /\ messages[m] # NoMessage /\ messages'[m] = messages[m]
        /\ rows'[messages[m].row] = rows[messages[m].row]
  BY <1>1 DEF DeliveriesDeleted
<1>3. \A r \in RowIds : rows'[r].status = "delivered" =>
        rows[r].status = "delivered" /\ rows'[r] # NoRow
  BY DEF DeliveriesDeleted, NoRow
<1>4. ASSUME NEW r \in RowIds, rows'[r].status = "delivered"
      PROVE  \E m \in MsgIds : messages'[m].row = r
  <2>1. PICK m \in MsgIds : messages[m].row = r
    BY <1>3, <1>4 DEF DeliveredExactlyOnce
  <2>2. messages[m] # NoMessage
    BY <2>1, MessageRows
  <2>3. messages'[m] = messages[m]
    BY <1>3, <1>4, <2>1, <2>2 DEF DeliveriesDeleted
  <2> QED
    BY <2>1, <2>3
<1>5. ASSUME NEW m1 \in MsgIds, NEW m2 \in MsgIds,
             messages'[m1] # NoMessage, messages'[m1].row = messages'[m2].row
      PROVE  m1 = m2
  <2>1. messages'[m1] = messages[m1] /\ messages[m1].row \in RowIds
    BY <1>1, <1>2, <1>5
  <2>2. messages'[m2] # NoMessage
    BY <1>5, <2>1 DEF NoMessage
  <2>3. messages'[m2] = messages[m2]
    BY <1>2, <2>2
  <2> QED
    BY <1>2, <1>5, <2>1, <2>3 DEF DeliveredExactlyOnce
<1>6. DeliveredExactlyOnce'
  BY <1>2, <1>4, <1>5 DEF DeliveredExactlyOnce
<1>7. MessageOwners'
  BY <1>2 DEF MessageOwners
<1> QED
  BY <1>6, <1>7

LEMMA FramedStep ==
    ASSUME TypeOK, IdBookkeeping, RowsOnlyEdited, SnapshotsOnlyShrink,
           nextMsg' = nextMsg, DeliveriesUntouched \/ DeliveriesDeleted
    PROVE  IdBookkeeping'
<1>1. FreshIds'
  <2>1. \A m \in MsgIds : messages[m] = NoMessage => messages'[m] = NoMessage
    BY DEF DeliveriesUntouched, DeliveriesDeleted
  <2> QED
    BY <2>1 DEF IdBookkeeping, FreshIds, RowsOnlyEdited
<1>2. SnapshotOwners /\ MessageOwners
  BY DEF IdBookkeeping, SameOwner, SnapshotOwners, MessageOwners
<1>3. SnapshotsAreOld' /\ SnapshotOwners'
  BY <1>2, ShrinkKeepsSnapshots DEF IdBookkeeping
<1>4. DeliveredExactlyOnce' /\ MessageOwners'
  BY <1>2, UntouchedKeepsDeliveries, DeletedKeepsDeliveries DEF IdBookkeeping
<1>5. SameOwner'
  BY <1>3, <1>4 DEF SameOwner, SnapshotOwners, MessageOwners
<1> QED
  BY <1>1, <1>3, <1>4, <1>5 DEF IdBookkeeping

LEMMA SameTables ==
    ASSUME TypeOK, rows' = rows, messages' = messages, nextId' = nextId
    PROVE  RowsOnlyEdited /\ DeliveriesUntouched
  BY DEF RowsOnlyEdited, DeliveriesUntouched

LEMMA BookkeepingInit == Init => IdBookkeeping
<1> SUFFICES ASSUME Init PROVE IdBookkeeping
  OBVIOUS
<1>1. FreshIds
  BY DEF Init, FreshIds
<1>2. SnapshotsAreOld /\ SameOwner
  BY DEF Init, SnapshotsAreOld, SameOwner, Idle, Remaining
<1>3. DeliveredExactlyOnce
  BY DEF Init, DeliveredExactlyOnce, NoRow
<1> QED
  BY <1>1, <1>2, <1>3 DEF IdBookkeeping

-------------------------------------------------------------------------------
(* The handlers *)

LEMMA PostInsertKeeps ==
    ASSUME TypeOK, IdBookkeeping, NEW u \in Users, PostInsert(u)
    PROVE  IdBookkeeping'
<1>1. CASE UNCHANGED <<rows, nextId>>
  BY <1>1, SameTables, UnchangedSnapshots, FramedStep DEF PostInsert, IdBookkeeping
<1>2. CASE nextId \in RowIds /\ nextId' = nextId + 1 /\ \E due \in AcceptedDue :
                rows' = [rows EXCEPT ![nextId] =
                    NewRow(u, req[u].body, due, req[u].file, req[u].repeat, nextId)]
  <2>1. rows'[nextId].status = "pending"
    BY <1>2 DEF TypeOK, NewRow
  <2>2. rows[nextId] = NoRow /\ \A r \in RowIds \ {nextId} : rows'[r] = rows[r]
    BY <1>2 DEF IdBookkeeping, FreshIds, TypeOK
  <2>3. disp' = disp /\ messages' = messages /\ nextMsg' = nextMsg
    BY <1>2 DEF PostInsert
  <2>4. \A d \in Dispatchers : nextId \notin Remaining(d)
    BY <1>2 DEF IdBookkeeping, SnapshotsAreOld, TypeOK
  <2>5. FreshIds'
    BY <1>2, <2>2, <2>3 DEF IdBookkeeping, FreshIds, TypeOK
  <2>6. SnapshotsAreOld'
    BY <1>2, <2>3 DEF IdBookkeeping, SnapshotsAreOld, Remaining, Snapshot, TypeOK
  <2>7. DeliveriesUntouched
    BY <2>1, <2>2, <2>3 DEF DeliveriesUntouched, NoRow
  <2>8. DeliveredExactlyOnce' /\ MessageOwners'
    BY <2>7, UntouchedKeepsDeliveries DEF IdBookkeeping, SameOwner, MessageOwners
  <2>9. SnapshotOwners'
    BY <2>2, <2>3, <2>4 DEF IdBookkeeping, SameOwner, SnapshotOwners, Exists, Remaining
  <2> QED
    BY <2>5, <2>6, <2>8, <2>9 DEF IdBookkeeping, SameOwner, SnapshotOwners, MessageOwners
<1> QED
  BY <1>1, <1>2, ScheduleAssumption DEF PostInsert, TypeOK

LEMMA PatchWriteKeeps ==
    ASSUME TypeOK, IdBookkeeping, NEW u \in Users, PatchWrite(u)
    PROVE  IdBookkeeping'
<1>1. disp' = disp /\ messages' = messages /\ nextMsg' = nextMsg /\ nextId' = nextId
  BY DEF PatchWrite
<1>2. CASE rows' = rows
  BY <1>1, <1>2, SameTables, UnchangedSnapshots, FramedStep DEF IdBookkeeping
<1>3. ASSUME Updatable(u, req[u].row), NEW due \in AcceptedDue,
             rows' = [rows EXCEPT ![req[u].row] = Edited(@, req[u].body, due, req[u].file)]
      PROVE  IdBookkeeping'
  <2> DEFINE r == req[u].row
  <2>1. CASE r \notin RowIds
    <3>1. rows' = rows
      BY <1>3, <2>1 DEF TypeOK
    <3> QED
      BY <3>1, <1>2
  <2>2. CASE r \in RowIds
    <3>1. rows[r] \in Row /\ rows[r].status = "pending"
      BY <1>3, <2>2, ExistingRow DEF Updatable, Pending
    <3>2. /\ rows'[r] = Edited(rows[r], req[u].body, due, req[u].file)
          /\ \A q \in RowIds \ {r} : rows'[q] = rows[q]
      BY <1>3, <2>2 DEF TypeOK
    <3>3. /\ rows'[r].user = rows[r].user /\ rows'[r].origin = rows[r].origin
          /\ rows'[r].repeat = rows[r].repeat /\ rows'[r].status = "pending"
      BY <3>1, <3>2 DEF Edited, Row
    <3>4. rows[r] # NoRow
      BY <3>1, NoRowIsNoRow
    <3> HIDE DEF r
    <3>5. RowsOnlyEdited
      BY <1>1, <3>2, <3>3, <3>4 DEF RowsOnlyEdited
    <3>6. DeliveriesUntouched
      BY <1>1, <3>1, <3>2, <3>3 DEF DeliveriesUntouched
    <3> QED
      BY <1>1, <3>5, <3>6, UnchangedSnapshots, FramedStep DEF IdBookkeeping
  <2> QED
    BY <2>1, <2>2
<1> QED
  BY <1>2, <1>3 DEF PatchWrite

LEMMA CancelKeeps ==
    ASSUME TypeOK, IdBookkeeping, NEW u \in Users, NEW r \in RowIds, Cancel(u, r)
    PROVE  IdBookkeeping'
<1>1. RowsOnlyEdited
  BY DEF Cancel, RowsOnlyEdited, TypeOK
<1>2. DeliveriesUntouched
  BY DEF Cancel, DeliveriesUntouched, Updatable, Pending, NoRow, TypeOK
<1>3. disp' = disp /\ nextMsg' = nextMsg
  BY DEF Cancel
<1> QED
  BY <1>1, <1>2, <1>3, UnchangedSnapshots, FramedStep DEF IdBookkeeping

LEMMA HandlerKeeps ==
    ASSUME TypeOK, IdBookkeeping, NEW u \in Users, HandlerStep(u)
    PROVE  IdBookkeeping'
<1>1. ASSUME NEW b \in Bodies, NEW f \in AnyFile, NEW rep \in Repeats, PostCheck(u, b, f, rep)
      PROVE  IdBookkeeping'
  BY <1>1, SameTables, UnchangedSnapshots, FramedStep DEF PostCheck, IdBookkeeping
<1>2. ASSUME NEW r \in RowIds, NEW b \in Bodies, NEW f \in AnyFile, PatchCheck(u, r, b, f)
      PROVE  IdBookkeeping'
  BY <1>2, SameTables, UnchangedSnapshots, FramedStep DEF PatchCheck, IdBookkeeping
<1> QED
  BY <1>1, <1>2, PostInsertKeeps, PatchWriteKeeps, CancelKeeps DEF HandlerStep

-------------------------------------------------------------------------------
(* Time, moderation, deletions and crashes *)

LEMMA DeletionKeeps ==
    ASSUME TypeOK, IdBookkeeping,
           \/ \E u \in Users : PurgeChat(u)
           \/ \E S \in SUBSET RowIds : DeleteRoom(S)
    PROVE  IdBookkeeping'
<1>1. \A m \in MsgIds : messages[m] # NoMessage =>
        /\ messages[m].row \in RowIds /\ rows[messages[m].row] # NoRow
        /\ rows[messages[m].row].user = messages[m].user
  <2>1. \A m \in MsgIds : messages[m] # NoMessage => messages[m].row \in RowIds
    BY MessageRows DEF Message
  <2> QED
    BY <2>1 DEF IdBookkeeping, DeliveredExactlyOnce, SameOwner, NoRow
<1>2. ASSUME NEW u \in Users, PurgeChat(u)
      PROVE  IdBookkeeping'
  <2>1. RowsOnlyEdited
    BY <1>2 DEF PurgeChat, RowsOnlyEdited
  <2>2. DeliveriesDeleted
    BY <1>1, <1>2 DEF PurgeChat, OwnedBy, Exists, DeliveriesDeleted
  <2>3. disp' = disp /\ nextMsg' = nextMsg
    BY <1>2 DEF PurgeChat
  <2> QED
    BY <2>1, <2>2, <2>3, UnchangedSnapshots, FramedStep DEF IdBookkeeping
<1>3. ASSUME NEW S \in SUBSET RowIds, DeleteRoom(S)
      PROVE  IdBookkeeping'
  <2>1. RowsOnlyEdited
    BY <1>3 DEF DeleteRoom, RowsOnlyEdited
  <2>2. DeliveriesDeleted
    BY <1>1, <1>3 DEF DeleteRoom, Exists, DeliveriesDeleted
  <2>3. disp' = disp /\ nextMsg' = nextMsg
    BY <1>3 DEF DeleteRoom
  <2> QED
    BY <2>1, <2>2, <2>3, UnchangedSnapshots, FramedStep DEF IdBookkeeping
<1> QED
  BY <1>2, <1>3

LEMMA EnvironmentKeeps ==
    ASSUME TypeOK, IdBookkeeping,
           \/ Tick \/ Crash
           \/ \E u \in Users : ModerateAuthor(u) \/ PurgeAuth(u)
           \/ \E b \in Bodies : ModerateBody(b)
    PROVE  IdBookkeeping'
<1>1. rows' = rows /\ messages' = messages /\ nextId' = nextId /\ nextMsg' = nextMsg
  BY DEF Tick, Crash, ModerateAuthor, PurgeAuth, ModerateBody
<1>2. SnapshotsOnlyShrink
  <2>1. ASSUME Crash PROVE SnapshotsOnlyShrink
    <3>1. \A d \in Dispatchers : disp'[d] = Idle
      BY <2>1 DEF Crash
    <3>2. Idle.pc = "idle" /\ \A r \in RowIds : Idle.batch[r] = NoRow
      BY DEF Idle
    <3> QED
      BY <3>1, <3>2 DEF SnapshotsOnlyShrink
  <2>2. disp' = disp => SnapshotsOnlyShrink
    BY UnchangedSnapshots DEF IdBookkeeping
  <2> QED
    BY <2>1, <2>2 DEF Tick, ModerateAuthor, PurgeAuth, ModerateBody
<1> QED
  BY <1>1, <1>2, SameTables, FramedStep

-------------------------------------------------------------------------------
(* The dispatcher *)

LEMMA SelectDueKeeps ==
    ASSUME TypeOK, IdBookkeeping, NEW d \in Dispatchers, SelectDue(d)
    PROVE  IdBookkeeping'
<1>1. PICK S \in SUBSET Due :
        disp' = [disp EXCEPT ![d] =
              [pc |-> "next", cur |-> 0, msg |-> 0,
               batch |-> [r \in RowIds |-> IF r \in S THEN rows[r] ELSE NoRow]]]
  BY DEF SelectDue
<1>2. /\ disp'[d].pc = "next"
      /\ \A r \in RowIds : disp'[d].batch[r] # NoRow => disp'[d].batch[r] = rows[r]
      /\ \A e \in Dispatchers \ {d} : disp'[e] = disp[e]
  BY <1>1 DEF TypeOK
<1>3. /\ rows' = rows /\ messages' = messages /\ nextId' = nextId /\ nextMsg' = nextMsg
  BY DEF SelectDue
<1>4. FreshIds'
  BY <1>3 DEF IdBookkeeping, FreshIds
<1>5. SnapshotsAreOld'
  <2>1. \A r \in RowIds : rows[r] # NoRow => r < nextId
    BY DEF IdBookkeeping, FreshIds, TypeOK
  <2> QED
    BY <1>2, <1>3, <2>1 DEF IdBookkeeping, SnapshotsAreOld, Remaining, Snapshot
<1>6. SameOwner'
  BY <1>2, <1>3 DEF IdBookkeeping, SameOwner, Remaining, Exists
<1>7. DeliveredExactlyOnce'
  BY <1>3 DEF IdBookkeeping, DeliveredExactlyOnce
<1> QED
  BY <1>4, <1>5, <1>6, <1>7 DEF IdBookkeeping

LEMMA ValidateKeeps ==
    ASSUME TypeOK, IdBookkeeping, NEW d \in Dispatchers, NEW r \in RowIds, Validate(d, r)
    PROVE  IdBookkeeping'
<1>1. /\ disp'[d].batch = disp[d].batch
      /\ disp'[d].cur = r /\ disp[d].batch[r] # NoRow
      /\ disp'[d].pc \in {"deliver", "drop"}
      /\ \A e \in Dispatchers \ {d} : disp'[e] = disp[e]
  BY DEF Validate, Remaining, TypeOK, TickState
<1>2. SnapshotsOnlyShrink
  BY <1>1 DEF SnapshotsOnlyShrink, IdBookkeeping, SnapshotsAreOld, Remaining, Snapshot
<1>3. rows' = rows /\ messages' = messages /\ nextId' = nextId /\ nextMsg' = nextMsg
  BY DEF Validate
<1> QED
  BY <1>2, <1>3, SameTables, FramedStep

LEMMA DropKeeps ==
    ASSUME TypeOK, IdBookkeeping, NEW d \in Dispatchers, Drop(d)
    PROVE  IdBookkeeping'
<1> DEFINE r == disp[d].cur
<1>1. r \in RowIds /\ rows[r] \in Row /\ rows[r].status = "pending"
  BY SnapshotType, ExistingRow DEF IdBookkeeping, Drop, CanClaim, Pending
<1>2. /\ rows'[r] = [rows[r] EXCEPT !.status = "dropped"]
      /\ \A q \in RowIds \ {r} : rows'[q] = rows[q]
  BY <1>1 DEF Drop, TypeOK
<1>3. /\ rows'[r].user = rows[r].user /\ rows'[r].origin = rows[r].origin
      /\ rows'[r].repeat = rows[r].repeat /\ rows'[r].status = "dropped"
  BY <1>1, <1>2 DEF Row
<1>4. rows[r] # NoRow
  BY <1>1, NoRowIsNoRow
<1>5. SnapshotsOnlyShrink
  BY DoneShrinks DEF Drop, IdBookkeeping
<1>6. messages' = messages /\ nextId' = nextId /\ nextMsg' = nextMsg
  BY DEF Drop
<1> HIDE DEF r
<1>7. RowsOnlyEdited /\ DeliveriesUntouched
  BY <1>1, <1>2, <1>3, <1>4, <1>6 DEF RowsOnlyEdited, DeliveriesUntouched
<1> QED
  BY <1>5, <1>6, <1>7, FramedStep

LEMMA FailKeeps ==
    ASSUME TypeOK, IdBookkeeping, NEW d \in Dispatchers, Fail(d)
    PROVE  IdBookkeeping'
<1>1. SnapshotsOnlyShrink
  BY DoneShrinks DEF Fail, IdBookkeeping
<1>2. messages' = messages /\ nextId' = nextId /\ nextMsg' = nextMsg
  BY DEF Fail
<1>3. CASE rows' = rows
  BY <1>1, <1>2, <1>3, SameTables, FramedStep
<1>4. CASE CanClaim(disp[d].cur)
  <2> DEFINE r == disp[d].cur
  <2>1. r \in RowIds /\ rows[r] \in Row /\ rows[r].status = "pending"
    BY <1>4, SnapshotType, ExistingRow DEF IdBookkeeping, Fail, CanClaim, Pending
  <2>2. \A q \in RowIds \ {r} : rows'[q] = rows[q]
    BY <1>4, <2>1 DEF Fail, Bump, TypeOK
  <2>3. PICK a, n : rows'[r] = [rows[r] EXCEPT !.attempts = a, !.notBefore = n]
    BY <1>4, <2>1 DEF Fail, Bump, TypeOK
  <2>4. /\ rows'[r].user = rows[r].user /\ rows'[r].origin = rows[r].origin
        /\ rows'[r].repeat = rows[r].repeat /\ rows'[r].status = "pending"
    BY <2>1, <2>3 DEF Row
  <2>5. rows[r] # NoRow
    BY <2>1, NoRowIsNoRow
  <2> HIDE DEF r
  <2>6. RowsOnlyEdited /\ DeliveriesUntouched
    BY <1>2, <2>1, <2>2, <2>4, <2>5 DEF RowsOnlyEdited, DeliveriesUntouched
  <2> QED
    BY <1>1, <1>2, <2>6, FramedStep
<1> QED
  BY <1>3, <1>4 DEF Fail, Bump

LEMMA LinkAndLoseKeep ==
    ASSUME TypeOK, IdBookkeeping, NEW d \in Dispatchers, Link(d) \/ LoseClaim(d)
    PROVE  IdBookkeeping'
<1>1. SnapshotsOnlyShrink
  BY DoneShrinks DEF Link, LoseClaim, IdBookkeeping
<1>2. rows' = rows /\ messages' = messages /\ nextId' = nextId /\ nextMsg' = nextMsg
  BY DEF Link, LoseClaim
<1> QED
  BY <1>1, <1>2, SameTables, FramedStep

(* What Deliver does to the tables: row r is claimed, at most one pending  *)
(* row appears, at the id no row had; one message appears, likewise.       *)
Delivery(r, user) ==
    /\ r \in RowIds /\ rows[r] # NoRow /\ rows[r].status = "pending" /\ r < nextId
    /\ rows[r].user = user
    /\ rows'[r] # NoRow /\ rows'[r].status = "delivered"
    /\ rows'[r].user = user
    /\ rows'[r].origin = rows[r].origin /\ rows'[r].repeat = rows[r].repeat
    /\ \A q \in RowIds : q \notin {r, nextId} => rows'[q] = rows[q]
    /\ nextId \in RowIds =>
          rows[nextId] = NoRow /\ (rows'[nextId] = NoRow \/ rows'[nextId].status = "pending")
    /\ nextId' = nextId => \A q \in RowIds : q = nextId => rows'[q] = NoRow
    /\ nextId' \in {nextId, nextId + 1}
    /\ nextMsg \in MsgIds /\ messages[nextMsg] = NoMessage /\ nextMsg' = nextMsg + 1
    /\ messages'[nextMsg] # NoMessage
    /\ messages'[nextMsg].row = r /\ messages'[nextMsg].user = user
    /\ \A m \in MsgIds : m # nextMsg => messages'[m] = messages[m]

LEMMA DeliverIsDelivery ==
    ASSUME TypeOK, IdBookkeeping, NEW d \in Dispatchers, Deliver(d)
    PROVE  Delivery(disp[d].cur, Snapshot(d).user)
<1> DEFINE r == disp[d].cur
           row == Snapshot(d)
           claimed == [rows EXCEPT ![r].status = "delivered"]
<1>1. /\ r \in RowIds /\ row \in Row /\ rows[r] \in Row
      /\ rows[r].status = "pending" /\ rows[r] # NoRow
  BY SnapshotType, ExistingRow, NoRowIsNoRow DEF IdBookkeeping, Deliver, CanClaim, Pending
<1>2. r < nextId /\ rows[r].user = row.user
  <2>1. r \in Remaining(d)
    BY DEF Deliver, IdBookkeeping, SnapshotsAreOld
  <2> QED
    BY <1>1, <2>1 DEF IdBookkeeping, SnapshotsAreOld, SameOwner, Exists, Snapshot
<1>3. /\ claimed \in [RowIds -> {claimed[q] : q \in RowIds}]
      /\ claimed[r] = [rows[r] EXCEPT !.status = "delivered"]
      /\ \A q \in RowIds \ {r} : claimed[q] = rows[q]
  BY <1>1 DEF TypeOK
<1>4. /\ claimed[r].user = rows[r].user /\ claimed[r].origin = rows[r].origin
      /\ claimed[r].repeat = rows[r].repeat /\ claimed[r].status = "delivered"
      /\ claimed[r] # NoRow
  BY <1>1, <1>3 DEF Row, NoRow
<1>5. nextId \in RowIds => rows[nextId] = NoRow /\ nextId # r
  BY <1>1, <1>2 DEF IdBookkeeping, FreshIds, TypeOK
<1>6. /\ nextMsg \in MsgIds /\ nextMsg' = nextMsg + 1
      /\ messages' = [messages EXCEPT ![nextMsg] =
            [row |-> r, user |-> row.user, body |-> row.body]]
      /\ IF row.repeat = "none"
         THEN rows' = claimed /\ nextId' = nextId
         ELSE /\ nextId \in RowIds
              /\ rows' = [claimed EXCEPT ![nextId] = Successor(row)]
              /\ nextId' = nextId + 1
  BY DEF Deliver
<1>7. Successor(row).status = "pending"
  BY DEF Successor, NewRow
<1>8. /\ messages[nextMsg] = NoMessage
      /\ messages'[nextMsg] # NoMessage
      /\ messages'[nextMsg].row = r /\ messages'[nextMsg].user = row.user
      /\ \A m \in MsgIds : m # nextMsg => messages'[m] = messages[m]
  BY <1>1, <1>6 DEF IdBookkeeping, FreshIds, TypeOK, NoMessage
<1> HIDE DEF r, row, claimed
<1>9. CASE row.repeat = "none"
  <2>1. /\ rows'[r] = claimed[r] /\ nextId' = nextId
        /\ \A q \in RowIds \ {r} : rows'[q] = rows[q]
    BY <1>3, <1>6, <1>9
  <2>2. nextId \in RowIds => rows'[nextId] = NoRow
    BY <1>5, <2>1
  <2>3. Delivery(r, row.user)
    BY <1>1, <1>2, <1>4, <1>5, <1>6, <1>8, <2>1, <2>2 DEF Delivery
  <2> QED
    BY <2>3 DEF r, row
<1>10. CASE row.repeat # "none"
  <2>1. /\ rows'[nextId] = Successor(row)
        /\ \A q \in RowIds \ {nextId} : rows'[q] = claimed[q]
    BY <1>3, <1>6, <1>10
  <2>2. nextId' # nextId
    BY <1>6, <1>10 DEF TypeOK
  <2> QED
    BY <1>1, <1>2, <1>3, <1>4, <1>5, <1>6, <1>7, <1>8, <1>10, <2>1, <2>2, ZenonT(60) DEF Delivery, r, row
<1> QED
  BY <1>9, <1>10

LEMMA DeliverKeeps ==
    ASSUME TypeOK, IdBookkeeping, NEW d \in Dispatchers, Deliver(d)
    PROVE  IdBookkeeping'
<1> DEFINE r == disp[d].cur
           user == Snapshot(d).user
<1>1. Delivery(r, user)
  BY DeliverIsDelivery
<1>2. /\ \A e \in Dispatchers, q \in RowIds : disp'[e].batch[q] # NoRow =>
            disp'[e].batch[q] = disp[e].batch[q]
      /\ SnapshotsOnlyShrink
  <2>1. CASE disp' = [disp EXCEPT ![d] = Done(d)]
    BY <2>1, DoneShrinks DEF IdBookkeeping, SnapshotsOnlyShrink
  <2>2. CASE Snapshot(d).file # NoFile
             /\ disp' = [disp EXCEPT ![d] = [@ EXCEPT !.pc = "link", !.msg = nextMsg]]
    <3>1. Snapshot(d).file \in Files
      BY <2>2, SnapshotType DEF Deliver, Row, IdBookkeeping
    <3>2. /\ disp'[d].batch = disp[d].batch /\ disp'[d].cur = disp[d].cur
          /\ disp'[d].pc = "link" /\ disp'[d].msg = nextMsg
          /\ \A e \in Dispatchers \ {d} : disp'[e] = disp[e]
      BY <2>2 DEF TypeOK, TickState
    <3>3. disp[d].cur \in RowIds /\ disp[d].batch[disp[d].cur] # NoRow
      BY DEF Deliver, IdBookkeeping, SnapshotsAreOld, Remaining
    <3>4. nextMsg \in MsgIds /\ disp[d].batch[disp[d].cur].file \in Files
      BY <1>1, <3>1 DEF Snapshot, Delivery
    <3>5. ASSUME NEW e \in Dispatchers \ {d}
          PROVE  /\ disp[e].pc \in {"deliver", "drop", "link"} =>
                       disp[e].cur \in RowIds /\ disp[e].batch[disp[e].cur] # NoRow
                 /\ disp[e].pc = "link" =>
                       disp[e].batch[disp[e].cur].file \in Files /\ disp[e].msg \in MsgIds
      BY DEF IdBookkeeping, SnapshotsAreOld, Remaining, Snapshot
    <3>6. \A e \in Dispatchers : disp'[e].batch = disp[e].batch
      BY <3>2
    <3>7. SnapshotsOnlyShrink
      BY <3>2, <3>3, <3>4, <3>5, <3>6 DEF SnapshotsOnlyShrink
    <3> QED
      BY <3>6, <3>7
  <2> QED
    BY <2>1, <2>2 DEF Deliver
<1>3. FreshIds'
  BY <1>1 DEF Delivery, IdBookkeeping, FreshIds, TypeOK
<1>4. SnapshotsAreOld'
  <2>1. \A e \in Dispatchers : \A q \in Remaining(e)' : q \in Remaining(e)
    BY <1>2 DEF Remaining
  <2>2. \A e \in Dispatchers : \A q \in Remaining(e)' : q < nextId'
    BY <1>1, <2>1 DEF IdBookkeeping, SnapshotsAreOld, Delivery, TypeOK, Remaining
  <2> QED
    BY <1>2, <2>2 DEF SnapshotsAreOld, SnapshotsOnlyShrink, Remaining, Snapshot
<1>5. SnapshotOwners'
  <2> SUFFICES ASSUME NEW e \in Dispatchers, NEW q \in RowIds,
                      disp'[e].batch[q] # NoRow, rows'[q] # NoRow
               PROVE  /\ rows'[q].user = disp'[e].batch[q].user
                      /\ rows'[q].origin = disp'[e].batch[q].origin
                      /\ rows'[q].repeat = disp'[e].batch[q].repeat
    BY DEF SnapshotOwners, Remaining, Exists
  <2>1. disp'[e].batch[q] = disp[e].batch[q] /\ q < nextId
    BY <1>2 DEF IdBookkeeping, SnapshotsAreOld, Remaining
  <2>2. q # nextId
    BY <2>1 DEF TypeOK
  <2>3. rows[q] # NoRow /\ rows'[q].user = rows[q].user /\ rows'[q].origin = rows[q].origin
        /\ rows'[q].repeat = rows[q].repeat
    BY <1>1, <2>2 DEF Delivery
  <2> QED
    BY <2>1, <2>3 DEF IdBookkeeping, SameOwner, Remaining, Exists
<1>6. \A m \in MsgIds : messages[m] # NoMessage =>
        /\ messages[m].row \in RowIds
        /\ messages[m].row \notin {r, nextId}
        /\ m # nextMsg
        /\ rows'[messages[m].row] = rows[messages[m].row]
  <2> SUFFICES ASSUME NEW m \in MsgIds, messages[m] # NoMessage
               PROVE  /\ messages[m].row \in RowIds
                      /\ messages[m].row \notin {r, nextId}
                      /\ m # nextMsg
                      /\ rows'[messages[m].row] = rows[messages[m].row]
    OBVIOUS
  <2>1. messages[m].row \in RowIds
    BY MessageRows DEF Message
  <2>2. rows[messages[m].row].status = "delivered"
    BY DEF IdBookkeeping, DeliveredExactlyOnce
  <2> QED
    BY <1>1, <2>1, <2>2 DEF Delivery, NoRow
<1>7. \A m \in MsgIds : messages[m].row # r
  <2>1. \A m \in MsgIds : messages[m].row = r => messages[m] # NoMessage
    BY <1>1, MessageRows DEF Delivery
  <2> QED
    BY <1>6, <2>1
<1>8. MessageOwners'
  BY <1>1, <1>6 DEF MessageOwners, Delivery, IdBookkeeping, SameOwner
<1> HIDE DEF r, user
<1>9. DeliveredExactlyOnce'
  <2>1. ASSUME NEW m1 \in MsgIds, NEW m2 \in MsgIds,
               messages'[m1] # NoMessage, messages'[m1].row = messages'[m2].row
        PROVE  m1 = m2
    BY <1>1, <1>7, <2>1 DEF Delivery, IdBookkeeping, DeliveredExactlyOnce
  <2>2. ASSUME NEW m \in MsgIds, messages'[m] # NoMessage
        PROVE  rows'[messages'[m].row].status = "delivered"
    BY <1>1, <1>6, <2>2 DEF Delivery, IdBookkeeping, DeliveredExactlyOnce
  <2>3. ASSUME NEW q \in RowIds, rows'[q].status = "delivered"
        PROVE  \E m \in MsgIds : messages'[m].row = q
    <3>1. CASE q = r
      BY <1>1, <3>1 DEF Delivery
    <3>2. CASE q # r
      <4>1. q # nextId
        BY <1>1, <2>3 DEF Delivery, NoRow
      <4>2. rows[q].status = "delivered"
        BY <1>1, <2>3, <3>2, <4>1 DEF Delivery
      <4>3. PICK m \in MsgIds : messages[m].row = q
        BY <4>2 DEF IdBookkeeping, DeliveredExactlyOnce
      <4>4. messages[m] # NoMessage
        BY <4>3, MessageRows
      <4> QED
        BY <1>1, <1>6, <4>3, <4>4 DEF Delivery
    <3> QED
      BY <3>1, <3>2
  <2> QED
    BY <2>1, <2>2, <2>3 DEF DeliveredExactlyOnce
<1> QED
  BY <1>3, <1>4, <1>5, <1>8, <1>9
     DEF IdBookkeeping, SameOwner, SnapshotOwners, MessageOwners

LEMMA DispatchKeeps ==
    ASSUME TypeOK, IdBookkeeping, NEW d \in Dispatchers, DispatchStep(d)
    PROVE  IdBookkeeping'
  BY SelectDueKeeps, ValidateKeeps, LinkAndLoseKeep, DropKeeps, DeliverKeeps, FailKeeps
     DEF DispatchStep

-------------------------------------------------------------------------------
(* The theorems *)

LEMMA Stutter == ASSUME IndInv, UNCHANGED vars PROVE IndInv'
<1>1. TypeOK'
  BY DEF IndInv, vars, TypeOK
<1>2. IdBookkeeping'
  BY SameTables, UnchangedSnapshots, FramedStep DEF vars, IndInv, IdBookkeeping
<1> QED
  BY <1>1, <1>2 DEF IndInv, IdBookkeeping

LEMMA Induction == Spec => []IndInv
<1>1. Init => IndInv
  BY TypeInit, BookkeepingInit DEF IndInv, IdBookkeeping
<1>2. IndInv /\ [Next]_vars => IndInv'
  <2> SUFFICES ASSUME IndInv, [Next]_vars PROVE IndInv'
    OBVIOUS
  <2>1. TypeOK /\ IdBookkeeping /\ SnapshotsAreOld
    BY DEF IndInv, IdBookkeeping
  <2>2. ASSUME NEW u \in Users, HandlerStep(u) PROVE TypeOK' /\ IdBookkeeping'
    BY <2>1, <2>2, TypeHandler, HandlerKeeps
  <2>3. ASSUME NEW d \in Dispatchers, DispatchStep(d) PROVE TypeOK' /\ IdBookkeeping'
    BY <2>1, <2>3, TypeDispatch, DispatchKeeps
  <2>4. ASSUME \/ \E u \in Users : PurgeChat(u)
               \/ \E S \in SUBSET RowIds : DeleteRoom(S)
        PROVE  TypeOK' /\ IdBookkeeping'
    BY <2>1, <2>4, TypeEnvironment, DeletionKeeps
  <2>5. ASSUME \/ Tick \/ Crash
               \/ \E u \in Users : ModerateAuthor(u) \/ PurgeAuth(u)
               \/ \E b \in Bodies : ModerateBody(b)
        PROVE  TypeOK' /\ IdBookkeeping'
    BY <2>1, <2>5, TypeEnvironment, EnvironmentKeeps
  <2> QED
    BY <2>2, <2>3, <2>4, <2>5, Stutter DEF Next, IndInv, IdBookkeeping
<1> QED
  BY <1>1, <1>2, PTL DEF Spec

(* Every reachable state is well typed, whatever the number of authors,    *)
(* rows, uploads and dispatchers.                                          *)
THEOREM TypeCorrect == Spec => []TypeOK
<1>1. IndInv => TypeOK
  BY DEF IndInv
<1> QED
  BY <1>1, Induction, PTL

(* A scheduled row becomes a message exactly once: the claim-and-INSERT    *)
(* transaction of dispatch_one, for any number of dispatchers, errors,     *)
(* crashes, edits, cancels and purges.                                     *)
THEOREM ExactlyOnce == Spec => []DeliveredExactlyOnce
<1>1. IndInv => DeliveredExactlyOnce
  BY DEF IndInv
<1> QED
  BY <1>1, Induction, PTL

LEMMA ClaimStaysClaimed ==
    ASSUME IndInv, Next, NEW r \in RowIds, Claimed(r)
    PROVE  rows'[r] \in {rows[r], NoRow}
<1>1. TypeOK /\ SnapshotsAreOld /\ FreshIds
  BY DEF IndInv
<1>2. ~Pending(r) /\ r # nextId
  BY <1>1 DEF Claimed, Pending, FreshIds, NoRow, TypeOK
<1>3. \A u \in Users : HandlerStep(u) => rows'[r] \in {rows[r], NoRow}
  <2>1. ASSUME NEW u \in Users, PostInsert(u) PROVE rows'[r] = rows[r]
    BY <1>1, <1>2, <2>1 DEF PostInsert, TypeOK
  <2>2. ASSUME NEW u \in Users, PatchWrite(u) PROVE rows'[r] = rows[r]
    BY <1>1, <1>2, <2>2 DEF PatchWrite, Updatable, TypeOK
  <2>3. ASSUME NEW u \in Users, NEW q \in RowIds, Cancel(u, q) PROVE rows'[r] = rows[r]
    BY <1>1, <1>2, <2>3 DEF Cancel, Updatable, TypeOK
  <2> QED
    BY <2>1, <2>2, <2>3 DEF HandlerStep, PostCheck, PatchCheck
<1>4. \A d \in Dispatchers : DispatchStep(d) => rows'[r] = rows[r]
  <2>1. ASSUME NEW d \in Dispatchers, Drop(d) PROVE rows'[r] = rows[r]
    BY <1>1, <1>2, <2>1 DEF Drop, CanClaim, TypeOK
  <2>2. ASSUME NEW d \in Dispatchers, Fail(d) PROVE rows'[r] = rows[r]
    BY <1>1, <1>2, <2>2 DEF Fail, Bump, CanClaim, TypeOK
  <2>3. ASSUME NEW d \in Dispatchers, Deliver(d) PROVE rows'[r] = rows[r]
    <3>1. Delivery(disp[d].cur, Snapshot(d).user)
      BY <2>3, DeliverIsDelivery DEF IndInv, IdBookkeeping
    <3>2. r # disp[d].cur
      BY <1>2, <2>3 DEF Deliver, CanClaim
    <3> QED
      BY <1>2, <3>1, <3>2 DEF Delivery
  <2> QED
    BY <2>1, <2>2, <2>3 DEF DispatchStep, SelectDue, Validate, LoseClaim, Link
<1>5. \A u \in Users : PurgeChat(u) \/ PurgeAuth(u) => rows'[r] \in {rows[r], NoRow}
  BY DEF PurgeChat, PurgeAuth
<1>6. \A S \in SUBSET RowIds : DeleteRoom(S) => rows'[r] \in {rows[r], NoRow}
  BY DEF DeleteRoom
<1> QED
  BY <1>3, <1>4, <1>5, <1>6 DEF Next, Tick, Crash, ModerateAuthor, ModerateBody

(* A delivered or dropped row is never touched again, except to be         *)
(* deleted: no retry, edit or second tick reopens a claim.                 *)
THEOREM ClaimsAreFinal == Spec => ClaimIsFinal
<1>1. IndInv /\ [Next]_vars =>
        [\A r \in RowIds : Claimed(r) => rows'[r] \in {rows[r], NoRow}]_vars
  BY ClaimStaysClaimed
<1> QED
  BY <1>1, Induction, PTL DEF Spec, ClaimIsFinal

LEMMA OnlyDeliverEnqueues ==
    ASSUME IndInv, Next, NEW r \in RowIds, ~Exists(r), rows'[r] # NoRow,
           rows'[r].origin # r
    PROVE  \E d \in Dispatchers :
              Deliver(d) /\ Snapshot(d).repeat # "none" /\ rows'[r] = Successor(Snapshot(d))
<1>1. TypeOK /\ SnapshotsAreOld /\ FreshIds /\ IdBookkeeping
  BY DEF IndInv, IdBookkeeping
<1>2. rows[r] = NoRow /\ ~Pending(r)
  BY DEF Exists, Pending, NoRow
<1>3. \A u \in Users : ~HandlerStep(u)
  <2>1. ASSUME NEW u \in Users, PostInsert(u) PROVE rows'[r] = rows[r] \/ rows'[r].origin = r
    <3>1. CASE rows' = rows
      BY <3>1
    <3>2. ASSUME NEW due \in AcceptedDue,
                 rows' = [rows EXCEPT ![nextId] =
                    NewRow(u, req[u].body, due, req[u].file, req[u].repeat, nextId)]
          PROVE  rows'[r] = rows[r] \/ rows'[r].origin = r
      <4>1. rows'[r] = rows[r] \/ (r = nextId /\ rows'[r] =
                    NewRow(u, req[u].body, due, req[u].file, req[u].repeat, nextId))
        BY <1>1, <3>2 DEF TypeOK
      <4> QED
        BY <4>1 DEF NewRow
    <3> QED
      BY <2>1, <3>1, <3>2 DEF PostInsert
  <2>2. ASSUME NEW u \in Users, PatchWrite(u) PROVE rows'[r] = rows[r]
    BY <1>1, <1>2, <2>2 DEF PatchWrite, Updatable, TypeOK
  <2>3. ASSUME NEW u \in Users, NEW q \in RowIds, Cancel(u, q) PROVE rows'[r] \in {rows[r], NoRow}
    BY <1>1, <2>3 DEF Cancel, TypeOK
  <2> QED
    BY <1>2, <2>1, <2>2, <2>3 DEF HandlerStep, PostCheck, PatchCheck
<1>4. ASSUME NEW d \in Dispatchers, DispatchStep(d), ~Deliver(d) PROVE rows'[r] = NoRow
  <2>1. Drop(d) => rows'[r] = NoRow
    <3>1. Drop(d) => disp[d].cur # r
      BY <1>2 DEF Drop, CanClaim
    <3> QED
      BY <1>1, <1>2, <3>1 DEF Drop, TypeOK
  <2>2. Fail(d) => rows'[r] = NoRow
    BY <1>1, <1>2 DEF Fail, Bump, CanClaim, TypeOK
  <2> QED
    BY <1>2, <1>4, <2>1, <2>2 DEF DispatchStep, SelectDue, Validate, LoseClaim, Link
<1>5. ASSUME NEW d \in Dispatchers, Deliver(d)
      PROVE  Snapshot(d).repeat # "none" /\ rows'[r] = Successor(Snapshot(d))
  <2> DEFINE c == disp[d].cur
             claimed == [rows EXCEPT ![c].status = "delivered"]
  <2>1. c # r
    BY <1>2, <1>5 DEF Deliver, CanClaim
  <2>2. claimed \in [RowIds -> {claimed[q] : q \in RowIds}] /\ claimed[r] = NoRow
    BY <1>1, <1>2, <2>1 DEF TypeOK
  <2>3. IF Snapshot(d).repeat = "none"
        THEN rows' = claimed
        ELSE nextId \in RowIds /\ rows' = [claimed EXCEPT ![nextId] = Successor(Snapshot(d))]
    BY <1>5 DEF Deliver
  <2> HIDE DEF claimed
  <2> QED
    BY <2>2, <2>3
<1>6. \A u \in Users : ~PurgeChat(u) /\ ~PurgeAuth(u)
  BY <1>2 DEF PurgeChat, PurgeAuth
<1>7. \A S \in SUBSET RowIds : ~DeleteRoom(S)
  BY <1>2 DEF DeleteRoom
<1>8. ~Tick /\ ~Crash /\ (\A u \in Users : ~ModerateAuthor(u)) /\ (\A b \in Bodies : ~ModerateBody(b))
  BY <1>2 DEF Tick, Crash, ModerateAuthor, ModerateBody
<1>9. PICK d \in Dispatchers : DispatchStep(d)
  BY <1>3, <1>6, <1>7, <1>8 DEF Next
<1> QED
  BY <1>4, <1>5, <1>9

(* The occurrence a delivery enqueues lies in the future: the server never *)
(* replays the slots it missed.  Rests on NextOccurrenceIsFirstFutureSlot, *)
(* a fact about next_occurrence for every day length and every instant.    *)
THEOREM NoReplay == Spec => NoBacklogReplay
<1>1. ASSUME IndInv, Next, NEW r \in RowIds, ~Exists(r), rows'[r] # NoRow,
             rows'[r].origin # r
      PROVE  rows'[r].due > now
  <2>1. PICK d \in Dispatchers :
          Deliver(d) /\ Snapshot(d).repeat # "none" /\ rows'[r] = Successor(Snapshot(d))
    BY <1>1, OnlyDeliverEnqueues
  <2>2. Snapshot(d) \in Row
    BY <1>1, <2>1, SnapshotType DEF IndInv, Deliver
  <2>3. now \in Nat /\ Snapshot(d).due \in Nat /\ Snapshot(d).repeat \in RepeatKinds \ {"none"}
    BY <1>1, <2>1, <2>2, ScheduleAssumption DEF IndInv, TypeOK, Row
  <2>4. NextOccurrence(Snapshot(d).due, Snapshot(d).repeat, now) > now
    BY <2>3, NextOccurrenceIsFirstFutureSlot
  <2> QED
    BY <2>1, <2>4 DEF Successor, NewRow
<1>2. IndInv /\ [Next]_vars =>
        [\A r \in RowIds : (~Exists(r) /\ rows'[r] # NoRow /\ rows'[r].origin # r)
              => rows'[r].due > now]_vars
  BY <1>1
<1> QED
  BY <1>2, Induction, PTL DEF Spec, NoBacklogReplay

-------------------------------------------------------------------------------
(* Uploads.  validate_attachment looks at the uploader when the row is     *)
(* written, link_upload_to_message only at message_id: in between, the     *)
(* ownership travels with the request, the row and the snapshot.           *)

Owns(u, f) == f # NoFile => Uploader[f] = u

RequestsOwn == \A u \in Users : req[u] # NoRequest => Owns(u, req[u].file)
RowsOwn == \A r \in RowIds : rows[r] # NoRow => Owns(rows[r].user, rows[r].file)
SnapshotsOwn ==
    \A d \in Dispatchers, r \in RowIds :
        disp[d].batch[r] # NoRow => Owns(disp[d].batch[r].user, disp[d].batch[r].file)

(* The message a dispatcher is about to link is the snapshot's author's. *)
LinksOwn ==
    \A d \in Dispatchers : disp[d].pc = "link" =>
        /\ disp[d].msg < nextMsg
        /\ messages[disp[d].msg] # NoMessage =>
              messages[disp[d].msg].user = Snapshot(d).user

(* The message an upload sits with is its uploader's. *)
UploadsOwn ==
    \A f \in Files : uploads[f] \in MsgIds =>
        /\ uploads[f] < nextMsg
        /\ messages[uploads[f]] # NoMessage => messages[uploads[f]].user = Uploader[f]

Ownership == RequestsOwn /\ RowsOwn /\ SnapshotsOwn /\ LinksOwn /\ UploadsOwn

LEMMA OwnershipInit == Init => Ownership
<1> SUFFICES ASSUME Init PROVE Ownership
  OBVIOUS
<1>1. RequestsOwn /\ RowsOwn
  BY DEF Init, RequestsOwn, RowsOwn
<1>2. SnapshotsOwn /\ LinksOwn
  BY DEF Init, SnapshotsOwn, LinksOwn, Idle
<1>3. UploadsOwn
  BY ScheduleAssumption DEF Init, UploadsOwn, Unlinked
<1> QED
  BY <1>1, <1>2, <1>3 DEF Ownership

LEMMA RequestsKeepOwners ==
    ASSUME TypeOK, RowsOwn, RequestsOwn, [Next]_vars
    PROVE  RequestsOwn'
<1>1. ASSUME NEW u \in Users, NEW b \in Bodies, NEW f \in AnyFile, NEW rep \in Repeats,
             PostCheck(u, b, f, rep)
      PROVE  RequestsOwn'
  BY <1>1 DEF PostCheck, AttachmentFree, Owns, RequestsOwn, TypeOK
<1>2. ASSUME NEW u \in Users, NEW r \in RowIds, NEW b \in Bodies, NEW f \in AnyFile,
             PatchCheck(u, r, b, f)
      PROVE  RequestsOwn'
  <2>1. Owns(u, f)
    BY <1>2 DEF PatchCheck, AttachmentFree, Owns, RowsOwn, Exists
  <2> QED
    BY <1>2, <2>1 DEF PatchCheck, RequestsOwn, TypeOK
<1>3. ASSUME NEW u \in Users, PostInsert(u) \/ PatchWrite(u)
      PROVE  RequestsOwn'
  BY <1>3 DEF PostInsert, PatchWrite, RequestsOwn, TypeOK
<1>4. CASE Crash
  BY <1>4 DEF Crash, RequestsOwn
<1>5. CASE req' = req
  BY <1>5 DEF RequestsOwn
<1> QED
  BY <1>1, <1>2, <1>3, <1>4, <1>5, ZenonT(60)
     DEF Next, vars, HandlerStep, Cancel, DispatchStep, SelectDue, Validate, LoseClaim, Drop,
         Deliver, Link, Fail, Tick, ModerateAuthor, ModerateBody, PurgeChat, PurgeAuth,
         DeleteRoom

(* A step that keeps the author and the file of every row, or deletes it. *)
FilesKept ==
    \A r \in RowIds : rows'[r] # NoRow =>
        rows[r] # NoRow /\ rows'[r].user = rows[r].user /\ rows'[r].file = rows[r].file

LEMMA RowsKeepOwners ==
    ASSUME TypeOK, IdBookkeeping, RowsOwn, RequestsOwn, [Next]_vars
    PROVE  RowsOwn'
<1>1. CASE FilesKept
  BY <1>1 DEF FilesKept, RowsOwn, Owns
<1>2. ASSUME NEW u \in Users, PostInsert(u)
      PROVE  RowsOwn'
  <2>1. CASE rows' = rows
    BY <2>1 DEF RowsOwn
  <2>2. ASSUME NEW due \in AcceptedDue,
               rows' = [rows EXCEPT ![nextId] =
                    NewRow(u, req[u].body, due, req[u].file, req[u].repeat, nextId)]
        PROVE  RowsOwn'
    <3>1. Owns(u, req[u].file)
      BY <1>2 DEF PostInsert, RequestsOwn, NoRequest
    <3> QED
      BY <2>2, <3>1 DEF NewRow, RowsOwn, Owns, TypeOK
  <2> QED
    BY <1>2, <2>1, <2>2 DEF PostInsert
<1>3. ASSUME NEW u \in Users, PatchWrite(u)
      PROVE  RowsOwn'
  <2>1. CASE rows' = rows
    BY <2>1 DEF RowsOwn
  <2>2. ASSUME Updatable(u, req[u].row), NEW due \in AcceptedDue,
               rows' = [rows EXCEPT ![req[u].row] = Edited(@, req[u].body, due, req[u].file)]
        PROVE  RowsOwn'
    <3> DEFINE new == Edited(rows[req[u].row], req[u].body, due, req[u].file)
    <3>1. Owns(u, req[u].file)
      BY <1>3 DEF PatchWrite, RequestsOwn, NoRequest
    <3>2. CASE req[u].row \in RowIds
      <4>1. rows[req[u].row] \in Row /\ rows[req[u].row].user = u
        BY <2>2, <3>2, ExistingRow DEF Updatable
      <4>2. new.user = u /\ new.file = req[u].file
        BY <4>1 DEF Edited, Row
      <4>3. \A r \in RowIds : rows'[r] = IF r = req[u].row THEN new ELSE rows[r]
        BY <2>2 DEF TypeOK
      <4> HIDE DEF new
      <4> QED
        BY <3>1, <4>2, <4>3 DEF RowsOwn
    <3>3. CASE req[u].row \notin RowIds
      BY <2>2, <3>3 DEF RowsOwn, TypeOK
    <3> QED
      BY <3>2, <3>3
  <2> QED
    BY <1>3, <2>1, <2>2 DEF PatchWrite
<1>4. ASSUME NEW u \in Users, NEW r \in RowIds, Cancel(u, r)
      PROVE  FilesKept
  BY <1>4 DEF Cancel, FilesKept, TypeOK
<1>5. ASSUME NEW d \in Dispatchers, Drop(d)
      PROVE  FilesKept
  <2>1. disp[d].cur \in RowIds /\ rows[disp[d].cur] \in Row
    BY <1>5, SnapshotType, ExistingRow DEF Drop, CanClaim, IdBookkeeping
  <2> QED
    BY <1>5, <2>1, NoRowIsNoRow DEF Drop, FilesKept, TypeOK, Row
<1>6. ASSUME NEW d \in Dispatchers, Fail(d)
      PROVE  FilesKept
  <2>1. CASE ~CanClaim(disp[d].cur)
    BY <1>6, <2>1 DEF Fail, Bump, FilesKept
  <2>2. CASE CanClaim(disp[d].cur)
    <3>1. disp[d].cur \in RowIds /\ rows[disp[d].cur] \in Row
      BY <1>6, <2>2, SnapshotType, ExistingRow DEF Fail, CanClaim, IdBookkeeping
    <3>2. \A a, n : LET row == [rows[disp[d].cur] EXCEPT !.attempts = a, !.notBefore = n]
                    IN  row.user = rows[disp[d].cur].user /\ row.file = rows[disp[d].cur].file
      BY <3>1 DEF Row
    <3> QED
      BY <1>6, <2>2, <3>1, <3>2, NoRowIsNoRow DEF Fail, Bump, FilesKept, TypeOK
  <2> QED
    BY <2>1, <2>2
<1>7. ASSUME NEW d \in Dispatchers, Deliver(d)
      PROVE  RowsOwn'
  <2> DEFINE c == disp[d].cur
             claimed == [rows EXCEPT ![c].status = "delivered"]
  <2>1. c \in RowIds /\ rows[c] \in Row
    BY <1>7, SnapshotType, ExistingRow DEF Deliver, CanClaim, IdBookkeeping
  <2>2. \A r \in RowIds : claimed[r] # NoRow =>
          rows[r] # NoRow /\ claimed[r].user = rows[r].user /\ claimed[r].file = rows[r].file
    BY <2>1, NoRowIsNoRow DEF TypeOK, Row
  <2>3. \A r \in RowIds : claimed[r] # NoRow => Owns(claimed[r].user, claimed[r].file)
    BY <2>2 DEF RowsOwn, Owns
  <2>4. claimed \in [RowIds -> {claimed[q] : q \in RowIds}]
    BY DEF TypeOK
  <2>5. Successor(Snapshot(d)).file = NoFile
    BY DEF Successor, NewRow
  <2>6. IF Snapshot(d).repeat = "none"
        THEN rows' = claimed
        ELSE rows' = [claimed EXCEPT ![nextId] = Successor(Snapshot(d))]
    BY <1>7 DEF Deliver
  <2> HIDE DEF claimed
  <2> QED
    BY <2>3, <2>4, <2>5, <2>6 DEF RowsOwn, Owns
<1>8. ASSUME \/ \E u \in Users : PurgeChat(u)
             \/ \E S \in SUBSET RowIds : DeleteRoom(S)
      PROVE  FilesKept
  BY <1>8 DEF PurgeChat, DeleteRoom, FilesKept
<1>9. CASE rows' = rows
  BY <1>9 DEF FilesKept, RowsOwn
<1> QED
  BY <1>1, <1>2, <1>3, <1>4, <1>5, <1>6, <1>7, <1>8, <1>9, ZenonT(60)
     DEF Next, vars, HandlerStep, PostCheck, PatchCheck, DispatchStep, SelectDue, Validate,
         LoseClaim, Link, Tick, Crash, ModerateAuthor, ModerateBody, PurgeAuth

(* But for a SELECT, a step leaves every dispatcher with snapshots it had, *)
(* and only a delivery makes one link.                                     *)
LEMMA SnapshotsKept ==
    ASSUME TypeOK, SnapshotsAreOld, [Next]_vars, \A d \in Dispatchers : ~SelectDue(d)
    PROVE  \A d \in Dispatchers :
              /\ \A r \in RowIds : disp'[d].batch[r] # NoRow =>
                    disp'[d].batch[r] = disp[d].batch[r]
              /\ disp'[d].pc = "link" =>
                    \/ disp'[d] = disp[d]
                    \/ /\ Deliver(d) /\ disp'[d].msg = nextMsg
                       /\ disp'[d].batch = disp[d].batch /\ disp'[d].cur = disp[d].cur
<1> DEFINE Kept(d) ==
              /\ \A r \in RowIds : disp'[d].batch[r] # NoRow =>
                    disp'[d].batch[r] = disp[d].batch[r]
              /\ disp'[d].pc = "link" =>
                    \/ disp'[d] = disp[d]
                    \/ /\ Deliver(d) /\ disp'[d].msg = nextMsg
                       /\ disp'[d].batch = disp[d].batch /\ disp'[d].cur = disp[d].cur
<1>1. ASSUME disp' = disp
      PROVE  \A e \in Dispatchers : Kept(e)
  BY <1>1
<1>2. ASSUME Crash
      PROVE  \A e \in Dispatchers : Kept(e)
  BY <1>2 DEF Crash, Idle
<1>3. ASSUME NEW d \in Dispatchers, disp' = [disp EXCEPT ![d] = Done(d)]
      PROVE  \A e \in Dispatchers : Kept(e)
  <2>1. \A r \in RowIds : Done(d).batch[r] # NoRow => Done(d).batch[r] = disp[d].batch[r]
    BY DEF Done, Idle, TypeOK, TickState
  <2>2. Done(d).pc # "link"
    BY DEF Done, Idle
  <2>3. disp'[d] = Done(d) /\ \A e \in Dispatchers \ {d} : disp'[e] = disp[e]
    BY <1>3 DEF TypeOK
  <2> QED
    BY <2>1, <2>2, <2>3
<1>4. ASSUME NEW d \in Dispatchers, NEW r \in RowIds, Validate(d, r)
      PROVE  \A e \in Dispatchers : Kept(e)
  <2>1. /\ disp'[d].batch = disp[d].batch /\ disp'[d].pc # "link"
        /\ \A e \in Dispatchers \ {d} : disp'[e] = disp[e]
    BY <1>4 DEF Validate, TypeOK, TickState
  <2> QED
    BY <2>1
<1>5. ASSUME NEW d \in Dispatchers, Deliver(d)
      PROVE  \A e \in Dispatchers : Kept(e)
  <2>1. CASE disp' = [disp EXCEPT ![d] = [@ EXCEPT !.pc = "link", !.msg = nextMsg]]
    <3>1. /\ disp'[d].batch = disp[d].batch /\ disp'[d].cur = disp[d].cur
          /\ disp'[d].msg = nextMsg
          /\ \A e \in Dispatchers \ {d} : disp'[e] = disp[e]
      BY <2>1 DEF TypeOK, TickState
    <3> QED
      BY <1>5, <3>1
  <2> QED
    BY <1>3, <1>5, <2>1 DEF Deliver
<1>6. ASSUME NEW d \in Dispatchers, LoseClaim(d) \/ Drop(d) \/ Link(d) \/ Fail(d)
      PROVE  \A e \in Dispatchers : Kept(e)
  <2>1. disp' = [disp EXCEPT ![d] = Done(d)]
    BY <1>6 DEF LoseClaim, Drop, Link, Fail
  <2> QED
    BY <1>3, <2>1
<1> HIDE DEF Kept
<1>7. \A e \in Dispatchers : Kept(e)
  <2>1. ASSUME NEW d \in Dispatchers, DispatchStep(d)
        PROVE  \A e \in Dispatchers : Kept(e)
    BY <1>4, <1>5, <1>6, <2>1 DEF DispatchStep
  <2>2. ASSUME NEW u \in Users, HandlerStep(u)
        PROVE  disp' = disp
    BY <2>2 DEF HandlerStep, PostCheck, PostInsert, PatchCheck, PatchWrite, Cancel
  <2>3. ASSUME \/ Tick \/ \E u \in Users : ModerateAuthor(u) \/ PurgeChat(u) \/ PurgeAuth(u)
               \/ \E b \in Bodies : ModerateBody(b)
               \/ \E S \in SUBSET RowIds : DeleteRoom(S)
        PROVE  disp' = disp
    BY <2>3 DEF Tick, ModerateAuthor, ModerateBody, PurgeChat, PurgeAuth, DeleteRoom
  <2> QED
    BY <1>1, <1>2, <2>1, <2>2, <2>3 DEF Next, vars
<1> QED
  BY <1>7 DEF Kept

(* Messages come by deliveries and go by deletions. *)
LEMMA MessagesKept ==
    ASSUME TypeOK, [Next]_vars
    PROVE  \/ /\ nextMsg' = nextMsg
              /\ \A m \in MsgIds : messages'[m] \in {messages[m], NoMessage}
           \/ \E d \in Dispatchers :
                 /\ Deliver(d)
                 /\ nextMsg' = nextMsg + 1
                 /\ messages'[nextMsg].user = Snapshot(d).user
                 /\ \A m \in MsgIds \ {nextMsg} : messages'[m] = messages[m]
<1>1. ASSUME NEW d \in Dispatchers, Deliver(d)
      PROVE  /\ nextMsg' = nextMsg + 1
             /\ messages'[nextMsg].user = Snapshot(d).user
             /\ \A m \in MsgIds \ {nextMsg} : messages'[m] = messages[m]
  BY <1>1 DEF Deliver, TypeOK
<1>2. CASE \/ \E u \in Users : PurgeChat(u)
           \/ \E S \in SUBSET RowIds : DeleteRoom(S)
  BY <1>2 DEF PurgeChat, DeleteRoom
<1>3. CASE UNCHANGED <<messages, nextMsg>>
  BY <1>3
<1> QED
  BY <1>1, <1>2, <1>3, ZenonT(60)
     DEF Next, vars, HandlerStep, PostCheck, PostInsert, PatchCheck, PatchWrite, Cancel,
         DispatchStep, SelectDue, Validate, LoseClaim, Drop, Link, Fail, Tick, Crash,
         ModerateAuthor, ModerateBody, PurgeAuth

LEMMA SnapshotsKeepOwners ==
    ASSUME TypeOK, SnapshotsAreOld, RowsOwn, SnapshotsOwn, [Next]_vars
    PROVE  SnapshotsOwn'
<1>1. ASSUME NEW d \in Dispatchers, SelectDue(d)
      PROVE  SnapshotsOwn'
  <2>1. /\ \A r \in RowIds : disp'[d].batch[r] # NoRow => disp'[d].batch[r] = rows[r]
        /\ \A e \in Dispatchers \ {d} : disp'[e] = disp[e]
    BY <1>1 DEF SelectDue, TypeOK
  <2> QED
    BY <2>1 DEF RowsOwn, SnapshotsOwn
<1>2. CASE \A d \in Dispatchers : ~SelectDue(d)
  BY <1>2, SnapshotsKept DEF SnapshotsOwn
<1> QED
  BY <1>1, <1>2

LEMMA LinksKeepOwners ==
    ASSUME TypeOK, SnapshotsAreOld, LinksOwn, [Next]_vars
    PROVE  LinksOwn'
<1> SUFFICES ASSUME NEW d \in Dispatchers, disp'[d].pc = "link"
             PROVE  /\ disp'[d].msg < nextMsg'
                    /\ messages'[disp'[d].msg] # NoMessage =>
                          messages'[disp'[d].msg].user = disp'[d].batch[disp'[d].cur].user
  BY DEF LinksOwn, Snapshot
<1>1. ASSUME NEW e \in Dispatchers, SelectDue(e)
      PROVE  UNCHANGED <<messages, nextMsg>> /\ disp'[d] = disp[d]
  <2>1. disp'[e].pc # "link" /\ (d # e => disp'[d] = disp[d])
    BY <1>1 DEF SelectDue, TypeOK
  <2> QED
    BY <1>1, <2>1 DEF SelectDue
<1>2. CASE disp'[d] = disp[d]
  <2>1. /\ disp[d].msg \in MsgIds /\ disp[d].msg < nextMsg /\ nextMsg \in Nat
        /\ messages[disp[d].msg] # NoMessage =>
              messages[disp[d].msg].user = disp[d].batch[disp[d].cur].user
    BY <1>2 DEF LinksOwn, SnapshotsAreOld, Snapshot, TypeOK
  <2>2. nextMsg' >= nextMsg /\ messages'[disp[d].msg] \in {messages[disp[d].msg], NoMessage}
    BY <2>1, MessagesKept
  <2>3. disp[d].msg \in Nat /\ disp[d].msg < nextMsg'
    BY <2>1, <2>2, MessagesKept DEF TypeOK
  <2> QED
    BY <1>2, <2>1, <2>2, <2>3
<1>3. CASE \A e \in Dispatchers : ~SelectDue(e)
  <2>1. CASE /\ Deliver(d) /\ disp'[d].msg = nextMsg
             /\ disp'[d].batch = disp[d].batch /\ disp'[d].cur = disp[d].cur
    <3>1. nextMsg' = nextMsg + 1 /\ messages'[nextMsg].user = Snapshot(d).user
      BY <2>1 DEF Deliver, TypeOK
    <3> QED
      BY <2>1, <3>1 DEF Snapshot, TypeOK
  <2> QED
    BY <1>2, <1>3, <2>1, SnapshotsKept
<1> QED
  BY <1>1, <1>2, <1>3

(* Where an upload goes: nowhere it was not, but by a link or a deletion. *)
LEMMA UploadMoves ==
    ASSUME TypeOK, SnapshotsAreOld, Ownership, [Next]_vars,
           NEW f \in Files, uploads'[f] # uploads[f]
    PROVE  \/ /\ uploads'[f] \notin MsgIds
              /\ uploads[f] \in MsgIds => messages'[uploads[f]] = NoMessage
           \/ /\ uploads[f] \notin MsgIds
              /\ \E d \in Dispatchers :
                    Link(d) /\ Snapshot(d).file = f /\ uploads'[f] = disp[d].msg
<1>1. ASSUME NEW u \in Users, PurgeChat(u)
      PROVE  /\ uploads'[f] \notin MsgIds
             /\ uploads[f] \in MsgIds => messages'[uploads[f]] = NoMessage
  <2>1. Uploader[f] = u /\ uploads'[f] = Gone
    BY <1>1 DEF PurgeChat
  <2> QED
    BY <1>1, <2>1, ScheduleAssumption DEF PurgeChat, Ownership, UploadsOwn, Gone
<1>2. ASSUME NEW S \in SUBSET RowIds, DeleteRoom(S)
      PROVE  /\ uploads'[f] \notin MsgIds
             /\ uploads[f] \in MsgIds => messages'[uploads[f]] = NoMessage
  BY <1>2, ScheduleAssumption DEF DeleteRoom, Unlinked
<1>3. ASSUME NEW d \in Dispatchers, Link(d)
      PROVE  uploads[f] \notin MsgIds /\ Snapshot(d).file = f /\ uploads'[f] = disp[d].msg
  <2>1. uploads' = [uploads EXCEPT ![Snapshot(d).file] =
                        LinkTarget(Snapshot(d).file, disp[d].msg)]
    BY <1>3 DEF Link
  <2>2. Snapshot(d).file = f /\ uploads'[f] = LinkTarget(f, disp[d].msg)
    BY <2>1 DEF TypeOK
  <2> QED
    BY <2>2, ScheduleAssumption DEF LinkTarget, Unlinked
<1> QED
  BY <1>1, <1>2, <1>3, ZenonT(60)
     DEF Next, vars, HandlerStep, PostCheck, PostInsert, PatchCheck, PatchWrite, Cancel,
         DispatchStep, SelectDue, Validate, LoseClaim, Drop, Deliver, Fail, Tick, Crash,
         ModerateAuthor, ModerateBody, PurgeAuth

LEMMA UploadsKeepOwners ==
    ASSUME TypeOK, SnapshotsAreOld, Ownership, [Next]_vars
    PROVE  UploadsOwn'
<1> SUFFICES ASSUME NEW f \in Files, uploads'[f] \in MsgIds
             PROVE  /\ uploads'[f] < nextMsg'
                    /\ messages'[uploads'[f]] # NoMessage =>
                          messages'[uploads'[f]].user = Uploader[f]
  BY DEF UploadsOwn
<1>1. CASE uploads'[f] = uploads[f]
  <2>1. /\ uploads[f] < nextMsg /\ nextMsg \in Nat
        /\ messages[uploads[f]] # NoMessage => messages[uploads[f]].user = Uploader[f]
    BY <1>1 DEF Ownership, UploadsOwn, TypeOK
  <2>2. nextMsg' >= nextMsg /\ messages'[uploads[f]] \in {messages[uploads[f]], NoMessage}
    BY <1>1, <2>1, MessagesKept
  <2>3. uploads[f] < nextMsg'
    BY <1>1, <2>1, <2>2, MessagesKept
  <2> QED
    BY <1>1, <2>1, <2>2, <2>3
<1>2. ASSUME NEW d \in Dispatchers, Link(d), Snapshot(d).file = f, uploads'[f] = disp[d].msg
      PROVE  /\ uploads'[f] < nextMsg'
             /\ messages'[uploads'[f]] # NoMessage =>
                   messages'[uploads'[f]].user = Uploader[f]
  <2>1. disp[d].cur \in RowIds /\ disp[d].batch[disp[d].cur] # NoRow
    BY <1>2 DEF Link, SnapshotsAreOld, Remaining
  <2>2. Snapshot(d).user = Uploader[f]
    BY <1>2, <2>1, ScheduleAssumption DEF Ownership, SnapshotsOwn, Owns, Snapshot
  <2>3. /\ disp[d].msg < nextMsg /\ UNCHANGED <<messages, nextMsg>>
        /\ messages[disp[d].msg] # NoMessage =>
              messages[disp[d].msg].user = Snapshot(d).user
    BY <1>2 DEF Link, Ownership, LinksOwn
  <2> QED
    BY <1>2, <2>2, <2>3
<1> QED
  BY <1>1, <1>2, UploadMoves

LEMMA OwnershipInduction == Spec => []Ownership
<1>1. IndInv /\ Ownership /\ [Next]_vars => Ownership'
  <2> SUFFICES ASSUME IndInv, Ownership, [Next]_vars PROVE Ownership'
    OBVIOUS
  <2>1. TypeOK /\ SnapshotsAreOld /\ IdBookkeeping
    BY DEF IndInv, IdBookkeeping
  <2> QED
    BY <2>1, RequestsKeepOwners, RowsKeepOwners, SnapshotsKeepOwners, LinksKeepOwners,
       UploadsKeepOwners DEF Ownership
<1> QED
  BY OwnershipInit, Induction, <1>1, PTL DEF Spec

(* An upload is only ever linked to a message of its own uploader, and     *)
(* stays with the message that got it first for as long as the message is  *)
(* there, although a scheduled row does not reserve it (validate_attachment*)
(* of routes/scheduled.rs, link_upload_to_message of db/uploads.rs).       *)
THEOREM UploadsStay ==
    Spec => []UploadsOwn /\ UploadsStayWithTheirMessage
<1>1. IndInv /\ Ownership /\ [Next]_vars =>
        [\A f \in Files : uploads[f] \in MsgIds =>
            \/ uploads'[f] = uploads[f]
            \/ messages'[uploads[f]] = NoMessage]_vars
  <2> SUFFICES ASSUME IndInv, Ownership, [Next]_vars, NEW f \in Files, uploads[f] \in MsgIds,
                      uploads'[f] # uploads[f]
               PROVE  messages'[uploads[f]] = NoMessage
    BY DEF vars
  <2> QED
    BY UploadMoves DEF IndInv
<1>2. Ownership => UploadsOwn
  BY DEF Ownership
<1> QED
  BY <1>1, <1>2, Induction, OwnershipInduction, PTL DEF Spec, UploadsStayWithTheirMessage
-------------------------------------------------------------------------------
(* What each kind of step does to the series *)

(* A row keeps whether it is there, its author, series and recurrence. *)
SameRow(r) ==
    /\ rows'[r] = NoRow <=> rows[r] = NoRow
    /\ rows'[r].user = rows[r].user /\ rows'[r].origin = rows[r].origin
    /\ rows'[r].repeat = rows[r].repeat

(* An edit, a backoff or a step that only moves a tick or a request. *)
Quiet ==
    /\ ended' = ended /\ messages' = messages /\ nextId' = nextId
    /\ \A r \in RowIds : SameRow(r) /\ rows'[r].status = rows[r].status

(* POST: a row of its own series at the next id. *)
Joining ==
    /\ ended' = ended /\ messages' = messages
    /\ nextId \in RowIds /\ nextId' = nextId + 1
    /\ rows'[nextId] \in Row
    /\ rows'[nextId].status = "pending" /\ rows'[nextId].origin = nextId
    /\ \A r \in RowIds \ {nextId} : rows'[r] = rows[r]

(* A cancel or a drop: pending row r goes or is marked. *)
Ending(r) ==
    /\ r \in RowIds /\ rows[r] # NoRow /\ rows[r].status = "pending"
    /\ ended' = ended \cup {rows[r].origin}
    /\ messages' = messages /\ nextId' = nextId
    /\ rows'[r] = NoRow \/ (SameRow(r) /\ rows'[r].status = "dropped")
    /\ \A q \in RowIds \ {r} : rows'[q] = rows[q]

(* A purge or a room deletion: all of some series goes. *)
Erasing(S) ==
    /\ S \subseteq {rows[r].origin : r \in {q \in RowIds : Exists(q)}}
    /\ ended' = ended \cup S /\ nextId' = nextId
    /\ \A r \in RowIds :
          rows'[r] = IF Exists(r) /\ rows[r].origin \in S THEN NoRow ELSE rows[r]
    /\ \A m \in MsgIds :
          messages'[m] = IF messages[m] # NoMessage /\ rows[messages[m].row].origin \in S
                         THEN NoMessage ELSE messages[m]

(* A delivery: row r is claimed and, when it recurs, the next row waits. *)
Firing(r) ==
    /\ ended' = ended
    /\ Delivery(r, rows[r].user)
    /\ IF rows[r].repeat = "none"
       THEN nextId' = nextId /\ \A q \in RowIds \ {r} : rows'[q] = rows[q]
       ELSE /\ nextId \in RowIds /\ nextId' = nextId + 1
            /\ rows'[nextId] \in Row /\ rows'[nextId].status = "pending"
            /\ rows'[nextId].user = rows[r].user
            /\ rows'[nextId].origin = rows[r].origin
            /\ rows'[nextId].repeat = rows[r].repeat

SeriesParts == SeriesRecords /\ SeriesAliveInOnePlace

LEMMA RowFacts ==
    ASSUME TypeOK, FreshIds
    PROVE  /\ nextId \in Nat /\ ended \subseteq RowIds
           /\ \A r \in RowIds : /\ Pending(r) => Exists(r)
                                /\ Exists(r) => /\ rows[r] \in Row /\ r < nextId
                                                /\ rows[r].origin \in RowIds
<1>1. nextId \in Nat /\ ended \subseteq RowIds
  BY DEF TypeOK
<1>2. ASSUME NEW r \in RowIds
      PROVE  Pending(r) => Exists(r)
  BY ExistingRow
<1>3. ASSUME NEW r \in RowIds, Exists(r)
      PROVE  rows[r] \in Row /\ r < nextId /\ rows[r].origin \in RowIds
  <2>1. rows[r] \in Row
    BY <1>3, ExistingRow
  <2>2. r < nextId
    BY <1>1, <1>3 DEF FreshIds, Exists, RowIds
  <2> QED
    BY <2>1, <2>2 DEF Row
<1> QED
  BY <1>1, <1>2, <1>3

LEMMA QuietKeeps ==
    ASSUME TypeOK, FreshIds, SeriesParts, Quiet
    PROVE  SeriesParts'
<1>1. \A r \in RowIds : /\ Exists(r)' <=> Exists(r)
                        /\ Pending(r)' <=> Pending(r)
                        /\ rows'[r].user = rows[r].user /\ rows'[r].origin = rows[r].origin
                        /\ rows'[r].repeat = rows[r].repeat
  BY DEF Quiet, SameRow, Exists, Pending
<1>2. SeriesRecords'
  <2>1. \A s \in RowIds : Born(s)' <=> Born(s)
    BY <1>1 DEF Born, Quiet
  <2> QED
    BY <1>1, <2>1, RowFacts DEF SeriesParts, SeriesRecords, Quiet
<1>3. SeriesAliveInOnePlace'
  BY <1>1 DEF SeriesParts, SeriesAliveInOnePlace, Quiet
<1> QED
  BY <1>2, <1>3 DEF SeriesParts

LEMMA JoiningKeeps ==
    ASSUME TypeOK, FreshIds, SeriesParts, Joining
    PROVE  SeriesParts'
<1> PICK n \in RowIds : n = nextId
  BY DEF Joining
<1>1. /\ n \notin ended /\ ~Exists(n)
      /\ \A r \in RowIds : Exists(r) => rows[r].origin \in RowIds \ {n}
  BY RowFacts DEF SeriesParts, SeriesRecords
<1>2. /\ Exists(n)' /\ Pending(n)' /\ rows'[n].origin = n
      /\ \A r \in RowIds \ {n} :
            rows'[r] = rows[r] /\ (Exists(r)' <=> Exists(r)) /\ (Pending(r)' <=> Pending(r))
  BY NoRowIsNoRow DEF Joining, Exists, Pending
<1>3. nextId' = n + 1 /\ ended' = ended /\ messages' = messages
  BY DEF Joining
<1>4. SeriesRecords'
  <2>1. \A s \in RowIds \ {n} : Born(s)' <=> Born(s)
    BY <1>2, <1>3 DEF Born
  <2>2. Born(n)'
    BY <1>2 DEF Born
  <2>3. \A s \in ended' : s < nextId'
    BY <1>3, RowFacts DEF SeriesParts, SeriesRecords, RowIds
  <2>4. ASSUME NEW r \in RowIds, Exists(r)'
        PROVE  rows'[r].origin < nextId' /\ Born(rows[r].origin)'
    <3>1. CASE r = n
      <4>1. rows'[r].origin = n
        BY <1>2, <3>1
      <4>2. rows'[r].origin < nextId'
        BY <1>3, <4>1 DEF RowIds
      <4>3. Born(rows[r].origin)'
        BY <2>2, <4>1 DEF Born
      <4> QED
        BY <4>2, <4>3
    <3>2. CASE r # n
      <4>1. rows'[r].origin = rows[r].origin /\ rows[r].origin \in RowIds \ {n}
        BY <1>1, <1>2, <2>4, <3>2
      <4>2. rows[r].origin < nextId /\ Born(rows[r].origin)
        BY <1>2, <2>4, <3>2 DEF SeriesParts, SeriesRecords
      <4> QED
        BY <1>3, <2>1, <4>1, <4>2, RowFacts DEF RowIds
    <3> QED
      BY <3>1, <3>2
  <2>5. ASSUME NEW r \in RowIds, NEW q \in RowIds, Exists(r)', Exists(q)',
               rows'[r].origin = rows'[q].origin
        PROVE  rows'[r].user = rows'[q].user /\ rows'[r].repeat = rows'[q].repeat
    BY <1>1, <1>2, <2>5 DEF SeriesParts, SeriesRecords
  <2> QED
    BY <2>3, <2>4, <2>5 DEF SeriesRecords
<1>5. SeriesAliveInOnePlace'
  <2>1. ASSUME NEW r \in RowIds, NEW q \in RowIds, Pending(r)', Pending(q)',
               rows'[r].origin = rows'[q].origin
        PROVE  r = q
    BY <1>1, <1>2, <2>1, RowFacts DEF SeriesParts, SeriesAliveInOnePlace
  <2>2. ASSUME NEW r \in RowIds, Exists(r)'
        PROVE  IF rows'[r].origin \in ended'
               THEN ~Pending(r)'
               ELSE rows'[r].repeat # "none" =>
                      \E q \in RowIds : Pending(q)' /\ rows'[q].origin = rows'[r].origin
    <3>1. CASE r = n
      BY <1>1, <1>2, <1>3, <3>1
    <3>2. CASE r # n
      <4>1. Exists(r) /\ rows'[r] = rows[r] /\ (Pending(r)' <=> Pending(r))
        BY <1>2, <2>2, <3>2
      <4>2. CASE rows[r].origin \in ended
        BY <1>3, <4>1, <4>2 DEF SeriesParts, SeriesAliveInOnePlace
      <4>3. ASSUME rows[r].origin \notin ended, rows[r].repeat # "none"
            PROVE  \E q \in RowIds : Pending(q)' /\ rows'[q].origin = rows'[r].origin
        <5>1. PICK q \in RowIds : Pending(q) /\ rows[q].origin = rows[r].origin
          BY <4>1, <4>3 DEF SeriesParts, SeriesAliveInOnePlace
        <5>2. q # n
          BY <1>1, <5>1, RowFacts
        <5> QED
          BY <1>2, <4>1, <5>1, <5>2
      <4> QED
        BY <1>3, <4>1, <4>2, <4>3
    <3> QED
      BY <3>1, <3>2
  <2> QED
    BY <2>1, <2>2 DEF SeriesAliveInOnePlace
<1> QED
  BY <1>4, <1>5 DEF SeriesParts

LEMMA EndingKeeps ==
    ASSUME TypeOK, FreshIds, SeriesParts, NEW r \in RowIds, Ending(r)
    PROVE  SeriesParts'
<1> DEFINE o == rows[r].origin
<1>1. /\ Exists(r) /\ Pending(r) /\ o \in RowIds /\ o < nextId
      /\ \A q \in RowIds \ {r} : Pending(q) => rows[q].origin # o
  BY RowFacts DEF Ending, Pending, SeriesParts, SeriesAliveInOnePlace, SeriesRecords
<1>2. /\ ~Pending(r)'
      /\ Exists(r)' => /\ rows'[r].user = rows[r].user /\ rows'[r].origin = rows[r].origin
                       /\ rows'[r].repeat = rows[r].repeat
      /\ \A q \in RowIds \ {r} : (Exists(q)' <=> Exists(q)) /\ (Pending(q)' <=> Pending(q))
  BY DEF Ending, SameRow, Exists, Pending, NoRow
<1>3. SeriesRecords'
  <2>1. \A s \in RowIds : Born(s) => Born(s)'
    BY <1>2 DEF Born, Ending
  <2> QED
    BY <1>1, <1>2, <2>1, RowFacts DEF SeriesParts, SeriesRecords, Ending
<1>4. SeriesAliveInOnePlace'
  BY <1>1, <1>2, RowFacts DEF SeriesParts, SeriesAliveInOnePlace, Ending
<1> QED
  BY <1>3, <1>4 DEF SeriesParts

LEMMA ErasingKeeps ==
    ASSUME TypeOK, FreshIds, SeriesParts, NEW S, Erasing(S)
    PROVE  SeriesParts'
<1>1. \A s \in S : s \in RowIds /\ s < nextId
  BY RowFacts DEF Erasing, SeriesParts, SeriesRecords
<1>2. \A r \in RowIds : /\ Exists(r)' <=> (Exists(r) /\ rows[r].origin \notin S)
                        /\ Exists(r)' => rows'[r] = rows[r]
                        /\ Pending(r)' <=> (Pending(r) /\ rows[r].origin \notin S)
  BY RowFacts DEF Erasing, Exists, Pending, NoRow
<1>3. SeriesRecords'
  <2>1. \A s \in RowIds : Born(s) => Born(s)'
    BY <1>2 DEF Born, Erasing
  <2> QED
    BY <1>1, <1>2, <2>1, RowFacts DEF SeriesParts, SeriesRecords, Erasing
<1>4. SeriesAliveInOnePlace'
  <2>1. \A r \in RowIds : Pending(r)' => rows'[r] = rows[r] /\ Exists(r)'
    BY <1>2, RowFacts
  <2> QED
    BY <1>2, <2>1, RowFacts DEF SeriesParts, SeriesAliveInOnePlace, Erasing
<1> QED
  BY <1>3, <1>4 DEF SeriesParts

LEMMA FiringKeeps ==
    ASSUME TypeOK, FreshIds, SeriesParts, NEW r \in RowIds, Firing(r)
    PROVE  SeriesParts'
<1> DEFINE o == rows[r].origin
<1>1. /\ Exists(r) /\ Pending(r) /\ o \in RowIds /\ o < nextId /\ o \notin ended /\ Born(o)
      /\ \A q \in RowIds \ {r} : Pending(q) => rows[q].origin # o
      /\ rows[r].repeat # "none" => nextId \in RowIds
  <2>1. Exists(r) /\ Pending(r)
    BY DEF Firing, Delivery, Exists, Pending
  <2> QED
    BY <2>1, RowFacts DEF Firing, SeriesParts, SeriesAliveInOnePlace, SeriesRecords
<1>2. /\ Exists(r)' /\ ~Pending(r)'
      /\ rows'[r].user = rows[r].user /\ rows'[r].origin = o /\ rows'[r].repeat = rows[r].repeat
  BY DEF Firing, Delivery, Exists, Pending
<1>3. ended' = ended
  BY DEF Firing
<1>4. CASE rows[r].repeat = "none"
  <2>1. /\ nextId' = nextId
        /\ \A q \in RowIds \ {r} :
              rows'[q] = rows[q] /\ (Exists(q)' <=> Exists(q)) /\ (Pending(q)' <=> Pending(q))
    BY <1>4 DEF Firing, Exists, Pending
  <2>2. \A s \in RowIds : Born(s) => Born(s)'
    BY <1>2, <1>3, <2>1 DEF Born
  <2>3. SeriesRecords'
    BY <1>1, <1>2, <1>3, <2>1, <2>2, RowFacts DEF SeriesParts, SeriesRecords
  <2>4. \A q \in RowIds : Exists(q) /\ rows[q].origin = o => rows[q].repeat = "none"
    BY <1>1, <1>4 DEF SeriesParts, SeriesRecords
  <2>5. SeriesAliveInOnePlace'
    BY <1>1, <1>2, <1>3, <2>1, <2>4, RowFacts DEF SeriesParts, SeriesAliveInOnePlace
  <2> QED
    BY <2>3, <2>5 DEF SeriesParts
<1>5. CASE rows[r].repeat # "none"
  <2> PICK n \in RowIds : n = nextId
    BY <1>1, <1>5
  <2>1. /\ ~Exists(n) /\ n # r /\ n # o /\ nextId' = n + 1
        /\ \A q \in RowIds : Exists(q) => rows[q].origin # n
    BY <1>1, <1>5, RowFacts DEF Firing, SeriesParts, SeriesRecords
  <2>2. /\ Exists(n)' /\ Pending(n)' /\ rows'[n].origin = o
        /\ rows'[n].user = rows[r].user /\ rows'[n].repeat = rows[r].repeat
        /\ \A q \in RowIds \ {r, n} :
              rows'[q] = rows[q] /\ (Exists(q)' <=> Exists(q)) /\ (Pending(q)' <=> Pending(q))
    BY <1>5, NoRowIsNoRow DEF Firing, Delivery, Exists, Pending
  <2>3. SeriesRecords'
    <3>1. \A s \in RowIds \ {n} : Born(s) => Born(s)'
      BY <1>2, <1>3, <2>2 DEF Born
    <3>2. \A s \in ended' : s < nextId'
      BY <1>3, <2>1, RowFacts DEF SeriesParts, SeriesRecords, RowIds
    <3>3. ASSUME NEW q \in RowIds, Exists(q)'
          PROVE  rows'[q].origin < nextId' /\ Born(rows[q].origin)'
      <4>1. PICK p \in RowIds : Exists(p) /\ rows[p].origin = rows'[q].origin
        BY <1>1, <1>2, <2>2, <3>3
      <4>2. /\ rows[p].origin < nextId /\ Born(rows[p].origin)
            /\ rows[p].origin \in RowIds \ {n}
        BY <2>1, <4>1, RowFacts DEF SeriesParts, SeriesRecords
      <4> QED
        BY <2>1, <3>1, <4>1, <4>2 DEF RowIds
    <3>4. \A q \in RowIds : Exists(q)' =>
            \E p \in RowIds : /\ Exists(p) /\ rows[p].origin = rows'[q].origin
                             /\ rows[p].user = rows'[q].user /\ rows[p].repeat = rows'[q].repeat
      BY <1>1, <1>2, <2>2
    <3>5. ASSUME NEW p \in RowIds, NEW q \in RowIds, Exists(p)', Exists(q)',
                 rows'[p].origin = rows'[q].origin
          PROVE  rows'[p].user = rows'[q].user /\ rows'[p].repeat = rows'[q].repeat
      BY <3>4, <3>5 DEF SeriesParts, SeriesRecords
    <3> QED
      BY <3>2, <3>3, <3>5 DEF SeriesRecords
  <2>4. SeriesAliveInOnePlace'
    <3>1. ASSUME NEW p \in RowIds, NEW q \in RowIds, Pending(p)', Pending(q)',
                 rows'[p].origin = rows'[q].origin
          PROVE  p = q
      BY <1>1, <1>2, <2>2, <3>1 DEF SeriesParts, SeriesAliveInOnePlace
    <3>2. ASSUME NEW q \in RowIds, Exists(q)', rows'[q].origin = o
          PROVE  rows'[q].origin \notin ended' /\ Pending(n)' /\ rows'[n].origin = rows'[q].origin
      BY <1>1, <1>3, <2>2, <3>2
    <3>3. ASSUME NEW q \in RowIds, Exists(q)', rows'[q].origin # o
          PROVE  IF rows'[q].origin \in ended'
                 THEN ~Pending(q)'
                 ELSE rows'[q].repeat # "none" =>
                        \E p \in RowIds : Pending(p)' /\ rows'[p].origin = rows'[q].origin
      <4>1. q \notin {r, n} /\ Exists(q) /\ rows'[q] = rows[q] /\ (Pending(q)' <=> Pending(q))
        BY <1>2, <2>2, <3>3
      <4>2. \A p \in RowIds : Pending(p) /\ rows[p].origin # o => Pending(p)' /\ rows'[p] = rows[p]
        BY <1>1, <2>1, <2>2, RowFacts
      <4> QED
        BY <1>3, <3>3, <4>1, <4>2 DEF SeriesParts, SeriesAliveInOnePlace
    <3> QED
      BY <3>1, <3>2, <3>3 DEF SeriesAliveInOnePlace
  <2> QED
    BY <2>3, <2>4 DEF SeriesParts
<1> QED
  BY <1>4, <1>5

-------------------------------------------------------------------------------
(* Every step is of one of these kinds *)

SeriesStep ==
    \/ Quiet \/ Joining
    \/ \E r \in RowIds : Ending(r) \/ Firing(r)
    \/ \E S \in SUBSET RowIds : Erasing(S)

LEMMA NoChangeIsQuiet ==
    ASSUME rows' = rows, ended' = ended, messages' = messages, nextId' = nextId
    PROVE  Quiet
  BY DEF Quiet, SameRow

(* One pending row rewritten, its author, series and recurrence kept. *)
LEMMA RewriteIsQuiet ==
    ASSUME TypeOK, NEW r \in RowIds, rows[r] \in Row, rows[r].status = "pending",
           rows'[r].status = "pending", rows'[r].user = rows[r].user,
           rows'[r].origin = rows[r].origin, rows'[r].repeat = rows[r].repeat,
           \A q \in RowIds \ {r} : rows'[q] = rows[q],
           ended' = ended, messages' = messages, nextId' = nextId
    PROVE  Quiet
<1>1. rows[r] # NoRow /\ rows'[r] # NoRow
  BY DEF NoRow
<1> QED
  BY <1>1 DEF Quiet, SameRow

LEMMA PostInsertSteps ==
    ASSUME TypeOK, NEW u \in Users, PostInsert(u)
    PROVE  SeriesStep
<1>1. ended' = ended /\ messages' = messages
  BY DEF PostInsert
<1>2. CASE UNCHANGED <<rows, nextId>>
  BY <1>1, <1>2, NoChangeIsQuiet DEF SeriesStep
<1>3. ASSUME NEW due \in AcceptedDue, nextId <= MaxPosts, nextId' = nextId + 1,
             rows' = [rows EXCEPT ![nextId] =
                 NewRow(u, req[u].body, due, req[u].file, req[u].repeat, nextId)]
      PROVE  Joining
  <2>1. nextId \in RowIds
    BY <1>3, ScheduleAssumption DEF TypeOK, RowIds
  <2>2. req[u] \in Request
    BY RequestType DEF PostInsert
  <2>3. NewRow(u, req[u].body, due, req[u].file, req[u].repeat, nextId) \in Row
    BY <2>1, <2>2, NewRowType, AcceptedDueType DEF Request
  <2>4. /\ rows'[nextId] = NewRow(u, req[u].body, due, req[u].file, req[u].repeat, nextId)
        /\ \A r \in RowIds \ {nextId} : rows'[r] = rows[r]
    BY <1>3, <2>1 DEF TypeOK
  <2>5. rows'[nextId].status = "pending" /\ rows'[nextId].origin = nextId
    BY <2>4 DEF NewRow
  <2> QED
    BY <1>1, <1>3, <2>1, <2>3, <2>4, <2>5 DEF Joining
<1> QED
  BY <1>2, <1>3 DEF PostInsert, SeriesStep

LEMMA PatchWriteSteps ==
    ASSUME TypeOK, NEW u \in Users, PatchWrite(u)
    PROVE  Quiet
<1> DEFINE r == req[u].row
<1>1. ended' = ended /\ messages' = messages /\ nextId' = nextId
  BY DEF PatchWrite
<1>2. CASE rows' = rows
  BY <1>1, <1>2, NoChangeIsQuiet
<1>3. ASSUME Updatable(u, r), NEW due \in AcceptedDue, r \in RowIds,
             rows' = [rows EXCEPT ![r] = Edited(@, req[u].body, due, req[u].file)]
      PROVE  Quiet
  <2>1. rows[r] \in Row /\ rows[r].status = "pending"
    BY <1>3, ExistingRow DEF Updatable, Pending
  <2>2. /\ rows'[r] = Edited(rows[r], req[u].body, due, req[u].file)
        /\ \A q \in RowIds \ {r} : rows'[q] = rows[q]
    BY <1>3 DEF TypeOK
  <2>3. /\ rows'[r].user = rows[r].user /\ rows'[r].origin = rows[r].origin
        /\ rows'[r].repeat = rows[r].repeat /\ rows'[r].status = "pending"
    BY <2>1, <2>2 DEF Edited, Row
  <2> QED
    BY <1>1, <1>3, <2>1, <2>2, <2>3, RewriteIsQuiet
<1>4. r \notin RowIds => \A row : [rows EXCEPT ![r] = row] = rows
  BY DEF TypeOK
<1> QED
  BY <1>2, <1>3, <1>4 DEF PatchWrite

LEMMA CancelSteps ==
    ASSUME TypeOK, NEW u \in Users, NEW r \in RowIds, Cancel(u, r)
    PROVE  Ending(r)
<1>1. rows[r] # NoRow /\ rows[r].status = "pending"
  BY DEF Cancel, Updatable, Exists, Pending
<1>2. rows'[r] = NoRow /\ \A q \in RowIds \ {r} : rows'[q] = rows[q]
  BY DEF Cancel, TypeOK
<1> QED
  BY <1>1, <1>2 DEF Cancel, Ending

LEMMA DropSteps ==
    ASSUME TypeOK, SnapshotsAreOld, NEW d \in Dispatchers, Drop(d)
    PROVE  Ending(disp[d].cur)
<1> DEFINE r == disp[d].cur
<1>1. r \in RowIds /\ rows[r] \in Row /\ rows[r] # NoRow /\ rows[r].status = "pending"
  BY SnapshotType, ExistingRow, NoRowIsNoRow DEF Drop, CanClaim, Pending
<1>2. /\ rows'[r] = [rows[r] EXCEPT !.status = "dropped"]
      /\ \A q \in RowIds \ {r} : rows'[q] = rows[q]
  BY <1>1 DEF Drop, TypeOK
<1>3. /\ rows'[r].user = rows[r].user /\ rows'[r].origin = rows[r].origin
      /\ rows'[r].repeat = rows[r].repeat /\ rows'[r].status = "dropped" /\ rows'[r] # NoRow
  BY <1>1, <1>2 DEF Row, NoRow
<1>4. ended' = ended \cup {rows[r].origin} /\ messages' = messages /\ nextId' = nextId
  BY DEF Drop
<1> QED
  BY <1>1, <1>2, <1>3, <1>4 DEF Ending, SameRow

LEMMA FailSteps ==
    ASSUME TypeOK, SnapshotsAreOld, NEW d \in Dispatchers, Fail(d)
    PROVE  Quiet
<1> DEFINE r == disp[d].cur
<1>1. ended' = ended /\ messages' = messages /\ nextId' = nextId
  BY DEF Fail
<1>2. CASE ~CanClaim(r)
  BY <1>1, <1>2, NoChangeIsQuiet DEF Fail, Bump
<1>3. CASE CanClaim(r)
  <2>1. r \in RowIds /\ rows[r] \in Row /\ rows[r].status = "pending"
    BY <1>3, SnapshotType, ExistingRow DEF Fail, CanClaim, Pending
  <2>2. \A q \in RowIds \ {r} : rows'[q] = rows[q]
    BY <1>3, <2>1 DEF Fail, Bump, TypeOK
  <2>3. PICK a, n : rows'[r] = [rows[r] EXCEPT !.attempts = a, !.notBefore = n]
    BY <1>3, <2>1 DEF Fail, Bump, TypeOK
  <2>4. /\ rows'[r].user = rows[r].user /\ rows'[r].origin = rows[r].origin
        /\ rows'[r].repeat = rows[r].repeat /\ rows'[r].status = "pending"
    BY <2>1, <2>3 DEF Row
  <2> QED
    BY <1>1, <2>1, <2>2, <2>4, RewriteIsQuiet
<1> QED
  BY <1>2, <1>3

LEMMA DeleteRoomSteps ==
    ASSUME TypeOK, NEW S \in SUBSET RowIds, DeleteRoom(S)
    PROVE  Erasing(S)
  BY DEF DeleteRoom, Erasing, Exists

(* The rows of an author are whole series, and so are the messages. *)
LEMMA PurgeChatSteps ==
    ASSUME TypeOK, FreshIds, SameOwner, DeliveredExactlyOnce, SeriesRecords,
           NEW u \in Users, PurgeChat(u)
    PROVE  \E S \in SUBSET RowIds : Erasing(S)
<1> DEFINE S == {rows[r].origin : r \in OwnedBy(u)}
<1>1. S \in SUBSET RowIds /\ S \subseteq {rows[r].origin : r \in {q \in RowIds : Exists(q)}}
  BY RowFacts DEF OwnedBy
<1>2. \A r \in RowIds : Exists(r) => (r \in OwnedBy(u) <=> rows[r].origin \in S)
  BY DEF OwnedBy, SeriesRecords
<1>3. \A m \in MsgIds : messages[m] # NoMessage =>
        /\ messages[m].row \in RowIds /\ Exists(messages[m].row)
        /\ rows[messages[m].row].user = messages[m].user
  <2>1. \A m \in MsgIds : messages[m] # NoMessage => messages[m].row \in RowIds
    BY MessageRows DEF Message
  <2> QED
    BY <2>1 DEF DeliveredExactlyOnce, SameOwner, NoRow, Exists
<1>4. \A m \in MsgIds : messages[m] # NoMessage =>
        (messages[m].user = u <=> rows[messages[m].row].origin \in S)
  <2> SUFFICES ASSUME NEW m \in MsgIds, messages[m] # NoMessage
               PROVE  messages[m].user = u <=> rows[messages[m].row].origin \in S
    OBVIOUS
  <2>1. messages[m].row \in OwnedBy(u) <=> messages[m].user = u
    BY <1>3 DEF OwnedBy
  <2> QED
    BY <1>2, <1>3, <2>1
<1>5. /\ ended' = ended \cup S /\ nextId' = nextId
      /\ rows' = [r \in RowIds |-> IF r \in OwnedBy(u) THEN NoRow ELSE rows[r]]
      /\ messages' = [m \in MsgIds |->
            IF messages[m] # NoMessage /\ messages[m].user = u THEN NoMessage ELSE messages[m]]
  BY DEF PurgeChat
<1>6. \A r \in RowIds : r \in OwnedBy(u) => Exists(r)
  BY DEF OwnedBy
<1> HIDE DEF S
<1>7. Erasing(S)
  <2>1. \A r \in RowIds :
          rows'[r] = IF Exists(r) /\ rows[r].origin \in S THEN NoRow ELSE rows[r]
    BY <1>2, <1>5, <1>6
  <2>2. \A m \in MsgIds :
          messages'[m] = IF messages[m] # NoMessage /\ rows[messages[m].row].origin \in S
                         THEN NoMessage ELSE messages[m]
    BY <1>4, <1>5
  <2> QED
    BY <1>1, <1>5, <2>1, <2>2 DEF Erasing
<1> QED
  BY <1>1, <1>7

LEMMA DeliverSteps ==
    ASSUME IndInv, NEW d \in Dispatchers, Deliver(d)
    PROVE  disp[d].cur \in RowIds /\ Firing(disp[d].cur)
<1> DEFINE r == disp[d].cur
           row == Snapshot(d)
<1>1. TypeOK /\ FreshIds /\ SnapshotsAreOld /\ SameOwner /\ IdBookkeeping
  BY DEF IndInv, IdBookkeeping
<1>2. Delivery(r, row.user)
  BY <1>1, DeliverIsDelivery
<1>3. /\ r \in RowIds /\ Exists(r) /\ row \in Row
      /\ rows[r].user = row.user /\ rows[r].origin = row.origin /\ rows[r].repeat = row.repeat
  <2>1. r \in RowIds /\ row \in Row /\ r \in Remaining(d)
    BY <1>1, SnapshotType DEF Deliver, SnapshotsAreOld
  <2>2. Exists(r)
    BY DEF Deliver, CanClaim
  <2> QED
    BY <1>1, <2>1, <2>2 DEF SameOwner, Snapshot
<1>4. /\ ended' = ended
      /\ IF row.repeat = "none"
         THEN /\ rows' = [rows EXCEPT ![r].status = "delivered"]
              /\ nextId' = nextId
         ELSE /\ nextId \in RowIds /\ nextId' = nextId + 1
              /\ rows' = [[rows EXCEPT ![r].status = "delivered"] EXCEPT ![nextId] = Successor(row)]
  BY DEF Deliver
<1>5. CASE row.repeat = "none"
  <2>1. \A q \in RowIds \ {r} : rows'[q] = rows[q]
    BY <1>1, <1>4, <1>5 DEF TypeOK
  <2> QED
    BY <1>2, <1>3, <1>4, <1>5, <2>1 DEF Firing
<1>6. CASE row.repeat # "none"
  <2>1. rows'[nextId] = Successor(row)
    BY <1>1, <1>4, <1>6 DEF TypeOK
  <2>2. /\ Successor(row).status = "pending" /\ Successor(row).user = row.user
        /\ Successor(row).origin = row.origin /\ Successor(row).repeat = row.repeat
    BY DEF Successor, NewRow
  <2>3. Successor(row) \in Row
    BY <1>1, <1>3, <1>6, SuccessorType
  <2> QED
    BY <1>2, <1>3, <1>4, <1>6, <2>1, <2>2, <2>3 DEF Firing
<1> QED
  BY <1>3, <1>5, <1>6

LEMMA NextIsSeriesStep ==
    ASSUME IndInv, SeriesRecords, [Next]_vars
    PROVE  SeriesStep
<1>1. TypeOK /\ FreshIds /\ SnapshotsAreOld /\ SameOwner /\ DeliveredExactlyOnce
  BY DEF IndInv
<1>2. ASSUME NEW u \in Users, HandlerStep(u)
      PROVE  SeriesStep
  <2>1. ASSUME NEW b \in Bodies, NEW f \in AnyFile, NEW rep \in Repeats, PostCheck(u, b, f, rep)
        PROVE  SeriesStep
    BY <2>1, NoChangeIsQuiet DEF PostCheck, SeriesStep
  <2>2. ASSUME NEW r \in RowIds, NEW b \in Bodies, NEW f \in AnyFile, PatchCheck(u, r, b, f)
        PROVE  SeriesStep
    BY <2>2, NoChangeIsQuiet DEF PatchCheck, SeriesStep
  <2> QED
    BY <1>1, <1>2, <2>1, <2>2, PostInsertSteps, PatchWriteSteps, CancelSteps
       DEF HandlerStep, SeriesStep
<1>3. ASSUME NEW d \in Dispatchers, DispatchStep(d)
      PROVE  SeriesStep
  <2>1. CASE SelectDue(d)
    BY <2>1, NoChangeIsQuiet DEF SelectDue, SeriesStep
  <2>2. ASSUME NEW r \in RowIds, Validate(d, r)
        PROVE  SeriesStep
    BY <2>2, NoChangeIsQuiet DEF Validate, SeriesStep
  <2>3. CASE LoseClaim(d) \/ Link(d)
    BY <2>3, NoChangeIsQuiet DEF LoseClaim, Link, SeriesStep
  <2>4. CASE Drop(d)
    BY <1>1, <2>4, DropSteps, SnapshotType DEF Drop, SeriesStep
  <2>5. CASE Deliver(d)
    BY <2>5, DeliverSteps DEF SeriesStep
  <2>6. CASE Fail(d)
    BY <1>1, <2>6, FailSteps DEF SeriesStep
  <2> QED
    BY <1>3, <2>1, <2>2, <2>3, <2>4, <2>5, <2>6 DEF DispatchStep
<1>4. ASSUME \/ Tick \/ Crash
             \/ \E u \in Users : ModerateAuthor(u) \/ PurgeAuth(u)
             \/ \E b \in Bodies : ModerateBody(b)
      PROVE  SeriesStep
  BY <1>4, NoChangeIsQuiet DEF Tick, Crash, ModerateAuthor, PurgeAuth, ModerateBody, SeriesStep
<1>5. ASSUME NEW u \in Users, PurgeChat(u)
      PROVE  SeriesStep
  BY <1>1, <1>5, PurgeChatSteps DEF SeriesStep
<1>6. ASSUME NEW S \in SUBSET RowIds, DeleteRoom(S)
      PROVE  SeriesStep
  BY <1>1, <1>6, DeleteRoomSteps DEF SeriesStep
<1>7. CASE UNCHANGED vars
  BY <1>7, NoChangeIsQuiet DEF vars, SeriesStep
<1> QED
  BY <1>2, <1>3, <1>4, <1>5, <1>6, <1>7 DEF Next

(* The inductive step of SeriesInv *)
LEMMA SeriesInduction == Spec => [](SeriesInv)
<1>1. Init => SeriesParts
  BY ScheduleAssumption
     DEF Init, SeriesParts, SeriesRecords, SeriesAliveInOnePlace, Exists, Pending, NoRow
<1>2. IndInv /\ SeriesParts /\ [Next]_vars => SeriesParts'
  <2> SUFFICES ASSUME IndInv, SeriesParts, [Next]_vars PROVE SeriesParts'
    OBVIOUS
  <2>1. SeriesStep /\ TypeOK /\ FreshIds
    BY NextIsSeriesStep DEF SeriesParts, IndInv
  <2> QED
    BY <2>1, QuietKeeps, JoiningKeeps, EndingKeeps, FiringKeeps, ErasingKeeps DEF SeriesStep
<1>3. IndInv /\ SeriesParts <=> SeriesInv
  BY DEF SeriesInv, SeriesParts
<1> QED
  BY <1>1, <1>2, <1>3, Induction, PTL DEF Spec

(* A recurring series is alive in exactly one place: dispatch_one's claim, *)
(* message and next occurrence commit together, and whatever ends one      *)
(* occurrence ends the series.                                             *)
THEOREM OneOccurrencePending == Spec => []SeriesAliveInOnePlace
<1>1. SeriesInv => SeriesAliveInOnePlace
  BY DEF SeriesInv
<1> QED
  BY <1>1, SeriesInduction, PTL

-------------------------------------------------------------------------------
(* The promise *)

Kind(rep) == IF rep = "none" THEN "once" ELSE "repeating"

LEMMA StageNow ==
    ASSUME SeriesInv, NEW s \in RowIds
    PROVE  /\ \A r \in RowIds : Waits(s, r) => StageOf(s) = Kind(rows[r].repeat)
           /\ (\A r \in RowIds : ~Waits(s, r)) =>
                 StageOf(s) = IF Born(s) THEN "over" ELSE "unborn"
<1>1. \A r, q \in RowIds : Waits(s, r) /\ Waits(s, q) => rows[r].repeat = rows[q].repeat
  BY RowFacts DEF Waits, SeriesInv, IndInv, SeriesRecords
<1> QED
  BY <1>1 DEF StageOf, Kind

LEMMA StageNext ==
    ASSUME SeriesInv', NEW s \in RowIds
    PROVE  /\ \A r \in RowIds : Waits(s, r)' => StageOf(s)' = Kind(rows'[r].repeat)
           /\ (\A r \in RowIds : ~Waits(s, r)') =>
                 StageOf(s)' = IF Born(s)' THEN "over" ELSE "unborn"
<1>1. \A r \in RowIds : Pending(r)' => Exists(r)'
  BY DEF Pending, Exists, NoRow
<1>2. \A r, q \in RowIds : Waits(s, r)' /\ Waits(s, q)' => rows'[r].repeat = rows'[q].repeat
  BY <1>1 DEF Waits, SeriesInv, SeriesRecords
<1> QED
  BY <1>2 DEF StageOf, Kind

(* When the rows of a series wait as before and it is known as before, its *)
(* stage is as before.                                                     *)
LEMMA SameStage ==
    ASSUME SeriesInv, SeriesInv', NEW s \in RowIds,
           Born(s)' <=> Born(s),
           \A r \in RowIds : /\ Waits(s, r)' <=> Waits(s, r)
                             /\ Waits(s, r) => rows'[r].repeat = rows[r].repeat
    PROVE  StageOf(s)' = StageOf(s)
<1>1. CASE \E r \in RowIds : Waits(s, r)
  <2> PICK r \in RowIds : Waits(s, r)
    BY <1>1
  <2> QED
    BY StageNow, StageNext
<1>2. CASE \A r \in RowIds : ~Waits(s, r)
  BY <1>2, StageNow, StageNext
<1> QED
  BY <1>1, <1>2

(* The row of a message is there, delivered, and names a series. *)
LEMMA MessageFacts ==
    ASSUME SeriesInv, NEW m \in MsgIds, messages[m] # NoMessage
    PROVE  /\ messages[m].row \in RowIds /\ Exists(messages[m].row)
           /\ rows[messages[m].row].status = "delivered"
           /\ rows[messages[m].row].origin \in RowIds
<1>1. messages[m].row \in RowIds
  BY MessageRows DEF SeriesInv, IndInv, Message
<1>2. rows[messages[m].row].status = "delivered"
  BY DEF SeriesInv, IndInv, DeliveredExactlyOnce
<1>3. Exists(messages[m].row)
  BY <1>2 DEF Exists, NoRow
<1> QED
  BY <1>1, <1>2, <1>3, RowFacts DEF SeriesInv, IndInv

LEMMA SameSent ==
    ASSUME SeriesInv, messages' = messages, NEW s \in RowIds,
           \A r \in RowIds : Exists(r) /\ rows[r].status = "delivered" =>
                rows'[r].origin = rows[r].origin
    PROVE  SentBy(s)' = SentBy(s)
<1>1. \A m \in MsgIds : messages[m] # NoMessage =>
        rows'[messages[m].row].origin = rows[messages[m].row].origin
  BY MessageFacts
<1> QED
  BY <1>1 DEF SentBy

PromiseUnchanged ==
    \A s \in RowIds : StageOf(s)' = StageOf(s) /\ SentBy(s)' = SentBy(s)

LEMMA QuietStutters ==
    ASSUME SeriesInv, SeriesInv', Quiet
    PROVE  PromiseUnchanged
<1> SUFFICES ASSUME NEW s \in RowIds
             PROVE  StageOf(s)' = StageOf(s) /\ SentBy(s)' = SentBy(s)
  BY DEF PromiseUnchanged
<1>1. \A r \in RowIds : /\ Waits(s, r)' <=> Waits(s, r)
                        /\ rows'[r].repeat = rows[r].repeat
                        /\ rows'[r].origin = rows[r].origin
  BY DEF Quiet, SameRow, Waits, Pending
<1>2. Born(s)' <=> Born(s)
  BY DEF Quiet, SameRow, Born, Exists
<1>3. messages' = messages
  BY DEF Quiet
<1> QED
  BY <1>1, <1>2, <1>3, SameStage, SameSent

LEMMA JoiningAccepts ==
    ASSUME SeriesInv, SeriesInv', Joining
    PROVE  \E s \in RowIds : Promise!Accept(s)
<1> PICK n \in RowIds : n = nextId
  BY DEF Joining
<1>1. TypeOK /\ FreshIds /\ SeriesRecords
  BY DEF SeriesInv, IndInv
<1>2. /\ ~Exists(n) /\ ~Born(n)
      /\ \A r \in RowIds : Exists(r) => r # n /\ rows[r].origin # n
  BY <1>1, RowFacts DEF Born, SeriesRecords
<1>3. /\ rows'[n].status = "pending" /\ rows'[n].origin = n
      /\ \A r \in RowIds \ {n} : rows'[r] = rows[r]
      /\ ended' = ended /\ messages' = messages
  BY DEF Joining
<1>4. StageOf(n) = "unborn"
  BY <1>1, <1>2, StageNow, RowFacts DEF Waits
<1>5. StageOf(n)' \in {"once", "repeating"}
  BY <1>3, StageNext DEF Waits, Pending, Kind
<1>6. ASSUME NEW s \in RowIds \ {n}
      PROVE  StageOf(s)' = StageOf(s)
  <2>1. Born(s)' <=> Born(s)
    BY <1>3 DEF Born, Exists
  <2>2. \A r \in RowIds : /\ Waits(s, r)' <=> Waits(s, r)
                          /\ Waits(s, r) => rows'[r].repeat = rows[r].repeat
    BY <1>1, <1>2, <1>3, RowFacts DEF Waits, Pending
  <2> QED
    BY <2>1, <2>2, SameStage
<1>7. \A s \in RowIds : SentBy(s)' = SentBy(s)
  BY <1>2, <1>3, SameSent
<1>8. Promise!Accept(n)
  BY <1>4, <1>5, <1>6, <1>7 DEF Promise!Accept
<1> QED
  BY <1>8

LEMMA EndingEnds ==
    ASSUME SeriesInv, SeriesInv', NEW r \in RowIds, Ending(r)
    PROVE  \E s \in RowIds : Promise!End(s)
<1>1. TypeOK /\ FreshIds /\ SeriesAliveInOnePlace
  BY DEF SeriesInv, IndInv
<1> PICK o \in RowIds : o = rows[r].origin
  BY <1>1, RowFacts DEF Ending, Exists
<1>2. Exists(r) /\ Pending(r) /\ o \in RowIds /\ Waits(o, r)
  BY <1>1, RowFacts DEF Ending, Pending, Waits
<1>3. /\ rows'[r].status # "pending" /\ \A q \in RowIds \ {r} : rows'[q] = rows[q]
      /\ ended' = ended \cup {o} /\ messages' = messages
      /\ rows'[r] = NoRow \/ rows'[r].origin = o
  BY DEF Ending, SameRow, NoRow
<1>4. StageOf(o) \in {"once", "repeating"}
  BY <1>2, StageNow DEF Kind
<1>5. StageOf(o)' = "over"
  <2>1. \A q \in RowIds : ~Waits(o, q)'
    BY <1>1, <1>2, <1>3 DEF Waits, Pending, SeriesAliveInOnePlace
  <2>2. Born(o)'
    BY <1>3 DEF Born
  <2> QED
    BY <1>2, <2>1, <2>2, StageNext
<1>6. ASSUME NEW s \in RowIds \ {o}
      PROVE  StageOf(s)' = StageOf(s)
  <2>1. Born(s)' <=> Born(s)
    <3>1. CASE s = r
      BY <1>3, <1>6, <3>1 DEF Born, Exists
    <3>2. CASE s # r
      BY <1>3, <1>6, <3>2 DEF Born, Exists
    <3> QED
      BY <3>1, <3>2
  <2>2. \A q \in RowIds : /\ Waits(s, q)' <=> Waits(s, q)
                          /\ Waits(s, q) => rows'[q].repeat = rows[q].repeat
    BY <1>3, <1>6 DEF Waits, Pending
  <2> QED
    BY <2>1, <2>2, SameStage
<1>7. \A s \in RowIds : SentBy(s)' = SentBy(s)
  <2>1. \A q \in RowIds : rows[q].status = "delivered" => q # r
    BY DEF Ending
  <2> QED
    BY <1>3, <2>1, SameSent
<1>8. Promise!End(o)
  BY <1>2, <1>4, <1>5, <1>6, <1>7 DEF Promise!End, Promise!Waiting
<1> QED
  BY <1>2, <1>8

LEMMA ErasingErases ==
    ASSUME SeriesInv, SeriesInv', NEW S \in SUBSET RowIds, Erasing(S)
    PROVE  \E T \in SUBSET Promise!Taken : Promise!Erase(T)
<1>1. TypeOK /\ FreshIds /\ SeriesRecords
  BY DEF SeriesInv, IndInv
<1>2. \A r \in RowIds : /\ Exists(r)' <=> (Exists(r) /\ rows[r].origin \notin S)
                        /\ Exists(r)' => rows'[r] = rows[r]
  BY DEF Erasing, Exists
<1>3. \A r \in RowIds : Pending(r)' <=> (Pending(r) /\ rows[r].origin \notin S)
  BY <1>1, RowFacts DEF Erasing, Exists, Pending, NoRow
<1>4. \A r \in RowIds : Pending(r)' => rows'[r] = rows[r]
  BY <1>1, <1>2, <1>3, RowFacts
<1>5. ended' = ended \cup S
  BY DEF Erasing
<1>6. S \subseteq Promise!Taken
  <2> SUFFICES ASSUME NEW s \in S PROVE StageOf(s) # "unborn"
    BY DEF Promise!Taken
  <2>1. s \in RowIds /\ Born(s)
    BY <1>1, RowFacts DEF Erasing, SeriesRecords
  <2>2. CASE \E r \in RowIds : Waits(s, r)
    BY <2>1, <2>2, StageNow DEF Kind
  <2>3. CASE \A r \in RowIds : ~Waits(s, r)
    BY <2>1, <2>3, StageNow
  <2> QED
    BY <2>2, <2>3
<1>7. ASSUME NEW s \in S
      PROVE  StageOf(s)' = "over"
  <2>1. \A r \in RowIds : ~Waits(s, r)'
    BY <1>3, <1>4 DEF Waits
  <2>2. Born(s)'
    BY <1>5 DEF Born
  <2> QED
    BY <2>1, <2>2, StageNext
<1>8. ASSUME NEW s \in RowIds \ S
      PROVE  StageOf(s)' = StageOf(s)
  <2>1. Born(s)' <=> Born(s)
    BY <1>2, <1>5 DEF Born
  <2>2. \A r \in RowIds : /\ Waits(s, r)' <=> Waits(s, r)
                          /\ Waits(s, r) => rows'[r].repeat = rows[r].repeat
    BY <1>3, <1>4 DEF Waits
  <2> QED
    BY <2>1, <2>2, SameStage
<1>9. \A s \in RowIds : SentBy(s)' = IF s \in S THEN {} ELSE SentBy(s)
  <2>1. ASSUME NEW m \in MsgIds, messages[m] # NoMessage
        PROVE  LET o == rows[messages[m].row].origin IN
               IF o \in S THEN messages'[m] = NoMessage
                          ELSE messages'[m] = messages[m] /\ rows'[messages[m].row].origin = o
    BY <1>2, <2>1, MessageFacts DEF Erasing
  <2>2. \A m \in MsgIds : messages[m] = NoMessage => messages'[m] = NoMessage
    BY DEF Erasing
  <2> QED
    BY <2>1, <2>2 DEF SentBy
<1>10. Promise!Erase(S)
  BY <1>7, <1>8, <1>9 DEF Promise!Erase
<1> QED
  BY <1>6, <1>10

LEMMA FiringFires ==
    ASSUME SeriesInv, SeriesInv', NEW r \in RowIds, Firing(r)
    PROVE  \E s \in RowIds : Promise!Fire(s)
<1>1. TypeOK /\ FreshIds /\ SeriesAliveInOnePlace /\ SeriesRecords
  BY DEF SeriesInv, IndInv
<1> PICK o \in RowIds : o = rows[r].origin
  BY <1>1, RowFacts DEF Firing, Delivery, Exists
<1>2. /\ Exists(r) /\ Pending(r) /\ o \in RowIds /\ Waits(o, r) /\ Born(o)
      /\ o < nextId
  <2>1. Exists(r) /\ Pending(r)
    BY DEF Firing, Delivery, Exists, Pending
  <2> QED
    BY <1>1, <2>1, RowFacts DEF Waits, SeriesRecords
<1>3. /\ Exists(r)' /\ ~Pending(r)' /\ rows'[r].origin = o /\ ended' = ended
      /\ nextMsg \in MsgIds /\ messages[nextMsg] = NoMessage
      /\ messages'[nextMsg] # NoMessage /\ messages'[nextMsg].row = r
      /\ \A m \in MsgIds : m # nextMsg => messages'[m] = messages[m]
  BY DEF Firing, Delivery, Exists, Pending
<1>4. \A q \in RowIds \ {r} : Exists(q) => rows'[q] = rows[q]
  BY DEF Firing, Delivery, Exists
<1>5. StageOf(o) = Kind(rows[r].repeat)
  BY <1>2, StageNow
<1>6. StageOf(o)' = IF rows[r].repeat = "none" THEN "over" ELSE "repeating"
  <2>1. Born(o)'
    BY <1>2, <1>3, <1>4 DEF Born, Exists
  <2>2. CASE rows[r].repeat = "none"
    <3>1. \A q \in RowIds : ~Waits(o, q)'
      BY <1>1, <1>2, <1>3, <2>2 DEF Firing, Waits, Pending, SeriesAliveInOnePlace
    <3> QED
      BY <1>2, <2>1, <2>2, <3>1, StageNext
  <2>3. CASE rows[r].repeat # "none"
    <3> PICK n \in RowIds : /\ rows'[n].status = "pending" /\ rows'[n].origin = o
                            /\ rows'[n].repeat = rows[r].repeat
      BY <2>3 DEF Firing
    <3> QED
      BY <1>2, <2>3, StageNext DEF Waits, Pending, Kind
  <2> QED
    BY <2>2, <2>3
<1>7. ASSUME NEW s \in RowIds \ {o}
      PROVE  StageOf(s)' = StageOf(s)
  <2>1. \A q \in RowIds \ {r} : ~Exists(q) /\ Exists(q)' => rows'[q].origin = o /\ q # o
    BY <1>2, RowFacts, <1>1 DEF Firing, Delivery, Exists
  <2>2. Born(s)' <=> Born(s)
    <3>1. CASE s = r
      BY <1>2, <1>3, <1>7, <3>1 DEF Born
    <3>2. CASE s # r
      BY <1>3, <1>4, <1>7, <2>1, <3>2 DEF Born, Exists
    <3> QED
      BY <3>1, <3>2
  <2>3. \A q \in RowIds : /\ Waits(s, q)' <=> Waits(s, q)
                          /\ Waits(s, q) => rows'[q].repeat = rows[q].repeat
    <3> SUFFICES ASSUME NEW q \in RowIds
                 PROVE  /\ Waits(s, q)' <=> Waits(s, q)
                        /\ Waits(s, q) => rows'[q].repeat = rows[q].repeat
      OBVIOUS
    <3>1. CASE q = r
      BY <1>2, <1>3, <1>7, <3>1 DEF Waits
    <3>2. CASE q # r /\ Exists(q)
      BY <1>4, <3>2 DEF Waits, Pending
    <3>3. CASE q # r /\ ~Exists(q)
      <4>1. ~Waits(s, q)
        BY <1>1, <3>3, RowFacts DEF Waits
      <4>2. ~Waits(s, q)'
        BY <1>7, <2>1, <3>3 DEF Waits, Pending, Exists, NoRow
      <4> QED
        BY <4>1, <4>2
    <3> QED
      BY <3>1, <3>2, <3>3
  <2> QED
    BY <2>2, <2>3, SameStage
<1>8. \A s \in RowIds : nextMsg \notin SentBy(s)
  BY <1>3 DEF SentBy
<1>9. \A s \in RowIds : SentBy(s)' = IF s = o THEN SentBy(s) \cup {nextMsg} ELSE SentBy(s)
  <2>1. \A m \in MsgIds : messages[m] # NoMessage =>
          /\ messages'[m] = messages[m]
          /\ rows'[messages[m].row].origin = rows[messages[m].row].origin
    BY <1>3, <1>4, MessageFacts
  <2>2. \A m \in MsgIds : messages[m] = NoMessage /\ m # nextMsg => messages'[m] = NoMessage
    BY <1>3
  <2> QED
    BY <1>3, <2>1, <2>2 DEF SentBy
<1>10. Promise!Fire(o)
  BY <1>2, <1>3, <1>5, <1>6, <1>7, <1>8, <1>9 DEF Promise!Fire, Promise!Waiting, Kind
<1> QED
  BY <1>2, <1>10

(* The table, its handlers and any number of dispatchers implement the     *)
(* promise: post_scheduled accepts a series, dispatch_one fires it once    *)
(* per occurrence, a cancel or a drop ends it, a purge erases it, and      *)
(* every other step is invisible to the author.                            *)
THEOREM PromiseKept == Spec => SeriesPromise
<1>1. SeriesInv /\ Init => Promise!Init
  <2> SUFFICES ASSUME SeriesInv, Init, NEW s \in RowIds
               PROVE  StageOf(s) = "unborn" /\ SentBy(s) = {}
    BY DEF Promise!Init
  <2>1. ~Born(s) /\ \A r \in RowIds : ~Waits(s, r)
    BY DEF Init, Born, Exists, Waits, Pending, NoRow
  <2> QED
    BY <2>1, StageNow DEF Init, SentBy
<1>2. SeriesInv /\ SeriesInv' /\ [Next]_vars => [Promise!Next]_(Promise!promise)
  <2> SUFFICES ASSUME SeriesInv, SeriesInv', [Next]_vars
               PROVE  Promise!Next \/ UNCHANGED Promise!promise
    OBVIOUS
  <2>1. SeriesStep
    BY NextIsSeriesStep DEF SeriesInv
  <2>2. PromiseUnchanged => UNCHANGED Promise!promise
    BY DEF PromiseUnchanged, Promise!promise
  <2>3. CASE Quiet
    BY <2>2, <2>3, QuietStutters
  <2> QED
    BY <2>1, <2>3, JoiningAccepts, EndingEnds, ErasingErases, FiringFires
       DEF SeriesStep, Promise!Next
<1> QED
  BY <1>1, <1>2, SeriesInduction, PTL DEF Spec, SeriesPromise, Promise!Spec

-------------------------------------------------------------------------------
(* What a dispatcher is about to deliver is what it re-validated: the pair   *)
(* stands in vetted from the validation on, and the snapshot of a row in     *)
(* hand does not change.                                                     *)
VettedInHand ==
    \A d \in Dispatchers : disp[d].pc = "deliver" => <<disp[d].cur, Snapshot(d).body>> \in vetted

VettedInv == VettedInHand /\ DeliveredBodyWasVetted

\* Nobody takes up a row to deliver, and no message is added.
NoDelivery ==
    /\ vetted' = vetted
    /\ \A d \in Dispatchers : disp'[d] = disp[d] \/ disp'[d].pc # "deliver"
    /\ \A m \in MsgIds : messages'[m] \in {messages[m], NoMessage}

LEMMA NoDeliveryKeeps == ASSUME VettedInv, NoDelivery PROVE VettedInv'
<1>1. VettedInHand'
  BY DEF VettedInv, VettedInHand, NoDelivery, Snapshot
<1>2. DeliveredBodyWasVetted'
  BY DEF VettedInv, DeliveredBodyWasVetted, NoDelivery
<1> QED
  BY <1>1, <1>2 DEF VettedInv

\* A tick that is done with its row has none in hand.
LEMMA DoneDeliversNothing ==
    ASSUME TypeOK, NEW d \in Dispatchers, disp' = [disp EXCEPT ![d] = Done(d)]
    PROVE  \A e \in Dispatchers : disp'[e] = disp[e] \/ disp'[e].pc # "deliver"
<1>1. Done(d).pc # "deliver"
  BY DEF Done, Idle
<1> QED
  BY <1>1 DEF TypeOK

LEMMA VettedDispatch ==
    ASSUME TypeOK, SnapshotsAreOld, VettedInv, NEW d \in Dispatchers, DispatchStep(d)
    PROVE  VettedInv'
<1>1. CASE SelectDue(d)
  <2>1. \A e \in Dispatchers : disp'[e] = disp[e] \/ disp'[e].pc # "deliver"
    BY <1>1 DEF SelectDue, TypeOK
  <2> QED
    BY <1>1, <2>1, NoDeliveryKeeps DEF SelectDue, NoDelivery
<1>2. ASSUME NEW r \in RowIds, Validate(d, r) PROVE VettedInv'
  <2>1. DeliveredBodyWasVetted'
    BY <1>2 DEF Validate, VettedInv, DeliveredBodyWasVetted
  <2>2. ASSUME NEW e \in Dispatchers, disp'[e].pc = "deliver"
        PROVE  <<disp'[e].cur, disp'[e].batch[disp'[e].cur].body>> \in vetted'
    <3>1. CASE e # d
      <4>1. disp'[e] = disp[e] /\ vetted \subseteq vetted'
        BY <1>2, <3>1 DEF Validate, TypeOK
      <4> QED
        BY <2>2, <4>1 DEF VettedInv, VettedInHand, Snapshot
    <3>2. CASE e = d
      <4> DEFINE row == disp[d].batch[r]
                 pass == accounts[row.user] # "gone" /\ GatesPass(row.user, row.body)
      <4>1. /\ disp'[d] = [disp[d] EXCEPT !.cur = r, !.pc = IF pass THEN "deliver" ELSE "drop"]
            /\ vetted' = IF pass THEN vetted \cup {<<r, row.body>>} ELSE vetted
        BY <1>2 DEF Validate, TypeOK
      <4> HIDE DEF pass
      <4>2. /\ disp'[d].cur = r /\ disp'[d].batch = disp[d].batch
            /\ disp'[d].pc = IF pass THEN "deliver" ELSE "drop"
        BY <4>1 DEF TypeOK, TickState
      <4> QED
        BY <2>2, <3>2, <4>1, <4>2
    <3> QED
      BY <3>1, <3>2
  <2> QED
    BY <2>1, <2>2 DEF VettedInv, VettedInHand, Snapshot
<1>3. CASE LoseClaim(d)
  BY <1>3, DoneDeliversNothing, NoDeliveryKeeps DEF LoseClaim, NoDelivery
<1>4. CASE Drop(d)
  BY <1>4, DoneDeliversNothing, NoDeliveryKeeps DEF Drop, NoDelivery
<1>5. CASE Fail(d)
  BY <1>5, DoneDeliversNothing, NoDeliveryKeeps DEF Fail, NoDelivery
<1>6. CASE Link(d)
  BY <1>6, DoneDeliversNothing, NoDeliveryKeeps DEF Link, NoDelivery
<1>7. CASE Deliver(d)
  <2> DEFINE new == [row |-> disp[d].cur, user |-> Snapshot(d).user, body |-> Snapshot(d).body]
  <2>1. <<disp[d].cur, Snapshot(d).body>> \in vetted /\ vetted' = vetted
    BY <1>7 DEF Deliver, VettedInv, VettedInHand
  <2>2. \A m \in MsgIds : messages'[m] = messages[m] \/ messages'[m] = new
    BY <1>7 DEF Deliver, TypeOK
  <2>3. DeliveredBodyWasVetted'
    BY <2>1, <2>2 DEF VettedInv, DeliveredBodyWasVetted
  <2>4. \A e \in Dispatchers : disp'[e] = disp[e] \/ disp'[e].pc # "deliver"
    <3>1. disp' = [disp EXCEPT ![d] = IF Snapshot(d).file = NoFile THEN Done(d)
                       ELSE [disp[d] EXCEPT !.pc = "link", !.msg = nextMsg]]
      BY <1>7 DEF Deliver
    <3>2. Done(d).pc # "deliver"
      BY DEF Done, Idle
    <3>3. [disp[d] EXCEPT !.pc = "link", !.msg = nextMsg].pc # "deliver"
      BY DEF TypeOK, TickState
    <3> QED
      BY <3>1, <3>2, <3>3 DEF TypeOK
  <2>5. VettedInHand'
    BY <2>1, <2>4 DEF VettedInv, VettedInHand, Snapshot
  <2> QED
    BY <2>3, <2>5 DEF VettedInv
<1> QED
  BY <1>1, <1>2, <1>3, <1>4, <1>5, <1>6, <1>7 DEF DispatchStep

LEMMA VettedStep == IndInv /\ VettedInv /\ [Next]_vars => VettedInv'
<1> SUFFICES ASSUME IndInv, VettedInv, [Next]_vars PROVE VettedInv'
  OBVIOUS
<1>1. ASSUME disp' = disp, messages' = messages, vetted' = vetted PROVE VettedInv'
  BY <1>1, NoDeliveryKeeps DEF NoDelivery
<1>2. CASE Tick \/ \E u \in Users : ModerateAuthor(u) \/ PurgeAuth(u)
  BY <1>1, <1>2 DEF Tick, ModerateAuthor, PurgeAuth
<1>3. CASE \E b \in Bodies : ModerateBody(b)
  BY <1>1, <1>3 DEF ModerateBody
<1>4. CASE \E u \in Users : HandlerStep(u)
  BY <1>1, <1>4 DEF HandlerStep, PostCheck, PostInsert, PatchCheck, PatchWrite, Cancel
<1>5. ASSUME NEW u \in Users, PurgeChat(u) PROVE VettedInv'
  BY <1>5, NoDeliveryKeeps DEF PurgeChat, NoDelivery
<1>6. ASSUME NEW S \in SUBSET RowIds, DeleteRoom(S) PROVE VettedInv'
  BY <1>6, NoDeliveryKeeps DEF DeleteRoom, NoDelivery
<1>7. CASE \E d \in Dispatchers : DispatchStep(d)
  BY <1>7, VettedDispatch DEF IndInv
<1>8. CASE Crash
  BY <1>8, NoDeliveryKeeps DEF Crash, NoDelivery, Idle
<1>9. CASE UNCHANGED vars
  BY <1>1, <1>9 DEF vars
<1> QED
  BY <1>2, <1>3, <1>4, <1>5, <1>6, <1>7, <1>8, <1>9 DEF Next

(* A body that reached the room passed the gates and the link filter as the  *)
(* text it was delivered as: dispatch_one re-validates and inserts one       *)
(* snapshot, whatever edits, errors and dispatchers come between.            *)
THEOREM DeliveredWasVetted == Spec => []DeliveredBodyWasVetted
<1>1. Init => VettedInv
  BY DEF Init, VettedInv, VettedInHand, DeliveredBodyWasVetted, Idle
<1>2. VettedInv => DeliveredBodyWasVetted
  BY DEF VettedInv
<1> QED
  BY <1>1, <1>2, VettedStep, Induction, PTL DEF Spec

-------------------------------------------------------------------------------
(* The composition runs the rows as their specification has them. *)
LEMMA SeriesRunsTheRows == SeriesSpec => Spec
<1>1. SeriesInit => Init
  BY DEF SeriesInit
<1>2. [SeriesNext]_<<part, vars, inputs>> => [Next]_vars
  BY DEF SeriesNext, Rows, Arithmetic
<1> QED
  BY <1>1, <1>2, PTL DEF SeriesSpec, Spec

(* Beside the arithmetic, too, the rows keep the promise of                  *)
(* ScheduledPromise, and what is claimed, sent and enqueued stands.          *)
THEOREM RowsHoldBesideTheArithmetic ==
    SeriesSpec => /\ [](DeliveredExactlyOnce /\ SeriesAliveInOnePlace /\ DeliveredBodyWasVetted)
                  /\ ClaimIsFinal /\ NoBacklogReplay /\ SeriesPromise
BY SeriesRunsTheRows, ExactlyOnce, OneOccurrencePending, DeliveredWasVetted, ClaimsAreFinal,
   NoReplay, PromiseKept, PTL
===============================================================================
