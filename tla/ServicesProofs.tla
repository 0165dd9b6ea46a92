--------------------------- MODULE ServicesProofs ---------------------------
(***************************************************************************)
(* Proofs about what a program's code calls and what runs beside it:       *)
(* Limits, Calls, Tokens, Cron, Watch and TestRunner.  They share nothing, *)
(* and neither do their proofs, but for the first lemmas.                  *)
(***************************************************************************)
EXTENDS Limits, Calls, Tokens, Cron, Watch, TestRunner,
        FiniteSetTheorems, SequenceTheorems, WellFoundedInduction, TLAPS

(* Numbers *)

\* A set of numbers has a least one.
LEMMA LeastIndex ==
  ASSUME NEW S \in SUBSET Nat, S # {}
  PROVE  \E i \in S : \A j \in S : i <= j
<1>1. PICK i \in S : \A j \in S : ~ (<<j, i>> \in OpToRel(<, Nat))
  BY NatLessThanWellFounded, WFMin, Zenon
<1>2. ASSUME NEW j \in S PROVE i <= j
  <2>1. <<j, i>> \notin OpToRel(<, Nat)
    BY <1>1, Zenon
  <2>2. <<j, i>> \in Nat \X Nat
    OBVIOUS
  <2>3. ~ (j < i)
    BY <2>1, <2>2, Zenon DEF OpToRel
  <2> QED
    BY <2>3
<1> QED
  BY <1>2

\* What holds at 0 and passes on to the next holds up to n.
LEMMA Climb ==
  ASSUME NEW n \in Nat, NEW S, 0 \in S,
         \A k \in 0 .. n : k \in S /\ k < n => k + 1 \in S
  PROVE  n \in S
<1> SUFFICES ASSUME n \notin S
             PROVE  FALSE
  OBVIOUS
<1> DEFINE T == { k \in 0 .. n : k \notin S }
<1>1. T \in SUBSET Nat /\ T # {}
  OBVIOUS
<1>2. PICK i \in T : \A j \in T : i <= j
  BY <1>1, LeastIndex
<1>3. i \in 0 .. n /\ i \notin S /\ i # 0
  BY <1>2
<1>4. i - 1 \in 0 .. n /\ i - 1 < n /\ (i - 1) + 1 = i /\ ~ (i <= i - 1)
  BY <1>3
<1>5. i - 1 \in S
  BY <1>2, <1>4
<1> QED
  BY <1>3, <1>4, <1>5

\* A set of places up to n is finite, and one place more is one more.
LEMMA Places ==
  ASSUME NEW n \in Nat, NEW A \in SUBSET (1 .. n)
  PROVE  /\ IsFiniteSet(A) /\ Cardinality(A) \in Nat
         /\ Cardinality(A \cup {n + 1}) = Cardinality(A) + 1
<1>1. IsFiniteSet(A)
  <2>1. IsFiniteSet(1 .. n)
    BY FS_Interval
  <2> QED
    BY <2>1, FS_Subset
<1>2. n + 1 \notin A
  OBVIOUS
<1>3. Cardinality(A \cup {n + 1}) = IF n + 1 \in A THEN Cardinality(A) ELSE Cardinality(A) + 1
  BY <1>1, FS_AddElement, Zenon
<1> QED
  BY <1>1, <1>2, <1>3, FS_CardinalityType

-----------------------------------------------------------------------------
(***************************************************************************)
(* Limits: token buckets.  What is left in a bucket is the least of what   *)
(* its history leaves over the stretches of time that end now (Level).     *)
(***************************************************************************)
Asks == [at : Nat, granted : BOOLEAN, budget : Budgets]
OneBudget(calls) == \A i, j \in DOMAIN calls : calls[i].budget = calls[j].budget
Room(b)   == b.max * Parts
RateOf(b) == (b.max * Parts) \div b.window
Grants(calls, j, k) == Cardinality({ i \in j .. k : calls[i].granted })

\* With so many tokens at time t, a stretch that began with call j is used up to the last
\* token or has tokens to spare.
Spare(tokens, calls, b, t, j) ==
    Room(b) + (t - calls[j].at) * RateOf(b) - (tokens + Grants(calls, j, Len(calls)) * Parts)
Left(tokens, calls, b, t) ==
    /\ tokens \in Int
    /\ \A j \in 1 .. Len(calls) : Spare(tokens, calls, b, t, j) >= 0

Level(bk, calls) ==
    LET n == Len(calls)
        b == calls[n].budget
    IN  /\ bk.capacity = b.max /\ bk.rate = RateOf(b) /\ bk.last = calls[n].at
        /\ Left(bk.tokens, calls, b, bk.last)
        /\ \E j \in 1 .. n : calls[j].granted /\ Spare(bk.tokens, calls, b, bk.last, j) = 0

Grounded(calls) == OneBudget(calls) => \A k \in DOMAIN calls : calls[k].granted = Fits(calls, k)

BucketShape == [tokens : Int, capacity : Nat, rate : Int, last : Int]
BucketInv(bk, calls, t) ==
    /\ bk \in BucketShape /\ calls \in Seq(Asks)
    /\ \A k \in DOMAIN calls : calls[k].at <= t
    /\ bk = NoBucket <=> calls = <<>>
    /\ calls # <<>> /\ OneBudget(calls) => Level(bk, calls)
    /\ Grounded(calls)

LEMMA BudgetTypes ==
  ASSUME NEW b \in Budgets
  PROVE  Room(b) \in Nat /\ RateOf(b) \in Int /\ Parts \in Nat \ {0} /\ Parts <= Room(b)
<1>1. b.max \in Nat \ {0} /\ b.window \in Nat \ {0} /\ Parts \in Nat \ {0}
  BY LimitsAssumption
<1>2. b.max * Parts \in Nat /\ Parts <= b.max * Parts
  BY <1>1
<1> QED
  BY <1>1, <1>2 DEF Room, RateOf

\* One call more.
LEMMA GrantsMore ==
  ASSUME NEW calls \in Seq(Asks), NEW new \in Asks
  PROVE  LET n == Len(calls)
             more == Append(calls, new)
         IN  /\ n \in Nat /\ more \in Seq(Asks) /\ Len(more) = n + 1 /\ DOMAIN more = 1 .. n + 1
             /\ more[n + 1] = new /\ \A i \in 1 .. n : more[i] = calls[i]
             /\ \A j \in 1 .. n : \A k \in 1 .. n : Grants(more, j, k) = Grants(calls, j, k) /\ Grants(calls, j, k) \in Nat
             /\ \A j \in 1 .. n : Grants(more, j, n + 1) = Grants(calls, j, n) + (IF new.granted THEN 1 ELSE 0)
             /\ Grants(more, n + 1, n + 1) = (IF new.granted THEN 1 ELSE 0)
             /\ Grants(more, n + 1, n) = 0
<1> DEFINE n == Len(calls)
           more == Append(calls, new)
<1>1. n \in Nat /\ more \in Seq(Asks) /\ Len(more) = n + 1 /\ DOMAIN more = 1 .. n + 1
      /\ more[n + 1] = new /\ \A i \in 1 .. n : more[i] = calls[i]
  OBVIOUS
<1> HIDE DEF n, more
<1>2. ASSUME NEW j \in 1 .. n, NEW k \in 1 .. n
      PROVE  Grants(more, j, k) = Grants(calls, j, k) /\ Grants(calls, j, k) \in Nat
  <2>1. { i \in j .. k : more[i].granted } = { i \in j .. k : calls[i].granted }
    BY <1>1
  <2>2. { i \in j .. k : calls[i].granted } \in SUBSET (1 .. n)
    BY <1>1
  <2> QED
    BY <1>1, <2>1, <2>2, Places DEF Grants
<1>3. ASSUME NEW j \in 1 .. n
      PROVE  Grants(more, j, n + 1) = Grants(calls, j, n) + (IF new.granted THEN 1 ELSE 0)
  <2> DEFINE A == { i \in j .. n : calls[i].granted }
             B == { i \in j .. n + 1 : more[i].granted }
  <2>1. A \in SUBSET (1 .. n)
    BY <1>1
  <2>2. B = IF new.granted THEN A \cup {n + 1} ELSE A
    BY <1>1
  <2>3. Cardinality(A) \in Nat /\ Cardinality(A \cup {n + 1}) = Cardinality(A) + 1
    BY <1>1, <2>1, Places
  <2>4. Grants(calls, j, n) = Cardinality(A) /\ Grants(more, j, n + 1) = Cardinality(B)
    BY DEF Grants
  <2> HIDE DEF A, B
  <2> QED
    BY <2>2, <2>3, <2>4
<1>4. Grants(more, n + 1, n + 1) = (IF new.granted THEN 1 ELSE 0)
  <2>1. { i \in n + 1 .. n + 1 : more[i].granted } = IF new.granted THEN {n + 1} ELSE {}
    BY <1>1
  <2>2. Cardinality({n + 1}) = 1 /\ Cardinality({}) = 0
    BY FS_EmptySet, FS_Singleton
  <2> QED
    BY <2>1, <2>2 DEF Grants
<1>5. Grants(more, n + 1, n) = 0
  <2>1. { i \in n + 1 .. n : more[i].granted } = {}
    BY <1>1
  <2> QED
    BY <2>1, FS_EmptySet DEF Grants
<1> QED
  BY <1>1, <1>2, <1>3, <1>4, <1>5 DEF n, more

\* A stretch that fits now is one with a token to spare.
LEMMA SpareFits ==
  ASSUME NEW p \in Nat, NEW g \in Nat, NEW r \in Int, NEW d \in Int, NEW room \in Int, NEW tokens \in Int,
         room + d * r - (tokens + g * p) = 0
  PROVE  (g + 1) * p <= room + d * r <=> tokens >= p
<1>1. g * p \in Int /\ d * r \in Int /\ (g + 1) * p = g * p + p
  OBVIOUS
<1> QED
  BY <1>1

LEMMA SpareSuffices ==
  ASSUME NEW p \in Nat, NEW g \in Nat, NEW r \in Int, NEW d \in Int, NEW room \in Int, NEW tokens \in Int,
         room + d * r - (tokens + g * p) >= 0, tokens >= p
  PROVE  (g + 1) * p <= room + d * r
<1>1. g * p \in Int /\ d * r \in Int /\ (g + 1) * p = g * p + p
  OBVIOUS
<1> QED
  BY <1>1

\* Time refills what it adds to every stretch.
LEMMA SpareInTime ==
  ASSUME NEW calls \in Seq(Asks), NEW b \in Budgets, NEW tokens \in Int,
         NEW t \in Int, NEW u \in Int, NEW j \in 1 .. Len(calls)
  PROVE  /\ Spare(tokens, calls, b, t, j) \in Int
         /\ Spare(tokens + (u - t) * RateOf(b), calls, b, u, j) = Spare(tokens, calls, b, t, j)
         /\ \A m \in Int : Spare(m, calls, b, t, j) = Spare(tokens, calls, b, t, j) + tokens - m
<1> DEFINE r == RateOf(b)
           g == Grants(calls, j, Len(calls))
           asks == calls[j].at
<1>1. r \in Int /\ Room(b) \in Int /\ Parts \in Int
  BY BudgetTypes
<1>2. asks \in Int
  <2>1. calls[j] \in Asks
    OBVIOUS
  <2> QED
    BY <2>1 DEF Asks
<1>3. g \in Int
  <2>1. { i \in j .. Len(calls) : calls[i].granted } \in SUBSET (1 .. Len(calls)) /\ Len(calls) \in Nat
    OBVIOUS
  <2>2. Cardinality({ i \in j .. Len(calls) : calls[i].granted }) \in Nat
    BY <2>1, Places
  <2> QED
    BY <2>2 DEF Grants
<1> HIDE DEF r, g, asks
<1>4. g * Parts \in Int /\ (t - asks) * r \in Int /\ (u - asks) * r \in Int /\ (u - t) * r \in Int
      /\ (u - t) * r + (t - asks) * r = (u - asks) * r
  BY <1>1, <1>2, <1>3
<1>5. \A m, v \in Int : Spare(m, calls, b, v, j) = Room(b) + (v - asks) * r - (m + g * Parts)
  BY DEF Spare, r, g, asks
<1> DEFINE x == g * Parts
           y == (t - asks) * r
           z == (u - asks) * r
           w == (u - t) * r
<1>6. x \in Int /\ y \in Int /\ z \in Int /\ w \in Int /\ w + y = z
  BY <1>4
<1>7. /\ Spare(tokens, calls, b, t, j) = Room(b) + y - (tokens + x)
      /\ Spare(tokens + w, calls, b, u, j) = Room(b) + z - (tokens + w + x)
      /\ \A m \in Int : Spare(m, calls, b, t, j) = Room(b) + y - (m + x)
  <2>1. w \in Int
    BY <1>6
  <2> QED
    BY <1>5, <2>1
<1>8. w = (u - t) * RateOf(b)
  BY DEF r
<1> HIDE DEF x, y, z, w
<1>9. Spare(tokens, calls, b, t, j) \in Int
  BY <1>1, <1>6, <1>7
<1>10. Spare(tokens + (u - t) * RateOf(b), calls, b, u, j) = Spare(tokens, calls, b, t, j)
  <2>1. Room(b) + z - (tokens + w + x) = Room(b) + y - (tokens + x)
    BY <1>1, <1>6
  <2> QED
    BY <1>7, <1>8, <2>1
<1>11. ASSUME NEW m \in Int
       PROVE  Spare(m, calls, b, t, j) = Spare(tokens, calls, b, t, j) + tokens - m
  <2>1. Room(b) + y - (m + x) = (Room(b) + y - (tokens + x)) + tokens - m
    BY <1>1, <1>6
  <2> QED
    BY <1>7, <2>1
<1> QED
  BY <1>9, <1>10, <1>11

\* The tokens a call finds, and what it leaves.
Finds(tokens, calls, b, t) ==
    /\ tokens \in Int /\ tokens <= Room(b) /\ Left(tokens, calls, b, t)
    /\ \/ tokens = Room(b)
       \/ \E j \in 1 .. Len(calls) : calls[j].granted /\ Spare(tokens, calls, b, t, j) = 0
Leaves(bk, b, t, tokens, granted) ==
    /\ bk.capacity = b.max /\ bk.rate = RateOf(b) /\ bk.last = t
    /\ bk.tokens = IF granted THEN tokens - Parts ELSE tokens

\* The call is admitted as the bucket's level says, which is as Fits says, and the level
\* stays that of the history.
LEMMA LevelMore ==
  ASSUME NEW calls \in Seq(Asks), NEW b \in Budgets, NEW t \in Nat,
         NEW tokens, Finds(tokens, calls, b, t),
         NEW granted, granted = (tokens >= Parts),
         NEW bk, Leaves(bk, b, t, tokens, granted)
  PROVE  LET more == Append(calls, [at |-> t, granted |-> granted, budget |-> b])
         IN  granted = Fits(more, Len(calls) + 1) /\ Level(bk, more)
<1> DEFINE n == Len(calls)
           new == [at |-> t, granted |-> granted, budget |-> b]
           more == Append(calls, new)
<1> USE DEF Finds, Leaves
<1>0. Room(b) \in Nat /\ RateOf(b) \in Int /\ Parts \in Nat \ {0} /\ Parts <= Room(b) /\ granted \in BOOLEAN
  BY BudgetTypes
<1>1. new \in Asks
  BY <1>0 DEF Asks
<1>2. /\ n \in Nat /\ more \in Seq(Asks) /\ Len(more) = n + 1 /\ DOMAIN more = 1 .. n + 1
      /\ more[n + 1] = new /\ \A i \in 1 .. n : more[i] = calls[i]
      /\ \A j \in 1 .. n : \A k \in 1 .. n : Grants(more, j, k) = Grants(calls, j, k) /\ Grants(calls, j, k) \in Nat
      /\ \A j \in 1 .. n : Grants(more, j, n + 1) = Grants(calls, j, n) + (IF new.granted THEN 1 ELSE 0)
      /\ Grants(more, n + 1, n + 1) = (IF new.granted THEN 1 ELSE 0)
      /\ Grants(more, n + 1, n) = 0
  BY <1>1, GrantsMore
<1>3. new.at = t /\ new.granted = granted /\ new.budget = b
  OBVIOUS
<1> HIDE DEF n, new, more
<1>4. ASSUME NEW j \in 1 .. n
      PROVE  calls[j].at \in Nat /\ Grants(calls, j, n) \in Nat
  <2>1. calls[j] \in Asks
    BY DEF n
  <2>2. n \in 1 .. n
    BY <1>2
  <2> QED
    BY <1>2, <2>1, <2>2 DEF Asks
\* The stretches.
<1>5. Fits(more, n + 1) =
        \A j \in 1 .. n + 1 :
           j = n + 1 \/ more[j].granted =>
             (Grants(more, j, n) + 1) * Parts <= Room(b) + (t - more[j].at) * RateOf(b)
  <2>1. (n + 1) - 1 = n
    BY <1>2
  <2> QED
    BY <1>2, <1>3, <2>1 DEF Fits, Room, RateOf, Grants
<1>6. (Grants(more, n + 1, n) + 1) * Parts <= Room(b) + (t - more[n + 1].at) * RateOf(b)
  <2>1. (0 + 1) * Parts = Parts /\ (t - t) * RateOf(b) = 0
    BY <1>0
  <2> QED
    BY <1>0, <1>2, <1>3, <2>1
<1>7. ASSUME NEW j \in 1 .. n
      PROVE  /\ Grants(more, j, n) = Grants(calls, j, n) /\ more[j] = calls[j]
             /\ Spare(tokens, calls, b, t, j) = Room(b) + (t - calls[j].at) * RateOf(b) - (tokens + Grants(calls, j, n) * Parts)
  <2>1. n \in 1 .. n
    BY <1>2
  <2> QED
    BY <1>2, <2>1 DEF Spare, n
<1>8. granted => Fits(more, n + 1)
  <2> SUFFICES ASSUME tokens >= Parts, NEW j \in 1 .. n
               PROVE  (Grants(more, j, n) + 1) * Parts <= Room(b) + (t - more[j].at) * RateOf(b)
    <3>1. \A j \in 1 .. n + 1 : j = n + 1 \/ j \in 1 .. n
      BY <1>2
    <3> QED
      BY <1>5, <1>6, <3>1
  <2>1. Spare(tokens, calls, b, t, j) >= 0
    BY DEF Left, n
  <2> DEFINE g == Grants(calls, j, n)
             d == t - calls[j].at
             r == RateOf(b)
             room == Room(b)
  <2>2. g \in Nat /\ d \in Int /\ r \in Int /\ room \in Int /\ Parts \in Nat
    BY <1>0, <1>4
  <2>3. room + d * r - (tokens + g * Parts) >= 0
    BY <1>7, <2>1
  <2> HIDE DEF g, d, r, room
  <2>4. (g + 1) * Parts <= room + d * r
    BY <2>2, <2>3, SpareSuffices
  <2> QED
    BY <1>7, <2>4 DEF g, d, r, room
<1>9. Fits(more, n + 1) => granted
  <2> SUFFICES ASSUME Fits(more, n + 1), tokens # Room(b) PROVE tokens >= Parts
    BY <1>0
  <2>1. PICK j \in 1 .. n : calls[j].granted /\ Spare(tokens, calls, b, t, j) = 0
    BY DEF n
  <2> DEFINE g == Grants(calls, j, n)
             d == t - calls[j].at
             r == RateOf(b)
             room == Room(b)
  <2>2. (g + 1) * Parts <= room + d * r
    <3>1. j \in 1 .. n + 1
      BY <1>2
    <3>2. (Grants(more, j, n) + 1) * Parts <= Room(b) + (t - more[j].at) * RateOf(b)
      BY <1>5, <1>7, <2>1, <3>1
    <3> QED
      BY <1>7, <3>2
  <2>3. g \in Nat /\ d \in Int /\ r \in Int /\ room \in Int /\ Parts \in Nat
    BY <1>0, <1>4
  <2>4. room + d * r - (tokens + g * Parts) = 0
    BY <1>7, <2>1
  <2> HIDE DEF g, d, r, room
  <2> QED
    BY <2>2, <2>3, <2>4, SpareFits
\* The level after the call.
<1> DEFINE one == IF granted THEN 1 ELSE 0
<1>10. bk.tokens = tokens - one * Parts /\ bk.tokens \in Int
  BY <1>0
<1>11. ASSUME NEW j \in 1 .. n
       PROVE  Spare(bk.tokens, more, b, t, j) = Spare(tokens, calls, b, t, j)
  <2>1. Grants(more, j, n + 1) = Grants(calls, j, n) + one
    BY <1>2, <1>3
  <2>2. Grants(calls, j, n) \in Nat /\ one \in Nat
    BY <1>4
  <2>3. bk.tokens + Grants(more, j, n + 1) * Parts = tokens + Grants(calls, j, n) * Parts
    BY <1>0, <1>10, <2>1, <2>2
  <2> QED
    BY <1>2, <1>7, <2>3 DEF Spare
<1>12. Spare(bk.tokens, more, b, t, n + 1) = Room(b) - tokens
  <2>1. Grants(more, n + 1, n + 1) = one
    BY <1>2, <1>3
  <2>2. bk.tokens + one * Parts = tokens /\ (t - t) * RateOf(b) = 0
    BY <1>0, <1>10
  <2> QED
    BY <1>0, <1>2, <1>3, <2>1, <2>2 DEF Spare
<1>13. Left(bk.tokens, more, b, t)
  <2>1. \A j \in 1 .. n : Spare(tokens, calls, b, t, j) >= 0
    BY DEF Left, n
  <2> QED
    BY <1>0, <1>2, <1>10, <1>11, <1>12, <2>1 DEF Left
<1>14. \E j \in 1 .. n + 1 : more[j].granted /\ Spare(bk.tokens, more, b, t, j) = 0
  <2>1. CASE tokens = Room(b)
    <3>1. more[n + 1].granted
      BY <1>0, <1>2, <1>3, <2>1
    <3>2. Spare(bk.tokens, more, b, t, n + 1) = 0
      BY <1>0, <1>12, <2>1
    <3>3. n + 1 \in 1 .. n + 1
      BY <1>2
    <3> QED
      BY <3>1, <3>2, <3>3
  <2>2. CASE tokens # Room(b)
    <3>1. PICK j \in 1 .. n : calls[j].granted /\ Spare(tokens, calls, b, t, j) = 0
      BY <2>2 DEF n
    <3> QED
      BY <1>2, <1>7, <1>11, <3>1
  <2> QED
    BY <2>1, <2>2
<1>15. Level(bk, more)
  BY <1>2, <1>3, <1>13, <1>14 DEF Level
<1>16. granted = Fits(more, n + 1)
  <2>1. Fits(more, n + 1) \in BOOLEAN
    BY DEF Fits
  <2> HIDE DEF Fits
  <2> QED
    BY <1>0, <1>8, <1>9, <2>1, Zenon
<1> QED
  BY <1>15, <1>16, Zenon DEF n, new, more

\* What a call finds in the bucket.
Found(bk, budget) == IF bk = NoBucket THEN Bucket(budget.max * Parts, budget, now) ELSE Refilled(bk, budget)

\* An old call fits as before.
LEMMA FitsBefore ==
  ASSUME NEW calls \in Seq(Asks), NEW new \in Asks, NEW k \in 1 .. Len(calls)
  PROVE  Fits(Append(calls, new), k) = Fits(calls, k)
<1> DEFINE more == Append(calls, new)
<1>1. Len(calls) \in Nat /\ \A i \in 1 .. Len(calls) : more[i] = calls[i]
  OBVIOUS
<1>2. ASSUME NEW j \in 1 .. k
      PROVE  more[j] = calls[j] /\ { i \in j .. k - 1 : more[i].granted } = { i \in j .. k - 1 : calls[i].granted }
  BY <1>1
<1> HIDE DEF more
<1>3. Fits(more, k) = Fits(calls, k)
  BY <1>1, <1>2 DEF Fits
<1> QED
  BY <1>3 DEF more

LEMMA RefilledLevel ==
  ASSUME NEW calls \in Seq(Asks), NEW b \in Budgets, now \in Nat,
         NEW bk, BucketInv(bk, calls, now),
         NEW found, found = Found(bk, b),
         \A k \in DOMAIN calls : calls[k].budget = b
  PROVE  /\ found.capacity = b.max /\ found.rate = RateOf(b) /\ found.last = now
         /\ Finds(found.tokens, calls, b, now)
<1>0. Room(b) \in Nat /\ RateOf(b) \in Int /\ Parts \in Nat \ {0} /\ b.max \in Nat
  BY BudgetTypes, LimitsAssumption
<1>1. CASE bk = NoBucket
  <2>1. calls = <<>>
    BY <1>1 DEF BucketInv
  <2>2. found.capacity = b.max /\ found.rate = RateOf(b) /\ found.last = now /\ found.tokens = Room(b)
    BY <1>1 DEF Found, Bucket, RateOf, Room
  <2>3. Left(found.tokens, calls, b, now)
    BY <1>0, <2>1, <2>2 DEF Left
  <2> QED
    BY <1>0, <2>2, <2>3 DEF Finds
<1>2. CASE bk # NoBucket
  <2> DEFINE n == Len(calls)
             flow == (now - bk.last) * RateOf(b)
  <2>1. calls # <<>> /\ n \in Nat \ {0} /\ n \in DOMAIN calls /\ DOMAIN calls = 1 .. n
    BY <1>2 DEF BucketInv
  <2>2. calls[n].budget = b /\ OneBudget(calls)
    BY <2>1 DEF OneBudget
  <2>3. Level(bk, calls)
    BY <2>1, <2>2 DEF BucketInv
  <2> HIDE DEF n
  <2>4. bk.capacity = b.max /\ bk.rate = RateOf(b) /\ bk.last = calls[n].at
        /\ bk.tokens \in Int /\ Left(bk.tokens, calls, b, bk.last)
        /\ \E j \in 1 .. n : calls[j].granted /\ Spare(bk.tokens, calls, b, bk.last, j) = 0
    BY <2>2, <2>3 DEF Level, Left, n
  <2>5. bk.last \in Nat
    <3>1. calls[n] \in Asks
      BY <2>1 DEF BucketInv
    <3> QED
      BY <2>4, <3>1 DEF Asks
  <2>6. flow \in Int
    BY <1>0, <2>5
  <2>7. Refilled(bk, b) = [bk EXCEPT !.tokens = LeastOf(bk.capacity * Parts, bk.tokens + (now - bk.last) * bk.rate), !.last = now]
    BY <2>4 DEF Refilled
  <2>8. DOMAIN bk = {"tokens", "capacity", "rate", "last"}
    BY DEF BucketInv, BucketShape
  <2>9. found = Refilled(bk, b)
    BY <1>2 DEF Found
  <2>10. found.capacity = bk.capacity /\ found.rate = bk.rate /\ found.last = now
         /\ found.tokens = LeastOf(Room(b), bk.tokens + flow)
    BY <2>4, <2>7, <2>8, <2>9 DEF Room
  <2>11. ASSUME NEW j \in 1 .. n
         PROVE  /\ Spare(bk.tokens, calls, b, bk.last, j) \in Int
                /\ Spare(bk.tokens + flow, calls, b, now, j) = Spare(bk.tokens, calls, b, bk.last, j)
                /\ \A m \in Int : Spare(m, calls, b, now, j) = Spare(bk.tokens + flow, calls, b, now, j) + (bk.tokens + flow) - m
    <3> DEFINE m0 == bk.tokens
               t0 == bk.last
               full == bk.tokens + flow
    <3>1. t0 \in Int /\ now \in Int /\ m0 \in Int /\ j \in 1 .. Len(calls) /\ full \in Int
      BY <2>4, <2>5, <2>6 DEF n
    <3>2. full = m0 + (now - t0) * RateOf(b)
      OBVIOUS
    <3> HIDE DEF m0, t0, full
    <3>3. Spare(m0, calls, b, t0, j) \in Int
      BY <3>1, SpareInTime
    <3>4. Spare(m0 + (now - t0) * RateOf(b), calls, b, now, j) = Spare(m0, calls, b, t0, j)
      BY <3>1, SpareInTime
    <3>5. \A m \in Int : Spare(m, calls, b, now, j) = Spare(full, calls, b, now, j) + full - m
      BY <3>1, SpareInTime
    <3> QED
      BY <3>2, <3>3, <3>4, <3>5 DEF m0, t0, full
  <2> HIDE DEF flow
  <2>12. bk.tokens + flow \in Int /\ found.tokens \in Int /\ found.tokens <= Room(b) /\ found.tokens <= bk.tokens + flow
         /\ (found.tokens = Room(b) \/ found.tokens = bk.tokens + flow)
    BY <1>0, <2>4, <2>6, <2>10 DEF LeastOf
  <2>13. Left(found.tokens, calls, b, now)
    <3>1. \A j \in 1 .. n : Spare(bk.tokens, calls, b, bk.last, j) >= 0
      BY <2>4 DEF Left, n
    <3>2. ASSUME NEW j \in 1 .. n PROVE Spare(found.tokens, calls, b, now, j) >= 0
      <4>1. Spare(found.tokens, calls, b, now, j) = Spare(bk.tokens, calls, b, bk.last, j) + (bk.tokens + flow) - found.tokens
        BY <2>11, <2>12
      <4>2. Spare(bk.tokens, calls, b, bk.last, j) \in Int /\ Spare(bk.tokens, calls, b, bk.last, j) >= 0
        BY <2>11, <3>1
      <4> QED
        BY <2>12, <4>1, <4>2
    <3> QED
      BY <2>12, <3>2 DEF Left, n
  <2>14. found.tokens = Room(b) \/ \E j \in 1 .. n : calls[j].granted /\ Spare(found.tokens, calls, b, now, j) = 0
    BY <2>4, <2>11, <2>12
  <2> QED
    BY <2>4, <2>10, <2>12, <2>13, <2>14 DEF n, Finds
<1> QED
  BY <1>1, <1>2

LEMMA FoundShape ==
  ASSUME now \in Nat, NEW b \in Budgets, NEW bk \in BucketShape
  PROVE  Found(bk, b) \in BucketShape /\ Found(bk, b).last = now
<1>0. b.max * Parts \in Int /\ (b.max * Parts) \div b.window \in Int /\ b.max \in Nat /\ Parts \in Int
  BY BudgetTypes, LimitsAssumption DEF Room, RateOf
<1>1. ASSUME NEW m \in Int PROVE Bucket(m, b, now) \in BucketShape /\ Bucket(m, b, now).last = now
  BY <1>0, <1>1 DEF Bucket, BucketShape
<1>2. ASSUME NEW x \in Int, NEW y \in Int PROVE LeastOf(x, y) \in Int
  BY <1>2 DEF LeastOf
<1>3. CASE bk = NoBucket
  BY <1>0, <1>1, <1>3 DEF Found
<1>4. CASE bk # NoBucket
  <2> DEFINE m == LeastOf(bk.capacity * Parts, bk.tokens + (now - bk.last) * bk.rate)
             full == [bk EXCEPT !.tokens = m, !.last = now]
  <2>1. m \in Int
    <3>1. bk.capacity \in Int /\ bk.tokens \in Int /\ bk.last \in Int /\ bk.rate \in Int
      BY DEF BucketShape
    <3>2. bk.capacity * Parts \in Int /\ (now - bk.last) * bk.rate \in Int
      BY <1>0, <3>1
    <3>3. bk.tokens + (now - bk.last) * bk.rate \in Int
      BY <3>1, <3>2
    <3> QED
      BY <1>2, <3>2, <3>3
  <2>2. Found(bk, b) = IF b.max = bk.capacity THEN full ELSE Bucket(LeastOf(full.tokens, b.max * Parts), b, now)
    BY <1>4 DEF Found, Refilled
  <2> HIDE DEF m
  <2>3. full \in BucketShape /\ full.last = now /\ full.tokens = m
    <3>1. DOMAIN bk = {"tokens", "capacity", "rate", "last"} /\ bk.capacity \in Nat /\ bk.rate \in Int /\ now \in Int
      BY DEF BucketShape
    <3>2. full \in BucketShape
      BY <2>1, <3>1 DEF BucketShape
    <3> QED
      BY <3>1, <3>2
  <2> HIDE DEF full
  <2>4. LeastOf(full.tokens, b.max * Parts) \in Int
    BY <1>0, <1>2, <2>1, <2>3
  <2> QED
    BY <1>1, <2>2, <2>3, <2>4
<1> QED
  BY <1>3, <1>4

LEMMA AllowHolds ==
  ASSUME now \in Nat, NEW b \in Budgets, NEW bk, NEW calls, BucketInv(bk, calls, now),
         NEW granted, granted = (Found(bk, b).tokens >= Parts),
         NEW next, next = IF granted THEN [Found(bk, b) EXCEPT !.tokens = @ - Parts] ELSE Found(bk, b)
  PROVE  BucketInv(next, Append(calls, [at |-> now, granted |-> granted, budget |-> b]), now)
<1> DEFINE found == Found(bk, b)
           new == [at |-> now, granted |-> granted, budget |-> b]
           more == Append(calls, new)
           n == Len(calls)
<1>0. Parts \in Nat \ {0}
  BY BudgetTypes
<1>1. calls \in Seq(Asks) /\ bk \in BucketShape
  BY DEF BucketInv
<1>2. found \in BucketShape /\ found.last = now
  BY <1>1, FoundShape
<1>3. granted \in BOOLEAN
  BY <1>0, <1>2 DEF BucketShape
<1> HIDE DEF found
<1>4. /\ next \in BucketShape /\ next.last = now /\ next.capacity = found.capacity /\ next.rate = found.rate
      /\ next.tokens = IF granted THEN found.tokens - Parts ELSE found.tokens
  BY <1>0, <1>2 DEF BucketShape, found
<1>5. next # NoBucket
  BY <1>4 DEF NoBucket
<1>6. new \in Asks
  BY <1>3 DEF Asks
<1>7. new.at = now /\ new.granted = granted /\ new.budget = b
  OBVIOUS
<1> HIDE DEF new
<1>8. n \in Nat /\ more \in Seq(Asks) /\ more # <<>> /\ Len(more) = n + 1 /\ DOMAIN more = 1 .. n + 1 /\ DOMAIN calls = 1 .. n
      /\ more[n + 1] = new /\ \A i \in 1 .. n : more[i] = calls[i]
  BY <1>1, <1>6
<1> HIDE DEF more, n
<1>9. \A k \in DOMAIN more : more[k].at <= now
  <2>1. \A k \in 1 .. n + 1 : k \in 1 .. n \/ k = n + 1
    BY <1>8
  <2>2. \A k \in 1 .. n : calls[k].at <= now
    BY <1>8 DEF BucketInv
  <2>3. now <= now
    OBVIOUS
  <2> QED
    BY <1>7, <1>8, <2>1, <2>2, <2>3
<1>10. ASSUME OneBudget(more)
       PROVE  Level(next, more) /\ \A k \in DOMAIN more : more[k].granted = Fits(more, k)
  <2>1. n + 1 \in 1 .. n + 1 /\ \A k \in 1 .. n : k \in 1 .. n + 1
    BY <1>8
  <2>2. \A k \in DOMAIN calls : calls[k].budget = b
    BY <1>7, <1>8, <1>10, <2>1 DEF OneBudget
  <2>3. OneBudget(calls)
    BY <2>2 DEF OneBudget
  <2>4. found.capacity = b.max /\ found.rate = RateOf(b) /\ Finds(found.tokens, calls, b, now)
    BY <1>1, <2>2, RefilledLevel DEF found
  <2>5. granted = (found.tokens >= Parts)
    BY DEF found
  <2>6. Leaves(next, b, now, found.tokens, granted)
    BY <1>4, <2>4 DEF Leaves
  <2>7. granted = Fits(more, n + 1) /\ Level(next, more)
    BY <1>1, <2>4, <2>5, <2>6, LevelMore DEF more, n, new
  <2>8. ASSUME NEW k \in 1 .. n PROVE more[k].granted = Fits(more, k)
    <3>1. Fits(more, k) = Fits(calls, k)
      BY <1>1, <1>6, FitsBefore DEF more, n
    <3>2. calls[k].granted = Fits(calls, k)
      BY <1>8, <2>3 DEF BucketInv, Grounded
    <3> QED
      BY <1>8, <3>1, <3>2
  <2>9. \A k \in 1 .. n + 1 : k \in 1 .. n \/ k = n + 1
    BY <1>8
  <2> QED
    BY <1>7, <1>8, <2>7, <2>8, <2>9
<1>11. BucketInv(next, more, now)
  BY <1>4, <1>5, <1>8, <1>9, <1>10 DEF BucketInv, Grounded
<1> QED
  BY <1>11 DEF more, new

(* The steps *)

BucketsInv ==
    /\ now \in Nat /\ DOMAIN bucket = Clients /\ DOMAIN asked = Clients
    /\ \A c \in Clients : BucketInv(bucket[c], asked[c], now)

LEMMA NothingAsked ==
  ASSUME NEW t
  PROVE  BucketInv(NoBucket, <<>>, t)
<1>1. NoBucket \in BucketShape
  BY DEF NoBucket, BucketShape
<1>2. <<>> \in Seq(Asks) /\ DOMAIN <<>> = {}
  OBVIOUS
<1> QED
  BY <1>1, <1>2 DEF BucketInv, Grounded

LEMMA InitBuckets == LimitsInit => BucketsInv
  BY NothingAsked DEF LimitsInit, BucketsInv

LEMMA StepBuckets == BucketsInv /\ [BucketsNext \/ MetricsNext]_limitVars => BucketsInv'
<1> SUFFICES ASSUME BucketsInv, [BucketsNext \/ MetricsNext]_limitVars
             PROVE  BucketsInv'
  OBVIOUS
<1> USE DEF BucketsInv
<1>1. CASE UNCHANGED <<now, bucket, asked>>
  BY <1>1
<1>2. CASE LimitTick
  <2>1. now' \in Nat /\ now <= now' /\ UNCHANGED <<bucket, asked>>
    BY <1>2 DEF LimitTick
  <2>2. ASSUME NEW c \in Clients, NEW k \in DOMAIN asked[c] PROVE asked[c][k].at <= now'
    <3>1. asked[c] \in Seq(Asks) /\ asked[c][k].at <= now
      BY DEF BucketInv
    <3>2. asked[c][k] \in Asks
      BY <3>1
    <3>3. asked[c][k].at \in Nat
      BY <3>2 DEF Asks
    <3> QED
      BY <2>1, <3>1, <3>3
  <2>3. ASSUME NEW c \in Clients PROVE BucketInv(bucket[c], asked[c], now')
    BY <2>2 DEF BucketInv
  <2> QED
    BY <2>1, <2>3
<1>3. ASSUME NEW c \in Clients, Reset(c)
      PROVE  BucketsInv'
  BY <1>3, NothingAsked DEF Reset
<1>4. ASSUME NEW c \in Clients, NEW b \in Budgets, Allow(c, b)
      PROVE  BucketsInv'
  <2> DEFINE found == Found(bucket[c], b)
             granted == found.tokens >= Parts
             next == IF granted THEN [found EXCEPT !.tokens = @ - Parts] ELSE found
             more == Append(asked[c], [at |-> now, granted |-> granted, budget |-> b])
  <2>1. bucket' = [bucket EXCEPT ![c] = next] /\ asked' = [asked EXCEPT ![c] = more] /\ now' = now
    BY <1>4 DEF Allow, Found
  <2>2. BucketInv(next, more, now)
    BY AllowHolds
  <2> HIDE DEF next, more
  <2> QED
    BY <2>1, <2>2
<1> QED
  BY <1>1, <1>2, <1>3, <1>4 DEF BucketsNext, MetricsNext, RecordMetric, ResetMetrics, limitVars

LEMMA BucketsGrounded == BucketsInv => BucketsMatch
  BY DEF BucketsInv, BucketInv, Grounded, OneBudget, BucketsMatch

-----------------------------------------------------------------------------
(***************************************************************************)
(* Limits: metrics.  First the sums, which a recursive function computes.  *)
(***************************************************************************)
IsSum(f, a, n) == f = [k \in 0 .. n |-> IF k = 0 THEN 0 ELSE f[k - 1] + a[k]]

LEMMA SumExists ==
  ASSUME NEW a, NEW n \in Nat
  PROVE  \E f : IsSum(f, a, n)
<1> DEFINE S == { k \in 0 .. n : \E f : IsSum(f, a, k) }
<1>1. 0 \in S
  <2> DEFINE f == [k \in 0 .. 0 |-> 0]
  <2>1. IsSum(f, a, 0)
    BY DEF IsSum
  <2> QED
    BY <2>1
<1>2. ASSUME NEW k \in 0 .. n, k \in S, k < n
      PROVE  k + 1 \in S
  <2>1. PICK f : IsSum(f, a, k)
    BY <1>2
  <2> DEFINE g == [j \in 0 .. k + 1 |-> IF j = k + 1 THEN f[k] + a[k + 1] ELSE f[j]]
  <2>2. k \in Nat /\ k + 1 # 0 /\ (k + 1) - 1 = k /\ k + 1 \in 0 .. n
    BY <1>2
  <2>3. \A j \in 0 .. k : f[j] = IF j = 0 THEN 0 ELSE f[j - 1] + a[j]
    BY <2>1 DEF IsSum
  <2>4. \A j \in 0 .. k : g[j] = f[j]
    BY <2>2
  <2>5. g[k + 1] = g[k] + a[k + 1]
    BY <2>2
  <2>6. ASSUME NEW j \in 0 .. k + 1
        PROVE  g[j] = IF j = 0 THEN 0 ELSE g[j - 1] + a[j]
    <3>1. CASE j = k + 1
      BY <2>2, <2>5, <3>1
    <3>2. CASE j # k + 1
      <4>1. j \in 0 .. k /\ (j # 0 => j - 1 \in 0 .. k)
        BY <2>2, <3>2
      <4> HIDE DEF g
      <4> QED
        BY <2>3, <2>4, <4>1
    <3> QED
      BY <3>1, <3>2
  <2>7. DOMAIN g = 0 .. k + 1 /\ g = [j \in 0 .. k + 1 |-> g[j]]
    OBVIOUS
  <2> HIDE DEF g
  <2>8. g = [j \in 0 .. k + 1 |-> IF j = 0 THEN 0 ELSE g[j - 1] + a[j]]
    BY <2>6, <2>7
  <2>9. IsSum(g, a, k + 1)
    BY <2>8 DEF IsSum
  <2> QED
    BY <2>2, <2>9
<1> HIDE DEF S
<1>3. n \in S
  BY <1>1, <1>2, Climb
<1> QED
  BY <1>3 DEF S

\* A sequence of integers, as far as the sums go.
Numeric(a, n) == n \in Nat /\ Len(a) = n /\ \A k \in 1 .. n : a[k] \in Int

LEMMA SumsAre ==
  ASSUME NEW a, NEW n, Numeric(a, n)
  PROVE  /\ Sums(a)[0] = 0
         /\ \A k \in 0 .. n : Sums(a)[k] \in Int
         /\ \A k \in 0 .. n : k < n => Sums(a)[k + 1] = Sums(a)[k] + a[k + 1]
<1>0. n \in Nat /\ Len(a) = n
  BY DEF Numeric
<1>1. IsSum(Sums(a), a, n)
  <2>1. \E f : IsSum(f, a, n)
    BY <1>0, SumExists
  <2>2. Sums(a) = CHOOSE f : IsSum(f, a, n)
    BY <1>0 DEF Sums, IsSum
  <2> QED
    BY <2>1, <2>2
<1> DEFINE f == Sums(a)
<1>2. f[0] = 0
  BY <1>0, <1>1 DEF IsSum
<1>3. ASSUME NEW k \in 0 .. n, k < n PROVE f[k + 1] = f[k] + a[k + 1]
  <2>1. k + 1 \in 0 .. n /\ k + 1 # 0 /\ (k + 1) - 1 = k
    BY <1>0, <1>3
  <2> HIDE DEF f
  <2> QED
    BY <1>1, <2>1 DEF IsSum, f
<1> HIDE DEF f
<1>4. ASSUME NEW m \in 0 .. n PROVE f[m] \in Int
  <2> DEFINE S == { k \in 0 .. n : f[k] \in Int }
  <2>1. 0 \in S
    BY <1>0, <1>2
  <2>2. ASSUME NEW k \in 0 .. m, k \in S, k < m PROVE k + 1 \in S
    <3>1. k \in 0 .. n /\ k < n /\ k + 1 \in 1 .. n /\ k + 1 \in 0 .. n
      BY <1>0, <2>2
    <3>2. a[k + 1] \in Int
      BY <3>1 DEF Numeric
    <3> QED
      BY <1>3, <2>2, <3>1, <3>2
  <2>3. m \in Nat
    BY <1>0
  <2> HIDE DEF S
  <2>4. m \in S
    BY <2>1, <2>2, <2>3, Climb
  <2> QED
    BY <2>4 DEF S
<1> QED
  BY <1>2, <1>3, <1>4 DEF f

\* Sums of sequences that differ at one place, or nowhere.
Raised(a, b, m, j, d) == \A k \in 1 .. m : b[k] = a[k] + (IF k = j THEN d ELSE 0)

LEMMA SumsRaised ==
  ASSUME NEW a, NEW b, NEW n, NEW l, Numeric(a, n), Numeric(b, l), NEW m \in Nat, m <= n, m <= l,
         NEW j \in Int, NEW d \in Int, Raised(a, b, m, j, d)
  PROVE  Sums(b)[m] = Sums(a)[m] + (IF j \in 1 .. m THEN d ELSE 0)
<1> DEFINE f == Sums(a)
           g == Sums(b)
           S == { k \in 0 .. m : g[k] = f[k] + (IF j \in 1 .. k THEN d ELSE 0) }
<1>0. n \in Nat /\ l \in Nat
  BY DEF Numeric
<1>1. f[0] = 0 /\ g[0] = 0
  BY SumsAre
<1>2. ASSUME NEW k \in 0 .. m
      PROVE  /\ f[k] \in Int /\ g[k] \in Int
             /\ k < m => f[k + 1] = f[k] + a[k + 1] /\ g[k + 1] = g[k] + b[k + 1]
  <2>1. k \in 0 .. n /\ k \in 0 .. l /\ (k < m => k < n /\ k < l)
    BY <1>0
  <2> HIDE DEF f, g
  <2> QED
    BY <2>1, SumsAre DEF f, g
<1> HIDE DEF f, g
<1>3. 0 \in S
  BY <1>1
<1>4. ASSUME NEW k \in 0 .. m, k \in S, k < m PROVE k + 1 \in S
  <2>1. k + 1 \in 1 .. m /\ k + 1 \in 0 .. m /\ k \in Nat
    BY <1>4
  <2>2. b[k + 1] = a[k + 1] + (IF k + 1 = j THEN d ELSE 0)
    BY <2>1 DEF Raised
  <2>3. a[k + 1] \in Int
    <3>1. k + 1 \in 1 .. n
      BY <1>0, <2>1
    <3> QED
      BY <3>1 DEF Numeric
  <2>4. g[k] = f[k] + (IF j \in 1 .. k THEN d ELSE 0)
    BY <1>4
  <2>5. f[k] \in Int /\ f[k + 1] = f[k] + a[k + 1] /\ g[k + 1] = g[k] + b[k + 1]
    BY <1>2, <1>4
  <2>6. (j \in 1 .. k + 1) <=> (j \in 1 .. k \/ j = k + 1)
    BY <2>1
  <2>7. j \in 1 .. k => j # k + 1
    BY <2>1
  <2>8. g[k + 1] = f[k + 1] + (IF j \in 1 .. k + 1 THEN d ELSE 0)
    BY <2>2, <2>3, <2>4, <2>5, <2>6, <2>7
  <2> QED
    BY <2>1, <2>8
<1> HIDE DEF S
<1>5. m \in S
  BY <1>3, <1>4, Climb
<1> QED
  BY <1>5 DEF S, f, g

LEMMA SumsNone ==
  ASSUME NEW a, NEW n, Numeric(a, n), \A k \in 1 .. n : a[k] = 0, NEW m \in 0 .. n
  PROVE  Sums(a)[m] = 0
<1> DEFINE S == { k \in 0 .. n : Sums(a)[k] = 0 }
<1>0. n \in Nat /\ m \in Nat
  BY DEF Numeric
<1>1. 0 \in S
  BY <1>0, SumsAre
<1>2. ASSUME NEW k \in 0 .. m, k \in S, k < m PROVE k + 1 \in S
  <2>1. k \in 0 .. n /\ k < n /\ k + 1 \in 1 .. n /\ k + 1 \in 0 .. n
    BY <1>0, <1>2
  <2>2. Sums(a)[k + 1] = Sums(a)[k] + a[k + 1]
    BY <2>1, SumsAre
  <2> QED
    BY <1>2, <2>1, <2>2
<1> HIDE DEF S
<1>3. m \in S
  BY <1>0, <1>1, <1>2, Climb
<1> QED
  BY <1>3 DEF S

(* The records of a series *)

MetricKinds == {"counter", "gauge", "histogram"}
Records == [name : MetricNames, kind : MetricKinds, amount : Amounts, labels : Labels]

UsesIn(obs, name) == { k \in DOMAIN obs : obs[k].name = name }
OwnIn(obs, name, kind, fp) ==
    { k \in DOMAIN obs : obs[k].name = name /\ obs[k].kind = kind /\ Fingerprint(obs[k].labels) = fp }
Picked(obs, places) == [ k \in DOMAIN obs |-> IF k \in places THEN obs[k].amount ELSE 0 ]
TotalIn(obs, places) == Sums(Picked(obs, places))[Len(obs)]
UpTo(obs, places, bound) == { i \in places : obs[i].amount <= bound }

\* One record more.
LEMMA RecordMore ==
  ASSUME NEW obs \in Seq(Records), NEW new \in Records
  PROVE  LET n == Len(obs)
             more == Append(obs, new)
         IN  /\ n \in Nat /\ more \in Seq(Records) /\ Len(more) = n + 1 /\ DOMAIN obs = 1 .. n /\ DOMAIN more = 1 .. n + 1
             /\ more[n + 1] = new /\ \A i \in 1 .. n : more[i] = obs[i]
             /\ \A i \in 1 .. n : obs[i].amount \in Int
             /\ new.amount \in Int
<1>1. Amounts \subseteq Int
  BY LimitsAssumption
<1>2. \A i \in 1 .. Len(obs) : obs[i] \in Records
  OBVIOUS
<1>3. \A i \in 1 .. Len(obs) : obs[i].amount \in Int
  BY <1>1, <1>2 DEF Records
<1>4. new.amount \in Int
  BY <1>1 DEF Records
<1> QED
  BY <1>3, <1>4

LEMMA PickedNumeric ==
  ASSUME NEW obs \in Seq(Records), NEW places
  PROVE  Numeric(Picked(obs, places), Len(obs))
<1>1. Amounts \subseteq Int
  BY LimitsAssumption
<1>2. \A i \in 1 .. Len(obs) : obs[i] \in Records
  OBVIOUS
<1>3. \A i \in 1 .. Len(obs) : obs[i].amount \in Int
  BY <1>1, <1>2 DEF Records
<1>4. Len(obs) \in Nat /\ DOMAIN obs = 1 .. Len(obs)
  OBVIOUS
<1>5. Len(Picked(obs, places)) = Len(obs)
  BY <1>4 DEF Picked
<1> QED
  BY <1>3, <1>4, <1>5 DEF Picked, Numeric

LEMMA TotalMore ==
  ASSUME NEW obs \in Seq(Records), NEW new \in Records, NEW places \in SUBSET (1 .. Len(obs))
  PROVE  /\ TotalIn(obs, places) \in Int
         /\ TotalIn(Append(obs, new), places) = TotalIn(obs, places)
         /\ TotalIn(Append(obs, new), places \cup {Len(obs) + 1}) = TotalIn(obs, places) + new.amount
         /\ TotalIn(obs, {}) = 0
<1> DEFINE n == Len(obs)
           more == Append(obs, new)
           a == Picked(obs, places)
<1>1. /\ n \in Nat /\ more \in Seq(Records) /\ Len(more) = n + 1 /\ DOMAIN obs = 1 .. n /\ DOMAIN more = 1 .. n + 1
      /\ more[n + 1] = new /\ \A i \in 1 .. n : more[i] = obs[i]
      /\ new.amount \in Int
  BY RecordMore
<1> HIDE DEF more, n
<1>2. ASSUME NEW all, all \in {places, places \cup {n + 1}}
      PROVE  TotalIn(more, all) = TotalIn(obs, places) + (IF n + 1 \in all THEN new.amount ELSE 0)
  <2> DEFINE b == Picked(more, all)
  <2>1. Numeric(a, n) /\ Numeric(b, n + 1)
    <3>1. Numeric(a, n)
      BY PickedNumeric DEF n
    <3>2. Numeric(b, n + 1)
      BY <1>1, PickedNumeric
    <3> QED
      BY <3>1, <3>2
  <2>2. \A k \in 1 .. n : a[k] = b[k] /\ a[k] \in Int
    <3>1. \A k \in 1 .. n : k \in all <=> k \in places
      BY <1>1, <1>2
    <3>2. \A k \in 1 .. n : k \in DOMAIN more /\ k \in DOMAIN obs
      BY <1>1
    <3>3. \A k \in 1 .. n : a[k] \in Int
      BY <2>1 DEF Numeric
    <3> QED
      BY <1>1, <3>1, <3>2, <3>3 DEF Picked
  <2>3. b[n + 1] = IF n + 1 \in all THEN new.amount ELSE 0
    BY <1>1 DEF Picked
  <2>4. Sums(b)[n + 1] = Sums(b)[n] + b[n + 1] /\ Sums(b)[n] \in Int
    <3>1. n \in 0 .. n + 1 /\ n < n + 1
      BY <1>1
    <3> HIDE DEF b
    <3> QED
      BY <2>1, <3>1, SumsAre
  <2>5. Sums(b)[n] = Sums(a)[n]
    <3>1. n \in Nat /\ n <= n /\ n <= n + 1 /\ 0 \in Int
      BY <1>1
    <3>2. Raised(a, b, n, 0, 0)
      BY <2>2 DEF Raised
    <3> HIDE DEF a, b
    <3>3. Sums(b)[n] = Sums(a)[n] + (IF 0 \in 1 .. n THEN 0 ELSE 0)
      <4> DEFINE l == n + 1
      <4>1. Numeric(b, l) /\ n <= l
        BY <2>1, <3>1
      <4> HIDE DEF l
      <4> QED
        BY <2>1, <3>1, <3>2, <4>1, SumsRaised
    <3>4. Sums(a)[n] \in Int
      <4>1. n \in 0 .. n
        BY <1>1
      <4> QED
        BY <2>1, <4>1, SumsAre
    <3> QED
      BY <3>3, <3>4
  <2>6. TotalIn(more, all) = Sums(b)[n + 1] /\ TotalIn(obs, places) = Sums(a)[n]
    BY <1>1 DEF TotalIn, n
  <2> HIDE DEF a, b
  <2> QED
    BY <2>3, <2>4, <2>5, <2>6
<1>3. TotalIn(obs, places) \in Int
  <2>1. Numeric(a, n) /\ n \in 0 .. n
    BY <1>1, PickedNumeric DEF n
  <2> HIDE DEF a
  <2>2. Sums(a)[n] \in Int
    BY <2>1, SumsAre
  <2> QED
    BY <2>2 DEF TotalIn, a, n
<1>4. n + 1 \notin places
  BY <1>1 DEF n
<1>5. TotalIn(more, places) = TotalIn(obs, places)
  BY <1>2, <1>3, <1>4
<1>6. TotalIn(more, places \cup {n + 1}) = TotalIn(obs, places) + new.amount
  BY <1>2, <1>4
<1>7. TotalIn(obs, {}) = 0
  <2> DEFINE b == Picked(obs, {})
  <2>1. Numeric(b, n) /\ n \in 0 .. n
    BY <1>1, PickedNumeric DEF n
  <2>2. \A k \in 1 .. n : b[k] = 0
    BY <1>1 DEF Picked
  <2> HIDE DEF b
  <2>3. Sums(b)[n] = 0
    BY <2>1, <2>2, SumsNone
  <2> QED
    BY <2>3 DEF TotalIn, b, n
<1> QED
  BY <1>3, <1>5, <1>6, <1>7 DEF more, n

(* The bucket of an observation *)

LEMMA MinIs ==
  ASSUME NEW S, NEW m \in S, S \subseteq Int, \A k \in S : m <= k
  PROVE  Min(S) = m
<1>1. \A x \in S : (\A k \in S : x <= k) => x = m
  BY SMT
<1> QED
  BY <1>1 DEF Min

LEMMA MaxIs ==
  ASSUME NEW S, NEW m \in S, S \subseteq Int, \A k \in S : k <= m
  PROVE  Max(S) = m
<1>1. \A x \in S : (\A k \in S : k <= x) => x = m
  BY SMT
<1> QED
  BY <1>1 DEF Max

\* The last of a set of places is one of them.
LEMMA LastPlace ==
  ASSUME NEW n \in Nat, NEW S \in SUBSET (1 .. n), S # {}
  PROVE  Max(S) \in S /\ \A j \in S : j <= Max(S)
<1>1. PICK k \in S : TRUE
  OBVIOUS
<1> DEFINE T == { i \in Nat : \A j \in S : j <= i }
<1>2. n \in T /\ T \in SUBSET Nat
  OBVIOUS
<1>3. PICK i \in T : \A j \in T : i <= j
  BY <1>2, LeastIndex
<1>4. i \in S
  <2> SUFFICES ASSUME i \notin S PROVE FALSE
    OBVIOUS
  <2>1. k \in Nat /\ k <= i /\ k # i /\ k >= 1
    BY <1>3
  <2>2. i - 1 \in Nat /\ \A j \in S : j <= i - 1
    BY <1>3, <2>1
  <2>3. i - 1 \in T
    BY <2>2
  <2> QED
    BY <1>3, <2>1, <2>3
<1>5. \A j \in S : j <= i
  BY <1>3
<1>6. Max(S) = i
  <2>1. S \subseteq Int
    OBVIOUS
  <2> HIDE DEF T
  <2> QED
    BY <1>4, <1>5, <2>1, MaxIs
<1> QED
  BY <1>4, <1>5, <1>6

LEMMA BucketIs ==
  ASSUME NEW amount \in Int
  PROVE  /\ Len(Bounds) \in Nat /\ DOMAIN Bounds = 1 .. Len(Bounds)
         /\ BucketOf(amount) \in 1 .. Len(Bounds) + 1
         /\ \A k \in 1 .. Len(Bounds) : amount <= Bounds[k] <=> BucketOf(amount) <= k
<1> DEFINE l == Len(Bounds)
           under == { k \in DOMAIN Bounds : amount <= Bounds[k] }
           j == BucketOf(amount)
<1>1. l \in Nat /\ DOMAIN Bounds = 1 .. l /\ \A k \in 1 .. l : Bounds[k] \in Int
  BY LimitsAssumption
<1>2. \A i, k \in 1 .. l : i <= k => Bounds[i] <= Bounds[k]
  BY <1>1, LimitsAssumption
<1>3. j = IF under = {} THEN l + 1 ELSE Min(under)
  BY DEF BucketOf
<1>4. CASE under = {}
  <2>1. j = l + 1
    BY <1>3, <1>4
  <2>2. \A k \in 1 .. l : ~ (amount <= Bounds[k])
    BY <1>1, <1>4
  <2> HIDE DEF j, under, l
  <2>3. j \in 1 .. l + 1 /\ \A k \in 1 .. l : ~ (j <= k)
    BY <1>1, <2>1
  <2> QED
    BY <1>1, <2>2, <2>3 DEF j, l
<1>5. CASE under # {}
  <2>1. under \in SUBSET Nat /\ under \subseteq Int
    BY <1>1
  <2>2. PICK m \in under : \A k \in under : m <= k
    BY <1>5, <2>1, LeastIndex
  <2>3. Min(under) = m
    BY <2>1, <2>2, MinIs
  <2>4. j = m
    BY <1>3, <1>5, <2>3
  <2>5. m \in 1 .. l /\ amount <= Bounds[m]
    BY <1>1
  <2>6. ASSUME NEW k \in 1 .. l PROVE amount <= Bounds[k] <=> m <= k
    <3>1. amount <= Bounds[k] => m <= k
      BY <1>1, <2>2
    <3>2. m <= k => Bounds[m] <= Bounds[k]
      BY <1>2, <2>5
    <3>3. Bounds[m] \in Int /\ Bounds[k] \in Int
      BY <1>1, <2>5
    <3> HIDE DEF under
    <3> QED
      BY <2>5, <3>1, <3>2, <3>3
  <2> HIDE DEF j, under
  <2>7. j \in 1 .. l + 1
    BY <1>1, <2>4, <2>5
  <2> QED
    BY <1>1, <2>4, <2>6, <2>7 DEF j
<1> QED
  BY <1>4, <1>5

(* A series and its records *)

BucketCounts == [1 .. Len(Bounds) + 1 -> Int]
SeriesLike(s) ==
    /\ DOMAIN s = {"fp", "labels", "value", "sum", "buckets"}
    /\ s.value \in Int /\ s.sum \in Int /\ s.buckets \in BucketCounts

CountsHold(buckets, obs, own) ==
    /\ \A k \in 1 .. Len(Bounds) : Sums(buckets)[k] = Cardinality(UpTo(obs, own, Bounds[k]))
    /\ Sums(buckets)[Len(Bounds) + 1] = Cardinality(own)

Counted(s, kind, obs, own) ==
    /\ kind = "counter" => s.value = TotalIn(obs, own)
    /\ kind = "gauge" /\ own # {} => s.value = obs[Max(own)].amount
    /\ kind = "histogram" => s.sum = TotalIn(obs, own) /\ s.value = Cardinality(own) /\ CountsHold(s.buckets, obs, own)

LEMMA BucketsNumeric ==
  ASSUME NEW buckets \in BucketCounts
  PROVE  Numeric(buckets, Len(Bounds) + 1)
<1>1. Len(Bounds) \in Nat
  BY LimitsAssumption
<1>2. DOMAIN buckets = 1 .. Len(Bounds) + 1 /\ Len(Bounds) + 1 \in Nat
  BY <1>1 DEF BucketCounts
<1>3. Len(buckets) = Len(Bounds) + 1
  BY <1>2
<1> QED
  BY <1>2, <1>3 DEF Numeric, BucketCounts

LEMMA UpToPlaces ==
  ASSUME NEW obs \in Seq(Records), NEW new \in Records, NEW own \in SUBSET (1 .. Len(obs)), NEW bound
  PROVE  LET n == Len(obs)
             more == Append(obs, new)
         IN  /\ Cardinality(UpTo(obs, own, bound)) \in Nat
             /\ Cardinality(UpTo(more, own, bound)) = Cardinality(UpTo(obs, own, bound))
             /\ Cardinality(UpTo(more, own \cup {n + 1}, bound)) =
                  Cardinality(UpTo(obs, own, bound)) + (IF new.amount <= bound THEN 1 ELSE 0)
<1> DEFINE n == Len(obs)
           more == Append(obs, new)
           A == UpTo(obs, own, bound)
<1>1. /\ n \in Nat /\ more[n + 1] = new /\ \A i \in 1 .. n : more[i] = obs[i]
  BY RecordMore
<1> HIDE DEF more, n
<1>2. A \in SUBSET (1 .. n)
  BY DEF UpTo, n
<1>3. Cardinality(A) \in Nat /\ Cardinality(A \cup {n + 1}) = Cardinality(A) + 1
  BY <1>1, <1>2, Places
<1>4. UpTo(more, own, bound) = A
  BY <1>1 DEF UpTo, n
<1>5. UpTo(more, own \cup {n + 1}, bound) = IF new.amount <= bound THEN A \cup {n + 1} ELSE A
  BY <1>1 DEF UpTo, n
<1> HIDE DEF A
<1>6. Cardinality(UpTo(more, own \cup {n + 1}, bound)) = Cardinality(A) + (IF new.amount <= bound THEN 1 ELSE 0)
  BY <1>3, <1>5
<1> QED
  BY <1>3, <1>4, <1>6 DEF A, more, n

\* A record of another series changes nothing.
LEMMA CountedBefore ==
  ASSUME NEW obs \in Seq(Records), NEW new \in Records, NEW own \in SUBSET (1 .. Len(obs)),
         NEW s, NEW kind, Counted(s, kind, obs, own)
  PROVE  Counted(s, kind, Append(obs, new), own)
<1> DEFINE more == Append(obs, new)
<1>1. TotalIn(more, own) = TotalIn(obs, own)
  BY TotalMore
<1>2. \A bound : Cardinality(UpTo(more, own, bound)) = Cardinality(UpTo(obs, own, bound))
  BY UpToPlaces
<1>3. own # {} => more[Max(own)] = obs[Max(own)]
  <2>1. Len(obs) \in Nat
    OBVIOUS
  <2>2. own # {} => Max(own) \in 1 .. Len(obs)
    BY <2>1, LastPlace
  <2> QED
    BY <2>2, RecordMore
<1> HIDE DEF more
<1>4. Counted(s, kind, more, own)
  BY <1>1, <1>2, <1>3 DEF Counted, CountsHold
<1> QED
  BY <1>4 DEF more

\* A record of the series is counted once, in its bucket and those above.
LEMMA CountsMore ==
  ASSUME NEW obs \in Seq(Records), NEW new \in Records, NEW own \in SUBSET (1 .. Len(obs)),
         NEW buckets \in BucketCounts, CountsHold(buckets, obs, own)
  PROVE  /\ [buckets EXCEPT ![BucketOf(new.amount)] = @ + 1] \in BucketCounts
         /\ CountsHold([buckets EXCEPT ![BucketOf(new.amount)] = @ + 1], Append(obs, new), own \cup {Len(obs) + 1})
<1> DEFINE n == Len(obs)
           l == Len(Bounds)
           more == Append(obs, new)
           j == BucketOf(new.amount)
           raised == [buckets EXCEPT ![j] = @ + 1]
<1>1. n \in Nat /\ new.amount \in Int /\ l \in Nat
  BY RecordMore, LimitsAssumption
<1>2. j \in 1 .. l + 1 /\ \A k \in 1 .. l : new.amount <= Bounds[k] <=> j <= k
  BY <1>1, BucketIs
<1> HIDE DEF j
<1>3. raised \in BucketCounts
  BY <1>2 DEF BucketCounts
<1>4. \A k \in 1 .. l + 1 : raised[k] = buckets[k] + (IF k = j THEN 1 ELSE 0)
  BY <1>2 DEF BucketCounts
<1>5. Numeric(buckets, l + 1) /\ Numeric(raised, l + 1)
  BY <1>3, BucketsNumeric
<1> HIDE DEF raised, more
<1>6. ASSUME NEW m \in 1 .. l + 1
      PROVE  /\ Sums(raised)[m] = Sums(buckets)[m] + (IF j <= m THEN 1 ELSE 0)
             /\ Sums(buckets)[m] \in Int
  <2>1. m \in Nat /\ m <= l + 1 /\ j \in Int /\ 1 \in Int /\ m \in 0 .. l + 1
    BY <1>1, <1>2
  <2>2. \A k \in 1 .. m : raised[k] = buckets[k] + (IF k = j THEN 1 ELSE 0)
    BY <1>1, <1>4
  <2>3. Sums(raised)[m] = Sums(buckets)[m] + (IF j \in 1 .. m THEN 1 ELSE 0)
    <3> DEFINE all == l + 1
    <3>1. Numeric(buckets, all) /\ Numeric(raised, all) /\ m <= all
      BY <1>5, <2>1
    <3> HIDE DEF all
    <3>2. Raised(buckets, raised, m, j, 1)
      BY <2>2 DEF Raised
    <3> QED
      BY <2>1, <3>1, <3>2, SumsRaised
  <2>4. j \in 1 .. m <=> j <= m
    BY <1>1, <1>2
  <2>5. Sums(buckets)[m] \in Int
    BY <1>5, <2>1, SumsAre
  <2> QED
    BY <2>3, <2>4, <2>5
<1>7. ASSUME NEW k \in 1 .. l
      PROVE  Sums(raised)[k] = Cardinality(UpTo(more, own \cup {n + 1}, Bounds[k]))
  <2>1. k \in 1 .. l + 1
    BY <1>1
  <2>2. Sums(buckets)[k] = Cardinality(UpTo(obs, own, Bounds[k]))
    BY DEF CountsHold
  <2>3. Cardinality(UpTo(more, own \cup {n + 1}, Bounds[k])) =
          Cardinality(UpTo(obs, own, Bounds[k])) + (IF new.amount <= Bounds[k] THEN 1 ELSE 0)
    BY UpToPlaces DEF more
  <2> QED
    BY <1>2, <1>6, <2>1, <2>2, <2>3
<1>8. Sums(raised)[l + 1] = Cardinality(own \cup {n + 1})
  <2>1. l + 1 \in 1 .. l + 1 /\ j <= l + 1
    BY <1>1, <1>2
  <2>2. Sums(buckets)[l + 1] = Cardinality(own)
    BY DEF CountsHold
  <2>3. Cardinality(own \cup {n + 1}) = Cardinality(own) + 1
    BY <1>1, Places
  <2> QED
    BY <1>6, <2>1, <2>2, <2>3
<1>9. CountsHold(raised, more, own \cup {n + 1})
  BY <1>7, <1>8 DEF CountsHold
<1> QED
  BY <1>3, <1>9 DEF raised, more, j

\* A record goes to its series once.
LEMMA RecordedCounts ==
  ASSUME NEW obs \in Seq(Records), NEW new \in Records, NEW own \in SUBSET (1 .. Len(obs)),
         NEW s, SeriesLike(s), NEW kind \in MetricKinds, Counted(s, kind, obs, own)
  PROVE  LET r == Recorded(s, kind, new.amount)
         IN  /\ SeriesLike(r) /\ r.fp = s.fp
             /\ Counted(r, kind, Append(obs, new), own \cup {Len(obs) + 1})
<1> DEFINE n == Len(obs)
           more == Append(obs, new)
           all == own \cup {n + 1}
           amount == new.amount
           r == Recorded(s, kind, amount)
<1>1. n \in Nat /\ amount \in Int /\ more[n + 1] = new
  BY RecordMore
<1>2. TotalIn(obs, own) \in Int /\ TotalIn(more, all) = TotalIn(obs, own) + amount
  BY TotalMore
<1>3. Cardinality(all) = Cardinality(own) + 1 /\ Cardinality(own) \in Nat
  BY <1>1, Places
<1>4. Max(all) = n + 1 /\ all # {}
  <2>1. \A k \in own : k \in Int /\ k <= n
    BY <1>1
  <2>2. n + 1 \in all
    OBVIOUS
  <2>3. \A k \in all : k \in Int /\ k <= n + 1
    BY <1>1, <2>1
  <2> HIDE DEF all, n
  <2>4. all \subseteq Int
    BY <2>3
  <2> QED
    BY <2>2, <2>3, <2>4, MaxIs
<1> HIDE DEF more, all, amount
<1>5. CASE kind = "counter"
  <2>1. r = [s EXCEPT !.value = @ + amount]
    BY <1>5 DEF Recorded
  <2>2. SeriesLike(r) /\ r.fp = s.fp /\ r.value = s.value + amount
    BY <1>1, <2>1 DEF SeriesLike
  <2>3. s.value = TotalIn(obs, own)
    BY <1>5 DEF Counted
  <2> HIDE DEF r
  <2>4. Counted(r, kind, more, all)
    BY <1>2, <1>5, <2>2, <2>3 DEF Counted
  <2> QED
    BY <2>2, <2>4 DEF r, more, all, amount
<1>6. CASE kind = "gauge"
  <2>1. r = [s EXCEPT !.value = amount]
    BY <1>6 DEF Recorded
  <2>2. SeriesLike(r) /\ r.fp = s.fp /\ r.value = amount
    BY <1>1, <2>1 DEF SeriesLike
  <2> HIDE DEF r
  <2>3. Counted(r, kind, more, all)
    BY <1>1, <1>4, <1>6, <2>2 DEF Counted, amount
  <2> QED
    BY <2>2, <2>3 DEF r, more, all, amount
<1>7. CASE kind = "histogram"
  <2> DEFINE raised == [s.buckets EXCEPT ![BucketOf(amount)] = @ + 1]
  <2>1. r = [s EXCEPT !.value = @ + 1, !.sum = @ + amount, !.buckets[BucketOf(amount)] = @ + 1]
    BY <1>7 DEF Recorded
  <2>2. s.sum = TotalIn(obs, own) /\ s.value = Cardinality(own) /\ CountsHold(s.buckets, obs, own)
    BY <1>7 DEF Counted
  <2>3. s.buckets \in BucketCounts
    BY DEF SeriesLike
  <2>4. raised \in BucketCounts /\ CountsHold(raised, more, all)
    BY <2>2, <2>3, CountsMore DEF more, all, amount
  <2>5. r = [s EXCEPT !.value = @ + 1, !.sum = @ + amount, !.buckets = raised]
    BY <2>1 DEF SeriesLike
  <2> HIDE DEF r, raised
  <2>6. r.buckets = raised /\ r.value = s.value + 1 /\ r.sum = s.sum + amount /\ r.fp = s.fp /\ DOMAIN r = DOMAIN s
    BY <2>5 DEF SeriesLike
  <2>7. SeriesLike(r)
    BY <1>1, <2>4, <2>6 DEF SeriesLike
  <2>8. Counted(r, kind, more, all)
    BY <1>2, <1>3, <1>7, <2>2, <2>4, <2>6 DEF Counted
  <2> QED
    BY <2>6, <2>7, <2>8 DEF r, more, all, amount
<1> QED
  BY <1>5, <1>6, <1>7 DEF MetricKinds

\* The places of a series, after one record more.
LEMMA OwnMore ==
  ASSUME NEW obs \in Seq(Records), NEW new \in Records, NEW name, NEW kind, NEW fp
  PROVE  /\ OwnIn(obs, name, kind, fp) \in SUBSET (1 .. Len(obs))
         /\ OwnIn(Append(obs, new), name, kind, fp) =
              OwnIn(obs, name, kind, fp) \cup
                (IF new.name = name /\ new.kind = kind /\ Fingerprint(new.labels) = fp THEN {Len(obs) + 1} ELSE {})
         /\ UsesIn(Append(obs, new), name) = UsesIn(obs, name) \cup (IF new.name = name THEN {Len(obs) + 1} ELSE {})
<1> DEFINE n == Len(obs)
           more == Append(obs, new)
<1>1. /\ n \in Nat /\ DOMAIN obs = 1 .. n /\ DOMAIN more = 1 .. n + 1
      /\ more[n + 1] = new /\ \A i \in 1 .. n : more[i] = obs[i]
  BY RecordMore
<1>2. \A i \in 1 .. n + 1 : i \in 1 .. n \/ i = n + 1
  BY <1>1
<1>3. \A i \in 1 .. n : i \in 1 .. n + 1
  BY <1>1
<1>4. n + 1 \in 1 .. n + 1
  BY <1>1
<1> HIDE DEF more, n
<1>5. OwnIn(obs, name, kind, fp) \in SUBSET (1 .. n)
  BY <1>1 DEF OwnIn
<1>6. OwnIn(more, name, kind, fp) =
         OwnIn(obs, name, kind, fp) \cup
           (IF new.name = name /\ new.kind = kind /\ Fingerprint(new.labels) = fp THEN {n + 1} ELSE {})
  BY <1>1, <1>2, <1>3, <1>4 DEF OwnIn
<1>7. UsesIn(more, name) = UsesIn(obs, name) \cup (IF new.name = name THEN {n + 1} ELSE {})
  BY <1>1, <1>2, <1>3, <1>4 DEF UsesIn
<1> QED
  BY <1>5, <1>6, <1>7 DEF more, n

\* The first use of a name stays the first.
LEMMA FirstStays ==
  ASSUME NEW obs \in Seq(Records), NEW new \in Records, NEW name, UsesIn(obs, name) # {}
  PROVE  /\ UsesIn(Append(obs, new), name) # {}
         /\ Append(obs, new)[Min(UsesIn(Append(obs, new), name))] = obs[Min(UsesIn(obs, name))]
<1> DEFINE n == Len(obs)
           more == Append(obs, new)
           U == UsesIn(obs, name)
           V == UsesIn(more, name)
<1>1. n \in Nat /\ DOMAIN obs = 1 .. n /\ \A i \in 1 .. n : more[i] = obs[i]
  BY RecordMore
<1>2. V = U \cup (IF new.name = name THEN {n + 1} ELSE {})
  BY OwnMore
<1>3. U \in SUBSET (1 .. n)
  BY <1>1 DEF UsesIn
<1> HIDE DEF U, V, n, more
<1>4. U \in SUBSET Nat /\ U # {}
  BY <1>1, <1>3 DEF U
<1>5. PICK m \in U : \A k \in U : m <= k
  BY <1>4, LeastIndex
<1>6. Min(U) = m
  <2>1. U \subseteq Int
    BY <1>4
  <2> QED
    BY <1>5, <2>1, MinIs
<1>7. Min(V) = m
  <2>1. m \in V /\ V \subseteq Int /\ \A k \in V : m <= k
    BY <1>1, <1>2, <1>3, <1>5
  <2> QED
    BY <2>1, MinIs
<1>8. more[m] = obs[m] /\ V # {}
  BY <1>1, <1>2, <1>3, <1>4
<1> QED
  BY <1>6, <1>7, <1>8 DEF U, V, more

(* The steps *)

MetricKnown(m, obs) ==
    /\ m.kind \in MetricKinds /\ DOMAIN m = {"name", "kind", "series"}
    /\ UsesIn(obs, m.name) # {} => m.kind = obs[Min(UsesIn(obs, m.name))].kind
    /\ \A s, t \in m.series : s.fp = t.fp => s = t
    /\ \A s \in m.series :
          /\ SeriesLike(s) /\ OwnIn(obs, m.name, m.kind, s.fp) # {}
          /\ Counted(s, m.kind, obs, OwnIn(obs, m.name, m.kind, s.fp))
    /\ \A k \in DOMAIN obs :
          obs[k].name = m.name /\ obs[k].kind = m.kind => \E s \in m.series : s.fp = Fingerprint(obs[k].labels)

MetricHolds(m, obs) == MetricKnown(m, obs) /\ UsesIn(obs, m.name) # {}

RegistryHolds(reg, obs) ==
    /\ obs \in Seq(Records)
    /\ \A m \in reg : MetricHolds(m, obs)
    /\ \A m, o \in reg : m.name = o.name => m = o
    /\ \A k \in DOMAIN obs : \E m \in reg : m.name = obs[k].name

MetricsInv == RegistryHolds(registry, observed)

\* A record of another name or kind leaves a metric as it is.
LEMMA MetricBefore ==
  ASSUME NEW obs \in Seq(Records), NEW new \in Records, NEW m, MetricHolds(m, obs),
         new.name # m.name \/ new.kind # m.kind
  PROVE  MetricHolds(m, Append(obs, new))
<1> DEFINE n == Len(obs)
           more == Append(obs, new)
<1>1. /\ n \in Nat /\ DOMAIN obs = 1 .. n /\ DOMAIN more = 1 .. n + 1
      /\ more[n + 1] = new /\ \A i \in 1 .. n : more[i] = obs[i]
  BY RecordMore
<1>2. ASSUME NEW fp
      PROVE  /\ OwnIn(more, m.name, m.kind, fp) = OwnIn(obs, m.name, m.kind, fp)
             /\ OwnIn(obs, m.name, m.kind, fp) \in SUBSET (1 .. Len(obs))
  <2>1. ~ (new.name = m.name /\ new.kind = m.kind /\ Fingerprint(new.labels) = fp)
    OBVIOUS
  <2>2. OwnIn(more, m.name, m.kind, fp) =
          OwnIn(obs, m.name, m.kind, fp) \cup
            (IF new.name = m.name /\ new.kind = m.kind /\ Fingerprint(new.labels) = fp THEN {Len(obs) + 1} ELSE {})
    BY OwnMore
  <2> QED
    BY <2>1, <2>2, OwnMore
<1>3. UsesIn(more, m.name) # {} /\ more[Min(UsesIn(more, m.name))] = obs[Min(UsesIn(obs, m.name))]
  BY FirstStays DEF MetricHolds, MetricKnown
<1>4. ASSUME NEW s \in m.series
      PROVE  Counted(s, m.kind, more, OwnIn(more, m.name, m.kind, s.fp))
  <2>1. Counted(s, m.kind, obs, OwnIn(obs, m.name, m.kind, s.fp))
    BY DEF MetricHolds, MetricKnown
  <2> QED
    BY <1>2, <2>1, CountedBefore
<1>5. ASSUME NEW k \in DOMAIN more, more[k].name = m.name, more[k].kind = m.kind
      PROVE  \E s \in m.series : s.fp = Fingerprint(more[k].labels)
  <2>1. k \in 1 .. n \/ k = n + 1
    BY <1>1
  <2>2. k \in DOMAIN obs /\ more[k] = obs[k]
    BY <1>1, <1>5, <2>1
  <2> QED
    BY <1>5, <2>2 DEF MetricHolds, MetricKnown
<1> HIDE DEF more
<1>6. MetricHolds(m, more)
  BY <1>2, <1>3, <1>4, <1>5 DEF MetricHolds, MetricKnown
<1> QED
  BY <1>6 DEF more

\* The series a record goes to, before it.
SeriesOf(m, fp, labels) ==
    LET same == { s \in m.series : s.fp = fp }
    IN  IF same = {} THEN Series(fp, labels) ELSE CHOOSE s \in same : TRUE

LEMMA OldSeries ==
  ASSUME NEW obs \in Seq(Records), NEW new \in Records, NEW m, MetricKnown(m, obs), NEW fp, NEW labels
  PROVE  /\ SeriesLike(SeriesOf(m, fp, labels)) /\ SeriesOf(m, fp, labels).fp = fp
         /\ Counted(SeriesOf(m, fp, labels), m.kind, obs, OwnIn(obs, m.name, m.kind, fp))
<1> DEFINE same == { s \in m.series : s.fp = fp }
           old == IF same = {} THEN Series(fp, labels) ELSE CHOOSE s \in same : TRUE
           own == OwnIn(obs, m.name, m.kind, fp)
<1>0. SUFFICES SeriesLike(old) /\ old.fp = fp /\ Counted(old, m.kind, obs, own)
  BY DEF SeriesOf
<1>1. CASE same # {}
  <2>1. old \in same
    BY <1>1
  <2>2. old \in m.series /\ old.fp = fp
    BY <2>1
  <2> HIDE DEF old
  <2> QED
    BY <2>2 DEF MetricKnown, old
<1>2. CASE same = {}
  <2>1. own = {}
    <3>1. \A k \in own : k \in DOMAIN obs /\ obs[k].name = m.name /\ obs[k].kind = m.kind /\ Fingerprint(obs[k].labels) = fp
      BY DEF OwnIn
    <3> QED
      BY <1>2, <3>1 DEF MetricKnown
  <2>2. TotalIn(obs, own) = 0 /\ Cardinality(own) = 0
    BY <2>1, TotalMore, FS_EmptySet
  <2> DEFINE l == Len(Bounds)
             zeros == [k \in 1 .. l + 1 |-> 0]
  <2>3. l \in Nat
    BY LimitsAssumption
  <2>4. zeros \in BucketCounts
    BY <2>3 DEF BucketCounts
  <2>5. \A k \in 1 .. l + 1 : Sums(zeros)[k] = 0
    <3> DEFINE all == l + 1
    <3>1. Numeric(zeros, all)
      BY <2>4, BucketsNumeric
    <3>2. \A k \in 1 .. all : zeros[k] = 0
      OBVIOUS
    <3>3. \A k \in 1 .. all : k \in 0 .. all
      BY <2>3
    <3> HIDE DEF zeros, all
    <3>4. \A k \in 0 .. all : Sums(zeros)[k] = 0
      BY <3>1, <3>2, SumsNone
    <3> QED
      BY <3>3, <3>4 DEF all
  <2>6. CountsHold(zeros, obs, own)
    <3>1. \A bound : UpTo(obs, own, bound) = {}
      BY <2>1 DEF UpTo
    <3>2. \A bound : Cardinality(UpTo(obs, own, bound)) = 0
      BY <3>1, FS_EmptySet
    <3>3. \A k \in 1 .. l : k \in 1 .. l + 1
      BY <2>3
    <3>4. l + 1 \in 1 .. l + 1
      BY <2>3
    <3> QED
      BY <2>2, <2>5, <3>2, <3>3, <3>4 DEF CountsHold
  <2>7. /\ old.fp = fp /\ old.value = 0 /\ old.sum = 0 /\ old.buckets = zeros
        /\ DOMAIN old = {"fp", "labels", "value", "sum", "buckets"}
    BY <1>2 DEF Series
  <2> HIDE DEF old, zeros, own
  <2>8. SeriesLike(old)
    BY <2>4, <2>7 DEF SeriesLike
  <2>9. Counted(old, m.kind, obs, own)
    BY <2>1, <2>2, <2>6, <2>7 DEF Counted
  <2> QED
    BY <2>7, <2>8, <2>9 DEF old, own
<1> QED
  BY <1>1, <1>2

\* A record of the metric's kind.
LEMMA RecordedMetric ==
  ASSUME NEW obs \in Seq(Records), NEW new \in Records, NEW m, MetricKnown(m, obs),
         new.name = m.name, new.kind = m.kind
  PROVE  LET fp == Fingerprint(new.labels)
             same == { s \in m.series : s.fp = fp }
             old == IF same = {} THEN Series(fp, new.labels) ELSE CHOOSE s \in same : TRUE
         IN  MetricHolds([m EXCEPT !.series = (@ \ same) \cup {Recorded(old, m.kind, new.amount)}], Append(obs, new))
<1> DEFINE n == Len(obs)
           more == Append(obs, new)
           fp == Fingerprint(new.labels)
           same == { s \in m.series : s.fp = fp }
           old == IF same = {} THEN Series(fp, new.labels) ELSE CHOOSE s \in same : TRUE
           r == Recorded(old, m.kind, new.amount)
           o == [m EXCEPT !.series = (@ \ same) \cup {r}]
           own == OwnIn(obs, m.name, m.kind, fp)
<1>1. /\ n \in Nat /\ DOMAIN obs = 1 .. n /\ DOMAIN more = 1 .. n + 1
      /\ more[n + 1] = new /\ \A i \in 1 .. n : more[i] = obs[i]
  BY RecordMore
<1>2. SeriesLike(old) /\ old.fp = fp /\ Counted(old, m.kind, obs, own)
  <2>1. old = SeriesOf(m, fp, new.labels)
    BY DEF SeriesOf
  <2> HIDE DEF fp, old
  <2> QED
    BY <2>1, OldSeries
<1> HIDE DEF old
<1>3. own \in SUBSET (1 .. Len(obs)) /\ OwnIn(more, m.name, m.kind, fp) = own \cup {n + 1}
  BY OwnMore
<1> HIDE DEF own
<1>4. SeriesLike(r) /\ r.fp = fp /\ Counted(r, m.kind, more, own \cup {n + 1})
  <2>1. m.kind \in MetricKinds
    BY DEF MetricKnown
  <2> QED
    BY <1>2, <1>3, <2>1, RecordedCounts
<1> HIDE DEF r, more, fp
<1>5. o.name = m.name /\ o.kind = m.kind /\ DOMAIN o = DOMAIN m /\ o.series = (m.series \ same) \cup {r}
  BY DEF MetricKnown
<1> HIDE DEF o
<1>6. ASSUME NEW s \in o.series
      PROVE  /\ SeriesLike(s) /\ OwnIn(more, m.name, m.kind, s.fp) # {}
             /\ Counted(s, m.kind, more, OwnIn(more, m.name, m.kind, s.fp))
             /\ s # r => s.fp # fp /\ s \in m.series
  <2>1. CASE s = r
    BY <1>3, <1>4, <2>1
  <2>2. CASE s # r
    <3>1. s \in m.series /\ s.fp # fp
      BY <1>5, <2>2
    <3>2. /\ SeriesLike(s) /\ OwnIn(obs, m.name, m.kind, s.fp) # {}
          /\ Counted(s, m.kind, obs, OwnIn(obs, m.name, m.kind, s.fp))
      BY <3>1 DEF MetricKnown
    <3>3. /\ OwnIn(obs, m.name, m.kind, s.fp) \in SUBSET (1 .. Len(obs))
          /\ OwnIn(more, m.name, m.kind, s.fp) =
               OwnIn(obs, m.name, m.kind, s.fp) \cup
                 (IF new.name = m.name /\ new.kind = m.kind /\ Fingerprint(new.labels) = s.fp THEN {Len(obs) + 1} ELSE {})
      BY OwnMore DEF more
    <3>4. OwnIn(more, m.name, m.kind, s.fp) = OwnIn(obs, m.name, m.kind, s.fp)
      BY <3>1, <3>3 DEF fp
    <3>5. Counted(s, m.kind, more, OwnIn(obs, m.name, m.kind, s.fp))
      BY <3>2, <3>3, CountedBefore DEF more
    <3> QED
      BY <3>1, <3>2, <3>4, <3>5
  <2> QED
    BY <2>1, <2>2
<1>7. ASSUME NEW s \in o.series, NEW t \in o.series, s.fp = t.fp PROVE s = t
  <2>1. s # r /\ t # r => s = t
    BY <1>6, <1>7 DEF MetricKnown
  <2> QED
    BY <1>4, <1>6, <1>7, <2>1
<1>8. ASSUME NEW k \in DOMAIN more, more[k].name = m.name, more[k].kind = m.kind
      PROVE  \E s \in o.series : s.fp = Fingerprint(more[k].labels)
  <2>1. k \in 1 .. n \/ k = n + 1
    BY <1>1
  <2>2. CASE k = n + 1
    BY <1>1, <1>4, <1>5, <2>2 DEF fp
  <2>3. CASE k \in 1 .. n
    <3>1. k \in DOMAIN obs /\ more[k] = obs[k]
      BY <1>1, <2>3
    <3>2. PICK s \in m.series : s.fp = Fingerprint(more[k].labels)
      BY <1>8, <3>1 DEF MetricKnown
    <3> QED
      BY <1>4, <1>5, <3>2
  <2> QED
    BY <2>1, <2>2, <2>3
<1>9. UsesIn(more, m.name) # {} /\ m.kind = more[Min(UsesIn(more, m.name))].kind
  <2>1. UsesIn(more, m.name) = UsesIn(obs, m.name) \cup {n + 1}
    BY OwnMore DEF more
  <2>2. CASE UsesIn(obs, m.name) # {}
    BY <2>2, FirstStays DEF MetricKnown, more
  <2>3. CASE UsesIn(obs, m.name) = {}
    <3>1. UsesIn(more, m.name) = {n + 1} /\ n + 1 \in Int
      BY <1>1, <2>1, <2>3
    <3>2. Min({n + 1}) = n + 1
      <4> DEFINE v == n + 1
                 S == {v}
      <4>1. v \in S /\ S \subseteq Int /\ \A k \in S : v <= k
        BY <3>1
      <4> HIDE DEF S, v
      <4>2. Min(S) = v
        BY <4>1, MinIs
      <4> QED
        BY <4>2 DEF S, v
    <3> QED
      BY <1>1, <3>1, <3>2
  <2> QED
    BY <2>2, <2>3
<1>10. MetricHolds(o, more)
  <2>1. m.kind \in MetricKinds /\ DOMAIN m = {"name", "kind", "series"}
    BY DEF MetricKnown
  <2>2. \A s, t \in o.series : s.fp = t.fp => s = t
    BY <1>7
  <2>3. \A s \in o.series : /\ SeriesLike(s) /\ OwnIn(more, o.name, o.kind, s.fp) # {}
                            /\ Counted(s, o.kind, more, OwnIn(more, o.name, o.kind, s.fp))
    BY <1>5, <1>6
  <2>4. \A k \in DOMAIN more :
          more[k].name = o.name /\ more[k].kind = o.kind => \E s \in o.series : s.fp = Fingerprint(more[k].labels)
    BY <1>5, <1>8
  <2> QED
    BY <1>5, <1>9, <2>1, <2>2, <2>3, <2>4 DEF MetricHolds, MetricKnown
<1> QED
  BY <1>10 DEF o, r, old, same, fp, more

LEMMA RecordHolds ==
  ASSUME NEW reg, NEW obs, RegistryHolds(reg, obs), NEW new \in Records
  PROVE  LET known == { m \in reg : m.name = new.name }
             metric == IF known = {} THEN [name |-> new.name, kind |-> new.kind, series |-> {}]
                       ELSE CHOOSE m \in known : TRUE
             fp == Fingerprint(new.labels)
             same == { s \in metric.series : s.fp = fp }
             old == IF same = {} THEN Series(fp, new.labels) ELSE CHOOSE s \in same : TRUE
         IN  RegistryHolds(IF metric.kind # new.kind THEN reg
                           ELSE (reg \ known) \cup
                                {[metric EXCEPT !.series = (@ \ same) \cup {Recorded(old, new.kind, new.amount)}]},
                           Append(obs, new))
<1> DEFINE known == { m \in reg : m.name = new.name }
           fresh == [name |-> new.name, kind |-> new.kind, series |-> {}]
           metric == IF known = {} THEN fresh ELSE CHOOSE m \in known : TRUE
           fp == Fingerprint(new.labels)
           same == { s \in metric.series : s.fp = fp }
           old == IF same = {} THEN Series(fp, new.labels) ELSE CHOOSE s \in same : TRUE
           o == [metric EXCEPT !.series = (@ \ same) \cup {Recorded(old, new.kind, new.amount)}]
           more == Append(obs, new)
           n == Len(obs)
<1>1. obs \in Seq(Records)
  BY DEF RegistryHolds
<1>2. /\ n \in Nat /\ DOMAIN obs = 1 .. n /\ DOMAIN more = 1 .. n + 1 /\ more \in Seq(Records)
      /\ more[n + 1] = new /\ \A i \in 1 .. n : more[i] = obs[i]
  BY <1>1, RecordMore
<1>3. new.kind \in MetricKinds
  BY DEF Records
<1>4. MetricKnown(metric, obs) /\ metric.name = new.name /\ (known # {} => metric \in known)
  <2>1. CASE known # {}
    <3>1. metric \in known
      BY <2>1
    <3> HIDE DEF metric
    <3> QED
      BY <3>1 DEF RegistryHolds, MetricHolds
  <2>2. CASE known = {}
    <3>1. \A k \in DOMAIN obs : obs[k].name # new.name
      BY <2>2 DEF RegistryHolds
    <3>2. UsesIn(obs, new.name) = {}
      BY <3>1 DEF UsesIn
    <3>3. metric = fresh
      BY <2>2
    <3>4. /\ fresh.name = new.name /\ fresh.kind = new.kind /\ fresh.series = {}
          /\ DOMAIN fresh = {"name", "kind", "series"}
      OBVIOUS
    <3> HIDE DEF fresh, metric
    <3> QED
      BY <1>3, <2>2, <3>1, <3>2, <3>3, <3>4 DEF MetricKnown
  <2> QED
    BY <2>1, <2>2
<1> HIDE DEF metric, more
<1>5. ASSUME NEW m \in reg, m \notin known PROVE MetricHolds(m, more)
  <2>1. MetricHolds(m, obs) /\ new.name # m.name
    BY <1>5 DEF RegistryHolds
  <2> QED
    BY <1>1, <2>1, MetricBefore DEF more
<1>6. CASE metric.kind # new.kind
  <2>1. known # {}
    BY <1>6 DEF metric
  <2>2. ASSUME NEW m \in known PROVE MetricHolds(m, more)
    <3>1. m = metric /\ MetricHolds(m, obs)
      BY <1>4, <2>1 DEF RegistryHolds
    <3> QED
      BY <1>1, <1>6, <3>1, MetricBefore DEF more
  <2>3. \A m \in reg : MetricHolds(m, more)
    BY <1>5, <2>2
  <2>4. \A k \in DOMAIN more : \E m \in reg : m.name = more[k].name
    <3>1. \A k \in DOMAIN more : (k \in DOMAIN obs /\ more[k] = obs[k]) \/ more[k] = new
      BY <1>2
    <3> QED
      BY <1>4, <2>1, <3>1 DEF RegistryHolds
  <2>5. RegistryHolds(reg, more)
    BY <1>2, <2>3, <2>4 DEF RegistryHolds
  <2> QED
    BY <1>6, <2>5 DEF more, metric
<1>7. CASE metric.kind = new.kind
  <2>1. MetricHolds(o, more)
    BY <1>1, <1>4, <1>7, RecordedMetric DEF more
  <2>2. o.name = new.name
    BY <1>4 DEF MetricKnown
  <2> HIDE DEF o
  <2> DEFINE all == (reg \ known) \cup {o}
  <2>3. \A m \in all : MetricHolds(m, more)
    BY <1>5, <2>1
  <2>4. \A m, p \in all : m.name = p.name => m = p
    BY <2>2 DEF RegistryHolds
  <2>5. \A k \in DOMAIN more : \E m \in all : m.name = more[k].name
    <3>1. \A k \in DOMAIN more : (k \in DOMAIN obs /\ more[k] = obs[k]) \/ more[k] = new
      BY <1>2
    <3> QED
      BY <2>2, <3>1 DEF RegistryHolds
  <2>6. RegistryHolds(all, more)
    BY <1>2, <2>3, <2>4, <2>5 DEF RegistryHolds
  <2> QED
    BY <1>7, <2>6 DEF more, metric, o
<1> QED
  BY <1>6, <1>7

LEMMA InitMetrics == LimitsInit => MetricsInv
<1> SUFFICES ASSUME LimitsInit PROVE MetricsInv
  OBVIOUS
<1>1. registry = {} /\ observed = << >>
  BY DEF LimitsInit
<1> QED
  BY <1>1 DEF MetricsInv, RegistryHolds

LEMMA StepMetrics == MetricsInv /\ [BucketsNext \/ MetricsNext]_limitVars => MetricsInv'
<1> SUFFICES ASSUME MetricsInv, [BucketsNext \/ MetricsNext]_limitVars PROVE MetricsInv'
  OBVIOUS
<1>1. CASE UNCHANGED <<registry, observed>>
  BY <1>1 DEF MetricsInv
<1>2. CASE ResetMetrics
  <2>1. registry' = {} /\ observed' = << >>
    BY <1>2 DEF ResetMetrics
  <2> QED
    BY <2>1 DEF MetricsInv, RegistryHolds
<1>3. ASSUME NEW name \in MetricNames, NEW kind \in {"counter", "gauge", "histogram"}, NEW a \in Amounts, NEW l \in Labels,
             RecordMetric(name, kind, a, l)
      PROVE  MetricsInv'
  <2> DEFINE new == [name |-> name, kind |-> kind, amount |-> a, labels |-> l]
  <2>1. new \in Records
    BY DEF Records, MetricKinds
  <2>2. new.name = name /\ new.kind = kind /\ new.amount = a /\ new.labels = l
    OBVIOUS
  <2>3. observed' = Append(observed, new)
    BY <1>3 DEF RecordMetric
  <2> HIDE DEF new
  <2> DEFINE known == { m \in registry : m.name = new.name }
             metric == IF known = {} THEN [name |-> new.name, kind |-> new.kind, series |-> {}]
                       ELSE CHOOSE m \in known : TRUE
             fp == Fingerprint(new.labels)
             same == { s \in metric.series : s.fp = fp }
             old == IF same = {} THEN Series(fp, new.labels) ELSE CHOOSE s \in same : TRUE
             reg == IF metric.kind # new.kind THEN registry
                    ELSE (registry \ known) \cup
                         {[metric EXCEPT !.series = (@ \ same) \cup {Recorded(old, new.kind, new.amount)}]}
  <2>4. registry' = reg
    BY <1>3, <2>2 DEF RecordMetric
  <2>5. RegistryHolds(reg, Append(observed, new))
    BY <2>1, RecordHolds DEF MetricsInv
  <2> HIDE DEF reg
  <2> QED
    BY <2>3, <2>4, <2>5 DEF MetricsInv
<1>4. CASE BucketsNext
  BY <1>1, <1>4 DEF BucketsNext, LimitTick, Reset, Allow
<1>5. CASE MetricsNext
  BY <1>2, <1>3, <1>5 DEF MetricsNext
<1> QED
  BY <1>1, <1>4, <1>5 DEF limitVars

LEMMA MetricsCounted == MetricsInv => SeriesMatch
<1> SUFFICES ASSUME MetricsInv, NEW m \in registry
             PROVE  /\ m.kind = observed[Min(Uses(m.name))].kind
                    /\ \A s \in m.series : Shows(s, m.kind, Own(m, s.fp))
  BY DEF SeriesMatch
<1>1. MetricHolds(m, observed) /\ observed \in Seq(Records)
  BY DEF MetricsInv, RegistryHolds
<1>2. Uses(m.name) = UsesIn(observed, m.name)
  BY DEF Uses, UsesIn
<1>3. ASSUME NEW s \in m.series PROVE Shows(s, m.kind, Own(m, s.fp))
  <2> DEFINE own == OwnIn(observed, m.name, m.kind, s.fp)
  <2>1. Own(m, s.fp) = own
    BY DEF Own, Uses, OwnIn
  <2>2. own # {} /\ Counted(s, m.kind, observed, own) /\ m.kind \in MetricKinds
    BY <1>1 DEF MetricHolds, MetricKnown
  <2> HIDE DEF own
  <2>3. Total(own) = TotalIn(observed, own)
    BY DEF Total, TotalIn, Picked
  <2>4. DOMAIN Bounds = 1 .. Len(Bounds)
    BY LimitsAssumption
  <2>5. Shows(s, m.kind, own)
    <3>1. CASE m.kind = "counter"
      BY <2>2, <2>3, <3>1 DEF Shows, Counted
    <3>2. CASE m.kind = "gauge"
      BY <2>2, <3>2 DEF Shows, Counted
    <3>3. CASE m.kind = "histogram"
      <4>1. s.sum = TotalIn(observed, own) /\ s.value = Cardinality(own) /\ CountsHold(s.buckets, observed, own)
        BY <2>2, <3>3 DEF Counted
      <4> QED
        BY <2>3, <2>4, <3>3, <4>1 DEF Shows, CountsHold, UpTo, Cumulative
    <3> QED
      BY <2>2, <3>1, <3>2, <3>3 DEF MetricKinds
  <2> QED
    BY <2>1, <2>5
<1> QED
  BY <1>1, <1>2, <1>3 DEF MetricHolds, MetricKnown

\* A bucket grants a call exactly when the budget allows it, whatever calls, pauses
\* and resets came before, and a scrape shows of every series what was recorded
\* with its labels: allow, RateLimiter and the metrics registry keep their books.
THEOREM BooksAgree == LimitsSpec => []BooksMatchHistory
<1>1. LimitsInit => BucketsInv /\ MetricsInv
  BY InitBuckets, InitMetrics
<1>2. (BucketsInv /\ MetricsInv) /\ [BucketsNext \/ MetricsNext]_limitVars => (BucketsInv /\ MetricsInv)'
  BY StepBuckets, StepMetrics
<1>3. BucketsInv /\ MetricsInv => BooksMatchHistory
  BY BucketsGrounded, MetricsCounted DEF BooksMatchHistory
<1> QED
  BY <1>1, <1>2, <1>3, PTL DEF LimitsSpec

-----------------------------------------------------------------------------
(* The watched child *)

ChildStates == {"starting", "working", "killed", "ended"}
Children == [version : Nat, state : ChildStates]

\* Every child but the last has ended; so has the last when the next is started, and
\* the port is held by a last child that serves.
WatchInv ==
    /\ mode \in {"restart", "wait"}
    /\ watcher \in {"poll", "launch", "reap"} \/ (watcher = "kill" /\ mode = "restart")
    /\ disk \in Seq(Behaviours) /\ Len(disk) > 0
    /\ children \in Seq(Children)
    /\ \A c \in 1 .. Len(children) : c < Len(children) => children[c].state = "ended"
    /\ (watcher = "launch" \/ (watcher = "poll" /\ mode = "wait"))
          => \A c \in 1 .. Len(children) : children[c].state = "ended"
    /\ port # 0 => /\ mode = "restart" /\ port = Len(children) /\ Len(children) > 0
                   /\ children[port].state \in {"working", "killed"}
                   /\ children[port].version \in 1 .. Len(disk) /\ disk[children[port].version] = "serves"

LEMMA WatchInvNext == WatchInv' <=>
    /\ mode' \in {"restart", "wait"}
    /\ watcher' \in {"poll", "launch", "reap"} \/ (watcher' = "kill" /\ mode' = "restart")
    /\ disk' \in Seq(Behaviours) /\ Len(disk') > 0
    /\ children' \in Seq(Children)
    /\ \A c \in 1 .. Len(children') : c < Len(children') => children'[c].state = "ended"
    /\ (watcher' = "launch" \/ (watcher' = "poll" /\ mode' = "wait"))
          => \A c \in 1 .. Len(children') : children'[c].state = "ended"
    /\ port' # 0 => /\ mode' = "restart" /\ port' = Len(children') /\ Len(children') > 0
                    /\ children'[port'].state \in {"working", "killed"}
                    /\ children'[port'].version \in 1 .. Len(disk') /\ disk'[children'[port'].version] = "serves"
  BY DEF WatchInv

\* What a step of a child does to its record.
LEMMA ChildMoved ==
  ASSUME WatchInv, NEW c \in 1 .. Len(children), NEW child, child \in Children,
         children' = [children EXCEPT ![c] = child]
  PROVE  /\ children' \in Seq(Children) /\ Len(children') = Len(children)
         /\ children'[c] = child /\ \A d \in 1 .. Len(children) : d # c => children'[d] = children[d]
  BY DEF WatchInv

LEMMA StepWatch == WatchInv /\ [WatchNext]_watchVars => WatchInv'
<1> SUFFICES ASSUME WatchInv, [WatchNext]_watchVars PROVE WatchInv'
  OBVIOUS
<1>0. /\ Len(children) \in Nat /\ DOMAIN children = 1 .. Len(children)
      /\ Len(disk) \in Nat \ {0} /\ DOMAIN disk = 1 .. Len(disk)
      /\ \A c \in 1 .. Len(children) : children[c] \in Children
  BY DEF WatchInv
<1>1. CASE UNCHANGED watchVars
  BY <1>1 DEF WatchInv, watchVars
<1>2. ASSUME NEW b \in Behaviours, Save(b) PROVE WatchInv'
  <2>1. disk' = Append(disk, b) /\ UNCHANGED <<mode, seen, watcher, children, port>>
    BY <1>2 DEF Save
  <2>2. /\ disk' \in Seq(Behaviours) /\ Len(disk') = Len(disk) + 1
        /\ \A k \in 1 .. Len(disk) : k \in 1 .. Len(disk') /\ disk'[k] = disk[k]
    BY <1>0, <2>1 DEF WatchInv
  <2> QED
    BY <1>0, <2>1, <2>2, WatchInvNext DEF WatchInv
<1>3. CASE Poll
  BY <1>3, WatchInvNext DEF Poll, Goto, WatchInv
<1>4. CASE Kill
  <2>1. CASE Latest \notin Living
    <3>1. children' = children
      BY <1>4, <2>1 DEF Kill
    <3> QED
      BY <1>4, <3>1, WatchInvNext DEF Kill, Goto, WatchInv
  <2>2. CASE Latest \in Living
    <3> DEFINE l == Len(children)
               child == [children[l] EXCEPT !.state = "killed"]
    <3>1. l \in 1 .. Len(children)
      BY <1>0, <2>2 DEF Latest, Living
    <3>2. child \in Children /\ child.version = children[l].version /\ child.state = "killed"
      <4>1. children[l] \in Children
        BY <1>0, <3>1
      <4> QED
        BY <4>1 DEF Children, ChildStates
    <3>3. children' = [children EXCEPT ![l] = child]
      BY <1>4, <2>2 DEF Kill, Latest
    <3> HIDE DEF child
    <3>4. /\ children' \in Seq(Children) /\ Len(children') = Len(children)
          /\ children'[l] = child /\ \A d \in 1 .. Len(children) : d # l => children'[d] = children[d]
      BY <3>1, <3>2, <3>3, ChildMoved
    <3>5. watcher' = "reap" /\ UNCHANGED <<mode, disk, seen, port>>
      BY <1>4 DEF Kill, Goto
    <3>6. port # 0 => children'[port].state = "killed" /\ children'[port].version = children[port].version
      BY <3>2, <3>4 DEF WatchInv
    <3>7. mode = "restart"
      BY <1>4 DEF Kill, WatchInv
    <3>8. port' # 0 => /\ mode' = "restart" /\ port' = Len(children') /\ Len(children') > 0
                       /\ children'[port'].state \in {"working", "killed"}
                       /\ children'[port'].version \in 1 .. Len(disk') /\ disk'[children'[port'].version] = "serves"
      BY <3>4, <3>5, <3>6, <3>7 DEF WatchInv
    <3>9. \A d \in 1 .. Len(children') : d < Len(children') => children'[d].state = "ended"
      <4>1. l \in Nat
        BY <1>0
      <4>2. \A d \in 1 .. l : d < l => children[d].state = "ended" /\ d # l
        BY <4>1 DEF WatchInv
      <4> QED
        BY <3>4, <4>2
    <3> QED
      BY <3>4, <3>5, <3>7, <3>8, <3>9, WatchInvNext DEF WatchInv
  <2> QED
    BY <2>1, <2>2
<1>5. CASE Reap
  <2>1. UNCHANGED <<mode, disk, seen, children, port>> /\ watcher' \in {"launch", "poll"} /\ Latest \notin Living
    BY <1>5 DEF Reap, Goto
  <2>2. \A c \in 1 .. Len(children) : children[c].state = "ended"
    <3>1. \A c \in 1 .. Len(children) : c < Len(children) \/ c = Len(children)
      <4>1. Len(children) \in Nat
        BY <1>0
      <4> QED
        BY <4>1
    <3>2. ASSUME NEW c \in 1 .. Len(children), c = Len(children) PROVE children[c].state = "ended"
      <4>1. children[c].state \in ChildStates
        BY <1>0 DEF Children
      <4>2. children[c].state \notin {"starting", "working", "killed"}
        BY <1>0, <2>1, <3>2 DEF Latest, Living
      <4> QED
        BY <4>1, <4>2 DEF ChildStates
    <3> QED
      BY <3>1, <3>2 DEF WatchInv
  <2> QED
    BY <2>1, <2>2, WatchInvNext DEF WatchInv
<1>6. CASE Launch
  <2> DEFINE l == Len(children)
  <2>1. PICK state \in {"starting", "ended"} :
           /\ children' = Append(children, [version |-> 0, state |-> state])
           /\ watcher' \in {"poll", "reap"} /\ UNCHANGED <<mode, disk, seen, port>>
    BY <1>6 DEF Launch, Goto
  <2> DEFINE child == [version |-> 0, state |-> state]
  <2>2. child \in Children
    BY DEF Children, ChildStates
  <2>3. /\ children' \in Seq(Children) /\ Len(children') = l + 1
        /\ \A c \in 1 .. l : children'[c] = children[c]
    BY <2>1, <2>2 DEF WatchInv
  <2>4. \A c \in 1 .. l : children[c].state = "ended"
    BY <1>6 DEF Launch, WatchInv
  <2>5. port = 0
    BY <1>0, <2>4 DEF WatchInv
  <2>6. \A c \in 1 .. l + 1 : c < l + 1 => c \in 1 .. l
    BY <1>0
  <2>7. watcher' = "poll" => mode' = "restart"
    BY <1>6 DEF Launch, Goto
  <2>8. watcher' # "launch" /\ ~ (watcher' = "poll" /\ mode' = "wait")
    BY <2>1, <2>7
  <2> HIDE DEF child, l
  <2> QED
    BY <2>1, <2>3, <2>4, <2>5, <2>6, <2>8, WatchInvNext DEF WatchInv
<1>7. ASSUME NEW c \in DOMAIN children, Read(c) PROVE WatchInv'
  <2>1. children[c].state = "starting" /\ c \in 1 .. Len(children)
    BY <1>0, <1>7 DEF Read
  <2>2. c = Len(children) /\ port # c
    BY <1>0, <2>1 DEF WatchInv
  <2>3. port = 0
    BY <2>2 DEF WatchInv
  <2> DEFINE child == [version |-> Saved, state |-> "working"]
  <2>4. /\ children' = [children EXCEPT ![c] = child] /\ UNCHANGED <<mode, disk, seen, watcher>>
        /\ port' = 0 \/ (port' = c /\ mode = "restart" /\ disk[Saved] = "serves")
    BY <1>7, <2>3 DEF Read
  <2>5. child \in Children /\ child.version = Len(disk) /\ child.state = "working"
    BY <1>0 DEF Children, ChildStates, Saved
  <2> HIDE DEF child
  <2>6. /\ children' \in Seq(Children) /\ Len(children') = Len(children)
        /\ children'[c] = child /\ \A d \in 1 .. Len(children) : d # c => children'[d] = children[d]
    BY <2>1, <2>4, <2>5, ChildMoved
  <2>7. ~ (watcher = "launch" \/ (watcher = "poll" /\ mode = "wait"))
    BY <2>1 DEF WatchInv
  <2>8. port' # 0 => /\ mode = "restart" /\ port' = c /\ children'[port'].state = "working"
                     /\ children'[port'].version = Len(disk) /\ disk[Len(disk)] = "serves"
    BY <2>4, <2>5, <2>6 DEF Saved
  <2> QED
    BY <1>0, <2>1, <2>2, <2>4, <2>6, <2>7, <2>8, WatchInvNext DEF WatchInv
<1>8. ASSUME NEW c \in DOMAIN children, Ends(c) \/ Dies(c) PROVE WatchInv'
  <2>1. children[c].state \in {"working", "killed"} /\ c \in 1 .. Len(children)
    BY <1>0, <1>8 DEF Ends, Dies
  <2>2. c = Len(children)
    BY <1>0, <2>1 DEF WatchInv
  <2> DEFINE child == [children[c] EXCEPT !.state = "ended"]
  <2>3. children' = [children EXCEPT ![c] = child] /\ UNCHANGED <<mode, disk, seen, watcher>>
    BY <1>8 DEF Ends, Dies
  <2>4. child \in Children /\ child.state = "ended"
    <3>1. children[c] \in Children
      BY <1>0, <2>1
    <3> QED
      BY <3>1 DEF Children, ChildStates
  <2> HIDE DEF child
  <2>5. /\ children' \in Seq(Children) /\ Len(children') = Len(children)
        /\ children'[c] = child /\ \A d \in 1 .. Len(children) : d # c => children'[d] = children[d]
    BY <2>1, <2>3, <2>4, ChildMoved
  <2>6. port' = 0
    <3>1. CASE Dies(c)
      BY <2>2, <3>1 DEF Dies, WatchInv
    <3>2. CASE Ends(c)
      <4>1. port' = port
        BY <3>2 DEF Ends
      <4>2. disk[children[c].version] = "ends" \/ mode = "wait"
        BY <3>2 DEF Ends
      <4> QED
        BY <2>2, <4>1, <4>2 DEF WatchInv
    <3> QED
      BY <1>8, <3>1, <3>2
  <2>7. ~ (watcher = "launch" \/ (watcher = "poll" /\ mode = "wait"))
    BY <2>1 DEF WatchInv
  <2> QED
    BY <1>0, <2>1, <2>2, <2>3, <2>4, <2>5, <2>6, <2>7, WatchInvNext DEF WatchInv
<1> QED
  BY <1>1, <1>2, <1>3, <1>4, <1>5, <1>6, <1>7, <1>8 DEF WatchNext, WatcherStep, ChildStep

\* Whatever is saved and whenever, mx run --watch, mx watch and mx test --watch (main.go)
\* never have two children at once, and a new server finds the port free.
THEOREM OneChildLives == WatchSpec => []OneChild
<1>1. WatchInit => WatchInv
  <2> SUFFICES ASSUME WatchInit PROVE WatchInv
    OBVIOUS
  <2>1. PICK b \in Behaviours : disk = << b >>
    BY DEF WatchInit
  <2>2. disk \in Seq(Behaviours) /\ Len(disk) = 1
    BY <2>1
  <2> QED
    BY <2>2 DEF WatchInit, WatchInv
<1>2. WatchInv => OneChild
  <2> SUFFICES ASSUME WatchInv PROVE OneChild
    OBVIOUS
  <2>1. /\ Len(children) \in Nat /\ DOMAIN children = 1 .. Len(children)
        /\ \A c \in 1 .. Len(children) : children[c] \in Children
    BY DEF WatchInv
  <2>2. Living \in SUBSET {Len(children)}
    BY <2>1 DEF Living, WatchInv
  <2>3. Cardinality(Living) <= 1
    <3> DEFINE l == Len(children)
    <3>1. Living = {} \/ Living = {l}
      BY <2>2
    <3> HIDE DEF l
    <3>2. Cardinality({l}) = 1 /\ Cardinality({}) = 0
      BY FS_EmptySet, FS_Singleton
    <3> QED
      BY <3>1, <3>2
  <2>4. \A c \in DOMAIN children : children[c].state # "refused"
    BY <2>1 DEF Children, ChildStates
  <2> QED
    BY <2>3, <2>4 DEF OneChild
<1> QED
  BY <1>1, <1>2, StepWatch, PTL DEF WatchSpec

-----------------------------------------------------------------------------
(* The selected tests of a file: each once *)

Lists(q, K) ==
    /\ q \in Seq(Nat)
    /\ \A i, j \in 1 .. Len(q) : q[i] = q[j] => i = j
    /\ \A i \in 1 .. Len(q) : q[i] \in K
    /\ \A k \in K : \E i \in 1 .. Len(q) : q[i] = k

LEMMA ListsOneMore ==
  ASSUME NEW q, NEW K, Lists(q, K), NEW k \in Nat, k \notin K
  PROVE  Lists(Append(q, k), K \cup {k})
<1> DEFINE p == Append(q, k)
           l == Len(q)
<1>1. /\ l \in Nat /\ Len(p) = l + 1 /\ p \in Seq(Nat) /\ p[l + 1] = k
      /\ \A i \in 1 .. l : p[i] = q[i] /\ q[i] \in K
  BY DEF Lists
<1>2. \A i \in 1 .. l + 1 : i \in 1 .. l \/ i = l + 1
  BY <1>1
<1>3. \A i \in 1 .. l : i \in 1 .. l + 1
  BY <1>1
<1>4. l + 1 \in 1 .. l + 1
  BY <1>1
<1>5. \A i, j \in 1 .. l : q[i] = q[j] => i = j
  BY DEF Lists
<1>6. \A m \in K : \E i \in 1 .. l : q[i] = m
  BY DEF Lists
<1> HIDE DEF p, l
<1>7. \A i, j \in 1 .. l + 1 : p[i] = p[j] => i = j
  BY <1>1, <1>2, <1>5
<1>8. \A i \in 1 .. l + 1 : p[i] \in K \cup {k}
  BY <1>1, <1>2
<1>9. \A m \in K \cup {k} : \E i \in 1 .. l + 1 : p[i] = m
  BY <1>1, <1>3, <1>4, <1>6
<1>10. Lists(p, K \cup {k})
  BY <1>1, <1>7, <1>8, <1>9 DEF Lists
<1> QED
  BY <1>10 DEF p

LEMMA ListsJoined ==
  ASSUME NEW p, NEW q, NEW A, NEW B, Lists(p, A), Lists(q, B), A \cap B = {}
  PROVE  Lists(p \o q, A \cup B)
<1> DEFINE r == p \o q
           l == Len(p)
           m == Len(q)
<1>1. /\ l \in Nat /\ m \in Nat /\ Len(r) = l + m /\ r \in Seq(Nat)
      /\ \A i \in 1 .. l + m : r[i] = IF i <= l THEN p[i] ELSE q[i - l]
  BY DEF Lists
<1>2. \A i \in 1 .. l + m : IF i <= l THEN i \in 1 .. l ELSE i - l \in 1 .. m
  BY <1>1
<1>3. /\ \A i \in 1 .. l : i \in 1 .. l + m /\ i <= l
      /\ \A i \in 1 .. m : i + l \in 1 .. l + m /\ ~ (i + l <= l) /\ (i + l) - l = i
  BY <1>1
<1>4. /\ \A i, j \in 1 .. l : p[i] = p[j] => i = j
      /\ \A i \in 1 .. l : p[i] \in A
      /\ \A k \in A : \E i \in 1 .. l : p[i] = k
  BY DEF Lists
<1>5. /\ \A i, j \in 1 .. m : q[i] = q[j] => i = j
      /\ \A i \in 1 .. m : q[i] \in B
      /\ \A k \in B : \E i \in 1 .. m : q[i] = k
  BY DEF Lists
<1> HIDE DEF r, l, m
<1>6. ASSUME NEW i \in 1 .. l + m, NEW j \in 1 .. l + m, r[i] = r[j] PROVE i = j
  <2>1. CASE i <= l /\ j <= l
    BY <1>1, <1>2, <1>4, <1>6, <2>1
  <2>2. CASE ~ (i <= l) /\ ~ (j <= l)
    <3>1. i - l \in 1 .. m /\ j - l \in 1 .. m
      BY <1>2, <2>2
    <3>2. q[i - l] = q[j - l]
      BY <1>1, <1>6, <2>2
    <3>3. i - l = j - l
      BY <1>5, <3>1, <3>2
    <3> QED
      BY <1>1, <3>3
  <2>3. \A k \in 1 .. l + m : r[k] \in IF k <= l THEN A ELSE B
    BY <1>1, <1>2, <1>4, <1>5
  <2>4. (i <= l) <=> (j <= l)
    BY <1>6, <2>3
  <2> QED
    BY <2>1, <2>2, <2>4
<1>7. \A i \in 1 .. l + m : r[i] \in A \cup B
  BY <1>1, <1>2, <1>4, <1>5
<1>8. ASSUME NEW k \in A \cup B PROVE \E i \in 1 .. l + m : r[i] = k
  <2>1. CASE k \in A
    BY <1>1, <1>3, <1>4, <2>1
  <2>2. CASE k \in B
    <3>1. PICK i \in 1 .. m : q[i] = k
      BY <1>5, <2>2
    <3>2. r[i + l] = k /\ i + l \in 1 .. l + m
      BY <1>1, <1>3, <3>1
    <3> QED
      BY <3>2
  <2> QED
    BY <2>1, <2>2
<1>9. Lists(r, A \cup B)
  BY <1>1, <1>6, <1>7, <1>8 DEF Lists
<1> QED
  BY <1>9 DEF r

IsListing(g, K, n) ==
    g = [k \in 0 .. n |-> IF k = 0 THEN << >> ELSE IF k \in K THEN Append(g[k - 1], k) ELSE g[k - 1]]

LEMMA ListingExists ==
  ASSUME NEW K, NEW n \in Nat
  PROVE  \E g : IsListing(g, K, n)
<1> DEFINE S == { k \in 0 .. n : \E g : IsListing(g, K, k) }
<1>1. 0 \in S
  <2> DEFINE g == [k \in 0 .. 0 |-> << >>]
  <2>1. IsListing(g, K, 0)
    BY DEF IsListing
  <2> QED
    BY <2>1
<1>2. ASSUME NEW k \in 0 .. n, k \in S, k < n
      PROVE  k + 1 \in S
  <2>1. PICK f : IsListing(f, K, k)
    BY <1>2
  <2> DEFINE last == IF k + 1 \in K THEN Append(f[k], k + 1) ELSE f[k]
             g == [j \in 0 .. k + 1 |-> IF j = k + 1 THEN last ELSE f[j]]
  <2>2. k \in Nat /\ k + 1 # 0 /\ (k + 1) - 1 = k /\ k + 1 \in 0 .. n
    BY <1>2
  <2>3. \A j \in 0 .. k : f[j] = IF j = 0 THEN << >> ELSE IF j \in K THEN Append(f[j - 1], j) ELSE f[j - 1]
    BY <2>1 DEF IsListing
  <2>4. \A j \in 0 .. k : g[j] = f[j]
    BY <2>2
  <2>5. g[k + 1] = IF k + 1 \in K THEN Append(g[k], k + 1) ELSE g[k]
    BY <2>2
  <2>6. ASSUME NEW j \in 0 .. k + 1
        PROVE  g[j] = IF j = 0 THEN << >> ELSE IF j \in K THEN Append(g[j - 1], j) ELSE g[j - 1]
    <3>1. CASE j = k + 1
      <4> HIDE DEF g
      <4> QED
        BY <2>2, <2>5, <3>1
    <3>2. CASE j # k + 1
      <4>1. j \in 0 .. k /\ (j # 0 => j - 1 \in 0 .. k)
        BY <2>2, <3>2
      <4> HIDE DEF g
      <4> QED
        BY <2>3, <2>4, <4>1
    <3> QED
      BY <3>1, <3>2
  <2>7. DOMAIN g = 0 .. k + 1 /\ g = [j \in 0 .. k + 1 |-> g[j]]
    OBVIOUS
  <2> HIDE DEF g
  <2>8. g = [j \in 0 .. k + 1 |-> IF j = 0 THEN << >> ELSE IF j \in K THEN Append(g[j - 1], j) ELSE g[j - 1]]
    BY <2>6, <2>7
  <2>9. IsListing(g, K, k + 1)
    BY <2>8 DEF IsListing
  <2> QED
    BY <2>2, <2>9
<1> HIDE DEF S
<1>3. n \in S
  BY <1>1, <1>2, Climb
<1> QED
  BY <1>3 DEF S

LEMMA ListingLists ==
  ASSUME NEW g, NEW K, NEW n \in Nat, IsListing(g, K, n)
  PROVE  Lists(g[n], K \cap (1 .. n))
<1> DEFINE S == { k \in 0 .. n : Lists(g[k], K \cap (1 .. k)) }
<1>1. 0 \in S
  <2>1. g[0] = << >> /\ K \cap (1 .. 0) = {}
    BY DEF IsListing
  <2>2. Lists(<< >>, {})
    BY DEF Lists
  <2> QED
    BY <2>1, <2>2
<1>2. ASSUME NEW k \in 0 .. n, k \in S, k < n PROVE k + 1 \in S
  <2>1. k \in Nat /\ k + 1 # 0 /\ (k + 1) - 1 = k /\ k + 1 \in 0 .. n
    BY <1>2
  <2>2. g[k + 1] = IF k + 1 \in K THEN Append(g[k], k + 1) ELSE g[k]
    BY <2>1 DEF IsListing
  <2>3. Lists(g[k], K \cap (1 .. k))
    BY <1>2
  <2>4. 1 .. k + 1 = (1 .. k) \cup {k + 1} /\ k + 1 \notin 1 .. k
    BY <2>1
  <2>5. CASE k + 1 \in K
    <3>1. K \cap (1 .. k + 1) = (K \cap (1 .. k)) \cup {k + 1}
      BY <2>4, <2>5
    <3>2. Lists(Append(g[k], k + 1), (K \cap (1 .. k)) \cup {k + 1})
      <4> DEFINE m == k + 1
                 L == K \cap (1 .. k)
      <4>1. m \in Nat /\ m \notin L /\ Lists(g[k], L)
        BY <2>1, <2>3, <2>4
      <4> HIDE DEF m, L
      <4>2. Lists(Append(g[k], m), L \cup {m})
        BY <4>1, ListsOneMore
      <4> QED
        BY <4>2 DEF m, L
    <3> QED
      BY <2>1, <2>2, <2>5, <3>1, <3>2
  <2>6. CASE k + 1 \notin K
    <3>1. K \cap (1 .. k + 1) = K \cap (1 .. k)
      BY <2>4, <2>6
    <3> QED
      BY <2>1, <2>2, <2>3, <2>6, <3>1
  <2> QED
    BY <2>5, <2>6
<1> HIDE DEF S
<1>3. n \in S
  BY <1>1, <1>2, Climb
<1> QED
  BY <1>3 DEF S

\* Pretty and Selected, of a filter.
SelectedBy(flt, d) ==
    \/ d.form = "fn" /\ HasPrefix(d.name) /\ (flt = << >> \/ HasPart(d.name, flt) \/ HasPart(Pretty(d.name), flt))
    \/ d.form = "test" /\ (flt = << >> \/ HasPart(d.name, flt))

Chosen(flt, file) == { k \in DOMAIN file.decls : SelectedBy(flt, file.decls[k]) }

LEMMA DiscoveredLists ==
  ASSUME NEW file \in TestFiles
  PROVE  Lists(Discovered(file), Chosen(filter, file))
<1> DEFINE n == Len(file.decls)
           K(form) == { k \in 1 .. n : file.decls[k].form = form /\ Selected(file.decls[k]) }
<1>1. n \in Nat /\ DOMAIN file.decls = 1 .. n
  BY DEF TestFiles
<1>2. ASSUME NEW form PROVE Lists(NumbersOf(file, form), K(form))
  <2>1. \E g : IsListing(g, K(form), n)
    BY <1>1, ListingExists
  <2>2. \A k \in 0 .. n : k # 0 => (k \in K(form) <=> file.decls[k].form = form /\ Selected(file.decls[k]))
    BY <1>1
  <2>3. \A g : IsListing(g, K(form), n) <=>
          g = [k \in 0 .. n |-> IF k = 0 THEN << >>
                                ELSE IF file.decls[k].form = form /\ Selected(file.decls[k]) THEN Append(g[k - 1], k)
                                ELSE g[k - 1]]
    <3> HIDE DEF K
    <3> QED
      BY <2>2 DEF IsListing
  <2> DEFINE g == CHOOSE g : IsListing(g, K(form), n)
  <2>4. NumbersOf(file, form) = g[n]
    BY <2>3 DEF NumbersOf
  <2>5. IsListing(g, K(form), n)
    BY <2>1
  <2> HIDE DEF g, K
  <2>6. Lists(g[n], K(form) \cap (1 .. n))
    BY <1>1, <2>5, ListingLists
  <2>7. K(form) \cap (1 .. n) = K(form)
    BY DEF K
  <2> QED
    BY <2>4, <2>6, <2>7
<1>3. K("fn") \cap K("test") = {}
  OBVIOUS
<1>4. Chosen(filter, file) = K("fn") \cup K("test")
  BY <1>1 DEF Chosen, SelectedBy, Selected
<1> HIDE DEF K
<1> QED
  BY <1>2, <1>3, <1>4, ListsJoined DEF Discovered

(* The queue, the verdicts, the tallies and the lines of a run *)

TestReports == [file : Nat, decl : Nat, status : {"pass", "fail"}]

RunsIn(s, r) ==
    LET decls == s[r.file].decls
    IN  IF decls[r.decl].form = "test" THEN decls[r.decl]
        ELSE decls[Max({ k \in DOMAIN decls : decls[k].form = "fn" /\ decls[k].name = decls[r.decl].name })]
AloneIn(s, r) == IF s[r.file].loads = "throws" THEN "fail" ELSE Verdict(RunsIn(s, r).body, 1, 1)
Registers(s, r) == RunsIn(s, r).body = "registers"

IsReport(s, flt, n, r) ==
    r \in TestReports /\ r.file \in 1 .. n /\ s[r.file].loads # "broken" /\ r.decl \in Chosen(flt, s[r.file])

\* The tests to run are those selected and not reported, each once.
QueueHolds(s, flt, n, td, rp) ==
    /\ rp \in Seq(TestReports)
    /\ \A k \in 1 .. Len(rp) : IsReport(s, flt, n, rp[k])
    /\ \A j, k \in 1 .. Len(rp) : rp[j].file = rp[k].file /\ rp[j].decl = rp[k].decl => j = k
    /\ td \in Seq(Nat)
    /\ \A i, j \in 1 .. Len(td) : td[i] = td[j] => i = j
    /\ td # << >> => n >= 1 /\ s[n].loads # "broken"
    /\ \A j \in 1 .. Len(td) : /\ td[j] \in Chosen(flt, s[n])
                               /\ \A k \in 1 .. Len(rp) : ~ (rp[k].file = n /\ rp[k].decl = td[j])
    /\ \A f \in 1 .. n : s[f].loads # "broken" =>
          \A d \in Chosen(flt, s[f]) :
             \/ \E k \in 1 .. Len(rp) : rp[k].file = f /\ rp[k].decl = d
             \/ f = n /\ \E j \in 1 .. Len(td) : td[j] = d

VerdictsHold(s, rp, pr) ==
    /\ pr \in Nat
    /\ pr > 0 => \E k \in 1 .. Len(rp) : Registers(s, rp[k])
    /\ \A k \in 1 .. Len(rp) :
          rp[k].status = AloneIn(s, rp[k]) \/ (Registers(s, rp[k]) /\ \E j \in 1 .. k - 1 : Registers(s, rp[j]))

BrokenTo(s, n) == { f \in 1 .. n : s[f].loads = "broken" }
TalliesHold(s, n, rp, pa, fa) ==
    /\ pa \in Nat /\ fa \in Nat /\ pa + fa = Len(rp) + Cardinality(BrokenTo(s, n))
    /\ fa > 0 <=> (BrokenTo(s, n) # {} \/ \E k \in 1 .. Len(rp) : rp[k].status = "fail")

ReportsOf(rp, n) == { k \in 1 .. Len(rp) : rp[k].file = n }
LinesOf(s, n, rp) == IF s[n].loads = "throws" THEN {} ELSE UNION { RunsIn(s, rp[k]).lines : k \in ReportsOf(rp, n) }
LinesHold(s, n, loaded, cd, rp) ==
    n > 0 => cd = (IF ReportsOf(rp, n) = {} /\ ~ loaded THEN {} ELSE {0}) \cup LinesOf(s, n, rp)

TestInv ==
    /\ suite \in Seq(TestFiles) /\ fileNo \in 0 .. Len(suite)
    /\ QueueHolds(suite, filter, fileNo, todo, reports)
    /\ VerdictsHold(suite, reports, process)
    /\ TalliesHold(suite, fileNo, reports, passed, failed)
    /\ cover => LinesHold(suite, fileNo, interp.loaded, covered, reports)
    /\ interp \in [counter : Nat, lines : SUBSET Nat, loaded : BOOLEAN]
    /\ interp.loaded => todo # << >> /\ File.loads # "throws" /\ interp.counter = 0
    /\ exit # "running" => todo = << >> /\ fileNo = Len(suite) /\ exit = (IF failed > 0 THEN "1" ELSE "0")

LEMMA ReportMore ==
  ASSUME NEW rp \in Seq(TestReports), NEW r \in TestReports
  PROVE  LET m == Len(rp)
             more == Append(rp, r)
         IN  /\ m \in Nat /\ more \in Seq(TestReports) /\ Len(more) = m + 1 /\ more[m + 1] = r
             /\ \A k \in 1 .. m : more[k] = rp[k] /\ k \in 1 .. m + 1 /\ k # m + 1 /\ rp[k] \in TestReports
             /\ \A k \in 1 .. m + 1 : k \in 1 .. m \/ k = m + 1
             /\ m + 1 \in 1 .. m + 1
  OBVIOUS

LEMMA QueueOpened ==
  ASSUME NEW s \in Seq(TestFiles), NEW flt, NEW n \in Nat, NEW rp, QueueHolds(s, flt, n, << >>, rp), NEW td,
         IF s[n + 1].loads = "broken" THEN td = << >> ELSE Lists(td, Chosen(flt, s[n + 1]))
  PROVE  QueueHolds(s, flt, n + 1, td, rp)
<1>1. /\ rp \in Seq(TestReports)
      /\ \A k \in 1 .. Len(rp) : IsReport(s, flt, n, rp[k])
      /\ \A j, k \in 1 .. Len(rp) : rp[j].file = rp[k].file /\ rp[j].decl = rp[k].decl => j = k
      /\ \A f \in 1 .. n : s[f].loads # "broken" =>
            \A d \in Chosen(flt, s[f]) : \E k \in 1 .. Len(rp) : rp[k].file = f /\ rp[k].decl = d
  BY DEF QueueHolds
<1>2. \A f \in 1 .. n + 1 : f \in 1 .. n \/ f = n + 1
  OBVIOUS
<1>3. \A f \in 1 .. n : f \in 1 .. n + 1 /\ f # n + 1
  OBVIOUS
<1>4. \A k \in 1 .. Len(rp) : IsReport(s, flt, n + 1, rp[k]) /\ rp[k].file # n + 1
  BY <1>1, <1>3 DEF IsReport
<1>5. /\ td \in Seq(Nat)
      /\ \A i, j \in 1 .. Len(td) : td[i] = td[j] => i = j
      /\ td # << >> => s[n + 1].loads # "broken"
      /\ \A j \in 1 .. Len(td) : td[j] \in Chosen(flt, s[n + 1])
      /\ s[n + 1].loads # "broken" => \A d \in Chosen(flt, s[n + 1]) : \E j \in 1 .. Len(td) : td[j] = d
  <2>1. CASE s[n + 1].loads = "broken"
    <3>1. td = << >>
      BY <2>1
    <3>2. td \in Seq(Nat) /\ Len(td) = 0
      BY <3>1
    <3> QED
      BY <2>1, <3>1, <3>2
  <2>2. CASE s[n + 1].loads # "broken"
    <3>1. Lists(td, Chosen(flt, s[n + 1]))
      BY <2>2
    <3> HIDE DEF Chosen
    <3> QED
      BY <2>2, <3>1 DEF Lists
  <2> QED
    BY <2>1, <2>2
<1>6. n + 1 >= 1
  OBVIOUS
<1>7. \A f \in 1 .. n + 1 : s[f].loads # "broken" =>
         \A d \in Chosen(flt, s[f]) :
            \/ \E k \in 1 .. Len(rp) : rp[k].file = f /\ rp[k].decl = d
            \/ f = n + 1 /\ \E j \in 1 .. Len(td) : td[j] = d
  <2> SUFFICES ASSUME NEW f \in 1 .. n + 1, s[f].loads # "broken", NEW d \in Chosen(flt, s[f])
               PROVE  \/ \E k \in 1 .. Len(rp) : rp[k].file = f /\ rp[k].decl = d
                      \/ f = n + 1 /\ \E j \in 1 .. Len(td) : td[j] = d
    OBVIOUS
  <2>1. CASE f \in 1 .. n
    BY <1>1, <2>1
  <2>2. CASE f = n + 1
    <3>1. \E j \in 1 .. Len(td) : td[j] = d
      BY <1>5, <2>2
    <3> QED
      BY <2>2, <3>1
  <2> QED
    BY <1>2, <2>1, <2>2
<1> QED
  BY <1>1, <1>4, <1>5, <1>6, <1>7 DEF QueueHolds

LEMMA QueueReported ==
  ASSUME NEW s \in Seq(TestFiles), NEW flt, NEW n \in Nat, NEW rp, NEW td, QueueHolds(s, flt, n, td, rp), td # << >>,
         NEW r, r \in TestReports, r.file = n, r.decl = Head(td)
  PROVE  IsReport(s, flt, n, r) /\ QueueHolds(s, flt, n, Tail(td), Append(rp, r))
<1> DEFINE m == Len(rp)
           l == Len(td)
           more == Append(rp, r)
           rest == Tail(td)
<1>1. rp \in Seq(TestReports) /\ td \in Seq(Nat)
  BY DEF QueueHolds
<1>2. /\ m \in Nat /\ more \in Seq(TestReports) /\ Len(more) = m + 1 /\ more[m + 1] = r
      /\ \A k \in 1 .. m : more[k] = rp[k] /\ k \in 1 .. m + 1 /\ k # m + 1
      /\ \A k \in 1 .. m + 1 : k \in 1 .. m \/ k = m + 1
      /\ m + 1 \in 1 .. m + 1
  BY <1>1, ReportMore
<1>3. /\ l \in Nat \ {0} /\ Head(td) = td[1] /\ rest \in Seq(Nat) /\ Len(rest) = l - 1
      /\ \A j \in 1 .. l - 1 : rest[j] = td[j + 1]
  BY <1>1
<1>4. /\ 1 \in 1 .. l /\ \A j \in 1 .. l - 1 : j + 1 \in 1 .. l /\ j + 1 # 1 /\ j \in Int
      /\ \A j \in 1 .. l : j # 1 => j - 1 \in 1 .. l - 1 /\ (j - 1) + 1 = j
  BY <1>3
<1> HIDE DEF more, rest, m, l
<1>5. /\ td[1] \in Chosen(flt, s[n]) /\ n >= 1 /\ s[n].loads # "broken"
      /\ \A k \in 1 .. m : ~ (rp[k].file = n /\ rp[k].decl = td[1])
  BY <1>4 DEF QueueHolds, l, m
<1>6. IsReport(s, flt, n, r)
  BY <1>3, <1>5 DEF IsReport
<1>7. \A k \in 1 .. m + 1 : IsReport(s, flt, n, more[k])
  BY <1>2, <1>6 DEF QueueHolds, m
<1>8. \A j, k \in 1 .. m + 1 : more[j].file = more[k].file /\ more[j].decl = more[k].decl => j = k
  <2>1. \A j, k \in 1 .. m : rp[j].file = rp[k].file /\ rp[j].decl = rp[k].decl => j = k
    BY DEF QueueHolds, m
  <2>2. \A k \in 1 .. m : ~ (more[k].file = more[m + 1].file /\ more[k].decl = more[m + 1].decl)
    BY <1>2, <1>3, <1>5
  <2> SUFFICES ASSUME NEW j \in 1 .. m + 1, NEW k \in 1 .. m + 1, more[j].file = more[k].file, more[j].decl = more[k].decl
               PROVE  j = k
    OBVIOUS
  <2>3. CASE j \in 1 .. m /\ k \in 1 .. m
    BY <1>2, <2>1, <2>3
  <2>4. j \in 1 .. m => k # m + 1
    BY <2>2
  <2>5. k \in 1 .. m => j # m + 1
    BY <2>2
  <2> QED
    BY <1>2, <2>3, <2>4, <2>5
<1>9. \A i, j \in 1 .. l - 1 : rest[i] = rest[j] => i = j
  <2>1. \A i, j \in 1 .. l : td[i] = td[j] => i = j
    BY DEF QueueHolds, l
  <2> SUFFICES ASSUME NEW i \in 1 .. l - 1, NEW j \in 1 .. l - 1, rest[i] = rest[j] PROVE i = j
    OBVIOUS
  <2>2. td[i + 1] = td[j + 1] /\ i + 1 \in 1 .. l /\ j + 1 \in 1 .. l
    BY <1>3, <1>4
  <2>3. i + 1 = j + 1
    BY <2>1, <2>2
  <2> QED
    BY <1>4, <2>3
<1>10. \A j \in 1 .. l - 1 : /\ rest[j] \in Chosen(flt, s[n])
                             /\ \A k \in 1 .. m + 1 : ~ (more[k].file = n /\ more[k].decl = rest[j])
  <2>1. /\ \A i, j \in 1 .. l : td[i] = td[j] => i = j
        /\ \A j \in 1 .. l : /\ td[j] \in Chosen(flt, s[n])
                             /\ \A k \in 1 .. m : ~ (rp[k].file = n /\ rp[k].decl = td[j])
    BY DEF QueueHolds, l, m
  <2> SUFFICES ASSUME NEW j \in 1 .. l - 1
               PROVE  /\ rest[j] \in Chosen(flt, s[n])
                      /\ \A k \in 1 .. m + 1 : ~ (more[k].file = n /\ more[k].decl = rest[j])
    OBVIOUS
  <2>2. rest[j] = td[j + 1] /\ j + 1 \in 1 .. l /\ td[j + 1] # td[1]
    <3>1. rest[j] = td[j + 1] /\ j + 1 \in 1 .. l /\ j + 1 # 1 /\ 1 \in 1 .. l
      BY <1>3, <1>4
    <3> QED
      BY <2>1, <3>1
  <2>3. rest[j] \in Chosen(flt, s[n])
    BY <2>1, <2>2
  <2>4. ASSUME NEW k \in 1 .. m + 1 PROVE ~ (more[k].file = n /\ more[k].decl = rest[j])
    <3>1. CASE k \in 1 .. m
      BY <1>2, <2>1, <2>2, <3>1
    <3>2. CASE k = m + 1
      BY <1>2, <1>3, <2>2, <3>2
    <3> QED
      BY <1>2, <3>1, <3>2
  <2> QED
    BY <2>3, <2>4
<1>11. ASSUME NEW f \in 1 .. n, s[f].loads # "broken", NEW d \in Chosen(flt, s[f])
       PROVE  \/ \E k \in 1 .. m + 1 : more[k].file = f /\ more[k].decl = d
              \/ f = n /\ \E j \in 1 .. l - 1 : rest[j] = d
  <2>1. \/ \E k \in 1 .. m : rp[k].file = f /\ rp[k].decl = d
        \/ f = n /\ \E j \in 1 .. l : td[j] = d
    BY <1>11 DEF QueueHolds, l, m
  <2>2. CASE \E k \in 1 .. m : rp[k].file = f /\ rp[k].decl = d
    BY <1>2, <2>2
  <2>3. ASSUME f = n, NEW j \in 1 .. l, td[j] = d
        PROVE  \/ \E k \in 1 .. m + 1 : more[k].file = f /\ more[k].decl = d
               \/ f = n /\ \E i \in 1 .. l - 1 : rest[i] = d
    <3>1. CASE j = 1
      BY <1>2, <1>3, <2>3, <3>1
    <3>2. CASE j # 1
      <4>1. j - 1 \in 1 .. l - 1 /\ rest[j - 1] = d
        BY <1>3, <1>4, <2>3, <3>2
      <4> QED
        BY <2>3, <4>1
    <3> QED
      BY <3>1, <3>2
  <2> QED
    BY <2>1, <2>2, <2>3
<1>12. QueueHolds(s, flt, n, rest, more)
  BY <1>2, <1>3, <1>5, <1>7, <1>8, <1>9, <1>10, <1>11 DEF QueueHolds
<1> QED
  BY <1>6, <1>12 DEF rest, more

LEMMA RunsBody ==
  ASSUME NEW s \in Seq(TestFiles), NEW flt, NEW n \in 0 .. Len(s), NEW r, IsReport(s, flt, n, r)
  PROVE  RunsIn(s, r).body \in TestBodies
<1> DEFINE decls == s[r.file].decls
           S == { k \in DOMAIN decls : decls[k].form = "fn" /\ decls[k].name = decls[r.decl].name }
<1>1. r.file \in 1 .. Len(s) /\ r.decl \in DOMAIN decls
  BY DEF IsReport, Chosen
<1>2. s[r.file] \in TestFiles
  BY <1>1
<1>3. decls \in Seq(Declarations)
  BY <1>2 DEF TestFiles
<1>4. decls[r.decl].form \in {"fn", "test"} /\ \A k \in DOMAIN decls : decls[k].body \in TestBodies
  <2>1. \A k \in DOMAIN decls : decls[k] \in Declarations
    BY <1>3
  <2> HIDE DEF decls
  <2> QED
    BY <1>1, <2>1 DEF Declarations
<1>5. CASE decls[r.decl].form = "test"
  BY <1>1, <1>4, <1>5 DEF RunsIn
<1>6. CASE decls[r.decl].form = "fn"
  <2>1. r.decl \in S /\ S \in SUBSET (1 .. Len(decls)) /\ Len(decls) \in Nat
    BY <1>1, <1>3, <1>6
  <2>2. Max(S) \in S
    BY <2>1, LastPlace
  <2> QED
    BY <1>4, <1>6, <2>2 DEF RunsIn
<1> QED
  BY <1>4, <1>5, <1>6

LEMMA VerdictsReported ==
  ASSUME NEW s, NEW rp \in Seq(TestReports), NEW pr, VerdictsHold(s, rp, pr), NEW r \in TestReports,
         r.status = AloneIn(s, r) \/ (Registers(s, r) /\ pr > 0),
         NEW pq \in Nat, pq > pr => Registers(s, r)
  PROVE  VerdictsHold(s, Append(rp, r), pq)
<1> DEFINE m == Len(rp)
           more == Append(rp, r)
<1>1. /\ m \in Nat /\ more \in Seq(TestReports) /\ Len(more) = m + 1 /\ more[m + 1] = r
      /\ \A k \in 1 .. m : more[k] = rp[k] /\ k \in 1 .. m + 1 /\ k # m + 1
      /\ \A k \in 1 .. m + 1 : k \in 1 .. m \/ k = m + 1
      /\ m + 1 \in 1 .. m + 1
  BY ReportMore
<1> HIDE DEF more, m
<1>2. /\ pr \in Nat
      /\ pr > 0 => \E k \in 1 .. m : Registers(s, rp[k])
      /\ \A k \in 1 .. m :
            rp[k].status = AloneIn(s, rp[k]) \/ (Registers(s, rp[k]) /\ \E j \in 1 .. k - 1 : Registers(s, rp[j]))
  BY DEF VerdictsHold, m
<1>3. pq > 0 => \E k \in 1 .. m + 1 : Registers(s, more[k])
  <2>1. pq > 0 => pr > 0 \/ pq > pr
    BY <1>2
  <2> QED
    BY <1>1, <1>2, <2>1
<1>4. ASSUME NEW k \in 1 .. m + 1
      PROVE  more[k].status = AloneIn(s, more[k]) \/ (Registers(s, more[k]) /\ \E j \in 1 .. k - 1 : Registers(s, more[j]))
  <2>1. CASE k = m + 1
    <3>1. (m + 1) - 1 = m
      BY <1>1
    <3> QED
      BY <1>1, <1>2, <2>1, <3>1
  <2>2. CASE k # m + 1
    <3>1. k \in 1 .. m /\ \A j \in 1 .. k - 1 : j \in 1 .. m
      BY <1>1, <2>2
    <3> QED
      BY <1>1, <1>2, <3>1
  <2> QED
    BY <2>1, <2>2
<1>5. VerdictsHold(s, more, pq)
  BY <1>1, <1>3, <1>4 DEF VerdictsHold
<1> QED
  BY <1>5 DEF more

LEMMA TalliesReported ==
  ASSUME NEW s, NEW n \in Nat, NEW rp \in Seq(TestReports), NEW pa, NEW fa, TalliesHold(s, n, rp, pa, fa),
         NEW r \in TestReports
  PROVE  TalliesHold(s, n, Append(rp, r), IF r.status = "pass" THEN pa + 1 ELSE pa, IF r.status = "pass" THEN fa ELSE fa + 1)
<1> DEFINE m == Len(rp)
           more == Append(rp, r)
           c == Cardinality(BrokenTo(s, n))
<1>1. /\ m \in Nat /\ more \in Seq(TestReports) /\ Len(more) = m + 1 /\ more[m + 1] = r
      /\ \A k \in 1 .. m : more[k] = rp[k] /\ k \in 1 .. m + 1 /\ k # m + 1
      /\ \A k \in 1 .. m + 1 : k \in 1 .. m \/ k = m + 1
      /\ m + 1 \in 1 .. m + 1
  BY ReportMore
<1>2. r.status \in {"pass", "fail"}
  BY DEF TestReports
<1>3. c \in Nat
  BY Places DEF BrokenTo
<1>4. /\ pa \in Nat /\ fa \in Nat /\ pa + fa = m + c
      /\ fa > 0 <=> (BrokenTo(s, n) # {} \/ \E k \in 1 .. m : rp[k].status = "fail")
  BY DEF TalliesHold
<1> HIDE DEF more, m, c
<1>5. (\E k \in 1 .. m + 1 : more[k].status = "fail") <=> (r.status = "fail" \/ \E k \in 1 .. m : rp[k].status = "fail")
  BY <1>1
<1>6. CASE r.status = "pass"
  <2>1. pa + 1 \in Nat /\ (pa + 1) + fa = (m + 1) + c
    <3>1. pa \in Nat /\ fa \in Nat /\ pa + fa = m + c /\ m \in Nat
      BY <1>1, <1>4
    <3> QED
      BY <1>3, <3>1
  <2> QED
    BY <1>1, <1>4, <1>5, <1>6, <2>1 DEF TalliesHold, c, more
<1>7. CASE r.status = "fail"
  <2>1. fa + 1 \in Nat /\ pa + (fa + 1) = (m + 1) + c /\ fa + 1 > 0
    <3>1. pa \in Nat /\ fa \in Nat /\ pa + fa = m + c /\ m \in Nat
      BY <1>1, <1>4
    <3> QED
      BY <1>3, <3>1
  <2> QED
    BY <1>1, <1>4, <1>5, <1>7, <2>1 DEF TalliesHold, c, more
<1> QED
  BY <1>2, <1>6, <1>7

LEMMA LinesReported ==
  ASSUME NEW s, NEW n \in Nat, NEW rp \in Seq(TestReports), NEW r \in TestReports, r.file = n,
         NEW cd, LinesHold(s, n, TRUE, cd, rp) \/ (ReportsOf(rp, n) # {} /\ LinesHold(s, n, FALSE, cd, rp))
  PROVE  LinesHold(s, n, FALSE, IF s[n].loads = "throws" THEN cd ELSE cd \cup RunsIn(s, r).lines, Append(rp, r))
<1> DEFINE m == Len(rp)
           more == Append(rp, r)
           own == ReportsOf(rp, n)
<1>1. /\ m \in Nat /\ more \in Seq(TestReports) /\ Len(more) = m + 1 /\ more[m + 1] = r
      /\ \A k \in 1 .. m : more[k] = rp[k] /\ k \in 1 .. m + 1 /\ k # m + 1
      /\ \A k \in 1 .. m + 1 : k \in 1 .. m \/ k = m + 1
      /\ m + 1 \in 1 .. m + 1
  BY ReportMore
<1>2. cd = {0} \cup LinesOf(s, n, rp) \/ ~ (n > 0)
  BY DEF LinesHold
<1> HIDE DEF more
<1>3. ReportsOf(more, n) = own \cup {m + 1} /\ own \in SUBSET (1 .. m)
  BY <1>1 DEF ReportsOf
<1>4. LinesOf(s, n, more) = IF s[n].loads = "throws" THEN {} ELSE LinesOf(s, n, rp) \cup RunsIn(s, r).lines
  <2>1. CASE s[n].loads = "throws"
    BY <2>1 DEF LinesOf
  <2>2. CASE s[n].loads # "throws"
    <3>1. \A k \in own : more[k] = rp[k]
      BY <1>1, <1>3
    <3> HIDE DEF own, m
    <3>2. LinesOf(s, n, more) = UNION { RunsIn(s, more[k]).lines : k \in own \cup {m + 1} }
      BY <1>3, <2>2 DEF LinesOf
    <3>3. LinesOf(s, n, rp) = UNION { RunsIn(s, rp[k]).lines : k \in own }
      BY <2>2 DEF LinesOf, own
    <3> QED
      BY <1>1, <2>2, <3>1, <3>2, <3>3
  <2> QED
    BY <2>1, <2>2
<1>5. ReportsOf(more, n) # {}
  BY <1>3
<1> HIDE DEF own, m
<1>6. s[n].loads = "throws" => LinesOf(s, n, rp) = {}
  BY DEF LinesOf
<1>7. LinesHold(s, n, FALSE, IF s[n].loads = "throws" THEN cd ELSE cd \cup RunsIn(s, r).lines, more)
  BY <1>2, <1>4, <1>5, <1>6 DEF LinesHold
<1> QED
  BY <1>7 DEF more

(* The steps of a run *)

LEMMA TestInvNext == TestInv' <=>
    /\ suite' \in Seq(TestFiles) /\ fileNo' \in 0 .. Len(suite')
    /\ QueueHolds(suite', filter', fileNo', todo', reports')
    /\ VerdictsHold(suite', reports', process')
    /\ TalliesHold(suite', fileNo', reports', passed', failed')
    /\ cover' => LinesHold(suite', fileNo', interp'.loaded, covered', reports')
    /\ interp' \in [counter : Nat, lines : SUBSET Nat, loaded : BOOLEAN]
    /\ interp'.loaded => todo' # << >> /\ suite'[fileNo'].loads # "throws" /\ interp'.counter = 0
    /\ exit' # "running" => todo' = << >> /\ fileNo' = Len(suite') /\ exit' = (IF failed' > 0 THEN "1" ELSE "0")
  BY DEF TestInv, File

LEMMA InitTests == TestInit => TestInv
<1> SUFFICES ASSUME TestInit PROVE TestInv
  OBVIOUS
<1>1. suite \in Seq(TestFiles)
  BY TestAssumption DEF TestInit
<1>2. /\ fileNo = 0 /\ todo = << >> /\ reports = << >> /\ process = 0 /\ passed = 0 /\ failed = 0
      /\ interp = NoInterpreter /\ exit = "running"
  BY DEF TestInit
<1>3. QueueHolds(suite, filter, fileNo, todo, reports)
  <2>1. 1 .. 0 = {} /\ << >> \in Seq(TestReports) /\ Len(<< >>) = 0 /\ << >> \in Seq(Nat)
    OBVIOUS
  <2> QED
    BY <1>2, <2>1 DEF QueueHolds
<1>4. VerdictsHold(suite, reports, process)
  BY <1>2 DEF VerdictsHold
<1>5. TalliesHold(suite, fileNo, reports, passed, failed)
  <2>1. BrokenTo(suite, 0) = {}
    BY DEF BrokenTo
  <2>2. Cardinality(BrokenTo(suite, 0)) = 0
    BY <2>1, FS_EmptySet
  <2> QED
    BY <1>2, <2>1, <2>2 DEF TalliesHold
<1>6. LinesHold(suite, fileNo, interp.loaded, covered, reports)
  BY <1>2 DEF LinesHold
<1>7. interp \in [counter : Nat, lines : SUBSET Nat, loaded : BOOLEAN] /\ ~ interp.loaded
  BY <1>2 DEF NoInterpreter
<1>8. fileNo \in 0 .. Len(suite)
  BY <1>1, <1>2
<1> QED
  BY <1>1, <1>2, <1>3, <1>4, <1>5, <1>6, <1>7, <1>8 DEF TestInv

LEMMA OpenedHolds == TestInv /\ OpenFile => TestInv'
<1> SUFFICES ASSUME TestInv, OpenFile PROVE TestInv'
  OBVIOUS
<1> DEFINE n == fileNo
           file == suite[fileNo + 1]
<1>1. /\ exit = "running" /\ todo = << >> /\ n < Len(suite) /\ fileNo' = n + 1
      /\ IF file.loads = "broken" THEN failed' = failed + 1 /\ todo' = todo
         ELSE todo' = Discovered(file) /\ failed' = failed
      /\ covered' = {} /\ interp' = NoInterpreter
      /\ UNCHANGED <<suite, filter, cover, process, reports, passed, exit>>
  BY DEF OpenFile
<1>2. n \in Nat /\ suite \in Seq(TestFiles) /\ n + 1 \in 1 .. Len(suite) /\ n + 1 \in 0 .. Len(suite) /\ n + 1 > 0
  BY <1>1 DEF TestInv
<1>3. file \in TestFiles
  BY <1>2
<1>4. QueueHolds(suite, filter, n + 1, todo', reports)
  <2>1. QueueHolds(suite, filter, n, << >>, reports)
    BY <1>1 DEF TestInv
  <2>2. IF file.loads = "broken" THEN todo' = << >> ELSE Lists(todo', Chosen(filter, file))
    BY <1>1, <1>3, DiscoveredLists
  <2> QED
    BY <1>2, <2>1, <2>2, QueueOpened
<1>5. reports \in Seq(TestReports)
  BY <1>4 DEF QueueHolds
<1>6. TalliesHold(suite, n + 1, reports, passed, failed')
  <2> DEFINE B == BrokenTo(suite, n)
             C == BrokenTo(suite, n + 1)
             c == Cardinality(B)
             m == Len(reports)
             fails == \E k \in 1 .. Len(reports) : reports[k].status = "fail"
  <2>1. passed \in Nat /\ failed \in Nat /\ passed + failed = m + c /\ (failed > 0 <=> B # {} \/ fails)
    BY DEF TestInv, TalliesHold
  <2>2. c \in Nat /\ Cardinality(B \cup {n + 1}) = c + 1
    BY <1>2, Places DEF BrokenTo
  <2>3. m \in Nat
    BY <1>5
  <2>4. \A f \in 1 .. n + 1 : f \in 1 .. n \/ f = n + 1
    BY <1>2
  <2>5. \A f \in 1 .. n : f \in 1 .. n + 1
    BY <1>2
  <2>6. C = IF file.loads = "broken" THEN B \cup {n + 1} ELSE B
    BY <1>2, <2>4, <2>5 DEF BrokenTo
  <2>7. CASE file.loads = "broken"
    <3>1. C # {} /\ Cardinality(C) = c + 1
      BY <2>2, <2>6, <2>7
    <3>2. failed' = failed + 1
      BY <1>1, <2>7
    <3> HIDE DEF B, C, c, m, fails
    <3>3. failed' \in Nat /\ failed' > 0 /\ passed + failed' = m + Cardinality(C)
      BY <2>1, <2>2, <2>3, <3>1, <3>2
    <3> QED
      BY <2>1, <3>1, <3>3 DEF TalliesHold, C, m
  <2>8. CASE file.loads # "broken"
    BY <1>1, <2>1, <2>6, <2>8 DEF TalliesHold
  <2> QED
    BY <2>7, <2>8
<1>7. LinesHold(suite, n + 1, FALSE, {}, reports)
  <2>1. \A k \in 1 .. Len(reports) : reports[k].file \in 1 .. n
    BY DEF TestInv, QueueHolds, IsReport
  <2>2. ReportsOf(reports, n + 1) = {}
    BY <1>2, <2>1 DEF ReportsOf
  <2>3. LinesOf(suite, n + 1, reports) = {}
    BY <2>2 DEF LinesOf
  <2> QED
    BY <2>2, <2>3 DEF LinesHold
<1>8. /\ interp' \in [counter : Nat, lines : SUBSET Nat, loaded : BOOLEAN] /\ interp'.loaded = FALSE
  BY <1>1 DEF NoInterpreter
<1>9. VerdictsHold(suite, reports, process)
  BY DEF TestInv
<1> QED
  BY <1>1, <1>2, <1>4, <1>6, <1>7, <1>8, <1>9, TestInvNext

\* A test that is reported leaves the queue.
LEMMA ReportedHolds ==
  ASSUME TestInv, exit = "running", exit' = exit, todo # << >>, todo' = Tail(todo),
         UNCHANGED <<suite, filter, cover, fileNo>>,
         NEW status \in {"pass", "fail"}, Reported(status),
         interp' \in [counter : Nat, lines : SUBSET Nat, loaded : BOOLEAN], interp'.loaded = FALSE,
         NEW r, r = [file |-> fileNo, decl |-> Head(todo), status |-> status],
         status = AloneIn(suite, r) \/ (Registers(suite, r) /\ process > 0),
         process' \in Nat, process' > process => Registers(suite, r),
         cover => covered' = IF File.loads = "throws" THEN {0} ELSE covered \cup RunsIn(suite, r).lines,
         File.loads # "throws" => interp.loaded
  PROVE  TestInv'
<1>1. /\ QueueHolds(suite, filter, fileNo, todo, reports) /\ VerdictsHold(suite, reports, process)
      /\ TalliesHold(suite, fileNo, reports, passed, failed) /\ suite \in Seq(TestFiles) /\ fileNo \in 0 .. Len(suite)
      /\ cover => LinesHold(suite, fileNo, interp.loaded, covered, reports)
      /\ interp \in [counter : Nat, lines : SUBSET Nat, loaded : BOOLEAN]
  BY DEF TestInv
<1>2. todo \in Seq(Nat) /\ reports \in Seq(TestReports)
  BY <1>1 DEF QueueHolds
<1>3. r \in TestReports
  <2>1. Head(todo) \in Nat
    BY <1>2
  <2> QED
    BY <1>1, <2>1 DEF TestReports
<1>4. r.file = fileNo /\ r.decl = Head(todo) /\ r.status = status /\ reports' = Append(reports, r)
  BY DEF Reported
<1>5. QueueHolds(suite, filter, fileNo, Tail(todo), Append(reports, r)) /\ fileNo \in Nat
  <2>1. fileNo \in Nat
    BY <1>1
  <2> QED
    BY <1>1, <1>3, <1>4, <2>1, QueueReported
<1>6. VerdictsHold(suite, Append(reports, r), process')
  <2> DEFINE q == process'
  <2>1. q \in Nat /\ (q > process => Registers(suite, r))
    OBVIOUS
  <2> HIDE DEF q
  <2>2. VerdictsHold(suite, Append(reports, r), q)
    BY <1>1, <1>2, <1>3, <1>4, <2>1, VerdictsReported
  <2> QED
    BY <2>2 DEF q
<1>7. TalliesHold(suite, fileNo, Append(reports, r), passed', failed')
  <2>1. passed' = (IF r.status = "pass" THEN passed + 1 ELSE passed) /\ failed' = (IF r.status = "pass" THEN failed ELSE failed + 1)
    BY <1>4 DEF Reported
  <2> QED
    BY <1>1, <1>2, <1>3, <1>5, <2>1, TalliesReported
<1>8. cover => LinesHold(suite, fileNo, FALSE, covered', Append(reports, r))
  <2> SUFFICES ASSUME cover PROVE LinesHold(suite, fileNo, FALSE, covered', Append(reports, r))
    OBVIOUS
  <2>1. CASE File.loads = "throws"
    <3>1. LinesHold(suite, fileNo, TRUE, {0}, reports)
      BY <2>1 DEF LinesHold, LinesOf, File
    <3>2. covered' = {0}
      BY <2>1
    <3>3. LinesHold(suite, fileNo, FALSE,
                    IF suite[fileNo].loads = "throws" THEN {0} ELSE {0} \cup RunsIn(suite, r).lines, Append(reports, r))
      BY <1>2, <1>3, <1>4, <1>5, <3>1, LinesReported
    <3> QED
      BY <2>1, <3>2, <3>3 DEF File
  <2>2. CASE File.loads # "throws"
    <3>1. LinesHold(suite, fileNo, TRUE, covered, reports)
      BY <1>1, <2>2 DEF LinesHold
    <3>2. LinesHold(suite, fileNo, FALSE,
                    IF suite[fileNo].loads = "throws" THEN covered ELSE covered \cup RunsIn(suite, r).lines, Append(reports, r))
      BY <1>2, <1>3, <1>4, <1>5, <3>1, LinesReported
    <3> QED
      BY <2>2, <3>2 DEF File
  <2> QED
    BY <2>1, <2>2
<1> QED
  BY <1>1, <1>4, <1>5, <1>6, <1>7, <1>8, TestInvNext

LEMMA LoadedHolds == TestInv /\ LoadProgram => TestInv'
<1> SUFFICES ASSUME TestInv, LoadProgram PROVE TestInv'
  OBVIOUS
<1>1. /\ exit = "running" /\ todo # << >> /\ ~ interp.loaded
      /\ covered' = IF cover /\ covered = {} THEN {0} ELSE covered
      /\ UNCHANGED <<suite, filter, cover, fileNo, process, exit>>
  BY DEF LoadProgram
<1>2. /\ QueueHolds(suite, filter, fileNo, todo, reports) /\ VerdictsHold(suite, reports, process)
      /\ TalliesHold(suite, fileNo, reports, passed, failed) /\ suite \in Seq(TestFiles) /\ fileNo \in 0 .. Len(suite)
      /\ cover => LinesHold(suite, fileNo, interp.loaded, covered, reports)
      /\ interp \in [counter : Nat, lines : SUBSET Nat, loaded : BOOLEAN]
  BY DEF TestInv
<1>3. fileNo > 0
  BY <1>1, <1>2 DEF QueueHolds
<1>4. cover => covered' = {0} \cup LinesOf(suite, fileNo, reports)
  <2> SUFFICES ASSUME cover PROVE covered' = {0} \cup LinesOf(suite, fileNo, reports)
    OBVIOUS
  <2> DEFINE own == ReportsOf(reports, fileNo)
             l == LinesOf(suite, fileNo, reports)
  <2>1. covered = (IF own = {} THEN {} ELSE {0}) \cup l
    BY <1>1, <1>2, <1>3 DEF LinesHold
  <2>2. own = {} => l = {}
    BY DEF LinesOf
  <2>3. covered' = IF covered = {} THEN {0} ELSE covered
    BY <1>1
  <2> HIDE DEF own, l
  <2>4. CASE own = {}
    <3>1. l = {}
      BY <2>2, <2>4
    <3>2. covered = {}
      BY <2>1, <2>4, <3>1
    <3> QED
      BY <2>3, <3>1, <3>2 DEF l
  <2>5. CASE own # {}
    <3>1. covered = {0} \cup l
      BY <2>1, <2>5
    <3>2. 0 \in covered
      BY <3>1
    <3>3. covered' = covered
      BY <2>3, <3>2
    <3> QED
      BY <3>1, <3>3 DEF l
  <2> QED
    BY <2>4, <2>5 DEF l
<1>5. CASE File.loads = "throws"
  <2>1. Reported("fail") /\ todo' = Tail(todo) /\ interp' = interp
    BY <1>5 DEF LoadProgram
  <2> DEFINE r == [file |-> fileNo, decl |-> Head(todo), status |-> "fail"]
  <2>2. AloneIn(suite, r) = "fail"
    BY <1>5 DEF AloneIn, File
  <2>3. process' = process /\ process \in Nat
    BY <1>1, <1>2 DEF VerdictsHold
  <2>4. cover => covered' = {0}
    BY <1>4, <1>5 DEF LinesOf, File
  <2>5. interp'.loaded = FALSE
    BY <1>1, <1>2, <2>1
  <2> DEFINE status == "fail"
  <2>6. status \in {"pass", "fail"} /\ Reported(status) /\ status = AloneIn(suite, r)
        /\ r = [file |-> fileNo, decl |-> Head(todo), status |-> status]
    BY <2>1, <2>2
  <2>7. process' \in Nat /\ ~ (process' > process)
    BY <2>3
  <2>8. cover => covered' = IF File.loads = "throws" THEN {0} ELSE covered \cup RunsIn(suite, r).lines
    BY <1>5, <2>4
  <2> HIDE DEF status, r
  <2> QED
    BY <1>1, <1>2, <1>5, <2>1, <2>5, <2>6, <2>7, <2>8, ReportedHolds
<1>6. CASE File.loads # "throws"
  <2>1. /\ interp' = [counter |-> 0, lines |-> {0}, loaded |-> TRUE]
        /\ UNCHANGED <<todo, reports, passed, failed>>
    BY <1>6 DEF LoadProgram
  <2>2. interp' \in [counter : Nat, lines : SUBSET Nat, loaded : BOOLEAN] /\ interp'.counter = 0 /\ interp'.loaded = TRUE
    BY <2>1
  <2>3. cover => LinesHold(suite, fileNo, TRUE, covered', reports)
    BY <1>4 DEF LinesHold
  <2> QED
    BY <1>1, <1>2, <1>6, <2>1, <2>2, <2>3, TestInvNext DEF File
<1> QED
  BY <1>5, <1>6

LEMMA RanHolds == TestInv /\ RunTest => TestInv'
<1> SUFFICES ASSUME TestInv, RunTest PROVE TestInv'
  OBVIOUS
<1> DEFINE d == Called(Head(todo))
           counter == interp.counter + (IF d.body = "counts" THEN 1 ELSE 0)
           status == Verdict(d.body, counter, process')
           r == [file |-> fileNo, decl |-> Head(todo), status |-> status]
<1>1. /\ exit = "running" /\ todo # << >> /\ interp.loaded
      /\ process' = process + (IF d.body = "registers" THEN 1 ELSE 0)
      /\ Reported(status)
      /\ covered' = IF cover THEN covered \cup d.lines ELSE covered
      /\ interp' = [interp EXCEPT !.counter = counter, !.loaded = FALSE]
      /\ todo' = Tail(todo)
      /\ UNCHANGED <<suite, filter, cover, fileNo, exit>>
  BY DEF RunTest
<1>2. /\ QueueHolds(suite, filter, fileNo, todo, reports) /\ VerdictsHold(suite, reports, process)
      /\ suite \in Seq(TestFiles) /\ fileNo \in 0 .. Len(suite)
      /\ interp \in [counter : Nat, lines : SUBSET Nat, loaded : BOOLEAN]
      /\ File.loads # "throws" /\ interp.counter = 0
  BY <1>1 DEF TestInv
<1>3. process \in Nat
  BY <1>2 DEF VerdictsHold
<1>4. RunsIn(suite, r) = d
  BY DEF RunsIn, Called, File
<1>5. d.body \in TestBodies
  <2> DEFINE p == [file |-> fileNo, decl |-> Head(todo), status |-> "fail"]
  <2>1. todo \in Seq(Nat)
    BY <1>2 DEF QueueHolds
  <2>2. p \in TestReports /\ p.file = fileNo /\ p.decl = Head(todo)
    BY <1>1, <1>2, <2>1 DEF TestReports
  <2>3. RunsIn(suite, p) = d
    BY DEF RunsIn, Called, File
  <2> HIDE DEF p, d
  <2>4. fileNo \in Nat
    BY <1>2
  <2>5. IsReport(suite, filter, fileNo, p)
    BY <1>1, <1>2, <2>2, <2>4, QueueReported
  <2> QED
    BY <1>2, <2>3, <2>5, RunsBody
<1> HIDE DEF d
<1>6. counter = (IF d.body = "counts" THEN 1 ELSE 0)
  BY <1>2
<1>7. process' \in Nat /\ (process' > process => d.body = "registers")
      /\ (d.body = "registers" => process' = process + 1)
  BY <1>1, <1>3
<1> HIDE DEF counter
<1>8. status \in {"pass", "fail"}
  BY <1>5 DEF Verdict, TestBodies
<1>9. status = Verdict(d.body, 1, 1) \/ (d.body = "registers" /\ process > 0)
  <2>1. d.body = "registers" => process > 0 \/ process' = 1
    BY <1>3, <1>7
  <2> QED
    BY <1>5, <1>6, <2>1 DEF Verdict, TestBodies
<1>10. AloneIn(suite, r) = Verdict(d.body, 1, 1)
  BY <1>2, <1>4 DEF AloneIn, File
<1>11. interp' \in [counter : Nat, lines : SUBSET Nat, loaded : BOOLEAN] /\ interp'.loaded = FALSE
  BY <1>1, <1>2, <1>6
<1>12. cover => covered' = IF File.loads = "throws" THEN {0} ELSE covered \cup RunsIn(suite, r).lines
  BY <1>1, <1>2, <1>4
<1>13. /\ status = AloneIn(suite, r) \/ (Registers(suite, r) /\ process > 0)
       /\ process' > process => Registers(suite, r)
  BY <1>4, <1>7, <1>9, <1>10 DEF Registers
<1>14. r = [file |-> fileNo, decl |-> Head(todo), status |-> status]
  OBVIOUS
<1> HIDE DEF r, status
<1> QED
  BY <1>1, <1>7, <1>8, <1>11, <1>12, <1>13, <1>14, ReportedHolds

LEMMA StepTests == TestInv /\ [TestNext]_testVars => TestInv'
<1> SUFFICES ASSUME TestInv, [TestNext]_testVars PROVE TestInv'
  OBVIOUS
<1>1. CASE UNCHANGED testVars
  BY <1>1, TestInvNext DEF TestInv, testVars, File
<1>2. CASE Finish
  BY <1>2, TestInvNext DEF TestInv, Finish, File
<1> QED
  BY <1>1, <1>2, OpenedHolds, LoadedHolds, RanHolds DEF TestNext

LEMMA InvSound == TestInv => TestsAreSound
<1> SUFFICES ASSUME TestInv PROVE TestsAreSound
  OBVIOUS
<1>1. /\ QueueHolds(suite, filter, fileNo, todo, reports) /\ VerdictsHold(suite, reports, process)
      /\ TalliesHold(suite, fileNo, reports, passed, failed) /\ suite \in Seq(TestFiles) /\ fileNo \in 0 .. Len(suite)
      /\ cover => LinesHold(suite, fileNo, interp.loaded, covered, reports)
  BY DEF TestInv
<1>2. reports \in Seq(TestReports) /\ DOMAIN reports = 1 .. Len(reports) /\ Len(reports) \in Nat
  BY <1>1 DEF QueueHolds
<1>3. \A r : Runs(r) = RunsIn(suite, r) /\ Alone(r) = AloneIn(suite, r)
  BY DEF Runs, DeclOf, RunsIn, Alone, AloneIn
<1>4. VerdictAlone
  BY <1>1, <1>2, <1>3 DEF VerdictsHold, VerdictAlone, Registers
<1>5. Accounted
  <2> SUFFICES ASSUME exit # "running"
               PROVE  LET broken == { f \in DOMAIN suite : suite[f].loads = "broken" }
                      IN  /\ (exit = "1") = (broken # {} \/ \E k \in DOMAIN reports : reports[k].status = "fail")
                          /\ passed + failed = Len(reports) + Cardinality(broken)
                          /\ \A f \in DOMAIN suite \ broken : \A d \in DOMAIN suite[f].decls :
                                Cardinality({ k \in DOMAIN reports : reports[k].file = f /\ reports[k].decl = d })
                                   = (IF Selected(suite[f].decls[d]) THEN 1 ELSE 0)
    BY DEF Accounted
  <2> DEFINE broken == { f \in DOMAIN suite : suite[f].loads = "broken" }
  <2>1. todo = << >> /\ fileNo = Len(suite) /\ exit = (IF failed > 0 THEN "1" ELSE "0")
    BY DEF TestInv
  <2>2. DOMAIN suite = 1 .. fileNo /\ broken = BrokenTo(suite, fileNo)
    BY <1>1, <2>1 DEF BrokenTo
  <2>3. /\ passed + failed = Len(reports) + Cardinality(broken)
        /\ failed > 0 <=> (broken # {} \/ \E k \in DOMAIN reports : reports[k].status = "fail")
    BY <1>1, <1>2, <2>2 DEF TalliesHold
  <2>4. (exit = "1") = (broken # {} \/ \E k \in DOMAIN reports : reports[k].status = "fail")
    <3>1. (exit = "1") <=> failed > 0
      BY <2>1
    <3> QED
      BY <2>3, <3>1
  <2>5. ASSUME NEW f \in DOMAIN suite \ broken, NEW d \in DOMAIN suite[f].decls
        PROVE  Cardinality({ k \in DOMAIN reports : reports[k].file = f /\ reports[k].decl = d })
                  = (IF Selected(suite[f].decls[d]) THEN 1 ELSE 0)
    <3> DEFINE K == { k \in DOMAIN reports : reports[k].file = f /\ reports[k].decl = d }
    <3>1. f \in 1 .. fileNo /\ suite[f].loads # "broken"
      BY <2>2
    <3>2. Selected(suite[f].decls[d]) <=> d \in Chosen(filter, suite[f])
      BY DEF Selected, SelectedBy, Chosen
    <3>3. CASE Selected(suite[f].decls[d])
      <4>1. PICK k \in 1 .. Len(reports) : reports[k].file = f /\ reports[k].decl = d
        <5>1. Len(todo) = 0 /\ 1 .. 0 = {}
          BY <2>1
        <5>2. d \in Chosen(filter, suite[f])
          BY <3>2, <3>3
        <5> HIDE DEF Chosen
        <5>3. \/ \E k \in 1 .. Len(reports) : reports[k].file = f /\ reports[k].decl = d
              \/ \E j \in 1 .. Len(todo) : todo[j] = d
          BY <1>1, <3>1, <5>2 DEF QueueHolds
        <5> QED
          BY <5>1, <5>3
      <4>2. K = {k}
        BY <1>1, <1>2, <4>1 DEF QueueHolds
      <4> HIDE DEF K
      <4> QED
        BY <3>3, <4>2, FS_Singleton DEF K
    <3>4. CASE ~ Selected(suite[f].decls[d])
      <4>1. K = {}
        BY <1>1, <1>2, <3>2, <3>4 DEF QueueHolds, IsReport
      <4> HIDE DEF K
      <4> QED
        BY <3>4, <4>1, FS_EmptySet DEF K
    <3> QED
      BY <3>3, <3>4
  <2> QED
    BY <2>3, <2>4, <2>5
<1>6. Covers
  <2> SUFFICES ASSUME cover, fileNo > 0, todo = << >>
               PROVE  LET own == { k \in DOMAIN reports : reports[k].file = fileNo }
                      IN  covered = (IF own = {} THEN {} ELSE {0}) \cup
                             (IF File.loads = "throws" THEN {} ELSE UNION { Runs(reports[k]).lines : k \in own })
    BY DEF Covers
  <2> DEFINE own == { k \in DOMAIN reports : reports[k].file = fileNo }
  <2>1. ~ interp.loaded
    BY DEF TestInv
  <2>2. own = ReportsOf(reports, fileNo)
    BY <1>2 DEF ReportsOf
  <2>3. covered = (IF own = {} THEN {} ELSE {0}) \cup LinesOf(suite, fileNo, reports)
    BY <1>1, <2>1, <2>2 DEF LinesHold
  <2>4. LinesOf(suite, fileNo, reports) = IF File.loads = "throws" THEN {} ELSE UNION { Runs(reports[k]).lines : k \in own }
    BY <1>3, <2>2 DEF LinesOf, File
  <2> QED
    BY <2>3, <2>4
<1> QED
  BY <1>4, <1>5, <1>6 DEF TestsAreSound

\* mx test reports every selected test of every file that loads once, with the verdict
\* it would have alone unless a registry of the process was used before; the counts,
\* the exit code and the coverage are those of the reports (cmdTest).
THEOREM TestsSound == TestSpec => []TestsAreSound
  BY InitTests, StepTests, InvSound, PTL DEF TestSpec

-----------------------------------------------------------------------------
(***************************************************************************)
(* Calls.  An entry of fetch_all has at most one answer, and holds a slot  *)
(* while it is under way; a retry loop has asked once more than it has     *)
(* heard while a request is out, and has heard nothing good before.        *)
(***************************************************************************)
CallSteps == {"idle", "started", "asked", "heard", "written", "done"}
CallLog == [entry : Nat, reply : Replies]

AnsweredIn(lg) == { k \in 1 .. Len(lg) : lg[k].reply \in Statuses }
OfIn(lg, i) == { k \in 1 .. Len(lg) : lg[k].entry = i }
EnoughFor(name, reply) == IF name = "retry" THEN reply # "error" ELSE Settled(reply)
NothingGood(name, lg, n) == \A k \in 1 .. n : ~ EnoughFor(name, lg[k].reply)

\* An entry of fetch_all: its step, what is written for it, the log.
EntryHolds(i, step, o, lg) ==
    /\ step \in {"idle", "started", "asked"} => OfIn(lg, i) = {}
    /\ step = "heard" => \E k \in 1 .. Len(lg) : OfIn(lg, i) = {k}
    /\ step \in {"written", "done"} =>
          \/ OfIn(lg, i) = {} /\ o = "error"
          \/ \E k \in 1 .. Len(lg) : OfIn(lg, i) = {k} /\ o = lg[k].reply

\* A retry loop: its name, its number of attempts, its step, the log, the effects, the
\* outcome.
LoopHolds(name, most, step, lg, eff, oc) ==
    /\ step \in {"idle", "started", "asked", "heard", "done"}
    /\ step = "idle" => lg = << >> /\ eff = 0
    /\ step = "idle" /\ oc # Running => oc.reply = "null" /\ oc.kind = "value"
    /\ step = "started" => eff <= Len(lg) /\ NothingGood(name, lg, Len(lg)) /\ Len(lg) < most
    /\ step = "asked" => eff <= Len(lg) + 1 /\ NothingGood(name, lg, Len(lg)) /\ Len(lg) < most
    /\ step = "heard" => /\ eff <= Len(lg) /\ Len(lg) \in 1 .. most
                         /\ NothingGood(name, lg, Len(lg) - 1)
    /\ step = "done" /\ oc.kind \in {"value", "error"} =>
          /\ eff <= Len(lg) /\ Len(lg) \in 1 .. most /\ NothingGood(name, lg, Len(lg) - 1)
          /\ oc.reply = lg[Len(lg)].reply
          /\ EnoughFor(name, oc.reply) \/ Len(lg) = most
          /\ oc.kind = (IF oc.reply = "error" THEN "error" ELSE "value")

CallInv ==
    /\ call \in CallCasts /\ spawned \in Nat
    /\ at \in [1 .. Len(call.entries) -> CallSteps] /\ DOMAIN out = 1 .. Len(call.entries)
    /\ log \in Seq(CallLog) /\ \A k \in 1 .. Len(log) : log[k].entry \in 1 .. Len(call.entries)
    /\ effects \in Nat /\ Cardinality(AnsweredIn(log)) <= effects
    /\ outcome # Running => \A i \in 1 .. Len(call.entries) : at[i] \in {"idle", "done"}
    /\ call.name = "fetch_all" =>
          /\ Cardinality(Holding) <= Limit
          /\ \A i \in 1 .. Len(call.entries) : EntryHolds(i, at[i], out[i], log)
          /\ outcome # Running => \A i \in 1 .. Len(call.entries) : at[i] = "done"
    /\ call.name # "fetch_all" => LoopHolds(call.name, Attempts, at[1], log, effects, outcome)

LEMMA CallTypes ==
  ASSUME NEW c \in CallCasts
  PROVE  /\ c.name \in {"fetch_all", "fetch_retry", "retry"} /\ c.entries \in Seq({"url", "object", "other"})
         /\ c.limit \in {"default", "none", "two"} /\ c.attempts \in Int
         /\ Len(c.entries) \in Nat /\ DOMAIN c.entries = 1 .. Len(c.entries)
         /\ c.name # "fetch_all" => Len(c.entries) = 1
<1>1. c \in CallShapes
  BY CallsAssumption
<1>2. /\ c.name \in {"fetch_all", "fetch_retry", "retry"} /\ c.entries \in Seq({"url", "object", "other"})
      /\ c.limit \in {"default", "none", "two"} /\ c.attempts \in Int
  BY <1>1 DEF CallShapes
<1>3. Len(c.entries) \in Nat /\ DOMAIN c.entries = 1 .. Len(c.entries)
  BY <1>2
<1>4. c.name # "fetch_all" => c.entries = << "url" >>
  BY CallsAssumption
<1> QED
  BY <1>2, <1>3, <1>4

LEMMA LimitIs == call \in CallCasts => Limit \in Nat /\ (call.name # "fetch_all" => Limit >= 1)
<1> SUFFICES ASSUME call \in CallCasts PROVE Limit \in Nat /\ (call.name # "fetch_all" => Limit >= 1)
  OBVIOUS
<1>1. /\ call.limit \in {"default", "none", "two"} /\ Len(call.entries) \in Nat
      /\ call.name # "fetch_all" => Len(call.entries) = 1
  BY CallTypes
<1>2. DefaultLimit \in Nat \ {0}
  BY CallsAssumption
<1>3. CASE call.limit = "default"
  <2>1. Limit = LeastOfTwo(Len(call.entries), DefaultLimit)
    BY <1>3 DEF Limit
  <2> DEFINE l == Len(call.entries)
  <2> HIDE DEF l
  <2>2. LeastOfTwo(l, DefaultLimit) = l \/ LeastOfTwo(l, DefaultLimit) = DefaultLimit
    BY DEF LeastOfTwo
  <2> QED
    BY <1>1, <1>2, <2>1, <2>2 DEF l
<1>4. CASE call.limit = "none"
  <2>1. Limit = 1
    BY <1>4 DEF Limit
  <2> QED
    BY <2>1
<1>5. CASE call.limit = "two"
  <2>1. Limit = 2
    BY <1>5 DEF Limit
  <2> QED
    BY <2>1
<1> QED
  BY <1>1, <1>3, <1>4, <1>5

LEMMA LogMore ==
  ASSUME NEW lg \in Seq(CallLog), NEW r \in CallLog
  PROVE  LET n == Len(lg)
             more == Append(lg, r)
         IN  /\ n \in Nat /\ more \in Seq(CallLog) /\ Len(more) = n + 1 /\ more[n + 1] = r
             /\ \A k \in 1 .. n : more[k] = lg[k] /\ k \in 1 .. n + 1 /\ k # n + 1
             /\ \A k \in 1 .. n + 1 : k \in 1 .. n \/ k = n + 1
             /\ n + 1 \in 1 .. n + 1
             /\ AnsweredIn(more) = AnsweredIn(lg) \cup (IF r.reply \in Statuses THEN {n + 1} ELSE {})
             /\ \A i : OfIn(more, i) = OfIn(lg, i) \cup (IF r.entry = i THEN {n + 1} ELSE {})
<1> DEFINE n == Len(lg)
           more == Append(lg, r)
<1>1. /\ n \in Nat /\ more \in Seq(CallLog) /\ Len(more) = n + 1 /\ more[n + 1] = r
      /\ \A k \in 1 .. n : more[k] = lg[k] /\ k \in 1 .. n + 1 /\ k # n + 1
      /\ \A k \in 1 .. n + 1 : k \in 1 .. n \/ k = n + 1
      /\ n + 1 \in 1 .. n + 1
  OBVIOUS
<1> HIDE DEF more, n
<1>2. AnsweredIn(more) = AnsweredIn(lg) \cup (IF r.reply \in Statuses THEN {n + 1} ELSE {})
  BY <1>1 DEF AnsweredIn, n
<1>3. ASSUME NEW i PROVE OfIn(more, i) = OfIn(lg, i) \cup (IF r.entry = i THEN {n + 1} ELSE {})
  BY <1>1 DEF OfIn, n
<1> QED
  BY <1>1, <1>2, <1>3 DEF more, n

\* The answer to another entry changes nothing for this one.
LEMMA EntryBefore ==
  ASSUME NEW lg \in Seq(CallLog), NEW r \in CallLog, NEW i, NEW step, NEW o, EntryHolds(i, step, o, lg), r.entry # i
  PROVE  EntryHolds(i, step, o, Append(lg, r))
<1> DEFINE n == Len(lg)
           more == Append(lg, r)
<1>1. /\ n \in Nat /\ Len(more) = n + 1
      /\ \A k \in 1 .. n : more[k] = lg[k] /\ k \in 1 .. n + 1
  BY LogMore
<1>2. OfIn(more, i) = OfIn(lg, i)
  <2>1. OfIn(more, i) = OfIn(lg, i) \cup (IF r.entry = i THEN {n + 1} ELSE {})
    BY LogMore
  <2> QED
    BY <2>1
<1> HIDE DEF more, n
<1>3. EntryHolds(i, step, o, more)
  BY <1>1, <1>2 DEF EntryHolds, n
<1> QED
  BY <1>3 DEF more

LEMMA CallInvNext == CallInv' <=>
    /\ call' \in CallCasts /\ spawned' \in Nat
    /\ at' \in [1 .. Len(call'.entries) -> CallSteps] /\ DOMAIN out' = 1 .. Len(call'.entries)
    /\ log' \in Seq(CallLog) /\ \A k \in 1 .. Len(log') : log'[k].entry \in 1 .. Len(call'.entries)
    /\ effects' \in Nat /\ Cardinality(AnsweredIn(log')) <= effects'
    /\ outcome' # Running => \A i \in 1 .. Len(call'.entries) : at'[i] \in {"idle", "done"}
    /\ call'.name = "fetch_all" =>
          /\ Cardinality(Holding') <= Limit'
          /\ \A i \in 1 .. Len(call'.entries) : EntryHolds(i, at'[i], out'[i], log')
          /\ outcome' # Running => \A i \in 1 .. Len(call'.entries) : at'[i] = "done"
    /\ call'.name # "fetch_all" => LoopHolds(call'.name, Attempts', at'[1], log', effects', outcome')
  BY DEF CallInv, Running

LEMMA InitCalls == CallsInit => CallInv
<1> SUFFICES ASSUME CallsInit PROVE CallInv
  OBVIOUS
<1>1. call \in CallCasts /\ spawned = 0 /\ log = << >> /\ effects = 0 /\ outcome = Running
  BY DEF CallsInit
<1>2. /\ Len(call.entries) \in Nat /\ DOMAIN call.entries = 1 .. Len(call.entries)
      /\ call.name # "fetch_all" => Len(call.entries) = 1
  BY <1>1, CallTypes
<1>3. at = [i \in 1 .. Len(call.entries) |-> "idle"] /\ out = [i \in 1 .. Len(call.entries) |-> "none"]
  BY <1>2 DEF CallsInit, Entries
<1>4. log \in Seq(CallLog) /\ Len(log) = 0 /\ 1 .. 0 = {}
  BY <1>1
<1>5. AnsweredIn(log) = {} /\ \A i : OfIn(log, i) = {}
  BY <1>4 DEF AnsweredIn, OfIn
<1>6. Cardinality(AnsweredIn(log)) = 0
  BY <1>5, FS_EmptySet
<1>7. Cardinality(Holding) <= Limit
  <2>1. Holding = {}
    BY <1>2, <1>3 DEF Holding, Entries
  <2> QED
    BY <1>1, <2>1, FS_EmptySet, LimitIs
<1>8. \A i \in 1 .. Len(call.entries) : EntryHolds(i, at[i], out[i], log)
  BY <1>3, <1>5 DEF EntryHolds
<1>9. call.name # "fetch_all" => LoopHolds(call.name, Attempts, at[1], log, effects, outcome)
  <2>1. call.name # "fetch_all" => at[1] = "idle"
    BY <1>2, <1>3
  <2> QED
    BY <1>1, <2>1 DEF LoopHolds
<1>10. at \in [1 .. Len(call.entries) -> CallSteps]
  BY <1>3 DEF CallSteps
<1> QED
  BY <1>1, <1>3, <1>4, <1>6, <1>7, <1>8, <1>9, <1>10 DEF CallInv

(* The slots *)

Held == {"started", "asked", "heard", "written"}
HoldingIn(n, a) == { i \in 1 .. n : a[i] \in Held }

LEMMA SlotsMoved ==
  ASSUME NEW n \in Nat, NEW a \in [1 .. n -> CallSteps], NEW i \in 1 .. n, NEW s, NEW b, b = [a EXCEPT ![i] = s]
  PROVE  /\ Cardinality(HoldingIn(n, a)) \in Nat /\ Cardinality(HoldingIn(n, b)) \in Nat
         /\ Cardinality(HoldingIn(n, b)) <= Cardinality(HoldingIn(n, a)) + 1
         /\ a[i] \in Held \/ s \notin Held => Cardinality(HoldingIn(n, b)) <= Cardinality(HoldingIn(n, a))
<1> DEFINE A == HoldingIn(n, a)
           B == HoldingIn(n, b)
<1>1. A \in SUBSET (1 .. n) /\ B \in SUBSET (1 .. n)
  BY DEF HoldingIn
<1>2. IsFiniteSet(A) /\ Cardinality(A) \in Nat /\ Cardinality(B) \in Nat
  BY <1>1, Places
<1>3. B \in SUBSET (A \cup {i}) /\ (a[i] \in Held \/ s \notin Held => B \in SUBSET A)
  BY DEF HoldingIn
<1> HIDE DEF A, B
<1>4. Cardinality(A \cup {i}) = (IF i \in A THEN Cardinality(A) ELSE Cardinality(A) + 1) /\ IsFiniteSet(A \cup {i})
  BY <1>2, FS_AddElement
<1>5. Cardinality(B) <= Cardinality(A \cup {i})
  BY <1>3, <1>4, FS_Subset
<1>6. B \in SUBSET A => Cardinality(B) <= Cardinality(A)
  BY <1>2, FS_Subset
<1>7. Cardinality(B) <= Cardinality(A) + 1
  <2> DEFINE x == Cardinality(A)
             y == Cardinality(B)
             z == Cardinality(A \cup {i})
  <2>1. x \in Nat /\ y \in Nat /\ (z = x \/ z = x + 1) /\ y <= z
    BY <1>2, <1>4, <1>5
  <2> HIDE DEF x, y, z
  <2>2. y <= x + 1
    BY <2>1
  <2> QED
    BY <2>2 DEF x, y
<1> QED
  BY <1>2, <1>3, <1>6, <1>7 DEF A, B

LEMMA CallShape ==
  ASSUME CallInv
  PROVE  /\ Len(call.entries) \in Nat /\ Entries = 1 .. Len(call.entries)
         /\ call.name \in {"fetch_all", "fetch_retry", "retry"}
         /\ call.name # "fetch_all" => Len(call.entries) = 1
         /\ Holding = HoldingIn(Len(call.entries), at)
         /\ Limit \in Nat /\ (call.name # "fetch_all" => Limit >= 1)
         /\ Answered = AnsweredIn(log) /\ \A i : OfEntry(i) = OfIn(log, i)
<1>1. call \in CallCasts /\ log \in Seq(CallLog)
  BY DEF CallInv
<1>2. /\ Len(call.entries) \in Nat /\ Entries = 1 .. Len(call.entries)
      /\ call.name \in {"fetch_all", "fetch_retry", "retry"}
      /\ call.name # "fetch_all" => Len(call.entries) = 1
  BY <1>1, CallTypes DEF Entries
<1>3. Holding = HoldingIn(Len(call.entries), at)
  BY <1>2 DEF Holding, HoldingIn, Held
<1>4. DOMAIN log = 1 .. Len(log)
  BY <1>1
<1>5. Answered = AnsweredIn(log) /\ \A i : OfEntry(i) = OfIn(log, i)
  BY <1>4 DEF Answered, AnsweredIn, OfEntry, OfIn
<1> QED
  BY <1>1, <1>2, <1>3, <1>5, LimitIs

\* A step of an entry of fetch_all that is no answer.
LEMMA MoveHolds ==
  ASSUME CallInv, call.name = "fetch_all", outcome = Running, outcome' = outcome, call' = call, spawned' \in Nat,
         log' = log, effects' \in Nat, effects' >= effects,
         NEW i \in 1 .. Len(call.entries), NEW s \in CallSteps, at' = [at EXCEPT ![i] = s],
         DOMAIN out' = DOMAIN out, \A j \in 1 .. Len(call.entries) : j # i => out'[j] = out[j],
         EntryHolds(i, s, out'[i], log),
         at[i] \in Held \/ s \notin Held \/ Cardinality(Holding) < Limit
  PROVE  CallInv'
<1>0. at \in [1 .. Len(call.entries) -> CallSteps]
  BY DEF CallInv
<1>1. at' \in [1 .. Len(call.entries) -> CallSteps] /\ at'[i] = s /\ \A j \in 1 .. Len(call.entries) : j # i => at'[j] = at[j]
  BY <1>0
<1>2. Limit' = Limit
  BY DEF Limit
<1>3. Cardinality(Holding') <= Limit'
  <2> DEFINE n == Len(call.entries)
             b == at'
             h == Cardinality(HoldingIn(n, at))
             g == Cardinality(HoldingIn(n, b))
  <2>1. Holding = HoldingIn(n, at) /\ n \in Nat /\ Limit \in Nat
    BY CallShape
  <2>2. Holding' = HoldingIn(n, b)
    <3>1. Entries' = 1 .. n
      <4>1. Entries' = Entries
        BY DEF Entries
      <4> QED
        BY <4>1, CallShape
    <3> QED
      BY <3>1 DEF Holding, HoldingIn, Held
  <2>3. b = [at EXCEPT ![i] = s]
    OBVIOUS
  <2> HIDE DEF b
  <2>4. h \in Nat /\ g \in Nat /\ g <= h + 1 /\ (at[i] \in Held \/ s \notin Held => g <= h)
    BY <1>0, <2>1, <2>3, SlotsMoved
  <2>5. h <= Limit
    BY <2>1 DEF CallInv
  <2>6. at[i] \in Held \/ s \notin Held \/ h < Limit
    BY <2>1
  <2> HIDE DEF h, g
  <2>7. g <= Limit
    BY <2>1, <2>4, <2>5, <2>6
  <2> QED
    BY <1>2, <2>2, <2>7 DEF g
<1>4. \A j \in 1 .. Len(call.entries) : EntryHolds(j, at'[j], out'[j], log)
  <2>1. \A j \in 1 .. Len(call.entries) : EntryHolds(j, at[j], out[j], log)
    BY DEF CallInv
  <2> QED
    BY <1>1, <2>1
<1>5. Cardinality(AnsweredIn(log)) <= effects'
  <2> DEFINE c == Cardinality(AnsweredIn(log))
             n == Len(log)
  <2>1. n \in Nat /\ AnsweredIn(log) \in SUBSET (1 .. n)
    BY DEF CallInv, AnsweredIn
  <2>2. c \in Nat
    BY <2>1, Places
  <2>3. c <= effects /\ effects \in Nat
    BY DEF CallInv
  <2> HIDE DEF c
  <2>4. c <= effects'
    BY <2>2, <2>3
  <2> QED
    BY <2>4 DEF c
<1> QED
  BY <1>1, <1>3, <1>4, <1>5, CallInvNext DEF CallInv

\* A step of a retry loop that is no answer.
LEMMA LoopMoves ==
  ASSUME CallInv, call.name # "fetch_all", call' = call, spawned' = spawned, out' = out, log' = log,
         effects' \in Nat, effects' >= effects,
         NEW s \in CallSteps, at' = [at EXCEPT ![1] = s], outcome' # Running => s \in {"idle", "done"},
         LoopHolds(call.name, Attempts, s, log, effects', outcome')
  PROVE  CallInv'
<1>0. at \in [1 .. Len(call.entries) -> CallSteps] /\ Len(call.entries) = 1
  BY CallShape DEF CallInv
<1>1. at' \in [1 .. Len(call.entries) -> CallSteps] /\ at'[1] = s /\ \A i \in 1 .. Len(call.entries) : i = 1
  BY <1>0
<1>2. Attempts' = Attempts
  BY DEF Attempts
<1>5. Cardinality(AnsweredIn(log)) <= effects'
  <2> DEFINE c == Cardinality(AnsweredIn(log))
             n == Len(log)
  <2>1. n \in Nat /\ AnsweredIn(log) \in SUBSET (1 .. n)
    BY DEF CallInv, AnsweredIn
  <2>2. c \in Nat
    BY <2>1, Places
  <2>3. c <= effects /\ effects \in Nat
    BY DEF CallInv
  <2> HIDE DEF c
  <2>4. c <= effects'
    BY <2>2, <2>3
  <2> QED
    BY <2>4 DEF c
<1> QED
  BY <1>1, <1>2, <1>5, CallInvNext DEF CallInv

LEMMA HeardHolds ==
  ASSUME CallInv, NEW i \in Entries, NEW reply \in Replies, Hear(i, reply)
  PROVE  CallInv'
<1> DEFINE r == [entry |-> i, reply |-> reply]
           n == Len(log)
           more == Append(log, r)
<1>1. /\ at[i] = "asked" /\ at' = [at EXCEPT ![i] = "heard"] /\ (reply \in Statuses => effects > Cardinality(Answered))
      /\ log' = more /\ UNCHANGED <<call, spawned, out, effects, outcome>>
  BY DEF Hear, Move
<1>2. i \in 1 .. Len(call.entries) /\ i \in Nat /\ r \in CallLog /\ r.entry = i /\ r.reply = reply
  <2>1. i \in 1 .. Len(call.entries) /\ Len(call.entries) \in Nat
    BY CallShape
  <2> QED
    BY <2>1 DEF CallLog
<1>3. log \in Seq(CallLog) /\ at \in [1 .. Len(call.entries) -> CallSteps] /\ effects \in Nat
  BY DEF CallInv
<1> HIDE DEF r
<1>4. /\ n \in Nat /\ more \in Seq(CallLog) /\ Len(more) = n + 1 /\ more[n + 1] = r
      /\ \A k \in 1 .. n : more[k] = log[k] /\ k \in 1 .. n + 1 /\ k # n + 1
      /\ \A k \in 1 .. n + 1 : k \in 1 .. n \/ k = n + 1
      /\ n + 1 \in 1 .. n + 1
      /\ AnsweredIn(more) = AnsweredIn(log) \cup (IF r.reply \in Statuses THEN {n + 1} ELSE {})
      /\ \A j : OfIn(more, j) = OfIn(log, j) \cup (IF r.entry = j THEN {n + 1} ELSE {})
  BY <1>2, <1>3, LogMore
<1> HIDE DEF more
<1>5. at' \in [1 .. Len(call.entries) -> CallSteps] /\ at'[i] = "heard"
      /\ \A j \in 1 .. Len(call.entries) : j # i => at'[j] = at[j]
  BY <1>1, <1>2, <1>3 DEF CallSteps
<1>6. \A k \in 1 .. n + 1 : more[k].entry \in 1 .. Len(call.entries)
  BY <1>2, <1>4 DEF CallInv
<1>7. Cardinality(AnsweredIn(more)) <= effects
  <2> DEFINE c == Cardinality(AnsweredIn(log))
  <2>1. AnsweredIn(log) \in SUBSET (1 .. n)
    BY DEF AnsweredIn
  <2>2. c \in Nat /\ Cardinality(AnsweredIn(log) \cup {n + 1}) = c + 1
    BY <1>4, <2>1, Places
  <2>3. c <= effects /\ (reply \in Statuses => effects > c)
    BY <1>1, CallShape DEF CallInv
  <2>4. CASE reply \in Statuses
    <3>1. Cardinality(AnsweredIn(more)) = c + 1
      BY <1>2, <1>4, <2>2, <2>4
    <3> HIDE DEF c
    <3> QED
      BY <1>3, <2>2, <2>3, <2>4, <3>1
  <2>5. CASE reply \notin Statuses
    <3>1. Cardinality(AnsweredIn(more)) = c
      BY <1>2, <1>4, <2>5
    <3> QED
      BY <2>3, <3>1
  <2> QED
    BY <2>4, <2>5
<1>8. outcome = Running
  BY <1>1, <1>2 DEF CallInv
<1>9. ASSUME call.name = "fetch_all"
      PROVE  /\ Cardinality(Holding') <= Limit'
             /\ \A j \in 1 .. Len(call.entries) : EntryHolds(j, at'[j], out[j], more)
  <2>1. \A j \in 1 .. Len(call.entries) : EntryHolds(j, at[j], out[j], log)
    BY <1>9 DEF CallInv
  <2>2. ASSUME NEW j \in 1 .. Len(call.entries), j # i PROVE EntryHolds(j, at'[j], out[j], more)
    BY <1>2, <1>3, <1>5, <2>1, <2>2, EntryBefore DEF more
  <2>3. EntryHolds(i, at'[i], out[i], more)
    <3>1. OfIn(log, i) = {}
      BY <1>1, <1>2, <2>1 DEF EntryHolds
    <3>2. OfIn(more, i) = {n + 1}
      BY <1>2, <1>4, <3>1
    <3> QED
      BY <1>4, <1>5, <3>2 DEF EntryHolds
  <2>4. Cardinality(Holding') <= Limit'
    <3> DEFINE m == Len(call.entries)
               b == at'
               h == Cardinality(HoldingIn(m, at))
               g == Cardinality(HoldingIn(m, b))
    <3>1. Holding = HoldingIn(m, at) /\ m \in Nat /\ Limit \in Nat
      BY CallShape
    <3>2. Holding' = HoldingIn(m, b)
      <4>1. Entries' = Entries
        BY <1>1 DEF Entries
      <4>2. Entries' = 1 .. m
        BY <4>1, CallShape
      <4> QED
        BY <4>2 DEF Holding, HoldingIn, Held
    <3>3. b = [at EXCEPT ![i] = "heard"]
      BY <1>1
    <3>4. at[i] \in Held
      BY <1>1 DEF Held
    <3> HIDE DEF b
    <3>5. h \in Nat /\ g \in Nat /\ g <= h
      BY <1>2, <1>3, <3>1, <3>3, <3>4, SlotsMoved
    <3>6. h <= Limit
      BY <1>9, <3>1 DEF CallInv
    <3>7. Limit' = Limit
      BY <1>1 DEF Limit
    <3> HIDE DEF h, g
    <3>8. g <= Limit
      BY <3>1, <3>5, <3>6
    <3> QED
      BY <3>2, <3>7, <3>8 DEF g
  <2> QED
    BY <2>2, <2>3, <2>4
<1>10. ASSUME call.name # "fetch_all"
       PROVE  LoopHolds(call.name, Attempts, at'[1], more, effects, outcome)
  <2>1. i = 1
    <3>1. Len(call.entries) = 1
      BY <1>10, CallShape
    <3> QED
      BY <1>2, <3>1
  <2>2. effects <= n + 1 /\ NothingGood(call.name, log, n) /\ n < Attempts
    BY <1>1, <1>10, <2>1 DEF CallInv, LoopHolds
  <2>3. Attempts \in Int
    <3>1. call.attempts \in Int
      BY CallTypes DEF CallInv
    <3> QED
      BY <3>1 DEF Attempts
  <2>4. n + 1 \in 1 .. Attempts /\ (n + 1) - 1 = n
    BY <1>4, <2>2, <2>3
  <2>5. NothingGood(call.name, more, n)
    BY <1>4, <2>2 DEF NothingGood
  <2> QED
    BY <1>4, <1>5, <1>8, <2>1, <2>2, <2>4, <2>5 DEF LoopHolds, Running
<1>11. Attempts' = Attempts
  BY <1>1 DEF Attempts
<1> QED
  BY <1>1, <1>3, <1>4, <1>5, <1>6, <1>7, <1>8, <1>9, <1>10, <1>11, CallInvNext DEF CallInv

\* The last answer of an entry.
LEMMA LastReply ==
  ASSUME CallInv
  PROVE  /\ \A i, k : k \in 1 .. Len(log) /\ OfIn(log, i) = {k} => ReplyTo(i) = log[k].reply
         /\ call.name # "fetch_all" /\ Len(log) >= 1 => ReplyTo(1) = log[Len(log)].reply
<1>1. log \in Seq(CallLog) /\ Len(log) \in Nat
  BY DEF CallInv
<1>2. ASSUME NEW i, NEW k \in 1 .. Len(log), OfIn(log, i) = {k} PROVE ReplyTo(i) = log[k].reply
  <2>1. Max({k}) = k
    <3> DEFINE S == {k}
    <3>1. k \in S /\ S \subseteq Int /\ \A j \in S : j <= k
      BY <1>1
    <3> HIDE DEF S
    <3>2. Max(S) = k
      BY <3>1, MaxIs
    <3> QED
      BY <3>2 DEF S
  <2> QED
    BY <1>2, <2>1, CallShape DEF ReplyTo
<1>3. ASSUME call.name # "fetch_all", Len(log) >= 1 PROVE ReplyTo(1) = log[Len(log)].reply
  <2>1. Len(call.entries) = 1
    BY <1>3, CallShape
  <2>2. \A k \in 1 .. Len(log) : log[k].entry = 1
    BY <2>1 DEF CallInv
  <2>3. OfIn(log, 1) = 1 .. Len(log)
    BY <2>2 DEF OfIn
  <2>4. Max(1 .. Len(log)) = Len(log)
    <3> DEFINE n == Len(log)
               S == 1 .. n
    <3>1. n \in S /\ S \subseteq Int /\ \A j \in S : j <= n
      BY <1>1, <1>3
    <3> HIDE DEF S, n
    <3>2. Max(S) = n
      BY <3>1, MaxIs
    <3> QED
      BY <3>2 DEF S, n
  <2> QED
    BY <2>3, <2>4, CallShape DEF ReplyTo
<1> QED
  BY <1>2, <1>3

LEMMA AskedHolds ==
  ASSUME CallInv, NEW i \in Entries, Ask(i)
  PROVE  CallInv'
<1>1. /\ outcome = Running /\ at[i] = "started" /\ at' = [at EXCEPT ![i] = "asked"]
      /\ effects' \in {effects, effects + 1} /\ UNCHANGED <<call, spawned, out, log, outcome>>
  BY DEF Ask, Move, Going
<1>2. i \in 1 .. Len(call.entries) /\ spawned \in Nat /\ effects \in Nat
  BY CallShape DEF CallInv
<1>3. effects' \in Nat /\ effects' >= effects /\ effects' <= effects + 1
  BY <1>1, <1>2
<1>4. "asked" \in CallSteps /\ at[i] \in Held
  BY <1>1 DEF CallSteps, Held
<1>5. CASE call.name = "fetch_all"
  <2>1. EntryHolds(i, "asked", out[i], log)
    BY <1>1, <1>2, <1>5 DEF CallInv, EntryHolds
  <2> QED
    BY <1>1, <1>2, <1>3, <1>4, <1>5, <2>1, MoveHolds
<1>6. CASE call.name # "fetch_all"
  <2>1. Len(call.entries) = 1
    BY <1>6, CallShape
  <2>2. i = 1
    BY <1>2, <2>1
  <2>3. effects <= Len(log) /\ NothingGood(call.name, log, Len(log)) /\ Len(log) < Attempts
    BY <1>1, <1>6, <2>2 DEF CallInv, LoopHolds
  <2>4. effects' <= Len(log) + 1
    <3>1. Len(log) \in Nat
      BY DEF CallInv
    <3> QED
      BY <1>2, <1>3, <2>3, <3>1
  <2>5. LoopHolds(call.name, Attempts, "asked", log, effects', outcome')
    BY <2>3, <2>4 DEF LoopHolds
  <2>6. outcome' = Running
    BY <1>1
  <2> QED
    BY <1>1, <1>3, <1>4, <1>6, <2>2, <2>5, <2>6, LoopMoves
<1> QED
  BY <1>5, <1>6

LEMMA EntryStepHolds ==
  ASSUME CallInv, NEW i \in Entries, Reject(i) \/ Put(i) \/ Free(i)
  PROVE  CallInv'
<1>1. i \in 1 .. Len(call.entries) /\ spawned \in Nat /\ effects \in Nat /\ DOMAIN out = 1 .. Len(call.entries)
  BY CallShape DEF CallInv
<1>2. /\ call.name = "fetch_all" /\ outcome = Running /\ UNCHANGED <<call, spawned, log, effects, outcome>>
      /\ effects' >= effects
  BY <1>1 DEF Reject, Put, Free, Going
<1>3. EntryHolds(i, at[i], out[i], log)
  BY <1>1, <1>2 DEF CallInv
<1>4. CASE Reject(i)
  <2>1. /\ at[i] = "started" /\ at' = [at EXCEPT ![i] = "written"] /\ out' = [out EXCEPT ![i] = "error"]
    BY <1>4 DEF Reject, Move
  <2>2. /\ DOMAIN out' = DOMAIN out /\ out'[i] = "error" /\ \A j \in 1 .. Len(call.entries) : j # i => out'[j] = out[j]
    BY <1>1, <2>1
  <2>3. EntryHolds(i, "written", out'[i], log)
    BY <1>3, <2>1, <2>2 DEF EntryHolds
  <2>4. "written" \in CallSteps /\ at[i] \in Held
    BY <2>1 DEF CallSteps, Held
  <2> QED
    BY <1>1, <1>2, <2>1, <2>2, <2>3, <2>4, MoveHolds
<1>5. CASE Put(i)
  <2>1. /\ at[i] = "heard" /\ at' = [at EXCEPT ![i] = "written"] /\ out' = [out EXCEPT ![i] = ReplyTo(i)]
    BY <1>5 DEF Put, Move
  <2>2. /\ DOMAIN out' = DOMAIN out /\ out'[i] = ReplyTo(i) /\ \A j \in 1 .. Len(call.entries) : j # i => out'[j] = out[j]
    BY <1>1, <2>1
  <2>3. PICK k \in 1 .. Len(log) : OfIn(log, i) = {k}
    BY <1>3, <2>1 DEF EntryHolds
  <2>4. out'[i] = log[k].reply
    BY <2>2, <2>3, LastReply
  <2>5. EntryHolds(i, "written", out'[i], log)
    BY <2>3, <2>4 DEF EntryHolds
  <2>6. "written" \in CallSteps /\ at[i] \in Held
    BY <2>1 DEF CallSteps, Held
  <2> QED
    BY <1>1, <1>2, <2>1, <2>2, <2>5, <2>6, MoveHolds
<1>6. CASE Free(i)
  <2>1. /\ at[i] = "written" /\ at' = [at EXCEPT ![i] = "done"] /\ out' = out
    BY <1>6 DEF Free, Move
  <2>2. EntryHolds(i, "done", out'[i], log)
    BY <1>3, <2>1 DEF EntryHolds
  <2>3. "done" \in CallSteps /\ at[i] \in Held
    BY <2>1 DEF CallSteps, Held
  <2> QED
    BY <1>1, <1>2, <2>1, <2>2, <2>3, MoveHolds
<1> QED
  BY <1>4, <1>5, <1>6

LEMMA StartedHolds == CallInv /\ (StartNext \/ FirstTry) => CallInv'
<1> SUFFICES ASSUME CallInv, StartNext \/ FirstTry PROVE CallInv'
  OBVIOUS
<1>0. spawned \in Nat /\ effects \in Nat /\ "started" \in CallSteps
  BY DEF CallInv, CallSteps
<1>1. CASE StartNext
  <2> DEFINE i == spawned + 1
  <2>1. /\ call.name = "fetch_all" /\ outcome = Running /\ spawned < Len(call.entries) /\ Cardinality(Holding) < Limit
        /\ spawned' = i /\ at[i] = "idle" /\ at' = [at EXCEPT ![i] = "started"]
        /\ UNCHANGED <<call, out, log, effects, outcome>>
    BY <1>1 DEF StartNext, Move, Going
  <2>2. Len(call.entries) \in Nat
    BY CallShape
  <2>3. i \in 1 .. Len(call.entries) /\ i \in Nat
    BY <1>0, <2>1, <2>2
  <2> HIDE DEF i
  <2>4. EntryHolds(i, "started", out'[i], log)
    BY <2>1, <2>3 DEF CallInv, EntryHolds
  <2>5. effects' \in Nat /\ effects' >= effects
    BY <1>0, <2>1
  <2> QED
    BY <1>0, <2>1, <2>3, <2>4, <2>5, MoveHolds
<1>2. CASE FirstTry
  <2>1. /\ call.name \in {"fetch_retry", "retry"} /\ outcome = Running /\ Attempts > 0
        /\ at[1] = "idle" /\ at' = [at EXCEPT ![1] = "started"] /\ UNCHANGED <<call, spawned, out, log, effects, outcome>>
    BY <1>2 DEF FirstTry, Move, Going
  <2>2. call.name # "fetch_all"
    BY <2>1
  <2>3. log = << >> /\ effects = 0
    BY <2>1, <2>2 DEF CallInv, LoopHolds
  <2>4. Len(log) = 0 /\ 1 .. 0 = {}
    BY <2>3
  <2>5. NothingGood(call.name, log, Len(log))
    BY <2>4 DEF NothingGood
  <2>6. LoopHolds(call.name, Attempts, "started", log, effects', outcome')
    <3>1. effects' <= Len(log) /\ Len(log) < Attempts
      BY <2>1, <2>3, <2>4
    <3> QED
      BY <2>5, <3>1 DEF LoopHolds
  <2>7. effects' \in Nat /\ effects' >= effects /\ outcome' = Running
    BY <1>0, <2>1
  <2> QED
    BY <1>0, <2>1, <2>2, <2>6, <2>7, LoopMoves
<1> QED
  BY <1>1, <1>2

LEMMA CollectedHolds == CallInv /\ Collect => CallInv'
<1> SUFFICES ASSUME CallInv, Collect PROVE CallInv'
  OBVIOUS
<1>1. /\ call.name = "fetch_all" /\ \A i \in Entries : at[i] = "done"
      /\ UNCHANGED <<call, spawned, at, out, log, effects>>
  BY DEF Collect, Going
<1>2. \A i \in 1 .. Len(call.entries) : at[i] = "done"
  BY <1>1, CallShape
<1>3. Holding' = Holding /\ Limit' = Limit
  BY <1>1 DEF Holding, Limit, Entries
<1> QED
  BY <1>1, <1>2, <1>3, CallInvNext DEF CallInv

LEMMA EndedHolds == CallInv /\ (NoTry \/ Conclude \/ TryAgain) => CallInv'
<1> SUFFICES ASSUME CallInv, NoTry \/ Conclude \/ TryAgain PROVE CallInv'
  OBVIOUS
<1>0. effects \in Nat /\ log \in Seq(CallLog) /\ Len(log) \in Nat /\ at \in [1 .. Len(call.entries) -> CallSteps]
  BY DEF CallInv
<1>1. /\ call.name # "fetch_all" /\ outcome = Running /\ UNCHANGED <<call, spawned, out, log, effects>>
      /\ effects' \in Nat /\ effects' >= effects
  BY <1>0 DEF NoTry, Conclude, TryAgain, Going
<1>2. LoopHolds(call.name, Attempts, at[1], log, effects, outcome)
  BY <1>1 DEF CallInv
<1>3. CASE NoTry
  <2>1. at[1] = "idle" /\ at' = at /\ outcome' = [kind |-> "value", reply |-> "null"]
    BY <1>3 DEF NoTry
  <2>2. at' = [at EXCEPT ![1] = "idle"] /\ "idle" \in CallSteps
    BY <1>0, <2>1 DEF CallSteps
  <2>3. LoopHolds(call.name, Attempts, "idle", log, effects', outcome')
    BY <1>1, <1>2, <2>1 DEF LoopHolds
  <2> QED
    BY <1>1, <2>2, <2>3, LoopMoves
<1>4. ASSUME Conclude \/ TryAgain
      PROVE  /\ at[1] = "heard" /\ effects <= Len(log) /\ Len(log) \in 1 .. Attempts /\ NothingGood(call.name, log, Len(log) - 1)
             /\ ReplyTo(1) = log[Len(log)].reply /\ ReplyTo(1) \in Replies
             /\ Enough(ReplyTo(1)) <=> EnoughFor(call.name, ReplyTo(1))
  <2>1. at[1] = "heard"
    BY <1>4 DEF Conclude, TryAgain, Move
  <2>2. effects <= Len(log) /\ Len(log) \in 1 .. Attempts /\ NothingGood(call.name, log, Len(log) - 1)
    BY <1>2, <2>1 DEF LoopHolds
  <2>3. Len(log) >= 1 /\ Len(log) \in 1 .. Len(log)
    BY <1>0, <2>2
  <2>4. ReplyTo(1) = log[Len(log)].reply
    BY <1>1, <2>3, LastReply
  <2>5. log[Len(log)] \in CallLog
    BY <1>0, <2>3
  <2>6. log[Len(log)].reply \in Replies
    BY <2>5 DEF CallLog
  <2> QED
    BY <2>1, <2>2, <2>4, <2>6 DEF Enough, EnoughFor
<1>5. CASE Conclude
  <2>1. /\ at' = [at EXCEPT ![1] = "done"]
        /\ Enough(ReplyTo(1)) \/ Len(log) = Attempts
        /\ outcome' = [kind |-> IF ReplyTo(1) = "error" THEN "error" ELSE "value", reply |-> ReplyTo(1)]
    BY <1>5 DEF Conclude, Move
  <2>2. outcome'.reply = ReplyTo(1) /\ outcome'.kind = IF ReplyTo(1) = "error" THEN "error" ELSE "value"
    BY <2>1
  <2>3. LoopHolds(call.name, Attempts, "done", log, effects', outcome')
    BY <1>1, <1>4, <1>5, <2>1, <2>2 DEF LoopHolds
  <2>4. "done" \in CallSteps
    BY DEF CallSteps
  <2> QED
    BY <1>1, <2>1, <2>3, <2>4, LoopMoves
<1>6. CASE TryAgain
  <2>1. ~ Enough(ReplyTo(1)) /\ Len(log) < Attempts
    BY <1>6 DEF TryAgain
  <2>2. CASE at' = [at EXCEPT ![1] = "done"] /\ outcome' = [kind |-> "panic", reply |-> "none"]
    <3>1. outcome'.kind \notin {"value", "error"}
      BY <2>2
    <3>2. LoopHolds(call.name, Attempts, "done", log, effects', outcome')
      BY <3>1 DEF LoopHolds
    <3>3. "done" \in CallSteps
      BY DEF CallSteps
    <3> QED
      BY <1>1, <2>2, <3>2, <3>3, LoopMoves
  <2>3. CASE at' = [at EXCEPT ![1] = "started"] /\ outcome' = outcome
    <3>1. NothingGood(call.name, log, Len(log))
      <4>1. \A k \in 1 .. Len(log) : k \in 1 .. Len(log) - 1 \/ k = Len(log)
        BY <1>0
      <4> QED
        BY <1>4, <1>6, <2>1, <4>1 DEF NothingGood
    <3>2. LoopHolds(call.name, Attempts, "started", log, effects', outcome')
      BY <1>1, <1>4, <1>6, <2>1, <3>1 DEF LoopHolds
    <3>3. "started" \in CallSteps /\ outcome' = Running
      BY <1>1, <2>3 DEF CallSteps
    <3> QED
      BY <1>1, <2>3, <3>2, <3>3, LoopMoves
  <2> QED
    BY <1>6, <2>2, <2>3 DEF TryAgain, Move
<1> QED
  BY <1>3, <1>5, <1>6

LEMMA StepCalls == CallInv /\ [CallsNext]_callVars => CallInv'
<1> SUFFICES ASSUME CallInv, [CallsNext]_callVars PROVE CallInv'
  OBVIOUS
<1>1. CASE UNCHANGED callVars
  <2>1. Holding' = Holding /\ Limit' = Limit /\ Attempts' = Attempts
    BY <1>1 DEF callVars, Holding, Limit, Entries, Attempts
  <2> QED
    BY <1>1, <2>1, CallInvNext DEF CallInv, callVars
<1> QED
  BY <1>1, AskedHolds, EntryStepHolds, HeardHolds, StartedHolds, CollectedHolds, EndedHolds DEF CallsNext

LEMMA CallsHold == CallInv => InOrder /\ InFlight /\ Retried
<1> SUFFICES ASSUME CallInv PROVE InOrder /\ InFlight /\ Retried
  OBVIOUS
<1>0. log \in Seq(CallLog) /\ Len(log) \in Nat /\ DOMAIN log = 1 .. Len(log) /\ effects \in Nat
  BY DEF CallInv
<1>1. InOrder
  <2> SUFFICES ASSUME outcome.kind = "value", call.name = "fetch_all", NEW i \in Entries
               PROVE  out[i] = IF OfEntry(i) \cap Answered # {} THEN ReplyTo(i) ELSE "error"
    BY DEF InOrder
  <2>1. outcome # Running
    BY DEF Running
  <2>2. i \in 1 .. Len(call.entries)
    BY CallShape
  <2>3. \/ OfIn(log, i) = {} /\ out[i] = "error"
        \/ \E k \in 1 .. Len(log) : OfIn(log, i) = {k} /\ out[i] = log[k].reply
    BY <2>1, <2>2 DEF CallInv, EntryHolds
  <2>4. OfEntry(i) = OfIn(log, i) /\ Answered = AnsweredIn(log)
    BY CallShape
  <2>5. CASE OfIn(log, i) = {} /\ out[i] = "error"
    BY <2>4, <2>5
  <2>6. ASSUME NEW k \in 1 .. Len(log), OfIn(log, i) = {k}, out[i] = log[k].reply
        PROVE  out[i] = IF OfEntry(i) \cap Answered # {} THEN ReplyTo(i) ELSE "error"
    <3>1. ReplyTo(i) = log[k].reply
      BY <2>6, LastReply
    <3>2. log[k] \in CallLog
      BY <1>0
    <3>3. log[k].reply \in Statuses \/ log[k].reply = "error"
      BY <3>2 DEF CallLog, Replies
    <3>4. OfEntry(i) \cap Answered # {} <=> log[k].reply \in Statuses
      BY <2>4, <2>6 DEF AnsweredIn
    <3> QED
      BY <2>6, <3>1, <3>3, <3>4
  <2> QED
    BY <2>3, <2>5, <2>6
<1>2. InFlight
  <2> DEFINE A == { i \in Entries : at[i] = "asked" }
             n == Len(call.entries)
  <2>1. Entries = 1 .. n /\ n \in Nat /\ Limit \in Nat /\ Holding \in SUBSET (1 .. n) /\ A \in SUBSET Holding
    BY CallShape DEF Holding
  <2>2. IsFiniteSet(Holding) /\ Cardinality(Holding) \in Nat
    BY <2>1, Places
  <2>3. Cardinality(A) <= Cardinality(Holding) /\ Cardinality(A) \in Nat
    BY <2>1, <2>2, FS_Subset, FS_CardinalityType
  <2>4. Cardinality(Holding) <= Limit
    <3>1. CASE call.name = "fetch_all"
      BY <3>1 DEF CallInv
    <3>2. CASE call.name # "fetch_all"
      <4>1. n = 1 /\ Limit >= 1
        BY <3>2, CallShape
      <4>2. Holding \in SUBSET {1}
        BY <2>1, <4>1
      <4>3. Holding = {} \/ Holding = {1}
        BY <4>2
      <4>4. Cardinality({1}) = 1 /\ Cardinality({}) = 0
        BY FS_EmptySet, FS_Singleton
      <4>5. Cardinality(Holding) = 0 \/ Cardinality(Holding) = 1
        BY <4>3, <4>4
      <4> QED
        BY <2>1, <4>1, <4>5
    <3> QED
      BY <3>1, <3>2
  <2> DEFINE a == Cardinality(A)
             h == Cardinality(Holding)
  <2>5. a \in Nat /\ h \in Nat /\ a <= h /\ h <= Limit /\ Limit \in Nat
    BY <2>1, <2>2, <2>3, <2>4
  <2> HIDE DEF a, h
  <2>6. a <= Limit
    BY <2>5
  <2> QED
    BY <2>6 DEF InFlight, a
<1>3. Retried
  <2> SUFFICES ASSUME outcome.kind \in {"value", "error"}, call.name # "fetch_all"
               PROVE  /\ \A k \in DOMAIN log : Enough(log[k].reply) => k = Len(log) /\ outcome.reply = log[k].reply
                      /\ outcome.kind = "error" => Len(log) = Attempts
                      /\ outcome.reply \in Statuses => effects >= 1
                      /\ effects <= Len(log)
    BY DEF Retried
  <2>1. outcome # Running
    BY DEF Running
  <2>2. LoopHolds(call.name, Attempts, at[1], log, effects, outcome)
    BY DEF CallInv
  <2>3. at[1] \in {"idle", "done"}
    <3>1. Len(call.entries) = 1
      BY CallShape
    <3> QED
      BY <2>1, <3>1 DEF CallInv
  <2>4. CASE at[1] = "idle"
    <3>1. log = << >> /\ effects = 0 /\ outcome.reply = "null" /\ outcome.kind = "value"
      BY <2>1, <2>2, <2>4 DEF LoopHolds
    <3>2. Len(log) = 0 /\ DOMAIN log = {}
      BY <3>1
    <3>3. "null" \notin Statuses
      BY DEF Statuses
    <3> QED
      BY <3>1, <3>2, <3>3
  <2>5. CASE at[1] = "done"
    <3>1. /\ effects <= Len(log) /\ Len(log) \in 1 .. Attempts /\ NothingGood(call.name, log, Len(log) - 1)
          /\ outcome.reply = log[Len(log)].reply
          /\ EnoughFor(call.name, outcome.reply) \/ Len(log) = Attempts
          /\ outcome.kind = (IF outcome.reply = "error" THEN "error" ELSE "value")
      BY <2>2, <2>5 DEF LoopHolds
    <3>2. ASSUME NEW k \in DOMAIN log, Enough(log[k].reply) PROVE k = Len(log) /\ outcome.reply = log[k].reply
      <4>1. k \in 1 .. Len(log) - 1 \/ k = Len(log)
        BY <1>0
      <4>2. k \notin 1 .. Len(log) - 1
        BY <3>1, <3>2 DEF NothingGood, Enough, EnoughFor
      <4> QED
        BY <3>1, <4>1, <4>2
    <3>3. outcome.kind = "error" => Len(log) = Attempts
      <4>1. ~ EnoughFor(call.name, "error")
        BY DEF EnoughFor, Settled
      <4>2. outcome.kind = "error" => outcome.reply = "error"
        BY <3>1
      <4> QED
        BY <3>1, <4>1, <4>2
    <3>4. outcome.reply \in Statuses => effects >= 1
      <4> SUFFICES ASSUME outcome.reply \in Statuses PROVE effects >= 1
        OBVIOUS
      <4>1. Len(log) \in AnsweredIn(log)
        BY <1>0, <3>1 DEF AnsweredIn
      <4> DEFINE c == Cardinality(AnsweredIn(log))
                 n == Len(log)
      <4>2. AnsweredIn(log) \in SUBSET (1 .. n)
        BY DEF AnsweredIn
      <4>3. IsFiniteSet(AnsweredIn(log)) /\ c \in Nat
        BY <1>0, <4>2, Places
      <4>4. c # 0
        BY <4>1, <4>3, FS_EmptySet
      <4>5. c <= effects
        BY DEF CallInv
      <4> HIDE DEF c
      <4> QED
        BY <1>0, <4>3, <4>4, <4>5
    <3> QED
      BY <3>1, <3>2, <3>3, <3>4
  <2> QED
    BY <2>3, <2>4, <2>5
<1> QED
  BY <1>1, <1>2, <1>3

\* fetch_all returns in each entry's place the answer to that entry and keeps no more
\* requests open than it was told; fetch_retry and retry return the first good answer
\* and fail only after the last attempt (builtins.go).  Of CallsAnswer that leaves
\* NoStall, which speaks of what is enabled.
THEOREM CallsAnswered == CallsSpec => [](InOrder /\ InFlight /\ Retried) /\ [](NoStall => CallsAnswer)
<1>1. CallInv => InOrder /\ InFlight /\ Retried
  BY CallsHold
<1>2. InOrder /\ InFlight /\ Retried => (NoStall => CallsAnswer)
  BY DEF CallsAnswer
<1> QED
  BY <1>1, <1>2, InitCalls, StepCalls, PTL DEF CallsSpec

-----------------------------------------------------------------------------
(***************************************************************************)
(* Cron.  The bits of a schedule are the values that its rule names.       *)
(***************************************************************************)
LEMMA Multiples ==
  ASSUME NEW x \in Nat, NEW s \in Nat \ {0}
  PROVE  x % s = 0 <=> \E n \in 0 .. x : x = n * s
<1>1. x = (x \div s) * s + (x % s) /\ x \div s \in Nat
  OBVIOUS
<1>2. ASSUME x % s = 0 PROVE \E n \in 0 .. x : x = n * s
  <2> DEFINE n == x \div s
  <2>1. x = n * s /\ n \in Nat
    BY <1>1, <1>2
  <2>2. n <= n * s
    BY <2>1
  <2> QED
    BY <2>1, <2>2
<1>3. ASSUME NEW n \in 0 .. x, x = n * s PROVE x % s = 0
  <2>1. (n * s) % s = 0
    OBVIOUS
  <2> QED
    BY <1>3, <2>1
<1> QED
  BY <1>2, <1>3

\* The values of a field are an interval, from which Min and Max take the ends.
LEMMA FieldEnds ==
  ASSUME NEW f \in 1 .. 5
  PROVE  LET lo == Min(FieldRange[f])
             hi == Max(FieldRange[f])
         IN  lo \in Nat /\ hi \in Nat /\ FieldRange[f] = lo .. hi /\ lo <= hi
<1>1. ASSUME NEW lo \in Nat, NEW hi \in Nat, lo <= hi
      PROVE  Min(lo .. hi) = lo /\ Max(lo .. hi) = hi
  <2> DEFINE S == lo .. hi
  <2>1. /\ S \subseteq Int /\ lo \in S /\ hi \in S
        /\ \A k \in S : lo <= k /\ k <= hi
    BY <1>1
  <2> HIDE DEF S
  <2>2. Min(S) = lo /\ Max(S) = hi
    BY <2>1, MinIs, MaxIs
  <2> QED
    BY <2>2 DEF S
<1>2. \E lo, hi \in Nat : lo <= hi /\ FieldRange[f] = lo .. hi
  <2>1. Minutes - 1 \in Nat /\ Hours - 1 \in Nat
    BY CronAssumption
  <2>2. CASE f = 1
    <3>1. FieldRange[f] = 0 .. Minutes - 1
      BY <2>2 DEF FieldRange
    <3> QED
      BY <2>1, <3>1
  <2>3. CASE f = 2
    <3>1. FieldRange[f] = 0 .. Hours - 1
      BY <2>3 DEF FieldRange
    <3> QED
      BY <2>1, <3>1
  <2>4. CASE f = 3
    <3>1. FieldRange[f] = 1 .. 31
      BY <2>4 DEF FieldRange
    <3>2. 1 \in Nat /\ 31 \in Nat /\ 1 <= 31
      OBVIOUS
    <3> WITNESS 1 \in Nat, 31 \in Nat
    <3> QED
      BY <3>1, <3>2
  <2>5. CASE f = 4
    <3>1. FieldRange[f] = 1 .. 12
      BY <2>5 DEF FieldRange
    <3>2. 1 \in Nat /\ 12 \in Nat /\ 1 <= 12
      OBVIOUS
    <3> WITNESS 1 \in Nat, 12 \in Nat
    <3> QED
      BY <3>1, <3>2
  <2>6. CASE f = 5
    <3>1. FieldRange[f] = 0 .. 6
      BY <2>6 DEF FieldRange
    <3> QED
      BY <3>1
  <2> QED
    BY <2>2, <2>3, <2>4, <2>5, <2>6
<1> QED
  BY <1>1, <1>2

ValidRule(r) == \A f \in 1 .. 5 : \A k \in DOMAIN r[f] : ValidItem(f, r[f][k])

LEMMA BitsNamed ==
  ASSUME rule \in Rules, ValidRule(rule), NEW f \in 1 .. 5, NEW v
  PROVE  v \in Bits(f, rule[f]) <=> Named(f, v)
<1> DEFINE lo == Min(FieldRange[f])
           hi == Max(FieldRange[f])
<1>1. lo \in Nat /\ hi \in Nat /\ FieldRange[f] = lo .. hi /\ lo <= hi
  BY FieldEnds
<1>2. rule[f] \in Seq(Items)
  BY CronAssumption
<1> HIDE DEF lo, hi
<1>3. ASSUME NEW k \in DOMAIN rule[f]
      PROVE  LET item == rule[f][k]
             IN  v \in { w \in Low(f, item) .. High(f, item) : (w - Low(f, item)) % item.step = 0 }
                 <=> /\ v \in FieldRange[f]
                     /\ IF item.low = -1 THEN \E n \in 0 .. v : v = lo + n * item.step
                        ELSE \E n \in 0 .. v : v = item.low + n * item.step /\ v <= item.high
  <2> DEFINE item == rule[f][k]
             a == Low(f, item)
             b == High(f, item)
             s == item.step
  <2>1. item \in Items
    BY <1>2
  <2>2. ValidItem(f, item)
    BY DEF ValidRule
  <2>3. s \in Nat \ {0} /\ a \in Nat /\ b \in Nat /\ a <= b /\ a \in lo .. hi /\ b \in lo .. hi
    <3>1. s >= 1 /\ a <= b /\ a \in FieldRange[f] /\ b \in FieldRange[f]
      BY <2>2 DEF ValidItem
    <3>2. s \in Int
      BY <2>1 DEF Items
    <3> HIDE DEF a, b, s
    <3>3. a \in lo .. hi /\ b \in lo .. hi
      BY <1>1, <3>1
    <3> QED
      BY <1>1, <3>1, <3>2, <3>3
  <2>4. a = (IF item.low = -1 THEN lo ELSE item.low) /\ b = (IF item.low = -1 THEN hi ELSE item.high)
    BY DEF Low, High, lo, hi
  <2> HIDE DEF a, b, s
  <2>5. ASSUME v \in a .. b PROVE (v - a) % s = 0 <=> \E n \in 0 .. v : v = a + n * s
    <3>1. v - a \in Nat /\ v \in Nat
      BY <2>3, <2>5
    <3>2. (v - a) % s = 0 <=> \E n \in 0 .. v - a : v - a = n * s
      BY <2>3, <3>1, Multiples
    <3>3. ASSUME NEW n \in 0 .. v - a, v - a = n * s PROVE n \in 0 .. v /\ v = a + n * s
      BY <2>3, <3>1, <3>3
    <3>4. ASSUME NEW n \in 0 .. v, v = a + n * s PROVE n \in 0 .. v - a /\ v - a = n * s
      <4>1. n <= n * s /\ n \in Nat /\ n * s \in Nat
        BY <2>3, <3>1
      <4> DEFINE m == n * s
      <4>2. n <= m /\ m \in Nat /\ v = a + m
        BY <3>4, <4>1
      <4> HIDE DEF m
      <4>3. n \in 0 .. v - a /\ v - a = m
        BY <2>3, <3>1, <4>1, <4>2
      <4> QED
        BY <4>3 DEF m
    <3> QED
      BY <3>2, <3>3, <3>4
  <2>6. ASSUME NEW n \in Nat, v = a + n * s PROVE v \in Nat /\ a <= v
    <3> DEFINE m == n * s
    <3>1. m \in Nat
      BY <2>3
    <3> HIDE DEF m
    <3>2. v = a + m
      BY <2>6 DEF m
    <3> QED
      BY <2>3, <3>1, <3>2
  <2>7. CASE item.low = -1
    <3>1. a = lo /\ b = hi
      BY <2>4, <2>7
    <3>2. v \in { w \in a .. b : (w - a) % s = 0 } <=> v \in FieldRange[f] /\ \E n \in 0 .. v : v = lo + n * s
      BY <1>1, <2>5, <3>1
    <3> QED
      BY <2>7, <3>2 DEF a, b, s
  <2>8. CASE item.low # -1
    <3>1. a = item.low /\ b = item.high
      BY <2>4, <2>8
    <3>2. ASSUME v \in a .. b PROVE v \in lo .. hi /\ v <= b
      BY <1>1, <2>3, <3>2
    <3>3. ASSUME v \in FieldRange[f], NEW n \in 0 .. v, v = a + n * s, v <= b PROVE v \in a .. b
      <4>1. v \in Nat
        BY <1>1, <3>3
      <4> QED
        BY <2>3, <2>6, <3>3, <4>1
    <3>4. v \in { w \in a .. b : (w - a) % s = 0 } <=>
          v \in FieldRange[f] /\ \E n \in 0 .. v : v = a + n * s /\ v <= b
      BY <1>1, <2>5, <3>2, <3>3
    <3> QED
      BY <2>8, <3>1, <3>4 DEF a, b, s
  <2> QED
    BY <2>7, <2>8
<1> QED
  BY <1>3 DEF Bits, Named, lo

LEMMA MatchesWanted ==
  ASSUME rule \in Rules, schedule = ParseCron(rule), schedule # NoSchedule, NEW t
  PROVE  MatchesAt(schedule, t) <=> Wanted(t)
<1>1. ValidRule(rule)
  BY DEF ParseCron, ValidRule
<1>2. /\ schedule.bits = [f \in 1 .. 5 |-> Bits(f, rule[f])]
      /\ schedule.domStar = (rule[3] = << Star >>) /\ schedule.dowStar = (rule[5] = << Star >>)
  <2>1. schedule = [bits |-> [f \in 1 .. 5 |-> Bits(f, rule[f])],
                    domStar |-> rule[3] = << Star >>, dowStar |-> rule[5] = << Star >>]
    BY DEF ParseCron
  <2> QED
    BY <2>1
<1>3. ASSUME NEW f \in 1 .. 5, NEW v PROVE v \in schedule.bits[f] <=> Named(f, v)
  BY <1>1, <1>2, BitsNamed
<1> DEFINE date == Calendar[t \div DayLength]
           dom == Named(3, date.dom)
           dow == Named(5, date.dow)
<1>4. DayMatches(schedule, date) <=>
        /\ Named(4, date.month)
        /\ \/ rule[3] = << Star >> /\ rule[5] = << Star >>
           \/ rule[3] # << Star >> /\ dom
           \/ rule[5] # << Star >> /\ dow
  <2>1. /\ date.month \in schedule.bits[4] <=> Named(4, date.month)
        /\ date.dom \in schedule.bits[3] <=> dom
        /\ date.dow \in schedule.bits[5] <=> dow
    BY <1>3
  <2> HIDE DEF date, dom, dow
  <2>2. CASE rule[3] = << Star >> /\ rule[5] = << Star >>
    BY <1>2, <2>1, <2>2 DEF DayMatches
  <2>3. CASE rule[3] = << Star >> /\ rule[5] # << Star >>
    BY <1>2, <2>1, <2>3 DEF DayMatches
  <2>4. CASE rule[3] # << Star >> /\ rule[5] = << Star >>
    BY <1>2, <2>1, <2>4 DEF DayMatches
  <2>5. CASE rule[3] # << Star >> /\ rule[5] # << Star >>
    BY <1>2, <2>1, <2>5 DEF DayMatches
  <2> QED
    BY <2>2, <2>3, <2>4, <2>5
<1>5. /\ t % Minutes \in schedule.bits[1] <=> Named(1, t % Minutes)
      /\ (t % DayLength) \div Minutes \in schedule.bits[2] <=> Named(2, (t % DayLength) \div Minutes)
  BY <1>3
<1> QED
  BY <1>4, <1>5 DEF MatchesAt, Wanted

\* The search finds the first firing, when there is one.
LEMMA NextFires ==
  ASSUME NEW s, NEW from \in Nat, NEW n, n = NextFiring(s, from)
  PROVE  /\ n = Never \/ n \in Nat
         /\ n # Never => n > from /\ MatchesAt(s, n) /\ \A u \in from + 1 .. n - 1 : ~ MatchesAt(s, u)
         /\ n = Never => \A t \in from + 1 .. from + SearchDays * DayLength : ~ MatchesAt(s, t)
<1> DEFINE last == from + SearchDays * DayLength
           T == { t \in from + 1 .. last : MatchesAt(s, t) }
<1>1. last \in Nat
  <2>1. Hours \in Nat /\ Minutes \in Nat /\ SearchDays \in Nat
    BY CronAssumption
  <2>2. DayLength \in Nat
    BY <2>1 DEF DayLength
  <2>3. SearchDays * DayLength \in Nat
    BY <2>1, <2>2
  <2> DEFINE m == SearchDays * DayLength
  <2> HIDE DEF m
  <2>4. from + m \in Nat
    BY <2>3 DEF m
  <2> QED
    BY <2>4 DEF m
<1>2. n = IF FiresIn(s, from + 1, last)
          THEN CHOOSE t \in from + 1 .. last : MatchesAt(s, t) /\ \A u \in from + 1 .. t - 1 : ~ MatchesAt(s, u)
          ELSE Never
  BY DEF NextFiring
<1> HIDE DEF last
<1>3. CASE FiresIn(s, from + 1, last)
  <2>1. T \in SUBSET Nat /\ T # {}
    BY <1>1, <1>3 DEF FiresIn
  <2>2. PICK t \in T : \A u \in T : t <= u
    BY <2>1, LeastIndex
  <2>3. \A u \in from + 1 .. t - 1 : u \in from + 1 .. last /\ ~ (t <= u)
    BY <1>1, <2>1
  <2>4. t \in from + 1 .. last /\ MatchesAt(s, t) /\ \A u \in from + 1 .. t - 1 : ~ MatchesAt(s, u)
    BY <2>2, <2>3
  <2>5. n \in from + 1 .. last /\ MatchesAt(s, n) /\ \A u \in from + 1 .. n - 1 : ~ MatchesAt(s, u)
    BY <1>2, <1>3, <2>4
  <2> QED
    BY <1>1, <2>5 DEF Never
<1>4. CASE ~ FiresIn(s, from + 1, last)
  BY <1>2, <1>4 DEF FiresIn, last
<1> QED
  BY <1>3, <1>4

(* The goroutine *)

CronFirings == [at : Int, from : Int]

CronInv ==
    /\ rule \in Rules /\ schedule = ParseCron(rule) /\ time \in Nat
    /\ cronStep \in {"look", "sleep", "run"} \/ cronStep = "over"
    /\ cronStep \in {"look", "sleep", "run"} => schedule # NoSchedule
    /\ cronStep = "sleep" =>
          /\ due \in Nat /\ due > time /\ MatchesAt(schedule, due)
          /\ \A u \in time + 1 .. due - 1 : ~ MatchesAt(schedule, u)
    /\ firings \in Seq(CronFirings)
    /\ Len(firings) > 0 => firings[Len(firings)].at <= time
    /\ OnTime
    /\ cronStep # "over" /\ Len(firings) > 0 => due # Never
    /\ GivesUp

LEMMA CronInvNext == CronInv' <=>
    /\ rule' \in Rules /\ schedule' = ParseCron(rule') /\ time' \in Nat
    /\ cronStep' \in {"look", "sleep", "run"} \/ cronStep' = "over"
    /\ cronStep' \in {"look", "sleep", "run"} => schedule' # NoSchedule
    /\ cronStep' = "sleep" =>
          /\ due' \in Nat /\ due' > time' /\ MatchesAt(schedule', due')
          /\ \A u \in time' + 1 .. due' - 1 : ~ MatchesAt(schedule', u)
    /\ firings' \in Seq(CronFirings)
    /\ Len(firings') > 0 => firings'[Len(firings')].at <= time'
    /\ OnTime'
    /\ cronStep' # "over" /\ Len(firings') > 0 => due' # Never
    /\ GivesUp'
  BY DEF CronInv, NoSchedule, Never

LEMMA InitCron == CronInit => CronInv
<1> SUFFICES ASSUME CronInit PROVE CronInv
  OBVIOUS
<1>1. /\ rule \in Rules /\ time \in Starts /\ schedule = ParseCron(rule) /\ firings = << >>
      /\ cronStep = IF schedule = NoSchedule THEN "over" ELSE "look"
  BY DEF CronInit
<1>2. time \in Nat
  BY <1>1, CronAssumption
<1>3. firings \in Seq(CronFirings) /\ Len(firings) = 0 /\ DOMAIN firings = {}
  BY <1>1
<1>4. OnTime
  BY <1>3 DEF OnTime
<1>5. GivesUp
  BY <1>1 DEF GivesUp
<1> QED
  BY <1>1, <1>2, <1>3, <1>4, <1>5 DEF CronInv

\* What is wanted depends on the rule alone.
LEMMA WantedSame == rule' = rule => \A t : Wanted(t)' <=> Wanted(t)
<1> SUFFICES ASSUME rule' = rule, NEW t PROVE Wanted(t)' <=> Wanted(t)
  OBVIOUS
<1>1. \A f, v : Named(f, v)' <=> Named(f, v)
  BY DEF Named
<1> QED
  BY <1>1 DEF Wanted

\* The same of a rule and a list of firings that are given.
NamedBy(r, field, v) ==
    /\ v \in FieldRange[field]
    /\ \E k \in DOMAIN r[field] :
          LET item == r[field][k]
          IN  IF item.low = -1 THEN \E n \in 0 .. v : v = Min(FieldRange[field]) + n * item.step
              ELSE \E n \in 0 .. v : v = item.low + n * item.step /\ v <= item.high
WantedBy(r, t) ==
    LET date == Calendar[t \div DayLength]
        free(field) == r[field] = <<Star>>
    IN  /\ NamedBy(r, 1, t % Minutes) /\ NamedBy(r, 2, (t % DayLength) \div Minutes) /\ NamedBy(r, 4, date.month)
        /\ \/ free(3) /\ free(5)
           \/ ~free(3) /\ NamedBy(r, 3, date.dom)
           \/ ~free(5) /\ NamedBy(r, 5, date.dow)
OnTimeIn(r, fs) ==
    \A k \in DOMAIN fs :
       /\ WantedBy(r, fs[k].at)
       /\ \A t \in fs[k].from + 1 .. fs[k].at - 1 : ~WantedBy(r, t)
       /\ k > 1 => fs[k - 1].at < fs[k].at

LEMMA WantedIs == \A t : Wanted(t) <=> WantedBy(rule, t)
<1>1. \A f, v : Named(f, v) <=> NamedBy(rule, f, v)
  BY DEF Named, NamedBy
<1> QED
  BY <1>1 DEF Wanted, WantedBy

LEMMA OnTimeNext == OnTime' <=> OnTimeIn(rule', firings')
<1>1. \A f, v : Named(f, v)' <=> NamedBy(rule', f, v)
  BY DEF Named, NamedBy
<1>2. \A t : Wanted(t)' <=> WantedBy(rule', t)
  BY <1>1 DEF Wanted, WantedBy
<1> QED
  BY <1>2 DEF OnTime, OnTimeIn

LEMMA StepCron == CronInv /\ [CronNext]_cronVars => CronInv'
<1> SUFFICES ASSUME CronInv, [CronNext]_cronVars PROVE CronInv'
  OBVIOUS
<1>0. /\ rule \in Rules /\ schedule = ParseCron(rule) /\ time \in Nat /\ firings \in Seq(CronFirings)
      /\ Len(firings) \in Nat /\ DOMAIN firings = 1 .. Len(firings) /\ OnTime /\ GivesUp
  BY DEF CronInv
<1>1. rule' = rule /\ schedule' = schedule
  BY DEF CronNext, Look, Fire, StopCron, FnEnds, cronVars
<1>2. \A t : Wanted(t)' <=> Wanted(t)
  BY <1>1, WantedSame
<1>3. firings' = firings => OnTime'
  BY <1>0, <1>2 DEF OnTime
<1>4. CASE UNCHANGED cronVars
  <2>1. GivesUp'
    BY <1>0, <1>2, <1>4 DEF GivesUp, cronVars
  <2> QED
    BY <1>1, <1>3, <1>4, <2>1, CronInvNext DEF CronInv, cronVars
<1>5. CASE Look
  <2>1. /\ cronStep = "look" /\ due' = NextFiring(schedule, time) /\ UNCHANGED <<time, firings>>
        /\ cronStep' = IF due' = Never THEN "over" ELSE "sleep"
    BY <1>5 DEF Look
  <2>2. schedule # NoSchedule
    BY <2>1 DEF CronInv
  <2>3. /\ due' = Never \/ due' \in Nat
        /\ due' # Never => /\ due' > time /\ MatchesAt(schedule, due')
                           /\ \A u \in time + 1 .. due' - 1 : ~ MatchesAt(schedule, u)
        /\ due' = Never => \A t \in time + 1 .. time + SearchDays * DayLength : ~ MatchesAt(schedule, t)
    BY <1>0, <2>1, NextFires
  <2>4. GivesUp'
    <3>1. due' = Never => \A t \in time + 1 .. time + SearchDays * DayLength : ~ Wanted(t)
      BY <1>0, <2>2, <2>3, MatchesWanted
    <3> QED
      BY <1>2, <2>1, <3>1 DEF GivesUp
  <2> QED
    BY <1>0, <1>1, <1>3, <2>1, <2>2, <2>3, <2>4, CronInvNext DEF CronInv
<1>6. CASE Fire
  <2> DEFINE r == [at |-> due, from |-> time]
             n == Len(firings)
  <2>1. cronStep = "sleep" /\ time' = due /\ firings' = Append(firings, r) /\ cronStep' = "run" /\ due' = due
    BY <1>6 DEF Fire
  <2>2. /\ schedule # NoSchedule /\ due \in Nat /\ due > time /\ MatchesAt(schedule, due)
        /\ \A u \in time + 1 .. due - 1 : ~ MatchesAt(schedule, u)
    BY <2>1 DEF CronInv
  <2>3. r \in CronFirings /\ r.at = due /\ r.from = time
    BY <1>0, <2>2 DEF CronFirings
  <2> HIDE DEF r
  <2>4. /\ firings' \in Seq(CronFirings) /\ Len(firings') = n + 1 /\ DOMAIN firings' = 1 .. n + 1 /\ firings'[n + 1] = r
        /\ \A k \in 1 .. n : firings'[k] = firings[k]
        /\ \A k \in 1 .. n + 1 : k \in 1 .. n \/ k = n + 1
    BY <1>0, <2>1, <2>3
  <2>5. Wanted(due) /\ \A t \in time + 1 .. due - 1 : ~ Wanted(t)
    BY <1>0, <2>2, MatchesWanted
  <2>6. n > 0 => firings[n].at < due
    <3>1. n > 0 => firings[n].at <= time /\ firings[n] \in CronFirings
      BY <1>0 DEF CronInv
    <3>2. n > 0 => firings[n].at \in Int
      BY <3>1 DEF CronFirings
    <3> QED
      BY <1>0, <2>2, <3>1, <3>2
  <2>7. ASSUME NEW k \in 1 .. n + 1
        PROVE  /\ Wanted(firings'[k].at)
               /\ \A t \in firings'[k].from + 1 .. firings'[k].at - 1 : ~ Wanted(t)
               /\ k > 1 => firings'[k - 1].at < firings'[k].at
    <3>1. CASE k = n + 1
      <4>1. k > 1 => n > 0 /\ k - 1 = n /\ n \in 1 .. n
        BY <1>0, <3>1
      <4> QED
        BY <2>3, <2>4, <2>5, <2>6, <3>1, <4>1
    <3>2. CASE k \in 1 .. n
      <4>1. k > 1 => k - 1 \in 1 .. n
        BY <1>0, <3>2
      <4>2. /\ Wanted(firings[k].at)
            /\ \A t \in firings[k].from + 1 .. firings[k].at - 1 : ~ Wanted(t)
            /\ k > 1 => firings[k - 1].at < firings[k].at
        BY <1>0, <3>2 DEF OnTime
      <4> QED
        BY <2>4, <3>2, <4>1, <4>2
    <3> QED
      BY <2>4, <3>1, <3>2
  <2>8. OnTime'
    <3>1. \A t : Wanted(t) <=> WantedBy(rule', t)
      BY <1>1, WantedIs
    <3>2. OnTimeIn(rule', firings')
      BY <2>4, <2>7, <3>1 DEF OnTimeIn
    <3> QED
      BY <3>2, OnTimeNext
  <2>9. GivesUp'
    BY <2>1 DEF GivesUp
  <2>10. firings'[Len(firings')].at <= time' /\ due' # Never
    BY <2>1, <2>2, <2>3, <2>4 DEF Never
  <2> QED
    BY <1>0, <1>1, <2>1, <2>2, <2>4, <2>8, <2>9, <2>10, CronInvNext
<1>7. CASE StopCron
  <2>1. cronStep \in {"look", "sleep"} /\ cronStep' = "over" /\ UNCHANGED <<time, due, firings>>
    BY <1>7 DEF StopCron
  <2>2. firings # << >> => due # Never
    <3>1. firings # << >> => Len(firings) > 0
      BY <1>0
    <3> QED
      BY <2>1, <3>1 DEF CronInv
  <2>3. GivesUp'
    BY <2>1, <2>2 DEF GivesUp, Never
  <2> QED
    BY <1>0, <1>1, <1>3, <2>1, <2>3, CronInvNext DEF CronInv
<1>8. ASSUME NEW d \in Durations, FnEnds(d) PROVE CronInv'
  <2>1. cronStep = "run" /\ time' = time + d /\ cronStep' = "look" /\ UNCHANGED <<due, firings>>
    BY <1>8 DEF FnEnds
  <2>2. d \in Nat /\ time' \in Nat /\ time <= time'
    <3>1. d \in Nat
      BY CronAssumption
    <3> QED
      BY <1>0, <2>1, <3>1
  <2>3. Len(firings) > 0 => firings[Len(firings)].at <= time'
    <3>1. Len(firings) > 0 => firings[Len(firings)] \in CronFirings /\ firings[Len(firings)].at <= time
      BY <1>0 DEF CronInv
    <3>2. Len(firings) > 0 => firings[Len(firings)].at \in Int
      BY <3>1 DEF CronFirings
    <3> QED
      BY <1>0, <2>2, <3>1, <3>2
  <2>4. GivesUp'
    BY <2>1 DEF GivesUp
  <2> QED
    BY <1>0, <1>1, <1>3, <2>1, <2>2, <2>3, <2>4, CronInvNext DEF CronInv
<1> QED
  BY <1>4, <1>5, <1>6, <1>7, <1>8 DEF CronNext

\* Every firing of cron is a minute that its rule names, whatever the rule, in order
\* and with none between two searches left out, and a rule that is given up names no
\* minute of the days searched (ParseCron, Match, Next of cron.go, builtinCron).
THEOREM CronFires == CronSpec => []CronOnTime
<1>1. CronInv => CronOnTime
  BY DEF CronInv, CronOnTime
<1> QED
  BY <1>1, InitCron, StepCron, PTL DEF CronSpec

-----------------------------------------------------------------------------
(* Symbols and texts *)

LEMMA SymbolFields ==
  \A tag, holds : Symbol(tag, holds).tag = tag /\ Symbol(tag, holds).holds = holds
  BY DEF Symbol

\* The tags that a program does not choose are no secrets.
LEMMA TagsApart ==
  \A s \in Secrets : s \notin {".", "base64", "number", "header", "null", "pbkdf2", "1"}
  BY TokensAssumption

LEMMA NotDots ==
  /\ \A text : Enc(text) # Dot
  /\ \A s \in Secrets : \A text : Hmac(s, text) # Dot
  /\ \A n : Number(n) # Dot
  /\ Symbol("header", <<>>) # Dot
  BY SymbolFields, TagsApart DEF Enc, Hmac, Number, Dot

LEMMA EncSame == \A x, y : Enc(x) = Enc(y) <=> x = y
  BY SymbolFields DEF Enc

LEMMA HmacSame == \A k, m, x, y : Hmac(k, x) = Hmac(m, y) <=> k = m /\ x = y
  BY SymbolFields DEF Hmac

LEMMA TicksOf == \A n \in Int : Ticks(Number(n)) = IF n > 0 THEN n ELSE 0
<1> SUFFICES ASSUME NEW n \in Int PROVE Ticks(Number(n)) = IF n > 0 THEN n ELSE 0
  OBVIOUS
<1> DEFINE ones == [k \in 1 .. n |-> Symbol("1", <<>>)]
           m == IF n > 0 THEN n ELSE 0
<1>1. m \in Nat /\ 1 .. n = 1 .. m
  OBVIOUS
<1>2. ones \in [1 .. m -> {Symbol("1", <<>>)}]
  BY <1>1
<1>3. Len(ones) = m
  <2>1. DOMAIN ones = 1 .. m
    BY <1>1
  <2>2. ones \in Seq({Symbol("1", <<>>)})
    BY <1>1, <1>2, SeqDef
  <2> DEFINE l == Len(ones)
  <2>3. l \in Nat /\ 1 .. l = 1 .. m
    BY <2>1, <2>2, LenProperties
  <2> HIDE DEF l, m, ones
  <2>4. (l > 0 => l \in 1 .. m) /\ (m > 0 => m \in 1 .. l)
    BY <1>1, <2>3
  <2>5. l = m
    BY <1>1, <2>3, <2>4
  <2> QED
    BY <2>5 DEF l
<1>4. Number(n).holds = ones
  BY SymbolFields DEF Number
<1> QED
  BY <1>3, <1>4 DEF Ticks

LEMMA NumberSame == \A n, m \in Nat : Number(n) = Number(m) <=> n = m
<1> SUFFICES ASSUME NEW n \in Nat, NEW m \in Nat, Number(n) = Number(m) PROVE n = m
  OBVIOUS
<1>1. Ticks(Number(n)) = n /\ Ticks(Number(m)) = m
  BY TicksOf
<1> QED
  BY <1>1

LEMMA NotNull == NoText[1] = Symbol("null", <<>>) /\ Len(NoText) = 1
  BY DEF NoText

\* A payload is a sequence.
LEMMA PayloadSeq == \A p \in Payloads : p # NoText /\ \E T : p \in Seq(T)
  BY TokensAssumption

(* Signing appends a dot and a symbol *)

LEMMA Signed ==
  ASSUME NEW T, NEW p \in Seq(T), NEW h
  PROVE  LET text == p \o <<Dot, h>>
         IN  /\ Len(text) = Len(p) + 2 /\ DOMAIN text = 1 .. Len(p) + 2
             /\ \A k \in 1 .. Len(p) : text[k] = p[k]
             /\ text[Len(p) + 1] = Dot /\ text[Len(p) + 2] = h
             /\ Before(text, Len(p) + 1) = p /\ After(text, Len(p) + 1) = <<h>>
<1> DEFINE U == T \cup {Dot, h}
           tail == <<Dot, h>>
           text == p \o tail
           n == Len(p)
<1>1. p \in Seq(U) /\ n \in Nat
  BY SeqMonotonic
<1>2. tail \in Seq(U) /\ Len(tail) = 2 /\ tail[1] = Dot /\ tail[2] = h
  OBVIOUS
<1> HIDE DEF tail, U
<1>3. /\ text \in Seq(U) /\ Len(text) = n + 2
      /\ \A k \in 1 .. n + 2 : text[k] = IF k <= n THEN p[k] ELSE tail[k - n]
  <2>1. Len(tail) = 2 /\ tail \in Seq(U) /\ p \in Seq(U)
    BY <1>1, <1>2
  <2>2. /\ p \o tail \in Seq(U) /\ Len(p \o tail) = n + Len(tail)
        /\ \A k \in 1 .. n + Len(tail) : (p \o tail)[k] = IF k <= n THEN p[k] ELSE tail[k - n]
    BY <2>1, ConcatProperties
  <2> QED
    BY <2>1, <2>2
<1> HIDE DEF text
<1>4. /\ DOMAIN text = 1 .. n + 2 /\ \A k \in 1 .. n : text[k] = p[k]
      /\ text[n + 1] = Dot /\ text[n + 2] = h
  BY <1>1, <1>2, <1>3
<1>5. /\ \A k \in 1 .. n : text[k] \in U
      /\ \A k \in n + 2 .. n + 2 : text[k] \in U
  BY <1>1, <1>2, <1>3, <1>4
<1>6. Before(text, n + 1) = p
  <2>1. Before(text, n + 1) = SubSeq(text, 1, n)
    BY <1>1 DEF Before
  <2>2. /\ SubSeq(text, 1, n) \in Seq(U) /\ Len(SubSeq(text, 1, n)) = n
        /\ \A k \in 1 .. n : SubSeq(text, 1, n)[k] = text[k]
    BY <1>1, <1>5, SubSeqProperties
  <2> QED
    BY <1>1, <1>4, <2>1, <2>2, SeqEqual
<1>7. After(text, n + 1) = <<h>>
  <2>1. After(text, n + 1) = SubSeq(text, n + 2, n + 2)
    BY <1>1, <1>3 DEF After
  <2>2. /\ SubSeq(text, n + 2, n + 2) \in Seq(U) /\ Len(SubSeq(text, n + 2, n + 2)) = 1
        /\ SubSeq(text, n + 2, n + 2)[1] = h
    BY <1>1, <1>4, <1>5
  <2> QED
    BY <2>1, <2>2
<1> QED
  BY <1>3, <1>4, <1>6, <1>7 DEF text, tail

(* Checking, one kind of credential at a time *)

\* A text that ends in a dot and a digest opens, at that dot, to what was signed.
LEMMA Opens ==
  ASSUME NEW T, NEW p \in Seq(T), NEW key, NEW other, p # NoText
  PROVE  OpenAt(SignCookie(p, other), Len(p) + 1, key) = IF other = key THEN p ELSE NoText
<1> DEFINE h == Enc(<<Hmac(other, p)>>)
           text == p \o <<Dot, h>>
           n == Len(p)
<1>1. SignCookie(p, other) = text
  BY DEF SignCookie
<1>2. Before(text, n + 1) = p /\ After(text, n + 1) = <<h>>
  BY Signed
<1> HIDE DEF text
<1>3. <<h>> = <<Enc(<<Hmac(key, p)>>)>> <=> other = key
  <2>1. Enc(<<Hmac(other, p)>>) = Enc(<<Hmac(key, p)>>) <=> <<Hmac(other, p)>> = <<Hmac(key, p)>>
    BY EncSame
  <2>2. <<Hmac(other, p)>> = <<Hmac(key, p)>> <=> other = key
    BY HmacSame
  <2> QED
    BY <2>1, <2>2
<1> QED
  BY <1>1, <1>2, <1>3 DEF OpenAt

LEMMA SessionChecked ==
  ASSUME NEW payload, NEW key, NEW other
  PROVE  SessionRead(SignCookie(<<Enc(payload)>>, other), key) = IF other = key THEN payload ELSE NoText
<1> DEFINE p == <<Enc(payload)>>
           h == Enc(<<Hmac(other, p)>>)
           text == p \o <<Dot, h>>
<1>1. p \in Seq({Enc(payload)}) /\ Len(p) = 1 /\ p[1] = Enc(payload)
  OBVIOUS
<1>2. p # NoText
  BY <1>1, NotNull, SymbolFields DEF Enc
<1> HIDE DEF p
<1>3. Len(text) = 3 /\ DOMAIN text = 1 .. 3 /\ text[1] = Enc(payload) /\ text[2] = Dot /\ text[3] = h
  <2>0. PICK T : p \in Seq(T)
    BY <1>1
  <2>1. /\ Len(text) = Len(p) + 2 /\ DOMAIN text = 1 .. Len(p) + 2
        /\ \A k \in 1 .. Len(p) : text[k] = p[k]
        /\ text[Len(p) + 1] = Dot /\ text[Len(p) + 2] = h
    BY <2>0, Signed
  <2> HIDE DEF text
  <2> QED
    BY <1>1, <2>1
<1> HIDE DEF text, h
<1>4. Dots(text) = {2}
  <2>1. text[1] # Dot /\ text[3] # Dot
    BY <1>3, NotDots DEF h
  <2> QED
    BY <1>3, <2>1 DEF Dots
<1>5. Min(Dots(text)) = 2
  BY <1>4, MinIs
<1>6. SignCookie(p, other) = text
  BY DEF SignCookie, text, h
<1>7. OpenAt(text, 2, key) = IF other = key THEN p ELSE NoText
  <2>1. OpenAt(SignCookie(p, other), Len(p) + 1, key) = IF other = key THEN p ELSE NoText
    BY <1>1, <1>2, Opens
  <2> QED
    BY <1>1, <1>6, <2>1
<1>8. p[1].holds = payload
  BY <1>1, SymbolFields DEF Enc
<1>9. SessionRead(text, key) = IF other = key THEN payload ELSE NoText
  BY <1>2, <1>4, <1>5, <1>7, <1>8 DEF SessionRead
<1> QED
  BY <1>6, <1>9 DEF p

LEMMA CookieChecked ==
  ASSUME NEW payload \in Payloads, NEW key, NEW other
  PROVE  VerifyCookie(SignCookie(payload, other), key) = IF other = key THEN payload ELSE NoText
<1>1. PICK T : payload \in Seq(T)
  BY PayloadSeq
<1> DEFINE h == Enc(<<Hmac(other, payload)>>)
           text == payload \o <<Dot, h>>
           n == Len(payload)
<1>2. n \in Nat /\ DOMAIN text = 1 .. n + 2 /\ text[n + 1] = Dot /\ text[n + 2] = h
  BY <1>1, Signed
<1>3. h # Dot
  BY NotDots
<1> HIDE DEF text, h
<1>4. Max(Dots(text)) = n + 1 /\ Dots(text) # {}
  <2>1. n + 1 \in Dots(text) /\ Dots(text) \subseteq Int /\ \A k \in Dots(text) : k <= n + 1
    BY <1>2, <1>3 DEF Dots
  <2> QED
    BY <2>1, MaxIs
<1>5. SignCookie(payload, other) = text
  BY DEF SignCookie, text, h
<1>6. payload # NoText
  BY PayloadSeq
<1>7. OpenAt(text, n + 1, key) = IF other = key THEN payload ELSE NoText
  BY <1>1, <1>5, <1>6, Opens
<1> QED
  BY <1>4, <1>5, <1>7 DEF VerifyCookie

LEMMA TwoCounted == Cardinality({2, 4}) = 2
<1>1. Cardinality({2}) = 1 /\ IsFiniteSet({2})
  BY FS_Singleton
<1>2. Cardinality({2} \cup {4}) = Cardinality({2}) + 1
  BY <1>1, FS_AddElement
<1>3. {2} \cup {4} = {2, 4}
  OBVIOUS
<1> QED
  BY <1>1, <1>2, <1>3

LEMMA JwtChecked ==
  ASSUME NEW payload \in Payloads, NEW key, NEW other, NEW until \in Int, clock \in Nat, clock > 0
  PROVE  JwtVerify(JwtSign(payload, Number(until), other), key) =
            IF other = key /\ clock <= until THEN payload ELSE NoText
<1>1. PICK T : payload \in Seq(T)
  BY PayloadSeq
<1> DEFINE e == Enc(Append(payload, Number(until)))
           p == <<Symbol("header", <<>>), Dot, e>>
           h == Enc(<<Hmac(other, p)>>)
           text == p \o <<Dot, h>>
           n == Len(payload)
           claims == Append(payload, Number(until))
<1>2. p \in Seq({Symbol("header", <<>>), Dot, e}) /\ Len(p) = 3 /\ p[1] = Symbol("header", <<>>) /\ p[2] = Dot /\ p[3] = e
  OBVIOUS
<1>3. p # NoText
  BY <1>2, NotNull
<1>4. e # Dot /\ h # Dot
  BY NotDots
<1>5. e.holds = claims
  BY SymbolFields DEF Enc
<1> HIDE DEF p, e, h
<1>6. /\ DOMAIN text = 1 .. 5 /\ text[1] = Symbol("header", <<>>) /\ text[2] = Dot
      /\ text[3] = e /\ text[4] = Dot /\ text[5] = h
  <2>0. PICK A : p \in Seq(A)
    BY <1>2
  <2>1. /\ Len(text) = Len(p) + 2 /\ DOMAIN text = 1 .. Len(p) + 2
        /\ \A k \in 1 .. Len(p) : text[k] = p[k]
        /\ text[Len(p) + 1] = Dot /\ text[Len(p) + 2] = h
    BY <2>0, Signed
  <2> HIDE DEF text
  <2> QED
    BY <1>2, <2>1
<1> HIDE DEF text
<1>7. Dots(text) = {2, 4}
  BY <1>4, <1>6, NotDots DEF Dots
<1>8. Cardinality(Dots(text)) = 2 /\ Max(Dots(text)) = 4
  BY <1>7, TwoCounted, MaxIs
<1>9. JwtSign(payload, Number(until), other) = text /\ SignCookie(p, other) = text
  BY DEF JwtSign, SignCookie, text, p, h, e
<1>10. OpenAt(text, 4, key) = IF other = key THEN p ELSE NoText
  <2>1. OpenAt(SignCookie(p, other), Len(p) + 1, key) = IF other = key THEN p ELSE NoText
    BY <1>2, <1>3, Opens
  <2> QED
    BY <1>2, <1>9, <2>1
<1>11. claims[Len(claims)] = Number(until) /\ SubSeq(claims, 1, Len(claims) - 1) = payload
  <2> DEFINE U == T \cup {Number(until)}
  <2>1. payload \in Seq(U) /\ Number(until) \in U
    BY <1>1, SeqMonotonic
  <2> HIDE DEF U
  <2>2. /\ n \in Nat /\ claims \in Seq(U) /\ Len(claims) = n + 1 /\ claims[n + 1] = Number(until)
        /\ \A k \in 1 .. n : claims[k] = payload[k] /\ claims[k] \in U
    BY <2>1
  <2> HIDE DEF claims
  <2>3. /\ SubSeq(claims, 1, n) \in Seq(U) /\ Len(SubSeq(claims, 1, n)) = n
        /\ \A k \in 1 .. n : SubSeq(claims, 1, n)[k] = claims[k]
    BY <2>2, SubSeqProperties
  <2>4. SubSeq(claims, 1, n) = payload
    BY <2>1, <2>2, <2>3, SeqEqual
  <2> QED
    BY <2>2, <2>4
<1> HIDE DEF claims
<1>12. Ticks(Number(until)) < clock <=> ~ (clock <= until)
  BY TicksOf
<1>13. CASE other = key
  <2>1. JwtVerify(text, key) = IF Ticks(claims[Len(claims)]) < clock THEN NoText ELSE SubSeq(claims, 1, Len(claims) - 1)
    BY <1>2, <1>3, <1>5, <1>8, <1>10, <1>13 DEF JwtVerify
  <2> QED
    BY <1>9, <1>11, <1>12, <1>13, <2>1
<1>14. CASE other # key
  BY <1>8, <1>9, <1>10, <1>14 DEF JwtVerify
<1> QED
  BY <1>13, <1>14

LEMMA MagicChecked ==
  ASSUME NEW payload \in Payloads, NEW key \in Secrets, NEW other \in Secrets, NEW until \in Int,
         clock \in Nat, clock > 0
  PROVE  MagicLinkVerify(MagicLinkCreate(payload, Number(until), other), key) =
            IF other = key /\ clock <= until THEN payload ELSE NoText
<1> DEFINE e == Enc(payload)
           u == Number(until)
           p == <<e, Dot, u>>
           h == Hmac(other, p)
           text == p \o <<Dot, h>>
<1>1. p \in Seq({e, Dot, u}) /\ Len(p) = 3 /\ p[1] = e /\ p[2] = Dot /\ p[3] = u
  OBVIOUS
<1>2. e # Dot /\ u # Dot /\ h # Dot
  BY NotDots
<1>3. e.holds = payload
  BY SymbolFields DEF Enc
<1>4. MagicLinkCreate(payload, u, other) = text
  BY DEF MagicLinkCreate
<1>5. clock > Ticks(u) <=> ~ (clock <= until)
  BY TicksOf
<1>6. h = Hmac(key, p) <=> other = key
  BY HmacSame
<1> HIDE DEF p, e, u, h
<1>7. /\ DOMAIN text = 1 .. 5 /\ text[1] = e /\ text[2] = Dot
      /\ text[3] = u /\ text[4] = Dot /\ text[5] = h /\ SubSeq(text, 1, 3) = p
  <2>0. PICK A : p \in Seq(A)
    BY <1>1
  <2>1. /\ DOMAIN text = 1 .. Len(p) + 2
        /\ \A k \in 1 .. Len(p) : text[k] = p[k]
        /\ text[Len(p) + 1] = Dot /\ text[Len(p) + 2] = h
        /\ Before(text, Len(p) + 1) = p
    BY <2>0, Signed
  <2> HIDE DEF text
  <2>2. Before(text, Len(p) + 1) = SubSeq(text, 1, 3)
    BY <1>1 DEF Before
  <2> QED
    BY <1>1, <2>1, <2>2
<1> HIDE DEF text
<1>8. Dots(text) = {2, 4}
  BY <1>2, <1>7 DEF Dots
<1>9. Cardinality(Dots(text)) = 2
  BY <1>8, TwoCounted
<1>10. MagicLinkVerify(text, key) = IF other = key /\ clock <= until THEN payload ELSE NoText
  BY <1>3, <1>5, <1>6, <1>7, <1>9 DEF MagicLinkVerify
<1> QED
  BY <1>4, <1>10 DEF u

LEMMA TotpChecked ==
  ASSUME NEW key, NEW other, NEW n \in Nat, clock \in Nat
  PROVE  TOTPVerify(TotpAt(other, n), key) <=> other = key /\ Distance(clock \div Slot, n) <= Drift
<1> DEFINE second == clock \div Slot
<1>1. second \in Nat /\ Drift \in Nat
  BY TokensAssumption
<1>2. ASSUME NEW m \in Nat PROVE TotpAt(other, n) = TotpAt(key, m) <=> other = key /\ n = m
  <2>1. TotpAt(other, n) = TotpAt(key, m) <=> Hmac(other, <<Number(n)>>) = Hmac(key, <<Number(m)>>)
    BY DEF TotpAt
  <2>2. Hmac(other, <<Number(n)>>) = Hmac(key, <<Number(m)>>) <=> other = key /\ <<Number(n)>> = <<Number(m)>>
    BY HmacSame
  <2>3. <<Number(n)>> = <<Number(m)>> <=> n = m
    BY NumberSame
  <2> QED
    BY <2>1, <2>2, <2>3
<1> HIDE DEF second
<1>3. TOTPVerify(TotpAt(other, n), key) <=>
         \E offset \in -Drift .. Drift : second + offset >= 0 /\ other = key /\ n = second + offset
  <2>1. \A offset \in -Drift .. Drift : second + offset >= 0 => second + offset \in Nat
    BY <1>1
  <2>2. \A offset \in -Drift .. Drift :
           second + offset >= 0 => (TotpAt(other, n) = TotpAt(key, second + offset) <=> other = key /\ n = second + offset)
    BY <1>2, <2>1
  <2> QED
    BY <2>2 DEF TOTPVerify, second
<1>4. Distance(second, n) <= Drift <=> n - second \in -Drift .. Drift
  BY <1>1 DEF Distance
<1>5. (\E offset \in -Drift .. Drift : second + offset >= 0 /\ other = key /\ n = second + offset)
         <=> other = key /\ n - second \in -Drift .. Drift
  <2>1. n = second + (n - second) /\ second + (n - second) >= 0
    BY <1>1
  <2>2. \A offset \in -Drift .. Drift : n = second + offset => offset = n - second
    BY <1>1
  <2> QED
    BY <2>1, <2>2
<1> QED
  BY <1>3, <1>4, <1>5 DEF second

LEMMA CsrfChecked ==
  ASSUME NEW payload, NEW key, NEW other
  PROVE  VerifyCsrf(CsrfToken(payload, other), payload, key) <=> other = key
<1>1. <<Hmac(key, payload)>> = <<Hmac(other, payload)>> <=> other = key
  BY HmacSame
<1>2. Enc(<<Hmac(key, payload)>>) = Enc(<<Hmac(other, payload)>>) <=> <<Hmac(key, payload)>> = <<Hmac(other, payload)>>
  BY EncSame
<1> QED
  BY <1>1, <1>2 DEF VerifyCsrf, CsrfToken

LEMMA PlainChecked ==
  ASSUME NEW payload, NEW key, NEW other
  PROVE  VerifyPlain(<<Hmac(other, payload)>>, payload, key) <=> other = key
<1>1. Hmac(key, payload) = Hmac(other, payload) <=> other = key
  BY HmacSame
<1> QED
  BY <1>1 DEF VerifyPlain

LEMMA PasswordChecked ==
  \A payload, salt : PasswordVerify(PasswordHash(payload, salt), payload)
  BY DEF PasswordVerify, PasswordHash

\* The checks of webhooks: the same digest, and the time where it is looked at.
LEMMA StampChecked ==
  ASSUME NEW payload, NEW key, NEW other, NEW since \in Nat, since > 0, clock \in Nat, since <= clock
  PROVE  LET text == Stamped(Number(since), payload, other)
             timely == Tolerance <= 0 \/ clock - since <= Tolerance
         IN  /\ VerifySvix(text, payload, key) <=> other = key
             /\ VerifyStripe(text, payload, key) <=> other = key /\ timely
             /\ VerifySlack(text, payload, key) <=> other = key /\ timely
<1> DEFINE text == Stamped(Number(since), payload, other)
           signed == <<Number(since), Dot>> \o payload
           timely == Tolerance <= 0 \/ clock - since <= Tolerance
<1>1. text = <<Number(since), Hmac(other, signed)>>
  BY DEF Stamped
<1>2. Len(text) = 2 /\ text[1] = Number(since) /\ text[2] = Hmac(other, signed)
  BY <1>1
<1>3. Stamped(text[1], payload, key) = <<Number(since), Hmac(key, signed)>>
  BY <1>2 DEF Stamped
<1> HIDE DEF text, signed
<1>4. Stamped(text[1], payload, key)[2] = Hmac(key, signed)
  BY <1>3
<1>5. Hmac(other, signed) = Hmac(key, signed) <=> other = key
  BY HmacSame
<1>6. Timely(text) <=> timely
  <2>1. Ticks(text[1]) = since
    BY <1>2, TicksOf
  <2>2. Distance(clock, since) = clock - since
    BY DEF Distance
  <2>3. Tolerance \in Int
    BY TokensAssumption
  <2> QED
    BY <2>1, <2>2, <2>3 DEF Timely
<1>7. (\E k \in 2 .. Len(text) : text[k] = Stamped(text[1], payload, key)[2]) <=> other = key
  <2>1. 2 .. Len(text) = {2}
    BY <1>2
  <2> QED
    BY <2>1, <1>2, <1>4, <1>5
<1>8. text = Stamped(text[1], payload, key) <=> other = key
  BY <1>1, <1>3, <1>5
<1>9. /\ VerifySvix(text, payload, key) <=> other = key
      /\ VerifyStripe(text, payload, key) <=> other = key /\ timely
      /\ VerifySlack(text, payload, key) <=> other = key /\ timely
  BY <1>6, <1>7, <1>8 DEF VerifySvix, VerifyStripe, VerifySlack
<1> QED
  BY <1>9 DEF text

(* Credentials *)

\* What is made of a payload at a time.
MadeAt(kind, payload, life, key, since, salt) ==
    LET until == Number(since + LifeOf(kind, life))
    IN  CASE kind = "session"  -> SignCookie(<<Enc(payload)>>, key)
          [] kind = "cookie"   -> SignCookie(payload, key)
          [] kind = "jwt"      -> JwtSign(payload, until, key)
          [] kind = "csrf"     -> CsrfToken(payload, key)
          [] kind = "magic"    -> MagicLinkCreate(payload, until, key)
          [] kind = "totp"     -> TotpAt(key, since \div Slot)
          [] kind = "password" -> PasswordHash(payload, Number(salt))
          [] kind \in {"stripe", "slack", "svix"} -> Stamped(Number(since), payload, key)
          [] kind = "hex"      -> <<Hmac(key, payload)>>

GoodCredential(c, second) ==
    /\ c.kind \in Kinds /\ c.payload \in Payloads /\ c.life \in Int /\ c.secret \in Secrets
    /\ c.at \in 1 .. second
    /\ \E salt : c.text = MadeAt(c.kind, c.payload, c.life, c.secret, c.at, salt)

LEMMA VouchedOne ==
  ASSUME NEW c, GoodCredential(c, clock), clock \in Nat, clock > 0, secret \in Secrets
  PROVE  Checked(c, secret) = IF (c.kind = "password" \/ c.secret = secret) /\ InTime(c)
                              THEN c.payload ELSE NoText
<1> DEFINE kind == c.kind
           payload == c.payload
           key == c.secret
           since == c.at
           life == c.life
           until == since + LifeOf(kind, life)
<1>1. /\ kind \in Kinds /\ payload \in Payloads /\ life \in Int /\ key \in Secrets
      /\ since \in Nat /\ since > 0 /\ since <= clock
  BY DEF GoodCredential
<1>2. PICK salt : c.text = MadeAt(kind, payload, life, key, since, salt)
  BY DEF GoodCredential
<1>3. until \in Int
  BY <1>1, TokensAssumption DEF LifeOf
<1>4. ASSUME kind = "session" PROVE Checked(c, secret) = IF key = secret THEN payload ELSE NoText
  <2>1. c.text = SignCookie(<<Enc(payload)>>, key)
    BY <1>2, <1>4 DEF MadeAt
  <2>2. Checked(c, secret) = SessionRead(c.text, secret)
    BY <1>4 DEF Checked
  <2> QED
    BY <2>1, <2>2, SessionChecked
<1>5. ASSUME kind = "cookie" PROVE Checked(c, secret) = IF key = secret THEN payload ELSE NoText
  <2>1. c.text = SignCookie(payload, key)
    BY <1>2, <1>5 DEF MadeAt
  <2>2. Checked(c, secret) = VerifyCookie(c.text, secret)
    BY <1>5 DEF Checked
  <2> QED
    BY <1>1, <2>1, <2>2, CookieChecked
<1>6. ASSUME kind = "jwt"
      PROVE Checked(c, secret) = IF key = secret /\ clock <= until THEN payload ELSE NoText
  <2>1. c.text = JwtSign(payload, Number(until), key)
    BY <1>2, <1>6 DEF MadeAt
  <2>2. Checked(c, secret) = JwtVerify(c.text, secret)
    BY <1>6 DEF Checked
  <2> HIDE DEF until, payload, key
  <2> QED
    BY <1>1, <1>3, <2>1, <2>2, JwtChecked
<1>7. ASSUME kind = "magic"
      PROVE Checked(c, secret) = IF key = secret /\ clock <= until THEN payload ELSE NoText
  <2>1. c.text = MagicLinkCreate(payload, Number(until), key)
    BY <1>2, <1>7 DEF MadeAt
  <2>2. Checked(c, secret) = MagicLinkVerify(c.text, secret)
    BY <1>7 DEF Checked
  <2> HIDE DEF until, payload, key
  <2> QED
    BY <1>1, <1>3, <2>1, <2>2, MagicChecked
<1>8. ASSUME kind = "csrf" PROVE Checked(c, secret) = IF key = secret THEN payload ELSE NoText
  <2>1. c.text = CsrfToken(payload, key)
    BY <1>2, <1>8 DEF MadeAt
  <2>2. Checked(c, secret) = IF VerifyCsrf(c.text, payload, secret) THEN payload ELSE NoText
    BY <1>8 DEF Checked
  <2> QED
    BY <2>1, <2>2, CsrfChecked
<1>9. ASSUME kind = "totp"
      PROVE Checked(c, secret) = IF key = secret /\ Distance(clock \div Slot, since \div Slot) <= Drift
                                 THEN payload ELSE NoText
  <2>1. c.text = TotpAt(key, since \div Slot) /\ since \div Slot \in Nat
    BY <1>1, <1>2, <1>9, TokensAssumption DEF MadeAt
  <2>2. Checked(c, secret) = IF TOTPVerify(c.text, secret) THEN payload ELSE NoText
    BY <1>9 DEF Checked
  <2>3. TOTPVerify(TotpAt(key, since \div Slot), secret) <=> key = secret /\ Distance(clock \div Slot, since \div Slot) <= Drift
    BY <2>1, TotpChecked
  <2> QED
    BY <2>1, <2>2, <2>3
<1>10. ASSUME kind = "password" PROVE Checked(c, secret) = payload
  <2>1. c.text = PasswordHash(payload, Number(salt))
    BY <1>2, <1>10 DEF MadeAt
  <2>2. Checked(c, secret) = IF PasswordVerify(c.text, payload) THEN payload ELSE NoText
    BY <1>10 DEF Checked
  <2> QED
    BY <2>1, <2>2, PasswordChecked
<1>11. ASSUME kind \in {"stripe", "slack", "svix"}
       PROVE Checked(c, secret) = IF key = secret /\ (kind = "svix" \/ Tolerance <= 0 \/ clock - since <= Tolerance)
                                  THEN payload ELSE NoText
  <2>1. c.text = Stamped(Number(since), payload, key)
    BY <1>2, <1>11 DEF MadeAt
  <2>2. /\ VerifySvix(c.text, payload, secret) <=> key = secret
        /\ VerifyStripe(c.text, payload, secret) <=> key = secret /\ (Tolerance <= 0 \/ clock - since <= Tolerance)
        /\ VerifySlack(c.text, payload, secret) <=> key = secret /\ (Tolerance <= 0 \/ clock - since <= Tolerance)
    BY <1>1, <2>1, StampChecked
  <2>3. /\ kind = "stripe" => Checked(c, secret) = IF VerifyStripe(c.text, payload, secret) THEN payload ELSE NoText
        /\ kind = "slack" => Checked(c, secret) = IF VerifySlack(c.text, payload, secret) THEN payload ELSE NoText
        /\ kind = "svix" => Checked(c, secret) = IF VerifySvix(c.text, payload, secret) THEN payload ELSE NoText
    BY DEF Checked
  <2> QED
    BY <1>11, <2>2, <2>3
<1>12. ASSUME kind = "hex" PROVE Checked(c, secret) = IF key = secret THEN payload ELSE NoText
  <2>1. c.text = <<Hmac(key, payload)>>
    BY <1>2, <1>12 DEF MadeAt
  <2>2. Checked(c, secret) = IF VerifyPlain(c.text, payload, secret) THEN payload ELSE NoText
    BY <1>12 DEF Checked
  <2> QED
    BY <2>1, <2>2, PlainChecked
<1>13. /\ kind \in Timed => (InTime(c) <=> clock <= until)
       /\ kind = "totp" => (InTime(c) <=> Distance(clock \div Slot, since \div Slot) <= Drift)
       /\ kind \in {"stripe", "slack"} => (InTime(c) <=> Tolerance <= 0 \/ clock - since <= Tolerance)
       /\ kind \in {"session", "cookie", "csrf", "password", "svix", "hex"} => InTime(c)
  BY DEF InTime, Timed
<1> HIDE DEF kind, payload, key, since, until
<1>14. CASE kind \in Timed
  BY <1>6, <1>7, <1>13, <1>14 DEF Timed, kind, payload, key
<1>15. CASE kind = "totp"
  BY <1>9, <1>13, <1>15 DEF kind, payload, key
<1>16. CASE kind \in {"stripe", "slack", "svix"}
  BY <1>11, <1>13, <1>16 DEF kind, payload, key
<1>17. CASE kind \in {"session", "cookie", "csrf", "hex"}
  BY <1>4, <1>5, <1>8, <1>12, <1>13, <1>17 DEF kind, payload, key
<1>18. CASE kind = "password"
  BY <1>10, <1>13, <1>18 DEF kind, payload, key
<1> QED
  BY <1>1, <1>14, <1>15, <1>16, <1>17, <1>18 DEF Kinds, Timed

(* Slots *)

LEMMA Slots ==
  ASSUME NEW s \in Nat \ {0}, NEW d \in Nat, NEW x \in Nat, NEW y \in Nat, x <= y
  PROVE  /\ x \div s \in Nat /\ y \div s \in Nat /\ x \div s <= y \div s
         /\ y - x <= d * s => y \div s - x \div s <= d
         /\ y - x >= (d + 1) * s => y \div s - x \div s > d
<1> DEFINE p == x \div s
           q == y \div s
<1>1. p \in Nat /\ q \in Nat /\ x % s \in 0 .. s - 1 /\ y % s \in 0 .. s - 1
  OBVIOUS
<1>2. x = (p * s) + (x % s) /\ y = (q * s) + (y % s)
  <2>1. x = ((x \div s) * s) + (x % s)
    OBVIOUS
  <2>2. y = ((y \div s) * s) + (y % s)
    OBVIOUS
  <2> QED
    BY <2>1, <2>2
<1>3. (q - p) * s \in Int /\ y - x = ((q - p) * s) + ((y % s) - (x % s))
  BY <1>1, <1>2
<1> HIDE DEF p, q
<1>4. ASSUME NEW a \in Int, NEW b \in Int, a > b PROVE a * s >= b * s + s
  <2>1. (a - b - 1) * s >= 0
    BY <1>4
  <2> QED
    BY <2>1
<1>5. p <= q
  <2>1. ASSUME p > q PROVE FALSE
    <3>1. p * s >= q * s + s
      BY <1>1, <1>4, <2>1
    <3> DEFINE a == p * s
               b == q * s
    <3>2. a \in Int /\ b \in Int /\ a >= b + s /\ x = a + (x % s) /\ y = b + (y % s)
      BY <1>1, <1>2, <3>1
    <3> HIDE DEF a, b
    <3> QED
      BY <1>1, <3>2
  <2> QED
    BY <1>1, <2>1
<1>6. y - x <= d * s => q - p <= d
  <2>1. q - p > d => (q - p) * s >= d * s + s /\ d * s \in Int
    BY <1>1, <1>4
  <2> QED
    BY <1>1, <1>3, <2>1
<1>7. y - x >= (d + 1) * s => q - p > d
  <2>1. d + 1 > q - p => (d + 1) * s >= (q - p) * s + s /\ (d + 1) * s \in Int
    BY <1>1, <1>4
  <2> QED
    BY <1>1, <1>3, <2>1
<1> QED
  BY <1>1, <1>5, <1>6, <1>7 DEF p, q

(* The state: what was issued is a credential, and a browser keeps the last of them *)

Issuable ==
    [kind : Kinds, payload : Payloads, life : Int, secret : Secrets, at : Nat,
     text : {MadeAt(k, p, l, s, a, n) : k \in Kinds, p \in Payloads, l \in Int, s \in Secrets, a \in Nat, n \in Nat}]

JarKept(kept, made, second) ==
    \A d \in Domains :
       kept[d] # NoCookie =>
          \E n \in DOMAIN made :
             /\ made[n].kind = "session" /\ made[n].text = kept[d].text
             /\ made[n].life > 0 => kept[d].until = made[n].at + made[n].life /\ second < kept[d].until

TokensInv ==
    /\ clock \in Nat /\ clock > 0 /\ secret \in Secrets
    /\ issued \in Seq(Issuable)
    /\ \A n \in DOMAIN issued : GoodCredential(issued[n], clock)
    /\ DOMAIN jar = Domains
    /\ \A d \in Domains : jar[d] # NoCookie => jar[d].until \in Int
    /\ JarKept(jar, issued, clock)

LEMMA TokensInvNext == TokensInv' <=>
    /\ clock' \in Nat /\ clock' > 0 /\ secret' \in Secrets
    /\ issued' \in Seq(Issuable)
    /\ \A n \in DOMAIN issued' : GoodCredential(issued'[n], clock')
    /\ DOMAIN jar' = Domains
    /\ \A d \in Domains : jar'[d] # NoCookie => jar'[d].until \in Int
    /\ JarKept(jar', issued', clock')
  BY DEF TokensInv

LEMMA InitTokens == TokensInit => TokensInv
<1> SUFFICES ASSUME TokensInit PROVE TokensInv
  OBVIOUS
<1>1. clock = 1 /\ secret \in Secrets /\ issued = << >> /\ DOMAIN jar = Domains /\ \A d \in Domains : jar[d] = NoCookie
  BY DEF TokensInit
<1>2. issued \in Seq(Issuable) /\ DOMAIN issued = {}
  BY <1>1
<1>3. JarKept(jar, issued, clock)
  BY <1>1 DEF JarKept
<1> QED
  BY <1>1, <1>2, <1>3 DEF TokensInv

\* A credential is one at any later time.
LEMMA StillGood ==
  ASSUME NEW c, NEW second \in Nat, NEW later \in Nat, second <= later, GoodCredential(c, second)
  PROVE  GoodCredential(c, later)
  BY DEF GoodCredential

LEMMA RecordMakes ==
  ASSUME TokensInv, NEW kind \in Kinds, NEW payload \in Payloads, NEW life \in Int, Record(kind, payload, life, secret)
  PROVE  /\ issued' \in Seq(Issuable) /\ Len(issued') = Len(issued) + 1 /\ DOMAIN issued' = 1 .. Len(issued) + 1
         /\ Len(issued) \in Nat /\ DOMAIN issued = 1 .. Len(issued)
         /\ \A n \in DOMAIN issued : issued'[n] = issued[n]
         /\ \A n \in DOMAIN issued' : GoodCredential(issued'[n], clock)
         /\ LET c == issued'[Len(issued) + 1]
            IN  c.kind = kind /\ c.text = Made(kind, payload, life, secret) /\ c.life = life /\ c.at = clock
<1> DEFINE n == Len(issued)
           c == [kind |-> kind, payload |-> payload, life |-> life, secret |-> secret,
                 at |-> clock, text |-> Made(kind, payload, life, secret)]
<1>1. /\ clock \in Nat /\ clock > 0 /\ secret \in Secrets /\ issued \in Seq(Issuable) /\ n \in Nat
      /\ DOMAIN issued = 1 .. n /\ \A k \in DOMAIN issued : GoodCredential(issued[k], clock)
  BY DEF TokensInv
<1>2. issued' = Append(issued, c)
  BY DEF Record
<1>3. Made(kind, payload, life, secret) = MadeAt(kind, payload, life, secret, clock, n)
  BY DEF Made, MadeAt
<1>4. /\ c.kind = kind /\ c.payload = payload /\ c.life = life /\ c.secret = secret /\ c.at = clock
      /\ c.text = MadeAt(kind, payload, life, secret, clock, n)
  BY <1>3
<1>5. c \in Issuable
  <2>1. MadeAt(kind, payload, life, secret, clock, n)
          \in {MadeAt(k, p, l, s, a, m) : k \in Kinds, p \in Payloads, l \in Int, s \in Secrets, a \in Nat, m \in Nat}
    BY <1>1
  <2> QED
    BY <1>1, <1>3, <2>1 DEF Issuable
<1>6. GoodCredential(c, clock)
  <2>1. c.at \in 1 .. clock
    BY <1>1, <1>4
  <2>2. \E salt : c.text = MadeAt(c.kind, c.payload, c.life, c.secret, c.at, salt)
    BY <1>4
  <2> QED
    BY <1>1, <1>4, <2>1, <2>2 DEF GoodCredential
<1>7. c.text = Made(kind, payload, life, secret)
  BY <1>3, <1>4
<1> HIDE DEF c
<1>8. /\ issued' \in Seq(Issuable) /\ Len(issued') = n + 1 /\ DOMAIN issued' = 1 .. n + 1
      /\ \A k \in 1 .. n : issued'[k] = issued[k]
      /\ issued'[n + 1] = c
  BY <1>1, <1>2, <1>5
<1>9. \A k \in 1 .. n + 1 : k \in 1 .. n \/ k = n + 1
  BY <1>1
<1>10. \A k \in DOMAIN issued' : GoodCredential(issued'[k], clock)
  BY <1>1, <1>6, <1>8, <1>9
<1> QED
  BY <1>1, <1>4, <1>7, <1>8, <1>10

LEMMA StepTokens == TokensInv /\ [TokensNext]_tokenVars => TokensInv'
<1> SUFFICES ASSUME TokensInv, [TokensNext]_tokenVars PROVE TokensInv'
  OBVIOUS
<1>0. /\ clock \in Nat /\ clock > 0 /\ secret \in Secrets /\ issued \in Seq(Issuable)
      /\ \A n \in DOMAIN issued : GoodCredential(issued[n], clock)
      /\ DOMAIN jar = Domains /\ JarKept(jar, issued, clock)
      /\ \A d \in Domains : jar[d] # NoCookie => jar[d].until \in Int
  BY DEF TokensInv
<1>1. CASE UNCHANGED tokenVars
  BY <1>0, <1>1, TokensInvNext DEF tokenVars
<1>2. ASSUME NEW kind \in Kinds, NEW payload \in Payloads, NEW life \in Int, Issue(kind, payload, life)
      PROVE  TokensInv'
  <2>1. Record(kind, payload, life, secret) /\ UNCHANGED <<clock, secret, jar>>
    BY <1>2 DEF Issue
  <2>2. /\ issued' \in Seq(Issuable) /\ DOMAIN issued' = 1 .. Len(issued) + 1
        /\ Len(issued) \in Nat /\ DOMAIN issued = 1 .. Len(issued)
        /\ \A n \in DOMAIN issued : issued'[n] = issued[n]
        /\ \A n \in DOMAIN issued' : GoodCredential(issued'[n], clock)
    BY <2>1, RecordMakes
  <2>3. JarKept(jar', issued', clock')
    <3>1. \A n \in DOMAIN issued : n \in DOMAIN issued'
      BY <2>2
    <3> QED
      BY <1>0, <2>1, <2>2, <3>1 DEF JarKept
  <2> QED
    BY <1>0, <2>1, <2>2, <2>3, TokensInvNext
<1>3. ASSUME NEW payload \in Payloads, NEW life \in Int, NEW domain \in Domains, SessionCreate(payload, life, domain)
      PROVE  TokensInv'
  <2> DEFINE n == Len(issued)
             text == Made("session", payload, life, secret)
             cookie == CASE life > 0 -> [text |-> text, until |-> clock + life]
                         [] life = 0 -> [text |-> text, until |-> MaxClock + 1]
                         [] life < 0 -> NoCookie
  <2>1. Record("session", payload, life, secret) /\ jar' = [jar EXCEPT ![domain] = cookie] /\ UNCHANGED <<clock, secret>>
    BY <1>3 DEF SessionCreate
  <2>2. "session" \in Kinds
    BY DEF Kinds
  <2>3. /\ issued' \in Seq(Issuable) /\ DOMAIN issued' = 1 .. n + 1
        /\ n \in Nat /\ DOMAIN issued = 1 .. n
        /\ \A k \in DOMAIN issued : issued'[k] = issued[k]
        /\ \A k \in DOMAIN issued' : GoodCredential(issued'[k], clock)
        /\ issued'[n + 1].kind = "session" /\ issued'[n + 1].text = text
        /\ issued'[n + 1].life = life /\ issued'[n + 1].at = clock
    BY <2>1, <2>2, RecordMakes
  <2>4. cookie # NoCookie => /\ cookie.text = text /\ cookie.until \in Int
                             /\ life > 0 => cookie.until = clock + life /\ clock < cookie.until
    <3>1. CASE life > 0
      BY <1>0, <3>1
    <3>2. CASE life = 0
      BY <3>2, TokensAssumption
    <3>3. CASE life < 0
      BY <3>3
    <3> QED
      BY <3>1, <3>2, <3>3
  <2> HIDE DEF cookie, text
  <2>5. DOMAIN jar' = Domains /\ \A d \in Domains : jar'[d] = IF d = domain THEN cookie ELSE jar[d]
    BY <1>0, <2>1
  <2>6. JarKept(jar', issued', clock')
    <3> SUFFICES ASSUME NEW d \in Domains, jar'[d] # NoCookie
                 PROVE  \E k \in DOMAIN issued' :
                           /\ issued'[k].kind = "session" /\ issued'[k].text = jar'[d].text
                           /\ issued'[k].life > 0 =>
                                 jar'[d].until = issued'[k].at + issued'[k].life /\ clock' < jar'[d].until
      BY DEF JarKept
    <3>1. CASE d = domain
      <4>1. n + 1 \in DOMAIN issued'
        BY <2>3
      <4> QED
        BY <2>1, <2>3, <2>4, <2>5, <3>1, <4>1
    <3>2. CASE d # domain
      <4>1. PICK k \in DOMAIN issued :
              /\ issued[k].kind = "session" /\ issued[k].text = jar[d].text
              /\ issued[k].life > 0 => jar[d].until = issued[k].at + issued[k].life /\ clock < jar[d].until
        BY <1>0, <2>5, <3>2 DEF JarKept
      <4>2. k \in DOMAIN issued' /\ issued'[k] = issued[k] /\ jar'[d] = jar[d]
        BY <2>3, <2>5, <3>2
      <4> QED
        BY <2>1, <4>1, <4>2
    <3> QED
      BY <3>1, <3>2
  <2>7. \A d \in Domains : jar'[d] # NoCookie => jar'[d].until \in Int
    BY <1>0, <2>4, <2>5
  <2> QED
    BY <1>0, <2>1, <2>3, <2>5, <2>6, <2>7, TokensInvNext
<1>4. CASE SessionClear
  <2>1. jar' = [jar EXCEPT !["host"] = NoCookie] /\ UNCHANGED <<clock, secret, issued>>
    BY <1>4 DEF SessionClear
  <2>2. DOMAIN jar' = Domains /\ \A d \in Domains : jar'[d] # NoCookie => jar'[d] = jar[d] /\ jar[d] # NoCookie
    BY <1>0, <2>1
  <2>3. JarKept(jar', issued', clock')
    BY <1>0, <2>1, <2>2 DEF JarKept
  <2> QED
    BY <1>0, <2>1, <2>2, <2>3, TokensInvNext
<1>5. CASE ClockTick
  <2>1. /\ clock' = clock + 1 /\ UNCHANGED <<secret, issued>>
        /\ jar' = [d \in Domains |-> IF jar[d].until <= clock + 1 THEN NoCookie ELSE jar[d]]
    BY <1>5 DEF ClockTick
  <2>2. DOMAIN jar' = Domains
    BY <2>1
  <2>3. \A d \in Domains : jar'[d] # NoCookie => jar'[d] = jar[d] /\ jar[d] # NoCookie /\ ~ (jar[d].until <= clock + 1)
    BY <2>1
  <2>4. \A d \in Domains : jar'[d] # NoCookie => jar[d].until \in Int /\ clock' < jar[d].until
    BY <1>0, <2>1, <2>3
  <2>5. JarKept(jar', issued', clock')
    BY <1>0, <2>1, <2>3, <2>4 DEF JarKept
  <2>6. clock' \in Nat /\ clock' > 0 /\ clock <= clock'
    BY <1>0, <2>1
  <2>7. \A n \in DOMAIN issued' : GoodCredential(issued'[n], clock')
    BY <1>0, <2>1, <2>6, StillGood
  <2> QED
    BY <1>0, <2>1, <2>2, <2>3, <2>4, <2>5, <2>6, <2>7, TokensInvNext
<1>6. ASSUME NEW s \in Secrets, Rotate(s) PROVE TokensInv'
  <2>1. secret' = s /\ UNCHANGED <<clock, issued, jar>>
    BY <1>6 DEF Rotate
  <2> QED
    BY <1>0, <1>6, <2>1, TokensInvNext
<1>7. 0 \in Int /\ Lives \subseteq Int /\ Timed \subseteq Kinds
  BY TokensAssumption DEF Timed, Kinds
<1> QED
  BY <1>1, <1>2, <1>3, <1>4, <1>5, <1>6, <1>7 DEF TokensNext

LEMMA CredentialsKept == TokensInv => CredentialsHold
<1> SUFFICES ASSUME TokensInv PROVE CredentialsHold
  OBVIOUS
<1>0. /\ clock \in Nat /\ clock > 0 /\ secret \in Secrets
      /\ \A n \in DOMAIN issued : GoodCredential(issued[n], clock)
      /\ JarKept(jar, issued, clock)
  BY DEF TokensInv
<1>1. Vouched
  BY <1>0, VouchedOne DEF Vouched
<1>2. CodeWindow
  <2> SUFFICES ASSUME NEW n \in DOMAIN issued, issued[n].kind = "totp", issued[n].secret = secret
               PROVE  LET age == clock - issued[n].at
                      IN  /\ age <= Drift * Slot => Checked(issued[n], secret) # NoText
                          /\ age >= (Drift + 1) * Slot => Checked(issued[n], secret) = NoText
    BY DEF CodeWindow
  <2> DEFINE c == issued[n]
             was == c.at
             p == was \div Slot
             q == clock \div Slot
  <2>1. GoodCredential(c, clock)
    BY <1>0
  <2>2. was \in Nat /\ was <= clock /\ c.payload \in Payloads
    BY <1>0, <2>1 DEF GoodCredential
  <2>3. Slot \in Nat \ {0} /\ Drift \in Nat
    BY TokensAssumption
  <2>4. /\ p \in Nat /\ q \in Nat /\ p <= q
        /\ clock - was <= Drift * Slot => q - p <= Drift
        /\ clock - was >= (Drift + 1) * Slot => q - p > Drift
    <3> HIDE DEF was
    <3> QED
      BY <1>0, <2>2, <2>3, Slots
  <2>5. Distance(q, p) = q - p
    <3> HIDE DEF p, q
    <3> QED
      BY <2>4 DEF Distance
  <2>6. InTime(c) <=> Distance(q, p) <= Drift
    BY DEF InTime, Timed
  <2>7. Checked(c, secret) = IF InTime(c) THEN c.payload ELSE NoText
    <3>1. Checked(c, secret) = IF (c.kind = "password" \/ c.secret = secret) /\ InTime(c) THEN c.payload ELSE NoText
      BY <1>0, <2>1, VouchedOne
    <3> QED
      BY <3>1
  <2>8. c.payload # NoText
    BY <2>2, PayloadSeq
  <2> HIDE DEF p, q
  <2>9. /\ clock - was <= Drift * Slot => InTime(c)
        /\ clock - was >= (Drift + 1) * Slot => ~ InTime(c)
    BY <2>3, <2>4, <2>5, <2>6
  <2> QED
    BY <2>7, <2>8, <2>9
<1>3. JarIsLast
  <2> SUFFICES ASSUME NEW d \in Domains, jar[d] # NoCookie
               PROVE  \E n \in DOMAIN issued :
                         /\ issued[n].kind = "session" /\ issued[n].text = jar[d].text
                         /\ issued[n].life > 0 => clock < issued[n].at + issued[n].life
    BY DEF JarIsLast
  <2> QED
    BY <1>0 DEF JarKept
<1> QED
  BY <1>1, <1>2, <1>3 DEF CredentialsHold

\* A credential is good, with the secret it was made with, until its time is over, and
\* then no more: for all payloads, secrets, life times and slots, at every second and
\* after every rotation; a browser sends no cookie that has run out (session.create,
\* sign_cookie, jwt.sign, csrf_token, magic_link.create, totp, hash_password and what
\* checks them).
THEOREM CredentialsAreGood == TokensSpec => []CredentialsHold
  BY InitTokens, StepTokens, CredentialsKept, PTL DEF TokensSpec
=============================================================================
