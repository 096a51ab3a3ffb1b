------------------------- MODULE PqAdmissionProofs -------------------------
(* Theorems about PqAdmission, for all limits that `Limits::validate`      *)
(* accepts, any number of callers, any length of time and any bound on the *)
(* time that a call waits between the clock and the mutex.                 *)
EXTENDS PqAdmission, TLAPS

-----------------------------------------------------------------------------
(* Token buckets *)

Capped(x, y) == IF x <= y THEN x ELSE y

\* What a bucket holds at time t, if nothing is taken before; for a time before
\* it was last touched, what it would have had to hold.
At(b, rate, burst, t) == Capped(b.tokens + (t - b.last) * rate, burst * Unit)

IsBucket(b) ==
  b = [tokens |-> b.tokens, last |-> b.last] /\ b.tokens \in Int /\ b.last \in Nat

\* Three buckets that share a rate and a burst: at every later time the one for
\* all work holds at least what recovery's does and what that of new work held
\* when the slowest call read the clock.
Covers(a, n, r, rate, burst, t) ==
  \A s \in Nat : s >= t =>
    At(a, rate, burst, s) >=
      At(n, NewRate(rate), NewBurst(burst), s - Delay) +
      At(r, rate - NewRate(rate), burst - NewBurst(burst), s)

\* The limits, as the buckets use them.
LEMMA Shares ==
  ASSUME NEW n \in Nat, n >= 2
  PROVE  /\ n \div 2 \in Nat /\ n - (n \div 2) \in Nat
         /\ n \div 2 >= 1 /\ n - (n \div 2) >= 1
  OBVIOUS

\* A fact of arithmetic that the solver needs as a rule.
LEMMA Distribute ==
  ASSUME NEW a \in Int, NEW b \in Int, NEW c \in Int
  PROVE  (a + b) * c = a * c + b * c
  OBVIOUS

\* Time and rate are natural, and so is what comes in.
LEMMA ProductIsNat ==
  ASSUME NEW a \in Nat, NEW b \in Nat
  PROVE  a * b \in Nat
  OBVIOUS

\* A bucket never holds more than its burst.
LEMMA AtBounds ==
  ASSUME NEW b, IsBucket(b), NEW rate \in Nat, NEW burst \in Nat, NEW s \in Int, Unit \in Nat
  PROVE  At(b, rate, burst, s) \in Int /\ At(b, rate, burst, s) <= burst * Unit
<1> DEFINE x == b.tokens + (s - b.last) * rate
           y == burst * Unit
<1>1. x \in Int /\ y \in Int
  BY DEF IsBucket
<1>2. At(b, rate, burst, s) = (IF x <= y THEN x ELSE y)
  BY DEF At, Capped
<1> HIDE DEF x
<1> QED
  BY <1>1, <1>2

\* What a bucket holds later is what it holds now and what comes in, up to its
\* burst.
LEMMA AtLater ==
  ASSUME NEW b, IsBucket(b), NEW rate \in Nat, NEW burst \in Nat, Unit \in Nat,
         NEW t \in Int, NEW s \in Int, t <= s
  PROVE  /\ At(b, rate, burst, s) = Capped(At(b, rate, burst, t) + (s - t) * rate, burst * Unit)
         /\ At(b, rate, burst, s) <= At(b, rate, burst, t) + (s - t) * rate
         /\ (s - t) * rate \in Nat
<1> DEFINE x == (t - b.last) * rate
           z == (s - t) * rate
           y == burst * Unit
<1>1. (s - b.last) * rate = x + z
  <2>1. s - b.last = (t - b.last) + (s - t)
    BY DEF IsBucket
  <2> QED
    BY <2>1, Distribute DEF IsBucket
<1>2. x \in Int /\ y \in Int /\ b.tokens \in Int
  BY DEF IsBucket
<1>3. z \in Nat
  <2>1. s - t \in Nat
    OBVIOUS
  <2> QED
    BY <2>1, ProductIsNat
<1>4. At(b, rate, burst, s) = Capped(b.tokens + (x + z), y)
  BY <1>1 DEF At
<1>5. At(b, rate, burst, t) = Capped(b.tokens + x, y)
  BY DEF At
<1> HIDE DEF x, y, z
<1>6. /\ At(b, rate, burst, s) = Capped(At(b, rate, burst, t) + z, y)
      /\ At(b, rate, burst, s) <= At(b, rate, burst, t) + z
  BY <1>2, <1>3, <1>4, <1>5 DEF Capped
<1> QED
  BY <1>3, <1>6 DEF z, y

\* The time that a bucket is filled up to.
LEMMA LaterIs ==
  ASSUME NEW b, IsBucket(b), NEW t \in Nat
  PROVE  /\ Later(b, t) \in Nat /\ Later(b, t) >= t /\ Later(b, t) >= b.last
         /\ Later(b, t) = t \/ Later(b, t) = b.last
         /\ b.last <= t => Later(b, t) = t
  BY DEF Later, IsBucket

\* `Bucket::take` works with what the bucket holds at its time, or at the later
\* one that it was filled up to before.
LEMMA FilledIsAt ==
  ASSUME NEW b, IsBucket(b), NEW rate \in Nat, NEW burst \in Nat, NEW t \in Nat, Unit \in Nat
  PROVE  /\ Filled(b, rate, burst, t) =
              [tokens |-> At(b, rate, burst, Later(b, t)), last |-> Later(b, t)]
         /\ At(b, rate, burst, Later(b, t)) \in Int
         /\ IsBucket(Filled(b, rate, burst, t))
<1>1. Filled(b, rate, burst, t) =
        [tokens |-> At(b, rate, burst, Later(b, t)), last |-> Later(b, t)]
  BY DEF Filled, At, Capped
<1>2. Later(b, t) \in Nat
  BY LaterIs
<1>3. At(b, rate, burst, Later(b, t)) \in Int
  BY <1>2, AtBounds
<1> QED
  BY <1>1, <1>2, <1>3 DEF IsBucket

\* `Bucket::take`.
LEMMA TakeIs ==
  ASSUME NEW b, IsBucket(b), NEW rate \in Nat, NEW burst \in Nat, NEW t \in Nat, Unit \in Nat
  PROVE  /\ Take(b, rate, burst, t) =
              [tokens |-> At(b, rate, burst, Later(b, t)) - Unit, last |-> Later(b, t)]
         /\ IsBucket(Take(b, rate, burst, t))
         /\ CanTake(b, rate, burst, t) <=> At(b, rate, burst, Later(b, t)) >= Unit
<1> DEFINE f == Filled(b, rate, burst, t)
           m == Later(b, t)
           v == At(b, rate, burst, m)
<1>1. f = [tokens |-> v, last |-> m] /\ v \in Int /\ m \in Nat
  BY FilledIsAt, LaterIs
<1>2. Take(b, rate, burst, t) = [f EXCEPT !.tokens = @ - Unit]
  BY DEF Take
<1>3. CanTake(b, rate, burst, t) <=> f.tokens >= Unit
  BY DEF CanTake
<1> HIDE DEF f, v, m
<1>4. Take(b, rate, burst, t) = [tokens |-> v - Unit, last |-> m]
  BY <1>1, <1>2
<1>5. CanTake(b, rate, burst, t) <=> v >= Unit
  BY <1>1, <1>3
<1> QED
  BY <1>1, <1>4, <1>5 DEF IsBucket, v, m

\* The value of a bucket of which v is left at time m.
LEMMA AtOf ==
  ASSUME NEW v, NEW m, NEW rate, NEW burst, NEW s
  PROVE  At([tokens |-> v, last |-> m], rate, burst, s) = Capped(v + (s - m) * rate, burst * Unit)
  BY DEF At

\* What one token taken does to a bucket: from then on it lacks at most that
\* token, and before it would have had to lack one.
LEMMA TakeLoses ==
  ASSUME NEW b, IsBucket(b), NEW rate \in Nat, NEW burst \in Nat, NEW t \in Nat, Unit \in Nat,
         NEW s \in Int
  PROVE  /\ s >= Later(b, t) =>
              At(Take(b, rate, burst, t), rate, burst, s) >= At(b, rate, burst, s) - Unit
         /\ s <= Later(b, t) =>
              At(Take(b, rate, burst, t), rate, burst, s) <= At(b, rate, burst, s) - Unit
<1> DEFINE m == Later(b, t)
           v == At(b, rate, burst, m)
           b2 == Take(b, rate, burst, t)
           x == At(b2, rate, burst, s)
           y == burst * Unit
           z == (s - m) * rate
           w == At(b, rate, burst, s)
<1>1. m \in Nat /\ m \in Int
  BY LaterIs
<1>2. v \in Int /\ v <= y /\ w \in Int /\ y \in Int
  <2> HIDE DEF m
  <2>1. v \in Int /\ v <= y
    BY <1>1, AtBounds
  <2>2. w \in Int
    BY AtBounds
  <2> QED
    BY <2>1, <2>2
<1>3. x = Capped((v - Unit) + z, y)
  <2>1. b2 = [tokens |-> v - Unit, last |-> m]
    BY TakeIs
  <2> HIDE DEF b2, v, m
  <2> QED
    BY <2>1, AtOf
<1>4. z \in Int
  <2> HIDE DEF m
  <2> QED
    BY <1>1
<1>5. ASSUME s >= m PROVE x >= w - Unit
  <2>1. w = Capped(v + z, y)
    <3> HIDE DEF m
    <3> QED
      BY <1>1, <1>5, AtLater
  <2> HIDE DEF w, x, y, z, v, m
  <2> QED
    BY <1>2, <1>3, <1>4, <2>1 DEF Capped
<1>6. ASSUME s <= m PROVE x <= w - Unit
  <2>1. v <= w + (m - s) * rate
    <3> HIDE DEF m
    <3> QED
      BY <1>1, <1>6, AtLater
  <2>2. (m - s) * rate = -z
    <3> HIDE DEF m
    <3> QED
      BY <1>1
  <2> HIDE DEF w, x, z, v, m
  <2>3. v <= w - z
    BY <1>2, <1>4, <2>1, <2>2
  <2>4. CASE (v - Unit) + z <= y
    BY <1>2, <1>3, <1>4, <2>3, <2>4 DEF Capped
  <2>5. CASE ~((v - Unit) + z <= y)
    <3> HIDE DEF y
    <3> QED
      BY <1>2, <1>3, <1>4, <2>3, <2>5 DEF Capped
  <2> QED
    BY <2>4, <2>5
<1> QED
  BY <1>5, <1>6

\* What recovery's share is after an admission.
LEMMA SpendIs ==
  ASSUME NEW b, IsBucket(b), NEW rate \in Nat, NEW burst \in Nat, rate >= 2, burst >= 2,
         NEW t \in Nat, Unit \in Nat, NEW isNew \in BOOLEAN, b.last <= t
  PROVE  /\ Reserve(b, rate, burst, t).tokens =
              At(b, rate - NewRate(rate), burst - NewBurst(burst), t)
         /\ IsBucket(Spend(b, rate, burst, isNew, t))
         /\ Spend(b, rate, burst, isNew, t) =
              [tokens |-> At(b, rate - NewRate(rate), burst - NewBurst(burst), t)
                            - (IF isNew THEN 0 ELSE Unit),
               last |-> t]
<1> DEFINE rr == rate - NewRate(rate)
           rb == burst - NewBurst(burst)
           f == Filled(b, rr, rb, t)
           v == At(b, rr, rb, t)
<1>1. rr \in Nat /\ rb \in Nat
  BY Shares DEF NewRate, NewBurst
<1>2. f = [tokens |-> v, last |-> t] /\ v \in Int
  <2> HIDE DEF rr, rb
  <2> QED
    <3>1. Later(b, t) = t
      BY LaterIs
    <3> QED
      BY <1>1, <3>1, FilledIsAt
<1>3. Reserve(b, rate, burst, t) = f
  BY DEF Reserve
<1>4. Spend(b, rate, burst, isNew, t) = IF isNew THEN f ELSE [f EXCEPT !.tokens = @ - Unit]
  BY DEF Spend, Reserve
<1> HIDE DEF f, v
<1>5. Spend(b, rate, burst, isNew, t) =
        [tokens |-> v - (IF isNew THEN 0 ELSE Unit), last |-> t]
  <2>1. CASE isNew
    <3>1. v - (IF isNew THEN 0 ELSE Unit) = v
      BY <1>2, <2>1
    <3> QED
      BY <1>2, <1>4, <2>1, <3>1
  <2>2. CASE ~isNew
    BY <1>2, <1>4, <2>2
  <2> QED
    BY <2>1, <2>2
<1>6. Reserve(b, rate, burst, t).tokens = v
  BY <1>2, <1>3
<1>7. IsBucket(Spend(b, rate, burst, isNew, t))
  <2>1. v - (IF isNew THEN 0 ELSE Unit) \in Int
    BY <1>2
  <2> QED
    BY <1>5, <2>1 DEF IsBucket
<1> QED
  BY <1>5, <1>6, <1>7 DEF v

\* The rates and the bursts of new work and of recovery.
LEMMA ShareTypes ==
  ASSUME NEW rate \in Nat, NEW burst \in Nat, rate >= 2, burst >= 2
  PROVE  /\ NewRate(rate) \in Nat /\ NewBurst(burst) \in Nat
         /\ rate - NewRate(rate) \in Nat /\ burst - NewBurst(burst) \in Nat
         /\ rate = NewRate(rate) + (rate - NewRate(rate))
         /\ burst = NewBurst(burst) + (burst - NewBurst(burst))
  BY Shares DEF NewRate, NewBurst

\* Three buckets that cover at one time do so at every later one.
LEMMA CoversGrow ==
  ASSUME NEW a, NEW n, NEW r, IsBucket(a), IsBucket(n), IsBucket(r),
         NEW rate \in Nat, NEW burst \in Nat, rate >= 2, burst >= 2, Unit \in Nat, Delay \in Nat,
         NEW t \in Nat, NEW s \in Nat, s >= t,
         At(a, rate, burst, t) >=
           At(n, NewRate(rate), NewBurst(burst), t - Delay) +
           At(r, rate - NewRate(rate), burst - NewBurst(burst), t)
  PROVE  At(a, rate, burst, s) >=
           At(n, NewRate(rate), NewBurst(burst), s - Delay) +
           At(r, rate - NewRate(rate), burst - NewBurst(burst), s)
<1> DEFINE nr == NewRate(rate)
           nb == NewBurst(burst)
           rr == rate - nr
           rb == burst - nb
           D == s - t
<1>1. /\ nr \in Nat /\ nb \in Nat /\ rr \in Nat /\ rb \in Nat
      /\ rate = nr + rr /\ burst = nb + rb /\ D \in Nat
  BY ShareTypes
<1>2. burst * Unit = nb * Unit + rb * Unit
  <2> HIDE DEF nb, rb
  <2> QED
    BY <1>1, Distribute
<1>3. D * rate = D * nr + D * rr
  <2> HIDE DEF nr, rr, D
  <2>1. (nr + rr) * D = nr * D + rr * D
    BY <1>1, Distribute
  <2> QED
    BY <1>1, <2>1
<1>4. At(a, rate, burst, t) >= At(n, nr, nb, t - Delay) + At(r, rr, rb, t)
  OBVIOUS
<1>5. At(a, rate, burst, s) = Capped(At(a, rate, burst, t) + D * rate, burst * Unit)
  <2>1. t \in Int /\ s \in Int /\ t <= s
    OBVIOUS
  <2> QED
    BY <2>1, AtLater
<1>6. (s - Delay) - (t - Delay) = D /\ t - Delay <= s - Delay /\ s - Delay \in Int /\ t - Delay \in Int
  OBVIOUS
<1> HIDE DEF nr, nb, rr, rb, D
<1>7. At(n, nr, nb, s - Delay) <= At(n, nr, nb, t - Delay) + D * nr
  BY <1>1, <1>6, AtLater
<1>8. At(r, rr, rb, s) <= At(r, rr, rb, t) + D * rr
  BY <1>1, AtLater DEF D
<1>9. /\ At(a, rate, burst, t) \in Int /\ At(a, rate, burst, s) \in Int
      /\ At(n, nr, nb, t - Delay) \in Int /\ At(n, nr, nb, s - Delay) \in Int
      /\ At(n, nr, nb, s - Delay) <= nb * Unit
      /\ At(r, rr, rb, t) \in Int /\ At(r, rr, rb, s) \in Int /\ At(r, rr, rb, s) <= rb * Unit
  <2>0. t \in Int /\ s \in Int
    OBVIOUS
  <2>1. At(a, rate, burst, t) \in Int /\ At(a, rate, burst, s) \in Int
    BY <2>0, AtBounds
  <2>2. /\ At(n, nr, nb, t - Delay) \in Int /\ At(n, nr, nb, s - Delay) \in Int
        /\ At(n, nr, nb, s - Delay) <= nb * Unit
    BY <1>1, <1>6, AtBounds
  <2>3. At(r, rr, rb, t) \in Int /\ At(r, rr, rb, s) \in Int /\ At(r, rr, rb, s) <= rb * Unit
    BY <1>1, <2>0, AtBounds
  <2> QED
    BY <2>1, <2>2, <2>3
<1>10. /\ D * rate \in Int /\ D * nr \in Int /\ D * rr \in Int
       /\ burst * Unit \in Int /\ nb * Unit \in Int /\ rb * Unit \in Int
  BY <1>1
<1>11. At(a, rate, burst, s) >= At(n, nr, nb, s - Delay) + At(r, rr, rb, s)
  <2> DEFINE av == At(a, rate, burst, t)
             a2 == At(a, rate, burst, s)
             nv == At(n, nr, nb, t - Delay)
             n2 == At(n, nr, nb, s - Delay)
             rv == At(r, rr, rb, t)
             r2 == At(r, rr, rb, s)
             d == D * rate
             e == D * nr
             f == D * rr
             x == burst * Unit
             y == nb * Unit
             z == rb * Unit
  <2>1. /\ av \in Int /\ a2 \in Int /\ nv \in Int /\ n2 \in Int /\ rv \in Int /\ r2 \in Int
        /\ d \in Int /\ e \in Int /\ f \in Int /\ x \in Int /\ y \in Int /\ z \in Int
    BY <1>9, <1>10
  <2>2. /\ av >= nv + rv /\ x = y + z /\ d = e + f
        /\ a2 = Capped(av + d, x)
        /\ n2 <= nv + e /\ n2 <= y /\ r2 <= rv + f /\ r2 <= z
    BY <1>2, <1>3, <1>4, <1>5, <1>7, <1>8, <1>9
  <2> HIDE DEF av, a2, nv, n2, rv, r2, d, e, f, x, y, z
  <2>3. a2 >= n2 + r2
    BY <2>1, <2>2 DEF Capped
  <2> QED
    BY <2>3 DEF a2, n2, r2
<1> QED
  BY <1>11 DEF nr, nb, rr, rb

\* One admission, of new work or of recovery, by a call that read the clock at t
\* and has the mutex at w, keeps recovery covered.
LEMMA CoversTake ==
  ASSUME NEW a, NEW n, NEW r, IsBucket(a), IsBucket(n), IsBucket(r),
         NEW rate \in Nat, NEW burst \in Nat, rate >= 2, burst >= 2, Delay \in Nat,
         NEW t \in Nat, NEW w \in Nat, t <= w, t >= w - Delay, Unit \in Nat,
         NEW isNew \in BOOLEAN,
         a.last <= w, r.last <= w, Covers(a, n, r, rate, burst, w)
  PROVE  Covers(Take(a, rate, burst, t),
                IF isNew THEN Take(n, NewRate(rate), NewBurst(burst), t) ELSE n,
                Spend(r, rate, burst, isNew, w), rate, burst, w)
<1> DEFINE nr == NewRate(rate)
           nb == NewBurst(burst)
           rr == rate - nr
           rb == burst - nb
           a2 == Take(a, rate, burst, t)
           n1 == Take(n, nr, nb, t)
           n2 == IF isNew THEN n1 ELSE n
           r2 == Spend(r, rate, burst, isNew, w)
<1>1. nr \in Nat /\ nb \in Nat /\ rr \in Nat /\ rb \in Nat
  BY ShareTypes
<1>2. Later(a, t) \in Nat /\ Later(a, t) <= w
  BY LaterIs
<1>3. IsBucket(a2) /\ IsBucket(n2) /\ IsBucket(r2)
  BY <1>1, TakeIs, SpendIs
<1>4. r2 = [tokens |-> At(r, rr, rb, w) - (IF isNew THEN 0 ELSE Unit), last |-> w]
  BY SpendIs
<1>5. \A s \in Nat : s >= w =>
        At(a, rate, burst, s) >= At(n, nr, nb, s - Delay) + At(r, rr, rb, s)
  BY DEF Covers
<1>6. \A s \in Nat : s >= w =>
        /\ At(a2, rate, burst, s) >= At(a, rate, burst, s) - Unit
        /\ At(a2, rate, burst, s) \in Int /\ At(a, rate, burst, s) \in Int
  <2> SUFFICES ASSUME NEW s \in Nat, s >= w
               PROVE  /\ At(a2, rate, burst, s) >= At(a, rate, burst, s) - Unit
                      /\ At(a2, rate, burst, s) \in Int /\ At(a, rate, burst, s) \in Int
    OBVIOUS
  <2>1. s >= Later(a, t) /\ s \in Int
    BY <1>2
  <2>2. At(a2, rate, burst, s) >= At(a, rate, burst, s) - Unit
    BY <2>1, TakeLoses
  <2> HIDE DEF a2
  <2> QED
    BY <1>3, <2>1, <2>2, AtBounds
<1> SUFFICES ASSUME NEW s \in Nat, s >= w
             PROVE  At(a2, rate, burst, s) >= At(n2, nr, nb, s - Delay) + At(r2, rr, rb, s)
  BY DEF Covers
<1>7. CASE ~isNew
  <2>1. n2 = n /\ At(r2, rr, rb, w) = At(r, rr, rb, w) - Unit
    <3>1. r2 = [tokens |-> At(r, rr, rb, w) - Unit, last |-> w]
      BY <1>4, <1>7
    <3> DEFINE v == At(r, rr, rb, w)
    <3>2. v \in Int /\ v <= rb * Unit /\ (w - w) * rr = 0 /\ rb * Unit \in Int
      <4> HIDE DEF rr, rb
      <4>1. w - w = 0 /\ w \in Int
        OBVIOUS
      <4>2. 0 * rr = 0 /\ rb * Unit \in Int
        BY <1>1
      <4>3. v \in Int /\ v <= rb * Unit
        BY <1>1, <4>1, AtBounds
      <4> QED
        BY <4>1, <4>2, <4>3
    <3>3. At(r2, rr, rb, w) = Capped((v - Unit) + (w - w) * rr, rb * Unit)
      <4> HIDE DEF v, r2, rr, rb
      <4> QED
        BY <3>1, AtOf DEF v
    <3> HIDE DEF v, rr, rb, r2
    <3>4. At(r2, rr, rb, w) = v - Unit
      BY <3>2, <3>3 DEF Capped
    <3> QED
      BY <1>7, <3>4 DEF v
  <2>2. At(n, nr, nb, w - Delay) \in Int /\ At(r, rr, rb, w) \in Int
    <3> HIDE DEF nr, nb, rr, rb
    <3>1. w \in Int /\ w - Delay \in Int
      OBVIOUS
    <3>2. At(n, nr, nb, w - Delay) \in Int
      BY <1>1, <3>1, AtBounds
    <3>3. At(r, rr, rb, w) \in Int
      BY <1>1, <3>1, AtBounds
    <3> QED
      BY <3>2, <3>3
  <2>3. At(a, rate, burst, w) >= At(n, nr, nb, w - Delay) + At(r, rr, rb, w)
    BY <1>5
  <2>4. /\ At(a2, rate, burst, w) >= At(a, rate, burst, w) - Unit
        /\ At(a2, rate, burst, w) \in Int /\ At(a, rate, burst, w) \in Int
    BY <1>6
  <2>5. At(a2, rate, burst, w) >= At(n2, nr, nb, w - Delay) + At(r2, rr, rb, w)
    <3> HIDE DEF nr, nb, rr, rb, a2, n2, r2
    <3> QED
      BY <2>1, <2>2, <2>3, <2>4
  <2> HIDE DEF a2, n2, r2
  <2> QED
    BY <1>3, <2>5, CoversGrow
<1>8. CASE isNew
  <2> DEFINE k == Later(n, t)
  <2>1. k \in Nat /\ k + Delay \in Nat /\ k + Delay >= w /\ (k + Delay) - Delay = k
    BY LaterIs
  <2>2. n2 = n1
    BY <1>8
  <2>3. ASSUME NEW u \in Nat, u >= w
        PROVE  At(r2, rr, rb, u) = At(r, rr, rb, u)
    <3>1. r2 = [tokens |-> At(r, rr, rb, w), last |-> w]
      <4>1. At(r, rr, rb, w) \in Int
        <5> HIDE DEF rr, rb
        <5> QED
          BY <1>1, AtBounds
      <4>2. At(r, rr, rb, w) - 0 = At(r, rr, rb, w)
        <5> HIDE DEF rr, rb
        <5> QED
          BY <4>1
      <4> HIDE DEF r2
      <4> QED
        BY <1>4, <1>8, <4>2
    <3> HIDE DEF r2, rr, rb
    <3>2. At(r2, rr, rb, u) = Capped(At(r, rr, rb, w) + (u - w) * rr, rb * Unit)
      BY <3>1, AtOf
    <3>3. w \in Int /\ u \in Int /\ w <= u
      BY <2>3
    <3>4. At(r, rr, rb, u) = Capped(At(r, rr, rb, w) + (u - w) * rr, rb * Unit)
      BY <1>1, <3>3, AtLater
    <3> QED
      BY <3>2, <3>4
  <2>4. ASSUME NEW u \in Nat, u >= w, u - Delay <= k
        PROVE  At(a2, rate, burst, u) >= At(n2, nr, nb, u - Delay) + At(r2, rr, rb, u)
    <3>1. u - Delay \in Int
      OBVIOUS
    <3>2. At(n1, nr, nb, u - Delay) <= At(n, nr, nb, u - Delay) - Unit
      <4> HIDE DEF nr, nb
      <4> QED
        BY <1>1, <2>4, <3>1, TakeLoses
    <3>3. At(n, nr, nb, u - Delay) \in Int /\ At(r, rr, rb, u) \in Int
      <4> HIDE DEF nr, nb, rr, rb
      <4>1. u \in Int
        OBVIOUS
      <4>2. At(n, nr, nb, u - Delay) \in Int
        BY <1>1, <3>1, AtBounds
      <4>3. At(r, rr, rb, u) \in Int
        BY <1>1, <4>1, AtBounds
      <4> QED
        BY <4>2, <4>3
    <3>4. At(n1, nr, nb, u - Delay) \in Int
      <4>1. IsBucket(n1)
        BY <1>3, <2>2
      <4> HIDE DEF nr, nb, n1
      <4> QED
        BY <1>1, <3>1, <4>1, AtBounds
    <3>5. /\ At(a, rate, burst, u) >= At(n, nr, nb, u - Delay) + At(r, rr, rb, u)
          /\ At(a2, rate, burst, u) >= At(a, rate, burst, u) - Unit
          /\ At(a2, rate, burst, u) \in Int /\ At(a, rate, burst, u) \in Int
      BY <1>5, <1>6, <2>4
    <3>6. At(r2, rr, rb, u) = At(r, rr, rb, u)
      BY <2>3, <2>4
    <3> HIDE DEF nr, nb, rr, rb, a2, n1, n2, r2
    <3> QED
      BY <2>2, <3>2, <3>3, <3>4, <3>5, <3>6
  <2>5. CASE s - Delay <= k
    BY <2>4, <2>5
  <2>6. CASE s - Delay > k
    <3>1. At(a2, rate, burst, k + Delay) >=
            At(n2, nr, nb, (k + Delay) - Delay) + At(r2, rr, rb, k + Delay)
      <4>1. (k + Delay) - Delay <= k
        BY <2>1
      <4> HIDE DEF k
      <4> QED
        BY <2>1, <2>4, <4>1
    <3>2. s >= k + Delay
      BY <2>1, <2>6
    <3> HIDE DEF a2, n2, r2, k
    <3> QED
      BY <1>3, <2>1, <3>1, <3>2, CoversGrow
  <2> QED
    BY <2>1, <2>5, <2>6
<1> QED
  BY <1>7, <1>8

-----------------------------------------------------------------------------
(* The invariant *)

\* The buckets of the server, or of a caller, and recovery's share of them.
PairOK(a, n, r, rate, burst, t) ==
  /\ IsBucket(a) /\ IsBucket(n) /\ IsBucket(r)
  /\ n.tokens >= 0 /\ a.last <= t /\ n.last <= t /\ r.last <= t
  /\ Covers(a, n, r, rate, burst, t)

\* An entry of the table of callers.
CallerOK(c, r, t) ==
  /\ c = [known |-> TRUE, all |-> c.all, new |-> c.new]
  /\ PairOK(c.all, c.new, r, PeerRate, PeerBurst, t)

\* New work holds no more permits than its own semaphores have.
NewLimit(q) == IF q = 0 THEN NewWrites ELSE PeerWrites - 1

HeldOK(h, limit) ==
  /\ h = [new |-> h.new, recovery |-> h.recovery]
  /\ h.new \in Int /\ h.recovery \in Int /\ h.new <= limit

\* Recovery's tokens are covered, the server's and every caller's, and so are
\* its permits.
AdmissionInv ==
  /\ now \in Nat
  /\ DOMAIN caller = Peers /\ DOMAIN held = Holders /\ DOMAIN reserve = Holders
  /\ PairOK(all, new, reserve[0], GlobalRate, GlobalBurst, now)
  /\ \A p \in Peers : IsBucket(reserve[p]) /\ reserve[p].last <= now
  /\ \A p \in Peers : caller[p] # NoCaller => CallerOK(caller[p], reserve[p], now)
  /\ \A q \in Holders : HeldOK(held[q], NewLimit(q))

\* The limits that a configuration may set.
LEMMA LimitFacts ==
  /\ Unit \in Nat /\ Unit >= 1
  /\ PeerRate \in Nat /\ PeerRate >= 2 /\ PeerBurst \in Nat /\ PeerBurst >= 2
  /\ GlobalRate \in Nat /\ GlobalRate >= 2 /\ GlobalBurst \in Nat /\ GlobalBurst >= 2
  /\ PeerWrites \in Nat /\ PeerWrites >= 2 /\ GlobalWrites \in Nat /\ GlobalWrites >= 2
  /\ NewWrites \in Nat /\ NewWrites < GlobalWrites /\ NewWrites >= 1
  /\ 0 \notin Peers /\ Delay \in Nat
<1>1. /\ Unit \in Nat /\ Unit >= 1
      /\ PeerRate \in Nat /\ PeerRate >= 2 /\ PeerBurst \in Nat /\ PeerBurst >= 2
      /\ GlobalRate \in Nat /\ GlobalRate >= 2 /\ GlobalBurst \in Nat /\ GlobalBurst >= 2
      /\ PeerWrites \in Nat /\ PeerWrites >= 2 /\ GlobalWrites \in Nat /\ GlobalWrites >= 2
      /\ 0 \notin Peers /\ Delay \in Nat
  <2>1. Unit \in Nat /\ Unit >= 1 /\ 0 \notin Peers /\ Delay \in Nat
    BY LimitsAssumption
  <2>2. \A i \in {PeerRate, PeerBurst, PeerWrites, GlobalRate, GlobalBurst, GlobalWrites} :
          i \in Nat /\ i >= 2
    BY LimitsAssumption
  <2> QED
    BY <2>1, <2>2
<1>2. NewWrites \in Nat /\ NewWrites < GlobalWrites /\ NewWrites >= 1
  BY <1>1 DEF NewWrites
<1> QED
  BY <1>1, <1>2

\* New work never holds less than nothing, so a covered bucket has for recovery
\* what its share has, less the refill of the time that calls wait.
LEMMA CoveredNow ==
  ASSUME NEW a, NEW n, NEW r, NEW rate \in Nat, NEW burst \in Nat, rate >= 2, burst >= 2,
         NEW t \in Nat, NEW w \in Nat, t <= w, Delay \in Nat, Unit \in Nat,
         PairOK(a, n, r, rate, burst, w),
         Reserve(r, rate, burst, w).tokens >= Unit + (Delay * NewRate(rate) + (w - t) * rate)
  PROVE  CanTake(a, rate, burst, t)
<1> DEFINE nr == NewRate(rate)
           nb == NewBurst(burst)
           rr == rate - nr
           rb == burst - nb
           m == Later(a, t)
<1>1. nr \in Nat /\ nb \in Nat /\ rr \in Nat /\ rb \in Nat
  BY ShareTypes
<1>2. /\ IsBucket(a) /\ IsBucket(n) /\ IsBucket(r) /\ n.tokens >= 0
      /\ a.last <= w /\ n.last <= w /\ r.last <= w
  BY DEF PairOK
<1>3. Reserve(r, rate, burst, w).tokens = At(r, rr, rb, w)
  <2>1. ASSUME NEW isNew \in BOOLEAN
        PROVE  Reserve(r, rate, burst, w).tokens = At(r, rr, rb, w)
    BY <1>2, SpendIs
  <2> QED
    BY <2>1
<1>4. At(a, rate, burst, w) >= At(n, nr, nb, w - Delay) + At(r, rr, rb, w)
  BY DEF PairOK, Covers
<1>5. m \in Nat /\ m >= t /\ m <= w
  BY <1>2, LaterIs
<1> HIDE DEF nr, nb, rr, rb, m
<1>6. /\ At(n, nr, nb, w - Delay) \in Int /\ At(r, rr, rb, w) \in Int
      /\ At(a, rate, burst, w) \in Int /\ At(a, rate, burst, m) \in Int
  <2>0. w \in Int /\ w - Delay \in Int /\ m \in Int
    BY <1>5
  <2>1. At(n, nr, nb, w - Delay) \in Int
    BY <1>1, <1>2, <2>0, AtBounds
  <2>2. At(r, rr, rb, w) \in Int
    BY <1>1, <1>2, <2>0, AtBounds
  <2>3. At(a, rate, burst, w) \in Int /\ At(a, rate, burst, m) \in Int
    BY <1>2, <2>0, AtBounds
  <2> QED
    BY <2>1, <2>2, <2>3
<1>7. At(n, nr, nb, w - Delay) >= 0 - Delay * nr
  <2>1. w - n.last \in Nat /\ n.tokens \in Int /\ n.last \in Nat
    BY <1>2 DEF IsBucket
  <2>2. (w - n.last) * nr \in Nat /\ Delay * nr \in Nat /\ nb * Unit \in Nat
    BY <1>1, <2>1, ProductIsNat
  <2>3. ((w - Delay) - n.last) * nr = (w - n.last) * nr - Delay * nr
    BY <1>1, <2>1, Distribute
  <2> DEFINE x == n.tokens + ((w - Delay) - n.last) * nr
  <2>4. x \in Int /\ x >= 0 - Delay * nr
    BY <1>2, <2>1, <2>2, <2>3
  <2>5. At(n, nr, nb, w - Delay) = Capped(x, nb * Unit)
    BY DEF At
  <2> HIDE DEF x
  <2> QED
    BY <2>2, <2>4, <2>5 DEF Capped
<1>8. At(a, rate, burst, w) <= At(a, rate, burst, m) + (w - t) * rate
  <2>1. At(a, rate, burst, w) <= At(a, rate, burst, m) + (w - m) * rate
    BY <1>2, <1>5, AtLater
  <2>2. m - t \in Nat /\ (w - t) = (w - m) + (m - t)
    BY <1>5
  <2>3. (w - t) * rate = (w - m) * rate + (m - t) * rate
    BY <1>5, <2>2, Distribute
  <2>4. (m - t) * rate \in Nat /\ (w - m) * rate \in Int
    BY <1>5, <2>2, ProductIsNat
  <2> QED
    BY <1>6, <2>1, <2>3, <2>4
<1>9. Delay * nr \in Int /\ (w - t) * rate \in Int
  BY <1>1
<1>10. At(r, rr, rb, w) >= Unit + (Delay * nr + (w - t) * rate)
  BY <1>3 DEF nr
<1>11. At(a, rate, burst, m) >= Unit
  BY <1>4, <1>6, <1>7, <1>8, <1>9, <1>10
<1> QED
  BY <1>2, <1>11, TakeIs DEF m

\* An admission, on the buckets of the server or of a caller, by a call that read
\* the clock at t and has the mutex at w.
LEMMA PairTake ==
  ASSUME NEW a, NEW n, NEW r, NEW rate \in Nat, NEW burst \in Nat, rate >= 2, burst >= 2,
         NEW t \in Nat, NEW w \in Nat, t <= w, t >= w - Delay, Delay \in Nat, Unit \in Nat,
         NEW isNew \in BOOLEAN, PairOK(a, n, r, rate, burst, w),
         isNew => CanTake(n, NewRate(rate), NewBurst(burst), t)
  PROVE  PairOK(Take(a, rate, burst, t),
                IF isNew THEN Take(n, NewRate(rate), NewBurst(burst), t) ELSE n,
                Spend(r, rate, burst, isNew, w), rate, burst, w)
<1> DEFINE n2 == IF isNew THEN Take(n, NewRate(rate), NewBurst(burst), t) ELSE n
<1>1. /\ IsBucket(a) /\ IsBucket(n) /\ IsBucket(r) /\ n.tokens >= 0
      /\ a.last <= w /\ n.last <= w /\ r.last <= w
  BY DEF PairOK
<1>2. NewRate(rate) \in Nat /\ NewBurst(burst) \in Nat
  BY ShareTypes
<1>3. /\ IsBucket(Take(a, rate, burst, t)) /\ IsBucket(Spend(r, rate, burst, isNew, w))
      /\ Take(a, rate, burst, t).last <= w /\ Spend(r, rate, burst, isNew, w).last <= w
  <2>1. /\ IsBucket(Take(a, rate, burst, t))
        /\ Take(a, rate, burst, t) =
             [tokens |-> At(a, rate, burst, Later(a, t)) - Unit, last |-> Later(a, t)]
    BY <1>1, TakeIs
  <2>2. /\ IsBucket(Spend(r, rate, burst, isNew, w))
        /\ Spend(r, rate, burst, isNew, w) =
             [tokens |-> At(r, rate - NewRate(rate), burst - NewBurst(burst), w)
                           - (IF isNew THEN 0 ELSE Unit),
              last |-> w]
    BY <1>1, SpendIs
  <2>3. Take(a, rate, burst, t).last = Later(a, t) /\ Spend(r, rate, burst, isNew, w).last = w
    BY <2>1, <2>2
  <2>4. Later(a, t) <= w
    BY <1>1, LaterIs
  <2> QED
    BY <2>1, <2>2, <2>3, <2>4
<1>4. IsBucket(n2) /\ n2.tokens >= 0 /\ n2.last <= w
  <2>1. CASE isNew
    <3> DEFINE k == Later(n, t)
               v == At(n, NewRate(rate), NewBurst(burst), k)
    <3>1. n2 = [tokens |-> v - Unit, last |-> k] /\ IsBucket(n2) /\ v >= Unit
      BY <1>1, <1>2, <2>1, TakeIs
    <3>2. k \in Nat /\ k <= w
      BY <1>1, LaterIs
    <3>3. v \in Int
      <4> HIDE DEF k
      <4> QED
        BY <1>1, <1>2, <3>2, AtBounds
    <3> HIDE DEF v, n2, k
    <3> QED
      BY <3>1, <3>2, <3>3
  <2>2. CASE ~isNew
    BY <1>1, <2>2
  <2> QED
    BY <2>1, <2>2
<1>5. Covers(Take(a, rate, burst, t), n2, Spend(r, rate, burst, isNew, w), rate, burst, w)
  BY <1>1, CoversTake DEF PairOK
<1> HIDE DEF n2
<1>6. PairOK(Take(a, rate, burst, t), n2, Spend(r, rate, burst, isNew, w), rate, burst, w)
  BY <1>3, <1>4, <1>5 DEF PairOK
<1> QED
  BY <1>6 DEF n2

\* A full bucket covers everything: how a pair begins.
LEMMA PairFresh ==
  ASSUME NEW r, IsBucket(r), NEW rate \in Nat, NEW burst \in Nat, rate >= 2, burst >= 2,
         NEW t \in Nat, NEW w \in Nat, t <= w, Delay \in Nat, Unit \in Nat, r.last <= w
  PROVE  PairOK(Bucket(burst, t), Bucket(NewBurst(burst), t), r, rate, burst, w)
<1> DEFINE nr == NewRate(rate)
           nb == NewBurst(burst)
           rr == rate - nr
           rb == burst - nb
           a == Bucket(burst, t)
           n == Bucket(nb, t)
<1>1. nr \in Nat /\ nb \in Nat /\ rr \in Nat /\ rb \in Nat /\ burst = nb + rb
  BY ShareTypes
<1>2. burst * Unit \in Nat /\ nb * Unit \in Nat /\ rb * Unit \in Nat
  <2> HIDE DEF nb, rb
  <2> QED
    BY <1>1, ProductIsNat
<1>3. burst * Unit = nb * Unit + rb * Unit
  <2> HIDE DEF nb, rb
  <2> QED
    BY <1>1, Distribute
<1>4. IsBucket(a) /\ a.tokens = burst * Unit /\ a.last = t
  BY <1>2 DEF IsBucket, Bucket
<1>5. IsBucket(n) /\ n.tokens = nb * Unit /\ n.last = t
  BY <1>2 DEF IsBucket, Bucket
<1> HIDE DEF nr, nb, rr, rb, a, n
<1>6. ASSUME NEW s \in Nat, s >= w
      PROVE  At(a, rate, burst, s) >= At(n, nr, nb, s - Delay) + At(r, rr, rb, s)
  <2>1. (s - t) * rate \in Nat
    <3>1. s - t \in Nat
      BY <1>6
    <3> QED
      BY <3>1, ProductIsNat
  <2>2. At(a, rate, burst, s) = burst * Unit
    BY <1>2, <1>4, <2>1 DEF At, Capped
  <2>3. /\ At(n, nr, nb, s - Delay) \in Int /\ At(n, nr, nb, s - Delay) <= nb * Unit
        /\ At(r, rr, rb, s) \in Int /\ At(r, rr, rb, s) <= rb * Unit
    <3>1. s \in Int /\ s - Delay \in Int
      OBVIOUS
    <3>2. At(n, nr, nb, s - Delay) \in Int /\ At(n, nr, nb, s - Delay) <= nb * Unit
      BY <1>1, <1>5, <3>1, AtBounds
    <3>3. At(r, rr, rb, s) \in Int /\ At(r, rr, rb, s) <= rb * Unit
      BY <1>1, <3>1, AtBounds
    <3> QED
      BY <3>2, <3>3
  <2> QED
    BY <1>2, <1>3, <2>2, <2>3
<1>7. Covers(a, n, r, rate, burst, w)
  BY <1>6 DEF Covers, nr, nb, rr, rb
<1>8. PairOK(a, n, r, rate, burst, w)
  BY <1>2, <1>4, <1>5, <1>7 DEF PairOK
<1> QED
  BY <1>8 DEF a, n, nb

\* Time only passes.
LEMMA PairLater ==
  ASSUME NEW a, NEW n, NEW r, NEW rate, NEW burst, NEW t \in Nat,
         PairOK(a, n, r, rate, burst, t)
  PROVE  PairOK(a, n, r, rate, burst, t + 1)
<1>1. \A b \in {a, n, r} : b.last \in Nat /\ b.last <= t
  BY DEF PairOK, IsBucket
<1>2. \A s \in Nat : s >= t + 1 => s >= t
  OBVIOUS
<1>3. Covers(a, n, r, rate, burst, t + 1)
  BY <1>2 DEF PairOK, Covers
<1> QED
  BY <1>1, <1>3 DEF PairOK

\* The entry that an admission of the caller works on.
LEMMA EntryOK ==
  ASSUME AdmissionInv, NEW p \in Peers, NEW t \in Times
  PROVE  CallerOK(Entry(p, t), reserve[p], now)
<1>0. t \in Nat /\ t <= now /\ now \in Nat
  BY DEF Times, AdmissionInv
<1>1. CASE p \in Known
  BY <1>1 DEF AdmissionInv, Known, Entry
<1>2. CASE p \notin Known
  <2> DEFINE a == Bucket(PeerBurst, t)
             n == Bucket(NewBurst(PeerBurst), t)
  <2>1. PairOK(a, n, reserve[p], PeerRate, PeerBurst, now)
    BY <1>0, LimitFacts, PairFresh DEF AdmissionInv
  <2>2. Entry(p, t) = [known |-> TRUE, all |-> a, new |-> n]
    BY <1>2 DEF Entry
  <2> HIDE DEF a, n
  <2>3. /\ Entry(p, t).all = a /\ Entry(p, t).new = n
        /\ Entry(p, t) = [known |-> TRUE, all |-> Entry(p, t).all, new |-> Entry(p, t).new]
    BY <2>2
  <2> QED
    BY <2>1, <2>3 DEF CallerOK
<1> QED
  BY <1>1, <1>2

\* A permit of new work is taken only below the limit.
LEMMA PermitTaken ==
  ASSUME NEW h, NEW limit \in Int, HeldOK(h, limit), NEW isNew \in BOOLEAN, isNew => h.new < limit
  PROVE  HeldOK(Permits(h, isNew, 1), limit)
<1> DEFINE g == IF isNew THEN [new |-> h.new + 1, recovery |-> h.recovery]
                ELSE [new |-> h.new, recovery |-> h.recovery + 1]
<1>1. Permits(h, isNew, 1) = g
  BY DEF Permits, HeldOK
<1>2. HeldOK(g, limit)
  BY DEF HeldOK
<1> QED
  BY <1>1, <1>2

\* A permit that is dropped keeps the semaphore in order.
LEMMA PermitBack ==
  ASSUME NEW h, NEW limit \in Int, HeldOK(h, limit), NEW isNew \in BOOLEAN
  PROVE  HeldOK(Permits(h, isNew, -1), limit)
<1> DEFINE g == IF isNew THEN [new |-> h.new - 1, recovery |-> h.recovery]
                ELSE [new |-> h.new, recovery |-> h.recovery - 1]
<1>1. Permits(h, isNew, -1) = g
  BY DEF Permits, HeldOK
<1>2. HeldOK(g, limit)
  BY DEF HeldOK
<1> QED
  BY <1>1, <1>2

\* An admitted call takes one token of each bucket and its permits.
LEMMA AdmitKeeps ==
  ASSUME AdmissionInv, NEW p \in Peers, NEW isNew \in BOOLEAN, NEW t, Admit(p, isNew, t)
  PROVE  AdmissionInv'
<1> DEFINE e == Entry(p, t)
           a2 == Take(e.all, PeerRate, PeerBurst, t)
           n2 == IF isNew THEN Take(e.new, NewRate(PeerRate), NewBurst(PeerBurst), t) ELSE e.new
           c2 == [known |-> TRUE, all |-> a2, new |-> n2]
           r2 == Spend(reserve[p], PeerRate, PeerBurst, isNew, now)
           r0 == Spend(reserve[0], GlobalRate, GlobalBurst, isNew, now)
<1>0. t \in Times /\ t \in Nat /\ t <= now /\ t >= now - Delay
  BY DEF Admit, Times
<1>1. CallerOK(e, reserve[p], now)
  BY <1>0, EntryOK
<1>2. now \in Nat /\ now' = now /\ p # 0
  BY LimitFacts DEF AdmissionInv, Admit
<1>3. PairOK(a2, n2, r2, PeerRate, PeerBurst, now)
  <2>1. isNew => CanTake(e.new, NewRate(PeerRate), NewBurst(PeerBurst), t)
    BY DEF Admit, Admissible, Passes
  <2>2. PairOK(e.all, e.new, reserve[p], PeerRate, PeerBurst, now)
    BY <1>1 DEF CallerOK
  <2> HIDE DEF e
  <2> QED
    BY <1>0, <1>2, <2>1, <2>2, LimitFacts, PairTake
<1>4. PairOK(all', new', r0, GlobalRate, GlobalBurst, now)
  <2>1. isNew => CanTake(new, NewRate(GlobalRate), NewBurst(GlobalBurst), t)
    BY DEF Admit, Admissible, Enters
  <2>2. PairOK(all, new, reserve[0], GlobalRate, GlobalBurst, now)
    BY DEF AdmissionInv
  <2>3. /\ all' = Take(all, GlobalRate, GlobalBurst, t)
        /\ new' = IF isNew THEN Take(new, NewRate(GlobalRate), NewBurst(GlobalBurst), t) ELSE new
    BY DEF Admit
  <2>4. PairOK(Take(all, GlobalRate, GlobalBurst, t),
               IF isNew THEN Take(new, NewRate(GlobalRate), NewBurst(GlobalBurst), t) ELSE new,
               r0, GlobalRate, GlobalBurst, now)
    BY <1>0, <1>2, <2>1, <2>2, LimitFacts, PairTake
  <2> QED
    BY <2>3, <2>4
<1>5. caller' = [caller EXCEPT ![p] = c2]
  BY DEF Admit
<1>6. reserve' = [q \in Holders |-> IF q = 0 THEN r0 ELSE IF q = p THEN r2 ELSE reserve[q]]
  <2>1. reserve' = [q \in Holders |->
          CASE q = 0 -> r0 [] q = p -> r2 [] OTHER -> reserve[q]]
    BY DEF Admit
  <2> HIDE DEF r0, r2
  <2>2. \A q \in Holders :
          (CASE q = 0 -> r0 [] q = p -> r2 [] OTHER -> reserve[q])
            = IF q = 0 THEN r0 ELSE IF q = p THEN r2 ELSE reserve[q]
    BY <1>2
  <2> QED
    BY <2>1, <2>2
<1>7. held' = [q \in Holders |-> IF q \in {0, p} THEN Permits(held[q], isNew, 1) ELSE held[q]]
  BY DEF Admit
<1>8. \A q \in Holders : HeldOK(held'[q], NewLimit(q))
  <2> SUFFICES ASSUME NEW q \in Holders PROVE HeldOK(held'[q], NewLimit(q))
    OBVIOUS
  <2>1. HeldOK(held[q], NewLimit(q)) /\ NewLimit(q) \in Int
    BY LimitFacts DEF AdmissionInv, NewLimit
  <2>2. isNew => held[0].new < NewLimit(0) /\ held[p].new < NewLimit(p)
    BY <1>2 DEF Admit, Admissible, Passes, NewSlots, NewLimit
  <2>3. CASE q \in {0, p}
    BY <1>7, <2>1, <2>2, <2>3, PermitTaken
  <2>4. CASE q \notin {0, p}
    BY <1>7, <2>1, <2>4
  <2> QED
    BY <2>3, <2>4
<1>9. CallerOK(c2, r2, now)
  <2>1. c2.all = a2 /\ c2.new = n2 /\ c2 = [known |-> TRUE, all |-> c2.all, new |-> c2.new]
    OBVIOUS
  <2> HIDE DEF a2, n2, r2, c2
  <2> QED
    BY <1>3, <2>1 DEF CallerOK
<1>10. IsBucket(r2) /\ r2.last <= now
  BY <1>3 DEF PairOK
<1> HIDE DEF e, a2, n2, c2, r2, r0
<1>11. 0 \in Holders /\ Peers \subseteq Holders /\ 0 \notin Peers
  BY LimitFacts DEF Holders
<1>12. reserve'[0] = r0 /\ reserve'[p] = r2 /\ \A q \in Peers : q # p => reserve'[q] = reserve[q]
  BY <1>2, <1>6, <1>11
<1>13. caller'[p] = c2 /\ \A q \in Peers : q # p => caller'[q] = caller[q]
  BY <1>5 DEF AdmissionInv
<1>14. DOMAIN caller' = Peers /\ DOMAIN held' = Holders /\ DOMAIN reserve' = Holders
  BY <1>5, <1>6, <1>7 DEF AdmissionInv
<1>15. \A q \in Peers : IsBucket(reserve'[q]) /\ reserve'[q].last <= now'
  BY <1>2, <1>10, <1>12 DEF AdmissionInv
<1>16. \A q \in Peers : caller'[q] # NoCaller => CallerOK(caller'[q], reserve'[q], now)
  BY <1>9, <1>12, <1>13 DEF AdmissionInv
<1>17. PairOK(all', new', reserve'[0], GlobalRate, GlobalBurst, now')
  BY <1>2, <1>4, <1>12
<1>18. \A q \in Peers : caller'[q] # NoCaller' => CallerOK(caller'[q], reserve'[q], now')
  BY <1>2, <1>16 DEF NoCaller
<1> QED
  BY <1>2, <1>8, <1>14, <1>15, <1>17, <1>18 DEF AdmissionInv

\* A refused call debits nothing, and may leave an entry in the table.
LEMMA RefuseKeeps ==
  ASSUME AdmissionInv, NEW p \in Peers, NEW isNew \in BOOLEAN, NEW t, Refuse(p, isNew, t)
  PROVE  AdmissionInv'
<1> DEFINE e == Entry(p, t)
<1>1. CallerOK(e, reserve[p], now)
  BY EntryOK DEF Refuse
<1>2. /\ UNCHANGED <<now, all, new, held, reserve>>
      /\ caller' = caller \/ caller' = [caller EXCEPT ![p] = e]
  BY DEF Refuse, Refused
<1> HIDE DEF e
<1>3. DOMAIN caller' = Peers /\ \A q \in Peers : caller'[q] = caller[q] \/ (q = p /\ caller'[q] = e)
  BY <1>2 DEF AdmissionInv
<1>4. \A q \in Peers : caller'[q] # NoCaller => CallerOK(caller'[q], reserve[q], now)
  BY <1>1, <1>3 DEF AdmissionInv
<1> QED
  BY <1>2, <1>3, <1>4 DEF AdmissionInv, NoCaller

\* A permit is dropped.
LEMMA ReleaseKeeps ==
  ASSUME AdmissionInv, NEW p \in Peers, NEW isNew \in BOOLEAN, Release(p, isNew)
  PROVE  AdmissionInv'
<1>1. /\ UNCHANGED <<now, all, new, caller, reserve>>
      /\ held' = [q \in Holders |-> IF q \in {0, p} THEN Permits(held[q], isNew, -1) ELSE held[q]]
  BY DEF Release
<1>2. \A q \in Holders : HeldOK(held'[q], NewLimit(q))
  <2> SUFFICES ASSUME NEW q \in Holders PROVE HeldOK(held'[q], NewLimit(q))
    OBVIOUS
  <2>1. HeldOK(held[q], NewLimit(q)) /\ NewLimit(q) \in Int
    BY LimitFacts DEF AdmissionInv, NewLimit
  <2>2. HeldOK(Permits(held[q], isNew, -1), NewLimit(q))
    BY <2>1, PermitBack
  <2> QED
    BY <1>1, <2>1, <2>2
<1> QED
  BY <1>1, <1>2 DEF AdmissionInv, NoCaller

\* Time passes: what is in order at every later time stays so.
LEMMA TickKeeps ==
  ASSUME AdmissionInv, Tick
  PROVE  AdmissionInv'
<1>1. now \in Nat /\ now' = now + 1 /\ UNCHANGED <<all, new, caller, held, reserve>>
  BY DEF AdmissionInv, Tick
<1>2. PairOK(all, new, reserve[0], GlobalRate, GlobalBurst, now + 1)
  BY <1>1, PairLater DEF AdmissionInv
<1>3. \A p \in Peers : caller[p] # NoCaller => CallerOK(caller[p], reserve[p], now + 1)
  BY <1>1, PairLater DEF AdmissionInv, CallerOK
<1>4. \A p \in Peers : IsBucket(reserve[p]) /\ reserve[p].last <= now + 1
  BY <1>1 DEF AdmissionInv, IsBucket
<1> QED
  BY <1>1, <1>2, <1>3, <1>4 DEF AdmissionInv, NoCaller

\* The inductive invariant of `Service::admit` and of the permits it gives out.
THEOREM AdmissionInductive == Spec => []AdmissionInv
<1>1. Init => AdmissionInv
  <2> SUFFICES ASSUME Init PROVE AdmissionInv
    OBVIOUS
  <2>1. now = 0
    BY DEF Init
  <2>2. \A q \in Holders : IsBucket(reserve[q]) /\ reserve[q].last <= now
    <3> SUFFICES ASSUME NEW q \in Holders PROVE IsBucket(reserve[q]) /\ reserve[q].last <= now
      OBVIOUS
    <3> DEFINE b == IF q = 0 THEN GlobalBurst - NewBurst(GlobalBurst)
                    ELSE PeerBurst - NewBurst(PeerBurst)
    <3>1. reserve[q] = Bucket(b, now)
      BY DEF Init
    <3>2. b \in Nat
      BY LimitFacts, Shares DEF NewBurst
    <3> HIDE DEF b
    <3>3. b * Unit \in Int
      BY <3>2, LimitFacts
    <3> QED
      BY <2>1, <3>1, <3>3 DEF Bucket, IsBucket
  <2>3. PairOK(all, new, reserve[0], GlobalRate, GlobalBurst, now)
    BY <2>1, <2>2, LimitFacts, PairFresh DEF Init, Holders
  <2>4. \A q \in Holders : HeldOK(held[q], NewLimit(q))
    BY LimitFacts DEF Init, HeldOK, NewLimit
  <2>5. \A p \in Peers : caller[p] = NoCaller
    BY DEF Init
  <2>6. DOMAIN caller = Peers /\ DOMAIN held = Holders /\ DOMAIN reserve = Holders
    BY DEF Init
  <2> QED
    BY <2>1, <2>2, <2>3, <2>4, <2>5, <2>6 DEF AdmissionInv, Holders
<1>2. AdmissionInv /\ [Next]_vars => AdmissionInv'
  <2> SUFFICES ASSUME AdmissionInv, [Next]_vars PROVE AdmissionInv'
    OBVIOUS
  <2>1. ASSUME NEW p \in Peers, NEW isNew \in BOOLEAN, NEW t \in 0 .. MaxTime,
               Admit(p, isNew, t) \/ Refuse(p, isNew, t)
        PROVE  AdmissionInv'
    BY <2>1, AdmitKeeps, RefuseKeeps
  <2>4. ASSUME NEW p \in Peers, NEW isNew \in BOOLEAN, Release(p, isNew)
        PROVE  AdmissionInv'
    BY <2>4, ReleaseKeeps
  <2>2. CASE Tick
    BY <2>2, TickKeeps
  <2>3. CASE ReadStart \/ ReadEnd \/ UNCHANGED vars
    BY <2>3 DEF ReadStart, ReadEnd, vars, AdmissionInv, NoCaller
  <2> QED
    BY <2>1, <2>2, <2>3, <2>4 DEF Next
<1> QED
  BY <1>1, <1>2, PTL DEF Spec

\* However much new work comes in, from whomever, and in whatever order calls come
\* to the mutex, what `admit` has set aside for the exchanges under way is there,
\* less the refill of the time that calls wait: their messages pass as long as
\* recovery itself is within that share.
THEOREM RecoveryIsReserved == Spec => []RecoveryAdmitted
<1>1. AdmissionInv => RecoveryAdmitted
  <2> SUFFICES ASSUME AdmissionInv, NEW p \in Peers, NEW t \in Times, RecoveryFits(p),
                      ReserveLeft(0, GlobalRate, GlobalBurst) >= Unit + Shortfall(GlobalRate, t),
                      ReserveLeft(p, PeerRate, PeerBurst) >= Unit + Shortfall(PeerRate, t)
               PROVE  Admissible(p, FALSE, t)
    BY DEF RecoveryAdmitted
  <2>0. t \in Nat /\ t <= now /\ t >= now - Delay /\ now \in Nat
    BY DEF Times, AdmissionInv
  <2>1. CanTake(all, GlobalRate, GlobalBurst, t)
    <3>1. PairOK(all, new, reserve[0], GlobalRate, GlobalBurst, now)
      BY DEF AdmissionInv
    <3>2. Reserve(reserve[0], GlobalRate, GlobalBurst, now).tokens >=
            Unit + (Delay * NewRate(GlobalRate) + (now - t) * GlobalRate)
      BY DEF ReserveLeft, Shortfall
    <3> QED
      BY <2>0, <3>1, <3>2, LimitFacts, CoveredNow
  <2>2. CanTake(Entry(p, t).all, PeerRate, PeerBurst, t)
    <3> DEFINE e == Entry(p, t)
    <3>1. PairOK(e.all, e.new, reserve[p], PeerRate, PeerBurst, now)
      BY EntryOK DEF CallerOK
    <3>2. Reserve(reserve[p], PeerRate, PeerBurst, now).tokens >=
            Unit + (Delay * NewRate(PeerRate) + (now - t) * PeerRate)
      BY DEF ReserveLeft, Shortfall
    <3> HIDE DEF e
    <3>3. CanTake(e.all, PeerRate, PeerBurst, t)
      BY <2>0, <3>1, <3>2, LimitFacts, CoveredNow
    <3> QED
      BY <3>3 DEF e
  <2>3. 0 \in Holders /\ p \in Holders /\ p # 0
    BY LimitFacts DEF Holders
  <2>4. HeldOK(held[0], NewWrites) /\ HeldOK(held[p], PeerWrites - 1)
    BY <2>3 DEF AdmissionInv, NewLimit
  <2>5. held[0].new + held[0].recovery < GlobalWrites
    BY <2>4, LimitFacts DEF HeldOK, RecoveryFits
  <2>6. held[p].new + held[p].recovery < PeerWrites
    BY <2>4, LimitFacts DEF HeldOK, RecoveryFits
  <2> QED
    BY <2>1, <2>2, <2>5, <2>6 DEF Admissible, Enters, Passes, RecoveryFits
<1> QED
  BY <1>1, AdmissionInductive, PTL
=============================================================================
