------------------------ MODULE AdminAccessProofs ------------------------
(***************************************************************************)
(* The login limit for any number of addresses and concurrent calls, any   *)
(* number of tokens and any window.                                        *)
(*                                                                         *)
(* What an address has used and what is left in its bucket never exceed    *)
(* the first filling plus what the time up to the last refill is worth.    *)
(* Readings of the clock may be applied out of order; as the time of the   *)
(* last refill is never ahead of the clock, no stretch of time is counted  *)
(* twice.  A refused caller who waits half a second longer than it was     *)
(* told finds an attempt, whatever the window is, and however the code     *)
(* rounds by less than a unit.                                             *)
(*                                                                         *)
(* Logins and sessions for any number of users, browsers, tokens and       *)
(* concurrent requests.  Every session, in the store or attached to a      *)
(* request, carries the user and the deadline of the login that issued its *)
(* token; no request writes anything else back.  The limiter of the login  *)
(* routes takes the steps of LimiterSpec, so that its theorems hold here.  *)
(***************************************************************************)
EXTENDS AdminAccess, TLAPS

USE LimiterAssumption, TimeAssumption

\* Used and left, against what was earned.
Earned(k) ==
    IF bucket[k].last = -1 THEN admitted[k] = 0
    ELSE admitted[k] * Window + bucket[k].credit <= Capacity + bucket[k].last * MaxTokens

BucketInv ==
    /\ LimiterTypeOK
    /\ \A s \in Slot : reading[s] <= now
    /\ \A k \in Key : bucket[k].last <= now /\ Earned(k)

\* A bucket that was filled.
Filled == [credit: 0..Capacity, short: BOOLEAN, last: 0..MaxTime]

----------------------------------------------------------------------------
(* Lemmas about the bucket *)

\* The capacity of a bucket is a number, and holds an attempt.
LEMMA CapacityIsNat == Capacity \in Nat /\ Capacity >= Window
<1>1. \A w \in Nat : MaxTokens * w \in Nat /\ MaxTokens * w >= w
  OBVIOUS
<1> QED BY <1>1 DEF Capacity

\* What a refill does to a bucket that exists, when time has passed.
LEMMA RefillAdds ==
    ASSUME NEW b \in Bucket, b.last # -1, NEW read \in 0..MaxTime, read > b.last,
           NEW short \in BOOLEAN
    PROVE  /\ Refill(b, read, short) \in Filled
           /\ Refill(b, read, short).last = read
           /\ \/ /\ Refill(b, read, short).credit = b.credit + (read - b.last) * MaxTokens
                 /\ Refill(b, read, short).credit <= Capacity
              \/ /\ Refill(b, read, short).credit = Capacity
                 /\ ~Refill(b, read, short).short
                 /\ Capacity < b.credit + (read - b.last) * MaxTokens
<1>0. Capacity \in Nat /\ b.credit \in 0..Capacity /\ b.last \in Int /\ ~(read <= b.last)
  BY CapacityIsNat DEF Bucket
<1> DEFINE sum == b.credit + (read - b.last) * MaxTokens
<1>1. sum \in Nat
  <2>1. \A d \in Nat : d * MaxTokens \in Nat
    OBVIOUS
  <2>2. read - b.last \in Nat
    BY <1>0
  <2> QED BY <1>0, <2>1, <2>2
<1>2. Refill(b, read, short) =
        IF sum > Capacity THEN [credit |-> Capacity, short |-> FALSE, last |-> read]
        ELSE [credit |-> sum, short |-> short, last |-> read]
  BY <1>0 DEF Refill
<1> HIDE DEF sum
<1>3. CASE sum > Capacity
  BY <1>0, <1>1, <1>2, <1>3 DEF Filled, sum
<1>4. CASE ~(sum > Capacity)
  <2>1. sum \in 0..Capacity /\ sum <= Capacity
    BY <1>0, <1>1, <1>4
  <2> QED BY <1>2, <1>4, <2>1 DEF Filled, sum
<1> QED BY <1>3, <1>4

\* A refilled bucket is well formed and is refilled up to the reading at most.
LEMMA RefillType ==
    ASSUME NEW b \in Bucket, NEW read \in 0..MaxTime, NEW short \in BOOLEAN
    PROVE  /\ Refill(b, read, short) \in Filled
           /\ Refill(b, read, short).last = read \/ Refill(b, read, short).last = b.last
<1>1. b.credit \in 0..Capacity /\ b.last \in -1..MaxTime /\ b.short \in BOOLEAN
  BY DEF Bucket
<1>2. CASE b.last = -1
  <2>1. Refill(b, read, short) = [credit |-> Capacity, short |-> FALSE, last |-> read]
    BY <1>2 DEF Refill
  <2> QED BY <2>1, CapacityIsNat DEF Filled
<1>3. CASE b.last # -1 /\ read <= b.last
  <2>1. Refill(b, read, short) = b
    BY <1>3 DEF Refill
  <2>2. b.last \in 0..MaxTime
    BY <1>1, <1>3
  <2> QED BY <2>1, <2>2 DEF Filled, Bucket
<1>4. CASE b.last # -1 /\ read > b.last
  BY <1>4, RefillAdds
<1> QED BY <1>1, <1>2, <1>3, <1>4

\* A refill never earns more than its stretch of time is worth.
LEMMA RefillEarns ==
    ASSUME NEW b \in Bucket, NEW read \in 0..MaxTime, NEW short \in BOOLEAN, NEW used \in Nat,
           IF b.last = -1 THEN used = 0
           ELSE used * Window + b.credit <= Capacity + b.last * MaxTokens
    PROVE  used * Window + Refill(b, read, short).credit
             <= Capacity + Refill(b, read, short).last * MaxTokens
<1>0. Capacity \in Nat /\ MaxTokens \in Nat /\ Window \in Nat /\ MaxTime \in Nat
  BY CapacityIsNat
<1>1. b.credit \in 0..Capacity /\ b.last \in -1..MaxTime
  BY DEF Bucket
<1>2. CASE b.last = -1
  <2>1. /\ Refill(b, read, short).credit = Capacity /\ Refill(b, read, short).last = read
        /\ used = 0
    BY <1>2 DEF Refill
  <2>2. read * MaxTokens \in Nat
    BY <1>0
  <2>3. 0 * Window = 0
    BY <1>0
  <2> QED BY <1>0, <2>1, <2>2, <2>3
<1>3. CASE b.last # -1 /\ read <= b.last
  BY <1>3 DEF Refill
<1>4. CASE b.last # -1 /\ read > b.last
  <2>1. PICK gain : gain = (read - b.last) * MaxTokens
    OBVIOUS
  <2>2. PICK r, c : r = Refill(b, read, short) /\ c = r.credit
    OBVIOUS
  <2>3. c \in Nat /\ c <= b.credit + gain /\ r.last = read
    <3>1. /\ r \in Filled /\ r.last = read
          /\ c = b.credit + gain \/ (c = Capacity /\ Capacity < b.credit + gain)
      BY <1>4, <2>1, <2>2, RefillAdds
    <3>2. c \in 0..Capacity
      BY <2>2, <3>1 DEF Filled
    <3>3. gain \in Int
      <4>1. \A m, x \in Int : x * m \in Int
        OBVIOUS
      <4>2. read - b.last \in Int /\ MaxTokens \in Int
        BY <1>0, <1>1
      <4> QED BY <2>1, <4>1, <4>2
    <3> QED BY <1>0, <1>1, <3>1, <3>2, <3>3
  <2>4. read * MaxTokens = b.last * MaxTokens + gain /\ gain \in Nat
    <3>1. \A m, x, y \in Int : (x - y) * m \in Int /\ x * m = y * m + (x - y) * m
      OBVIOUS
    <3>2. \A m, d \in Nat : d * m \in Nat
      OBVIOUS
    <3>3. read - b.last \in Nat /\ read \in Int /\ b.last \in Int /\ MaxTokens \in Int
      BY <1>0, <1>1, <1>4
    <3> QED BY <1>0, <2>1, <3>1, <3>2, <3>3
  <2>5. used * Window + b.credit <= Capacity + b.last * MaxTokens
    BY <1>4
  <2>6. used * Window \in Nat /\ b.last * MaxTokens \in Int
    BY <1>0, <1>1
  <2>7. \A u, v, l, m \in Int : u + b.credit <= Capacity + l /\ v <= b.credit + gain /\ m = l + gain
                                 => u + v <= Capacity + m
    BY <1>0, <1>1, <2>4
  <2> QED BY <1>0, <1>1, <2>2, <2>3, <2>4, <2>5, <2>6, <2>7
<1> QED BY <1>1, <1>2, <1>3, <1>4

----------------------------------------------------------------------------
(* Rounding *)

\* A quotient is less than one away from what it rounds.
LEMMA Quotient ==
    ASSUME NEW m \in Nat \ {0}, NEW a \in Nat
    PROVE  /\ a \div m \in Nat
           /\ (a \div m) * m <= a
           /\ a < (a \div m) * m + m
<1>1. a = (a \div m) * m + (a % m) /\ a \div m \in Nat /\ a % m \in 0..(m - 1)
  OBVIOUS
<1>2. (a \div m) * m \in Nat
  <2>1. \A q \in Nat : q * m \in Nat
    OBVIOUS
  <2> QED BY <1>1, <2>1
<1> QED BY <1>1, <1>2

\* The header is at most half a second, less half a tick, below the wait.
LEMMA RetryIsClose ==
    ASSUME NEW w \in 1..Window
    PROVE  /\ RetryAfter(w) \in Nat
           /\ 2 * RetryAfter(w) + Second >= 2 * w + 1
<1>1. CASE 2 * w < Second
  BY <1>1 DEF RetryAfter
<1>2. CASE ~(2 * w < Second)
  <2>1. PICK m, a, q : m = 2 * Second /\ a = 2 * w + Second /\ q = a \div m
    OBVIOUS
  <2>2. m \in Nat \ {0} /\ a \in Nat
    BY <2>1
  <2>3. q \in Nat /\ a < q * m + m
    BY <2>1, <2>2, Quotient
  <2>4. RetryAfter(w) = q * Second
    BY <1>2, <2>1 DEF RetryAfter
  <2>5. q * m = 2 * (q * Second) /\ q * Second \in Nat
    <3>1. \A x, y \in Nat : x * (2 * y) = 2 * (x * y) /\ x * y \in Nat
      OBVIOUS
    <3> QED BY <2>1, <2>3, <3>1
  <2>6. \A r \in Nat : 2 * w + Second < 2 * r + 2 * Second => 2 * r + Second >= 2 * w + 1
    OBVIOUS
  <2> QED BY <2>1, <2>3, <2>4, <2>5, <2>6
<1> QED BY <1>1, <1>2

\* The wait is at most one tick below the time a token takes.
LEMMA WaitIsClose ==
    ASSUME NEW b, b.credit \in Nat, b.credit <= Window, NEW w \in 1..Window, Wait(b, w)
    PROVE  Window - b.credit <= (w + 1) * MaxTokens
<1>1. PICK x, q, p : /\ x = Window - b.credit
                     /\ q = (x + MaxTokens - 1) \div MaxTokens
                     /\ p = x \div MaxTokens
  OBVIOUS
<1>2. x \in Nat /\ x + MaxTokens - 1 \in Nat
  BY <1>1
<1>3. q \in Nat /\ x + MaxTokens - 1 < q * MaxTokens + MaxTokens
  BY <1>1, <1>2, Quotient
<1>4. p \in Nat /\ x < p * MaxTokens + MaxTokens
  BY <1>1, <1>2, Quotient
<1>5. /\ w = 1 /\ q - 1 < 1
      \/ w = q - 1
      \/ w = p
  BY <1>1 DEF Wait
<1>6. \A n \in Nat : (n + 1) * MaxTokens = n * MaxTokens + MaxTokens /\ n * MaxTokens \in Nat
  OBVIOUS
<1>7. CASE w = p
  BY <1>1, <1>2, <1>4, <1>6, <1>7
<1>8. CASE w = q - 1
  <2>1. (w + 1) * MaxTokens = q * MaxTokens /\ q * MaxTokens \in Nat
    BY <1>3, <1>6, <1>8
  <2> QED BY <1>1, <1>2, <1>3, <2>1
<1>9. CASE w = 1 /\ q - 1 < 1
  <2>1. q = 0 \/ q = 1
    BY <1>3, <1>9
  <2>2. 0 * MaxTokens = 0 /\ 1 * MaxTokens = MaxTokens /\ (1 + 1) * MaxTokens = MaxTokens + MaxTokens
    OBVIOUS
  <2>3. q * MaxTokens <= MaxTokens /\ q * MaxTokens \in Nat
    BY <2>1, <2>2
  <2>4. x <= MaxTokens
    BY <1>2, <1>3, <2>3
  <2>5. (w + 1) * MaxTokens = MaxTokens + MaxTokens
    BY <1>9, <2>2
  <2> QED BY <1>1, <1>2, <2>4, <2>5
<1> QED BY <1>5, <1>7, <1>8, <1>9

----------------------------------------------------------------------------
(* Steps *)

\* A call that leaves bucket b to the address, counted or not.
LEMMA BucketStep ==
    ASSUME BucketInv, NEW s \in Slot, NEW k \in Key, reading[s] # -1,
           NEW b \in Filled, b.last <= now,
           bucket' = [bucket EXCEPT ![k] = b],
           reading' = [reading EXCEPT ![s] = -1],
           UNCHANGED now,
           \/ admitted' = admitted
           \/ admitted' = [admitted EXCEPT ![k] = @ + 1],
           admitted'[k] * Window + b.credit <= Capacity + b.last * MaxTokens,
           promise' \in [Key -> Int]
    PROVE  BucketInv'
<1>0. /\ now \in 0..MaxTime /\ reading \in [Slot -> -1..MaxTime] /\ admitted \in [Key -> Nat]
      /\ bucket \in [Key -> Bucket] /\ MaxTime \in Nat
  BY DEF BucketInv, LimiterTypeOK
<1>1. b \in Bucket /\ b.last # -1
  BY DEF Filled, Bucket
<1>2. LimiterTypeOK'
  <2>1. reading' \in [Slot -> -1..MaxTime]
    BY <1>0
  <2>2. bucket' \in [Key -> Bucket]
    BY <1>0, <1>1
  <2>3. admitted' \in [Key -> Nat]
    BY <1>0
  <2> QED BY <1>0, <2>1, <2>2, <2>3 DEF LimiterTypeOK, Bucket, Capacity
<1>3. \A t \in Slot : reading'[t] <= now'
  BY <1>0 DEF BucketInv
<1>4. ASSUME NEW j \in Key PROVE bucket'[j].last <= now' /\ Earned(j)'
  <2>1. CASE j = k
    <3>1. bucket'[j] = b
      BY <1>0, <2>1
    <3> QED BY <1>1, <2>1, <3>1 DEF Earned, Capacity
  <2>2. CASE j # k
    <3>1. bucket'[j] = bucket[j] /\ admitted'[j] = admitted[j]
      BY <1>0, <2>2
    <3> QED BY <3>1 DEF Earned, BucketInv, Capacity
  <2> QED BY <2>1, <2>2
<1> QED BY <1>2, <1>3, <1>4 DEF BucketInv

\* The bucket as a call finds it.
FoundBucket(k, b) ==
    /\ b \in Filled
    /\ b.last <= now
    /\ admitted[k] * Window + b.credit <= Capacity + b.last * MaxTokens

LEMMA Found ==
    ASSUME BucketInv, NEW s \in Slot, NEW k \in Key, reading[s] # -1, NEW short \in BOOLEAN
    PROVE  FoundBucket(k, Refill(bucket[k], reading[s], short))
<1>1. PICK b : b = Refill(bucket[k], reading[s], short)
  OBVIOUS
<1>2. /\ bucket[k] \in Bucket /\ reading[s] \in 0..MaxTime /\ admitted[k] \in Nat
      /\ reading[s] <= now /\ bucket[k].last <= now
  BY DEF BucketInv, LimiterTypeOK
<1>3. b \in Filled /\ (b.last = reading[s] \/ b.last = bucket[k].last)
  BY <1>1, <1>2, RefillType
<1>4. Earned(k)
  BY DEF BucketInv
<1>5. admitted[k] * Window + b.credit <= Capacity + b.last * MaxTokens
  BY <1>1, <1>2, <1>4, RefillEarns DEF Earned
<1>6. b.last <= now
  BY <1>2, <1>3
<1> QED BY <1>1, <1>3, <1>5, <1>6 DEF FoundBucket

\* An attempt that passes takes its cost from the credit, so that Earned stays.
LEMMA AdmitInv ==
    ASSUME BucketInv, NEW s \in Slot, NEW k \in Key, Admit(s, k)
    PROVE  BucketInv'
<1>1. PICK short \in BOOLEAN :
        /\ HasToken(Refill(bucket[k], reading[s], short))
        /\ bucket' = [bucket EXCEPT ![k] =
                        [Refill(bucket[k], reading[s], short) EXCEPT !.credit = @ - Window]]
  BY DEF Admit
<1>2. PICK b : b = Refill(bucket[k], reading[s], short)
  OBVIOUS
<1>3. PICK d : d = [b EXCEPT !.credit = @ - Window]
  OBVIOUS
<1>4. /\ b \in Filled /\ b.last <= now /\ reading[s] # -1
      /\ admitted[k] * Window + b.credit <= Capacity + b.last * MaxTokens
  BY <1>2, Found DEF Admit, FoundBucket
<1>5. b.credit \in 0..Capacity /\ b.credit >= Window
  BY <1>1, <1>2, <1>4 DEF HasToken, Filled
<1>6. /\ bucket' = [bucket EXCEPT ![k] = d] /\ reading' = [reading EXCEPT ![s] = -1]
      /\ admitted' = [admitted EXCEPT ![k] = @ + 1]
      /\ promise' = [promise EXCEPT ![k] = -1] /\ UNCHANGED now
  BY <1>1, <1>2, <1>3 DEF Admit
<1>7. b.credit - Window \in 0..Capacity
  BY <1>5, CapacityIsNat
<1>8. d.credit = b.credit - Window /\ d.last = b.last /\ d \in Filled
  BY <1>3, <1>4, <1>7 DEF Filled
<1>9. admitted \in [Key -> Nat] /\ promise \in [Key -> Int]
  BY DEF BucketInv, LimiterTypeOK
<1>10. admitted'[k] = admitted[k] + 1 /\ promise' \in [Key -> Int]
  BY <1>6, <1>9
<1>11. admitted'[k] * Window + d.credit <= Capacity + d.last * MaxTokens
  <2>1. \A n \in Nat : (n + 1) * Window = n * Window + Window /\ n * Window \in Nat
    OBVIOUS
  <2>2. admitted'[k] * Window = admitted[k] * Window + Window /\ admitted[k] * Window \in Nat
    BY <1>9, <1>10, <2>1
  <2>3. b.credit \in Int /\ Window \in Int
    BY <1>5, CapacityIsNat
  <2>4. admitted'[k] * Window + d.credit = admitted[k] * Window + b.credit
    BY <1>8, <2>2, <2>3
  <2> QED BY <1>4, <1>8, <2>4
<1> QED BY <1>4, <1>6, <1>8, <1>10, <1>11, BucketStep

\* An attempt that is refused takes nothing from the bucket.
LEMMA RefuseInv ==
    ASSUME BucketInv, NEW s \in Slot, NEW k \in Key, Refuse(s, k)
    PROVE  BucketInv'
<1>1. PICK short \in BOOLEAN, w \in 1..Window :
        /\ bucket' = [bucket EXCEPT ![k] = Refill(bucket[k], reading[s], short)]
        /\ promise' = [promise EXCEPT ![k] = now + RetryAfter(w)]
  BY DEF Refuse
<1>2. PICK b : b = Refill(bucket[k], reading[s], short)
  OBVIOUS
<1>3. /\ b \in Filled /\ b.last <= now /\ reading[s] # -1
      /\ admitted[k] * Window + b.credit <= Capacity + b.last * MaxTokens
  BY <1>2, Found DEF Refuse, FoundBucket
<1>4. RetryAfter(w) \in Int
  BY RetryIsClose
<1>5. promise \in [Key -> Int] /\ now \in Int
  BY DEF BucketInv, LimiterTypeOK
<1>6. promise' \in [Key -> Int] /\ bucket' = [bucket EXCEPT ![k] = b]
  BY <1>1, <1>2, <1>4, <1>5
<1>7. reading' = [reading EXCEPT ![s] = -1] /\ UNCHANGED <<now, admitted>>
  BY DEF Refuse
<1> QED BY <1>3, <1>6, <1>7, BucketStep

\* The clock and its readings touch no bucket.
LEMMA ClockInv ==
    ASSUME BucketInv, Tick \/ (\E s \in Slot : ReadClock(s)) \/ UNCHANGED limiter
    PROVE  BucketInv'
<1>0. /\ now \in 0..MaxTime /\ reading \in [Slot -> -1..MaxTime] /\ MaxTime \in Nat
      /\ bucket \in [Key -> Bucket]
  BY DEF BucketInv, LimiterTypeOK
<1>1. now' \in 0..MaxTime /\ now' >= now /\ UNCHANGED <<bucket, admitted, promise>>
  BY <1>0 DEF Tick, ReadClock, limiter
<1>2. reading' \in [Slot -> -1..MaxTime] /\ \A s \in Slot : reading'[s] <= now'
  <2>1. CASE UNCHANGED reading
    BY <1>0, <1>1, <2>1 DEF BucketInv
  <2>2. CASE \E s \in Slot : ReadClock(s)
    BY <1>0, <1>1, <2>2 DEF BucketInv, ReadClock
  <2> QED BY <2>1, <2>2 DEF Tick, limiter
<1>3. ASSUME NEW k \in Key PROVE bucket'[k].last <= now' /\ Earned(k)'
  <2>1. bucket[k].last \in -1..MaxTime /\ bucket[k].last <= now /\ Earned(k)
    BY <1>0 DEF BucketInv, Bucket
  <2> QED BY <1>0, <1>1, <2>1 DEF Earned, Capacity
<1>4. LimiterTypeOK'
  BY <1>1, <1>2 DEF BucketInv, LimiterTypeOK, Bucket, Capacity
<1> QED BY <1>2, <1>3, <1>4 DEF BucketInv

----------------------------------------------------------------------------
\* Every bucket is well formed, never refilled for a time to come, and holds no
\* more than was earned and not used.
THEOREM LimiterInvariance == LimiterSpec => []BucketInv
<1>1. LimiterInit => BucketInv
  <2> SUFFICES ASSUME LimiterInit PROVE BucketInv
    OBVIOUS
  <2>1. NoBucket \in Bucket /\ NoBucket.last = -1
    BY CapacityIsNat DEF NoBucket, Bucket
  <2>2. LimiterTypeOK
    BY <2>1 DEF LimiterInit, LimiterTypeOK
  <2> QED BY <2>1, <2>2 DEF LimiterInit, BucketInv, Earned
<1>2. BucketInv /\ [LimiterNext]_limiter => BucketInv'
  BY AdmitInv, RefuseInv, ClockInv DEF LimiterNext
<1> QED BY <1>1, <1>2, PTL DEF LimiterSpec

\* The bound of the limiter: however calls overlap, an address gets MaxTokens
\* attempts plus one per elapsed share of the window.
LEMMA BucketBounds == BucketInv => AttemptsAreBounded
<1> SUFFICES ASSUME BucketInv, NEW k \in Key
             PROVE  admitted[k] * Window <= Capacity + now * MaxTokens
  BY DEF AttemptsAreBounded
<1>0. /\ now \in Nat /\ admitted[k] \in Nat /\ bucket[k].credit \in Nat
      /\ bucket[k].last \in Int /\ bucket[k].last <= now /\ bucket[k].last >= -1
      /\ Earned(k) /\ Capacity \in Nat /\ MaxTokens \in Nat /\ Window \in Nat
  BY CapacityIsNat DEF BucketInv, LimiterTypeOK, Bucket
<1>1. CASE bucket[k].last = -1
  <2>1. admitted[k] * Window = 0 /\ now * MaxTokens \in Nat
    BY <1>0, <1>1 DEF Earned
  <2> QED BY <1>0, <2>1
<1>2. CASE bucket[k].last # -1
  <2>1. admitted[k] * Window + bucket[k].credit <= Capacity + bucket[k].last * MaxTokens
    BY <1>0, <1>2 DEF Earned
  <2>2. bucket[k].last * MaxTokens <= now * MaxTokens
    <3>1. \A m, d, x \in Nat : (x + d) * m = x * m + d * m /\ d * m \in Nat /\ x * m \in Nat
      OBVIOUS
    <3>2. bucket[k].last \in Nat /\ now - bucket[k].last \in Nat
      BY <1>0, <1>2
    <3>3. now = bucket[k].last + (now - bucket[k].last)
      BY <1>0
    <3> QED BY <1>0, <3>1, <3>2, <3>3
  <2>3. admitted[k] * Window \in Int /\ bucket[k].last * MaxTokens \in Int /\ now * MaxTokens \in Int
    BY <1>0
  <2> QED BY <1>0, <2>1, <2>2, <2>3
<1> QED BY <1>1, <1>2

\* The login limit holds for every number of addresses, calls, tokens and ticks.
THEOREM LimitSafety == LimiterSpec => []AttemptsAreBounded
BY LimiterInvariance, BucketBounds, PTL

----------------------------------------------------------------------------
(* The wait a refused caller is told *)

\* b has an attempt half a second and half a tick after time p.
Suffices(b, p) == 2 * Window <= 2 * b.credit + (2 * (p - b.last) + Second + 1) * MaxTokens

Kept(k) ==
    promise[k] # -1 =>
        /\ bucket[k].last # -1 /\ bucket[k].last <= promise[k]
        /\ Suffices(bucket[k], promise[k])

PromiseInv == BucketInv /\ \A k \in Key : Kept(k)

\* Who comes back later than that finds an attempt in the bucket.
LEMMA ComesBackInTime ==
    ASSUME PromiseInv, NEW s \in Slot, NEW k \in Key, reading[s] # -1, promise[k] # -1,
           2 * (reading[s] - promise[k]) > Second + 1, NEW short \in BOOLEAN
    PROVE  HasToken(Refill(bucket[k], reading[s], short))
<1>1. /\ bucket[k] \in Bucket /\ promise[k] \in Int /\ reading[s] \in 0..MaxTime
      /\ bucket[k].last \in Int /\ bucket[k].credit \in Nat
      /\ bucket[k].last # -1 /\ bucket[k].last <= promise[k]
      /\ Suffices(bucket[k], promise[k])
  BY CapacityIsNat DEF PromiseInv, BucketInv, LimiterTypeOK, Kept, Bucket
<1>2. PICK credit, last, p, t, b :
        /\ credit = bucket[k].credit /\ last = bucket[k].last
        /\ p = promise[k] /\ t = reading[s] /\ b = Refill(bucket[k], reading[s], short)
  OBVIOUS
<1>3. credit \in Nat /\ last \in Int /\ p \in Int /\ t \in Int /\ last <= p
      /\ 2 * (t - p) > Second + 1
  BY <1>1, <1>2
<1>4. PICK n, m : n = 2 * (p - last) + Second + 1 /\ m = t - last
  OBVIOUS
<1>5. n \in Nat /\ m \in Nat /\ 2 * m > n /\ t > last
  BY <1>3, <1>4
<1>6. 2 * Window <= 2 * credit + n * MaxTokens
  BY <1>1, <1>2, <1>4 DEF Suffices
<1>7. n * MaxTokens < 2 * (m * MaxTokens) /\ n * MaxTokens \in Nat /\ m * MaxTokens \in Nat
  <2>1. PICK d : d = 2 * m - n
    OBVIOUS
  <2>2. d \in Nat /\ d >= 1 /\ 2 * m = n + d
    BY <1>5, <2>1
  <2>3. \A x, y, z, f \in Nat : f >= 1 /\ z >= 1 /\ 2 * y = x + f
          => 2 * (y * z) = x * z + f * z /\ f * z >= 1 /\ x * z \in Nat /\ y * z \in Nat
    <3> SUFFICES ASSUME NEW x \in Nat, NEW y \in Nat, NEW z \in Nat, NEW f \in Nat,
                        f >= 1, z >= 1, 2 * y = x + f
                 PROVE  2 * (y * z) = x * z + f * z /\ f * z >= 1 /\ x * z \in Nat /\ y * z \in Nat
      OBVIOUS
    <3>1. 2 * (y * z) = (2 * y) * z /\ (x + f) * z = x * z + f * z
      OBVIOUS
    <3>2. f * z >= 1 /\ x * z \in Nat /\ y * z \in Nat
      OBVIOUS
    <3> QED BY <3>1, <3>2
  <2>4. 2 * (m * MaxTokens) = n * MaxTokens + d * MaxTokens /\ d * MaxTokens >= 1
        /\ n * MaxTokens \in Nat /\ m * MaxTokens \in Nat
    BY <1>5, <2>2, <2>3
  <2>5. d * MaxTokens \in Nat
    BY <2>2
  <2> QED BY <2>4, <2>5
<1>8. credit + m * MaxTokens > Window
  BY <1>3, <1>6, <1>7
<1>9. \/ b.credit = credit + m * MaxTokens
      \/ b.credit = Capacity /\ ~b.short
  BY <1>1, <1>2, <1>4, <1>5, RefillAdds
<1>10. CASE b.credit = credit + m * MaxTokens
  BY <1>2, <1>8, <1>10 DEF HasToken
<1>11. CASE b.credit = Capacity /\ ~b.short
  BY <1>2, <1>11, CapacityIsNat DEF HasToken
<1> QED BY <1>9, <1>10, <1>11

\* The wait that the answer names is long enough, but for the rounding.
LEMMA RefuseKeeps ==
    ASSUME PromiseInv, NEW s \in Slot, NEW k \in Key, Refuse(s, k)
    PROVE  Kept(k)'
<1>1. PICK short \in BOOLEAN, w \in 1..Window :
        /\ ~HasToken(Refill(bucket[k], reading[s], short))
        /\ Wait(Refill(bucket[k], reading[s], short), w)
        /\ bucket' = [bucket EXCEPT ![k] = Refill(bucket[k], reading[s], short)]
        /\ promise' = [promise EXCEPT ![k] = now + RetryAfter(w)]
  BY DEF Refuse
<1>2. PICK b, h : b = Refill(bucket[k], reading[s], short) /\ h = RetryAfter(w)
  OBVIOUS
<1>3. /\ bucket \in [Key -> Bucket] /\ promise \in [Key -> Int] /\ now \in Nat /\ BucketInv
      /\ reading[s] # -1
  BY DEF PromiseInv, BucketInv, LimiterTypeOK, Refuse
<1>4. b \in Filled /\ b.last <= now
  BY <1>2, <1>3, Found DEF FoundBucket
<1>5. b.credit \in Nat /\ b.last \in Nat
  BY <1>4, CapacityIsNat DEF Filled
<1>6. b.credit <= Window
  BY <1>1, <1>2, <1>5 DEF HasToken
<1>7. Window - b.credit <= (w + 1) * MaxTokens
  BY <1>1, <1>2, <1>5, <1>6, WaitIsClose
<1>8. h \in Nat /\ 2 * h + Second >= 2 * w + 1
  BY <1>2, RetryIsClose
<1>9. PICK p, n : p = now + h /\ n = 2 * (p - b.last) + Second + 1
  OBVIOUS
<1>10. p \in Nat /\ n \in Nat /\ n >= 2 * (w + 1) /\ b.last <= p
  BY <1>3, <1>4, <1>5, <1>8, <1>9
<1>11. n * MaxTokens >= 2 * ((w + 1) * MaxTokens)
       /\ n * MaxTokens \in Nat /\ (w + 1) * MaxTokens \in Nat
  <2>1. PICK d : d = n - 2 * (w + 1)
    OBVIOUS
  <2>2. d \in Nat /\ n = 2 * (w + 1) + d
    BY <1>10, <2>1
  <2>3. \A x, y, z \in Nat : (2 * x + y) * z = 2 * (x * z) + y * z /\ y * z \in Nat /\ x * z \in Nat
    OBVIOUS
  <2>4. w + 1 \in Nat
    OBVIOUS
  <2>5. n * MaxTokens = 2 * ((w + 1) * MaxTokens) + d * MaxTokens
        /\ d * MaxTokens \in Nat /\ (w + 1) * MaxTokens \in Nat
    BY <2>2, <2>3, <2>4
  <2> QED BY <2>5
<1>12. 2 * Window <= 2 * b.credit + n * MaxTokens
  BY <1>5, <1>7, <1>11
<1>13. Suffices(b, p)
  BY <1>9, <1>12 DEF Suffices
<1>14. bucket'[k] = b /\ promise'[k] = p
  BY <1>1, <1>2, <1>3, <1>9
<1>15. Suffices(bucket[k], promise[k])'
  BY <1>13, <1>14 DEF Suffices
<1> QED BY <1>5, <1>10, <1>14, <1>15 DEF Kept

\* Every step of the limiter keeps the promises of Retry-After.
LEMMA PromiseStep == PromiseInv /\ [LimiterNext]_limiter => PromiseInv'
<1> SUFFICES ASSUME PromiseInv, [LimiterNext]_limiter PROVE PromiseInv'
  OBVIOUS
<1>0. BucketInv'
  BY AdmitInv, RefuseInv, ClockInv DEF LimiterNext, PromiseInv
<1>t. bucket \in [Key -> Bucket] /\ promise \in [Key -> Int]
  BY DEF PromiseInv, BucketInv, LimiterTypeOK
<1>1. CASE UNCHANGED <<bucket, promise>>
  BY <1>0, <1>1 DEF PromiseInv, Kept, Suffices
<1>2. ASSUME NEW s \in Slot, NEW k \in Key, Admit(s, k) PROVE PromiseInv'
  <2>1. ASSUME NEW j \in Key PROVE Kept(j)'
    <3>1. CASE j = k
      BY <1>2, <1>t, <3>1 DEF Admit, Kept
    <3>2. CASE j # k
      <4>1. bucket'[j] = bucket[j] /\ promise'[j] = promise[j]
        BY <1>2, <1>t, <3>2 DEF Admit
      <4> QED BY <4>1 DEF Kept, Suffices, PromiseInv
    <3> QED BY <3>1, <3>2
  <2> QED BY <1>0, <2>1 DEF PromiseInv
<1>3. ASSUME NEW s \in Slot, NEW k \in Key, Refuse(s, k) PROVE PromiseInv'
  <2>1. ASSUME NEW j \in Key PROVE Kept(j)'
    <3>1. CASE j = k
      BY <1>3, <3>1, RefuseKeeps
    <3>2. CASE j # k
      <4>1. bucket'[j] = bucket[j] /\ promise'[j] = promise[j]
        BY <1>3, <1>t, <3>2 DEF Refuse
      <4> QED BY <4>1 DEF Kept, Suffices, PromiseInv
    <3> QED BY <3>1, <3>2
  <2> QED BY <1>0, <2>1 DEF PromiseInv
<1> QED BY <1>1, <1>2, <1>3 DEF LimiterNext, Tick, ReadClock, limiter

\* There are no promises at the start.
LEMMA PromiseInit == LimiterInit => PromiseInv
<1> SUFFICES ASSUME LimiterInit PROVE PromiseInv
  OBVIOUS
<1>1. NoBucket \in Bucket /\ NoBucket.last = -1
  BY CapacityIsNat DEF NoBucket, Bucket
<1>2. BucketInv
  BY <1>1 DEF LimiterInit, BucketInv, Earned, LimiterTypeOK
<1> QED BY <1>1, <1>2 DEF LimiterInit, PromiseInv, Kept

\* A refusal never meets a caller who came back half a second and a tick late.
RefusedInTime ==
    \A s \in Slot, k \in Key :
        promise[k] # -1 /\ 2 * (reading[s] - promise[k]) > Second + 1 => ~Refuse(s, k)

LEMMA RefusedTooEarly == PromiseInv => RefusedInTime
BY ComesBackInTime DEF RefusedInTime, Refuse

\* Whoever waits as many seconds as the answer said and half a second more, and sees
\* no other call admitted meanwhile, gets an attempt, for every size of the bucket,
\* of the window and of a second (Allow, LoginRateLimitMiddleware).
THEOREM RetrySafety == LimiterSpec => RetryIsNearlyEnough
<1>1. LimiterSpec => []PromiseInv
  BY PromiseInit, PromiseStep, PTL DEF LimiterSpec
<1>2. PromiseInv /\ [LimiterNext]_limiter => [RefusedInTime]_limiter
  BY RefusedTooEarly
<1> QED BY <1>1, <1>2, PTL DEF LimiterSpec, RetryIsNearlyEnough, RefusedInTime

----------------------------------------------------------------------------
(* Logins and sessions *)

USE UserAssumption, SessionAssumption

\* d is the session of the login that issued token t.
Bears(d, t) ==
    /\ issued[t].user # Nobody
    /\ d.user = issued[t].user
    /\ d.deadline = issued[t].at + TTL

CallOK(c) ==
    /\ c.token # 0 => Bears(c.data, c.token)
    /\ c.save = "modified" => c.token # 0
    /\ c.step = "start" => c.as # Nobody
    /\ c.step = "idle" => c.token = 0

SessionType ==
    /\ up \in BOOLEAN
    /\ status \in [User -> {"missing", "active", "disabled"}]
    /\ store \in [Token -> Session]
    /\ cookie \in [Key -> Token \cup {0}]
    /\ call \in [Slot -> Call]
    /\ issued \in [Token -> [user: User \cup {Nobody}, at: Int]]

SessionInv ==
    /\ SessionType
    /\ \A t \in Token : store[t] = NoSession \/ Bears(store[t], t)
    /\ \A s \in Slot : CallOK(call[s])

AInv == PromiseInv /\ SessionInv

----------------------------------------------------------------------------
\* The empty session and the idle request are well formed.
LEMMA Constants ==
    /\ NoSession \in Session /\ NoSession.user = Nobody
    /\ Idle \in Call /\ Idle.token = 0 /\ Idle.save = "unmodified" /\ Idle.step = "idle"
    /\ CallOK(Idle)
<1>1. NoSession \in Session /\ NoSession.user = Nobody
  BY DEF NoSession, Session
<1>2. (CHOOSE c \in Key : TRUE) \in Key
  OBVIOUS
<1>3. Idle \in Call /\ Idle.token = 0 /\ Idle.save = "unmodified" /\ Idle.step = "idle"
  BY <1>1, <1>2 DEF Idle, Call
<1> QED BY <1>1, <1>3 DEF CallOK

\* Steps that move one request and issue no token.
LEMMA RequestMoves ==
    ASSUME SessionInv, NEW s \in Slot, NEW c \in Call, CallOK(c),
           call' = [call EXCEPT ![s] = c],
           store' \in [Token -> Session],
           \A t \in Token : store'[t] = store[t] \/ store'[t] = NoSession \/ Bears(store'[t], t),
           cookie' \in [Key -> Token \cup {0}],
           UNCHANGED <<up, status, issued>>
    PROVE  SessionInv'
<1>1. call' \in [Slot -> Call] /\ \A r \in Slot : call'[r] = c \/ call'[r] = call[r]
  BY DEF SessionInv, SessionType
<1>2. SessionType'
  BY <1>1 DEF SessionInv, SessionType
<1>3. \A t \in Token : (store[t] = NoSession \/ Bears(store[t], t))'
  BY DEF SessionInv, Bears
<1>4. \A r \in Slot : CallOK(call[r])'
  BY <1>1 DEF SessionInv, CallOK, Bears
<1> QED BY <1>2, <1>3, <1>4 DEF SessionInv

\* A step to another statement of the handler.
LEMMA GotoMoves ==
    ASSUME SessionInv, NEW s \in Slot, NEW step \in Route \cup {"authenticate", "work", "respond"},
           Goto(s, step), UNCHANGED <<up, status, store, cookie, issued>>
    PROVE  SessionInv'
<1>1. call[s] \in Call /\ CallOK(call[s]) /\ call \in [Slot -> Call]
  BY DEF SessionInv, SessionType
<1>2. PICK c : c = [call[s] EXCEPT !.step = step]
  OBVIOUS
<1>3. c \in Call /\ c.token = call[s].token /\ c.data = call[s].data /\ c.save = call[s].save /\ c.step = step
  BY <1>1, <1>2 DEF Call
<1>4. CallOK(c)
  BY <1>1, <1>3 DEF CallOK, Route
<1>5. call' = [call EXCEPT ![s] = c]
  BY <1>1, <1>2 DEF Goto
<1> QED BY <1>3, <1>4, <1>5, RequestMoves DEF SessionInv, SessionType

\* Destroy forgets one session.
LEMMA DestroyMoves ==
    ASSUME SessionInv, NEW s \in Slot, Destroy(s), UNCHANGED <<up, status, cookie, issued>>
    PROVE  SessionInv'
<1>1. call[s] \in Call /\ call \in [Slot -> Call] /\ store \in [Token -> Session]
  BY DEF SessionInv, SessionType
<1>2. PICK c : c = [call[s] EXCEPT !.step = "respond", !.token = 0, !.data = NoSession, !.save = "destroyed"]
  OBVIOUS
<1>3. c \in Call /\ c.token = 0 /\ c.save = "destroyed" /\ c.step = "respond"
  BY <1>1, <1>2, Constants DEF Call
<1>4. CallOK(c)
  BY <1>3 DEF CallOK
<1>5. call' = [call EXCEPT ![s] = c]
  BY <1>1, <1>2 DEF Destroy
<1>6. store' \in [Token -> Session] /\ \A t \in Token : store'[t] = store[t] \/ store'[t] = NoSession
  BY <1>1, Constants DEF Destroy
<1> QED BY <1>3, <1>4, <1>5, <1>6, RequestMoves DEF SessionInv, SessionType

\* A request that arrives carries the session its cookie names.
LEMMA ReceiveMoves ==
    ASSUME SessionInv, NEW s \in Slot, NEW c \in Key, NEW route \in Route, Receive(s, c, route)
    PROVE  SessionInv'
<1> DEFINE t == cookie[c]
           found == t # 0 /\ store[t] # NoSession /\ now <= store[t].deadline
           token == IF found THEN t ELSE 0
           data == IF found THEN store[t] ELSE NoSession
           save == IF found THEN "modified" ELSE "unmodified"
<1>1. t \in Token \cup {0} /\ (t # 0 => t \in Token /\ store[t] \in Session)
  BY DEF SessionInv, SessionType
<1>2. token \in Token \cup {0} /\ data \in Session /\ save \in {"unmodified", "modified"}
  BY <1>1, Constants
<1>3. token # 0 => Bears(data, token)
  BY <1>1 DEF SessionInv
<1>4. save = "modified" => token # 0
  OBVIOUS
<1>5. call' = [call EXCEPT ![s] = [Idle EXCEPT !.step = route, !.client = c, !.token = token,
                                               !.data = data, !.save = save]]
  BY Zenon DEF Receive
<1> HIDE DEF token, data, save
<1>6. PICK d : d = [Idle EXCEPT !.step = route, !.client = c, !.token = token,
                                !.data = data, !.save = save]
  OBVIOUS
<1>7. d \in Call /\ d.token = token /\ d.data = data /\ d.save = save /\ d.step = route
  BY <1>2, <1>6, Constants DEF Call
<1>8. CallOK(d)
  BY <1>3, <1>4, <1>7 DEF CallOK, Route
<1>9. call' = [call EXCEPT ![s] = d]
  BY <1>5, <1>6
<1>10. UNCHANGED <<up, status, store, cookie, issued>>
  BY DEF Receive
<1> QED BY <1>7, <1>8, <1>9, <1>10, RequestMoves DEF SessionInv, SessionType

\* A response writes back the session that its request carries.
LEMMA RespondMoves ==
    ASSUME SessionInv, NEW s \in Slot, Respond(s)
    PROVE  SessionInv'
<1>1. call[s] \in Call /\ CallOK(call[s]) /\ cookie \in [Key -> Token \cup {0}] /\ store \in [Token -> Session]
  BY DEF SessionInv, SessionType
<1>2. /\ call[s].token \in Token \cup {0} /\ call[s].data \in Session /\ call[s].client \in Key
      /\ call[s].save \in {"unmodified", "modified", "destroyed"}
  BY <1>1 DEF Call
<1>3. call' = [call EXCEPT ![s] = Idle] /\ UNCHANGED <<up, status, issued>>
  BY DEF Respond
<1>4. /\ store' \in [Token -> Session] /\ cookie' \in [Key -> Token \cup {0}]
      /\ \A t \in Token : store'[t] = store[t] \/ Bears(store'[t], t)
  <2>1. CASE call[s].save = "modified"
    <3>1. call[s].token \in Token /\ Bears(call[s].data, call[s].token)
      BY <1>1, <1>2, <2>1 DEF CallOK
    <3>2. /\ store' = [store EXCEPT ![call[s].token] = call[s].data]
          /\ cookie' = [cookie EXCEPT ![call[s].client] = call[s].token]
      BY <2>1 DEF Respond, Committed
    <3> QED BY <1>1, <1>2, <3>1, <3>2
  <2>2. CASE call[s].save = "destroyed"
    <3>1. store' = store /\ cookie' = [cookie EXCEPT ![call[s].client] = 0]
      BY <2>2 DEF Respond
    <3> QED BY <1>1, <1>2, <3>1
  <2>3. CASE call[s].save = "unmodified"
    <3>1. store' = store /\ cookie' = cookie
      BY <2>3 DEF Respond
    <3> QED BY <1>1, <3>1
  <2> QED BY <1>2, <2>1, <2>2, <2>3
<1> QED BY <1>3, <1>4, Constants, RequestMoves

\* A login binds the session it issues to the user and the deadline.
LEMMA AuthenticateMoves ==
    ASSUME SessionInv, NEW s \in Slot, NEW u \in User, Authenticate(s, u)
    PROVE  SessionInv'
<1>1. call[s] \in Call /\ CallOK(call[s]) /\ call \in [Slot -> Call]
  BY DEF SessionInv, SessionType
<1>2. UNCHANGED <<up, status, store, cookie, issued>>
  BY DEF Authenticate
<1>3. CASE Goto(s, "respond")
  BY <1>2, <1>3, GotoMoves
<1>4. CASE call' = [call EXCEPT ![s].step = "start", ![s].as = u]
  <2>1. PICK c : c = [call[s] EXCEPT !.step = "start", !.as = u]
    OBVIOUS
  <2>2. /\ c \in Call /\ c.token = call[s].token /\ c.data = call[s].data /\ c.save = call[s].save
        /\ c.step = "start" /\ c.as = u
    BY <1>1, <2>1 DEF Call
  <2>3. CallOK(c)
    BY <1>1, <2>2 DEF CallOK
  <2>4. call' = [call EXCEPT ![s] = c]
    BY <1>1, <1>4, <2>1
  <2> QED BY <1>2, <2>2, <2>3, <2>4, RequestMoves DEF SessionInv, SessionType
<1> QED BY <1>3, <1>4 DEF Authenticate

\* A login issues a token that nothing bears yet.
LEMMA StartSessionMoves ==
    ASSUME SessionInv, now \in Int, NEW s \in Slot, StartSession(s)
    PROVE  SessionInv'
<1>1. call[s] \in Call /\ CallOK(call[s]) /\ SessionType
  BY DEF SessionInv, SessionType
<1>2. UNCHANGED <<up, status, cookie>> /\ call[s].step = "start"
  BY DEF StartSession
<1>3. CASE call' = [call EXCEPT ![s].step = "respond", ![s].as = Nobody] /\ UNCHANGED <<store, issued>>
  <2>1. PICK c : c = [call[s] EXCEPT !.step = "respond", !.as = Nobody]
    OBVIOUS
  <2>2. /\ c \in Call /\ c.token = call[s].token /\ c.data = call[s].data /\ c.save = call[s].save
        /\ c.step = "respond"
    BY <1>1, <2>1 DEF Call
  <2>3. CallOK(c)
    BY <1>1, <2>2 DEF CallOK
  <2>4. call' = [call EXCEPT ![s] = c]
    BY <1>1, <1>3, <2>1 DEF SessionType
  <2> QED BY <1>1, <1>2, <1>3, <2>2, <2>3, <2>4, RequestMoves DEF SessionType
<1>4. ASSUME NEW t \in RenewToken(s),
             store' = [v \in Token |-> IF v = call[s].token THEN NoSession ELSE store[v]],
             call' = [call EXCEPT ![s] =
                 [@ EXCEPT !.step = "respond", !.token = t, !.save = "modified", !.as = Nobody,
                           !.data = [user |-> call[s].as, deadline |-> now + TTL]]],
             issued' = [issued EXCEPT ![t] =
                            IF @.user = Nobody THEN [user |-> call[s].as, at |-> now] ELSE @]
      PROVE  SessionInv'
  <2>1. t \in Token /\ issued[t].user = Nobody /\ t # 0
    BY <1>4 DEF RenewToken, FreshToken
  <2>2. call[s].as \in User
    BY <1>1, <1>2 DEF CallOK, Call
  <2>3. issued' = [issued EXCEPT ![t] = [user |-> call[s].as, at |-> now]]
    BY <1>1, <1>4, <2>1 DEF SessionType
  <2>4. /\ issued' \in [Token -> [user: User \cup {Nobody}, at: Int]]
        /\ issued'[t].user = call[s].as /\ issued'[t].at = now
        /\ \A v \in Token : v # t => issued'[v] = issued[v]
    BY <1>1, <2>1, <2>2, <2>3 DEF SessionType
  <2>5. PICK d : d = [user |-> call[s].as, deadline |-> now + TTL]
    OBVIOUS
  <2>6. d \in Session /\ d.user = call[s].as /\ d.deadline = now + TTL
    BY <2>2, <2>5 DEF Session
  <2>7. PICK c : c = [call[s] EXCEPT !.step = "respond", !.token = t, !.save = "modified", !.as = Nobody,
                                     !.data = d]
    OBVIOUS
  <2>8. c \in Call /\ c.token = t /\ c.data = d /\ c.save = "modified" /\ c.step = "respond"
    BY <1>1, <2>1, <2>6, <2>7 DEF Call
  <2>9. call' = [call EXCEPT ![s] = c]
    BY <1>1, <1>4, <2>5, <2>7 DEF SessionType
  <2>10. call' \in [Slot -> Call] /\ call'[s] = c /\ \A r \in Slot : r # s => call'[r] = call[r]
    BY <1>1, <2>8, <2>9 DEF SessionType
  <2>11. store' \in [Token -> Session] /\ \A v \in Token : store'[v] = NoSession \/ store'[v] = store[v]
    BY <1>1, <1>4, Constants DEF SessionType
  <2>12. \A v \in Token : (store[v] = NoSession \/ Bears(store[v], v))'
    <3> SUFFICES ASSUME NEW v \in Token, store'[v] # NoSession PROVE Bears(store[v], v)'
      OBVIOUS
    <3>1. store'[v] = store[v] /\ Bears(store[v], v)
      BY <2>11 DEF SessionInv
    <3>2. issued'[v] = issued[v]
      BY <2>1, <2>4, <3>1 DEF Bears
    <3> QED BY <3>1, <3>2 DEF Bears
  <2>13. \A r \in Slot : CallOK(call[r])'
    <3> SUFFICES ASSUME NEW r \in Slot PROVE CallOK(call[r])'
      OBVIOUS
    <3>1. CASE r = s
      <4>1. issued'[t].user # Nobody /\ d.user = issued'[t].user /\ d.deadline = issued'[t].at + TTL
        BY <2>2, <2>4, <2>6
      <4> QED BY <2>1, <2>8, <2>10, <3>1, <4>1 DEF CallOK, Bears
    <3>2. CASE r # s
      <4>1. call'[r] = call[r] /\ CallOK(call[r]) /\ call[r] \in Call
        BY <1>1, <2>10, <3>2 DEF SessionInv, SessionType
      <4>2. call[r].token # 0 => call[r].token \in Token /\ issued'[call[r].token] = issued[call[r].token]
        BY <2>1, <2>4, <4>1 DEF CallOK, Bears, Call
      <4> QED BY <4>1, <4>2 DEF CallOK, Bears
    <3> QED BY <3>1, <3>2
  <2>14. SessionType'
    BY <1>1, <1>2, <2>4, <2>10, <2>11 DEF SessionType
  <2> QED BY <2>12, <2>13, <2>14 DEF SessionInv
<1> QED BY <1>3, <1>4 DEF StartSession

\* The other handlers keep or destroy the session of their request.
LEMMA HandlerMoves ==
    ASSUME SessionInv, NEW s \in Slot,
           LimitLogin(s) \/ RequireAuth(s) \/ RequireAPIAuth(s) \/ PostLogoutJSON(s) \/ GetSessionJSON(s)
    PROVE  SessionInv'
<1>1. CASE LimitLogin(s)
  <2>1. CASE UNCHANGED call
    BY <1>1, <2>1 DEF LimitLogin, SessionInv, SessionType, CallOK, Bears
  <2>2. CASE Goto(s, "authenticate") \/ Goto(s, "respond")
    BY <1>1, <2>2, GotoMoves DEF LimitLogin
  <2> QED BY <1>1, <2>1, <2>2 DEF LimitLogin
<1>2. CASE RequireAuth(s)
  BY <1>2, GotoMoves, DestroyMoves DEF RequireAuth
<1>3. CASE RequireAPIAuth(s)
  BY <1>3, GotoMoves, DestroyMoves DEF RequireAPIAuth
<1>4. CASE PostLogoutJSON(s)
  BY <1>4, DestroyMoves DEF PostLogoutJSON
<1>5. CASE GetSessionJSON(s)
  BY <1>5, GotoMoves DEF GetSessionJSON
<1> QED BY <1>1, <1>2, <1>3, <1>4, <1>5

----------------------------------------------------------------------------
\* The rest of the system only adds stuttering to the limiter.
LEMMA LimiterSteps == SessionType /\ [Next]_vars => [LimiterNext]_limiter
<1> SUFFICES ASSUME SessionType, [Next]_vars PROVE [LimiterNext]_limiter
  OBVIOUS
<1>1. CASE UNCHANGED limiter
  BY <1>1
<1>2. CASE Tick
  BY <1>2 DEF LimiterNext
<1>3. ASSUME NEW s \in Slot, LimitLogin(s) PROVE [LimiterNext]_limiter
  <2>1. call[s].client \in Key
    BY DEF SessionType, Call
  <2> QED BY <1>3, <2>1 DEF LimitLogin, LimiterNext
<1> QED
  BY <1>1, <1>2, <1>3 DEF Next, vars, Start, Disable, Receive, StartSession, Respond, RequireAuth,
     RequireAPIAuth, PostLogoutJSON, GetSessionJSON, Authenticate

\* Every step keeps sessions and browsers sound.
LEMMA SessionSteps == AInv /\ [Next]_vars => SessionInv'
<1> SUFFICES ASSUME AInv, [Next]_vars PROVE SessionInv'
  OBVIOUS
<1>0. SessionInv /\ now \in Int
  BY DEF AInv, PromiseInv, BucketInv, LimiterTypeOK
<1>1. CASE UNCHANGED sessionVars /\ up' \in BOOLEAN
           /\ status' \in [User -> {"missing", "active", "disabled"}]
  BY <1>0, <1>1 DEF sessionVars, SessionInv, SessionType, CallOK, Bears
<1>2. CASE \E configured \in BOOLEAN : Start(configured)
  BY <1>0, <1>1, <1>2 DEF Start, SessionInv, SessionType
<1>3. CASE \E u \in User : Disable(u)
  BY <1>0, <1>1, <1>3 DEF Disable, SessionInv, SessionType
<1>4. CASE Tick /\ UNCHANGED <<up, status, sessionVars>>
  BY <1>0, <1>1, <1>4 DEF SessionInv, SessionType
<1>5. CASE UNCHANGED vars
  BY <1>0, <1>1, <1>5 DEF vars, SessionInv, SessionType
<1> QED
  BY <1>0, <1>2, <1>3, <1>4, <1>5, ReceiveMoves, RespondMoves, AuthenticateMoves, StartSessionMoves,
     HandlerMoves DEF Next

\* The inductive invariant of the access module: the limiter's, and that every
\* session is the one of the login that issued its token.
THEOREM AccessInvariance == Spec => []AInv
<1>1. Init => AInv
  <2> SUFFICES ASSUME Init PROVE AInv
    OBVIOUS
  <2>1. PromiseInv
    BY PromiseInit DEF Init
  <2>2. SessionType
    <3>1. status \in [User -> {"missing", "active", "disabled"}]
      BY DEF Init
    <3>2. /\ store \in [Token -> Session] /\ call \in [Slot -> Call]
          /\ cookie \in [Key -> Token \cup {0}]
      BY Constants DEF Init
    <3>3. issued \in [Token -> [user: User \cup {Nobody}, at: Int]]
      BY DEF Init
    <3> QED BY <3>1, <3>2, <3>3 DEF Init, SessionType
  <2> QED BY <2>1, <2>2, Constants DEF Init, AInv, SessionInv, CallOK
<1>2. AInv /\ [Next]_vars => AInv'
  BY SessionSteps, LimiterSteps, PromiseStep DEF AInv, SessionInv
<1> QED BY <1>1, <1>2, PTL DEF Spec

\* Types are kept, and a token stands for the user who logged in with it, for any
\* overlap of logins, logouts and requests.
THEOREM SessionSafety == Spec => []SessionsAreSound
<1>1. AInv => SessionsAreSound
  <2> SUFFICES ASSUME AInv PROVE SessionsAreSound
    OBVIOUS
  <2>1. TypeOK
    BY Zenon DEF AInv, PromiseInv, BucketInv, SessionInv, SessionType, TypeOK
  <2>2. \A t \in Token : store[t].user \in {Nobody, issued[t].user}
    BY Constants DEF AInv, SessionInv, Bears
  <2>3. \A s \in Slot : call[s].token # 0 => call[s].data.user = issued[call[s].token].user
    BY DEF AInv, SessionInv, CallOK, Bears
  <2> QED BY <2>1, <2>2, <2>3 DEF SessionsAreSound, SessionKeepsItsUser
<1> QED BY <1>1, AccessInvariance, PTL

\* No request is recognised after the lifetime of its login.
THEOREM SessionEnds == Spec => SessionEndsAfterTTL
<1>1. AInv /\ [Next]_vars =>
        [\A s \in Slot : call[s].step = "idle" /\ call'[s].token # 0
           => now <= issued[call'[s].token].at + TTL]_vars
  <2> SUFFICES ASSUME AInv, Next, NEW s \in Slot, call[s].step = "idle", call'[s].token # 0
               PROVE  now <= issued[call'[s].token].at + TTL
    OBVIOUS
  <2>0. SessionType /\ call[s].token = 0 /\ call[s] \in Call
    BY DEF AInv, SessionInv, SessionType, CallOK
  <2>1. PICK c \in Key, route \in Route : Receive(s, c, route)
    <3>1. call'[s] # call[s]
      BY <2>0
    <3>2. ASSUME NEW r \in Slot, r # s, \E x : call' = [call EXCEPT ![r] = x] PROVE FALSE
      BY <2>0, <3>1, <3>2 DEF SessionType
    <3>3. ASSUME NEW r \in Slot,
                 \/ LimitLogin(r) \/ StartSession(r) \/ Respond(r)
                 \/ RequireAuth(r) \/ RequireAPIAuth(r) \/ PostLogoutJSON(r) \/ GetSessionJSON(r)
                 \/ \E u \in User : Authenticate(r, u)
          PROVE  FALSE
      <4>1. \E x : call' = [call EXCEPT ![r] = x]
        BY <2>0, <3>1, <3>3 DEF LimitLogin, StartSession, Respond, RequireAuth, RequireAPIAuth, PostLogoutJSON,
           GetSessionJSON, Authenticate, Goto, Destroy, SessionType
      <4>2. r = s
        BY <3>2, <4>1
      <4>3. call[r].step # "idle"
        BY <3>3 DEF LimitLogin, StartSession, Respond, RequireAuth, RequireAPIAuth, PostLogoutJSON,
           GetSessionJSON, Authenticate
      <4> QED BY <4>2, <4>3
    <3>4. ASSUME NEW r \in Slot, NEW c \in Key, NEW route \in Route, Receive(r, c, route) PROVE r = s
      BY <3>2, <3>4 DEF Receive
    <3>5. ~ UNCHANGED call
      BY <3>1
    <3> QED BY <3>3, <3>4, <3>5 DEF Next, Start, Disable, sessionVars
  <2>2. /\ call'[s].token = cookie[c] /\ cookie[c] # 0 /\ store[cookie[c]] # NoSession
        /\ now <= store[cookie[c]].deadline
    <3> DEFINE t == cookie[c]
               found == t # 0 /\ store[t] # NoSession /\ now <= store[t].deadline
    <3>1. call' = [call EXCEPT ![s] = [Idle EXCEPT !.step = route, !.client = c,
                          !.token = IF found THEN t ELSE 0,
                          !.data = IF found THEN store[t] ELSE NoSession,
                          !.save = IF found THEN "modified" ELSE "unmodified"]]
      BY <2>1, Zenon DEF Receive
    <3>2. call'[s] = [Idle EXCEPT !.step = route, !.client = c,
                          !.token = IF found THEN t ELSE 0,
                          !.data = IF found THEN store[t] ELSE NoSession,
                          !.save = IF found THEN "modified" ELSE "unmodified"]
      BY <2>0, <3>1 DEF SessionType
    <3>3. call'[s].token = IF found THEN t ELSE 0
      BY <3>2 DEF Idle
    <3> QED BY <3>3
  <2>3. cookie[c] \in Token /\ Bears(store[cookie[c]], cookie[c])
    BY <2>0, <2>2 DEF AInv, SessionInv, SessionType
  <2> QED BY <2>2, <2>3 DEF Bears
<1> QED BY <1>1, AccessInvariance, PTL DEF Spec, SessionEndsAfterTTL

\* Behind the login routes, too, nobody gets more attempts than the limit.
THEOREM AccessIsLimited == Spec => []AttemptsAreBounded
<1>1. AInv => AttemptsAreBounded
  BY BucketBounds DEF AInv, PromiseInv
<1> QED BY <1>1, AccessInvariance, PTL

\* And nobody who waited as long as the answer said, and half a second, is refused
\* again.
THEOREM AccessKeepsItsPromise == Spec => RetryIsNearlyEnough
<1>1. AInv /\ [Next]_vars => [RefusedInTime]_limiter
  BY RefusedTooEarly DEF AInv
<1> QED BY <1>1, AccessInvariance, PTL DEF Spec, RetryIsNearlyEnough, RefusedInTime

============================================================================
