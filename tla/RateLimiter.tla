---------------------------- MODULE RateLimiter ----------------------------
(***************************************************************************)
(* The token bucket per client address in front of the login routes        *)
(* (backend/admin/ratelimit.go).  Allow reads the clock before it takes    *)
(* the mutex, so that calls may enter in another order than they read.     *)
(*                                                                         *)
(* Time is in ticks, nanoseconds in the code.  A bucket counts in units: a *)
(* tick adds MaxTokens units and an attempt costs Window of them.  The     *)
(* code counts tokens in a float64: refilling and dividing may round to    *)
(* either side of the exact value, by less than a unit.  A bucket that has *)
(* the units of an attempt may therefore still be short of it, and a wait  *)
(* of a whole number of ticks may be cut to one less.                      *)
(***************************************************************************)
EXTENDS Integers

CONSTANTS
    Slot,       \* calls that may run at the same time
    Key,        \* client addresses
    MaxTokens, Window,   \* NewRateLimiter: MaxTokens attempts per Window
    Second,     \* ticks in a second
    MaxTime     \* bound: ticks of the clock

ASSUME LimiterAssumption ==
    MaxTokens \in Nat \ {0} /\ Window \in Nat \ {0} /\ Second \in Nat \ {0}
ASSUME TimeAssumption == MaxTime \in Nat

VARIABLES
    now,       \* the clock
    reading,   \* reading[s]: what the call read from it, -1 before that
    bucket,    \* RateLimiter.buckets; last is -1 while there is none
    admitted,  \* history: attempts let through, by address
    promise    \* history: when the address was last told to come back, -1 if never

limiter == <<now, reading, bucket, admitted, promise>>

Capacity == MaxTokens * Window

\* short: the tokens are rounded to just below what credit says.
Bucket == [credit: 0..Capacity, short: BOOLEAN, last: -1..MaxTime]
NoBucket == [credit |-> 0, short |-> FALSE, last |-> -1]

LimiterTypeOK ==
    /\ now \in 0..MaxTime
    /\ reading \in [Slot -> -1..MaxTime]
    /\ bucket \in [Key -> Bucket]
    /\ admitted \in [Key -> Nat]
    /\ promise \in [Key -> Int]

LimiterInit ==
    /\ now = 0
    /\ reading = [s \in Slot |-> -1]
    /\ bucket = [k \in Key |-> NoBucket]
    /\ admitted = [k \in Key |-> 0]
    /\ promise = [k \in Key |-> -1]

Tick ==
    /\ now < MaxTime
    /\ now' = now + 1
    /\ UNCHANGED <<reading, bucket, admitted, promise>>

\* The first statement of Allow.
ReadClock(s) ==
    /\ reading[s] = -1
    /\ reading' = [reading EXCEPT ![s] = now]
    /\ UNCHANGED <<now, bucket, admitted, promise>>

\* Mutant: the time of the refill is set whatever the reading.
RefillBackwards(b, read, short) ==
    LET sum == b.credit + (read - b.last) * MaxTokens
    IN  CASE b.last = -1 -> [credit |-> Capacity, short |-> FALSE, last |-> read]
          [] b.last # -1 /\ read <= b.last -> [b EXCEPT !.last = read]
          [] OTHER -> IF sum > Capacity THEN [credit |-> Capacity, short |-> FALSE, last |-> read]
                      ELSE [credit |-> sum, short |-> short, last |-> read]

\* The bucket as Allow finds it under the mutex: new and full, or refilled for
\* the time since the last refill, at most to the full.  A reading that is not
\* later adds nothing.
Refill(b, read, short) ==
    LET sum == b.credit + (read - b.last) * MaxTokens
    IN  CASE b.last = -1 -> [credit |-> Capacity, short |-> FALSE, last |-> read]
          [] b.last # -1 /\ read <= b.last -> b
          [] OTHER -> IF sum > Capacity THEN [credit |-> Capacity, short |-> FALSE, last |-> read]
                      ELSE [credit |-> sum, short |-> short, last |-> read]

\* tokens >= 1
HasToken(b) == b.credit > Window \/ (b.credit = Window /\ ~b.short)

\* retryAfter: the ticks until a token is there, cut to a whole number, and at
\* least one.  They are rounded first, so that a whole number may lose one.
Wait(b, w) ==
    LET missing == Window - b.credit
        least == (missing + MaxTokens - 1) \div MaxTokens - 1
    IN  \/ w = 1 /\ least < 1
        \/ w >= 1 /\ w \in {least, missing \div MaxTokens}

\* Mutant: the seconds are cut, not rounded.
RetryAfterCut(w) == IF w < Second THEN Second ELSE (w \div Second) * Second

\* The header: retryAfter rounded to seconds, half of one upwards, at least one.
RetryAfter(w) == IF 2 * w < Second THEN Second ELSE ((2 * w + Second) \div (2 * Second)) * Second

\* Allow with a token left, and without; then the middleware answers.
Admit(s, k) ==
    /\ reading[s] # -1
    /\ \E short \in BOOLEAN :
         LET b == Refill(bucket[k], reading[s], short)
         IN  HasToken(b) /\ bucket' = [bucket EXCEPT ![k] = [b EXCEPT !.credit = @ - Window]]
    /\ reading' = [reading EXCEPT ![s] = -1]
    /\ admitted' = [admitted EXCEPT ![k] = @ + 1]
    /\ promise' = [promise EXCEPT ![k] = -1]
    /\ UNCHANGED now

Refuse(s, k) ==
    /\ reading[s] # -1
    /\ \E short \in BOOLEAN, w \in 1..Window :
         LET b == Refill(bucket[k], reading[s], short)
         IN  /\ ~HasToken(b) /\ Wait(b, w)
             /\ bucket' = [bucket EXCEPT ![k] = b]
             /\ promise' = [promise EXCEPT ![k] = now + RetryAfter(w)]
    /\ reading' = [reading EXCEPT ![s] = -1]
    /\ UNCHANGED <<now, admitted>>

LimiterNext ==
    \/ Tick
    \/ \E s \in Slot : ReadClock(s) \/ \E k \in Key : Admit(s, k) \/ Refuse(s, k)

LimiterSpec == LimiterInit /\ [][LimiterNext]_limiter

\* However calls overlap, an address is let through at most MaxTokens times plus
\* once per elapsed share of the window (Allow).
AttemptsAreBounded ==
    \A k \in Key : admitted[k] * Window <= Capacity + now * MaxTokens

\* Who waits as many seconds as the answer to the last refused call said, and half
\* a second more, and sees no other call admitted meanwhile, is not refused again:
\* rounding in Allow and in the header is never off by more.  "retryAfter is the
\* time the caller must wait for at least one token to be available"
\* (ratelimit.go) holds only up to that.
RetryIsNearlyEnough ==
    [][\A s \in Slot, k \in Key :
         promise[k] # -1 /\ 2 * (reading[s] - promise[k]) > Second + 1 => ~Refuse(s, k)]_limiter
=============================================================================
