----------------------------- MODULE RateLimiter -----------------------------
(***************************************************************************)
(* The limiter in front of login, PIN and upload: a map of buckets under a *)
(* mutex, swept at most once per window.  Allow is one step, because the   *)
(* mutex is held throughout; but the caller has read the clock before it   *)
(* waits for the mutex, so the time a call brings may lie behind the time  *)
(* of calls served before it.                                              *)
(***************************************************************************)
EXTENDS Integers, Sequences, FiniteSets

CONSTANTS
    Keys,      \* the identifiers that are limited
    Limit,     \* calls let in per window
    Window,    \* length of a window (a minute in the code)
    MaxLag,    \* how far a caller's reading may lie behind the clock
    MaxTime,   \* bound: the clock stops here
    MaxCalls,  \* bound: calls made
    NoBucket   \* the zero bucket, which is what a missing key yields

\* config.go:166 refuses a limit that is not positive; the others are literals.
ASSUME LimitAssumption == Limit \in Nat \ {0}
ASSUME WindowAssumption == Window \in Nat \ {0}
ASSUME LagAssumption == MaxLag \in Nat
ASSUME BoundAssumption == MaxTime \in Nat /\ MaxCalls \in Nat

VARIABLES
    clock,      \* the time
    buckets,    \* key -> bucket
    lastSweep,  \* when expired buckets were last dropped
    unswept,    \* history: the buckets of a limiter that never sweeps
    log         \* history: the calls, and what they were answered

vars == <<clock, buckets, lastSweep, unswept, log>>

Bucket == [start : Int, count : Nat]

ASSUME NoBucketAssumption == NoBucket \notin Bucket

\* The zero time, to which every reading is more than a window away.
Never == -Window

Init ==
    /\ clock = 0
    /\ buckets = [k \in Keys |-> NoBucket]
    /\ lastSweep = Never
    /\ unswept = [k \in Keys |-> NoBucket]
    /\ log = <<>>

Expired(b, now) == now - b.start >= Window

\* Mutant: the sweep drops no bucket.
SweptNone(bs, now) == bs

Swept(bs, now) ==
    [k \in Keys |-> IF bs[k] # NoBucket /\ Expired(bs[k], now)
                    THEN NoBucket ELSE bs[k]]

SweepDue(now) == now - lastSweep >= Window

\* Whether a bucket lets a call in, and what the call makes of it.
Fresh(b, now) == b = NoBucket \/ Expired(b, now)

LetsIn(b, now) == Fresh(b, now) \/ b.count < Limit

\* Mutant: every call moves the window.
AfterCallSliding(b, now) ==
    IF Fresh(b, now) THEN [start |-> now, count |-> 1]
    ELSE [start |-> now, count |-> IF b.count < Limit THEN b.count + 1 ELSE b.count]

AfterCall(b, now) ==
    IF Fresh(b, now) THEN [start |-> now, count |-> 1]
    ELSE IF b.count < Limit THEN [b EXCEPT !.count = @ + 1]
    ELSE b

Tick ==
    /\ clock < MaxTime
    /\ clock' = clock + 1
    /\ UNCHANGED <<buckets, lastSweep, unswept, log>>

Allow(k, now) ==
    LET kept == IF SweepDue(now) THEN Swept(buckets, now) ELSE buckets IN
    /\ Len(log) < MaxCalls
    /\ lastSweep' = IF SweepDue(now) THEN now ELSE lastSweep
    /\ buckets' = [kept EXCEPT ![k] = AfterCall(@, now)]
    /\ unswept' = [unswept EXCEPT ![k] = AfterCall(@, now)]
    /\ log' = Append(log, [key |-> k, now |-> now, ok |-> LetsIn(kept[k], now)])
    /\ UNCHANGED clock

Next ==
    \/ Tick
    \/ \E k \in Keys, lag \in 0..MaxLag : lag <= clock /\ Allow(k, clock - lag)

Spec == Init /\ [][Next]_vars

-----------------------------------------------------------------------------
Call == [key : Keys, now : Nat, ok : BOOLEAN]

TypeOK ==
    /\ clock \in Nat
    /\ buckets \in [Keys -> Bucket \cup {NoBucket}]
    /\ lastSweep \in Int
    /\ unswept \in [Keys -> Bucket \cup {NoBucket}]
    /\ log \in Seq(Call)
    /\ \A k \in Keys : buckets[k] # NoBucket => buckets[k].count \in 1..Limit

-----------------------------------------------------------------------------
\* What holds.

\* A bucket that a sweep drops "would be reset on next access anyway"
\* (server.go:1977): the next call of every key is answered as if no sweep had
\* ever been made.  (With readings in order only: a call that read the clock
\* before the sweep and comes after it may find its window dropped while it
\* was open at that reading, so the run sets MaxLag to 0.)
SweepingChangesNoAnswer ==
    \A k \in Keys, lag \in 0..MaxLag :
        lag <= clock =>
            LET now == clock - lag IN
            LetsIn(buckets[k], now) <=> LetsIn(unswept[k], now)

\* The map does not grow with the number of identifiers ever seen: what a call
\* leaves in it started less than two windows before.
MapForgets ==
    [][log' # log =>
          \A k \in Keys :
              buckets'[k] # NoBucket
              => log'[Len(log')].now - buckets'[k].start < 2 * Window]_vars

\* The calls of a key that were let in with a reading from t on, for a window.
LetInFrom(k, t) ==
    {i \in 1..Len(log) :
        log[i].key = k /\ log[i].ok /\ log[i].now \in t..(t + Window - 1)}

\* Whatever the windows, no stretch of a window's length lets in more than two
\* windows' worth of calls.
AtMostTwoWindowsWorth ==
    \A k \in Keys, t \in 0..MaxTime : Cardinality(LetInFrom(k, t)) <= 2 * Limit

\* With readings in order the limiter is a fixed window per key.
FixedWindowPerKey == INSTANCE FixedWindow WITH
    Closed <- NoBucket,
    now <- clock,
    windows <- Swept(buckets, clock)

ImplementsFixedWindow == FixedWindowPerKey!Spec

=============================================================================
