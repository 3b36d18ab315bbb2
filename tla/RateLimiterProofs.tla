-------------------------- MODULE RateLimiterProofs --------------------------
(***************************************************************************)
(* Theorems about RateLimiter and ClientLimits, for any clients, proxies,  *)
(* pages, limits and windows.  What is proved of the answers assumes, as   *)
(* the runs do, that calls come in the order of their readings.            *)
(***************************************************************************)
EXTENDS ClientLimits, FiniteSetTheorems, TLAPS

USE LimitAssumption, WindowAssumption, LagAssumption, BoundAssumption,
    NoBucketAssumption

(***************************************************************************)
(* Types.                                                                  *)
(***************************************************************************)

LEMMA AfterCallIsABucket ==
    ASSUME NEW b \in Bucket \cup {NoBucket}, NEW now \in Int
    PROVE  /\ AfterCall(b, now) \in Bucket
           /\ (b # NoBucket => b.count \in 1..Limit) => AfterCall(b, now).count \in 1..Limit
BY DEF AfterCall, Fresh, Expired, Bucket

LEMMA SweptAreBuckets ==
    ASSUME NEW bs \in [Keys -> Bucket \cup {NoBucket}], NEW now \in Int
    PROVE  /\ Swept(bs, now) \in [Keys -> Bucket \cup {NoBucket}]
           /\ \A k \in Keys : Swept(bs, now)[k] =
                 IF bs[k] # NoBucket /\ Expired(bs[k], now) THEN NoBucket ELSE bs[k]
BY DEF Swept

\* The buckets a call finds.
Kept(now) == IF SweepDue(now) THEN Swept(buckets, now) ELSE buckets

LEMMA KeptAreBuckets ==
    ASSUME TypeOK, NEW now \in Int
    PROVE  /\ Kept(now) \in [Keys -> Bucket \cup {NoBucket}]
           /\ \A k \in Keys : Kept(now)[k] = buckets[k] \/ Kept(now)[k] = NoBucket
BY SweptAreBuckets DEF TypeOK, Kept

\* What a call does, key by key.
LEMMA AllowSteps ==
    ASSUME TypeOK, NEW k \in Keys, NEW now \in Nat, Allow(k, now)
    PROVE  /\ TypeOK'
           /\ clock' = clock
           /\ lastSweep' = IF SweepDue(now) THEN now ELSE lastSweep
           /\ buckets'[k] = AfterCall(Kept(now)[k], now)
           /\ unswept'[k] = AfterCall(unswept[k], now)
           /\ \A j \in Keys \ {k} : buckets'[j] = Kept(now)[j] /\ unswept'[j] = unswept[j]
           /\ log' = Append(log, [key |-> k, now |-> now, ok |-> LetsIn(Kept(now)[k], now)])
<1>1. /\ buckets' = [Kept(now) EXCEPT ![k] = AfterCall(@, now)]
      /\ unswept' = [unswept EXCEPT ![k] = AfterCall(@, now)]
      /\ lastSweep' = IF SweepDue(now) THEN now ELSE lastSweep
      /\ log' = Append(log, [key |-> k, now |-> now, ok |-> LetsIn(Kept(now)[k], now)])
      /\ clock' = clock
  BY DEF Allow, Kept
<1>2. Kept(now) \in [Keys -> Bucket \cup {NoBucket}] /\ unswept \in [Keys -> Bucket \cup {NoBucket}]
  BY KeptAreBuckets DEF TypeOK
<1>3. /\ buckets'[k] = AfterCall(Kept(now)[k], now)
      /\ unswept'[k] = AfterCall(unswept[k], now)
      /\ \A j \in Keys \ {k} : buckets'[j] = Kept(now)[j] /\ unswept'[j] = unswept[j]
  BY <1>1, <1>2
<1>4. AfterCall(Kept(now)[k], now) \in Bucket /\ AfterCall(unswept[k], now) \in Bucket
  <2>1. Kept(now)[k] \in Bucket \cup {NoBucket} /\ unswept[k] \in Bucket \cup {NoBucket} /\ now \in Int
    BY <1>2
  <2> QED BY <2>1, AfterCallIsABucket
<1>5. /\ buckets' \in [Keys -> Bucket \cup {NoBucket}]
      /\ unswept' \in [Keys -> Bucket \cup {NoBucket}]
  BY <1>1, <1>2, <1>4
<1>6. log' \in Seq(Call)
  <2>1. LetsIn(Kept(now)[k], now) \in BOOLEAN
    BY DEF LetsIn, Fresh, Expired
  <2>2. [key |-> k, now |-> now, ok |-> LetsIn(Kept(now)[k], now)] \in Call
    BY <2>1 DEF Call
  <2> QED BY <1>1, <2>2 DEF TypeOK
<1>7. \A j \in Keys : buckets'[j] # NoBucket => buckets'[j].count \in 1..Limit
  <2>1. buckets'[k].count \in 1..Limit
    <3>1. /\ Kept(now)[k] \in Bucket \cup {NoBucket} /\ now \in Int
          /\ Kept(now)[k] # NoBucket => Kept(now)[k].count \in 1..Limit
      BY <1>2, KeptAreBuckets DEF TypeOK
    <3> QED BY <1>3, <3>1, AfterCallIsABucket
  <2>2. ASSUME NEW j \in Keys \ {k}, buckets'[j] # NoBucket
        PROVE  buckets'[j].count \in 1..Limit
    BY <1>3, <2>2, KeptAreBuckets DEF TypeOK
  <2> QED BY <2>1, <2>2
<1>8. lastSweep' \in Int
  BY <1>1 DEF TypeOK
<1>9. TypeOK'
  BY <1>1, <1>5, <1>6, <1>7, <1>8 DEF TypeOK
<1> QED BY <1>1, <1>3, <1>9

LEMMA InitTypes == Init => TypeOK
BY DEF Init, TypeOK, Never

LEMMA StepTypes == TypeOK /\ [Next]_vars => TypeOK'
<1> SUFFICES ASSUME TypeOK, [Next]_vars PROVE TypeOK'
  OBVIOUS
<1>1. CASE Tick
  BY <1>1 DEF Tick, TypeOK
<1>2. ASSUME NEW k \in Keys, NEW lag \in 0..MaxLag, lag <= clock, Allow(k, clock - lag)
      PROVE  TypeOK'
  <2>1. clock - lag \in Nat
    BY <1>2 DEF TypeOK
  <2> QED BY <1>2, <2>1, AllowSteps
<1>3. CASE UNCHANGED vars
  BY <1>3 DEF vars, TypeOK
<1> QED BY <1>1, <1>2, <1>3 DEF Next

\* Every reachable state of the limiter is well typed.
THEOREM TypeCorrect == Spec => []TypeOK
BY InitTypes, StepTypes, PTL DEF Spec

(***************************************************************************)
(* Calls in the order of their readings.                                   *)
(***************************************************************************)

\* What the sweep has dropped is over, and what it has left began less than a
\* window before it.
InTime ==
    /\ TypeOK
    /\ lastSweep <= clock
    /\ \A k \in Keys : buckets[k] # NoBucket =>
           buckets[k].start <= clock /\ lastSweep - buckets[k].start < Window
    /\ \A k \in Keys : \/ buckets[k] = unswept[k]
                       \/ Fresh(buckets[k], clock) /\ Fresh(unswept[k], clock)

LEMMA InitInTime == Init => InTime
<1> SUFFICES ASSUME Init PROVE InTime
  OBVIOUS
<1>1. TypeOK
  BY InitTypes
<1> QED BY <1>1 DEF Init, InTime, Never

LEMMA AllowInTime ==
    ASSUME InTime, NEW k \in Keys, Allow(k, clock)
    PROVE  InTime'
<1>1. TypeOK /\ clock \in Nat /\ lastSweep \in Int
  BY DEF InTime, TypeOK
<1>2. /\ TypeOK'
      /\ clock' = clock
      /\ lastSweep' = IF SweepDue(clock) THEN clock ELSE lastSweep
      /\ buckets'[k] = AfterCall(Kept(clock)[k], clock)
      /\ unswept'[k] = AfterCall(unswept[k], clock)
      /\ \A j \in Keys \ {k} : buckets'[j] = Kept(clock)[j] /\ unswept'[j] = unswept[j]
  BY <1>1, AllowSteps
<1>3. ASSUME NEW j \in Keys
      PROVE  /\ Kept(clock)[j] # NoBucket =>
                    /\ Kept(clock)[j] = buckets[j] /\ buckets[j].start \in Int
                    /\ buckets[j].start <= clock
                    /\ lastSweep' - buckets[j].start < Window
             /\ \/ Kept(clock)[j] = unswept[j]
                \/ Fresh(Kept(clock)[j], clock) /\ Fresh(unswept[j], clock)
  <2>1. buckets \in [Keys -> Bucket \cup {NoBucket}] /\ buckets[j] \in Bucket \cup {NoBucket}
    BY <1>1 DEF TypeOK
  <2>2. CASE SweepDue(clock)
    <3>1. Kept(clock)[j] = IF buckets[j] # NoBucket /\ Expired(buckets[j], clock)
                           THEN NoBucket ELSE buckets[j]
      BY <1>1, <2>1, <2>2, SweptAreBuckets DEF Kept
    <3>2. CASE buckets[j] # NoBucket /\ Expired(buckets[j], clock)
      BY <3>1, <3>2 DEF InTime, Fresh
    <3>3. CASE ~(buckets[j] # NoBucket /\ Expired(buckets[j], clock))
      BY <1>1, <1>2, <2>1, <2>2, <3>1, <3>3 DEF InTime, Fresh, Expired, Bucket
    <3> QED BY <3>2, <3>3
  <2>3. CASE ~SweepDue(clock)
    BY <1>2, <2>1, <2>3 DEF InTime, Kept, Bucket
  <2> QED BY <2>2, <2>3
<1>4. ASSUME NEW b, NEW c, b = c \/ (Fresh(b, clock) /\ Fresh(c, clock))
      PROVE  AfterCall(b, clock) = AfterCall(c, clock)
  BY <1>4 DEF AfterCall
<1>5. buckets'[k] = unswept'[k]
  BY <1>2, <1>3, <1>4
<1>6. lastSweep' <= clock
  BY <1>1, <1>2 DEF InTime
<1>7. buckets'[k].start <= clock /\ lastSweep' - buckets'[k].start < Window
  <2>1. \/ buckets'[k].start = clock
        \/ Kept(clock)[k] # NoBucket /\ buckets'[k].start = Kept(clock)[k].start
    <3>1. Kept(clock)[k] \in Bucket \cup {NoBucket}
      BY <1>1, KeptAreBuckets
    <3> QED BY <1>1, <1>2, <3>1 DEF AfterCall, Fresh, Bucket
  <2>2. lastSweep' \in Int
    BY <1>1, <1>2
  <2> QED BY <1>1, <1>3, <1>6, <2>1, <2>2
<1>8. ASSUME NEW j \in Keys
      PROVE  /\ buckets'[j] # NoBucket =>
                    buckets'[j].start <= clock /\ lastSweep' - buckets'[j].start < Window
             /\ \/ buckets'[j] = unswept'[j]
                \/ Fresh(buckets'[j], clock) /\ Fresh(unswept'[j], clock)
  <2>1. CASE j = k
    BY <1>5, <1>7, <2>1
  <2>2. CASE j # k
    BY <1>2, <1>3, <2>2
  <2> QED BY <2>1, <2>2
<1> QED BY <1>2, <1>6, <1>8 DEF InTime, Fresh, Expired

LEMMA TickInTime == InTime /\ Tick => InTime'
<1> SUFFICES ASSUME InTime, Tick PROVE InTime'
  OBVIOUS
<1>1. TypeOK' /\ clock \in Nat /\ clock' = clock + 1 /\ lastSweep \in Int
      /\ UNCHANGED <<buckets, lastSweep, unswept>>
  BY DEF InTime, TypeOK, Tick
<1>2. ASSUME NEW b \in Bucket \cup {NoBucket}, Fresh(b, clock) PROVE Fresh(b, clock')
  BY <1>1, <1>2 DEF Fresh, Expired, Bucket
<1>3. \A k \in Keys : buckets[k] \in Bucket \cup {NoBucket} /\ unswept[k] \in Bucket \cup {NoBucket}
  BY DEF InTime, TypeOK
<1>4. \A k \in Keys : \/ buckets'[k] = unswept'[k]
                      \/ Fresh(buckets'[k], clock') /\ Fresh(unswept'[k], clock')
  BY <1>1, <1>2, <1>3 DEF InTime
<1>5. \A k \in Keys : buckets'[k] # NoBucket =>
          buckets'[k].start <= clock' /\ lastSweep' - buckets'[k].start < Window
  BY <1>1, <1>3 DEF InTime, Bucket
<1> QED BY <1>1, <1>4, <1>5 DEF InTime, Fresh, Expired

LEMMA StepInTime == MaxLag = 0 /\ InTime /\ [Next]_vars => InTime'
<1> SUFFICES ASSUME MaxLag = 0, InTime, [Next]_vars PROVE InTime'
  OBVIOUS
<1>1. ASSUME NEW k \in Keys, NEW lag \in 0..MaxLag, Allow(k, clock - lag) PROVE InTime'
  <2>1. clock - lag = clock
    BY DEF InTime, TypeOK
  <2> QED BY <1>1, <2>1, AllowInTime
<1>2. CASE UNCHANGED vars
  BY <1>2 DEF vars, InTime, TypeOK, Fresh, Expired
<1> QED BY <1>1, <1>2, TickInTime DEF Next

LEMMA AlwaysInTime == ASSUME MaxLag = 0 PROVE Spec => []InTime
BY InitInTime, StepInTime, PTL DEF Spec
\* Every call is answered as if no sweep had ever been made.
THEOREM SweepingIsInvisible ==
    ASSUME MaxLag = 0 PROVE Spec => []SweepingChangesNoAnswer
<1>1. InTime => SweepingChangesNoAnswer
  <2>1. ASSUME InTime, NEW k \in Keys PROVE LetsIn(buckets[k], clock) <=> LetsIn(unswept[k], clock)
    BY <2>1 DEF InTime, LetsIn
  <2>2. clock \in Nat => \A lag \in 0..MaxLag : clock - lag = clock
    OBVIOUS
  <2> QED BY <2>1, <2>2 DEF SweepingChangesNoAnswer, InTime, TypeOK
<1> QED BY <1>1, AlwaysInTime, PTL

\* What a call leaves in the map started less than two windows before.
THEOREM MapsForget == ASSUME MaxLag = 0 PROVE Spec => MapForgets
<1> DEFINE Forgotten ==
        log' # log =>
            \A k \in Keys :
                buckets'[k] # NoBucket
                => log'[Len(log')].now - buckets'[k].start < 2 * Window
<1>1. ASSUME InTime, NEW k \in Keys, Allow(k, clock) PROVE Forgotten
  <2>1. InTime' /\ clock' = clock
    BY <1>1, AllowInTime DEF Allow
  <2>2. log'[Len(log')].now = clock /\ clock \in Nat
    <3> DEFINE call == [key |-> k, now |-> clock, ok |-> LetsIn(Kept(clock)[k], clock)]
    <3>1. log' = Append(log, call) /\ log \in Seq(Call) /\ clock \in Nat
      BY <1>1 DEF Allow, Kept, InTime, TypeOK
    <3>2. call.now = clock
      OBVIOUS
    <3> HIDE DEF call
    <3>3. log'[Len(log')] = call
      BY <3>1
    <3> QED BY <3>1, <3>2, <3>3
  <2>3. clock - lastSweep' < Window
    <3>1. lastSweep' = IF SweepDue(clock) THEN clock ELSE lastSweep
      BY <1>1 DEF Allow
    <3> QED BY <1>1, <2>2, <3>1 DEF SweepDue, InTime, TypeOK
  <2>4. ASSUME NEW j \in Keys, buckets'[j] # NoBucket PROVE clock - buckets'[j].start < 2 * Window
    <3>1. lastSweep' - buckets'[j].start < Window /\ lastSweep' \in Int /\ buckets'[j].start \in Int
      BY <2>1, <2>4 DEF InTime, TypeOK, Bucket
    <3> QED BY <2>2, <2>3, <3>1
  <2> QED BY <2>2, <2>4
<1>2. ASSUME InTime, [Next]_vars PROVE [Forgotten]_vars
  <2>1. ASSUME NEW k \in Keys, NEW lag \in 0..MaxLag, Allow(k, clock - lag) PROVE Forgotten
    <3>1. clock - lag = clock
      BY <1>2 DEF InTime, TypeOK
    <3> QED BY <1>1, <1>2, <2>1, <3>1
  <2>2. CASE Tick
    BY <2>2 DEF Tick
  <2> QED BY <1>2, <2>1, <2>2 DEF Next
<1> QED BY <1>2, AlwaysInTime, PTL DEF Spec, MapForgets
(***************************************************************************)
(* The refinement of FixedWindow, per key and per client.                  *)
(***************************************************************************)

Windows == Swept(buckets, clock)

\* A call opens the window of its key, is let into it or refused by it, and
\* leaves every other window alone.
LEMMA CallsMeetWindows ==
    ASSUME InTime, NEW k \in Keys, Allow(k, clock)
    PROVE  \E ok \in BOOLEAN :
             /\ log' = Append(log, [key |-> k, now |-> clock, ok |-> ok])
             /\ clock' = clock
             /\ \/ /\ Windows[k] = NoBucket
                   /\ Windows' = [Windows EXCEPT ![k] = [start |-> clock, count |-> 1]]
                   /\ ok = TRUE
                \/ /\ Windows[k] # NoBucket
                   /\ Windows[k].count < Limit
                   /\ Windows' = [Windows EXCEPT ![k].count = @ + 1]
                   /\ ok = TRUE
                \/ /\ Windows[k] # NoBucket
                   /\ Windows[k].count >= Limit
                   /\ Windows' = Windows
                   /\ ok = FALSE
<1>1. TypeOK /\ clock \in Nat /\ buckets \in [Keys -> Bucket \cup {NoBucket}]
  BY DEF InTime, TypeOK
<1>2. /\ TypeOK'
      /\ clock' = clock
      /\ buckets'[k] = AfterCall(Kept(clock)[k], clock)
      /\ \A j \in Keys \ {k} : buckets'[j] = Kept(clock)[j]
      /\ log' = Append(log, [key |-> k, now |-> clock, ok |-> LetsIn(Kept(clock)[k], clock)])
  BY <1>1, AllowSteps
<1>3. ASSUME NEW j \in Keys
      PROVE  /\ Windows[j] = IF Fresh(buckets[j], clock) THEN NoBucket ELSE buckets[j]
             /\ Windows'[j] = IF Fresh(buckets'[j], clock) THEN NoBucket ELSE buckets'[j]
             /\ \/ Kept(clock)[j] = buckets[j]
                \/ Kept(clock)[j] = NoBucket /\ Fresh(buckets[j], clock)
  <2>1. Windows[j] = IF Fresh(buckets[j], clock) THEN NoBucket ELSE buckets[j]
    BY <1>1, SweptAreBuckets DEF Windows, Fresh
  <2>2. Windows'[j] = IF Fresh(buckets'[j], clock) THEN NoBucket ELSE buckets'[j]
    <3>1. Windows' = Swept(buckets', clock)
      BY <1>2 DEF Windows, Swept, Expired
    <3>2. buckets' \in [Keys -> Bucket \cup {NoBucket}]
      BY <1>2 DEF TypeOK
    <3> QED BY <1>1, <3>1, <3>2, SweptAreBuckets DEF Fresh
  <2>3. \/ Kept(clock)[j] = buckets[j]
        \/ Kept(clock)[j] = NoBucket /\ Fresh(buckets[j], clock)
    BY <1>1, SweptAreBuckets DEF Kept, Fresh
  <2> QED BY <2>1, <2>2, <2>3
<1>4. Windows \in [Keys -> Bucket \cup {NoBucket}] /\ Windows' \in [Keys -> Bucket \cup {NoBucket}]
  <2>1. Windows' = Swept(buckets', clock)
    BY <1>2 DEF Windows, Swept, Expired
  <2>2. buckets' \in [Keys -> Bucket \cup {NoBucket}]
    BY <1>2 DEF TypeOK
  <2> QED BY <1>1, <2>1, <2>2, SweptAreBuckets DEF Windows
<1>5. \A j \in Keys \ {k} : Windows'[j] = Windows[j]
  <2>1. ASSUME NEW j \in Keys \ {k} PROVE Windows'[j] = Windows[j]
    BY <1>2, <1>3 DEF Fresh
  <2> QED BY <2>1
<1>6. buckets[k] \in Bucket \cup {NoBucket} /\ Kept(clock)[k] \in Bucket \cup {NoBucket}
  BY <1>1, KeptAreBuckets
<1>7. CASE Fresh(buckets[k], clock)
  <2>1. Fresh(Kept(clock)[k], clock)
    BY <1>3, <1>7 DEF Fresh
  <2>2. buckets'[k] = [start |-> clock, count |-> 1]
    BY <1>2, <2>1 DEF AfterCall
  <2>3. ~Fresh(buckets'[k], clock)
    <3>1. buckets'[k] \in Bucket
      BY <1>1, <2>2 DEF Bucket
    <3> QED BY <1>1, <2>2, <3>1 DEF Fresh, Expired
  <2>4. Windows[k] = NoBucket /\ Windows'[k] = [start |-> clock, count |-> 1]
    BY <1>3, <1>7, <2>2, <2>3
  <2>5. Windows' = [Windows EXCEPT ![k] = [start |-> clock, count |-> 1]]
    BY <1>4, <1>5, <2>4
  <2>6. LetsIn(Kept(clock)[k], clock) = TRUE
    BY <2>1 DEF LetsIn
  <2> QED BY <1>2, <2>4, <2>5, <2>6
<1>8. CASE ~Fresh(buckets[k], clock)
  <2>1. Kept(clock)[k] = buckets[k] /\ Windows[k] = buckets[k] /\ buckets[k] \in Bucket
        /\ buckets[k] # NoBucket
    BY <1>3, <1>6, <1>8 DEF Fresh
  <2>2. CASE buckets[k].count < Limit
    <3>1. buckets'[k] = [buckets[k] EXCEPT !.count = @ + 1]
      BY <1>2, <1>8, <2>1, <2>2 DEF AfterCall
    <3>2. buckets'[k] \in Bucket /\ buckets'[k].start = buckets[k].start
      BY <2>1, <3>1 DEF Bucket
    <3>3. ~Fresh(buckets'[k], clock)
      BY <1>8, <3>2 DEF Fresh, Expired
    <3>4. Windows'[k] = [Windows[k] EXCEPT !.count = @ + 1]
      BY <1>3, <2>1, <3>1, <3>3
    <3>5. Windows' = [Windows EXCEPT ![k].count = @ + 1]
      BY <1>4, <1>5, <3>4
    <3>6. LetsIn(Kept(clock)[k], clock) = TRUE
      BY <2>1, <2>2 DEF LetsIn
    <3> QED BY <1>2, <2>1, <2>2, <3>5, <3>6
  <2>3. CASE ~(buckets[k].count < Limit)
    <3>1. buckets'[k] = buckets[k]
      BY <1>2, <1>8, <2>1, <2>3 DEF AfterCall
    <3>2. Windows' = Windows
      BY <1>3, <1>4, <1>5, <3>1
    <3>3. LetsIn(Kept(clock)[k], clock) = FALSE
      BY <1>8, <2>1, <2>3 DEF LetsIn
    <3>4. buckets[k].count >= Limit
      BY <2>1, <2>3 DEF Bucket
    <3> QED BY <1>2, <2>1, <3>2, <3>3, <3>4
  <2> QED BY <2>2, <2>3
<1> QED BY <1>7, <1>8

\* Time closes windows that are over and no others.
LEMMA TicksCloseWindows ==
    ASSUME InTime, Tick
    PROVE  /\ clock' = clock + 1 /\ log' = log
           /\ Windows' = [k \in Keys |->
                  IF Windows[k] # NoBucket /\ clock' - Windows[k].start >= Window
                  THEN NoBucket ELSE Windows[k]]
<1>1. clock \in Nat /\ clock' = clock + 1 /\ buckets' = buckets /\ log' = log
      /\ buckets \in [Keys -> Bucket \cup {NoBucket}]
  BY DEF InTime, TypeOK, Tick
<1>2. /\ Windows' = [k \in Keys |-> IF buckets[k] # NoBucket /\ Expired(buckets[k], clock')
                                    THEN NoBucket ELSE buckets[k]]
      /\ \A k \in Keys : Windows[k] =
            IF buckets[k] # NoBucket /\ Expired(buckets[k], clock) THEN NoBucket ELSE buckets[k]
  BY <1>1 DEF Windows, Swept, Expired
<1>3. ASSUME NEW k \in Keys
      PROVE  (IF buckets[k] # NoBucket /\ Expired(buckets[k], clock') THEN NoBucket ELSE buckets[k])
             = IF Windows[k] # NoBucket /\ clock' - Windows[k].start >= Window
               THEN NoBucket ELSE Windows[k]
  <2>1. buckets[k] \in Bucket \cup {NoBucket}
    BY <1>1
  <2> QED BY <1>1, <1>2, <2>1 DEF Expired, Bucket
<1> QED BY <1>1, <1>2, <1>3

\* With readings in order the limiter is a fixed window per key.
THEOREM WindowPerKey == ASSUME MaxLag = 0 PROVE Spec => ImplementsFixedWindow
<1>1. Init => FixedWindowPerKey!Init
  BY DEF Init, FixedWindowPerKey!Init, Swept
<1>2. ASSUME InTime, [Next]_vars
      PROVE  [FixedWindowPerKey!Next]_(FixedWindowPerKey!windowVars)
  <2>1. CASE Tick
    BY <1>2, <2>1, TicksCloseWindows
       DEF Windows, FixedWindowPerKey!Next, FixedWindowPerKey!Tick
  <2>2. ASSUME NEW k \in Keys, NEW lag \in 0..MaxLag, Allow(k, clock - lag)
        PROVE  FixedWindowPerKey!Next
    <3>1. clock - lag = clock
      BY <1>2 DEF InTime, TypeOK
    <3>2. FixedWindowPerKey!Open(k) \/ FixedWindowPerKey!Admit(k) \/ FixedWindowPerKey!Refuse(k)
      BY <1>2, <2>2, <3>1, CallsMeetWindows
         DEF Windows, FixedWindowPerKey!Open, FixedWindowPerKey!Admit,
             FixedWindowPerKey!Refuse, FixedWindowPerKey!Answer
    <3> QED BY <3>2 DEF FixedWindowPerKey!Next
  <2>3. CASE UNCHANGED vars
    BY <2>3 DEF vars, FixedWindowPerKey!windowVars, Swept, Expired
  <2> QED BY <1>2, <2>1, <2>2, <2>3 DEF Next
<1> QED BY <1>1, <1>2, AlwaysInTime, PTL DEF Spec, ImplementsFixedWindow, FixedWindowPerKey!Spec

(***************************************************************************)
(* Clients behind proxies.                                                 *)
(***************************************************************************)

Ingress == [hops : 0..MaxHops, anonymous : BOOLEAN]

\* Whatever a client sends along, what the limiter counts it under is its own.
LEMMA ClientsAreRecognised ==
    ASSUME ingress \in Ingress, NEW c \in Clients, NEW s \in Slugs, NEW q \in Request,
           q.via = ingress.hops \/ (q.via < ingress.hops /\ q.sent = <<>>)
    PROVE  RateKey(s, ClientIP(Forwarded(c, q), RemoteAddr(c, q))) = Party(s, c)
<1> DEFINE header == Forwarded(c, q)
           added  == [i \in 1..q.via |->
                         [addr |-> IF i = 1 THEN c ELSE Proxy, spelled |-> q.spelled]]
<1>1. /\ ingress.hops \in Nat /\ q.via \in Nat /\ q.spelled \in Spellings
      /\ q.sent \in Seq(Entry)
  <2>1. q.sent \in UNION {[1..n -> Entry] : n \in 0..MaxSent}
    BY DEF Request
  <2>2. PICK n \in 0..MaxSent : q.sent \in [1..n -> Entry]
    BY <2>1
  <2>3. n \in Nat
    BY HopsAssumption
  <2>4. q.sent \in Seq(Entry)
    BY <2>2, <2>3
  <2> QED BY <2>4, HopsAssumption DEF Request, Ingress
<1>2. CASE q.via = 0
  <2>1. ingress.hops = 0 \/ header = <<>>
    BY <1>2 DEF Forwarded
  <2>2. ClientIP(header, RemoteAddr(c, q)) = RemoteAddr(c, q)
    BY <1>1, <2>1 DEF ClientIP
  <2>3. RemoteAddr(c, q).addr = c
    BY <1>2 DEF RemoteAddr
  <2> QED BY <2>2, <2>3 DEF RateKey, Canonical, Party
<1>3. CASE q.via # 0
  <2>1. /\ header = q.sent \o added
        /\ added \in Seq(Entry) /\ Len(added) = q.via
        /\ added[1] = [addr |-> c, spelled |-> q.spelled]
    <3>1. header = q.sent \o added
      BY <1>3 DEF Forwarded
    <3>2. \A i \in 1..q.via : added[i] \in Entry
      BY <1>1 DEF Entry, Address
    <3>3. added \in [1..q.via -> Entry]
      BY <3>2
    <3>4. 1 \in 1..q.via
      BY <1>1, <1>3
    <3>5. added[1] = [addr |-> c, spelled |-> q.spelled]
      BY <3>4
    <3> HIDE DEF added
    <3>6. added \in Seq(Entry) /\ Len(added) = q.via
      BY <1>1, <3>3
    <3> QED BY <3>1, <3>5, <3>6
  <2> HIDE DEF added, header
  <2>2. Len(header) = Len(q.sent) + q.via /\ Len(q.sent) \in Nat
    <3>1. Len(q.sent) \in Nat
      BY <1>1
    <3>2. Len(q.sent \o added) = Len(q.sent) + Len(added)
      BY <1>1, <2>1
    <3> QED BY <2>1, <3>1, <3>2
  <2>3. (IF Len(header) >= ingress.hops THEN Len(header) - ingress.hops ELSE 0) = Len(q.sent)
    <3>1. CASE q.via = ingress.hops
      BY <1>1, <2>2, <3>1
    <3>2. CASE q.via < ingress.hops /\ q.sent = <<>>
      BY <1>1, <2>2, <3>2
    <3> QED BY <3>1, <3>2
  <2>4. header[Len(q.sent) + 1] = [addr |-> c, spelled |-> q.spelled]
    BY <1>1, <1>3, <2>1
  <2>5. ingress.hops > 0 /\ header # <<>>
    <3>1. Len(header) > 0
      BY <1>1, <1>3, <2>2
    <3> QED BY <1>1, <1>3, <3>1
  <2>6. [addr |-> c, spelled |-> q.spelled] # Blank
    BY <1>1, AddressAssumption
  <2>7. ClientIP(header, RemoteAddr(c, q)) = [addr |-> c, spelled |-> q.spelled]
    BY <2>3, <2>4, <2>5, <2>6 DEF ClientIP
  <2> QED BY <2>7 DEF RateKey, Canonical, Party, header
<1> QED BY <1>2, <1>3

\* Every call was counted for the one who made it.
Attributed ==
    /\ InTime
    /\ ingress \in Ingress
    /\ callers \in Seq(Parties)
    /\ Len(callers) = Len(log)
    /\ \A i \in 1..Len(log) : log[i].key = callers[i]

LEMMA InitAttributed == LimitsInit => Attributed
<1> SUFFICES ASSUME LimitsInit PROVE Attributed
  OBVIOUS
<1>1. InTime /\ log = <<>> /\ callers = <<>>
  BY InitInTime DEF LimitsInit, Init
<1> QED BY <1>1 DEF Attributed, LimitsInit, Ingress

\* A step of the composition is a step of the limiter that takes the caller down.
LEMMA ArrivalsAreCalls ==
    ASSUME MaxLag = 0, Attributed, NEW c \in Clients, NEW s \in Slugs,
           NEW q \in Request, NEW lag \in 0..MaxLag, Arrive(c, s, q, lag)
    PROVE  /\ Party(s, c) \in Keys
           /\ Allow(Party(s, c), clock)
           /\ callers' = Append(callers, Party(s, c))
           /\ ingress' = ingress
<1>1. lag = 0 /\ clock \in Nat
  BY DEF Attributed, InTime, TypeOK
<1>2. clock - lag = clock
  BY <1>1
<1>3. Party(s, c) \in Keys
  BY KeysAssumption DEF Party, Parties, Address
<1> QED BY <1>2, <1>3, ClientsAreRecognised DEF Arrive, Attributed

LEMMA StepAttributed == MaxLag = 0 /\ Attributed /\ [LimitsNext]_limitVars => Attributed'
<1> SUFFICES ASSUME MaxLag = 0, Attributed, [LimitsNext]_limitVars PROVE Attributed'
  OBVIOUS
<1>1. CASE Tick /\ UNCHANGED <<ingress, callers>>
  <2>1. InTime' /\ log' = log
    BY <1>1, TickInTime DEF Attributed, Tick
  <2> QED BY <1>1, <2>1 DEF Attributed
<1>2. ASSUME NEW c \in Clients, NEW s \in Slugs, NEW q \in Request,
             NEW lag \in 0..MaxLag, Arrive(c, s, q, lag)
      PROVE  Attributed'
  <2>1. /\ Party(s, c) \in Keys /\ Allow(Party(s, c), clock)
        /\ callers' = Append(callers, Party(s, c)) /\ ingress' = ingress
    BY <1>2, ArrivalsAreCalls
  <2>2. InTime' /\ TypeOK /\ clock \in Nat
    BY <2>1, AllowInTime DEF Attributed, InTime, TypeOK
  <2>3. PICK call : call.key = Party(s, c) /\ log' = Append(log, call)
    <3> DEFINE call == [key |-> Party(s, c), now |-> clock,
                        ok |-> LetsIn(Kept(clock)[Party(s, c)], clock)]
    <3>1. log' = Append(log, call)
      BY <2>1, <2>2, AllowSteps
    <3>2. call.key = Party(s, c)
      OBVIOUS
    <3> QED BY <3>1, <3>2
  <2>4. Party(s, c) \in Parties /\ log \in Seq(Call)
    BY <2>1, <2>2, KeysAssumption DEF TypeOK
  <2>5. Len(log') = Len(log) + 1 /\ Len(log) \in Nat
    BY <2>3, <2>4
  <2>6. callers' \in Seq(Parties) /\ Len(callers') = Len(callers) + 1
    BY <2>1, <2>4 DEF Attributed
  <2>7. ASSUME NEW i \in 1..Len(log') PROVE log'[i].key = callers'[i]
    <3>1. CASE i = Len(log) + 1
      <4>1. log'[i] = call
        BY <2>3, <2>4, <3>1
      <4>2. callers'[i] = Party(s, c)
        BY <2>1, <2>4, <3>1 DEF Attributed
      <4> QED BY <2>3, <4>1, <4>2
    <3>2. CASE i \in 1..Len(log)
      <4>1. log'[i] = log[i]
        BY <2>3, <2>4, <3>2
      <4>2. callers'[i] = callers[i]
        BY <2>1, <2>4, <3>2 DEF Attributed
      <4> QED BY <3>2, <4>1, <4>2 DEF Attributed
    <3> QED BY <2>5, <3>1, <3>2
  <2> QED BY <2>1, <2>2, <2>5, <2>6, <2>7 DEF Attributed
<1>3. CASE UNCHANGED limitVars
  <2>1. InTime'
    BY <1>3, StepInTime DEF Attributed, limitVars
  <2> QED BY <1>3, <2>1 DEF Attributed, limitVars, vars
<1> QED BY <1>1, <1>2, <1>3 DEF LimitsNext

\* The calls as the abstract limiter sees them.
Calls == [i \in DOMAIN log |-> [log[i] EXCEPT !.key = callers[i]]]

LEMMA CallsAreTheLog == Attributed => Calls = log
<1> SUFFICES ASSUME Attributed PROVE Calls = log
  OBVIOUS
<1>1. log \in Seq(Call) /\ DOMAIN log = 1..Len(log)
  BY DEF Attributed, InTime, TypeOK
<1>2. ASSUME NEW i \in 1..Len(log) PROVE [log[i] EXCEPT !.key = callers[i]] = log[i]
  <2>1. log[i] \in Call /\ log[i].key = callers[i]
    BY <1>1 DEF Attributed
  <2> QED BY <2>1 DEF Call
<1>3. log = [i \in 1..Len(log) |-> log[i]]
  BY <1>1
<1> QED BY <1>1, <1>2, <1>3 DEF Calls

LEMMA CallsStayTheLog == Attributed' => Calls' = log'
<1>1. (Attributed => Calls = log)'
  BY CallsAreTheLog, PTL
<1> QED BY <1>1

\* With readings in order every client has a fixed window of its own on every
\* page, whatever header it sends and whoever else calls.
THEOREM WindowsPerClient == ASSUME MaxLag = 0 PROVE LimitsSpec => ClientsAreLimitedApart
<1>1. LimitsInit => WindowPerClient!Init
  <2> SUFFICES ASSUME LimitsInit PROVE WindowPerClient!Init
    OBVIOUS
  <2>1. Calls = <<>>
    BY InitAttributed, CallsAreTheLog DEF LimitsInit, Init
  <2> QED BY <2>1, KeysAssumption DEF LimitsInit, Init, WindowPerClient!Init, Swept, Calls
<1>2. ASSUME Attributed, [LimitsNext]_limitVars
      PROVE  [WindowPerClient!Next]_(WindowPerClient!windowVars)
  <2>1. Calls = log /\ Calls' = log'
    <3>1. Attributed'
      BY <1>2, StepAttributed
    <3> QED BY <1>2, <3>1, CallsAreTheLog, CallsStayTheLog
  <2>2. CASE Tick /\ UNCHANGED <<ingress, callers>>
    <3>1. InTime
      BY <1>2 DEF Attributed
    <3> QED BY <2>1, <2>2, <3>1, TicksCloseWindows, KeysAssumption
            DEF Windows, Calls, WindowPerClient!Next, WindowPerClient!Tick
  <2>3. ASSUME NEW c \in Clients, NEW s \in Slugs, NEW q \in Request,
               NEW lag \in 0..MaxLag, Arrive(c, s, q, lag)
        PROVE  WindowPerClient!Next
    <3>1. PICK k \in Parties : k \in Keys /\ Allow(k, clock) /\ InTime
      BY <1>2, <2>3, ArrivalsAreCalls, KeysAssumption DEF Attributed
    <3>2. WindowPerClient!Open(k) \/ WindowPerClient!Admit(k) \/ WindowPerClient!Refuse(k)
      BY <2>1, <3>1, CallsMeetWindows
         DEF Windows, Calls, WindowPerClient!Open, WindowPerClient!Admit,
             WindowPerClient!Refuse, WindowPerClient!Answer
    <3> QED BY <3>1, <3>2 DEF WindowPerClient!Next
  <2>4. CASE UNCHANGED limitVars
    BY <2>1, <2>4 DEF limitVars, vars, Calls, WindowPerClient!windowVars, Swept, Expired
  <2> QED BY <1>2, <2>2, <2>3, <2>4 DEF LimitsNext
<1>3. ASSUME MaxLag = 0 PROVE LimitsSpec => []Attributed
  BY InitAttributed, StepAttributed, PTL DEF LimitsSpec
<1> QED BY <1>1, <1>2, <1>3, PTL DEF LimitsSpec, ClientsAreLimitedApart, WindowPerClient!Spec

(***************************************************************************)
(* How many calls a window's length can let in.                            *)
(***************************************************************************)

\* The calls of a key that were let in with a reading in a span of time.
LetInBetween(calls, k, lo, hi) ==
    {i \in 1..Len(calls) :
        calls[i].key = k /\ calls[i].ok /\ calls[i].now \in lo..hi}

\* The last window of a key has let in what its bucket counts, the window's
\* length before it no more than one window may, and nothing came after it.
\* (The windows are those of a limiter that never sweeps: a sweep drops a
\* bucket, and with it the memory of when the last window was.)
LastWindows ==
    \A k \in Keys :
        /\ unswept[k] = NoBucket =>
               \A i \in 1..Len(log) : ~(log[i].key = k /\ log[i].ok)
        /\ unswept[k] # NoBucket =>
             LET from == unswept[k].start IN
             /\ from <= clock
             /\ unswept[k].count <= Limit
             /\ \A i \in 1..Len(log) :
                    log[i].key = k /\ log[i].ok => log[i].now < from + Window
             /\ Cardinality(LetInBetween(log, k, from, from + Window - 1)) <= unswept[k].count
             /\ Cardinality(LetInBetween(log, k, from - Window, from - 1)) <= Limit

TwoWindows == InTime /\ LastWindows /\ AtMostTwoWindowsWorth

LEMMA SpansAreFinite ==
    ASSUME TypeOK, NEW k, NEW lo, NEW hi
    PROVE  /\ IsFiniteSet(LetInBetween(log, k, lo, hi))
           /\ Cardinality(LetInBetween(log, k, lo, hi)) \in Nat
<1>1. Len(log) \in Nat
  BY DEF TypeOK
<1>2. IsFiniteSet(1..Len(log))
  BY <1>1, FS_Interval
<1>3. LetInBetween(log, k, lo, hi) \in SUBSET (1..Len(log))
  BY DEF LetInBetween
<1> QED BY <1>2, <1>3, FS_Subset, FS_CardinalityType

\* What a call adds to a span.
LEMMA CallsFillSpans ==
    ASSUME TypeOK, NEW k \in Keys, NEW lo \in Int, NEW hi \in Int,
           NEW j \in Keys, NEW now \in Nat, NEW ok \in BOOLEAN,
           log' = Append(log, [key |-> j, now |-> now, ok |-> ok])
    PROVE  LetInBetween(log', k, lo, hi) =
               IF j = k /\ ok /\ now \in lo..hi
               THEN LetInBetween(log, k, lo, hi) \cup {Len(log) + 1}
               ELSE LetInBetween(log, k, lo, hi)
<1> DEFINE call == [key |-> j, now |-> now, ok |-> ok]
<1>1. call.key = j /\ call.now = now /\ call.ok = ok
  OBVIOUS
<1>2. log' = Append(log, call)
  OBVIOUS
<1> HIDE DEF call
<1>3. log \in Seq(Call) /\ Len(log) \in Nat
  BY DEF TypeOK
<1>4. /\ Len(log') = Len(log) + 1
      /\ log'[Len(log) + 1] = call
      /\ \A i \in 1..Len(log) : log'[i] = log[i]
  BY <1>2, <1>3
<1>5. 1..Len(log') = (1..Len(log)) \cup {Len(log) + 1}
  BY <1>3, <1>4
<1>6. ASSUME NEW i
      PROVE  i \in LetInBetween(log', k, lo, hi) <=>
                 \/ i \in LetInBetween(log, k, lo, hi)
                 \/ i = Len(log) + 1 /\ j = k /\ ok /\ now \in lo..hi
  <2>1. CASE i \in 1..Len(log)
    <3>1. i # Len(log) + 1 /\ log'[i] = log[i] /\ i \in 1..Len(log')
      BY <1>3, <1>4, <1>5, <2>1
    <3> QED BY <2>1, <3>1 DEF LetInBetween
  <2>2. CASE i = Len(log) + 1
    <3>1. i \notin 1..Len(log) /\ i \in 1..Len(log') /\ log'[i] = call
      BY <1>3, <1>4, <1>5, <2>2
    <3> QED BY <1>1, <2>2, <3>1 DEF LetInBetween
  <2>3. CASE i \notin 1..Len(log')
    BY <1>5, <2>3 DEF LetInBetween
  <2> QED BY <1>5, <2>1, <2>2, <2>3
<1> QED BY <1>6

\* The answer is that of a limiter that never sweeps.
LEMMA AnswersOfTheUnswept ==
    ASSUME InTime, NEW k \in Keys, Allow(k, clock)
    PROVE  /\ clock' = clock
           /\ unswept'[k] = AfterCall(unswept[k], clock)
           /\ \A j \in Keys \ {k} : unswept'[j] = unswept[j]
           /\ log' = Append(log, [key |-> k, now |-> clock,
                                  ok |-> LetsIn(unswept[k], clock)])
<1>1. TypeOK /\ clock \in Nat
  BY DEF InTime, TypeOK
<1>2. /\ clock' = clock
      /\ unswept'[k] = AfterCall(unswept[k], clock)
      /\ \A j \in Keys \ {k} : unswept'[j] = unswept[j]
      /\ log' = Append(log, [key |-> k, now |-> clock, ok |-> LetsIn(Kept(clock)[k], clock)])
  BY <1>1, AllowSteps
<1>3. \/ Kept(clock)[k] = unswept[k]
      \/ Fresh(Kept(clock)[k], clock) /\ Fresh(unswept[k], clock)
  <2>1. \/ Kept(clock)[k] = buckets[k]
        \/ Fresh(Kept(clock)[k], clock) /\ Fresh(buckets[k], clock)
    BY <1>1, SweptAreBuckets DEF TypeOK, Kept, Fresh
  <2> QED BY <2>1 DEF InTime
<1>4. LetsIn(Kept(clock)[k], clock) = LetsIn(unswept[k], clock)
  BY <1>3 DEF LetsIn
<1> QED BY <1>2, <1>4

LEMMA InitTwoWindows == Init => TwoWindows
<1> SUFFICES ASSUME Init PROVE TwoWindows
  OBVIOUS
<1>1. InTime /\ log = <<>> /\ \A k \in Keys : unswept[k] = NoBucket
  BY InitInTime DEF Init
<1>2. Len(log) = 0 /\ 1..Len(log) = {}
  BY <1>1
<1>3. LastWindows
  BY <1>1, <1>2 DEF LastWindows
<1>4. ASSUME NEW k \in Keys, NEW t \in 0..MaxTime
      PROVE  Cardinality(LetInFrom(k, t)) <= 2 * Limit
  <2>1. LetInFrom(k, t) = {}
    BY <1>2 DEF LetInFrom
  <2> QED BY <2>1, FS_EmptySet
<1> QED BY <1>1, <1>3, <1>4 DEF TwoWindows, AtMostTwoWindowsWorth

\* A call that is let in opens the window, with what the window before let in
\* behind it, or takes its place in it.
LEMMA CallsKeepLastWindows ==
    ASSUME InTime, InTime', LastWindows, NEW k \in Keys, Allow(k, clock)
    PROVE  LastWindows'
<1> DEFINE u  == unswept[k]
           ok == LetsIn(u, clock)
<1>1. TypeOK /\ TypeOK' /\ clock \in Nat /\ u \in Bucket \cup {NoBucket}
  BY DEF InTime, TypeOK
<1>2. /\ clock' = clock
      /\ unswept'[k] = AfterCall(u, clock)
      /\ \A j \in Keys \ {k} : unswept'[j] = unswept[j]
      /\ log' = Append(log, [key |-> k, now |-> clock, ok |-> ok])
  BY AnswersOfTheUnswept
<1>3. ok \in BOOLEAN
  BY DEF LetsIn, Fresh, Expired
<1>4. /\ Len(log') = Len(log) + 1 /\ Len(log) \in Nat
      /\ log'[Len(log) + 1].key = k
      /\ log'[Len(log) + 1].now = clock
      /\ log'[Len(log) + 1].ok = ok
      /\ \A i \in 1..Len(log) : log'[i] = log[i] /\ log[i].now \in Nat
  <2> DEFINE call == [key |-> k, now |-> clock, ok |-> ok]
  <2>1. call.key = k /\ call.now = clock /\ call.ok = ok
    OBVIOUS
  <2>2. log' = Append(log, call) /\ log \in Seq(Call)
    BY <1>1, <1>2 DEF TypeOK
  <2> HIDE DEF call
  <2>3. /\ Len(log') = Len(log) + 1 /\ Len(log) \in Nat
        /\ log'[Len(log) + 1] = call
        /\ \A i \in 1..Len(log) : log'[i] = log[i] /\ log[i] \in Call
    BY <2>2
  <2> QED BY <2>1, <2>3 DEF Call
<1>5. ASSUME NEW j \in Keys, NEW lo \in Int, NEW hi \in Int
      PROVE  LetInBetween(log', j, lo, hi) =
                 IF j = k /\ ok /\ clock \in lo..hi
                 THEN LetInBetween(log, j, lo, hi) \cup {Len(log) + 1}
                 ELSE LetInBetween(log, j, lo, hi)
  BY <1>1, <1>2, <1>3, CallsFillSpans
<1> HIDE DEF ok, u
<1>6. ASSUME NEW j \in Keys
      PROVE  /\ unswept'[j] = NoBucket =>
                    \A i \in 1..Len(log') : ~(log'[i].key = j /\ log'[i].ok)
             /\ unswept'[j] # NoBucket =>
                  /\ unswept'[j].start <= clock
                  /\ unswept'[j].count <= Limit
                  /\ \A i \in 1..Len(log') :
                         log'[i].key = j /\ log'[i].ok
                         => log'[i].now < unswept'[j].start + Window
                  /\ Cardinality(LetInBetween(log', j, unswept'[j].start, unswept'[j].start + Window - 1))
                       <= unswept'[j].count
                  /\ Cardinality(LetInBetween(log', j, unswept'[j].start - Window, unswept'[j].start - 1))
                       <= Limit
  <2>1. CASE j # k
    <3>1. unswept'[j] = unswept[j]
      BY <1>2, <2>1
    <3>2. \A i \in 1..Len(log') : log'[i].key = j => i \in 1..Len(log) /\ log'[i] = log[i]
      BY <1>4, <2>1
    <3>3. ASSUME unswept[j] # NoBucket
          PROVE  /\ unswept[j].start \in Int
                 /\ LetInBetween(log', j, unswept[j].start, unswept[j].start + Window - 1)
                      = LetInBetween(log, j, unswept[j].start, unswept[j].start + Window - 1)
                 /\ LetInBetween(log', j, unswept[j].start - Window, unswept[j].start - 1)
                      = LetInBetween(log, j, unswept[j].start - Window, unswept[j].start - 1)
      <4>1. unswept[j].start \in Int
        BY <1>1, <3>3 DEF TypeOK, Bucket
      <4>2. /\ unswept[j].start + Window - 1 \in Int /\ unswept[j].start - Window \in Int
            /\ unswept[j].start - 1 \in Int
        BY <4>1
      <4> QED BY <1>5, <2>1, <4>1, <4>2
    <3> QED BY <3>1, <3>2, <3>3 DEF LastWindows
  <2>2. CASE j = k /\ Fresh(u, clock)
    <3>1. ok
      BY <2>2 DEF ok, LetsIn
    <3>2. unswept'[k] = [start |-> clock, count |-> 1]
      BY <1>2, <2>2 DEF AfterCall
    <3>3. unswept'[k] \in Bucket /\ unswept'[k] # NoBucket
      BY <1>1, <3>2 DEF Bucket
    <3>4. \A i \in 1..Len(log) : log[i].key = k /\ log[i].ok => log[i].now < clock
      <4>1. CASE u = NoBucket
        BY <4>1 DEF LastWindows, u
      <4>2. CASE u # NoBucket
        <5>1. u.start \in Int /\ clock - u.start >= Window
          BY <1>1, <2>2, <4>2 DEF Fresh, Expired, Bucket
        <5>2. \A i \in 1..Len(log) :
                  log[i].key = k /\ log[i].ok => log[i].now < u.start + Window
          BY <4>2 DEF LastWindows, u
        <5> QED BY <1>1, <1>4, <5>1, <5>2
      <4> QED BY <4>1, <4>2
    <3>5. \A i \in 1..Len(log') :
              log'[i].key = k /\ log'[i].ok => log'[i].now < clock + Window
      BY <1>1, <1>4, <3>4
    <3>6. Cardinality(LetInBetween(log', k, clock, clock + Window - 1)) = 1
      <4>1. LetInBetween(log, k, clock, clock + Window - 1) = {}
        BY <1>1, <1>4, <3>4 DEF LetInBetween
      <4>2. LetInBetween(log', k, clock, clock + Window - 1) = {Len(log) + 1}
        BY <1>1, <1>5, <3>1, <4>1
      <4>3. Cardinality({Len(log) + 1}) = 1
        BY FS_Singleton
      <4> QED BY <4>2, <4>3
    <3>7. Cardinality(LetInBetween(log', k, clock - Window, clock - 1)) <= Limit
      <4>1. LetInBetween(log', k, clock - Window, clock - 1)
              = LetInBetween(log, k, clock - Window, clock - 1)
        BY <1>1, <1>5
      <4>2. CASE u = NoBucket
        <5>1. LetInBetween(log, k, clock - Window, clock - 1) = {}
          BY <4>2 DEF LastWindows, LetInBetween, u
        <5> QED BY <4>1, <5>1, FS_EmptySet
      <4>3. CASE u # NoBucket
        <5> DEFINE now == LetInBetween(log, k, u.start, u.start + Window - 1)
        <5>1. /\ clock >= u.start + Window /\ u.start \in Int /\ u.count \in Nat
              /\ u.count <= Limit
              /\ Cardinality(now) <= u.count
              /\ \A i \in 1..Len(log) :
                    log[i].key = k /\ log[i].ok => log[i].now < u.start + Window
          BY <1>1, <2>2, <4>3 DEF LastWindows, Fresh, Expired, Bucket, u
        <5>2. LetInBetween(log, k, clock - Window, clock - 1) \in SUBSET now
          BY <1>1, <1>4, <5>1 DEF LetInBetween
        <5>3. IsFiniteSet(now) /\ Cardinality(now) \in Nat
          BY <1>1, SpansAreFinite
        <5>4. /\ Cardinality(LetInBetween(log, k, clock - Window, clock - 1)) <= Cardinality(now)
              /\ Cardinality(LetInBetween(log, k, clock - Window, clock - 1)) \in Nat
          BY <1>1, <5>2, <5>3, FS_Subset, SpansAreFinite
        <5> HIDE DEF now
        <5> QED BY <4>1, <5>1, <5>3, <5>4
      <4> QED BY <4>2, <4>3
    <3> QED BY <1>1, <2>2, <3>2, <3>3, <3>5, <3>6, <3>7
  <2>3. CASE j = k /\ ~Fresh(u, clock)
    <3> DEFINE cur  == LetInBetween(log, k, u.start, u.start + Window - 1)
               last == LetInBetween(log, k, u.start - Window, u.start - 1)
    <3>1. /\ u # NoBucket /\ u \in Bucket /\ u.start \in Int /\ u.count \in Nat
          /\ clock < u.start + Window
      BY <1>1, <2>3 DEF Fresh, Expired, Bucket
    <3>2. /\ u.start <= clock
          /\ u.count <= Limit
          /\ \A i \in 1..Len(log) :
                log[i].key = k /\ log[i].ok => log[i].now < u.start + Window
          /\ Cardinality(cur) <= u.count
          /\ Cardinality(last) <= Limit
      BY <3>1 DEF LastWindows, u
    <3>3. /\ unswept'[k].start = u.start
          /\ unswept'[k].count = IF ok THEN u.count + 1 ELSE u.count
          /\ unswept'[k] # NoBucket
          /\ ok <=> u.count < Limit
      <4>1. ok <=> u.count < Limit
        BY <2>3 DEF ok, LetsIn
      <4>2. CASE u.count < Limit
        <5>1. unswept'[k] = [u EXCEPT !.count = @ + 1]
          BY <1>2, <2>3, <4>2 DEF AfterCall
        <5>2. unswept'[k] \in Bucket /\ unswept'[k].start = u.start /\ unswept'[k].count = u.count + 1
          BY <3>1, <5>1 DEF Bucket
        <5> QED BY <4>1, <4>2, <5>2
      <4>3. CASE ~(u.count < Limit)
        <5>1. unswept'[k] = u
          BY <1>2, <2>3, <4>3 DEF AfterCall
        <5> QED BY <3>1, <4>1, <4>3, <5>1
      <4> QED BY <4>2, <4>3
    <3>4. unswept'[k].count <= Limit
      BY <3>1, <3>2, <3>3
    <3>5. \A i \in 1..Len(log') :
              log'[i].key = k /\ log'[i].ok => log'[i].now < u.start + Window
      <4>1. ASSUME NEW i \in 1..Len(log'), log'[i].key = k, log'[i].ok
            PROVE  log'[i].now < u.start + Window
        <5>1. CASE i = Len(log) + 1
          BY <1>4, <3>1, <5>1
        <5>2. CASE i # Len(log) + 1
          <6>1. i \in 1..Len(log)
            BY <1>4, <5>2
          <6> QED BY <1>4, <3>2, <4>1, <6>1
        <5> QED BY <5>1, <5>2
      <4> QED BY <4>1
    <3>6. LetInBetween(log', k, u.start - Window, u.start - 1) = last
      BY <1>1, <1>5, <3>1, <3>2
    <3>7. Cardinality(LetInBetween(log', k, u.start, u.start + Window - 1))
            <= IF ok THEN u.count + 1 ELSE u.count
      <4>1. LetInBetween(log', k, u.start, u.start + Window - 1)
              = IF ok THEN cur \cup {Len(log) + 1} ELSE cur
        <5>1. u.start + Window - 1 \in Int /\ clock \in u.start..(u.start + Window - 1)
          BY <1>1, <3>1, <3>2
        <5> QED BY <1>5, <3>1, <5>1
      <4>2. IsFiniteSet(cur) /\ Cardinality(cur) \in Nat
        BY <1>1, SpansAreFinite
      <4>3. Cardinality(cur \cup {Len(log) + 1}) <= Cardinality(cur) + 1
        <5> HIDE DEF cur
        <5>1. Cardinality(cur \cup {Len(log) + 1})
                = IF Len(log) + 1 \in cur THEN Cardinality(cur) ELSE Cardinality(cur) + 1
          BY <4>2, FS_AddElement
        <5> QED BY <4>2, <5>1
      <4>4. Cardinality(cur \cup {Len(log) + 1}) \in Nat
        BY <4>2, FS_AddElement, FS_CardinalityType
      <4> HIDE DEF cur
      <4> QED BY <3>1, <3>2, <4>1, <4>2, <4>3, <4>4
    <3> QED BY <1>2, <2>3, <3>1, <3>2, <3>3, <3>4, <3>5, <3>6, <3>7
  <2> QED BY <2>1, <2>2, <2>3
<1> QED BY <1>2, <1>6 DEF LastWindows

LEMMA CallsKeepTwoWindows ==
    ASSUME TwoWindows, NEW k \in Keys, Allow(k, clock)
    PROVE  TwoWindows'
<1>1. /\ InTime /\ InTime' /\ LastWindows /\ LastWindows'
  BY AllowInTime, CallsKeepLastWindows DEF TwoWindows
<1>2. TypeOK /\ TypeOK' /\ clock \in Nat
  BY <1>1 DEF InTime, TypeOK
<1> DEFINE ok == LetsIn(unswept[k], clock)
<1>3. /\ log' = Append(log, [key |-> k, now |-> clock, ok |-> ok])
      /\ ok \in BOOLEAN
  BY <1>1, AnswersOfTheUnswept DEF LetsIn, Fresh, Expired
<1> HIDE DEF ok
<1>4. Len(log') = Len(log) + 1 /\ Len(log) \in Nat
  BY <1>2, <1>3 DEF TypeOK
<1>5. ASSUME NEW j \in Keys, NEW lo \in Int, NEW hi \in Int
      PROVE  LetInBetween(log', j, lo, hi) =
                 IF j = k /\ ok /\ clock \in lo..hi
                 THEN LetInBetween(log, j, lo, hi) \cup {Len(log) + 1}
                 ELSE LetInBetween(log, j, lo, hi)
  BY <1>2, <1>3, CallsFillSpans
<1>6. ASSUME NEW j \in Keys, NEW t \in 0..MaxTime
      PROVE  Cardinality(LetInBetween(log', j, t, t + Window - 1)) <= 2 * Limit
  <2> DEFINE span == LetInBetween(log', j, t, t + Window - 1)
             from == unswept'[j].start
             cur  == LetInBetween(log', j, from, from + Window - 1)
             last == LetInBetween(log', j, from - Window, from - 1)
  <2>1. span = IF j = k /\ ok /\ clock \in t..(t + Window - 1)
               THEN LetInBetween(log, j, t, t + Window - 1) \cup {Len(log) + 1}
               ELSE LetInBetween(log, j, t, t + Window - 1)
    <3>1. t \in Int /\ t + Window - 1 \in Int
      OBVIOUS
    <3> QED BY <1>5, <3>1
  <2>2. CASE ~(j = k /\ ok /\ clock \in t..(t + Window - 1))
    <3>1. span = LetInFrom(j, t)
      BY <2>1, <2>2 DEF LetInFrom, LetInBetween
    <3> QED BY <3>1 DEF TwoWindows, AtMostTwoWindowsWorth
  <2>3. CASE j = k /\ ok /\ clock \in t..(t + Window - 1)
    \* The span reaches back less than a window from the clock: it lies in the
    \* last window and the window's length before it.
    <3>1. Len(log) + 1 \in span
      BY <2>1, <2>3
    <3>2. unswept'[k] # NoBucket
      BY <1>1, <2>3, <3>1 DEF LastWindows, LetInBetween
    <3>3. /\ unswept'[k] \in Bucket
          /\ from \in Int /\ unswept'[k].count \in Nat
      BY <1>2, <2>3, <3>2 DEF TypeOK, Bucket
    <3>4. clock' = clock
      BY DEF Allow
    <3>5. /\ from <= clock
          /\ unswept'[k].count <= Limit
          /\ \A i \in 1..Len(log') :
                 log'[i].key = k /\ log'[i].ok => log'[i].now < from + Window
          /\ Cardinality(cur) <= unswept'[k].count
          /\ Cardinality(last) <= Limit
      BY <1>1, <2>3, <3>2, <3>4 DEF LastWindows
    <3>6. \A i \in 1..Len(log') : log'[i].now \in Nat
      <4>1. log' \in Seq(Call)
        BY <1>2 DEF TypeOK
      <4>2. \A i \in 1..Len(log') : log'[i] \in Call
        BY <4>1
      <4> QED BY <4>2 DEF Call
    <3>7. span \in SUBSET (cur \cup last)
      <4>1. ASSUME NEW i \in span PROVE i \in cur \cup last
        <5>1. /\ i \in 1..Len(log') /\ log'[i].key = j /\ log'[i].ok
              /\ log'[i].now \in t..(t + Window - 1)
          BY <4>1 DEF LetInBetween
        <5>2. log'[i].now \in Nat /\ log'[i].now < from + Window /\ log'[i].now >= t
              /\ clock < t + Window
          BY <1>2, <2>3, <3>5, <3>6, <5>1
        <5>3. \/ log'[i].now \in from..(from + Window - 1)
              \/ log'[i].now \in (from - Window)..(from - 1)
          BY <1>2, <3>3, <3>5, <5>2
        <5> QED BY <5>1, <5>3 DEF LetInBetween
      <4> QED BY <4>1
    <3>8. /\ IsFiniteSet(cur) /\ Cardinality(cur) \in Nat
          /\ IsFiniteSet(last) /\ Cardinality(last) \in Nat
      <4>1. ASSUME NEW lo, NEW hi
            PROVE  /\ IsFiniteSet(LetInBetween(log', j, lo, hi))
                   /\ Cardinality(LetInBetween(log', j, lo, hi)) \in Nat
        <5>1. IsFiniteSet(1..Len(log'))
          BY <1>4, FS_Interval
        <5>2. LetInBetween(log', j, lo, hi) \in SUBSET (1..Len(log'))
          BY DEF LetInBetween
        <5> QED BY <5>1, <5>2, FS_Subset, FS_CardinalityType
      <4> QED BY <4>1
    <3> HIDE DEF span, cur, last
    <3>9. /\ IsFiniteSet(cur \cup last)
          /\ Cardinality(cur \cup last)
               = Cardinality(cur) + Cardinality(last) - Cardinality(cur \cap last)
      BY <3>8, FS_Union
    <3>10. Cardinality(cur \cap last) \in Nat /\ Cardinality(cur \cup last) \in Nat
      <4>1. IsFiniteSet(cur \cap last)
        <5>1. cur \cap last \in SUBSET cur
          OBVIOUS
        <5> QED BY <3>8, <5>1, FS_Subset
      <4> QED BY <3>9, <4>1, FS_CardinalityType
    <3>11. Cardinality(span) <= Cardinality(cur \cup last) /\ Cardinality(span) \in Nat
      BY <3>7, <3>9, FS_Subset, FS_CardinalityType
    <3>12. Cardinality(span) <= 2 * Limit
      BY <3>3, <3>5, <3>8, <3>9, <3>10, <3>11
    <3> QED BY <3>12 DEF span
  <2> QED BY <2>2, <2>3
<1>7. AtMostTwoWindowsWorth'
  <2>1. \A j \in Keys, t \in 0..MaxTime :
            LetInFrom(j, t)' = LetInBetween(log', j, t, t + Window - 1)
    BY DEF LetInFrom, LetInBetween
  <2> QED BY <1>6, <2>1 DEF AtMostTwoWindowsWorth
<1> QED BY <1>1, <1>7 DEF TwoWindows

LEMMA StepTwoWindows == MaxLag = 0 /\ TwoWindows /\ [Next]_vars => TwoWindows'
<1> SUFFICES ASSUME MaxLag = 0, TwoWindows, [Next]_vars PROVE TwoWindows'
  OBVIOUS
<1>1. InTime /\ InTime' /\ clock \in Nat
  BY StepInTime DEF TwoWindows, InTime, TypeOK
<1>2. ASSUME NEW k \in Keys, NEW lag \in 0..MaxLag, Allow(k, clock - lag) PROVE TwoWindows'
  <2>1. clock - lag = clock
    BY <1>1
  <2> QED BY <1>2, <2>1, CallsKeepTwoWindows
<1>3. CASE Tick \/ UNCHANGED vars
  <2>1. /\ log' = log /\ unswept' = unswept
        /\ clock' = clock \/ clock' = clock + 1
    BY <1>3 DEF Tick, vars
  <2>2. AtMostTwoWindowsWorth'
    BY <2>1 DEF TwoWindows, AtMostTwoWindowsWorth, LetInFrom
  <2>3. LastWindows'
    <3>1. \A k \in Keys : unswept[k] # NoBucket => unswept[k].start \in Int
      BY <1>1 DEF InTime, TypeOK, Bucket
    <3>2. \A k \in Keys : unswept[k] # NoBucket /\ unswept[k].start <= clock
                        => unswept[k].start <= clock'
      BY <1>1, <2>1, <3>1
    <3> QED BY <2>1, <3>2 DEF TwoWindows, LastWindows
  <2> QED BY <1>1, <2>2, <2>3 DEF TwoWindows
<1> QED BY <1>2, <1>3 DEF Next

\* Whatever the windows, no stretch of a window's length lets in more than two
\* windows' worth of calls.
THEOREM TwoWindowsWorth == ASSUME MaxLag = 0 PROVE Spec => []AtMostTwoWindowsWorth
<1>1. TwoWindows => AtMostTwoWindowsWorth
  BY DEF TwoWindows
<1> QED BY <1>1, InitTwoWindows, StepTwoWindows, PTL DEF Spec

\* Nor for a client on a page, however many keys its header would spread its
\* calls over: the calls made for it are those counted under its own key.
THEOREM TwoWindowsPerClient ==
    ASSUME MaxLag = 0 PROVE LimitsSpec => []TwoWindowsWorthPerClient
<1>1. ASSUME Attributed, [LimitsNext]_limitVars PROVE [Next]_vars
  <2>1. ASSUME NEW c \in Clients, NEW s \in Slugs, NEW q \in Request,
               NEW lag \in 0..MaxLag, Arrive(c, s, q, lag)
        PROVE  Next
    <3>1. Party(s, c) \in Keys /\ Allow(Party(s, c), clock)
      BY <1>1, <2>1, ArrivalsAreCalls
    <3>2. 0 \in 0..MaxLag /\ 0 <= clock /\ clock - 0 = clock
      BY <1>1 DEF Attributed, InTime, TypeOK
    <3> QED BY <3>1, <3>2 DEF Next
  <2> QED BY <1>1, <2>1 DEF LimitsNext, limitVars, Next
<1>2. LimitsInit => TwoWindows /\ Attributed
  BY InitTwoWindows, InitAttributed DEF LimitsInit
<1>3. ASSUME TwoWindows, Attributed, [LimitsNext]_limitVars
      PROVE  TwoWindows' /\ Attributed'
  BY <1>1, <1>3, StepTwoWindows, StepAttributed
<1>4. TwoWindows /\ Attributed => TwoWindowsWorthPerClient
  <2> SUFFICES ASSUME TwoWindows, Attributed, NEW p \in Parties, NEW t \in 0..MaxTime
               PROVE  Cardinality(LetInFor(p, t)) <= 2 * Limit
    BY DEF TwoWindowsWorthPerClient
  <2>1. LetInFor(p, t) = LetInFrom(p, t)
    BY DEF LetInFor, LetInFrom, Attributed
  <2>2. p \in Keys
    BY KeysAssumption
  <2> QED BY <2>1, <2>2 DEF TwoWindows, AtMostTwoWindowsWorth
<1> QED BY <1>2, <1>3, <1>4, PTL DEF LimitsSpec
=============================================================================
