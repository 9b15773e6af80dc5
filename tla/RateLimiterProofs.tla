-------------------------- MODULE RateLimiterProofs --------------------------
(***************************************************************************)
(* The windows of the rate limiter, for any limits, any number of visitors *)
(* and of requests, and any delay between reading the clock and the lock.  *)
(***************************************************************************)
EXTENDS RateLimiter, FiniteSetTheorems, WellFoundedInduction, TLAPS

\* No request and no sweep is dated later than the clock.
NowInv == lastSweep <= clock /\ \A c \in Requests : req[c].now <= clock

Inv == TypeOK /\ NowInv /\ WindowsEnd

\* No windows at the start.
LEMMA InvInit == Init => Inv
<1> SUFFICES ASSUME Init PROVE Inv
  OBVIOUS
<1> USE RateLimiterAssumption DEF Init
<1>1. clock \in Time /\ clock \in Nat /\ lastSweep \in 0 .. MaxTime
  BY DEF Time
<1>2. <<0, 0>> \in Limits
  BY DEF Limits
<1>3. (CHOOSE s \in Session : TRUE) \in Session /\ (CHOOSE e \in Endpoint : TRUE) \in Endpoint
  OBVIOUS
<1>4. req \in [Requests -> Request]
  BY <1>2, <1>3 DEF Request, Idle
<1>5. TypeOK
  BY <1>1, <1>4 DEF TypeOK
<1>6. NowInv /\ WindowsEnd
  BY <1>1 DEF NowInv, WindowsEnd, Idle
<1> QED
  BY <1>5, <1>6 DEF Inv

\* The bucket of a request that is waiting for the lock, and its limit.
LEMMA BucketType ==
  ASSUME TypeOK, NEW c \in Requests
  PROVE  /\ req[c] \in Request
         /\ KeyOf(req[c]) \in Key
         /\ LimitOf(req[c]) \in Nat
         /\ req[c].now \in Nat
<1>1. req[c] \in Request
  BY DEF TypeOK
<1>2. KeyOf(req[c]) \in Key
  BY <1>1 DEF Request, KeyOf, Key
<1>3. Limits \subseteq Nat \X Nat
  BY RateLimiterAssumption DEF Limits
<1>4. LimitOf(req[c]) \in Nat
  BY <1>1, <1>3 DEF Request, LimitOf
<1> QED
  BY <1>1, <1>2, <1>4 DEF Request

\* Being let through keeps a request a request.
LEMMA ThroughType ==
  ASSUME NEW r \in Request, NEW t \in Nat, r.now <= t
  PROVE  /\ Through(r) \in Request /\ Through(r).now <= t
         /\ [r EXCEPT !.pc = "refused"] \in Request
         /\ [r EXCEPT !.pc = "refused"].now <= t
<1>1. (CHOOSE s \in Session : TRUE) \in Session /\ (CHOOSE e \in Endpoint : TRUE) \in Endpoint
  BY RateLimiterAssumption
<1>2. <<0, 0>> \in Limits /\ r.now \in Nat /\ MaxTime \in Nat
  BY RateLimiterAssumption DEF Limits, Request
<1>3. CASE r.stage = 1
  BY <1>2, <1>3 DEF Through, Request
<1>4. CASE r.stage # 1
  <2>1. Through(r) = Idle
    BY <1>4 DEF Through
  <2>2. Idle \in Request /\ Idle.now = 0
    BY <1>1, <1>2 DEF Idle, Request
  <2>3. [r EXCEPT !.pc = "refused"] \in Request /\ [r EXCEPT !.pc = "refused"].now <= t
    BY DEF Request
  <2> QED
    BY <2>1, <2>2, <2>3
<1> QED
  BY <1>3, <1>4

\* What the critical section does to one window.
LEMMA LockWindow ==
  ASSUME Inv, NEW c \in Requests, Lock(c), NEW j \in Key
  PROVE  /\ resetAt'[j] \in Nat /\ count'[j] \in Nat
         /\ resetAt'[j] <= clock + Window
         /\ clock <= resetAt[j] => resetAt'[j] = resetAt[j] /\ count'[j] >= count[j]
<1> DEFINE r == req[c]
           key == KeyOf(r)
           fresh == ~Swept(r.now, key) \/ Expired(r.now, key)
           n == IF fresh THEN 0 ELSE count[key]
           ok == n < LimitOf(r)
<1>1. /\ resetAt'[j] = IF j = key THEN IF fresh THEN r.now + Window ELSE resetAt[j]
                       ELSE IF Swept(r.now, j) THEN resetAt[j] ELSE 0
      /\ count'[j] = IF j = key THEN IF ok THEN n + 1 ELSE n
                     ELSE IF Swept(r.now, j) THEN count[j] ELSE 0
  BY DEF Lock
<1>2. /\ r.now \in Nat /\ clock \in Nat /\ r.now <= clock /\ Window \in Nat /\ clock > 0
      /\ resetAt[j] \in Nat /\ count[j] \in Nat /\ resetAt[j] <= clock + Window
  <2>1. r.now \in Nat
    BY BucketType DEF Inv
  <2>2. Window \in Nat \ {0} /\ MaxTime \in Nat /\ clock \in Window .. MaxTime
    BY RateLimiterAssumption DEF Inv, TypeOK, Time
  <2>3. r.now <= clock
    BY DEF Inv, NowInv
  <2>4. resetAt[j] \in Nat /\ count[j] \in Nat /\ resetAt[j] <= clock + Window
    BY DEF Inv, TypeOK, WindowsEnd
  <2> QED
    BY <2>1, <2>2, <2>3, <2>4
<1>3. clock <= resetAt[j] => Swept(r.now, j) /\ ~Expired(r.now, j)
  BY <1>2 DEF Swept, Expired
<1>4. CASE j = key
  <2>1. n \in Nat /\ (clock <= resetAt[j] => ~fresh /\ n = count[j])
    BY <1>2, <1>3, <1>4
  <2>2. count'[j] \in Nat /\ count'[j] >= n
    BY <1>1, <1>4, <2>1
  <2>3. resetAt'[j] = IF fresh THEN r.now + Window ELSE resetAt[j]
    BY <1>1, <1>4
  <2> QED
    BY <1>2, <2>1, <2>2, <2>3
<1>5. CASE j # key
  BY <1>1, <1>2, <1>3, <1>5
<1> QED
  BY <1>4, <1>5

\* The windows after the critical section.
LEMMA LockTypes ==
  ASSUME Inv, NEW c \in Requests, Lock(c)
  PROVE  resetAt' \in [Key -> Nat] /\ count' \in [Key -> Nat]
<1>1. resetAt' = [j \in Key |-> resetAt'[j]] /\ count' = [j \in Key |-> count'[j]]
  BY DEF Lock
<1>2. \A j \in Key : resetAt'[j] \in Nat /\ count'[j] \in Nat
  BY LockWindow
<1> QED
  BY <1>1, <1>2

\* Each step keeps the types and the windows within a minute of the clock.
LEMMA InvStep == Inv /\ [Next]_vars => Inv'
<1> SUFFICES ASSUME Inv, [Next]_vars PROVE Inv'
  OBVIOUS
<1>0. TypeOK /\ NowInv /\ WindowsEnd /\ clock \in Nat /\ Window \in Nat
  BY RateLimiterAssumption DEF Inv, TypeOK, Time
<1>1. CASE Tick
  <2>1. clock' \in Time
    BY <1>0, <1>1, RateLimiterAssumption DEF Tick, TypeOK, Time
  <2>2. TypeOK'
    BY <1>0, <1>1, <2>1 DEF Tick, TypeOK, limiter
  <2>3. lastSweep \in Nat /\ \A c \in Requests : req[c].now \in Nat
    BY <1>0, BucketType DEF TypeOK
  <2>4. NowInv'
    BY <1>0, <1>1, <2>3 DEF Tick, NowInv, limiter
  <2>5. WindowsEnd'
    BY <1>0, <1>1 DEF Tick, WindowsEnd, limiter, TypeOK
  <2> QED
    BY <2>2, <2>4, <2>5 DEF Inv
<1>2. ASSUME NEW l \in AskLimits, SetLimits(l) PROVE Inv'
  BY <1>0, <1>2 DEF SetLimits, Inv, TypeOK, NowInv, WindowsEnd, limiter
<1>3. ASSUME NEW c \in Requests, NEW q \in Request, q.now <= clock,
             req' = [req EXCEPT ![c] = q],
             UNCHANGED <<clock, settings, limiter, passed>>
      PROVE Inv'
  <2>1. TypeOK'
    BY <1>0, <1>3 DEF TypeOK, limiter
  <2>2. NowInv'
    BY <1>0, <1>3 DEF TypeOK, NowInv, limiter
  <2>3. WindowsEnd'
    BY <1>0, <1>3 DEF WindowsEnd, limiter
  <2> QED
    BY <2>1, <2>2, <2>3 DEF Inv
<1>4. ASSUME NEW c \in Requests, NEW e \in Endpoint, NEW s \in Session, NEW l \in Limits,
             Arrive(c, e, s, l)
      PROVE Inv'
  <2> DEFINE q == [pc |-> "arrived", kind |-> e, session |-> s, limits |-> l,
                   stage |-> 1, now |-> 0]
  <2>2. q \in Request /\ q.now <= clock
    BY <1>0, RateLimiterAssumption DEF Request
  <2> QED
    BY <1>3, <1>4, <2>2 DEF Arrive
<1>5. ASSUME NEW c \in Requests, Unlimited(c) PROVE Inv'
  <2>1. req[c] \in Request /\ req[c].now <= clock
    BY <1>0 DEF TypeOK, NowInv
  <2>2. Through(req[c]) \in Request /\ Through(req[c]).now <= clock
    BY <1>0, <2>1, ThroughType
  <2> QED
    BY <1>3, <1>5, <2>2 DEF Unlimited
<1>6. ASSUME NEW c \in Requests, ReadClock(c) PROVE Inv'
  <2> DEFINE q == [req[c] EXCEPT !.pc = "locking", !.now = clock]
  <2>1. req[c] \in Request /\ clock \in 0 .. MaxTime
    BY <1>0 DEF TypeOK, Time
  <2>2. q \in Request /\ q.now <= clock
    <3>1. q.now = clock
      BY <2>1 DEF Request
    <3>2. q \in Request
      BY <2>1 DEF Request
    <3> QED
      BY <1>0, <3>1, <3>2
  <2>3. req' = [req EXCEPT ![c] = q] /\ UNCHANGED <<clock, settings, limiter, passed>>
    BY <1>6 DEF ReadClock
  <2> QED
    BY <1>3, <2>2, <2>3
<1>7. ASSUME NEW c \in Requests, Lock(c) PROVE Inv'
  <2> DEFINE k == KeyOf(req[c])
  <2>1. /\ clock' = clock /\ settings' = settings
        /\ resetAt' \in [Key -> Nat] /\ count' \in [Key -> Nat]
        /\ \A j \in Key : resetAt'[j] <= clock + Window
    <3>1. clock' = clock /\ settings' = settings
      BY <1>7 DEF Lock
    <3> QED
      BY <1>7, <3>1, LockWindow, LockTypes
  <2>2. req[c] \in Request /\ req[c].now <= clock /\ k \in Key
    BY <1>0, BucketType DEF NowInv
  <2>3. PICK q \in Request : q.now <= clock /\ req' = [req EXCEPT ![c] = q]
    BY <1>0, <1>7, <2>2, ThroughType DEF Lock
  <2>4. lastSweep' \in 0 .. MaxTime
    BY <1>0, <1>7, <2>2 DEF Lock, TypeOK, Request
  <2>5. passed' \in [Key -> [Time -> Nat]]
    <3>1. passed[k] \in [Time -> Nat] /\ clock \in Time
      BY <1>0, <2>2 DEF TypeOK
    <3>2. [passed[k] EXCEPT ![clock] = @ + 1] \in [Time -> Nat]
      BY <3>1
    <3>3. passed' = passed
          \/ passed' = [passed EXCEPT ![k] = [passed[k] EXCEPT ![clock] = passed[k][clock] + 1]]
      BY <1>7 DEF Lock
    <3> QED
      BY <1>0, <2>2, <3>2, <3>3 DEF TypeOK
  <2>6. TypeOK'
    BY <1>0, <2>1, <2>3, <2>4, <2>5 DEF TypeOK
  <2>7. NowInv'
    <3>1. lastSweep' <= clock
      BY <1>0, <1>7, <2>2 DEF Lock, NowInv
    <3> QED
      BY <1>0, <2>1, <2>2, <2>3, <3>1 DEF TypeOK, NowInv
  <2>8. WindowsEnd'
    BY <2>1 DEF WindowsEnd
  <2> QED
    BY <2>6, <2>7, <2>8 DEF Inv
<1>8. CASE UNCHANGED vars
  BY <1>0, <1>8 DEF vars, Inv, TypeOK, NowInv, WindowsEnd, limiter
<1> QED
  BY <1>1, <1>2, <1>4, <1>5, <1>6, <1>7, <1>8 DEF Next

\* Windows, requests and the history keep their types.
THEOREM TypeCorrect == Spec => []TypeOK
<1>1. Inv => TypeOK
  BY DEF Inv
<1> QED
  BY <1>1, InvInit, InvStep, PTL DEF Spec

\* Whoever is refused is refused for a minute at most.
THEOREM WindowsEndCorrect == Spec => []WindowsEnd
<1>1. Inv => WindowsEnd
  BY DEF Inv
<1> QED
  BY <1>1, InvInit, InvStep, PTL DEF Spec

\* Neither sweeping nor a slow request ever drops a window before its time.
THEOREM KeptCorrect == Spec => WindowsAreKept
<1> DEFINE Kept == \A k \in Key : clock <= resetAt[k] =>
                     resetAt'[k] = resetAt[k] /\ count'[k] >= count[k]
<1>1. Inv /\ [Next]_vars => [Kept]_vars
  <2> SUFFICES ASSUME Inv, Next PROVE Kept
    OBVIOUS
  <2>1. \A k \in Key : count[k] \in Nat
    BY DEF Inv, TypeOK
  <2>2. CASE UNCHANGED limiter
    BY <2>1, <2>2 DEF limiter
  <2>3. CASE \E c \in Requests : Lock(c)
    BY <2>3, LockWindow
  <2> QED
    BY <2>2, <2>3 DEF Next, Tick, SetLimits, Arrive, Unlimited, ReadClock
<1> QED
  BY <1>1, InvInit, InvStep, PTL DEF Spec, WindowsAreKept

\* A set of numbers that has a bound has a largest one.
LEMMA LargestExists ==
  ASSUME NEW b \in Nat, NEW S, S # {}, S \subseteq 0 .. b
  PROVE  \E n \in S : \A m \in S : m <= n
<1> DEFINE T == {b - n : n \in S}
<1>1. T \subseteq Nat /\ T # {}
  <2>1. \A n \in S : b - n \in Nat
    OBVIOUS
  <2> QED
    BY <2>1, Zenon
<1>2. PICK x \in T : \A y \in T : ~(<<y, x>> \in OpToRel(<, Nat))
  <2> HIDE DEF T
  <2> QED
    BY <1>1, NatLessThanWellFounded, WFMin
<1>3. PICK n \in S : x = b - n
  BY <1>2
<1>4. ASSUME NEW m \in S PROVE m <= n
  <2>1. b - m \in T /\ b - m \in Nat /\ x \in Nat
    BY <1>1, <1>2
  <2>2. ~(b - m < x)
    BY <1>2, <2>1 DEF OpToRel
  <2> QED
    BY <1>3, <2>1, <2>2
<1> QED
  BY <1>4

\* The largest limit of a bucket.
LEMMA CapType ==
  ASSUME NEW k \in Key
  PROVE  /\ CapOf(k) \in Nat
         /\ \A l \in CapsOf(k) : l \in Nat /\ l <= CapOf(k)
<1>1. CapsOf(k) # {} /\ CapsOf(k) \subseteq 0 .. MaxLimit
  BY RateLimiterAssumption DEF CapsOf
<1>2. CapOf(k) \in CapsOf(k) /\ \A m \in CapsOf(k) : m <= CapOf(k)
  <2>1. \E n \in CapsOf(k) : \A m \in CapsOf(k) : m <= n
    BY <1>1, RateLimiterAssumption, LargestExists
  <2> QED
    BY <2>1 DEF CapOf
<1> QED
  BY <1>1, <1>2, RateLimiterAssumption

\* What is recorded of one bucket.
History == [Time -> Nat]

\* A bucket's hits are finitely many.
LEMMA HitsFinite ==
  ASSUME NEW h \in History, NEW T
  PROVE  IsFiniteSet(Hits(h, T)) /\ HitsIn(h, T) \in Nat
<1> DEFINE f == [t \in Time |-> {t} \X (1 .. h[t])]
           F == {{t} \X (1 .. h[t]) : t \in Time}
<1>1. IsFiniteSet(Time)
  BY RateLimiterAssumption, FS_Interval DEF Time
<1>2. f \in Surjection(Time, F)
  BY DEF Surjection
<1>3. IsFiniteSet(F)
  <2> HIDE DEF f, F
  <2> QED
    BY <1>1, <1>2, FS_Surjection
<1>4. ASSUME NEW t \in Time PROVE IsFiniteSet({t} \X (1 .. h[t]))
  <2>1. h[t] \in Nat
    BY DEF History
  <2> DEFINE n == h[t]
  <2>2. IsFiniteSet({t}) /\ IsFiniteSet(1 .. n)
    <3>1. n \in Int /\ 1 \in Int
      BY <2>1
    <3> HIDE DEF n
    <3>2. IsFiniteSet(1 .. n)
      BY <3>1, FS_Interval
    <3> QED
      BY <3>2, FS_Singleton
  <2> QED
    BY <2>2, FS_Product
<1>5. IsFiniteSet(UNION F)
  <2>1. \A A \in F : IsFiniteSet(A)
    BY <1>4
  <2> HIDE DEF F
  <2> QED
    BY <1>3, <2>1, FS_UNION
<1>6. Hits(h, T) \subseteq UNION F
  BY DEF Hits
<1> HIDE DEF F
<1>7. IsFiniteSet(Hits(h, T))
  BY <1>5, <1>6, FS_Subset
<1> QED
  BY <1>7, FS_CardinalityType DEF HitsIn

\* In more time, no fewer hits.
LEMMA HitsMonotone ==
  ASSUME NEW h \in History, NEW S, NEW T, S \cap Time \subseteq T
  PROVE  HitsIn(h, S) <= HitsIn(h, T)
<1>1. Hits(h, S) \subseteq Hits(h, T)
  BY DEF Hits
<1> QED
  BY <1>1, HitsFinite, FS_Subset DEF HitsIn

\* One more hit at time t counts in every interval with t.
LEMMA OneMoreHit ==
  ASSUME NEW h \in History, NEW T, NEW t \in Time,
         NEW g \in History, \A s \in Time : g[s] = IF s = t THEN h[t] + 1 ELSE h[s]
  PROVE  HitsIn(g, T) = IF t \in T THEN HitsIn(h, T) + 1 ELSE HitsIn(h, T)
<1>1. h[t] \in Nat
  BY DEF History
<1>2. \A s \in Time : g[s] = IF s = t THEN h[t] + 1 ELSE h[s]
  OBVIOUS
<1>3. CASE t \notin T
  <2>1. \A s \in T \cap Time : g[s] = h[s]
    BY <1>2, <1>3
  <2>2. Hits(g, T) = Hits(h, T)
    BY <2>1 DEF Hits
  <2> QED
    BY <1>1, <1>3, <2>2 DEF HitsIn
<1>4. CASE t \in T
  <2> DEFINE x == <<t, h[t] + 1>>
  <2>1. x \notin Hits(h, T)
    BY <1>1 DEF Hits
  <2>2. Hits(g, T) = Hits(h, T) \cup {x}
    <3>1. 1 .. (h[t] + 1) = (1 .. h[t]) \cup {h[t] + 1}
      BY <1>1
    <3>2. {t} \X (1 .. g[t]) = ({t} \X (1 .. h[t])) \cup {x}
      BY <1>2, <3>1
    <3>3. \A s \in Time : s # t => g[s] = h[s]
      BY <1>2
    <3>4. ASSUME NEW y PROVE y \in Hits(g, T) <=> y \in Hits(h, T) \cup {x}
      <4>1. y \in Hits(g, T) <=> \E s \in T \cap Time : y \in {s} \X (1 .. g[s])
        BY DEF Hits
      <4>2. y \in Hits(h, T) <=> \E s \in T \cap Time : y \in {s} \X (1 .. h[s])
        BY DEF Hits
      <4> HIDE DEF x
      <4> QED
        BY <1>4, <3>2, <3>3, <4>1, <4>2
    <3> HIDE DEF x
    <3> QED
      BY <3>4
  <2>3. Cardinality(Hits(g, T)) = Cardinality(Hits(h, T)) + 1
    <3> HIDE DEF x
    <3> QED
      BY <2>1, <2>2, HitsFinite, FS_AddElement
  <2> QED
    BY <1>1, <1>4, <2>3 DEF HitsIn
<1> QED
  BY <1>3, <1>4

-----------------------------------------------------------------------------
(* What a bucket lets through.                                             *)

\* A request waits with the limits of its endpoint, or with none.
RequestsOK ==
  \A c \in Requests :
    req[c].limits = <<0, 0>>
    \/ req[c].limits \in (IF req[c].kind = "lead" THEN {LeadLimits} ELSE AskLimits)

\* Nothing was let through after now.
NoFuture == \A k \in Key, t \in Time : t > clock => passed[k][t] = 0

\* A window has not counted more than the limit, nor more than was let through since it
\* opened.
CountInv ==
  \A k \in Key :
    /\ count[k] <= CapOf(k)
    /\ \/ resetAt[k] = 0 /\ count[k] = 0
       \/ /\ resetAt[k] >= Window
          /\ count[k] <= HitsIn(passed[k], (resetAt[k] - Window) .. MaxTime)

\* The requests that read the clock before t and wait for the lock.
Stalled(rs, t) == {c \in Requests : rs[c].pc = "locking" /\ rs[c].now < t}

\* What the windows that have ended or will end account for, from t on: a window that was
\* swept after t took at most the limit with it, and one that opened after t had at most one
\* predecessor that ended after t.
RoomOf(cap, sweep, end, n, t) ==
  (IF sweep > t THEN cap ELSE 0)
  + (IF end < t THEN 0 ELSE IF end < t + Window THEN n ELSE cap + n)

Room(k, t) == RoomOf(CapOf(k), lastSweep, resetAt[k], count[k], t)

\* In the minute from t each hit uses up a waiting request or room in a window.
MinuteInv ==
  \A k \in Key, t \in Time : t <= clock /\ clock <= t + Window =>
    HitsIn(passed[k], t .. (t + Window)) + Cardinality(Stalled(req, t))
      <= Cardinality(Requests) + Room(k, t)

HitInv == /\ Inv /\ RequestsOK /\ NoFuture /\ CountInv /\ MinuteInv
          /\ RateIsBounded /\ RefusedOnlyWhenFull

\* A waiting request is held to a limit its bucket may have.
LEMMA LimitIsCapped ==
  ASSUME Inv, RequestsOK, NEW c \in Requests
  PROVE  LimitOf(req[c]) <= CapOf(KeyOf(req[c]))
<1> DEFINE r == req[c]
           k == KeyOf(r)
<1>1. r \in Request /\ k \in Key /\ LimitOf(r) \in Nat
  BY BucketType DEF Inv
<1>2. CapOf(k) \in Nat /\ \A l \in CapsOf(k) : l <= CapOf(k)
  BY <1>1, CapType
<1>3. r.stage \in {1, 2} /\ r.session # Anyone /\ r.kind \in {"ask", "lead"}
  BY <1>1, RateLimiterAssumption DEF Request
<1>4. k[1] = r.kind /\ (k[2] = Anyone <=> r.stage = 1)
  BY <1>3 DEF KeyOf
<1>5. CASE r.limits = <<0, 0>>
  <2>1. LimitOf(r) = 0
    BY <1>3, <1>5 DEF LimitOf
  <2> QED
    BY <1>2, <2>1
<1>6. CASE r.limits \in (IF r.kind = "lead" THEN {LeadLimits} ELSE AskLimits)
  <2>1. LimitOf(r) \in CapsOf(k)
    BY <1>3, <1>4, <1>6 DEF CapsOf, LimitOf
  <2> QED
    BY <1>2, <2>1
<1> QED
  BY <1>5, <1>6 DEF RequestsOK

\* The critical section of a request at its own bucket: a window holding n hits, new or
\* not, counts d more.
AtBucket(c, k, n, d) ==
  /\ n \in Nat /\ d \in {0, 1}
  /\ count'[k] = n + d
  /\ d = 1 <=> n < LimitOf(req[c])
  /\ req' = [req EXCEPT ![c] = IF d = 1 THEN Through(@) ELSE [@ EXCEPT !.pc = "refused"]]
  /\ passed' = IF d = 1 THEN [passed EXCEPT ![k][clock] = @ + 1] ELSE passed
  /\ \/ /\ resetAt[k] = 0 \/ req[c].now > resetAt[k]
        /\ n = 0 /\ resetAt'[k] = req[c].now + Window
     \/ /\ resetAt[k] # 0 /\ req[c].now <= resetAt[k]
        /\ n = count[k] /\ resetAt'[k] = resetAt[k]

LEMMA LockAtBucket ==
  ASSUME Inv, NEW c \in Requests, Lock(c)
  PROVE  \E n \in Nat, d \in {0, 1} : AtBucket(c, KeyOf(req[c]), n, d)
<1> DEFINE r == req[c]
           k == KeyOf(r)
           fresh == ~Swept(r.now, k) \/ Expired(r.now, k)
           n == IF fresh THEN 0 ELSE count[k]
           ok == n < LimitOf(r)
           d == IF ok THEN 1 ELSE 0
<1>1. k \in Key /\ r.now \in Nat /\ resetAt[k] \in Nat /\ count[k] \in Nat
  BY BucketType DEF Inv, TypeOK
<1>2. n \in Nat /\ d \in {0, 1}
  BY <1>1
<1>3. /\ resetAt'[k] = IF fresh THEN r.now + Window ELSE resetAt[k]
      /\ count'[k] = IF ok THEN n + 1 ELSE n
      /\ req' = [req EXCEPT ![c] = IF ok THEN Through(@) ELSE [@ EXCEPT !.pc = "refused"]]
      /\ passed' = IF ok THEN [passed EXCEPT ![k][clock] = @ + 1] ELSE passed
  BY <1>1 DEF Lock
<1>4. fresh <=> resetAt[k] = 0 \/ r.now > resetAt[k]
  BY <1>1 DEF Swept, Expired
<1>5. d = 1 <=> ok
  OBVIOUS
<1>6. count'[k] = n + d
  BY <1>2, <1>3
<1>7. ~(resetAt[k] = 0 \/ r.now > resetAt[k]) => resetAt[k] # 0 /\ r.now <= resetAt[k]
  BY <1>1
<1>8. AtBucket(c, k, n, d)
  <2> HIDE DEF d
  <2> QED
    BY <1>2, <1>3, <1>4, <1>5, <1>6, <1>7 DEF AtBucket
<1> QED
  BY <1>2, <1>8

\* The critical section at the other buckets: it may sweep their windows.
LEMMA LockElsewhere ==
  ASSUME Inv, NEW c \in Requests, Lock(c), NEW k \in Key, k # KeyOf(req[c])
  PROVE  /\ passed'[k] = passed[k]
         /\ \/ resetAt'[k] = resetAt[k] /\ count'[k] = count[k]
            \/ /\ resetAt'[k] = 0 /\ count'[k] = 0
               /\ resetAt[k] = 0 \/ (Sweeps(req[c].now) /\ req[c].now > resetAt[k])
<1> DEFINE r == req[c]
<1>1. KeyOf(r) \in Key /\ r.now \in Nat /\ resetAt[k] \in Nat
  BY BucketType DEF Inv, TypeOK
<1>2. /\ resetAt'[k] = IF Swept(r.now, k) THEN resetAt[k] ELSE 0
      /\ count'[k] = IF Swept(r.now, k) THEN count[k] ELSE 0
  BY <1>1 DEF Lock
<1>3. passed'[k] = passed[k]
  BY <1>1 DEF Lock, Inv, TypeOK
<1>4. ~Swept(r.now, k) => resetAt[k] = 0 \/ (Sweeps(r.now) /\ r.now > resetAt[k])
  BY <1>1 DEF Swept, Expired
<1> QED
  BY <1>2, <1>3, <1>4

\* What a bucket let through never shrinks, and grows only at the present.
LEMMA HitsGrow ==
  ASSUME Inv, NEW k \in Key, NEW T,
         passed'[k] = passed[k] \/ passed'[k] = [passed[k] EXCEPT ![clock] = @ + 1]
  PROVE  /\ passed[k] \in History /\ passed'[k] \in History
         /\ HitsIn(passed[k], T) \in Nat /\ HitsIn(passed'[k], T) \in Nat
         /\ HitsIn(passed[k], T) <= HitsIn(passed'[k], T)
         /\ clock \notin T => HitsIn(passed'[k], T) = HitsIn(passed[k], T)
         /\ HitsIn(passed'[k], T) <= HitsIn(passed[k], T) + 1
<1>1. passed[k] \in History /\ clock \in Time
  BY DEF Inv, TypeOK, History
<1>2. HitsIn(passed[k], T) \in Nat
  BY <1>1, HitsFinite
<1>3. CASE passed'[k] = passed[k]
  BY <1>1, <1>2, <1>3
<1>4. CASE passed'[k] = [passed[k] EXCEPT ![clock] = @ + 1]
  <2> DEFINE g == passed'[k]
             h == passed[k]
  <2>1. g \in History /\ HitsIn(g, T) = IF clock \in T THEN HitsIn(h, T) + 1 ELSE HitsIn(h, T)
    <3>1. /\ h \in History /\ g \in History
          /\ \A s \in Time : g[s] = IF s = clock THEN h[clock] + 1 ELSE h[s]
      BY <1>1, <1>4 DEF History
    <3> HIDE DEF g, h
    <3> QED
      BY <1>1, <3>1, OneMoreHit
  <2> QED
    BY <1>1, <1>2, <2>1
<1> QED
  BY <1>3, <1>4

\* A bucket that let nothing through in T has no hits in T.
LEMMA NoHits ==
  ASSUME NEW h \in History, NEW T, \A t \in T \cap Time : h[t] = 0
  PROVE  HitsIn(h, T) = 0
<1>1. Hits(h, T) = {}
  BY DEF Hits
<1> QED
  BY <1>1, FS_EmptySet DEF HitsIn

\* The stalled requests are some of the requests.
LEMMA StalledFinite ==
  ASSUME NEW rs, NEW t
  PROVE  /\ IsFiniteSet(Stalled(rs, t)) /\ Cardinality(Stalled(rs, t)) \in Nat
         /\ Cardinality(Requests) \in Nat
         /\ Cardinality(Stalled(rs, t)) <= Cardinality(Requests)
<1>1. Stalled(rs, t) \subseteq Requests
  BY DEF Stalled
<1> QED
  BY <1>1, FS_Subset, FS_CardinalityType, RateLimiterAssumption

\* Once a request no longer stalls there is one stalled request less.
LEMMA StalledShrinks ==
  ASSUME NEW rs, NEW qs, NEW t, NEW c \in Requests,
         \A b \in Requests \ {c} : qs[b] = rs[b], c \notin Stalled(qs, t)
  PROVE  Cardinality(Stalled(qs, t)) = Cardinality(Stalled(rs, t))
                                       - (IF c \in Stalled(rs, t) THEN 1 ELSE 0)
<1>1. Stalled(qs, t) = Stalled(rs, t) \ {c}
  BY DEF Stalled
<1>2. Cardinality(Stalled(rs, t) \ {c}) = IF c \in Stalled(rs, t)
        THEN Cardinality(Stalled(rs, t)) - 1 ELSE Cardinality(Stalled(rs, t))
  BY StalledFinite, FS_RemoveElement
<1> QED
  BY <1>1, <1>2, StalledFinite

\* What a hit or a new window at a bucket does to the room of the minute from t.
LEMMA RoomAtBucket ==
  ASSUME NEW t \in Time, NEW now \in Nat, NEW clk \in Nat, NEW cap \in Nat,
         NEW sweep \in Nat, NEW sweep2 \in Nat, sweep <= sweep2,
         NEW end \in Nat, NEW end2 \in Nat, NEW ct \in Nat, ct <= cap,
         NEW n \in Nat, NEW d \in Nat, now <= clk, clk <= t + Window,
         \/ (end = 0 \/ now > end) /\ n = 0 /\ end2 = now + Window
         \/ end # 0 /\ now <= end /\ n = ct /\ end2 = end,
         d <= 1
  PROVE  RoomOf(cap, sweep, end, ct, t) + d
           <= RoomOf(cap, sweep2, end2, n + d, t) + (IF now < t THEN 1 ELSE 0)
<1>1. t \in Nat /\ t >= Window /\ Window \in Nat \ {0}
  BY RateLimiterAssumption DEF Time
<1>2. CASE (end = 0 \/ now > end) /\ n = 0 /\ end2 = now + Window
  BY <1>1, <1>2 DEF RoomOf
<1>3. CASE end # 0 /\ now <= end /\ n = ct /\ end2 = end
  BY <1>1, <1>3 DEF RoomOf
<1> QED
  BY <1>2, <1>3

\* A sweep gives the room of the minute from t at least what it takes from it.
LEMMA RoomElsewhere ==
  ASSUME NEW t \in Time, NEW now \in Nat, NEW clk \in Nat, NEW cap \in Nat,
         NEW sweep \in Nat, NEW sweep2 \in Nat,
         sweep2 = (IF now >= sweep + Window THEN now ELSE sweep),
         NEW end \in Nat, NEW end2 \in Nat, NEW ct \in Nat, NEW ct2 \in Nat,
         ct <= cap, now <= clk, clk <= t + Window,
         \/ end2 = end /\ ct2 = ct
         \/ /\ end2 = 0 /\ ct2 = 0
            /\ end = 0 \/ (now >= sweep + Window /\ now > end)
  PROVE  RoomOf(cap, sweep, end, ct, t) <= RoomOf(cap, sweep2, end2, ct2, t)
<1>1. t \in Nat /\ t >= Window /\ Window \in Nat \ {0}
  BY RateLimiterAssumption DEF Time
<1> QED
  BY <1>1 DEF RoomOf

\* In one bucket the history either stays or gains a hit at the present.
LEMMA PassedStep ==
  ASSUME Inv, [Next]_vars, NEW k \in Key
  PROVE  passed'[k] = passed[k] \/ passed'[k] = [passed[k] EXCEPT ![clock] = @ + 1]
<1>1. CASE UNCHANGED passed
  BY <1>1
<1>2. ASSUME NEW c \in Requests, Lock(c)
      PROVE passed'[k] = passed[k] \/ passed'[k] = [passed[k] EXCEPT ![clock] = @ + 1]
  <2>1. passed \in [Key -> [Time -> Nat]]
    BY DEF Inv, TypeOK
  <2>2. \/ passed' = passed
        \/ passed' = [passed EXCEPT ![KeyOf(req[c])]
                        = [passed[KeyOf(req[c])] EXCEPT ![clock] = @ + 1]]
    BY <1>2 DEF Lock
  <2> QED
    BY <2>1, <2>2
<1> QED
  BY <1>1, <1>2 DEF Next, vars, Tick, SetLimits, Arrive, Unlimited, ReadClock

\* A request joins with limits of its endpoint, and passes on with the same or as idle.
LEMMA RequestsStep == Inv /\ RequestsOK /\ [Next]_vars => RequestsOK'
<1> SUFFICES ASSUME Inv, RequestsOK, [Next]_vars PROVE RequestsOK'
  OBVIOUS
<1> DEFINE Ok(r) == r.limits = <<0, 0>>
                    \/ r.limits \in (IF r.kind = "lead" THEN {LeadLimits} ELSE AskLimits)
<1>0. /\ req \in [Requests -> Request] /\ settings \in AskLimits
      /\ \A c \in Requests : Ok(req[c])
  BY DEF Inv, TypeOK, RequestsOK
<1>1. ASSUME NEW c \in Requests, NEW q, Ok(q), req' = [req EXCEPT ![c] = q]
      PROVE RequestsOK'
  <2>1. \A b \in Requests : Ok(req'[b])
    BY <1>0, <1>1
  <2> QED
    BY <2>1 DEF RequestsOK
<1>2. \A r \in Request : Ok(r) =>
        Ok(Through(r)) /\ Ok([r EXCEPT !.pc = "refused"])
        /\ Ok([r EXCEPT !.pc = "locking", !.now = clock])
  <2> SUFFICES ASSUME NEW r \in Request, Ok(r)
               PROVE Ok(Through(r)) /\ Ok([r EXCEPT !.pc = "refused"])
                     /\ Ok([r EXCEPT !.pc = "locking", !.now = clock])
    OBVIOUS
  <2>1. CASE r.stage = 1
    BY <2>1 DEF Through, Request
  <2>2. CASE r.stage # 1
    BY <2>2 DEF Through, Request, Idle
  <2> QED
    BY <2>1, <2>2
<1>3. CASE UNCHANGED req
  BY <1>3 DEF RequestsOK
<1>4. ASSUME NEW c \in Requests, NEW e \in Endpoint, NEW s \in Session, NEW l \in Limits,
             Arrive(c, e, s, l)
      PROVE RequestsOK'
  <2> DEFINE q == [pc |-> "arrived", kind |-> e, session |-> s, limits |-> l,
                   stage |-> 1, now |-> 0]
  <2>1. Ok(q)
    BY <1>0, <1>4, RateLimiterAssumption DEF Arrive, AskLimited
  <2> QED
    BY <1>1, <1>4, <2>1 DEF Arrive
<1>5. ASSUME NEW c \in Requests, Unlimited(c) PROVE RequestsOK'
  BY <1>0, <1>1, <1>2, <1>5 DEF Unlimited
<1>6. ASSUME NEW c \in Requests, ReadClock(c) PROVE RequestsOK'
  BY <1>0, <1>1, <1>2, <1>6 DEF ReadClock
<1>7. ASSUME NEW c \in Requests, Lock(c) PROVE RequestsOK'
  <2>1. PICK q : Ok(q) /\ req' = [req EXCEPT ![c] = q]
    BY <1>0, <1>2, <1>7 DEF Lock
  <2> QED
    BY <1>1, <2>1
<1> QED
  BY <1>3, <1>4, <1>5, <1>6, <1>7 DEF Next, vars, Tick, SetLimits

\* Hits are recorded at the present only.
LEMMA NoFutureStep == Inv /\ NoFuture /\ [Next]_vars => NoFuture'
<1> SUFFICES ASSUME Inv, NoFuture, [Next]_vars, NEW k \in Key, NEW t \in Time, t > clock'
             PROVE passed'[k][t] = 0
  BY DEF NoFuture
<1>1. clock \in Nat /\ t \in Nat
  BY RateLimiterAssumption DEF Inv, TypeOK, Time
<1>2. clock' = clock \/ clock' = clock + 1
  BY DEF Next, vars, Tick, SetLimits, Arrive, Unlimited, ReadClock, Lock
<1>3. t > clock /\ t # clock
  BY <1>1, <1>2
<1>4. passed[k] \in [Time -> Nat] /\ passed[k][t] = 0
  BY <1>3 DEF Inv, TypeOK, NoFuture
<1> QED
  BY <1>3, <1>4, PassedStep

\* Windows count hits, each within the limit.
LEMMA CountStep == Inv /\ RequestsOK /\ CountInv /\ [Next]_vars => CountInv'
<1> SUFFICES ASSUME Inv, RequestsOK, CountInv, [Next]_vars, NEW k \in Key
             PROVE /\ count'[k] <= CapOf(k)
                   /\ \/ resetAt'[k] = 0 /\ count'[k] = 0
                      \/ /\ resetAt'[k] >= Window
                         /\ count'[k] <= HitsIn(passed'[k], (resetAt'[k] - Window) .. MaxTime)
  BY DEF CountInv
<1> DEFINE since(end) == (end - Window) .. MaxTime
<1>1. /\ count[k] <= CapOf(k)
      /\ \/ resetAt[k] = 0 /\ count[k] = 0
         \/ resetAt[k] >= Window /\ count[k] <= HitsIn(passed[k], since(resetAt[k]))
  BY DEF CountInv
<1>2. /\ resetAt[k] \in Nat /\ count[k] \in Nat /\ CapOf(k) \in Nat
      /\ Window \in Nat \ {0} /\ MaxTime \in Nat /\ clock \in Nat /\ clock <= MaxTime
      /\ resetAt[k] <= clock + Window
  BY CapType, RateLimiterAssumption DEF Inv, TypeOK, Time, WindowsEnd
<1>3. \A T : /\ passed[k] \in History
             /\ HitsIn(passed[k], T) \in Nat /\ HitsIn(passed'[k], T) \in Nat
             /\ HitsIn(passed[k], T) <= HitsIn(passed'[k], T)
  BY PassedStep, HitsGrow
<1>4. CASE UNCHANGED <<resetAt, count>>
  BY <1>1, <1>2, <1>3, <1>4
<1>5. ASSUME NEW c \in Requests, Lock(c), k # KeyOf(req[c])
      PROVE /\ count'[k] <= CapOf(k)
            /\ \/ resetAt'[k] = 0 /\ count'[k] = 0
               \/ resetAt'[k] >= Window /\ count'[k] <= HitsIn(passed'[k], since(resetAt'[k]))
  BY <1>1, <1>2, <1>5, LockElsewhere
<1>6. ASSUME NEW c \in Requests, Lock(c), k = KeyOf(req[c])
      PROVE /\ count'[k] <= CapOf(k)
            /\ resetAt'[k] >= Window
            /\ count'[k] <= HitsIn(passed'[k], since(resetAt'[k]))
  <2>1. PICK n \in Nat, d \in {0, 1} : AtBucket(c, k, n, d)
    BY <1>6, LockAtBucket
  <2>2. LimitOf(req[c]) \in Nat /\ LimitOf(req[c]) <= CapOf(k)
    BY <1>6, BucketType, LimitIsCapped DEF Inv
  <2>3. n <= CapOf(k)
    BY <1>1, <1>2, <2>1 DEF AtBucket
  <2>4. count'[k] = n + d /\ count'[k] <= CapOf(k)
    BY <1>2, <2>1, <2>2, <2>3 DEF AtBucket
  <2>5. /\ req[c].now \in Nat /\ req[c].now <= clock
        /\ resetAt'[k] \in Nat /\ resetAt'[k] >= Window /\ resetAt'[k] <= clock + Window
    <3>1. req[c].now \in Nat /\ req[c].now <= clock
      BY BucketType DEF Inv, NowInv
    <3> QED
      BY <1>1, <1>2, <2>1, <3>1 DEF AtBucket
  <2>6. n <= HitsIn(passed[k], since(resetAt'[k]))
    <3>1. CASE n = 0
      BY <1>3, <3>1
    <3>2. CASE n # 0
      BY <1>1, <1>2, <2>1, <3>2 DEF AtBucket
    <3> QED
      BY <3>1, <3>2
  <2>7. n + d <= HitsIn(passed'[k], since(resetAt'[k]))
    <3>1. CASE d = 0
      BY <1>3, <2>6, <3>1
    <3>2. CASE d = 1
      <4> DEFINE T == since(resetAt'[k])
      <4>1. clock \in T /\ clock \in Time
        BY <1>2, <2>5 DEF Inv, TypeOK
      <4>2. /\ passed[k] \in History /\ passed'[k] \in History
            /\ \A s \in Time : passed'[k][s] = IF s = clock THEN passed[k][clock] + 1
                                                         ELSE passed[k][s]
        <5>1. passed \in [Key -> [Time -> Nat]]
          BY DEF Inv, TypeOK
        <5>2. passed' = [passed EXCEPT ![k] = [passed[k] EXCEPT ![clock] = passed[k][clock] + 1]]
          BY <2>1, <3>2 DEF AtBucket
        <5> QED
          BY <4>1, <5>1, <5>2 DEF History
      <4>3. HitsIn(passed'[k], T) = HitsIn(passed[k], T) + 1
        <5> HIDE DEF T
        <5> QED
          BY <4>1, <4>2, OneMoreHit
      <4>4. HitsIn(passed[k], T) \in Nat /\ n <= HitsIn(passed[k], T)
        BY <1>3, <2>6
      <4> HIDE DEF T
      <4>5. n + 1 <= HitsIn(passed'[k], T)
        BY <4>3, <4>4
      <4> QED
        BY <3>2, <4>5 DEF T
    <3> QED
      BY <3>1, <3>2
  <2> QED
    BY <2>4, <2>5, <2>7
<1> QED
  BY <1>4, <1>5, <1>6 DEF Next, vars, limiter, Tick, SetLimits, Arrive, Unlimited, ReadClock

\* A minute that has begun: hits and stalled requests stay within requests and room.
LEMMA MinuteStep ==
  ASSUME Inv, RequestsOK, NoFuture, CountInv, MinuteInv, [Next]_vars
  PROVE  MinuteInv'
<1> SUFFICES ASSUME NEW k \in Key, NEW t \in Time, t <= clock', clock' <= t + Window
             PROVE HitsIn(passed'[k], t .. (t + Window)) + Cardinality(Stalled(req', t))
                     <= Cardinality(Requests)
                        + RoomOf(CapOf(k), lastSweep', resetAt'[k], count'[k], t)
  BY DEF MinuteInv, Room
<1> DEFINE T == t .. (t + Window)
           H == HitsIn(passed[k], T)
           HH == HitsIn(passed'[k], T)
           S == Cardinality(Stalled(req, t))
           SS == Cardinality(Stalled(req', t))
           N == Cardinality(Requests)
           R == RoomOf(CapOf(k), lastSweep, resetAt[k], count[k], t)
           RR == RoomOf(CapOf(k), lastSweep', resetAt'[k], count'[k], t)
<1>1. /\ clock \in Nat /\ t \in Nat /\ Window \in Nat \ {0}
      /\ lastSweep \in Nat /\ lastSweep <= clock
      /\ resetAt[k] \in Nat /\ count[k] \in Nat /\ CapOf(k) \in Nat /\ count[k] <= CapOf(k)
      /\ req \in [Requests -> Request]
  BY CapType, RateLimiterAssumption DEF Inv, TypeOK, Time, NowInv, CountInv
<1>2. /\ S \in Nat /\ SS \in Nat /\ N \in Nat /\ SS <= N /\ S <= N
  BY StalledFinite
<1>3. H \in Nat /\ HH \in Nat /\ HH <= H + 1
  BY PassedStep, HitsGrow
<1>4. R \in Nat
  BY <1>1 DEF RoomOf
<1>5. t <= clock /\ clock <= t + Window => H + S <= N + R
  BY DEF MinuteInv, Room
<1>6. CASE Tick
  <2>1. HH = H /\ RR = R /\ SS = S /\ clock' = clock + 1
    BY <1>6 DEF Tick, limiter
  <2>2. CASE t <= clock
    BY <1>1, <1>5, <2>1, <2>2
  <2>3. CASE t = clock + 1
    <3>1. passed[k] \in History /\ \A s \in T \cap Time : passed[k][s] = 0
      BY <1>1, <2>3 DEF Inv, TypeOK, History, NoFuture
    <3>2. H = 0
      <4> HIDE DEF T
      <4> QED
        BY <3>1, NoHits
    <3> QED
      BY <1>2, <1>4, <2>1, <3>2
  <2> QED
    BY <1>1, <2>1, <2>2, <2>3
<1>7. ASSUME NEW c \in Requests, NEW q, ~(q.pc = "locking" /\ q.now < t),
             req' = [req EXCEPT ![c] = q], UNCHANGED <<clock, limiter, passed>>
      PROVE HH + SS <= N + RR
  <2>1. HH = H /\ RR = R /\ H + S <= N + R
    BY <1>5, <1>7 DEF limiter
  <2>2. c \notin Stalled(req', t) /\ \A b \in Requests \ {c} : req'[b] = req[b]
    BY <1>1, <1>7 DEF Stalled
  <2>3. SS <= S
    <3>1. SS = S - (IF c \in Stalled(req, t) THEN 1 ELSE 0)
      BY <2>2, StalledShrinks
    <3> QED
      BY <1>2, <3>1
  <2> QED
    BY <1>2, <1>3, <1>4, <2>1, <2>3
<1>8. CASE UNCHANGED <<clock, limiter, req, passed>>
  BY <1>5, <1>8 DEF limiter
<1>9. ASSUME NEW c \in Requests, NEW e \in Endpoint, NEW s \in Session, NEW l \in Limits,
             Arrive(c, e, s, l)
      PROVE HH + SS <= N + RR
  BY <1>7, <1>9 DEF Arrive
<1>10. \A r \in Request : Through(r).pc # "locking"
                          /\ [r EXCEPT !.pc = "refused"].pc # "locking"
  BY DEF Through, Request, Idle
<1>11. ASSUME NEW c \in Requests, Unlimited(c) PROVE HH + SS <= N + RR
  <2>1. Through(req[c]).pc # "locking"
    BY <1>1, <1>10
  <2> QED
    BY <1>7, <1>11, <2>1 DEF Unlimited
<1>12. ASSUME NEW c \in Requests, ReadClock(c) PROVE HH + SS <= N + RR
  <2> DEFINE q == [req[c] EXCEPT !.pc = "locking", !.now = clock]
  <2>1. q.now = clock
    BY <1>1 DEF Request
  <2>2. ~(q.now < t)
    BY <1>1, <1>12, <2>1 DEF ReadClock
  <2>3. req' = [req EXCEPT ![c] = q] /\ UNCHANGED <<clock, limiter, passed>>
    BY <1>12 DEF ReadClock
  <2> HIDE DEF q
  <2> QED
    BY <1>7, <2>2, <2>3
<1>13. ASSUME NEW c \in Requests, Lock(c) PROVE HH + SS <= N + RR
  <2> DEFINE late == IF req[c].now < t THEN 1 ELSE 0
  <2>1. /\ clock' = clock /\ t <= clock /\ clock <= t + Window /\ H + S <= N + R
        /\ req[c].pc = "locking"
        /\ lastSweep' = IF req[c].now >= lastSweep + Window THEN req[c].now ELSE lastSweep
    BY <1>5, <1>13 DEF Lock, Sweeps
  <2>2. req[c].now \in Nat /\ req[c].now <= clock /\ KeyOf(req[c]) \in Key
    BY BucketType DEF Inv, NowInv
  <2>3. /\ lastSweep' \in Nat /\ lastSweep <= lastSweep'
        /\ resetAt'[k] \in Nat /\ count'[k] \in Nat
    <3>1. resetAt'[k] \in Nat /\ count'[k] \in Nat
      BY <1>13, LockWindow
    <3> QED
      BY <1>1, <2>1, <2>2, <3>1
  <2>4. SS = S - late
    <3>1. \A b \in Requests \ {c} : req'[b] = req[b]
      BY <1>1, <1>13 DEF Lock
    <3>2. req'[c].pc # "locking"
      BY <1>1, <1>10, <1>13 DEF Lock
    <3>3. c \notin Stalled(req', t) /\ (c \in Stalled(req, t) <=> req[c].now < t)
      BY <2>1, <3>2 DEF Stalled
    <3> QED
      BY <3>1, <3>3, StalledShrinks
  <2>5. CASE k = KeyOf(req[c])
    <3>1. PICK n \in Nat, d \in {0, 1} : AtBucket(c, k, n, d)
      BY <1>13, <2>5, LockAtBucket
    <3>2. R + d <= RR + late
      <4>1. /\ count'[k] = n + d
            /\ \/ /\ resetAt[k] = 0 \/ req[c].now > resetAt[k]
                  /\ n = 0 /\ resetAt'[k] = req[c].now + Window
               \/ /\ resetAt[k] # 0 /\ req[c].now <= resetAt[k]
                  /\ n = count[k] /\ resetAt'[k] = resetAt[k]
        BY <3>1 DEF AtBucket
      <4>2. d \in Nat /\ d <= 1
        OBVIOUS
      <4>3. RoomOf(CapOf(k), lastSweep, resetAt[k], count[k], t) + d
              <= RoomOf(CapOf(k), lastSweep', resetAt'[k], n + d, t) + late
        <5> DEFINE cap == CapOf(k)  end == resetAt[k]  end2 == resetAt'[k]
                   ct == count[k]  now == req[c].now  sweep2 == lastSweep'
        <5>1. /\ now \in Nat /\ clock \in Nat /\ cap \in Nat /\ lastSweep \in Nat
              /\ sweep2 \in Nat /\ lastSweep <= sweep2 /\ end \in Nat /\ end2 \in Nat
              /\ ct \in Nat /\ ct <= cap /\ now <= clock /\ clock <= t + Window
              /\ \/ (end = 0 \/ now > end) /\ n = 0 /\ end2 = now + Window
                 \/ end # 0 /\ now <= end /\ n = ct /\ end2 = end
          BY <1>1, <2>1, <2>2, <2>3, <4>1
        <5> HIDE DEF cap, end, end2, ct, now, sweep2
        <5>2. RoomOf(cap, lastSweep, end, ct, t) + d
                <= RoomOf(cap, sweep2, end2, n + d, t) + (IF now < t THEN 1 ELSE 0)
          BY <4>2, <5>1, RoomAtBucket, ZenonT(60)
        <5> QED
          BY <5>2 DEF cap, end, end2, ct, now, sweep2
      <4> QED
        BY <4>1, <4>3
    <3>3. HH <= H + d
      <4>1. CASE d = 0
        <5>1. passed' = passed
          BY <3>1, <4>1 DEF AtBucket
        <5> QED
          BY <1>3, <4>1, <5>1
      <4>2. CASE d = 1
        BY <1>3, <4>2
      <4> QED
        BY <4>1, <4>2
    <3>4. RR \in Nat /\ late \in Nat /\ d \in Nat
      BY <1>1, <2>3 DEF RoomOf
    <3> HIDE DEF HH, H, SS, S, N, RR, R, late
    <3> QED
      BY <1>2, <1>3, <1>4, <2>1, <2>4, <3>2, <3>3, <3>4
  <2>6. CASE k # KeyOf(req[c])
    <3>1. /\ passed'[k] = passed[k]
          /\ \/ resetAt'[k] = resetAt[k] /\ count'[k] = count[k]
             \/ /\ resetAt'[k] = 0 /\ count'[k] = 0
                /\ \/ resetAt[k] = 0
                   \/ req[c].now >= lastSweep + Window /\ req[c].now > resetAt[k]
      BY <1>13, <2>6, LockElsewhere DEF Sweeps
    <3>2. R <= RR
      BY <1>1, <2>1, <2>2, <2>3, <3>1, RoomElsewhere
    <3>3. HH = H
      BY <3>1
    <3>4. RR \in Nat /\ late \in Nat
      BY <1>1, <2>3 DEF RoomOf
    <3> HIDE DEF HH, H, SS, S, N, RR, R, late
    <3> QED
      BY <1>2, <1>3, <1>4, <2>1, <2>4, <3>2, <3>3, <3>4
  <2> QED
    BY <2>5, <2>6
<1> QED
  BY <1>6, <1>8, <1>9, <1>11, <1>12, <1>13 DEF Next, vars, SetLimits

\* While the minute runs the room is at most three limits; afterwards it has no more hits.
LEMMA RateStep ==
  ASSUME Inv, RequestsOK, NoFuture, CountInv, MinuteInv, RateIsBounded, [Next]_vars,
         MinuteInv', CountInv', NoFuture', Inv'
  PROVE  RateIsBounded'
<1> SUFFICES ASSUME NEW k \in Key, NEW t \in Time
             PROVE HitsIn(passed'[k], t .. (t + Window)) <= 3 * CapOf(k) + Cardinality(Requests)
  BY DEF RateIsBounded
<1> DEFINE T == t .. (t + Window)
           HH == HitsIn(passed'[k], T)
<1>1. clock \in Nat /\ clock' \in Nat /\ t \in Nat /\ Window \in Nat \ {0} /\ CapOf(k) \in Nat
  BY CapType, RateLimiterAssumption DEF Inv, TypeOK, Time
<1>2. Cardinality(Requests) \in Nat /\ Cardinality(Stalled(req', t)) \in Nat
  BY StalledFinite
<1>3. HH \in Nat /\ passed'[k] \in History
  BY PassedStep, HitsGrow
<1>4. CASE t > clock'
  <2>1. \A s \in T \cap Time : passed'[k][s] = 0
    BY <1>1, <1>4, RateLimiterAssumption DEF NoFuture, Time
  <2>2. HH = 0
    <3> HIDE DEF T
    <3> QED
      BY <1>3, <2>1, NoHits
  <2> HIDE DEF HH
  <2>3. HH <= 3 * CapOf(k) + Cardinality(Requests)
    BY <1>1, <1>2, <2>2
  <2> QED
    BY <2>3 DEF HH
<1>5. CASE t <= clock' /\ clock' <= t + Window
  <2> DEFINE RR == RoomOf(CapOf(k), lastSweep', resetAt'[k], count'[k], t)
  <2>1. HH + Cardinality(Stalled(req', t)) <= Cardinality(Requests) + RR
    BY <1>5 DEF MinuteInv, Room
  <2>2. count'[k] \in Nat /\ count'[k] <= CapOf(k)
    BY DEF CountInv, Inv, TypeOK
  <2>3. RR \in Nat /\ RR <= 3 * CapOf(k)
    BY <1>1, <2>2 DEF RoomOf
  <2> HIDE DEF HH, RR
  <2>4. HH <= 3 * CapOf(k) + Cardinality(Requests)
    BY <1>1, <1>2, <1>3, <2>1, <2>3
  <2> QED
    BY <2>4 DEF HH
<1>6. CASE clock' > t + Window
  <2>1. HH = HitsIn(passed[k], T)
    <3>1. CASE UNCHANGED passed
      BY <3>1
    <3>2. CASE clock' = clock
      <4>1. clock \notin T
        BY <1>1, <1>6, <3>2
      <4> QED
        BY <4>1, PassedStep, HitsGrow
    <3> QED
      BY <3>1, <3>2 DEF Next, vars, Tick, SetLimits, Arrive, Unlimited, ReadClock, Lock
  <2> QED
    BY <2>1 DEF RateIsBounded
<1> QED
  BY <1>1, <1>4, <1>5, <1>6

\* A request refused on some window has that window's hits to show for it.
LEMMA RefusedStep ==
  ASSUME Inv, RequestsOK, CountInv, CountInv', Inv', RefusedOnlyWhenFull, [Next]_vars
  PROVE  RefusedOnlyWhenFull'
<1> DEFINE Full(r, h) == \E from \in 0 .. r.now : /\ from + Window >= r.now
                                                  /\ HitsIn(h, from .. MaxTime) >= LimitOf(r)
<1> SUFFICES ASSUME NEW b \in Requests, req'[b].pc = "refused"
             PROVE Full(req'[b], passed'[KeyOf(req'[b])])
  BY DEF RefusedOnlyWhenFull
<1>1. req \in [Requests -> Request] /\ Window \in Nat \ {0} /\ MaxTime \in Nat /\ clock \in Nat
  BY RateLimiterAssumption DEF Inv, TypeOK, Time
<1>2. \A r \in Request : Through(r).pc # "refused"
  BY DEF Through, Request, Idle
<1>3. CASE req'[b] = req[b]
  <2> DEFINE r == req[b]
             k == KeyOf(r)
  <2>1. /\ k \in Key /\ LimitOf(r) \in Nat /\ r.now \in Nat
    BY BucketType DEF Inv
  <2>2. PICK from \in 0 .. r.now : /\ from + Window >= r.now
                                   /\ HitsIn(passed[k], from .. MaxTime) >= LimitOf(r)
    BY <1>3 DEF RefusedOnlyWhenFull
  <2>3. /\ HitsIn(passed[k], from .. MaxTime) \in Nat
        /\ HitsIn(passed'[k], from .. MaxTime) \in Nat
        /\ HitsIn(passed[k], from .. MaxTime) <= HitsIn(passed'[k], from .. MaxTime)
    BY <2>1, PassedStep, HitsGrow
  <2>4. HitsIn(passed'[k], from .. MaxTime) >= LimitOf(r)
    BY <2>1, <2>2, <2>3
  <2> QED
    BY <1>3, <2>2, <2>4
<1>4. ASSUME NEW c \in Requests, NEW q, q.pc # "refused", req' = [req EXCEPT ![c] = q]
      PROVE req'[b] = req[b]
  BY <1>1, <1>4
<1>5. ASSUME NEW c \in Requests, Lock(c), req'[b] # req[b]
      PROVE Full(req'[b], passed'[KeyOf(req'[b])])
  <2> DEFINE r == req[b]
             k == KeyOf(r)
             now == req[b].now
             end == resetAt'[k]
             from == IF end <= now + Window THEN end - Window ELSE now
  <2>1. b = c
    BY <1>1, <1>5 DEF Lock
  <2>2. PICK n \in Nat, d \in {0, 1} : AtBucket(b, k, n, d)
    BY <1>5, <2>1, LockAtBucket
  <2>3. d = 0 /\ req'[b] = [r EXCEPT !.pc = "refused"]
    BY <1>1, <1>2, <2>2 DEF AtBucket
  <2>4. r \in Request /\ k \in Key /\ LimitOf(r) \in Nat /\ now \in Nat
    BY BucketType DEF Inv
  <2>5. LimitOf(r) <= n /\ count'[k] = n
    BY <2>2, <2>3, <2>4 DEF AtBucket
  <2>6. KeyOf(req'[b]) = k /\ LimitOf(req'[b]) = LimitOf(r) /\ req'[b].now = now
    BY <2>3, <2>4 DEF KeyOf, LimitOf, Request
  <2>7. /\ end \in Nat /\ now <= end
        /\ end >= Window /\ n <= HitsIn(passed'[k], (end - Window) .. MaxTime)
    <3>1. end = now + Window \/ (end = resetAt[k] /\ resetAt[k] # 0 /\ now <= end)
      BY <2>2 DEF AtBucket
    <3>2. resetAt[k] \in Nat
      BY <2>4 DEF Inv, TypeOK
    <3>3. end \in Nat /\ now <= end /\ end # 0
      BY <1>1, <2>4, <3>1, <3>2
    <3>4. \/ end = 0 /\ count'[k] = 0
          \/ end >= Window /\ count'[k] <= HitsIn(passed'[k], (end - Window) .. MaxTime)
      BY <2>4 DEF CountInv
    <3> HIDE DEF end
    <3> QED
      BY <2>5, <3>3, <3>4
  <2>8. from \in 0 .. now /\ from + Window >= now /\ from <= end - Window
    <3> HIDE DEF end, now
    <3> QED
      BY <1>1, <2>4, <2>7
  <2>9. /\ HitsIn(passed'[k], from .. MaxTime) \in Nat
        /\ HitsIn(passed'[k], (end - Window) .. MaxTime) \in Nat
        /\ HitsIn(passed'[k], (end - Window) .. MaxTime) <= HitsIn(passed'[k], from .. MaxTime)
    <3>1. passed'[k] \in History
      BY <2>4, PassedStep, HitsGrow
    <3>2. ((end - Window) .. MaxTime) \cap Time \subseteq from .. MaxTime
      <4> HIDE DEF from, end, now
      <4> QED
        BY <1>1, <2>4, <2>7, <2>8
    <3> QED
      BY <3>1, <3>2, HitsFinite, HitsMonotone
  <2>10. HitsIn(passed'[k], from .. MaxTime) >= LimitOf(r)
    <3> HIDE DEF from, end, now, k, r
    <3> QED
      BY <2>4, <2>5, <2>7, <2>9
  <2> HIDE DEF from, end
  <2> QED
    BY <2>6, <2>8, <2>10
<1>6. CASE UNCHANGED req
  BY <1>3, <1>6
<1>7. ASSUME NEW c \in Requests, NEW e \in Endpoint, NEW s \in Session, NEW l \in Limits,
             Arrive(c, e, s, l)
      PROVE req'[b] = req[b]
  BY <1>4, <1>7 DEF Arrive
<1>8. ASSUME NEW c \in Requests, Unlimited(c) PROVE req'[b] = req[b]
  <2>1. Through(req[c]).pc # "refused"
    BY <1>1, <1>2
  <2> QED
    BY <1>4, <1>8, <2>1 DEF Unlimited
<1>9. ASSUME NEW c \in Requests, ReadClock(c) PROVE req'[b] = req[b]
  <2> DEFINE q == [req[c] EXCEPT !.pc = "locking", !.now = clock]
  <2>1. q.pc # "refused" /\ req' = [req EXCEPT ![c] = q]
    BY <1>1, <1>9 DEF ReadClock, Request
  <2> HIDE DEF q
  <2> QED
    BY <1>4, <2>1
<1> QED
  BY <1>3, <1>5, <1>6, <1>7, <1>8, <1>9 DEF Next, vars, Tick, SetLimits

\* No hits and nobody refused at the start.
LEMMA HitInit == Init => HitInv
<1> SUFFICES ASSUME Init PROVE HitInv
  OBVIOUS
<1>1. Inv
  BY InvInit
<1>2. RequestsOK
  BY DEF Init, Idle, RequestsOK
<1>3. /\ clock \in Nat /\ \A k \in Key : passed[k] \in History /\ \A t \in Time : passed[k][t] = 0
      /\ Window \in Nat \ {0} /\ lastSweep = 0
      /\ \A k \in Key : resetAt[k] = 0 /\ count[k] = 0
      /\ \A c \in Requests : req[c].pc = "idle"
  BY RateLimiterAssumption DEF Init, Time, History, Idle
<1>4. NoFuture
  BY <1>3 DEF NoFuture
<1>5. CountInv
  BY <1>3, CapType DEF CountInv
<1>6. \A k \in Key : \A T : HitsIn(passed[k], T) = 0
  BY <1>3, NoHits
<1>7. MinuteInv
  <2> SUFFICES ASSUME NEW k \in Key, NEW t \in Time
               PROVE HitsIn(passed[k], t .. (t + Window)) + Cardinality(Stalled(req, t))
                       <= Cardinality(Requests) + Room(k, t)
    BY DEF MinuteInv
  <2>1. Room(k, t) \in Nat
    BY <1>3, CapType DEF Room, RoomOf, Time
  <2> QED
    BY <1>6, <2>1, StalledFinite
<1>8. RateIsBounded
  <2>1. \A k \in Key : CapOf(k) \in Nat
    BY CapType
  <2>2. Cardinality(Requests) \in Nat
    BY RateLimiterAssumption, FS_CardinalityType
  <2> QED
    BY <1>6, <2>1, <2>2 DEF RateIsBounded
<1>9. RefusedOnlyWhenFull
  BY <1>3 DEF RefusedOnlyWhenFull
<1> QED
  BY <1>1, <1>2, <1>4, <1>5, <1>7, <1>8, <1>9 DEF HitInv

\* All of it together is inductive.
LEMMA HitStep == HitInv /\ [Next]_vars => HitInv'
<1> SUFFICES ASSUME HitInv, [Next]_vars PROVE HitInv'
  OBVIOUS
<1>1. Inv' /\ RequestsOK' /\ NoFuture' /\ CountInv'
  BY InvStep, RequestsStep, NoFutureStep, CountStep DEF HitInv
<1>2. MinuteInv'
  BY MinuteStep DEF HitInv
<1>3. RateIsBounded'
  BY <1>1, <1>2, RateStep DEF HitInv
<1>4. RefusedOnlyWhenFull'
  BY <1>1, RefusedStep DEF HitInv
<1> QED
  BY <1>1, <1>2, <1>3, <1>4 DEF HitInv

\* No minute lets more through than three limits and the requests that waited for the
\* lock when it began, whatever is swept, saved or delayed.
THEOREM RateCorrect == Spec => []RateIsBounded
<1>1. HitInv => RateIsBounded
  BY DEF HitInv
<1> QED
  BY <1>1, HitInit, HitStep, PTL DEF Spec

\* Nobody is refused for hits that were not let through in the last minute.
THEOREM RefusalsCorrect == Spec => []RefusedOnlyWhenFull
<1>1. HitInv => RefusedOnlyWhenFull
  BY DEF HitInv
<1> QED
  BY <1>1, HitInit, HitStep, PTL DEF Spec
=============================================================================
