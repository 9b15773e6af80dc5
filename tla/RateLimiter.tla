----------------------------- MODULE RateLimiter -----------------------------
(***************************************************************************)
(* The in-memory rate limiter (internal/webapi/ratelimit.go) and the two   *)
(* endpoints that pass through it: /ask and /lead (internal/webapi/api.go).*)
(* A request is let through by the bucket of its business, then by the one *)
(* of its visitor.  allow reads the clock before it takes the lock.        *)
(*                                                                         *)
(* Abstracted: what the endpoints do once they are let through; one        *)
(* business (every key carries its id).  Names ending in _<Fault> are      *)
(* faulty variants, as in Inbox.                                           *)
(***************************************************************************)
EXTENDS Naturals, FiniteSets

CONSTANTS
  Endpoint,      \* the endpoints in use, of "ask" and "lead"
  Requests,      \* requests in progress at a time
  Session,       \* widget sessions; requests without one share "anon"
  Anyone,        \* the session field of a business's own bucket
  AskLimits,     \* the <<global, visitor>> limits the settings may hold
  MaxLimit,      \* the largest int a limit may be
  LeadLimits,    \* <<leadGlobalPerMin, leadPerMin>>
  Window,        \* time.Minute, in ticks
  MaxTime,       \* bound on the clock
  Stalls,        \* may the clock tick between reading it and taking the lock?
  SettingsFail   \* may SettingsFor fail?

Key == Endpoint \X (Session \cup {Anyone})
Limits == AskLimits \cup {LeadLimits, <<0, 0>>}

ASSUME RateLimiterAssumption ==
  /\ MaxLimit \in Nat
  /\ AskLimits \subseteq (0 .. MaxLimit) \X (0 .. MaxLimit) /\ AskLimits # {}
  /\ LeadLimits \in (0 .. MaxLimit) \X (0 .. MaxLimit)
  /\ Session # {} /\ IsFiniteSet(Requests)
  /\ Endpoint \subseteq {"ask", "lead"} /\ Endpoint # {}
  /\ Window \in Nat \ {0}
  /\ MaxTime \in Nat /\ MaxTime >= Window
  /\ Anyone \notin Session
  /\ Stalls \in BOOLEAN /\ SettingsFail \in BOOLEAN

VARIABLES
  clock,
  settings,   \* the business's current ask limits
  resetAt,    \* windows[key].resetAt; 0 when the map has no such key
  count,      \* windows[key].count
  lastSweep,
  req,        \* the requests in progress
  passed      \* history: hits counted and let through, by key and time

limiter == <<resetAt, count, lastSweep>>
vars == <<clock, settings, limiter, req, passed>>

Time == Window .. MaxTime

Request == [pc : {"idle", "arrived", "locking", "refused"}, kind : Endpoint,
            session : Session, limits : Limits, stage : {1, 2}, now : 0 .. MaxTime]

Idle == [pc |-> "idle", kind |-> CHOOSE e \in Endpoint : TRUE, limits |-> <<0, 0>>,
         session |-> CHOOSE s \in Session : TRUE, stage |-> 1, now |-> 0]

\* The first call finds lastSweep at the zero time, a minute or more ago.
Init == /\ clock = Window
        /\ settings \in AskLimits
        /\ resetAt = [k \in Key |-> 0]
        /\ count = [k \in Key |-> 0]
        /\ lastSweep = 0
        /\ req = [c \in Requests |-> Idle]
        /\ passed = [k \in Key |-> [t \in Time |-> 0]]

Tick == /\ clock < MaxTime
        /\ Stalls \/ \A c \in Requests : req[c].pc # "locking"
        /\ clock' = clock + 1
        /\ UNCHANGED <<settings, limiter, req, passed>>

\* An editor saves other limits; requests read them when they arrive.
SetLimits(l) == /\ settings' = l
                /\ UNCHANGED <<clock, limiter, req, passed>>

\* handleAsk drops the error of SettingsFor and uses its zero value.
AskLimited(l) == l = settings \/ (SettingsFail /\ l = <<0, 0>>)

\* A question, or a contact form, comes in; only the limits differ.
Arrive(c, e, s, l) ==
  /\ req[c].pc \in {"idle", "refused"}
  /\ IF e = "ask" THEN AskLimited(l) ELSE l = LeadLimits
  /\ req' = [req EXCEPT ![c] = [pc |-> "arrived", kind |-> e, session |-> s,
                                limits |-> l, stage |-> 1, now |-> 0]]
  /\ UNCHANGED <<clock, settings, limiter, passed>>

KeyOf(r) == <<r.kind, IF r.stage = 1 THEN Anyone ELSE r.session>>
LimitOf(r) == r.limits[r.stage]

Through_NoEnd(r) == [r EXCEPT !.pc = "arrived", !.stage = @ + 1]

\* A bucket lets the request through to the next one, or to the endpoint.
Through(r) == IF r.stage = 1 THEN [r EXCEPT !.pc = "arrived", !.stage = 2]
              ELSE Idle

\* A limit of zero is no limit, and its hits are not counted.
Unlimited(c) ==
  /\ req[c].pc = "arrived" /\ LimitOf(req[c]) = 0
  /\ req' = [req EXCEPT ![c] = Through(@)]
  /\ UNCHANGED <<clock, settings, limiter, passed>>

ReadClock(c) ==
  /\ req[c].pc = "arrived" /\ LimitOf(req[c]) > 0
  /\ req' = [req EXCEPT ![c] = [@ EXCEPT !.pc = "locking", !.now = clock]]
  /\ UNCHANGED <<clock, settings, limiter, passed>>

Sweeps(now) == now >= lastSweep + Window

Expired_AnyAge(now, k) == now >= lastSweep
Expired(now, k) == now > resetAt[k]

\* What sweep leaves of a window.
Swept(now, k) == ~(Sweeps(now) /\ Expired(now, k)) /\ resetAt[k] # 0

Lock_KeepsCount(c) ==
  LET r == req[c]  k == KeyOf(r)
      fresh == ~Swept(r.now, k) \/ Expired(r.now, k)
      ok == count[k] < LimitOf(r)
  IN /\ r.pc = "locking"
     /\ lastSweep' = IF Sweeps(r.now) THEN r.now ELSE lastSweep
     /\ resetAt' = [j \in Key |-> IF j = k /\ fresh THEN r.now + Window ELSE resetAt[j]]
     /\ count' = [j \in Key |-> IF j = k /\ ok THEN count[j] + 1 ELSE count[j]]
     /\ req' = [req EXCEPT ![c] = IF ok THEN Through(@) ELSE [@ EXCEPT !.pc = "refused"]]
     /\ passed' = IF ok THEN [passed EXCEPT ![k][clock] = @ + 1] ELSE passed
     /\ UNCHANGED <<clock, settings>>

\* The rest of allow, under the lock: sweep, find or open the window, count.
Lock(c) ==
  LET r == req[c]  k == KeyOf(r)
      fresh == ~Swept(r.now, k) \/ Expired(r.now, k)
      n == IF fresh THEN 0 ELSE count[k]
      ok == n < LimitOf(r)
  IN /\ r.pc = "locking"
     /\ lastSweep' = IF Sweeps(r.now) THEN r.now ELSE lastSweep
     /\ resetAt' = [j \in Key |-> IF j = k THEN IF fresh THEN r.now + Window ELSE resetAt[j]
                                  ELSE IF Swept(r.now, j) THEN resetAt[j] ELSE 0]
     /\ count' = [j \in Key |-> IF j = k THEN IF ok THEN n + 1 ELSE n
                                ELSE IF Swept(r.now, j) THEN count[j] ELSE 0]
     /\ req' = [req EXCEPT ![c] = IF ok THEN Through(@) ELSE [@ EXCEPT !.pc = "refused"]]
     /\ passed' = IF ok THEN [passed EXCEPT ![k][clock] = @ + 1] ELSE passed
     /\ UNCHANGED <<clock, settings>>

Next == \/ Tick
        \/ \E l \in AskLimits : SetLimits(l)
        \/ \E c \in Requests :
             \/ \E e \in Endpoint, s \in Session, l \in Limits : Arrive(c, e, s, l)
             \/ Unlimited(c) \/ ReadClock(c) \/ Lock(c)

Spec == Init /\ [][Next]_vars

-----------------------------------------------------------------------------
(* Properties.                                                             *)

\* Windows, requests and the history have their types.
TypeOK ==
  /\ clock \in Time
  /\ settings \in AskLimits
  /\ resetAt \in [Key -> Nat]
  /\ count \in [Key -> Nat]
  /\ lastSweep \in 0 .. MaxTime
  /\ req \in [Requests -> Request]
  /\ passed \in [Key -> [Time -> Nat]]

\* A window that has not run out is never forgotten, restarted or emptied, by a
\* sweep or by a request that read the clock long ago.
WindowsAreKept ==
  [][\A k \in Key : clock <= resetAt[k] =>
       resetAt'[k] = resetAt[k] /\ count'[k] >= count[k]]_vars

\* No window reaches further than a minute ahead, so nobody stays refused.
WindowsEnd == \A k \in Key : resetAt[k] <= clock + Window

\* The hits a bucket's history has in the times T: the i-th at a time t is <<t, i>>.
Hits(history, T) == UNION {{t} \X (1 .. history[t]) : t \in T \cap Time}

HitsIn(history, T) == Cardinality(Hits(history, T))

\* The limits the settings allow for a bucket, and the largest of them.
CapsOf(k) == LET stage == IF k[2] = Anyone THEN 1 ELSE 2
             IN {l[stage] : l \in IF k[1] = "lead" THEN {LeadLimits} ELSE AskLimits}

CapOf(k) == CHOOSE n \in CapsOf(k) : \A m \in CapsOf(k) : m <= n

\* What a bucket lets through in a minute, whatever windows, sweeps and settings do in
\* between: the requests that were waiting for the lock when that minute began, and three
\* times its limit.  Two would be what fixed windows give; the third is that of a window a
\* waiting request opens, with its old clock reading, in place of one that was swept.
RateIsBounded ==
  \A k \in Key, t \in Time :
    HitsIn(passed[k], t .. (t + Window)) <= 3 * CapOf(k) + Cardinality(Requests)

\* A request is refused only if its bucket let its whole limit through within
\* the minute before the request read the clock, or since.
RefusedOnlyWhenFull ==
  \A c \in Requests : LET r == req[c] IN
    r.pc = "refused" =>
      \E from \in 0 .. r.now : /\ from + Window >= r.now
                               /\ HitsIn(passed[KeyOf(r)], from .. MaxTime) >= LimitOf(r)

\* "Falls back to defaults if settings can't be loaded" (api.go:246-247): a
\* question goes past a bucket only if the settings do not limit it.
AsksAreLimited ==
  [][\A c \in Requests : Unlimited(c) /\ req[c].kind = "ask" =>
       req[c].limits \in AskLimits]_vars
=============================================================================
