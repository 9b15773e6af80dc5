-------------------------------- MODULE Chain --------------------------------
(***************************************************************************)
(* The chain of AI providers with a circuit breaker each                   *)
(* (internal/ai/chain.go).  Requests walk the chain concurrently; a call   *)
(* to a provider takes time, and other requests record their results on    *)
(* the same breaker while it is out.                                       *)
(*                                                                         *)
(* Abstracted: prompts and answers.  Reading the clock and taking the      *)
(* breaker's lock are one step.  Names ending in _<Fault> are faulty       *)
(* variants, as in Inbox.                                                  *)
(***************************************************************************)
EXTENDS Naturals

CONSTANTS
  NumProviders,  \* providers in cost order
  Requests,      \* callers of GenerateReply
  MaxFailures,   \* defaultMaxFailures
  Cooldown,      \* defaultCooldown, in ticks
  MaxTime,       \* bound on the clock
  Cancels        \* may a caller's context be cancelled?

Provider == 1 .. NumProviders

ASSUME ChainAssumption ==
  /\ NumProviders \in Nat
  /\ MaxFailures \in Nat \ {0}
  /\ Cooldown \in Nat \ {0}
  /\ MaxTime \in Nat \ {0}
  /\ Cancels \in BOOLEAN

VARIABLES
  clock,
  failures,   \* breaker.failures
  openUntil,  \* breaker.openUntil; 0 is the zero time
  at,         \* the provider each request has come to
  pc,         \* idle | walking | calling | answered | error
  cancelled,  \* requests whose context is cancelled
  outcome,    \* history: what each provider was to each request
  streak      \* history: failures of a provider recorded since its last success

breakers == <<failures, openUntil, streak>>
vars == <<clock, breakers, at, pc, cancelled, outcome>>

Init == /\ clock = 1
        /\ failures = [p \in Provider |-> 0]
        /\ openUntil = [p \in Provider |-> 0]
        /\ at = [r \in Requests |-> 1]
        /\ pc = [r \in Requests |-> "idle"]
        /\ cancelled = {}
        /\ outcome = [r \in Requests |-> [p \in Provider |-> "untried"]]
        /\ streak = [p \in Provider |-> 0]

Tick == /\ clock < MaxTime
        /\ clock' = clock + 1
        /\ UNCHANGED <<breakers, at, pc, cancelled, outcome>>

GenerateReply(r) ==
  /\ pc[r] \in {"idle", "answered", "error"}
  /\ pc' = [pc EXCEPT ![r] = "walking"]
  /\ at' = [at EXCEPT ![r] = 1]
  /\ cancelled' = cancelled \ {r}
  /\ outcome' = [outcome EXCEPT ![r] = [p \in Provider |-> "untried"]]
  /\ UNCHANGED <<clock, breakers>>

Allow(p) == clock >= openUntil[p]

Note(r, p, what) == outcome' = [outcome EXCEPT ![r][p] = what]

Skip_GivesUp(r) ==
  /\ pc[r] = "walking" /\ at[r] \in Provider
  /\ ~Allow(at[r])
  /\ Note(r, at[r], "skipped")
  /\ at' = [at EXCEPT ![r] = NumProviders + 1]
  /\ UNCHANGED <<clock, breakers, pc, cancelled>>

Skip_Waits(r) ==
  /\ pc[r] = "walking" /\ at[r] \in Provider
  /\ ~Allow(at[r])
  /\ Note(r, at[r], "skipped")
  /\ UNCHANGED <<clock, breakers, at, pc, cancelled>>

Skip(r) ==
  /\ pc[r] = "walking" /\ at[r] \in Provider
  /\ ~Allow(at[r])
  /\ Note(r, at[r], "skipped")
  /\ at' = [at EXCEPT ![r] = @ + 1]
  /\ UNCHANGED <<clock, breakers, pc, cancelled>>

Call(r) ==
  /\ pc[r] = "walking" /\ at[r] \in Provider
  /\ Allow(at[r])
  /\ pc' = [pc EXCEPT ![r] = "calling"]
  /\ UNCHANGED <<clock, breakers, at, cancelled, outcome>>

RecordSuccess_KeepsCount(p) ==
  /\ openUntil' = [openUntil EXCEPT ![p] = 0]
  /\ streak' = [streak EXCEPT ![p] = 0]
  /\ UNCHANGED failures

\* A success closes the breaker, also one of a call that began before it opened.
RecordSuccess(p) ==
  /\ failures' = [failures EXCEPT ![p] = 0]
  /\ openUntil' = [openUntil EXCEPT ![p] = 0]
  /\ streak' = [streak EXCEPT ![p] = 0]

Opens_OffByOne(p) == failures[p] >= MaxFailures
Opens(p) == failures[p] + 1 >= MaxFailures

RecordFailure_BacksOff(p) ==
  /\ failures' = [failures EXCEPT ![p] = IF Opens(p) THEN 0 ELSE @ + 1]
  /\ openUntil' = [openUntil EXCEPT ![p] =
       IF Opens(p) THEN clock + Cooldown * MaxFailures ELSE @]
  /\ streak' = [streak EXCEPT ![p] = IF @ < MaxFailures THEN @ + 1 ELSE @]

\* The history saturates at MaxFailures.
RecordFailure(p) ==
  /\ failures' = [failures EXCEPT ![p] = IF Opens(p) THEN 0 ELSE @ + 1]
  /\ openUntil' = [openUntil EXCEPT ![p] = IF Opens(p) THEN clock + Cooldown ELSE @]
  /\ streak' = [streak EXCEPT ![p] = IF @ < MaxFailures THEN @ + 1 ELSE @]

Succeed(r) ==
  /\ pc[r] = "calling" /\ r \notin cancelled
  /\ RecordSuccess(at[r])
  /\ Note(r, at[r], "answered")
  /\ pc' = [pc EXCEPT ![r] = "answered"]
  /\ UNCHANGED <<clock, at, cancelled>>

\* The provider fails, or the call ends because its caller's context did; the
\* breaker counts both.
Fail(r) ==
  /\ pc[r] = "calling"
  /\ RecordFailure(at[r])
  /\ Note(r, at[r], "failed")
  /\ pc' = [pc EXCEPT ![r] = "walking"]
  /\ at' = [at EXCEPT ![r] = @ + 1]
  /\ UNCHANGED <<clock, cancelled>>

AllFailed(r) ==
  /\ pc[r] = "walking" /\ at[r] \notin Provider
  /\ pc' = [pc EXCEPT ![r] = "error"]
  /\ UNCHANGED <<clock, breakers, at, cancelled, outcome>>

\* A visitor closes the page, or a deadline passes.
Cancel(r) ==
  /\ Cancels
  /\ pc[r] \in {"walking", "calling"} /\ r \notin cancelled
  /\ cancelled' = cancelled \cup {r}
  /\ UNCHANGED <<clock, breakers, at, pc, outcome>>

Step(r) == Skip(r) \/ Call(r) \/ Succeed(r) \/ Fail(r) \/ AllFailed(r)

Next == \/ Tick
        \/ \E r \in Requests : GenerateReply(r) \/ Step(r) \/ Cancel(r)

Spec == Init /\ [][Next]_vars

\* A provider call ends: the HTTP client times out after 60 s.
FairSpec == Spec /\ \A r \in Requests : WF_vars(Step(r))

-----------------------------------------------------------------------------
(* Properties.                                                             *)

\* Breakers, requests and histories have their types.
TypeOK ==
  /\ clock \in 1 .. MaxTime
  /\ failures \in [Provider -> 0 .. (MaxFailures - 1)]
  /\ openUntil \in [Provider -> Nat]
  /\ at \in [Requests -> 1 .. (NumProviders + 1)]
  /\ pc \in [Requests -> {"idle", "walking", "calling", "answered", "error"}]
  /\ cancelled \subseteq Requests
  /\ outcome \in [Requests -> [Provider -> {"untried", "skipped", "failed", "answered"}]]
  /\ streak \in [Provider -> 0 .. MaxFailures]

\* A breaker is open only after MaxFailures failures in a row were recorded for
\* its provider, by whichever requests, with no success in between.
OpensAfterConsecutiveFailures ==
  \A p \in Provider : openUntil[p] # 0 => streak[p] = MaxFailures

\* However many late failures are recorded on it, a breaker never keeps a
\* provider out for longer than one cooldown from now.
LockoutIsBounded ==
  \A p \in Provider : openUntil[p] <= clock + Cooldown

\* A request gives up only when each provider was skipped or failed it, and is
\* answered by the first one that did neither: "returns the first successful
\* provider's answer, or ErrAllProvidersFailed if every provider is unavailable
\* or failing" (chain.go:49-50).
FailsOverInOrder ==
  \A r \in Requests :
    /\ pc[r] = "error" => \A p \in Provider : outcome[r][p] \in {"skipped", "failed"}
    /\ \A p, q \in Provider : outcome[r][p] = "answered" /\ q # p =>
         IF q < p THEN outcome[r][q] \in {"skipped", "failed"} ELSE outcome[r][q] = "untried"

\* Every request ends: with an answer or with an error.
EveryRequestEnds ==
  \A r \in Requests : pc[r] = "walking" ~> pc[r] \in {"answered", "error"}
=============================================================================
