-------------------------- MODULE ChainMenuProofs --------------------------
(***************************************************************************)
(* The two ways to an answer that need no human: the AI's, behind circuit  *)
(* breakers and a failover order, and the button menus, which go on        *)
(* working when no AI is configured (DEPLOY.md:132-136).                   *)
(*                                                                         *)
(* For the chain: any number of providers and of concurrent requests, any  *)
(* threshold and any cooldown.  For the menus: any tables, names, way of   *)
(* cutting them, limits, and number of edits and of taps under way.        *)
(***************************************************************************)
EXTENDS Chain, Menu, FiniteSetTheorems, WellFoundedInduction, TLAPS

\* The breakers' types, the failures counted since the last opening being among
\* those of the streak, and the two promises about an open breaker.
BreakerInv ==
  /\ clock \in Nat
  /\ failures \in [Provider -> 0 .. (MaxFailures - 1)]
  /\ openUntil \in [Provider -> Nat]
  /\ streak \in [Provider -> 0 .. MaxFailures]
  /\ \A p \in Provider : /\ failures[p] <= streak[p]
                         /\ openUntil[p] # 0 => streak[p] = MaxFailures
                         /\ openUntil[p] <= clock + Cooldown

\* The providers a request has passed, and those it has not come to.
WalkOf(r) ==
  /\ pc[r] = "error" => at[r] = NumProviders + 1
  /\ pc[r] = "calling" => at[r] \in Provider
  /\ \A p \in Provider :
       /\ p < at[r] => outcome[r][p] \in {"skipped", "failed"}
       /\ p > at[r] => outcome[r][p] = "untried"
       /\ p = at[r] => outcome[r][p] = IF pc[r] = "answered" THEN "answered" ELSE "untried"

WalkInv == \A r \in Requests : WalkOf(r)

Inv == TypeOK /\ BreakerInv /\ WalkInv

\* Closed breakers and idle requests at the start.
LEMMA InvInit == Init => Inv
  BY ChainAssumption DEF Init, Inv, TypeOK, BreakerInv, WalkInv, WalkOf, Provider

\* A step of r leaves the walks of the others as they are.
LEMMA WalkOfOne ==
  ASSUME TypeOK, WalkInv, NEW r \in Requests, NEW a, NEW c, NEW o,
         at' = [at EXCEPT ![r] = a], pc' = [pc EXCEPT ![r] = c],
         outcome' = [outcome EXCEPT ![r] = o],
         WalkOf(r)'
  PROVE  WalkInv'
<1> SUFFICES ASSUME NEW s \in Requests PROVE WalkOf(s)'
  BY DEF WalkInv
<1>1. CASE s = r
  BY <1>1
<1>2. CASE s # r
  <2>1. at'[s] = at[s] /\ pc'[s] = pc[s] /\ outcome'[s] = outcome[s]
    BY <1>2 DEF TypeOK
  <2>2. WalkOf(s)
    BY DEF WalkInv
  <2> QED
    BY <2>1, <2>2 DEF WalkOf, Provider
<1> QED
  BY <1>1, <1>2

\* Where a step of r leaves it.
LEMMA StepOfOne ==
  ASSUME TypeOK, NEW r \in Requests, NEW a, NEW c, NEW o,
         at' = [at EXCEPT ![r] = a], pc' = [pc EXCEPT ![r] = c],
         outcome' = [outcome EXCEPT ![r] = o]
  PROVE  at'[r] = a /\ pc'[r] = c /\ outcome'[r] = o
  BY DEF TypeOK

\* The outcomes after a step of r notes one.
LEMMA NoteOne ==
  ASSUME TypeOK, NEW r \in Requests, NEW p \in Provider, NEW w, Note(r, p, w)
  PROVE  /\ outcome' = [outcome EXCEPT ![r] = [outcome[r] EXCEPT ![p] = w]]
         /\ outcome[r] \in [Provider -> {"untried", "skipped", "failed", "answered"}]
  BY DEF Note, TypeOK

\* Recording a result keeps the breakers sound.
LEMMA BreakersStep ==
  ASSUME BreakerInv, clock' = clock,
         NEW p \in Provider,
         RecordSuccess(p) \/ RecordFailure(p)
  PROVE  BreakerInv'
<1> USE ChainAssumption DEF BreakerInv
<1>1. CASE RecordSuccess(p)
  BY <1>1 DEF RecordSuccess
<1>2. CASE RecordFailure(p)
  <2>1. failures[p] \in 0 .. (MaxFailures - 1) /\ streak[p] \in 0 .. MaxFailures
        /\ failures[p] <= streak[p]
    OBVIOUS
  <2>2. CASE Opens(p)
    BY <1>2, <2>1, <2>2 DEF RecordFailure, Opens
  <2>3. CASE ~Opens(p)
    BY <1>2, <2>1, <2>3 DEF RecordFailure, Opens
  <2> QED
    BY <2>2, <2>3
<1> QED
  BY <1>1, <1>2

\* A step that leaves the breakers and the clock keeps them sound.
LEMMA BreakersStutter ==
  ASSUME BreakerInv, clock' = clock, UNCHANGED breakers
  PROVE  BreakerInv'
  BY DEF BreakerInv, breakers

\* Types of the walk survive a step of one request.
LEMMA TypeOfOne ==
  ASSUME TypeOK, NEW r \in Requests,
         NEW a \in 1 .. (NumProviders + 1),
         NEW c \in {"idle", "walking", "calling", "answered", "error"},
         NEW o \in [Provider -> {"untried", "skipped", "failed", "answered"}],
         at' = [at EXCEPT ![r] = a], pc' = [pc EXCEPT ![r] = c],
         outcome' = [outcome EXCEPT ![r] = o],
         cancelled' \subseteq Requests, BreakerInv', clock' = clock
  PROVE  TypeOK'
  BY DEF TypeOK, BreakerInv

\* Each step keeps the breakers sound and the walks in order.
LEMMA InvStep == Inv /\ [Next]_vars => Inv'
<1> SUFFICES ASSUME Inv, [Next]_vars PROVE Inv'
  OBVIOUS
<1> USE ChainAssumption
<1>0. TypeOK /\ BreakerInv /\ WalkInv
  BY DEF Inv
<1>1. CASE Tick
  <2>1. BreakerInv'
    BY <1>0, <1>1 DEF Tick, breakers, BreakerInv
  <2>2. TypeOK'
    BY <1>0, <1>1, <2>1 DEF Tick, TypeOK, breakers
  <2>3. WalkInv'
    BY <1>0, <1>1 DEF Tick, WalkInv, WalkOf
  <2> QED
    BY <2>1, <2>2, <2>3 DEF Inv
<1>2. ASSUME NEW r \in Requests, GenerateReply(r) PROVE Inv'
  <2> DEFINE none == [p \in Provider |-> "untried"]
  <2>1. /\ at' = [at EXCEPT ![r] = 1] /\ pc' = [pc EXCEPT ![r] = "walking"]
        /\ outcome' = [outcome EXCEPT ![r] = none]
        /\ clock' = clock /\ UNCHANGED breakers /\ cancelled' \subseteq Requests
    BY <1>0, <1>2 DEF GenerateReply, TypeOK
  <2>2. BreakerInv'
    BY <1>0, <2>1, BreakersStutter
  <2>3. TypeOK'
    <3>1. none \in [Provider -> {"untried", "skipped", "failed", "answered"}]
          /\ 1 \in 1 .. (NumProviders + 1)
      OBVIOUS
    <3> QED
      BY <1>0, <2>1, <2>2, <3>1, TypeOfOne
  <2>4. at'[r] = 1 /\ pc'[r] = "walking" /\ outcome'[r] = none
    BY <1>0, <2>1, StepOfOne
  <2>5. WalkOf(r)'
    BY <2>4 DEF WalkOf, Provider
  <2>6. WalkInv'
    BY <1>0, <2>1, <2>5, WalkOfOne
  <2> QED
    BY <2>2, <2>3, <2>6 DEF Inv
<1>3. ASSUME NEW r \in Requests, Skip(r) PROVE Inv'
  <2> DEFINE o == [outcome[r] EXCEPT ![at[r]] = "skipped"]
  <2>1. /\ at[r] \in Provider /\ pc[r] = "walking" /\ Note(r, at[r], "skipped")
        /\ at' = [at EXCEPT ![r] = at[r] + 1] /\ pc' = [pc EXCEPT ![r] = "walking"]
        /\ clock' = clock /\ UNCHANGED breakers /\ cancelled' \subseteq Requests
    BY <1>0, <1>3 DEF Skip, TypeOK
  <2>2. outcome' = [outcome EXCEPT ![r] = o]
        /\ o \in [Provider -> {"untried", "skipped", "failed", "answered"}]
    BY <1>0, <2>1, NoteOne
  <2>3. BreakerInv'
    BY <1>0, <2>1, BreakersStutter
  <2>4. at[r] + 1 \in 1 .. (NumProviders + 1)
    BY <2>1 DEF Provider
  <2>5. TypeOK'
    BY <1>0, <2>1, <2>2, <2>3, <2>4, TypeOfOne
  <2>6. \A p \in Provider :
           /\ p < at[r] + 1 => o[p] \in {"skipped", "failed"}
           /\ p > at[r] + 1 => o[p] = "untried"
           /\ p = at[r] + 1 => o[p] = "untried"
    BY <1>0, <2>1, NoteOne DEF WalkInv, WalkOf, Provider
  <2>7. at'[r] = at[r] + 1 /\ pc'[r] = "walking" /\ outcome'[r] = o
    BY <1>0, <2>1, <2>2, StepOfOne
  <2>8. WalkOf(r)'
    BY <2>6, <2>7 DEF WalkOf, Provider
  <2>9. WalkInv'
    BY <1>0, <2>1, <2>2, <2>8, WalkOfOne
  <2> QED
    BY <2>3, <2>5, <2>9 DEF Inv
<1>4. ASSUME NEW r \in Requests, Call(r) PROVE Inv'
  <2>1. /\ at[r] \in Provider /\ pc[r] = "walking"
        /\ at' = [at EXCEPT ![r] = at[r]] /\ pc' = [pc EXCEPT ![r] = "calling"]
        /\ outcome' = [outcome EXCEPT ![r] = outcome[r]]
        /\ clock' = clock /\ UNCHANGED breakers /\ cancelled' \subseteq Requests
    BY <1>0, <1>4 DEF Call, TypeOK
  <2>2. BreakerInv'
    BY <1>0, <2>1, BreakersStutter
  <2>3. TypeOK'
    BY <1>0, <2>1, <2>2, TypeOfOne DEF TypeOK
  <2>4. WalkOf(r)
    BY <1>0 DEF WalkInv
  <2>5. at'[r] = at[r] /\ pc'[r] = "calling" /\ outcome'[r] = outcome[r]
    BY <1>0, <2>1, StepOfOne
  <2>6. WalkOf(r)'
    BY <2>1, <2>4, <2>5 DEF WalkOf, Provider
  <2>7. WalkInv'
    BY <1>0, <2>1, <2>6, WalkOfOne
  <2> QED
    BY <2>2, <2>3, <2>7 DEF Inv
<1>5. ASSUME NEW r \in Requests, Succeed(r) PROVE Inv'
  <2> DEFINE o == [outcome[r] EXCEPT ![at[r]] = "answered"]
  <2>0. WalkOf(r)
    BY <1>0 DEF WalkInv
  <2>1. /\ at[r] \in Provider /\ pc[r] = "calling" /\ Note(r, at[r], "answered")
        /\ at' = [at EXCEPT ![r] = at[r]] /\ pc' = [pc EXCEPT ![r] = "answered"]
        /\ clock' = clock /\ RecordSuccess(at[r]) /\ cancelled' \subseteq Requests
    BY <1>0, <1>5, <2>0 DEF Succeed, TypeOK, WalkOf
  <2>2. outcome' = [outcome EXCEPT ![r] = o]
        /\ o \in [Provider -> {"untried", "skipped", "failed", "answered"}]
    BY <1>0, <2>1, NoteOne
  <2>3. BreakerInv'
    BY <1>0, <2>1, BreakersStep
  <2>4. TypeOK'
    BY <1>0, <2>1, <2>2, <2>3, TypeOfOne DEF TypeOK
  <2>5. \A p \in Provider :
           /\ p < at[r] => o[p] \in {"skipped", "failed"}
           /\ p > at[r] => o[p] = "untried"
           /\ p = at[r] => o[p] = "answered"
    BY <1>0, <2>0, <2>1, NoteOne DEF WalkOf, Provider
  <2>6. at'[r] = at[r] /\ pc'[r] = "answered" /\ outcome'[r] = o
    BY <1>0, <2>1, <2>2, StepOfOne
  <2>7. WalkOf(r)'
    BY <2>5, <2>6 DEF WalkOf, Provider
  <2>8. WalkInv'
    BY <1>0, <2>1, <2>2, <2>7, WalkOfOne
  <2> QED
    BY <2>3, <2>4, <2>8 DEF Inv
<1>6. ASSUME NEW r \in Requests, Fail(r) PROVE Inv'
  <2> DEFINE o == [outcome[r] EXCEPT ![at[r]] = "failed"]
  <2>0. WalkOf(r)
    BY <1>0 DEF WalkInv
  <2>1. /\ at[r] \in Provider /\ pc[r] = "calling" /\ Note(r, at[r], "failed")
        /\ at' = [at EXCEPT ![r] = at[r] + 1] /\ pc' = [pc EXCEPT ![r] = "walking"]
        /\ clock' = clock /\ cancelled' \subseteq Requests
        /\ RecordFailure(at[r])
    BY <1>0, <1>6, <2>0 DEF Fail, TypeOK, WalkOf, RecordFailure
  <2>2. outcome' = [outcome EXCEPT ![r] = o]
        /\ o \in [Provider -> {"untried", "skipped", "failed", "answered"}]
    BY <1>0, <2>1, NoteOne
  <2>3. BreakerInv'
    BY <1>0, <2>1, BreakersStep
  <2>4. at[r] + 1 \in 1 .. (NumProviders + 1)
    BY <2>1 DEF Provider
  <2>5. TypeOK'
    BY <1>0, <2>1, <2>2, <2>3, <2>4, TypeOfOne
  <2>6. \A p \in Provider :
           /\ p < at[r] + 1 => o[p] \in {"skipped", "failed"}
           /\ p > at[r] + 1 => o[p] = "untried"
           /\ p = at[r] + 1 => o[p] = "untried"
    BY <1>0, <2>0, <2>1, NoteOne DEF WalkOf, Provider
  <2>7. at'[r] = at[r] + 1 /\ pc'[r] = "walking" /\ outcome'[r] = o
    BY <1>0, <2>1, <2>2, StepOfOne
  <2>8. WalkOf(r)'
    BY <2>6, <2>7 DEF WalkOf, Provider
  <2>9. WalkInv'
    BY <1>0, <2>1, <2>2, <2>8, WalkOfOne
  <2> QED
    BY <2>3, <2>5, <2>9 DEF Inv
<1>7. ASSUME NEW r \in Requests, AllFailed(r) PROVE Inv'
  <2>1. /\ at[r] = NumProviders + 1 /\ pc[r] = "walking"
        /\ at' = [at EXCEPT ![r] = at[r]] /\ pc' = [pc EXCEPT ![r] = "error"]
        /\ outcome' = [outcome EXCEPT ![r] = outcome[r]]
        /\ clock' = clock /\ UNCHANGED breakers /\ cancelled' \subseteq Requests
    BY <1>0, <1>7 DEF AllFailed, TypeOK, Provider
  <2>2. BreakerInv'
    BY <1>0, <2>1, BreakersStutter
  <2>3. TypeOK'
    BY <1>0, <2>1, <2>2, TypeOfOne DEF TypeOK
  <2>4. WalkOf(r)
    BY <1>0 DEF WalkInv
  <2>5. at'[r] = at[r] /\ pc'[r] = "error" /\ outcome'[r] = outcome[r]
    BY <1>0, <2>1, StepOfOne
  <2>6. WalkOf(r)'
    BY <2>1, <2>4, <2>5 DEF WalkOf, Provider
  <2>7. WalkInv'
    BY <1>0, <2>1, <2>6, WalkOfOne
  <2> QED
    BY <2>2, <2>3, <2>7 DEF Inv
<1>8. ASSUME NEW r \in Requests, Cancel(r) PROVE Inv'
  BY <1>0, <1>8 DEF Cancel, Inv, TypeOK, BreakerInv, breakers, WalkInv, WalkOf
<1>9. CASE UNCHANGED vars
  BY <1>0, <1>9 DEF vars, Inv, TypeOK, BreakerInv, breakers, WalkInv, WalkOf
<1> QED
  BY <1>1, <1>2, <1>3, <1>4, <1>5, <1>6, <1>7, <1>8, <1>9 DEF Next, Step

\* Breakers, requests and histories keep their types.
THEOREM TypeCorrect == Spec => []TypeOK
<1>1. Inv => TypeOK
  BY DEF Inv
<1> QED
  BY <1>1, InvInit, InvStep, PTL DEF Spec

\* A breaker opens only on MaxFailures failures recorded in a row.
THEOREM OpeningCorrect == Spec => []OpensAfterConsecutiveFailures
<1>1. Inv => OpensAfterConsecutiveFailures
  BY DEF Inv, BreakerInv, OpensAfterConsecutiveFailures
<1> QED
  BY <1>1, InvInit, InvStep, PTL DEF Spec

\* No provider is kept out for longer than a cooldown from now.
THEOREM LockoutCorrect == Spec => []LockoutIsBounded
<1>1. Inv => LockoutIsBounded
  BY DEF Inv, BreakerInv, LockoutIsBounded
<1> QED
  BY <1>1, InvInit, InvStep, PTL DEF Spec

\* Requests are answered by the first provider that is neither open nor failing.
THEOREM FailoverCorrect == Spec => []FailsOverInOrder
<1>1. Inv => FailsOverInOrder
  <2> SUFFICES ASSUME Inv, NEW r \in Requests
               PROVE  /\ pc[r] = "error" =>
                           \A p \in Provider : outcome[r][p] \in {"skipped", "failed"}
                      /\ \A p, q \in Provider : outcome[r][p] = "answered" /\ q # p =>
                           IF q < p THEN outcome[r][q] \in {"skipped", "failed"}
                           ELSE outcome[r][q] = "untried"
    BY DEF FailsOverInOrder
  <2>1. WalkOf(r) /\ at[r] \in Nat /\ NumProviders \in Nat
    BY ChainAssumption DEF Inv, WalkInv, TypeOK
  <2>2. ASSUME NEW p \in Provider, outcome[r][p] = "answered" PROVE p = at[r]
    BY <2>1, <2>2 DEF WalkOf, Provider
  <2> QED
    BY <2>1, <2>2 DEF WalkOf, Provider
<1> QED
  BY <1>1, InvInit, InvStep, PTL DEF Spec

-----------------------------------------------------------------------------
(* The menus.  What their proof rests on: a button remembers the number of *)
(* edits made when its screen was built, so that wherever it is, on the    *)
(* screen, tapped, or on its way there, it is either older than the table  *)
(* or says what the table says; and a page that loads likewise.            *)

TableOK ==
  /\ DOMAIN faqs \subseteq Ids
  /\ \A i \in DOMAIN faqs : faqs[i] \in FaqRow
  /\ edits \in 0..MaxEdits

\* What a button of a screen built from today's table holds.
Current(b) ==
  /\ b.to = "category" => /\ b.label \in Categories(Lang)
                          /\ b.name = Data(channel, b.label)
  /\ b.to = "answer" => /\ b.id \in DOMAIN faqs
                        /\ faqs[b.id].cat # NoName
  /\ b.to = "back" => /\ b.id \in DOMAIN faqs
                      /\ b.label = faqs[b.id].cat
                      /\ b.name = Data(channel, b.label)

Honest(b) == b.made <= edits /\ (b.made = edits => Current(b))

-----------------------------------------------------------------------------
LEMMA LowestIs ==
  ASSUME NEW S \in SUBSET Nat, S # {}
  PROVE  Lowest(S) \in S /\ \A k \in S : Lowest(S) <= k
<1>1. PICK x \in S : \A y \in S : ~(<<y, x>> \in OpToRel(<, Nat))
  <2>1. IsWellFoundedOn(OpToRel(<, Nat), Nat)
    BY NatLessThanWellFounded
  <2> QED  BY <2>1, WFMin, Zenon
<1>2. ASSUME NEW y \in S  PROVE x <= y
  <2>1. x \in Nat /\ y \in Nat
    OBVIOUS
  <2>2. ~(y < x)
    BY <1>1, <2>1 DEF OpToRel
  <2> QED  BY <2>1, <2>2
<1> QED  BY <1>2 DEF Lowest

\* The members of S below s.
LEMMA BelowGrows ==
  ASSUME NEW S, IsFiniteSet(S), S \subseteq Nat, NEW s \in S, NEW t \in S, s < t
  PROVE  Cardinality({r \in S : r < s}) < Cardinality({r \in S : r < t})
<1> DEFINE A == {r \in S : r < s}
           B == {r \in S : r < t}
<1>1. IsFiniteSet(B) /\ A \subseteq B /\ A # B
  <2>1. IsFiniteSet(B)
    BY FS_Subset
  <2>2. ASSUME NEW r \in S, r < s  PROVE r < t
    <3>1. r \in Nat /\ s \in Nat /\ t \in Nat
      OBVIOUS
    <3> QED  BY <3>1, <2>2
  <2>3. s \in B /\ s \notin A
    BY DEF A, B
  <2> QED  BY <2>1, <2>2, <2>3
<1> HIDE DEF A, B
<1>2. Cardinality(A) < Cardinality(B)
  <2>1. IsFiniteSet(A) /\ Cardinality(A) <= Cardinality(B) /\ Cardinality(A) # Cardinality(B)
    BY <1>1, FS_Subset
  <2> QED  BY <1>1, <2>1, FS_CardinalityType
<1> QED  BY <1>2 DEF A, B

LEMMA FirstOfSelf ==
  ASSUME NEW S, IsFiniteSet(S), S \subseteq Nat, NEW n \in Nat \ {0}
  PROVE  LET F == FirstOf(S, Self, n)
         IN  /\ F = {s \in S : Cardinality({r \in S : r < s}) < n}
             /\ IsFiniteSet(F)
             /\ Cardinality(F) <= n
             /\ S # {} => F # {}
<1> DEFINE below(s) == Cardinality({r \in S : r < s})
           F == {s \in S : below(s) < n}
           place == [s \in F |-> below(s)]
<1>1. FirstOf(S, Self, n) = F
  BY DEF FirstOf, Self
<1>2. \A s \in S : below(s) \in Nat
  BY FS_Subset, FS_CardinalityType
<1>3. IsFiniteSet(F)
  BY FS_Subset
<1>4. IsFiniteSet(0..(n-1)) /\ Cardinality(0..(n-1)) = n
  BY FS_Interval, 0 \in Int /\ n - 1 \in Int
<1>5. place \in Injection(F, 0..(n-1))
  <2>1. place \in [F -> 0..(n-1)]
    <3>1. ASSUME NEW s \in F  PROVE below(s) \in 0..(n-1)
      <4>1. below(s) \in Nat /\ below(s) < n
        BY <1>2
      <4> HIDE DEF below
      <4> QED  BY <4>1
    <3> HIDE DEF F, below
    <3> QED  BY <3>1
  <2>2. ASSUME NEW s \in F, NEW t \in F, place[s] = place[t]
        PROVE  s = t
    <3>1. below(s) = below(t) /\ below(s) \in Nat
      BY <2>2, <1>2
    <3>2. s \in S /\ t \in S /\ s \in Nat /\ t \in Nat
      OBVIOUS
    <3>3. s < t => below(s) < below(t)
      BY <3>2, BelowGrows
    <3>4. t < s => below(t) < below(s)
      BY <3>2, BelowGrows
    <3> HIDE DEF below
    <3> QED  BY <3>1, <3>2, <3>3, <3>4
  <2> QED  BY <2>1, <2>2 DEF Injection, IsInjective
<1>6. Cardinality(F) <= n
  <2> HIDE DEF F, place
  <2> QED  BY <1>3, <1>4, <1>5, FS_Injection
<1>7. S # {} => F # {}
  <2> SUFFICES ASSUME S # {} PROVE F # {}
    OBVIOUS
  <2>1. Lowest(S) \in S /\ \A k \in S : Lowest(S) <= k
    BY LowestIs
  <2>2. {r \in S : r < Lowest(S)} = {}
    <3>1. ASSUME NEW r \in S  PROVE ~(r < Lowest(S))
      <4>1. r \in Nat /\ Lowest(S) \in Nat /\ Lowest(S) <= r
        BY <2>1
      <4> QED  BY <4>1
    <3> QED  BY <3>1
  <2>3. below(Lowest(S)) = 0
    BY <2>2, FS_EmptySet
  <2> QED  BY <2>1, <2>3
<1> QED  BY <1>1, <1>3, <1>6, <1>7
-----------------------------------------------------------------------------
(* The screens built from today's table. *)

LEMMA LiveIds ==
  ASSUME TableOK, NEW l
  PROVE  /\ Live(l) \subseteq Ids /\ IsFiniteSet(Live(l)) /\ Live(l) \subseteq Nat
         /\ \A i \in Live(l) : i \in DOMAIN faqs /\ faqs[i].cat \in Names \union {NoName}
<1>1. IsFiniteSet(Ids)
  BY MenuAssumption, FS_Interval, 1 \in Int /\ MaxFaqs \in Int DEF Ids
<1>2. Live(l) \subseteq Ids /\ Live(l) \subseteq Nat
  BY MenuAssumption DEF TableOK, Live, Ids
<1>3. \A i \in Live(l) : i \in DOMAIN faqs /\ faqs[i].cat \in Names \union {NoName}
  BY DEF TableOK, Live, FaqRow
<1> QED  BY <1>1, <1>2, <1>3, FS_Subset

LEMMA ListIds ==
  ASSUME TableOK, NEW c
  PROVE  LET L == ListByCategory(c, Lang)
         IN  /\ L \subseteq Live(Lang) /\ IsFiniteSet(L) /\ L \subseteq Nat
             /\ \A i \in L : i \in Ids /\ i \in DOMAIN faqs /\ faqs[i].cat = c /\ c \in Names
                             /\ c # NoName /\ faqs[i].lang = Lang
<1>1. ListByCategory(c, Lang) \subseteq Live(Lang)
  BY DEF ListByCategory
<1>2. \A i \in ListByCategory(c, Lang) : faqs[i].cat = c /\ c # NoName /\ faqs[i].lang = Lang
  BY DEF ListByCategory, Live
<1> QED  BY <1>1, <1>2, LiveIds, FS_Subset

LEMMA CategoriesAre ==
  ASSUME TableOK, NEW c \in Categories(Lang)
  PROVE  /\ c \in Names /\ c # NoName
         /\ ListByCategory(c, Lang) # {}
         /\ \E i \in Live(Lang) : faqs[i].cat = c
<1>1. PICK i \in Live(Lang) : faqs[i].cat = c
  BY DEF Categories
<1>2. c # NoName
  BY DEF Categories
<1>3. i \in ListByCategory(c, Lang)
  BY <1>1, <1>2 DEF ListByCategory
<1> QED  BY <1>1, <1>2, <1>3, LiveIds

\* A screen of buttons that are what they say, and few enough cards of them.
ScreenOK(S) ==
  /\ S \subseteq Buttons
  /\ \A b \in S : Honest(b)
  /\ channel = "messenger" => Cardinality(Answers(S)) <= MaxCards

\* The handler of the channel's own messages.
Serves(ch) ==
  /\ ch = "telegram" <=> channel = "telegram"
  /\ channel = "messenger" => ch = "messenger"

LEMMA ButtonFacts ==
  ASSUME TableOK, NEW to, NEW label, NEW name, NEW id
  PROVE  LET b == Button(to, label, name, id)
         IN  /\ b.to = to /\ b.label = label /\ b.name = name /\ b.id = id
             /\ b.made = edits /\ b.made \in 0..MaxEdits /\ edits \in Nat /\ b.made <= edits
BY MenuAssumption DEF Button, TableOK

LEMMA DataFacts ==
  ASSUME NEW ch, NEW c \in Names \union {NoName}
  PROVE  /\ Data(ch, c) \in Names \union {NoName} \union {Cut[d] : d \in Names}
         /\ Serves(ch) => Data(ch, c) = Data(channel, c)
         /\ Data(ch, c) = c \/ (ch = "telegram" /\ c # NoName /\ Data(ch, c) = Cut[c])
BY DEF Data, Serves

LEMMA ButtonTyped ==
  ASSUME TableOK, NEW to \in {"main", "ask", "category", "answer", "back"},
         NEW label \in Names \union {NoName},
         NEW name \in Names \union {NoName} \union {Cut[d] : d \in Names},
         NEW id \in Ids \union {0}
  PROVE  Button(to, label, name, id) \in Buttons
<1>1. edits \in 0..MaxEdits
  BY DEF TableOK
<1> QED  BY <1>1 DEF Button, Buttons

\* The buttons that are on every screen promise nothing.
LEMMA FixedOK ==
  ASSUME TableOK
  PROVE  /\ Fixed \subseteq Buttons
         /\ \A b \in Fixed : Honest(b) /\ b.to \in {"ask", "main"}
         /\ Button("ask", NoName, NoName, 0) \in Fixed
         /\ Button("main", NoName, NoName, 0) \in Fixed
<1> DEFINE ask == Button("ask", NoName, NoName, 0)
           main == Button("main", NoName, NoName, 0)
<1>1. ask \in Buttons /\ main \in Buttons
  BY ButtonTyped
<1>2. ask.to = "ask" /\ main.to = "main" /\ ask.made <= edits /\ main.made <= edits
  BY ButtonFacts
<1>3. Honest(ask) /\ Honest(main)
  <2> HIDE DEF ask, main
  <2> QED  BY <1>2 DEF Honest, Current
<1>4. Fixed = {ask, main}
  BY DEF Fixed
<1> QED  BY <1>1, <1>2, <1>3, <1>4

LEMMA NoAnswers ==
  ASSUME NEW S, \A b \in S : b.to # "answer"
  PROVE  /\ Answers(S) = {} /\ Cardinality(Answers(S)) <= MaxCards
         /\ \A T : Answers(T \union S) = Answers(T)
<1>1. Answers(S) = {}
  BY DEF Answers
<1>2. \A T : Answers(T \union S) = Answers(T)
  BY DEF Answers
<1> QED  BY <1>1, <1>2, FS_EmptySet, MenuAssumption

LEMMA MainOK ==
  ASSUME TableOK, NEW ch, Serves(ch)
  PROVE  ScreenOK(Main(ch)) /\ \A b \in Main(ch) : b.to \in {"category", "ask"}
<1>1. Offered(ch) \subseteq Categories(Lang)
  BY DEF Offered, FirstOf
<1>2. ASSUME NEW c \in Offered(ch)
      PROVE  LET b == Button("category", c, Data(ch, c), 0)
             IN  b \in Buttons /\ Honest(b) /\ b.to = "category"
  <2> DEFINE b == Button("category", c, Data(ch, c), 0)
  <2>1. c \in Categories(Lang) /\ c \in Names /\ c # NoName
    BY <1>1, CategoriesAre
  <2>2. Data(ch, c) = Data(channel, c)
        /\ Data(ch, c) \in Names \union {NoName} \union {Cut[d] : d \in Names}
    BY <2>1, DataFacts
  <2>3. b \in Buttons
    BY <2>1, <2>2, ButtonTyped
  <2>4. b.to = "category" /\ b.label = c /\ b.name = Data(ch, c) /\ b.made <= edits
    BY ButtonFacts
  <2>5. Honest(b)
    <3> HIDE DEF b
    <3> QED  BY <2>1, <2>2, <2>4 DEF Honest, Current
  <2> QED  BY <2>3, <2>4, <2>5
<1>3. \A b \in Main(ch) : b \in Buttons /\ Honest(b) /\ b.to \in {"category", "ask"}
  <2> SUFFICES ASSUME NEW b \in Main(ch)
               PROVE  b \in Buttons /\ Honest(b) /\ b.to \in {"category", "ask"}
    OBVIOUS
  <2>1. CASE b = Button("ask", NoName, NoName, 0)
    <3>1. b \in Fixed /\ b.to = "ask"
      BY <2>1, FixedOK, ButtonFacts
    <3> QED  BY <3>1, FixedOK
  <2>2. CASE \E c \in Offered(ch) : b = Button("category", c, Data(ch, c), 0)
    BY <2>2, <1>2
  <2> QED  BY <2>1, <2>2 DEF Main
<1> QED  BY <1>3, NoAnswers DEF ScreenOK
\* The questions a category's screen has a card or a row for.
Shown(ch, c) == IF ch = "messenger" THEN FirstOf(ListByCategory(c, Lang), Self, MaxCards)
                ELSE ListByCategory(c, Lang)

LEMMA ShownFacts ==
  ASSUME TableOK, NEW ch, NEW c
  PROVE  /\ Shown(ch, c) \subseteq ListByCategory(c, Lang)
         /\ ch = "messenger" => IsFiniteSet(Shown(ch, c)) /\ Cardinality(Shown(ch, c)) <= MaxCards
         /\ ListByCategory(c, Lang) # {} => Shown(ch, c) # {}
<1>1. IsFiniteSet(ListByCategory(c, Lang)) /\ ListByCategory(c, Lang) \subseteq Nat
  BY ListIds
<1>2. MaxCards \in Nat \ {0}
  BY MenuAssumption
<1> DEFINE L == ListByCategory(c, Lang)
           F == FirstOf(L, Self, MaxCards)
<1> HIDE DEF L
<1>3. /\ F = {s \in L : Cardinality({r \in L : r < s}) < MaxCards}
      /\ IsFiniteSet(F) /\ Cardinality(F) <= MaxCards
      /\ L # {} => F # {}
  BY <1>1, <1>2, FirstOfSelf DEF L
<1>4. F \subseteq L
  BY <1>3
<1>5. Shown(ch, c) = IF ch = "messenger" THEN F ELSE L
  BY DEF Shown, L
<1> HIDE DEF F
<1>6. /\ Shown(ch, c) \subseteq L
      /\ ch = "messenger" => IsFiniteSet(Shown(ch, c)) /\ Cardinality(Shown(ch, c)) <= MaxCards
      /\ L # {} => Shown(ch, c) # {}
  BY <1>3, <1>4, <1>5
<1> QED  BY <1>6 DEF L

Card(c, i) == Button("answer", c, NoName, i)

LEMMA CardFacts ==
  ASSUME TableOK, NEW c, NEW i \in ListByCategory(c, Lang)
  PROVE  /\ Card(c, i) \in Buttons /\ Honest(Card(c, i))
         /\ Card(c, i).to = "answer" /\ Card(c, i).id = i
<1>1. /\ i \in Ids /\ i \in DOMAIN faqs /\ faqs[i].cat = c /\ c \in Names /\ c # NoName
  BY ListIds
<1>2. Card(c, i) \in Buttons
  BY <1>1, ButtonTyped DEF Card
<1>3. Card(c, i).to = "answer" /\ Card(c, i).id = i /\ Card(c, i).made <= edits
  BY ButtonFacts DEF Card
<1> QED  BY <1>1, <1>2, <1>3 DEF Honest, Current

LEMMA CardsFacts ==
  ASSUME TableOK, NEW ch, NEW c
  PROVE  /\ Cards(ch, c) = {Card(c, i) : i \in Shown(ch, c)}
         /\ \A b \in Cards(ch, c) : b \in Buttons /\ Honest(b) /\ b.to = "answer"
         /\ Found(Cards(ch, c)) = Shown(ch, c)
         /\ ch = "messenger" => Cardinality(Cards(ch, c)) <= MaxCards
<1>1. Cards(ch, c) = {Card(c, i) : i \in Shown(ch, c)}
  BY DEF Cards, Card, Shown
<1>2. Shown(ch, c) \subseteq ListByCategory(c, Lang)
  BY ShownFacts
<1>3. \A i \in Shown(ch, c) : /\ Card(c, i) \in Buttons /\ Honest(Card(c, i))
                              /\ Card(c, i).to = "answer" /\ Card(c, i).id = i
  BY <1>2, CardFacts
<1>4. \A b \in Cards(ch, c) : b \in Buttons /\ Honest(b) /\ b.to = "answer"
  BY <1>1, <1>3
<1>5. Found(Cards(ch, c)) = Shown(ch, c)
  <2>1. Answers(Cards(ch, c)) = Cards(ch, c)
    BY <1>4 DEF Answers
  <2>2. ASSUME NEW i \in Shown(ch, c)  PROVE \E b \in Cards(ch, c) : b.id = i
    BY <1>1, <1>3
  <2>3. ASSUME NEW b \in Cards(ch, c)  PROVE b.id \in Shown(ch, c)
    BY <1>1, <1>3
  <2> QED  BY <2>1, <2>2, <2>3 DEF Found
<1>6. ASSUME ch = "messenger"  PROVE Cardinality(Cards(ch, c)) <= MaxCards
  <2>1. IsFiniteSet(Shown(ch, c)) /\ Cardinality(Shown(ch, c)) <= MaxCards
    BY <1>6, ShownFacts
  <2> DEFINE S == Shown(ch, c)
             T == Cards(ch, c)
             card == [i \in S |-> Card(c, i)]
  <2>2. card \in Surjection(S, T)
    BY <1>1 DEF Surjection
  <2> HIDE DEF S, T, card
  <2>3. IsFiniteSet(S) /\ Cardinality(S) <= MaxCards
    BY <2>1 DEF S
  <2>4. IsFiniteSet(T) /\ Cardinality(T) <= Cardinality(S)
    BY <2>2, <2>3, FS_Surjection
  <2>5. Cardinality(T) \in Nat /\ Cardinality(S) \in Nat
    BY <2>3, <2>4, FS_CardinalityType
  <2>6. Cardinality(T) <= MaxCards
    BY <2>3, <2>4, <2>5, MenuAssumption
  <2> QED  BY <2>6 DEF T
<1> QED  BY <1>1, <1>4, <1>5, <1>6

LEMMA CategoryFinds ==
  ASSUME TableOK, NEW ch, NEW c
  PROVE  Found(CategoryScreen(ch, c)) = Shown(ch, c)
<1> DEFINE rest == IF ch = "messenger" THEN Fixed ELSE {Button("main", NoName, NoName, 0)}
<1>1. CategoryScreen(ch, c) = Cards(ch, c) \union rest
  BY DEF CategoryScreen
<1>2. \A b \in rest : b.to # "answer"
  BY FixedOK
<1> HIDE DEF rest
<1>3. Answers(Cards(ch, c) \union rest) = Answers(Cards(ch, c))
  BY <1>2, NoAnswers
<1> QED  BY <1>1, <1>3, CardsFacts DEF Found

LEMMA CategoryScreenOK ==
  ASSUME TableOK, NEW ch, NEW c, Serves(ch)
  PROVE  ScreenOK(CategoryScreen(ch, c))
<1> DEFINE rest == IF ch = "messenger" THEN Fixed ELSE {Button("main", NoName, NoName, 0)}
<1>1. CategoryScreen(ch, c) = Cards(ch, c) \union rest
  BY DEF CategoryScreen
<1>2. \A b \in rest : b \in Buttons /\ Honest(b) /\ b.to # "answer"
  BY FixedOK
<1> HIDE DEF rest
<1>3. Answers(Cards(ch, c) \union rest) = Cards(ch, c)
  BY <1>2, CardsFacts DEF Answers
<1> QED  BY <1>1, <1>2, <1>3, CardsFacts DEF ScreenOK, Serves

LEMMA AnswerScreenOK ==
  ASSUME TableOK, NEW ch, NEW i \in DOMAIN faqs, Serves(ch)
  PROVE  /\ ScreenOK(AnswerScreen(ch, i))
         /\ ~(ch = "messenger" /\ faqs[i].cat = NoName) =>
              \E r \in AnswerScreen(ch, i) : r.to = "back" /\ r.id = i
<1> DEFINE c == faqs[i].cat
           b == Button("back", c, Data(ch, c), i)
<1>1. i \in Ids /\ c \in Names \union {NoName}
  BY DEF TableOK, FaqRow
<1>2. Data(ch, c) = Data(channel, c)
      /\ Data(ch, c) \in Names \union {NoName} \union {Cut[d] : d \in Names}
  <2> HIDE DEF c
  <2> QED  BY <1>1, DataFacts
<1>3. b \in Buttons
  <2> HIDE DEF c
  <2> QED  BY <1>1, <1>2, ButtonTyped
<1>4. b.to = "back" /\ b.label = c /\ b.name = Data(ch, c) /\ b.id = i /\ b.made <= edits
  BY ButtonFacts
<1>5. Honest(b)
  <2> HIDE DEF b
  <2> QED  BY <1>2, <1>4 DEF Honest, Current
<1>6. AnswerScreen(ch, i) = Fixed \union (IF ch = "messenger" /\ c = NoName THEN {} ELSE {b})
  BY DEF AnswerScreen
<1> HIDE DEF b, c
<1>7. \A x \in AnswerScreen(ch, i) : x \in Buttons /\ Honest(x) /\ x.to # "answer"
  BY <1>3, <1>4, <1>5, <1>6, FixedOK
<1>8. ScreenOK(AnswerScreen(ch, i))
  BY <1>7, NoAnswers DEF ScreenOK
<1>9. ~(ch = "messenger" /\ c = NoName) =>
         \E r \in AnswerScreen(ch, i) : r.to = "back" /\ r.id = i
  BY <1>4, <1>6
<1> QED  BY <1>8, <1>9 DEF c

LEMMA AskScreenOK ==
  ASSUME TableOK, NEW ch
  PROVE  ScreenOK(AskScreen(ch))
<1>1. AskScreen(ch) \subseteq Fixed
  BY FixedOK DEF AskScreen
<1>2. \A b \in AskScreen(ch) : b \in Buttons /\ Honest(b) /\ b.to # "answer"
  BY <1>1, FixedOK
<1> QED  BY <1>2, NoAnswers DEF ScreenOK

\* Whatever button is tapped, the handler shows a screen in order.
LEMMA OpenedOK ==
  ASSUME TableOK, NEW b
  PROVE  ScreenOK(Opened(b).next) /\ Opened(b).at \in {"read", "main", "free"}
<1> DEFINE ok(S) == ScreenOK(S.next) /\ S.at \in {"read", "main", "free"}
<1>0. ASSUME NEW S, ScreenOK(S)  PROVE ok(Screen(S))
  BY <1>0 DEF Screen
<1>00. ok(FallBack) /\ ok(NoScreen)
  BY NoAnswers DEF ScreenOK, FallBack, NoScreen
<1>1. CASE channel = "telegram"
  <2>1. Serves("telegram")
    BY <1>1 DEF Serves
  <2>3. Opened(b) = HandleCallback(b)
    BY <1>1 DEF Opened
  <2>4. CASE b.to = "main"
    <3>1. Opened(b) = Screen(Main("telegram"))
      BY <2>3, <2>4 DEF HandleCallback
    <3>2. ok(Screen(Main("telegram")))
      BY <2>1, <1>0, MainOK
    <3> QED  BY <3>1, <3>2
  <2>5. CASE b.to = "ask"
    <3>1. Opened(b) = Screen(AskScreen("telegram"))
      BY <2>3, <2>5 DEF HandleCallback
    <3>2. ok(Screen(AskScreen("telegram")))
      BY <1>0, AskScreenOK
    <3> QED  BY <3>1, <3>2
  <2>6. CASE b.to \in {"category", "back"}
    <3>1. Opened(b) = Screen(CategoryScreen("telegram", b.name))
      BY <2>3, <2>6 DEF HandleCallback
    <3>2. ok(Screen(CategoryScreen("telegram", b.name)))
      BY <2>1, <1>0, CategoryScreenOK
    <3> QED  BY <3>1, <3>2
  <2>7. CASE b.to = "answer" /\ b.id \in DOMAIN faqs
    <3>1. Opened(b) = Screen(AnswerScreen("telegram", b.id))
      BY <2>3, <2>7 DEF HandleCallback
    <3>2. ok(Screen(AnswerScreen("telegram", b.id)))
      BY <2>1, <2>7, <1>0, AnswerScreenOK
    <3> QED  BY <3>1, <3>2
  <2>8. CASE ~(b.to \in {"main", "ask", "category", "back"})
             /\ ~(b.to = "answer" /\ b.id \in DOMAIN faqs)
    <3>1. Opened(b) = NoScreen
      BY <2>3, <2>8 DEF HandleCallback
    <3> QED  BY <1>00, <3>1
  <2> QED  BY <2>4, <2>5, <2>6, <2>7, <2>8
<1>2. CASE channel # "telegram"
  <2>1. Serves("messenger")
    BY <1>2 DEF Serves
  <2>3. Opened(b) = HandleMenu(b)
    BY <1>2 DEF Opened
  <2>4. CASE b.to = "main"
    <3>1. Opened(b) = Screen(Main("messenger"))
      BY <2>3, <2>4 DEF HandleMenu
    <3>2. ok(Screen(Main("messenger")))
      BY <2>1, <1>0, MainOK
    <3> QED  BY <3>1, <3>2
  <2>5. CASE b.to = "ask"
    <3>1. Opened(b) = Screen(AskScreen("messenger"))
      BY <2>3, <2>5 DEF HandleMenu
    <3>2. ok(Screen(AskScreen("messenger")))
      BY <1>0, AskScreenOK
    <3> QED  BY <3>1, <3>2
  <2>6. CASE b.to \in {"category", "back"} /\ ListByCategory(b.name, Lang) # {}
    <3>1. Opened(b) = Screen(CategoryScreen("messenger", b.name))
      BY <2>3, <2>6 DEF HandleMenu
    <3>2. ok(Screen(CategoryScreen("messenger", b.name)))
      BY <2>1, <1>0, CategoryScreenOK
    <3> QED  BY <3>1, <3>2
  <2>7. CASE b.to = "answer" /\ b.id \in DOMAIN faqs
    <3>1. Opened(b) = Screen(AnswerScreen("messenger", b.id))
      BY <2>3, <2>7 DEF HandleMenu
    <3>2. ok(Screen(AnswerScreen("messenger", b.id)))
      BY <2>1, <2>7, <1>0, AnswerScreenOK
    <3> QED  BY <3>1, <3>2
  <2>8. CASE /\ ~(b.to \in {"main", "ask"})
             /\ ~(b.to \in {"category", "back"} /\ ListByCategory(b.name, Lang) # {})
             /\ ~(b.to = "answer" /\ b.id \in DOMAIN faqs)
    <3>1. Opened(b) = FallBack
      BY <2>3, <2>8 DEF HandleMenu
    <3> QED  BY <1>00, <3>1
  <2> QED  BY <2>4, <2>5, <2>6, <2>7, <2>8
<1> QED  BY <1>1, <1>2
-----------------------------------------------------------------------------
(* What a fresh menu reaches. *)

LEMMA MainOffers ==
  ASSUME TableOK, NEW ch
  PROVE  Reached(ch) =
            {i \in UNION {Found(CategoryScreen(ch, Data(ch, c))) : c \in Offered(ch)} :
                Deliverable(ch, Main(ch)) /\ Deliverable(ch, AnswerScreen(ch, i))}
<1> DEFINE entry(c) == Button("category", c, Data(ch, c), 0)
<1>1. {m \in Main(ch) : m.to = "category"} = {entry(c) : c \in Offered(ch)}
  <2>1. ASSUME NEW c \in Offered(ch)  PROVE entry(c) \in Main(ch) /\ entry(c).to = "category"
    BY ButtonFacts DEF Main
  <2>2. ASSUME NEW m \in Main(ch), m.to = "category"
        PROVE  \E c \in Offered(ch) : m = entry(c)
    <3>1. m # Button("ask", NoName, NoName, 0)
      BY <2>2, ButtonFacts
    <3> QED  BY <3>1 DEF Main
  <2> QED  BY <2>1, <2>2
<1>2. \A c \in Offered(ch) : entry(c).name = Data(ch, c)
  BY ButtonFacts
<1> HIDE DEF entry
<1>3. UNION {Found(CategoryScreen(ch, b.name)) : b \in {m \in Main(ch) : m.to = "category"}}
        = UNION {Found(CategoryScreen(ch, Data(ch, c))) : c \in Offered(ch)}
  BY <1>1, <1>2
<1> QED  BY <1>3 DEF Reached

\* Telegram takes the menu and every answer, unless some category's name is cut
\* inside a character.
LEMMA TakenUnlessBroken ==
  ASSUME TableOK, NEW ch, NEW i \in Categorised,
         ch = "telegram" => \A j \in Categorised : Cut[faqs[j].cat] \notin Broken
  PROVE  Deliverable(ch, Main(ch)) /\ Deliverable(ch, AnswerScreen(ch, i))
<1> SUFFICES ASSUME ch = "telegram"
             PROVE  /\ \A b \in Main(ch) : b.name \notin Broken
                    /\ \A b \in AnswerScreen(ch, i) : b.name \notin Broken
  BY DEF Deliverable
<1>1. NoName \notin Broken
  BY MenuAssumption
<1>2. \A b \in Fixed : b.name = NoName
  BY ButtonFacts DEF Fixed
<1>3. ASSUME NEW j \in Categorised  PROVE Data(ch, faqs[j].cat) \notin Broken
  BY <1>3 DEF Data, Categorised
<1>4. ASSUME NEW b \in Main(ch)  PROVE b.name \notin Broken
  <2>1. CASE b = Button("ask", NoName, NoName, 0)
    BY <1>1, <2>1, ButtonFacts
  <2>2. CASE \E c \in Offered(ch) : b = Button("category", c, Data(ch, c), 0)
    <3>1. PICK c \in Offered(ch) : b = Button("category", c, Data(ch, c), 0)
      BY <2>2
    <3>2. c \in Categories(Lang)
      BY DEF Offered
    <3>3. PICK j \in Live(Lang) : faqs[j].cat = c
      BY <3>2, CategoriesAre
    <3>4. j \in Categorised
      BY <3>2, <3>3, CategoriesAre DEF Categorised
    <3>5. b.name = Data(ch, faqs[j].cat)
      BY <3>1, <3>3, ButtonFacts
    <3> QED  BY <1>3, <3>4, <3>5
  <2> QED  BY <2>1, <2>2 DEF Main
<1>5. ASSUME NEW b \in AnswerScreen(ch, i)  PROVE b.name \notin Broken
  <2> DEFINE c == faqs[i].cat
             back == Button("back", c, Data(ch, c), i)
  <2>1. b \in Fixed \/ b = back
    BY DEF AnswerScreen
  <2>2. back.name = Data(ch, c)
    BY ButtonFacts
  <2> QED  BY <1>1, <1>2, <1>3, <2>1, <2>2
<1> QED  BY <1>4, <1>5

\* The category of a FAQ is left out of Messenger's menu only when enough
\* categories have a FAQ with a smaller id.
LEMMA LeftOutIsLate ==
  ASSUME TableOK, NEW i \in Categorised, faqs[i].cat \notin Offered("messenger")
  PROVE  Cardinality({faqs[j].cat : j \in {k \in Categorised : k < i}}) >= MaxCategories
<1> DEFINE c == faqs[i].cat
           E == {d \in Categories(Lang) : FirstId(d) < FirstId(c)}
           K == {k \in Categorised : k < i}
           D == {faqs[j].cat : j \in K}
<1>1. c \in Categories(Lang)
  BY DEF Categorised, Categories
<1>2. ~(Cardinality(E) < MaxCategories)
  BY <1>1 DEF Offered, FirstOf
<1>3. ASSUME NEW d \in Categories(Lang)
      PROVE  /\ FirstId(d) \in Categorised /\ FirstId(d) \in Nat /\ faqs[FirstId(d)].cat = d
             /\ \A k \in Live(Lang) : faqs[k].cat = d => FirstId(d) <= k
  <2> DEFINE L == {k \in Live(Lang) : faqs[k].cat = d}
  <2>1. L \in SUBSET Nat /\ L # {} /\ d # NoName
    BY LiveIds, CategoriesAre
  <2>2. FirstId(d) = Lowest(L)
    BY DEF FirstId
  <2> HIDE DEF L
  <2>3. FirstId(d) \in L /\ \A k \in L : FirstId(d) <= k
    BY <2>1, <2>2, LowestIs
  <2> USE DEF L
  <2>4. FirstId(d) \in Live(Lang) /\ FirstId(d) \in Nat /\ faqs[FirstId(d)].cat = d
    BY <2>1, <2>3
  <2> QED  BY <2>1, <2>3, <2>4 DEF Categorised
<1>4. E \subseteq D
  <2> SUFFICES ASSUME NEW d \in E  PROVE d \in D
    OBVIOUS
  <2>1. i \in Live(Lang) /\ i \in Nat
    BY LiveIds DEF Categorised
  <2>2. FirstId(d) < FirstId(c) /\ FirstId(c) <= i /\ FirstId(d) \in Nat /\ FirstId(c) \in Nat
    BY <1>1, <1>3, <2>1
  <2>3. FirstId(d) < i
    BY <2>1, <2>2
  <2>4. FirstId(d) \in K /\ faqs[FirstId(d)].cat = d
    BY <1>3, <2>3
  <2> QED  BY <2>4
<1>5. IsFiniteSet(K)
  <2>1. K \subseteq Live(Lang)
    BY DEF Categorised
  <2> QED  BY <2>1, LiveIds, FS_Subset
<1>6. IsFiniteSet(D)
  <2> DEFINE f == [j \in K |-> faqs[j].cat]
  <2>1. f \in Surjection(K, D)
    BY DEF Surjection
  <2> HIDE DEF f, K, D
  <2> QED  BY <2>1, <1>5, FS_Surjection
<1> HIDE DEF E, D
<1>7. Cardinality(E) <= Cardinality(D) /\ Cardinality(E) \in Nat /\ Cardinality(D) \in Nat
  BY <1>4, <1>6, FS_Subset, FS_CardinalityType
<1>8. Cardinality(D) >= MaxCategories
  BY <1>2, <1>7, MenuAssumption
<1> QED  BY <1>8 DEF D, K

LEMMA ReachesAll ==
  ASSUME TableOK
  PROVE  MenuReachesAll
<1>1. \A ch, c : Found(CategoryScreen(ch, c)) = Shown(ch, c)
  BY CategoryFinds
<1>2. ASSUME NEW ch \in {"telegram", "messenger"}
      PROVE  Reached(ch) \subseteq Categorised
  <2> SUFFICES ASSUME NEW i \in Reached(ch)  PROVE i \in Categorised
    OBVIOUS
  <2>1. PICK c \in Offered(ch) : i \in Shown(ch, Data(ch, c))
    BY <1>1, MainOffers
  <2>2. i \in ListByCategory(Data(ch, c), Lang)
    BY <2>1, ShownFacts
  <2> QED  BY <2>2, ListIds DEF Categorised
<1>3. ASSUME NEW i \in Categorised
      PROVE  /\ i \in ListByCategory(faqs[i].cat, Lang) /\ faqs[i].cat \in Categories(Lang)
             /\ \A ch \in {"telegram", "messenger"} :
                  \/ i \in Shown(ch, Data(ch, faqs[i].cat)) => i \in Reached(ch)
                  \/ faqs[i].cat \notin Offered(ch)
                  \/ ch = "telegram" /\ \E j \in Categorised : Cut[faqs[j].cat] \in Broken
  <2>1. i \in ListByCategory(faqs[i].cat, Lang) /\ faqs[i].cat \in Categories(Lang)
    BY DEF Categorised, ListByCategory, Categories
  <2>2. ASSUME NEW ch \in {"telegram", "messenger"}, faqs[i].cat \in Offered(ch),
               ch = "telegram" => \A j \in Categorised : Cut[faqs[j].cat] \notin Broken,
               i \in Shown(ch, Data(ch, faqs[i].cat))
        PROVE  i \in Reached(ch)
    <3>1. i \in Found(CategoryScreen(ch, Data(ch, faqs[i].cat)))
      BY <1>1, <2>2
    <3>2. Deliverable(ch, Main(ch)) /\ Deliverable(ch, AnswerScreen(ch, i))
      BY <2>2, TakenUnlessBroken
    <3> QED  BY <2>2, <3>1, <3>2, MainOffers
  <2> QED  BY <2>1, <2>2
<1>4. ASSUME NEW i \in Categorised \ Reached("telegram")
      PROVE  Cut[faqs[i].cat] # faqs[i].cat \/ \E j \in Categorised : Cut[faqs[j].cat] \in Broken
  <2> SUFFICES ASSUME ~ \E j \in Categorised : Cut[faqs[j].cat] \in Broken
               PROVE  Cut[faqs[i].cat] # faqs[i].cat
    OBVIOUS
  <2>1. faqs[i].cat \in Offered("telegram") /\ faqs[i].cat # NoName
    BY <1>3, CategoriesAre DEF Offered
  <2>2. i \notin Shown("telegram", Data("telegram", faqs[i].cat))
    BY <1>3, <2>1
  <2>3. i \notin ListByCategory(Cut[faqs[i].cat], Lang)
    BY <2>1, <2>2 DEF Shown, Data
  <2> QED  BY <2>3, <1>3
<1>5. ASSUME NEW i \in Categorised \ Reached("messenger")
      PROVE  \/ Cardinality({faqs[j].cat : j \in {k \in Categorised : k < i}}) >= MaxCategories
             \/ Cardinality({k \in Categorised : k < i /\ faqs[k].cat = faqs[i].cat}) >= MaxCards
  <2> DEFINE c == faqs[i].cat
             B == {r \in ListByCategory(c, Lang) : r < i}
  <2>1. CASE c \notin Offered("messenger")
    BY <2>1, LeftOutIsLate
  <2>2. CASE c \in Offered("messenger")
    <3>1. i \notin Shown("messenger", c) /\ i \in ListByCategory(c, Lang)
      BY <1>3, <2>2 DEF Data
    <3>2. ~(Cardinality(B) < MaxCards)
      BY <3>1 DEF Shown, FirstOf, Self
    <3>3. B = {k \in Categorised : k < i /\ faqs[k].cat = c}
      BY DEF ListByCategory, Categorised
    <3>4. Cardinality(B) \in Nat
      BY ListIds, FS_Subset, FS_CardinalityType
    <3> HIDE DEF B
    <3>5. Cardinality(B) >= MaxCards
      BY <3>2, <3>4, MenuAssumption
    <3> QED  BY <3>3, <3>5
  <2> QED  BY <2>1, <2>2
<1> QED  BY <1>2, <1>4, <1>5 DEF MenuReachesAll
-----------------------------------------------------------------------------
(* The invariant. *)

\* The customer's screens, taps and the screens on their way.
ChatInv ==
  /\ screen \in [Messages -> SUBSET Buttons]
  /\ \A m \in Messages : ScreenOK(screen[m])
  /\ taps \in [Slots -> TapState]
  /\ \A i \in Slots : /\ taps[i].at # "free" => /\ taps[i].button \in Buttons
                                               /\ Honest(taps[i].button)
                      /\ ScreenOK(taps[i].next)

\* What a load holds while it waits is what the table says, if the table did not
\* change.
LoadInv(x) ==
  /\ DOMAIN x.lists \subseteq x.cats
  /\ x.read < 2 => DOMAIN x.lists = {}
  /\ x.at = "wait" =>
       /\ x.made <= edits
       /\ x.made = edits =>
            /\ x.cfg => x.chips = Categories(x.lang)
            /\ x.read >= 1 /\ x.cats # {} => x.cats = Categories(x.lang)
            /\ x.read = 2 /\ x.cats # {} => x.lists = Lists(x.cats, x.lang)

\* So is what a chip says.
ChipInv(c) == c.made <= edits /\ (c.made = edits => c.cat \in Categories(c.lang))

PageInv ==
  /\ web \in PageState
  /\ loads \in [LoadSlots -> LoadState]
  /\ \A j \in LoadSlots : LoadInv(loads[j])
  /\ \A c \in web.chips : ChipInv(c)
  /\ \A c \in web.menu : ChipInv(c)

MenuInv == TableOK /\ channel \in Channels /\ ChatInv /\ PageInv

LEMMA EmptyScreenOK == ScreenOK({})
BY NoAnswers DEF ScreenOK

LEMMA NoTapOK ==
  NoTap \in TapState /\ NoTap.at = "free" /\ NoTap.next = {}
BY DEF NoTap, TapState

LEMMA NoLists == <<>> \in ListState /\ DOMAIN <<>> = {}
<1>1. <<>> \in [{} -> SUBSET Ids] /\ DOMAIN <<>> = {}
  OBVIOUS
<1> QED  BY <1>1 DEF ListState

LEMMA NoLoadOK ==
  /\ NoLoad \in LoadState /\ NoLoad.at = "free" /\ NoLoad.read = 0 /\ DOMAIN NoLoad.lists = {}
  /\ LoadInv(NoLoad)
<1>1. 0 \in 0..MaxEdits /\ 0 \in 0..2
  BY MenuAssumption
<1>2. NoLoad \in LoadState
  BY <1>1, NoLists, MenuAssumption DEF NoLoad, LoadState
<1>3. NoLoad.at = "free" /\ NoLoad.read = 0 /\ DOMAIN NoLoad.lists = {}
  BY NoLists DEF NoLoad
<1>4. LoadInv(NoLoad)
  BY <1>3 DEF LoadInv
<1> QED  BY <1>2, <1>3, <1>4

LEMMA NewLoadOK ==
  ASSUME TableOK, NEW l \in Langs
  PROVE  NewLoad(l) \in LoadState /\ LoadInv(NewLoad(l))
<1> DEFINE x == NewLoad(l)
<1>1. edits \in 0..MaxEdits /\ edits \in Nat
  BY MenuAssumption DEF TableOK
<1>2. /\ x.at = "wait" /\ x.made = edits /\ x.cfg = FALSE /\ x.read = 0
      /\ x.cats = {} /\ x.lists = <<>>
  BY DEF NewLoad, NoLoad
<1>3. x \in LoadState
  BY <1>1, NoLoadOK DEF NewLoad, LoadState
<1> HIDE DEF x
<1>4. LoadInv(x)
  BY <1>1, <1>2, NoLists DEF LoadInv
<1> QED  BY <1>3, <1>4 DEF x

LEMMA NewPageOK ==
  ASSUME NEW l \in Langs
  PROVE  NewPage(l) \in PageState /\ NewPage(l).chips = {} /\ NewPage(l).menu = {}
BY NoLists DEF NewPage, PageState

LEMMA MenuInvInit == MenuInit => MenuInv
<1> SUFFICES ASSUME MenuInit PROVE MenuInv
  OBVIOUS
<1>1. TableOK
  BY MenuAssumption DEF MenuInit, TableOK, Ids
<1>2. ChatInv
  BY EmptyScreenOK, NoTapOK DEF MenuInit, ChatInv
<1>3. PageInv
  BY NewPageOK, NoLoadOK, MenuAssumption DEF MenuInit, PageInv
<1>4. channel \in Channels
  BY DEF MenuInit
<1> QED  BY <1>1, <1>2, <1>3, <1>4 DEF MenuInv

\* An edit leaves no button, load or chip that speaks of the table as it is.
LEMMA EditKeeps ==
  ASSUME MenuInv, Edit
  PROVE  MenuInv'
<1>1. TableOK'
  <2>1. edits' \in 0..MaxEdits
    BY MenuAssumption DEF MenuInv, TableOK, Edit
  <2>2. PICK i \in Ids :
          \/ \E c \in Names \union {NoName}, l \in Langs :
                faqs' = [j \in DOMAIN faqs \union {i} |-> IF j = i THEN Row(c, l) ELSE faqs[j]]
          \/ faqs' = [j \in DOMAIN faqs \ {i} |-> faqs[j]]
    BY DEF Edit
  <2>3. DOMAIN faqs \subseteq Ids /\ \A j \in DOMAIN faqs : faqs[j] \in FaqRow
    BY DEF MenuInv, TableOK
  <2>4. \A c \in Names \union {NoName}, l \in Langs : Row(c, l) \in FaqRow
    BY DEF Row, FaqRow
  <2>5. DOMAIN faqs' \subseteq Ids /\ \A j \in DOMAIN faqs' : faqs'[j] \in FaqRow
    BY <2>2, <2>3, <2>4
  <2> QED  BY <2>1, <2>5 DEF TableOK
<1>2. edits \in Nat /\ edits' = edits + 1
  BY DEF MenuInv, TableOK, Edit
<1>3. UNCHANGED <<channel, screen, taps, web, loads>>
  BY DEF Edit, chat, page
<1>4. ChatInv'
  <2>1. \A b \in Buttons : b.made \in Nat
    BY DEF Buttons
  <2>2. \A b \in Buttons : Honest(b) => (b.made <= edits' /\ b.made # edits')
    BY <1>2, <2>1 DEF Honest
  <2> QED  BY <1>3, <2>2 DEF MenuInv, ChatInv, ScreenOK, Honest
<1>5. PageInv'
  <2>1. ASSUME NEW j \in LoadSlots  PROVE LoadInv(loads[j])'
    <3> DEFINE x == loads[j]
    <3>1. x \in LoadState /\ LoadInv(x) /\ loads'[j] = x
      BY <1>3 DEF MenuInv, PageInv
    <3>2. x.made \in Nat
      BY <3>1 DEF LoadState
    <3> HIDE DEF x
    <3>3. x.at = "wait" => x.made <= edits' /\ x.made # edits'
      BY <1>2, <3>1, <3>2 DEF LoadInv
    <3>4. LoadInv(x)'
      BY <3>1, <3>3 DEF LoadInv, x
    <3> QED  BY <3>4 DEF x
  <2>2. \A c \in Chips : c.made \in Nat
    BY DEF Chips
  <2>3. \A c \in Chips : ChipInv(c) => ChipInv(c)'
    BY <1>2, <2>2 DEF ChipInv
  <2>4. web.chips \subseteq Chips /\ web.menu \subseteq Chips
    BY DEF MenuInv, PageInv, PageState
  <2> QED  BY <1>3, <2>1, <2>3, <2>4 DEF MenuInv, PageInv
<1> QED  BY <1>1, <1>3, <1>4, <1>5 DEF MenuInv

LEMMA ChatStep ==
  ASSUME UNCHANGED <<table, channel>>,
         screen' \in [Messages -> SUBSET Buttons], \A m \in Messages : ScreenOK(screen'[m]),
         taps' \in [Slots -> TapState],
         \A i \in Slots : /\ taps'[i].at # "free" => /\ taps'[i].button \in Buttons
                                                     /\ Honest(taps'[i].button)
                          /\ ScreenOK(taps'[i].next)
  PROVE  ChatInv'
<1>1. faqs' = faqs /\ edits' = edits /\ channel' = channel
  BY DEF table
<1> QED
  BY <1>1 DEF ChatInv, ScreenOK, Honest, Current, Categories, Live, Data

\* A tap begins, with an honest button, and no screen changes.
LEMMA BeginStep ==
  ASSUME MenuInv, NEW i \in Slots, NEW t \in TapState, taps' = [taps EXCEPT ![i] = t],
         t.button \in Buttons, Honest(t.button), t.next = {},
         UNCHANGED <<table, channel, screen>>
  PROVE  ChatInv'
<1>1. /\ taps' \in [Slots -> TapState] /\ taps'[i] = t
      /\ \A j \in Slots : j # i => taps'[j] = taps[j]
  BY DEF MenuInv, ChatInv
<1>2. \A j \in Slots : /\ taps'[j].at # "free" => /\ taps'[j].button \in Buttons
                                                  /\ Honest(taps'[j].button)
                       /\ ScreenOK(taps'[j].next)
  BY <1>1, EmptyScreenOK DEF MenuInv, ChatInv
<1>3. screen' \in [Messages -> SUBSET Buttons] /\ \A m \in Messages : ScreenOK(screen'[m])
  BY DEF MenuInv, ChatInv
<1> QED  BY <1>1, <1>2, <1>3, ChatStep

LEMMA GreetKeeps ==
  ASSUME MenuInv, Greet
  PROVE  ChatInv'
<1> DEFINE b == Button("main", NoName, NoName, 0)
<1>1. PICK i \in Slots, m \in Messages :
        taps' = [taps EXCEPT ![i] = [at |-> "main", msg |-> m, next |-> {}, button |-> b]]
  BY DEF Greet
<1>2. b \in Fixed
  BY FixedOK DEF MenuInv
<1>3. b \in Buttons /\ Honest(b)
  BY <1>2, FixedOK DEF MenuInv
<1> HIDE DEF b
<1> DEFINE t == [at |-> "main", msg |-> m, next |-> {}, button |-> b]
<1>4. t \in TapState /\ t.button = b /\ t.next = {}
  BY <1>3 DEF TapState
<1>5. taps' = [taps EXCEPT ![i] = t]
  BY <1>1
<1> HIDE DEF t
<1>6. UNCHANGED <<table, channel, screen>>
  BY DEF Greet
<1> QED  BY <1>3, <1>4, <1>5, <1>6, BeginStep

LEMMA TapKeeps ==
  ASSUME MenuInv, Tap
  PROVE  ChatInv'
<1>1. PICK i \in Slots, m \in Messages :
        \E b \in screen[m] :
            taps' = [taps EXCEPT ![i] = [at |-> "sent", button |-> b, msg |-> m, next |-> {}]]
  BY DEF Tap
<1>2. PICK b \in screen[m] :
        taps' = [taps EXCEPT ![i] = [at |-> "sent", button |-> b, msg |-> m, next |-> {}]]
  BY <1>1
<1>3. b \in Buttons /\ Honest(b)
  BY DEF MenuInv, ChatInv, ScreenOK
<1> DEFINE t == [at |-> "sent", button |-> b, msg |-> m, next |-> {}]
<1>4. t \in TapState /\ t.button = b /\ t.next = {}
  BY <1>3 DEF TapState
<1>5. taps' = [taps EXCEPT ![i] = t]
  BY <1>2
<1> HIDE DEF t
<1>6. UNCHANGED <<table, channel, screen>>
  BY DEF Tap
<1> QED  BY <1>3, <1>4, <1>5, <1>6, BeginStep

\* A tap goes on with a screen in order, or is over.
LEMMA SlotStep ==
  ASSUME MenuInv, NEW i \in Slots, NEW t \in TapState,
         taps' = [taps EXCEPT ![i] = t],
         t.at # "free" => t.button = taps[i].button /\ taps[i].at # "free",
         ScreenOK(t.next), UNCHANGED <<table, channel>>,
         screen' \in [Messages -> SUBSET Buttons], \A m \in Messages : ScreenOK(screen'[m])
  PROVE  ChatInv'
<1>1. /\ taps' \in [Slots -> TapState] /\ taps'[i] = t
      /\ \A j \in Slots : j # i => taps'[j] = taps[j]
  BY DEF MenuInv, ChatInv
<1>2. \A j \in Slots : /\ taps'[j].at # "free" => /\ taps'[j].button \in Buttons
                                                  /\ Honest(taps'[j].button)
                       /\ ScreenOK(taps'[j].next)
  BY <1>1 DEF MenuInv, ChatInv
<1> QED  BY <1>1, <1>2, ChatStep

LEMMA SameScreens ==
  ASSUME MenuInv, screen' = screen
  PROVE  screen' \in [Messages -> SUBSET Buttons] /\ \A m \in Messages : ScreenOK(screen'[m])
BY DEF MenuInv, ChatInv

LEMMA ReadKeeps ==
  ASSUME MenuInv, NEW i \in Slots, Read(i)
  PROVE  ChatInv'
<1> DEFINE o == Opened(taps[i].button)
           t == [taps[i] EXCEPT !.at = o.at, !.next = o.next]
<1>1. ScreenOK(o.next) /\ o.at \in {"read", "main", "free"}
  BY OpenedOK DEF MenuInv
<1>2. taps \in [Slots -> TapState] /\ taps[i] \in TapState
  BY DEF MenuInv, ChatInv
<1>3. o.next \subseteq Buttons
  BY <1>1 DEF ScreenOK
<1>4. taps[i].at # "free" /\ UNCHANGED <<table, channel, screen>>
  BY DEF Read
<1>5. taps' = [taps EXCEPT ![i] = IF o.at = "free" THEN NoTap ELSE t]
  BY <1>2 DEF Read
<1>6. CASE o.at = "free"
  BY <1>4, <1>5, <1>6, NoTapOK, EmptyScreenOK, SameScreens, SlotStep
<1>7. CASE o.at # "free"
  <2> HIDE DEF o
  <2>1. t \in TapState /\ t.next = o.next /\ t.button = taps[i].button
    BY <1>1, <1>2, <1>3 DEF TapState
  <2>2. taps' = [taps EXCEPT ![i] = t]
    BY <1>5, <1>7
  <2> HIDE DEF t
  <2> QED  BY <1>1, <1>4, <2>1, <2>2, SameScreens, SlotStep
<1> QED  BY <1>6, <1>7

LEMMA ReadMainKeeps ==
  ASSUME MenuInv, NEW i \in Slots, ReadMain(i)
  PROVE  ChatInv'
<1> DEFINE t == [taps[i] EXCEPT !.at = "read", !.next = Main(channel)]
<1>1. taps \in [Slots -> TapState] /\ taps[i] \in TapState
  BY DEF MenuInv, ChatInv
<1>2. ScreenOK(Main(channel))
  BY MainOK DEF MenuInv, Serves
<1>3. Main(channel) \subseteq Buttons
  BY <1>2 DEF ScreenOK
<1>4. t \in TapState /\ t.next = Main(channel) /\ t.button = taps[i].button
  BY <1>1, <1>3 DEF TapState
<1>5. taps' = [taps EXCEPT ![i] = t]
  BY <1>1 DEF ReadMain
<1> HIDE DEF t
<1>6. taps[i].at # "free" /\ UNCHANGED <<table, channel, screen>>
  BY DEF ReadMain
<1> QED  BY <1>2, <1>4, <1>5, <1>6, SameScreens, SlotStep

LEMMA ReadFailsKeeps ==
  ASSUME MenuInv, NEW i \in Slots, ReadFails(i)
  PROVE  ChatInv'
<1>1. taps \in [Slots -> TapState] /\ taps[i] \in TapState
  BY DEF MenuInv, ChatInv
<1>2. taps[i].at # "free" /\ UNCHANGED <<table, channel, screen>>
  BY DEF ReadFails
<1>3. CASE taps' = [taps EXCEPT ![i] = NoTap]
  BY <1>2, <1>3, NoTapOK, EmptyScreenOK, SameScreens, SlotStep
<1>4. CASE taps' = [taps EXCEPT ![i].at = "main"]
  <2> DEFINE t == [taps[i] EXCEPT !.at = "main"]
  <2>1. t \in TapState /\ t.next = taps[i].next /\ t.button = taps[i].button
    BY <1>1 DEF TapState
  <2>2. taps' = [taps EXCEPT ![i] = t]
    BY <1>1, <1>4
  <2>3. ScreenOK(taps[i].next)
    BY DEF MenuInv, ChatInv
  <2> HIDE DEF t
  <2> QED  BY <1>2, <2>1, <2>2, <2>3, SameScreens, SlotStep
<1> QED  BY <1>3, <1>4 DEF ReadFails

\* Of a screen in order, the cards alone are in order.
LEMMA CardsOnlyOK ==
  ASSUME NEW S, ScreenOK(S)
  PROVE  ScreenOK(Answers(S)) /\ Answers(S) \subseteq S
<1>1. Answers(Answers(S)) = Answers(S) /\ Answers(S) \subseteq S
  BY DEF Answers
<1> QED  BY <1>1 DEF ScreenOK

\* Whichever message a screen comes in, every message has at most a carousel's cards.
LEMMA ShowKeeps ==
  ASSUME MenuInv, NEW i \in Slots, Show(i)
  PROVE  ChatInv'
<1> DEFINE S == taps[i].next
<1>1. /\ screen \in [Messages -> SUBSET Buttons] /\ \A m \in Messages : ScreenOK(screen[m])
      /\ ScreenOK(S)
  BY DEF MenuInv, ChatInv
<1>2. taps' = [taps EXCEPT ![i] = NoTap] /\ UNCHANGED <<table, channel>>
  BY DEF Show
<1>3. ASSUME NEW m \in Messages, NEW T, ScreenOK(T), screen' = Arrives(m, T)
      PROVE  /\ screen' \in [Messages -> SUBSET Buttons]
             /\ \A n \in Messages : ScreenOK(screen'[n])
  <2>1. \A n \in Messages : ScreenOK(Answers(screen[n])) /\ Answers(screen[n]) \subseteq screen[n]
    BY <1>1, CardsOnlyOK
  <2>2. T \subseteq Buttons
    BY <1>3 DEF ScreenOK
  <2> QED  BY <1>1, <1>3, <2>1, <2>2 DEF Arrives
<1>4. CASE screen' = screen
  BY <1>2, <1>4, NoTapOK, EmptyScreenOK, SameScreens, SlotStep
<1>5. CASE screen' = [screen EXCEPT ![taps[i].msg] = S]
  <2> PICK n : n = taps[i].msg
    OBVIOUS
  <2> HIDE DEF S
  <2>1. S \subseteq Buttons
    BY <1>1 DEF ScreenOK
  <2>2. screen' = [screen EXCEPT ![n] = S]
    BY <1>5
  <2>3. /\ screen' \in [Messages -> SUBSET Buttons]
        /\ \A m \in Messages : ScreenOK(screen'[m])
    BY <1>1, <2>1, <2>2
  <2> QED  BY <1>2, <2>3, NoTapOK, EmptyScreenOK, SlotStep
<1>6. CASE \E m \in Messages : screen' = Arrives(m, S) \/ screen' = Arrives(m, Answers(S))
  <2>1. PICK m \in Messages : screen' = Arrives(m, S) \/ screen' = Arrives(m, Answers(S))
    BY <1>6
  <2>2. ScreenOK(Answers(S))
    BY <1>1, CardsOnlyOK
  <2>3. /\ screen' \in [Messages -> SUBSET Buttons]
        /\ \A n \in Messages : ScreenOK(screen'[n])
    <3> HIDE DEF S
    <3>1. CASE screen' = Arrives(m, S)
      BY <1>1, <1>3, <3>1
    <3>2. CASE screen' = Arrives(m, Answers(S))
      BY <1>3, <2>2, <3>2
    <3> QED  BY <2>1, <3>1, <3>2
  <2> QED  BY <1>2, <2>3, NoTapOK, EmptyScreenOK, SlotStep
<1> QED  BY <1>4, <1>5, <1>6 DEF Show

-----------------------------------------------------------------------------
(* The steps of the page. *)

LEMMA CategoriesNamed ==
  ASSUME TableOK, NEW l
  PROVE  Categories(l) \subseteq Names
BY LiveIds DEF Categories

\* One load changes, or begins, or is over.
LEMMA LoadStep ==
  ASSUME MenuInv, NEW j \in LoadSlots, NEW x \in LoadState, LoadInv(x),
         loads' = [loads EXCEPT ![j] = x], UNCHANGED table,
         web' \in PageState, \A c \in web'.chips : ChipInv(c), \A c \in web'.menu : ChipInv(c)
  PROVE  PageInv'
<1>1. loads \in [LoadSlots -> LoadState] /\ \A k \in LoadSlots : LoadInv(loads[k])
  BY DEF MenuInv, PageInv
<1>2. faqs' = faqs /\ edits' = edits
  BY DEF table
<1>3. ASSUME NEW k \in LoadSlots  PROVE LoadInv(loads[k])'
  <2> PICK y : y = loads'[k]
    OBVIOUS
  <2>1. LoadInv(y)
    BY <1>1
  <2>2. LoadInv(y)'
    BY <1>2, <2>1 DEF LoadInv, Categories, Lists, Live
  <2> QED  BY <2>2 DEF LoadInv
<1>4. \A c : ChipInv(c) => ChipInv(c)'
  BY <1>2 DEF ChipInv, Categories, Live
<1>5. loads' \in [LoadSlots -> LoadState]
  BY <1>1
<1> QED  BY <1>3, <1>4, <1>5 DEF PageInv

\* The same, of a step that draws nothing.
LEMMA LoadOnlyStep ==
  ASSUME MenuInv, NEW j \in LoadSlots, NEW x \in LoadState, LoadInv(x),
         loads' = [loads EXCEPT ![j] = x], UNCHANGED <<table, web>>
  PROVE  PageInv'
<1>1. /\ web' \in PageState
      /\ \A c \in web'.chips : ChipInv(c)
      /\ \A c \in web'.menu : ChipInv(c)
  BY DEF MenuInv, PageInv
<1> QED  BY <1>1, LoadStep

LEMMA LoadKeeps ==
  ASSUME MenuInv, Load
  PROVE  PageInv'
<1>1. web.lang \in Langs /\ TableOK
  BY DEF MenuInv, PageInv, PageState
<1>2. PICK j \in LoadSlots :
        loads' = [k \in LoadSlots |-> IF k = j THEN NewLoad(web.lang) ELSE NoLoad]
  BY DEF Load
<1>3. web' = NewPage(web.lang) /\ faqs' = faqs /\ edits' = edits
  BY DEF Load, table
<1>4. /\ NewLoad(web.lang) \in LoadState /\ LoadInv(NewLoad(web.lang))
      /\ NoLoad \in LoadState /\ LoadInv(NoLoad)
  BY <1>1, NewLoadOK, NoLoadOK
<1>5. loads' \in [LoadSlots -> LoadState] /\ \A k \in LoadSlots : LoadInv(loads'[k])
  BY <1>2, <1>4
<1>6. ASSUME NEW k \in LoadSlots  PROVE LoadInv(loads[k])'
  <2> PICK y : y = loads'[k]
    OBVIOUS
  <2>1. LoadInv(y)
    BY <1>5
  <2>2. LoadInv(y)'
    BY <1>3, <2>1 DEF LoadInv, Categories, Lists, Live
  <2> QED  BY <2>2 DEF LoadInv
<1>7. web' \in PageState /\ web'.chips = {} /\ web'.menu = {}
  BY <1>1, <1>3, NewPageOK
<1> QED  BY <1>5, <1>6, <1>7 DEF PageInv

LEMMA SwitchKeeps ==
  ASSUME MenuInv, NEW l \in Langs, SwitchLanguage(l)
  PROVE  PageInv'
<1>1. PICK j \in LoadSlots : loads' = [loads EXCEPT ![j] = NewLoad(l)]
  BY DEF SwitchLanguage
<1>2. NewLoad(l) \in LoadState /\ LoadInv(NewLoad(l))
  BY NewLoadOK DEF MenuInv
<1> DEFINE w == [web EXCEPT !.lang = l, !.chips = {}]
<1>3. web' = w /\ UNCHANGED table
  BY DEF SwitchLanguage
<1>4. web \in PageState /\ \A c \in web.menu : ChipInv(c)
  BY DEF MenuInv, PageInv
<1>5. w \in PageState /\ w.chips = {} /\ w.menu = web.menu
  BY <1>4 DEF PageState
<1> HIDE DEF w
<1> QED  BY <1>1, <1>2, <1>3, <1>4, <1>5, LoadStep

LEMMA BrowseKeeps ==
  ASSUME MenuInv, Browse
  PROVE  PageInv'
<1> DEFINE w == [web EXCEPT !.chips = @ \union web.menu]
<1>1. web' = w /\ faqs' = faqs /\ edits' = edits /\ loads' = loads
  BY DEF Browse, table
<1>2. /\ web \in PageState
      /\ \A c \in web.menu : ChipInv(c)
      /\ \A c \in web.chips : ChipInv(c)
  BY DEF MenuInv, PageInv
<1>3. w \in PageState /\ w.chips = web.chips \union web.menu /\ w.menu = web.menu
  BY <1>2 DEF PageState
<1> HIDE DEF w
<1>4. \A c : ChipInv(c) => ChipInv(c)'
  BY <1>1 DEF ChipInv, Categories, Live
<1>5. \A k \in LoadSlots : LoadInv(loads[k])'
  <2>1. \A k \in LoadSlots : LoadInv(loads[k])
    BY DEF MenuInv, PageInv
  <2> QED  BY <1>1, <2>1 DEF LoadInv, Categories, Lists, Live
<1> QED  BY <1>1, <1>2, <1>3, <1>4, <1>5 DEF MenuInv, PageInv

LEMMA LoadTyped ==
  ASSUME MenuInv, NEW j \in LoadSlots
  PROVE  /\ loads \in [LoadSlots -> LoadState] /\ loads[j] \in LoadState /\ LoadInv(loads[j])
         /\ loads[j].lang \in Langs /\ loads[j].cats \subseteq Names
         /\ loads[j].chips \subseteq Names /\ loads[j].made \in 0..MaxEdits
         /\ loads[j].read \in 0..2
BY DEF MenuInv, PageInv, LoadState

LEMMA ReadConfigKeeps ==
  ASSUME MenuInv, NEW j \in LoadSlots, ReadConfig(j)
  PROVE  PageInv'
<1> PICK x : x = loads[j]
  OBVIOUS
<1>1. x \in LoadState /\ LoadInv(x) /\ loads \in [LoadSlots -> LoadState]
  BY LoadTyped
<1> DEFINE w == [x EXCEPT !.cfg = TRUE, !.chips = Categories(x.lang)]
<1>2. Categories(x.lang) \subseteq Names
  BY CategoriesNamed DEF MenuInv
<1>3. /\ w \in LoadState /\ w.chips = Categories(x.lang) /\ w.lang = x.lang
      /\ w.at = x.at /\ w.cats = x.cats /\ w.lists = x.lists /\ w.read = x.read
      /\ w.made = x.made
  BY <1>1, <1>2 DEF LoadState
<1>4. loads' = [loads EXCEPT ![j] = w] /\ UNCHANGED <<table, web>>
  BY <1>1 DEF ReadConfig
<1> HIDE DEF w
<1>5. LoadInv(w)
  BY <1>1, <1>3 DEF LoadInv
<1> QED  BY <1>3, <1>4, <1>5, LoadOnlyStep

LEMMA ReadCategoriesKeeps ==
  ASSUME MenuInv, NEW j \in LoadSlots, ReadCategories(j)
  PROVE  PageInv'
<1> PICK x : x = loads[j]
  OBVIOUS
<1>1. x \in LoadState /\ LoadInv(x) /\ loads \in [LoadSlots -> LoadState] /\ x.read = 0
  BY LoadTyped DEF ReadCategories
<1> DEFINE w == [x EXCEPT !.read = 1, !.cats = Categories(x.lang)]
<1>2. Categories(x.lang) \subseteq Names
  BY CategoriesNamed DEF MenuInv
<1>3. /\ w \in LoadState /\ w.cats = Categories(x.lang) /\ w.lang = x.lang /\ w.read = 1
      /\ w.at = x.at /\ w.chips = x.chips /\ w.lists = x.lists /\ w.cfg = x.cfg
      /\ w.made = x.made
  BY <1>1, <1>2, 1 \in 0..2 DEF LoadState
<1>4. loads' = [loads EXCEPT ![j] = w] /\ UNCHANGED <<table, web>>
  BY <1>1 DEF ReadCategories
<1> HIDE DEF w
<1>5. LoadInv(w)
  BY <1>1, <1>3 DEF LoadInv
<1> QED  BY <1>3, <1>4, <1>5, LoadOnlyStep

LEMMA ReadListKeeps ==
  ASSUME MenuInv, NEW j \in LoadSlots, ReadList(j)
  PROVE  PageInv'
<1> PICK x : x = loads[j]
  OBVIOUS
<1>1. x \in LoadState /\ LoadInv(x) /\ loads \in [LoadSlots -> LoadState] /\ x.read = 1
  BY LoadTyped DEF ReadList
<1> DEFINE L == Lists(x.cats, x.lang)
           w == [x EXCEPT !.read = 2, !.lists = L]
<1>2. x.cats \subseteq Names
  BY <1>1 DEF LoadState
<1>3. L \in [x.cats -> SUBSET Ids] /\ DOMAIN L = x.cats
  BY LiveIds DEF MenuInv, Lists
<1>4. L \in ListState
  BY <1>2, <1>3 DEF ListState
<1>5. loads' = [loads EXCEPT ![j] = w] /\ UNCHANGED <<table, web>>
  BY <1>1 DEF ReadList
<1> HIDE DEF L
<1>6. /\ w \in LoadState /\ w.cats = x.cats /\ w.read = 2 /\ w.lists = L /\ w.lang = x.lang
      /\ w.at = x.at /\ w.chips = x.chips /\ w.cfg = x.cfg /\ w.made = x.made
  BY <1>1, <1>4, 2 \in 0..2 DEF LoadState
<1> HIDE DEF w
<1>7. w.lists = Lists(w.cats, w.lang)
  BY <1>6 DEF L
<1>8. LoadInv(w)
  BY <1>1, <1>3, <1>6, <1>7 DEF LoadInv
<1> QED  BY <1>5, <1>6, <1>8, LoadOnlyStep

LEMMA LoadFailsKeeps ==
  ASSUME MenuInv, NEW j \in LoadSlots, LoadFails(j)
  PROVE  PageInv'
<1> PICK x : x = loads[j]
  OBVIOUS
<1>1. x \in LoadState /\ LoadInv(x) /\ loads \in [LoadSlots -> LoadState]
  BY LoadTyped
<1>2. UNCHANGED <<table, web>>
  BY DEF LoadFails
<1>3. CASE loads' = [loads EXCEPT ![j] = NoLoad]
  BY <1>2, <1>3, NoLoadOK, LoadOnlyStep
<1>4. CASE loads' = [loads EXCEPT ![j].read = 2, ![j].cats = {}, ![j].lists = <<>>]
  <2> DEFINE w == [x EXCEPT !.read = 2, !.cats = {}, !.lists = <<>>]
  <2>1. /\ w \in LoadState /\ w.cats = {} /\ w.read = 2 /\ w.lists = <<>> /\ w.lang = x.lang
        /\ w.at = x.at /\ w.chips = x.chips /\ w.cfg = x.cfg /\ w.made = x.made
    BY <1>1, NoLists, 2 \in 0..2 DEF LoadState
  <2>2. loads' = [loads EXCEPT ![j] = w]
    BY <1>1, <1>4
  <2> HIDE DEF w
  <2>3. LoadInv(w)
    BY <1>1, <2>1, NoLists DEF LoadInv
  <2> QED  BY <1>2, <2>1, <2>2, <2>3, LoadOnlyStep
<1> QED  BY <1>3, <1>4 DEF LoadFails

\* The chips a load draws.
Drawn(j) == {Chip(c, loads[j].lang, loads[j].made) : c \in loads[j].chips}

LEMMA DrawnOK ==
  ASSUME MenuInv, NEW j \in LoadSlots, Draw(j)
  PROVE  \A c \in Drawn(j) : c \in Chips /\ ChipInv(c)
<1> PICK x : x = loads[j]
  OBVIOUS
<1>1. x \in LoadState /\ LoadInv(x) /\ x.at = "wait" /\ x.cfg
  BY LoadTyped DEF Draw
<1>2. x.lang \in Langs /\ x.made \in 0..MaxEdits /\ x.chips \subseteq Names
  BY <1>1 DEF LoadState
<1>3. x.made <= edits /\ (x.made = edits => x.chips = Categories(x.lang))
  BY <1>1 DEF LoadInv
<1>4. ASSUME NEW c \in Drawn(j)  PROVE c \in Chips /\ ChipInv(c)
  <2>1. PICK n \in x.chips : c = Chip(n, x.lang, x.made)
    BY DEF Drawn
  <2>2. c.cat = n /\ c.lang = x.lang /\ c.made = x.made
    BY <2>1 DEF Chip
  <2>3. c \in Chips
    BY <1>2, <2>1 DEF Chip, Chips
  <2> QED  BY <1>3, <2>2, <2>3 DEF ChipInv
<1> QED  BY <1>4

LEMMA DrawWeb ==
  ASSUME MenuInv, NEW j \in LoadSlots, Draw(j)
  PROVE  /\ web' \in PageState /\ web'.chips = web.chips \union Drawn(j)
         /\ web'.menu = Drawn(j) /\ web'.lists = loads[j].lists
<1> PICK L : L = loads[j].lists
  OBVIOUS
<1> PICK D : D = Drawn(j)
  OBVIOUS
<1>1. web \in PageState /\ L \in ListState
  BY LoadTyped DEF MenuInv, PageInv, LoadState
<1>2. D \subseteq Chips
  BY DrawnOK
<1>3. web' = [web EXCEPT !.drawn = TRUE, !.menu = D, !.chips = @ \union D, !.lists = L]
  BY DEF Draw, Drawn
<1> QED  BY <1>1, <1>2, <1>3 DEF PageState

LEMMA DrawKeeps ==
  ASSUME MenuInv, NEW j \in LoadSlots, Draw(j)
  PROVE  PageInv'
<1>1. \A c \in Drawn(j) : ChipInv(c)
  BY DrawnOK
<1>2. \A c \in web.chips : ChipInv(c)
  BY DEF MenuInv, PageInv
<1>3. loads' = [loads EXCEPT ![j] = NoLoad] /\ UNCHANGED table
  BY DEF Draw
<1> QED  BY <1>1, <1>2, <1>3, DrawWeb, NoLoadOK, LoadStep

-----------------------------------------------------------------------------
LEMMA MenuInvStep == MenuInv /\ [MenuNext]_menuVars => MenuInv'
<1> SUFFICES ASSUME MenuInv, [MenuNext]_menuVars PROVE MenuInv'
  OBVIOUS
<1>1. ASSUME UNCHANGED <<table, channel, chat>>, PageInv'  PROVE MenuInv'
  <2>1. ChatInv /\ faqs' = faqs /\ edits' = edits /\ channel' = channel
        /\ screen' = screen /\ taps' = taps
    BY <1>1 DEF MenuInv, table, chat
  <2>2. ChatInv'
    BY <1>1, <2>1, SameScreens, ChatStep DEF ChatInv
  <2> QED  BY <1>1, <2>1, <2>2 DEF MenuInv, TableOK
<1>2. ASSUME UNCHANGED <<table, channel, page>>, ChatInv'  PROVE MenuInv'
  <2>1. faqs' = faqs /\ edits' = edits /\ web' = web /\ loads' = loads /\ channel' = channel
    BY <1>2 DEF table, page
  <2>2. PageInv'
    BY <2>1 DEF MenuInv, PageInv, LoadInv, ChipInv, Categories, Lists, Live
  <2> QED  BY <1>2, <2>1, <2>2 DEF MenuInv, TableOK
<1>3. CASE Edit
  BY <1>3, EditKeeps
<1>4. CASE Greet
  BY <1>4, <1>2, GreetKeeps DEF Greet
<1>5. CASE Tap
  BY <1>5, <1>2, TapKeeps DEF Tap
<1>6. ASSUME NEW i \in Slots, Read(i) \/ ReadMain(i) \/ ReadFails(i) \/ Show(i)  PROVE MenuInv'
  <2>1. CASE Read(i)
    BY <2>1, <1>2, ReadKeeps DEF Read
  <2>2. CASE ReadMain(i)
    BY <2>2, <1>2, ReadMainKeeps DEF ReadMain
  <2>3. CASE ReadFails(i)
    BY <2>3, <1>2, ReadFailsKeeps DEF ReadFails
  <2>4. CASE Show(i)
    BY <2>4, <1>2, ShowKeeps DEF Show
  <2> QED  BY <1>6, <2>1, <2>2, <2>3, <2>4
<1>7. CASE Load
  BY <1>7, <1>1, LoadKeeps DEF Load
<1>8. CASE Browse
  BY <1>8, <1>1, BrowseKeeps DEF Browse
<1>9. ASSUME NEW l \in Langs, SwitchLanguage(l)  PROVE MenuInv'
  BY <1>9, <1>1, SwitchKeeps DEF SwitchLanguage
<1>10. ASSUME NEW j \in LoadSlots,
              ReadConfig(j) \/ ReadCategories(j) \/ ReadList(j) \/ Draw(j) \/ LoadFails(j)
       PROVE  MenuInv'
  <2>1. CASE ReadConfig(j)
    BY <2>1, <1>1, ReadConfigKeeps DEF ReadConfig
  <2>2. CASE ReadCategories(j)
    BY <2>2, <1>1, ReadCategoriesKeeps DEF ReadCategories
  <2>3. CASE ReadList(j)
    BY <2>3, <1>1, ReadListKeeps DEF ReadList
  <2>4. CASE Draw(j)
    BY <2>4, <1>1, DrawKeeps DEF Draw
  <2>5. CASE LoadFails(j)
    BY <2>5, <1>1, LoadFailsKeeps DEF LoadFails
  <2> QED  BY <1>10, <2>1, <2>2, <2>3, <2>4, <2>5
<1>11. CASE UNCHANGED menuVars
  <2>1. UNCHANGED <<table, channel, page>> /\ screen' = screen /\ taps' = taps
    BY <1>11 DEF menuVars, chat
  <2>2. ChatInv'
    BY <2>1, SameScreens, ChatStep DEF MenuInv, ChatInv
  <2> QED  BY <1>2, <2>1, <2>2
<1> QED
  BY <1>3, <1>4, <1>5, <1>6, <1>7, <1>8, <1>9, <1>10, <1>11 DEF MenuNext

LEMMA MenuInvHolds == MenuSpec => []MenuInv
BY MenuInvInit, MenuInvStep, PTL DEF MenuSpec

\* Buttons, taps and pages keep their types, and no Messenger carousel is too long.
THEOREM MenuTypeCorrect == MenuSpec => []MenuTypeOK
<1>1. MenuInv => MenuTypeOK
  BY DEF MenuInv, MenuTypeOK, TableOK, ChatInv, ScreenOK, PageInv, LoadInv
<1> QED  BY <1>1, MenuInvHolds, PTL

\* Whatever the editors did to the table, a fresh menu reaches what it should.
THEOREM ReachCorrect == MenuSpec => []MenuReachesAll
<1>1. MenuInv => MenuReachesAll
  BY ReachesAll DEF MenuInv
<1> QED  BY <1>1, MenuInvHolds, PTL

\* A button that says what the table says opens what it promises.
LEMMA OpenedKeepsPromise ==
  ASSUME TableOK, NEW b, Current(b), Uncut(b)
  PROVE  KeepsPromise(b, Opened(b).next)
<1> DEFINE h == IF channel = "telegram" THEN "telegram" ELSE "messenger"
           next == Opened(b).next
<1>1. Serves(h)
  BY DEF Serves
<1>2. ASSUME b.to \in {"category", "back"}, ListByCategory(b.label, Lang) # {}
      PROVE  Found(next) = Shown(h, b.label)
  <2>1. next = CategoryScreen(h, b.label)
    <3>1. b.name = b.label
      BY <1>2 DEF Uncut
    <3>2. CASE channel = "telegram"
      BY <1>2, <3>1, <3>2 DEF Opened, HandleCallback, Screen
    <3>3. CASE channel # "telegram"
      BY <1>2, <3>1, <3>3 DEF Opened, HandleMenu, Screen
    <3> QED  BY <3>2, <3>3
  <2> QED  BY <2>1, CategoryFinds
<1>3. ASSUME NEW c, ListByCategory(c, Lang) # {}
      PROVE  /\ Shown(h, c) # {}
             /\ \A i \in Shown(h, c) : faqs[i].cat = c /\ faqs[i].lang = Lang
  BY <1>3, ShownFacts, ListIds
<1>4. CASE b.to = "category"
  <2>1. ListByCategory(b.label, Lang) # {}
    BY <1>4, CategoriesAre DEF Current
  <2>2. Found(next) # {} /\ \A i \in Found(next) : faqs[i].cat = b.label /\ faqs[i].lang = Lang
    BY <1>2, <1>3, <1>4, <2>1
  <2> HIDE DEF next
  <2> QED  BY <1>4, <2>2 DEF KeepsPromise, next
<1>5. CASE b.to = "answer"
  <2>1. b.id \in DOMAIN faqs /\ faqs[b.id].cat # NoName
    BY <1>5 DEF Current
  <2>2. next = AnswerScreen(h, b.id)
    <3>1. CASE channel = "telegram"
      BY <1>5, <2>1, <3>1 DEF Opened, HandleCallback, Screen
    <3>2. CASE channel # "telegram"
      BY <1>5, <2>1, <3>2 DEF Opened, HandleMenu, Screen
    <3> QED  BY <3>1, <3>2
  <2>3. \E r \in next : r.to = "back" /\ r.id = b.id
    BY <1>1, <2>1, <2>2, AnswerScreenOK
  <2> HIDE DEF next
  <2> QED  BY <1>5, <2>3 DEF KeepsPromise, next
<1>6. CASE b.to = "back" /\ b.label # NoName /\ faqs[b.id].lang = Lang
  <2>1. b.id \in DOMAIN faqs /\ b.label = faqs[b.id].cat
    BY <1>6 DEF Current
  <2>2. b.id \in ListByCategory(b.label, Lang)
    BY <1>6, <2>1 DEF ListByCategory, Live
  <2>3. Found(next) # {} /\ \A i \in Found(next) : faqs[i].cat = b.label
    BY <1>2, <1>3, <1>6, <2>2
  <2> HIDE DEF next
  <2> QED  BY <1>6, <2>3 DEF KeepsPromise, next
<1>7. CASE /\ ~(b.to \in {"category", "answer"})
           /\ ~(b.to = "back" /\ b.label # NoName /\ faqs[b.id].lang = Lang)
  BY <1>7 DEF KeepsPromise
<1> QED  BY <1>4, <1>5, <1>6, <1>7

\* A button of a screen that is not older than the table's last change keeps
\* its promise.
THEOREM PromisesCorrect == MenuSpec => FreshButtonsKeepPromise
<1> DEFINE Kept ==
      \A i \in Slots :
        (Read(i) /\ taps[i].button.made = edits /\ Uncut(taps[i].button))
            => KeepsPromise(taps[i].button, taps'[i].next)
<1>1. MenuInv /\ [MenuNext]_menuVars => [Kept]_menuVars
  <2> SUFFICES ASSUME MenuInv, NEW i \in Slots, Read(i),
                      taps[i].button.made = edits, Uncut(taps[i].button)
               PROVE  KeepsPromise(taps[i].button, taps'[i].next)
    BY DEF Kept
  <2> PICK b : b = taps[i].button
    OBVIOUS
  <2>1. taps \in [Slots -> TapState] /\ taps[i] \in TapState /\ TableOK
    BY DEF MenuInv, ChatInv
  <2>2. taps'[i].next = Opened(b).next
    <3>1. Opened(b).at = "free" => Opened(b).next = {}
      BY DEF Opened, HandleCallback, HandleMenu, Screen, FallBack, NoScreen
    <3>2. taps'[i] = IF Opened(b).at = "free" THEN NoTap
                     ELSE [taps[i] EXCEPT !.at = Opened(b).at, !.next = Opened(b).next]
      BY <2>1 DEF Read
    <3> QED  BY <2>1, <3>1, <3>2, NoTapOK DEF TapState
  <2>3. Current(b)
    BY DEF MenuInv, ChatInv, Honest, Read
  <2> QED  BY <2>1, <2>2, <2>3, OpenedKeepsPromise
<1> QED  BY <1>1, MenuInvHolds, PTL DEF MenuSpec, FreshButtonsKeepPromise

\* A chip of the language that was drawn last, from the table as it is, opens its
\* category's FAQs.
THEOREM ChipsCorrect == MenuSpec => ChipsOpenTheirFaqs
<1> DEFINE Agree ==
      \A j \in LoadSlots :
        (Draw(j) /\ loads[j].made = edits /\ loads[j].cats # {})
            => \A c \in web'.chips :
                  (c.made = edits /\ c.lang = loads[j].lang) =>
                      /\ c.cat \in DOMAIN web'.lists
                      /\ web'.lists[c.cat] = {i \in Live(c.lang) : faqs[i].cat = c.cat}
                      /\ web'.lists[c.cat] # {}
<1>1. MenuInv /\ [MenuNext]_menuVars => [Agree]_menuVars
  <2> SUFFICES ASSUME MenuInv, NEW j \in LoadSlots, Draw(j), loads[j].made = edits,
                      loads[j].cats # {}, NEW c \in web'.chips, c.made = edits,
                      c.lang = loads[j].lang
               PROVE  /\ c.cat \in DOMAIN web'.lists
                      /\ web'.lists[c.cat] = {i \in Live(c.lang) : faqs[i].cat = c.cat}
                      /\ web'.lists[c.cat] # {}
    BY DEF Agree
  <2> PICK x : x = loads[j]
    OBVIOUS
  <2>1. /\ LoadInv(x) /\ x.at = "wait" /\ x.read = 2 /\ x.made = edits /\ x.cats # {}
    BY LoadTyped DEF Draw
  <2>2. x.cats = Categories(x.lang) /\ x.lists = Lists(x.cats, x.lang)
    BY <2>1 DEF LoadInv
  <2>3. c \in web.chips \/ c \in Drawn(j)
    BY DrawWeb
  <2>4. ChipInv(c)
    BY <2>3, DrawnOK DEF MenuInv, PageInv
  <2>5. c.cat \in Categories(x.lang)
    BY <2>4 DEF ChipInv
  <2>6. web'.lists = [d \in Categories(x.lang) |-> {i \in Live(x.lang) : faqs[i].cat = d}]
    BY <2>2, DrawWeb DEF Lists
  <2>7. \E i \in Live(x.lang) : faqs[i].cat = c.cat
    BY <2>5 DEF Categories
  <2> QED  BY <2>5, <2>6, <2>7
<1> QED  BY <1>1, MenuInvHolds, PTL DEF MenuSpec, ChipsOpenTheirFaqs
=============================================================================
