----------------------------- MODULE InboxProofs -----------------------------
(***************************************************************************)
(* The safety properties of Inbox, for every number of items, tenants,     *)
(* admins and concurrent requests, with or without failing calls.          *)
(***************************************************************************)
EXTENDS Inbox, TLAPS

\* What a request in progress knows about the item it holds.
JobInv ==
  \A w \in Workers :
    /\ job[w].pc \in {"lookup", "deliver", "resolve"} => job[w].item \in Item
    /\ job[w].pc \in {"deliver", "resolve"} => /\ Owner[job[w].item] = job[w].biz
                                               /\ status[job[w].item] # "none"
    /\ job[w].pc = "resolve" => job[w].item \in answered \cup misfiled
    /\ \/ job[w].pc \in {"read", "clear", "set", "unset", "show"}
       \/ job[w].surface = "tap"
       => job[w].by \in Admins
    /\ job[w].tap = "alone" => job[w].pc \in {"set", "unset", "show"}

\* Only questions that were asked are replied to.
AskedFirst == \A i \in answered \cup misfiled : status[i] # "none"

\* The inductive core: every other invariant is proved on top of it.
Safe == TypeOK /\ JobInv /\ AskedFirst

\* A prompt that stands has no request of its admin left to undo it, and a tap
\* that is alone finds the pointer where it put it.
PromptInv ==
  /\ \A a \in Admins :
       armed[a] # None /\ a \notin doubtful => pendingReply[a] = armed[a] /\ ~Busy(a)
  /\ \A w \in Workers :
       job[w].tap = "alone" =>
         /\ \A v \in Workers : v # w => job[v].by # job[w].by
         /\ job[w].pc = "show" => pendingReply[job[w].by] = job[w].item

Cause == ResolvedOnlyWithCause /\ AnsweredLeavesInbox

-----------------------------------------------------------------------------
\* The inductive core holds initially: no row, no request.
LEMMA SafeInit == Init => Safe
  BY InboxAssumption DEF Init, Safe, TypeOK, JobInv, AskedFirst, JobType, Idle, Request, PC

\* Every step preserves the inductive core.
LEMMA SafeStep == Safe /\ [Next]_vars => Safe'
<1> SUFFICES ASSUME Safe, [Next]_vars PROVE Safe'
  OBVIOUS
<1> USE InboxAssumption DEF Safe, TypeOK, JobInv, AskedFirst, JobType, PC,
                            Goto, Finish, Idle, Request,
                            AllSurfaces, history, prompts
<1>1. ASSUME NEW i \in Item, EnqueueUnanswered(i) \/ PurgeOlderThan(i) PROVE Safe'
  <2>1. /\ status' \in [Item -> {"none", "pending", "resolved", "purged"}]
        /\ \A k \in Item : status[k] # "none" => status'[k] # "none"
    BY <1>1 DEF EnqueueUnanswered, PurgeOlderThan
  <2>2. UNCHANGED <<pendingReply, job, answered, misfiled, dismissed, disturbed, armed,
                    doubtful>>
    BY <1>1 DEF EnqueueUnanswered, PurgeOlderThan
  <2> QED
    BY <2>1, <2>2 DEF Served
<1>2. ASSUME NEW b \in Businesses, NEW i \in Item, Dismiss(b, i) PROVE Safe'
  BY <1>2 DEF Dismiss, Resolved
<1>3. ASSUME NEW w \in Workers, NEW b \in Businesses, NEW i \in Item,
             HandleReply(w, b, i) \/ ApiReply(w, b, i) \/ ReplyCommand(w, i)
      PROVE Safe'
  <2>1. PICK s \in AllSurfaces, c \in Businesses : s # "tap" /\ Open(w, s, c, i)
    BY <1>3 DEF HandleReply, ApiReply, ReplyCommand
  <2> QED
    BY <2>1 DEF Open
<1>4. ASSUME NEW w \in Workers, NEW a \in Admins, TapMessage(w, a) PROVE Safe'
  BY <1>4 DEF TapMessage, Begin
<1>5. ASSUME NEW w \in Workers, NEW a \in Admins, NEW pc \in {"set", "unset"},
             NEW i \in Item \cup {None}, Tap(w, a, pc, i)
      PROVE Safe'
  BY <1>5 DEF Tap, Begin, Busy
<1>6. ASSUME NEW w \in Workers, SetPendingReply(w) \/ EditMenu(w) PROVE Safe'
  BY <1>6 DEF SetPendingReply, EditMenu
<1>7. ASSUME NEW w \in Workers, PendingReply(w) PROVE Safe'
  BY <1>7 DEF PendingReply
<1>8. ASSUME NEW w \in Workers, FallThrough(w) \/ Die(w) PROVE Safe'
  <2>1. CASE FallThrough(w)
    BY <2>1 DEF FallThrough
  <2>2. CASE Die(w)
    BY <2>2 DEF Die
  <2> QED
    BY <1>8, <2>1, <2>2
<1>9. ASSUME NEW w \in Workers, GetUnanswered(w) PROVE Safe'
  BY <1>9 DEF GetUnanswered, Found
<1>10. ASSUME NEW w \in Workers, Deliver(w) PROVE Safe'
  BY <1>10 DEF Deliver, Reply, Served
<1>11. ASSUME NEW w \in Workers, ResolveUnanswered(w) PROVE Safe'
  <2>1. /\ status' \in [Item -> {"none", "pending", "resolved", "purged"}]
        /\ \A k \in Item : status[k] # "none" => status'[k] # "none"
    BY <1>11 DEF ResolveUnanswered, Resolved
  <2> QED
    BY <1>11, <2>1 DEF ResolveUnanswered, Served
<1>12. ASSUME NEW w \in Workers, ClearPendingReply(w) PROVE Safe'
  BY <1>12 DEF ClearPendingReply
<1>13. CASE UNCHANGED vars
  BY <1>13 DEF vars
<1> QED
  BY <1>1, <1>2, <1>3, <1>4, <1>5, <1>6, <1>7, <1>8, <1>9, <1>10, <1>11, <1>12,
     <1>13 DEF Next, Step, StartReply, CancelReply

\* Rows, pointers and requests keep their shape.
THEOREM TypeCorrect == Spec => []TypeOK
<1>1. Spec => []Safe
  BY SafeInit, SafeStep, PTL DEF Spec
<1> QED
  BY <1>1, PTL DEF Safe

\* A question reached by a delivery or a dismissal accounts for every item that
\* left the inbox, and for every answered one that is still in it.
LEMMA CauseStep == Safe /\ Cause /\ [Next]_vars => Cause'
<1> SUFFICES ASSUME Safe, Cause, [Next]_vars PROVE Cause'
  OBVIOUS
<1> USE InboxAssumption DEF Safe, TypeOK, JobInv, AskedFirst, JobType, PC,
                            Cause, Goto, Finish, Idle,
                            Request, history, prompts, ResolvedOnlyWithCause,
                            AnsweredLeavesInbox
<1>1. ASSUME NEW i \in Item, EnqueueUnanswered(i) \/ PurgeOlderThan(i) PROVE Cause'
  <2>1. CASE EnqueueUnanswered(i)
    BY <2>1 DEF EnqueueUnanswered
  <2>2. CASE PurgeOlderThan(i)
    <3>1. \A k \in Item : status'[k] = "purged" \/ status'[k] = status[k]
      BY <2>2 DEF PurgeOlderThan
    <3>2. UNCHANGED <<job, answered, misfiled, dismissed, disturbed>>
      BY <2>2 DEF PurgeOlderThan
    <3> QED
      BY <3>1, <3>2 DEF Served
  <2> QED
    BY <1>1, <2>1, <2>2
<1>2. ASSUME NEW b \in Businesses, NEW i \in Item, Dismiss(b, i) PROVE Cause'
  <2>1. CASE status[i] = "pending" /\ Owner[i] = b
    <3>1. status' = [status EXCEPT ![i] = "resolved"] /\ status'[i] # status[i]
      BY <1>2, <2>1 DEF Dismiss, Resolved
    <3>2. dismissed' = dismissed \cup {i}
      BY <1>2, <3>1 DEF Dismiss
    <3> QED
      BY <1>2, <3>1, <3>2 DEF Dismiss
  <2>2. CASE ~(status[i] = "pending" /\ Owner[i] = b)
    BY <1>2, <2>2 DEF Dismiss, Resolved
  <2> QED
    BY <2>1, <2>2
<1>3. ASSUME NEW w \in Workers, NEW b \in Businesses, NEW i \in Item,
             HandleReply(w, b, i) \/ ApiReply(w, b, i) \/ ReplyCommand(w, i)
      PROVE Cause'
  <2>1. PICK s \in AllSurfaces, c \in Businesses : Open(w, s, c, i)
    BY <1>3 DEF HandleReply, ApiReply, ReplyCommand, AllSurfaces
  <2> QED
    BY <2>1 DEF Open
<1>4. ASSUME NEW w \in Workers, NEW a \in Admins, TapMessage(w, a) PROVE Cause'
  BY <1>4 DEF TapMessage, Begin
<1>5. ASSUME NEW w \in Workers, NEW a \in Admins, NEW pc \in {"set", "unset"},
             NEW i \in Item \cup {None}, Tap(w, a, pc, i)
      PROVE Cause'
  BY <1>5 DEF Tap, Begin, Busy
<1>6. ASSUME NEW w \in Workers, SetPendingReply(w) \/ EditMenu(w) PROVE Cause'
  BY <1>6 DEF SetPendingReply, EditMenu
<1>7. ASSUME NEW w \in Workers, PendingReply(w) PROVE Cause'
  BY <1>7 DEF PendingReply
<1>8. ASSUME NEW w \in Workers, FallThrough(w) \/ Die(w) PROVE Cause'
  BY <1>8 DEF FallThrough, Die
<1>9. ASSUME NEW w \in Workers, GetUnanswered(w) PROVE Cause'
  BY <1>9 DEF GetUnanswered, Found
<1>10. ASSUME NEW w \in Workers, Deliver(w) PROVE Cause'
  BY <1>10 DEF Deliver, Reply, Served
<1>11. ASSUME NEW w \in Workers, ResolveUnanswered(w) PROVE Cause'
  <2> DEFINE i == job[w].item
  <2>1. i \in Item /\ i \in answered \cup misfiled
    BY <1>11 DEF ResolveUnanswered
  <2>2. UNCHANGED <<answered, misfiled, dismissed>>
    BY <1>11 DEF ResolveUnanswered
  <2>3. \A k \in Item : status'[k] = status[k] \/ (k = i /\ status'[k] = "resolved")
    BY <1>11, <2>1 DEF ResolveUnanswered, Resolved
  <2>4. disturbed' = disturbed \cup {i} \/ status'[i] # "pending"
    BY <1>11, <2>1 DEF ResolveUnanswered, Resolved
  <2>5. disturbed \subseteq disturbed'
    BY <1>11 DEF ResolveUnanswered
  <2>6. \A v \in Workers \ {w} : job'[v] = job[v]
    BY <1>11 DEF ResolveUnanswered
  <2>7. ResolvedOnlyWithCause'
    BY <2>1, <2>2, <2>3 DEF Served
  <2>8. AnsweredLeavesInbox'
    BY <2>1, <2>2, <2>3, <2>4, <2>5, <2>6 DEF Served
  <2> QED
    BY <2>7, <2>8
<1>12. ASSUME NEW w \in Workers, ClearPendingReply(w) PROVE Cause'
  BY <1>12 DEF ClearPendingReply
<1>13. CASE UNCHANGED vars
  BY <1>13 DEF vars
<1> QED
  BY <1>1, <1>2, <1>3, <1>4, <1>5, <1>6, <1>7, <1>8, <1>9, <1>10, <1>11, <1>12,
     <1>13 DEF Next, Step, StartReply, CancelReply

\* A prompt is undone only by its admin's next message, next prompt or cancel,
\* once no earlier message of that admin is in progress.
LEMMA PromptStep == Safe /\ PromptInv /\ [Next]_vars => PromptInv'
<1> SUFFICES ASSUME Safe, PromptInv, [Next]_vars PROVE PromptInv'
  OBVIOUS
<1> USE InboxAssumption DEF Safe, TypeOK, JobInv, AskedFirst, JobType, PC,
                            PromptInv, Goto, Finish,
                            Idle, Request, history, prompts, Busy
<1>1. ASSUME NEW i \in Item, EnqueueUnanswered(i) \/ PurgeOlderThan(i) PROVE PromptInv'
  BY <1>1 DEF EnqueueUnanswered, PurgeOlderThan
<1>2. ASSUME NEW b \in Businesses, NEW i \in Item, Dismiss(b, i) PROVE PromptInv'
  BY <1>2 DEF Dismiss
<1>3. ASSUME NEW w \in Workers, NEW b \in Businesses, NEW i \in Item,
             HandleReply(w, b, i) \/ ApiReply(w, b, i) \/ ReplyCommand(w, i)
      PROVE PromptInv'
  <2>1. PICK s \in AllSurfaces, c \in Businesses : Open(w, s, c, i)
    BY <1>3 DEF HandleReply, ApiReply, ReplyCommand, AllSurfaces
  <2> QED
    BY <2>1 DEF Open
<1>4. ASSUME NEW w \in Workers, NEW a \in Admins, TapMessage(w, a) PROVE PromptInv'
  BY <1>4 DEF TapMessage, Begin
<1>5. ASSUME NEW w \in Workers, NEW a \in Admins, NEW pc \in {"set", "unset"},
             NEW i \in Item \cup {None}, Tap(w, a, pc, i)
      PROVE PromptInv'
  BY <1>5 DEF Tap, Begin
<1>6. ASSUME NEW w \in Workers, SetPendingReply(w) \/ EditMenu(w) PROVE PromptInv'
  BY <1>6 DEF SetPendingReply, EditMenu
<1>7. ASSUME NEW w \in Workers, PendingReply(w) PROVE PromptInv'
  BY <1>7 DEF PendingReply
<1>8. ASSUME NEW w \in Workers, FallThrough(w) \/ Die(w) PROVE PromptInv'
  BY <1>8 DEF FallThrough, Die
<1>9. ASSUME NEW w \in Workers, GetUnanswered(w) PROVE PromptInv'
  BY <1>9 DEF GetUnanswered
<1>10. ASSUME NEW w \in Workers, Deliver(w) PROVE PromptInv'
  BY <1>10 DEF Deliver
<1>11. ASSUME NEW w \in Workers, ResolveUnanswered(w) PROVE PromptInv'
  BY <1>11 DEF ResolveUnanswered
<1>12. ASSUME NEW w \in Workers, ClearPendingReply(w) PROVE PromptInv'
  BY <1>12 DEF ClearPendingReply
<1>13. CASE UNCHANGED vars
  BY <1>13 DEF vars
<1> QED
  BY <1>1, <1>2, <1>3, <1>4, <1>5, <1>6, <1>7, <1>8, <1>9, <1>10, <1>11, <1>12,
     <1>13 DEF Next, Step, StartReply, CancelReply

-----------------------------------------------------------------------------
\* A question never leaves the inbox unless its customer received a reply or an
\* admin dismissed it.
THEOREM CauseOfResolution == Spec => []ResolvedOnlyWithCause
<1>1. Init => Cause
  BY DEF Init, Cause, ResolvedOnlyWithCause, AnsweredLeavesInbox
<1>2. Spec => [](Safe /\ Cause)
  BY <1>1, SafeInit, SafeStep, CauseStep, PTL DEF Spec
<1> QED
  BY <1>2, PTL DEF Cause

\* An answered question still open to a second reply is about to be resolved, or
\* some call or request for it failed.
THEOREM AnsweredLeaves == Spec => []AnsweredLeavesInbox
<1>1. Init => Cause
  BY DEF Init, Cause, ResolvedOnlyWithCause, AnsweredLeavesInbox
<1>2. Spec => [](Safe /\ Cause)
  BY <1>1, SafeInit, SafeStep, CauseStep, PTL DEF Spec
<1> QED
  BY <1>2, PTL DEF Cause

\* No request delivers or resolves a question of another tenant.
THEOREM TenantScope == Spec => []RepliesStayInTenant
<1>1. Safe => RepliesStayInTenant
  BY DEF Safe, JobInv, RepliesStayInTenant
<1> QED
  BY <1>1, SafeInit, SafeStep, PTL DEF Spec

\* The pointer stays where the panel said it is, unless an earlier message of
\* the admin was still being processed when it said so.
THEOREM PromptCorrect == Spec => []PromptStands
<1>1. Init => PromptInv
  BY DEF Init, PromptInv, Idle, Request
<1>2. PromptInv => PromptStands
  BY DEF PromptInv, PromptStands
<1> QED
  BY <1>1, <1>2, SafeInit, SafeStep, PromptStep, PTL DEF Spec

-----------------------------------------------------------------------------
(* The inbox implements Ticket.                                            *)

\* No row and no claim at the start.
LEMMA TicketInit == Init => T!Init
  BY DEF Init, T!Init, Claims, Idle, Request, ServedStatus, Served

\* A step that moves no request to or from its delivery changes no claim.
LEMMA ClaimsUnchanged ==
  ASSUME \A w \in Workers : (job'[w].pc = "deliver" \/ job[w].pc = "deliver")
                             => job'[w].pc = job[w].pc /\ job'[w].item = job[w].item
  PROVE  Claims' = Claims
  BY DEF Claims

\* A request that neither is nor comes to be at its delivery leaves them so.
LEMMA ClaimsAside ==
  ASSUME NEW w \in Workers, job[w].pc # "deliver", job'[w].pc # "deliver",
         \A v \in Workers : v # w => job'[v] = job[v]
  PROVE  Claims' = Claims
<1>1. \A v \in Workers : (job'[v].pc = "deliver" \/ job[v].pc = "deliver")
                            => job'[v].pc = job[v].pc /\ job'[v].item = job[v].item
  OBVIOUS
<1> QED
  BY <1>1, ClaimsUnchanged

\* A request that leaves its delivery drops its claim and no other.
LEMMA ClaimDropped ==
  ASSUME Safe, NEW w \in Workers, NEW r, r.pc # "deliver", job[w].pc = "deliver",
         job' = [job EXCEPT ![w] = r]
  PROVE  /\ job[w].item \in Served => /\ Claims' = [Claims EXCEPT ![job[w].item] = @ \ {w}]
                                     /\ w \in Claims[job[w].item]
         /\ job[w].item \notin Served => Claims' = Claims
<1>1. job[w].item \in Item /\ job'[w].pc # "deliver" /\ job \in [Workers -> JobType]
  BY DEF Safe, TypeOK, JobInv
<1>2. \A v \in Workers : v # w => job'[v] = job[v]
  BY <1>1
<1> QED
  BY <1>1, <1>2 DEF Claims

\* What became of another tenant's question is not a ticket's business.
LEMMA NotServed ==
  ASSUME Safe, NEW i \in Item \ Served, Claims' = Claims, UNCHANGED answered,
         \A j \in Served : status'[j] = status[j],
         dismissed' \in {dismissed, dismissed \cup {i}}
  PROVE  UNCHANGED T!vars
<1>1. ServedStatus' = ServedStatus
  BY DEF ServedStatus
<1>2. (dismissed \cap Served)' = dismissed \cap Served
  BY DEF Served
<1> QED
  BY <1>1, <1>2 DEF T!vars

\* Each step of the inbox is a step of a ticket or none.
LEMMA TicketStep == Safe /\ [Next]_vars => [T!Next]_(T!vars)
<1> SUFFICES ASSUME Safe, [Next]_vars PROVE T!Next \/ UNCHANGED T!vars
  OBVIOUS
<1> USE DEF history, prompts
<1>0. TypeOK /\ JobInv
  BY DEF Safe
<1>1. ASSUME NEW i \in Item, EnqueueUnanswered(i) PROVE T!Next \/ UNCHANGED T!vars
  <2>1. Claims' = Claims
    BY <1>1 DEF EnqueueUnanswered, Claims
  <2>2. CASE i \in Served
    <3>1. ServedStatus' = [ServedStatus EXCEPT ![i] = "pending"] /\ ServedStatus[i] = "none"
      BY <1>0, <1>1, <2>2 DEF EnqueueUnanswered, ServedStatus, Served, TypeOK
    <3>2. T!Raise(i)
      BY <1>1, <2>1, <3>1 DEF EnqueueUnanswered, T!Raise
    <3> QED
      BY <2>2, <3>2 DEF T!Next
  <2>3. CASE i \notin Served
    <3>1. \A j \in Served : status'[j] = status[j]
      BY <1>0, <1>1, <2>3 DEF EnqueueUnanswered, Served, TypeOK
    <3> QED
      BY <1>1, <2>1, <2>3, <3>1, NotServed DEF EnqueueUnanswered
  <2> QED
    BY <2>2, <2>3
<1>2. ASSUME NEW c \in Item, PurgeOlderThan(c) PROVE T!Next
  <2> DEFINE S == {i \in Served : i <= c /\ status[i] # "none"}
  <2>1. Claims' = Claims
    BY <1>2 DEF PurgeOlderThan, Claims
  <2>2. ServedStatus' = [i \in Served |-> IF i \in S THEN "purged" ELSE ServedStatus[i]]
    BY <1>2 DEF PurgeOlderThan, ServedStatus, Served
  <2>3. T!Forget(S)
    BY <1>2, <2>1, <2>2 DEF PurgeOlderThan, T!Forget, ServedStatus
  <2> QED
    BY <2>3 DEF T!Next
<1>3. ASSUME NEW b \in Businesses, NEW i \in Item, Dismiss(b, i)
      PROVE T!Next \/ UNCHANGED T!vars
  <2>1. Claims' = Claims
    BY <1>3 DEF Dismiss, Claims
  <2>2. CASE status[i] = "pending" /\ Owner[i] = b
    <3>1. status' = [status EXCEPT ![i] = "resolved"] /\ status'[i] # status[i]
      BY <1>0, <1>3, <2>2 DEF Dismiss, Resolved, TypeOK
    <3>2. dismissed' = dismissed \cup {i}
      BY <1>3, <3>1 DEF Dismiss
    <3>3. CASE i \in Served
      <4>1. /\ ServedStatus' = [ServedStatus EXCEPT ![i] = "resolved"]
            /\ ServedStatus[i] = "pending"
        BY <2>2, <3>1, <3>3 DEF ServedStatus, Served
      <4>2. (dismissed \cap Served)' = (dismissed \cap Served) \cup {i}
        BY <3>2, <3>3 DEF Served
      <4>3. T!Dismiss(i)
        BY <1>3, <2>1, <4>1, <4>2 DEF Dismiss, T!Dismiss
      <4> QED
        BY <3>3, <4>3 DEF T!Next
    <3>4. CASE i \notin Served
      <4>1. \A j \in Served : status'[j] = status[j]
        BY <3>1, <3>4
      <4> QED
        BY <1>3, <2>1, <3>2, <3>4, <4>1, NotServed DEF Dismiss
    <3> QED
      BY <3>3, <3>4
  <2>3. CASE ~(status[i] = "pending" /\ Owner[i] = b)
    <3>1. UNCHANGED <<status, dismissed, answered>>
      BY <1>3, <2>3 DEF Dismiss, Resolved
    <3> QED
      BY <2>1, <3>1 DEF T!vars, ServedStatus, Served
  <2> QED
    BY <2>2, <2>3
<1>4. ASSUME NEW w \in Workers, NEW b \in Businesses, NEW i \in Item,
             HandleReply(w, b, i) \/ ApiReply(w, b, i) \/ ReplyCommand(w, i)
      PROVE UNCHANGED T!vars
  <2>1. PICK s \in AllSurfaces, c \in Businesses : Open(w, s, c, i)
    BY <1>4, InboxAssumption DEF HandleReply, ApiReply, ReplyCommand, AllSurfaces
  <2>2. Claims' = Claims
    BY <1>0, <2>1, ClaimsUnchanged DEF Open, Request, TypeOK, JobType
  <2> QED
    BY <2>1, <2>2 DEF Open, T!vars, ServedStatus, Served
<1>5. ASSUME NEW w \in Workers, NEW a \in Admins, TapMessage(w, a)
      PROVE UNCHANGED T!vars
  <2>1. Claims' = Claims
    BY <1>0, <1>5, ClaimsUnchanged DEF TapMessage, Begin, Request, TypeOK, JobType
  <2> QED
    BY <1>5, <2>1 DEF TapMessage, T!vars, ServedStatus, Served
<1>6. ASSUME NEW w \in Workers, NEW a \in Admins, NEW pc \in {"set", "unset"},
             NEW i \in Item \cup {None}, Tap(w, a, pc, i)
      PROVE UNCHANGED T!vars
  <2>1. Claims' = Claims
    BY <1>0, <1>6, ClaimsUnchanged DEF Tap, Begin, Request, TypeOK, JobType
  <2> QED
    BY <1>6, <2>1 DEF Tap, T!vars, ServedStatus, Served
<1>7. ASSUME NEW w \in Workers, SetPendingReply(w) \/ EditMenu(w)
      PROVE UNCHANGED T!vars
  <2>1. Claims' = Claims
    BY <1>0, <1>7, ClaimsUnchanged DEF SetPendingReply, EditMenu, Goto, Finish, Idle,
       Request, TypeOK, JobType
  <2> QED
    BY <1>7, <2>1 DEF SetPendingReply, EditMenu, T!vars, ServedStatus, Served
<1>8. ASSUME NEW w \in Workers, PendingReply(w) \/ FallThrough(w) \/ ClearPendingReply(w)
      PROVE UNCHANGED T!vars
  <2>1. job \in [Workers -> JobType] /\ Idle.pc = "idle"
    BY <1>0 DEF TypeOK, Idle, Request
  <2>2. job[w].pc # "deliver" /\ \A v \in Workers : v # w => job'[v] = job[v]
    <3>1. CASE PendingReply(w)
      BY <2>1, <3>1 DEF PendingReply, Goto
    <3>2. CASE FallThrough(w) \/ ClearPendingReply(w)
      BY <2>1, <3>2 DEF FallThrough, ClearPendingReply, Finish
    <3> QED
      BY <1>8, <3>1, <3>2
  <2>3. job'[w].pc # "deliver"
    <3>1. CASE PendingReply(w)
      BY <2>1, <3>1 DEF PendingReply, Goto, JobType
    <3>2. CASE FallThrough(w) \/ ClearPendingReply(w)
      BY <2>1, <3>2 DEF FallThrough, ClearPendingReply, Finish
    <3> QED
      BY <1>8, <3>1, <3>2
  <2>4. Claims' = Claims
    BY <2>2, <2>3, ClaimsAside
  <2> QED
    BY <1>8, <2>4 DEF PendingReply, FallThrough, ClearPendingReply, T!vars, ServedStatus,
       Served
<1>9. ASSUME NEW w \in Workers, GetUnanswered(w) PROVE T!Next \/ UNCHANGED T!vars
  <2> DEFINE i == job[w].item
  <2>1. i \in Item /\ job[w].pc = "lookup" /\ job \in [Workers -> JobType]
    BY <1>0, <1>9 DEF GetUnanswered, JobInv, TypeOK
  <2>2. CASE status[i] = "pending" /\ Goto(w, "deliver")
    <3>1. job'[w].pc = "deliver" /\ job'[w].item = i
      BY <2>1, <2>2 DEF Goto, JobType
    <3>2. \A v \in Workers : v # w => job'[v] = job[v]
      BY <2>1, <2>2 DEF Goto
    <3>3. CASE i \in Served
      <4>1. Claims' = [Claims EXCEPT ![i] = @ \cup {w}]
        BY <2>1, <3>1, <3>2 DEF Claims
      <4>2. ServedStatus[i] = "pending" /\ ServedStatus' = ServedStatus
        BY <1>9, <2>2, <3>3 DEF GetUnanswered, ServedStatus, Served
      <4>3. T!Claim(i, w)
        BY <1>9, <4>1, <4>2 DEF GetUnanswered, T!Claim
      <4> QED
        BY <3>3, <4>3 DEF T!Next
    <3>4. CASE i \notin Served
      <4>1. Claims' = Claims
        BY <2>1, <3>1, <3>2, <3>4 DEF Claims
      <4> QED
        BY <1>9, <2>1, <3>4, <4>1, NotServed DEF GetUnanswered
    <3> QED
      BY <3>3, <3>4
  <2>3. CASE Goto(w, "clear") \/ Finish(w)
    <3>1. Claims' = Claims
      BY <2>1, <2>3, ClaimsUnchanged DEF Goto, Finish, Idle, Request, JobType
    <3> QED
      BY <1>9, <3>1 DEF GetUnanswered, T!vars, ServedStatus, Served
  <2> QED
    BY <1>9, <2>2, <2>3 DEF GetUnanswered, Found
<1>10. ASSUME NEW w \in Workers, Deliver(w) PROVE T!Next \/ UNCHANGED T!vars
  <2> DEFINE i == job[w].item
  <2>1. i \in Item /\ job[w].pc = "deliver" /\ job[w] \in JobType
    BY <1>0, <1>10 DEF Deliver, JobInv, TypeOK
  <2>2. PICK r : r.pc # "deliver" /\ job' = [job EXCEPT ![w] = r]
    <3>1. ASSUME NEW pc, pc # "deliver", Goto(w, pc)
          PROVE \E r : r.pc # "deliver" /\ job' = [job EXCEPT ![w] = r]
      <4>1. job' = [job EXCEPT ![w] = [job[w] EXCEPT !.pc = pc]]
        BY <3>1 DEF Goto
      <4>2. [job[w] EXCEPT !.pc = pc].pc # "deliver"
        BY <2>1, <3>1 DEF JobType
      <4> QED
        BY <4>1, <4>2
    <3>2. ASSUME Finish(w)
          PROVE \E r : r.pc # "deliver" /\ job' = [job EXCEPT ![w] = r]
      <4>1. Idle.pc # "deliver"
        BY DEF Idle, Request
      <4> QED
        BY <3>2, <4>1 DEF Finish
    <3> QED
      BY <1>10, <3>1, <3>2 DEF Deliver
  <2>3. /\ Reply(i) \/ UNCHANGED <<answered, misfiled>>
        /\ UNCHANGED <<status, dismissed>>
    BY <1>10 DEF Deliver
  <2>4. ServedStatus' = ServedStatus /\ (dismissed \cap Served)' = dismissed \cap Served
    BY <2>3 DEF ServedStatus, Served
  <2>5. CASE i \in Served
    <3>1. Claims' = [Claims EXCEPT ![i] = @ \ {w}] /\ w \in Claims[i]
      BY <2>1, <2>2, <2>5, ClaimDropped
    <3>2. T!GiveUp(i, w)
      BY <2>3, <2>4, <2>5, <3>1 DEF Reply, T!GiveUp
    <3> QED
      BY <2>5, <3>2 DEF T!Next
  <2>6. CASE i \notin Served
    <3>1. Claims' = Claims
      BY <2>1, <2>2, <2>6, ClaimDropped
    <3> QED
      BY <2>3, <2>4, <2>6, <3>1 DEF Reply, T!vars
  <2> QED
    BY <2>5, <2>6
<1>11. ASSUME NEW w \in Workers, ResolveUnanswered(w) PROVE T!Next \/ UNCHANGED T!vars
  <2> DEFINE i == job[w].item
  <2>1. i \in Item /\ i \in answered \cup misfiled /\ Owner[i] = job[w].biz
    BY <1>0, <1>11 DEF ResolveUnanswered, JobInv
  <2>2. Claims' = Claims
    BY <1>0, <1>11, ClaimsUnchanged DEF ResolveUnanswered, Goto, Finish, Idle, Request,
       TypeOK, JobType
  <2>3. UNCHANGED <<answered, dismissed>> /\ (dismissed \cap Served)' = dismissed \cap Served
    BY <1>11 DEF ResolveUnanswered, Served
  <2>4. CASE status' = status
    BY <2>2, <2>3, <2>4 DEF T!vars, ServedStatus, Served
  <2>5. CASE status[i] = "pending" /\ status' = [status EXCEPT ![i] = "resolved"]
    <3>1. CASE i \in Served
      <4>1. /\ ServedStatus' = [ServedStatus EXCEPT ![i] = "resolved"]
            /\ ServedStatus[i] = "pending"
        BY <1>0, <2>5, <3>1 DEF ServedStatus, Served, TypeOK
      <4>2. i \in answered
        BY <1>0, <2>1, <3>1 DEF TypeOK
      <4>3. T!Close(i)
        BY <2>2, <2>3, <4>1, <4>2 DEF T!Close
      <4> QED
        BY <3>1, <4>3 DEF T!Next
    <3>2. CASE i \notin Served
      <4>1. \A j \in Served : status'[j] = status[j]
        BY <2>5, <3>2
      <4> QED
        BY <2>1, <2>2, <2>3, <3>2, <4>1, NotServed
    <3> QED
      BY <3>1, <3>2
  <2>6. status' \in {status, Resolved(job[w].biz, i)}
    BY <1>11 DEF ResolveUnanswered
  <2> QED
    BY <2>4, <2>5, <2>6 DEF Resolved
<1>12. ASSUME NEW w \in Workers, Die(w) PROVE T!Next \/ UNCHANGED T!vars
  <2>1. UNCHANGED <<answered, ServedStatus>> /\ (dismissed \cap Served)' = dismissed \cap Served
    BY <1>12 DEF Die, ServedStatus, Served
  <2>2. CASE job[w].pc = "deliver" /\ job[w].item \in Served
    <3>1. Idle.pc # "deliver" /\ job' = [job EXCEPT ![w] = Idle]
      BY <1>12 DEF Die, Finish, Idle, Request
    <3>2. Claims' = [Claims EXCEPT ![job[w].item] = @ \ {w}] /\ w \in Claims[job[w].item]
      BY <2>2, <3>1, ClaimDropped
    <3>3. T!GiveUp(job[w].item, w)
      BY <2>1, <3>2 DEF T!GiveUp
    <3> QED
      BY <2>2, <3>3 DEF T!Next
  <2>3. CASE job[w].pc = "deliver" /\ job[w].item \notin Served
    <3>1. Idle.pc # "deliver" /\ job' = [job EXCEPT ![w] = Idle]
      BY <1>12 DEF Die, Finish, Idle, Request
    <3>2. Claims' = Claims
      BY <2>3, <3>1, ClaimDropped
    <3> QED
      BY <2>1, <3>2 DEF T!vars
  <2>4. CASE job[w].pc # "deliver"
    <3>1. Claims' = Claims
      BY <1>0, <1>12, <2>4, ClaimsUnchanged DEF Die, Finish, Idle, Request, TypeOK, JobType
    <3> QED
      BY <2>1, <3>1 DEF T!vars
  <2> QED
    BY <2>2, <2>3, <2>4
<1>13. CASE UNCHANGED vars
  <2>1. Claims' = Claims
    BY <1>13 DEF vars, Claims
  <2> QED
    BY <1>13, <2>1 DEF vars, T!vars, ServedStatus, Served
<1> QED
  BY <1>1, <1>2, <1>3, <1>4, <1>5, <1>6, <1>7, <1>8, <1>9, <1>10, <1>11, <1>12,
     <1>13, InboxAssumption DEF Next, Step, StartReply, CancelReply

\* The inbox implements Ticket: replies are sent only on claims taken while the
\* question was pending, and questions close only on a reply or a dismissal.
THEOREM InboxImplementsTicket == Spec => ImplementsTicket
  BY TicketInit, SafeInit, SafeStep, TicketStep, PTL DEF Spec, ImplementsTicket, T!Spec
=============================================================================
