--------------------------- MODULE PipelineProofs ---------------------------
(***************************************************************************)
(* What customers are told agrees with what is on record, for any number   *)
(* of messages, FAQs and runs of a task, whatever fails.                   *)
(***************************************************************************)
EXTENDS Pipeline, TLAPS

\* The attempt counter follows the program counter, less the runs that were put
\* back; a verdict is taken before anything is recorded.
RunInv ==
  \A m \in Msg :
    /\ pc[m] = "new" => attempt[m] = 0
    /\ pc[m] = "task" => attempt[m] < MaxAttempts + requeued[m] /\ Mode(m) = "queue"
    /\ Running(m) => attempt[m] \in 1 .. MaxAttempts + requeued[m]
    /\ pc[m] \in {"log", "enqueue"} => verdict[m] \in {"answer", "handoff"}
    /\ pc[m] = "deliver" => verdict[m] \in Verdict

\* What runs has a process that serves; a process that serves found the schema
\* full, which nobody ever migrates again; one process migrates at a time.
ProcInv ==
  /\ \A m \in Msg : Running(m) => Serving(Host(m)) /\ HasDatabase(Host(m))
  /\ \A p \in Process : Serving(p) /\ HasDatabase(p) => schema = "full"
  /\ \A p \in Process : proc[p] = "migrating" => schema # "full"
  /\ \A p, q \in Process : proc[p] = "migrating" /\ proc[q] = "migrating" => p = q

\* A worker that drains has a stop to its name that put nothing back yet.
DrainInv == proc["worker"] = "draining" => \A m \in Msg : requeued[m] < stops

\* What is on record when a run reaches a step.
RecordInv ==
  \A m \in Msg :
    /\ pc[m] = "enqueue" => verdict[m] = "handoff" /\ Row(m) \in rows
    /\ pc[m] = "deliver" /\ verdict[m] # "command" /\ Run(m) \notin broken =>
         /\ Row(m) \in rows
         /\ verdict[m] = "handoff" => Run(m) \in inbox

Inv == TypeOK /\ RunInv /\ ProcInv /\ DrainInv /\ RecordInv /\ InboxIsUnanswered

Kept == HandoffIsInInbox /\ RepliesAreRecorded

-----------------------------------------------------------------------------
\* Nothing is running or recorded at first.
LEMMA InvInit == Init => Inv
  BY PipelineAssumption, StopsAssumption DEF Init, InitInstall, Inv, TypeOK, InstallOK, RunInv,
     ProcInv, DrainInv, RecordInv, InboxIsUnanswered, Running, Serving, PC, Runs, Verdict, Process

\* The processes start, stop and migrate in any order, and nothing runs in one
\* that is not serving.
LEMMA ProcStep == Inv /\ [Next]_vars => ProcInv' /\ DrainInv' /\ InstallOK'
<1> SUFFICES ASSUME Inv, [Next]_vars PROVE ProcInv' /\ DrainInv' /\ InstallOK'
  OBVIOUS
<1> USE StopsAssumption DEF Inv, TypeOK, InstallOK, ProcInv, DrainInv, Process, Running, Serving,
        HasDatabase, Host, Mode, Becomes, Counted, install, messages, progress
<1>1. ASSUME NEW m \in Msg, Step(m) PROVE ProcInv' /\ DrainInv' /\ InstallOK'
  <2>1. UNCHANGED <<install, requeued>>
    BY <1>1 DEF Step, Submit, SubmitSync, HandleAsk, TurnAway, Enqueue, Handle, HandleCommand, Search,
       Generate, LogConversation, EnqueueUnanswered, Deliver
  <2>2. \A n \in Msg \ {m} : pc'[n] = pc[n]
    BY <1>1 DEF Step, Submit, SubmitSync, HandleAsk, TurnAway, Enqueue, Handle, HandleCommand, Search,
       Handoff, Generate, LogConversation, EnqueueUnanswered, Deliver, Failed, Goto
  <2>3. CASE Submit(m)
    BY <2>1, <2>2, <2>3 DEF Submit, SubmitSync, HandleAsk, TurnAway, Enqueue, Goto
  <2>4. CASE Handle(m)
    BY <2>1, <2>2, <2>4 DEF Handle, Goto, RunInv
  <2>5. CASE Running(m)
    BY <2>1, <2>2, <2>5
  <2> QED
    BY <1>1, <2>3, <2>4, <2>5 DEF Step, HandleCommand, Search, Generate, LogConversation,
       EnqueueUnanswered, Deliver
<1>2. ASSUME NEW m \in Msg, Deadline(m) PROVE ProcInv' /\ DrainInv' /\ InstallOK'
  BY <1>2 DEF Deadline
<1>3. ASSUME NEW p \in Process, Start(p) \/ Connect(p) \/ Migrated(p), UNCHANGED messages
      PROVE ProcInv' /\ DrainInv' /\ InstallOK'
  BY <1>3 DEF Start, Connect, Migrated
<1>4. ASSUME NEW p \in Process, StartFails(p) \/ Shutdown(p), UNCHANGED messages
      PROVE ProcInv' /\ DrainInv' /\ InstallOK'
  BY <1>4 DEF StartFails, Shutdown
<1>5. ASSUME NEW p \in Process, Drained(p) PROVE ProcInv' /\ DrainInv' /\ InstallOK'
  BY <1>5 DEF Drained, Exit, End, Ended, NextTry
<1>6. ASSUME NEW p \in Process, Killed(p) PROVE ProcInv' /\ DrainInv' /\ InstallOK'
  BY <1>6 DEF Killed, Crash, End, Ended, NextTry
<1>7. ASSUME NEW f \in Faq, DeleteFAQ(f) PROVE ProcInv' /\ DrainInv' /\ InstallOK'
  BY <1>7 DEF DeleteFAQ
<1>8. CASE UNCHANGED vars
  BY <1>8 DEF vars
<1> QED
  BY <1>1, <1>2, <1>3, <1>4, <1>5, <1>6, <1>7, <1>8 DEF Next, Launch, Trouble

\* Every step preserves the invariant.
LEMMA InvStep == Inv /\ [Next]_vars => Inv'
<1> SUFFICES ASSUME Inv, [Next]_vars PROVE Inv'
  OBVIOUS
<1>0. ProcInv' /\ DrainInv' /\ InstallOK'
  BY ProcStep
<1> USE <1>0, PipelineAssumption, StopsAssumption DEF Inv, TypeOK, InstallOK, RunInv, RecordInv,
        InboxIsUnanswered, Running, PC, Runs, Verdict, Goto, Run, Row, Mode, records, history,
        progress, install
<1>1. ASSUME NEW m \in Msg, Submit(m) PROVE Inv'
  BY <1>1 DEF Submit, SubmitSync, HandleAsk, TurnAway, Enqueue
<1>2. ASSUME NEW m \in Msg, Handle(m) PROVE Inv'
  BY <1>2 DEF Handle
<1>3. ASSUME NEW m \in Msg, HandleCommand(m) PROVE Inv'
  BY <1>3 DEF HandleCommand, Failed, NextTry
<1>4. ASSUME NEW m \in Msg, Search(m) PROVE Inv'
  BY <1>4 DEF Search, Handoff
<1>5. ASSUME NEW m \in Msg, Generate(m) PROVE Inv'
  BY <1>5 DEF Generate, Handoff
<1>6. ASSUME NEW m \in Msg, LogConversation(m) PROVE Inv'
  <2>1. /\ attempt[m] \in Runs
        /\ rows' = rows \/ rows' = rows \cup {Row(m)}
        /\ Row(m) \in [msg : Msg, attempt : Runs, answered : BOOLEAN]
    BY <1>6 DEF LogConversation
  <2>2. TypeOK' /\ RunInv'
    <3>1. Run(m) \in [msg : Msg, attempt : Runs]
      BY <2>1
    <3> HIDE DEF Row, Run, Runs
    <3>2. rows' \subseteq [msg : Msg, attempt : Runs, answered : BOOLEAN]
      BY <2>1
    <3>3. broken' \subseteq [msg : Msg, attempt : Runs]
      BY <1>6, <3>1 DEF LogConversation
    <3> QED
      BY <1>6, <3>2, <3>3 DEF LogConversation
  <2>3. RecordInv'
    BY <1>6, <2>1 DEF LogConversation
  <2>4. InboxIsUnanswered'
    BY <1>6 DEF LogConversation
  <2> QED
    BY <2>2, <2>3, <2>4
<1>7. ASSUME NEW m \in Msg, EnqueueUnanswered(m) PROVE Inv'
  <2>1. attempt[m] \in Runs /\ Row(m) \in rows /\ ~Row(m).answered
    BY <1>7 DEF EnqueueUnanswered
  <2>2. TypeOK' /\ RunInv'
    BY <1>7, <2>1 DEF EnqueueUnanswered
  <2>3. RecordInv'
    BY <1>7, <2>1 DEF EnqueueUnanswered
  <2>4. InboxIsUnanswered'
    BY <1>7, <2>1 DEF EnqueueUnanswered
  <2> QED
    BY <2>2, <2>3, <2>4
<1>8. ASSUME NEW m \in Msg, Deliver(m) PROVE Inv'
  BY <1>8 DEF Deliver, Says, Failed, NextTry
<1>9. ASSUME NEW m \in Msg, Deadline(m) PROVE Inv'
  BY <1>9 DEF Deadline
<1>10. ASSUME NEW p \in Process, Launch(p) \/ Trouble(p) PROVE Inv'
  <2>1. UNCHANGED <<messages, tier>> /\ stops \in Nat /\ stops <= stops'
    BY <1>10 DEF Launch, Trouble, Start, Connect, Migrated, StartFails, Shutdown, Counted
  <2> QED
    BY <2>1 DEF messages
<1>11. ASSUME NEW p \in Process, Drained(p) PROVE Inv'
  BY <1>11 DEF Drained, Exit, End, Ended, NextTry, DrainInv, Host
<1>12. ASSUME NEW p \in Process, Killed(p) PROVE Inv'
  BY <1>12 DEF Killed, Crash, Counted, End, Ended, NextTry
<1>13. ASSUME NEW f \in Faq, DeleteFAQ(f) PROVE Inv'
  BY <1>13 DEF DeleteFAQ
<1>14. CASE UNCHANGED vars
  BY <1>14 DEF vars
<1> QED
  BY <1>1, <1>2, <1>3, <1>4, <1>5, <1>6, <1>7, <1>8, <1>9, <1>10, <1>11, <1>12, <1>13, <1>14
     DEF Next, Step

\* Processes, messages, rows and replies keep their types.
THEOREM TypeCorrect == Spec => []TypeOK
<1>1. Inv => TypeOK
  BY DEF Inv
<1> QED
  BY <1>1, InvInit, InvStep, PTL DEF Spec

\* An inbox item always belongs to a recorded, unanswered conversation.
THEOREM InboxCorrect == Spec => []InboxIsUnanswered
<1>1. Inv => InboxIsUnanswered
  BY DEF Inv
<1> QED
  BY <1>1, InvInit, InvStep, PTL DEF Spec

\* A message is handled only where its process found the database migrated.
THEOREM SchemaCorrect == Spec => []HandledOnFullSchema
<1>1. Inv => HandledOnFullSchema
  BY DEF Inv, ProcInv, HandledOnFullSchema, Host, Process
<1> QED
  BY <1>1, InvInit, InvStep, PTL DEF Spec

\* What is said of a recorded run stays recorded.
LEMMA SaidBefore ==
  ASSUME Kept, rows \subseteq rows', inbox \subseteq inbox', broken \subseteq broken',
         limited \subseteq limited',
         \A t \in told' : t \in told \/ OffRecord(t)' \/ t.what = "command"
  PROVE  Kept'
  BY DEF Kept, HandoffIsInInbox, RepliesAreRecorded, OffRecord

\* A reply reaches the customer only after its records were attempted.
LEMMA KeptStep == Inv /\ Kept /\ [Next]_vars => Kept'
<1> SUFFICES ASSUME Inv, Kept, [Next]_vars PROVE Kept'
  OBVIOUS
<1> USE DEF Inv, records, history, progress
<1>1. ASSUME NEW m \in Msg, Deliver(m) PROVE Kept'
  <2>1. Run(m) \notin broken /\ verdict[m] # "command" =>
          /\ Row(m) \in rows
          /\ verdict[m] = "handoff" => Run(m) \in inbox
    BY <1>1 DEF Deliver, RecordInv
  <2>2. Row(m).msg = m /\ Row(m).attempt = attempt[m] /\ (Row(m).answered <=> verdict[m] = "answer")
    BY DEF Row
  <2>3. \A t \in told' : t \in told \/ t = Says(m)
    BY <1>1 DEF Deliver
  <2>4. Says(m).msg = m /\ Says(m).attempt = attempt[m] /\ Says(m).what = verdict[m]
    BY DEF Says
  <2>5. UNCHANGED <<rows, inbox, broken, limited>>
    BY <1>1 DEF Deliver
  <2>6. HandoffIsInInbox'
    BY <2>1, <2>3, <2>4, <2>5 DEF Run, Kept, HandoffIsInInbox, OffRecord
  <2>7. RepliesAreRecorded'
    BY <2>1, <2>2, <2>3, <2>4, <2>5 DEF Run, Kept, RepliesAreRecorded, OffRecord
  <2> QED
    BY <2>6, <2>7 DEF Kept
<1>2. CASE UNCHANGED <<told, limited>> /\ rows \subseteq rows' /\ inbox \subseteq inbox' /\ broken \subseteq broken'
  BY <1>2, SaidBefore
<1>3. ASSUME NEW m \in Msg, Submit(m) PROVE Kept'
  <2>1. UNCHANGED <<rows, inbox, broken>> /\ limited \subseteq limited'
    BY <1>3 DEF Submit, SubmitSync, HandleAsk, TurnAway, Enqueue
  <2>2. \A t \in told' : t \in told \/ t.msg \in limited'
    BY <1>3 DEF Submit, SubmitSync, HandleAsk, TurnAway, Enqueue
  <2> QED
    BY <2>1, <2>2, SaidBefore DEF OffRecord
<1>4. ASSUME NEW m \in Msg,
             \/ Handle(m) \/ HandleCommand(m) \/ Search(m) \/ Generate(m)
             \/ LogConversation(m) \/ EnqueueUnanswered(m) \/ Deadline(m)
      PROVE UNCHANGED <<told, limited>> /\ rows \subseteq rows' /\ inbox \subseteq inbox' /\ broken \subseteq broken'
  BY <1>4 DEF Handle, HandleCommand, Search, Generate, LogConversation, EnqueueUnanswered,
     Deadline
<1>5. ASSUME NEW f \in Faq, DeleteFAQ(f)
      PROVE UNCHANGED <<told, limited>> /\ rows \subseteq rows' /\ inbox \subseteq inbox' /\ broken \subseteq broken'
  BY <1>5 DEF DeleteFAQ
<1>6. ASSUME NEW p \in Process, Launch(p) \/ Trouble(p) \/ Drained(p) \/ Killed(p)
      PROVE UNCHANGED <<told, limited>> /\ rows \subseteq rows' /\ inbox \subseteq inbox' /\ broken \subseteq broken'
  BY <1>6 DEF Launch, Trouble, Drained, Killed, End, messages
<1>7. CASE UNCHANGED vars
  BY <1>7, <1>2 DEF vars
<1> QED
  BY <1>1, <1>2, <1>3, <1>4, <1>5, <1>6, <1>7 DEF Next, Step

\* Customers told that the team will follow up are in the inbox, unless the run's
\* insert failed or /ask turned the question away.
THEOREM HandoffCorrect == Spec => []HandoffIsInInbox
<1>1. Init => Kept
  BY DEF Init, Kept, HandoffIsInInbox, RepliesAreRecorded
<1>2. Kept => HandoffIsInInbox
  BY DEF Kept
<1> QED
  BY <1>1, <1>2, InvInit, InvStep, KeptStep, PTL DEF Spec

\* Every reply of the engine is on record as what it was, with the same proviso.
THEOREM RecordsCorrect == Spec => []RepliesAreRecorded
<1>1. Init => Kept
  BY DEF Init, Kept, HandoffIsInInbox, RepliesAreRecorded
<1>2. Kept => RepliesAreRecorded
  BY DEF Kept
<1> QED
  BY <1>1, <1>2, InvInit, InvStep, KeptStep, PTL DEF Spec
=============================================================================
