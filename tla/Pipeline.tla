------------------------------ MODULE Pipeline ------------------------------
(***************************************************************************)
(* One customer message from its arrival to its reply: the webhooks and    *)
(* /ask, the two submitters (a background goroutine, or a Redis task with  *)
(* retries), the dispatcher (internal/app/dispatch.go) and the reply       *)
(* engine (internal/core/engine.go) with the records it leaves in the      *)
(* database.  Messages are handled concurrently; editors delete FAQs at    *)
(* any time, and the processes of Deployment start, drain and crash: what  *)
(* runs in a process ends with it.                                         *)
(*                                                                         *)
(* mode "sync":  webhook + goroutine with a 90 s deadline (all-in-one)     *)
(* mode "queue": webhook + asynq task, redelivered when it fails           *)
(* mode "web":   /ask, the engine runs inside the HTTP request             *)
(*                                                                         *)
(* A webhook that gets no 200 is sent again by the channel: the message    *)
(* stays "new".  One whose 200 is lost arrives as another message.         *)
(*                                                                         *)
(* Abstracted: texts, languages, scores (a question matches one FAQ        *)
(* confidently or none), menus and greetings (they end before the          *)
(* submitter), what an admin command does (Inbox models /reply).           *)
(*                                                                         *)
(* Names ending in _<Fault> are faulty variants, as in Inbox.              *)
(***************************************************************************)
EXTENDS Deployment, FiniteSets

CONSTANTS
  Msg,          \* messages
  FromWidget,   \* those that come from a web page, the others from a chat
  Arrivals,     \* bound: the sets of messages that arrive in one behaviour
  Slash,        \* the messages that start with "/"
  FromAdmin,    \* the messages an admin of the channel sends
  Faq,          \* FAQs
  Match,        \* Match[m]: the FAQ that scores over the threshold, or None
  AIEnabled,    \* FALSE: FAQ-only mode
  MaxAttempts,  \* asynq's limit on the runs of a task
  None

Verdict == {"answer", "handoff", "command", "wait"}
PC == {"none", "new", "task", "command", "search", "generate", "log", "enqueue", "deliver",
       "done", "dropped", "archived"}

ASSUME PipelineAssumption ==
  /\ FromWidget \subseteq Msg
  /\ Match \in [Msg -> Faq \cup {None}]
  /\ None \notin Faq /\ None \notin Verdict
  /\ MaxAttempts \in Nat \ {0}
  /\ AIEnabled \in BOOLEAN

VARIABLES
  pc,        \* where each message is
  attempt,   \* the run it is in (a task may run several times)
  requeued,  \* its runs that a draining worker put back, which asynq does not count
  verdict,   \* what this run decided to say
  matched,   \* the FAQ this run answers from
  expired,   \* messages whose context is cancelled
  faqs,      \* the faqs table
  rows,      \* the conversations table
  inbox,     \* the unanswered_queue table
  told,      \* history: what reached the customer, by run
  broken,    \* history: the runs an insert failed for
  limited    \* history: questions /ask turned away over a limit

records == <<rows, inbox>>
history == <<told, broken, limited>>
progress == <<pc, attempt, requeued, verdict, matched>>
vars == <<progress, expired, faqs, records, history, install>>

Init == /\ InitInstall
        /\ \E S \in Arrivals : pc = [m \in Msg |-> IF m \in S THEN "new" ELSE "none"]
        /\ attempt = [m \in Msg |-> 0]
        /\ requeued = [m \in Msg |-> 0]
        /\ verdict = [m \in Msg |-> None]
        /\ matched = [m \in Msg |-> None]
        /\ expired = {}
        /\ faqs = Faq
        /\ rows = {} /\ inbox = {}
        /\ told = {} /\ broken = {} /\ limited = {}

Goto(m, s) == pc' = [pc EXCEPT ![m] = s]
Run(m) == [msg |-> m, attempt |-> attempt[m]]

\* A call made with message m's context.
CanFail(m) == Faults \/ m \in expired
CanSucceed(m) == m \notin expired

\* How a message is handled follows from the tier, as does the process for it.
Mode(m) == IF m \in FromWidget THEN "web" ELSE IF tier = "all-in-one" THEN "sync" ELSE "queue"
Host(m) == IF Mode(m) = "queue" THEN "worker" ELSE "askdesk"

NextTry_Forever(m) == IF Mode(m) # "queue" THEN "dropped" ELSE "task"

\* After a run that failed: a task is run again while attempts are left, a
\* goroutine logs the error and a request answers 500.
NextTry(m) ==
  IF Mode(m) # "queue" THEN "dropped"
  ELSE IF attempt[m] < MaxAttempts + requeued[m] THEN "task" ELSE "archived"

Failed(m) == Goto(m, NextTry(m))

-----------------------------------------------------------------------------
\* The goroutine of the all-in-one mode starts the only run there will be.
SubmitSync(m) ==
  /\ Mode(m) = "sync"
  /\ Goto(m, "command")
  /\ attempt' = [attempt EXCEPT ![m] = 1]
  /\ UNCHANGED <<told, limited>>

\* Over a limit /ask answers at once and records nothing: over the business's
\* with the text of a hand-off, over the visitor's with a wait.
TurnAway(m) ==
  /\ attempt' = [attempt EXCEPT ![m] = 1]
  /\ limited' = limited \cup {m}
  /\ \E what \in {"handoff", "wait"} :
       LET said == told \cup {[msg |-> m, attempt |-> 1, what |-> what]}
       IN  \/ told' = said /\ Goto(m, "done")
           \/ Faults /\ told' \in {told, said} /\ Goto(m, "dropped")

\* A widget's question goes to the engine, in the request itself.  Without a
\* database there is no such route, and a key that cannot be read is refused.
HandleAsk(m) ==
  /\ Mode(m) = "web"
  /\ \/ /\ tier # "thin"
        /\ Goto(m, "search")
        /\ attempt' = [attempt EXCEPT ![m] = 1]
        /\ UNCHANGED <<told, limited>>
     \/ tier # "thin" /\ TurnAway(m)
     \/ /\ tier = "thin" \/ Faults
        /\ Goto(m, "dropped")
        /\ UNCHANGED <<attempt, told, limited>>

\* The webhook ignores a failed Enqueuer.Submit and acks 200.
Enqueue(m) ==
  /\ Mode(m) = "queue"
  /\ Goto(m, "task") \/ (Faults /\ Goto(m, "dropped"))
  /\ UNCHANGED <<attempt, told, limited>>

\* The message arrives at a process that takes requests.
Submit(m) ==
  /\ pc[m] = "new" /\ proc["askdesk"] = "up"
  /\ SubmitSync(m) \/ HandleAsk(m) \/ Enqueue(m)
  /\ UNCHANGED <<requeued, verdict, matched, expired, faqs, records, broken, install>>

\* asynq starts a run of the task.
Handle(m) ==
  /\ pc[m] = "task" /\ proc["worker"] = "up"
  /\ Goto(m, "command")
  /\ attempt' = [attempt EXCEPT ![m] = @ + 1]
  /\ verdict' = [verdict EXCEPT ![m] = None]
  /\ matched' = [matched EXCEPT ![m] = None]
  /\ UNCHANGED <<requeued, expired, faqs, records, history, install>>

\* Only a message that starts with "/" asks the database who sent it.
HandleCommand(m) ==
  /\ pc[m] = "command"
  /\ \/ /\ m \notin Slash \/ (m \notin FromAdmin /\ CanSucceed(m))
        /\ Goto(m, "search")
        /\ UNCHANGED verdict
     \/ /\ m \in Slash /\ m \in FromAdmin /\ CanSucceed(m)
        /\ Goto(m, "deliver")
        /\ verdict' = [verdict EXCEPT ![m] = "command"]
     \/ /\ m \in Slash /\ CanFail(m)
        /\ Failed(m)
        /\ UNCHANGED verdict
  /\ UNCHANGED <<attempt, requeued, matched, expired, faqs, records, history, install>>

Handoff(m) == Goto(m, "log") /\ verdict' = [verdict EXCEPT ![m] = "handoff"]

\* Low confidence and a failed search are both handed off.
Search(m) ==
  /\ pc[m] = "search"
  /\ \/ /\ AIEnabled /\ CanSucceed(m) /\ Match[m] \in faqs
        /\ Goto(m, "generate")
        /\ matched' = [matched EXCEPT ![m] = Match[m]]
        /\ UNCHANGED verdict
     \/ /\ ~AIEnabled \/ Match[m] \notin faqs \/ CanFail(m)
        /\ Handoff(m)
        /\ UNCHANGED matched
  /\ UNCHANGED <<attempt, requeued, expired, faqs, records, history, install>>

\* The chain of AI providers answers, or all of them fail: that is a hand-off
\* too, and the run goes on.
Generate(m) ==
  /\ pc[m] = "generate"
  /\ \/ /\ CanSucceed(m)
        /\ Goto(m, "log")
        /\ verdict' = [verdict EXCEPT ![m] = "answer"]
     \/ Handoff(m)
  /\ UNCHANGED <<attempt, requeued, matched, expired, faqs, records, history, install>>

Row_ByMatch(m) == [msg |-> m, attempt |-> attempt[m], answered |-> matched[m] # None]
Row(m) == [msg |-> m, attempt |-> attempt[m], answered |-> verdict[m] = "answer"]

\* The insert also fails when the FAQ it refers to was deleted meanwhile.  An
\* error ends the recording, not the reply.
LogConversation(m) ==
  /\ pc[m] = "log"
  /\ \/ /\ CanSucceed(m)
        /\ verdict[m] = "answer" => matched[m] \in faqs
        /\ rows' = rows \cup {Row(m)}
        /\ Goto(m, IF verdict[m] = "handoff" THEN "enqueue" ELSE "deliver")
        /\ UNCHANGED broken
     \/ /\ CanFail(m) \/ (verdict[m] = "answer" /\ matched[m] \notin faqs)
        /\ Goto(m, "deliver")
        /\ broken' = broken \cup {Run(m)}
        /\ UNCHANGED rows
  /\ UNCHANGED <<attempt, requeued, verdict, matched, expired, faqs, inbox, told, limited, install>>

EnqueueUnanswered_FirstRunOnly(m) ==
  /\ pc[m] = "enqueue"
  /\ Goto(m, "deliver")
  /\ inbox' = IF attempt[m] = 1 THEN inbox \cup {Run(m)} ELSE inbox
  /\ UNCHANGED <<attempt, requeued, verdict, matched, expired, faqs, rows, history, install>>

EnqueueUnanswered(m) ==
  /\ pc[m] = "enqueue"
  /\ Goto(m, "deliver")
  /\ \/ CanSucceed(m) /\ inbox' = inbox \cup {Run(m)} /\ UNCHANGED broken
     \/ CanFail(m) /\ broken' = broken \cup {Run(m)} /\ UNCHANGED inbox
  /\ UNCHANGED <<attempt, requeued, verdict, matched, expired, faqs, rows, told, limited, install>>

Says(m) == [msg |-> m, attempt |-> attempt[m], what |-> verdict[m]]

\* A failed delivery may have reached the customer.
Deliver(m) ==
  /\ pc[m] = "deliver"
  /\ \/ CanSucceed(m) /\ told' = told \cup {Says(m)} /\ Goto(m, "done")
     \/ CanFail(m) /\ told' \in {told, told \cup {Says(m)}} /\ Failed(m)
  /\ UNCHANGED <<attempt, requeued, verdict, matched, expired, faqs, records, broken, limited,
                 install>>

-----------------------------------------------------------------------------
Running(m) == pc[m] \in {"command", "search", "generate", "log", "enqueue", "deliver"}

\* The 90 s of a goroutine run out, or a visitor's request is cancelled.
Deadline(m) ==
  /\ Faults
  /\ Mode(m) # "queue" /\ Running(m) /\ m \notin expired
  /\ expired' = expired \cup {m}
  /\ UNCHANGED <<progress, faqs, records, history, install>>

Ended(p) == {m \in Msg : Running(m) /\ Host(m) = p}

End_ForgetsTasks(p, drained) ==
  /\ pc' = [m \in Msg |-> IF m \in Ended(p) THEN "dropped" ELSE pc[m]]
  /\ UNCHANGED <<attempt, requeued, verdict, matched, expired, faqs, records, history>>

\* A process ends with whatever runs in it.  asynq puts the tasks of a drained
\* worker back; those of a crashed one are recovered as runs that failed.
End(p, drained) ==
  LET back == {m \in Ended(p) : Mode(m) = "queue" /\ drained}
  IN  /\ pc' = [m \in Msg |-> IF m \notin Ended(p) THEN pc[m]
                              ELSE IF m \in back THEN "task" ELSE NextTry(m)]
      /\ requeued' = [m \in Msg |-> requeued[m] + IF m \in back THEN 1 ELSE 0]
      /\ UNCHANGED <<attempt, verdict, matched, expired, faqs, records, history>>

Drained(p) == Exit(p) /\ End(p, TRUE)
Killed(p) == Crash(p) /\ End(p, FALSE)

\* An editor deletes a FAQ; rows that refer to it keep living (SET NULL).
DeleteFAQ(f) ==
  /\ f \in faqs
  /\ faqs' = faqs \ {f}
  /\ UNCHANGED <<progress, expired, records, history, install>>

Step(m) == \/ Submit(m) \/ Handle(m) \/ HandleCommand(m) \/ Search(m) \/ Generate(m)
           \/ LogConversation(m) \/ EnqueueUnanswered(m) \/ Deliver(m)

messages == <<progress, expired, faqs, records, history>>

Launch(p) == (Start(p) \/ Connect(p) \/ Migrated(p)) /\ UNCHANGED messages
Trouble(p) == (StartFails(p) \/ Shutdown(p)) /\ UNCHANGED messages

Next == \/ \E m \in Msg : Step(m) \/ Deadline(m)
        \/ \E p \in Process : Launch(p) \/ Trouble(p) \/ Drained(p) \/ Killed(p)
        \/ \E f \in Faq : DeleteFAQ(f)

Spec == Init /\ [][Next]_vars

\* Goroutines run, asynq's workers take tasks, every call returns or times out;
\* the platform starts a process that is down, a start and a drain come to an end.
FairSpec ==
  /\ Spec
  /\ \A m \in Msg : WF_vars(Step(m))
  /\ \A p \in Process : WF_vars(Launch(p)) /\ WF_vars(Drained(p))

-----------------------------------------------------------------------------
(* Properties.                                                             *)

Runs == 1 .. MaxAttempts + MaxStops

\* Messages, rows and replies have their types.
TypeOK ==
  /\ InstallOK
  /\ pc \in [Msg -> PC]
  /\ attempt \in [Msg -> 0 .. MaxAttempts + MaxStops]
  /\ requeued \in [Msg -> 0 .. stops]
  /\ verdict \in [Msg -> Verdict \cup {None}]
  /\ matched \in [Msg -> Faq \cup {None}]
  /\ expired \subseteq Msg /\ limited \subseteq FromWidget
  /\ faqs \subseteq Faq
  /\ rows \subseteq [msg : Msg, attempt : Runs, answered : BOOLEAN]
  /\ inbox \subseteq [msg : Msg, attempt : Runs]
  /\ broken \subseteq [msg : Msg, attempt : Runs]
  /\ told \subseteq [msg : Msg, attempt : Runs, what : Verdict]

\* A run that says something no record answers for: its insert failed and it went
\* on (engine.go:131-148), or /ask turned the question away (api.go:249-257).
OffRecord(t) == [msg |-> t.msg, attempt |-> t.attempt] \in broken \/ t.msg \in limited

\* A customer who is told "I've passed it to our team" has an item in the inbox
\* from that very run, unless that run's insert failed.  Over the business's limit
\* /ask says it too, and nobody has the question: the exception the code makes.
HandoffIsInInbox ==
  \A t \in told : t.what = "handoff" /\ ~OffRecord(t) =>
    [msg |-> t.msg, attempt |-> t.attempt] \in inbox

\* Every reply of the engine is on record as what it was, answer or hand-off,
\* unless that run's insert failed: /stats and the inbox count what customers were
\* really told.  What /ask turns away is in neither.
RepliesAreRecorded ==
  \A t \in told : t.what # "command" /\ ~OffRecord(t) =>
    \E r \in rows : /\ r.msg = t.msg /\ r.attempt = t.attempt
                    /\ r.answered <=> t.what = "answer"

\* An inbox item belongs to a recorded conversation that was not answered.
InboxIsUnanswered ==
  \A i \in inbox : \E r \in rows :
    r.msg = i.msg /\ r.attempt = i.attempt /\ ~r.answered

\* No message is handled on tables that are not migrated, whichever process
\* migrates, breaks off or waits for the other (main.go:57-66, worker main.go:46-53).
HandledOnFullSchema == \A m \in Msg : Running(m) => schema = "full"

Replied(m) == pc[m] = "done" /\ \E t \in told : t.msg = m
GivenUp(m) == pc[m] = "archived" /\ attempt[m] = MaxAttempts + requeued[m]
Lost(m) == pc[m] = "dropped" /\ (Mode(m) = "queue" => attempt[m] = 0)

\* Every message that arrives ends: with a reply, in the archive after its last
\* attempt, or lost, which happens only where nobody tries again, to a run of the
\* web process and to a task that was never enqueued; through restarts, drained
\* workers and failures of every kind, unless a migration broke off.
MessageSettles ==
  \A m \in Msg : pc[m] = "new" ~> Replied(m) \/ GivenUp(m) \/ Lost(m) \/ schema = "dirty"
=============================================================================
