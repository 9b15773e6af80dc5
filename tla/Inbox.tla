-------------------------------- MODULE Inbox --------------------------------
(***************************************************************************)
(* The inbox of unanswered questions and the four surfaces an admin        *)
(* answers from: the magic-link editor (internal/editor), the admin API    *)
(* (internal/webapi/admin.go), the /reply chat command (internal/admin)    *)
(* and Telegram's tap-to-reply panel (internal/channel/telegram).  All of  *)
(* them read the pending item, deliver the text and mark the item          *)
(* resolved in three separate calls with no transaction or lock around     *)
(* them, so a request is a process with a program counter and the calls of *)
(* concurrent requests interleave.  Any call may fail when Faults is TRUE. *)
(*                                                                         *)
(* Abstracted: the text of a reply, the address it is sent to, screens and *)
(* confirmations (no state), and whether the sender is an admin (IsAdmin   *)
(* reads a table nothing in the program writes).                           *)
(*                                                                         *)
(* An operator whose name ends in _<Fault> is a faulty variant of the one  *)
(* it precedes; no specification uses it.  It shows that a property would  *)
(* notice that fault.                                                      *)
(***************************************************************************)
EXTENDS Naturals, FiniteSets

CONSTANTS
  MaxItem,      \* bound on the questions raised
  Businesses,   \* tenants
  Home,         \* the business the chat channels of this process serve
  Owner,        \* Owner[i]: the business of item i
  Admins,       \* chat admins of Home
  Workers,      \* slots for concurrent requests
  Surfaces,     \* the reply surfaces in use
  Faults,       \* may a database or network call fail, may a request die?
  None          \* SQL NULL, and no request's admin or item

Item == 1 .. MaxItem
AllSurfaces == {"form", "command", "tap"}
PC == {"idle", "read", "lookup", "deliver", "resolve", "clear", "engine",
       "set", "unset", "show"}

\* The questions of the business this process serves.
Served == {i \in Item : Owner[i] = Home}

ASSUME InboxAssumption ==
  /\ MaxItem \in Nat
  /\ Home \in Businesses
  /\ Owner \in [Item -> Businesses]
  /\ Surfaces \subseteq AllSurfaces
  /\ Faults \in BOOLEAN
  /\ None \notin Item
  /\ None \notin Admins

VARIABLES
  status,        \* unanswered_queue.status by id; "none": not inserted yet
  pendingReply,  \* admins.pending_reply_id
  job,           \* the requests in progress
  answered,      \* history: items whose customer received a reply
  misfiled,      \* history: items whose reply went out under another business's name
  dismissed,     \* history: items taken out of the inbox by a dismissal
  disturbed,     \* history: items a failed call or a dead request touched
  armed,         \* history: the item the admin's panel tells them to type for
  doubtful       \* history: admins who tapped again since, or whose requests overlapped

history == <<answered, misfiled, dismissed, disturbed>>
prompts == <<armed, doubtful>>
vars == <<status, pendingReply, job, history, prompts>>

\* tap: has another request of its admin overlapped this tap on a button?
Request(s, pc, a, b, i) ==
  [surface |-> s, pc |-> pc, by |-> a, biz |-> b, item |-> i, tap |-> "none"]
Idle == Request("none", "idle", None, Home, None)

Init == /\ status = [i \in Item |-> "none"]
        /\ pendingReply = [a \in Admins |-> None]
        /\ job = [w \in Workers |-> Idle]
        /\ answered = {}
        /\ misfiled = {}
        /\ dismissed = {}
        /\ disturbed = {}
        /\ armed = [a \in Admins |-> None]
        /\ doubtful = {}

Goto(w, pc) == job' = [job EXCEPT ![w].pc = pc]
Finish(w) == job' = [job EXCEPT ![w] = Idle]

-----------------------------------------------------------------------------
(* Questions arrive, and retention deletes the oldest ones.                *)

EnqueueUnanswered(i) ==
  /\ status[i] = "none"
  /\ \A j \in Item : j < i => status[j] # "none"
  /\ status' = [status EXCEPT ![i] = "pending"]
  /\ UNCHANGED <<pendingReply, job, history, prompts>>

\* Deletes every conversation up to item c's; the queue rows cascade, pending
\* or not.
PurgeOlderThan(c) ==
  /\ status[c] \in {"pending", "resolved"}
  /\ status' = [i \in Item |-> IF i <= c /\ status[i] # "none"
                               THEN "purged" ELSE status[i]]
  /\ UNCHANGED <<pendingReply, job, history, prompts>>

-----------------------------------------------------------------------------
(* A request starts.                                                       *)

Open(w, s, b, i) ==
  /\ s \in Surfaces
  /\ job[w].pc = "idle"
  /\ job' = [job EXCEPT ![w] = Request(s, "lookup", None, b, i)]
  /\ UNCHANGED <<status, pendingReply, history, prompts>>

\* The editor page and the admin API make the same calls in the same order.
HandleReply(w, b, i) == Open(w, "form", b, i)
ApiReply(w, b, i) == Open(w, "form", b, i)
ReplyCommand(w, i) == Open(w, "command", Home, i)

Busy(a) == \E w \in Workers : job[w].by = a

\* A request of admin a starts, and overlaps those of a that are in progress.
Begin(w, a, request) ==
  /\ "tap" \in Surfaces
  /\ job[w].pc = "idle"
  /\ job' = [v \in Workers |-> IF v = w THEN request
                              ELSE IF job[v].by = a /\ job[v].tap = "alone"
                              THEN [job[v] EXCEPT !.tap = "overlapped"]
                              ELSE job[v]]

\* A plain message of an admin reaches the webhook.
TapMessage(w, a) ==
  /\ Begin(w, a, Request("tap", "read", a, Home, None))
  /\ armed' = [armed EXCEPT ![a] = None]
  /\ UNCHANGED <<status, pendingReply, history, doubtful>>

\* A button of the panel; what it says stays on the screen until "show".
Tap(w, a, pc, i) ==
  /\ Begin(w, a, [Request("tap", pc, a, Home, i) EXCEPT
                   !.tap = IF Busy(a) THEN "overlapped" ELSE "alone"])
  /\ doubtful' = doubtful \cup {a}
  /\ UNCHANGED <<status, pendingReply, history, armed>>

\* The handler asks nothing of the id: an old screen may have any.
StartReply(w, a, i) == status[i] # "none" /\ Tap(w, a, "set", i)
CancelReply(w, a) == Tap(w, a, "unset", None)

-----------------------------------------------------------------------------
(* The steps of a request.                                                 *)

\* InterceptReply: is a reply in progress?  An error counts as no.
PendingReply(w) ==
  /\ job[w].pc = "read"
  /\ \/ /\ pendingReply[job[w].by] # None
        /\ job' = [job EXCEPT ![w].item = pendingReply[job[w].by],
                              ![w].pc = "lookup"]
     \/ /\ pendingReply[job[w].by] = None \/ Faults
        /\ Goto(w, "engine")
  /\ UNCHANGED <<status, pendingReply, history, prompts>>

\* The message was not a reply: it goes on as a customer's question.
FallThrough(w) ==
  /\ job[w].pc = "engine"
  /\ Finish(w)
  /\ UNCHANGED <<status, pendingReply, history, prompts>>

Found_Answered(b, i) == status[i] \in {"pending", "resolved"} /\ Owner[i] = b
Found(b, i) == status[i] = "pending" /\ Owner[i] = b

GetUnanswered(w) ==
  /\ job[w].pc = "lookup"
  /\ \/ /\ Found(job[w].biz, job[w].item)
        /\ Goto(w, "deliver")
     \/ /\ ~Found(job[w].biz, job[w].item) \/ Faults
        /\ IF job[w].surface = "tap" THEN Goto(w, "clear") ELSE Finish(w)
  /\ UNCHANGED <<status, pendingReply, history, prompts>>

\* A reply is sent with the tokens of this process, and one for the web is
\* stored for its own business: another tenant's customer never gets it.
Reply(i) ==
  IF i \in Served THEN answered' = answered \cup {i} /\ UNCHANGED misfiled
                  ELSE misfiled' = misfiled \cup {i} /\ UNCHANGED answered

Deliver_IgnoresError(w) ==
  /\ job[w].pc = "deliver"
  /\ \/ Reply(job[w].item)
     \/ Faults /\ UNCHANGED <<answered, misfiled>>
  /\ Goto(w, "resolve")
  /\ UNCHANGED <<status, pendingReply, dismissed, disturbed, prompts>>

\* A failed delivery may have reached the customer.  The task queue runs a
\* failed /reply again from the start.
Deliver(w) ==
  /\ job[w].pc = "deliver"
  /\ \/ /\ Reply(job[w].item)
        /\ Goto(w, "resolve")
        /\ UNCHANGED disturbed
     \/ /\ Faults
        /\ Reply(job[w].item) \/ UNCHANGED <<answered, misfiled>>
        /\ disturbed' = disturbed \cup {job[w].item}
        /\ \/ Finish(w)
           \/ job[w].surface = "command" /\ Goto(w, "lookup")
  /\ UNCHANGED <<status, pendingReply, dismissed, prompts>>

Resolved_OtherWord(b, i) ==
  IF status[i] = "pending" /\ Owner[i] = b
  THEN [status EXCEPT ![i] = "dismissed"] ELSE status

\* The UPDATE has no status guard: it touches a pending or resolved row of
\* the tenant, and no row at all when the item was purged.
Resolved(b, i) ==
  IF status[i] = "pending" /\ Owner[i] = b
  THEN [status EXCEPT ![i] = "resolved"] ELSE status

ResolveUnanswered_InHome(w) ==
  /\ job[w].pc = "resolve"
  /\ status' = Resolved(Home, job[w].item)
  /\ IF job[w].surface = "tap" THEN Goto(w, "clear") ELSE Finish(w)
  /\ UNCHANGED <<pendingReply, history, prompts>>

\* No surface stops on an error here; the panel goes on to clear its pointer.
ResolveUnanswered(w) ==
  /\ job[w].pc = "resolve"
  /\ \/ /\ status' = Resolved(job[w].biz, job[w].item)
        /\ UNCHANGED disturbed
     \/ /\ Faults
        /\ disturbed' = disturbed \cup {job[w].item}
        /\ UNCHANGED status
  /\ IF job[w].surface = "tap" THEN Goto(w, "clear") ELSE Finish(w)
  /\ UNCHANGED <<pendingReply, answered, misfiled, dismissed, prompts>>

\* Clears whatever the pointer holds by now; its error is ignored.
ClearPendingReply(w) ==
  /\ job[w].pc = "clear"
  /\ \/ pendingReply' = [pendingReply EXCEPT ![job[w].by] = None]
     \/ Faults /\ UNCHANGED pendingReply
  /\ Finish(w)
  /\ UNCHANGED <<status, history, prompts>>

\* The process stops or the client goes away in the middle of a request.
Die(w) ==
  /\ Faults
  /\ job[w].pc # "idle"
  /\ disturbed' = IF job[w].pc \in {"deliver", "resolve"}
                  THEN disturbed \cup {job[w].item} ELSE disturbed
  /\ Finish(w)
  /\ UNCHANGED <<status, pendingReply, answered, misfiled, dismissed, prompts>>

-----------------------------------------------------------------------------
(* The steps of a tap: the pointer is written, then the screen is edited.  *)

SetPendingReply_KeepsFirst(w) ==
  /\ job[w].pc = "set"
  /\ \/ /\ pendingReply' = [pendingReply EXCEPT ![job[w].by] =
                              IF @ = None THEN job[w].item ELSE @]
        /\ Goto(w, "show")
     \/ /\ Faults
        /\ Finish(w)
        /\ UNCHANGED pendingReply
  /\ UNCHANGED <<status, history, prompts>>

\* An UPDATE of the admin's row, for Reply or for Cancel.  When it fails the
\* screen stays as it is.
SetPendingReply(w) ==
  /\ job[w].pc \in {"set", "unset"}
  /\ \/ /\ pendingReply' = [pendingReply EXCEPT ![job[w].by] = job[w].item]
        /\ Goto(w, "show")
     \/ /\ Faults
        /\ Finish(w)
        /\ UNCHANGED pendingReply
  /\ UNCHANGED <<status, history, prompts>>

\* EditMenu: a failure is only logged, and the old screen stays.
EditMenu(w) ==
  /\ job[w].pc = "show"
  /\ LET a == job[w].by IN
     \/ /\ armed' = [armed EXCEPT ![a] = job[w].item]
        /\ doubtful' = IF job[w].tap = "alone" THEN doubtful \ {a} ELSE doubtful \cup {a}
     \/ Faults /\ UNCHANGED prompts
  /\ Finish(w)
  /\ UNCHANGED <<status, pendingReply, history>>

-----------------------------------------------------------------------------
(* Dismissing is a single call.                                            *)

Dismiss(b, i) ==
  /\ status' = Resolved(b, i)
  /\ dismissed' = IF status' # status THEN dismissed \cup {i} ELSE dismissed
  /\ UNCHANGED <<pendingReply, job, answered, misfiled, disturbed, prompts>>

-----------------------------------------------------------------------------
Step(w) == \/ PendingReply(w) \/ FallThrough(w) \/ GetUnanswered(w)
           \/ Deliver(w) \/ ResolveUnanswered(w) \/ ClearPendingReply(w)
           \/ SetPendingReply(w) \/ EditMenu(w)

Next ==
  \/ \E i \in Item : EnqueueUnanswered(i) \/ PurgeOlderThan(i)
  \/ \E b \in Businesses, i \in Item : Dismiss(b, i)
  \/ \E w \in Workers, b \in Businesses, i \in Item :
        HandleReply(w, b, i) \/ ApiReply(w, b, i)
  \/ \E w \in Workers, i \in Item : ReplyCommand(w, i)
  \/ \E w \in Workers, a \in Admins : TapMessage(w, a) \/ CancelReply(w, a)
  \/ \E w \in Workers, a \in Admins, i \in Item : StartReply(w, a, i)
  \/ \E w \in Workers : Step(w) \/ Die(w)

Spec == Init /\ [][Next]_vars

-----------------------------------------------------------------------------
(* Properties.                                                             *)

JobType == [surface : AllSurfaces \cup {"none"}, pc : PC, by : Admins \cup {None},
            biz : Businesses, item : Item \cup {None}, tap : {"none", "alone", "overlapped"}]

\* Rows, pointers and requests have the shape the schema and handlers give them.
TypeOK ==
  /\ status \in [Item -> {"none", "pending", "resolved", "purged"}]
  /\ pendingReply \in [Admins -> Item \cup {None}]
  /\ job \in [Workers -> JobType]
  /\ answered \subseteq Served
  /\ misfiled \subseteq Item \ Served
  /\ dismissed \subseteq Item
  /\ disturbed \subseteq Item
  /\ armed \in [Admins -> Item \cup {None}]
  /\ doubtful \subseteq Admins

\* A question never leaves the inbox unless its customer received a reply or an
\* admin dismissed it: the surfaces deliver first and resolve second, whatever
\* happens in between (service.go:131-138, editor.go:323-334, admin.go:427-437,
\* admin_panel.go:143-158).  The exception is a question of another tenant, whose
\* reply goes out under this process's business (deliver.go:62) and is lost.
ResolvedOnlyWithCause ==
  \A i \in Item :
    status[i] = "resolved" =>
      i \in answered \cup dismissed \/ (i \notin Served /\ i \in misfiled)

\* A question that was replied to is still in the inbox, open to a second reply,
\* only while the request that replied is about to resolve it, or after a call
\* for it failed or a request died on it.
AnsweredLeavesInbox ==
  \A i \in answered \cup misfiled :
    status[i] = "pending" =>
      \/ i \in disturbed
      \/ \E w \in Workers : job[w].item = i /\ job[w].pc = "resolve"

\* A request that goes on to deliver and resolve works on a question of the
\* admin's own business: GetUnanswered scopes the lookup.
RepliesStayInTenant ==
  \A w \in Workers :
    job[w].pc \in {"deliver", "resolve"} => Owner[job[w].item] = job[w].biz

\* "Type your reply to #i now" holds of the pointer until the admin's next message
\* or tap (admin_panel.go:246), provided no other request of theirs overlapped the
\* tap that brought it to the screen: no other admin, reply, dismissal or purge
\* moves or clears the pointer.  A later tap may move it and leave this screen
\* standing, when the screen's edit fails (admin_panel.go:127).
PromptStands ==
  \A a \in Admins :
    armed[a] # None /\ a \notin doubtful => pendingReply[a] = armed[a]

\* The panel's own statement, without that proviso, whenever no request of the
\* admin is in progress: "your next message will be sent straight to the customer"
\* (admin_panel.go:246, admins.go:158-159).
PromptAlwaysStands ==
  \A a \in Admins : armed[a] # None /\ ~Busy(a) => pendingReply[a] = armed[a]

\* The inbox implements Ticket for the questions of its own business: a request
\* holds a claim while it is between its lookup and its delivery.
Claims == [i \in Served |-> {w \in Workers : job[w].pc = "deliver" /\ job[w].item = i}]
ServedStatus == [i \in Served |-> status[i]]
T == INSTANCE Ticket WITH Item <- Served, Worker <- Workers, status <- ServedStatus,
                          claims <- Claims, dismissed <- dismissed \cap Served
ImplementsTicket == T!Spec
=============================================================================
