# AskDesk in TLA+

AskDesk answers customers' questions from a FAQ knowledge base on Telegram,
Messenger, a web widget and a JSON API, and hands what it cannot answer to human
admins. This directory models the parts of it whose correctness depends on the
order in which things happen: TLA+ modules translated from the Go and JavaScript
source, TLC configurations that check them on small instances, and TLAPS proofs of
the properties that matter most.

Paths in this file are relative to `src/`, with `internal/` left out where the
package is clear. `PROJECT.json` maps every definition to its lines.

## The system

| component | state | operations | interacts with |
|---|---|---|---|
| core engine, dispatch (`core`, `app`) | the message in hand; rows of `conversations`, `unanswered_queue` | command, search, generate, record, enqueue, deliver | AI chain, FAQs, inbox, channels |
| task queue (`queue`, `cmd/worker`) | tasks in Redis, with their attempts | enqueue, run, retry, archive | webhooks, dispatch |
| AI chain (`ai/chain.go`) | a breaker for each provider: failures, open until | walk the providers, record success or failure | engine; providers over HTTP |
| human inbox (`store/admins.go`, `admin`, `editor`, `webapi/admin.go`, `telegram/admin_panel.go`) | the question's status, each admin's pending-reply pointer | list, reply (four surfaces), tap Reply or Cancel, dismiss, purge | deliverer, retention |
| web replies (`store/web_replies.go`, `widget.js`) | rows with ids; a page's cursor and thread | insert, poll, switch the language, reload | deliverer, widget |
| knowledge base (`store/faqs.go`, `editor`, `webapi/admin.go`, `cmd/loadfaqs`) | FAQ rows with embeddings | create, update, delete, load with `-reset`; search, list | embedder, menus, engine |
| settings (`store/businesses.go`, `editor`, `cmd/loadmessages`) | one JSON value for each business | form, merge texts, merge labels; localize, clamp | every screen, limiter |
| rate limiter (`webapi/ratelimit.go`) | fixed windows by key | allow, sweep | `/ask`, `/lead`, settings |
| menus (`telegram/menu.go`, `messenger/menu.go`, `webapi/api.go`) | the messages with buttons in a chat; what a page loaded | greet, open screens by button; load, switch the language, browse | knowledge base |
| widget page (`widget.js`) | message box, contact form, language, thread | submit, contact, switch, reload | `/config`, `/faqs`, `/ask`, `/lead` |
| leads, analytics (`store/leads.go`, `store/analytics.go`) | one contact for each session; the conversation log | upsert, delete, list the newest; the five queries of a dashboard | widget, editor page, admin API |
| processes (`cmd/askdesk`, `cmd/worker`, `store/migrate.go`) | the tier; what each process is doing; the migrations' mark | start, migrate, serve, drain, crash | every message in hand |
| auth, config, server, `chatui` | nothing; the environment | sign; read; match strings | |

What is hard about it. There is no lock and no transaction around the sequences read, call out,
write: the reply surfaces, the settings writers, the embedding of a question before its row is
written, the clock of the limiter, the two queries of one listing. Everything that calls out
(database, Telegram, Messenger, AI) may fail after it took effect. The synchronous mode runs a
message in a goroutine that a restart ends; the queued mode runs it again. The widget's timers,
requests and clicks overlap in one event loop. The web process and the worker migrate the same
database, and each may be stopped, killed and started again while messages are in it. Processes,
deadlines (15 s for chat APIs, 60 s for the AI, 90 s for a goroutine) and human admins are all
concurrent.

## The modules

| module | models | composed of | proofs |
|---|---|---|---|
| `Ticket` | the abstract promise about one unanswered question | | |
| `Inbox` | the inbox, the pending-reply pointer and the four reply surfaces | implements `Ticket` for the process's own business | `InboxProofs` |
| `Deployment` | the web process and the worker: start, migration, drain, crash, restart | | |
| `Pipeline` | a message from arrival to reply, in the three ways of arriving, with the queue | extends `Deployment` | `PipelineProofs` |
| `Chain` | the AI chain and its breakers | | `ChainMenuProofs` |
| `RateLimiter` | windows, sweep, and the two buckets of `/ask` and `/lead` | | `RateLimiterProofs` |
| `Settings` | the settings column, its writers and readers | | `SettingsProofs` |
| `KnowledgeBase` | FAQ rows under editors and `loadfaqs`, search and menus' queries | | `KnowledgeBaseProofs` |
| `WebReplies` | replies to a widget: inserts, polls, cursor, the thread and what empties it | | `WebRepliesProofs` |
| `Menu` | the menus of the three channels over a table that changes | | `ChainMenuProofs` |
| `Contacts` | the server's side of a visitor: contact, log of questions, dashboard | | `WidgetProofs` |
| `Widget` | the widget's message box, contact gate and language switch | extends `Contacts` | `WidgetProofs` |

`MC<module>` gives a module its small constants; the `.cfg` files are named after
the module and the run. An operator `Name_<Fault>` is a variant of `Name` with a
plausible bug, which no specification uses: replacing `Name` by it must violate
the property it is listed with in `PROJECT.json`, which shows that the property
can fail. `ChainMenuProofs` holds the proofs of two components that have nothing to do with each
other, one after the other; the definitions of `Menu` carry names of their own (`MenuSpec`,
`MenuTypeOK`) so that both can be extended.

### How state and actions correspond to the code

*Inbox.* `status` is `unanswered_queue.status` (with "none" before and "purged"
after the row), `pendingReply` is `admins.pending_reply_id`, and `job[w]` a request
in progress with its program counter. The surfaces share one skeleton of calls:
`GetUnanswered` (scoped to the business), `Deliver`, `ResolveUnanswered`. The
editor page and the admin API take the same three steps and are one surface,
"form"; `/reply` is "command"; Telegram's tap-to-reply, "tap", first reads the
pointer and clears it at the end, also when the question is gone
(`admin_panel.go:146`, `:159`). A tap on Reply or Cancel is a request of its own with two
calls: the pointer is written (`SetPendingReply`, from "set" or "unset"), then the screen is
edited (`EditMenu`, from "show"), and a failed edit is only logged (`:127`). `Die` ends a request
anywhere. `Reply` is what `app/deliver.go` does: a reply is sent with this process's tokens and stored
for its own business (`:62`), so that one to another tenant's question reaches nobody. The
rest are history variables: `answered` and `misfiled` (replied to, as their own business's or
another's question), `dismissed`, `disturbed` (a failure touched the question), `armed` (which
prompt is on whose screen) and `doubtful` (which admins have tapped again since it appeared, or had
another request overlap the tap that showed it).

*Pipeline.* `pc[m]` is where message `m` is: `SubmitSync`, `Enqueue` or `HandleAsk`
start it, `Handle` starts a run of a task, then `HandleCommand`, `Search`,
`Generate`, `LogConversation`, `EnqueueUnanswered` and `Deliver`, each with the error
path of the code: a failed search or AI call becomes a hand-off
(`engine.go:87-121`), a failed insert is logged and the reply goes out
(`engine.go:131-148`), a failed delivery makes a task run again. `TurnAway` is `/ask` over a limit
(`api.go:248-266`): it answers at once, with the business's fallback text or with a wait, and writes no
row; how the limits count is `RateLimiter`. `Deadline` expires the
context, after which every call with it fails, `DeleteFAQ` is an editor. `told`
records what customers were told, `broken` which runs lost an insert and `limited` which questions
were turned away.

*Deployment.* `proc` is what each of the two processes is doing, `schema` what the
database's migrations say, `tier` which services the web process is configured with:
no Redis, Redis and the database, or Redis alone. `Connect` pings and migrates, and
waits for the other process's migration; `StartFails` is any startup error, among them a
migration that breaks off and leaves the database dirty, after which no process starts
until an operator intervenes. `Pipeline` joins what an end of a process does to the messages in
it: `Drained` puts a worker's tasks back (asynq counts no attempt for them), `Killed` leaves
them to asynq's recovery, which counts one; a goroutine or a request of the web process is
gone in both.

*Chain.* `failures` and `openUntil` are a breaker's fields; a request is between two
providers (`Skip`, or a call) or in a call whose result is recorded later, under
the lock, when the breaker may have changed. `streak` counts the failures in a row.

*RateLimiter.* A request reads the clock, waits for the lock, and then runs
`allow` in one step: sweep, window, count. The settings, and so the limits, change
at any time, within `MaxLimit`. `passed` records at what time which hit was let through.

*Settings.* A writer reads the column, changes its part and writes all of it back.
`loaded` is what the files of `loadmessages` said last; `clobbered` is set when a write
goes over one its writer had not read, or had failed to read.

*KnowledgeBase.* A create or update embeds the question and writes the row in a
later step. The loader expands its file into one FAQ for each language
(`cmd/loadfaqs/main.go:53-140`), clears the file's languages with `-reset`, and inserts one by one
with retries: `at` is the index of its loop, and `Skip` passes an FAQ with a blank. `Abort`ed or
failed, it may be run again. An embedding is the
question it was made from, so the search's order by distance is "equal or not". `Ordered` is
`ORDER BY`: the n-th row has n - 1 rows before it.

*WebReplies.* `table` lists the rows in the order of their commits, an id being
drawn when the insert begins. A page's polls carry the cursor they started from,
and their answers arrive in any order or not at all. `thread` is the set of replies on the
screen of a page. `SwitchLanguage` empties it and leaves the cursor where it is
(`widget.js:286-290`); `cleared` records what it took away, until the page is loaded again.

*Menu.* A chat is a set of messages, each with its buttons: on Telegram a tap edits the message it was
made in and a greeting sends another, so that several menus stay tappable; on Messenger every screen is
a new message, which takes the quick replies of the others away and leaves their cards
(`Arrives`). A button carries a name or an id. A tap is sent, the handler reads the table (`Read`), on
Messenger reads it once more when there was nothing to show (`ReadMain`), and the screen
arrives (`Show`), each a step, with editors and other taps in between. `Deliverable` is Telegram's
limit on a button's data: a name cut inside a character is longer than 64 bytes again once it is
JSON, and the whole message is refused. The widget loads with two requests of three queries
(`ReadConfig`, `ReadCategories`, `ReadList`), and a switch of the language starts a load
while another may be under way; `Browse` shows the chips of the last config again. `made` counts
the edits there had been when a button or a page was made.

*Contacts.* `lead` is the session's row in `leads`, `newer` how many contacts of others are newer
(`OtherLead`), `log` the rows of `conversations` of its
questions. `ProfilesList` is the editor's CRM view, which stops at its newest contacts, `Profile` the API's
view of one session, which stops at its newest questions. `board` is a dashboard being put together: each
`Read` is one of the five queries of
`admin.go:237-257` and `editor.go:253-272`. `deleted` and `shrunk` are history: an admin's
deletion, and rows that went away between two of the queries.

*Widget.* Every callback of `widget.js` is an action. `forms` are the contact forms
made, with their `/lead` requests under way, since Continue stays enabled; `asks`
counts a message's `/ask` requests; `loads` are the `loadThread` requests under way. A request
changes the tables of `Contacts` when it is served, also when its answer is then lost; `lateLeads` and
`lateAsks` are the requests of a page that was loaded again, which the server may still serve
(`ServeLate`). `promised`
and `told` are what the page has told the visitor, in effect: this message is asked with the
contact gate in force, these fields are saved.

## The runs

Sizes are those of TLC with two workers; all runs cover the whole state space.

| run | question | states |
|---|---|---|
| `inbox_race` | Two overlapping requests or taps on every surface, two tenants, any call failing: does a question leave the inbox only for a cause, when does a prompt hold, and does the inbox implement `Ticket` for its own business? | 783 k |
| `inbox_prompt` | (violation) Does the panel's prompt always hold? | |
| `pipeline_mix` | Messages from chats, the widget and an admin in each tier, everything failing, processes that migrate, drain, crash and start again: do the records agree with what customers were told, does every message end, and how? | 446 k |
| `chain_race` | Two requests on two breakers, cancellations, late results: when may a breaker be open, and who answers? | 117 k |
| `limiter_race` | Clocks read before the lock, limits changing or unreadable: what is let through and who is refused? | 299 k |
| `limiter_settings` | (violation) Are questions limited when the settings cannot be loaded? | |
| `settings_race` | A form and two loaders over each other, reads and writes failing: what can be lost, what is shown? | 658 k |
| `settings_labels` | (violation) Does the form keep what it does not show? | |
| `kb_edit` | An editor and a loader that fails, is interrupted, loses the reply of an insert and is run again: what does it leave? | 414 k |
| `web_race` | Overlapping, failing, paged polls, concurrent inserts and language switches, on a page of the process's own business and on one of another: what does a page show? | 109 k |
| `menu_edits` | Menus of the three channels over a table that changes, old messages tapped, two loads at once: what do buttons and chips open? | 958 k |
| `widget_capture` | Every contact-capture mode, with double clicks, failures, a switch, a reload, late requests, other visitors' contacts, deletion, retention and dashboards: does the page keep its word, and do a dashboard's numbers agree? | 1.11 M |

### The bounds and why they are enough

* `inbox_race`: two items (one for each tenant), one admin, two request slots. The
  hazards are between a request and another, or a request and the retention job or
  a dismissal; slots are used again, so sequences of any number of requests occur. The two
  request slots are symmetric. One admin suffices for the pointer, which no other admin
  touches; the proofs are for any number. `inbox_prompt` has no failures and only one tap at a time
  (`OneTapSpec`), so that what it shows comes from a message that overlaps a tap and from nothing else.
* `pipeline_mix`: a chat question alone, or a widget's question with an admin's command
  (`Arrivals`), so that every way of arriving and every pair of verdicts meets every tier;
  messages share only the FAQs and the processes. `MaxAttempts` is 2 (asynq's default is 25): one
  retry already brings duplicates and archiving. `MaxStops` is 2, for both processes together: a
  process is stopped, or fails to start, and is stopped again, or both are. `AIEnabled` is TRUE;
  FAQ-only mode takes the hand-off branch that a failing search takes too.
* `chain_race`: two requests, two providers, threshold 2 (3 in the code), cooldown 2
  ticks: a late result meets an open, a half-open and a closed breaker.
  The clock ends at 4, so a breaker opens, closes and opens again.
* `limiter_race`: a minute is 2 ticks and the clock runs to 5, more than two
  windows; two requests in progress; limits of 1 and 2 (`MaxLimit`), changing. Only the bucket pair of
  `/ask` is run: `/lead` has buckets of its own under other keys and takes the same
  steps with fixed limits, and the proofs cover both.
* `settings_race`: three writers and three writes, the fewest that lose an update to
  one that overlaps both others; two languages, the default and another.
* `kb_edit`: one editor with one edit, so that it falls at every point of a load; two
  businesses; files with a multilingual entry, one that is complete in one language only,
  and one language alone; six ids; one lost reply.
* `web_race`: two pages, of a visitor of the process's own business and of one of another tenant,
  whose replies are stored for the wrong business; two replies, so that two inserts overlap and one
  overtakes the other; two polls of a page under way, pages of one row, so that paging happens; one
  reload. The language is switched any number of times.
* `menu_edits`: a table of two FAQs in two categories, and one edit at any point that creates, moves or
  deletes one, in two languages; three names, one that fits a Telegram button, one cut between two
  characters and one cut inside of one. Two messages and two taps, so that an old menu is tapped while a tap
  in another is under way; two loads of the widget at once. Messenger is cut after one
  category and one card (12 and 10 in the code). Messages, taps and loads are symmetric.
* `widget_capture`: two texts, three messages typed where no contact is asked for and two where one
  is (`MaxTyped`), two contacts, two clicks of one Continue, one switch, and one reload where there is a
  contact to lose (`MaxReloads`). The lists of contacts and of a session's questions hold one entry (100
  and 200 in the code), and one other contact may be newer, so that each is at its limit. Dashboards
  are read in mode "off" (`BoardsIn`), where the log grows longest; lists of one and of two
  entries (8 and 10 in the code), so that one is cut and one is not.

### Fairness

Liveness is checked under fairness of single processes, weak but for the answers of polls, and only
where the code runs them by itself:

* `Chain`: each step of a request; provider calls have HTTP timeouts.
* `Pipeline`: each step of a message; goroutines run, asynq's workers take tasks, and
  every call returns or times out. Of a process: the platform starts one that is down,
  its start and its drain end, the drain by its timeout. Nothing is
  assumed of `Deadline`, `DeleteFAQ`, crashes and signals, but that they are finitely many.
* `WebReplies`: of each page, that the timer of an open panel polls (weak fairness), and that its polls are
  answered and their answers applied if they are again and again on their way (strong fairness, of some
  poll, not of each): a poll that is repeated every five seconds gets through some time. Inserts are not
  assumed to commit.
* `Widget`: a request to `/ask` ends, in an answer or an error, as `fetch` does. The visitor,
  who may never click, is not assumed to do anything.

## What the properties say

*Inbox.* `ResolvedOnlyWithCause`: no question is closed without a reply that was
delivered or a dismissal, but for another tenant's, which is closed by a reply stored under this
process's business. `AnsweredLeavesInbox`: an answered question is still open
only while its request is on its way to resolve it, or after a failure.
`PromptStands`: the tap-to-reply pointer is what the screen says until the admin's next message or tap,
if no other request of the admin overlapped the tap that brought it to the screen. After a tap the two
may differ, and for good: the pointer is written first, and the edit of the screen may fail.
`ImplementsTicket`: with "a request between lookup and
delivery" for a claim, `Inbox` refines `Ticket` for the questions of its own business (`Served`). For those of
another tenant it does not, as a reply that reaches nobody closes them.

*Pipeline.* `HandoffIsInInbox` and `RepliesAreRecorded` relate what a customer was told
to the rows of the very run that said it, with two exceptions (`OffRecord`): the insert of that run
failed, or `/ask` turned the question away over a limit. `HandledOnFullSchema`: whatever the two processes do to
the migrations, no message meets tables that are not there. `MessageSettles`: every message ends
with a reply, in the archive after its last attempt, or lost, and lost only where nobody tries again
(a run inside the web process, a task that was never enqueued); a shutdown or a crash of the worker loses none.

*Chain.* `OpensAfterConsecutiveFailures`, `LockoutIsBounded`, `FailsOverInOrder`,
`EveryRequestEnds`.

*RateLimiter.* `WindowsAreKept`: nothing shortens a window that has not run out.
`RateIsBounded`: in any minute a bucket lets through at most three times its limit, and the
requests that waited for the lock when that minute began. Fixed windows alone give twice the limit. The
third part is real: a request that read the clock and then waited opens, with its old reading, a window
in place of one that a request for another key has swept, and a third window still opens within the
minute (limit 4, two requests: 11 hits). `RefusedOnlyWhenFull`: nobody is refused
while the bucket has room.

*Settings.* `AlwaysPresentable`: no sequence of writes shows a customer a blank, another
language's text or a limit that does not limit. `LostOnlyToOverlap`: texts are lost only
where two writers overlapped or a read failed.

*KnowledgeBase.* `SearchFindsItsOwn`: an embedding never belongs to a text that was
edited away. `MenusAsAuthored`: after a finished load with `-reset`, whatever failed on the way, the menus
are the file's: its categories in its order and in each the questions with their answers in its
order, none missing, and one twice only in a row. `DuplicatesOnlyFromLostReplies`: there are no more
rows than the file's FAQs and the inserts whose reply was lost; `TenantIsolation`.

*WebReplies.* `ThreadMatchesCursor`: what a page has shown since it was loaded are exactly the
replies stored for its visitor and its business up to its cursor, save rows whose commit was
overtaken by a greater id's; what is not on its screen any more was taken away by a language
switch. `FreshPollsAddNothingTwice`: a poll that no other overtook repeats nothing, and brings
nothing back. `EveryReplyShown`: a reply reaches the screen of an open page, where it stays until
the language is switched.

*Menu.* `MenuReachesAll`: two taps reach every FAQ but those behind a cut name or limit; on Telegram all
of them are out of reach while one name is cut inside a character, since the main menu is refused.
`FreshButtonsKeepPromise`: a button, on whatever message, does what it says if the table has not changed since.
`ChipsOpenTheirFaqs`: the chips in the language drawn last open the FAQs of their category, however
many loads and switches overlap; a chip of the other language may open nothing.

*Contacts and Widget.* `QuestionsHaveContacts`: in always mode an admin finds every question the
page asked with the gate in force under a contact, within the limits of the two views: the CRM
view has it while the contact is one of the newest 100, the profile while the question is one of
the session's newest 200. `NothingForgotten`: no later, repeated or late submission erases a field
the visitor was told is saved. `DashboardAddsUp`: five queries without a transaction agree in
their order. `BoxIsFreed`: while the language is not switched, the visitor can type or fill in a
form again.

## What is proved

TLAPS proves the following for every value of the constants, under the modules' named
assumptions (types of the constants, positive limits, `None` not a value).

* `InboxProofs`. `Safe` (types, what a request knows of the item it holds, only questions that
  were asked are answered) is inductive by itself. `ResolvedOnlyWithCause` and
  `AnsweredLeavesInbox` are inductive on top of it: a request that resolves must be known to have
  delivered, which is the part of `JobInv` the properties do not say. `PromptInv` adds to
  `PromptStands` that an admin whose prompt stands has no request that could move or clear the
  pointer, and that a tap between its two calls which nothing overlapped finds the pointer as it
  wrote it. `InboxImplementsTicket` maps each step to a step of `Ticket` or a stutter, using
  `Safe`; a step on another tenant's question is a stutter. `TenantScope` proves that a request
  works on a question of its own business.
* `PipelineProofs`. `Inv` says what is on record when a run reaches a step: the row, and for a
  hand-off the inbox item, are there before `Deliver` unless an insert failed. The two properties
  about `told` follow, since rows and items are never removed in this module and a question that
  is turned away adds to `told` only what `OffRecord` excepts (`SaidBefore`). (Retention, which
  does remove them, is in `Inbox` and `Contacts`.) `ProcInv` says which states of the processes a
  mark of the migrations allows (a serving process with a database means "full", one that migrates
  means "dirty", and only one does), from which `SchemaCorrect` follows.
* `ChainMenuProofs`, of `Chain`. `BreakerInv` relates counters, streaks and times (the counter
  never exceeds the streak); `WalkInv` says which providers a request has passed.
* `ChainMenuProofs`, of `Menu`. A button is `Honest` if it is no younger than the table, and if it
  is as old as the table it carries what the table has: a category that is there under the name
  that is on it, an answer that is there. `MenuInv` says that every button is honest, those of
  every message, under a finger and on a screen that is on its way, and that each load of the
  widget holds what the three queries read so far in its language, if no edit came between. What
  each screen's query returns is a lemma about that screen (`MainOK`, `CategoryScreenOK`,
  `AnswerScreenOK`), and the four properties follow from `MenuInv` and these; `ReachCorrect` also
  needs that Telegram's main menu is refused only for a name cut inside a character
  (`TakenUnlessBroken`), and that a category Messenger leaves out has enough others with a FAQ of
  a smaller id (`LeftOutIsLate`).
* `RateLimiterProofs`. A request's clock reading is never in the future, so no window reaches
  further than a minute ahead (`WindowsEnd`), and neither sweep nor an old reading can take a
  window for expired before it is. `CountInv`: a window has counted no more than its limit, nor
  more than was let through since it opened, from which `RefusedOnlyWhenFull` follows.
  `RateIsBounded` is not inductive: `MinuteInv` adds, for each minute not over, that a hit in it
  uses up either a request that was stalled when the minute began or room in a window, and `Room`
  counts that by whether the window was opened before the minute, in it, or swept.
* `SettingsProofs`. `IInv` says that a writer that has not been overtaken holds the value that is
  stored; the merge operators keep the form of the settings (one lemma for each), which is also
  what carries the type invariant.
* `KnowledgeBaseProofs`. `EmbeddingsMatch` carries "the embedding is the question's" through the
  requests between embedding and write; `TenantIsolation` goes action by action. `ExpandTypes`:
  what any file expands to is a sequence of FAQs in known languages. `LoadInv` counts, in the
  languages cleared so far, the rows there are and the FAQs still to add. `TraceInv` says that a
  function gives for each of these rows the place of the file it was made from: in the order of
  the ids, up to where the loop is, and onto the places passed. From it `MenusCorrect` follows, as
  `SortedByIdIs` says that `Ordered` returns the rows in the order of their ids and
  `CategoriesTraced` and `ListTraced` what the two queries of the menus make of traced rows.
* `WebRepliesProofs`. `SinceIsPrefix` says what one poll's answer is: rows of the visitor above
  the cursor it was asked with and, with a row, every lower one. `PollInv` carries that through
  later commits, which can only add rows that were overtaken, and through overlapping polls, since
  a cursor never falls; the thread then matches the cursor after any answer is applied. A language
  switch moves replies from the thread to what it took away and changes nothing else
  (`SwitchStep`).
* `WidgetProofs`. A question is asked with the gate in force only by a page that knows of a
  contact, and the contact's row is there: `GateCorrect` and `ContactsKept` follow, for any number
  of messages, clicks, switches, reloads and late requests, and any limits of the two views.
  `TypeOK` bounds how often a message is under way by the clicks, which takes what mode "always"
  allows the page to do (`AlwaysInv`: one form, which shows only while it is to be filled in, and
  a place left whenever the visitor may type) and what the others do (`OtherInv`). `BoardInv` says
  how the numbers of a dashboard agree with the log query by query; `DashboardAddsUp` is what is
  left of it after the fifth.

Where an induction over numbers or sequences was due, the proofs take a least counterexample (`WFMin`,
in `MinIs` and `FlattenTypes`) or a rank in place of a sorted sequence.

Every property of every passing run is stated by a theorem, but for liveness: `MessageSettles`,
`EveryRequestEnds`, `EveryReplyShown` and `BoxIsFreed` are only model-checked, since TLAPS cannot derive them
from fairness, `ENABLED` being beyond it. The three runs that must fail show what the code does on one
instance and need no more.
No module declares a RECURSIVE operator.

## Where the code and its texts disagree

Three disagreements are runs that TLC must find violated:

* `inbox_prompt`: a message of the admin that is still being processed clears a prompt shown
  meanwhile (`telegram/admin_panel.go:159`, against `:246`).
* `limiter_settings`: with unloadable settings, `/ask` is not limited (`webapi/api.go:248`,
  against the comment above it).
* `settings_labels`: posting the settings form drops the widget's labels (`editor/editor.go:367`,
  against `:364`).

Others were met while translating, and are in the models as the code has them. Where a property
would fail, it is stated with the exception named:

* A poll that starts while another is under way shows replies twice (`widget.js:226`;
  `web_replies.go:35-36` calls polling idempotent), and a row whose commit is overtaken by a later
  id's is never shown (`web_replies.go:37`).
* A web reply is stored for the process's own business (`app/deliver.go:62`), so a visitor of
  another tenant never sees it (`DEPLOY.md:25-28`), and the question is closed nevertheless
  (`Inbox`'s `misfiled`).
* Over the business's limit `/ask` answers with the fallback text, by default that the question
  was passed to the team (`api.go:249-250`; `businesses.go:47`), and nothing is in the inbox
  (`Pipeline`'s `limited`). The widget shows an error in its place, as the status is 429; clients
  of the JSON API get the text.
* A tap on Reply moves the pointer also when the edit of the screen then fails, and the older
  prompt goes on saying whose customer the next message is for (`admin_panel.go:127`, against
  `:246`).
* A language switch takes the replies of the team off the screen, and since the cursor stays they
  do not come back before the page is loaded again (`widget.js:286-290`).
* The CRM view stops at the 100 newest contacts (`leads.go:117`, `editor.go:230`), so the
  questions of older ones are not in it; the API's list of contacts at 200
  (`webapi/admin.go:156`).
* A message sent before `/config` arrives passes the contact gate (`widget.js:221`), and so does
  one after a refused contact (`widget.js:191`; `DEPLOY.md:313`). A language switch with the form
  open leaves the box blocked (`widget.js:288`), and two switches whose loads end in the other
  order leave the labels of the first (`widget.js:304`, against `:292-293`).
* A category name of more than 62 bytes does not open on Telegram (`telegram/menu.go:165`;
  `DEPLOY.md:134`). If the cut falls inside a character, as it may in Burmese, the JSON encoder
  (`telegram/client.go:87`) makes three bytes of each byte that is left of it, and Telegram
  refuses the whole menu.
* A category that disappears between the two queries has `"faqs": null` (`webapi/api.go:214`;
  `DEPLOY.md:257`), and Back from an uncategorised FAQ opens an empty category
  (`telegram/menu.go:140`).
* A failed AI call is a hand-off and not a retry (`engine.go:110`; `queue/tasks.go:3-4`);
  customers' names do not pass through the queue (`queue/enqueuer.go:29`, against
  `app/dispatch.go:28-30`).
* The failure of a caller that went away counts against the provider (`ai/chain.go:61`).
* A lost update between two writers of the settings drops languages (`store/businesses.go:234`,
  against `:230-231`).

## Not modelled

AI providers and embedders (HTTP and arithmetic), `chatui` (string matching), tokens and sessions
(stateless signatures), configuration, logging, routing and the health routes. Texts, languages of
answers and layout are abstracted everywhere; names of customers are left out of `Pipeline`.

* Search, paging and the export of leads read one table and change nothing; the dashboards, which
  read several, are in `Widget`.
* A webhook that is delivered again is handled as another message, for the code keeps no ids of updates:
  `Pipeline` has no action of its own for it.
* The list of pending questions that an admin is shown is bounded (`store/admins.go:107`): in
  `Inbox` an admin can act on any question, so that an old one is out of sight is not in a model.
* The daily ticker of retention: its deletions may come at any time in `Inbox` and `Contacts`.
* The widget's badge of unread replies.

## Plan

Built: `Ticket` and `Inbox`, `Pipeline` over `Deployment`, `Chain`, `RateLimiter`, `Settings`,
`KnowledgeBase`, `WebReplies`, `Widget` over `Contacts`, `Menu`, in that order of importance,
with proofs for all of them. What would come next:

1. A bounded list of pending questions in `Inbox`, with the fairness an admin's work would need.
2. `Inbox` composed with `WebReplies`: a reply that closes a question is shown to its visitor.
