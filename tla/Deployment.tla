----------------------------- MODULE Deployment -----------------------------
(***************************************************************************)
(* The processes of an installation: `askdesk', which serves the channels, *)
(* the widget and the admin pages (cmd/askdesk/main.go), and, when Redis   *)
(* is configured, `worker', which runs the queued messages                 *)
(* (cmd/worker/main.go).  Each connects to the database, migrates it and   *)
(* serves; a startup error ends it, SIGTERM drains it, a crash ends it at  *)
(* once, and the platform starts it again.  Both may migrate at once: the  *)
(* migration library takes a lock in the database and marks a migration    *)
(* under way as dirty.                                                     *)
(*                                                                         *)
(* Abstracted: all pending migrations are one; the tier does not change    *)
(* from one start to the next.                                             *)
(***************************************************************************)
EXTENDS Naturals

CONSTANTS
  Faults,       \* may a call fail, a deadline pass, a process crash?
  MaxStops      \* bound: stops and failed starts, of both processes

ASSUME StopsAssumption == MaxStops \in Nat /\ Faults \in BOOLEAN

VARIABLES
  tier,      \* which of Redis and the database `askdesk' is configured with
  proc,      \* the state of each process
  schema,    \* what the database's migrations say: "old", "dirty" or "full"
  stops

install == <<tier, proc, schema, stops>>

Process == {"askdesk", "worker"}
Tier == {"all-in-one", "queue", "thin"}

\* The thin tier only enqueues: the web process has no database.
HasDatabase(p) == p = "worker" \/ tier # "thin"
Serving(p) == proc[p] \in {"up", "draining"}

InitInstall ==
  /\ tier \in Tier
  /\ proc = [p \in Process |-> "down"]
  /\ schema \in {"old", "full"}
  /\ stops = 0

Becomes(p, s) == proc' = [proc EXCEPT ![p] = s]
Counted == stops < MaxStops /\ stops' = stops + 1

-----------------------------------------------------------------------------
\* run: the configuration is read.  The worker refuses to start without Redis.
Start(p) ==
  /\ proc[p] = "down"
  /\ p = "worker" => tier # "all-in-one"
  /\ Becomes(p, "starting")
  /\ UNCHANGED <<tier, schema, stops>>

Connect_IgnoresDirty(p) ==
  /\ proc[p] = "starting"
  /\ IF HasDatabase(p) /\ schema = "old"
     THEN Becomes(p, "migrating") /\ schema' = "dirty"
     ELSE Becomes(p, "up") /\ UNCHANGED schema
  /\ UNCHANGED <<tier, stops>>

\* The database is pinged and Migrate called.  It waits for the other process's
\* migration; a full schema is no change, a dirty one an error.
Connect(p) ==
  /\ proc[p] = "starting"
  /\ \/ /\ ~HasDatabase(p)
        /\ Becomes(p, "up") /\ UNCHANGED schema
     \/ /\ HasDatabase(p) /\ \A q \in Process : proc[q] # "migrating"
        /\ \/ schema = "full" /\ Becomes(p, "up") /\ UNCHANGED schema
           \/ schema = "old" /\ Becomes(p, "migrating") /\ schema' = "dirty"
           \/ schema = "dirty" /\ Becomes(p, "down") /\ UNCHANGED schema
  /\ UNCHANGED <<tier, stops>>

\* Migrate returns and the process serves.
Migrated(p) ==
  /\ proc[p] = "migrating"
  /\ Becomes(p, "up") /\ schema' = "full"
  /\ UNCHANGED <<tier, stops>>

\* A startup error: the ping, the lock's timeout, Redis's URL, the port; or the
\* migration fails: the database stays dirty, or old between two of its files.
StartFails(p) ==
  /\ Faults
  /\ \/ proc[p] = "starting" /\ UNCHANGED schema
     \/ proc[p] = "migrating" /\ schema' \in {"dirty", "old"}
  /\ Counted
  /\ Becomes(p, "down")
  /\ UNCHANGED tier

\* A signal: no request or task is taken any more, those under way go on.
Shutdown(p) ==
  /\ proc[p] = "up"
  /\ Counted
  /\ Becomes(p, "draining")
  /\ UNCHANGED <<tier, schema>>

\* The time to drain is over, or there is nothing to wait for.
Exit(p) ==
  /\ proc[p] = "draining"
  /\ Becomes(p, "down")
  /\ UNCHANGED <<tier, schema, stops>>

\* The process is killed while it serves.
Crash(p) ==
  /\ Faults /\ Serving(p)
  /\ Counted
  /\ Becomes(p, "down")
  /\ UNCHANGED <<tier, schema>>

InstallOK ==
  /\ tier \in Tier
  /\ proc \in [Process -> {"down", "starting", "migrating", "up", "draining"}]
  /\ schema \in {"old", "dirty", "full"}
  /\ stops \in 0 .. MaxStops
=============================================================================
