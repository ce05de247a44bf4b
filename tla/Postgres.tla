------------------------------ MODULE Postgres ------------------------------
(***************************************************************************)
(* postgres.Pool in each process that uses one database: Run, which        *)
(* connects, migrates, publishes the handle and watches it, and Close at   *)
(* shutdown.  redisx.Client is the same without migrations.                *)
(*                                                                         *)
(* A migration runs in a transaction that ends with the INSERT of its name *)
(* in schema_migrations.  That name is the primary key, so a second INSERT *)
(* of it waits for the first and fails if that commits.  Backoffs and      *)
(* tickers are steps that may be late; a pool that Close of pgxpool has    *)
(* been called for counts as closed.                                       *)
(***************************************************************************)
EXTENDS Integers, Sequences, FiniteSets

CONSTANTS
  Proc,       (* the processes                                             *)
  Versions,   (* how many scripts sql/ has; they run in the order of names *)
  PingLimit,  (* pings that may fail; 8 in the code                        *)
  Pools,      (* bound: pools of one process that are not closed, 1 ..     *)
  MaxOutages  (* bound: how often the database goes away                   *)

ASSUME PostgresAssumption ==
  {Versions, PingLimit, Pools, MaxOutages} \subseteq Nat /\ PingLimit > 0 /\ Pools > 1

VARIABLES
  up,       (* the database answers                                        *)
  outages,
  applied,  (* schema_migrations, and what the scripts did, in order       *)
  key,      (* the version whose row each process has inserted and not yet *)
            (* committed, 0 if none                                        *)
  run,      (* Run of each process: how far, at which script, failed pings *)
  handle,   (* Pool.pool, 0 if it is nil                                   *)
  open,     (* the pools that were made and not closed                     *)
  retired,  (* those the goroutine of set closes after two seconds         *)
  ready,    (* Pool.ready                                                  *)
  main      (* main: serving, ctx is over, Close took the pool, over       *)

pgVars == <<up, outages, applied, key, run, handle, open, retired, ready, main>>
world  == <<up, outages>>

RunPC == {"new", "backoff", "dial", "ping", "check", "script", "record", "commit", "watch", "over"}

PostgresInit ==
  /\ up = TRUE /\ outages = 0
  /\ applied = <<>>
  /\ key = [p \in Proc |-> 0]
  /\ run = [p \in Proc |-> [pc |-> "new", at |-> 1, pool |-> 0, fails |-> 0]]
  /\ handle = [p \in Proc |-> 0]
  /\ open = [p \in Proc |-> {}] /\ retired = [p \in Proc |-> {}]
  /\ ready = [p \in Proc |-> FALSE]
  /\ main = [p \in Proc |-> "serving"]

Proceed(p, pc) == run' = [run EXCEPT ![p].pc = pc]

\* What was sent fails, or its answer is lost: nobody answers, or the context
\* is over.  A statement that fails alone is an outage nobody else notices.
Trouble(p) == ~up \/ main[p] # "serving"

\* set: the new pool and its readiness, and the old one is closed later.
Set(p, pool) ==
  /\ handle' = [handle EXCEPT ![p] = pool]
  /\ ready' = [ready EXCEPT ![p] = pool # 0]
  /\ retired' = [retired EXCEPT ![p] = @ \cup ({handle[p]} \ {0, pool})]

\* Fault: the pool that did not answer is left.
FailedOpen(p) ==
  /\ key' = [key EXCEPT ![p] = 0]
  /\ run' = [run EXCEPT ![p] = [pc |-> "backoff", at |-> 1, pool |-> 0, fails |-> 0]]
  /\ Set(p, 0)
  /\ UNCHANGED open

\* Fault: an error of connect ends Run.
FailedForGood(p) ==
  /\ open' = [open EXCEPT ![p] = @ \ {run[p].pool}]
  /\ key' = [key EXCEPT ![p] = 0]
  /\ run' = [run EXCEPT ![p] = [pc |-> "over", at |-> 1, pool |-> 0, fails |-> 0]]
  /\ Set(p, 0)

\* connect failed: its pool is closed, a transaction is rolled back, set(nil).
Failed(p) ==
  /\ open' = [open EXCEPT ![p] = @ \ {run[p].pool}]
  /\ key' = [key EXCEPT ![p] = 0]
  /\ run' = [run EXCEPT ![p] = [pc |-> "backoff", at |-> 1, pool |-> 0, fails |-> 0]]
  /\ Set(p, 0)

\* main starts Run, sooner or later.
Start(p) ==
  /\ run[p].pc = "new"
  /\ Proceed(p, "dial")
  /\ UNCHANGED <<world, applied, key, handle, open, retired, ready, main>>

Backoff(p) ==
  /\ run[p].pc = "backoff" /\ main[p] = "serving"
  /\ Proceed(p, "dial")
  /\ UNCHANGED <<world, applied, key, handle, open, retired, ready, main>>

\* The loop of Run, a wait and watch end with ctx.
RunEnds(p) ==
  /\ run[p].pc \in {"backoff", "dial", "watch"} /\ main[p] # "serving"
  /\ Proceed(p, "over")
  /\ UNCHANGED <<world, applied, key, handle, open, retired, ready, main>>

Dial(p) ==
  /\ run[p].pc = "dial" /\ main[p] = "serving"
  /\ \E id \in (1 .. Pools) \ open[p] :
       /\ open' = [open EXCEPT ![p] = @ \cup {id}]
       /\ run' = [run EXCEPT ![p] = [pc |-> "ping", at |-> 1, pool |-> id, fails |-> 0]]
  /\ UNCHANGED <<world, applied, key, handle, retired, ready, main>>

\* Any statement of connect before its COMMIT.
ConnectFails(p) ==
  /\ run[p].pc \in {"ping", "check", "script", "record"}
  /\ Trouble(p) /\ Failed(p)
  /\ UNCHANGED <<world, applied, main>>

Ping(p) ==
  /\ run[p].pc = "ping" /\ ~Trouble(p)
  /\ Proceed(p, "check")
  /\ UNCHANGED <<world, applied, key, handle, open, retired, ready, main>>

IsApplied(v) == \E i \in DOMAIN applied : applied[i] = v

\* migrate looks at one version after the other; then the pool is published.
Check(p) ==
  /\ run[p].pc = "check" /\ ~Trouble(p)
  /\ IF run[p].at > Versions
     THEN /\ Set(p, run[p].pool)
          /\ run' = [run EXCEPT ![p] = [pc |-> "watch", at |-> 1, pool |-> 0, fails |-> 0]]
     ELSE /\ IF IsApplied(run[p].at)
             THEN run' = [run EXCEPT ![p].at = @ + 1]
             ELSE Proceed(p, "script")
          /\ UNCHANGED <<handle, retired, ready>>
  /\ UNCHANGED <<world, applied, key, open, main>>

\* The script runs in a transaction.  It may have to wait for another one that
\* runs the same statements, and is written to be run again.
Script(p) ==
  /\ run[p].pc = "script" /\ ~Trouble(p)
  /\ Proceed(p, "record")
  /\ UNCHANGED <<world, applied, key, handle, open, retired, ready, main>>

\* Fault: the name of a migration is no key.
RecordAgain(p) ==
  /\ run[p].pc = "record" /\ ~Trouble(p)
  /\ key' = [key EXCEPT ![p] = run[p].at]
  /\ Proceed(p, "commit")
  /\ UNCHANGED <<world, applied, handle, open, retired, ready, main>>

\* INSERT of the version: it waits, is refused, or is done.
Record(p) ==
  /\ run[p].pc = "record" /\ ~Trouble(p)
  /\ \A q \in Proc \ {p} : key[q] # run[p].at
  /\ IF IsApplied(run[p].at)
     THEN Failed(p)
     ELSE /\ key' = [key EXCEPT ![p] = run[p].at]
          /\ Proceed(p, "commit")
          /\ UNCHANGED <<handle, open, retired, ready>>
  /\ UNCHANGED <<world, applied, main>>

Commit(p) ==
  /\ run[p].pc = "commit" /\ ~Trouble(p)
  /\ applied' = Append(applied, run[p].at)
  /\ key' = [key EXCEPT ![p] = 0]
  /\ run' = [run EXCEPT ![p].pc = "check", ![p].at = @ + 1]
  /\ UNCHANGED <<world, handle, open, retired, ready, main>>

\* COMMIT has no answer; the row may be there.
CommitLost(p) ==
  /\ run[p].pc = "commit" /\ Trouble(p)
  /\ applied' \in {applied, Append(applied, run[p].at)}
  /\ Failed(p)
  /\ UNCHANGED <<world, main>>

\* watch: a ping of the handle it finds, every five seconds.
Watch(p) ==
  /\ run[p].pc = "watch" /\ main[p] = "serving" /\ up
  /\ run' = [run EXCEPT ![p].fails = 0]
  /\ ready' = [ready EXCEPT ![p] = TRUE]
  /\ UNCHANGED <<world, applied, key, handle, open, retired, main>>

WatchFails(p) ==
  /\ run[p].pc = "watch" /\ handle[p] # 0
  /\ Trouble(p)
  /\ IF run[p].fails + 1 < PingLimit
     THEN /\ run' = [run EXCEPT ![p].fails = @ + 1]
          /\ UNCHANGED <<handle, retired, ready>>
     ELSE /\ run' = [run EXCEPT ![p].pc = "dial", ![p].fails = 0]
          /\ Set(p, 0)
  /\ UNCHANGED <<world, applied, key, open, main>>

\* A ping that was sent before Close comes back after it.
WatchLate(p) ==
  /\ run[p].pc = "watch" /\ main[p] # "serving" /\ up
  /\ ready' = [ready EXCEPT ![p] = TRUE]
  /\ Proceed(p, "over")
  /\ UNCHANGED <<world, applied, key, handle, open, retired, main>>

\* connect succeeded just before ctx was over: the pool is set all the same.
CheckLate(p) ==
  /\ run[p].pc = "check" /\ run[p].at > Versions /\ main[p] # "serving"
  /\ Set(p, run[p].pool)
  /\ run' = [run EXCEPT ![p].pc = "over", ![p].pool = 0]
  /\ UNCHANGED <<world, applied, key, open, main>>

CloseRetired(p) ==
  /\ retired[p] # {}
  /\ open' = [open EXCEPT ![p] = @ \ retired[p]]
  /\ retired' = [retired EXCEPT ![p] = {}]
  /\ UNCHANGED <<world, applied, key, run, handle, ready, main>>

(***************************************************************************)
(* Shutdown: ctx is over, then Close takes the pool and closes it.         *)
(***************************************************************************)
Interrupt(p) ==
  /\ run[p].pc # "new" /\ main[p] = "serving"
  /\ main' = [main EXCEPT ![p] = "cancelled"]
  /\ UNCHANGED <<world, applied, key, run, handle, open, retired, ready>>

Close(p) ==
  /\ main[p] = "cancelled"
  /\ handle' = [handle EXCEPT ![p] = 0]
  /\ ready' = [ready EXCEPT ![p] = FALSE]
  /\ open' = [open EXCEPT ![p] = @ \ {handle[p]}]
  /\ main' = [main EXCEPT ![p] = "over"]
  /\ UNCHANGED <<world, applied, key, run, retired>>

Outage ==
  /\ up /\ outages < MaxOutages
  /\ up' = FALSE /\ outages' = outages + 1
  /\ UNCHANGED <<applied, key, run, handle, open, retired, ready, main>>

Recovers ==
  /\ ~up /\ up' = TRUE
  /\ UNCHANGED <<outages, applied, key, run, handle, open, retired, ready, main>>

Run(p) == \/ Backoff(p) \/ RunEnds(p) \/ Dial(p) \/ ConnectFails(p) \/ Ping(p) \/ Check(p)
          \/ Script(p) \/ Record(p) \/ Commit(p) \/ CommitLost(p)
          \/ Watch(p) \/ WatchFails(p) \/ WatchLate(p) \/ CheckLate(p)

PostgresNext ==
  \/ Outage \/ Recovers
  \/ \E p \in Proc : Start(p) \/ Run(p) \/ CloseRetired(p) \/ Interrupt(p) \/ Close(p)

\* Run goes on, and the goroutine that closes an old pool does.
PostgresFairness == \A p \in Proc : WF_pgVars(Run(p)) /\ WF_pgVars(CloseRetired(p))

PostgresSpec == PostgresInit /\ [][PostgresNext]_pgVars /\ PostgresFairness

(***************************************************************************)
(* Properties.                                                             *)
(***************************************************************************)
PostgresTypeOK ==
  /\ up \in BOOLEAN /\ outages \in 0 .. MaxOutages
  /\ applied \in Seq(1 .. Versions)
  /\ key \in [Proc -> 0 .. Versions]
  /\ run \in [Proc -> [pc : RunPC, at : 1 .. Versions + 1, pool : 0 .. Pools,
                       fails : 0 .. PingLimit - 1]]
  /\ handle \in [Proc -> 0 .. Pools]
  /\ open \in [Proc -> SUBSET (1 .. Pools)] /\ retired \in [Proc -> SUBSET (1 .. Pools)]
  /\ ready \in [Proc -> BOOLEAN]
  /\ main \in [Proc -> {"serving", "cancelled", "over"}]

\* Processes that start together all run a migration that none of them finds;
\* each is committed once and in the order of the names, whichever of them
\* fails, loses the answer of its COMMIT, or starts again.
AppliedOnce == \A i \in DOMAIN applied : applied[i] = i

\* A caller that takes the handle, or is told that the database is ok, finds
\* a pool that is open and is not about to be closed; and each pool that is
\* open is used, being connected, or about to be closed.
HandleOpen ==
  \A p \in Proc :
    /\ handle[p] # 0 => handle[p] \in open[p] \ retired[p]
    /\ open[p] \subseteq retired[p] \cup {handle[p], run[p].pool}

Status(p) == IF ready[p] /\ handle[p] # 0 THEN "ok" ELSE "down"

\* When the database stays there, each process that runs gets ready for good,
\* also the one whose migration was refused because another had done it.
GetsReady ==
  \A p \in Proc : <>[](up /\ run[p].pc # "new" /\ main[p] = "serving") => <>[](Status(p) = "ok")
=============================================================================
