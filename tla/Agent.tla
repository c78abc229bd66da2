-------------------------------- MODULE Agent --------------------------------
(***************************************************************************)
(* main: the loop that reconciles, reloads on SIGHUP and leaves on SIGINT  *)
(* or SIGTERM, with what its components promise it.  A webhook sender and  *)
(* a scheduler form a generation; a reload stops one generation, sender    *)
(* first, and makes the next.  Stopping a sender waits until its queue is  *)
(* settled (module Notifier); stopping a scheduler waits for its backups   *)
(* for ten seconds (module Scheduler, by what Pool says of it), and those  *)
(* that are left go on with the sender they were given.                    *)
(***************************************************************************)
EXTENDS Naturals, Sequences

CONSTANTS
    MaxRuns,        \* bound on the runs of a generation that are under way
    MaxGen,         \* bound on the generations
    MaxHups         \* bound on the SIGHUPs sent

ASSUME AgentAssumption ==
    MaxRuns \in Nat \ {0} /\ MaxGen \in Nat \ {0} /\ MaxHups \in Nat

VARIABLES
    main,           \* "loop"; in Stop of the sender, "drain", and of the scheduler,
                    \* "quiesce"; then "renew", or "http", "gc" and "exited"
    leaving,        \* the loop was left: main runs its last lines
    gen,            \* the current generation
    sender,         \* of each generation: "none", "open", "closed", "drained"
    sched,          \* of each generation: "none", "up", "stopping", "down"
    scheduled,      \* of each generation: the containers have been added to it
    running,        \* of each generation: runs that its cron began and that have not ended
    gc,             \* the nightly collection: "idle" or "running"
    sigChan,        \* make(chan os.Signal, 1)
    hups, term,     \* SIGHUPs sent so far; SIGTERM: "no", "queued" or "lost"
    panicked        \* the process has died of a panic

compVars == <<gen, sender, sched, scheduled>>
workVars == <<running, gc>>
sigVars  == <<sigChan, hups, term>>
vars     == <<main, leaving, compVars, workVars, sigVars, panicked>>

Gens == 1..MaxGen

(***************************************************************************)
(* The values the variables range over.                                    *)
(***************************************************************************)
TypeOK ==
    /\ main \in {"loop", "drain", "quiesce", "renew", "http", "gc", "exited"}
    /\ leaving \in BOOLEAN /\ gen \in Gens
    /\ sender \in [Gens -> {"none", "open", "closed", "drained"}]
    /\ sched \in [Gens -> {"none", "up", "stopping", "down"}]
    /\ scheduled \in [Gens -> BOOLEAN]
    /\ running \in [Gens -> 0..MaxRuns]
    /\ gc \in {"idle", "running"}
    /\ sigChan \in Seq({"HUP", "TERM"}) /\ Len(sigChan) <= 1
    /\ hups \in 0..MaxHups /\ term \in {"no", "queued", "lost"}
    /\ panicked \in BOOLEAN

First(one, others) == [g \in Gens |-> IF g = 1 THEN one ELSE others]

Init ==
    /\ main = "loop" /\ leaving = FALSE
    /\ gen = 1 /\ sender = First("open", "none") /\ sched = First("up", "none")
    /\ scheduled = First(FALSE, FALSE)
    /\ running = First(0, 0) /\ gc = "idle"
    /\ sigChan = <<>> /\ hups = 0 /\ term = "no"
    /\ panicked = FALSE

-----------------------------------------------------------------------------
(* Signals.  The runtime never blocks: it drops what the channel cannot    *)
(* take.                                                                   *)

\* Mutant: a channel of unlimited capacity.
DeliverAlways(s) == sigChan' = Append(sigChan, s)

Deliver(s) == IF sigChan = <<>> THEN sigChan' = <<s>> ELSE UNCHANGED sigChan

SendHup ==
    /\ hups < MaxHups /\ main # "exited"
    /\ hups' = hups + 1 /\ Deliver("HUP")
    /\ UNCHANGED <<main, leaving, compVars, workVars, term, panicked>>

SendTerm ==
    /\ term = "no" /\ main # "exited"
    /\ term' = (IF sigChan = <<>> THEN "queued" ELSE "lost") /\ Deliver("TERM")
    /\ UNCHANGED <<main, leaving, compVars, workVars, hups, panicked>>

-----------------------------------------------------------------------------
(* The loop of main.                                                       *)

ReconcileInto(g) ==
    /\ main = "loop"
    /\ scheduled' = [scheduled EXCEPT ![g] = TRUE]
    /\ UNCHANGED <<main, leaving, gen, sender, sched, workVars, sigVars, panicked>>

\* Mutant: the loop keeps the scheduler it started with.
ReconcileFirst == ReconcileInto(1)

\* The ticker: what discovery registered is added to the current scheduler.
Reconcile == ReconcileInto(gen)

\* webhookSender.Stop() closes the queue first.
CloseSender ==
    /\ main' = "drain"
    /\ sender' = [sender EXCEPT ![gen] = "closed"]
    /\ UNCHANGED <<gen, sched, scheduled>>

\* When validateConfig returns an error, the reload ends here.  (What it checks is
\* among the keys that loadGlobalConfig never sets: it returns none today.)
Hangup ==
    /\ main = "loop" /\ sigChan = <<"HUP">>
    /\ sigChan' = <<>>
    /\ \/ gen < MaxGen /\ CloseSender
       \/ UNCHANGED <<main, compVars>>
    /\ UNCHANGED <<leaving, workVars, hups, term, panicked>>

Terminate ==
    /\ main = "loop" /\ sigChan = <<"TERM">>
    /\ sigChan' = <<>>
    /\ leaving' = TRUE
    /\ CloseSender
    /\ UNCHANGED <<workVars, hups, term, panicked>>

\* The worker has settled the queue; sched.Stop() stops cron and starts to wait.
SenderDrained ==
    /\ main = "drain"
    /\ main' = "quiesce"
    /\ sender' = [sender EXCEPT ![gen] = "drained"]
    /\ sched' = [sched EXCEPT ![gen] = "stopping"]
    /\ UNCHANGED <<leaving, gen, scheduled, workVars, sigVars, panicked>>

StopScheduler(left) ==
    /\ main = "quiesce"
    /\ main' = IF leaving THEN "http" ELSE "renew"
    /\ sched' = [sched EXCEPT ![gen] = left]
    /\ UNCHANGED <<leaving, gen, sender, scheduled, workVars, sigVars, panicked>>

\* Mutants: the old cron goes on; Stop has no time limit.
SchedulerLeftUp == StopScheduler("up")
SchedulerStoppedWhenIdle == running[gen] = 0 /\ StopScheduler("down")

\* All backups have ended, or ten seconds have passed.
SchedulerStopped == StopScheduler("down")

\* The next generation: it has no jobs before the next reconciliation.
Renew ==
    /\ main = "renew"
    /\ main' = "loop" /\ gen' = gen + 1
    /\ sender' = [sender EXCEPT ![gen + 1] = "open"]
    /\ sched' = [sched EXCEPT ![gen + 1] = "up"]
    /\ UNCHANGED <<leaving, scheduled, workVars, sigVars, panicked>>

\* server.Shutdown, with a limit of ten seconds.
ServerShutdown ==
    /\ main = "http"
    /\ main' = "gc"
    /\ UNCHANGED <<leaving, compVars, workVars, sigVars, panicked>>

\* Mutant: the deferred <-gcCronCtx.Done() is missing.
LeaveAtOnce ==
    /\ main = "gc"
    /\ main' = "exited"
    /\ UNCHANGED <<leaving, compVars, workVars, sigVars, panicked>>

\* The next deferred function: gcCron.Stop() waits for a collection under way.
Leave ==
    /\ main = "gc" /\ gc = "idle"
    /\ main' = "exited"
    /\ UNCHANGED <<leaving, compVars, workVars, sigVars, panicked>>

-----------------------------------------------------------------------------
(* Backups and the nightly collection.                                     *)

StartBackup(g) ==
    /\ main # "exited"
    /\ sched[g] = "up" /\ scheduled[g] /\ running[g] < MaxRuns
    /\ running' = [running EXCEPT ![g] = @ + 1]
    /\ UNCHANGED <<main, leaving, compVars, gc, sigVars, panicked>>

\* The last thing a backup does is to enqueue its notification: without a target
\* for it nothing happens, with one a closed queue makes it panic.  (A run that finds
\* no slot ends without a notification.)
EndBackup(g) ==
    /\ main # "exited" /\ running[g] > 0
    /\ \/ running' = [running EXCEPT ![g] = @ - 1] /\ UNCHANGED panicked
       \/ sender[g] # "open" /\ panicked' = TRUE /\ UNCHANGED running
    /\ UNCHANGED <<main, leaving, compVars, gc, sigVars>>

\* gcCron is stopped, and waited for, when main leaves.
StartGC ==
    /\ gc = "idle" /\ main \notin {"gc", "exited"}
    /\ gc' = "running"
    /\ UNCHANGED <<main, leaving, compVars, running, sigVars, panicked>>

EndGC ==
    /\ gc = "running" /\ main # "exited"
    /\ gc' = "idle"
    /\ UNCHANGED <<main, leaving, compVars, running, sigVars, panicked>>

-----------------------------------------------------------------------------
Stopping == SenderDrained \/ SchedulerStopped \/ Renew \/ ServerShutdown \/ Leave

Next ==
    /\ ~panicked
    /\ \/ SendHup \/ SendTerm
       \/ Reconcile \/ Hangup \/ Terminate \/ Stopping
       \/ StartGC \/ EndGC
       \/ \E g \in Gens : StartBackup(g) \/ EndBackup(g)

Spec == Init /\ [][Next]_vars

(***************************************************************************)
(* main is scheduled; select is fair to its cases, so the ticker and the   *)
(* signals are both served; the queue of a sender drains (Notifier) and a  *)
(* collection ends, its context being limited to an hour.  Backups need    *)
(* not end.                                                                *)
(***************************************************************************)
FairSpec ==
    /\ Spec
    /\ WF_vars(~panicked /\ Stopping) /\ WF_vars(~panicked /\ EndGC)
    /\ SF_vars(~panicked /\ Reconcile)
    /\ SF_vars(~panicked /\ (Hangup \/ Terminate))

-----------------------------------------------------------------------------
(***************************************************************************)
(* A generation that was replaced starts no backup: those that outlived    *)
(* their scheduler's Stop only become fewer, through every reload.  (They  *)
(* are not counted by the semaphore of the new scheduler: together the     *)
(* generations may exceed the limit.)                                      *)
(***************************************************************************)
OldGenerationsOnlyDrain ==
    [][\A g \in Gens : g < gen => running'[g] <= running[g]]_vars

(***************************************************************************)
(* main leaves in order: no sender or scheduler is up, no notification is  *)
(* left in a queue, no collection is interrupted.                          *)
(***************************************************************************)
ExitIsOrderly ==
    main = "exited" =>
        /\ \A g \in Gens : sender[g] \in {"none", "drained"} /\ sched[g] \in {"none", "down"}
        /\ gc = "idle"

(***************************************************************************)
(* What main takes each of its schedulers for is what a scheduler is: a    *)
(* pool, which Scheduler is shown to implement.  main stops each of them   *)
(* once, starts none again and waits for none for ever, on every path      *)
(* through reloads and the exit.                                           *)
(***************************************************************************)
Phase(g) ==
    CASE sched[g] \in {"none", "up"} -> "up"
      [] sched[g] = "stopping"       -> "stopping"
      [] sched[g] = "down"           -> "left"
Generation(g) == INSTANCE Pool WITH phase <- Phase(g), runs <- running[g]
GenerationsArePools ==
    /\ \A g \in Gens : Generation(g)!Init
    /\ [][\A g \in Gens : [Generation(g)!Next]_(Generation(g)!vars)]_vars

(***************************************************************************)
(* Every generation gets its jobs: after a reload the containers are       *)
(* scheduled again, by the next reconciliation.                            *)
(***************************************************************************)
ReloadReschedules ==
    \A g \in Gens : gen = g ~> scheduled[g] \/ gen # g \/ leaving \/ panicked

(***************************************************************************)
(* A SIGTERM that the channel could take stops the agent, whatever the     *)
(* agent was doing, also in the middle of a reload and with stuck backups. *)
(* (One that arrives behind a SIGHUP that waits in the channel is lost.)   *)
(***************************************************************************)
QueuedTermStops == term = "queued" ~> main = "exited" \/ panicked

(***************************************************************************)
(* The documented "graceful shutdown": neither a reload nor a shutdown     *)
(* kills the process by a panic.  main stops the sender before the         *)
(* scheduler, so a backup can end in between and send on a closed channel: *)
(* the code violates this.                                                 *)
(***************************************************************************)
NeverPanics == ~panicked

=============================================================================
