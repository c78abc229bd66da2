------------------------------ MODULE Scheduler ------------------------------
(***************************************************************************)
(* internal/scheduler: the table of scheduled containers, the cron runner  *)
(* it drives, and the slots that limit the backups running at a time.      *)
(*                                                                         *)
(* Calls to AddOrUpdateJob, RemoveJob and Stop hold Scheduler.mu, so each  *)
(* is one step (Stop is two: it releases nothing while it waits).  Cron    *)
(* fires an entry in a goroutine of its own, wrapped by SkipIfStillRunning *)
(* with a token per entry; the goroutine then runs the closure built by    *)
(* jobFunc, which keeps the specification its entry was built with.        *)
(* BackupJob models what that closure does once it holds a slot, and that  *)
(* it may block for ever.                                                  *)
(***************************************************************************)
EXTENDS Naturals, FiniteSets

CONSTANTS
    Containers,     \* container IDs
    Crons,          \* cron expressions that pass discovery's check of the labels
    ValidCrons,     \* those that cron.AddFunc can parse
    Details,        \* everything else in a specification
    Limit,          \* CONCURRENT_BACKUP_LIMIT
    MaxId,          \* bound on the entries ever added to cron
    NoJob

Specs == [cron: Crons, detail: Details]
Jobs  == [spec: Specs, id: 1..MaxId]

ASSUME SchedulerAssumption ==
    /\ ValidCrons \subseteq Crons
    /\ Limit \in Nat \ {0} /\ MaxId \in Nat
    /\ NoJob \notin Jobs

VARIABLES
    activeJobs,     \* Scheduler.activeJobs
    entries,        \* the entries of cron
    nextId,         \* the ID cron gives to its next entry
    runs,           \* goroutines started by cron that hold the token of their entry
    slots,          \* len(concurrencyLimit)
    phase,          \* "up"; then Stop: "stopping", and "stopped" or "timedOut"
    refused,        \* observation: containers whose change of schedule failed
    outdated        \* observation: containers whose details changed under one expression

tableVars == <<activeJobs, entries, nextId, refused, outdated>>
runVars   == <<runs, slots>>
vars      == <<tableVars, runVars, phase>>

Entries == [id: 1..MaxId, cid: Containers, spec: Specs]
Runs    == [id: 1..MaxId, cid: Containers,
            stage: {"slot", "body", "stuck", "exit"}]

(***************************************************************************)
(* The values the variables range over.                                    *)
(***************************************************************************)
TypeOK ==
    /\ activeJobs \in [Containers -> Jobs \cup {NoJob}]
    /\ entries \subseteq Entries
    /\ nextId \in 1..(MaxId + 1)
    /\ runs \subseteq Runs
    /\ slots \in 0..Limit
    /\ phase \in {"up", "stopping", "stopped", "timedOut"}
    /\ refused \subseteq Containers /\ outdated \subseteq Containers

Init ==
    /\ activeJobs = [c \in Containers |-> NoJob]
    /\ entries = {} /\ nextId = 1 /\ refused = {} /\ outdated = {}
    /\ runs = {} /\ slots = 0
    /\ phase = "up"

-----------------------------------------------------------------------------
(* The table of jobs.                                                      *)

Remove(id) == {e \in entries : e.id # id}

\* AddFunc: parses the expression, then adds an entry under a fresh ID.
AddFunc(c, s, kept) ==
    IF s.cron \in ValidCrons
    THEN /\ entries' = kept \cup {[id |-> nextId, cid |-> c, spec |-> s]}
         /\ activeJobs' = [activeJobs EXCEPT ![c] = [spec |-> s, id |-> nextId]]
         /\ nextId' = nextId + 1
         /\ refused' = refused \ {c} /\ outdated' = outdated \ {c}
    ELSE /\ entries' = kept
         /\ refused' = IF activeJobs[c] = NoJob THEN refused ELSE refused \cup {c}
         /\ UNCHANGED <<activeJobs, nextId, outdated>>

AddJob(c, s) ==
    /\ activeJobs[c] = NoJob
    /\ AddFunc(c, s, entries)

\* The same expression: the table is updated, the entry keeps its closure.
KeepSchedule(c, s) ==
    /\ activeJobs[c] # NoJob /\ activeJobs[c].spec.cron = s.cron
    /\ activeJobs' = [activeJobs EXCEPT ![c].spec = s]
    /\ outdated' = IF s = activeJobs[c].spec THEN outdated ELSE outdated \cup {c}
    /\ UNCHANGED <<entries, nextId, refused>>

\* Mutants: the closure is built of the old details; the new entry is removed, by
\* its shared record.
RescheduleOldDetails(c, s) ==
    /\ activeJobs[c] # NoJob /\ activeJobs[c].spec.cron # s.cron /\ s.cron \in ValidCrons
    /\ entries' = Remove(activeJobs[c].id) \cup
                      {[id |-> nextId, cid |-> c,
                        spec |-> [cron |-> s.cron, detail |-> activeJobs[c].spec.detail]]}
    /\ activeJobs' = [activeJobs EXCEPT ![c] = [spec |-> s, id |-> nextId]]
    /\ nextId' = nextId + 1 /\ outdated' = outdated \ {c} /\ refused' = refused \ {c}
RescheduleRemovesNew(c, s) ==
    /\ activeJobs[c] # NoJob /\ activeJobs[c].spec.cron # s.cron
    /\ s.cron \in ValidCrons
    /\ activeJobs' = [activeJobs EXCEPT ![c] = [spec |-> s, id |-> nextId]]
    /\ nextId' = nextId + 1
    /\ UNCHANGED <<entries, refused, outdated>>

\* Another expression: the entry is removed before the new one is tried.
Reschedule(c, s) ==
    /\ activeJobs[c] # NoJob /\ activeJobs[c].spec.cron # s.cron
    /\ AddFunc(c, s, Remove(activeJobs[c].id))

AddOrUpdateJob(c, s) ==
    /\ phase = "up" /\ nextId <= MaxId
    /\ AddJob(c, s) \/ KeepSchedule(c, s) \/ Reschedule(c, s)
    /\ UNCHANGED <<runVars, phase>>

RemoveJob(c) ==
    /\ phase = "up"
    /\ activeJobs[c] # NoJob
    /\ entries' = Remove(activeJobs[c].id)
    /\ activeJobs' = [activeJobs EXCEPT ![c] = NoJob]
    /\ refused' = refused \ {c} /\ outdated' = outdated \ {c}
    /\ UNCHANGED <<nextId, runVars, phase>>

-----------------------------------------------------------------------------
(* The runs of the entries.                                                *)

\* The run of the entry e, at a given stage.
RunOf(e, stage) == [id |-> e.id, cid |-> e.cid, stage |-> stage]

Advance(r, stage) == runs' = (runs \ {r}) \cup {RunOf(r, stage)}

\* SkipIfStillRunning: no run starts while another holds the entry's token.
StillRunning(e) == \E r \in runs : r.id = e.id

\* Mutant: a skip that only sees runs which already hold a slot.
FireUnlessInBody(e) ==
    /\ phase = "up" /\ ~ \E r \in runs : r.id = e.id /\ r.stage = "body"
    /\ runs' = runs \cup {RunOf(e, "slot")}
    /\ UNCHANGED <<tableVars, slots, phase>>

\* Mutant: Stop leaves cron running.
FireAfterStop(e) ==
    /\ ~StillRunning(e)
    /\ runs' = runs \cup {RunOf(e, "slot")}
    /\ UNCHANGED <<tableVars, slots, phase>>

Fire(e) ==
    /\ phase = "up" /\ ~StillRunning(e)
    /\ runs' = runs \cup {RunOf(e, "slot")}
    /\ UNCHANGED <<tableVars, slots, phase>>

\* select { case s.concurrencyLimit <- struct{}{}: default: skip }
Acquire(r) ==
    /\ r.stage = "slot" /\ slots < Limit
    /\ Advance(r, "body") /\ slots' = slots + 1
    /\ UNCHANGED <<tableVars, phase>>

\* Mutants: select has no default; the deferred release precedes select.
SkipRunBlocks(r) == FALSE
SkipRunReleases(r) ==
    /\ r.stage = "slot" /\ slots = Limit
    /\ Advance(r, "exit") /\ slots' = slots - 1
    /\ UNCHANGED <<tableVars, phase>>

SkipRun(r) ==
    /\ r.stage = "slot" /\ slots = Limit
    /\ Advance(r, "exit")
    /\ UNCHANGED <<tableVars, slots, phase>>

\* The backup ends, and the deferred function releases the slot.
Finish(r) ==
    /\ r.stage = "body"
    /\ Advance(r, "exit") /\ slots' = slots - 1
    /\ UNCHANGED <<tableVars, phase>>

\* The backup blocks for ever (BackupJob!Stranded).
GetStuck(r) ==
    /\ r.stage = "body"
    /\ Advance(r, "stuck")
    /\ UNCHANGED <<tableVars, slots, phase>>

\* The wrapper returns the token of the entry.
Leave(r) ==
    /\ r.stage = "exit"
    /\ runs' = runs \ {r}
    /\ UNCHANGED <<tableVars, slots, phase>>

-----------------------------------------------------------------------------
(* Scheduler.Stop.                                                         *)

Stop ==
    /\ phase = "up"
    /\ phase' = "stopping"
    /\ UNCHANGED <<tableVars, runVars>>

StopReturns ==
    /\ phase = "stopping" /\ runs = {}
    /\ phase' = "stopped"
    /\ UNCHANGED <<tableVars, runVars>>

\* time.After(10 * time.Second): the runs go on without the scheduler.
StopTimesOut ==
    /\ phase = "stopping"
    /\ phase' = "timedOut"
    /\ UNCHANGED <<tableVars, runVars>>

-----------------------------------------------------------------------------
Calls == \E c \in Containers : RemoveJob(c) \/ \E s \in Specs : AddOrUpdateJob(c, s)
RunStep(r) == Acquire(r) \/ SkipRun(r) \/ Finish(r) \/ Leave(r)

Next ==
    \/ Calls
    \/ \E e \in entries : Fire(e)
    \/ \E r \in runs : RunStep(r) \/ GetStuck(r)
    \/ Stop \/ StopReturns \/ StopTimesOut

Spec == Init /\ [][Next]_vars

(***************************************************************************)
(* Goroutines are scheduled, and a backup that is not stuck ends, by its   *)
(* timeout at the latest (BackupJob!JobEndsUnlessStranded).  Cron need not *)
(* fire again, and nobody has to call.                                     *)
(***************************************************************************)
FairSpec ==
    Spec /\ \A i \in 1..MaxId : WF_vars(\E r \in runs : r.id = i /\ RunStep(r))

-----------------------------------------------------------------------------
(***************************************************************************)
(* A container is backed up by the schedule in the table and by no other:  *)
(* whatever was added, changed, refused and removed, each entry of cron is *)
(* the one recorded for its container, with the recorded expression.  And  *)
(* it is backed up by the details in the table, unless these have changed  *)
(* since the entry was made and the expression has not: the closure then   *)
(* keeps the old ones until the entry is replaced, and only until then.    *)
(***************************************************************************)
EntriesAreRecorded ==
    \A e \in entries :
        /\ activeJobs[e.cid] # NoJob
        /\ activeJobs[e.cid].id = e.id
        /\ activeJobs[e.cid].spec.cron = e.spec.cron
        /\ activeJobs[e.cid].spec = e.spec \/ e.cid \in outdated

(***************************************************************************)
(* A container in the table is scheduled, unless cron refused a change of  *)
(* its expression: AddOrUpdateJob then returns with the old entry removed  *)
(* and its record kept.  (Setting the old expression again is taken for no *)
(* change, and does not bring the entry back.)                             *)
(***************************************************************************)
RecordedAreScheduled ==
    \A c \in Containers :
        activeJobs[c] # NoJob =>
            c \in refused \/ \E e \in entries : e.id = activeJobs[c].id

(***************************************************************************)
(* The semaphore counts the backups that run, stuck ones included, on      *)
(* every path through jobFunc: a slot is taken once and released once.     *)
(***************************************************************************)
Holding == {r \in runs : r.stage \in {"body", "stuck"}}
SlotsCountBackups == slots = Cardinality(Holding)

(***************************************************************************)
(* Two backups of one container overlap only if the entry of one of them   *)
(* is gone: SkipIfStillRunning guards an entry, and changing a schedule    *)
(* makes another entry, with another token.                                *)
(***************************************************************************)
Scheduled(r) == \E e \in entries : e.id = r.id
OverlapNeedsReschedule ==
    \A r1, r2 \in runs :
        r1 # r2 /\ r1.cid = r2.cid => ~Scheduled(r1) \/ ~Scheduled(r2)

(***************************************************************************)
(* A run gives its entry's token back, whether it got a slot or was        *)
(* skipped, so that the entry can fire again.  Only a stuck backup keeps   *)
(* the token of its own entry.  (It also keeps its slot: once Limit        *)
(* backups are stuck, the runs of every other container end, too, but all  *)
(* of them skipped.)                                                       *)
(***************************************************************************)
TokensReturn ==
    \A i \in 1..MaxId :
        (\E r \in runs : r.id = i) ~> (\A r \in runs : r.id = i => r.stage = "stuck")

(***************************************************************************)
(* To main a scheduler is a pool of runs: the table may change, runs wait  *)
(* for slots, are skipped or get stuck, but a run begins only before the   *)
(* stop, leaves once, and Stop returns once, with nothing running if it    *)
(* says that it was graceful.                                              *)
(***************************************************************************)
Abstract == INSTANCE Pool WITH
    runs <- Cardinality(runs),
    phase <- CASE phase \in {"up", "stopping"} -> phase
               [] phase = "stopped"            -> "idle"
               [] phase = "timedOut"           -> "left"
ImplementsPool == Abstract!Spec

=============================================================================
