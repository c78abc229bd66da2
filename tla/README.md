# A verification project for label-backup

label-backup is an agent that watches Docker, finds the database containers
whose labels ask for a backup, dumps them on a cron schedule to a disk or to
S3, reports each backup to a webhook and deletes old ones every night.

This directory holds TLA+ models of its parts, the TLC configurations that
check them on small instances, and proofs of their safety properties that TLAPS
checks for every instance. Paths in this text are relative to the root of the
repository. `PROJECT.json` relates every definition to the lines it models.

## 1. The system

| part | state | operations | talks to |
|---|---|---|---|
| discovery (`internal/discovery`) | registry: container ID to specification | connect, list, inspect, handle an event, `GetRegistry` | Docker; read by main and by the collection |
| scheduler (`internal/scheduler`) | `activeJobs`, the entries of cron, a semaphore | `AddOrUpdateJob`, `RemoveJob`, `Stop`, the firing of an entry | called by main; cron runs its jobs |
| backup job (`jobFunc`, `internal/dumper`, `internal/writer`) | one `io.Pipe`, two error variables, the object and its metadata | test, open, dump and write concurrently, decide, clean up, notify | the dump tool, the store, the sender |
| webhook sender (`internal/webhook`) | a queue of 100, a worker, a circuit breaker | `Enqueue`, the worker with retries, `Stop` | called by jobs and main |
| agent (`main.go`) | the current sender and scheduler, the signal channel | tick, SIGHUP, SIGINT/SIGTERM, the deferred exits | everything |
| collection (`internal/gc`, `runGlobalGC`) | none of its own | list by prefix, delete what is older than the retention | registry, store |
| admission (`parseLabels`, the parsers of periods, `GenerateObjectName`, the command lines) | a specification, and what each reader makes of it | parse, test, name, dump | discovery, jobs |
| configuration (`main.go`) | global variables | load, validate | everything |
| encryption, logger, HTTP endpoints | none that matters | | |

What is hard in it, and hard to test:

- one backup is five activities (job, dumper, copier, tool, writer) joined by
  two pipes, a wait group and a context that may expire between any two steps;
- the table of jobs, cron's entries and the runs in progress change
  independently of each other, and a run keeps the specification it was built
  with;
- a reload replaces the sender and the scheduler while backups of the old ones
  go on;
- signals, events and notifications are dropped when a buffer is full or a
  connection is down;
- the registry is put together from a list, inspections and events that are of
  different moments;
- the collection lists, decides and deletes in three steps, by names and prefixes
  that backups in progress use at the same time;
- the same labels are read by code in five places, none of which knows how the
  others understand them.

What makes each part correct:

- **backup job**: a success stands for a whole object, metadata for the object
  it lies beside, a failure leaves nothing, and every job ends;
- **scheduler**: one entry per container, the recorded one; a slot taken once
  and returned once; no overlap of backups of a container; a stop after which
  nothing begins;
- **sender**: what is accepted is settled once, in order, also during a stop; a
  breaker whose state, count and clock agree;
- **agent**: what is scheduled survives a reload, a termination terminates, and
  the parts are left in order;
- **discovery**: the registry agrees with Docker once everything was read, what
  was missed is repaired by a later scan, and the table of jobs follows the
  registry as far as cron accepts it;
- **collection**: only what is older than a retention that covers it is deleted,
  never what a backup is about to report, and what is due is deleted in the end;
- **admission**: the connection test, the name of the object and the dump speak
  of the same database, a dump that must fail fails before it has an object, and
  a retention in a documented form is kept exactly.

## 2. The modules

| module | models | composed with |
|---|---|---|
| `BackupJob` | one backup, from its slot to its notification | its outcome "stranded" is `GetStuck` in `Scheduler` |
| `Backup` | abstract: an atomic commitment of the dump and the object | implemented by `BackupJob` |
| `BackupJobProofs` | proofs about `BackupJob`, the refinement among them | |
| `Scheduler` | table, entries, runs, slots, `Stop` | `INSTANCE Pool` |
| `Pool` | abstract: what main relies on of a scheduler | implemented by `Scheduler`; what each generation of `Agent` is |
| `SchedulerProofs` | proofs about `Scheduler` | |
| `Notifier` | abstract: what callers rely on of a sender | implemented by `Webhook` |
| `Webhook` | queue, worker, retries, circuit breaker | `INSTANCE Notifier` |
| `WebhookProofs` | proofs about `Webhook`, with the refinement of `Notifier` | |
| `Agent` | the loop of main over generations of sender and scheduler | uses what `Notifier` promises; each generation is an `INSTANCE Pool` |
| `AgentProofs` | proofs about `Agent` | |
| `Discovery` | watcher, registry, main's reconciliation | |
| `DiscoveryProofs` | proofs about `Discovery` | |
| `Retention`, `MCRetention` | the nightly collection beside backups, over two stores; worlds for TLC | uses that a backup ends within its timeout, as `BackupJob` shows, and that the registry is any set of containers, as in `Discovery` |
| `RetentionProofs` | proofs about `Retention` | |
| `Admission`, `MCAdmission` | from labels and environment to the first dump; labels for TLC | which containers yield a specification is an input of `Discovery` |
| `AdmissionProofs` | proofs about `Admission` | |

### BackupJob

`job` is the cron goroutine: `Connect` (`GetDumper`, `TestConnection`),
`OpenWriter` (`GetWriter`, then both goroutines), `Join` (`wg.Wait()` and the
decision), `WriteMetadata` or `CleanUp`, and `Notify`. `dumper` is the first
goroutine with `StreamAndGzip` and the deferred closes, `copier` the goroutine
inside `StreamAndGzip`, `tool` the process and `writer` the second goroutine in
`LocalWriter.Write` or `S3Writer.Write`. Data is counted: the dump is `Chunks`
reads of the tool's stdout, and closing gzip adds one part. `OsPipe` bounds how
far the tool runs ahead of the copier. An `io.Pipe` has no buffer, so a write of
the dumper and a read of the writer are one step (`WriterTakes`).

Three points of the code decide how the model looks. The deferred `gw.Close()`
writes to the pipe, also after an error, so a dumper needs a reader even to
fail (`"flush"`). The copier leaves without an error when it sees the context
expired; whether `cmd.Wait()` then reports the expiry depends on whether exec's
watcher acted before the process was reaped, hence the choice in `Reap`. A file
on disk is visible from its creation on, an upload from its end on
(`WriterOpens`, `WriterFinishes`). The branch of `jobFunc` that cleans up is
only reached when the dumper failed and the writer did not, which takes a pipe
closed without an error: an expired context (with nothing written) or a panic
inside `Dump`.

`spoiled` is an observation: the store refused a delete, or kept an object whose
write it reported as failed. It does not cover the one delete that fails by the
code's own doing: after a panic the pipe is closed without an error, so that an
upload is committed, and the clean up is made under the job's context, which may
have expired by then. `FailureLeavesNoData` names that path (`LateCleanUp`).

`Backup` says the same with four variables: the two goroutines vote once each,
metadata and a success need two votes in favour, a removal needs both votes and
not both in favour, and nothing happens after the report. `Abstract` in
`BackupJob` maps a goroutine that is done to its vote.

### Scheduler

`AddOrUpdateJob`, `RemoveJob` and the start of `Stop` hold the mutex, so each is
a step; `AddFunc` is the part that may be refused, after the old entry was
removed. `Fire` is cron starting a goroutine that gets its entry's token, one
stage before `select` on the semaphore (`Acquire`, `SkipRun`). A firing without
the token has no effect and is not a step. An entry of cron holds the
specification its closure was made with. Two variables are observations:
`refused` remembers containers whose change of schedule failed, `outdated` those
whose other details changed under the same expression, so that the closure has
the old ones (`scheduler.go:77-85`).

`Pool` is a scheduler as main sees it: runs begin until it is told to stop and
end when they like, and `Stop` returns either with no run left or having given
up. A firing
is `Begin`, so a run that finds no slot begins and ends. `Abstract` in `Scheduler`
counts its runs.

### Webhook and Notifier

`Enqueue` picks the target, so it may skip, send, drop, or panic on a closed
channel. `Take` and `Reject` are the breaker's decision, `AttemptFails`,
`LastAttemptFails` and `AttemptSucceeds` the ends of a request; the receiver may
have seen a request that counts as failed. `stopChan` is never closed by the
code and is left out. `fate` and `received` are observations. `Notifier` is a
bounded queue in which items are accepted or refused, settled in order, and
`Stop` returns when none is pending; the refinement mapping is `Abstract` in
`Webhook`: the pending items are the one in the worker's hands and the queue.

### Agent

A *generation* is a sender with its scheduler. A reload takes the current one
through `Hangup`, `SenderDrained`, `SchedulerStopped` to `Renew`; a termination
takes the same path and goes on to the deferred functions (`ServerShutdown`,
`Leave`). `running` counts the runs that a
generation's cron began and that have not ended, `MaxRuns` of them at most; with
the state of its scheduler it is a `Pool` (`Generation`). The runtime drops a
signal when the channel is full (`Deliver`). `validateConfig` may reject a
configuration in the model; the keys it checks are never set by
`loadGlobalConfig`, so today it does not.

### Discovery

Docker is external: containers are created, start, die, are signalled, updated,
renamed and destroyed, and each step but a renaming, which the code ignores,
sends an event to whoever listens. The watcher goes from `Connect` (ping and
list) through `ScanOne` to `Subscribe` and `HandleEvent`. `Break` is any error of
the stream, after which `Start` connects again; `Close` is a stream that is closed
or yields a nil error, after which `startEventLoop` and then `Start` return for
good (`discovery.go:119-122` and 71). `Tick` is `GetRegistry` and `Schedule` the
loop over the copy, with the refusal of `AddOrUpdateJob`, which main logs
(`main.go:418-420`): `Refused` are the specifications whose expression has five
fields, so that `parseLabels` lets it pass, and is not accepted by cron. `missed`,
`signalled` and `closed` are observations: the containers about which the watcher
cannot know better, and that the stream was closed.

### Retention

`runGlobalGC` is `Start` (the copy of the registry), `Pick` or `PassOver` for
each container in any order (`GetWriter`, `NewRunner`, the test of the
retention), `List` or `ListFails`, `Cut`, `Delete` or `DeleteFails` for each
object, `RunEnds` and `Finish`. `ListObjects`, the cut-off and each
`DeleteObject` are steps of their own, and backups (`Begin`, `Append`,
`Succeed`, `Fail`) and the clock (`Tick`) go on in between. An object is its
store, directory, the part of its name from type and database, the second in its
name, its time of modification, and who wrote it. How prefixes relate to
directories and keys are the constants `Dir`, `Inside` (the walk of
`LocalWriter`) and `Spells` (the comparison of strings in S3): the two stores do
not list the same. The disk check is `Full`, from `Room`. `Fail` may leave the
partial object, which is also what an agent that exits does, and an upload whose
answer was lost. Time goes on between `List` and `Cut`, up to `ListLimit`, the
thirty seconds of `listCtx` (`gc.go:77`); `listed` is when the listing was taken.
`calm` is an observation: from then on calls to the stores succeed.

### Admission

`labels` and `env` are what a container and the process start with; the steps
are `Register` (`parseLabels`), `AddJob` (the cron expression),
`TestConnection`, `OpenWriter` (which names the object) and `StartDump`. A
connection string is taken apart into scheme, host, path and query, as far as
some reader tells them apart. Retentions are integers of `2 * Half` values, and
`Wrap` is what a product of `time.Duration`s does; a setting in a form that no
parser knows ("4w") is `"foreign"`. That `mongodump` refuses a `--db` beside a
`--uri` with another database (`TwoDatabases`) is what the tool does, not this
code. Each dumper is a pair of operators, the database that its test names and
the one that its dump names: a database, all of them (`"all"`), none in
particular (`"none"`), or an error.

## 3. The runs

| run | question | result |
|---|---|---|
| `BackupJob` | do success, failure, metadata and the end of a job mean what they should, is the job an atomic commitment, does every step count, and does the timeout leave no circle of waiting? | holds |
| `BackupJobJobEnds` | does every job end after its timeout? | no |
| `BackupJobTruncated` | is what has metadata a whole dump? | no |
| `Scheduler` | do table, entries, runs and slots agree, does an entry run what is recorded, can an entry that fired fire again, and is it a pool for main? | holds |
| `Webhook` | does the sender implement the queue of its callers? | holds |
| `Agent` | do reloads and shutdowns keep their order, and end, and is each generation a pool? | holds |
| `AgentPanic` | is a shutdown free of panics? | no |
| `Discovery` | does the registry agree with Docker once all is read, is what was missed repaired, is what is registered and not refused scheduled, and the watcher back after every error? | holds |
| `DiscoveryGap` | is every started container registered? | no |
| `Retention` | is what is deleted due, what is reported stored, and what is due deleted in the end? | holds |
| `RetentionOwn` | had what is deleted outlived the retention of its own container? | no |
| `Admission` | do test, name, dump and retention understand the labels alike? | holds, with the exceptions its properties name |

Each "no" is a counterexample to what a document or comment of the repository
says; section 5 lists them.

Bounds, and why they are enough:

- `BackupJob`: three chunks and a kernel pipe of two let the tool block, run
  ahead, and exit with data unread. Everything else is finite. The proofs hold
  for every value.
- `Scheduler`: two containers, two slots, two values of the details beside the
  expression, an expression that cron refuses and three entries ever. Three
  entries are what it takes for a container to have two runs of replaced entries
  beside a current one, and for a third run to find no slot. There is no
  symmetry, which a liveness property would not allow.
- `Webhook`: four notifications, room for two, one retry, a threshold of two:
  the queue overflows, the breaker opens, rejects, tries and fails or closes.
- `Agent`: three generations (an old one beside one being stopped beside the
  next), two runs each, three SIGHUPs.
- `Discovery`: one container with two names, or one refused specification, and
  three unread events, which is room for an event that unregisters between two
  that register. No action relates two containers except through the order of the
  stream and the loop of main; that neither matters, for any number of
  containers, is what `DiscoveryProofs` shows. (Two containers, one of them
  refused, and one unread event pass the same run as well, in three minutes and
  with 396562 states.)

- `Retention`: two containers, a timeout of one tick, a listing that may be one
  tick old, room for three local objects, a clock to four. A backup can be
  listed while it writes and deleted after it ended, the disk fills up, and the
  oldest object is due twice over. The six worlds of `MCRetention` are the ways
  in which prefixes meet: one directory inside another, the same one (with
  different files), apart on disk but the one a prefix of the other as a string,
  in both stores, and a prefix with a leading slash; with a retention of its
  own, of the environment, none, and a dry run.
- `Admission`: every connection string over two databases and two servers (one
  server has the name of a database, one database a character that names lose),
  with every type and `backup.database`; the other labels and the environment
  vary around one of them. A day is 24 and a `Duration` has 1024 values, so that
  21 days fit, 22 become negative and 43 become a small positive number.

`CHECK_DEADLOCK FALSE` is set where the program ends: a job, a stopped
scheduler, a stopped sender, an agent that has exited, one run of `Admission`.
`Discovery` never ends, and is checked for deadlock.

### Fairness

Goroutines are scheduled and timers fire: weak fairness on the steps of the
program. Nothing is assumed of dump tools, webhook receivers or backups, except
where the code limits them in time: a request (`http.Client.Timeout`), a tool
(`exec.CommandContext`), the collection (its context), an inspection (ten
seconds). Strong fairness is used where `select` chooses among channels that
are ready (`Reconcile`, `Hangup \/ Terminate`, `Tick`), because Go chooses at
random. In `Discovery` Docker is assumed to answer the ping and the list
eventually. `MissedIsRepaired` assumes in its own premiss what only the world can
bring about: that the stream fails again and again, since nothing else makes the
watcher look again, and that the inspections of the scans succeed from some time
on. `TokensReturn` assumes that a backup that is not stuck ends;
`BackupJob` shows it (`JobEndsUnlessStranded`).

In `Retention` the steps of the collection are weakly fair: its calls have time
limits. `DueAreCollected` assumes what the code cannot bring about: that the
stores answer from some time on, that collections find the container in the
registry again and again, and that its writer is not refused for good.

## 4. The proofs

`BackupJobProofs` proves `TypeOK`, `SuccessIsComplete`,
`MetadataDescribesObject`, `FailureLeavesNoData` and `NothingOutlivesTheJob` for
every number of chunks and every pipe size. None of them is inductive. The
invariant `IInv` adds: `Stages` (which stages of the five activities go
together), `Nesting` (the copier lives inside the dumper's call, the tool inside
the copier's wait), `DataFlow` (parts read by the writer are the chunks taken,
but for one in the copier's hands, plus the trailer once gzip was closed),
`Storage` (when an object exists) and `Verdict` (what the error variables and
the report say of all this). One lemma shows that every action preserves it;
the theorems follow from it and from `FailureClean`'s own argument.

`SchedulerProofs` proves the invariants of the `Scheduler` run for any set of
containers, any limit and any number of entries. `IInv` is `TypeOK` with
`TableInv` (the properties of the table, among them that an entry has the
recorded details unless they are `outdated`, and that all IDs in use are below
`nextId`, so that the next one is new) and `RunInv` (at most one run per entry,
runs have IDs given out before, there are finitely many of them, and the slots
count those that hold one). The cardinality arguments cite
`FiniteSetTheorems`.

`DiscoveryProofs` proves `TypeOK` and `RegistryIsAccurate` for any set of
containers and any stream. `RegistryIsAccurate` speaks of moments at which the
watcher has caught up, so it says nothing of how it gets there. `IInv` adds that
only a subscriber is sent events (`Quiet`) and that the last unread event about
a container is one that unregisters it only if the container is not running, or
was sent a signal after it started (`LastWord`). Two lemmas say what sending and
taking an event do to the stream; every step of Docker goes through the first.
`LoopCoversCopy` is the safety part of `RegisteredGetsScheduled`: what main has been
through of its copy is in the table, but for what cron refuses (`LoopInv`), so that
when the loop is over each container of the copy is there with the specification
that was copied, or has no job because its expression is refused.

`BackupJobProofs` also proves that `BackupJob` implements `Backup`
(`JobIsBackup`). The invariant already ties each goroutine's end to its error
variable and to the object, so the proof has one lemma for the initial state and
one for the steps, by action: most are stutters, the ends of the two goroutines
are votes.

Why a job ends is proved as well, but for fairness. `Left` is the work left: the
parts still to be read, copied and written, and the stages each activity has
ahead. `StepsCount` shows that every step of a job makes it smaller, and
`BoundedWork` that it is never more than `4 * Chunks + 19`, so that no job has more
steps than that, whatever fails. A job could still wait. `NoCircle` shows that once
the context has expired some activity of an unfinished job can go on (`CanGo`, the
guards of the fair steps; TLC finds it equal to `ENABLED` of them after the timeout),
unless the job is `Stranded`: a write to the pipe waits for a reader that has given
up. Here `Stages` needs to know that a job that waits has started both of its
goroutines. With fairness, which the prover does not handle, the three give
`JobEndsUnlessStranded`. `StrandedForGood` is the other half: a stranded job is
waiting and stays stranded, in every later state, which is what `Scheduler` assumes
of `GetStuck`.

`SchedulerIsPool` (in `SchedulerProofs`) shows that every step of `Scheduler` is
one of `Pool` or leaves it alone: the count of runs changes by one at a firing
and at an end, no entry fires once `Stop` has begun, and a graceful end of
`Stop` leaves none. `GenerationsCorrect` (in `AgentProofs`) shows that main
treats each of its schedulers as a `Pool` through any number of reloads.
Together they are the composition: the agent is checked and proved against the
pool, and the scheduler is one.

`WebhookProofs` proves the invariants of the `Webhook` run, and that each step
of the sender is one of `Notifier` or none (`SenderIsNotifier`, against
`Notifier!SafeSpec`, which is `Notifier` without its fairness). `IInv` adds
`Held` (the worker holds the one notification being sent), `Queued` (the channel
holds those queued, each once), `Counted` (the receiver has seen at most one
copy per attempt), `Tried` and `Closing` (the worker leaves an empty closed
channel only, and `Stop` returns after it). The refinement rests on lemmas about
`Append` and `Tail` of the pending sequence. `StopDrains` shows why `Stop`
returns: what is owed (the attempts left of the notification in the worker's
hands and of those in the queue, and the ends of worker and `Stop`) is bounded
by the capacity and the retries, never grows once the queue is closed, and
becomes less with each step of the worker. That the worker takes its steps is
the fairness of `Notifier`, which TLC checks.

`AgentProofs` proves `TypeOK`, `ExitIsOrderly`, `OldGenerationsOnlyDrain` and
`GenerationsArePools` for any number of runs and any number of reloads. `IInv`
says that replaced generations are down and later ones do not exist
(`Replaced`), how far main has stopped the current one (`Current`), and that
main only returns with the collection idle (`Leaving`).

`RetentionProofs` proves `TypeOK`, `StoredIsSpared` and `ReportedIsStored` for
any containers, prefixes, worlds, timeout and room. The difficulty is that the
decision to delete is taken from a listing, and the deletion goes by name.
`IInv` says that what was listed is as it was listed or belongs to a backup
young enough to be still writing when it was listed (`Listed`), and that what is
to be deleted was due, hence what now has its key is due as well unless the
retention is shorter than a backup may take and a listing be old together
(`Brief`, `Doomed`); TLC finds that this sum, and not the timeout alone, is
where it begins; with `Dated`, `Single`, `Owned`, `Visiting`, `WrittenInTime`
and `Present` about stores, names and times. `DueAreDoomed` is the opposite
question, the safety part of `DueAreCollected`: a collection that is not brief
condemns all that is due at the cut-off, and what is condemned is left only by a
failed deletion or by the end of the hour. Its invariant `AllSeen` says that
what is missing from a listing was written after it, hence too young; an upload
is dated by its beginning, so "too young" means within the timeout and the age
of the listing, and a brief retention is an exception here too.
`RespectSuffices` turns the finding `DeletedByOwnRetention` round: where no
collection that lists a container's objects is brief or has a shorter retention
than that container (`RespectsOwners`, a condition on labels only, which the
second world of `MCRetention` meets), whatever is deleted had outlived the
retention of its own container.

`AdmissionProofs` proves all five invariants of its run for any labels,
databases and servers and any width of integers. `RetentionCorrect` says for every
pair of settings what the effective retention is, also for those that are not
understood: a label that is not ("4w", "30days", `discovery.go:260-285`) counts as
none, so that the global period governs, which may be shorter than what the label
meant. `Computed` says that what a run
has done so far is what the operators compute from its labels; one lemma per
operator does the rest by its cases.

Assumed are the named assumptions on the constants only, which TLC evaluates in
every run. Model-checked only are the liveness properties
(`JobEndsUnlessStranded`, `TokensReturn`, `ReloadReschedules`,
`QueuedTermStops`, `MissedIsRepaired`, `RegisteredGetsScheduled`,
`AlwaysListensAgain`, `DueAreCollected`, and the fairness of `Notifier` in
`ImplementsNotifier`), because the prover handles neither fairness nor
`ENABLED`; of four of them the part that is safety is proved (`StepsCount` with
`NoCircle`, `LoopCoversCopy`, `DueAreDoomed`, `StopDrains`). The others are
`TokensReturn`, which rests on the end of backups, `ReloadReschedules` and
`QueuedTermStops`, which rest on the fairness of `select`, and
`MissedIsRepaired` and `AlwaysListensAgain`, which rest on Docker. Model-checked
only are also the five counterexamples of section 5.

## 5. Where the code and its documents disagree

1. `JobEnds`: a writer that fails does not close its end of the pipe; the dumper
   blocks for ever, keeps its slot, and its container is never backed up again
   (`StrandedForGood`). Once every slot is kept so, no container is.
2. `MetadataMeansWhole`: a timeout that hits between the exit of the tool and the
   last read stores a truncated dump as a success (local destination).
3. `NeverPanics`: main stops the sender before the scheduler; a backup that ends
   in between sends on a closed channel.
4. `StartedAreRegistered`: a start between list and subscription is lost.
5. `DeletedByOwnRetention`: a container without a prefix, or with that of a parent
   directory, has the backups of all the others deleted by its own retention
   ("overrides global", `README.md:215`, is not limited to its own backups); the
   labels of the others are the only cause (`RespectSuffices`).

Seen while modelling, and stated in the models as the limits of what holds:

- `README.md` and `docs/TROUBLESHOOTING.md` say that the breaker recovers after
  thirty seconds; `NewSender` makes it wait five minutes.
- A reload starts with an empty semaphore while old backups may run, so that two
  generations together exceed the limit (`OldGenerationsOnlyDrain` is what is
  left: the old ones only become fewer).
- A SIGTERM behind a queued SIGHUP is dropped (`QueuedTermStops` speaks of those
  that are not).
- A signal that a container survives unregisters it (`RegistryIsAccurate`
  leaves such containers out, `MissedIsRepaired` does not).
- `parseLabels` registers any five fields; an expression that cron refuses is
  logged at every tick and never gets a job (`docs/TROUBLESHOOTING.md:11-12` has the
  symptom, line 27 the advice): `RegisteredGetsScheduled` is about the others.
- "Docker client reconnection with exponential backoff" (`README.md:400`) holds for
  errors. A stream that is closed without one ends the watcher, and nothing starts
  another (`AlwaysListensAgain`).
- A job whose context expires between the opening of the writer and the start of
  the dump leaves an empty file; the clean-up ("Cleanup partial backup on
  failure", `scheduler.go:357`) needs `bytesWritten > 0`. `FailureLeavesNoData`
  speaks of data for that reason. The clean up is also made under the job's own
  context, which may have expired (`LateCleanUp`).
- A changed specification with an unchanged expression never reaches the backups,
  because cron's closure keeps the old one and nothing reads the stored one
  ("updating internal spec details only", `scheduler.go:80`).
- Nothing removes the job of a container that was unregistered: the loop of main
  ranges over the registry only, whose specifications are all enabled
  ("Automatically handles container start/stop events", `README.md:120`).
- A disk that is nine tenths full refuses the collection's writer as well, so
  that no retention frees it (`docs/TROUBLESHOOTING.md:98` advises to configure
  one): hence `~Blocked` in `DueAreCollected`. On S3 a prefix with a leading
  slash lists nothing, since names are cleaned of it and the listing is not
  (`ListsOwn`); on a disk the prefix "/" makes every write fail.
- The collection is driven by the registry: objects of containers that are gone
  stay until another container's prefix covers them. There is no rule that keeps
  the last backup of a container.
- The connection test of mongodb ("just check if we can connect", `mongodb.go:126`)
  is a `mongodump` of the whole connection string into `/tmp`. With a
  `backup.database` that differs from the path both `--uri` and `--db` name one,
  which mongodump refuses, after the object was opened (`NothingOpenedInVain`
  names the case); with one that equals the server's name `--db` is left out.
- postgres ignores `backup.database` for the dump, but names the object by it;
  a slash in the query of a connection string misleads the name (`Misnamed`).
  A redis dump is of the whole server, whatever `-n` the test used
  (`TestVouchesForDump`); redis is admitted without a connection string, and
  then always fails its test.
- A global period that cannot be parsed falls back to "7d", which
  `time.ParseDuration` does not know: the period is zero and the collection off
  (`GlobalRetention`). A label that cannot be parsed gives way to the global
  period without more than a warning. Days that overflow may become a short period
  (`Overflow` in `KeptAsAsked`).
- `loadGlobalConfig` sets none of `GLOBAL_CRON`, `GLOBAL_RETENTION`,
  `CONCURRENT_BACKUP_LIMIT`, `BACKUP_TIMEOUT_MINUTES` and the `WEBHOOK_` keys, so
  that the defaults of `README.md:192` and 193 cannot be changed, `validateConfig`
  never rejects anything, and a reload reads the same environment again. For the
  same reason the back-off of the sender cannot overflow.
- `globalRetentionPeriod` and `gcDryRun` are assigned by a reload while a
  collection reads them. As a reload reads the same environment, both have the
  same value before and after, and `Retention` has them constant.
- Expressions like `@daily` are refused, having fewer than five fields
  (`"short"` in `Admission`).
- Two tests of the repository expect something else than the code does, and than
  the models do, which follow the code: `writer_test.go:36-43` expects
  "redis-default-" where `GenerateObjectName` puts "database" (`writer.go:96`), and
  the dry run of `gc_test.go:65-72` expects one deletion where `RunGC` makes none
  (`gc.go:128`).

## 6. What is not modelled, and what is left

Not modelled, and why:

- the text of command lines, hosts, users and quoting (`Admission` has what they
  say of a database), the cleaning of ".." in prefixes, the bytes and sums of
  objects;
- a panic of the writer goroutine, which would end the process;
- `ReadObject` and `ReadMetadata`, which only the handler of `/metadata` calls
  (`main.go:347`), and the other HTTP handlers: they read, and change nothing
  (their shutdown is in `Agent`); `ValidateBackup`, which only a test calls;
  encryption, which nothing calls; and the logger;
- memory that is shared without synchronisation beyond what is said in section 5.

`Scheduler` and `Discovery` are not composed: under one ID only the name of a
container changes, never its schedule, so that through reconciliation the
scheduler sees one expression per ID, which is less than its own run gives it.

Left for later, in order of what matters:

1. `TokensReturn` over an abstract job whose end is that of `BackupJob`, instead
   of an assumption that it ends.
2. Two agents on one store, which the names of objects do not keep apart.
