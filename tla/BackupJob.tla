------------------------------ MODULE BackupJob ------------------------------
(***************************************************************************)
(* One firing of a scheduled backup, from the moment it holds a slot of    *)
(* the concurrency limit to the notification it enqueues: the function     *)
(* returned by Scheduler.jobFunc with everything it calls.  Five           *)
(* activities run concurrently:                                            *)
(*                                                                         *)
(*   job     the cron goroutine: tests the database, opens the writer,     *)
(*           starts the next two, waits for both, decides the outcome      *)
(*   dumper  runs the dump tool and owns the write end of an io.Pipe       *)
(*   copier  StreamAndGzip's goroutine: tool's stdout -> gzip -> pipe      *)
(*   tool    the operating system process (pg_dump, mariadb-dump, ...)     *)
(*   writer  reads the pipe and stores the object, on disk or in S3        *)
(*                                                                         *)
(* Every one of them can be overtaken by the expiry of the job's context.  *)
(* Data is counted, not represented: the tool's output is Chunks reads of  *)
(* its stdout, each forwarded as one write to the pipe, and closing the    *)
(* gzip stream is one more write (header or trailer).  A whole backup is   *)
(* therefore Chunks + 1 parts.                                             *)
(***************************************************************************)
EXTENDS Naturals

CONSTANTS
    Chunks,     \* reads of stdout that a complete dump takes
    OsPipe      \* chunks the operating system's pipe holds before the tool blocks

ASSUME JobAssumption == Chunks \in Nat \ {0} /\ OsPipe \in Nat \ {0}

VARIABLES
    job,        \* where the job goroutine is
    ctx,        \* jobCtx: "live" until the backup timeout
    dest,       \* destination of the spec: "local" or "remote"
    dumper,     \* where the dumper goroutine is
    copier,     \* where StreamAndGzip's copying goroutine is
    tool,       \* the dump process: "none", "running", "ok" (exit 0), "failed"
    made,       \* chunks the tool has written to its stdout
    taken,      \* chunks the copier has read from it
    pipe,       \* write end of the io.Pipe: "open", "eof" or "error"
    writer,     \* where the writer goroutine is
    parts,      \* parts the writer has read from the io.Pipe
    stored,     \* an object is visible under objectName (its content: parts)
    meta,       \* size recorded in the metadata object, 0 if there is none
    dumpErr, writeErr,  \* the two error variables are not nil
    panicked,   \* the dumper goroutine recovered from a panic
    spoiled,    \* the store refused a delete, or stored what it reported as failed
    report      \* the notification enqueued: "none", "success" or "failure"

jobVars    == <<job, report>>
dumpVars   == <<dumper, dumpErr, panicked>>
streamVars == <<copier, tool, made, taken>>
writeVars  == <<writer, parts, writeErr>>
storeVars  == <<stored, meta, spoiled>>
vars == <<jobVars, ctx, dest, dumpVars, streamVars, pipe, writeVars, storeVars>>

Whole == Chunks + 1

(***************************************************************************)
(* The values the variables range over.                                    *)
(***************************************************************************)
TypeOK ==
    /\ job \in {"connect", "open", "wait", "metadata", "cleanup", "notify", "done"}
    /\ ctx \in {"live", "expired"}
    /\ dest \in {"local", "remote"}
    /\ dumper \in {"idle", "check", "dump", "stream", "flush", "close", "done"}
    /\ copier \in {"idle", "select", "read", "write", "done"}
    /\ tool \in {"none", "running", "ok", "failed"}
    /\ made \in 0..Chunks
    /\ taken \in 0..made
    /\ pipe \in {"open", "eof", "error"}
    /\ writer \in {"idle", "check", "open", "copy", "done"}
    /\ parts \in 0..Whole
    /\ meta \in 0..Whole
    /\ dumpErr \in BOOLEAN /\ writeErr \in BOOLEAN /\ panicked \in BOOLEAN
    /\ stored \in BOOLEAN /\ spoiled \in BOOLEAN
    /\ report \in {"none", "success", "failure"}

Init ==
    /\ job = "connect" /\ report = "none"
    /\ ctx = "live" /\ dest \in {"local", "remote"}
    /\ dumper = "idle" /\ dumpErr = FALSE /\ panicked = FALSE
    /\ copier = "idle" /\ tool = "none" /\ made = 0 /\ taken = 0
    /\ pipe = "open"
    /\ writer = "idle" /\ parts = 0 /\ writeErr = FALSE
    /\ stored = FALSE /\ meta = 0 /\ spoiled = FALSE

\* context.WithTimeout(context.Background(), backupTimeout) fires.
Expire ==
    /\ ctx = "live" /\ job # "done"
    /\ ctx' = "expired"
    /\ UNCHANGED <<jobVars, dest, dumpVars, streamVars, pipe, writeVars, storeVars>>

-----------------------------------------------------------------------------
(* The job goroutine, up to the point where it waits.                      *)

\* webhookSender.Enqueue(payload) and return: the deferred calls run.
Enqueue(outcome) == report' = outcome /\ job' = "done"

\* GetDumper, then TestConnection under jobCtx.
Connect ==
    /\ job = "connect"
    /\ \/ ctx = "live" /\ job' = "open" /\ UNCHANGED report
       \/ Enqueue("failure")
    /\ UNCHANGED <<ctx, dest, dumpVars, streamVars, pipe, writeVars, storeVars>>

\* GetWriter (disk space or bucket check), then the two goroutines start.
OpenWriter ==
    /\ job = "open"
    /\ \/ /\ Enqueue("failure")
          /\ UNCHANGED <<dumper, writer>>
       \/ /\ job' = "wait" /\ dumper' = "check" /\ writer' = "check"
          /\ UNCHANGED report
    /\ UNCHANGED <<ctx, dest, dumpErr, panicked, streamVars, pipe, parts, writeErr,
                   storeVars>>

-----------------------------------------------------------------------------
(* The dumper goroutine.                                                   *)

\* A context that is already done ends the goroutine; the deferred
\* pw.Close() gives the reader a plain end of file.
DumperCheck ==
    /\ dumper = "check"
    /\ IF ctx = "expired"
       THEN dumper' = "done" /\ dumpErr' = TRUE /\ pipe' = "eof"
       ELSE dumper' = "dump" /\ UNCHANGED <<dumpErr, pipe>>
    /\ UNCHANGED <<jobVars, ctx, dest, panicked, streamVars, writeVars, storeVars>>

\* Dump builds the command and StreamAndGzip starts it.  An error before
\* StreamAndGzip returns at once; a failed cmd.Start (a missing binary, an
\* expired context) returns through the deferred gw.Close(), which writes.
StartTool ==
    /\ dumper = "dump"
    /\ \/ /\ dumper' \in {"flush", "close"} /\ dumpErr' = TRUE
          /\ UNCHANGED <<copier, tool>>
       \/ /\ ctx = "live"
          /\ dumper' = "stream" /\ tool' = "running" /\ copier' = "select"
          /\ UNCHANGED dumpErr
    /\ UNCHANGED <<jobVars, ctx, dest, panicked, made, taken, pipe, writeVars, storeVars>>

\* stderr read to its end, wg.Wait() for the copier, then cmd.Wait().  It reports
\* a non-zero exit, and a context that expired in time for exec's watcher to signal
\* the process: when the process is reaped first, the expiry goes unreported.
Reap(waited) ==
    /\ dumper = "stream" /\ waited
    /\ dumper' = "flush"
    /\ dumpErr' \in BOOLEAN
    /\ tool # "ok" => dumpErr'
    /\ dumpErr' => tool # "ok" \/ ctx = "expired"
    /\ UNCHANGED <<jobVars, ctx, dest, panicked, streamVars, pipe, writeVars, storeVars>>

\* Mutants: without the copier's wg.Wait(), without cmd.Wait().
ReapWithoutCopier == Reap(tool # "running")
ReapWithoutTool   == Reap(copier = "done")

ReapTool == Reap(tool # "running" /\ copier = "done")

\* A panic inside Dump, before the tool starts or after it was reaped.  In the
\* second case the deferred gw.Close() still runs.
DumperPanics ==
    /\ \/ dumper = "dump" /\ dumper' = "close"
       \/ /\ dumper = "stream" /\ tool # "running" /\ copier = "done"
          /\ dumper' = "flush"
    /\ dumpErr' = TRUE /\ panicked' = TRUE
    /\ UNCHANGED <<jobVars, ctx, dest, streamVars, pipe, writeVars, storeVars>>

\* CloseWithError(dumpErr) when Dump returned an error, Close() when it
\* returned nil or panicked: only the first close of a pipe counts.
ClosePipeAs(end) ==
    /\ dumper = "close"
    /\ dumper' = "done"
    /\ pipe' = end
    /\ UNCHANGED <<jobVars, ctx, dest, dumpErr, panicked, streamVars, writeVars, storeVars>>

\* Mutant: the deferred pw.Close() is missing.
ClosePipeOnlyOnError == ClosePipeAs(IF dumpErr /\ ~panicked THEN "error" ELSE pipe)

ClosePipe == ClosePipeAs(IF dumpErr /\ ~panicked THEN "error" ELSE "eof")

-----------------------------------------------------------------------------
(* StreamAndGzip's copying goroutine and the dump process.                 *)

\* select { case <-ctx.Done(): return; default: }
CopierSelect ==
    /\ copier = "select"
    /\ copier' = IF ctx = "expired" THEN "done" ELSE "read"
    /\ UNCHANGED <<jobVars, ctx, dest, dumpVars, tool, made, taken, pipe, writeVars, storeVars>>

\* Mutant: the end of file is taken for data.
CopierReadPastEnd ==
    /\ copier = "read"
    /\ made > taken \/ tool # "running"
    /\ taken' = taken + 1 /\ copier' = "write"
    /\ UNCHANGED <<jobVars, ctx, dest, dumpVars, tool, made, pipe, writeVars, storeVars>>

\* Mutant: a read that returns nothing is tried again.
CopierReadPolls ==
    /\ copier = "read"
    /\ \/ made > taken /\ taken' = taken + 1 /\ copier' = "write"
       \/ made = taken /\ tool = "running" /\ copier' = "select" /\ UNCHANGED taken
       \/ made = taken /\ tool # "running" /\ copier' = "done" /\ UNCHANGED taken
    /\ UNCHANGED <<jobVars, ctx, dest, dumpVars, tool, made, pipe, writeVars, storeVars>>

\* stdoutPipe.Read blocks until there is data, or the process is gone.
CopierRead ==
    /\ copier = "read"
    /\ \/ made > taken /\ taken' = taken + 1 /\ copier' = "write"
       \/ made = taken /\ tool # "running" /\ copier' = "done" /\ UNCHANGED taken
    /\ UNCHANGED <<jobVars, ctx, dest, dumpVars, tool, made, pipe, writeVars, storeVars>>

ToolWrites ==
    /\ tool = "running" /\ made < Chunks /\ made - taken < OsPipe
    /\ made' = made + 1
    /\ UNCHANGED <<jobVars, ctx, dest, dumpVars, copier, tool, taken, pipe, writeVars, storeVars>>

\* Exit status 0 means that the whole dump was written to stdout.
ToolExits ==
    /\ tool = "running"
    /\ tool' \in IF made = Chunks THEN {"ok", "failed"} ELSE {"failed"}
    /\ UNCHANGED <<jobVars, ctx, dest, dumpVars, copier, made, taken, pipe, writeVars, storeVars>>

\* exec.CommandContext kills the process when the context is done.
ToolKilled ==
    /\ tool = "running" /\ ctx = "expired"
    /\ tool' = "failed"
    /\ UNCHANGED <<jobVars, ctx, dest, dumpVars, copier, made, taken, pipe, writeVars, storeVars>>

-----------------------------------------------------------------------------
(* The writer goroutine: LocalWriter.Write or S3Writer.Write.              *)

WriterCheck ==
    /\ writer = "check"
    /\ IF ctx = "expired"
       THEN writer' = "done" /\ writeErr' = TRUE
       ELSE writer' = "open" /\ UNCHANGED writeErr
    /\ UNCHANGED <<jobVars, ctx, dest, dumpVars, streamVars, pipe, parts, storeVars>>

\* The local writer checks the disk again and creates the file under its final
\* name; it can be refused at each step.  An upload shows nothing until it ends.
WriterOpens ==
    /\ writer = "open"
    /\ \/ /\ writer' = "copy" /\ stored' = (dest = "local")
          /\ UNCHANGED writeErr
       \/ /\ dest = "local"
          /\ writer' = "done" /\ writeErr' = TRUE /\ UNCHANGED stored
    /\ UNCHANGED <<jobVars, ctx, dest, dumpVars, streamVars, pipe, parts, meta, spoiled>>

\* An io.Pipe has no buffer: a write ends when the reader has taken the data.
WriterTakes ==
    /\ writer = "copy"
    /\ \/ copier = "write" /\ copier' = "select" /\ UNCHANGED dumper
       \/ dumper = "flush" /\ dumper' = "close" /\ UNCHANGED copier
    /\ parts' = parts + 1
    /\ UNCHANGED <<jobVars, ctx, dest, dumpErr, panicked, tool, made, taken, pipe,
                   writer, writeErr, storeVars>>

\* The reader saw the end of the stream: the file is complete, or the upload is
\* committed (which needs a live context).
WriterFinishes ==
    /\ writer = "copy" /\ pipe = "eof"
    /\ dest = "remote" => ctx = "live"
    /\ writer' = "done" /\ stored' = TRUE
    /\ UNCHANGED <<jobVars, ctx, dest, dumpVars, streamVars, pipe, parts, writeErr,
                   meta, spoiled>>

\* Write returns an error.  The local file is removed; a removal that fails, or
\* an upload committed although its answer was lost, leaves the object behind.
WriteFails ==
    /\ writer' = "done" /\ writeErr' = TRUE
    /\ \/ stored' = FALSE /\ UNCHANGED spoiled
       \/ /\ dest = "local" \/ pipe = "eof"
          /\ stored' = TRUE /\ spoiled' = TRUE
    /\ UNCHANGED <<jobVars, ctx, dest, dumpVars, streamVars, pipe, parts, meta>>

\* The failure comes from the dumper's side of the pipe or from the context.
WriterAborts ==
    /\ writer = "copy"
    /\ pipe = "error" \/ (dest = "remote" /\ ctx = "expired")
    /\ WriteFails

\* The disk or the network fails.
WriterBreaks ==
    /\ writer = "copy" /\ pipe # "error"
    /\ WriteFails

-----------------------------------------------------------------------------
(* The job goroutine, after wg.Wait().                                     *)

jobSuccess   == ~dumpErr /\ ~writeErr
bytesWritten == IF writeErr THEN 0 ELSE parts

\* Mutants: metadata whatever the outcome; a clean up that trusts the writer.
JoinedNextAlwaysMetadata == IF bytesWritten > 0 THEN "metadata" ELSE "notify"
JoinedNextNoCleanUp == IF jobSuccess /\ bytesWritten > 0 THEN "metadata" ELSE "notify"

JoinedNext ==
    CASE jobSuccess  /\ bytesWritten > 0 -> "metadata"
      [] ~jobSuccess /\ bytesWritten > 0 -> "cleanup"
      [] OTHER -> "notify"

Join ==
    /\ job = "wait" /\ dumper = "done" /\ writer = "done"
    /\ job' = JoinedNext
    /\ UNCHANGED <<report, ctx, dest, dumpVars, streamVars, pipe, writeVars, storeVars>>

\* The store can be reached: S3 calls are made under jobCtx, local ones ignore it.
Reachable == dest = "local" \/ ctx = "live"

\* Mutant: without its metadata the object is taken back.
WriteMetadataOrRemove ==
    /\ job = "metadata" /\ job' = "notify"
    /\ \/ Reachable /\ meta' = bytesWritten /\ UNCHANGED stored
       \/ stored' = FALSE /\ UNCHANGED meta
    /\ UNCHANGED <<report, ctx, dest, dumpVars, streamVars, pipe, writeVars, spoiled>>

\* writer.WriteMetadata: a failure is only logged.
WriteMetadata ==
    /\ job = "metadata"
    /\ \/ Reachable /\ meta' = bytesWritten
       \/ UNCHANGED meta
    /\ job' = "notify"
    /\ UNCHANGED <<report, ctx, dest, dumpVars, streamVars, pipe, writeVars, stored, spoiled>>

\* backupWriter.DeleteObject: a failure is only logged, of the store or of the job's
\* own context.
CleanUp ==
    /\ job = "cleanup"
    /\ \/ Reachable /\ stored' = FALSE /\ UNCHANGED spoiled
       \/ Reachable /\ spoiled' = TRUE /\ UNCHANGED stored
       \/ ~Reachable /\ UNCHANGED <<stored, spoiled>>
    /\ job' = "notify"
    /\ UNCHANGED <<report, ctx, dest, dumpVars, streamVars, pipe, writeVars, meta>>

Notify ==
    /\ job = "notify"
    /\ Enqueue(IF jobSuccess THEN "success" ELSE "failure")
    /\ UNCHANGED <<ctx, dest, dumpVars, streamVars, pipe, writeVars, storeVars>>

-----------------------------------------------------------------------------
JobStep    == Connect \/ OpenWriter \/ Join \/ WriteMetadata \/ CleanUp \/ Notify
DumperStep == DumperCheck \/ StartTool \/ ReapTool \/ ClosePipe
CopierStep == CopierSelect \/ CopierRead
WriterStep == WriterCheck \/ WriterOpens \/ WriterTakes \/ WriterFinishes \/ WriterAborts

Next ==
    \/ JobStep \/ DumperStep \/ CopierStep \/ WriterStep
    \/ Expire \/ ToolKilled
    \/ ToolWrites \/ ToolExits \/ WriterBreaks \/ DumperPanics

Spec == Init /\ [][Next]_vars

(***************************************************************************)
(* Fairness: goroutines are scheduled, the timer of the context fires and  *)
(* the kernel delivers the kill.  Nothing is assumed of the dump tool,     *)
(* which may hang, and nothing forces the disk, the network or the dumper  *)
(* to fail.                                                                *)
(***************************************************************************)
FairSpec ==
    /\ Spec
    /\ WF_vars(JobStep) /\ WF_vars(DumperStep) /\ WF_vars(CopierStep)
    /\ WF_vars(WriterStep) /\ WF_vars(Expire) /\ WF_vars(ToolKilled)

-----------------------------------------------------------------------------
(***************************************************************************)
(* A success announced by the webhook stands for a whole dump of a tool    *)
(* that exited with 0, present in the store.  This needs the order of the  *)
(* waits in StreamAndGzip and jobFunc; it is claimed of the jobs that ran  *)
(* within their timeout, and of every upload, because an upload is only    *)
(* committed under a live context.                                         *)
(***************************************************************************)
SuccessIsComplete ==
    report = "success" /\ (ctx = "live" \/ dest = "remote") =>
        stored /\ parts = Whole /\ tool = "ok"

(***************************************************************************)
(* A metadata object never describes a backup that is missing or has       *)
(* another size, and is never left behind by a job that reports a failure: *)
(* jobFunc writes it after both goroutines have ended, and only if neither *)
(* recorded an error.                                                      *)
(***************************************************************************)
MetadataDescribesObject ==
    meta > 0 => stored /\ meta = parts /\ report # "failure"

(***************************************************************************)
(* A failed job leaves no data of the dump behind, on every path: refused  *)
(* opens, errors on either side of the pipe, expiry, panics.  The store    *)
(* must have obeyed (spoiled), and one path is excepted, on which the code *)
(* itself is at fault: a panic closes the pipe without an error, so that   *)
(* the upload is committed, and the timeout passes before the clean up,    *)
(* whose delete is made under the job's context.  An empty file may stay:  *)
(* the clean up depends on bytesWritten > 0, and a dumper that finds its   *)
(* context expired closes the pipe without an error.                       *)
(***************************************************************************)
LateCleanUp == panicked /\ dest = "remote" /\ ctx = "expired"
FailureLeavesNoData ==
    report = "failure" /\ ~spoiled /\ ~LateCleanUp => ~stored \/ parts = 0

(***************************************************************************)
(* When the job returns its slot, nothing it started is still at work: the *)
(* dump process was reaped and no goroutine of it is left.                 *)
(***************************************************************************)
NothingOutlivesTheJob ==
    job = "done" =>
        /\ tool # "running" /\ copier \in {"idle", "done"}
        /\ dumper \in {"idle", "done"} /\ writer \in {"idle", "done"}

\* A write to the pipe waits for a reader that has given up.
Stranded == writer = "done" /\ (copier = "write" \/ dumper = "flush")

(***************************************************************************)
(* Whatever the tool, the disk and the network do, the job ends and gives  *)
(* its slot back: the timeout unblocks every wait of jobFunc.  The one     *)
(* exception is a writer that gives up first (see JobEnds).                *)
(***************************************************************************)
JobEndsUnlessStranded == <>(job = "done" \/ Stranded)

\* What each activity has still to do, by where it is: an upper bound of its steps.
\* The copier takes three for a chunk.
JobLeft(at) ==
    CASE at = "connect" -> 5 [] at = "open" -> 4 [] at = "wait" -> 3
      [] at \in {"metadata", "cleanup"} -> 2 [] at = "notify" -> 1 [] at = "done" -> 0
DumperLeft(at) ==
    CASE at = "idle" -> 6 [] at = "check" -> 5 [] at = "dump" -> 4 [] at = "stream" -> 3
      [] at = "flush" -> 2 [] at = "close" -> 1 [] at = "done" -> 0
CopierLeft(at, read) == 3 * (Chunks - read) +
    CASE at = "write" -> 3 [] at \in {"idle", "select"} -> 2
      [] at = "read" -> 1 [] at = "done" -> 0
ToolLeft(at, written) == (Chunks - written) + IF at \in {"none", "running"} THEN 1 ELSE 0
WriterLeft(at) ==
    CASE at = "idle" -> 4 [] at = "check" -> 3 [] at = "open" -> 2 [] at = "copy" -> 1
      [] at = "done" -> 0
TimerLeft(at) == IF at = "live" THEN 1 ELSE 0
Left == JobLeft(job) + DumperLeft(dumper) + CopierLeft(copier, taken)
            + ToolLeft(tool, made) + WriterLeft(writer) + TimerLeft(ctx)

(***************************************************************************)
(* The first half of why a job ends, which needs no fairness: no loop and  *)
(* no way to fail goes round in circles, every step of any activity leaves *)
(* less to be done, however large the dump is.                             *)
(***************************************************************************)
EveryStepCounts == [][0 <= Left' /\ Left' < Left]_vars

\* Some activity has a step that nothing but its own goroutine is needed for; a tool
\* that still runs is being killed.
CanGo ==
    \/ job = "wait" => dumper = "done" /\ writer = "done"
    \/ dumper \in {"check", "dump", "close"}
    \/ dumper = "stream" /\ copier = "done"
    \/ copier \in {"select", "read"}
    \/ tool = "running"
    \/ writer \in {"check", "open"}
    \/ writer = "copy" /\ (copier = "write" \/ dumper = "flush" \/ pipe # "open")

(***************************************************************************)
(* The second half: once the timeout has passed, the activities never all  *)
(* wait for each other.  The job waits for the dumper and the writer, the  *)
(* dumper for the tool and the copier, the copier for the writer and the   *)
(* writer for the pipe; the circle only closes if the writer gave up first.*)
(***************************************************************************)
TimeoutLeavesNoCircle == ctx = "expired" /\ job # "done" /\ ~Stranded => CanGo

(***************************************************************************)
(* The documented meaning of BACKUP_TIMEOUT_MINUTES: a backup operation    *)
(* ends at its timeout.  A writer that fails never closes the read end of  *)
(* the pipe, so the dumper's next write blocks for ever and wg.Wait() with *)
(* it: the code violates this.                                             *)
(***************************************************************************)
JobEnds == <>(job = "done")

(***************************************************************************)
(* The comment "Only write metadata for successful backups" of jobFunc,    *)
(* read as a statement about the dump: what has metadata is a whole dump.  *)
(* StreamAndGzip's copier leaves at an expired context without an error,   *)
(* so output that the finished tool had already written can be dropped and *)
(* the rest be stored as a success.  The code violates this.               *)
(***************************************************************************)
MetadataMeansWhole == meta > 0 => parts = Whole

(***************************************************************************)
(* However its activities interleave, end and are cut off, the job is an   *)
(* atomic commitment of its two goroutines: nothing is decided, described, *)
(* removed or reported before both have settled, neither changes its mind, *)
(* and the object of a success is never touched again.                     *)
(***************************************************************************)
Vote(end, err) == IF end # "done" THEN "none" ELSE IF err THEN "no" ELSE "yes"
Abstract == INSTANCE Backup WITH
    vote <- [dump |-> Vote(dumper, dumpErr), write |-> Vote(writer, writeErr)],
    object <- stored, described <- meta > 0
ImplementsBackup == Abstract!Spec

=============================================================================
