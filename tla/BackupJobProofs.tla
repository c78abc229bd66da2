--------------------------- MODULE BackupJobProofs ---------------------------
(***************************************************************************)
(* Proofs about BackupJob for every number of chunks and every capacity of *)
(* the operating system's pipe.  The safety properties are not inductive:  *)
(* whether a stored object is whole is decided long before it is reported, *)
(* so the invariant follows the data from the tool to the store.           *)
(***************************************************************************)
EXTENDS BackupJob, TLAPS

\* Which goroutines exist at each stage of the job.
Stages ==
    /\ job \in {"connect", "open"} => dumper = "idle" /\ writer = "idle"
    /\ job = "wait" => dumper # "idle" /\ writer # "idle"
    /\ job \in {"metadata", "cleanup", "notify"} => dumper = "done" /\ writer = "done"
    /\ job = "done" => /\ report # "none"
                       /\ \/ dumper = "idle" /\ writer = "idle"
                          \/ dumper = "done" /\ writer = "done"
    /\ job # "done" => report = "none"

\* The copier and the tool live inside the dumper's call of StreamAndGzip.
Nesting ==
    /\ dumper \in {"idle", "check", "dump"} =>
         copier = "idle" /\ tool = "none" /\ made = 0 /\ ~dumpErr
    /\ dumper = "stream" => copier # "idle" /\ tool # "none" /\ ~dumpErr
    /\ dumper \in {"flush", "close", "done"} => copier \in {"idle", "done"} /\ tool # "running"
    /\ pipe = "open" <=> dumper # "done"

\* What is known of the data at each point between the tool and the pipe.
DataFlow ==
    /\ tool = "ok" => made = Chunks
    /\ copier = "done" /\ ctx = "live" => taken = made /\ tool # "running"
    /\ copier = "write" => taken > 0
    /\ dumper \notin {"close", "done"} =>
         parts + (IF copier = "write" THEN 1 ELSE 0) = taken
    /\ dumper \in {"close", "done"} => parts <= taken + 1
    /\ dumper \in {"flush", "close", "done"} /\ ~dumpErr => tool = "ok" /\ copier = "done"
    /\ dumper \in {"close", "done"} /\ ~dumpErr => parts = taken + 1
    /\ dumper = "done" /\ dumpErr /\ pipe = "eof" => panicked \/ parts = 0

\* What the store holds at each stage of the writer.
Storage ==
    /\ writer \in {"idle", "check", "open"} => ~stored /\ ~writeErr /\ ~spoiled
    /\ writer # "done" => ~writeErr
    /\ writer = "done" /\ writeErr => ~stored \/ spoiled
    /\ writer = "done" /\ ~writeErr => pipe = "eof"
    /\ writer = "done" /\ ~writeErr /\ (~dumpErr \/ job \in {"wait", "metadata", "cleanup"})
         => stored
    /\ writer = "done" /\ ~writeErr /\ ~dumpErr /\ dest = "remote" => taken = Chunks

\* What the job concludes from the two goroutines.
Verdict ==
    /\ job = "metadata" => jobSuccess
    /\ job = "cleanup" => ~jobSuccess
    /\ job \in {"notify", "done"} /\ dumper = "done" /\ ~jobSuccess /\ ~spoiled =>
         ~stored \/ parts = 0 \/ LateCleanUp
    /\ report = "success" => jobSuccess /\ dumper = "done"
    /\ report = "failure" => dumper = "idle" \/ ~jobSuccess
    /\ meta > 0 => job \in {"notify", "done"} /\ dumper = "done" /\ jobSuccess /\ meta = parts

IInv == TypeOK /\ Stages /\ Nesting /\ DataFlow /\ Storage /\ Verdict

\* Every step preserves the invariant.
LEMMA NextPreservesIInv == IInv /\ [Next]_vars => IInv'
  <1> SUFFICES ASSUME IInv, [Next]_vars PROVE IInv'
    OBVIOUS
  <1>1. CASE Connect
    BY <1>1
      DEF Connect, Enqueue, IInv, TypeOK, Stages, Nesting, DataFlow, Storage,
          Verdict, dumpVars, streamVars, writeVars, storeVars
  <1>2. CASE OpenWriter
    BY <1>2
      DEF OpenWriter, Enqueue, IInv, TypeOK, Stages, Nesting, DataFlow, Storage,
          Verdict, streamVars, storeVars
  <1>3. CASE Expire
    BY <1>3
      DEF Expire, IInv, TypeOK, Stages, Nesting, DataFlow, Storage, Verdict,
          LateCleanUp, jobSuccess, jobVars, dumpVars, streamVars, writeVars, storeVars
  <1>4. CASE DumperCheck
    <2>1. TypeOK /\ DumperCheck => TypeOK'
      BY DEF DumperCheck, TypeOK, jobVars, streamVars, writeVars, storeVars
    <2>2. Stages'
      BY <1>4 DEF DumperCheck, IInv, Stages, jobVars, writeVars
    <2>3. Nesting'
      BY <1>4 DEF DumperCheck, IInv, Nesting, streamVars
    <2>4. DataFlow'
      BY <1>4 DEF DumperCheck, IInv, TypeOK, Nesting, DataFlow, streamVars, writeVars
    <2>5. Storage'
      BY <1>4
        DEF DumperCheck, IInv, Storage, jobVars, streamVars, writeVars, storeVars
    <2>6. Verdict'
      BY <1>4 DEF DumperCheck, IInv, Stages, Verdict, jobVars, storeVars
    <2> QED BY <1>4, <2>1, <2>2, <2>3, <2>4, <2>5, <2>6 DEF IInv
  <1>5. CASE StartTool
    <2>1. TypeOK /\ StartTool => TypeOK'
      BY DEF StartTool, TypeOK, jobVars, writeVars, storeVars
    <2>2. Stages'
      BY <1>5 DEF StartTool, IInv, Stages, jobVars, writeVars
    <2>3. Nesting'
      BY <1>5 DEF StartTool, IInv, Nesting
    <2>4. DataFlow'
      BY <1>5 DEF StartTool, IInv, TypeOK, Nesting, DataFlow, writeVars
    <2>5. Storage'
      BY <1>5 DEF StartTool, IInv, Storage, jobVars, writeVars, storeVars
    <2>6. Verdict'
      BY <1>5 DEF StartTool, IInv, Stages, Verdict, jobVars, storeVars
    <2> QED BY <1>5, <2>1, <2>2, <2>3, <2>4, <2>5, <2>6 DEF IInv
  <1>6. CASE ReapTool
    BY <1>6
      DEF ReapTool, Reap, IInv, TypeOK, Stages, Nesting, DataFlow, Storage, Verdict,
          jobVars, streamVars, writeVars, storeVars
  <1>7. CASE DumperPanics
    BY <1>7
      DEF DumperPanics, IInv, TypeOK, Stages, Nesting, DataFlow, Storage, Verdict,
          jobVars, streamVars, writeVars, storeVars
  <1>8. CASE ClosePipe
    BY <1>8
      DEF ClosePipe, ClosePipeAs, IInv, TypeOK, Stages, Nesting, DataFlow, Storage,
          Verdict, jobVars, streamVars, writeVars, storeVars
  <1>9. CASE CopierSelect
    BY <1>9
      DEF CopierSelect, IInv, TypeOK, Stages, Nesting, DataFlow, Storage, Verdict,
          jobVars, dumpVars, writeVars, storeVars
  <1>10. CASE CopierRead
    BY <1>10
      DEF CopierRead, IInv, TypeOK, Stages, Nesting, DataFlow, Storage, Verdict,
          jobVars, dumpVars, writeVars, storeVars
  <1>11. CASE ToolWrites
    BY <1>11, JobAssumption
      DEF ToolWrites, IInv, TypeOK, Stages, Nesting, DataFlow, Storage, Verdict,
          jobVars, dumpVars, writeVars, storeVars
  <1>12. CASE ToolExits
    BY <1>12
      DEF ToolExits, IInv, TypeOK, Stages, Nesting, DataFlow, Storage, Verdict,
          jobVars, dumpVars, writeVars, storeVars
  <1>13. CASE ToolKilled
    BY <1>13
      DEF ToolKilled, IInv, TypeOK, Stages, Nesting, DataFlow, Storage, Verdict,
          jobVars, dumpVars, writeVars, storeVars
  <1>14. CASE WriterCheck
    <2>1. TypeOK /\ WriterCheck => TypeOK'
      BY DEF WriterCheck, TypeOK, jobVars, dumpVars, streamVars, storeVars
    <2>2. Stages'
      BY <1>14 DEF WriterCheck, IInv, Stages, jobVars, dumpVars
    <2>3. Nesting'
      BY <1>14 DEF WriterCheck, IInv, Nesting, dumpVars, streamVars
    <2>4. DataFlow'
      BY <1>14 DEF WriterCheck, IInv, DataFlow, dumpVars, streamVars
    <2>5. Storage'
      BY <1>14 DEF WriterCheck, IInv, Storage, storeVars
    <2>6. Verdict'
      BY <1>14 DEF WriterCheck, IInv, Stages, Verdict, jobVars, storeVars
    <2> QED BY <1>14, <2>1, <2>2, <2>3, <2>4, <2>5, <2>6 DEF IInv
  <1>15. CASE WriterOpens
    <2>1. TypeOK /\ WriterOpens => TypeOK'
      BY DEF WriterOpens, TypeOK, jobVars, dumpVars, streamVars
    <2>2. Stages'
      BY <1>15 DEF WriterOpens, IInv, Stages, jobVars, dumpVars
    <2>3. Nesting'
      BY <1>15 DEF WriterOpens, IInv, Nesting, dumpVars, streamVars
    <2>4. DataFlow'
      BY <1>15 DEF WriterOpens, IInv, DataFlow, dumpVars, streamVars
    <2>5. Storage'
      BY <1>15 DEF WriterOpens, IInv, Storage
    <2>6. Verdict'
      BY <1>15 DEF WriterOpens, IInv, Stages, Verdict, jobVars
    <2> QED BY <1>15, <2>1, <2>2, <2>3, <2>4, <2>5, <2>6 DEF IInv
  <1>16. CASE WriterTakes
    BY <1>16, JobAssumption
      DEF WriterTakes, IInv, TypeOK, Stages, Nesting, DataFlow, Storage, Verdict,
          Whole, jobVars, storeVars
  <1>17. CASE WriterFinishes
    BY <1>17
      DEF WriterFinishes, IInv, TypeOK, Stages, Nesting, DataFlow, Storage, Verdict,
          jobVars, dumpVars, streamVars
  <1>18. CASE WriterAborts
    <2>1. TypeOK /\ WriterAborts => TypeOK'
      BY DEF WriterAborts, WriteFails, TypeOK, jobVars, dumpVars, streamVars
    <2>2. Stages'
      BY <1>18 DEF WriterAborts, WriteFails, IInv, Stages, jobVars, dumpVars
    <2>3. Nesting'
      BY <1>18 DEF WriterAborts, WriteFails, IInv, Nesting, dumpVars, streamVars
    <2>4. DataFlow'
      BY <1>18 DEF WriterAborts, WriteFails, IInv, DataFlow, dumpVars, streamVars
    <2>5. Storage'
      BY <1>18 DEF WriterAborts, WriteFails, Storage
    <2>6. Verdict'
      BY <1>18 DEF WriterAborts, WriteFails, IInv, Stages, Verdict, jobVars
    <2> QED BY <1>18, <2>1, <2>2, <2>3, <2>4, <2>5, <2>6 DEF IInv
  <1>19. CASE WriterBreaks
    <2>1. TypeOK /\ WriterBreaks => TypeOK'
      BY DEF WriterBreaks, WriteFails, TypeOK, jobVars, dumpVars, streamVars
    <2>2. Stages'
      BY <1>19 DEF WriterBreaks, WriteFails, IInv, Stages, jobVars, dumpVars
    <2>3. Nesting'
      BY <1>19 DEF WriterBreaks, WriteFails, IInv, Nesting, dumpVars, streamVars
    <2>4. DataFlow'
      BY <1>19 DEF WriterBreaks, WriteFails, IInv, DataFlow, dumpVars, streamVars
    <2>5. Storage'
      BY <1>19 DEF WriterBreaks, WriteFails, Storage
    <2>6. Verdict'
      BY <1>19 DEF WriterBreaks, WriteFails, IInv, Stages, Verdict, jobVars
    <2> QED BY <1>19, <2>1, <2>2, <2>3, <2>4, <2>5, <2>6 DEF IInv
  <1>20. CASE Join
    BY <1>20
      DEF Join, JoinedNext, IInv, TypeOK, Stages, Nesting, DataFlow, Storage,
          Verdict, jobSuccess, bytesWritten, dumpVars, streamVars, writeVars,
          storeVars
  <1>21. CASE WriteMetadata
    BY <1>21
      DEF WriteMetadata, IInv, TypeOK, Stages, Nesting, DataFlow, Storage, Verdict,
          jobSuccess, bytesWritten, dumpVars, streamVars, writeVars
  <1>22. CASE CleanUp
    <2>1. TypeOK /\ CleanUp => TypeOK'
      BY DEF CleanUp, TypeOK, dumpVars, streamVars, writeVars
    <2>2. Stages'
      BY <1>22 DEF CleanUp, IInv, Stages, dumpVars, writeVars
    <2>3. Nesting'
      BY <1>22 DEF CleanUp, IInv, Nesting, dumpVars, streamVars
    <2>4. DataFlow'
      BY <1>22 DEF CleanUp, IInv, DataFlow, dumpVars, streamVars, writeVars
    <2>5. Storage'
      BY <1>22
        DEF CleanUp, IInv, Stages, Storage, Verdict, jobSuccess, dumpVars, writeVars
    <2>6. Verdict'
      BY <1>22
        DEF CleanUp, Reachable, LateCleanUp, IInv, TypeOK, Stages, DataFlow, Storage, Verdict,
            jobSuccess, dumpVars, streamVars, writeVars
    <2> QED BY <1>22, <2>1, <2>2, <2>3, <2>4, <2>5, <2>6 DEF IInv
  <1>23. CASE Notify
    BY <1>23
      DEF Notify, Enqueue, IInv, TypeOK, Stages, Nesting, DataFlow, Storage,
          Verdict, LateCleanUp, jobSuccess, dumpVars, streamVars, writeVars, storeVars
  <1>24. CASE UNCHANGED vars
    BY <1>24
      DEF IInv, TypeOK, Stages, Nesting, DataFlow, Storage, Verdict, LateCleanUp, jobSuccess,
          vars, jobVars, dumpVars, streamVars, writeVars, storeVars
  <1> QED
    BY <1>1, <1>2, <1>3, <1>4, <1>5, <1>6, <1>7, <1>8, <1>9, <1>10, <1>11, <1>12,
       <1>13, <1>14, <1>15, <1>16, <1>17, <1>18, <1>19, <1>20, <1>21, <1>22, <1>23,
       <1>24
      DEF Next, JobStep, DumperStep, CopierStep, WriterStep

\* What the invariant says in every reachable state.
LEMMA Invariance == Spec => []IInv
  <1>1. Init => IInv
    <2>1. Init => TypeOK
      <3>1. Init => /\ made \in 0..Chunks /\ taken \in 0..made
                    /\ parts \in 0..Whole /\ meta \in 0..Whole
        BY JobAssumption DEF Init, Whole
      <3> QED
        BY <3>1 DEF Init, TypeOK
    <2>2. Init => Stages /\ Nesting
      BY DEF Init, Stages, Nesting
    <2>3. Init => DataFlow
      BY JobAssumption DEF Init, DataFlow
    <2>4. Init => Storage /\ Verdict
      BY DEF Init, Storage, Verdict, jobSuccess
    <2> QED
      BY <2>1, <2>2, <2>3, <2>4 DEF IInv
  <1>2. IInv /\ [Next]_vars => IInv'
    BY NextPreservesIInv
  <1> QED
    BY <1>1, <1>2, PTL DEF Spec

(***************************************************************************)
(* The variables keep their types: in particular the writer never counts   *)
(* more parts than a whole backup has.                                     *)
(***************************************************************************)
THEOREM TypeCorrect == Spec => []TypeOK
  <1>1. IInv => TypeOK
    BY DEF IInv
  <1> QED
    BY <1>1, Invariance, PTL

(***************************************************************************)
(* A job that reports success within its timeout, or to S3, has stored the *)
(* whole dump of a tool that exited with 0, however large the dump is and  *)
(* however the five activities interleave.                                 *)
(***************************************************************************)
THEOREM SuccessComplete == Spec => []SuccessIsComplete
  <1>1. IInv => SuccessIsComplete
    BY
      DEF IInv, TypeOK, Stages, Nesting, DataFlow, Storage, Verdict,
          SuccessIsComplete, jobSuccess, Whole
  <1> QED
    BY <1>1, Invariance, PTL

(***************************************************************************)
(* Metadata is written for a stored object of that size, and for no job    *)
(* that reports a failure.                                                 *)
(***************************************************************************)
THEOREM MetadataFaithful == Spec => []MetadataDescribesObject
  <1>1. IInv => MetadataDescribesObject
    BY
      DEF IInv, TypeOK, Stages, Storage, Verdict, MetadataDescribesObject,
          jobSuccess
  <1> QED
    BY <1>1, Invariance, PTL

(***************************************************************************)
(* A failed job leaves no part of a dump in a store that obeys it, but for *)
(* the one path on which the code's own clean up comes too late: a panic,  *)
(* whose upload is committed, with the timeout past when it is to be       *)
(* deleted.                                                                *)
(***************************************************************************)
THEOREM FailureClean == Spec => []FailureLeavesNoData
  <1>1. IInv => FailureLeavesNoData
    BY DEF IInv, TypeOK, Stages, Storage, Verdict, FailureLeavesNoData, jobSuccess
  <1> QED
    BY <1>1, Invariance, PTL

(***************************************************************************)
(* When the job is done, the dump process has been reaped and no goroutine *)
(* of the job is at work.                                                  *)
(***************************************************************************)
THEOREM NothingLeft == Spec => []NothingOutlivesTheJob
  <1>1. IInv => NothingOutlivesTheJob
    BY DEF IInv, TypeOK, Stages, Nesting, NothingOutlivesTheJob
  <1> QED
    BY <1>1, Invariance, PTL

-----------------------------------------------------------------------------
(* Why a job ends.                                                         *)

LeftOK ==
    /\ JobLeft(job) \in Nat /\ DumperLeft(dumper) \in Nat /\ CopierLeft(copier, taken) \in Nat
    /\ ToolLeft(tool, made) \in Nat /\ WriterLeft(writer) \in Nat /\ TimerLeft(ctx) \in Nat

LEMMA LeftIsNatural == TypeOK => LeftOK
  <1> SUFFICES ASSUME TypeOK PROVE LeftOK
    OBVIOUS
  <1>1. /\ JobLeft(job) \in Nat /\ DumperLeft(dumper) \in Nat
        /\ WriterLeft(writer) \in Nat /\ TimerLeft(ctx) \in Nat
    BY DEF TypeOK, JobLeft, DumperLeft, WriterLeft, TimerLeft
  <1>2. CopierLeft(copier, taken) \in Nat
    BY JobAssumption DEF TypeOK, CopierLeft
  <1>3. ToolLeft(tool, made) \in Nat
    BY JobAssumption DEF TypeOK, ToolLeft
  <1> QED
    BY <1>1, <1>2, <1>3 DEF LeftOK

\* The parts of the measure that an action leaves alone, and what it takes from the others.
LEMMA StepCounts ==
  ASSUME IInv, IInv', Next
  PROVE  Left' < Left
  <1>0. LeftOK /\ LeftOK'
    <2>1. TypeOK => LeftOK
      BY LeftIsNatural
    <2>2. TypeOK' => LeftOK'
      BY LeftIsNatural, PTL
    <2> QED
      BY <2>1, <2>2 DEF IInv
  <1> USE DEF LeftOK
  <1>1. CASE Connect \/ Join \/ WriteMetadata \/ CleanUp \/ Notify
    <2>1. JobLeft(job') < JobLeft(job)
      BY <1>1 DEF Connect, Join, JoinedNext, WriteMetadata, CleanUp, Notify, Enqueue, JobLeft
    <2>2. UNCHANGED <<ctx, dumper, copier, tool, made, taken, writer>>
      BY <1>1
        DEF Connect, Join, WriteMetadata, CleanUp, Notify, dumpVars, streamVars, writeVars
    <2> QED
      BY <2>1, <2>2, <1>0 DEF Left
  <1>2. CASE OpenWriter
    <2>1. JobLeft(job') < JobLeft(job)
      BY <1>2 DEF OpenWriter, Enqueue, JobLeft
    <2>2. DumperLeft(dumper') <= DumperLeft(dumper) /\ WriterLeft(writer') <= WriterLeft(writer)
      BY <1>2 DEF OpenWriter, IInv, Stages, DumperLeft, WriterLeft
    <2>3. UNCHANGED <<ctx, copier, tool, made, taken>>
      BY <1>2 DEF OpenWriter, streamVars
    <2> QED
      BY <2>1, <2>2, <2>3, <1>0 DEF Left
  <1>3. CASE DumperCheck \/ ReapTool \/ ClosePipe
    <2>1. DumperLeft(dumper') < DumperLeft(dumper)
      BY <1>3 DEF DumperCheck, ReapTool, Reap, ClosePipe, ClosePipeAs, DumperLeft
    <2>2. UNCHANGED <<job, ctx, copier, tool, made, taken, writer>>
      BY <1>3
        DEF DumperCheck, ReapTool, Reap, ClosePipe, ClosePipeAs, jobVars, streamVars, writeVars
    <2> QED
      BY <2>1, <2>2, <1>0 DEF Left
  <1>4. CASE StartTool
    <2>1. DumperLeft(dumper') < DumperLeft(dumper)
      BY <1>4 DEF StartTool, DumperLeft
    <2>2. /\ CopierLeft(copier', taken') = CopierLeft(copier, taken)
          /\ ToolLeft(tool', made') = ToolLeft(tool, made)
      BY <1>4 DEF StartTool, IInv, Nesting, CopierLeft, ToolLeft
    <2>3. UNCHANGED <<job, ctx, writer>>
      BY <1>4 DEF StartTool, jobVars, writeVars
    <2> QED
      BY <2>1, <2>2, <2>3, <1>0 DEF Left
  <1>5. CASE DumperPanics
    <2>1. DumperLeft(dumper') < DumperLeft(dumper)
      BY <1>5 DEF DumperPanics, DumperLeft
    <2>2. UNCHANGED <<job, ctx, copier, tool, made, taken, writer>>
      BY <1>5 DEF DumperPanics, jobVars, streamVars, writeVars
    <2> QED
      BY <2>1, <2>2, <1>0 DEF Left
  <1>6. CASE CopierSelect \/ CopierRead
    <2>0. taken \in Nat /\ Chunks \in Nat /\ taken' \in Nat
      BY JobAssumption DEF IInv, TypeOK
    <2>1. CopierLeft(copier', taken') < CopierLeft(copier, taken)
      BY <1>6, <2>0 DEF CopierSelect, CopierRead, CopierLeft
    <2>2. UNCHANGED <<job, ctx, dumper, tool, made, writer>>
      BY <1>6 DEF CopierSelect, CopierRead, jobVars, dumpVars, writeVars
    <2> QED
      BY <2>1, <2>2, <1>0 DEF Left
  <1>7. CASE ToolWrites \/ ToolExits \/ ToolKilled
    <2>0. made \in Nat /\ Chunks \in Nat
      BY JobAssumption DEF IInv, TypeOK
    <2>1. ToolLeft(tool', made') < ToolLeft(tool, made)
      <3>1. CASE ToolWrites
        BY <3>1, <2>0 DEF ToolWrites, ToolLeft
      <3>2. CASE ToolExits \/ ToolKilled
        BY <3>2, <2>0 DEF ToolExits, ToolKilled, ToolLeft
      <3> QED
        BY <1>7, <3>1, <3>2
    <2>2. UNCHANGED <<job, ctx, dumper, copier, taken, writer>>
      BY <1>7 DEF ToolWrites, ToolExits, ToolKilled, jobVars, dumpVars, writeVars
    <2> QED
      BY <2>1, <2>2, <1>0 DEF Left
  <1>8. CASE WriterCheck \/ WriterOpens \/ WriterFinishes \/ WriterAborts \/ WriterBreaks
    <2>1. WriterLeft(writer') < WriterLeft(writer)
      BY <1>8
        DEF WriterCheck, WriterOpens, WriterFinishes, WriterAborts, WriterBreaks, WriteFails,
            WriterLeft
    <2>2. UNCHANGED <<job, ctx, dumper, copier, tool, made, taken>>
      BY <1>8
        DEF WriterCheck, WriterOpens, WriterFinishes, WriterAborts, WriterBreaks, WriteFails,
            jobVars, dumpVars, streamVars
    <2> QED
      BY <2>1, <2>2, <1>0 DEF Left
  <1>9. CASE WriterTakes
    <2>1. UNCHANGED <<job, ctx, tool, made, taken, writer>>
      BY <1>9 DEF WriterTakes, jobVars
    <2>2. CASE copier = "write" /\ copier' = "select" /\ UNCHANGED dumper
      <3>1. CopierLeft(copier', taken') < CopierLeft(copier, taken)
        BY <2>1, <2>2, JobAssumption DEF CopierLeft, IInv, TypeOK
      <3> QED
        BY <2>1, <2>2, <3>1, <1>0 DEF Left
    <2>3. CASE dumper = "flush" /\ dumper' = "close" /\ UNCHANGED copier
      <3>1. DumperLeft(dumper') < DumperLeft(dumper)
        BY <2>3 DEF DumperLeft
      <3> QED
        BY <2>1, <2>3, <3>1, <1>0 DEF Left
    <2> QED
      BY <1>9, <2>2, <2>3 DEF WriterTakes
  <1>10. CASE Expire
    <2>1. UNCHANGED <<job, dumper, copier, tool, made, taken, writer>>
      BY <1>10 DEF Expire, jobVars, dumpVars, streamVars, writeVars
    <2>2. TimerLeft(ctx') < TimerLeft(ctx)
      BY <1>10 DEF Expire, TimerLeft
    <2> QED
      BY <2>1, <2>2, <1>0 DEF Left
  <1> QED
    BY <1>1, <1>2, <1>3, <1>4, <1>5, <1>6, <1>7, <1>8, <1>9, <1>10
      DEF Next, JobStep, DumperStep, CopierStep, WriterStep

(***************************************************************************)
(* For every size of the dump and of the pipe a job takes at most as many  *)
(* steps as the measure says at its beginning, however it goes.            *)
(***************************************************************************)
THEOREM StepsCount == Spec => EveryStepCounts
  <1>1. IInv /\ IInv' /\ [Next]_vars => [0 <= Left' /\ Left' < Left]_vars
    <2> SUFFICES ASSUME IInv, IInv', Next PROVE 0 <= Left' /\ Left' < Left
      OBVIOUS
    <2>1. TypeOK' => LeftOK'
      BY LeftIsNatural, PTL
    <2>2. 0 <= Left'
      BY <2>1 DEF IInv, LeftOK, Left
    <2> QED
      BY <2>2, StepCounts
  <1> QED
    BY <1>1, Invariance, PTL DEF Spec, EveryStepCounts

(***************************************************************************)
(* In numbers: never more than 4 * Chunks + 19 steps are left to a job.    *)
(***************************************************************************)
THEOREM BoundedWork == Spec => [](Left \in 0..(4 * Chunks + 19))
  <1> DEFINE Bounded == Left \in 0..(4 * Chunks + 19)
  <1>0. Chunks \in Nat
    BY JobAssumption
  <1>1. Init => Bounded
    BY <1>0
      DEF Init, Left, JobLeft, DumperLeft, CopierLeft, ToolLeft, WriterLeft, TimerLeft
  <1>2. TypeOK' => LeftOK'
    BY LeftIsNatural, PTL
  <1>3. TypeOK /\ TypeOK' => Left \in Nat /\ Left' \in Nat
    BY <1>2, LeftIsNatural DEF LeftOK, Left
  <1>4. IInv /\ IInv' /\ Bounded /\ [Next]_vars => Bounded'
    <2> SUFFICES ASSUME IInv, IInv', Bounded, [Next]_vars PROVE Bounded'
      OBVIOUS
    <2>1. Left \in Nat /\ Left' \in Nat
      BY <1>3 DEF IInv
    <2>2. CASE Next
      <3>1. Left' < Left
        BY <2>2, StepCounts
      <3> QED
        BY <1>0, <2>1, <3>1
    <2>3. CASE UNCHANGED vars
      BY <2>3
        DEF vars, jobVars, dumpVars, streamVars, writeVars, Left
    <2> QED
      BY <2>2, <2>3
  <1> QED
    BY <1>1, <1>4, Invariance, PTL DEF Spec

(***************************************************************************)
(* After the timeout some activity can go on, whatever the five of them    *)
(* are doing, as long as the writer did not give up before the dumper.     *)
(***************************************************************************)
THEOREM NoCircle == Spec => []TimeoutLeavesNoCircle
  <1>1. IInv => TimeoutLeavesNoCircle
    <2> SUFFICES ASSUME IInv, job = "wait", ~Stranded, ~(dumper = "done" /\ writer = "done")
                 PROVE  CanGo
      BY DEF TimeoutLeavesNoCircle, CanGo
    <2>1. dumper # "idle" /\ writer # "idle"
      BY DEF IInv, Stages
    <2>2. CASE dumper = "done"
      BY <2>1, <2>2 DEF IInv, TypeOK, Nesting, CanGo
    <2>3. CASE dumper = "stream"
      BY <2>1, <2>3 DEF IInv, TypeOK, Nesting, Stranded, CanGo
    <2>4. CASE dumper \notin {"done", "stream"}
      BY <2>1, <2>4 DEF IInv, TypeOK, Nesting, Stranded, CanGo
    <2> QED
      BY <2>2, <2>3, <2>4
  <1> QED
    BY <1>1, Invariance, PTL

(***************************************************************************)
(* Whereas a write whose reader gave up waits for ever, past the timeout   *)
(* and the death of the tool, with jobFunc waiting for it: in this state   *)
(* the job neither ends nor leaves it, so the exception is no larger than  *)
(* it must be.                                                             *)
(***************************************************************************)
THEOREM StrandedForGood ==
  Spec => [](Stranded => job = "wait") /\ [][Stranded => Stranded']_vars
  <1>1. IInv => (Stranded => job = "wait")
    BY DEF IInv, TypeOK, Stages, Nesting, Stranded
  <1>2. IInv /\ [Next]_vars => [Stranded => Stranded']_vars
    <2> SUFFICES ASSUME IInv, Stranded, Next PROVE Stranded'
      OBVIOUS
    <2>1. /\ job = "wait" /\ writer = "done" /\ dumper \in {"stream", "flush"}
          /\ \/ copier = "write"
             \/ dumper = "flush" /\ tool # "running" /\ copier \in {"idle", "done"}
      BY DEF IInv, TypeOK, Stages, Nesting, Stranded
    <2>2. UNCHANGED <<writer, copier, dumper>>
      BY <2>1
        DEF Next, JobStep, DumperStep, CopierStep, WriterStep, Connect, OpenWriter, Join,
            WriteMetadata, CleanUp, Notify, DumperCheck, StartTool, ReapTool, Reap, ClosePipe,
            ClosePipeAs, CopierSelect, CopierRead, WriterCheck, WriterOpens, WriterTakes,
            WriterFinishes, WriterAborts, WriterBreaks, Expire, ToolKilled, ToolWrites,
            ToolExits, DumperPanics, dumpVars, streamVars, writeVars
    <2> QED
      BY <2>2 DEF Stranded
  <1> QED
    BY <1>1, <1>2, Invariance, PTL DEF Spec

-----------------------------------------------------------------------------
(* The job as an atomic commitment of its two goroutines.                  *)

\* What a step of the job is to those who see votes, object, metadata and report.
LEMMA StepIsAbstract == IInv /\ [Next]_vars => [Abstract!Next]_(Abstract!vars)
  <1> SUFFICES ASSUME IInv, [Next]_vars PROVE Abstract!Next \/ UNCHANGED Abstract!vars
    OBVIOUS
  <1> USE DEF Vote, Abstract!vars
  <1>1. CASE Connect \/ OpenWriter
    <2>1. dumper = "idle" /\ writer = "idle" /\ report = "none"
      BY <1>1 DEF Connect, OpenWriter, IInv, Stages
    <2>2. CASE Enqueue("failure") /\ UNCHANGED <<dumper, writer, dumpErr, writeErr, stored, meta>>
      BY <2>1, <2>2
        DEF Enqueue, Abstract!Next, Abstract!Report, Abstract!Unasked, Abstract!Good,
            Abstract!Parties
    <2>3. CASE UNCHANGED <<report, stored, meta>> /\ dumper' # "done" /\ writer' # "done"
      BY <2>1, <2>3
    <2> QED
      BY <1>1, <2>1, <2>2, <2>3
        DEF Connect, OpenWriter, dumpVars, writeVars, storeVars, jobVars
  <1>2. CASE DumperCheck \/ ClosePipe
    <2>1. report = "none" /\ dumper # "done" /\ UNCHANGED <<report, writer, writeErr, stored, meta>>
      BY <1>2
        DEF DumperCheck, ClosePipe, ClosePipeAs, IInv, Stages, jobVars, writeVars, storeVars
    <2>2. CASE dumper' # "done"
      BY <2>1, <2>2
    <2>3. CASE dumper' = "done"
      <3>1. stored \in BOOLEAN
        BY DEF IInv, TypeOK
      <3> DEFINE votes == [dump |-> Vote(dumper, dumpErr), write |-> Vote(writer, writeErr)]
      <3>2. PICK v \in {"yes", "no"} : v = Vote(dumper, dumpErr)'
        BY <2>3
      <3>3. votes["dump"] = "none" /\ votes' = [votes EXCEPT !["dump"] = v]
        BY <2>1, <3>2
      <3>4. /\ "dump" # "write"
            /\ \E w \in {"yes", "no"} : votes' = [votes EXCEPT !["dump"] = w]
        BY <3>3
      <3> HIDE DEF votes
      <3>5. Abstract!Settle("dump")
        BY <2>1, <3>1, <3>3, <3>4 DEF Abstract!Settle, votes
      <3> QED
        BY <3>5 DEF Abstract!Next, Abstract!Parties
    <2> QED
      BY <2>2, <2>3
  <1>3. CASE WriterCheck \/ WriterOpens \/ WriterFinishes \/ WriterAborts \/ WriterBreaks
    <2>1. /\ report = "none" /\ writer # "done" /\ writeErr = FALSE
          /\ UNCHANGED <<report, dumper, dumpErr, meta>>
      BY <1>3
        DEF WriterCheck, WriterOpens, WriterFinishes, WriterAborts, WriterBreaks, WriteFails,
            IInv, TypeOK, Stages, Storage, jobVars, dumpVars, storeVars
    <2>2. /\ stored' \in BOOLEAN
          /\ writer' = "done" /\ ~writeErr' => stored'
      BY <1>3, <2>1
        DEF WriterCheck, WriterOpens, WriterFinishes, WriterAborts, WriterBreaks, WriteFails,
            IInv, TypeOK, storeVars
    <2>3. CASE writer' = "done"
      <3> DEFINE votes == [dump |-> Vote(dumper, dumpErr), write |-> Vote(writer, writeErr)]
      <3>1. PICK v \in {"yes", "no"} : v = Vote(writer, writeErr)'
        BY <2>3
      <3>2. votes["write"] = "none" /\ votes' = [votes EXCEPT !["write"] = v]
        BY <2>1, <3>1
      <3>3. /\ "write" # "dump"
            /\ \E w \in {"yes", "no"} : votes' = [votes EXCEPT !["write"] = w]
            /\ votes'["write"] = "yes" => stored'
        BY <2>2, <2>3, <3>1, <3>2
      <3> HIDE DEF votes
      <3>4. Abstract!Settle("write")
        BY <2>1, <2>2, <3>2, <3>3 DEF Abstract!Settle, votes
      <3> QED
        BY <3>4 DEF Abstract!Next, Abstract!Parties
    <2>4. CASE writer' # "done"
      <3>1. stored' = stored \/ stored' = TRUE
        BY <1>3, <2>4
          DEF WriterCheck, WriterOpens, WriterFinishes, WriterAborts, WriterBreaks, WriteFails,
              IInv, TypeOK, Storage, storeVars
      <3> QED
        BY <2>1, <2>4, <3>1 DEF Abstract!Next, Abstract!Show
    <2> QED
      BY <2>3, <2>4
  <1>4. CASE WriteMetadata
    <2>1. /\ report = "none" /\ dumper = "done" /\ writer = "done" /\ ~dumpErr /\ ~writeErr
          /\ UNCHANGED <<report, dumper, dumpErr, writer, writeErr, stored>>
      BY <1>4
        DEF WriteMetadata, IInv, Stages, Verdict, jobSuccess, dumpVars, writeVars
    <2>2. CASE UNCHANGED meta
      BY <2>1, <2>2
    <2>3. CASE meta' = bytesWritten
      <3>1. stored
        BY <1>4, <2>1 DEF WriteMetadata, IInv, Storage
      <3>2. meta' > 0
        BY <2>1, <2>3
          DEF IInv, TypeOK, Nesting, DataFlow, bytesWritten
      <3> QED
        BY <2>1, <3>1, <3>2
          DEF Abstract!Next, Abstract!Describe, Abstract!Good, Abstract!Parties
    <2> QED
      BY <1>4, <2>2, <2>3 DEF WriteMetadata
  <1>5. CASE CleanUp
    <2>1. /\ report = "none" /\ dumper = "done" /\ writer = "done" /\ (dumpErr \/ writeErr)
          /\ UNCHANGED <<report, dumper, dumpErr, writer, writeErr, meta>>
          /\ stored' = FALSE \/ UNCHANGED stored
      BY <1>5
        DEF CleanUp, IInv, Stages, Verdict, jobSuccess, dumpVars, writeVars
    <2> QED
      BY <2>1
        DEF Abstract!Next, Abstract!CleanUp, Abstract!Settled, Abstract!Good, Abstract!Parties
  <1>6. CASE Notify
    <2>1. /\ report = "none" /\ dumper = "done" /\ writer = "done"
          /\ UNCHANGED <<dumper, dumpErr, writer, writeErr, stored, meta>>
          /\ report' = IF ~dumpErr /\ ~writeErr THEN "success" ELSE "failure"
      BY <1>6
        DEF Notify, Enqueue, IInv, Stages, jobSuccess, dumpVars, writeVars, storeVars
    <2> QED
      BY <2>1
        DEF Abstract!Next, Abstract!Report, Abstract!Settled, Abstract!Good, Abstract!Parties
  <1>7. CASE \/ Expire \/ StartTool \/ ReapTool \/ DumperPanics \/ CopierSelect \/ CopierRead
             \/ ToolWrites \/ ToolExits \/ ToolKilled \/ WriterTakes \/ Join
             \/ UNCHANGED vars
    <2>1. /\ UNCHANGED <<report, writer, writeErr, stored, meta>>
          /\ UNCHANGED <<dumper, dumpErr>> \/ (dumper # "done" /\ dumper' # "done")
      BY <1>7
        DEF Expire, StartTool, ReapTool, Reap, DumperPanics, CopierSelect, CopierRead,
            ToolWrites, ToolExits, ToolKilled, WriterTakes, Join, vars, jobVars, dumpVars,
            streamVars, writeVars, storeVars
    <2> QED
      BY <2>1
  <1> QED
    BY <1>1, <1>2, <1>3, <1>4, <1>5, <1>6, <1>7
      DEF Next, JobStep, DumperStep, CopierStep, WriterStep

(***************************************************************************)
(* For every dump, pipe and interleaving the job is an atomic commitment:  *)
(* its goroutines settle once, a report follows from both, metadata comes  *)
(* after both, and the object of a success is not touched again.           *)
(***************************************************************************)
THEOREM JobIsBackup == Spec => ImplementsBackup
  <1>1. Init => Abstract!Init
    BY DEF Init, Abstract!Init, Abstract!Parties, Vote
  <1>2. IInv /\ [Next]_vars => [Abstract!Next]_(Abstract!vars)
    BY StepIsAbstract
  <1> QED
    BY <1>1, <1>2, Invariance, PTL DEF Spec, ImplementsBackup, Abstract!Spec

=============================================================================
