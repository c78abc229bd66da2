--------------------------- MODULE SchedulerProofs ---------------------------
(***************************************************************************)
(* Proofs about Scheduler for every set of containers and specifications,  *)
(* every limit and every number of entries.                                *)
(***************************************************************************)
EXTENDS Scheduler, FiniteSetTheorems, TLAPS

\* IDs are never reused, and each belongs to one container.
FreshIds ==
    /\ \A e \in entries : e.id < nextId
    /\ \A r \in runs : r.id < nextId
    /\ \A c \in Containers : activeJobs[c] # NoJob => activeJobs[c].id < nextId
JobIds ==
    \A c, d \in Containers :
        activeJobs[c] # NoJob /\ activeJobs[d] # NoJob /\ activeJobs[c].id = activeJobs[d].id
            => c = d
SameContainer == \A e \in entries, r \in runs : e.id = r.id => e.cid = r.cid

\* What is known of the table, and of the runs alone.
TableInv == FreshIds /\ JobIds /\ EntriesAreRecorded /\ RecordedAreScheduled /\ SameContainer

\* The token of SkipIfStillRunning: one run for an entry at a time.
OneRunPerEntry == \A r1, r2 \in runs : r1.id = r2.id => r1 = r2
RunInv == OneRunPerEntry /\ IsFiniteSet(runs) /\ SlotsCountBackups

IInv == TypeOK /\ TableInv /\ RunInv

-----------------------------------------------------------------------------
(* The calls that change the table.                                        *)

LEMMA AddFuncTyped ==
  ASSUME TypeOK, nextId <= MaxId, NEW c \in Containers, NEW s \in Specs,
         NEW kept \in SUBSET entries, AddFunc(c, s, kept), UNCHANGED <<runVars, phase>>
  PROVE  TypeOK'
  BY SchedulerAssumption DEF TypeOK, AddFunc, runVars, Entries, Jobs

\* Adding an entry keeps the table right if no other entry of c is left.
LEMMA AddFuncTable ==
  ASSUME IInv, nextId <= MaxId, NEW c \in Containers, NEW s \in Specs,
         NEW kept \in SUBSET entries, AddFunc(c, s, kept), UNCHANGED <<runVars, phase>>,
         \A e \in kept : e.cid # c,
         \A e \in entries : e.cid # c => e \in kept
  PROVE  TableInv'
  <1> DEFINE new == [id |-> nextId, cid |-> c, spec |-> s]
  <1> USE DEF IInv
  <1>1. CASE s.cron \in ValidCrons
    <2>1. /\ entries' = kept \cup {new} /\ nextId' = nextId + 1
          /\ activeJobs' = [activeJobs EXCEPT ![c] = [spec |-> s, id |-> nextId]]
          /\ refused' = refused \ {c} /\ outdated' = outdated \ {c} /\ runs' = runs
      BY <1>1 DEF AddFunc, runVars
    <2>2. /\ activeJobs'[c] = [spec |-> s, id |-> nextId] /\ activeJobs'[c] # NoJob
          /\ \A d \in Containers : d # c => activeJobs'[d] = activeJobs[d]
      BY <2>1, SchedulerAssumption DEF TypeOK, Jobs
    <2>3. FreshIds'
      BY <2>1, <2>2 DEF FreshIds, TableInv, TypeOK, Entries, Runs, Jobs
    <2>4. JobIds'
      BY <2>2 DEF JobIds, FreshIds, TableInv, TypeOK, Jobs
    <2>5. EntriesAreRecorded'
      BY <2>1, <2>2 DEF EntriesAreRecorded, TableInv, TypeOK, Entries
    <2>6. RecordedAreScheduled'
      <3> SUFFICES ASSUME NEW d \in Containers, activeJobs'[d] # NoJob, d \notin refused'
                   PROVE  \E e \in entries' : e.id = activeJobs'[d].id
        BY DEF RecordedAreScheduled
      <3>1. CASE d = c
        <4>1. new \in entries' /\ new.id = activeJobs'[d].id
          BY <3>1, <2>1, <2>2
        <4> QED
          BY <4>1
      <3>2. CASE d # c
        <4>1. PICK e \in entries : e.id = activeJobs[d].id
          BY <3>2, <2>1, <2>2 DEF RecordedAreScheduled, TableInv
        <4>2. e.cid = d
          BY <4>1, <3>2, <2>2 DEF EntriesAreRecorded, JobIds, TableInv, TypeOK, Entries
        <4> QED
          BY <4>1, <4>2, <3>2, <2>1, <2>2
      <3> QED
        BY <3>1, <3>2
    <2>7. SameContainer'
      BY <2>1 DEF SameContainer, FreshIds, TableInv, TypeOK, Runs
    <2> QED
      BY <2>3, <2>4, <2>5, <2>6, <2>7 DEF TableInv
  <1>2. CASE s.cron \notin ValidCrons
    <2>1. /\ entries' = kept /\ nextId' = nextId /\ activeJobs' = activeJobs /\ runs' = runs
          /\ outdated' = outdated
          /\ refused' = IF activeJobs[c] = NoJob THEN refused ELSE refused \cup {c}
      BY <1>2 DEF AddFunc, runVars
    <2>2. FreshIds' /\ JobIds' /\ EntriesAreRecorded' /\ SameContainer'
      BY <2>1 DEF FreshIds, JobIds, EntriesAreRecorded, SameContainer, TableInv
    <2>3. RecordedAreScheduled'
      <3> SUFFICES ASSUME NEW d \in Containers, activeJobs[d] # NoJob, d \notin refused'
                   PROVE  \E e \in entries' : e.id = activeJobs[d].id
        BY <2>1 DEF RecordedAreScheduled
      <3>1. d # c /\ d \notin refused
        BY <2>1
      <3>2. PICK e \in entries : e.id = activeJobs[d].id
        BY <3>1 DEF RecordedAreScheduled, TableInv
      <3>3. e.cid = d
        BY <3>2 DEF EntriesAreRecorded, JobIds, TableInv, TypeOK, Entries
      <3> QED
        BY <3>1, <3>2, <3>3, <2>1
    <2> QED
      BY <2>2, <2>3 DEF TableInv
  <1> QED
    BY <1>1, <1>2

\* The runs do not depend on the table.
LEMMA RunsUntouched ==
  ASSUME RunInv, UNCHANGED <<runVars, phase>>
  PROVE  RunInv'
  BY DEF RunInv, OneRunPerEntry, SlotsCountBackups, Holding, runVars

LEMMA AddOrUpdateStep ==
  ASSUME IInv, NEW c \in Containers, NEW s \in Specs, AddOrUpdateJob(c, s)
  PROVE  IInv'
  <1> USE DEF IInv
  <1>1. nextId <= MaxId /\ UNCHANGED <<runVars, phase>>
    BY DEF AddOrUpdateJob
  <1>2. RunInv'
    BY <1>1, RunsUntouched
  <1>3. CASE AddJob(c, s)
    <2>1. activeJobs[c] = NoJob /\ AddFunc(c, s, entries)
      BY <1>3 DEF AddJob
    <2>2. \A e \in entries : e.cid # c
      BY <2>1 DEF TableInv, EntriesAreRecorded
    <2>3. TypeOK'
      BY <1>1, <2>1, AddFuncTyped
    <2>4. TableInv'
      BY <1>1, <2>1, <2>2, AddFuncTable
    <2> QED
      BY <1>2, <2>3, <2>4
  <1>4. CASE KeepSchedule(c, s)
    <2>1. /\ activeJobs[c] # NoJob /\ activeJobs[c].spec.cron = s.cron
          /\ activeJobs' = [activeJobs EXCEPT ![c].spec = s]
          /\ UNCHANGED <<entries, nextId, refused, runs, slots, phase>>
          /\ outdated' = IF s = activeJobs[c].spec THEN outdated ELSE outdated \cup {c}
      BY <1>1, <1>4 DEF KeepSchedule, runVars
    <2>2. activeJobs[c] \in Jobs
      BY <2>1 DEF TypeOK
    <2>3. /\ activeJobs'[c] \in Jobs /\ activeJobs'[c] # NoJob
          /\ activeJobs'[c].id = activeJobs[c].id /\ activeJobs'[c].spec = s
          /\ \A d \in Containers : d # c => activeJobs'[d] = activeJobs[d]
      BY <2>1, <2>2, SchedulerAssumption DEF TypeOK, Jobs
    <2>4. TypeOK'
      BY <2>1, <2>3 DEF TypeOK
    <2>5. FreshIds' /\ JobIds' /\ SameContainer'
      BY <2>1, <2>3 DEF FreshIds, JobIds, SameContainer, TableInv
    <2>6. EntriesAreRecorded' /\ RecordedAreScheduled'
      BY <2>1, <2>3 DEF EntriesAreRecorded, RecordedAreScheduled, TableInv, TypeOK, Entries
    <2> QED
      BY <1>2, <2>4, <2>5, <2>6 DEF TableInv
  <1>5. CASE Reschedule(c, s)
    <2> DEFINE kept == Remove(activeJobs[c].id)
    <2>1. AddFunc(c, s, kept) /\ kept \in SUBSET entries /\ activeJobs[c] # NoJob
      BY <1>5 DEF Reschedule, Remove
    <2>2. /\ \A e \in kept : e.cid # c
          /\ \A e \in entries : e.cid # c => e \in kept
      BY <2>1 DEF Remove, TableInv, EntriesAreRecorded, JobIds, TypeOK, Entries
    <2>3. TypeOK'
      BY <1>1, <2>1, AddFuncTyped
    <2>4. TableInv'
      BY <1>1, <2>1, <2>2, AddFuncTable
    <2> QED
      BY <1>2, <2>3, <2>4
  <1> QED
    BY <1>3, <1>4, <1>5 DEF AddOrUpdateJob

LEMMA RemoveStep ==
  ASSUME IInv, NEW c \in Containers, RemoveJob(c)
  PROVE  IInv'
  <1> USE DEF IInv
  <1>1. /\ activeJobs[c] # NoJob /\ entries' = Remove(activeJobs[c].id)
        /\ refused' = refused \ {c} /\ outdated' = outdated \ {c}
        /\ UNCHANGED <<nextId, runs, slots, phase>>
        /\ activeJobs' = [activeJobs EXCEPT ![c] = NoJob]
    BY DEF RemoveJob, runVars
  <1>2. RunInv'
    BY <1>1, RunsUntouched DEF runVars
  <1>3. /\ activeJobs'[c] = NoJob
        /\ \A d \in Containers : d # c => activeJobs'[d] = activeJobs[d]
    BY <1>1 DEF TypeOK
  <1>4. TypeOK'
    BY <1>1 DEF TypeOK, Remove
  <1>5. \A e \in entries : e \in entries' <=> e.cid # c
    BY <1>1 DEF Remove, TableInv, EntriesAreRecorded, JobIds, TypeOK, Entries
  <1>6. entries' \subseteq entries
    BY <1>1 DEF Remove
  <1>7. FreshIds' /\ JobIds' /\ SameContainer'
    BY <1>1, <1>3, <1>6 DEF FreshIds, JobIds, SameContainer, TableInv
  <1>8. EntriesAreRecorded'
    BY <1>1, <1>3, <1>5, <1>6 DEF EntriesAreRecorded, TableInv, TypeOK, Entries
  <1>9. RecordedAreScheduled'
    <2> SUFFICES ASSUME NEW d \in Containers, activeJobs'[d] # NoJob, d \notin refused'
                 PROVE  \E e \in entries' : e.id = activeJobs'[d].id
      BY DEF RecordedAreScheduled
    <2>1. d # c /\ d \notin refused /\ activeJobs'[d] = activeJobs[d]
      BY <1>1, <1>3
    <2>2. PICK e \in entries : e.id = activeJobs[d].id
      BY <2>1 DEF RecordedAreScheduled, TableInv
    <2>3. e.cid = d
      BY <2>1, <2>2 DEF EntriesAreRecorded, JobIds, TableInv, TypeOK, Entries
    <2> QED
      BY <2>1, <2>2, <2>3, <1>5
  <1> QED
    BY <1>2, <1>4, <1>7, <1>8, <1>9 DEF TableInv

-----------------------------------------------------------------------------
(* The steps of the runs.                                                  *)

\* The table is not disturbed by runs that come from its entries.
LEMMA TableUntouched ==
  ASSUME IInv, UNCHANGED tableVars,
         \A r \in runs' : \E q \in runs \cup entries : q.id = r.id /\ q.cid = r.cid
  PROVE  TableInv'
  <1> USE DEF IInv
  <1>1. UNCHANGED <<activeJobs, entries, nextId, refused, outdated>>
    BY DEF tableVars
  <1>2. JobIds' /\ EntriesAreRecorded' /\ RecordedAreScheduled'
    BY <1>1 DEF TableInv, JobIds, EntriesAreRecorded, RecordedAreScheduled
  <1>3. FreshIds'
    BY <1>1 DEF TableInv, FreshIds
  <1>4. SameContainer'
    <2> SUFFICES ASSUME NEW e \in entries, NEW r \in runs', e.id = r.id
                 PROVE  e.cid = r.cid
      BY <1>1 DEF SameContainer
    <2>1. PICK q \in runs \cup entries : q.id = r.id /\ q.cid = r.cid
      OBVIOUS
    <2>2. CASE q \in runs
      BY <2>1, <2>2 DEF TableInv, SameContainer
    <2>3. CASE q \in entries
      BY <2>1, <2>3 DEF TableInv, JobIds, EntriesAreRecorded, TypeOK, Entries
    <2> QED
      BY <2>2, <2>3
  <1> QED
    BY <1>2, <1>3, <1>4 DEF TableInv

LEMMA FireStep ==
  ASSUME IInv, NEW e \in entries, Fire(e)
  PROVE  IInv'
  <1> USE DEF IInv
  <1> DEFINE new == RunOf(e, "slot")
  <1>1. /\ runs' = runs \cup {new} /\ ~StillRunning(e) /\ phase = "up"
        /\ UNCHANGED <<tableVars, slots, phase>>
    BY DEF Fire
  <1>2. e \in Entries /\ new \in Runs
    BY DEF TypeOK, Entries, Runs, RunOf
  <1>3. new.id = e.id /\ new.cid = e.cid /\ new.stage = "slot"
    BY DEF RunOf
  <1>4. TypeOK'
    BY <1>1, <1>2 DEF TypeOK, tableVars
  <1>5. TableInv'
    BY <1>1, <1>3, TableUntouched
  <1>6. OneRunPerEntry'
    BY <1>1, <1>3 DEF RunInv, OneRunPerEntry, StillRunning
  <1>7. IsFiniteSet(runs')
    BY <1>1, FS_AddElement DEF RunInv
  <1>8. SlotsCountBackups'
    <2>1. Holding' = Holding
      BY <1>1, <1>3 DEF Holding
    <2> QED
      BY <2>1, <1>1 DEF RunInv, SlotsCountBackups
  <1> QED
    BY <1>1, <1>4, <1>5, <1>6, <1>7, <1>8 DEF RunInv

\* A run that moves to another stage keeps its entry's token.
LEMMA AdvanceRuns ==
  ASSUME IInv, NEW r \in runs, NEW stage \in {"body", "stuck", "exit"},
         Advance(r, stage), r.stage # stage, UNCHANGED <<tableVars, phase>>
  PROVE  /\ RunOf(r, stage) \in Runs /\ RunOf(r, stage) \notin runs
         /\ runs' \subseteq Runs /\ TableInv' /\ OneRunPerEntry' /\ IsFiniteSet(runs')
  <1> USE DEF IInv
  <1> DEFINE new == RunOf(r, stage)
  <1>1. runs' = (runs \ {r}) \cup {new}
    BY DEF Advance
  <1>2. new \in Runs /\ new.id = r.id /\ new.cid = r.cid /\ new.stage = stage
    BY DEF TypeOK, Runs, RunOf
  <1>3. new \notin runs
    BY <1>2 DEF RunInv, OneRunPerEntry
  <1>4. TableInv'
    BY <1>1, <1>2, TableUntouched
  <1>5. OneRunPerEntry'
    BY <1>1, <1>2 DEF RunInv, OneRunPerEntry
  <1>6. IsFiniteSet(runs')
    BY <1>1, FS_AddElement, FS_RemoveElement DEF RunInv
  <1> QED
    BY <1>1, <1>2, <1>3, <1>4, <1>5, <1>6 DEF TypeOK

\* The number of backups that hold a slot.
LEMMA HoldingFinite == ASSUME IInv PROVE IsFiniteSet(Holding) /\ Cardinality(Holding) \in Nat
  <1>1. IsFiniteSet(runs) /\ Holding \in SUBSET runs
    BY DEF IInv, RunInv, Holding
  <1> QED
    BY <1>1, FS_Subset, FS_CardinalityType

LEMMA AcquireStep ==
  ASSUME IInv, NEW r \in runs, Acquire(r)
  PROVE  IInv'
  <1> USE DEF IInv
  <1> DEFINE new == RunOf(r, "body")
  <1>1. /\ r.stage = "slot" /\ slots < Limit /\ Advance(r, "body") /\ slots' = slots + 1
        /\ UNCHANGED <<tableVars, phase>>
    BY DEF Acquire
  <1>2. /\ new \in Runs /\ new \notin runs /\ runs' \subseteq Runs
        /\ TableInv' /\ OneRunPerEntry' /\ IsFiniteSet(runs')
    BY <1>1, AdvanceRuns
  <1>3. Holding' = Holding \cup {new} /\ new \notin Holding
    BY <1>1, <1>2 DEF Holding, Advance, RunOf
  <1>4. SlotsCountBackups'
    BY <1>1, <1>3, HoldingFinite, FS_AddElement DEF SlotsCountBackups, RunInv
  <1>5. TypeOK'
    BY <1>1, <1>2, SchedulerAssumption DEF TypeOK, tableVars
  <1> QED
    BY <1>2, <1>4, <1>5 DEF RunInv

LEMMA SkipStep ==
  ASSUME IInv, NEW r \in runs, SkipRun(r)
  PROVE  IInv'
  <1> USE DEF IInv
  <1>1. r.stage = "slot" /\ Advance(r, "exit") /\ UNCHANGED <<tableVars, slots, phase>>
    BY DEF SkipRun
  <1>2. /\ runs' \subseteq Runs /\ TableInv' /\ OneRunPerEntry' /\ IsFiniteSet(runs')
    BY <1>1, AdvanceRuns
  <1>3. Holding' = Holding
    BY <1>1 DEF Holding, Advance, RunOf
  <1> QED
    BY <1>1, <1>2, <1>3 DEF TypeOK, tableVars, RunInv, SlotsCountBackups

LEMMA FinishStep ==
  ASSUME IInv, NEW r \in runs, Finish(r)
  PROVE  IInv'
  <1> USE DEF IInv
  <1>1. /\ r.stage = "body" /\ Advance(r, "exit") /\ slots' = slots - 1
        /\ UNCHANGED <<tableVars, phase>>
    BY DEF Finish
  <1>2. /\ runs' \subseteq Runs /\ TableInv' /\ OneRunPerEntry' /\ IsFiniteSet(runs')
    BY <1>1, AdvanceRuns
  <1>3. Holding' = Holding \ {r} /\ r \in Holding
    BY <1>1 DEF Holding, Advance, RunOf
  <1>4. SlotsCountBackups'
    BY <1>1, <1>3, HoldingFinite, FS_RemoveElement DEF SlotsCountBackups, RunInv
  <1>5. slots > 0
    BY <1>3, HoldingFinite, FS_EmptySet DEF SlotsCountBackups, RunInv
  <1>6. TypeOK'
    BY <1>1, <1>2, <1>5, SchedulerAssumption DEF TypeOK, tableVars
  <1> QED
    BY <1>2, <1>4, <1>6 DEF RunInv

LEMMA StuckStep ==
  ASSUME IInv, NEW r \in runs, GetStuck(r)
  PROVE  IInv'
  <1> USE DEF IInv
  <1> DEFINE new == RunOf(r, "stuck")
  <1>1. r.stage = "body" /\ Advance(r, "stuck") /\ UNCHANGED <<tableVars, slots, phase>>
    BY DEF GetStuck
  <1>2. /\ new \in Runs /\ new \notin runs /\ runs' \subseteq Runs
        /\ TableInv' /\ OneRunPerEntry' /\ IsFiniteSet(runs')
    BY <1>1, AdvanceRuns
  <1>3. Holding' = (Holding \ {r}) \cup {new} /\ r \in Holding /\ new \notin Holding \ {r}
    BY <1>1, <1>2 DEF Holding, Advance, RunOf
  <1>4. IsFiniteSet(Holding \ {r}) /\ Cardinality(Holding \ {r}) = Cardinality(Holding) - 1
    BY <1>3, HoldingFinite, FS_RemoveElement
  <1>5. Cardinality(Holding') = Cardinality(Holding)
    <2>1. Cardinality((Holding \ {r}) \cup {new}) = Cardinality(Holding \ {r}) + 1
      BY <1>3, <1>4, FS_AddElement
    <2>2. Cardinality(Holding) \in Nat
      BY HoldingFinite, FS_CardinalityType
    <2> QED
      BY <2>1, <2>2, <1>3, <1>4
  <1>6. SlotsCountBackups'
    BY <1>1, <1>5 DEF SlotsCountBackups, RunInv
  <1>7. TypeOK'
    BY <1>1, <1>2 DEF TypeOK, tableVars
  <1> QED
    BY <1>2, <1>6, <1>7 DEF RunInv

LEMMA LeaveStep ==
  ASSUME IInv, NEW r \in runs, Leave(r)
  PROVE  IInv'
  <1> USE DEF IInv
  <1>1. r.stage = "exit" /\ runs' = runs \ {r} /\ UNCHANGED <<tableVars, slots, phase>>
    BY DEF Leave
  <1>2. TableInv'
    BY <1>1, TableUntouched
  <1>3. IsFiniteSet(runs')
    BY <1>1, FS_RemoveElement DEF RunInv
  <1>4. Holding' = Holding
    BY <1>1 DEF Holding
  <1>5. OneRunPerEntry' /\ SlotsCountBackups'
    BY <1>1, <1>4 DEF RunInv, OneRunPerEntry, SlotsCountBackups
  <1> QED
    BY <1>1, <1>2, <1>3, <1>5 DEF TypeOK, tableVars, RunInv

LEMMA StopStep ==
  ASSUME IInv, Stop \/ StopReturns \/ StopTimesOut
  PROVE  IInv'
  <1> USE DEF IInv
  <1>1. UNCHANGED <<tableVars, runVars>>
        /\ phase' \in {"stopping", "stopped", "timedOut"}
    BY DEF Stop, StopReturns, StopTimesOut
  <1>2. TableInv'
    BY <1>1, TableUntouched DEF runVars
  <1>3. RunInv'
    BY <1>1 DEF RunInv, OneRunPerEntry, SlotsCountBackups, Holding, runVars
  <1> QED
    BY <1>1, <1>2, <1>3 DEF TypeOK, tableVars, runVars

-----------------------------------------------------------------------------
(* The theorems.                                                           *)

LEMMA NextPreservesIInv == IInv /\ [Next]_vars => IInv'
  <1> SUFFICES ASSUME IInv, [Next]_vars PROVE IInv'
    OBVIOUS
  <1>1. CASE Calls
    BY <1>1, AddOrUpdateStep, RemoveStep DEF Calls
  <1>2. CASE \E e \in entries : Fire(e)
    BY <1>2, FireStep
  <1>3. CASE \E r \in runs : RunStep(r) \/ GetStuck(r)
    BY <1>3, AcquireStep, SkipStep, FinishStep, LeaveStep, StuckStep DEF RunStep
  <1>4. CASE Stop \/ StopReturns \/ StopTimesOut
    BY <1>4, StopStep
  <1>5. CASE UNCHANGED vars
    <2>1. UNCHANGED <<tableVars, runVars, phase>>
      BY <1>5 DEF vars
    <2>2. TableInv'
      BY <2>1, TableUntouched DEF runVars, IInv
    <2>3. RunInv'
      BY <2>1, RunsUntouched DEF IInv
    <2> QED
      BY <2>1, <2>2, <2>3 DEF IInv, TypeOK, tableVars, runVars
  <1> QED
    BY <1>1, <1>2, <1>3, <1>4, <1>5 DEF Next

LEMMA InitIInv == Init => IInv
  <1> SUFFICES ASSUME Init PROVE IInv
    OBVIOUS
  <1>1. TypeOK
    BY SchedulerAssumption DEF Init, TypeOK
  <1>2. TableInv
    BY DEF Init, TableInv, FreshIds, JobIds, EntriesAreRecorded, RecordedAreScheduled,
           SameContainer
  <1>3. Holding = {}
    BY DEF Init, Holding
  <1>4. RunInv
    BY <1>3, FS_EmptySet DEF Init, RunInv, OneRunPerEntry, SlotsCountBackups
  <1> QED
    BY <1>1, <1>2, <1>4 DEF IInv

LEMMA Invariance == Spec => []IInv
  BY InitIInv, NextPreservesIInv, PTL DEF Spec

(***************************************************************************)
(* The variables keep their types: no more slots are taken than there are, *)
(* and none is released twice.                                             *)
(***************************************************************************)
THEOREM TypeCorrect == Spec => []TypeOK
  <1>1. IInv => TypeOK
    BY DEF IInv
  <1> QED
    BY <1>1, Invariance, PTL

(***************************************************************************)
(* Whatever is added, changed, refused and removed, cron only holds the    *)
(* recorded entry of a container, with the recorded expression, and with   *)
(* the recorded details unless these changed under that expression.        *)
(***************************************************************************)
THEOREM TableCorrect == Spec => []EntriesAreRecorded
  <1>1. IInv => EntriesAreRecorded
    BY DEF IInv, TableInv
  <1> QED
    BY <1>1, Invariance, PTL

(***************************************************************************)
(* And cron holds the entry of every recorded container, unless it refused *)
(* a change of its expression.                                             *)
(***************************************************************************)
THEOREM RecordsCorrect == Spec => []RecordedAreScheduled
  <1>1. IInv => RecordedAreScheduled
    BY DEF IInv, TableInv
  <1> QED
    BY <1>1, Invariance, PTL

(***************************************************************************)
(* The semaphore counts the backups that run, and so bounds them.          *)
(***************************************************************************)
THEOREM SlotsCorrect == Spec => []SlotsCountBackups
  <1>1. IInv => SlotsCountBackups
    BY DEF IInv, RunInv
  <1> QED
    BY <1>1, Invariance, PTL

(***************************************************************************)
(* Two backups of a container overlap only across a change of schedule.    *)
(***************************************************************************)
THEOREM OverlapCorrect == Spec => []OverlapNeedsReschedule
  <1>1. IInv => OverlapNeedsReschedule
    <2> SUFFICES ASSUME IInv, NEW r1 \in runs, NEW r2 \in runs, r1 # r2, r1.cid = r2.cid,
                        NEW e1 \in entries, NEW e2 \in entries, e1.id = r1.id, e2.id = r2.id
                 PROVE  FALSE
      BY DEF OverlapNeedsReschedule, Scheduled
    <2>1. e1.cid = e2.cid
      BY DEF IInv, TableInv, SameContainer
    <2>2. r1.id = r2.id
      BY <2>1 DEF IInv, TableInv, EntriesAreRecorded
    <2> QED
      BY <2>2 DEF IInv, RunInv, OneRunPerEntry
  <1> QED
    BY <1>1, Invariance, PTL

-----------------------------------------------------------------------------
(* The scheduler as the pool of runs that main stops.                      *)

\* A run that moves to another stage has not ended.
LEMMA AdvanceKeepsCount ==
  ASSUME IInv, NEW r \in runs, NEW stage \in {"body", "stuck", "exit"},
         Advance(r, stage), r.stage # stage, UNCHANGED <<tableVars, phase>>
  PROVE  Cardinality(runs') = Cardinality(runs)
  <1> DEFINE new == RunOf(r, stage)
             others == runs \ {r}
  <1>1. runs' = others \cup {new} /\ new \notin others
    BY AdvanceRuns DEF Advance
  <1>2. /\ IsFiniteSet(others) /\ Cardinality(others) = Cardinality(runs) - 1
        /\ Cardinality(runs) \in Nat
    BY FS_RemoveElement, FS_CardinalityType DEF IInv, RunInv
  <1>3. Cardinality(others \cup {new}) = Cardinality(others) + 1
    BY <1>1, <1>2, FS_AddElement
  <1> QED
    BY <1>1, <1>2, <1>3

\* What a step of the scheduler is to those who only see how much runs, and the stop.
LEMMA StepIsPools == IInv /\ [Next]_vars => [Abstract!Next]_(Abstract!vars)
  <1> SUFFICES ASSUME IInv, [Next]_vars PROVE Abstract!Next \/ UNCHANGED Abstract!vars
    OBVIOUS
  <1> USE DEF Abstract!vars
  <1>0. /\ IsFiniteSet(runs) /\ Cardinality(runs) \in Nat
        /\ phase \in {"up", "stopping", "stopped", "timedOut"}
    BY FS_CardinalityType DEF IInv, RunInv, TypeOK
  <1>1. CASE Calls
    BY <1>1 DEF Calls, AddOrUpdateJob, RemoveJob, runVars
  <1>2. ASSUME NEW e \in entries, Fire(e) PROVE Abstract!Next
    <2>1. /\ phase = "up" /\ UNCHANGED phase
          /\ runs' = runs \cup {RunOf(e, "slot")} /\ RunOf(e, "slot") \notin runs
      BY <1>2 DEF Fire, StillRunning, RunOf
    <2>2. Cardinality(runs') = Cardinality(runs) + 1
      BY <1>0, <2>1, FS_AddElement
    <2> QED
      BY <2>1, <2>2 DEF Abstract!Next, Abstract!Begin
  <1>3. ASSUME NEW r \in runs, RunStep(r) \/ GetStuck(r)
        PROVE  Abstract!Next \/ UNCHANGED Abstract!vars
    <2>1. CASE Acquire(r) \/ SkipRun(r) \/ Finish(r) \/ GetStuck(r)
      <3>1. \E stage \in {"body", "stuck", "exit"} :
              Advance(r, stage) /\ r.stage # stage /\ UNCHANGED <<tableVars, phase>>
        BY <2>1 DEF Acquire, SkipRun, Finish, GetStuck
      <3>2. Cardinality(runs') = Cardinality(runs) /\ UNCHANGED phase
        BY <3>1, AdvanceKeepsCount
      <3> QED
        BY <3>2
    <2>2. CASE Leave(r)
      <3>1. runs' = runs \ {r} /\ UNCHANGED phase
        BY <2>2 DEF Leave
      <3>2. Cardinality(runs') = Cardinality(runs) - 1
        BY <1>0, <3>1, FS_RemoveElement
      <3>3. Cardinality(runs') \in Nat
        BY <1>0, <3>1, FS_RemoveElement, FS_CardinalityType
      <3> QED
        BY <1>0, <3>1, <3>2, <3>3 DEF Abstract!Next, Abstract!End
    <2> QED
      BY <1>3, <2>1, <2>2 DEF RunStep
  <1>4. CASE Stop
    BY <1>4 DEF Stop, runVars, Abstract!Next, Abstract!Stop
  <1>5. CASE StopReturns
    BY <1>5, FS_EmptySet DEF StopReturns, runVars, Abstract!Next, Abstract!Return
  <1>6. CASE StopTimesOut
    BY <1>6 DEF StopTimesOut, runVars, Abstract!Next, Abstract!Return
  <1>7. CASE UNCHANGED vars
    BY <1>7 DEF vars, runVars
  <1> QED
    BY <1>1, <1>2, <1>3, <1>4, <1>5, <1>6, <1>7 DEF Next

(***************************************************************************)
(* For every table, limit and interleaving the scheduler is what main      *)
(* takes it for: no run begins after the stop, each ends once, and Stop    *)
(* returns once, gracefully only if nothing runs.                          *)
(***************************************************************************)
THEOREM SchedulerIsPool == Spec => ImplementsPool
  <1>1. Init => Abstract!Init
    BY FS_EmptySet DEF Init, Abstract!Init
  <1>2. IInv /\ [Next]_vars => [Abstract!Next]_(Abstract!vars)
    BY StepIsPools
  <1> QED
    BY <1>1, <1>2, Invariance, PTL DEF Spec, ImplementsPool, Abstract!Spec

=============================================================================
