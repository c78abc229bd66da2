----------------------------- MODULE AgentProofs -----------------------------
(***************************************************************************)
(* Proofs about Agent for any number of reloads and any limit: types, the  *)
(* orderly exit, and that replaced generations start no backup.            *)
(***************************************************************************)
EXTENDS Agent, TLAPS

\* Generations that were replaced are down, those to come do not exist.
Replaced ==
    \A g \in Gens :
        /\ g < gen => sender[g] = "drained" /\ sched[g] = "down"
        /\ g > gen => sender[g] = "none" /\ sched[g] = "none"

\* How far main has stopped the current one.
Current ==
    CASE main = "loop"    -> sender[gen] = "open" /\ sched[gen] = "up"
      [] main = "drain"   -> sender[gen] = "closed" /\ sched[gen] = "up"
      [] main = "quiesce" -> sender[gen] = "drained" /\ sched[gen] = "stopping"
      [] main \in {"renew", "http", "gc", "exited"} ->
            sender[gen] = "drained" /\ sched[gen] = "down"

\* A reload was only begun where there is a next generation; main waits for the collection.
Leaving ==
    /\ main \in {"drain", "quiesce", "renew"} => leaving \/ gen < MaxGen
    /\ main = "renew" => ~leaving
    /\ main = "exited" => gc = "idle"

IInv == TypeOK /\ Replaced /\ Current /\ Leaving

LEMMA InitIInv == Init => IInv
  <1> SUFFICES ASSUME Init PROVE IInv
    OBVIOUS
  <1>1. 1 \in Gens /\ Gens = 1..MaxGen
    BY AgentAssumption DEF Gens
  <1>2. \A g \in Gens :
          /\ sender[g] = IF g = 1 THEN "open" ELSE "none"
          /\ sched[g] = IF g = 1 THEN "up" ELSE "none"
    BY DEF Init, First
  <1>3. TypeOK
    <2>1. sender \in [Gens -> {"none", "open", "closed", "drained"}]
      BY DEF Init, First
    <2>2. sched \in [Gens -> {"none", "up", "stopping", "down"}]
      BY DEF Init, First
    <2>3. scheduled \in [Gens -> BOOLEAN] /\ running \in [Gens -> 0..MaxRuns]
      BY AgentAssumption DEF Init, First
    <2>4. sigChan \in Seq({"HUP", "TERM"}) /\ Len(sigChan) <= 1
      BY DEF Init
    <2>5. /\ main = "loop" /\ leaving = FALSE /\ gen \in Gens /\ gc = "idle"
          /\ hups \in 0..MaxHups /\ term = "no" /\ panicked = FALSE
      BY <1>1, AgentAssumption DEF Init
    <2> QED
      BY <2>1, <2>2, <2>3, <2>4, <2>5 DEF TypeOK
  <1>4. Replaced
    BY <1>1, <1>2 DEF Init, Replaced
  <1>5. Current /\ Leaving
    BY <1>1, <1>2 DEF Init, Current, Leaving
  <1> QED
    BY <1>3, <1>4, <1>5 DEF IInv

\* What changes nothing but signals, backups and the collection.
LEMMA WorkKeepsIInv ==
  ASSUME IInv, UNCHANGED <<main, leaving, gen, sender, sched>>, TypeOK',
         main = "exited" => gc' = gc
  PROVE  IInv'
  BY DEF IInv, Replaced, Current, Leaving

\* What moves main on, and with it the current generation.
LEMMA StageKeepsIInv ==
  ASSUME IInv, NEW s \in {"none", "open", "closed", "drained"},
         NEW t \in {"none", "up", "stopping", "down"},
         gen' = gen, sender' = [sender EXCEPT ![gen] = s], sched' = [sched EXCEPT ![gen] = t],
         TypeOK', Leaving',
         CASE main' = "loop"    -> s = "open" /\ t = "up"
           [] main' = "drain"   -> s = "closed" /\ t = "up"
           [] main' = "quiesce" -> s = "drained" /\ t = "stopping"
           [] main' \in {"renew", "http", "gc", "exited"} -> s = "drained" /\ t = "down"
  PROVE  IInv'
  <1>1. gen \in Gens /\ Gens = 1..MaxGen /\ sender'[gen] = s /\ sched'[gen] = t
        /\ \A g \in Gens : g # gen => sender'[g] = sender[g] /\ sched'[g] = sched[g]
    BY DEF IInv, TypeOK, Gens
  <1>2. Replaced'
    BY <1>1 DEF IInv, Replaced
  <1>3. Current'
    BY <1>1 DEF Current
  <1> QED
    BY <1>2, <1>3 DEF IInv

LEMMA NextKeepsIInv == IInv /\ [Next]_vars => IInv'
  <1> SUFFICES ASSUME IInv, [Next]_vars PROVE IInv'
    OBVIOUS
  <1>1. CASE SendHup \/ SendTerm
    <2>1. /\ sigChan' \in {<<"HUP">>, <<"TERM">>, sigChan}
          /\ sigChan \in Seq({"HUP", "TERM"}) /\ Len(sigChan) <= 1
      BY <1>1 DEF SendHup, SendTerm, Deliver, IInv, TypeOK
    <2>2. sigChan' \in Seq({"HUP", "TERM"}) /\ Len(sigChan') <= 1
      <3>1. CASE sigChan' = <<"HUP">>
        BY <3>1
      <3>2. CASE sigChan' = <<"TERM">>
        BY <3>2
      <3>3. CASE sigChan' = sigChan
        BY <2>1, <3>3
      <3> QED
        BY <2>1, <3>1, <3>2, <3>3
    <2>3. /\ hups' \in 0..MaxHups /\ term' \in {"no", "queued", "lost"}
          /\ UNCHANGED <<main, leaving, gen, sender, sched, scheduled, running, gc, panicked>>
      BY <1>1, AgentAssumption DEF SendHup, SendTerm, IInv, TypeOK, compVars, workVars
    <2>4. /\ main' \in {"loop", "drain", "quiesce", "renew", "http", "gc", "exited"}
          /\ leaving' \in BOOLEAN /\ gen' \in Gens
          /\ sender' \in [Gens -> {"none", "open", "closed", "drained"}]
          /\ sched' \in [Gens -> {"none", "up", "stopping", "down"}]
          /\ scheduled' \in [Gens -> BOOLEAN]
          /\ running' \in [Gens -> 0..MaxRuns]
          /\ gc' \in {"idle", "running"} /\ panicked' \in BOOLEAN
      BY <2>3 DEF IInv, TypeOK
    <2>5. TypeOK'
      BY <2>2, <2>3, <2>4 DEF TypeOK
    <2> QED
      BY <1>1, <2>5, WorkKeepsIInv DEF SendHup, SendTerm, compVars, workVars
  <1>2. CASE Reconcile
    <2>1. TypeOK'
      BY <1>2 DEF Reconcile, ReconcileInto, IInv, TypeOK, workVars, sigVars
    <2> QED
      BY <1>2, <2>1, WorkKeepsIInv DEF Reconcile, ReconcileInto, workVars
  <1>3. CASE Hangup \/ Terminate
    <2>1. sigChan' = <<>> /\ main = "loop"
          /\ UNCHANGED <<running, gc, hups, term, panicked>>
      BY <1>3 DEF Hangup, Terminate, workVars
    <2>2. CASE UNCHANGED <<main, leaving, gen, sender, sched, scheduled>>
      BY <2>1, <2>2, WorkKeepsIInv DEF IInv, TypeOK
    <2>3. CASE CloseSender /\ (leaving' \/ (gen < MaxGen /\ leaving' = leaving))
               /\ leaving' \in BOOLEAN
      <3>1. sender[gen] = "open" /\ sched[gen] = "up"
        BY <2>1 DEF IInv, Current
      <3>2. sched' = [sched EXCEPT ![gen] = "up"]
        BY <2>3, <3>1 DEF CloseSender, IInv, TypeOK
      <3>3. TypeOK'
        BY <2>1, <2>3 DEF CloseSender, IInv, TypeOK
      <3>4. Leaving'
        BY <2>3 DEF CloseSender, Leaving
      <3> QED
        BY <2>3, <3>2, <3>3, <3>4, StageKeepsIInv DEF CloseSender
    <2> QED
      BY <1>3, <2>2, <2>3 DEF Hangup, Terminate, compVars, IInv, TypeOK
  <1>4. CASE SenderDrained
    <2>1. TypeOK' /\ Leaving'
      BY <1>4 DEF SenderDrained, IInv, TypeOK, Leaving, workVars, sigVars
    <2> QED
      BY <1>4, <2>1, StageKeepsIInv DEF SenderDrained
  <1>5. CASE SchedulerStopped
    <2>1. TypeOK' /\ Leaving'
      BY <1>5 DEF SchedulerStopped, StopScheduler, IInv, TypeOK, Leaving, workVars, sigVars
    <2>2. sender' = [sender EXCEPT ![gen] = "drained"]
      BY <1>5 DEF SchedulerStopped, StopScheduler, IInv, TypeOK, Current
    <2> QED
      BY <1>5, <2>1, <2>2, StageKeepsIInv DEF SchedulerStopped, StopScheduler
  <1>6. CASE Renew
    <2>1. /\ main = "renew" /\ main' = "loop" /\ gen' = gen + 1 /\ gen < MaxGen
          /\ gen \in 1..MaxGen /\ gen + 1 \in Gens /\ Gens = 1..MaxGen
          /\ sender[gen] = "drained" /\ sched[gen] = "down"
          /\ sender' = [sender EXCEPT ![gen + 1] = "open"]
          /\ sched' = [sched EXCEPT ![gen + 1] = "up"]
      BY <1>6, AgentAssumption DEF Renew, IInv, TypeOK, Current, Leaving, Gens
    <2>2. TypeOK'
      BY <1>6, <2>1 DEF Renew, IInv, TypeOK, workVars, sigVars
    <2>3. /\ sender'[gen'] = "open" /\ sched'[gen'] = "up"
          /\ \A g \in Gens : g # gen' => sender'[g] = sender[g] /\ sched'[g] = sched[g]
      BY <2>1 DEF IInv, TypeOK
    <2>4. Replaced'
      BY <2>1, <2>3 DEF IInv, Replaced
    <2>5. Current' /\ Leaving'
      BY <2>1, <2>3 DEF Current, Leaving
    <2> QED
      BY <2>2, <2>4, <2>5 DEF IInv
  <1>7. CASE ServerShutdown \/ Leave
    <2>1. TypeOK'
      BY <1>7 DEF ServerShutdown, Leave, IInv, TypeOK, compVars, workVars, sigVars
    <2>2. Leaving' /\ Replaced' /\ Current'
      BY <1>7
        DEF ServerShutdown, Leave, IInv, Leaving, Replaced, Current, compVars, workVars
    <2> QED
      BY <2>1, <2>2 DEF IInv
  <1>8. CASE StartGC \/ EndGC
    <2>1. TypeOK'
      BY <1>8 DEF StartGC, EndGC, IInv, TypeOK, compVars, sigVars
    <2> QED
      BY <1>8, <2>1, WorkKeepsIInv DEF StartGC, EndGC, compVars
  <1>9. CASE \E g \in Gens : StartBackup(g) \/ EndBackup(g)
    <2>1. PICK g \in Gens : StartBackup(g) \/ EndBackup(g)
      BY <1>9
    <2>2. running' \in [Gens -> 0..MaxRuns] /\ panicked' \in BOOLEAN
      <3>1. /\ running \in [Gens -> 0..MaxRuns] /\ panicked \in BOOLEAN
            /\ running[g] \in Nat /\ running[g] <= MaxRuns /\ MaxRuns \in Nat
        BY AgentAssumption DEF IInv, TypeOK
      <3>2. CASE StartBackup(g)
        BY <3>1, <3>2 DEF StartBackup
      <3>3. CASE EndBackup(g)
        <4>1. /\ running[g] > 0 /\ running' \in {running, [running EXCEPT ![g] = @ - 1]}
              /\ panicked' \in {panicked, TRUE}
          BY <3>3 DEF EndBackup
        <4>2. running[g] - 1 \in 0..MaxRuns
          BY <3>1, <4>1
        <4> QED
          BY <3>1, <4>1, <4>2
      <3> QED
        BY <2>1, <3>2, <3>3
    <2>3. TypeOK'
      BY <2>1, <2>2 DEF StartBackup, EndBackup, IInv, TypeOK, compVars, sigVars
    <2> QED
      BY <2>1, <2>3, WorkKeepsIInv DEF StartBackup, EndBackup, compVars
  <1>10. CASE UNCHANGED vars
    BY <1>10
      DEF vars, compVars, workVars, sigVars, IInv, TypeOK, Replaced, Current, Leaving
  <1> QED
    BY <1>1, <1>2, <1>3, <1>4, <1>5, <1>6, <1>7, <1>8, <1>9, <1>10 DEF Next, Stopping

LEMMA Invariance == Spec => []IInv
  BY InitIInv, NextKeepsIInv, PTL DEF Spec

(***************************************************************************)
(* The variables keep their types; in particular the signal channel holds  *)
(* one signal at most, and main renews what it stopped, never more.        *)
(***************************************************************************)
THEOREM TypeCorrect == Spec => []TypeOK
  <1>1. IInv => TypeOK
    BY DEF IInv
  <1> QED
    BY <1>1, Invariance, PTL

(***************************************************************************)
(* After any number of reloads main leaves nothing up, nothing queued and  *)
(* no collection under way.                                                *)
(***************************************************************************)
THEOREM ExitCorrect == Spec => []ExitIsOrderly
  <1>1. IInv => ExitIsOrderly
    <2> SUFFICES ASSUME IInv, main = "exited" PROVE ExitIsOrderly
      BY DEF ExitIsOrderly
    <2>1. sender[gen] = "drained" /\ sched[gen] = "down" /\ gc = "idle"
      BY DEF IInv, Current, Leaving
    <2>2. ASSUME NEW g \in Gens
          PROVE  sender[g] \in {"none", "drained"} /\ sched[g] \in {"none", "down"}
      <3>1. g < gen \/ g = gen \/ g > gen
        BY DEF IInv, TypeOK, Gens
      <3> QED
        BY <2>1, <3>1 DEF IInv, Replaced
    <2> QED
      BY <2>1, <2>2 DEF ExitIsOrderly
  <1> QED
    BY <1>1, Invariance, PTL

(***************************************************************************)
(* No step raises the number of backups of a generation that was replaced. *)
(***************************************************************************)
THEOREM DrainCorrect == Spec => OldGenerationsOnlyDrain
  <1>1. IInv /\ [Next]_vars => [\A g \in Gens : g < gen => running'[g] <= running[g]]_vars
    <2> SUFFICES ASSUME IInv, Next, NEW g \in Gens, g < gen
                 PROVE  running'[g] <= running[g]
      BY DEF OldGenerationsOnlyDrain
    <2>1. sched[g] = "down" /\ running \in [Gens -> 0..MaxRuns] /\ running[g] \in Nat
      BY AgentAssumption DEF IInv, Replaced, TypeOK
    <2>2. CASE \E h \in Gens : StartBackup(h)
      <3>1. PICK h \in Gens : StartBackup(h)
        BY <2>2
      <3>2. h # g
        BY <2>1, <3>1 DEF StartBackup
      <3> QED
        BY <2>1, <3>1, <3>2 DEF StartBackup
    <2>3. CASE \E h \in Gens : EndBackup(h)
      <3>1. PICK h \in Gens : EndBackup(h)
        BY <2>3
      <3> QED
        BY <2>1, <3>1 DEF EndBackup
    <2>4. CASE running' = running
      BY <2>1, <2>4
    <2> QED
      BY <2>2, <2>3, <2>4
        DEF Next, Stopping, SendHup, SendTerm, Reconcile, ReconcileInto, Hangup, Terminate,
            SenderDrained, SchedulerStopped, StopScheduler, Renew, ServerShutdown, Leave,
            StartGC, EndGC, workVars
  <1> QED
    BY <1>1, Invariance, PTL DEF Spec, OldGenerationsOnlyDrain

-----------------------------------------------------------------------------
(* The schedulers as the pools that main takes them for.                   *)

\* What a step of the agent is to one of its schedulers.
LEMMA StepIsPools ==
  ASSUME IInv, Next, NEW g \in Gens
  PROVE  [Generation(g)!Next]_(Generation(g)!vars)
  <1> USE DEF Generation!vars, Phase
  <1>0. /\ running \in [Gens -> 0..MaxRuns] /\ running[g] \in Nat /\ gen \in Gens
        /\ sched \in [Gens -> {"none", "up", "stopping", "down"}]
    BY AgentAssumption DEF IInv, TypeOK
  <1>1. ASSUME NEW h \in Gens, StartBackup(h)
        PROVE  [Generation(g)!Next]_(Generation(g)!vars)
    <2>1. sched[h] = "up" /\ UNCHANGED sched /\ running' = [running EXCEPT ![h] = @ + 1]
      BY <1>1 DEF StartBackup, compVars
    <2>2. CASE h = g
      BY <1>0, <2>1, <2>2 DEF Generation!Next, Generation!Begin
    <2>3. CASE h # g
      BY <1>0, <2>1, <2>3
    <2> QED
      BY <2>2, <2>3
  <1>2. ASSUME NEW h \in Gens, EndBackup(h)
        PROVE  [Generation(g)!Next]_(Generation(g)!vars)
    <2>1. /\ UNCHANGED sched /\ running[h] > 0
          /\ running' \in {running, [running EXCEPT ![h] = @ - 1]}
      BY <1>2 DEF EndBackup, compVars
    <2>2. CASE running' = [running EXCEPT ![h] = @ - 1] /\ h = g
      BY <1>0, <2>1, <2>2 DEF Generation!Next, Generation!End
    <2>3. CASE running' = running \/ h # g
      BY <1>0, <2>1, <2>3
    <2> QED
      BY <2>1, <2>2, <2>3
  <1>3. CASE SenderDrained
    <2>1. /\ sched[gen] = "up" /\ UNCHANGED running
          /\ sched' = [sched EXCEPT ![gen] = "stopping"]
      BY <1>3 DEF SenderDrained, IInv, Current, workVars
    <2>2. CASE g = gen
      BY <1>0, <2>1, <2>2 DEF Generation!Next, Generation!Stop
    <2>3. CASE g # gen
      BY <1>0, <2>1, <2>3
    <2> QED
      BY <2>2, <2>3
  <1>4. CASE SchedulerStopped
    <2>1. /\ sched[gen] = "stopping" /\ UNCHANGED running
          /\ sched' = [sched EXCEPT ![gen] = "down"]
      BY <1>4 DEF SchedulerStopped, StopScheduler, IInv, Current, workVars
    <2>2. CASE g = gen
      BY <1>0, <2>1, <2>2 DEF Generation!Next, Generation!Return
    <2>3. CASE g # gen
      BY <1>0, <2>1, <2>3
    <2> QED
      BY <2>2, <2>3
  <1>5. CASE Renew
    <2>1. gen + 1 \in Gens /\ sched[gen + 1] = "none"
      <3>1. gen + 1 \in Gens
        BY <1>0, <1>5, AgentAssumption DEF Renew, IInv, Current, Leaving, Gens
      <3> QED
        BY <1>0, <3>1 DEF IInv, Replaced, Gens
    <2>2. UNCHANGED running /\ sched' = [sched EXCEPT ![gen + 1] = "up"]
      BY <1>5 DEF Renew, workVars
    <2> QED
      BY <1>0, <2>1, <2>2
  <1>6. CASE UNCHANGED <<sched, running>>
    BY <1>6
  <1> QED
    BY <1>1, <1>2, <1>3, <1>4, <1>5, <1>6
      DEF Next, Stopping, SendHup, SendTerm, Reconcile, ReconcileInto, Hangup, Terminate,
          CloseSender, ServerShutdown, Leave, StartGC, EndGC, compVars, workVars

(***************************************************************************)
(* For every number of generations: main's view of each of its schedulers  *)
(* is that of a pool, which SchedulerIsPool shows a scheduler to be.       *)
(***************************************************************************)
THEOREM GenerationsCorrect == Spec => GenerationsArePools
  <1>1. Init => \A g \in Gens : Generation(g)!Init
    BY DEF Init, First, Phase, Generation!Init
  <1>2. IInv /\ [Next]_vars
          => [\A g \in Gens : [Generation(g)!Next]_(Generation(g)!vars)]_vars
    BY StepIsPools
  <1> QED
    BY <1>1, <1>2, Invariance, PTL DEF Spec, GenerationsArePools

=============================================================================
