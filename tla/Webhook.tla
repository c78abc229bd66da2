------------------------------- MODULE Webhook -------------------------------
(***************************************************************************)
(* internal/webhook: the Sender with its queue, its single worker, the     *)
(* retries of a notification and the circuit breaker around them.          *)
(*                                                                         *)
(* Jobs enqueue from their own goroutines; main stops a sender on a reload *)
(* and on shutdown, and does so before it stops the scheduler, so a job    *)
(* may still enqueue afterwards: a send on the closed channel, a panic     *)
(* that nothing recovers.  The receiver may have processed a request whose *)
(* answer was lost, late or not a 2xx.                                     *)
(***************************************************************************)
EXTENDS Naturals, Sequences

CONSTANTS
    Items,          \* notifications, each enqueued at most once
    QueueSize,      \* capacity of the channel (100)
    MaxRetries,     \* WEBHOOK_MAX_RETRIES
    Threshold,      \* failures that open the breaker (5)
    Recovery,       \* ticks of recoveryTimeout
    Nothing

ASSUME WebhookAssumption ==
    /\ QueueSize \in Nat \ {0} /\ MaxRetries \in Nat
    /\ Threshold \in Nat \ {0} /\ Recovery \in Nat \ {0}
    /\ Nothing \notin Items

VARIABLES
    queue, closed,      \* the channel
    worker,             \* "idle", "attempt", "backoff" or "stopped"
    item, attempt,      \* what the worker sends, and the attempt it is at
    state,              \* of the breaker: "closed", "open" or "half"
    failureCount,
    sinceFailure,       \* ticks since lastFailureTime, Recovery standing for more
    stop,               \* the caller of Stop: "no", "closing", "returned"
    panicked,           \* the process has died of a send on the closed channel
    fate,               \* observation: what became of each notification
    received            \* observation: how often the receiver has seen it

queueVars   == <<queue, closed>>
workerVars  == <<worker, item, attempt>>
breakerVars == <<state, failureCount, sinceFailure>>
stopVars    == <<stop, panicked>>
vars == <<queueVars, workerVars, breakerVars, stopVars, fate, received>>

Fates == {"new", "skipped", "dropped", "queued", "sending", "delivered", "failed", "rejected"}

(***************************************************************************)
(* The values the variables range over.                                    *)
(***************************************************************************)
TypeOK ==
    /\ queue \in Seq(Items) /\ closed \in BOOLEAN
    /\ worker \in {"idle", "attempt", "backoff", "stopped"}
    /\ item \in Items \cup {Nothing} /\ attempt \in 0..MaxRetries
    /\ state \in {"closed", "open", "half"}
    /\ failureCount \in Nat /\ sinceFailure \in 0..Recovery
    /\ stop \in {"no", "closing", "returned"} /\ panicked \in BOOLEAN
    /\ fate \in [Items -> Fates]
    /\ received \in [Items -> 0..(MaxRetries + 1)]

Init ==
    /\ queue = <<>> /\ closed = FALSE
    /\ worker = "idle" /\ item = Nothing /\ attempt = 0
    /\ state = "closed" /\ failureCount = 0 /\ sinceFailure = Recovery
    /\ stop = "no" /\ panicked = FALSE
    /\ fate = [i \in Items |-> "new"] /\ received = [i \in Items |-> 0]

-----------------------------------------------------------------------------
(* Enqueue: no target URL, a closed channel, room in it, or none.          *)

Skip(i) ==
    /\ fate' = [fate EXCEPT ![i] = "skipped"]
    /\ UNCHANGED <<queue, panicked>>

SendOnClosed(i) ==
    /\ closed
    /\ panicked' = TRUE
    /\ UNCHANGED <<queue, fate>>

SendOrDrop(i) ==
    /\ ~closed
    /\ IF Len(queue) < QueueSize
       THEN /\ queue' = Append(queue, i)
            /\ fate' = [fate EXCEPT ![i] = "queued"]
       ELSE /\ fate' = [fate EXCEPT ![i] = "dropped"]
            /\ UNCHANGED queue
    /\ UNCHANGED panicked

Enqueue(i) ==
    /\ fate[i] = "new"
    /\ Skip(i) \/ SendOnClosed(i) \/ SendOrDrop(i)
    /\ UNCHANGED <<closed, workerVars, breakerVars, stop, received>>

-----------------------------------------------------------------------------
(* The worker: CircuitBreaker.Call around sendWithRetries.                 *)

\* The breaker is open and its timeout has not passed: fn is not called.
Rejecting == state = "open" /\ sinceFailure < Recovery

Reject ==
    /\ worker = "idle" /\ queue # <<>> /\ Rejecting
    /\ queue' = Tail(queue)
    /\ fate' = [fate EXCEPT ![Head(queue)] = "rejected"]
    /\ UNCHANGED <<closed, workerVars, breakerVars, stopVars, received>>

\* The breaker lets the call through, as a trial if it was open.
Take ==
    /\ worker = "idle" /\ queue # <<>> /\ ~Rejecting
    /\ queue' = Tail(queue)
    /\ worker' = "attempt" /\ item' = Head(queue) /\ attempt' = 0
    /\ fate' = [fate EXCEPT ![Head(queue)] = "sending"]
    /\ state' = IF state = "open" THEN "half" ELSE state
    /\ UNCHANGED <<closed, failureCount, sinceFailure, stopVars, received>>

CallEnds(outcome) ==
    /\ worker' = "idle" /\ item' = Nothing
    /\ fate' = [fate EXCEPT ![item] = outcome]
    /\ UNCHANGED attempt

Succeeds(count) ==
    /\ worker = "attempt"
    /\ received' = [received EXCEPT ![item] = @ + 1]
    /\ CallEnds("delivered")
    /\ state' = "closed" /\ failureCount' = count
    /\ UNCHANGED <<sinceFailure, queueVars, stopVars>>

\* Mutant: a successful trial closes the breaker but keeps the count.
AttemptSucceedsKeepsCount == Succeeds(IF state = "half" THEN failureCount ELSE 0)

AttemptSucceeds == Succeeds(0)

\* An error, a timeout or a status that is not 2xx, with retries left.
RetryBelow(limit) ==
    /\ worker = "attempt" /\ attempt < limit
    /\ received' \in {received, [received EXCEPT ![item] = @ + 1]}
    /\ worker' = "backoff"
    /\ UNCHANGED <<item, attempt, breakerVars, queueVars, stopVars, fate>>

\* Mutant: one retry too many.
AttemptFailsOnceMore == RetryBelow(MaxRetries + 1)

AttemptFails == RetryBelow(MaxRetries)

\* The last attempt fails, and with it the breaker's call.
LastAttemptFails ==
    /\ worker = "attempt" /\ attempt = MaxRetries
    /\ received' \in {received, [received EXCEPT ![item] = @ + 1]}
    /\ CallEnds("failed")
    /\ failureCount' = failureCount + 1 /\ sinceFailure' = 0
    /\ state' = IF state = "half" \/ failureCount + 1 >= Threshold THEN "open" ELSE state
    /\ UNCHANGED <<queueVars, stopVars>>

\* time.Sleep between two attempts.
Backoff ==
    /\ worker = "backoff"
    /\ worker' = "attempt" /\ attempt' = attempt + 1
    /\ UNCHANGED <<item, breakerVars, queueVars, stopVars, fate, received>>

StopWorkerWhen(done) ==
    /\ worker = "idle" /\ closed /\ done
    /\ worker' = "stopped"
    /\ UNCHANGED <<item, attempt, breakerVars, queueVars, stopVars, fate, received>>

\* Mutant: the worker returns when the channel is closed, without draining it.
WorkerStopsAtOnce == StopWorkerWhen(TRUE)

WorkerStops == StopWorkerWhen(queue = <<>>)

\* Time passes.
Tick ==
    /\ sinceFailure < Recovery
    /\ sinceFailure' = sinceFailure + 1
    /\ UNCHANGED <<state, failureCount, queueVars, workerVars, stopVars, fate, received>>

-----------------------------------------------------------------------------
(* Sender.Stop: close(s.queue), then s.wg.Wait().                          *)

Stop ==
    /\ stop = "no"
    /\ stop' = "closing" /\ closed' = TRUE
    /\ UNCHANGED <<queue, workerVars, breakerVars, panicked, fate, received>>

StopReturns ==
    /\ stop = "closing" /\ worker = "stopped"
    /\ stop' = "returned"
    /\ UNCHANGED <<queueVars, workerVars, breakerVars, panicked, fate, received>>

WorkerStep ==
    \/ Reject \/ Take \/ AttemptSucceeds \/ AttemptFails \/ LastAttemptFails
    \/ Backoff \/ WorkerStops

Next ==
    /\ ~panicked
    /\ (\E i \in Items : Enqueue(i)) \/ WorkerStep \/ Tick \/ Stop \/ StopReturns

Spec == Init /\ [][Next]_vars

(***************************************************************************)
(* The worker is scheduled, and each attempt ends: http.Client has a       *)
(* timeout.  Nothing is assumed of the receiver.                           *)
(***************************************************************************)
FairSpec == Spec /\ WF_vars(~panicked /\ WorkerStep) /\ WF_vars(~panicked /\ StopReturns)

-----------------------------------------------------------------------------
(***************************************************************************)
(* The breaker's state, its count and its clock agree: it is closed below  *)
(* the threshold only, no request is made while it is open, and a trial    *)
(* only takes place when the recovery timeout has passed.                  *)
(***************************************************************************)
Sending == worker \in {"attempt", "backoff"}
BreakerIsConsistent ==
    /\ state = "closed" => failureCount < Threshold
    /\ state = "open" => failureCount >= Threshold /\ ~Sending
    /\ state = "half" => Sending /\ sinceFailure = Recovery

(***************************************************************************)
(* The receiver sees a notification at most MaxRetries + 1 times, and at   *)
(* least once if it counts as delivered; of those dropped by a full queue, *)
(* rejected by the breaker or still queued it sees nothing.                *)
(***************************************************************************)
ReceivedAsTried ==
    \A i \in Items :
        /\ received[i] <= MaxRetries + 1
        /\ fate[i] = "delivered" => received[i] > 0
        /\ received[i] > 0 => fate[i] \in {"sending", "delivered", "failed"}

(***************************************************************************)
(* The sender implements the bounded queue that its callers rely on: each  *)
(* accepted notification is settled, in order, also those still queued     *)
(* when Stop is called, and Stop returns after that.                       *)
(***************************************************************************)
AbstractFate(f) ==
    CASE f = "new" -> "new"
      [] f \in {"queued", "sending"} -> "accepted"
      [] f \in {"skipped", "dropped"} -> "refused"
      [] f \in {"delivered", "failed", "rejected"} -> "settled"
Abstract == INSTANCE Notifier WITH
    fate <- [i \in Items |-> AbstractFate(fate[i])],
    pending <- (IF item = Nothing THEN <<>> ELSE <<item>>) \o queue
ImplementsNotifier == Abstract!Spec

=============================================================================
