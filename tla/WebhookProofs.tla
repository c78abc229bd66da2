---------------------------- MODULE WebhookProofs ----------------------------
(***************************************************************************)
(* Proofs about Webhook for any set of notifications, any queue, any       *)
(* number of retries and any threshold: types, the circuit breaker, what   *)
(* the receiver may have seen, and that each step of the sender is one of  *)
(* the abstract queue, or none.                                            *)
(***************************************************************************)
EXTENDS Webhook, SequenceTheorems, TLAPS

\* What the worker holds, it is sending; and only while it sends it holds something.
Held ==
    /\ Sending => item \in Items /\ fate[item] = "sending"
    /\ ~Sending => item = Nothing
    /\ \A i \in Items : fate[i] = "sending" => i = item

\* The notifications in the channel are those that are queued, each of them once.
Queued ==
    /\ \A k \in 1..Len(queue) : fate[queue[k]] = "queued"
    /\ \A j, k \in 1..Len(queue) : j # k => queue[j] # queue[k]
    /\ Len(queue) <= QueueSize

\* The receiver has seen at most one copy for each attempt that was begun.
Counted == Sending => received[item] <= IF worker = "attempt" THEN attempt ELSE attempt + 1

Tried ==
    /\ worker = "backoff" => attempt < MaxRetries
    /\ state = "half" => failureCount >= Threshold

\* Stop has closed the channel, and the worker only leaves an empty one.
Closing ==
    /\ closed <=> stop # "no"
    /\ worker = "stopped" => closed /\ queue = <<>>
    /\ stop = "returned" => worker = "stopped"

IInv ==
    /\ TypeOK /\ BreakerIsConsistent /\ ReceivedAsTried
    /\ Held /\ Queued /\ Counted /\ Tried /\ Closing

LEMMA InitIInv == Init => IInv
  <1> SUFFICES ASSUME Init PROVE IInv
    OBVIOUS
  <1>1. TypeOK
    <2>1. queue \in Seq(Items) /\ fate \in [Items -> Fates]
      BY DEF Init, Fates
    <2>2. received \in [Items -> 0..(MaxRetries + 1)] /\ attempt \in 0..MaxRetries
      BY WebhookAssumption DEF Init
    <2>3. sinceFailure \in 0..Recovery
      BY WebhookAssumption DEF Init
    <2> QED
      BY <2>1, <2>2, <2>3 DEF Init, TypeOK
  <1>2. BreakerIsConsistent /\ Counted /\ Tried /\ Closing /\ Held
    BY WebhookAssumption
      DEF Init, BreakerIsConsistent, Counted, Tried, Closing, Held, Sending
  <1>3. ReceivedAsTried
    <2>1. \A i \in Items : received[i] = 0 /\ fate[i] = "new"
      BY DEF Init
    <2>2. 0 <= MaxRetries + 1 /\ ~(0 > 0)
      BY WebhookAssumption
    <2> QED
      BY <2>1, <2>2 DEF ReceivedAsTried
  <1>4. Queued
    BY WebhookAssumption DEF Init, Queued
  <1> QED
    BY <1>1, <1>2, <1>3, <1>4 DEF IInv

\* What Tail and Append do to a queue.
LEMMA TailOfQueue ==
  ASSUME NEW q \in Seq(Items), q # <<>>
  PROVE  /\ Tail(q) \in Seq(Items) /\ Head(q) \in Items /\ Head(q) = q[1]
         /\ Len(Tail(q)) = Len(q) - 1 /\ Len(q) \in Nat \ {0}
         /\ \A k \in 1..Len(Tail(q)) : Tail(q)[k] = q[k + 1] /\ k + 1 \in 1..Len(q)
  OBVIOUS

LEMMA AppendToQueue ==
  ASSUME NEW q \in Seq(Items), NEW i \in Items
  PROVE  /\ Append(q, i) \in Seq(Items)
         /\ Len(Append(q, i)) = Len(q) + 1 /\ Len(q) \in Nat
         /\ \A k \in 1..Len(q) : Append(q, i)[k] = q[k]
         /\ Append(q, i)[Len(q) + 1] = i
  OBVIOUS

LEMMA EnqueueKeepsIInv ==
  ASSUME IInv, NEW i \in Items, Enqueue(i)
  PROVE  IInv'
  <1> USE DEF IInv
  <1>1. /\ fate[i] = "new" /\ fate \in [Items -> Fates] /\ queue \in Seq(Items)
        /\ UNCHANGED <<closed, worker, item, attempt, state, failureCount, sinceFailure,
                       stop, received>>
    BY DEF Enqueue, TypeOK, workerVars, breakerVars
  <1>2. CASE Skip(i)
    <2>1. fate' = [fate EXCEPT ![i] = "skipped"] /\ queue' = queue /\ panicked' = panicked
      BY <1>2 DEF Skip
    <2>2. TypeOK'
      BY <1>1, <2>1 DEF TypeOK, Fates
    <2>3. BreakerIsConsistent' /\ Counted' /\ Tried' /\ Closing'
      BY <1>1, <2>1 DEF BreakerIsConsistent, Counted, Tried, Closing, Sending
    <2>4. ReceivedAsTried' /\ Held'
      BY <1>1, <2>1 DEF ReceivedAsTried, Held, Sending, TypeOK
    <2>5. Queued'
      BY <1>1, <2>1 DEF Queued
    <2> QED
      BY <2>2, <2>3, <2>4, <2>5
  <1>3. CASE SendOnClosed(i)
    <2>1. queue' = queue /\ fate' = fate /\ panicked' = TRUE
      BY <1>3 DEF SendOnClosed
    <2> QED
      BY <1>1, <2>1
        DEF TypeOK, BreakerIsConsistent, ReceivedAsTried, Held, Queued, Counted, Tried,
            Closing, Sending
  <1>4. CASE SendOrDrop(i)
    <2>1. CASE fate' = [fate EXCEPT ![i] = "dropped"] /\ queue' = queue /\ panicked' = panicked
      <3>1. TypeOK'
        BY <1>1, <2>1 DEF TypeOK, Fates
      <3>2. BreakerIsConsistent' /\ Counted' /\ Tried' /\ Closing'
        BY <1>1, <2>1 DEF BreakerIsConsistent, Counted, Tried, Closing, Sending
      <3>3. ReceivedAsTried' /\ Held'
        BY <1>1, <2>1 DEF ReceivedAsTried, Held, Sending, TypeOK
      <3>4. Queued'
        BY <1>1, <2>1 DEF Queued
      <3> QED
        BY <3>1, <3>2, <3>3, <3>4
    <2>2. CASE /\ fate' = [fate EXCEPT ![i] = "queued"] /\ queue' = Append(queue, i)
               /\ Len(queue) < QueueSize /\ ~closed /\ panicked' = panicked
      <3>1. TypeOK'
        BY <1>1, <2>2, AppendToQueue DEF TypeOK, Fates
      <3>2. BreakerIsConsistent' /\ Counted' /\ Tried'
        BY <1>1, <2>2 DEF BreakerIsConsistent, Counted, Tried, Sending
      <3>3. ReceivedAsTried' /\ Held'
        BY <1>1, <2>2 DEF ReceivedAsTried, Held, Sending, TypeOK
      <3>4. \A k \in 1..Len(queue) : fate[queue[k]] = "queued" /\ queue[k] # i /\ queue[k] \in Items
        BY <1>1 DEF Queued
      <3>5. Queued'
        <4>1. Len(queue') <= QueueSize
          BY <1>1, <2>2, AppendToQueue, WebhookAssumption DEF Queued
        <4>2. \A k \in 1..Len(queue') :
                \/ k \in 1..Len(queue) /\ queue'[k] = queue[k]
                \/ k = Len(queue) + 1 /\ queue'[k] = i
          BY <1>1, <2>2, AppendToQueue
        <4>3. \A k \in 1..Len(queue') : fate'[queue'[k]] = "queued"
          BY <1>1, <2>2, <3>4, <4>2
        <4>4. \A j, k \in 1..Len(queue') : j # k => queue'[j] # queue'[k]
          BY <3>4, <4>2 DEF Queued
        <4> QED
          BY <4>1, <4>3, <4>4 DEF Queued
      <3>6. Closing'
        BY <1>1, <2>2 DEF Closing
      <3> QED
        BY <3>1, <3>2, <3>3, <3>5, <3>6
    <2> QED
      BY <1>1, <1>4, <2>1, <2>2 DEF SendOrDrop
  <1> QED
    BY <1>2, <1>3, <1>4 DEF Enqueue

\* Taking the head of the queue leaves the others queued.
LEMMA Dequeued ==
  ASSUME IInv, queue # <<>>, queue' = Tail(queue), NEW f,
         fate' = [fate EXCEPT ![Head(queue)] = f]
  PROVE  /\ Queued' /\ queue' \in Seq(Items)
         /\ Head(queue) \in Items /\ fate[Head(queue)] = "queued"
  <1>1. /\ queue \in Seq(Items) /\ Queued /\ fate \in [Items -> Fates]
    BY DEF IInv, TypeOK
  <1>2. /\ Head(queue) = queue[1] /\ Len(queue) \in Nat \ {0} /\ Head(queue) \in Items
        /\ Len(queue') = Len(queue) - 1 /\ queue' \in Seq(Items)
        /\ \A k \in 1..Len(queue') : queue'[k] = queue[k + 1] /\ k + 1 \in 1..Len(queue)
    BY <1>1, TailOfQueue
  <1>3. \A k \in 1..Len(queue') : queue'[k] # Head(queue) /\ queue'[k] \in Items
    BY <1>1, <1>2 DEF Queued
  <1>4. \A k \in 1..Len(queue') : fate'[queue'[k]] = "queued"
    BY <1>1, <1>2, <1>3 DEF Queued
  <1>5. \A j, k \in 1..Len(queue') : j # k => queue'[j] # queue'[k]
    BY <1>1, <1>2 DEF Queued
  <1> QED
    BY <1>1, <1>2, <1>4, <1>5, WebhookAssumption DEF Queued

LEMMA WorkerKeepsIInv == IInv /\ WorkerStep => IInv'
  <1> SUFFICES ASSUME IInv, WorkerStep PROVE IInv'
    OBVIOUS
  <1> USE WebhookAssumption DEF IInv
  <1>1. CASE Reject
    <2>1. /\ queue # <<>> /\ queue' = Tail(queue) /\ worker = "idle"
          /\ fate' = [fate EXCEPT ![Head(queue)] = "rejected"]
          /\ UNCHANGED <<closed, worker, item, attempt, state, failureCount, sinceFailure,
                         stop, panicked, received>>
      BY <1>1 DEF Reject, workerVars, breakerVars, stopVars
    <2>2. Queued' /\ queue' \in Seq(Items) /\ Head(queue) \in Items /\ fate[Head(queue)] = "queued"
      BY <2>1, Dequeued
    <2>3. TypeOK'
      BY <2>1, <2>2 DEF TypeOK, Fates
    <2>4. BreakerIsConsistent' /\ Counted' /\ Tried'
      BY <2>1 DEF BreakerIsConsistent, Counted, Tried, Sending
    <2>5. ReceivedAsTried' /\ Held'
      BY <2>1, <2>2 DEF ReceivedAsTried, Held, Sending, TypeOK
    <2>6. Closing'
      BY <2>1 DEF Closing
    <2> QED
      BY <2>2, <2>3, <2>4, <2>5, <2>6
  <1>2. CASE Take
    <2>1. /\ queue # <<>> /\ queue' = Tail(queue) /\ worker = "idle" /\ ~Rejecting
          /\ worker' = "attempt" /\ item' = Head(queue) /\ attempt' = 0
          /\ fate' = [fate EXCEPT ![Head(queue)] = "sending"]
          /\ state' = IF state = "open" THEN "half" ELSE state
          /\ UNCHANGED <<closed, failureCount, sinceFailure, stop, panicked, received>>
      BY <1>2 DEF Take, stopVars
    <2>2. Queued' /\ queue' \in Seq(Items) /\ Head(queue) \in Items /\ fate[Head(queue)] = "queued"
      BY <2>1, Dequeued
    <2>3. TypeOK'
      BY <2>1, <2>2 DEF TypeOK, Fates
    <2>4. BreakerIsConsistent' /\ Tried'
      BY <2>1 DEF BreakerIsConsistent, Tried, Sending, Rejecting, TypeOK
    <2>5. received[Head(queue)] = 0
      <3>1. \A i \in Items : received[i] \in Nat
        BY DEF TypeOK
      <3>2. \A i \in Items : fate[i] = "queued" => ~(received[i] > 0)
        BY DEF ReceivedAsTried
      <3> QED
        BY <2>2, <3>1, <3>2
    <2>6. ReceivedAsTried' /\ Held'
      BY <2>1, <2>2, <2>5 DEF ReceivedAsTried, Held, Sending, TypeOK
    <2>7. Closing' /\ Counted'
      BY <2>1, <2>5 DEF Closing, Counted, Sending
    <2> QED
      BY <2>2, <2>3, <2>4, <2>6, <2>7
  <1>3. CASE AttemptSucceeds \/ LastAttemptFails
    <2>1. /\ worker = "attempt" /\ item \in Items /\ fate[item] = "sending"
          /\ received[item] <= attempt /\ received[item] \in Nat /\ attempt \in 0..MaxRetries
      BY <1>3 DEF AttemptSucceeds, Succeeds, LastAttemptFails, Held, Counted, Sending, TypeOK
    <2>2. PICK f \in {"delivered", "failed"} :
            /\ fate' = [fate EXCEPT ![item] = f]
            /\ f = "delivered" => received' = [received EXCEPT ![item] = @ + 1]
            /\ received' \in {received, [received EXCEPT ![item] = @ + 1]}
            /\ worker' = "idle" /\ item' = Nothing
            /\ UNCHANGED <<queue, closed, attempt, stop, panicked>>
      BY <1>3
        DEF AttemptSucceeds, Succeeds, LastAttemptFails, CallEnds, queueVars, stopVars
    <2>3. BreakerIsConsistent' /\ failureCount' \in Nat /\ sinceFailure' \in 0..Recovery
          /\ state' \in {"closed", "open", "half"}
      <3>1. CASE AttemptSucceeds
        BY <2>2, <3>1 DEF AttemptSucceeds, Succeeds, BreakerIsConsistent, TypeOK
      <3>2. CASE LastAttemptFails
        <4>1. /\ failureCount' = failureCount + 1 /\ sinceFailure' = 0
              /\ state' = IF state = "half" \/ failureCount + 1 >= Threshold
                         THEN "open" ELSE state
          BY <3>2 DEF LastAttemptFails
        <4>2. failureCount \in Nat /\ state \in {"closed", "open", "half"}
          BY DEF TypeOK
        <4>3. state \in {"closed", "half"} /\ (state = "half" => failureCount + 1 >= Threshold)
          BY <2>1, <4>2, WebhookAssumption DEF BreakerIsConsistent, Tried, Sending
        <4> QED
          BY <2>2, <4>1, <4>2, <4>3 DEF BreakerIsConsistent, Sending
      <3> QED
        BY <1>3, <3>1, <3>2
    <2>4. TypeOK'
      BY <2>1, <2>2, <2>3 DEF TypeOK, Fates
    <2>5. Counted' /\ Tried' /\ Closing'
      BY <2>1, <2>2, <2>3 DEF BreakerIsConsistent, Counted, Tried, Closing, Sending
    <2>6. Held'
      BY <2>1, <2>2 DEF Held, Sending, TypeOK
    <2>7. Queued'
      BY <2>1, <2>2 DEF Queued, TypeOK
    <2>8. ReceivedAsTried'
      BY <2>1, <2>2, <2>4 DEF ReceivedAsTried, TypeOK
    <2> QED
      BY <2>3, <2>4, <2>5, <2>6, <2>7, <2>8
  <1>4. CASE AttemptFails
    <2>1. /\ worker = "attempt" /\ item \in Items /\ fate[item] = "sending"
          /\ received[item] <= attempt /\ received[item] \in Nat
          /\ attempt \in 0..MaxRetries /\ attempt < MaxRetries
      BY <1>4 DEF AttemptFails, RetryBelow, Held, Counted, Sending, TypeOK
    <2>2. /\ received' \in {received, [received EXCEPT ![item] = @ + 1]}
          /\ worker' = "backoff"
          /\ UNCHANGED <<item, attempt, state, failureCount, sinceFailure, queue, closed, stop,
                         panicked, fate>>
      BY <1>4 DEF AttemptFails, RetryBelow, breakerVars, queueVars, stopVars
    <2>3. TypeOK'
      BY <2>1, <2>2 DEF TypeOK
    <2>4. BreakerIsConsistent' /\ Held' /\ Tried' /\ Closing' /\ Queued'
      BY <2>1, <2>2 DEF BreakerIsConsistent, Held, Tried, Closing, Queued, Sending
    <2>5. /\ received'[item] <= attempt + 1
          /\ \A i \in Items : i # item => received'[i] = received[i]
      BY <2>1, <2>2 DEF TypeOK
    <2>6. Counted' /\ ReceivedAsTried'
      <3>1. Counted'
        BY <2>1, <2>2, <2>5 DEF Counted, Sending
      <3>2. received'[item] <= MaxRetries + 1
        BY <2>1, <2>3, <2>5 DEF TypeOK
      <3>3. ReceivedAsTried'
        BY <2>1, <2>2, <2>5, <3>2 DEF ReceivedAsTried
      <3> QED
        BY <3>1, <3>3
    <2> QED
      BY <2>3, <2>4, <2>6
  <1>5. CASE Backoff
    <2>1. /\ worker = "backoff" /\ worker' = "attempt" /\ attempt' = attempt + 1
          /\ UNCHANGED <<item, state, failureCount, sinceFailure, queue, closed, stop, panicked,
                         fate, received>>
      BY <1>5 DEF Backoff, breakerVars, queueVars, stopVars
    <2>2. TypeOK' /\ Counted' /\ Tried'
      BY <2>1 DEF TypeOK, Counted, Tried, Sending
    <2>3. BreakerIsConsistent' /\ Held' /\ Closing' /\ Queued' /\ ReceivedAsTried'
      BY <2>1 DEF BreakerIsConsistent, Held, Closing, Queued, ReceivedAsTried, Sending
    <2> QED
      BY <2>2, <2>3
  <1>6. CASE WorkerStops
    <2>1. /\ worker = "idle" /\ closed /\ queue = <<>> /\ worker' = "stopped"
          /\ UNCHANGED <<item, attempt, state, failureCount, sinceFailure, queue, closed, stop,
                         panicked, fate, received>>
      BY <1>6 DEF WorkerStops, StopWorkerWhen, breakerVars, queueVars, stopVars
    <2> QED
      BY <2>1
        DEF TypeOK, BreakerIsConsistent, ReceivedAsTried, Held, Queued, Counted, Tried,
            Closing, Sending
  <1> QED
    BY <1>1, <1>2, <1>3, <1>4, <1>5, <1>6 DEF WorkerStep

LEMMA NextKeepsIInv == IInv /\ [Next]_vars => IInv'
  <1> SUFFICES ASSUME IInv, [Next]_vars PROVE IInv'
    OBVIOUS
  <1> USE DEF IInv
  <1>1. CASE Tick
    <2>1. /\ sinceFailure < Recovery /\ sinceFailure' = sinceFailure + 1
          /\ UNCHANGED <<state, failureCount, queue, closed, worker, item, attempt, stop,
                         panicked, fate, received>>
      BY <1>1 DEF Tick, queueVars, workerVars, stopVars
    <2> QED
      BY <2>1, WebhookAssumption
        DEF TypeOK, BreakerIsConsistent, ReceivedAsTried, Held, Queued, Counted, Tried,
            Closing, Sending
  <1>2. CASE Stop \/ StopReturns
    <2>1. /\ UNCHANGED <<queue, worker, item, attempt, state, failureCount, sinceFailure,
                         panicked, fate, received>>
          /\ \/ stop = "no" /\ stop' = "closing" /\ closed' = TRUE
             \/ stop = "closing" /\ worker = "stopped" /\ stop' = "returned" /\ closed' = closed
      BY <1>2 DEF Stop, StopReturns, queueVars, workerVars, breakerVars
    <2> QED
      BY <2>1
        DEF TypeOK, BreakerIsConsistent, ReceivedAsTried, Held, Queued, Counted, Tried,
            Closing, Sending
  <1>3. CASE UNCHANGED vars
    BY <1>3
      DEF vars, queueVars, workerVars, breakerVars, stopVars, TypeOK, BreakerIsConsistent,
          ReceivedAsTried, Held, Queued, Counted, Tried, Closing, Sending
  <1> QED
    BY <1>1, <1>2, <1>3, EnqueueKeepsIInv, WorkerKeepsIInv DEF Next

LEMMA Invariance == Spec => []IInv
  BY InitIInv, NextKeepsIInv, PTL DEF Spec

-----------------------------------------------------------------------------
(* The refinement.                                                         *)

Pending == (IF item = Nothing THEN <<>> ELSE <<item>>) \o queue

\* What Notifier does to its sequence, the mapped sequence undergoes.
LEMMA PendingIdle ==
  ASSUME IInv, item = Nothing
  PROVE  Pending = queue
  BY ConcatEmptySeq DEF IInv, TypeOK, Pending

LEMMA PendingSending ==
  ASSUME NEW i \in Items, NEW q \in Seq(Items)
  PROVE  /\ <<i>> \o q \in Seq(Items) /\ <<i>> \o q # <<>>
         /\ Len(<<i>> \o q) = Len(q) + 1
         /\ Head(<<i>> \o q) = i /\ Tail(<<i>> \o q) = q
  <1>1. <<i>> \in Seq(Items) /\ Len(<<i>>) = 1 /\ <<i>>[1] = i
    OBVIOUS
  <1>2. /\ <<i>> \o q \in Seq(Items)
        /\ Len(<<i>> \o q) = Len(q) + 1 /\ Len(q) \in Nat
        /\ (<<i>> \o q)[1] = i
        /\ \A k \in 1..Len(q) : (<<i>> \o q)[k + 1] = q[k]
    BY <1>1, ConcatProperties, LenProperties
  <1>3. <<i>> \o q # <<>>
    BY <1>2
  <1>4. Head(<<i>> \o q) = i
    BY <1>2, <1>3
  <1>5. Tail(<<i>> \o q) = q
    <2>1. /\ Tail(<<i>> \o q) \in Seq(Items) /\ Len(Tail(<<i>> \o q)) = Len(q)
          /\ \A k \in 1..Len(q) : Tail(<<i>> \o q)[k] = q[k]
      BY <1>2, <1>3, HeadTailProperties
    <2> QED
      BY <2>1, SeqEqual
  <1> QED
    BY <1>2, <1>3, <1>4, <1>5

LEMMA PendingTaken ==
  ASSUME NEW q \in Seq(Items), q # <<>>
  PROVE  <<Head(q)>> \o Tail(q) = q
  <1>1. Head(q) \in Items /\ Tail(q) \in Seq(Items) /\ Head(q) = q[1]
        /\ Len(Tail(q)) = Len(q) - 1 /\ Len(q) \in Nat \ {0}
        /\ \A k \in 1..Len(Tail(q)) : Tail(q)[k] = q[k + 1]
    BY TailOfQueue
  <1>2. <<Head(q)>> \in Seq(Items) /\ Len(<<Head(q)>>) = 1 /\ <<Head(q)>>[1] = Head(q)
    BY <1>1
  <1> DEFINE s == <<Head(q)>> \o Tail(q)
  <1>3. /\ s \in Seq(Items) /\ Len(s) = Len(q)
        /\ \A k \in 1..Len(q) : s[k] = IF k <= 1 THEN Head(q) ELSE Tail(q)[k - 1]
    BY <1>1, <1>2, ConcatProperties
  <1>4. \A k \in 1..Len(q) : s[k] = q[k]
    BY <1>1, <1>3
  <1> QED
    BY <1>3, <1>4, SeqEqual

\* Appending to the second of two sequences appends to both.
LEMMA ConcatAppend ==
  ASSUME NEW h \in Seq(Items), NEW q \in Seq(Items), NEW i \in Items
  PROVE  h \o Append(q, i) = Append(h \o q, i) /\ Len(h \o q) = Len(h) + Len(q)
  <1>1. /\ h \o q \in Seq(Items) /\ Len(h \o q) = Len(h) + Len(q)
        /\ <<i>> \in Seq(Items) /\ Append(q, i) = q \o <<i>>
    BY ConcatProperties, AppendIsConcat
  <1>2. Append(h \o q, i) = (h \o q) \o <<i>>
    BY <1>1, AppendIsConcat
  <1>3. (h \o q) \o <<i>> = h \o (q \o <<i>>)
    BY <1>1, ConcatAssociative
  <1> QED
    BY <1>1, <1>2, <1>3

LEMMA PendingAppended ==
  ASSUME IInv, NEW i \in Items, queue' = Append(queue, i), item' = item
  PROVE  Pending' = Append(Pending, i) /\ (Len(queue) < QueueSize => Len(Pending) <= QueueSize)
  <1>1. /\ queue \in Seq(Items) /\ Len(queue) \in Nat
        /\ item \in Items \cup {Nothing}
    BY LenProperties DEF IInv, TypeOK
  <1>2. PICK h \in Seq(Items) :
          /\ h = (IF item = Nothing THEN <<>> ELSE <<item>>)
          /\ Len(h) \in 0..1
    <2> DEFINE held == IF item = Nothing THEN <<>> ELSE <<item>>
    <2>1. <<>> \in Seq(Items) /\ Len(<<>>) = 0
      BY EmptySeq
    <2>2. item # Nothing => <<item>> \in Seq(Items) /\ Len(<<item>>) = 1
      BY <1>1
    <2>3. held \in Seq(Items) /\ Len(held) \in 0..1
      BY <2>1, <2>2
    <2> HIDE DEF held
    <2>4. \E h \in Seq(Items) : h = held /\ Len(h) \in 0..1
      BY <2>3
    <2> QED
      BY <2>4 DEF held
  <1>3. Pending = h \o queue /\ Pending' = h \o Append(queue, i)
    BY <1>2 DEF Pending
  <1>4. h \o Append(queue, i) = Append(h \o queue, i) /\ Len(h \o queue) = Len(h) + Len(queue)
    BY <1>1, ConcatAppend
  <1>5. Pending' = Append(Pending, i) /\ Len(Pending) = Len(h) + Len(queue)
    BY <1>3, <1>4
  <1>6. Len(queue) < QueueSize => Len(h) + Len(queue) <= QueueSize
    BY <1>1, <1>2, WebhookAssumption
  <1> QED
    BY <1>5, <1>6

\* What became of a notification, as its abstraction.
LEMMA Fated ==
  ASSUME IInv, NEW i \in Items, NEW f \in Fates, fate' = [fate EXCEPT ![i] = f]
  PROVE  [j \in Items |-> AbstractFate(fate'[j])]
           = [[j \in Items |-> AbstractFate(fate[j])] EXCEPT ![i] = AbstractFate(f)]
  BY DEF IInv, TypeOK

LEMMA StepIsAbstract == IInv /\ [Next]_vars => [Abstract!Next]_(Abstract!vars)
  <1> SUFFICES ASSUME IInv, [Next]_vars, ~(UNCHANGED Abstract!vars) PROVE Abstract!Next
    BY DEF Abstract!Next
  <1> DEFINE afate == [j \in Items |-> AbstractFate(fate[j])]
  <1>1. /\ queue \in Seq(Items) /\ Len(queue) \in Nat /\ item \in Items \cup {Nothing}
        /\ Nothing \notin Items /\ fate \in [Items -> Fates]
    BY WebhookAssumption, LenProperties DEF IInv, TypeOK
  <1>2. /\ Sending => item \in Items /\ fate[item] = "sending"
        /\ ~Sending => item = Nothing
        /\ closed <=> stop # "no"
    BY DEF IInv, Held, Closing
  <1>3. ~(/\ afate' = afate /\ Pending' = Pending
          /\ stop' = stop /\ panicked' = panicked)
    BY DEF Abstract!vars, Pending
  <1>4. CASE ~panicked /\ (\E i \in Items : Enqueue(i))
    <2>1. PICK i \in Items : Enqueue(i)
      BY <1>4
    <2>2. /\ fate[i] = "new" /\ item' = item /\ stop' = stop /\ afate[i] = "new"
      BY <2>1 DEF Enqueue, workerVars, AbstractFate
    <2>3. CASE /\ fate' \in {[fate EXCEPT ![i] = "skipped"], [fate EXCEPT ![i] = "dropped"]}
               /\ queue' = queue /\ panicked' = panicked
      <3>1. afate' = [afate EXCEPT ![i] = "refused"]
        BY <2>3, Fated DEF Fates, AbstractFate
      <3>2. Pending' = Pending
        BY <2>2, <2>3 DEF Pending
      <3> QED
        BY <1>4, <2>2, <2>3, <3>1, <3>2 DEF Abstract!Next, Abstract!Refuse, Pending
    <2>4. CASE closed /\ panicked' = TRUE /\ queue' = queue /\ fate' = fate
      <3>1. Pending' = Pending /\ afate' = afate
        BY <2>2, <2>4 DEF Pending
      <3> QED
        BY <1>2, <1>4, <2>2, <2>4, <3>1 DEF Abstract!Next, Abstract!Panic, Pending
    <2>5. CASE /\ ~closed /\ Len(queue) < QueueSize /\ queue' = Append(queue, i)
               /\ fate' = [fate EXCEPT ![i] = "queued"] /\ panicked' = panicked
      <3>1. afate' = [afate EXCEPT ![i] = "accepted"]
        BY <2>5, Fated DEF Fates, AbstractFate
      <3>2. Pending' = Append(Pending, i) /\ Len(Pending) <= QueueSize
        BY <2>2, <2>5, PendingAppended
      <3> QED
        BY <1>2, <1>4, <2>2, <2>5, <3>1, <3>2 DEF Abstract!Next, Abstract!Accept, Pending
    <2> QED
      BY <2>1, <2>3, <2>4, <2>5 DEF Enqueue, Skip, SendOnClosed, SendOrDrop
  <1>5. CASE ~panicked /\ Reject
    <2>1. /\ queue # <<>> /\ queue' = Tail(queue) /\ item = Nothing /\ item' = Nothing
          /\ fate' = [fate EXCEPT ![Head(queue)] = "rejected"]
          /\ stop' = stop /\ panicked' = panicked /\ Head(queue) \in Items
      BY <1>1, <1>2, <1>5, TailOfQueue DEF Reject, workerVars, stopVars, Sending
    <2>2. Pending = queue /\ Pending' = Tail(queue)
      <3>1. Tail(queue) \in Seq(Items)
        BY <1>1, <2>1, TailOfQueue
      <3> QED
        BY <1>1, <2>1, <3>1, ConcatEmptySeq DEF Pending
    <2>3. afate' = [afate EXCEPT ![Head(queue)] = "settled"]
      BY <2>1, Fated DEF Fates, AbstractFate
    <2> QED
      BY <1>5, <2>1, <2>2, <2>3 DEF Abstract!Next, Abstract!Settle, Pending
  <1>6. CASE ~panicked /\ Take
    <2>1. /\ queue # <<>> /\ queue' = Tail(queue) /\ item = Nothing /\ item' = Head(queue)
          /\ fate' = [fate EXCEPT ![Head(queue)] = "sending"]
          /\ stop' = stop /\ panicked' = panicked /\ Head(queue) \in Items
          /\ fate[Head(queue)] = "queued"
      BY <1>1, <1>2, <1>6, Dequeued DEF Take, stopVars, Sending
    <2>2. Pending = queue /\ Pending' = queue
      BY <1>1, <2>1, ConcatEmptySeq, PendingTaken DEF Pending
    <2>3. afate' = afate
      <3>1. afate' = [afate EXCEPT ![Head(queue)] = "accepted"]
        BY <2>1, Fated DEF Fates, AbstractFate
      <3>2. afate[Head(queue)] = "accepted"
        BY <2>1 DEF AbstractFate
      <3> QED
        BY <2>1, <3>1, <3>2
    <2> QED
      BY <1>3, <2>1, <2>2, <2>3
  <1>7. CASE ~panicked /\ (AttemptSucceeds \/ LastAttemptFails)
    <2>1. /\ item \in Items /\ item' = Nothing /\ queue' = queue
          /\ stop' = stop /\ panicked' = panicked
          /\ \/ fate' = [fate EXCEPT ![item] = "delivered"]
             \/ fate' = [fate EXCEPT ![item] = "failed"]
      BY <1>2, <1>7
        DEF AttemptSucceeds, Succeeds, LastAttemptFails, CallEnds, queueVars, stopVars, Sending
    <2>2. Pending = <<item>> \o queue /\ Pending' = queue
      BY <1>1, <2>1, ConcatEmptySeq DEF Pending
    <2>3. afate' = [afate EXCEPT ![item] = "settled"]
      BY <2>1, Fated DEF Fates, AbstractFate
    <2>4. Pending # <<>> /\ Head(Pending) = item /\ Tail(Pending) = queue
      BY <1>1, <2>1, <2>2, PendingSending
    <2> QED
      BY <1>7, <2>1, <2>2, <2>3, <2>4 DEF Abstract!Next, Abstract!Settle, Pending
  <1>8. CASE ~panicked /\ (Stop \/ StopReturns)
    <2>1. /\ item' = item /\ queue' = queue /\ fate' = fate /\ panicked' = panicked
          /\ \/ stop = "no" /\ stop' = "closing"
             \/ stop = "closing" /\ worker = "stopped" /\ stop' = "returned"
      BY <1>8 DEF Stop, StopReturns, queueVars, workerVars
    <2>2. Pending' = Pending /\ afate' = afate
      BY <2>1 DEF Pending
    <2>3. worker = "stopped" => Pending = <<>>
      BY <1>2, ConcatEmptySeq, EmptySeq DEF IInv, Closing, Pending, Sending
    <2> QED
      BY <1>8, <2>1, <2>2, <2>3 DEF Abstract!Next, Abstract!Stop, Abstract!Return, Pending
  <1>9. CASE AttemptFails \/ Backoff \/ WorkerStops \/ Tick \/ UNCHANGED vars
    <2>1. UNCHANGED <<queue, item, fate, stop, panicked>>
      BY <1>9
        DEF AttemptFails, RetryBelow, Backoff, WorkerStops, StopWorkerWhen, Tick, vars,
            queueVars, workerVars, stopVars
    <2>2. Pending' = Pending /\ afate' = afate
      BY <2>1 DEF Pending
    <2> QED
      BY <1>3, <2>1, <2>2
  <1> QED
    BY <1>4, <1>5, <1>6, <1>7, <1>8, <1>9 DEF Next, WorkerStep

-----------------------------------------------------------------------------
(***************************************************************************)
(* The variables keep their types; in particular no attempt is made beyond *)
(* the last retry.                                                         *)
(***************************************************************************)
THEOREM TypeCorrect == Spec => []TypeOK
  <1>1. IInv => TypeOK
    BY DEF IInv
  <1> QED
    BY <1>1, Invariance, PTL

(***************************************************************************)
(* State, count and clock of the breaker agree in every reachable state,   *)
(* for every threshold and recovery timeout.                               *)
(***************************************************************************)
THEOREM BreakerCorrect == Spec => []BreakerIsConsistent
  <1>1. IInv => BreakerIsConsistent
    BY DEF IInv
  <1> QED
    BY <1>1, Invariance, PTL

(***************************************************************************)
(* The receiver sees a notification once per attempt at most, and what     *)
(* counts as delivered it has seen.                                        *)
(***************************************************************************)
THEOREM ReceivedCorrect == Spec => []ReceivedAsTried
  <1>1. IInv => ReceivedAsTried
    BY DEF IInv
  <1> QED
    BY <1>1, Invariance, PTL

(***************************************************************************)
(* The sender is the bounded queue its callers rely on, for every size of  *)
(* it, every number of retries and whatever the breaker does: what is      *)
(* settled is settled once and in order, and Stop returns when nothing is  *)
(* pending.  (That everything settles is left to TLC.)                     *)
(***************************************************************************)
THEOREM SenderIsNotifier == Spec => Abstract!SafeSpec
  <1>1. Init => Abstract!Init
    <2> SUFFICES ASSUME Init PROVE Abstract!Init
      OBVIOUS
    <2>1. [i \in Items |-> AbstractFate(fate[i])] = [i \in Items |-> "new"]
      BY DEF Init, AbstractFate
    <2>2. (IF item = Nothing THEN <<>> ELSE <<item>>) \o queue = <<>>
      BY ConcatEmptySeq, EmptySeq DEF Init
    <2> QED
      BY <2>1, <2>2 DEF Init, Abstract!Init
  <1>2. IInv /\ [Next]_vars => [Abstract!Next]_(Abstract!vars)
    BY StepIsAbstract
  <1> QED
    BY <1>1, <1>2, Invariance, PTL DEF Spec, Abstract!SafeSpec

-----------------------------------------------------------------------------
(* Why Stop returns.                                                       *)

\* The steps of the worker and of Stop that are still owed once the channel is closed:
\* two for each attempt of each notification.
PerItem == 2 * MaxRetries + 2
ItemsOwe(n) == PerItem * n
WorkerOwes(at, tried) ==
    CASE at = "attempt" -> 2 * (MaxRetries - tried) + 2
      [] at = "backoff" -> 2 * (MaxRetries - tried) + 1
      [] at = "idle"    -> 1
      [] at = "stopped" -> 0
StopOwes(at) == IF at = "returned" THEN 0 ELSE 1
Owed == ItemsOwe(Len(queue)) + WorkerOwes(worker, attempt) + StopOwes(stop)

LEMMA OneLess ==
  ASSUME NEW k \in Nat, NEW n \in Nat \ {0}
  PROVE  k * (n - 1) = k * n - k /\ k * n \in Nat /\ k * (n - 1) \in Nat
  OBVIOUS

\* The summands of the measure are numbers.
OwedOK ==
    /\ attempt \in 0..MaxRetries /\ Len(queue) \in Nat
    /\ ItemsOwe(Len(queue)) \in Nat
    /\ WorkerOwes(worker, attempt) \in Nat /\ StopOwes(stop) \in Nat

LEMMA Monotone ==
  ASSUME NEW k \in Nat, NEW m \in Nat, NEW n \in 0..m
  PROVE  k * n \in 0..(k * m)
  <1>1. k * m - k * n = k * (m - n) /\ m - n \in Nat
    OBVIOUS
  <1>2. k * (m - n) \in Nat /\ k * n \in Nat /\ k * m \in Nat
    BY <1>1
  <1> QED
    BY <1>1, <1>2

LEMMA OwedNumbers == IInv => OwedOK /\ Owed <= PerItem * (QueueSize + 1) + 1
  <1> SUFFICES ASSUME IInv PROVE OwedOK /\ Owed <= PerItem * (QueueSize + 1) + 1
    OBVIOUS
  <1>1. /\ MaxRetries \in Nat /\ QueueSize \in Nat /\ PerItem \in Nat
        /\ attempt \in 0..MaxRetries /\ Len(queue) \in Nat /\ Len(queue) <= QueueSize
    BY WebhookAssumption, LenProperties DEF IInv, TypeOK, Queued, PerItem
  <1>2. ItemsOwe(Len(queue)) \in 0..(PerItem * QueueSize)
    BY <1>1, Monotone DEF ItemsOwe
  <1>3. WorkerOwes(worker, attempt) \in 0..PerItem
    BY <1>1 DEF IInv, TypeOK, WorkerOwes, PerItem
  <1>4. StopOwes(stop) \in 0..1
    BY DEF StopOwes
  <1>5. PerItem * (QueueSize + 1) = PerItem * QueueSize + PerItem /\ PerItem * QueueSize \in Nat
    BY <1>1
  <1> QED
    BY <1>1, <1>2, <1>3, <1>4, <1>5 DEF OwedOK, Owed

\* Each step of the worker, and the return of Stop, pays one.
LEMMA PaysBack ==
  ASSUME IInv, OwedOK, OwedOK', WorkerStep \/ StopReturns
  PROVE  Owed' < Owed
  <1> USE DEF OwedOK
  <1>0. MaxRetries \in Nat /\ PerItem \in Nat
    BY WebhookAssumption DEF PerItem
  <1>1. CASE Reject \/ Take
    <2>1. /\ queue \in Seq(Items) /\ queue # <<>> /\ queue' = Tail(queue)
          /\ worker = "idle" /\ UNCHANGED stop
          /\ worker' = "idle" \/ (worker' = "attempt" /\ attempt' = 0)
      BY <1>1 DEF Reject, Take, IInv, TypeOK, workerVars, stopVars
    <2>2. Len(queue') = Len(queue) - 1 /\ Len(queue) \in Nat \ {0}
      BY <2>1, TailOfQueue
    <2>3. ItemsOwe(Len(queue')) = ItemsOwe(Len(queue)) - PerItem
      BY <1>0, <2>2, OneLess DEF ItemsOwe
    <2>4. WorkerOwes(worker, attempt) = 1 /\ WorkerOwes(worker', attempt') <= PerItem
      BY <1>0, <2>1 DEF WorkerOwes, PerItem
    <2>5. WorkerOwes(worker', attempt') < PerItem + 1
      BY <1>0, <2>4
    <2>6. StopOwes(stop') = StopOwes(stop)
      BY <2>1
    <2>7. ItemsOwe(Len(queue')) + WorkerOwes(worker', attempt')
            < ItemsOwe(Len(queue)) + WorkerOwes(worker, attempt)
      BY <1>0, <2>3, <2>4, <2>5
    <2> QED
      BY <2>6, <2>7 DEF Owed
  <1>2. CASE \/ AttemptSucceeds \/ AttemptFails \/ LastAttemptFails \/ Backoff \/ WorkerStops
    <2>1. /\ UNCHANGED <<queue, stop>>
          /\ \/ worker = "attempt" /\ worker' \in {"idle", "backoff"} /\ UNCHANGED attempt
             \/ worker = "backoff" /\ worker' = "attempt" /\ attempt' = attempt + 1
             \/ worker = "idle" /\ worker' = "stopped" /\ UNCHANGED attempt
      BY <1>2
        DEF AttemptSucceeds, Succeeds, AttemptFails, RetryBelow, LastAttemptFails, CallEnds,
            Backoff, WorkerStops, StopWorkerWhen, queueVars, stopVars
    <2>2. attempt \in Nat /\ attempt <= MaxRetries
      BY <1>0
    <2>3. ASSUME worker = "attempt" /\ worker' \in {"idle", "backoff"} /\ UNCHANGED attempt
          PROVE  WorkerOwes(worker', attempt') < WorkerOwes(worker, attempt)
      <3>1. WorkerOwes("attempt", attempt) = 2 * (MaxRetries - attempt) + 2
        BY DEF WorkerOwes
      <3>2. /\ WorkerOwes("backoff", attempt) = 2 * (MaxRetries - attempt) + 1
            /\ WorkerOwes("idle", attempt) = 1
        BY DEF WorkerOwes
      <3> QED
        BY <1>0, <2>2, <2>3, <3>1, <3>2
    <2>4. ASSUME worker = "backoff" /\ worker' = "attempt" /\ attempt' = attempt + 1
          PROVE  WorkerOwes(worker', attempt') < WorkerOwes(worker, attempt)
      <3>1. WorkerOwes("attempt", attempt + 1) = 2 * (MaxRetries - (attempt + 1)) + 2
        BY DEF WorkerOwes
      <3>2. WorkerOwes("backoff", attempt) = 2 * (MaxRetries - attempt) + 1
        BY DEF WorkerOwes
      <3> QED
        BY <1>0, <2>2, <2>4, <3>1, <3>2
    <2>5. ASSUME worker = "idle" /\ worker' = "stopped" /\ UNCHANGED attempt
          PROVE  WorkerOwes(worker', attempt') < WorkerOwes(worker, attempt)
      BY <2>5 DEF WorkerOwes
    <2>6. WorkerOwes(worker', attempt') < WorkerOwes(worker, attempt)
      BY <2>1, <2>3, <2>4, <2>5
    <2> QED
      BY <2>1, <2>6 DEF Owed
  <1>3. CASE StopReturns
    <2>1. StopOwes(stop') < StopOwes(stop) /\ UNCHANGED <<queue, worker, attempt>>
      BY <1>3 DEF StopReturns, StopOwes, queueVars, workerVars
    <2> QED
      BY <2>1 DEF Owed
  <1> QED
    BY <1>1, <1>2, <1>3 DEF WorkerStep

(***************************************************************************)
(* Why Stop returns, but for the fairness that TLC assumes: once the       *)
(* channel is closed nothing is added to what is owed, and each step of    *)
(* the worker takes from it, so Stop waits for at most                     *)
(* PerItem * (QueueSize + 1) of them, whatever the receiver answers.       *)
(***************************************************************************)
THEOREM StopDrains ==
  Spec => /\ [](Owed \in 0..(PerItem * (QueueSize + 1) + 1))
          /\ [][/\ closed => Owed' <= Owed
                /\ WorkerStep \/ StopReturns => Owed' < Owed]_vars
  <1>1. IInv => Owed \in 0..(PerItem * (QueueSize + 1) + 1)
    <2>1. PerItem * (QueueSize + 1) + 1 \in Nat
      BY WebhookAssumption DEF PerItem
    <2> QED
      BY <2>1, OwedNumbers DEF OwedOK, Owed
  <1>2. IInv' => OwedOK'
    <2>1. IInv => OwedOK
      BY OwedNumbers
    <2> QED
      BY <2>1, PTL
  <1>3. IInv /\ IInv' /\ [Next]_vars
          => [/\ closed => Owed' <= Owed
              /\ WorkerStep \/ StopReturns => Owed' < Owed]_vars
    <2> SUFFICES ASSUME IInv, IInv', Next
                 PROVE  /\ closed => Owed' <= Owed
                        /\ WorkerStep \/ StopReturns => Owed' < Owed
      OBVIOUS
    <2>1. OwedOK /\ OwedOK' /\ Owed \in Nat /\ Owed' \in Nat
      BY <1>2, OwedNumbers DEF OwedOK, Owed
    <2>2. WorkerStep \/ StopReturns => Owed' < Owed
      BY <2>1, PaysBack
    <2>3. CASE (\E i \in Items : Enqueue(i)) \/ Tick \/ Stop
      <3>1. closed => stop # "no"
        BY DEF IInv, Closing
      <3>2. closed => UNCHANGED <<queue, worker, attempt, stop>>
        BY <2>3, <3>1
          DEF Enqueue, Skip, SendOnClosed, SendOrDrop, Tick, Stop, queueVars, workerVars,
              stopVars
      <3> QED
        BY <2>1, <2>2, <3>2 DEF Owed
    <2> QED
      BY <2>1, <2>2, <2>3 DEF Next
  <1> QED
    BY <1>1, <1>3, Invariance, PTL DEF Spec

=============================================================================
