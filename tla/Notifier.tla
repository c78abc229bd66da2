------------------------------ MODULE Notifier -------------------------------
(***************************************************************************)
(* What the rest of the program relies on of a webhook.WebhookSender: a    *)
(* bounded queue of notifications, each settled once, in the order they    *)
(* were accepted, and a Stop that returns when all of them are settled.    *)
(* How often a notification is tried, and what the circuit breaker does    *)
(* about it, is not visible here.                                          *)
(***************************************************************************)
EXTENDS Naturals, Sequences

CONSTANTS Items, QueueSize

VARIABLES
    fate,       \* of each notification: "new", "accepted", "refused" or "settled"
    pending,    \* those accepted and not settled, in order
    stop,       \* "no", "closing" or "returned"
    panicked    \* a notification was enqueued after Stop was called

vars == <<fate, pending, stop, panicked>>

Init ==
    /\ fate = [i \in Items |-> "new"] /\ pending = <<>>
    /\ stop = "no" /\ panicked = FALSE

\* One more than the queue holds may be pending: the one being sent.
Accept(i) ==
    /\ stop = "no" /\ fate[i] = "new" /\ Len(pending) <= QueueSize
    /\ fate' = [fate EXCEPT ![i] = "accepted"]
    /\ pending' = Append(pending, i)
    /\ UNCHANGED <<stop, panicked>>

\* Without a target a notification is refused, in any state; else when full.
Refuse(i) ==
    /\ fate[i] = "new"
    /\ fate' = [fate EXCEPT ![i] = "refused"]
    /\ UNCHANGED <<pending, stop, panicked>>

Settle ==
    /\ pending # <<>>
    /\ fate' = [fate EXCEPT ![Head(pending)] = "settled"]
    /\ pending' = Tail(pending)
    /\ UNCHANGED <<stop, panicked>>

Stop ==
    /\ stop = "no"
    /\ stop' = "closing"
    /\ UNCHANGED <<fate, pending, panicked>>

Return ==
    /\ stop = "closing" /\ pending = <<>>
    /\ stop' = "returned"
    /\ UNCHANGED <<fate, pending, panicked>>

Panic ==
    /\ stop # "no"
    /\ panicked' = TRUE
    /\ UNCHANGED <<fate, pending, stop>>

Next ==
    /\ ~panicked
    /\ (\E i \in Items : Accept(i) \/ Refuse(i)) \/ Settle \/ Stop \/ Return \/ Panic

SafeSpec == Init /\ [][Next]_vars

Spec ==
    /\ SafeSpec
    /\ WF_vars(~panicked /\ Settle) /\ WF_vars(~panicked /\ Return)

=============================================================================
