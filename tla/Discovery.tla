------------------------------ MODULE Discovery ------------------------------
(***************************************************************************)
(* internal/discovery and the ticker of main: how what runs in Docker      *)
(* becomes a registry of specifications, and the registry a table of jobs. *)
(*                                                                         *)
(* The watcher connects, lists the containers, inspects each of them and   *)
(* only then subscribes to the events, one connection after another.       *)
(* Docker goes on meanwhile: an event before the subscription, or not read *)
(* when the stream breaks, is lost; a container may be gone, or otherwise, *)
(* when its event is read.  main copies the registry and adds what it      *)
(* finds, container by container, while the watcher changes the registry.  *)
(***************************************************************************)
EXTENDS Naturals, Sequences

CONSTANTS
    Containers,     \* container IDs, which Docker never uses twice
    Specs,          \* specifications that parseLabels can return
    Refused,        \* those of them whose cron expression the scheduler refuses
    NoSpec,
    MaxEvents       \* bound on the events that are not read yet

ASSUME DiscoveryAssumption ==
    /\ Refused \subseteq Specs /\ NoSpec \notin Specs /\ Specs \cap {"off", "invalid"} = {}
    /\ MaxEvents \in Nat

\* What parseLabels makes of a container: a specification; "off" when
\* backup.enabled is not "true"; "invalid" when it is, and another label is wrong.
Labels == Specs \cup {"off", "invalid"}

Looking    == {"create", "start", "update"}
Forgetting == {"destroy", "die", "kill"}

VARIABLES
    docker,         \* of each container: "none", "created", "up", "down" or "gone"
    labels,         \* of each container, its name included
    watcher,        \* "down", "scan" or "listen"; "ended" when Start has returned
    closed,         \* observation: a stream was closed without an error
    todo,           \* containers of the list still to be inspected
    stream,         \* events sent and not yet handled
    registry,       \* Watcher.registry
    snapshot,       \* main's copy of it
    pending,        \* containers of the copy that main has still to add
    jobs,           \* the specifications in the table of the scheduler
    missed,         \* observation: containers with a change the watcher did not see
    signalled       \* observation: containers sent a signal since they started

dockerVars  == <<docker, labels>>
watcherVars == <<watcher, closed, todo>>
mainVars    == <<snapshot, pending, jobs>>
vars == <<dockerVars, watcherVars, stream, registry, mainVars, missed, signalled>>

Nobody == [c \in Containers |-> NoSpec]

(***************************************************************************)
(* The values the variables range over.                                    *)
(***************************************************************************)
TypeOK ==
    /\ docker \in [Containers -> {"none", "created", "up", "down", "gone"}]
    /\ labels \in [Containers -> Labels]
    /\ watcher \in {"down", "scan", "listen", "ended"} /\ closed \in BOOLEAN
    /\ todo \subseteq Containers
    /\ stream \in Seq([cid: Containers, action: Looking \cup Forgetting])
    /\ registry \in [Containers -> Specs \cup {NoSpec}]
    /\ snapshot \in [Containers -> Specs \cup {NoSpec}]
    /\ jobs \in [Containers -> Specs \cup {NoSpec}]
    /\ pending \subseteq {c \in Containers : snapshot[c] # NoSpec}
    /\ missed \subseteq Containers /\ signalled \subseteq Containers

Init ==
    /\ docker = [c \in Containers |-> "none"] /\ labels \in [Containers -> Labels]
    /\ watcher = "down" /\ closed = FALSE /\ todo = {} /\ stream = <<>>
    /\ registry = Nobody
    /\ snapshot = Nobody /\ pending = {} /\ jobs = Nobody
    /\ missed = {} /\ signalled = {}

-----------------------------------------------------------------------------
(* Docker.                                                                 *)

Exists(c) == docker[c] \notin {"none", "gone"}

\* An event goes to the subscriber, if there is one.
Emit(c, action) ==
    IF watcher = "listen"
    THEN /\ Len(stream) < MaxEvents
         /\ stream' = Append(stream, [cid |-> c, action |-> action])
         /\ UNCHANGED missed
    ELSE missed' = missed \cup {c} /\ UNCHANGED stream

Moves(c, from, to, action) ==
    /\ docker[c] \in from
    /\ docker' = [docker EXCEPT ![c] = to]
    /\ Emit(c, action)
    /\ UNCHANGED <<labels, watcherVars, registry, mainVars>>

Create(c)  == Moves(c, {"none"}, "created", "create") /\ UNCHANGED signalled
Start(c)   == Moves(c, {"created", "down"}, "up", "start") /\ signalled' = signalled \ {c}
\* The end of a container; "docker stop" adds events of the same effect around it.
Die(c)     == Moves(c, {"up"}, "down", "die") /\ UNCHANGED signalled
Destroy(c) == Moves(c, {"created", "down"}, "gone", "destroy") /\ UNCHANGED signalled

\* "docker kill" with a signal that the container survives.
Signal(c) ==
    /\ docker[c] = "up" /\ Emit(c, "kill")
    /\ signalled' = signalled \cup {c}
    /\ UNCHANGED <<dockerVars, watcherVars, registry, mainVars>>

Update(c) ==
    /\ Exists(c) /\ Emit(c, "update")
    /\ signalled' = signalled \ {c}
    /\ UNCHANGED <<dockerVars, watcherVars, registry, mainVars>>

\* The specification holds the container's name; handleEvent ignores this event.
\* Labels, and so the expression, stay as long as the container does.
Rename(c, s) ==
    /\ Exists(c) /\ labels[c] \in Specs /\ s # labels[c]
    /\ s \in Refused <=> labels[c] \in Refused
    /\ labels' = [labels EXCEPT ![c] = s]
    /\ missed' = missed \cup {c}
    /\ UNCHANGED <<docker, watcherVars, stream, registry, mainVars, signalled>>

-----------------------------------------------------------------------------
(* The watcher.                                                            *)

ConnectFor(listed) ==
    /\ watcher = "down"
    /\ watcher' = "scan" /\ todo' = listed
    /\ UNCHANGED <<dockerVars, closed, stream, registry, mainVars, missed, signalled>>

\* Mutant: what is registered already is not inspected again.
ConnectForNew == ConnectFor({c \in Containers : Exists(c) /\ registry[c] = NoSpec})

\* Ping and ContainerList succeed: every container is inspected, after every failure.
Connect == ConnectFor({c \in Containers : Exists(c)})

\* Mutant: an entry keeps the labels it was made from.
RegisterOnce(c) ==
    IF labels[c] \in Specs /\ registry[c] = NoSpec
    THEN [registry EXCEPT ![c] = labels[c]] ELSE registry

\* parseAndRegister: wrong labels of an enabled container leave its entry alone.
Register(c) ==
    CASE labels[c] \in Specs     -> [registry EXCEPT ![c] = labels[c]]
      [] labels[c] = "off"       -> [registry EXCEPT ![c] = NoSpec]
      [] labels[c] = "invalid"   -> registry

\* ContainerInspect answers for a container that exists; it may always fail.
Inspect(c) ==
    \/ Exists(c) /\ registry' = Register(c) /\ missed' = missed \ {c}
    \/ UNCHANGED registry /\ missed' = missed \cup {c}

ScanOne(c) ==
    /\ watcher = "scan" /\ c \in todo
    /\ todo' = todo \ {c}
    /\ Inspect(c)
    /\ signalled' = signalled \ {c}
    /\ UNCHANGED <<dockerVars, watcher, closed, stream, mainVars>>

\* The scan is done; from here on events are sent.
Subscribe ==
    /\ watcher = "scan" /\ todo = {}
    /\ watcher' = "listen"
    /\ UNCHANGED <<dockerVars, closed, todo, stream, registry, mainVars, missed, signalled>>

HandleWith(forgetting) ==
    /\ watcher = "listen" /\ stream # <<>>
    /\ stream' = Tail(stream)
    /\ LET e == Head(stream)
       IN  \/ e.action \in Looking /\ Inspect(e.cid)
           \/ /\ e.action \in forgetting
              /\ registry' = [registry EXCEPT ![e.cid] = NoSpec]
              /\ missed' = missed \ {e.cid}
           \/ /\ e.action \notin Looking \cup forgetting
              /\ UNCHANGED <<registry, missed>>
    /\ UNCHANGED <<dockerVars, watcherVars, mainVars, signalled>>

\* Mutant: "destroy" is not in the list of the switch.
HandleAllButDestroy == HandleWith({"die", "kill"})

HandleEvent == HandleWith(Forgetting)

BreakTo(next) ==
    /\ watcher = "listen"
    /\ watcher' = next /\ stream' = <<>>
    /\ missed' = missed \cup {stream[i].cid : i \in 1..Len(stream)}
    /\ UNCHANGED <<dockerVars, todo, registry, mainVars, signalled>>

\* Mutant: an error, too, ends the loop of Start.
BreakForGood == BreakTo("ended") /\ UNCHANGED closed

\* The stream fails with an error; what was not read is lost, and the registry kept.
Break == BreakTo("down") /\ UNCHANGED closed

\* errs is closed, or yields nil: startEventLoop returns no error, and Start is done.
Close == BreakTo("ended") /\ closed' = TRUE

-----------------------------------------------------------------------------
(* main.                                                                   *)

Registered == {c \in Containers : registry[c] # NoSpec}

CopyRegistry(chosen) ==
    /\ pending = {}
    /\ snapshot' = registry /\ pending' = chosen
    /\ UNCHANGED <<dockerVars, watcherVars, stream, registry, jobs, missed, signalled>>

\* Mutants: every container, or what is new since the last copy.
TickAll == CopyRegistry(Containers)
TickChanges == CopyRegistry({c \in Registered : snapshot[c] # registry[c]})

\* The ticker: GetRegistry copies the registry under its lock.
Tick == CopyRegistry(Registered)

\* AddOrUpdateJob.  The refusal of an expression is logged, and the loop goes on;
\* there is no older job to lose, as a container's expression never changes (module
\* Scheduler has that case).  No specification in the registry is disabled.
Schedule(c) ==
    /\ c \in pending
    /\ pending' = pending \ {c}
    /\ jobs' = IF snapshot[c] \in Refused THEN jobs ELSE [jobs EXCEPT ![c] = snapshot[c]]
    /\ UNCHANGED <<dockerVars, watcherVars, stream, registry, snapshot, missed, signalled>>

\* SIGHUP: the next scheduler starts with an empty table (module Agent).
Reload ==
    /\ pending = {}
    /\ jobs' = Nobody
    /\ UNCHANGED <<dockerVars, watcherVars, stream, registry, snapshot, pending,
                   missed, signalled>>

-----------------------------------------------------------------------------
DockerStep == \E c \in Containers :
    \/ Create(c) \/ Start(c) \/ Die(c) \/ Destroy(c) \/ Signal(c) \/ Update(c)
    \/ \E s \in Specs : Rename(c, s)
WatcherStep == (\E c \in Containers : ScanOne(c)) \/ Subscribe \/ HandleEvent
MainStep == \E c \in Containers : Schedule(c)

Next == DockerStep \/ Connect \/ WatcherStep \/ Break \/ Close \/ Tick \/ MainStep \/ Reload

Spec == Init /\ [][Next]_vars

(***************************************************************************)
(* The goroutines are scheduled, each call to Docker ends (an inspection   *)
(* has ten seconds), and the ticker is served although signals are.  The   *)
(* watcher tries to connect for ever; Docker is assumed to answer          *)
(* eventually.                                                             *)
(***************************************************************************)
FairSpec ==
    /\ Spec
    /\ WF_vars(Connect) /\ WF_vars(WatcherStep) /\ WF_vars(MainStep) /\ SF_vars(Tick)

-----------------------------------------------------------------------------
\* Nothing about the container is on its way, and nothing was lost.
CaughtUp(c) ==
    /\ watcher = "listen" /\ c \notin missed
    /\ \A i \in 1..Len(stream) : stream[i].cid # c

(***************************************************************************)
(* Once the watcher has read all there is to read, and unless it lost an   *)
(* event or an inspection failed, a running container is registered with   *)
(* its present labels, and one that is gone is not registered: although    *)
(* the list, the inspections and the events are of different moments.      *)
(***************************************************************************)
RegistryIsAccurate ==
    \A c \in Containers : CaughtUp(c) =>
        /\ docker[c] = "up" /\ labels[c] \in Specs /\ c \notin signalled =>
               registry[c] = labels[c]
        /\ ~Exists(c) => registry[c] = NoSpec

(***************************************************************************)
(* What was missed is not lost for good.  If the stream fails again and    *)
(* again, and inspections in the scans that follow succeed from some       *)
(* moment on, a container that keeps running is registered as it is now    *)
(* time and again: whatever was not seen, went wrong or was taken for its  *)
(* end before.  (While a stream lasts, nothing repairs the registry.)      *)
(***************************************************************************)
MissedIsRepaired ==
    \A c \in Containers, s \in Specs :
        /\ []<>(watcher = "down")
        /\ <>[][ScanOne(c) => c \notin missed']_vars
        /\ <>[](docker[c] = "up" /\ labels[c] = s)
        => []<>(registry[c] = s)

(***************************************************************************)
(* A container that stays registered is scheduled, however often the       *)
(* configuration is reloaded, if cron accepts its expression: parseLabels  *)
(* registers any five fields.  One with a refused expression stays         *)
(* registered and never gets a job, but keeps no other from its own.       *)
(***************************************************************************)
RegisteredGetsScheduled ==
    \A c \in Containers :
        registry[c] \in Specs \ Refused ~> jobs[c] # NoSpec \/ registry[c] = NoSpec

(***************************************************************************)
(* No error of the stream ends the watcher: it listens again, and again.   *)
(* Only a stream that is closed without one does, and nothing in the agent *)
(* starts another watcher then.                                            *)
(***************************************************************************)
AlwaysListensAgain == []<>(watcher = "listen") \/ <>closed

(***************************************************************************)
(* The documented "automatically handles container start events".  One     *)
(* that is sent after the list and before the subscription is lost, and    *)
(* nothing looks at the container again: the code violates this.           *)
(***************************************************************************)
StartedAreRegistered ==
    \A c \in Containers :
        watcher = "listen" /\ stream = <<>> /\ docker[c] = "up" /\ labels[c] \in Specs =>
            registry[c] # NoSpec

=============================================================================
