--------------------------- MODULE DiscoveryProofs ---------------------------
(***************************************************************************)
(* Proofs about Discovery, for any set of containers, of specifications    *)
(* and any length of the stream: the variables keep to their ranges, and   *)
(* the registry agrees with Docker about each container of which nothing   *)
(* was missed.                                                             *)
(*                                                                         *)
(* RegistryIsAccurate speaks of moments at which nothing is on its way.    *)
(* What leads there is that the last word about a container counts: an     *)
(* event that unregisters it is only the last one in the stream if the     *)
(* container is not running, or was sent a signal after it started.        *)
(***************************************************************************)
EXTENDS Discovery, TLAPS

Event == [cid: Containers, action: Looking \cup Forgetting]

Unread(c) == \E i \in 1..Len(stream) : stream[i].cid = c

IsLast(i, c) == stream[i].cid = c /\ \A j \in 1..Len(stream) : j > i => stream[j].cid # c

\* Only a subscriber is sent events.
Quiet == watcher # "listen" => stream = <<>>

Steady(c) == docker[c] = "up" /\ c \notin signalled

LastWord ==
    \A c \in Containers : \A i \in 1..Len(stream) :
        IsLast(i, c) /\ stream[i].action \in Forgetting => ~Steady(c)

\* RegistryIsAccurate, at every stage of the watcher.
Agrees(c) ==
    /\ Steady(c) /\ labels[c] \in Specs => registry[c] = labels[c]
    /\ ~Exists(c) => registry[c] = NoSpec
Accurate == \A c \in Containers : c \notin missed /\ ~Unread(c) => Agrees(c)

IInv == TypeOK /\ Quiet /\ LastWord /\ Accurate

-----------------------------------------------------------------------------
(***************************************************************************)
(* An event that is sent becomes the last word about its container, or the *)
(* container is counted as missed; of the others nothing changes.          *)
(***************************************************************************)
LEMMA Emitted ==
  ASSUME TypeOK, Quiet, NEW c \in Containers, NEW a \in Looking \cup Forgetting,
         Emit(c, a), UNCHANGED watcher
  PROVE  /\ stream' \in Seq(Event) /\ missed' \subseteq Containers /\ Quiet'
         /\ c \in missed' \/ Unread(c)'
         /\ \A i \in 1..Len(stream') : IsLast(i, c)' => stream'[i].action = a
         /\ \A d \in Containers \ {c} : d \notin missed' => d \notin missed
         /\ \A d \in Containers \ {c} : ~Unread(d)' => ~Unread(d)
         /\ \A d \in Containers \ {c} : \A i \in 1..Len(stream') :
              IsLast(i, d)' => /\ i \in 1..Len(stream) /\ IsLast(i, d)
                               /\ stream'[i] = stream[i]
  <1> DEFINE e == [cid |-> c, action |-> a]
  <1>1. stream \in Seq(Event) /\ e \in Event
    BY DEF TypeOK, Event
  <1>2. CASE watcher = "listen"
    <2>1. stream' = Append(stream, e) /\ missed' = missed
      BY <1>2 DEF Emit
    <2>2. /\ stream' \in Seq(Event) /\ Len(stream') = Len(stream) + 1
          /\ Len(stream) \in Nat
          /\ stream'[Len(stream) + 1] = e
          /\ \A i \in 1..Len(stream) : stream'[i] = stream[i]
      BY <1>1, <2>1
    <2>3. Unread(c)'
      BY <2>2 DEF Unread
    <2>4. \A i \in 1..Len(stream') : IsLast(i, c)' => stream'[i].action = a
      BY <2>2 DEF IsLast
    <2>5. \A d \in Containers \ {c} : Unread(d) => Unread(d)'
      BY <2>2 DEF Unread
    <2>6. ASSUME NEW d \in Containers \ {c}, NEW i \in 1..Len(stream'), IsLast(i, d)'
          PROVE  i \in 1..Len(stream) /\ IsLast(i, d) /\ stream'[i] = stream[i]
      BY <2>2, <2>6 DEF IsLast
    <2> QED
      BY <1>2, <2>1, <2>2, <2>3, <2>4, <2>5, <2>6 DEF Quiet, TypeOK
  <1>3. CASE watcher # "listen"
    <2>1. stream = <<>> /\ stream' = <<>> /\ missed' = missed \cup {c}
      BY <1>3 DEF Quiet, Emit
    <2>2. 1..Len(stream') = {} /\ stream' \in Seq(Event)
      BY <2>1
    <2>3. missed' \subseteq Containers /\ c \in missed' /\ \A d : d \notin missed' => d \notin missed
      BY <2>1 DEF TypeOK
    <2>4. Quiet' /\ \A d : ~Unread(d) /\ ~Unread(d)'
      BY <2>1, <2>2 DEF Quiet, Unread
    <2> QED
      BY <2>2, <2>3, <2>4
  <1> QED
    BY <1>2, <1>3

(***************************************************************************)
(* Taking the first event leaves the others, and their order.              *)
(***************************************************************************)
LEMMA Popped ==
  ASSUME TypeOK, stream # <<>>, stream' = Tail(stream)
  PROVE  /\ stream' \in Seq(Event) /\ Head(stream) \in Event
         /\ \A i \in 1..Len(stream') :
              /\ i + 1 \in 1..Len(stream) /\ stream'[i] = stream[i + 1]
              /\ \A c \in Containers : IsLast(i, c)' => IsLast(i + 1, c)
         /\ \A c \in Containers : ~Unread(c)' =>
              IF c = Head(stream).cid
              THEN 1 \in 1..Len(stream) /\ IsLast(1, c) /\ stream[1] = Head(stream)
              ELSE ~Unread(c)
  <1>1. stream \in Seq(Event)
    BY DEF TypeOK, Event
  <1>2. /\ stream' \in Seq(Event) /\ Head(stream) \in Event
        /\ Len(stream) \in Nat /\ Len(stream) > 0 /\ Len(stream') = Len(stream) - 1
        /\ stream[1] = Head(stream)
        /\ \A i \in 1..Len(stream') : stream'[i] = stream[i + 1]
    BY <1>1
  <1>3. \A i \in 1..Len(stream) : i = 1 \/ (i - 1 \in 1..Len(stream') /\ stream'[i - 1] = stream[i])
    BY <1>2
  <1>4. ASSUME NEW i \in 1..Len(stream'), NEW c \in Containers, IsLast(i, c)'
        PROVE  IsLast(i + 1, c)
    <2>1. stream[i + 1].cid = c
      BY <1>2, <1>4 DEF IsLast
    <2>2. ASSUME NEW j \in 1..Len(stream), j > i + 1
          PROVE  stream[j].cid # c
      <3>1. j - 1 \in 1..Len(stream') /\ j - 1 > i /\ stream'[j - 1] = stream[j]
        BY <1>2, <1>3, <2>2
      <3> QED
        BY <1>4, <3>1 DEF IsLast
    <2> QED
      BY <2>1, <2>2 DEF IsLast
  <1>5. ASSUME NEW c \in Containers, ~Unread(c)'
        PROVE  \A i \in 1..Len(stream) : i = 1 \/ stream[i].cid # c
    BY <1>3, <1>5 DEF Unread
  <1>6. ASSUME NEW c \in Containers, ~Unread(c)'
        PROVE  IF c = Head(stream).cid
               THEN 1 \in 1..Len(stream) /\ IsLast(1, c) /\ stream[1] = Head(stream)
               ELSE ~Unread(c)
    <2>1. \A i \in 1..Len(stream) : i > 1 => stream[i].cid # c
      BY <1>2, <1>5, <1>6
    <2>2. CASE c = Head(stream).cid
      BY <1>2, <2>1, <2>2 DEF IsLast
    <2>3. CASE c # Head(stream).cid
      BY <1>2, <1>5, <1>6, <2>3 DEF Unread
    <2> QED
      BY <2>2, <2>3
  <1> QED
    BY <1>2, <1>4, <1>6

-----------------------------------------------------------------------------
(***************************************************************************)
(* The initial states.                                                     *)
(***************************************************************************)
LEMMA InitIInv == Init => IInv
  <1> SUFFICES ASSUME Init PROVE IInv
    OBVIOUS
  <1>1. TypeOK
    <2>1. closed \in BOOLEAN
      BY DEF Init
    <2>2. Nobody \in [Containers -> Specs \cup {NoSpec}]
      BY DEF Nobody
    <2> QED
      BY <2>1, <2>2 DEF Init, TypeOK
  <1>2. Quiet /\ LastWord
    BY DEF Init, Quiet, LastWord
  <1>3. Accurate
    BY DEF Init, Accurate, Agrees, Steady, Nobody
  <1> QED
    BY <1>1, <1>2, <1>3 DEF IInv

(***************************************************************************)
(* A step of Docker that sends an event.  What it does to its container is *)
(* on its way or missed; only an event that unregisters needs a reason.    *)
(***************************************************************************)
LEMMA DockerSends ==
  ASSUME IInv, NEW c \in Containers, NEW a \in Looking \cup Forgetting,
         Emit(c, a), UNCHANGED <<labels, watcherVars, registry, mainVars>>,
         docker' \in [Containers -> {"none", "created", "up", "down", "gone"}],
         signalled' \subseteq Containers,
         \A d \in Containers \ {c} : docker'[d] = docker[d] /\ (d \in signalled' <=> d \in signalled),
         a \in Forgetting => ~Steady(c)'
  PROVE  IInv'
  <1>1. TypeOK /\ Quiet /\ LastWord /\ Accurate
    BY DEF IInv
  <1>2. /\ stream' \in Seq(Event) /\ missed' \subseteq Containers /\ Quiet'
        /\ c \in missed' \/ Unread(c)'
        /\ \A i \in 1..Len(stream') : IsLast(i, c)' => stream'[i].action = a
        /\ \A d \in Containers \ {c} : d \notin missed' => d \notin missed
        /\ \A d \in Containers \ {c} : ~Unread(d)' => ~Unread(d)
        /\ \A d \in Containers \ {c} : \A i \in 1..Len(stream') :
             IsLast(i, d)' => /\ i \in 1..Len(stream) /\ IsLast(i, d)
                              /\ stream'[i] = stream[i]
    BY <1>1, Emitted DEF watcherVars
  <1>3. TypeOK'
    BY <1>1, <1>2 DEF TypeOK, watcherVars, mainVars, Event
  <1>4. \A d \in Containers \ {c} : Steady(d)' <=> Steady(d)
    BY DEF Steady
  <1>5. LastWord'
    <2> SUFFICES ASSUME NEW d \in Containers, NEW i \in 1..Len(stream'),
                        IsLast(i, d)', stream'[i].action \in Forgetting
                 PROVE  ~Steady(d)'
      BY DEF LastWord
    <2>1. CASE d = c
      BY <1>2, <2>1
    <2>2. CASE d # c
      BY <1>1, <1>2, <1>4, <2>2 DEF LastWord
    <2> QED
      BY <2>1, <2>2
  <1>6. Accurate'
    BY <1>1, <1>2, <1>4 DEF Accurate, Agrees, Exists
  <1> QED
    BY <1>2, <1>3, <1>5, <1>6 DEF IInv

LEMMA DockerStepKeeps ==
  ASSUME IInv, NEW c \in Containers,
         \/ Create(c) \/ Start(c) \/ Die(c) \/ Destroy(c) \/ Signal(c) \/ Update(c)
  PROVE  IInv'
  <1>1. TypeOK
    BY DEF IInv
  <1>2. CASE Create(c)
    BY <1>1, <1>2, DockerSends, "create" \in Looking DEF Create, Moves, TypeOK, Forgetting, Looking
  <1>3. CASE Start(c)
    BY <1>1, <1>3, DockerSends DEF Start, Moves, TypeOK, Forgetting, Looking
  <1>4. CASE Die(c)
    BY <1>1, <1>4, DockerSends DEF Die, Moves, TypeOK, Forgetting, Steady
  <1>5. CASE Destroy(c)
    BY <1>1, <1>5, DockerSends DEF Destroy, Moves, TypeOK, Forgetting, Steady
  <1>6. CASE Signal(c)
    BY <1>1, <1>6, DockerSends DEF Signal, TypeOK, Forgetting, Steady, dockerVars
  <1>7. CASE Update(c)
    BY <1>1, <1>7, DockerSends DEF Update, TypeOK, Forgetting, Looking, dockerVars
  <1> QED
    BY <1>2, <1>3, <1>4, <1>5, <1>6, <1>7

\* A name that changes unnoticed is counted as missed.
LEMMA RenameKeeps ==
  ASSUME IInv, NEW c \in Containers, NEW s \in Specs, Rename(c, s)
  PROVE  IInv'
  <1> USE DEF IInv
  <1>1. /\ labels' = [labels EXCEPT ![c] = s] /\ missed' = missed \cup {c}
        /\ UNCHANGED <<docker, watcherVars, stream, registry, mainVars, signalled>>
    BY DEF Rename
  <1>2. TypeOK'
    BY <1>1 DEF TypeOK, Labels, watcherVars, mainVars
  <1>3. Quiet' /\ LastWord'
    BY <1>1 DEF Quiet, LastWord, IsLast, Steady, watcherVars
  <1>4. Accurate'
    BY <1>1 DEF TypeOK, Accurate, Agrees, Unread, Steady, Exists
  <1> QED
    BY <1>2, <1>3, <1>4

-----------------------------------------------------------------------------
(***************************************************************************)
(* What an inspection leaves behind about its container, and elsewhere.    *)
(***************************************************************************)
LEMMA Inspected ==
  ASSUME TypeOK, NEW c \in Containers, Inspect(c), UNCHANGED dockerVars
  PROVE  /\ registry' \in [Containers -> Specs \cup {NoSpec}] /\ missed' \subseteq Containers
         /\ \A d \in Containers \ {c} : registry'[d] = registry[d]
         /\ \A d \in Containers \ {c} : d \notin missed' => d \notin missed
         /\ c \notin missed' => /\ Exists(c)
                                /\ labels[c] \in Specs => registry'[c] = labels[c]
  <1>1. CASE Exists(c) /\ registry' = Register(c) /\ missed' = missed \ {c}
    <2>1. labels[c] \in Specs \/ labels[c] = "off" \/ labels[c] = "invalid"
      BY DEF TypeOK, Labels
    <2>2. CASE labels[c] \in Specs
      <3>1. Register(c) = [registry EXCEPT ![c] = labels[c]]
        BY <2>2, DiscoveryAssumption DEF Register
      <3> QED
        BY <1>1, <2>2, <3>1 DEF TypeOK
    <2>3. CASE labels[c] = "off"
      <3>1. Register(c) = [registry EXCEPT ![c] = NoSpec] /\ labels[c] \notin Specs
        BY <2>3, DiscoveryAssumption DEF Register
      <3> QED
        BY <1>1, <3>1 DEF TypeOK
    <2>4. CASE labels[c] = "invalid"
      <3>1. Register(c) = registry /\ labels[c] \notin Specs
        BY <2>4, DiscoveryAssumption DEF Register
      <3> QED
        BY <1>1, <3>1 DEF TypeOK
    <2> QED
      BY <2>1, <2>2, <2>3, <2>4
  <1>2. CASE UNCHANGED registry /\ missed' = missed \cup {c}
    BY <1>2 DEF TypeOK
  <1> QED
    BY <1>1, <1>2 DEF Inspect

LEMMA ScanKeeps ==
  ASSUME IInv, NEW c \in Containers, ScanOne(c)
  PROVE  IInv'
  <1> USE DEF IInv
  <1>1. /\ watcher = "scan" /\ todo' = todo \ {c} /\ Inspect(c) /\ signalled' = signalled \ {c}
        /\ UNCHANGED <<docker, labels, watcher, closed, stream, mainVars>>
    BY DEF ScanOne, dockerVars
  <1>2. stream = <<>> /\ stream' = <<>>
    BY <1>1 DEF Quiet
  <1>3. /\ registry' \in [Containers -> Specs \cup {NoSpec}] /\ missed' \subseteq Containers
        /\ \A d \in Containers \ {c} : registry'[d] = registry[d]
        /\ \A d \in Containers \ {c} : d \notin missed' => d \notin missed
        /\ c \notin missed' => /\ Exists(c)
                               /\ labels[c] \in Specs => registry'[c] = labels[c]
    BY <1>1, Inspected DEF dockerVars
  <1>4. TypeOK'
    BY <1>1, <1>3 DEF TypeOK, mainVars
  <1>5. Quiet' /\ LastWord'
    BY <1>1, <1>2 DEF Quiet, LastWord
  <1>6. Accurate'
    <2> SUFFICES ASSUME NEW d \in Containers, d \notin missed' PROVE Agrees(d)'
      BY DEF Accurate
    <2>1. CASE d = c
      BY <1>1, <1>3, <2>1 DEF Agrees, Exists
    <2>2. CASE d # c
      <3>1. ~Unread(d)
        BY <1>2 DEF Unread
      <3> QED
        BY <1>1, <1>3, <2>2, <3>1 DEF Accurate, Agrees, Steady, Exists
    <2> QED
      BY <2>1, <2>2
  <1> QED
    BY <1>4, <1>5, <1>6

(***************************************************************************)
(* Handling an event: either the container was inspected now, or the event *)
(* unregisters it; then, if it was the last word, it is not running.       *)
(***************************************************************************)
LEMMA HandleKeeps ==
  ASSUME IInv, HandleEvent
  PROVE  IInv'
  <1> USE DEF IInv
  <1> DEFINE c == Head(stream).cid
  <1>1. /\ watcher = "listen" /\ stream # <<>> /\ stream' = Tail(stream)
        /\ UNCHANGED <<docker, labels, watcherVars, mainVars, signalled>>
    BY DEF HandleEvent, HandleWith, dockerVars
  <1>2. /\ stream' \in Seq(Event) /\ Head(stream) \in Event
        /\ \A i \in 1..Len(stream') :
             /\ i + 1 \in 1..Len(stream) /\ stream'[i] = stream[i + 1]
             /\ \A d \in Containers : IsLast(i, d)' => IsLast(i + 1, d)
        /\ \A d \in Containers : ~Unread(d)' =>
             IF d = c
             THEN 1 \in 1..Len(stream) /\ IsLast(1, d) /\ stream[1] = Head(stream)
             ELSE ~Unread(d)
    BY <1>1, Popped
  <1>3. c \in Containers /\ Head(stream).action \in Looking \cup Forgetting
    BY <1>2 DEF Event
  <1>4. \A d \in Containers : (Steady(d)' <=> Steady(d)) /\ (Exists(d)' <=> Exists(d))
    BY <1>1 DEF Steady, Exists
  <1>5. Quiet' /\ LastWord'
    BY <1>1, <1>2, <1>4 DEF Quiet, LastWord, watcherVars
  <1>6. CASE Inspect(c)
    <2>1. /\ registry' \in [Containers -> Specs \cup {NoSpec}] /\ missed' \subseteq Containers
          /\ \A d \in Containers \ {c} : registry'[d] = registry[d]
          /\ \A d \in Containers \ {c} : d \notin missed' => d \notin missed
          /\ c \notin missed' => /\ Exists(c)
                                 /\ labels[c] \in Specs => registry'[c] = labels[c]
      BY <1>1, <1>3, <1>6, Inspected DEF dockerVars
    <2>2. TypeOK'
      BY <1>1, <1>2, <2>1 DEF TypeOK, watcherVars, mainVars, Event
    <2>3. Accurate'
      BY <1>1, <1>2, <1>4, <2>1 DEF Accurate, Agrees
    <2> QED
      BY <1>5, <2>2, <2>3
  <1>7. CASE /\ Head(stream).action \in Forgetting
             /\ registry' = [registry EXCEPT ![c] = NoSpec] /\ missed' = missed \ {c}
    <2>1. TypeOK'
      BY <1>1, <1>2, <1>7 DEF TypeOK, watcherVars, mainVars, Event
    <2>2. Accurate'
      <3> SUFFICES ASSUME NEW d \in Containers, d \notin missed', ~Unread(d)' PROVE Agrees(d)'
        BY DEF Accurate
      <3>1. CASE d = c
        <4>1. ~Steady(c)
          BY <1>2, <1>3, <1>7, <3>1 DEF LastWord
        <4> QED
          BY <1>4, <1>7, <3>1, <4>1 DEF Agrees, TypeOK
      <3>2. CASE d # c
        BY <1>1, <1>2, <1>3, <1>4, <1>7, <3>2 DEF Accurate, Agrees, TypeOK
      <3> QED
        BY <3>1, <3>2
    <2> QED
      BY <1>5, <2>1, <2>2
  <1> QED
    BY <1>3, <1>6, <1>7 DEF HandleEvent, HandleWith

\* What was not read is counted as missed, whether the stream failed or was closed.
LEMMA BreakKeeps ==
  ASSUME IInv, Break \/ Close
  PROVE  IInv'
  <1> USE DEF IInv
  <1>1. /\ watcher' \in {"down", "ended"} /\ closed' \in BOOLEAN /\ stream' = <<>>
        /\ missed' = missed \cup {stream[i].cid : i \in 1..Len(stream)}
        /\ UNCHANGED <<docker, labels, todo, registry, mainVars, signalled>>
    BY DEF Break, Close, BreakTo, TypeOK, dockerVars
  <1>2. \A i \in 1..Len(stream) : stream[i].cid \in Containers
    <2>1. stream \in Seq(Event)
      BY DEF TypeOK, Event
    <2>2. \A i \in 1..Len(stream) : stream[i] \in Event
      BY <2>1
    <2> QED
      BY <2>2 DEF Event
  <1>3. TypeOK'
    BY <1>1, <1>2 DEF TypeOK, mainVars
  <1>4. Quiet' /\ LastWord'
    BY <1>1 DEF Quiet, LastWord
  <1>5. Accurate'
    BY <1>1 DEF Accurate, Agrees, Unread, Steady, Exists
  <1> QED
    BY <1>3, <1>4, <1>5

-----------------------------------------------------------------------------
(***************************************************************************)
(* Every step preserves the invariant.                                     *)
(***************************************************************************)
LEMMA NextPreservesIInv == IInv /\ [Next]_vars => IInv'
  <1> SUFFICES ASSUME IInv, [Next]_vars PROVE IInv'
    OBVIOUS
  <1> USE DEF IInv
  <1>1. ASSUME UNCHANGED <<docker, labels, stream, registry, missed, signalled>>,
               TypeOK', Quiet'
        PROVE  IInv'
    BY <1>1 DEF LastWord, Accurate, Agrees, Unread, IsLast, Steady, Exists
  <1>2. CASE DockerStep
    BY <1>2, DockerStepKeeps, RenameKeeps DEF DockerStep
  <1>3. CASE Connect
    <2>1. TypeOK' /\ Quiet'
      BY <1>3 DEF Connect, ConnectFor, TypeOK, Quiet, dockerVars, mainVars
    <2> QED
      BY <1>1, <1>3, <2>1 DEF Connect, ConnectFor, dockerVars
  <1>4. CASE Subscribe
    <2>1. TypeOK' /\ Quiet'
      BY <1>4 DEF Subscribe, TypeOK, Quiet, dockerVars, mainVars
    <2> QED
      BY <1>1, <1>4, <2>1 DEF Subscribe, dockerVars
  <1>5. CASE (\E c \in Containers : ScanOne(c)) \/ HandleEvent
    BY <1>5, ScanKeeps, HandleKeeps
  <1>6. CASE Break \/ Close
    BY <1>6, BreakKeeps
  <1>7. CASE Tick
    <2>1. TypeOK' /\ Quiet'
      BY <1>7 DEF Tick, CopyRegistry, Registered, TypeOK, Quiet, dockerVars, watcherVars
    <2> QED
      BY <1>1, <1>7, <2>1 DEF Tick, CopyRegistry, dockerVars
  <1>8. CASE MainStep
    <2> SUFFICES ASSUME NEW c \in Containers, Schedule(c) PROVE IInv'
      BY <1>8 DEF MainStep
    <2>1. TypeOK' /\ Quiet'
      BY DEF Schedule, TypeOK, Quiet, dockerVars, watcherVars
    <2> QED
      BY <1>1, <2>1 DEF Schedule, dockerVars
  <1>9. CASE Reload
    <2>1. TypeOK' /\ Quiet'
      BY <1>9 DEF Reload, Nobody, TypeOK, Quiet, dockerVars, watcherVars
    <2> QED
      BY <1>1, <1>9, <2>1 DEF Reload, dockerVars
  <1>10. CASE UNCHANGED vars
    <2>1. TypeOK' /\ Quiet'
      BY <1>10 DEF vars, TypeOK, Quiet, dockerVars, watcherVars, mainVars
    <2> QED
      BY <1>1, <1>10, <2>1 DEF vars, dockerVars
  <1> QED
    BY <1>2, <1>3, <1>4, <1>5, <1>6, <1>7, <1>8, <1>9, <1>10 DEF Next, WatcherStep

LEMMA Invariance == Spec => []IInv
  BY InitIInv, NextPreservesIInv, PTL DEF Spec

(***************************************************************************)
(* The variables of the watcher, of main's loop and of the table of jobs   *)
(* keep to their ranges: main only adds what was registered when it looked. *)
(***************************************************************************)
THEOREM TypeCorrect == Spec => []TypeOK
  <1>1. IInv => TypeOK
    BY DEF IInv
  <1> QED
    BY <1>1, Invariance, PTL

(***************************************************************************)
(* Once all there is to read was read, a running container of which        *)
(* nothing was missed is registered with its present labels, and one that  *)
(* is gone is not: whatever the order in which parseAndRegister and        *)
(* handleEvent learned of it.                                              *)
(***************************************************************************)
THEOREM RegistryCorrect == Spec => []RegistryIsAccurate
  <1>1. IInv => RegistryIsAccurate
    BY DEF IInv, RegistryIsAccurate, CaughtUp, Accurate, Agrees, Unread, Steady
  <1> QED
    BY <1>1, Invariance, PTL

-----------------------------------------------------------------------------
(* The loop of main over its copy of the registry.                         *)

\* What the table holds for a specification: nothing, if cron refuses its expression.
Accepted(s) == IF s \in Refused THEN NoSpec ELSE s

\* Whether cron refuses a container's expression is settled by its labels for good.
AsLabelled(f) ==
    \A c \in Containers : f[c] # NoSpec =>
        labels[c] \in Specs /\ (f[c] \in Refused <=> labels[c] \in Refused)

\* What of the copy main has been through is in the table, as it was copied.
Scheduled ==
    pending # {} =>
        \A c \in Containers :
            snapshot[c] # NoSpec /\ c \notin pending => jobs[c] = Accepted(snapshot[c])

LoopInv ==
    /\ TypeOK /\ Scheduled
    /\ AsLabelled(registry) /\ AsLabelled(snapshot) /\ AsLabelled(jobs)
    /\ \A c \in Containers : jobs[c] \notin Refused

(***************************************************************************)
(* A name that changes leaves the expression alone.                        *)
(***************************************************************************)
LEMMA LabelsKeep ==
  ASSUME TypeOK, Next, NEW c \in Containers, labels[c] \in Specs
  PROVE  labels'[c] \in Specs /\ (labels'[c] \in Refused <=> labels[c] \in Refused)
  <1>1. CASE UNCHANGED labels
    BY <1>1
  <1>2. CASE \E d \in Containers : \E s \in Specs : Rename(d, s)
    BY <1>2 DEF Rename, TypeOK
  <1>3. (Connect \/ WatcherStep \/ Break \/ Close \/ Tick \/ MainStep \/ Reload)
            => UNCHANGED labels
    BY DEF Connect, ConnectFor, WatcherStep, ScanOne, Subscribe, HandleEvent, HandleWith, Break,
           Close, BreakTo, Tick, CopyRegistry, MainStep, Schedule, Reload, dockerVars
  <1>4. DockerStep => UNCHANGED labels \/ \E d \in Containers : \E s \in Specs : Rename(d, s)
    BY DEF DockerStep, Create, Start, Die, Destroy, Moves, Signal, Update, dockerVars
  <1> QED
    BY <1>1, <1>2, <1>3, <1>4 DEF Next

(***************************************************************************)
(* An entry of the registry is an old one, or was just made of the labels. *)
(***************************************************************************)
LEMMA RegistryKeeps ==
  ASSUME TypeOK, Next, NEW c \in Containers
  PROVE  \/ registry'[c] = registry[c] \/ registry'[c] = NoSpec
         \/ labels[c] \in Specs /\ labels' = labels /\ registry'[c] = labels[c]
  <1>1. ASSUME NEW d \in Containers, Inspect(d)
        PROVE  \/ registry'[c] = registry[c] \/ registry'[c] = NoSpec
               \/ labels[c] \in Specs /\ registry'[c] = labels[c]
    <2>1. CASE UNCHANGED registry
      BY <2>1
    <2>2. CASE registry' = Register(d)
      <3>1. labels[d] \in Specs \/ labels[d] = "off" \/ labels[d] = "invalid"
        BY DEF TypeOK, Labels
      <3>2. CASE labels[d] \in Specs
        <4>1. Register(d) = [registry EXCEPT ![d] = labels[d]]
          BY <3>2, DiscoveryAssumption DEF Register
        <4> QED
          BY <2>2, <3>2, <4>1 DEF TypeOK
      <3>3. CASE labels[d] = "off"
        <4>1. Register(d) = [registry EXCEPT ![d] = NoSpec]
          BY <3>3, DiscoveryAssumption DEF Register
        <4> QED
          BY <2>2, <4>1 DEF TypeOK
      <3>4. CASE labels[d] = "invalid"
        <4>1. Register(d) = registry
          BY <3>4, DiscoveryAssumption DEF Register
        <4> QED
          BY <2>2, <4>1
      <3> QED
        BY <3>1, <3>2, <3>3, <3>4
    <2> QED
      BY <1>1, <2>1, <2>2 DEF Inspect
  <1>2. CASE \E d \in Containers : ScanOne(d)
    BY <1>1, <1>2 DEF ScanOne, dockerVars
  <1>3. CASE HandleEvent
    <2>1. Head(stream) \in Event
      BY <1>3, Popped DEF HandleEvent, HandleWith
    <2>2. Head(stream).cid \in Containers
      BY <2>1 DEF Event
    <2> QED
      BY <1>1, <1>3, <2>2 DEF HandleEvent, HandleWith, TypeOK, dockerVars
  <1>4. DockerStep => UNCHANGED registry
    BY DEF DockerStep, Create, Start, Die, Destroy, Moves, Signal, Update, Rename
  <1>5. Connect \/ Subscribe \/ Break \/ Close \/ Tick \/ MainStep \/ Reload => UNCHANGED registry
    BY DEF Connect, ConnectFor, Subscribe, Break, Close, BreakTo, Tick, CopyRegistry,
           MainStep, Schedule, Reload
  <1> QED
    BY <1>2, <1>3, <1>4, <1>5 DEF Next, WatcherStep

(***************************************************************************)
(* A tick starts with all of its copy to add, a reload waits for the end   *)
(* of the loop, and no other step touches the copy or the table.           *)
(***************************************************************************)
LEMMA NextPreservesLoopInv == LoopInv /\ TypeOK' /\ [Next]_vars => LoopInv'
  <1> SUFFICES ASSUME LoopInv, TypeOK', [Next]_vars PROVE LoopInv'
    OBVIOUS
  <1>1. TypeOK /\ Scheduled /\ AsLabelled(registry) /\ AsLabelled(snapshot) /\ AsLabelled(jobs)
        /\ \A c \in Containers : jobs[c] \notin Refused
    BY DEF LoopInv
  <1>2. NoSpec \notin Refused
    BY DiscoveryAssumption
  <1>3. CASE UNCHANGED vars
    BY <1>1, <1>3 DEF vars, dockerVars, mainVars, LoopInv, Scheduled, AsLabelled
  <1>4. CASE Next
    <2>1. ASSUME NEW c \in Containers, labels[c] \in Specs
          PROVE  labels'[c] \in Specs /\ (labels'[c] \in Refused <=> labels[c] \in Refused)
      BY <1>1, <1>4, <2>1, LabelsKeep
    <2>2. AsLabelled(registry)'
      BY <1>1, <1>4, <2>1, RegistryKeeps DEF AsLabelled
    <2>3. CASE UNCHANGED mainVars
      BY <1>1, <2>1, <2>2, <2>3 DEF mainVars, LoopInv, Scheduled, AsLabelled
    <2>4. CASE Tick
      BY <1>1, <2>1, <2>2, <2>4
         DEF Tick, CopyRegistry, Registered, LoopInv, Scheduled, AsLabelled
    <2>5. CASE MainStep
      <3> PICK d \in Containers : Schedule(d)
        BY <2>5 DEF MainStep
      <3>1. /\ d \in pending /\ pending' = pending \ {d} /\ UNCHANGED snapshot
            /\ jobs' = IF snapshot[d] \in Refused THEN jobs ELSE [jobs EXCEPT ![d] = snapshot[d]]
        BY DEF Schedule
      <3>2. snapshot[d] # NoSpec
        BY <1>1, <3>1 DEF TypeOK
      <3>3. \A c \in Containers : jobs'[c] = IF c = d /\ snapshot[d] \notin Refused
                                             THEN snapshot[d] ELSE jobs[c]
        BY <1>1, <3>1 DEF TypeOK
      <3>4. snapshot[d] \in Refused => jobs[d] = NoSpec
        BY <1>1, <3>2 DEF AsLabelled, TypeOK
      <3>5. Scheduled'
        BY <1>1, <3>1, <3>3, <3>4 DEF Scheduled, Accepted
      <3>6. AsLabelled(snapshot)' /\ AsLabelled(jobs)'
        BY <1>1, <2>1, <3>1, <3>3 DEF AsLabelled
      <3>7. \A c \in Containers : jobs'[c] \notin Refused
        BY <1>1, <3>3
      <3> QED
        BY <2>2, <3>5, <3>6, <3>7 DEF LoopInv
    <2>6. CASE Reload
      <3>1. pending' = {} /\ UNCHANGED snapshot /\ \A c \in Containers : jobs'[c] = NoSpec
        BY <2>6 DEF Reload, Nobody
      <3> QED
        BY <1>1, <1>2, <2>1, <2>2, <3>1 DEF LoopInv, Scheduled, AsLabelled
    <2>7. DockerStep => UNCHANGED mainVars
      BY DEF DockerStep, Create, Start, Die, Destroy, Moves, Signal, Update, Rename
    <2>8. Connect \/ WatcherStep \/ Break \/ Close => UNCHANGED mainVars
      BY DEF Connect, ConnectFor, WatcherStep, ScanOne, Subscribe, HandleEvent, HandleWith,
             Break, Close, BreakTo
    <2> QED
      BY <1>4, <2>3, <2>4, <2>5, <2>6, <2>7, <2>8 DEF Next
  <1> QED
    BY <1>3, <1>4

(***************************************************************************)
(* The safety part of RegisteredGetsScheduled, for any number of           *)
(* containers, and what keeps the table in step with the registry: when    *)
(* main's loop is over, everything that was in the registry when it was    *)
(* copied, and whose expression cron accepts, is in the table with the     *)
(* specification of that moment, and what cron refuses is not there at     *)
(* all.  It does not matter what the watcher has registered, changed or    *)
(* forgotten meanwhile, nor where in the loop a refusal came; and no       *)
(* reload came in between.                                                 *)
(***************************************************************************)
THEOREM LoopCoversCopy ==
    Spec => [][pending # {} /\ pending' = {} =>
                   \A c \in Containers : snapshot[c] # NoSpec =>
                       /\ jobs'[c] = IF snapshot[c] \in Refused THEN NoSpec ELSE snapshot[c]
                       /\ snapshot'[c] = snapshot[c]]_vars
  <1>1. Init => LoopInv
    <2> SUFFICES ASSUME Init PROVE LoopInv
      OBVIOUS
    <2>1. TypeOK
      BY InitIInv DEF IInv
    <2> QED
      BY <2>1, DiscoveryAssumption DEF Init, LoopInv, Scheduled, AsLabelled, Nobody
  <1>2. Spec => []LoopInv
    BY <1>1, NextPreservesLoopInv, TypeCorrect, PTL DEF Spec
  <1>3. ASSUME LoopInv, LoopInv', Next, pending # {}, pending' = {},
               NEW c \in Containers, snapshot[c] # NoSpec
        PROVE  /\ jobs'[c] = IF snapshot[c] \in Refused THEN NoSpec ELSE snapshot[c]
               /\ snapshot'[c] = snapshot[c]
    <2>1. MainStep
      <3>1. ~Tick /\ ~Reload
        BY <1>3 DEF Tick, CopyRegistry, Reload
      <3>2. ~DockerStep
        BY <1>3 DEF DockerStep, Create, Start, Die, Destroy, Moves, Signal, Update,
                    Rename, mainVars
      <3>3. ~Connect /\ ~WatcherStep /\ ~Break /\ ~Close
        BY <1>3 DEF Connect, ConnectFor, WatcherStep, ScanOne, Subscribe, HandleEvent,
                    HandleWith, Break, Close, BreakTo, mainVars
      <3> QED
        BY <1>3, <3>1, <3>2, <3>3 DEF Next
    <2>2. PICK d \in Containers : Schedule(d)
      BY <2>1 DEF MainStep
    <2>3. /\ d \in pending /\ pending' = pending \ {d} /\ UNCHANGED snapshot
          /\ jobs' = IF snapshot[d] \in Refused THEN jobs ELSE [jobs EXCEPT ![d] = snapshot[d]]
      BY <2>2 DEF Schedule
    <2>4. c \in pending => c = d
      BY <1>3, <2>3
    <2>5. CASE c # d
      BY <1>3, <2>3, <2>4, <2>5 DEF LoopInv, Scheduled, Accepted, TypeOK
    <2>6. CASE c = d /\ snapshot[c] \notin Refused
      BY <1>3, <2>3, <2>6 DEF LoopInv, TypeOK
    <2>7. CASE c = d /\ snapshot[c] \in Refused
      <3>1. jobs'[c] = jobs[c]
        BY <2>3, <2>7
      <3>2. jobs[c] = NoSpec
        BY <1>3, <2>7 DEF LoopInv, AsLabelled, TypeOK
      <3> QED
        BY <2>3, <2>7, <3>1, <3>2
    <2> QED
      BY <2>5, <2>6, <2>7
  <1>4. LoopInv /\ LoopInv' /\ [Next]_vars =>
            [pending # {} /\ pending' = {} =>
                \A c \in Containers : snapshot[c] # NoSpec =>
                    /\ jobs'[c] = IF snapshot[c] \in Refused THEN NoSpec ELSE snapshot[c]
                    /\ snapshot'[c] = snapshot[c]]_vars
    BY <1>3
  <1> QED
    BY <1>2, <1>4, PTL DEF Spec

=============================================================================
