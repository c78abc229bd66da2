--------------------------- MODULE RetentionProofs ---------------------------
(***************************************************************************)
(* Proofs about Retention for every set of containers, prefixes, labels    *)
(* and schedules, every retention, time limit and size of the disk: what   *)
(* the collection spares, and that a reported backup is there.             *)
(***************************************************************************)
EXTENDS Retention, TLAPS

\* A backup that is under way began at a time that was, and is within its timeout.
WrittenInTime ==
    \A c \in Containers :
        Writing(c) => backup[c].since \in 0..now /\ now <= backup[c].since + Timeout

\* No object was modified before the time in its name.
Dated == \A o \in store \cup batch : o.stamp <= o.mtime

\* A store has one object under a key.
Single(objects) == \A o, p \in objects : Key(o) = Key(p) => o = p

\* An object is where its container puts objects, from a backup that began; metadata
\* are those of a backup that is over.
Owned ==
    \A o \in store : /\ o.at = Place(o.by)
                     /\ o.stamp <= backup[o.by].since
                     /\ o.meta /\ Writing(o.by) => o.stamp < backup[o.by].since

\* The collection is at a container that has a retention, and has what that lists.
Visiting ==
    /\ phase \in {"list", "cut", "delete"} => cur \in Containers /\ Effective(cur) > 0
    /\ phase \in {"cut", "delete"} => \A o \in batch : Lists(cur, o)

\* What was listed is as it was listed, or is of a backup that could write then; and
\* the listing is not old.
Listed ==
    phase = "cut" =>
        /\ listed <= now /\ now <= listed + ListLimit
        /\ \A o \in batch, p \in store :
              Key(p) = Key(o) => p = o \/ listed <= o.stamp + Timeout

\* What is to be deleted was due when listed, and what has its key now is due.
Doomed ==
    phase = "delete" =>
        \A o \in batch : /\ Collects(cur) /\ Due(cur, o)
                         /\ \A p \in store : Key(p) = Key(o) => Due(cur, p) \/ Brief(cur)

\* A local file that is being written is there under its name.
Present ==
    \A c \in Containers :
        Writing(c) /\ Local(c) => (\E o \in store : Key(o) = Name(c) /\ o.by = c) \/ Excused(c)

IInv == TypeOK /\ WrittenInTime /\ Dated /\ Single(store) /\ Owned
            /\ Visiting /\ Listed /\ Doomed /\ Present

-----------------------------------------------------------------------------
(* What the definitions say of typed states.                               *)

LEMMA Labelled ==
  ASSUME TypeOK, NEW c \in Containers
  PROVE  /\ spec \in [Containers -> Specs] /\ conf \in [retention: Int, dryRun: BOOLEAN]
         /\ Place(c) \in Places /\ Effective(c) \in Int
         /\ backup[c].writing \in BOOLEAN /\ backup[c].since \in -1..Horizon
  <1>1. spec \in [Containers -> Specs] /\ conf \in [retention: Int, dryRun: BOOLEAN]
    BY RetentionAssumption DEF TypeOK
  <1>2. spec[c] \in Specs
    BY <1>1
  <1>3. Place(c) \in Places
    BY <1>2, RetentionAssumption DEF Place, Places, Specs
  <1>4. Effective(c) \in Int
    BY <1>1, <1>2 DEF Effective, Specs
  <1> QED
    BY <1>1, <1>3, <1>4 DEF TypeOK

LEMMA SameKey ==
  ASSUME NEW o, NEW p
  PROVE  Key(o) = Key(p) <=> o.at = p.at /\ o.stamp = p.stamp /\ o.meta = p.meta
  BY DEF Key

\* The names of a backup's objects.
LEMMA Names ==
  ASSUME TypeOK, NEW c \in Containers, NEW t \in Times
  PROVE  /\ ObjectName(c, t) \in Keys /\ MetadataName(ObjectName(c, t)) \in Keys
         /\ \A o \in Objects : Key(o) = ObjectName(c, t) <=>
                    o.at = Place(c) /\ o.stamp = t /\ ~o.meta
         /\ \A o \in Objects : Key(o) = MetadataName(ObjectName(c, t)) <=>
                    o.at = Place(c) /\ o.stamp = t /\ o.meta
  <1>1. ObjectName(c, t) = [at |-> Place(c), stamp |-> t, meta |-> FALSE]
    BY DEF ObjectName
  <1>2. MetadataName(ObjectName(c, t)) = [at |-> Place(c), stamp |-> t, meta |-> TRUE]
    BY <1>1 DEF MetadataName
  <1>3. Place(c) \in Places
    BY Labelled
  <1>4. ObjectName(c, t) \in Keys
    BY <1>1, <1>3 DEF Keys
  <1>5. MetadataName(ObjectName(c, t)) \in Keys
    BY <1>2, <1>3 DEF Keys
  <1>6. ASSUME NEW o \in Objects
        PROVE  /\ Key(o) = ObjectName(c, t) <=> o.at = Place(c) /\ o.stamp = t /\ ~o.meta
               /\ Key(o) = MetadataName(ObjectName(c, t)) <=>
                     o.at = Place(c) /\ o.stamp = t /\ o.meta
    <2>1. Key(o) = [at |-> o.at, stamp |-> o.stamp, meta |-> o.meta] /\ o.meta \in BOOLEAN
      BY DEF Key, Objects
    <2>2. ASSUME Key(o) = ObjectName(c, t)
          PROVE  o.at = Place(c) /\ o.stamp = t /\ ~o.meta
      BY <2>1, <1>1, <2>2
    <2>3. ASSUME Key(o) = MetadataName(ObjectName(c, t))
          PROVE  o.at = Place(c) /\ o.stamp = t /\ o.meta
      BY <2>1, <1>2, <2>3
    <2>4. ASSUME o.at = Place(c), o.stamp = t, ~o.meta
          PROVE  Key(o) = ObjectName(c, t)
      <3>1. o.meta = FALSE
        BY <2>1, <2>4
      <3> QED
        BY <2>1, <1>1, <2>4, <3>1
    <2>5. ASSUME o.at = Place(c), o.stamp = t, o.meta
          PROVE  Key(o) = MetadataName(ObjectName(c, t))
      <3>1. o.meta = TRUE
        BY <2>1, <2>5
      <3> QED
        BY <2>1, <1>2, <2>5, <3>1
    <2> QED
      BY <2>2, <2>3, <2>4, <2>5
  <1> QED
    BY <1>4, <1>5, <1>6

\* What Put makes of a set of objects.
LEMMA PutFacts ==
  ASSUME NEW k \in Keys, NEW c \in Containers, NEW t \in Times, NEW objects \in SUBSET Objects
  PROVE  /\ \A p \in Put(k, c, t, objects) :
                p \in objects \/ (p \in Objects /\ Key(p) = k /\ p.by = c /\ p.mtime = t)
         /\ \A o \in objects : o \in Put(k, c, t, objects) \/ Key(o) = k
         /\ \E p \in Put(k, c, t, objects) : Key(p) = k /\ p.by = c
         /\ Single(objects) => Single(Put(k, c, t, objects))
  <1> DEFINE new == [at |-> k.at, stamp |-> k.stamp, meta |-> k.meta, mtime |-> t, by |-> c]
  <1>1. new \in Objects /\ Key(new) = k /\ new.by = c /\ new.mtime = t
    BY DEF Objects, Keys, Key
  <1>2. Put(k, c, t, objects) = (objects \ At(k, objects)) \cup {new}
    BY DEF Put
  <1>3. At(k, objects) = {o \in objects : Key(o) = k}
    BY DEF At
  <1> HIDE DEF new
  <1>4. ASSUME NEW p \in Put(k, c, t, objects)
        PROVE  p \in objects \/ (p \in Objects /\ Key(p) = k /\ p.by = c /\ p.mtime = t)
    <2>1. p \in objects \/ p = new
      BY <1>2
    <2> QED
      BY <1>1, <2>1
  <1>5. \A o \in objects : o \in Put(k, c, t, objects) \/ Key(o) = k
    BY <1>2, <1>3
  <1>6. new \in Put(k, c, t, objects)
    BY <1>2
  <1>7. ASSUME Single(objects), NEW p \in Put(k, c, t, objects), NEW q \in Put(k, c, t, objects),
               Key(p) = Key(q)
        PROVE  p = q
    BY <1>1, <1>2, <1>3, <1>7 DEF Single
  <1> QED
    BY <1>1, <1>4, <1>5, <1>6, <1>7 DEF Single

-----------------------------------------------------------------------------
(* What a step of a backup does to the store.                              *)

\* An object that a step of c's backup wrote: its own, or one of its name that
\* was there and is modified.
Fresh(p, c) ==
    /\ p \in Objects /\ p.at = Place(c) /\ p.stamp = backup'[c].since
    /\ p.stamp <= p.mtime /\ now <= p.stamp + Timeout
    /\ \/ p.by = c /\ (p.meta => ~backup'[c].writing)
       \/ \E o \in store : Key(o) = Key(p) /\ o.by = p.by /\ backup' = backup

\* The objects under the names of c's backup; what else is stored stays as it is.
Touched(o, c) ==
    /\ o.at = Place(c) /\ o.stamp = backup'[c].since
    /\ o.meta => backup[c].writing

\* The backups of the others go on, and time does.
Bystanders(c) ==
    /\ backup' \in [Containers -> [writing: BOOLEAN, since: -1..Horizon]]
    /\ \A d \in Containers : d # c => backup'[d] = backup[d]
    /\ backup[c].since <= backup'[c].since
    /\ backup'[c].writing => backup'[c].since \in 0..now /\ now <= backup'[c].since + Timeout
    /\ \/ backup[c].writing /\ backup'[c].since = backup[c].since
       \/ ~backup[c].writing /\ backup[c].since < now /\ backup'[c].since = now
                           /\ backup'[c].writing
    /\ UNCHANGED <<now, spec, conf, gcVars, calm>>

StoreStep(c) ==
    /\ Bystanders(c) /\ Single(store')
    /\ \A p \in store' : p \in store \/ Fresh(p, c)
    /\ \A o \in store : o \in store' \/ Touched(o, c)
    /\ backup'[c].writing /\ Local(c) =>
          \/ ~backup[c].writing /\ \E p \in store' : Key(p) = ObjectName(c, backup'[c].since) /\ p.by = c
          \/ backup[c].writing /\ \A o \in store : \E p \in store' : Key(p) = Key(o) /\ p.by = o.by

LEMMA BeginStep ==
  ASSUME IInv, NEW c \in Containers, Begin(c)
  PROVE  StoreStep(c)
  <1> USE DEF IInv
  <1>1. /\ backup[c].writing = FALSE /\ backup[c].since < now /\ now \in Times
        /\ backup[c].since \in -1..Horizon /\ store \in SUBSET Objects /\ Timeout \in Nat
    BY Labelled, RetentionAssumption DEF Begin, Writing, TypeOK
  <1>2. backup' = [backup EXCEPT ![c] = [writing |-> TRUE, since |-> now]]
    BY DEF Begin
  <1>3. /\ backup'[c] = [writing |-> TRUE, since |-> now]
        /\ backup' \in [Containers -> [writing: BOOLEAN, since: -1..Horizon]]
        /\ \A d \in Containers : d # c => backup'[d] = backup[d]
    BY <1>1, <1>2 DEF TypeOK, Times
  <1>4. Bystanders(c)
    <2>1. UNCHANGED <<now, spec, conf, gcVars, calm>>
      BY DEF Begin
    <2>2. backup'[c].writing = TRUE /\ backup'[c].since = now
      BY <1>3
    <2>3. now \in 0..now /\ now <= now + Timeout /\ backup[c].since <= now
      BY <1>1 DEF Times
    <2> QED
      BY <1>1, <1>3, <2>1, <2>2, <2>3 DEF Bystanders
  <1>5. CASE ~Local(c)
    BY <1>4, <1>5 DEF StoreStep, Begin
  <1>6. CASE Local(c)
    <2> DEFINE k == ObjectName(c, now)
    <2>1. k \in Keys /\ k.at = Place(c) /\ k.stamp = now /\ k.meta = FALSE
      BY <1>1, Labelled DEF ObjectName, Keys, Times
    <2>2. store' = Put(k, c, now, store)
      BY <1>6 DEF Begin
    <2> HIDE DEF k
    <2>3. /\ \A p \in store' : p \in store \/ (p \in Objects /\ Key(p) = k /\ p.by = c /\ p.mtime = now)
          /\ \A o \in store : o \in store' \/ Key(o) = k
          /\ \E p \in store' : Key(p) = k /\ p.by = c
          /\ Single(store')
      BY <2>1, <2>2, <1>1, PutFacts
    <2>4. \A p \in store' : p \in store \/ Fresh(p, c)
      <3> SUFFICES ASSUME NEW p \in store', p \notin store
                   PROVE  Fresh(p, c)
        OBVIOUS
      <3>1. p \in Objects /\ Key(p) = k /\ p.by = c /\ p.mtime = now
        BY <2>3
      <3>2. p.at = Place(c) /\ p.stamp = now /\ p.meta = FALSE
        BY <3>1, <2>1 DEF Key
      <3>3. now <= now + Timeout /\ now <= now
        BY <1>1 DEF Times
      <3> QED
        BY <3>1, <3>2, <3>3, <1>3 DEF Fresh
    <2>5. \A o \in store : o \in store' \/ Touched(o, c)
      <3> SUFFICES ASSUME NEW o \in store, o \notin store'
                   PROVE  Touched(o, c)
        OBVIOUS
      <3>1. o.at = Place(c) /\ o.stamp = now /\ o.meta = FALSE
        BY <2>3, <2>1 DEF Key
      <3> QED
        BY <3>1, <1>3 DEF Touched
    <2> QED
      BY <1>1, <1>3, <1>4, <2>3, <2>4, <2>5 DEF StoreStep, k
  <1> QED
    BY <1>5, <1>6

\* What is known of a backup that is under way.
LEMMA UnderWay ==
  ASSUME IInv, NEW c \in Containers, Writing(c)
  PROVE  /\ backup[c].writing = TRUE /\ backup[c].since \in Times /\ now \in Times
         /\ backup[c].since \in Nat /\ now \in Nat
         /\ backup[c].since <= now /\ now <= backup[c].since + Timeout
         /\ Timeout \in Nat /\ store \in SUBSET Objects
         /\ backup \in [Containers -> [writing: BOOLEAN, since: -1..Horizon]]
  <1>1. backup[c].writing = TRUE /\ backup[c].since \in -1..Horizon /\ now \in Times
    BY Labelled DEF IInv, TypeOK, Writing
  <1>2. backup[c].since \in 0..now /\ now <= backup[c].since + Timeout
    BY DEF IInv, WrittenInTime
  <1> QED
    BY <1>1, <1>2, RetentionAssumption DEF Times, IInv, TypeOK

LEMMA OwnNames ==
  ASSUME IInv, NEW c \in Containers, Writing(c)
  PROVE  /\ Name(c) \in Keys /\ MetadataName(Name(c)) \in Keys
         /\ \A o \in Objects : Key(o) = Name(c) <=>
                o.at = Place(c) /\ o.stamp = backup[c].since /\ ~o.meta
         /\ \A o \in Objects : Key(o) = MetadataName(Name(c)) <=>
                o.at = Place(c) /\ o.stamp = backup[c].since /\ o.meta
  <1>1. TypeOK
    BY DEF IInv
  <1>2. backup[c].since \in Times
    BY UnderWay
  <1> QED
    BY <1>1, <1>2, Names DEF Name

\* The end of a backup leaves the others and the clock alone.
LEMMA SettledStep ==
  ASSUME IInv, NEW c \in Containers, Writing(c), Settled(c),
         UNCHANGED <<now, spec, conf, gcVars, calm>>
  PROVE  /\ Bystanders(c)
         /\ backup'[c].since = backup[c].since /\ backup'[c].writing = FALSE
  <1>1. backup' = [backup EXCEPT ![c].writing = FALSE]
    BY DEF Settled
  <1>2. /\ backup'[c].since = backup[c].since /\ backup'[c].writing = FALSE
        /\ backup' \in [Containers -> [writing: BOOLEAN, since: -1..Horizon]]
        /\ \A d \in Containers : d # c => backup'[d] = backup[d]
    BY <1>1, UnderWay
  <1>3. backup[c].since \in Nat /\ backup[c].writing = TRUE
    BY UnderWay
  <1>4. backup[c].since <= backup'[c].since
    BY <1>2, <1>3
  <1> QED
    BY <1>2, <1>3, <1>4 DEF Bystanders

LEMMA AppendStep ==
  ASSUME IInv, NEW c \in Containers, Append(c)
  PROVE  StoreStep(c)
  <1> DEFINE New(o) == IF Key(o) = Name(c) THEN [o EXCEPT !.mtime = now] ELSE o
  <1>1. Writing(c) /\ backup' = backup /\ UNCHANGED <<now, spec, conf, gcVars, calm>>
    BY DEF Append
  <1>2. Bystanders(c)
    <2>1. /\ backup[c].since \in Nat /\ now \in Nat /\ backup[c].writing = TRUE
          /\ backup[c].since <= now /\ now <= backup[c].since + Timeout
          /\ backup \in [Containers -> [writing: BOOLEAN, since: -1..Horizon]]
      BY <1>1, UnderWay
    <2>2. backup[c].since <= backup[c].since /\ backup[c].since \in 0..now
      BY <2>1
    <2> QED
      BY <1>1, <2>1, <2>2 DEF Bystanders
  <1>3. store' = {New(o) : o \in store}
    BY DEF Append
  <1>4. ASSUME NEW o \in store, Key(o) = Name(c)
        PROVE  Fresh(New(o), c) /\ Key(New(o)) = Key(o) /\ New(o).by = o.by
    <2>1. o \in Objects /\ now \in Times /\ backup[c].since \in Times
      BY <1>1, UnderWay
    <2>2. New(o) = [o EXCEPT !.mtime = now]
      BY <1>4
    <2>3. /\ New(o) \in Objects /\ New(o).mtime = now /\ New(o).by = o.by
          /\ New(o).at = o.at /\ New(o).stamp = o.stamp /\ New(o).meta = o.meta
      BY <2>1, <2>2 DEF Objects
    <2>4. Key(New(o)) = Key(o)
      BY <2>3 DEF Key
    <2>5. o.at = Place(c) /\ o.stamp = backup[c].since
      BY <1>4, <1>1, <2>1, OwnNames
    <2>6. backup[c].since <= now /\ now <= backup[c].since + Timeout
      BY <1>1, UnderWay
    <2> HIDE DEF New
    <2> QED
      BY <1>1, <2>3, <2>4, <2>5, <2>6 DEF Fresh
  <1>5. ASSUME NEW o \in store, Key(o) # Name(c)
        PROVE  New(o) = o
    BY <1>5
  <1>6. ASSUME NEW o \in store, Key(o) = Name(c)
        PROVE  Touched(o, c)
    <2>1. o.at = Place(c) /\ o.stamp = backup[c].since
      BY <1>6, <1>1, UnderWay, OwnNames
    <2> QED
      BY <2>1, <1>1, UnderWay DEF Touched
  <1> HIDE DEF New
  <1>7. \A p \in store' : p \in store \/ Fresh(p, c)
    BY <1>3, <1>4, <1>5
  <1>8. \A o \in store : o \in store' \/ Touched(o, c)
    BY <1>3, <1>5, <1>6
  <1>9. \A o \in store : \E p \in store' : Key(p) = Key(o) /\ p.by = o.by
    BY <1>3, <1>4, <1>5
  <1>10. Single(store')
    BY <1>3, <1>4, <1>5 DEF Single, IInv
  <1> QED
    BY <1>1, <1>2, <1>7, <1>8, <1>9, <1>10, UnderWay DEF StoreStep

\* A put of c's backup that is under way, under the name of its dump or its metadata.
LEMMA PutStep ==
  ASSUME IInv, NEW c \in Containers, Writing(c),
         NEW t, t = backup[c].since \/ t = now,
         NEW k, k = Name(c) \/ k = MetadataName(Name(c)),
         NEW objects \in SUBSET Objects,
         Bystanders(c), backup'[c].since = backup[c].since, backup'[c].writing = FALSE
  PROVE  /\ Put(k, c, t, objects) \in SUBSET Objects
         /\ \A p \in Put(k, c, t, objects) : p \in objects \/ Fresh(p, c)
         /\ \A o \in objects : o \in Put(k, c, t, objects) \/ Touched(o, c)
         /\ \A o \in objects : o \in Put(k, c, t, objects) \/ Key(o) = k
         /\ Single(objects) => Single(Put(k, c, t, objects))
  <1>1. /\ backup[c].since \in Times /\ now \in Times /\ Timeout \in Nat
        /\ backup[c].since \in Nat /\ now \in Nat
        /\ backup[c].since <= now /\ now <= backup[c].since + Timeout
    BY UnderWay
  <1>a. t \in Times /\ backup[c].since <= t
    BY <1>1
  <1>2. k \in Keys
    BY OwnNames
  <1>3. ASSUME NEW o \in Objects, Key(o) = k
        PROVE  o.at = Place(c) /\ o.stamp = backup[c].since
    BY <1>3, OwnNames
  <1>4. /\ \A p \in Put(k, c, t, objects) :
              p \in objects \/ (p \in Objects /\ Key(p) = k /\ p.by = c /\ p.mtime = t)
        /\ \A o \in objects : o \in Put(k, c, t, objects) \/ Key(o) = k
        /\ Single(objects) => Single(Put(k, c, t, objects))
    BY <1>1, <1>a, <1>2, PutFacts
  <1>5. \A p \in Put(k, c, t, objects) : p \in objects \/ Fresh(p, c)
    BY <1>1, <1>a, <1>3, <1>4 DEF Fresh
  <1>6. \A o \in objects : o \in Put(k, c, t, objects) \/ Touched(o, c)
    BY <1>3, <1>4, UnderWay DEF Touched
  <1> QED
    BY <1>4, <1>5, <1>6

\* What the store holds once the upload of c's backup, or its local file, is complete.
LEMMA WrittenFacts ==
  ASSUME IInv, NEW c \in Containers, Writing(c), NEW objects \in Written(c),
         Bystanders(c), backup'[c].since = backup[c].since, backup'[c].writing = FALSE
  PROVE  /\ objects \in SUBSET Objects
         /\ \A p \in objects : p \in store \/ Fresh(p, c)
         /\ \A o \in store : o \in objects \/ Touched(o, c)
         /\ (\E p \in objects : Key(p) = Name(c) /\ p.by = c) \/ Excused(c)
         /\ Single(objects)
  <1>1. CASE Local(c)
    <2>1. objects = store /\ store \in SUBSET Objects
      BY <1>1, UnderWay DEF Written
    <2> QED
      BY <1>1, <2>1 DEF IInv, Present
  <1>2. CASE ~Local(c)
    <2>1. PICK t \in {backup[c].since, now} : objects = Put(Name(c), c, t, store)
      BY <1>2 DEF Written
    <2>2. store \in SUBSET Objects /\ Single(store)
      BY UnderWay DEF IInv
    <2>3. Put(Name(c), c, t, store) \in SUBSET Objects
      BY <2>1, <2>2, PutStep
    <2>4. \A p \in Put(Name(c), c, t, store) : p \in store \/ Fresh(p, c)
      BY <2>1, <2>2, PutStep
    <2>5. \A o \in store : o \in Put(Name(c), c, t, store) \/ Touched(o, c)
      BY <2>1, <2>2, PutStep
    <2>6. \E p \in Put(Name(c), c, t, store) : Key(p) = Name(c) /\ p.by = c
      <3>1. Name(c) \in Keys /\ t \in Times
        BY UnderWay, OwnNames
      <3> QED
        BY <2>2, <3>1, PutFacts
    <2>7. Single(Put(Name(c), c, t, store))
      BY <2>1, <2>2, PutStep
    <2> QED
      BY <2>1, <2>3, <2>4, <2>5, <2>6, <2>7
  <1> QED
    BY <1>1, <1>2

LEMMA FailStep ==
  ASSUME IInv, NEW c \in Containers, Fail(c)
  PROVE  StoreStep(c)
  <1>1. Writing(c) /\ Settled(c) /\ UNCHANGED <<now, spec, conf, gcVars, calm>>
    BY DEF Fail
  <1>2. Bystanders(c) /\ backup'[c].since = backup[c].since /\ backup'[c].writing = FALSE
    BY <1>1, SettledStep
  <1>3. CASE store' = store \/ (Local(c) /\ store' = store \ At(Name(c), store))
    <2>1. store' \subseteq store
      BY <1>3
    <2>2. ASSUME NEW o \in store, o \notin store'
          PROVE  Touched(o, c)
      <3>1. Key(o) = Name(c)
        BY <1>3, <2>2 DEF At
      <3>2. o.at = Place(c) /\ o.stamp = backup[c].since
        BY <3>1, <1>1, UnderWay, OwnNames
      <3> QED
        BY <1>1, <1>2, <3>2, UnderWay DEF Touched
    <2>3. Single(store')
      BY <2>1 DEF Single, IInv
    <2> QED
      BY <1>2, <2>1, <2>2, <2>3 DEF StoreStep
  <1>4. CASE ~Local(c) /\ store' \in Written(c)
    <2>1. PICK objects \in Written(c) : store' = objects
      BY <1>4
    <2>2. /\ \A p \in objects : p \in store \/ Fresh(p, c)
          /\ \A o \in store : o \in objects \/ Touched(o, c)
          /\ Single(objects)
      BY <1>1, <1>2, WrittenFacts
    <2> QED
      BY <1>2, <2>1, <2>2 DEF StoreStep
  <1>5. \/ store' = store \/ (Local(c) /\ store' = store \ At(Name(c), store))
        \/ ~Local(c) /\ store' \in Written(c)
    BY DEF Fail
  <1> QED
    BY <1>3, <1>4, <1>5

LEMMA SucceedStep ==
  ASSUME IInv, NEW c \in Containers, Succeed(c)
  PROVE  /\ StoreStep(c) /\ backup'[c].writing = FALSE /\ backup'[c].since = backup[c].since
         /\ (\E p \in store' : Key(p) = Name(c) /\ p.by = c) \/ Excused(c)
  <1>1. Writing(c) /\ Settled(c) /\ UNCHANGED <<now, spec, conf, gcVars, calm>>
    BY DEF Succeed
  <1>2. Bystanders(c) /\ backup'[c].since = backup[c].since /\ backup'[c].writing = FALSE
    BY <1>1, SettledStep
  <1>3. PICK objects \in Written(c) :
           store' \in {objects, Put(MetadataName(Name(c)), c, now, objects)}
    BY DEF Succeed
  <1>4. /\ objects \in SUBSET Objects
        /\ \A p \in objects : p \in store \/ Fresh(p, c)
        /\ \A o \in store : o \in objects \/ Touched(o, c)
        /\ (\E p \in objects : Key(p) = Name(c) /\ p.by = c) \/ Excused(c)
        /\ Single(objects)
    BY <1>1, <1>2, <1>3, WrittenFacts
  <1>5. CASE store' = objects
    BY <1>2, <1>4, <1>5 DEF StoreStep
  <1>6. CASE store' = Put(MetadataName(Name(c)), c, now, objects)
    <2> DEFINE k == MetadataName(Name(c))
    <2>1. /\ \A p \in store' : p \in objects \/ Fresh(p, c)
          /\ \A o \in objects : o \in store' \/ Touched(o, c)
          /\ \A o \in objects : o \in store' \/ Key(o) = k
          /\ Single(store')
      <3>1. objects \in SUBSET Objects
        BY <1>4
      <3>2. \A p \in store' : p \in objects \/ Fresh(p, c)
        BY <3>1, <1>1, <1>2, <1>6, PutStep
      <3>3. \A o \in objects : o \in store' \/ Touched(o, c)
        BY <3>1, <1>1, <1>2, <1>6, PutStep
      <3>4. \A o \in objects : o \in store' \/ Key(o) = k
        BY <3>1, <1>1, <1>2, <1>6, PutStep
      <3>5. Single(store')
        BY <3>1, <1>1, <1>2, <1>4, <1>6, PutStep
      <3> QED
        BY <3>2, <3>3, <3>4, <3>5
    <2>2. ASSUME NEW p \in objects, Key(p) = Name(c)
          PROVE  p \in store'
      <3>1. Key(p) # k
        BY <2>2, <1>1, <1>4, UnderWay, OwnNames
      <3> QED
        BY <2>1, <3>1
    <2> QED
      BY <1>2, <1>4, <2>1, <2>2 DEF StoreStep
  <1> QED
    BY <1>2, <1>3, <1>5, <1>6

-----------------------------------------------------------------------------
(* A step of a backup preserves the invariant.                             *)

LEMMA StoreStepTyped ==
  ASSUME IInv, NEW c \in Containers, StoreStep(c)
  PROVE  TypeOK'
  BY DEF StoreStep, Bystanders, Fresh, IInv, TypeOK, gcVars

\* What does not depend on the store or on a backup is as before.
LEMMA Rigid ==
  ASSUME UNCHANGED <<spec, conf>>
  PROVE  /\ \A c : Place(c)' = Place(c) /\ Effective(c)' = Effective(c) /\ Local(c)' = Local(c)
         /\ \A c : Hasty(c)' = Hasty(c) /\ Brief(c)' = Brief(c) /\ Collects(c)' = Collects(c)
         /\ \A c, o : Lists(c, o)' = Lists(c, o)
         /\ \A c, t : ObjectName(c, t)' = ObjectName(c, t)
         /\ \A c, d : Twins(c, d)' = Twins(c, d)
  BY DEF Place, Effective, Local, Hasty, Brief, Collects, Lists, ObjectName, Twins

LEMMA StoreStepOwned ==
  ASSUME IInv, NEW c \in Containers, StoreStep(c)
  PROVE  Dated' /\ Single(store)' /\ Owned'
  <1>1. Bystanders(c) /\ (\A p \in store' : p \in store \/ Fresh(p, c))
    BY DEF StoreStep
  <1>2. batch' = batch /\ now' = now /\ UNCHANGED <<spec, conf>>
    BY <1>1 DEF Bystanders, gcVars
  <1>3. Dated'
    BY <1>1, <1>2 DEF Dated, IInv, Fresh
  <1>4. ASSUME NEW p \in store'
        PROVE  /\ p.at = Place(p.by) /\ p.stamp <= backup'[p.by].since
               /\ p.meta /\ backup'[p.by].writing => p.stamp < backup'[p.by].since
    <2>1. /\ backup[c].since \in -1..Horizon /\ backup'[c].since \in -1..Horizon
          /\ backup[c].writing \in BOOLEAN /\ backup'[c].writing \in BOOLEAN /\ now \in Times
          /\ store \in SUBSET Objects
      BY <1>1 DEF Bystanders, IInv, TypeOK
    <2>2. ASSUME NEW o \in store, o.by # c
          PROVE  /\ o.at = Place(o.by) /\ o.stamp <= backup'[o.by].since
                 /\ o.meta /\ backup'[o.by].writing => o.stamp < backup'[o.by].since
      <3>1. o.by \in Containers
        BY <2>1 DEF Objects
      <3>2. backup'[o.by] = backup[o.by]
        BY <3>1, <2>2, <1>1 DEF Bystanders
      <3> QED
        BY <3>2 DEF IInv, Owned, Writing
    <2>3. ASSUME NEW o \in store, o.by = c
          PROVE  /\ o.at = Place(o.by) /\ o.stamp <= backup'[o.by].since
                 /\ o.meta /\ backup'[o.by].writing => o.stamp < backup'[o.by].since
      <3>1. /\ o.at = Place(c) /\ o.stamp <= backup[c].since
            /\ o.meta /\ backup[c].writing => o.stamp < backup[c].since
        BY <2>3 DEF IInv, Owned, Writing
      <3>2. o.stamp \in Nat /\ Horizon \in Nat
        BY <2>1, RetentionAssumption DEF Objects, Times
      <3>3. CASE backup[c].writing /\ backup'[c].since = backup[c].since
        BY <2>3, <3>1, <3>3
      <3>4. CASE backup[c].since < now /\ backup'[c].since = now
        BY <2>1, <2>3, <3>1, <3>2, <3>4 DEF Times
      <3> QED
        BY <1>1, <3>3, <3>4 DEF Bystanders
    <2>4. CASE p \in store
      BY <2>2, <2>3, <2>4
    <2>5. CASE p \notin store
      <3>1. Fresh(p, c)
        BY <1>1, <2>5
      <3>2. CASE p.by = c /\ (p.meta => ~backup'[c].writing)
        <4>1. p.stamp = backup'[c].since /\ p.at = Place(c)
          BY <3>1 DEF Fresh
        <4>2. backup'[c].since <= backup'[c].since
          BY <2>1, RetentionAssumption
        <4> QED
          BY <3>2, <4>1, <4>2
      <3>3. ASSUME NEW o \in store, Key(o) = Key(p), o.by = p.by, backup' = backup
            PROVE  /\ p.at = Place(p.by) /\ p.stamp <= backup'[p.by].since
                   /\ p.meta /\ backup'[p.by].writing => p.stamp < backup'[p.by].since
        <4>1. o.at = p.at /\ o.stamp = p.stamp /\ o.meta = p.meta
          BY <3>3, SameKey
        <4> QED
          BY <4>1, <3>3 DEF IInv, Owned, Writing
      <3> QED
        BY <3>1, <3>2, <3>3 DEF Fresh
    <2> QED
      BY <2>4, <2>5
  <1>5. Owned'
    BY <1>2, <1>4, Rigid DEF Owned, Writing
  <1>6. Single(store)'
    BY DEF StoreStep, Single, Key
  <1> QED
    BY <1>3, <1>5, <1>6

LEMMA StoreStepCollection ==
  ASSUME IInv, NEW c \in Containers, StoreStep(c)
  PROVE  WrittenInTime' /\ Visiting' /\ Listed' /\ Doomed'
  <1>1. Bystanders(c) /\ (\A p \in store' : p \in store \/ Fresh(p, c))
    BY DEF StoreStep
  <1>2. /\ now' = now /\ phase' = phase /\ cur' = cur /\ batch' = batch
        /\ listed' = listed /\ UNCHANGED <<spec, conf>>
    BY <1>1 DEF Bystanders, gcVars
  <1>3. WrittenInTime'
    BY <1>1, <1>2 DEF WrittenInTime, Bystanders, IInv, Writing
  <1>4. Visiting'
    BY <1>2, Rigid DEF Visiting, IInv
  <1>5. ASSUME phase = "cut", NEW o \in batch, NEW p \in store', Key(p) = Key(o)
        PROVE  p = o \/ listed <= o.stamp + Timeout
    <2>1. p.stamp = o.stamp
      BY <1>5, SameKey
    <2>2. CASE p \in store
      BY <1>5, <2>2 DEF IInv, Listed
    <2>3. CASE Fresh(p, c)
      <3>1. listed <= now /\ now <= o.stamp + Timeout
        BY <1>5, <2>1, <2>3 DEF Fresh, IInv, Listed
      <3>2. listed \in Int /\ now \in Int /\ o.stamp \in Int /\ Timeout \in Int
        BY <1>5, RetentionAssumption DEF IInv, TypeOK, Objects, Times
      <3> QED
        BY <3>1, <3>2
    <2> QED
      BY <1>1, <1>5, <2>2, <2>3
  <1>6. Listed'
    BY <1>2, <1>5 DEF Listed, Key, IInv
  <1>7. ASSUME phase = "delete", NEW o \in batch, NEW p \in store', Key(p) = Key(o)
        PROVE  Due(cur, p) \/ Brief(cur)
    <2>1. CASE p \in store
      BY <2>1, <1>7 DEF IInv, Doomed
    <2>2. CASE p \notin store
      <3>1. Collects(cur) /\ Due(cur, o) /\ o.stamp <= o.mtime /\ cur \in Containers
        BY <1>7 DEF IInv, Doomed, Dated, Visiting
      <3>2. now <= o.stamp + Timeout
        BY <1>1, <1>7, <2>2, SameKey DEF Fresh
      <3>3. /\ o.stamp \in Int /\ o.mtime \in Int /\ now \in Int /\ Timeout \in Int
            /\ Effective(cur) \in Int /\ ListLimit \in Nat
        BY <3>1, Labelled, RetentionAssumption DEF IInv, TypeOK, Objects, Times
      <3> QED
        BY <3>1, <3>2, <3>3 DEF Due, Brief
    <2> QED
      BY <2>1, <2>2
  <1>8. Doomed'
    BY <1>2, <1>7, Rigid DEF Doomed, IInv, Due, Key
  <1> QED
    BY <1>3, <1>4, <1>6, <1>8

\* An excuse stays one as long as the backup is the same.
LEMMA ExcuseStays ==
  ASSUME NEW c \in Containers, Excused(c), backup'[c].since = backup[c].since,
         UNCHANGED <<spec, conf>>
  PROVE  Excused(c)'
  <1>1. Name(c)' = Name(c)
    BY Rigid DEF Name
  <1>2. \A d, o : MayCollect(d, o)' = MayCollect(d, o)
    BY Rigid DEF MayCollect
  <1> QED
    BY <1>1, <1>2, Rigid DEF Excused, Key

LEMMA StoreStepPresent ==
  ASSUME IInv, NEW c \in Containers, StoreStep(c)
  PROVE  Present'
  <1>1. Bystanders(c) /\ UNCHANGED <<spec, conf>>
    BY DEF StoreStep, Bystanders
  <1> SUFFICES ASSUME NEW d \in Containers, backup'[d].writing, Local(d)
               PROVE  (\E p \in store' : Key(p) = Name(d)' /\ p.by = d) \/ Excused(d)'
    BY <1>1, Rigid DEF Present, Writing, Key
  <1>2. Name(d)' = ObjectName(d, backup'[d].since)
    BY <1>1, Rigid DEF Name
  <1>3. CASE d = c /\ ~backup[c].writing
    BY <1>2, <1>3 DEF StoreStep
  <1>4. ASSUME backup[d].writing, backup'[d].since = backup[d].since
        PROVE  Excused(d)' \/ \E o \in store : Key(o) = Name(d)' /\ o.by = d
    <2>1. Name(d)' = Name(d)
      BY <1>2, <1>4 DEF Name
    <2>2. (\E o \in store : Key(o) = Name(d) /\ o.by = d) \/ Excused(d)
      BY <1>4 DEF IInv, Present, Writing
    <2> QED
      BY <2>1, <2>2, <1>1, <1>4, ExcuseStays
  <1>5. CASE d = c /\ backup[c].writing
    <2>1. backup'[d].since = backup[d].since
      BY <1>1, <1>5 DEF Bystanders
    <2>2. \A o \in store : \E p \in store' : Key(p) = Key(o) /\ p.by = o.by
      BY <1>5 DEF StoreStep
    <2> QED
      BY <1>4, <1>5, <2>1, <2>2
  <1>6. CASE d # c
    <2>1. backup'[d] = backup[d]
      BY <1>1, <1>6 DEF Bystanders
    <2>2. ASSUME NEW o \in store, o.by = d, o \notin store'
          PROVE  Twins(d, c)
      <3>1. o.at = Place(c)
        BY <2>2 DEF StoreStep, Touched
      <3>2. o.at = Place(d)
        BY <2>2 DEF IInv, Owned
      <3> QED
        BY <3>1, <3>2, <1>6 DEF Twins
    <2>3. Twins(d, c) => Excused(d)'
      BY <1>1, Rigid DEF Excused
    <2> QED
      BY <1>4, <2>1, <2>2, <2>3
  <1> QED
    BY <1>3, <1>5, <1>6

\* What a backup replaces or removes is its own, or has a twin's name.
LEMMA StoreStepSpares ==
  ASSUME IInv, NEW c \in Containers, StoreStep(c), NEW o \in store, o \notin store'
  PROVE  IsWritten(o) \/ \E d \in Containers : Twins(d, c) /\ Place(d) = o.at
  <1>1. /\ o.at = Place(c) /\ o.stamp = backup'[c].since
        /\ o.meta => backup[c].writing
    BY DEF StoreStep, Touched
  <1>2. /\ Bystanders(c) /\ o \in Objects
        /\ o.at = Place(o.by) /\ o.stamp <= backup[o.by].since
        /\ o.meta /\ backup[o.by].writing => o.stamp < backup[o.by].since
    BY DEF StoreStep, IInv, TypeOK, Owned, Writing
  <1>3. CASE o.by # c
    BY <1>1, <1>2, <1>3 DEF Twins, Objects
  <1>4. CASE o.by = c
    <2>1. /\ backup[c].since \in -1..Horizon /\ now \in Int /\ Horizon \in Int
          /\ o.stamp \in Int /\ o.meta \in BOOLEAN
      BY <1>2, RetentionAssumption DEF IInv, TypeOK, Times, Objects
    <2>2. backup[c].writing /\ backup'[c].since = backup[c].since
      BY <1>1, <1>2, <1>4, <2>1 DEF Bystanders
    <2>3. ~o.meta
      BY <1>1, <1>2, <1>4, <2>1, <2>2
    <2>4. Writing(c)
      BY <2>2 DEF Writing
    <2>5. Key(o) = Name(c)
      BY <1>1, <1>2, <2>2, <2>3, <2>4, OwnNames
    <2> QED
      BY <2>4, <2>5 DEF IsWritten
  <1> QED
    BY <1>3, <1>4

LEMMA BackupStepStores ==
  ASSUME IInv, NEW c \in Containers, BackupStep(c)
  PROVE  StoreStep(c)
  BY BeginStep, AppendStep, FailStep, SucceedStep DEF BackupStep

LEMMA BackupStepInv ==
  ASSUME IInv, NEW c \in Containers, BackupStep(c)
  PROVE  IInv'
  <1>1. StoreStep(c)
    BY BackupStepStores
  <1> QED
    BY <1>1, StoreStepTyped, StoreStepOwned, StoreStepCollection, StoreStepPresent DEF IInv

-----------------------------------------------------------------------------
(* A step of the collection preserves the invariant.                       *)

\* The parts that speak of backups and objects only.
LEMMA StoreInv ==
  ASSUME IInv, UNCHANGED <<now, spec, conf, store, backup>>
  PROVE  WrittenInTime' /\ Single(store)' /\ Owned' /\ Present'
  <1>1. WrittenInTime'
    BY DEF IInv, WrittenInTime, Writing
  <1>2. Owned'
    BY Rigid DEF IInv, Owned, Writing
  <1>3. ASSUME NEW c \in Containers, backup'[c].writing, Local(c)
        PROVE  (\E p \in store' : Key(p) = Name(c)' /\ p.by = c) \/ Excused(c)'
    <2>1. Name(c)' = Name(c)
      BY Rigid DEF Name
    <2>2. (\E o \in store : Key(o) = Name(c) /\ o.by = c) \/ Excused(c)
      BY <1>3 DEF IInv, Present, Writing
    <2> QED
      BY <2>1, <2>2, ExcuseStays
  <1>4. Present'
    BY <1>3, Rigid DEF Present, Writing, Key
  <1>5. Single(store)'
    BY DEF IInv, Single, Key
  <1> QED
    BY <1>1, <1>2, <1>4, <1>5

\* Between two containers nothing is listed.
LEMMA NextContainer ==
  ASSUME IInv, UNCHANGED <<now, spec, conf, store, backup>>,
         phase' \in {"idle", "next"}, todo' \subseteq Containers,
         cur' \in Containers \cup {Nobody}, listed' \in {0, listed}, batch' \subseteq batch, calm' \in BOOLEAN
  PROVE  IInv'
  <1>1. TypeOK'
    BY RetentionAssumption DEF IInv, TypeOK, Times
  <1>2. Dated'
    BY DEF IInv, Dated
  <1>3. Visiting' /\ Listed' /\ Doomed'
    BY DEF Visiting, Listed, Doomed
  <1> QED
    BY <1>1, <1>2, <1>3, StoreInv DEF IInv

LEMMA PickInv ==
  ASSUME IInv, NEW c \in Containers, Pick(c)
  PROVE  IInv'
  <1>1. /\ UNCHANGED <<now, spec, conf, store, backup, listed, batch, calm>>
        /\ phase' = "list" /\ cur' = c /\ Effective(c) > 0 /\ todo' \subseteq todo
    BY DEF Pick
  <1>2. TypeOK'
    BY <1>1 DEF IInv, TypeOK
  <1>3. Dated' /\ Visiting' /\ Listed' /\ Doomed'
    BY <1>1, Rigid DEF IInv, Dated, Visiting, Listed, Doomed
  <1> QED
    BY <1>1, <1>2, <1>3, StoreInv DEF IInv

LEMMA ListInv ==
  ASSUME IInv, List
  PROVE  IInv'
  <1>1. /\ UNCHANGED <<now, spec, conf, store, backup, todo, cur, calm>>
        /\ phase = "list" /\ phase' = "cut" /\ listed' = now
        /\ batch' = {o \in store : Lists(cur, o)}
    BY DEF List
  <1>2. TypeOK'
    BY <1>1 DEF IInv, TypeOK
  <1>3. Dated'
    BY <1>1 DEF IInv, Dated
  <1>4. Visiting'
    BY <1>1, Rigid DEF IInv, Visiting
  <1>5. Listed'
    <2>1. now \in Int /\ ListLimit \in Nat
      BY RetentionAssumption DEF IInv, TypeOK, Times
    <2> QED
      BY <1>1, <2>1 DEF IInv, Single, Listed, Key
  <1>6. Doomed'
    BY <1>1 DEF Doomed
  <1> QED
    BY <1>1, <1>2, <1>3, <1>4, <1>5, <1>6, StoreInv DEF IInv

LEMMA CutInv ==
  ASSUME IInv, Cut
  PROVE  IInv'
  <1>1. /\ UNCHANGED <<now, spec, conf, store, backup, todo, cur, calm>>
        /\ phase = "cut" /\ phase' = "delete" /\ listed' = 0
        /\ batch' = IF conf.dryRun THEN {} ELSE {o \in batch : Due(cur, o)}
    BY DEF Cut
  <1>2. batch' \subseteq batch
    BY <1>1
  <1>3. TypeOK'
    BY <1>1, <1>2, RetentionAssumption DEF IInv, TypeOK, Times
  <1>4. Dated'
    BY <1>1, <1>2 DEF IInv, Dated
  <1>5. Visiting'
    BY <1>1, <1>2, Rigid DEF IInv, Visiting
  <1>6. Listed'
    BY <1>1 DEF Listed
  <1>7. ASSUME NEW o \in batch'
        PROVE  Collects(cur) /\ Due(cur, o) /\ o \in batch
    BY <1>1, <1>7 DEF IInv, Visiting, Collects
  <1>8. ASSUME NEW o \in batch', NEW p \in store, Key(p) = Key(o)
        PROVE  Due(cur, p) \/ Brief(cur)
    <2>1. Collects(cur) /\ Due(cur, o) /\ o \in batch /\ o.stamp <= o.mtime
      BY <1>7 DEF IInv, Dated
    <2>2. CASE p = o
      BY <2>1, <2>2
    <2>3. CASE listed <= o.stamp + Timeout
      <3>1. cur \in Containers /\ now <= listed + ListLimit
        BY <1>1 DEF IInv, Visiting, Listed
      <3>2. /\ o.stamp \in Int /\ o.mtime \in Int /\ now \in Int /\ Timeout \in Int
            /\ Effective(cur) \in Int /\ listed \in Int /\ ListLimit \in Int
        BY <2>1, <3>1, Labelled, RetentionAssumption DEF IInv, TypeOK, Objects, Times
      <3> QED
        BY <2>1, <2>3, <3>1, <3>2 DEF Due, Brief
    <2> QED
      BY <1>1, <1>8, <2>1, <2>2, <2>3 DEF IInv, Listed
  <1>9. Doomed'
    BY <1>1, <1>7, <1>8, Rigid DEF Doomed, Due, Key
  <1> QED
    BY <1>1, <1>3, <1>4, <1>5, <1>6, <1>9, StoreInv DEF IInv

\* A deletion takes what has the key; if a backup is still writing that, the
\* collection is hasty.
LEMMA DeleteFacts ==
  ASSUME IInv, NEW o \in batch, phase = "delete"
  PROVE  /\ cur \in Containers /\ o \in Objects
         /\ \A p \in At(Key(o), store) : MayCollect(cur, p) /\ (Due(cur, p) \/ Brief(cur))
         /\ \A c \in Containers : Writing(c) /\ Key(o) = Name(c) => Excused(c)
  <1>1. /\ cur \in Containers /\ Lists(cur, o) /\ Collects(cur) /\ Due(cur, o)
        /\ \A p \in store : Key(p) = Key(o) => Due(cur, p) \/ Brief(cur)
        /\ o \in Objects /\ o.stamp <= o.mtime
    BY DEF IInv, TypeOK, Visiting, Doomed, Dated
  <1>2. ASSUME NEW p \in At(Key(o), store)
        PROVE  MayCollect(cur, p) /\ (Due(cur, p) \/ Brief(cur))
    <2>1. p \in store /\ Key(p) = Key(o)
      BY <1>2 DEF At
    <2>2. p.at = o.at
      BY <2>1, SameKey
    <2>3. Lists(cur, p)
      BY <1>1, <2>2 DEF Lists
    <2> QED
      BY <1>1, <2>1, <2>3 DEF MayCollect
  <1>3. ASSUME NEW c \in Containers, Writing(c), Key(o) = Name(c)
        PROVE  Excused(c)
    <2>1. o.stamp = backup[c].since /\ now <= backup[c].since + Timeout
      BY <1>1, <1>3, OwnNames, UnderWay
    <2>2. /\ o.stamp \in Int /\ o.mtime \in Int /\ now \in Int /\ Timeout \in Int
          /\ Effective(cur) \in Int
      BY <1>1, Labelled, RetentionAssumption DEF IInv, TypeOK, Objects, Times
    <2>3. Hasty(cur) /\ MayCollect(cur, o)
      BY <1>1, <2>1, <2>2 DEF Due, Hasty, MayCollect
    <2> QED
      BY <1>1, <1>3, <2>3 DEF Excused
  <1> QED
    BY <1>1, <1>2, <1>3

LEMMA DeleteInv ==
  ASSUME IInv, NEW o \in batch, Delete(o)
  PROVE  IInv'
  <1>1. /\ UNCHANGED <<now, spec, conf, backup, phase, todo, cur, listed, calm>>
        /\ phase = "delete" /\ batch' \subseteq batch
        /\ store' = store \ At(Key(o), store)
    BY DEF Delete
  <1>2. store' \subseteq store
    BY <1>1
  <1>3. TypeOK'
    BY <1>1, <1>2 DEF IInv, TypeOK
  <1>4. WrittenInTime' /\ Dated' /\ Single(store)'
    BY <1>1, <1>2 DEF IInv, WrittenInTime, Dated, Single, Writing, Key
  <1>5. Owned'
    BY <1>1, <1>2, Rigid DEF IInv, Owned, Writing
  <1>6. Visiting' /\ Listed'
    BY <1>1, Rigid DEF IInv, Visiting, Listed
  <1>7. Doomed'
    BY <1>1, <1>2, Rigid DEF IInv, Doomed, Due, Key
  <1>8. ASSUME NEW c \in Containers, backup'[c].writing, Local(c)
        PROVE  (\E p \in store' : Key(p) = Name(c)' /\ p.by = c) \/ Excused(c)'
    <2>1. Name(c)' = Name(c) /\ Writing(c)
      BY <1>1, <1>8, Rigid DEF Name, Writing
    <2>2. (\E q \in store : Key(q) = Name(c) /\ q.by = c) \/ Excused(c)
      BY <1>8, <2>1 DEF IInv, Present
    <2>3. Key(o) = Name(c) => Excused(c)
      BY <1>1, <2>1, DeleteFacts
    <2>4. \A q \in store : q \in store' \/ Key(q) = Key(o)
      BY <1>1 DEF At
    <2> QED
      BY <1>1, <2>1, <2>2, <2>3, <2>4, ExcuseStays
  <1>9. Present'
    BY <1>1, <1>8, Rigid DEF Present, Writing, Key
  <1> QED
    BY <1>3, <1>4, <1>5, <1>6, <1>7, <1>9 DEF IInv

LEMMA DeleteFailsInv ==
  ASSUME IInv, NEW o \in batch, DeleteFails(o)
  PROVE  IInv'
  <1>1. /\ UNCHANGED <<now, spec, conf, store, backup, phase, todo, cur, listed, calm>>
        /\ batch' \subseteq batch
    BY DEF DeleteFails
  <1>2. TypeOK'
    BY <1>1 DEF IInv, TypeOK
  <1>3. Dated' /\ Visiting' /\ Listed' /\ Doomed'
    BY <1>1, Rigid DEF IInv, Dated, Visiting, Listed, Doomed, Due, Key
  <1> QED
    BY <1>1, <1>2, <1>3, StoreInv DEF IInv

LEMMA GCStepInv ==
  ASSUME IInv, GCStep
  PROVE  IInv'
  <1>1. CASE Start
    BY <1>1, NextContainer DEF Start, IInv, TypeOK
  <1>2. CASE ListFails
    BY <1>2, NextContainer DEF ListFails, IInv, TypeOK
  <1>3. CASE RunEnds
    BY <1>3, NextContainer DEF RunEnds, IInv, TypeOK
  <1>4. CASE Finish
    BY <1>4, NextContainer DEF Finish, IInv, TypeOK
  <1>5. ASSUME NEW c \in Containers, PassOver(c)
        PROVE  IInv'
    BY <1>5, NextContainer DEF PassOver, IInv, TypeOK
  <1> QED
    BY <1>1, <1>2, <1>3, <1>4, <1>5, PickInv, ListInv, CutInv, DeleteInv, DeleteFailsInv DEF GCStep

LEMMA TickInv ==
  ASSUME IInv, Tick
  PROVE  IInv'
  <1>1. /\ UNCHANGED <<spec, conf, store, backup, phase, todo, cur, listed, batch, calm>>
        /\ phase = "cut" => now < listed + ListLimit
        /\ now < Horizon /\ now' = now + 1
        /\ \A c \in Containers : Writing(c) => now < backup[c].since + Timeout
    BY DEF Tick, gcVars
  <1>2. now \in Nat /\ Horizon \in Nat /\ Timeout \in Nat /\ now' \in Times
    BY <1>1, RetentionAssumption DEF IInv, TypeOK, Times
  <1>3. TypeOK'
    BY <1>1, <1>2 DEF IInv, TypeOK
  <1>4. WrittenInTime'
    <2> SUFFICES ASSUME NEW c \in Containers, Writing(c)
                 PROVE  backup[c].since \in 0..now' /\ now' <= backup[c].since + Timeout
      BY <1>1 DEF WrittenInTime, Writing
    <2>1. backup[c].since \in 0..now /\ now < backup[c].since + Timeout
      BY <1>1 DEF IInv, WrittenInTime
    <2> QED
      BY <1>1, <1>2, <2>1
  <1>5. Dated' /\ Single(store)'
    BY <1>1 DEF IInv, Dated, Single, Key
  <1>6. Owned' /\ Visiting' /\ Listed'
    <2>1. Owned' /\ Visiting'
      BY <1>1, Rigid DEF IInv, Owned, Visiting, Writing
    <2>2. listed \in Int /\ ListLimit \in Int
      BY RetentionAssumption DEF IInv, TypeOK, Times
    <2>3. phase = "cut" => listed <= now' /\ now' <= listed + ListLimit
      BY <1>1, <1>2, <2>2 DEF IInv, Listed
    <2> QED
      BY <1>1, <2>1, <2>3 DEF IInv, Listed, Key
  <1>7. ASSUME phase = "delete", NEW o \in Objects, Due(cur, o), cur \in Containers
        PROVE  Due(cur, o)'
    <2>1. Effective(cur) \in Int /\ o.mtime \in Int
      BY <1>7, Labelled DEF IInv, Objects, Times
    <2> QED
      BY <1>1, <1>2, <1>7, <2>1, Rigid DEF Due
  <1>8. Doomed'
    BY <1>1, <1>7, Rigid DEF IInv, TypeOK, Doomed, Visiting, Key
  <1>9. ASSUME NEW c \in Containers, backup'[c].writing, Local(c)
        PROVE  (\E p \in store' : Key(p) = Name(c)' /\ p.by = c) \/ Excused(c)'
    <2>1. Name(c)' = Name(c) /\ Writing(c)
      BY <1>1, <1>9, Rigid DEF Name, Writing
    <2>2. (\E o \in store : Key(o) = Name(c) /\ o.by = c) \/ Excused(c)
      BY <1>9, <2>1 DEF IInv, Present
    <2> QED
      BY <1>1, <2>1, <2>2, ExcuseStays
  <1>10. Present'
    BY <1>1, <1>9, Rigid DEF Present, Writing, Key
  <1> QED
    BY <1>3, <1>4, <1>5, <1>6, <1>8, <1>10 DEF IInv

LEMMA CalmInv ==
  ASSUME IInv, UNCHANGED <<now, spec, conf, store, backup, gcVars>>, calm' \in BOOLEAN
  PROVE  IInv'
  <1>1. TypeOK'
    BY DEF IInv, TypeOK, gcVars
  <1>2. Dated' /\ Visiting' /\ Listed' /\ Doomed'
    BY Rigid DEF IInv, Dated, Visiting, Listed, Doomed, Due, Key, gcVars
  <1> QED
    BY <1>1, <1>2, StoreInv DEF IInv

-----------------------------------------------------------------------------
(* The theorems.                                                           *)

LEMMA InitInv == Init => IInv
  <1> SUFFICES ASSUME Init
               PROVE  IInv
    OBVIOUS
  <1>1. TypeOK
    <2>1. [spec |-> spec, conf |-> conf] \in Worlds
      <3>1. PICK w \in Worlds : spec = w.spec /\ conf = w.conf
        BY DEF Init
      <3>2. w = [spec |-> w.spec, conf |-> w.conf]
        BY RetentionAssumption
      <3> QED
        BY <3>1, <3>2
    <2>2. 0 \in Times /\ -1 \in -1..Horizon
      BY RetentionAssumption DEF Times
    <2> QED
      BY <2>1, <2>2 DEF Init, TypeOK
  <1>2. \A c \in Containers : ~Writing(c)
    BY DEF Init, Writing
  <1>3. store = {} /\ batch = {} /\ phase = "idle"
    BY DEF Init
  <1> QED
    BY <1>1, <1>2, <1>3
    DEF IInv, WrittenInTime, Dated, Single, Owned, Visiting, Listed, Doomed, Present

LEMMA NextInv == IInv /\ [Next]_vars => IInv'
  <1> SUFFICES ASSUME IInv, [Next]_vars
               PROVE  IInv'
    OBVIOUS
  <1>1. CASE Calm
    BY <1>1, CalmInv DEF Calm
  <1>2. CASE UNCHANGED vars
    BY <1>2, CalmInv DEF vars, gcVars, IInv, TypeOK
  <1> QED
    BY <1>1, <1>2, TickInv, GCStepInv, BackupStepInv DEF Next

LEMMA InvariantHolds == Spec => []IInv
  BY InitInv, NextInv, PTL DEF Spec

(***************************************************************************)
(* The variables of the collection, the backups and the stores keep to     *)
(* their ranges.                                                           *)
(***************************************************************************)
THEOREM TypeCorrect == Spec => []TypeOK
  <1>1. IInv => TypeOK
    BY DEF IInv
  <1> QED
    BY <1>1, InvariantHolds, PTL

(***************************************************************************)
(* A stored object is never lost to the collection, or to a backup of      *)
(* another name, before it is due.  What makes it so is that a listed      *)
(* object can only change while its backup writes, which is over before    *)
(* the object is due if the retention is at least the timeout and the      *)
(* thirty seconds a listing may be old.                                    *)
(***************************************************************************)
THEOREM SparedCorrect == Spec => StoredIsSpared
  <1>1. ASSUME IInv, Next, NEW o \in store, o \notin store'
        PROVE  MayGo(o)
    <2>1. store' # store
      BY <1>1
    <2>2. CASE \E c \in Containers : BackupStep(c)
      BY <1>1, <2>2, BackupStepStores, StoreStepSpares DEF MayGo
    <2>3. ASSUME NEW b \in batch, Delete(b)
          PROVE  MayGo(o)
      <3>1. phase = "delete" /\ o \in At(Key(b), store)
        BY <1>1, <2>3 DEF Delete
      <3> QED
        BY <1>1, <3>1, DeleteFacts DEF MayGo
    <2>4. CASE GCStep
      BY <2>1, <2>3, <2>4
      DEF GCStep, Start, List, ListFails, Cut, RunEnds, Finish, PassOver, Pick, DeleteFails
    <2> QED
      BY <1>1, <2>1, <2>2, <2>4 DEF Next, Tick, Calm
  <1>2. IInv /\ [Next]_vars => [\A o \in store : o \in store' \/ MayGo(o)]_vars
    BY <1>1
  <1> QED
    BY <1>2, InvariantHolds, PTL DEF Spec, StoredIsSpared

(***************************************************************************)
(* A backup that succeeds leaves its object in the store, whatever         *)
(* collections ran beside it, unless one that lists it is hasty or a twin  *)
(* wrote to the same name.                                                 *)
(***************************************************************************)
THEOREM ReportedCorrect == Spec => ReportedIsStored
  <1> DEFINE Stored ==
        \A c \in Containers :
            Succeed(c) => (\E o \in store' : Key(o) = Name(c) /\ o.by = c) \/ Excused(c)
  <1>1. IInv => Stored
    BY SucceedStep
  <1> QED
    BY <1>1, InvariantHolds, PTL DEF ReportedIsStored

-----------------------------------------------------------------------------
(* What the collection does not miss.                                      *)

\* All that the prefix lists was listed, but for what was written since; nothing
\* of an earlier container is left to be deleted.
AllSeen ==
    /\ phase = "cut" =>
          \A o \in store : Lists(cur, o) => o \in batch \/ listed <= o.mtime + Timeout
    /\ phase \in {"idle", "next", "list"} => batch = {}

LEMMA StoreStepSeen ==
  ASSUME IInv, AllSeen, NEW c \in Containers, StoreStep(c)
  PROVE  AllSeen'
  <1>1. Bystanders(c) /\ (\A p \in store' : p \in store \/ Fresh(p, c))
    BY DEF StoreStep
  <1>2. UNCHANGED <<now, spec, conf, phase, cur, listed, batch>>
    BY <1>1 DEF Bystanders, gcVars
  <1>3. ASSUME phase = "cut", NEW p \in store', Lists(cur, p)
        PROVE  p \in batch \/ listed <= p.mtime + Timeout
    <2>1. CASE p \in store
      BY <1>3, <2>1 DEF AllSeen
    <2>2. CASE Fresh(p, c)
      <3>1. /\ p \in Objects /\ p.stamp <= p.mtime /\ now <= p.stamp + Timeout
            /\ listed <= now
        BY <1>3, <2>2 DEF Fresh, IInv, Listed
      <3>2. /\ p.stamp \in Int /\ p.mtime \in Int /\ now \in Int /\ Timeout \in Int
            /\ listed \in Int
        BY <3>1, RetentionAssumption DEF IInv, TypeOK, Objects, Times
      <3> QED
        BY <3>1, <3>2
    <2> QED
      BY <1>1, <1>3, <2>1, <2>2
  <1> QED
    BY <1>2, <1>3, Rigid DEF AllSeen

LEMMA GCStepSeen ==
  ASSUME IInv, AllSeen, GCStep
  PROVE  AllSeen'
  <1>1. CASE Start \/ \E c \in Containers : PassOver(c) \/ Pick(c)
    BY <1>1 DEF Start, PassOver, Pick, AllSeen
  <1>2. CASE List
    BY <1>2, Rigid DEF List, AllSeen
  <1>3. CASE ListFails \/ Finish
    BY <1>3 DEF ListFails, Finish, AllSeen
  <1>4. CASE Cut \/ \E o \in batch : Delete(o) \/ DeleteFails(o)
    BY <1>4 DEF Cut, Delete, DeleteFails, AllSeen
  <1>5. CASE RunEnds
    BY <1>5 DEF RunEnds, AllSeen
  <1> QED
    BY <1>1, <1>2, <1>3, <1>4, <1>5 DEF GCStep

LEMMA NextSeen == IInv /\ AllSeen /\ [Next]_vars => AllSeen'
  <1> SUFFICES ASSUME IInv, AllSeen, [Next]_vars PROVE AllSeen'
    OBVIOUS
  <1>1. CASE Tick
    BY <1>1, Rigid DEF Tick, AllSeen, gcVars
  <1>2. CASE Calm \/ UNCHANGED vars
    BY <1>2, Rigid DEF Calm, vars, gcVars, AllSeen
  <1> QED
    BY <1>1, <1>2, GCStepSeen, BackupStepStores, StoreStepSeen DEF Next

(***************************************************************************)
(* The safety part of DueAreCollected.  A collection that is not brief     *)
(* condemns everything in the store that its prefix lists and that is due  *)
(* at the cut-off, although backups write between the listing and then;    *)
(* and what is condemned is passed over only by a deletion that fails or   *)
(* by the end of the hour: otherwise RunGC goes on until it is not in the  *)
(* store any more.                                                         *)
(***************************************************************************)
THEOREM DueAreDoomed ==
    Spec =>
      /\ [][Cut /\ Collects(cur) =>
              \A o \in store :
                  Lists(cur, o) /\ Due(cur, o) => o \in batch' \/ Brief(cur)]_vars
      /\ [][\A o \in batch : \/ o \in batch' \/ o \notin store' \/ Cut
                             \/ ~calm /\ (DeleteFails(o) \/ Finish)]_vars
  <1> DEFINE Condemned ==
        Cut /\ Collects(cur) =>
            \A o \in store : Lists(cur, o) /\ Due(cur, o) => o \in batch' \/ Brief(cur)
  <1> DEFINE Done ==
        \A o \in batch : \/ o \in batch' \/ o \notin store' \/ Cut
                         \/ ~calm /\ (DeleteFails(o) \/ Finish)
  <1>1. Init => AllSeen
    BY DEF Init, AllSeen
  <1>2. Spec => [](IInv /\ AllSeen)
    BY <1>1, NextSeen, InvariantHolds, PTL DEF Spec
  <1>3. IInv /\ AllSeen => Condemned
    <2> SUFFICES ASSUME IInv, AllSeen, Cut, Collects(cur),
                        NEW o \in store, Lists(cur, o), Due(cur, o)
                 PROVE  o \in batch' \/ Brief(cur)
      OBVIOUS
    <2>1. phase = "cut" /\ cur \in Containers /\ ~conf.dryRun
      BY DEF Cut, Collects, IInv, Visiting
    <2>2. CASE o \in batch
      BY <2>1, <2>2 DEF Cut
    <2>3. CASE listed <= o.mtime + Timeout
      <3>1. /\ o.mtime \in Int /\ now \in Int /\ Timeout \in Int /\ Effective(cur) \in Int
            /\ listed \in Int /\ ListLimit \in Int
        BY <2>1, Labelled, RetentionAssumption DEF IInv, TypeOK, Objects, Times
      <3>2. now <= listed + ListLimit
        BY <2>1 DEF IInv, Listed
      <3> QED
        BY <2>3, <3>1, <3>2 DEF Due, Brief
    <2> QED
      BY <2>1, <2>2, <2>3 DEF AllSeen
  <1>4. IInv /\ AllSeen /\ Next => Done
    <2> SUFFICES ASSUME AllSeen, Next, NEW o \in batch, o \notin batch'
                 PROVE  \/ o \notin store' \/ Cut
                        \/ ~calm /\ (DeleteFails(o) \/ Finish)
      OBVIOUS
    <2>1. phase \in {"cut", "delete"} \/ ~(phase \in {"idle", "next", "list"})
      BY DEF AllSeen
    <2>2. CASE \E p \in batch : Delete(p)
      <3>1. PICK p \in batch : Delete(p)
        BY <2>2
      <3>2. p = o
        BY <3>1 DEF Delete
      <3> QED
        BY <3>1, <3>2 DEF Delete, At
    <2>3. CASE \E p \in batch : DeleteFails(p)
      BY <2>3 DEF DeleteFails
    <2>4. CASE Finish
      BY <2>1, <2>4 DEF Finish
    <2>5. ~Start /\ ~List /\ ~ListFails /\ ~RunEnds
      BY <2>1 DEF Start, List, ListFails, RunEnds
    <2>6. ~\E c \in Containers : PassOver(c) \/ Pick(c)
      BY DEF PassOver, Pick
    <2>7. ~\E c \in Containers : BackupStep(c)
      BY DEF BackupStep, Begin, Append, Succeed, Fail, gcVars
    <2>8. ~Tick /\ ~Calm
      BY DEF Tick, Calm, gcVars
    <2> QED
      BY <2>2, <2>3, <2>4, <2>5, <2>6, <2>7, <2>8 DEF Next, GCStep
  <1>5. IInv /\ AllSeen /\ [Next]_vars => [Condemned]_vars /\ [Done]_vars
    BY <1>3, <1>4
  <1> HIDE DEF Condemned, Done
  <1>6. Spec => [][Condemned]_vars /\ [][Done]_vars
    BY <1>2, <1>5, PTL DEF Spec
  <1> QED
    BY <1>6 DEF Condemned, Done

-----------------------------------------------------------------------------
(* When the retention of a container is respected.                         *)

\* Whoever collects where d puts its objects is not brief and keeps them at least as
\* long as d asks for.  It is so when no prefix lists another's objects, or when
\* those that do have the longer retention.
RespectsOwners ==
    \A c, d \in Containers, o \in Objects :
        MayCollect(c, o) /\ o.at = Place(d) =>
            ~Brief(c) /\ 0 < Effective(d) /\ Effective(d) <= Effective(c)

\* Specifications and environment stay as they are.
LEMMA NeverRelabelled == [Next]_vars => UNCHANGED <<spec, conf>>
  <1>1. ASSUME NEW c \in Containers, BackupStep(c) PROVE UNCHANGED <<spec, conf>>
    BY <1>1 DEF BackupStep, Begin, Append, Succeed, Fail
  <1>2. GCStep => UNCHANGED <<spec, conf>>
    BY DEF GCStep, Start, PassOver, Pick, List, ListFails, Cut, Delete, DeleteFails,
           RunEnds, Finish
  <1> QED
    BY <1>1, <1>2 DEF Next, Tick, Calm, vars

(***************************************************************************)
(* The documented "overrides global" of backup.retention holds where       *)
(* prefixes and retentions respect each other, whatever else goes on: what *)
(* RetentionOwn finds is caused by the labels of other containers alone,   *)
(* never by the order of listing, writing and deleting.                    *)
(***************************************************************************)
THEOREM RespectSuffices == Spec /\ RespectsOwners => DeletedByOwnRetention
  <1> DEFINE Outlived ==
        \A o \in batch :
            Delete(o) => \A p \in At(Key(o), store) : Effective(p.by) > 0 /\ Due(p.by, p)
  <1>1. RespectsOwners /\ [Next]_vars => RespectsOwners'
    BY NeverRelabelled, Rigid DEF RespectsOwners, MayCollect
  <1>2. IInv /\ RespectsOwners => Outlived
    <2> SUFFICES ASSUME IInv, RespectsOwners, NEW o \in batch, Delete(o),
                        NEW p \in At(Key(o), store)
                 PROVE  Effective(p.by) > 0 /\ Due(p.by, p)
      OBVIOUS
    <2>1. phase = "delete" /\ p \in store /\ p \in Objects
      BY DEF Delete, At, IInv, TypeOK
    <2>2. cur \in Containers /\ MayCollect(cur, p) /\ (Due(cur, p) \/ Brief(cur))
      BY <2>1, DeleteFacts
    <2>3. p.by \in Containers /\ p.at = Place(p.by)
      BY <2>1 DEF IInv, Owned, Objects
    <2>4. ~Brief(cur) /\ 0 < Effective(p.by) /\ Effective(p.by) <= Effective(cur)
      BY <2>1, <2>2, <2>3 DEF RespectsOwners
    <2>5. /\ p.mtime \in Int /\ now \in Int
          /\ Effective(cur) \in Int /\ Effective(p.by) \in Int
      BY <2>1, <2>2, <2>3, Labelled, RetentionAssumption DEF IInv, TypeOK, Objects, Times
    <2> QED
      BY <2>2, <2>4, <2>5 DEF Due
  <1> HIDE DEF Outlived
  <1>3. Spec /\ RespectsOwners => [][Outlived]_vars
    BY <1>1, <1>2, InvariantHolds, PTL DEF Spec
  <1> QED
    BY <1>3 DEF Outlived, DeletedByOwnRetention
=============================================================================
