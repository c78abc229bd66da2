------------------------------ MODULE Retention ------------------------------
(***************************************************************************)
(* The nightly collection beside the backups: main's runGlobalGC, gc.Runner *)
(* and what ListObjects, DeleteObject, GetWriter and GenerateObjectName do  *)
(* in the two stores.                                                      *)
(*                                                                         *)
(* A collection works on a copy of the registry.  For one container after  *)
(* another it opens a writer, lists by the container's prefix, and deletes *)
(* what was last modified before the cut-off of that container.  Backups   *)
(* begin, write, succeed and fail at any moment in between; of a backup    *)
(* only the steps are here that the store shows (BackupJob has the rest).  *)
(*                                                                         *)
(* A prefix is a string, and two prefixes matter to each other only by     *)
(* what their listings show: Inside and Spells.  Time is counted in ticks. *)
(***************************************************************************)
EXTENDS Integers, FiniteSets

CONSTANTS
    Containers,
    Prefixes,       \* values of backup.prefix
    Dirs,           \* those values without the slashes at their ends
    Dir,            \* of a prefix: the directory its objects are put into
    Inside,         \* <<d, e>>: the directory e is d, or lies inside it
    Spells,         \* <<p, d>>: the keys in the directory d begin with the string p
    Worlds,         \* what the labels of the containers and the environment ask for
    Files,          \* the part of an object's name from type and database
    Fires,          \* ticks at which the schedule of each container fires
    Timeout,        \* ticks a backup may take (BACKUP_TIMEOUT_MINUTES)
    ListLimit,      \* ticks from the listing to the cut-off at most (thirty seconds)
    Room,           \* local objects that leave a tenth of the disk free
    Horizon,        \* bound on the clock
    Nobody

Dests == {"local", "remote"}

Specs == [prefix: Prefixes, dest: Dests, file: Files, retention: Int]

ASSUME RetentionAssumption ==
    /\ Dir \in [Prefixes -> Dirs]
    /\ Worlds \subseteq [spec: [Containers -> Specs], conf: [retention: Int, dryRun: BOOLEAN]]
    /\ Timeout \in Nat \ {0} /\ ListLimit \in Nat /\ Room \in Nat /\ Horizon \in Nat
    /\ Fires \in [Containers -> SUBSET Nat]
    /\ Nobody \notin Containers

VARIABLES
    now,            \* the clock of the agent and of the stores
    spec, conf,     \* specification of each container, environment: never change
    store,          \* the objects of both stores
    backup,         \* of each container: the stage of its backup, and its beginning
    phase,          \* of the collection: "idle", "next", "list", "cut" or "delete"
    todo,           \* specifications of the copied registry still to come, by container
    cur,            \* the container it is at
    listed,         \* when the listing was taken that is to be cut; 0 if there is none
    batch,          \* objects listed, then those of them that are to be deleted
    calm            \* from now on no call to a store fails, and no collection takes an hour

gcVars == <<phase, todo, cur, listed, batch>>
vars   == <<now, spec, conf, store, backup, gcVars, calm>>

\* Objects are told apart by where they are, the second in their name, and
\* whether they are the dump or its metadata.
Place(c) == [dest |-> spec[c].dest, dir |-> Dir[spec[c].prefix], file |-> spec[c].file]
Key(o)   == [at |-> o.at, stamp |-> o.stamp, meta |-> o.meta]

Times   == 0..Horizon
Places  == [dest: Dests, dir: Dirs, file: Files]
Keys    == [at: Places, stamp: Times, meta: BOOLEAN]
Objects == [at: Places, stamp: Times, meta: BOOLEAN, mtime: Times, by: Containers]

(***************************************************************************)
(* The values the variables range over.                                    *)
(***************************************************************************)
TypeOK ==
    /\ now \in Times /\ listed \in Times
    /\ [spec |-> spec, conf |-> conf] \in Worlds
    /\ store \subseteq Objects
    /\ backup \in [Containers -> [writing: BOOLEAN, since: -1..Horizon]]
    /\ phase \in {"idle", "next", "list", "cut", "delete"}
    /\ todo \subseteq Containers /\ cur \in Containers \cup {Nobody}
    /\ batch \subseteq Objects /\ calm \in BOOLEAN

Init ==
    /\ now = 0
    /\ \E w \in Worlds : spec = w.spec /\ conf = w.conf
    /\ store = {}
    /\ backup = [c \in Containers |-> [writing |-> FALSE, since |-> -1]]
    /\ phase = "idle" /\ todo = {} /\ cur = Nobody /\ listed = 0 /\ batch = {}
    /\ calm = FALSE

-----------------------------------------------------------------------------
(* Backups, as the stores see them.                                        *)

\* GenerateObjectName: a resolution of one second.
ObjectName(c, t) == [at |-> Place(c), stamp |-> t, meta |-> FALSE]

MetadataName(k) == [at |-> k.at, stamp |-> k.stamp, meta |-> TRUE]

At(k, objects) == {o \in objects : Key(o) = k}
Put(k, c, t, objects) == (objects \ At(k, objects)) \cup
    {[at |-> k.at, stamp |-> k.stamp, meta |-> k.meta, mtime |-> t, by |-> c]}

\* checkDiskSpaceImpl, asked by NewLocalWriter and again by Write.
Local(c)   == spec[c].dest = "local"
Full       == Cardinality({o \in store : o.at.dest = "local"}) >= Room
Blocked(c) == Local(c) /\ Full

Writing(c) == backup[c].writing
Name(c)    == ObjectName(c, backup[c].since)

\* Mutant: a backup that ended is dated by its deadline.
SettledLate(c) ==
    backup' = [backup EXCEPT ![c] = [writing |-> FALSE, since |-> now + 2 * Timeout]]

Settled(c) == backup' = [backup EXCEPT ![c].writing = FALSE]

\* Cron starts at most one run of an entry a second, and none while one goes on.
\* The table of jobs keeps containers that left the registry.  A local file is there
\* from its creation on, an upload from its end on.
Begin(c) ==
    /\ ~Writing(c) /\ backup[c].since < now /\ now \in Fires[c]
    /\ ~Blocked(c)
    /\ backup' = [backup EXCEPT ![c] = [writing |-> TRUE, since |-> now]]
    /\ store' = IF Local(c) THEN Put(ObjectName(c, now), c, now, store) ELSE store
    /\ UNCHANGED <<now, spec, conf, gcVars, calm>>

\* Data goes to the open file: the object is modified, if it still has a name.
Append(c) ==
    /\ Writing(c) /\ Local(c)
    /\ store' = {IF Key(o) = Name(c) THEN [o EXCEPT !.mtime = now] ELSE o : o \in store}
    /\ UNCHANGED <<now, spec, conf, backup, gcVars, calm>>

\* Both goroutines ended without an error.  S3 dates an object by the beginning
\* or by the end of its upload, depending on its size.
Written(c) == IF Local(c) THEN {store}
                          ELSE {Put(Name(c), c, t, store) : t \in {backup[c].since, now}}

\* WriteMetadata follows at once; its failure is only logged.
Succeed(c) ==
    /\ Writing(c)
    /\ \E objects \in Written(c) :
          \/ store' = objects
          \/ ~Blocked(c) /\ store' = Put(MetadataName(Name(c)), c, now, objects)
    /\ Settled(c)
    /\ UNCHANGED <<now, spec, conf, gcVars, calm>>

\* The writer removes what it wrote, or fails to; or the agent exits, and nothing does.
\* An upload whose answer is lost is in the bucket all the same, and stays there.
Fail(c) ==
    /\ Writing(c)
    /\ \/ UNCHANGED store
       \/ Local(c) /\ store' = store \ At(Name(c), store)
       \/ ~Local(c) /\ store' \in Written(c)
    /\ Settled(c)
    /\ UNCHANGED <<now, spec, conf, gcVars, calm>>

-----------------------------------------------------------------------------
(* The collection.                                                         *)

\* NewRunner: the retention of the specification, if it has one.
Effective(c) == IF spec[c].retention > 0 THEN spec[c].retention ELSE conf.retention

\* Mutant: the walk needs a prefix.
LocalListsUnder(p, d) == p # "" /\ <<Dir[p], d>> \in Inside

\* LocalWriter.ListObjects walks the directory of the prefix; an empty prefix is
\* all of the base path.  S3 compares keys with the prefix as it was given.
LocalLists(p, d)  == <<Dir[p], d>> \in Inside

RemoteLists(p, d) == <<p, d>> \in Spells
Lists(c, o) ==
    /\ o.at.dest = spec[c].dest
    /\ IF Local(c) THEN LocalLists(spec[c].prefix, o.at.dir)
                   ELSE RemoteLists(spec[c].prefix, o.at.dir)

\* Mutant: objects as old as the retention are deleted as well, or younger ones.
DueEarly(c, o) == o.mtime + Effective(c) <= now

Due(c, o) == o.mtime + Effective(c) < now

\* Every night at four.  GetRegistry returns a copy of the registry, which may be any
\* set of containers: the watcher adds to it and takes from it (Discovery).
Start ==
    /\ phase = "idle"
    /\ phase' = "next" /\ todo' \in SUBSET Containers
    /\ UNCHANGED <<now, spec, conf, store, backup, cur, listed, batch, calm>>

\* The range over the copy, in any order.  GetWriter may refuse (a full disk, a bucket
\* that does not answer), and a retention that is not positive ends RunGC at once.
PassOver(c) ==
    /\ phase = "next" /\ c \in todo
    /\ Blocked(c) \/ Effective(c) <= 0 \/ ~calm
    /\ todo' = todo \ {c}
    /\ UNCHANGED <<now, spec, conf, store, backup, phase, cur, listed, batch, calm>>

\* Mutant: RunGC without the test of the retention.
PickUnconfigured(c) ==
    /\ phase = "next" /\ c \in todo /\ ~Blocked(c)
    /\ todo' = todo \ {c} /\ cur' = c /\ phase' = "list"
    /\ UNCHANGED <<now, spec, conf, store, backup, listed, batch, calm>>

Pick(c) ==
    /\ phase = "next" /\ c \in todo
    /\ ~Blocked(c) /\ Effective(c) > 0
    /\ todo' = todo \ {c} /\ cur' = c /\ phase' = "list"
    /\ UNCHANGED <<now, spec, conf, store, backup, listed, batch, calm>>

List ==
    /\ phase = "list"
    /\ phase' = "cut" /\ listed' = now /\ batch' = {o \in store : Lists(cur, o)}
    /\ UNCHANGED <<now, spec, conf, store, backup, todo, cur, calm>>

\* The listing fails, or takes more than thirty seconds: RunGC returns.
ListFails ==
    /\ phase = "list" /\ ~calm
    /\ phase' = "next" /\ cur' = Nobody
    /\ UNCHANGED <<now, spec, conf, store, backup, todo, listed, batch, calm>>

\* cutoffDate is taken after the listing, and compared with the times listed.
Cut ==
    /\ phase = "cut"
    /\ phase' = "delete" /\ listed' = 0
    /\ batch' = IF conf.dryRun THEN {} ELSE {o \in batch : Due(cur, o)}
    /\ UNCHANGED <<now, spec, conf, store, backup, todo, cur, calm>>

\* DeleteObject goes by the key: what is there now is deleted.
Delete(o) ==
    /\ phase = "delete" /\ o \in batch
    /\ batch' = batch \ {o}
    /\ store' = store \ At(Key(o), store)
    /\ UNCHANGED <<now, spec, conf, backup, phase, todo, cur, listed, calm>>

DeleteFails(o) ==
    /\ phase = "delete" /\ o \in batch /\ ~calm
    /\ batch' = batch \ {o}
    /\ UNCHANGED <<now, spec, conf, store, backup, phase, todo, cur, listed, calm>>

RunEnds ==
    /\ phase = "delete" /\ batch = {}
    /\ phase' = "next" /\ cur' = Nobody
    /\ UNCHANGED <<now, spec, conf, store, backup, todo, listed, batch, calm>>

\* All specifications are done, or the hour is over: ctx.Err() ends it anywhere.
Finish ==
    /\ phase # "idle"
    /\ \/ todo = {} /\ phase = "next"
       \/ ~calm
    /\ phase' = "idle" /\ todo' = {} /\ cur' = Nobody /\ listed' = 0 /\ batch' = {}
    /\ UNCHANGED <<now, spec, conf, store, backup, calm>>

-----------------------------------------------------------------------------
(* The rest of the world.                                                  *)

\* A backup ends within its timeout (BackupJob!JobEndsUnlessStranded), cron is not
\* late by more than that; the listing ends in time, and the cut-off follows at once.
Tick ==
    /\ now < Horizon
    /\ \A c \in Containers : Writing(c) => now < backup[c].since + Timeout
    /\ phase = "cut" => now < listed + ListLimit
    /\ now' = now + 1
    /\ UNCHANGED <<spec, conf, store, backup, gcVars, calm>>

Calm == ~calm /\ calm' = TRUE /\ UNCHANGED <<now, spec, conf, store, backup, gcVars>>

BackupStep(c) == Begin(c) \/ Append(c) \/ Succeed(c) \/ Fail(c)
GCStep ==
    \/ Start \/ List \/ ListFails \/ Cut \/ RunEnds \/ Finish
    \/ \E c \in Containers : PassOver(c) \/ Pick(c)
    \/ \E o \in batch : Delete(o) \/ DeleteFails(o)

Next ==
    \/ Tick \/ Calm \/ GCStep
    \/ \E c \in Containers : BackupStep(c)

Spec == Init /\ [][Next]_vars

\* The collection has a goroutine of its own, and time limits on what it waits for.
FairSpec == Spec /\ WF_vars(GCStep)

-----------------------------------------------------------------------------
(* Properties.                                                             *)

\* Two containers whose backups get the same names when they begin in one second.
Twins(c, d) == c # d /\ Place(c) = Place(d)

\* A retention shorter than a backup may take: the file grows old while it grows.
\* A brief one may be over between the listing of an object and the cut-off, while
\* the backup ends.
Collects(c) == ~conf.dryRun /\ Effective(c) > 0
Hasty(c)    == Collects(c) /\ Effective(c) < Timeout
Brief(c)    == Collects(c) /\ Effective(c) < Timeout + ListLimit

\* The backup that is writing under the key, and the collections that list the object.
IsWritten(o) == \E c \in Containers : Writing(c) /\ Key(o) = Name(c)
MayCollect(c, o) == Collects(c) /\ Lists(c, o)

\* A twin, or a hasty collection that lists what the backup of c writes.
Excused(c) ==
    \/ \E d \in Containers : Twins(c, d)
    \/ \E d \in Containers, o \in Objects : Key(o) = Name(c) /\ MayCollect(d, o) /\ Hasty(d)

MayGo(o) ==
    \/ IsWritten(o)
    \/ \E c, d \in Containers : Twins(c, d) /\ Place(c) = o.at
    \/ \E c \in Containers : MayCollect(c, o) /\ (Due(c, o) \/ Brief(c))

(***************************************************************************)
(* What is stored stays as it is, unless its backup is still writing it,   *)
(* another backup has the same name, or a collection that lists it finds   *)
(* it due when it deletes it: not only when it was listed.  A dry run and  *)
(* a retention of zero delete nothing.  (The listing, the cut-off and each *)
(* DeleteObject of RunGC are apart, and backups write in between.)         *)
(***************************************************************************)
StoredIsSpared == [][\A o \in store : o \in store' \/ MayGo(o)]_vars

(***************************************************************************)
(* When a backup succeeds, the object it reports is there and is its own,  *)
(* whatever collections ran since it began: unless a collection that       *)
(* lists it is hasty, or a twin wrote to the same name.                    *)
(***************************************************************************)
ReportedIsStored ==
    [][\A c \in Containers :
        Succeed(c) => (\E o \in store' : Key(o) = Name(c) /\ o.by = c) \/ Excused(c)]_vars

(***************************************************************************)
(* Once the calls to the stores succeed again, what a container stored is  *)
(* deleted when its retention is over, if collections find the container   *)
(* in the registry time and again, its writer is not refused for good, and *)
(* its keys begin with its prefix as the bucket compares it.               *)
(***************************************************************************)
ListsOwn(c) == Local(c) \/ <<spec[c].prefix, Dir[spec[c].prefix]>> \in Spells
Rid(c)      == \A o \in store : o.at = Place(c) => ~Due(c, o)

DueAreCollected ==
    \A c \in Containers :
        <>[]calm /\ []<>(c \in todo) /\ <>[]~Blocked(c)
            => []<>(Collects(c) /\ ListsOwn(c) => Rid(c))

(***************************************************************************)
(* "backup.retention: Retention period (overrides global)" (README): an    *)
(* object that a collection deletes had outlived the retention of the      *)
(* container that wrote it.                                                *)
(***************************************************************************)
DeletedByOwnRetention ==
    [][\A o \in batch :
        Delete(o) => \A p \in At(Key(o), store) : Effective(p.by) > 0 /\ Due(p.by, p)]_vars
=============================================================================
