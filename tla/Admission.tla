------------------------------ MODULE Admission ------------------------------
(***************************************************************************)
(* From the labels of a container to the command that dumps its database:  *)
(* parseLabels and the two parsers of retentions, the cron expression, the *)
(* connection test, GetWriter, GenerateObjectName and the four dumpers.    *)
(*                                                                         *)
(* The same labels are read again and again, by code that does not know    *)
(* of the rest: the test, the dump and the object's name each look for the *)
(* database in their own way.  The strings are taken apart here into the   *)
(* pieces that one of them distinguishes.                                  *)
(***************************************************************************)
EXTENDS Integers

CONSTANTS
    Databases,      \* names of databases; "" is none
    Hosts,          \* names of servers, without port or credentials; "" is none
    Names, Clean,   \* what GenerateObjectName leaves of a name: [Databases -> Names]
    Worlds,         \* labels of the container and environment of the agent
    Day, Half       \* 24 hours, and 2^63, in the unit of time.Duration

Types   == {"postgres", "mysql", "mongodb", "redis"}
Schemes == {"postgresql", "mysql", "mongodb", "redis", "none"}

\* scheme://host/path?query: path "none" has no slash, query "slashed" has one
\* ("?tlsCAFile=/etc/ca.pem").  Without a scheme there is only a host, and a port.
Conns == {u \in [scheme: Schemes, host: Hosts \cup {""},
                 path: Databases \cup {"", "none"}, query: {"none", "plain", "slashed"}] :
             u.scheme = "none" => u.path = "none" /\ u.query = "none"}
Empty == [scheme |-> "none", host |-> "", path |-> "none", query |-> "none"]

\* A retention as it is written: "10h"; "7d" or "7"; a period in a form that the
\* parsers do not know, as "4w" or "30days"; no period; nothing.
Settings == [as: {"duration", "days", "foreign", "garbage", "unset"}, n: Int]

LabelSets == [enabled: BOOLEAN, cron: {"", "short", "wrong", "valid"}, type: Types \cup {"", "other"},
              conn: Conns, database: Databases \cup {""},
              dest: {"", "local", "remote", "other"}, retention: Settings]
Environments == [bucket: BOOLEAN, retention: Settings]

ASSUME AdmissionAssumption ==
    /\ Clean \in [Databases -> Names]
    /\ Databases \cap {"", "none", "all", "error"} = {} /\ "" \notin Hosts
    /\ Names \cap {"database", "other"} = {}
    /\ Worlds \subseteq [labels: LabelSets, env: Environments]

ASSUME PeriodAssumption == Day \in Nat \ {0} /\ Half \in Nat \ {0} /\ 7 * Day < Half

VARIABLES
    labels, env,    \* of the container and of the process: never change
    spec,           \* the registered specification, or NoSpec
    stage,          \* "seen", "registered", "scheduled", "tested", "open", "dumping", "failed"
    tested,         \* the database the connection test was about
    name,           \* the database part of the object's name
    dumped,         \* the database the dump tool was given
    blame           \* of a failed run: "labels" or "world"

vars == <<labels, env, spec, stage, tested, name, dumped, blame>>

NoSpec == [type |-> "none"]
Specs  == [type: Types, conn: Conns, database: Databases \cup {""},
           cron: {"wrong", "valid"}, dest: {"", "local", "remote"}, retention: Int]

\* What a command is about: a database, every one of the server, or none; an error.
Targets == Databases \cup {"all", "none", "error"}

(***************************************************************************)
(* The values the variables range over.                                    *)
(***************************************************************************)
TypeOK ==
    /\ labels \in LabelSets /\ env \in Environments
    /\ spec \in Specs \cup {NoSpec}
    /\ stage \in {"seen", "registered", "scheduled", "tested", "open", "dumping", "failed"}
    /\ tested \in Targets /\ dumped \in Targets
    /\ name \in Names \cup {"", "database", "other", "none"}
    /\ blame \in {"none", "labels", "world"}

Init ==
    /\ \E w \in Worlds : labels = w.labels /\ env = w.env
    /\ spec = NoSpec /\ stage = "seen"
    /\ tested = "none" /\ name = "none" /\ dumped = "none" /\ blame = "none"

-----------------------------------------------------------------------------
(* Labels and environment.                                                 *)

\* A product of time.Durations, which are 64 bits wide.
Wrap(n) == ((n + Half) % (2 * Half)) - Half

\* Mutant: a number is a number of hours.
InDaysOrHours(n) == n * (Day \div 24)

InDays(n) == Wrap(n * Day)

\* parseRetentionDuration: a value it cannot use is 0, and 0 is the global period.
LabelRetention(r) ==
    CASE r.as = "duration" /\ r.n >= 0 -> r.n
      [] r.as = "days" /\ r.n >= 0     -> InDays(r.n)
      [] OTHER                         -> 0

\* parseRetentionPeriod: a value it cannot use is replaced by the default "7d",
\* which time.ParseDuration does not know: 0.
GlobalRetention(r) ==
    CASE r.as = "unset"                -> InDays(7)
      [] r.as = "duration" /\ r.n >= 0 -> r.n
      [] r.as = "days" /\ r.n >= 0     -> InDays(r.n)
      [] OTHER                         -> 0

\* Mutant: the destination is left to GetWriter.
AcceptsAnyDest(l) ==
    l.enabled /\ l.cron \notin {"", "short"} /\ l.type \in Types /\ (l.conn = Empty => l.type = "redis")

\* parseLabels and validateLabelValues.
Accepts(l) ==
    /\ l.enabled
    /\ l.cron \notin {"", "short"} /\ l.type \in Types /\ l.dest # "other"
    /\ l.conn = Empty => l.type = "redis"

ParseLabels(l) ==
    IF Accepts(l)
    THEN [type |-> l.type, conn |-> l.conn, database |-> l.database, cron |-> l.cron,
          dest |-> l.dest, retention |-> LabelRetention(l.retention)]
    ELSE NoSpec

-----------------------------------------------------------------------------
(* The object's name.                                                      *)

\* Mutant: the label alone counts.
DatabasePartOfLabel(s) == IF s.database # "" THEN Clean[s.database] ELSE "database"

\* GenerateObjectName: the label, or what is behind the last slash of the connection
\* string, wherever that is ("other": its server, or an end of its query).
DatabasePart(s) ==
    LET u == s.conn IN
    CASE s.database # ""                                -> Clean[s.database]
      [] s.database = "" /\ u.scheme = "none"           -> "database"
      [] s.database = "" /\ u.scheme # "none" /\ u.query = "slashed" -> "other"
      [] s.database = "" /\ u.scheme # "none" /\ u.query # "slashed" ->
            CASE u.path \in Databases -> Clean[u.path]
              [] u.path = ""          -> ""
              [] u.path = "none"      -> "other"

-----------------------------------------------------------------------------
(* The dumpers.                                                            *)

\* parsePostgresURI; both commands name the database of the path.
PostgresURI(u) == u.scheme = "postgresql" /\ u.host # "" /\ u.path \in Databases

\* Mutant: psql alone would find a database of its own.
TestPostgresServer(s) ==
    CASE PostgresURI(s.conn) -> s.conn.path
      [] s.conn.scheme = "postgresql" /\ s.conn.path \notin Databases -> "none"
      [] OTHER -> "error"

TestPostgres(s) == IF PostgresURI(s.conn) THEN s.conn.path ELSE "error"

DumpPostgres(s) == IF PostgresURI(s.conn) THEN s.conn.path ELSE "error"

\* parseMySQLURI asks for no database, the dump does: the label's or the path's.
MySQLURI(u) == u.scheme = "mysql" /\ u.host # ""
MySQLDatabase(s) ==
    CASE s.database # ""                                -> s.database
      [] s.database = "" /\ s.conn.path \in Databases    -> s.conn.path
      [] s.database = "" /\ s.conn.path \notin Databases -> "none"

\* Mutant: the test takes the database of the path.
TestMySQLPath(s) ==
    CASE MySQLURI(s.conn) /\ s.conn.path \in Databases -> s.conn.path
      [] MySQLURI(s.conn) /\ s.conn.path \notin Databases -> "none"
      [] OTHER -> "error"

TestMySQL(s) == IF MySQLURI(s.conn) THEN MySQLDatabase(s) ELSE "error"

DumpMySQL(s) ==
    IF MySQLURI(s.conn) /\ MySQLDatabase(s) # "none" THEN MySQLDatabase(s) ELSE "error"

\* mongodump gets the connection string, and --db unless "/database" seems to be in it:
\* where it is the path, or the server.  Without either it dumps every database.
SeemsToName(u, d) == u.path = d \/ (u.path = "none" /\ u.host = d)
PassesDb(s) == s.database # "" /\ ~SeemsToName(s.conn, s.database)
MongoPath(u) == IF u.path \in Databases THEN u.path ELSE "all"

\* The test is a mongodump as well, without --db.
TestMongo(s) == IF s.conn = Empty THEN "error" ELSE MongoPath(s.conn)

\* mongodump itself refuses a --db beside a path that names another database.
TwoDatabases(s) == PassesDb(s) /\ s.conn.path \in Databases

DumpMongo(s) ==
    CASE s.conn = Empty \/ TwoDatabases(s)                        -> "error"
      [] s.conn # Empty /\ PassesDb(s) /\ ~TwoDatabases(s)        -> s.database
      [] s.conn # Empty /\ ~PassesDb(s)                           -> MongoPath(s.conn)

\* parseRedisConn: what is no redis:// is read as host:port, a foreign scheme as the host.
RedisConn(u) == u.host # "" \/ u.scheme \notin {"redis", "none"}

\* redis-cli -n selects a database for a ping; an RDB is of all of them.
TestRedis(s) ==
    CASE ~RedisConn(s.conn)                     -> "error"
      [] RedisConn(s.conn) /\ s.database # ""   -> s.database
      [] RedisConn(s.conn) /\ s.database = ""   ->
            IF s.conn.scheme = "redis" /\ s.conn.path \in Databases THEN s.conn.path ELSE "none"
DumpRedis(s) == IF RedisConn(s.conn) THEN "all" ELSE "error"

\* GetDumper: the four types that parseLabels accepts are registered.
Test(s) == CASE s.type = "postgres" -> TestPostgres(s) [] s.type = "mysql" -> TestMySQL(s)
             [] s.type = "mongodb"  -> TestMongo(s)    [] s.type = "redis" -> TestRedis(s)
Dump(s) == CASE s.type = "postgres" -> DumpPostgres(s) [] s.type = "mysql" -> DumpMySQL(s)
             [] s.type = "mongodb"  -> DumpMongo(s)    [] s.type = "redis" -> DumpRedis(s)

-----------------------------------------------------------------------------
(* The steps, of one run.                                                  *)

Register ==
    /\ stage = "seen" /\ ParseLabels(labels) # NoSpec
    /\ spec' = ParseLabels(labels) /\ stage' = "registered"
    /\ UNCHANGED <<labels, env, tested, name, dumped, blame>>

\* AddOrUpdateJob puts a "0 " before five fields; AddFunc refuses what it cannot parse,
\* and the specification stays without a job.
AddJob ==
    /\ stage = "registered" /\ spec.cron = "valid"
    /\ stage' = "scheduled"
    /\ UNCHANGED <<labels, env, spec, tested, name, dumped, blame>>

Fail(who) ==
    /\ stage' = "failed" /\ blame' = who
    /\ UNCHANGED <<labels, env, spec, tested, name, dumped>>

\* The server answers, or does not.
TestConnection ==
    /\ stage = "scheduled"
    /\ \/ /\ Test(spec) # "error"
          /\ tested' = Test(spec) /\ stage' = "tested"
          /\ UNCHANGED <<labels, env, spec, name, dumped, blame>>
       \/ Test(spec) = "error" /\ Fail("labels")
       \/ Test(spec) # "error" /\ Fail("world")

\* GetWriter takes "" for "local"; the S3 writer needs a bucket that answers, the
\* local one a disk that is not full.  Then the object has a name, and the writer starts.
OpenWriter ==
    /\ stage = "tested"
    /\ \/ /\ spec.dest \in {"", "local"} \/ env.bucket
          /\ name' = DatabasePart(spec) /\ stage' = "open"
          /\ UNCHANGED <<labels, env, spec, tested, dumped, blame>>
       \/ Fail("world")

\* The tool is started, or cannot be.
StartDump ==
    /\ stage = "open"
    /\ \/ /\ Dump(spec) # "error"
          /\ dumped' = Dump(spec) /\ stage' = "dumping"
          /\ UNCHANGED <<labels, env, spec, tested, name, blame>>
       \/ Dump(spec) = "error" /\ Fail("labels")
       \/ Dump(spec) # "error" /\ Fail("world")

Next == Register \/ AddJob \/ TestConnection \/ OpenWriter \/ StartDump

Spec == Init /\ [][Next]_vars

-----------------------------------------------------------------------------
(* Properties.                                                             *)

(***************************************************************************)
(* An object named after a database holds a dump of it, although the name  *)
(* and the command are made by code that knows nothing of the other:       *)
(* unless backup.database names another one than the path of a postgres    *)
(* connection, or a slash in the query misleads the name.  A dump of all   *)
(* that a server has comes from redis, and from mongodb without a path.    *)
(***************************************************************************)
Misnamed(s) ==
    \/ s.type = "postgres" /\ s.database \notin {"", s.conn.path}
    \/ s.database = "" /\ s.conn.query = "slashed"
WholeServer(s) ==
    \/ s.type = "redis"
    \/ s.type = "mongodb" /\ s.conn.path \notin Databases

NameTellsContent ==
    stage = "dumping" =>
        IF dumped = "all" THEN WholeServer(spec)
                          ELSE Misnamed(spec) \/ name = Clean[dumped]

(***************************************************************************)
(* The database that is dumped is the one that the connection test was     *)
(* about: except for redis, where the test selects one and the dump takes  *)
(* all, and for mongodb without a path, where the test, which leaves       *)
(* backup.database out, is about the whole server.                         *)
(***************************************************************************)
TestVouchesForDump ==
    stage = "dumping" =>
        \/ tested = dumped
        \/ spec.type = "redis"
        \/ spec.type = "mongodb" /\ tested = "all"

(***************************************************************************)
(* Labels that no dump can come of are found out by the connection test,   *)
(* before the writer has made an object of the run: all but those of a     *)
(* mysql server without a database, and of mongodb with one database in    *)
(* the path and another in backup.database.                                *)
(***************************************************************************)
NothingOpenedInVain ==
    stage = "failed" /\ blame = "labels" /\ name # "none" =>
        \/ spec.type = "mysql" /\ spec.database = "" /\ spec.conn.path \notin Databases
        \/ spec.type = "mongodb" /\ spec.conn.path \in Databases
                                 /\ spec.database \notin {"", spec.conn.path}

(***************************************************************************)
(* A container's backups are kept exactly as long as its label asks in a   *)
(* documented form.  A label in any other form is not heard, only logged:  *)
(* GLOBAL_RETENTION_PERIOD governs then as if there were no label, and     *)
(* "4w" is kept shorter than it says.  Without that variable, seven days   *)
(* govern; with one that is not understood, the backups are kept for ever. *)
(* Days that are too many for 64 bits of nanoseconds come to anything.     *)
(***************************************************************************)
Documented(r) == r.as \in {"duration", "days"} /\ r.n > 0
Period(r)     == IF r.as = "days" THEN r.n * Day ELSE r.n
Overflow(r)   == r.as = "days" /\ r.n * Day >= Half
Forever       == 0

Governing == IF Documented(labels.retention) THEN labels.retention ELSE env.retention

\* gc.NewRunner; a retention that is not positive collects nothing.
Effective == IF spec.retention > 0 THEN spec.retention ELSE GlobalRetention(env.retention)

KeptAsAsked ==
    spec # NoSpec =>
        \/ Overflow(Governing)
        \/ Effective = CASE Documented(Governing)   -> Period(Governing)
                         [] Governing.as = "unset"  -> 7 * Day
                         [] OTHER                   -> Forever

=============================================================================
