--------------------------- MODULE AdmissionProofs ---------------------------
(***************************************************************************)
(* Proofs about Admission for any databases, servers, labels and           *)
(* environments: what the connection test, the object's name and the dump  *)
(* have to do with each other, and for how long backups are kept.          *)
(***************************************************************************)
EXTENDS Admission, TLAPS

\* What a run has done so far was computed from the labels of its container.
Computed ==
    /\ stage = "seen" => spec = NoSpec
    /\ stage # "seen" => spec = ParseLabels(labels) /\ spec \in Specs
    /\ stage \in {"tested", "open", "dumping"} => tested = Test(spec) /\ tested # "error"
    /\ stage \in {"seen", "registered", "scheduled", "tested"} => name = "none"
    /\ stage \in {"open", "dumping"} => name = DatabasePart(spec)
    /\ stage = "dumping" => dumped = Dump(spec) /\ dumped # "error"
    /\ stage = "failed" /\ blame = "labels" /\ name # "none" =>
            Test(spec) # "error" /\ Dump(spec) = "error"

IInv == TypeOK /\ Computed

-----------------------------------------------------------------------------
(* The arithmetic of periods.                                              *)

LEMMA Remainder ==
  ASSUME NEW m \in Nat \ {0}, NEW x \in Int
  PROVE  x % m \in Int /\ (x \in 0..(m - 1) => x % m = x)
  OBVIOUS

LEMMA WrapIsRemainder ==
  ASSUME NEW n \in Int
  PROVE  Wrap(n) \in Int /\ (n >= 0 /\ n < Half => Wrap(n) = n)
  <1> DEFINE m == 2 * Half
  <1> DEFINE x == n + Half
  <1>1. /\ m \in Nat \ {0} /\ x \in Int /\ Half \in Nat
        /\ x - Half = n /\ (n >= 0 /\ n < Half => x \in 0..(m - 1))
    BY PeriodAssumption
  <1>2. Wrap(n) = (x % m) - Half
    BY DEF Wrap
  <1> HIDE DEF m, x
  <1>3. x % m \in Int /\ (x \in 0..(m - 1) => x % m = x)
    BY <1>1, Remainder
  <1> QED
    BY <1>1, <1>2, <1>3

LEMMA Product ==
  ASSUME NEW n \in Nat, NEW d \in Nat \ {0}
  PROVE  n * d \in Nat /\ (n > 0 => n * d > 0) /\ (n = 0 => n * d = 0)
  <1>1. n * d \in Int /\ n * d >= 0
    OBVIOUS
  <1>2. n > 0 => n * d > 0
    OBVIOUS
  <1>3. n = 0 => n * d = 0
    OBVIOUS
  <1> QED
    BY <1>1, <1>2, <1>3

LEMMA RetentionsAreInts ==
  ASSUME NEW r \in Settings
  PROVE  LabelRetention(r) \in Int /\ GlobalRetention(r) \in Int
  <1>1. r.n \in Int /\ r.as \in {"duration", "days", "foreign", "garbage", "unset"}
    BY DEF Settings
  <1>2. 7 * Day \in Int /\ r.n * Day \in Int
    BY <1>1, PeriodAssumption
  <1>3. InDays(7) \in Int /\ InDays(r.n) \in Int
    BY <1>2, WrapIsRemainder DEF InDays
  <1> QED
    BY <1>1, <1>3 DEF LabelRetention, GlobalRetention

\* A documented period that fits is what the parsers return; else they return none,
\* except that the agent has one of its own.
LEMMA Understood ==
  ASSUME NEW r \in Settings, ~Overflow(r)
  PROVE  /\ Documented(r) => /\ LabelRetention(r) = Period(r) /\ GlobalRetention(r) = Period(r)
                             /\ Period(r) > 0 /\ Period(r) \in Int
         /\ ~Documented(r) => /\ LabelRetention(r) = 0
                              /\ GlobalRetention(r) = IF r.as = "unset" THEN 7 * Day ELSE 0
  <1>1. r.n \in Int /\ r.as \in {"duration", "days", "foreign", "garbage", "unset"}
    BY DEF Settings
  <1>2. CASE r.as = "days" /\ r.n >= 0
    <2>1. r.n \in Nat /\ r.n * Day \in Nat /\ r.n * Day < Half
          /\ (r.n > 0 => r.n * Day > 0) /\ (r.n = 0 => r.n * Day = 0)
      BY <1>1, <1>2, Product, PeriodAssumption DEF Overflow
    <2>2. InDays(r.n) = r.n * Day
      BY <2>1, WrapIsRemainder DEF InDays
    <2> QED
      BY <1>2, <2>1, <2>2 DEF LabelRetention, GlobalRetention, Documented, Period
  <1>3. CASE r.as = "unset"
    <2>1. 7 * Day \in Int /\ 7 * Day >= 0 /\ 7 * Day < Half
      BY PeriodAssumption
    <2>2. InDays(7) = 7 * Day
      BY <2>1, WrapIsRemainder DEF InDays
    <2> QED
      BY <1>3, <2>2 DEF LabelRetention, GlobalRetention, Documented
  <1>4. CASE r.as \in {"duration", "foreign", "garbage"} \/ (r.as = "days" /\ r.n < 0)
    BY <1>1, <1>4 DEF LabelRetention, GlobalRetention, Documented, Period
  <1> QED
    BY <1>1, <1>2, <1>3, <1>4

\* A label that is not documented asks for no days that could overflow.
LEMMA Unheard ==
  ASSUME NEW r \in Settings, ~Documented(r)
  PROVE  ~Overflow(r)
  <1>1. r.n \in Int /\ (r.as = "days" => r.n <= 0)
    BY DEF Settings, Documented
  <1>2. r.as = "days" => r.n * Day <= 0
    BY <1>1, PeriodAssumption
  <1> QED
    BY <1>1, <1>2, PeriodAssumption DEF Overflow

-----------------------------------------------------------------------------
(* What names, tests and dumps make of a specification.                    *)

LEMMA Spelled ==
  ASSUME NEW s \in Specs
  PROVE  /\ s.type \in Types /\ s.database \in Databases \cup {""}
         /\ s.conn \in Conns
         /\ s.conn.path \in Databases \cup {"", "none"}
         /\ s.conn.scheme \in Schemes
         /\ s.conn.query \in {"none", "plain", "slashed"}
         /\ s.conn.scheme = "none" => s.conn.path = "none"
  BY DEF Specs, Conns

LEMMA TestsAndDumps ==
  ASSUME NEW s \in Specs
  PROVE  /\ s.type = "postgres" => Test(s) = TestPostgres(s) /\ Dump(s) = DumpPostgres(s)
         /\ s.type = "mysql" => Test(s) = TestMySQL(s) /\ Dump(s) = DumpMySQL(s)
         /\ s.type = "mongodb" => Test(s) = TestMongo(s) /\ Dump(s) = DumpMongo(s)
         /\ s.type = "redis" => Test(s) = TestRedis(s) /\ Dump(s) = DumpRedis(s)
         /\ s.type \in {"postgres", "mysql", "mongodb", "redis"}
  BY Spelled DEF Test, Dump, Types

LEMMA TargetsOnly ==
  ASSUME NEW s \in Specs
  PROVE  /\ Test(s) \in Targets /\ Dump(s) \in Targets
         /\ DatabasePart(s) \in Names \cup {"", "database", "other", "none"}
  <1>1. Test(s) \in Targets
    BY Spelled, TestsAndDumps
      DEF Targets, TestPostgres, PostgresURI, TestMySQL, MySQLURI, MySQLDatabase, TestMongo,
          MongoPath, TestRedis, RedisConn
  <1>2. Dump(s) \in Targets
    BY Spelled, TestsAndDumps
      DEF Targets, DumpPostgres, PostgresURI, DumpMySQL, MySQLURI, MySQLDatabase, DumpMongo,
          MongoPath, PassesDb, TwoDatabases, DumpRedis
  <1>3. DatabasePart(s) \in Names \cup {"", "database", "other", "none"}
    BY Spelled, AdmissionAssumption DEF DatabasePart
  <1> QED
    BY <1>1, <1>2, <1>3

\* The name and the dump look for the database separately, and find the same one.
LEMMA NamedAsDumped ==
  ASSUME NEW s \in Specs, Dump(s) # "error"
  PROVE  IF Dump(s) = "all" THEN WholeServer(s)
                            ELSE Misnamed(s) \/ DatabasePart(s) = Clean[Dump(s)]
  <1> USE AdmissionAssumption
  <1>1. CASE s.type = "postgres"
    <2>1. /\ Dump(s) = s.conn.path /\ s.conn.path \in Databases
          /\ s.conn.scheme = "postgresql"
      BY <1>1, TestsAndDumps DEF DumpPostgres, PostgresURI
    <2>2. Misnamed(s) \/ DatabasePart(s) = Clean[s.conn.path]
      BY <1>1, <2>1, Spelled DEF Misnamed, DatabasePart
    <2> QED
      BY <2>1, <2>2
  <1>2. CASE s.type = "mysql"
    <2>1. /\ Dump(s) = MySQLDatabase(s) /\ MySQLDatabase(s) # "none"
          /\ s.conn.scheme = "mysql"
      BY <1>2, TestsAndDumps DEF DumpMySQL, MySQLURI
    <2>2. MySQLDatabase(s) \in Databases
      BY <2>1, Spelled DEF MySQLDatabase
    <2>3. Misnamed(s) \/ DatabasePart(s) = Clean[MySQLDatabase(s)]
      BY <2>1, Spelled DEF Misnamed, DatabasePart, MySQLDatabase
    <2> QED
      BY <2>1, <2>2, <2>3
  <1>3. CASE s.type = "mongodb"
    <2>1. CASE PassesDb(s)
      <3>1. Dump(s) = s.database /\ s.database \in Databases
        BY <1>3, <2>1, TestsAndDumps, Spelled DEF DumpMongo, PassesDb
      <3>2. DatabasePart(s) = Clean[s.database]
        BY <2>1 DEF DatabasePart, PassesDb
      <3> QED
        BY <3>1, <3>2
    <2>2. CASE ~PassesDb(s)
      <3>1. Dump(s) = MongoPath(s.conn)
        BY <1>3, <2>2, TestsAndDumps DEF DumpMongo, TwoDatabases
      <3>2. CASE s.conn.path \in Databases
        <4>1. Dump(s) = s.conn.path /\ s.conn.scheme # "none"
          BY <3>1, <3>2, Spelled DEF MongoPath
        <4>2. s.database \in {"", s.conn.path}
          BY <2>2, <3>2, Spelled DEF PassesDb, SeemsToName
        <4>3. Misnamed(s) \/ DatabasePart(s) = Clean[s.conn.path]
          BY <3>2, <4>1, <4>2, Spelled DEF Misnamed, DatabasePart
        <4> QED
          BY <3>2, <4>1, <4>3
      <3>3. CASE s.conn.path \notin Databases
        BY <1>3, <3>1, <3>3 DEF MongoPath, WholeServer
      <3> QED
        BY <3>2, <3>3
    <2> QED
      BY <2>1, <2>2
  <1>4. CASE s.type = "redis"
    BY <1>4, TestsAndDumps DEF DumpRedis, WholeServer
  <1> QED
    BY <1>1, <1>2, <1>3, <1>4, TestsAndDumps

LEMMA TestedAsDumped ==
  ASSUME NEW s \in Specs, Test(s) # "error", Dump(s) # "error"
  PROVE  \/ Test(s) = Dump(s)
         \/ s.type = "redis"
         \/ s.type = "mongodb" /\ Test(s) = "all"
  BY TestsAndDumps, Spelled
    DEF TestPostgres, DumpPostgres, TestMySQL, DumpMySQL, TestMongo, DumpMongo, MongoPath,
        PassesDb, TwoDatabases

LEMMA TestedInVain ==
  ASSUME NEW s \in Specs, Test(s) # "error", Dump(s) = "error"
  PROVE  \/ s.type = "mysql" /\ s.database = "" /\ s.conn.path \notin Databases
         \/ s.type = "mongodb" /\ s.conn.path \in Databases
                               /\ s.database \notin {"", s.conn.path}
  <1>1. s.type # "postgres"
    BY TestsAndDumps DEF TestPostgres, DumpPostgres
  <1>2. CASE s.type = "mongodb"
    <2>1. s.conn # Empty
      BY <1>2, TestsAndDumps DEF TestMongo
    <2>2. TwoDatabases(s)
      BY <1>2, <2>1, TestsAndDumps, Spelled, AdmissionAssumption DEF DumpMongo, MongoPath, PassesDb
    <2> QED
      BY <1>2, <2>2 DEF TwoDatabases, PassesDb, SeemsToName
  <1>3. s.type # "redis"
    BY TestsAndDumps DEF TestRedis, DumpRedis
  <1>4. CASE s.type = "mysql"
    BY <1>4, TestsAndDumps, Spelled, AdmissionAssumption
      DEF TestMySQL, DumpMySQL, MySQLDatabase
  <1> QED
    BY <1>1, <1>2, <1>3, <1>4, TestsAndDumps

-----------------------------------------------------------------------------
(* The invariant.                                                          *)

LEMMA InitIInv == Init => IInv
  <1> SUFFICES ASSUME Init PROVE IInv
    OBVIOUS
  <1>1. labels \in LabelSets /\ env \in Environments
    BY AdmissionAssumption DEF Init
  <1> QED
    BY <1>1 DEF Init, IInv, TypeOK, Computed, Targets

\* Registered specifications are well-formed.
LEMMA ParsedIsSpec ==
  ASSUME NEW l \in LabelSets, ParseLabels(l) # NoSpec
  PROVE  ParseLabels(l) \in Specs
  <1>1. Accepts(l)
    BY DEF ParseLabels
  <1>2. /\ l.type \in Types /\ l.conn \in Conns /\ l.database \in Databases \cup {""}
        /\ l.cron \in {"wrong", "valid"} /\ l.dest \in {"", "local", "remote"}
        /\ l.retention \in Settings
    BY <1>1 DEF Accepts, LabelSets
  <1>3. LabelRetention(l.retention) \in Int
    BY <1>2, RetentionsAreInts
  <1> QED
    BY <1>1, <1>2, <1>3 DEF ParseLabels, Specs

LEMMA FailKeepsIInv ==
  ASSUME IInv, NEW who \in {"labels", "world"}, Fail(who), stage # "seen",
         who = "labels" => name = "none" \/ (Test(spec) # "error" /\ Dump(spec) = "error")
  PROVE  IInv'
  BY DEF IInv, TypeOK, Computed, Fail

LEMMA NextKeepsIInv == IInv /\ [Next]_vars => IInv'
  <1> SUFFICES ASSUME IInv, [Next]_vars PROVE IInv'
    OBVIOUS
  <1>1. CASE Register
    BY <1>1, ParsedIsSpec DEF Register, IInv, TypeOK, Computed
  <1>2. CASE AddJob
    BY <1>2 DEF AddJob, IInv, TypeOK, Computed
  <1>3. CASE TestConnection
    <2>1. stage = "scheduled" /\ spec \in Specs /\ name = "none"
      BY <1>3 DEF TestConnection, IInv, Computed
    <2>2. CASE Fail("labels") \/ Fail("world")
      BY <2>1, <2>2, FailKeepsIInv
    <2>3. CASE /\ Test(spec) # "error"
               /\ tested' = Test(spec) /\ stage' = "tested"
               /\ UNCHANGED <<labels, env, spec, name, dumped, blame>>
      BY <2>1, <2>3, TargetsOnly DEF IInv, TypeOK, Computed
    <2> QED
      BY <1>3, <2>2, <2>3 DEF TestConnection
  <1>4. CASE OpenWriter
    <2>1. stage = "tested" /\ spec \in Specs
      BY <1>4 DEF OpenWriter, IInv, Computed
    <2>2. CASE Fail("world")
      BY <2>1, <2>2, FailKeepsIInv
    <2>3. CASE /\ name' = DatabasePart(spec) /\ stage' = "open"
               /\ UNCHANGED <<labels, env, spec, tested, dumped, blame>>
      BY <2>1, <2>3, TargetsOnly DEF IInv, TypeOK, Computed
    <2> QED
      BY <1>4, <2>2, <2>3 DEF OpenWriter
  <1>5. CASE StartDump
    <2>1. stage = "open" /\ spec \in Specs /\ Test(spec) # "error"
      BY <1>5 DEF StartDump, IInv, Computed
    <2>2. CASE Dump(spec) = "error" /\ Fail("labels")
      BY <2>1, <2>2, FailKeepsIInv
    <2>3. CASE Fail("world")
      BY <2>1, <2>3, FailKeepsIInv
    <2>4. CASE /\ Dump(spec) # "error"
               /\ dumped' = Dump(spec) /\ stage' = "dumping"
               /\ UNCHANGED <<labels, env, spec, tested, name, blame>>
      BY <2>1, <2>4, TargetsOnly DEF IInv, TypeOK, Computed
    <2> QED
      BY <1>5, <2>2, <2>3, <2>4 DEF StartDump
  <1>6. CASE UNCHANGED vars
    BY <1>6 DEF vars, IInv, TypeOK, Computed
  <1> QED
    BY <1>1, <1>2, <1>3, <1>4, <1>5, <1>6 DEF Next

LEMMA Invariance == Spec => []IInv
  BY InitIInv, NextKeepsIInv, PTL DEF Spec

-----------------------------------------------------------------------------
(* Theorems.                                                               *)

(***************************************************************************)
(* The variables keep their types; in particular only well-formed          *)
(* specifications are registered.                                          *)
(***************************************************************************)
THEOREM TypeCorrect == Spec => []TypeOK
  <1>1. IInv => TypeOK
    BY DEF IInv
  <1> QED
    BY <1>1, Invariance, PTL

(***************************************************************************)
(* For every connection string and label the database part of an object's  *)
(* name is the database that its dump tool was given, with the exceptions  *)
(* that the property lists.                                                *)
(***************************************************************************)
THEOREM NameCorrect == Spec => []NameTellsContent
  <1>1. IInv => NameTellsContent
    <2> SUFFICES ASSUME IInv, stage = "dumping"
                 PROVE  IF dumped = "all" THEN WholeServer(spec)
                                          ELSE Misnamed(spec) \/ name = Clean[dumped]
      BY DEF NameTellsContent
    <2>1. spec \in Specs /\ dumped = Dump(spec) /\ dumped # "error" /\ name = DatabasePart(spec)
      BY DEF IInv, Computed
    <2> QED
      BY <2>1, NamedAsDumped
  <1> QED
    BY <1>1, Invariance, PTL

(***************************************************************************)
(* For every connection string and label the dump takes the database that  *)
(* the connection test was about, with the exceptions of the property.     *)
(***************************************************************************)
THEOREM TestCorrect == Spec => []TestVouchesForDump
  <1>1. IInv => TestVouchesForDump
    BY TestedAsDumped DEF IInv, Computed, TestVouchesForDump
  <1> QED
    BY <1>1, Invariance, PTL

(***************************************************************************)
(* Whatever the labels, a run that they doom fails before it has an        *)
(* object; except for a mysql server without a database, and for mongodb   *)
(* with two.                                                               *)
(***************************************************************************)
THEOREM FailureCorrect == Spec => []NothingOpenedInVain
  <1>1. IInv => NothingOpenedInVain
    BY TestedInVain DEF IInv, Computed, NothingOpenedInVain
  <1> QED
    BY <1>1, Invariance, PTL

(***************************************************************************)
(* Whatever is written as a retention, on the container and in the         *)
(* environment: a label in a documented form is kept to exactly, as long   *)
(* as its days fit into 64 bits.  Any other is not heard, even if it is    *)
(* meant to be longer, and the environment governs, or seven days, or      *)
(* nothing is collected at all.                                            *)
(***************************************************************************)
THEOREM RetentionCorrect == Spec => []KeptAsAsked
  <1>1. IInv => KeptAsAsked
    <2> SUFFICES ASSUME IInv, spec # NoSpec, ~Overflow(Governing)
                 PROVE  Effective = CASE Documented(Governing)   -> Period(Governing)
                                      [] Governing.as = "unset"  -> 7 * Day
                                      [] OTHER                   -> Forever
      BY DEF KeptAsAsked
    <2>1. labels.retention \in Settings /\ env.retention \in Settings
      BY DEF IInv, TypeOK, LabelSets, Environments
    <2>2. spec.retention = LabelRetention(labels.retention)
      BY DEF IInv, Computed, ParseLabels
    <2>3. CASE Documented(labels.retention)
      <3>1. Governing = labels.retention
        BY <2>3 DEF Governing
      <3>2. spec.retention = Period(labels.retention) /\ spec.retention > 0
        BY <2>1, <2>2, <2>3, <3>1, Understood
      <3> QED
        BY <2>3, <3>1, <3>2 DEF Effective, Documented
    <2>4. CASE ~Documented(labels.retention)
      <3>1. Governing = env.retention
        BY <2>4 DEF Governing
      <3>2. spec.retention = 0
        BY <2>1, <2>2, <2>4, Unheard, Understood
      <3>3. Effective = GlobalRetention(env.retention)
        BY <3>2 DEF Effective
      <3>4. CASE Documented(env.retention)
        BY <2>1, <3>1, <3>3, <3>4, Understood DEF Documented
      <3>5. CASE ~Documented(env.retention)
        BY <2>1, <3>1, <3>3, <3>5, Understood, PeriodAssumption DEF Forever
      <3> QED
        BY <3>4, <3>5
    <2> QED
      BY <2>3, <2>4
  <1> QED
    BY <1>1, Invariance, PTL

=============================================================================
