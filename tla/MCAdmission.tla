---------------------------- MODULE MCAdmission -----------------------------
(* Labels for Admission: every connection string with every type and every   *)
(* backup.database; and every other label and the environment around one.    *)
EXTENDS Admission

MCClean == [d \in Databases |-> IF d = "crm$1" THEN "crm_1" ELSE d]

R(as, n) == [as |-> as, n |-> n]
Unset    == R("unset", 0)

\* A day is 24; 22 days overflow into -496, 43 days into 8.
MCSettings == {Unset, R("garbage", 0), R("foreign", 96)} \cup {R("duration", n) : n \in {-30, 0, 5, 300}}
                  \cup {R("days", n) : n \in {-1, 0, 1, 21, 22, 43}}

Base == [enabled |-> TRUE, cron |-> "valid", type |-> "postgres", database |-> "",
         conn |-> [scheme |-> "postgresql", host |-> "db", path |-> "app", query |-> "none"],
         dest |-> "local", retention |-> Unset]

MCWorlds ==
    {[labels |-> [Base EXCEPT !.type = t, !.conn = u, !.database = d],
      env    |-> [bucket |-> FALSE, retention |-> Unset]] :
        t \in Types, u \in Conns, d \in Databases \cup {""}}
    \cup
    {[labels |-> [Base EXCEPT !.enabled = e, !.cron = c, !.type = t, !.dest = x],
      env    |-> [bucket |-> b, retention |-> Unset]] :
        e \in BOOLEAN, c \in {"", "short", "wrong", "valid"}, t \in {"postgres", "", "other"},
        x \in {"", "local", "remote", "other"}, b \in BOOLEAN}
    \cup
    {[labels |-> [Base EXCEPT !.retention = r],
      env    |-> [bucket |-> FALSE, retention |-> g]] : r \in MCSettings, g \in MCSettings}
=============================================================================
