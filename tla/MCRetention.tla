----------------------------- MODULE MCRetention -----------------------------
(* Values for Retention: prefixes that contain each other in each of the ways *)
(* the two stores know.                                                       *)
EXTENDS Retention

CONSTANTS a, b

MCDir == [p \in {"", "ap", "app", "/app"} |->
            CASE p = "" -> "." [] p = "ap" -> "ap" [] OTHER -> "app"]
MCInside == {<<d, d>> : d \in Dirs} \cup {<<".", d>> : d \in Dirs}
MCSpells == {<<"", d>> : d \in Dirs} \cup {<<"ap", "ap">>, <<"ap", "app">>, <<"app", "app">>}

S(prefix, dest, file, retention) ==
    [prefix |-> prefix, dest |-> dest, file |-> file, retention |-> retention]

MCFires == [x \in Containers |-> IF x = a THEN {0, 2} ELSE {1}]

W(sa, sb, retention, dryRun) ==
    [spec |-> [x \in Containers |-> IF x = a THEN sa ELSE sb],
     conf |-> [retention |-> retention, dryRun |-> dryRun]]

\* The whole disk and a directory of it, by a short and by a long retention, two in
\* one directory, neighbours on one disk; neighbours in one bucket, one of whose
\* prefixes begins the other, and a prefix with a slash.
MCWorlds == {
    W(S("",    "local", "pg", 1), S("app", "local", "pg", 0), 0, FALSE),
    W(S("app", "local", "pg", 0), S("app", "local", "my", 2), 2, FALSE),
    W(S("app", "local", "pg", 0), S("",    "local", "my", 2), 0, FALSE),
    W(S("ap",  "local", "pg", 1), S("app", "local", "pg", 0), 2, TRUE),
    W(S("ap",  "remote", "pg", 1), S("app", "remote", "pg", 2), 0, FALSE),
    W(S("app", "remote", "pg", 0), S("/app", "remote", "pg", 2), 1, FALSE) }
=============================================================================
