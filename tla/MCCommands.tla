------------------------------- MODULE MCCommands -------------------------------
(***************************************************************************)
(* Commands for TLC: files that are accepted, one for each way a command   *)
(* can go, and files with one mistake each; two databases with two         *)
(* collections and one.                                                    *)
(***************************************************************************)
EXTENDS Commands, TLC

CONSTANTS c1, c2, c3, d1, d2

MCDatabaseOf == (c1 :> d1) @@ (c2 :> d1) @@ (c3 :> d2)
MCServerStates == {LoadStateLoading, LoadStateLoaded}

Alerts == [alertEnabled |-> TRUE, webhook |-> "https"]

Accepted ==
  {[database |-> "*"], [database |-> "app", output |-> "json"],
   [collection |-> "books", prometheusEnabled |-> FALSE, prometheusAddress |-> ""],
   [prometheusAddress |-> "unparsable"], [addSource |-> FALSE], Alerts, [loadThreshold |-> 0, requestTimeout |-> 0]}

Texts     == {"milvusAddress", "database", "job", "listen"}
Durations == {"milvusTimeout", "prometheusTimeout", "queryTimeout", "shutdownTimeout",
              "interval"}
Chosen    == {"defaultRange", "output", "logFormat", "logLevel"}

Refused ==
  {EmptyMap, "adress" :> "milvus:19530", [database |-> "*", collection |-> "books"],
   [prometheusAddress |-> ""], [alertEnabled |-> TRUE],
   [alertEnabled |-> TRUE, webhook |-> "http"], [loadThreshold |-> 101], [loadThreshold |-> -1]}
    \cup {s :> "" : s \in Texts} \cup {s :> 0 : s \in Durations} \cup {s :> "other" : s \in Chosen}
    \cup {Alerts @@ (s :> 0) : s \in {"loadingTimeout", "repeatInterval", "requestTimeout"}}

MCFiles == Accepted \cup Refused
===============================================================================
