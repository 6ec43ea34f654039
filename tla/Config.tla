-------------------------------- MODULE Config --------------------------------
(***************************************************************************)
(* The configuration (internal/config/config.go): the defaults, the YAML   *)
(* file laid over them, and the validation.  A text is "" or what its use  *)
(* tells apart, a duration an integer.  The settings that are neither      *)
(* validated nor decide where a command goes are only known by name: a     *)
(* file may set them, and they are not in the configuration.               *)
(***************************************************************************)
EXTENDS Integers

(* Lines 81-91. *)
Default ==
  [milvusAddress     |-> "localhost:19530",       database          |-> "default",
   collection        |-> "",                      milvusTimeout     |-> 10,
   prometheusEnabled |-> TRUE,                    prometheusAddress |-> "http://localhost:9090",
   prometheusTimeout |-> 10,                      job               |-> "milvus",
   defaultRange      |-> "1h",                    queryTimeout      |-> 15,
   alertEnabled      |-> FALSE,                   webhook           |-> "",
   loadingTimeout    |-> 1800,                    repeatInterval    |-> 3600,
   requestTimeout    |-> 10,                      loadThreshold     |-> 100,
   output            |-> "table",                 listen            |-> ":2112",
   interval          |-> 30,                      shutdownTimeout   |-> 10,
   logFormat         |-> "json",                  logLevel          |-> "info"]

Settings == DOMAIN Default

(* Lines 29-31, 46, 78: neither validated nor of any effect here. *)
OtherSettings == {"username", "password", "token", "thresholds", "addSource"}

(* Lines 113, 116, 131, 163; 122, 128, 139, 166. *)
NotBlank == {"milvusAddress", "database", "job", "listen"}

(* Mutant: the period of the refresh loop is not looked at. *)
PositiveTimeouts == {"milvusTimeout", "prometheusTimeout", "queryTimeout", "shutdownTimeout"}

Positive == {"milvusTimeout", "prometheusTimeout", "queryTimeout", "shutdownTimeout",
             "interval"}

(* Lines 134-138, 160-162, 169-176. *)
Choices == [defaultRange |-> {"5m", "1h", "6h", "24h"}, output |-> {"table", "json"},
            logFormat |-> {"json", "text"}, logLevel |-> {"debug", "info", "warn", "error"}]

(* Mutant: the timeout of the webhook is not looked at. *)
PositivePeriods == {"loadingTimeout", "repeatInterval"}

(* Lines 142-156: only looked at when alerts are enabled. *)
PositiveForAlerts == {"loadingTimeout", "repeatInterval", "requestTimeout"}

Validate(cfg) ==
  /\ \A s \in NotBlank : cfg[s] # ""
  /\ \A s \in Positive : cfg[s] > 0
  /\ \A s \in DOMAIN Choices : cfg[s] \in Choices[s]
  /\ cfg.database = "*" => cfg.collection = ""
  /\ cfg.prometheusEnabled => cfg.prometheusAddress # ""
  /\ cfg.alertEnabled => cfg.webhook = "https" /\ \A s \in PositiveForAlerts : cfg[s] > 0
  /\ cfg.loadThreshold \in 0 .. 100

(* The file decoded into the defaults: what it does not set keeps them. *)
Overlay(file) == [s \in Settings |-> IF s \in DOMAIN file THEN file[s] ELSE Default[s]]

(* Load, of a file that can be read: an empty one is an error (io.EOF), and so *)
(* is an unknown field.                                                        *)
Loads(file) ==
  /\ DOMAIN file # {}
  /\ DOMAIN file \subseteq Settings \cup OtherSettings
  /\ Validate(Overlay(file))

===============================================================================
