----------------------------- MODULE MCStartup -----------------------------
(***************************************************************************)
(* Startup for TLC: the settings of a process that imports the SDK without *)
(* an environment, of a service without an encryption key, and of two      *)
(* services with one, the second of which also ships its log lines.        *)
(***************************************************************************)
EXTENDS Startup

MCConfigs ==
  { [capable |-> FALSE, encrypted |-> FALSE, http |-> FALSE],
    [capable |-> TRUE, encrypted |-> FALSE, http |-> FALSE],
    [capable |-> TRUE, encrypted |-> TRUE, http |-> FALSE],
    [capable |-> TRUE, encrypted |-> TRUE, http |-> TRUE] }
=============================================================================
