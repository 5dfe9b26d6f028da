----------------------------- MODULE CommandLine -----------------------------
(***************************************************************************)
(* What main does with the command line of the server (main.cpp 77-234)    *)
(* before it serves: the values of --config are read by hand, then the     *)
(* whole line is stored by boost::program_options, which is external, then *)
(* the sizes are compared.  What the server may then rely on is the        *)
(* assumption that Supervisor makes.                                       *)
(***************************************************************************)
EXTENDS Naturals, Sequences, SequencesExt

CONSTANTS
    Words,      \* the words given as values of --config
    MaxItems    \* bound: length of every list

VARIABLES
    line,       \* the command line: lengths of its lists, the values of --config
    phase,      \* "tokenized", "read", "stored"; "serving", "done", "usage" or "aborted"
    config      \* std::vector<std::vector<bool>> config

optionVars == <<line, phase, config>>

Lengths == 0..MaxItems
Lists(S) == UNION {[1..n -> S] : n \in Lengths}
SameWords == UNION {[1..n -> {w}] : n \in Lengths, w \in Words}

ParseInit ==
    /\ line \in [help : BOOLEAN, scripts : Lengths, always_host_only : Lengths, names : Lengths,
                 config : Lists(SameWords), config_args : Lists(Lengths)]
    /\ phase = "tokenized"
    /\ config = << >>

-----------------------------------------------------------------------------
(* Words that boost takes for a bool, whatever their case (external).      *)
TrueWords == {"1", "true", "on", "yes", "TRUE"}
FalseWords == {"0", "false", "off", "no"}

(* lexical_cast of "0" and "1"; boolalpha makes true of "true" and false   *)
(* of all else.  The translation of "on" and "yes", cur_str, is not used.  *)
ReadBool(str) == str \in {"1", "true"}

ReadConfig ==
    /\ phase = "tokenized"
    /\ config' = [i \in DOMAIN line.config |-> [k \in DOMAIN line.config[i] |-> ReadBool(line.config[i][k])]]
    /\ phase' = "read"
    /\ UNCHANGED line

(* store throws at a value that is no bool, and nobody catches it; --help  *)
(* and --version end the program.                                          *)
Store ==
    /\ phase = "read"
    /\ phase' = IF \E i \in DOMAIN line.config : \E k \in DOMAIN line.config[i] :
                        line.config[i][k] \notin TrueWords \cup FalseWords
                THEN "aborted" ELSE IF line.help THEN "done" ELSE "stored"
    /\ UNCHANGED <<line, config>>

(* (line 204 repeats the first question; whether there is a kill script is *)
(* not asked.)                                                             *)
Fits ==
    /\ line.scripts > 0
    /\ line.scripts = line.always_host_only /\ line.scripts = line.names
    /\ Len(config) > 0 /\ Len(config) = Len(line.config_args)
    /\ \A i \in DOMAIN config : Len(config[i]) = line.scripts
    /\ \A i \in DOMAIN line.config_args : line.config_args[i] = line.scripts

Validate ==
    /\ phase = "stored"
    /\ phase' = IF Fits THEN "serving" ELSE "usage"
    /\ UNCHANGED <<line, config>>

Parse == ReadConfig \/ Store \/ Validate

-----------------------------------------------------------------------------
(* main.cpp:147: "we really shouldn't have to worry about this try/catch   *)
(* because boost should be doing error checking already".  No value is     *)
(* read that boost has not accepted.                                       *)
BoostHasChecked ==
    phase = "read" => \A i \in DOMAIN config : \A k \in DOMAIN config[i] :
        line.config[i][k] \in TrueWords \cup FalseWords
=============================================================================
