---------------------------- MODULE MCHostServer ----------------------------
(***************************************************************************)
(* HostServer with its bounds given in the configuration file.  Session    *)
(* ids are numbers the server counts, so there is no symmetry to use.      *)
(***************************************************************************)
EXTENDS HostServer
=============================================================================
