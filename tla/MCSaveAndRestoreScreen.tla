----------------------- MODULE MCSaveAndRestoreScreen -----------------------
(***************************************************************************)
(* SaveAndRestoreScreen for TLC.  Two messages let every choice be made on *)
(* the first and be met by the second, longer or shorter in machines and   *)
(* in snapshots.                                                           *)
(***************************************************************************)
EXTENDS SaveAndRestoreScreen
=============================================================================
