---------------------------- MODULE MCDiagnostics ----------------------------
(***************************************************************************)
(* The instance of MCBootstrap, asked by components and by a doctor.       *)
(***************************************************************************)
EXTENDS MCBootstrap, Diagnostics
=============================================================================
