-------------------------- MODULE MCServiceProcess --------------------------
(* A small instance of ServiceProcess for TLC.                             *)
EXTENDS ServiceProcess
=============================================================================
