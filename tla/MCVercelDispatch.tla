-------------------------- MODULE MCVercelDispatch --------------------------
(* A small instance of VercelDispatch for TLC.                             *)
EXTENDS VercelDispatch
=============================================================================
