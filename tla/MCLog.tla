------------------------------- MODULE MCLog -------------------------------
(***************************************************************************)
(* TLC instance of Log.                                                    *)
(***************************************************************************)
EXTENDS Log
=============================================================================
