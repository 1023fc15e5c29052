-------------------------- MODULE MCAVRConnection --------------------------
(***************************************************************************)
(* AVRConnection on a small instance.  Three link identities: one in use,  *)
(* one whose bytes are still in the buffer, one free.  Two reconnect       *)
(* tasks: one running, one that must not be started beside it.             *)
(***************************************************************************)
EXTENDS AVRConnection, TLC

Interchangeable == Permutations(Links) \cup Permutations(Tasks)
=============================================================================
