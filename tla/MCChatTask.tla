----------------------------- MODULE MCChatTask -----------------------------
(***************************************************************************)
(* TLC instance of ChatTask.                                               *)
(***************************************************************************)
EXTENDS ChatTask, TLC
=============================================================================
