---------------------------- MODULE MCMessageQueue ----------------------------
(***************************************************************************)
(* The message queue with two local readers, one remote reader and a ring  *)
(* of two chunks that the messages go round.                               *)
(***************************************************************************)
EXTENDS MessageQueue
================================================================================
