---------------------------- MODULE BroadcastQueue ----------------------------
(***************************************************************************)
(* What the message queue between an executor and its workers promises:    *)
(* one writer, every reader gets message 1, then 2, then 3, ... and the    *)
(* writer is held back by the slowest reader of the shared memory.         *)
(* Messages are numbered by the order in which they are put; got[r] is the *)
(* number of the last message that reader r returned to its caller.        *)
(* A reader whose receive of an oversized message timed out (`lost') has   *)
(* no guarantee left; the others keep theirs.                              *)
(***************************************************************************)
EXTENDS Naturals

CONSTANTS Readers,   \* every reader
          Bounded,   \* the readers that share the bounded buffer
          Capacity   \* messages a bounded reader may be behind

VARIABLES sent, got, lost

vars == <<sent, got, lost>>

Init ==
    /\ sent = 0
    /\ got = [r \in Readers |-> 0]
    /\ lost = {}

\* The writer puts the next message once no bounded reader is too far behind.
Put ==
    /\ \A r \in Bounded \ lost : sent - got[r] < Capacity
    /\ sent' = sent + 1
    /\ UNCHANGED <<got, lost>>

\* A reader returns the message after the one it returned last.
Get(r) ==
    /\ r \notin lost
    /\ got[r] < sent
    /\ got' = [got EXCEPT ![r] = @ + 1]
    /\ UNCHANGED <<sent, lost>>

\* A reader gives up on an oversized message.
Lose(r) ==
    /\ lost' = lost \union {r}
    /\ UNCHANGED <<sent, got>>

\* What a reader returns after that is not specified.
GetAny(r) ==
    /\ r \in lost
    /\ \E m \in 1..sent : got' = [got EXCEPT ![r] = m]
    /\ UNCHANGED <<sent, lost>>

Next ==
    \/ Put
    \/ \E r \in Readers : Get(r) \/ Lose(r) \/ GetAny(r)

Spec == Init /\ [][Next]_vars
================================================================================
