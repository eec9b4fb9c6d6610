---------------------------- MODULE MCEncoderCache ----------------------------
(***************************************************************************)
(* Two requests that share an image, and a third one that has an image     *)
(* twice, on a cache that holds two small images or a large one.           *)
(***************************************************************************)
EXTENDS EncoderScheduling

CONSTANTS r1, r2, r3

Image(h, offset, length, embeds) ==
    [hash |-> h, offset |-> offset, length |-> length, embeds |-> embeds]

MCFeatures ==
    [r \in Requests |->
        CASE r = r1 -> <<Image("a", 0, 1, {0}), Image("b", 2, 2, {0, 1})>>
          [] r = r2 -> <<Image("c", 1, 2, {1}), Image("a", 3, 1, {0})>>
          [] OTHER  -> <<Image("a", 0, 1, {0}), Image("a", 1, 1, {0})>>]

MCPromptLen == [r \in Requests |-> IF r = r3 THEN 2 ELSE 4]
MCPriority  == [r \in Requests |-> IF r = r1 THEN 2 ELSE IF r = r2 THEN 1 ELSE 3]
-----------------------------------------------------------------------------
Basic == [policy |-> "FCFS", tokens |-> 3, compute |-> 2, running |-> 2,
          whole |-> FALSE, shift |-> 0, batches |-> 1, late |-> {}, faults |-> 2]
Pipelined == [Basic EXCEPT !.batches = 2, !.tokens = 2, !.late = {r3}]
Whole == [Basic EXCEPT !.whole = TRUE]
Drafter == [Whole EXCEPT !.shift = 1, !.tokens = 4]

EncoderConfigs == {Basic, Pipelined, Whole, Drafter}

(* Configurations in which the code departs from what it documents.        *)
ChunkedDrafter == {[Basic EXCEPT !.shift = 1]}
PriorityVictim == {[Basic EXCEPT !.policy = "PRIORITY", !.late = {r2}]}
================================================================================
