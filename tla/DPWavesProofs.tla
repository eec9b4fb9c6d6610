---------------------------- MODULE DPWavesProofs -----------------------------
(***************************************************************************)
(* The collectives of data-parallel engines match, and a pause holds, for  *)
(* every number of engines, front ends and requests and every period of    *)
(* the all-reduce.  The inductive invariant comes first, with what every   *)
(* step does to the types and the waves; then the calls under way, the     *)
(* collectives and the pauses.                                             *)
(***************************************************************************)
EXTENDS DPWaves, Integers, FiniteSetTheorems, TLAPS


(***************************************************************************)
(* The inductive invariant                                                 *)
(***************************************************************************)
EngineState ==
    [wave : Nat, running : BOOLEAN, counter : Nat,
     at : {"input", "pass", "reduce", "resume"},
     waiting : SUBSET Requests, active : SUBSET Requests,
     paused : {"no", "new", "all"},
     pending : BOOLEAN, ignore : BOOLEAN, callback : BOOLEAN]

EngineMsg ==
    [type : {"add"}, req : Requests, wave : Nat] \union [type : {"abort"}, req : Requests]
    \union [type : {"pause"}, mode : Modes] \union [type : {"resume"}]

CoordMsg ==
    [type : {"first"}, engine : Engines, wave : Nat]
    \union [type : {"complete", "start"}, wave : Nat]

WaveState == [wave : Nat, running : BOOLEAN]

TypeInv ==
    /\ eng \in [Engines -> EngineState]
    /\ front \in [Fronts -> WaveState]
    /\ first \in [Fronts -> Seq(Engines)]
    /\ coord \in WaveState
    /\ toEngine \in [Fronts -> [Engines -> Seq(EngineMsg)]]
    /\ start \in [Engines -> Seq([wave : Nat, exclude : Nat \union Fronts])]
    /\ toCoord \in [Fronts \union Engines -> Seq(CoordMsg)]
    /\ toFront \in [Fronts -> Seq(WaveState)]

\* No engine is before wave w.
Reached(w) == \A e \in Engines : w <= eng[e].wave

\* The engines are in the same wave, and what front ends and coordinator know or
\* are about to be told is not ahead of them.
WaveInv ==
    /\ \A e, d \in Engines : eng[e].wave = eng[d].wave /\ eng[e].counter = eng[d].counter
    /\ Reached(coord.wave)
    /\ \A f \in Fronts : Reached(front[f].wave)
    /\ \A f \in Fronts : \A i \in 1..Len(toFront[f]) : Reached(toFront[f][i].wave)
    /\ \A e \in Engines : \A i \in 1..Len(start[e]) : Reached(start[e][i].wave)
    /\ \A f \in Fronts, e \in Engines : \A i \in 1..Len(toEngine[f][e]) :
            toEngine[f][e][i].type = "add" => Reached(toEngine[f][e][i].wave)
    /\ \A x \in Fronts \union Engines : \A i \in 1..Len(toCoord[x]) :
            /\ toCoord[x][i].type = "start" => Reached(toCoord[x][i].wave)
            /\ toCoord[x][i].type = "complete" => Reached(toCoord[x][i].wave + 1)

\* A call of this type is under way to e.
Called(e, type) ==
    \E f \in Fronts : \E i \in 1..Len(toEngine[f][e]) : toEngine[f][e][i].type = type

IsCall(m) == m.type \in {"pause", "resume"}

OneCall(e) ==
    \A f, g \in Fronts : \A i \in 1..Len(toEngine[f][e]), j \in 1..Len(toEngine[g][e]) :
        IsCall(toEngine[f][e][i]) /\ IsCall(toEngine[g][e][j]) => f = g /\ i = j

\* What an engine knows of a pause: nothing, that it was asked, that all were.
Unpaused(g) == g.paused = "no" /\ ~g.pending /\ ~g.ignore /\ ~g.callback
Asked(g) == g.paused # "no" /\ g.pending /\ ~g.ignore /\ g.callback /\ g.running
Held(g) == g.paused # "no" /\ ~g.pending /\ g.ignore

Quiet(g) == g.at = "input" /\ ~HasWork(g)

\* The phases of a pause, in this order.
Serving ==
    /\ admin = "resume"
    /\ \A e \in Engines :
          /\ ~Called(e, "pause") /\ ~Called(e, "resume")
          /\ Unpaused(eng[e]) /\ eng[e].at # "resume"

Pausing ==
    /\ admin = "pause"
    /\ \A e \in Engines :
          /\ ~Called(e, "resume") /\ eng[e].at # "resume"
          /\ IF Called(e, "pause") THEN Unpaused(eng[e]) ELSE Asked(eng[e])

Paused ==
    /\ admin = "pause"
    /\ \A e \in Engines :
          /\ ~Called(e, "pause") /\ ~Called(e, "resume")
          /\ Held(eng[e]) /\ eng[e].at # "resume"
    /\ \/ \A e \in Engines : eng[e].running /\ eng[e].callback
       \/ \A e \in Engines : Quiet(eng[e])

Resuming ==
    /\ admin = "resume"
    /\ \A e \in Engines :
          /\ ~Called(e, "pause") /\ ~eng[e].callback
          /\ IF Called(e, "resume") THEN Held(eng[e]) /\ Quiet(eng[e])
                                    ELSE Unpaused(eng[e]) /\ eng[e].at = "resume"

PhaseInv ==
    /\ \A e \in Engines : OneCall(e)
    /\ Serving \/ Pausing \/ Paused \/ Resuming

\* The engines enter and leave the all-reduce together.
ReduceInv == \A e, d \in Engines : eng[e].at = "reduce" => eng[d].at = "reduce"

IInv == TypeInv /\ WaveInv /\ PhaseInv /\ ReduceInv

(***************************************************************************)
(* Types                                                                   *)
(***************************************************************************)
\* Elements of sequences, and sequences over a larger set.
LEMMA ElementOf ==
    ASSUME NEW S, NEW s \in Seq(S), NEW i \in 1..Len(s) PROVE s[i] \in S
  OBVIOUS

LEMMA LargerSeq ==
    ASSUME NEW S, NEW T, S \subseteq T PROVE Seq(S) \subseteq Seq(T)
  <1> SUFFICES ASSUME NEW s \in Seq(S) PROVE s \in Seq(T)
    OBVIOUS
  <1>1. Len(s) \in Nat /\ s \in [1..Len(s) -> S]
    OBVIOUS
  <1>2. s \in [1..Len(s) -> T]
    BY <1>1
  <1>3. QED BY <1>1, <1>2

\* There is an engine of rank 0, and ranks are numbers.
LEMMA EnginesType == 0 \in Engines /\ Engines \subseteq Nat /\ NEngines \in Nat
  <1>1. NEngines \in Nat \ {0, 1}
    BY WavesAssumption
  <1>2. QED BY <1>1 DEF Engines

\* At the start of the processes the channels are empty and no engine runs.
LEMMA InitType == Init => TypeInv
  <1> SUFFICES ASSUME Init PROVE TypeInv OBVIOUS
  <1> USE EnginesType DEF Init
  <1>1. eng \in [Engines -> EngineState]
    BY DEF EngineState
  <1>2. QED BY <1>1 DEF TypeInv, WaveState

\* The channels between front ends, coordinator and engines stay sequences of
\* messages, whatever is sent or taken.
LEMMA AppendType ==
    ASSUME NEW S, NEW D, NEW c \in [D -> Seq(S)], NEW x \in D, NEW v \in S
    PROVE  [c EXCEPT ![x] = Append(@, v)] \in [D -> Seq(S)]
  OBVIOUS

\* A message is taken ...
LEMMA TailType ==
    ASSUME NEW S, NEW D, NEW c \in [D -> Seq(S)], NEW x \in D, c[x] # <<>>
    PROVE  [c EXCEPT ![x] = Tail(@)] \in [D -> Seq(S)] /\ Head(c[x]) \in S
  OBVIOUS

\* ... or sent to all.
LEMMA BroadcastType ==
    ASSUME NEW S, NEW D, NEW c \in [D -> Seq(S)], NEW v \in S
    PROVE  Broadcast(c, v) \in [D -> Seq(S)]
  BY DEF Broadcast

\* The steps of a front end (MPClient, run_engine_stats_update_task) keep the types.
LEMMA FrontType ==
    ASSUME TypeInv, NEW f \in Fronts, Client(f) PROVE TypeInv'
  <1>1. ASSUME NEW mode \in Modes, Pause(f, mode) PROVE TypeInv'
    <2> DEFINE v == [type |-> "pause", mode |-> mode]
    <2>1. v \in EngineMsg
      BY DEF EngineMsg
    <2> HIDE DEF v
    <2>2. Broadcast(toEngine[f], v) \in [Engines -> Seq(EngineMsg)]
      BY Zenon, <2>1, BroadcastType DEF TypeInv
    <2>3. toEngine' \in [Fronts -> [Engines -> Seq(EngineMsg)]]
      BY <1>1, <2>2 DEF Pause, TypeInv, v
    <2>4. QED BY Zenon, <1>1, <2>3 DEF Pause, TypeInv, fronts
  <1>2. CASE Resume(f)
    <2> DEFINE v == [type |-> "resume"]
    <2>1. v \in EngineMsg
      BY DEF EngineMsg
    <2> HIDE DEF v
    <2>2. Broadcast(toEngine[f], v) \in [Engines -> Seq(EngineMsg)]
      BY Zenon, <2>1, BroadcastType DEF TypeInv
    <2>3. toEngine' \in [Fronts -> [Engines -> Seq(EngineMsg)]]
      BY <1>2, <2>2 DEF Resume, TypeInv, v
    <2>4. QED BY Zenon, <1>2, <2>3 DEF Resume, TypeInv, fronts
  <1>3. CASE FirstReq(f)
    <2>1. first' \in [Fronts -> Seq(Engines)] /\ Head(first[f]) \in Engines
      BY <1>3, TailType DEF FirstReq, TypeInv
    <2> DEFINE v == [type |-> "first", engine |-> Head(first[f]), wave |-> front[f].wave]
    <2>2. v \in CoordMsg
      BY <2>1 DEF CoordMsg, TypeInv, WaveState
    <2> HIDE DEF v
    <2>3. toCoord' = [toCoord EXCEPT ![f] = Append(@, v)]
      BY <1>3 DEF FirstReq, v
    <2>4. toCoord' \in [Fronts \union Engines -> Seq(CoordMsg)]
      BY <2>2, <2>3, AppendType DEF TypeInv
    <2>5. front' \in [Fronts -> WaveState]
      BY Zenon, <1>3 DEF FirstReq, TypeInv, WaveState
    <2>6. QED BY Zenon, <1>3, <2>1, <2>4, <2>5 DEF FirstReq, TypeInv
  <1>4. CASE StatsUpdate(f)
    <2>1. Head(toFront[f]) \in WaveState
      BY <1>4, TailType DEF StatsUpdate, TypeInv
    <2>2. front' \in [Fronts -> WaveState] /\ toFront' \in [Fronts -> Seq(WaveState)]
      BY <1>4, <2>1 DEF StatsUpdate, TypeInv
    <2>3. QED BY Zenon, <1>4, <2>2 DEF StatsUpdate, TypeInv
  <1>5. QED BY <1>1, <1>2, <1>3, <1>4 DEF Client

\* So do add_request_async and abort_requests_async ...
LEMMA RequestType ==
    ASSUME TypeInv, NEW r \in Requests, AddRequest(r) \/ Abort(r) PROVE TypeInv'
  <1> DEFINE f == Home[r].front
             e == Home[r].engine
  <1>1. f \in Fronts /\ e \in Engines
    BY WavesAssumption
  <1> HIDE DEF f, e
  <1>2. CASE AddRequest(r)
    <2> DEFINE v == [type |-> "add", req |-> r, wave |-> front[f].wave]
    <2>1. v \in EngineMsg
      BY <1>1 DEF EngineMsg, TypeInv, WaveState
    <2> HIDE DEF v
    <2>2. toEngine' = [toEngine EXCEPT ![f][e] = Append(@, v)]
      BY <1>2 DEF AddRequest, v, f, e
    <2>3. toEngine' \in [Fronts -> [Engines -> Seq(EngineMsg)]]
      BY <1>1, <2>1, <2>2 DEF TypeInv
    <2>4. first' \in [Fronts -> Seq(Engines)]
      BY <1>1, <1>2, AppendType DEF AddRequest, TypeInv, f, e
    <2>5. QED BY Zenon, <1>2, <2>3, <2>4 DEF AddRequest, TypeInv
  <1>3. CASE Abort(r)
    <2> DEFINE v == [type |-> "abort", req |-> r]
    <2>1. v \in EngineMsg
      BY DEF EngineMsg
    <2> HIDE DEF v
    <2>2. toEngine' = [toEngine EXCEPT ![f][e] = Append(@, v)]
      BY <1>3 DEF Abort, v, f, e
    <2>3. toEngine' \in [Fronts -> [Engines -> Seq(EngineMsg)]]
      BY <1>1, <2>1, <2>2 DEF TypeInv
    <2>4. QED BY Zenon, <1>3, <2>3 DEF Abort, TypeInv, fronts
  <1>4. QED BY <1>2, <1>3

\* ... the coordinator (process_input_socket) ...
LEMMA CoordType ==
    ASSUME TypeInv, (\E x \in Fronts \union Engines : Coordinate(x)) \/ Republish
    PROVE  TypeInv'
  <1>1. CASE Republish
    <2>1. toFront' \in [Fronts -> Seq(WaveState)]
      BY <1>1 DEF Republish, TypeInv
    <2>2. QED BY Zenon, <1>1, <2>1 DEF Republish, TypeInv, fronts
  <1>2. ASSUME NEW x \in Fronts \union Engines, Coordinate(x) PROVE TypeInv'
    <2> DEFINE m == Head(toCoord[x])
    <2>1. toCoord' \in [Fronts \union Engines -> Seq(CoordMsg)] /\ m \in CoordMsg
      BY <1>2, TailType DEF Coordinate, TypeInv
    <2>2. m.wave \in Nat /\ (m.type = "first" => m.engine \in Engines)
      BY <2>1 DEF CoordMsg
    <2> HIDE DEF m
    <2>3. UNCHANGED <<eng, front, first, toEngine>>
      BY <1>2 DEF Coordinate, fronts
    <2>4. ASSUME NEW w \in Nat, NEW b \in BOOLEAN, SetWave(w, b)
          PROVE  coord' \in WaveState /\ toFront' \in [Fronts -> Seq(WaveState)]
      BY <2>4 DEF SetWave, WaveState
    <2>5. ASSUME NEW w \in Nat, NEW k \in Nat \union Fronts, SendStartWave(w, k)
          PROVE  start' \in [Engines -> Seq([wave : Nat, exclude : Nat \union Fronts])]
      BY Zenon, <2>5, BroadcastType DEF SendStartWave, TypeInv
    <2>6. NoEngine \in Nat /\ coord.wave \in Nat
      BY EnginesType DEF NoEngine, TypeInv, WaveState
    <2>7. CASE m.type = "first" /\ OnFirst(m)
      <3>1. (IF m.wave < coord.wave THEN NoEngine ELSE m.engine) \in Nat \union Fronts
        BY Zenon, <2>2, <2>6, <2>7, EnginesType
      <3>2. QED BY Zenon, <2>1, <2>3, <2>4, <2>5, <2>6, <2>7, <3>1 DEF OnFirst, TypeInv
    <2>8. CASE OnComplete(m)
      <3>1. m.wave + 1 \in Nat
        BY <2>2
      <3>2. QED BY Zenon, <2>1, <2>3, <2>4, <2>8, <3>1 DEF OnComplete, TypeInv
    <2>9. CASE OnStart(x, m)
      BY Zenon, <2>1, <2>2, <2>3, <2>4, <2>5, <2>9, EnginesType DEF OnStart, TypeInv
    <2>10. QED
      BY <1>2, <2>7, <2>8, <2>9 DEF Coordinate, m
  <1>3. QED BY <1>1, <1>2

\* ... an engine between collectives (_handle_client_request, run_busy_loop) ...
LEMMA EngineType ==
    ASSUME TypeInv, NEW e \in Engines, Engine(e) PROVE TypeInv'
  <1>0. eng[e] \in EngineState
    BY DEF TypeInv
  <1> DEFINE g == eng[e]
  <1>a. /\ g.waiting \subseteq Requests /\ g.active \subseteq Requests /\ g.wave \in Nat
        /\ g.running \in BOOLEAN
    BY <1>0 DEF EngineState
  <1>1. ASSUME NEW f \in Fronts, Handle(f, e) PROVE TypeInv'
    <2> DEFINE m == Head(toEngine[f][e])
    <2>1. m \in EngineMsg /\ toEngine' \in [Fronts -> [Engines -> Seq(EngineMsg)]]
      <3>1. toEngine[f] \in [Engines -> Seq(EngineMsg)] /\ toEngine[f][e] # <<>>
        BY <1>1 DEF Handle, TypeInv
      <3>2. [toEngine[f] EXCEPT ![e] = Tail(@)] \in [Engines -> Seq(EngineMsg)]
        BY <3>1, TailType
      <3>3. toEngine' = [toEngine EXCEPT ![f] = [toEngine[f] EXCEPT ![e] = Tail(@)]]
        BY <1>1, <3>1 DEF Handle, TypeInv
      <3>4. m \in EngineMsg
        BY <3>1, TailType
      <3>5. QED BY <3>2, <3>3, <3>4 DEF TypeInv
    <2>2. /\ UNCHANGED <<front, first, coord, start, toFront>>
          /\ \/ m.type = "add" /\ OnAdd(e, m)
             \/ m.type = "add" /\ OnReject(m)
             \/ m.type = "abort" /\ OnAbort(e, m)
             \/ m.type = "pause" /\ OnPause(e, m)
             \/ m.type = "resume" /\ OnResume(e)
      BY <1>1 DEF Handle, fronts
    <2>3. m.type = "add" => m.req \in Requests /\ m.wave \in Nat
      BY <2>1 DEF EngineMsg
    <2> HIDE DEF m
    <2>4. SUFFICES /\ eng' \in [Engines -> EngineState]
                   /\ toCoord' \in [Fronts \union Engines -> Seq(CoordMsg)]
      BY Zenon, <2>1, <2>2 DEF TypeInv
    <2>5. CASE m.type = "add" /\ OnAdd(e, m)
      <3> DEFINE v == [type |-> "start", wave |-> eng[e].wave]
                 n == [eng[e] EXCEPT !.waiting = @ \union {m.req}]
                 h == [n EXCEPT !.wave = IF m.wave > @ THEN m.wave ELSE @,
                                !.running = @ \/ Late(n, m)]
      <3>1. eng[e].waiting \union {m.req} \in SUBSET Requests
        BY <1>a, <2>3, <2>5
      <3>2. n \in EngineState /\ n.wave = eng[e].wave
        BY <1>0, <3>1 DEF EngineState
      <3>3. n.wave \in Nat /\ (n.running \/ Late(n, m)) \in BOOLEAN
        BY <1>a, <3>2
      <3>4. eng' = [eng EXCEPT ![e] = h]
            /\ toCoord' = (IF Late(n, m) THEN [toCoord EXCEPT ![e] = Append(@, v)] ELSE toCoord)
        BY <2>5, <3>2 DEF OnAdd
      <3> HIDE DEF n
      <3>5. (IF m.wave > n.wave THEN m.wave ELSE n.wave) \in Nat
        BY <2>3, <2>5, <3>3
      <3>6. h \in EngineState
        BY Zenon, <3>2, <3>3, <3>5 DEF EngineState
      <3>7. v \in CoordMsg
        BY <1>a DEF CoordMsg
      <3> HIDE DEF h, v
      <3>8. QED BY <3>4, <3>6, <3>7, AppendType DEF TypeInv
    <2>6. CASE OnReject(m)
      BY <2>6 DEF OnReject, TypeInv
    <2>7. CASE OnAbort(e, m)
      <3>1. eng[e].waiting \ {m.req} \in SUBSET Requests /\ eng[e].active \ {m.req} \in SUBSET Requests
        BY <1>a
      <3>2. eng' \in [Engines -> EngineState]
        BY Zenon, <1>0, <2>7, <3>1 DEF OnAbort, TypeInv, EngineState
      <3>3. QED BY <2>7, <3>2 DEF OnAbort, TypeInv
    <2>8. CASE OnPause(e, m)
      <3> DEFINE out == IF m.mode = "abort" THEN g.active \union g.waiting ELSE {}
                 p == IF m.mode = "keep" THEN "all" ELSE "new"
                 h == [eng[e] EXCEPT !.active = @ \ out, !.waiting = @ \ out,
                              !.paused = p,
                              !.pending = TRUE, !.running = TRUE, !.callback = TRUE]
      <3>1. eng[e].waiting \ out \in SUBSET Requests /\ eng[e].active \ out \in SUBSET Requests
            /\ p \in {"new", "all"}
        BY <1>a
      <3>2. eng' = [eng EXCEPT ![e] = h]
        BY <2>8 DEF OnPause
      <3> HIDE DEF out, p
      <3>3. h \in EngineState
        BY Zenon, <1>0, <3>1 DEF EngineState
      <3>4. QED BY <2>8, <3>2, <3>3 DEF OnPause, TypeInv
    <2>9. CASE OnResume(e)
      <3>1. eng' \in [Engines -> EngineState]
        BY Zenon, <1>0, <2>9 DEF OnResume, TypeInv, EngineState
      <3>2. QED BY <2>9, <3>1 DEF OnResume, TypeInv
    <2>10. QED BY <2>2, <2>5, <2>6, <2>7, <2>8, <2>9
  <1>2. CASE StartWave(e)
    <2>1. Head(start[e]) \in [wave : Nat, exclude : Nat \union Fronts]
          /\ start' \in [Engines -> Seq([wave : Nat, exclude : Nat \union Fronts])]
      BY Zenon, <1>2, TailType DEF StartWave, TypeInv
    <2>2. Head(start[e]).wave \in Nat
      BY <2>1
    <2>3. eng' \in [Engines -> EngineState]
      BY Zenon, <1>0, <1>2, <2>2 DEF StartWave, TypeInv, EngineState
    <2>4. QED BY Zenon, <1>2, <2>1, <2>3 DEF StartWave, TypeInv, fronts
  <1>3. CASE IdleCallback(e)
    <2>1. eng' \in [Engines -> EngineState]
      BY Zenon, <1>0, <1>3 DEF IdleCallback, TypeInv, EngineState
    <2>2. QED BY Zenon, <1>3, <2>1 DEF IdleCallback, TypeInv, fronts, wires
  <1>4. CASE EnterPass(e)
    <2>1. eng[e].active \union eng[e].waiting \in SUBSET Requests
      BY <1>a
    <2> DEFINE busy == [eng[e] EXCEPT !.at = "pass", !.active = @ \union eng[e].waiting,
                                      !.waiting = {}]
               held == [eng[e] EXCEPT !.at = "pass"]
    <2>a. busy \in EngineState /\ held \in EngineState
      BY Zenon, <1>0, <2>1 DEF EngineState
    <2>b. eng' = [eng EXCEPT ![e] = IF eng[e].paused = "no" THEN busy ELSE held]
      BY <1>4 DEF EnterPass
    <2> HIDE DEF busy, held
    <2>2. eng' \in [Engines -> EngineState]
      BY <2>a, <2>b DEF TypeInv
    <2>3. QED BY Zenon, <1>4, <2>2 DEF EnterPass, TypeInv, fronts, wires
  <1>5. QED BY <1>1, <1>2, <1>3, <1>4 DEF Engine

\* The number of passes between two all-reduces.
LEMMA PeriodType == Period \in Nat \ {0}
  BY WavesAssumption

\* ... and the collectives.
LEMMA CollectiveType ==
    ASSUME TypeInv, Pass \/ AllReduce \/ ResumeBarrier PROVE TypeInv'
  <1>0. \A e \in Engines : eng[e] \in EngineState
    BY DEF TypeInv
  <1>1. CASE Pass
    <2> DEFINE n(e) == (eng[e].counter + 1) % Period
               act(e) == {r \in eng[e].active : left'[r] > 0}
               next(e) == [eng[e] EXCEPT !.active = act(e), !.counter = n(e), !.running = TRUE,
                                         !.at = IF n(e) = 0 THEN "reduce" ELSE "input"]
    <2>1. ASSUME NEW e \in Engines PROVE next(e) \in EngineState
      <3>1. eng[e].counter \in Nat /\ eng[e].active \in SUBSET Requests
        BY <1>0 DEF EngineState
      <3>2. n(e) \in Nat
        BY <3>1, PeriodType
      <3>3. act(e) \in SUBSET Requests
        BY <3>1
      <3> HIDE DEF n, act
      <3>4. QED BY Zenon, <1>0, <3>2, <3>3 DEF EngineState
    <2>2. eng' = [e \in Engines |-> next(e)]
      BY Zenon, <1>1 DEF Pass
    <2> HIDE DEF next
    <2>3. eng' \in [Engines -> EngineState]
      BY <2>1, <2>2
    <2>4. QED BY Zenon, <1>1, <2>3 DEF Pass, TypeInv, fronts, wires
  <1>2. CASE AllReduce
    <2> DEFINE asked == {e \in Engines : eng[e].pending}
               more == MoreWork(asked)
               ign(e) == eng[e].ignore \/ asked = Engines
               pend(e) == eng[e].pending /\ ~(asked = Engines)
               next(e) == [eng[e] EXCEPT !.ignore = ign(e), !.pending = pend(e),
                               !.running = more,
                               !.wave = IF more THEN @ ELSE @ + 1,
                               !.counter = IF more THEN @ ELSE 0,
                               !.at = "input"]
               v == [type |-> "complete", wave |-> eng[0].wave]
    <2>1. ASSUME NEW e \in Engines PROVE next(e) \in EngineState
      <3>1. eng[e].wave \in Nat /\ eng[e].counter \in Nat
        BY <1>0 DEF EngineState
      <3>2. (IF more THEN eng[e].wave ELSE eng[e].wave + 1) \in Nat
            /\ (IF more THEN eng[e].counter ELSE 0) \in Nat
        BY <3>1
      <3>3. more \in BOOLEAN /\ ign(e) \in BOOLEAN /\ pend(e) \in BOOLEAN
        BY DEF MoreWork
      <3> HIDE DEF more, ign, pend
      <3>4. QED BY <1>0, <3>2, <3>3, ZenonT(60) DEF EngineState
    <2>2. eng' = [e \in Engines |-> next(e)]
          /\ toCoord' = (IF more THEN toCoord ELSE [toCoord EXCEPT ![0] = Append(@, v)])
      BY Zenon, <1>2 DEF AllReduce
    <2>3. v \in CoordMsg
      BY <1>0, EnginesType DEF EngineState, CoordMsg
    <2> HIDE DEF next, v, more
    <2>4. eng' \in [Engines -> EngineState]
      BY <2>1, <2>2
    <2>5. toCoord' \in [Fronts \union Engines -> Seq(CoordMsg)]
      BY <2>2, <2>3, AppendType, EnginesType DEF TypeInv
    <2>6. QED BY Zenon, <1>2, <2>4, <2>5 DEF AllReduce, TypeInv, fronts, wires
  <1>3. CASE ResumeBarrier
    <2> DEFINE next(e) == [eng[e] EXCEPT !.running = Restarts(e), !.at = "input"]
    <2>1. ASSUME NEW e \in Engines PROVE next(e) \in EngineState
      <3>1. Restarts(e) \in BOOLEAN
        BY DEF Restarts
      <3>2. QED BY Zenon, <1>0, <3>1 DEF EngineState
    <2>2. eng' = [e \in Engines |-> next(e)]
      BY Zenon, <1>3 DEF ResumeBarrier
    <2> HIDE DEF next
    <2>3. eng' \in [Engines -> EngineState]
      BY <2>1, <2>2
    <2>4. QED BY Zenon, <1>3, <2>3 DEF ResumeBarrier, TypeInv, fronts, wires
  <1>4. QED BY <1>1, <1>2, <1>3

\* Every step keeps the types.
LEMMA StepType == TypeInv /\ [Next]_vars => TypeInv'
  <1>1. CASE UNCHANGED vars
    BY Zenon, <1>1 DEF TypeInv, vars
  <1>2. QED
    BY <1>1, FrontType, RequestType, CoordType, EngineType, CollectiveType DEF Next

(***************************************************************************)
(* Waves                                                                   *)
(***************************************************************************)
\* A wave that is reached stays reached, because no engine goes back.
LEMMA StaysReached ==
    ASSUME TypeInv, TypeInv', NEW w \in Nat, Reached(w),
           \A e \in Engines : eng[e].wave <= eng'[e].wave
    PROVE  Reached(w)'
  <1>1. ASSUME NEW e \in Engines PROVE w <= eng'[e].wave
    <2>1. eng[e].wave \in Nat /\ eng'[e].wave \in Nat
      BY DEF TypeInv, EngineState
    <2>2. QED BY <2>1 DEF Reached
  <1>2. QED BY <1>1 DEF Reached

\* What a channel carries after a message was taken from it or put on it.
LEMMA TailKeeps ==
    ASSUME NEW S, NEW s \in Seq(S), s # <<>>, NEW i \in 1..Len(Tail(s))
    PROVE  i + 1 \in 1..Len(s) /\ Tail(s)[i] = s[i + 1]
  OBVIOUS

\* A message on a channel was there before, or is the one put on it.
LEMMA AppendAdds ==
    ASSUME NEW S, NEW s \in Seq(S), NEW v \in S, NEW i \in 1..Len(Append(s, v))
    PROVE  (i \in 1..Len(s) /\ Append(s, v)[i] = s[i]) \/ Append(s, v)[i] = v
  OBVIOUS

\* All engines start in wave 0, and nobody knows of a later one.
LEMMA InitWave == Init => WaveInv /\ ReduceInv
  <1> SUFFICES ASSUME Init PROVE WaveInv /\ ReduceInv OBVIOUS
  <1> USE EnginesType DEF Init
  <1>1. WaveInv
    BY DEF WaveInv, Reached
  <1>2. QED BY <1>1 DEF ReduceInv

\* A front end learns of waves from the coordinator only.
LEMMA FrontWave ==
    ASSUME TypeInv, TypeInv', WaveInv, NEW f \in Fronts, Client(f) PROVE WaveInv'
  <1>0. eng' = eng /\ \A w : Reached(w)' = Reached(w)
    BY Zenon DEF Client, Pause, Resume, FirstReq, StatsUpdate, Reached
  <1>1. ASSUME NEW v \in EngineMsg, v.type # "add",
               toEngine' = [toEngine EXCEPT ![f] = Broadcast(@, v)],
               UNCHANGED <<coord, front, toFront, start, toCoord>>
        PROVE  WaveInv'
    <2>1. ASSUME NEW g \in Fronts, NEW e \in Engines, NEW i \in 1..Len(toEngine'[g][e]),
                 toEngine'[g][e][i].type = "add"
          PROVE  Reached(toEngine'[g][e][i].wave)
      <3>1. toEngine[g][e] \in Seq(EngineMsg)
        BY DEF TypeInv
      <3>2. toEngine'[g][e] = IF g = f THEN Append(toEngine[g][e], v) ELSE toEngine[g][e]
        BY <1>1 DEF TypeInv, Broadcast
      <3>3. toEngine'[g][e][i] # v
        BY <1>1, <2>1
      <3>4. i \in 1..Len(toEngine[g][e]) /\ toEngine'[g][e][i] = toEngine[g][e][i]
        BY <3>1, <3>2, <3>3, AppendAdds
      <3>5. QED BY <2>1, <3>4 DEF WaveInv
    <2>2. QED BY <1>0, <1>1, <2>1 DEF WaveInv
  <1>2. ASSUME NEW mode \in Modes, Pause(f, mode) PROVE WaveInv'
    <2>1. [type |-> "pause", mode |-> mode] \in EngineMsg
      BY DEF EngineMsg
    <2>2. QED BY Zenon, <1>1, <1>2, <2>1 DEF Pause, fronts
  <1>3. CASE Resume(f)
    <2>1. [type |-> "resume"] \in EngineMsg
      BY DEF EngineMsg
    <2>2. QED BY Zenon, <1>1, <1>3, <2>1 DEF Resume, fronts
  <1>4. CASE FirstReq(f)
    <2> DEFINE v == [type |-> "first", engine |-> Head(first[f]), wave |-> front[f].wave]
    <2>1. v \in CoordMsg /\ v.type = "first"
      BY <1>4, TailType DEF FirstReq, CoordMsg, TypeInv, WaveState
    <2>2. /\ toCoord' = [toCoord EXCEPT ![f] = Append(@, v)]
          /\ front' = [front EXCEPT ![f].running = TRUE]
          /\ UNCHANGED <<coord, toFront, start, toEngine>>
      BY <1>4 DEF FirstReq
    <2> HIDE DEF v
    <2>3. \A g \in Fronts : front'[g].wave = front[g].wave
      BY <2>2 DEF TypeInv, WaveState
    <2>4. ASSUME NEW x \in Fronts \union Engines, NEW i \in 1..Len(toCoord'[x])
          PROVE  /\ toCoord'[x][i].type = "start" => Reached(toCoord'[x][i].wave)
                 /\ toCoord'[x][i].type = "complete" => Reached(toCoord'[x][i].wave + 1)
      <3>1. toCoord[x] \in Seq(CoordMsg)
        BY DEF TypeInv
      <3>2. toCoord'[x] = IF x = f THEN Append(toCoord[x], v) ELSE toCoord[x]
        BY <2>2 DEF TypeInv
      <3>3. (i \in 1..Len(toCoord[x]) /\ toCoord'[x][i] = toCoord[x][i]) \/ toCoord'[x][i] = v
        BY <2>1, <3>1, <3>2, AppendAdds
      <3>4. QED BY <2>1, <3>3 DEF WaveInv
    <2>5. QED BY <1>0, <2>2, <2>3, <2>4 DEF WaveInv
  <1>5. CASE StatsUpdate(f)
    <2>1. Reached(Head(toFront[f]).wave)
      <3>1. toFront[f] \in Seq(WaveState) /\ toFront[f] # <<>>
        BY <1>5 DEF StatsUpdate, TypeInv
      <3>2. 1 \in 1..Len(toFront[f]) /\ Head(toFront[f]) = toFront[f][1]
        BY <3>1
      <3>3. QED BY <3>2 DEF WaveInv
    <2>2. /\ \A g \in Fronts : front'[g] = IF g = f THEN Head(toFront[f]) ELSE front[g]
          /\ \A g \in Fronts : toFront'[g] = IF g = f THEN <<>> ELSE toFront[g]
          /\ UNCHANGED <<coord, toCoord, start, toEngine>>
      BY <1>5 DEF StatsUpdate, TypeInv
    <2>3. QED BY <1>0, <2>1, <2>2 DEF WaveInv
  <1>6. QED BY <1>2, <1>3, <1>4, <1>5 DEF Client

\* A request carries the wave that its front end knows.
LEMMA RequestWave ==
    ASSUME TypeInv, WaveInv, NEW r \in Requests, AddRequest(r) \/ Abort(r) PROVE WaveInv'
  <1>0. /\ UNCHANGED <<eng, coord, front, toFront, start, toCoord>>
        /\ \A w : Reached(w)' = Reached(w)
    BY Zenon DEF AddRequest, Abort, Reached, fronts
  <1> DEFINE f == Home[r].front
             e == Home[r].engine
  <1>1. f \in Fronts /\ e \in Engines
    BY WavesAssumption
  <1>2. PICK v \in EngineMsg : /\ toEngine' = [toEngine EXCEPT ![f][e] = Append(@, v)]
                               /\ v.type = "add" => v.wave = front[f].wave
    <2>1. CASE AddRequest(r)
      <3>1. [type |-> "add", req |-> r, wave |-> front[f].wave] \in EngineMsg
        BY <1>1 DEF EngineMsg, TypeInv, WaveState
      <3>2. QED BY Zenon, <2>1, <3>1 DEF AddRequest
    <2>2. CASE Abort(r)
      <3>1. [type |-> "abort", req |-> r] \in EngineMsg
        BY DEF EngineMsg
      <3>2. QED BY Zenon, <2>2, <3>1 DEF Abort
    <2>3. QED BY Zenon, <2>1, <2>2
  <1> HIDE DEF f, e
  <1>3. ASSUME NEW g \in Fronts, NEW d \in Engines, NEW i \in 1..Len(toEngine'[g][d]),
               toEngine'[g][d][i].type = "add"
        PROVE  Reached(toEngine'[g][d][i].wave)
    <2>1. toEngine[g][d] \in Seq(EngineMsg)
      BY DEF TypeInv
    <2>2. toEngine'[g][d] = IF g = f /\ d = e THEN Append(toEngine[g][d], v) ELSE toEngine[g][d]
      BY <1>1, <1>2 DEF TypeInv
    <2>3. CASE toEngine'[g][d][i] = v
      BY <1>1, <1>2, <1>3, <2>3 DEF WaveInv
    <2>4. CASE toEngine'[g][d][i] # v
      <3>1. i \in 1..Len(toEngine[g][d]) /\ toEngine'[g][d][i] = toEngine[g][d][i]
        BY <2>1, <2>2, <2>4, AppendAdds
      <3>2. QED BY <1>3, <3>1 DEF WaveInv
    <2>5. QED BY <2>3, <2>4
  <1>4. QED BY <1>0, <1>3 DEF WaveInv

\* The coordinator takes a later wave only from an engine that is in it, or that has
\* completed the one before.
LEMMA CoordWave ==
    ASSUME TypeInv, WaveInv, (\E x \in Fronts \union Engines : Coordinate(x)) \/ Republish
    PROVE  WaveInv'
  <1>0. /\ UNCHANGED <<eng, front, toEngine>>
        /\ \A w : Reached(w)' = Reached(w)
    BY DEF Coordinate, Republish, Reached, fronts
  <1>1. ASSUME Reached(coord'.wave),
               \/ UNCHANGED toFront
               \/ toFront' = [f \in Fronts |-> <<coord'>>]
        PROVE  \A f \in Fronts : \A i \in 1..Len(toFront'[f]) : Reached(toFront'[f][i].wave)
    BY <1>1 DEF WaveInv
  <1>2. CASE Republish
    <2>1. UNCHANGED <<coord, start, toCoord>> /\ toFront' = [f \in Fronts |-> <<coord>>]
      BY <1>2 DEF Republish
    <2>2. QED BY <1>0, <1>1, <2>1 DEF WaveInv
  <1>3. ASSUME NEW x \in Fronts \union Engines, Coordinate(x) PROVE WaveInv'
    <2> DEFINE m == Head(toCoord[x])
    <2>1. /\ toCoord[x] \in Seq(CoordMsg) /\ toCoord[x] # <<>>
          /\ toCoord' = [toCoord EXCEPT ![x] = Tail(@)]
      BY <1>3 DEF Coordinate, TypeInv
    <2>2. /\ m.type = "start" => Reached(m.wave)
          /\ m.type = "complete" => Reached(m.wave + 1)
      <3>1. 1 \in 1..Len(toCoord[x]) /\ m = toCoord[x][1]
        BY <2>1
      <3>2. QED BY <3>1 DEF WaveInv
    <2>3. ASSUME NEW y \in Fronts \union Engines, NEW i \in 1..Len(toCoord'[y])
          PROVE  /\ toCoord'[y][i].type = "start" => Reached(toCoord'[y][i].wave)
                 /\ toCoord'[y][i].type = "complete" => Reached(toCoord'[y][i].wave + 1)
      <3>1. \E j \in 1..Len(toCoord[y]) : toCoord'[y][i] = toCoord[y][j]
        <4>1. CASE y = x
          <5>1. toCoord'[y] = Tail(toCoord[x])
            BY <2>1, <4>1 DEF TypeInv
          <5>2. i + 1 \in 1..Len(toCoord[x]) /\ Tail(toCoord[x])[i] = toCoord[x][i + 1]
            BY Zenon, <2>1, <5>1, TailKeeps
          <5>3. QED BY <4>1, <5>1, <5>2
        <4>2. CASE y # x
          <5>1. toCoord'[y] = toCoord[y]
            BY <2>1, <4>2 DEF TypeInv
          <5>2. QED BY <5>1
        <4>3. QED BY <4>1, <4>2
      <3>2. QED BY <3>1 DEF WaveInv
    <2> HIDE DEF m
    <2>4. ASSUME NEW w, NEW k, Reached(w), SendStartWave(w, k),
                 NEW e \in Engines, NEW i \in 1..Len(start'[e])
          PROVE  Reached(start'[e][i].wave)
      <3> DEFINE v == [wave |-> w, exclude |-> k]
                 S == [wave : Nat, exclude : Nat \union Fronts] \union {v}
      <3>1. start[e] \in Seq([wave : Nat, exclude : Nat \union Fronts])
        BY Zenon DEF TypeInv
      <3>2. start[e] \in Seq(S) /\ v \in S
        BY Zenon, <3>1, LargerSeq
      <3>3. start'[e] = Append(start[e], v)
        BY <2>4 DEF SendStartWave, Broadcast, TypeInv
      <3> HIDE DEF S
      <3>4. (i \in 1..Len(start[e]) /\ start'[e][i] = start[e][i]) \/ start'[e][i] = v
        BY <3>2, <3>3, AppendAdds
      <3>5. QED BY <2>4, <3>4 DEF WaveInv
    <2>5. /\ Reached(coord'.wave)
          /\ UNCHANGED toFront \/ toFront' = [f \in Fronts |-> <<coord'>>]
          /\ \A e \in Engines : \A i \in 1..Len(start'[e]) : Reached(start'[e][i].wave)
      <3>0. Reached(coord.wave)
        BY DEF WaveInv
      <3>1. CASE OnFirst(m)
        BY <2>4, <3>0, <3>1 DEF OnFirst, SetWave, WaveInv
      <3>2. CASE m.type = "complete" /\ OnComplete(m)
        BY <2>2, <3>0, <3>2 DEF OnComplete, SetWave, WaveInv
      <3>3. CASE m.type = "start" /\ OnStart(x, m)
        BY <2>2, <2>4, <3>0, <3>3, SMTT(30) DEF OnStart, SetWave, WaveInv
      <3>4. QED
        BY Zenon, <1>3, <3>1, <3>2, <3>3 DEF Coordinate, m
    <2>6. QED BY <1>0, <1>1, <2>3, <2>5 DEF WaveInv
  <1>4. QED BY <1>2, <1>3

\* The first message of a channel.
LEMMA HeadFirst ==
    ASSUME NEW S, NEW s \in Seq(S), s # <<>>
    PROVE  1 \in 1..Len(s) /\ Head(s) = s[1] /\ Head(s) \in S
  OBVIOUS

\* The message that an engine takes from a front end.
LEMMA HandleTakes ==
    ASSUME TypeInv, NEW f \in Fronts, NEW e \in Engines, Handle(f, e)
    PROVE  /\ eng[e].at = "input"
           /\ toEngine[f][e] \in Seq(EngineMsg) /\ toEngine[f][e] # <<>>
           /\ 1 \in 1..Len(toEngine[f][e])
           /\ Head(toEngine[f][e]) = toEngine[f][e][1] /\ toEngine[f][e][1] \in EngineMsg
           /\ toEngine' = [toEngine EXCEPT ![f][e] = Tail(@)]
           /\ \A g \in Fronts, d \in Engines : toEngine'[g][d] =
                IF g = f /\ d = e THEN Tail(toEngine[f][e]) ELSE toEngine[g][d]
           /\ UNCHANGED <<front, first, coord, start, toFront, admin>>
           /\ LET m == toEngine[f][e][1] IN
              \/ m.type = "add" /\ OnAdd(e, m)
              \/ m.type = "add" /\ OnReject(m)
              \/ m.type = "abort" /\ OnAbort(e, m)
              \/ m.type = "pause" /\ OnPause(e, m)
              \/ m.type = "resume" /\ OnResume(e)
  <1>1. toEngine[f][e] \in Seq(EngineMsg) /\ toEngine[f][e] # <<>>
    BY DEF Handle, TypeInv
  <1>2. /\ 1 \in 1..Len(toEngine[f][e])
        /\ Head(toEngine[f][e]) = toEngine[f][e][1] /\ toEngine[f][e][1] \in EngineMsg
    BY <1>1
  <1>3. toEngine' = [toEngine EXCEPT ![f][e] = Tail(@)]
    BY DEF Handle
  <1>4. \A g \in Fronts, d \in Engines : toEngine'[g][d] =
                IF g = f /\ d = e THEN Tail(toEngine[f][e]) ELSE toEngine[g][d]
    BY <1>3 DEF TypeInv
  <1>5. QED BY <1>1, <1>2, <1>3, <1>4 DEF Handle, fronts, control

\* What an engine does on a message, or by itself, to its own state.
LEMMA EngineKeeps ==
    ASSUME TypeInv, WaveInv, NEW e \in Engines, Engine(e)
    PROVE  /\ \A d \in Engines : eng'[d].wave = eng[d].wave /\ eng'[d].counter = eng[d].counter
           /\ \A d \in Engines \ {e} : eng'[d] = eng[d]
           /\ eng[e].at = "input" /\ eng'[e].at # "reduce"
  <1>0. eng[e] \in EngineState /\ DOMAIN eng = Engines
    BY DEF TypeInv
  <1> DEFINE Keeps == /\ eng'[e].wave = eng[e].wave /\ eng'[e].counter = eng[e].counter
                      /\ \A d \in Engines \ {e} : eng'[d] = eng[d]
                      /\ eng[e].at = "input" /\ eng'[e].at # "reduce"
  <1>a. SUFFICES Keeps
    OBVIOUS
  <1>1. ASSUME NEW f \in Fronts, Handle(f, e) PROVE Keeps
    <2> DEFINE m == toEngine[f][e][1]
    <2>1. /\ eng[e].at = "input" /\ m \in EngineMsg
          /\ \/ m.type = "add" /\ OnAdd(e, m)
             \/ m.type = "add" /\ OnReject(m)
             \/ m.type = "abort" /\ OnAbort(e, m)
             \/ m.type = "pause" /\ OnPause(e, m)
             \/ m.type = "resume" /\ OnResume(e)
      BY <1>1, HandleTakes
    <2>2. CASE m.type = "add" /\ OnAdd(e, m)
      <3>1. m.wave \in Nat /\ m.wave <= eng[e].wave /\ eng[e].wave \in Nat
        BY <1>0, <1>1, <2>1, <2>2, HandleTakes DEF WaveInv, Reached, EngineMsg, EngineState
      <3> HIDE DEF m
      <3>2. QED BY <1>0, <2>1, <2>2, <3>1 DEF OnAdd, EngineState
    <2> HIDE DEF m
    <2>3. CASE OnReject(m)
      BY <2>1, <2>3 DEF OnReject
    <2>4. CASE OnAbort(e, m)
      BY <1>0, <2>1, <2>4 DEF OnAbort, EngineState
    <2>5. CASE OnPause(e, m)
      BY <1>0, <2>1, <2>5 DEF OnPause, EngineState
    <2>6. CASE OnResume(e)
      BY <1>0, <2>1, <2>6 DEF OnResume, EngineState
    <2>7. QED BY <2>1, <2>2, <2>3, <2>4, <2>5, <2>6
  <1>2. CASE StartWave(e)
    <2> DEFINE m == Head(start[e])
    <2>1. m.wave \in Nat /\ m.wave <= eng[e].wave /\ eng[e].wave \in Nat
      <3>1. start[e] \in Seq([wave : Nat, exclude : Nat \union Fronts]) /\ start[e] # <<>>
        BY Zenon, <1>2 DEF StartWave, TypeInv
      <3>2. 1 \in 1..Len(start[e]) /\ m = start[e][1]
            /\ m \in [wave : Nat, exclude : Nat \union Fronts]
        BY Zenon, <3>1, HeadFirst
      <3>3. QED BY <1>0, <3>2 DEF WaveInv, Reached, EngineState
    <2>2. eng[e].at = "input"
          /\ eng' = IF Obeys(e, m) THEN [eng EXCEPT ![e].wave = m.wave, ![e].running = TRUE]
                                   ELSE eng
      BY <1>2 DEF StartWave
    <2> HIDE DEF m
    <2>3. Obeys(e, m) => m.wave = eng[e].wave
      BY <2>1 DEF Obeys
    <2>4. QED BY <1>0, <2>2, <2>3 DEF EngineState
  <1>3. CASE IdleCallback(e)
    BY <1>0, <1>3 DEF IdleCallback, EngineState
  <1>4. CASE EnterPass(e)
    BY <1>0, <1>4 DEF EnterPass, EngineState
  <1>5. QED BY <1>1, <1>2, <1>3, <1>4 DEF Engine

\* Neither a request nor START_DP_WAVE moves an engine to another wave: the engines are
\* there already.
LEMMA EngineWave ==
    ASSUME TypeInv, WaveInv, ReduceInv, NEW e \in Engines, Engine(e)
    PROVE  WaveInv' /\ ReduceInv'
  <1>0. /\ \A d \in Engines : eng'[d].wave = eng[d].wave /\ eng'[d].counter = eng[d].counter
        /\ \A d \in Engines \ {e} : eng'[d] = eng[d]
        /\ eng[e].at = "input" /\ eng'[e].at # "reduce"
    BY EngineKeeps
  <1>1. \A w : Reached(w)' <=> Reached(w)
    BY <1>0 DEF Reached
  <1>2. ReduceInv'
    BY <1>0 DEF ReduceInv
  <1>3. /\ \A d, c \in Engines : eng'[d].wave = eng'[c].wave /\ eng'[d].counter = eng'[c].counter
        /\ Reached(eng[e].wave)
    <2>1. \A d \in Engines : eng[e].wave = eng[d].wave /\ eng[d].wave \in Nat
      BY ZenonT(40) DEF WaveInv, TypeInv, EngineState
    <2>2. QED BY <1>0, <2>1 DEF WaveInv, Reached
  <1>4. ASSUME NEW f \in Fronts, Handle(f, e) PROVE WaveInv'
    <2>1. ASSUME NEW g \in Fronts, NEW d \in Engines, NEW i \in 1..Len(toEngine'[g][d]),
                 toEngine'[g][d][i].type = "add"
          PROVE  Reached(toEngine'[g][d][i].wave)
      <3>1. \E j \in 1..Len(toEngine[g][d]) : toEngine'[g][d][i] = toEngine[g][d][j]
        <4>1. CASE g = f /\ d = e
          <5>1. toEngine'[g][d] = Tail(toEngine[f][e])
            BY <1>4, <4>1, HandleTakes
          <5>2. i + 1 \in 1..Len(toEngine[f][e]) /\ Tail(toEngine[f][e])[i] = toEngine[f][e][i + 1]
            BY <1>4, <5>1, HandleTakes, TailKeeps
          <5>3. QED BY <4>1, <5>1, <5>2
        <4>2. CASE ~(g = f /\ d = e)
          <5>1. toEngine'[g][d] = toEngine[g][d]
            BY <1>4, <4>2, HandleTakes
          <5>2. QED BY <5>1
        <4>3. QED BY <4>1, <4>2
      <3>2. PICK j \in 1..Len(toEngine[g][d]) : toEngine'[g][d][i] = toEngine[g][d][j]
        BY <3>1
      <3>3. toEngine[g][d][j].type = "add"
        BY <2>1, <3>2
      <3>4. Reached(toEngine[g][d][j].wave)
        BY <3>3 DEF WaveInv
      <3>5. QED BY <3>2, <3>4
    <2>2. ASSUME NEW x \in Fronts \union Engines, NEW i \in 1..Len(toCoord'[x])
          PROVE  /\ toCoord'[x][i].type = "start" => Reached(toCoord'[x][i].wave)
                 /\ toCoord'[x][i].type = "complete" => Reached(toCoord'[x][i].wave + 1)
      <3> DEFINE v == [type |-> "start", wave |-> eng[e].wave]
      <3>1. v \in CoordMsg /\ toCoord[x] \in Seq(CoordMsg)
        BY Zenon DEF CoordMsg, TypeInv, EngineState
      <3>2. UNCHANGED toCoord \/ toCoord' = [toCoord EXCEPT ![e] = Append(@, v)]
        <4> DEFINE m == toEngine[f][e][1]
        <4>1. OnAdd(e, m) \/ OnReject(m) \/ OnAbort(e, m) \/ OnPause(e, m) \/ OnResume(e)
          BY <1>4, HandleTakes
        <4> HIDE DEF m
        <4>2. ASSUME NEW g, g = [eng[e] EXCEPT !.waiting = @ \union {m.req}] PROVE g.wave = eng[e].wave
          BY <4>2 DEF TypeInv, EngineState
        <4>3. QED
          BY <4>1, <4>2 DEF OnAdd, OnReject, OnAbort, OnPause, OnResume
      <3>3. toCoord'[x] = toCoord[x] \/ toCoord'[x] = Append(toCoord[x], v)
        BY <3>2 DEF TypeInv
      <3>4. (i \in 1..Len(toCoord[x]) /\ toCoord'[x][i] = toCoord[x][i]) \/ toCoord'[x][i] = v
        <4> HIDE DEF v
        <4>1. CASE toCoord'[x] = toCoord[x]
          BY <4>1
        <4>2. CASE toCoord'[x] = Append(toCoord[x], v)
          BY <3>1, <4>2, AppendAdds
        <4>3. QED BY <3>3, <4>1, <4>2
      <3>5. QED BY <1>3, <3>4, SMTT(30) DEF WaveInv, Reached
    <2>3. QED BY <1>1, <1>3, <1>4, <2>1, <2>2, HandleTakes DEF WaveInv
  <1>5. CASE StartWave(e)
    <2>1. start[e] \in Seq([wave : Nat, exclude : Nat \union Fronts]) /\ start[e] # <<>>
          /\ start' = [start EXCEPT ![e] = Tail(@)]
          /\ UNCHANGED <<front, coord, toFront, toEngine, toCoord>>
      BY Zenon, <1>5 DEF StartWave, TypeInv, fronts
    <2>2. ASSUME NEW d \in Engines, NEW i \in 1..Len(start'[d])
          PROVE  Reached(start'[d][i].wave)
      <3>1. \E j \in 1..Len(start[d]) : start'[d][i] = start[d][j]
        <4>1. CASE d = e
          <5>1. start'[d] = Tail(start[e])
            BY <2>1, <4>1 DEF TypeInv
          <5>2. i + 1 \in 1..Len(start[e]) /\ Tail(start[e])[i] = start[e][i + 1]
            BY Zenon, <2>1, <5>1, TailKeeps
          <5>3. QED BY <4>1, <5>1, <5>2
        <4>2. CASE d # e
          <5>1. start'[d] = start[d]
            BY <2>1, <4>2 DEF TypeInv
          <5>2. QED BY <5>1
        <4>3. QED BY <4>1, <4>2
      <3>2. QED BY Zenon, <3>1 DEF WaveInv
    <2>3. QED BY <1>1, <1>2, <1>3, <2>1, <2>2 DEF WaveInv
  <1>6. CASE IdleCallback(e) \/ EnterPass(e)
    <2>1. UNCHANGED <<front, coord, toFront, toEngine, toCoord, start>>
      BY <1>6 DEF IdleCallback, EnterPass, fronts, wires
    <2>2. QED BY <1>1, <1>2, <1>3, <2>1 DEF WaveInv
  <1>7. QED BY <1>2, <1>4, <1>5, <1>6 DEF Engine

\* The collectives move all engines in the same way.
LEMMA CollectiveWave ==
    ASSUME TypeInv, TypeInv', WaveInv, Pass \/ AllReduce \/ ResumeBarrier
    PROVE  WaveInv' /\ ReduceInv'
  <1>0. \A d \in Engines : eng[d] \in EngineState
    BY DEF TypeInv
  <1>1. CASE Pass
    <2> DEFINE n(d) == (eng[d].counter + 1) % Period
               h(d) == [eng[d] EXCEPT !.active = {r \in @ : left'[r] > 0},
                                      !.counter = n(d), !.running = TRUE,
                                      !.at = IF n(d) = 0 THEN "reduce" ELSE "input"]
    <2>1. eng' = [d \in Engines |-> h(d)] /\ UNCHANGED <<front, coord, toFront, toEngine, toCoord, start>>
      BY Zenon, <1>1 DEF Pass, fronts, wires
    <2>2. ASSUME NEW d \in Engines
          PROVE  h(d).wave = eng[d].wave /\ h(d).counter = n(d)
                 /\ h(d).at = IF n(d) = 0 THEN "reduce" ELSE "input"
      BY <1>0 DEF EngineState
    <2>3. \A d, c \in Engines : n(d) = n(c)
      BY Zenon DEF WaveInv
    <2> HIDE DEF n, h
    <2>4. \A d \in Engines : eng'[d].wave = eng[d].wave /\ eng'[d].counter = n(d)
                 /\ eng'[d].at = IF n(d) = 0 THEN "reduce" ELSE "input"
      BY Zenon, <2>1, <2>2
    <2>5. \A w : Reached(w)' <=> Reached(w)
      BY <2>4 DEF Reached
    <2>6. ReduceInv'
      BY <2>3, <2>4 DEF ReduceInv
    <2>7. \A d, c \in Engines : eng'[d].wave = eng'[c].wave /\ eng'[d].counter = eng'[c].counter
      BY <2>3, <2>4 DEF WaveInv
    <2>8. QED BY ZenonT(40), <2>1, <2>5, <2>6, <2>7 DEF WaveInv
  <1>2. CASE ResumeBarrier
    <2> DEFINE h(d) == [eng[d] EXCEPT !.running = Restarts(d), !.at = "input"]
    <2>1. eng' = [d \in Engines |-> h(d)] /\ UNCHANGED <<front, coord, toFront, toEngine, toCoord, start>>
      BY Zenon, <1>2 DEF ResumeBarrier, fronts, wires
    <2>2. ASSUME NEW d \in Engines
          PROVE  h(d).wave = eng[d].wave /\ h(d).counter = eng[d].counter /\ h(d).at = "input"
      BY <1>0 DEF EngineState
    <2> HIDE DEF h
    <2>4. \A d \in Engines : eng'[d].wave = eng[d].wave /\ eng'[d].counter = eng[d].counter
                 /\ eng'[d].at = "input"
      BY <2>1, <2>2
    <2>5. \A w : Reached(w)' <=> Reached(w)
      BY <2>4 DEF Reached
    <2>6. ReduceInv'
      BY <2>4 DEF ReduceInv
    <2>7. \A d, c \in Engines : eng'[d].wave = eng'[c].wave /\ eng'[d].counter = eng'[c].counter
      BY <2>4 DEF WaveInv
    <2>8. QED BY <2>1, <2>5, <2>6, <2>7 DEF WaveInv
  <1>3. CASE AllReduce
    <2> DEFINE asked == {d \in Engines : eng[d].pending}
               more == MoreWork(asked)
               consensus == asked = Engines
               h(d) == [eng[d] EXCEPT !.ignore = @ \/ consensus, !.pending = @ /\ ~consensus,
                                      !.running = more, !.wave = IF more THEN @ ELSE @ + 1,
                                      !.counter = IF more THEN @ ELSE 0, !.at = "input"]
               v == [type |-> "complete", wave |-> eng[0].wave]
    <2>1. /\ eng' = [d \in Engines |-> h(d)]
          /\ UNCHANGED <<front, coord, toFront, toEngine, start>>
          /\ toCoord' = IF more THEN toCoord ELSE [toCoord EXCEPT ![0] = Append(@, v)]
      BY Zenon, <1>3 DEF AllReduce, fronts, wires
    <2> HIDE DEF more, consensus
    <2>2. ASSUME NEW d \in Engines
          PROVE  /\ h(d).wave = IF more THEN eng[d].wave ELSE eng[d].wave + 1
                 /\ h(d).counter = IF more THEN eng[d].counter ELSE 0
                 /\ h(d).at = "input"
      BY <1>0 DEF EngineState
    <2> HIDE DEF h
    <2>4. ASSUME NEW d \in Engines
          PROVE  /\ eng'[d].wave = IF more THEN eng[d].wave ELSE eng[d].wave + 1
                 /\ eng'[d].counter = IF more THEN eng[d].counter ELSE 0
                 /\ eng'[d].at = "input"
                 /\ eng[d].wave \in Nat /\ eng[d].wave <= eng'[d].wave
      <3>1. eng[d].wave \in Nat
        BY <1>0 DEF EngineState
      <3>2. QED BY <2>1, <2>2, <3>1
    <2>5. \A w \in Nat : Reached(w) => Reached(w)'
      BY <2>4, StaysReached
    <2>6. ReduceInv'
      BY <2>4 DEF ReduceInv
    <2>7. \A d, c \in Engines : eng'[d].wave = eng'[c].wave /\ eng'[d].counter = eng'[c].counter
      BY <2>4 DEF WaveInv
    <2>8. v \in CoordMsg /\ v.type = "complete" /\ v.wave = eng[0].wave
      BY <1>0, EnginesType DEF CoordMsg, EngineState
    <2>9. ~more => \A d \in Engines : v.wave + 1 <= eng'[d].wave
      <3>1. \A d \in Engines : eng[d].wave = eng[0].wave
        BY EnginesType DEF WaveInv
      <3>2. QED BY <2>4, <2>8, <3>1
    <2>10. /\ coord.wave \in Nat /\ Reached(coord.wave)
           /\ \A f \in Fronts : front[f].wave \in Nat /\ Reached(front[f].wave)
           /\ \A f \in Fronts : \A i \in 1..Len(toFront[f]) :
                toFront[f][i].wave \in Nat /\ Reached(toFront[f][i].wave)
      <3>1. coord.wave \in Nat /\ \A f \in Fronts : front[f].wave \in Nat
        BY DEF TypeInv, WaveState
      <3>2. ASSUME NEW f \in Fronts, NEW i \in 1..Len(toFront[f]) PROVE toFront[f][i].wave \in Nat
        <4>1. toFront[f] \in Seq(WaveState)
          BY DEF TypeInv
        <4>2. toFront[f][i] \in WaveState
          BY <4>1
        <4>3. QED BY <4>2 DEF WaveState
      <3>3. QED BY <3>1, <3>2 DEF WaveInv
    <2>11. \A d \in Engines : \A i \in 1..Len(start[d]) :
                start[d][i].wave \in Nat /\ Reached(start[d][i].wave)
      <3>1. ASSUME NEW d \in Engines, NEW i \in 1..Len(start[d]) PROVE start[d][i].wave \in Nat
        <4>1. start[d] \in Seq([wave : Nat, exclude : Nat \union Fronts])
          BY Zenon DEF TypeInv
        <4>2. start[d][i] \in [wave : Nat, exclude : Nat \union Fronts]
          BY Zenon, <4>1, ElementOf
        <4>3. QED BY <4>2
      <3>2. QED BY <3>1 DEF WaveInv
    <2>12. \A f \in Fronts, d \in Engines : \A i \in 1..Len(toEngine[f][d]) :
            toEngine[f][d][i].type = "add" =>
                toEngine[f][d][i].wave \in Nat /\ Reached(toEngine[f][d][i].wave)
      <3>1. ASSUME NEW f \in Fronts, NEW d \in Engines, NEW i \in 1..Len(toEngine[f][d]),
                   toEngine[f][d][i].type = "add"
            PROVE  toEngine[f][d][i].wave \in Nat
        <4>1. toEngine[f][d][i] \in EngineMsg
          BY DEF TypeInv
        <4>2. QED BY <3>1, <4>1 DEF EngineMsg
      <3>2. QED BY <3>1 DEF WaveInv
    <2>13. ASSUME NEW x \in Fronts \union Engines, NEW i \in 1..Len(toCoord'[x])
           PROVE  /\ toCoord'[x][i].type = "start" => Reached(toCoord[x][i].wave)'
                  /\ toCoord'[x][i].type = "complete" => Reached(toCoord[x][i].wave + 1)'
      <3> HIDE DEF v
      <3>1. toCoord[x] \in Seq(CoordMsg) /\ 0 \in Fronts \union Engines
        BY EnginesType DEF TypeInv
      <3>2. toCoord'[x] = IF ~more /\ x = 0 THEN Append(toCoord[x], v) ELSE toCoord[x]
        BY <2>1 DEF TypeInv
      <3>3. (i \in 1..Len(toCoord[x]) /\ toCoord'[x][i] = toCoord[x][i])
            \/ (~more /\ toCoord'[x][i] = v)
        BY <2>8, <3>1, <3>2, AppendAdds
      <3>4. CASE i \in 1..Len(toCoord[x]) /\ toCoord'[x][i] = toCoord[x][i]
        <4>1. toCoord[x][i] \in CoordMsg
          BY <3>1, <3>4
        <4>2. toCoord[x][i].wave \in Nat /\ toCoord[x][i].wave + 1 \in Nat
          BY <4>1 DEF CoordMsg
        <4>3. QED BY <2>5, <3>4, <4>2 DEF WaveInv
      <3>5. CASE ~more /\ toCoord'[x][i] = v
        BY <2>8, <2>9, <3>5 DEF Reached
      <3>6. QED BY <3>3, <3>4, <3>5
    <2>14. WaveInv'
      <3>1. /\ Reached(coord.wave)'
            /\ \A f \in Fronts : Reached(front[f].wave)'
            /\ \A f \in Fronts : \A i \in 1..Len(toFront'[f]) : Reached(toFront[f][i].wave)'
        BY <2>1, <2>5, <2>10
      <3>2. \A e \in Engines : \A i \in 1..Len(start'[e]) : Reached(start[e][i].wave)'
        BY <2>1, <2>5, <2>11
      <3>3. \A f \in Fronts, e \in Engines : \A i \in 1..Len(toEngine'[f][e]) :
            toEngine'[f][e][i].type = "add" => Reached(toEngine[f][e][i].wave)'
        BY <2>1, <2>5, <2>12
      <3>4. QED BY Zenon, <2>7, <2>13, <3>1, <3>2, <3>3 DEF WaveInv
    <2>15. QED BY <2>6, <2>14
  <1>4. QED BY <1>1, <1>2, <1>3

\* No step but the collectives brings an engine into the all-reduce.
LEMMA OthersReduce ==
    ASSUME ReduceInv, UNCHANGED eng PROVE ReduceInv'
  BY DEF ReduceInv

--------------------------------------------------------------------------------
(***************************************************************************)
(* Calls under way                                                         *)
(***************************************************************************)
\* A message that is no call, put on a channel or taken from it, leaves the
\* calls under way as they are.
SameCalls ==
    \A d \in Engines :
        /\ OneCall(d) => OneCall(d)'
        /\ Called(d, "pause")' <=> Called(d, "pause")
        /\ Called(d, "resume")' <=> Called(d, "resume")

\* Channels that stay as they are.
LEMMA CallsKept ==
    ASSUME UNCHANGED toEngine PROVE SameCalls
  BY DEF SameCalls, OneCall, Called

\* A request or an abort is sent.
LEMMA CallsAppend ==
    ASSUME TypeInv, NEW f \in Fronts, NEW e \in Engines, NEW v \in EngineMsg, ~IsCall(v),
           toEngine' = [toEngine EXCEPT ![f][e] = Append(@, v)]
    PROVE  SameCalls
  <1>1. \A g \in Fronts, d \in Engines :
            /\ toEngine[g][d] \in Seq(EngineMsg)
            /\ toEngine'[g][d] = IF g = f /\ d = e THEN Append(toEngine[g][d], v)
                                                   ELSE toEngine[g][d]
    BY DEF TypeInv
  <1>2. ASSUME NEW g \in Fronts, NEW d \in Engines, NEW i \in 1..Len(toEngine'[g][d]),
               IsCall(toEngine'[g][d][i])
        PROVE  i \in 1..Len(toEngine[g][d]) /\ toEngine'[g][d][i] = toEngine[g][d][i]
    <2>1. CASE g = f /\ d = e
      BY <1>1, <1>2, <2>1, AppendAdds
    <2>2. CASE ~(g = f /\ d = e)
      BY <1>1, <2>2
    <2>3. QED BY <2>1, <2>2
  <1>3. ASSUME NEW g \in Fronts, NEW d \in Engines, NEW i \in 1..Len(toEngine[g][d])
        PROVE  i \in 1..Len(toEngine'[g][d]) /\ toEngine'[g][d][i] = toEngine[g][d][i]
    <2>1. CASE g = f /\ d = e
      BY <1>1, <2>1
    <2>2. CASE ~(g = f /\ d = e)
      BY <1>1, <2>2
    <2>3. QED BY <2>1, <2>2
  <1>4. ASSUME NEW d \in Engines, OneCall(d) PROVE OneCall(d)'
    BY <1>2, <1>4 DEF OneCall
  <1>5. ASSUME NEW d \in Engines, NEW t \in {"pause", "resume"}
        PROVE  Called(d, t)' <=> Called(d, t)
    <2>1. ASSUME Called(d, t) PROVE Called(d, t)'
      BY <1>3, <2>1 DEF Called
    <2>2. ASSUME Called(d, t)' PROVE Called(d, t)
      BY <1>2, <2>2 DEF Called, IsCall
    <2>3. QED BY <2>1, <2>2
  <1>6. QED BY <1>4, <1>5 DEF SameCalls

\* The messages after the first one is taken.
LEMMA Taken ==
    ASSUME TypeInv, NEW f \in Fronts, NEW e \in Engines, toEngine[f][e] # <<>>,
           toEngine' = [toEngine EXCEPT ![f][e] = Tail(@)]
    PROVE  /\ \A g \in Fronts, d \in Engines :
                ~(g = f /\ d = e) => toEngine'[g][d] = toEngine[g][d]
           /\ \A i \in 1..Len(toEngine'[f][e]) :
                /\ i + 1 \in 1..Len(toEngine[f][e])
                /\ toEngine'[f][e][i] = toEngine[f][e][i + 1]
           /\ \A j \in 1..Len(toEngine[f][e]) :
                j # 1 => \E i \in 1..Len(toEngine'[f][e]) :
                            toEngine'[f][e][i] = toEngine[f][e][j]
  <1>1. toEngine[f][e] \in Seq(EngineMsg) /\ toEngine'[f][e] = Tail(toEngine[f][e])
    BY DEF TypeInv
  <1>2. \A g \in Fronts, d \in Engines : ~(g = f /\ d = e) => toEngine'[g][d] = toEngine[g][d]
    BY DEF TypeInv
  <1>3. ASSUME NEW i \in 1..Len(toEngine'[f][e])
        PROVE  /\ i + 1 \in 1..Len(toEngine[f][e])
               /\ toEngine'[f][e][i] = toEngine[f][e][i + 1]
    BY Zenon, <1>1, TailKeeps
  <1>4. ASSUME NEW j \in 1..Len(toEngine[f][e]), j # 1
        PROVE  \E i \in 1..Len(toEngine'[f][e]) : toEngine'[f][e][i] = toEngine[f][e][j]
    <2>1. j - 1 \in 1..Len(toEngine'[f][e])
      BY <1>1, <1>4
    <2>2. toEngine'[f][e][j - 1] = toEngine[f][e][(j - 1) + 1]
      BY SMTT(30), <1>3, <2>1
    <2>3. (j - 1) + 1 = j
      BY <1>1
    <2>4. QED BY <2>1, <2>2, <2>3
  <1>5. QED BY SMTT(30), <1>2, <1>3, <1>4

\* A request or an abort is taken.
LEMMA CallsTail ==
    ASSUME TypeInv, NEW f \in Fronts, NEW e \in Engines, toEngine[f][e] # <<>>,
           ~IsCall(toEngine[f][e][1]),
           toEngine' = [toEngine EXCEPT ![f][e] = Tail(@)]
    PROVE  SameCalls
  <1>0. /\ \A g \in Fronts, d \in Engines :
                ~(g = f /\ d = e) => toEngine'[g][d] = toEngine[g][d]
        /\ \A i \in 1..Len(toEngine'[f][e]) :
                /\ i + 1 \in 1..Len(toEngine[f][e])
                /\ toEngine'[f][e][i] = toEngine[f][e][i + 1]
        /\ \A j \in 1..Len(toEngine[f][e]) :
                j # 1 => \E i \in 1..Len(toEngine'[f][e]) :
                            toEngine'[f][e][i] = toEngine[f][e][j]
    BY Zenon, Taken
  <1>1. ASSUME NEW g \in Fronts, NEW d \in Engines, NEW i \in 1..Len(toEngine'[g][d])
        PROVE  \E j \in 1..Len(toEngine[g][d]) :
                  /\ toEngine'[g][d][i] = toEngine[g][d][j]
                  /\ j = IF g = f /\ d = e THEN i + 1 ELSE i
    <2>1. CASE g = f /\ d = e
      <3>0. i \in 1..Len(toEngine'[f][e])
        BY <2>1
      <3>1. i + 1 \in 1..Len(toEngine[g][d]) /\ toEngine'[g][d][i] = toEngine[g][d][i + 1]
        BY Zenon, <1>0, <2>1, <3>0
      <3>2. QED BY <2>1, <3>1
    <2>2. CASE ~(g = f /\ d = e)
      <3>1. toEngine'[g][d] = toEngine[g][d]
        BY <1>0, <2>2
      <3>2. QED BY <2>2, <3>1
    <2>3. QED BY <2>1, <2>2
  <1>2. ASSUME NEW g \in Fronts, NEW d \in Engines, NEW j \in 1..Len(toEngine[g][d]),
               IsCall(toEngine[g][d][j])
        PROVE  \E i \in 1..Len(toEngine'[g][d]) : toEngine'[g][d][i] = toEngine[g][d][j]
    <2>1. CASE g = f /\ d = e
      <3>1. j # 1
        BY <1>2, <2>1
      <3>2. j \in 1..Len(toEngine[f][e])
        BY <2>1
      <3>3. \E i \in 1..Len(toEngine'[f][e]) : toEngine'[f][e][i] = toEngine[f][e][j]
        BY <1>0, <3>1, <3>2
      <3>4. QED BY <2>1, <3>3
    <2>2. CASE ~(g = f /\ d = e)
      <3>1. toEngine'[g][d] = toEngine[g][d]
        BY <1>0, <2>2
      <3>2. QED BY Zenon, <3>1
    <2>3. QED BY <2>1, <2>2
  <1>4. ASSUME NEW d \in Engines, OneCall(d) PROVE OneCall(d)'
    <2>1. ASSUME NEW g \in Fronts, NEW h \in Fronts,
                 NEW i \in 1..Len(toEngine'[g][d]), NEW j \in 1..Len(toEngine'[h][d]),
                 IsCall(toEngine'[g][d][i]), IsCall(toEngine'[h][d][j])
          PROVE  g = h /\ i = j
      <3>1. PICK k \in 1..Len(toEngine[g][d]) :
                  /\ toEngine'[g][d][i] = toEngine[g][d][k]
                  /\ k = IF g = f /\ d = e THEN i + 1 ELSE i
        BY ZenonT(40), <1>1
      <3>2. PICK l \in 1..Len(toEngine[h][d]) :
                  /\ toEngine'[h][d][j] = toEngine[h][d][l]
                  /\ l = IF h = f /\ d = e THEN j + 1 ELSE j
        BY ZenonT(40), <1>1
      <3>3. g = h /\ k = l
        BY <1>4, <2>1, <3>1, <3>2, SMTT(30) DEF OneCall
      <3>4. i \in Int /\ j \in Int
        OBVIOUS
      <3>5. QED BY <3>1, <3>2, <3>3, <3>4
    <2>2. QED BY <2>1 DEF OneCall
  <1>5. ASSUME NEW d \in Engines, NEW t \in {"pause", "resume"}
        PROVE  Called(d, t)' <=> Called(d, t)
    <2>1. ASSUME Called(d, t) PROVE Called(d, t)'
      BY <1>2, <2>1 DEF Called, IsCall
    <2>2. ASSUME Called(d, t)' PROVE Called(d, t)
      <3>1. PICK g \in Fronts : \E i \in 1..Len(toEngine'[g][d]) : toEngine'[g][d][i].type = t
        BY <2>2 DEF Called
      <3>2. PICK i \in 1..Len(toEngine'[g][d]) : toEngine'[g][d][i].type = t
        BY <3>1
      <3>3. \E j \in 1..Len(toEngine[g][d]) : toEngine'[g][d][i] = toEngine[g][d][j]
        BY ZenonT(40), <1>1
      <3>4. QED BY <3>2, <3>3 DEF Called
    <2>3. QED BY <2>1, <2>2
  <1>6. QED BY <1>4, <1>5 DEF SameCalls

\* Nothing new on the way to an engine.
LEMMA OneCallKept ==
    ASSUME NEW d \in Engines, OneCall(d),
           \A g \in Fronts : toEngine'[g][d] = toEngine[g][d]
    PROVE  OneCall(d)'
  BY DEF OneCall

\* A call that an engine takes was the only one under way to it.
LEMMA CallTaken ==
    ASSUME TypeInv, NEW f \in Fronts, NEW e \in Engines, toEngine[f][e] # <<>>,
           1 \in 1..Len(toEngine[f][e]),
           IsCall(toEngine[f][e][1]), \A d \in Engines : OneCall(d),
           toEngine' = [toEngine EXCEPT ![f][e] = Tail(@)]
    PROVE  /\ \A d \in Engines : OneCall(d)'
           /\ Called(e, toEngine[f][e][1].type)
           /\ ~Called(e, "pause")' /\ ~Called(e, "resume")'
           /\ \A d \in Engines \ {e} : /\ Called(d, "pause")' <=> Called(d, "pause")
                                       /\ Called(d, "resume")' <=> Called(d, "resume")
  <1>0. /\ \A g \in Fronts, d \in Engines :
                ~(g = f /\ d = e) => toEngine'[g][d] = toEngine[g][d]
        /\ \A i \in 1..Len(toEngine'[f][e]) :
                /\ i + 1 \in 1..Len(toEngine[f][e])
                /\ toEngine'[f][e][i] = toEngine[f][e][i + 1]
        /\ \A j \in 1..Len(toEngine[f][e]) :
                j # 1 => \E i \in 1..Len(toEngine'[f][e]) :
                            toEngine'[f][e][i] = toEngine[f][e][j]
    BY Zenon, Taken
  <1>1. ASSUME NEW g \in Fronts, NEW i \in 1..Len(toEngine'[g][e])
        PROVE  ~IsCall(toEngine'[g][e][i])
    <2>1. CASE g = f
      <3>1. i + 1 \in 1..Len(toEngine[f][e]) /\ toEngine'[g][e][i] = toEngine[f][e][i + 1]
        BY Zenon, <1>0, <2>1
      <3>2. i + 1 # 1
        OBVIOUS
      <3>3. OneCall(e)
        OBVIOUS
      <3>4. ~IsCall(toEngine[f][e][i + 1])
        BY Zenon, <3>1, <3>2, <3>3 DEF OneCall
      <3>5. QED BY <3>1, <3>4
    <2>2. CASE g # f
      <3>1. toEngine'[g][e] = toEngine[g][e]
        BY <1>0, <2>2
      <3>2. OneCall(e)
        OBVIOUS
      <3>3. i \in 1..Len(toEngine[g][e]) /\ ~IsCall(toEngine[g][e][i])
        BY <2>2, <3>1, <3>2 DEF OneCall
      <3>4. QED BY Zenon, <3>1, <3>3
    <2>3. QED BY <2>1, <2>2
  <1>2. \A g \in Fronts, d \in Engines \ {e} : toEngine'[g][d] = toEngine[g][d]
    BY DEF TypeInv
  <1>3. ASSUME NEW d \in Engines PROVE OneCall(d)'
    <2>1. CASE d = e
      BY <1>1, <2>1 DEF OneCall
    <2>2. CASE d # e
      <3>1. \A g \in Fronts : toEngine'[g][d] = toEngine[g][d]
        BY <1>2, <2>2
      <3>2. OneCall(d)
        OBVIOUS
      <3>3. QED BY <3>1, <3>2, OneCallKept
    <2>3. QED BY <2>1, <2>2
  <1>4. ~Called(e, "pause")' /\ ~Called(e, "resume")'
    BY <1>1 DEF Called, IsCall
  <1>5. Called(e, toEngine[f][e][1].type)
    BY DEF Called
  <1>6. \A d \in Engines \ {e} : /\ Called(d, "pause")' <=> Called(d, "pause")
                                 /\ Called(d, "resume")' <=> Called(d, "resume")
    BY <1>2 DEF Called
  <1>7. QED BY <1>3, <1>4, <1>5, <1>6

\* A call to all engines, made while none is under way.
LEMMA CallMade ==
    ASSUME TypeInv, NEW f \in Fronts, NEW v \in EngineMsg,
           \A d \in Engines : ~Called(d, "pause") /\ ~Called(d, "resume"),
           toEngine' = [toEngine EXCEPT ![f] = Broadcast(@, v)]
    PROVE  \A d \in Engines :
              /\ OneCall(d)'
              /\ \A t \in {"pause", "resume"} : Called(d, t)' <=> v.type = t
  <1>1. \A g \in Fronts, d \in Engines :
            /\ toEngine[g][d] \in Seq(EngineMsg)
            /\ toEngine'[g][d] = IF g = f THEN Append(toEngine[g][d], v) ELSE toEngine[g][d]
    BY DEF TypeInv, Broadcast
  <1>2. TAKE d \in Engines
  <1>3. \A g \in Fronts : \A i \in 1..Len(toEngine[g][d]) : ~IsCall(toEngine[g][d][i])
    BY DEF Called, IsCall
  <1>4. ASSUME NEW g \in Fronts, NEW i \in 1..Len(toEngine'[g][d]), IsCall(toEngine'[g][d][i])
        PROVE  g = f /\ i = Len(toEngine[f][d]) + 1 /\ toEngine'[g][d][i] = v
    <2>1. CASE g = f
      <3>1. toEngine[f][d] \in Seq(EngineMsg) /\ toEngine'[f][d] = Append(toEngine[f][d], v)
        BY Zenon, <1>1
      <3>2. CASE i \in 1..Len(toEngine[f][d])
        <4>1. toEngine'[f][d][i] = toEngine[f][d][i]
          BY <3>1, <3>2
        <4>2. QED BY <1>3, <1>4, <2>1, <3>2, <4>1
      <3>3. CASE i \notin 1..Len(toEngine[f][d])
        BY <2>1, <3>1, <3>3
      <3>4. QED BY <3>2, <3>3
    <2>2. CASE g # f
      BY <1>1, <1>3, <1>4, <2>2
    <2>3. QED BY <2>1, <2>2
  <1>5. OneCall(d)'
    BY <1>4 DEF OneCall
  <1>6. \E i \in 1..Len(toEngine'[f][d]) : toEngine'[f][d][i] = v
    <2>1. toEngine[f][d] \in Seq(EngineMsg) /\ toEngine'[f][d] = Append(toEngine[f][d], v)
      BY Zenon, <1>1
    <2>2. Len(toEngine[f][d]) + 1 \in 1..Len(toEngine'[f][d])
          /\ toEngine'[f][d][Len(toEngine[f][d]) + 1] = v
      BY <2>1
    <2>3. QED BY <2>2
  <1>7. ASSUME NEW t \in {"pause", "resume"} PROVE Called(d, t)' <=> v.type = t
    <2>1. ASSUME Called(d, t)' PROVE v.type = t
      BY <1>4, <2>1 DEF Called, IsCall
    <2>2. ASSUME v.type = t PROVE Called(d, t)'
      BY <1>6, <2>2 DEF Called
    <2>3. QED BY <2>1, <2>2
  <1>8. QED BY <1>5, <1>7

(***************************************************************************)
(* The phases of a pause                                                   *)
(***************************************************************************)
\* The step of an engine that is not about a pause: it may start to run and
\* enter a pass, unless it is held and quiet.
Plain(g, h) ==
    /\ h.paused = g.paused /\ h.pending = g.pending
    /\ h.ignore = g.ignore /\ h.callback = g.callback
    /\ g.at # "resume" => h.at # "resume"
    /\ g.at = "resume" => h.at = "resume"
    /\ g.running => h.running
    /\ Held(g) /\ Quiet(g) => Quiet(h)

\* A step that is not about a pause stays in its phase.
LEMMA PlainPhase ==
    ASSUME PhaseInv, SameCalls, UNCHANGED admin, \A d \in Engines : Plain(eng[d], eng'[d])
    PROVE  PhaseInv'
  <1>1. \A d \in Engines : OneCall(d)'
    BY DEF PhaseInv, SameCalls
  <1>2. ASSUME NEW d \in Engines
        PROVE  /\ Called(d, "pause")' <=> Called(d, "pause")
               /\ Called(d, "resume")' <=> Called(d, "resume")
               /\ Unpaused(eng[d]) => Unpaused(eng'[d])
               /\ Asked(eng[d]) => Asked(eng'[d])
               /\ Held(eng[d]) => Held(eng'[d])
               /\ eng[d].at # "resume" => eng'[d].at # "resume"
               /\ eng[d].at = "resume" => eng'[d].at = "resume"
               /\ eng[d].running => eng'[d].running
               /\ eng'[d].callback = eng[d].callback
               /\ Held(eng[d]) /\ Quiet(eng[d]) => Quiet(eng'[d])
    BY DEF SameCalls, Plain, Unpaused, Asked, Held
  <1>3. CASE Serving
    <2>1. Serving'
      BY <1>2, <1>3 DEF Serving
    <2>2. QED BY <1>1, <2>1 DEF PhaseInv
  <1>4. CASE Pausing
    <2>1. Pausing'
      BY <1>2, <1>4 DEF Pausing
    <2>2. QED BY <1>1, <2>1 DEF PhaseInv
  <1>5. CASE Paused
    <2>1. Paused'
      BY <1>2, <1>5 DEF Paused
    <2>2. QED BY <1>1, <2>1 DEF PhaseInv
  <1>6. CASE Resuming
    <2>1. Resuming'
      BY <1>2, <1>6 DEF Resuming
    <2>2. QED BY <1>1, <2>1 DEF PhaseInv
  <1>7. QED BY <1>3, <1>4, <1>5, <1>6 DEF PhaseInv

\* The steps of front ends and coordinator, except the calls.
LEMMA SameEngines == ASSUME UNCHANGED eng PROVE \A d \in Engines : Plain(eng[d], eng'[d])
  BY DEF Plain

\* The engines start unpaused.
LEMMA InitPhase == Init => PhaseInv
  <1> SUFFICES ASSUME Init PROVE PhaseInv OBVIOUS
  <1>1. \A e \in Engines : \A t : ~Called(e, t)
    BY DEF Init, Called
  <1>2. \A e \in Engines : OneCall(e)
    BY DEF Init, OneCall
  <1>3. Serving
    BY <1>1 DEF Init, Serving, Unpaused
  <1>4. QED BY <1>2, <1>3 DEF PhaseInv

\* What pause_scheduler_async and resume_scheduler_async have waited for.
LEMMA AnsweredCalls ==
    ASSUME TypeInv, NEW t, Answered(t), NEW e \in Engines
    PROVE  ~Called(e, t) /\ ~eng[e].callback /\ eng[e].at # t
  <1>1. \A f \in Fronts : DOMAIN toEngine[f][e] = 1..Len(toEngine[f][e])
    BY DEF TypeInv
  <1>2. QED BY <1>1 DEF Answered, Called

\* The calls of a front end begin a pause or end it, each when the other is through.
LEMMA FrontPhase ==
    ASSUME TypeInv, PhaseInv, NEW f \in Fronts, Client(f) PROVE PhaseInv'
  <1>0. 0 \in Engines /\ \A d \in Engines : OneCall(d)
    BY EnginesType DEF PhaseInv
  <1>1. ASSUME NEW mode \in Modes, Pause(f, mode) PROVE PhaseInv'
    <2>1. admin = "resume" /\ admin' = "pause" /\ eng' = eng
      BY <1>1 DEF Pause
    <2>2. \A d \in Engines : ~Called(d, "resume") /\ eng[d].at # "resume"
      BY <1>1, AnsweredCalls DEF Pause
    <2>3. Serving
      BY <1>0, <2>1, <2>2 DEF PhaseInv, Pausing, Paused, Resuming
    <2> DEFINE v == [type |-> "pause", mode |-> mode]
    <2>4. v \in EngineMsg /\ v.type = "pause"
      BY DEF EngineMsg
    <2>5. toEngine' = [toEngine EXCEPT ![f] = Broadcast(@, v)]
      BY <1>1 DEF Pause
    <2> HIDE DEF v
    <2>6. \A d \in Engines : OneCall(d)' /\ Called(d, "pause")' /\ ~Called(d, "resume")'
      <3>1. \A d \in Engines : ~Called(d, "pause") /\ ~Called(d, "resume")
        BY <2>3 DEF Serving
      <3>2. \A d \in Engines : OneCall(d)'
                /\ \A t \in {"pause", "resume"} : Called(d, t)' <=> v.type = t
        BY Zenon, <2>4, <2>5, <3>1, CallMade
      <3>3. QED BY <2>4, <3>2
    <2>7. Pausing'
      BY <2>1, <2>2, <2>3, <2>6 DEF Pausing, Serving
    <2>8. QED BY <2>6, <2>7 DEF PhaseInv
  <1>2. CASE Resume(f)
    <2>1. admin = "pause" /\ admin' = "resume" /\ eng' = eng
      BY <1>2 DEF Resume
    <2>2. \A d \in Engines : ~Called(d, "pause") /\ ~eng[d].callback
      BY <1>2, AnsweredCalls DEF Resume
    <2>3. Paused /\ \A d \in Engines : Quiet(eng[d])
      BY <1>0, <2>1, <2>2 DEF PhaseInv, Serving, Pausing, Paused, Resuming, Asked
    <2> DEFINE v == [type |-> "resume"]
    <2>4. v \in EngineMsg /\ v.type = "resume"
      BY DEF EngineMsg
    <2>5. toEngine' = [toEngine EXCEPT ![f] = Broadcast(@, v)]
      BY <1>2 DEF Resume
    <2> HIDE DEF v
    <2>6. \A d \in Engines : OneCall(d)' /\ ~Called(d, "pause")' /\ Called(d, "resume")'
      <3>1. \A d \in Engines : ~Called(d, "pause") /\ ~Called(d, "resume")
        BY <2>3 DEF Paused
      <3>2. \A d \in Engines : OneCall(d)'
                /\ \A t \in {"pause", "resume"} : Called(d, t)' <=> v.type = t
        BY Zenon, <2>4, <2>5, <3>1, CallMade
      <3>3. QED BY <2>4, <3>2
    <2>7. Resuming'
      BY <2>1, <2>2, <2>3, <2>6 DEF Resuming, Paused
    <2>8. QED BY <2>6, <2>7 DEF PhaseInv
  <1>3. CASE FirstReq(f) \/ StatsUpdate(f)
    <2>1. UNCHANGED <<eng, toEngine, admin>>
      BY <1>3 DEF FirstReq, StatsUpdate, control
    <2>2. QED BY <2>1, CallsKept, SameEngines, PlainPhase
  <1>4. QED BY <1>1, <1>2, <1>3 DEF Client

\* Requests and aborts leave the phase as it is.
LEMMA RequestPhase ==
    ASSUME TypeInv, PhaseInv, NEW r \in Requests, AddRequest(r) \/ Abort(r) PROVE PhaseInv'
  <1> DEFINE f == Home[r].front
             e == Home[r].engine
  <1>1. f \in Fronts /\ e \in Engines
    BY WavesAssumption
  <1> HIDE DEF f, e
  <1>2. \E v \in EngineMsg : ~IsCall(v) /\ toEngine' = [toEngine EXCEPT ![f][e] = Append(@, v)]
    <2>1. CASE AddRequest(r)
      <3> DEFINE v == [type |-> "add", req |-> r, wave |-> front[f].wave]
      <3>1. v \in EngineMsg /\ ~IsCall(v)
        BY <1>1 DEF EngineMsg, IsCall, TypeInv, WaveState
      <3>2. toEngine' = [toEngine EXCEPT ![f][e] = Append(@, v)]
        BY <2>1 DEF AddRequest, f, e
      <3>3. QED BY Zenon, <3>1, <3>2
    <2>2. CASE Abort(r)
      <3> DEFINE v == [type |-> "abort", req |-> r]
      <3>1. v \in EngineMsg /\ ~IsCall(v)
        BY DEF EngineMsg, IsCall
      <3>2. toEngine' = [toEngine EXCEPT ![f][e] = Append(@, v)]
        BY <2>2 DEF Abort, f, e
      <3>3. QED BY Zenon, <3>1, <3>2
    <2>3. QED BY <2>1, <2>2
  <1>3. UNCHANGED <<eng, admin>>
    BY Zenon DEF AddRequest, Abort, control
  <1>4. SameCalls
    BY Zenon, <1>1, <1>2, CallsAppend
  <1>5. QED BY <1>3, <1>4, SameEngines, PlainPhase

\* So does the coordinator.
LEMMA CoordPhase ==
    ASSUME PhaseInv, (\E x \in Fronts \union Engines : Coordinate(x)) \/ Republish
    PROVE  PhaseInv'
  <1>1. UNCHANGED <<eng, toEngine, admin>>
    BY DEF Coordinate, Republish, control
  <1>2. QED BY <1>1, CallsKept, SameEngines, PlainPhase

\* An engine moves on in the phase when it takes the call (pause_scheduler,
\* resume_scheduler) and when it answers it; a held engine ignores START_DP_WAVE and
\* is not woken by a request.
LEMMA EnginePhase ==
    ASSUME TypeInv, WaveInv, PhaseInv, NEW e \in Engines, Engine(e) PROVE PhaseInv'
  <1>0. /\ eng[e] \in EngineState /\ DOMAIN eng = Engines
        /\ \A d \in Engines \ {e} : eng'[d] = eng[d]
        /\ eng[e].at = "input"
        /\ \A d \in Engines : OneCall(d)
    BY Zenon, EngineKeeps DEF TypeInv, PhaseInv
  <1>1. \A d \in Engines \ {e} : Plain(eng[d], eng'[d])
    BY <1>0 DEF Plain
  <1>2. ASSUME Plain(eng[e], eng'[e]), SameCalls, UNCHANGED admin PROVE PhaseInv'
    BY <1>1, <1>2, PlainPhase
  <1>3. ASSUME NEW f \in Fronts, Handle(f, e) PROVE PhaseInv'
    <2> DEFINE m == toEngine[f][e][1]
    <2>1. /\ toEngine[f][e] # <<>> /\ 1 \in 1..Len(toEngine[f][e]) /\ m \in EngineMsg
          /\ toEngine' = [toEngine EXCEPT ![f][e] = Tail(@)]
          /\ UNCHANGED admin
          /\ \/ m.type = "add" /\ OnAdd(e, m)
             \/ m.type = "add" /\ OnReject(m)
             \/ m.type = "abort" /\ OnAbort(e, m)
             \/ m.type = "pause" /\ OnPause(e, m)
             \/ m.type = "resume" /\ OnResume(e)
      BY <1>3, HandleTakes
    <2>2. m.type \in {"add", "abort"} => SameCalls
      BY Zenon, <2>1, CallsTail DEF IsCall
    <2>3. m.type \in {"pause", "resume"} =>
            /\ \A d \in Engines : OneCall(d)'
            /\ Called(e, m.type)
            /\ ~Called(e, "pause")' /\ ~Called(e, "resume")'
            /\ \A d \in Engines \ {e} : /\ Called(d, "pause")' <=> Called(d, "pause")
                                        /\ Called(d, "resume")' <=> Called(d, "resume")
      BY Zenon, <1>0, <2>1, CallTaken DEF IsCall
    <2> HIDE DEF m
    <2>4. CASE m.type = "add" /\ OnAdd(e, m)
      <3> DEFINE g == [eng[e] EXCEPT !.waiting = @ \union {m.req}]
                 h == [g EXCEPT !.wave = IF m.wave > @ THEN m.wave ELSE @,
                                !.running = @ \/ Late(g, m)]
      <3>1. /\ g.paused = eng[e].paused /\ g.pending = eng[e].pending /\ g.ignore = eng[e].ignore
            /\ g.callback = eng[e].callback /\ g.at = eng[e].at /\ g.running = eng[e].running
            /\ g.active = eng[e].active
        BY <1>0 DEF EngineState
      <3>2. eng'[e] = h
        BY <1>0, <2>4 DEF OnAdd
      <3>3. /\ h.paused = eng[e].paused /\ h.pending = eng[e].pending /\ h.ignore = eng[e].ignore
            /\ h.callback = eng[e].callback /\ h.at = eng[e].at
            /\ h.running = (eng[e].running \/ Late(g, m))
            /\ h.active = eng[e].active
        BY <1>0 DEF EngineState
      <3>4. Late(g, m) => eng[e].paused = "no"
        BY <3>1 DEF Late
      <3> HIDE DEF g, h
      <3>5. Held(eng[e]) /\ Quiet(eng[e]) => Quiet(h)
        BY <1>0, <3>3, <3>4 DEF Held, Quiet, HasWork, Unfinished, EngineState
      <3>6. Plain(eng[e], eng'[e])
        BY Zenon, <3>2, <3>3, <3>5 DEF Plain
      <3>7. QED BY <1>2, <2>1, <2>2, <2>4, <3>6
    <2>5. CASE m.type = "add" /\ OnReject(m)
      <3>1. Plain(eng[e], eng'[e])
        BY <2>5 DEF OnReject, Plain
      <3>2. QED BY <1>2, <2>1, <2>2, <2>5, <3>1
    <2>6. CASE m.type = "abort" /\ OnAbort(e, m)
      <3> DEFINE h == [eng[e] EXCEPT !.waiting = @ \ {m.req}, !.active = @ \ {m.req}]
      <3>1. eng'[e] = h
        BY <1>0, <2>6 DEF OnAbort
      <3>2. /\ h.paused = eng[e].paused /\ h.pending = eng[e].pending /\ h.ignore = eng[e].ignore
            /\ h.callback = eng[e].callback /\ h.at = eng[e].at
            /\ h.running = eng[e].running
            /\ h.active = eng[e].active \ {m.req}
        BY <1>0 DEF EngineState
      <3> HIDE DEF h
      <3>3. Held(eng[e]) /\ Quiet(eng[e]) => Quiet(h)
        BY <1>0, <3>2 DEF Held, Quiet, HasWork, Unfinished, EngineState
      <3>4. Plain(eng[e], eng'[e])
        BY <3>1, <3>2, <3>3 DEF Plain
      <3>5. QED BY <1>2, <2>1, <2>2, <2>6, <3>4
    <2>7. CASE m.type = "pause" /\ OnPause(e, m)
      <3> DEFINE out == IF m.mode = "abort" THEN eng[e].active \union eng[e].waiting ELSE {}
                 h == [eng[e] EXCEPT !.active = @ \ out, !.waiting = @ \ out,
                              !.paused = IF m.mode = "keep" THEN "all" ELSE "new",
                              !.pending = TRUE, !.running = TRUE, !.callback = TRUE]
      <3>1. eng'[e] = h
        BY <1>0, <2>7 DEF OnPause
      <3>2. h.paused # "no" /\ h.pending /\ h.running /\ h.callback /\ h.ignore = eng[e].ignore
            /\ h.at = eng[e].at
        BY <1>0 DEF EngineState
      <3> HIDE DEF h
      <3>3. Called(e, "pause")
        BY <2>3, <2>7
      <3>4. Pausing
        BY <3>3 DEF PhaseInv, Serving, Paused, Resuming
      <3>5. Asked(eng'[e]) /\ eng'[e].at # "resume"
        BY <3>1, <3>2, <3>3, <3>4 DEF Pausing, Asked, Unpaused
      <3>6. Pausing'
        BY <1>0, <2>1, <2>3, <2>7, <3>4, <3>5 DEF Pausing
      <3>7. QED BY <2>3, <2>7, <3>6 DEF PhaseInv
    <2>8. CASE m.type = "resume" /\ OnResume(e)
      <3>1. Called(e, "resume")
        BY <2>3, <2>8
      <3>2. Resuming
        BY <3>1 DEF PhaseInv, Serving, Pausing, Paused
      <3>3. Held(eng[e]) /\ Quiet(eng[e]) /\ ~eng[e].callback
        BY <3>1, <3>2 DEF Resuming
      <3> DEFINE h == [eng[e] EXCEPT !.paused = "no", !.ignore = FALSE, !.at = "resume"]
      <3>4. eng'[e] = h
        BY <1>0, <2>8, <3>3 DEF OnResume, Held, Quiet, HasWork
      <3>5. h.paused = "no" /\ ~h.ignore /\ h.at = "resume" /\ h.pending = eng[e].pending
            /\ h.callback = eng[e].callback
        BY <1>0 DEF EngineState
      <3> HIDE DEF h
      <3>6. Unpaused(eng'[e]) /\ eng'[e].at = "resume" /\ ~eng'[e].callback
        BY <3>3, <3>4, <3>5 DEF Unpaused, Held
      <3>7. Resuming'
        BY <1>0, <2>1, <2>3, <2>8, <3>2, <3>6 DEF Resuming
      <3>8. QED BY <2>3, <2>8, <3>7 DEF PhaseInv
    <2>9. QED BY <2>1, <2>4, <2>5, <2>6, <2>7, <2>8
  <1>4. CASE StartWave(e)
    <2> DEFINE m == Head(start[e])
               h == [eng[e] EXCEPT !.wave = m.wave, !.running = TRUE]
    <2>1. /\ UNCHANGED <<toEngine, admin>>
          /\ eng'[e] = IF Obeys(e, m) THEN h ELSE eng[e]
      BY <1>0, <1>4 DEF StartWave, control
    <2>2. /\ h.paused = eng[e].paused /\ h.pending = eng[e].pending /\ h.ignore = eng[e].ignore
          /\ h.callback = eng[e].callback /\ h.at = eng[e].at
          /\ h.running
      BY <1>0 DEF EngineState
    <2> HIDE DEF h, m
    <2>3. Obeys(e, m) => ~Held(eng[e])
      BY DEF Obeys, Held
    <2>4. Plain(eng[e], eng'[e])
      BY <2>1, <2>2, <2>3 DEF Plain
    <2>5. QED BY <1>2, <2>1, <2>4, CallsKept
  <1>5. CASE IdleCallback(e)
    <2> DEFINE h == [eng[e] EXCEPT !.callback = FALSE]
    <2>1. /\ UNCHANGED <<toEngine, admin>> /\ eng[e].callback /\ ~HasWork(eng[e])
          /\ eng'[e] = h
      BY <1>0, <1>5 DEF IdleCallback, control, wires
    <2>2. /\ h.paused = eng[e].paused /\ h.pending = eng[e].pending /\ h.ignore = eng[e].ignore
          /\ h.at = eng[e].at /\ h.running = eng[e].running
          /\ h.active = eng[e].active /\ h.waiting = eng[e].waiting
      BY <1>0 DEF EngineState
    <2> HIDE DEF h
    <2>3. SameCalls
      BY <2>1, CallsKept
    <2>4. ~eng[e].running
      BY <2>1 DEF HasWork
    <2>5. Paused
      BY <2>1, <2>4 DEF PhaseInv, Serving, Pausing, Resuming, Unpaused, Asked
    <2>6. \A d \in Engines : Quiet(eng[d]) /\ Held(eng[d]) /\ eng[d].at # "resume"
      BY <2>4, <2>5 DEF Paused
    <2>7. Quiet(eng'[e]) /\ Held(eng'[e]) /\ eng'[e].at # "resume"
      BY <2>1, <2>2, <2>6 DEF Quiet, HasWork, Unfinished, Held
    <2>8. Paused'
      BY <1>0, <2>1, <2>3, <2>5, <2>6, <2>7 DEF Paused, SameCalls
    <2>9. QED BY <1>0, <2>3, <2>8 DEF PhaseInv, SameCalls
  <1>6. CASE EnterPass(e)
    <2> DEFINE h == IF eng[e].paused = "no"
                    THEN [eng[e] EXCEPT !.at = "pass", !.active = @ \union eng[e].waiting, !.waiting = {}]
                    ELSE [eng[e] EXCEPT !.at = "pass"]
    <2>1. UNCHANGED <<toEngine, admin>> /\ HasWork(eng[e]) /\ eng'[e] = h
      BY <1>0, <1>6 DEF EnterPass, control, wires
    <2>2. /\ h.paused = eng[e].paused /\ h.pending = eng[e].pending /\ h.ignore = eng[e].ignore
          /\ h.callback = eng[e].callback /\ h.at = "pass" /\ h.running = eng[e].running
      BY <1>0 DEF EngineState
    <2> HIDE DEF h
    <2>3. Plain(eng[e], eng'[e])
      BY <1>0, <2>1, <2>2 DEF Plain, Quiet
    <2>4. QED BY <1>2, <2>1, <2>3, CallsKept
  <1>7. QED BY <1>3, <1>4, <1>5, <1>6 DEF Engine

\* Some engines, but not all, were asked to pause.
LEMMA SomeAsked ==
    ASSUME NEW A \in SUBSET Engines, A # {}, A # Engines
    PROVE  Cardinality(A) % NEngines # 0
  <1>1. NEngines \in Nat \ {0, 1} /\ Engines = 0..(NEngines - 1)
    BY WavesAssumption DEF Engines
  <1>2. IsFiniteSet(Engines) /\ Cardinality(Engines) = NEngines
    BY <1>1, FS_Interval
  <1>3. /\ IsFiniteSet(A) /\ Cardinality(A) \in Nat
        /\ Cardinality(A) <= NEngines /\ Cardinality(A) # NEngines
    BY <1>2, FS_Subset, FS_CardinalityType
  <1>4. Cardinality(A) # 0
    BY <1>3, FS_EmptySet
  <1> DEFINE k == Cardinality(A)
  <1>5. k \in 1..(NEngines - 1)
    BY <1>1, <1>3, <1>4
  <1> HIDE DEF k
  <1>6. k % NEngines = k
    BY <1>1, <1>5
  <1>7. QED BY <1>5, <1>6 DEF k

\* The all-reduce ends the first phase of a pause for all engines at once, when all
\* were asked (sync_dp_state); the barrier of resume_scheduler ends the last one.
LEMMA CollectivePhase ==
    ASSUME TypeInv, PhaseInv, Pass \/ AllReduce \/ ResumeBarrier PROVE PhaseInv'
  <1>0. /\ 0 \in Engines
        /\ \A d \in Engines : eng[d] \in EngineState
        /\ SameCalls /\ UNCHANGED admin
        /\ \A d \in Engines : OneCall(d)'
    <2>1. UNCHANGED <<toEngine, admin>>
      BY Zenon DEF Pass, AllReduce, ResumeBarrier, control, wires
    <2>2. QED BY <2>1, EnginesType, CallsKept DEF TypeInv, PhaseInv, SameCalls
  <1>1. CASE Pass
    <2> DEFINE n(d) == (eng[d].counter + 1) % Period
               h(d) == [eng[d] EXCEPT !.active = {r \in @ : left'[r] > 0},
                                      !.counter = n(d), !.running = TRUE,
                                      !.at = IF n(d) = 0 THEN "reduce" ELSE "input"]
    <2>1. eng' = [d \in Engines |-> h(d)] /\ \A d \in Engines : eng[d].at = "pass"
      BY Zenon, <1>1 DEF Pass
    <2>2. ASSUME NEW d \in Engines
          PROVE  /\ h(d).paused = eng[d].paused /\ h(d).pending = eng[d].pending
                 /\ h(d).ignore = eng[d].ignore /\ h(d).callback = eng[d].callback
                 /\ h(d).at # "resume" /\ h(d).running
      BY <1>0 DEF EngineState
    <2> HIDE DEF h, n
    <2>3. \A d \in Engines : Plain(eng[d], eng'[d])
      BY <2>1, <2>2 DEF Plain, Quiet
    <2>4. QED BY <1>0, <2>3, PlainPhase
  <1>2. CASE ResumeBarrier
    <2> DEFINE h(d) == [eng[d] EXCEPT !.running = Restarts(d), !.at = "input"]
    <2>1. eng' = [d \in Engines |-> h(d)] /\ \A d \in Engines : eng[d].at = "resume"
      BY Zenon, <1>2 DEF ResumeBarrier
    <2>2. ASSUME NEW d \in Engines
          PROVE  /\ h(d).paused = eng[d].paused /\ h(d).pending = eng[d].pending
                 /\ h(d).ignore = eng[d].ignore /\ h(d).callback = eng[d].callback
                 /\ h(d).at # "resume"
      BY <1>0 DEF EngineState
    <2> HIDE DEF h
    <2>3. Resuming
      BY <1>0, <2>1 DEF PhaseInv, Serving, Pausing, Paused
    <2>4. \A d \in Engines : Unpaused(eng[d]) /\ ~Called(d, "pause") /\ ~Called(d, "resume")
      BY <2>1, <2>3 DEF Resuming, Quiet
    <2>5. \A d \in Engines : Unpaused(eng'[d]) /\ eng'[d].at # "resume"
      BY <2>1, <2>2, <2>4 DEF Unpaused
    <2>6. Serving'
      BY <1>0, <2>3, <2>4, <2>5 DEF Serving, Resuming, SameCalls
    <2>7. QED BY <1>0, <2>6 DEF PhaseInv
  <1>3. CASE AllReduce
    <2> DEFINE asked == {d \in Engines : eng[d].pending}
               more == MoreWork(asked)
               consensus == asked = Engines
               h(d) == [eng[d] EXCEPT !.ignore = @ \/ consensus, !.pending = @ /\ ~consensus,
                                      !.running = more, !.wave = IF more THEN @ ELSE @ + 1,
                                      !.counter = IF more THEN @ ELSE 0, !.at = "input"]
    <2>1. eng' = [d \in Engines |-> h(d)] /\ \A d \in Engines : eng[d].at = "reduce"
      BY Zenon, <1>3 DEF AllReduce
    <2>2. asked \in SUBSET Engines
      OBVIOUS
    <2>3. ~more => \A d \in Engines : ~Unfinished(eng[d])
      BY DEF MoreWork
    <2>4. asked # {} /\ ~consensus => more
      BY <2>2, SomeAsked DEF MoreWork
    <2> HIDE DEF more, consensus
    <2>5. ASSUME NEW d \in Engines
          PROVE  /\ h(d).paused = eng[d].paused
                 /\ h(d).pending = (eng[d].pending /\ ~consensus)
                 /\ h(d).ignore = (eng[d].ignore \/ consensus)
                 /\ h(d).callback = eng[d].callback
                 /\ h(d).running = more /\ h(d).at = "input"
                 /\ h(d).active = eng[d].active /\ h(d).waiting = eng[d].waiting
      BY <1>0 DEF EngineState
    <2> HIDE DEF h
    <2>6. ASSUME NEW d \in Engines
          PROVE  /\ eng'[d].paused = eng[d].paused
                 /\ eng'[d].pending = (eng[d].pending /\ ~consensus)
                 /\ eng'[d].ignore = (eng[d].ignore \/ consensus)
                 /\ eng'[d].callback = eng[d].callback
                 /\ eng'[d].running = more /\ eng'[d].at = "input"
                 /\ Unfinished(eng'[d]) = Unfinished(eng[d])
      BY Zenon, <2>1, <2>5 DEF Unfinished
    <2>7. ~more => \A d \in Engines : Quiet(eng'[d])
      BY <2>3, <2>6 DEF Quiet, HasWork
    <2>8. CASE Serving
      <3>1. asked = {} /\ ~consensus
        BY <1>0, <2>8 DEF Serving, Unpaused, consensus
      <3>2. \A d \in Engines : Unpaused(eng'[d]) /\ eng'[d].at # "resume"
        BY Zenon, <2>6, <2>8, <3>1 DEF Serving, Unpaused
      <3>3. Serving'
        BY <1>0, <2>8, <3>2 DEF Serving, SameCalls
      <3>4. QED BY <1>0, <3>3 DEF PhaseInv
    <2>9. CASE Pausing /\ consensus
      <3>1. \A d \in Engines : eng[d].pending
        BY <2>9 DEF consensus
      <3>2. \A d \in Engines : ~Called(d, "pause") /\ ~Called(d, "resume") /\ Asked(eng[d])
        BY <2>9, <3>1 DEF Pausing, Unpaused
      <3>3. \A d \in Engines : Held(eng'[d]) /\ eng'[d].at # "resume" /\ eng'[d].callback
        BY Zenon, <2>6, <2>9, <3>2 DEF Held, Asked
      <3>4. more => \A d \in Engines : eng'[d].running
        BY Zenon, <2>6
      <3>5. Paused'
        BY <1>0, <2>7, <2>9, <3>2, <3>3, <3>4 DEF Paused, Pausing, SameCalls
      <3>6. QED BY <1>0, <3>5 DEF PhaseInv
    <2>10. CASE Pausing /\ ~consensus
      <3>1. ASSUME NEW d \in Engines, Asked(eng[d]) PROVE Asked(eng'[d])
        <4>1. d \in asked
          BY <3>1 DEF Asked
        <4>2. more
          BY <2>4, <2>10, <4>1
        <4>3. QED BY Zenon, <2>6, <2>10, <3>1, <4>2 DEF Asked
      <3>2. ASSUME NEW d \in Engines, Unpaused(eng[d]) PROVE Unpaused(eng'[d])
        BY Zenon, <2>6, <2>10, <3>2 DEF Unpaused
      <3>3. \A d \in Engines : eng'[d].at # "resume"
        BY <2>6
      <3>4. Pausing'
        BY <1>0, <2>10, <3>1, <3>2, <3>3 DEF Pausing, SameCalls
      <3>5. QED BY <1>0, <3>4 DEF PhaseInv
    <2>11. CASE Paused
      <3>1. ~consensus
        BY <1>0, <2>11 DEF Paused, Held, consensus
      <3>2. \A d \in Engines : eng[d].running /\ eng[d].callback
        BY <1>0, <2>1, <2>11 DEF Paused, Quiet
      <3>3. \A d \in Engines : Held(eng'[d]) /\ eng'[d].at # "resume"
        BY Zenon, <2>6, <2>11, <3>1 DEF Paused, Held
      <3>4. more => \A d \in Engines : eng'[d].running /\ eng'[d].callback
        BY Zenon, <2>6, <3>2
      <3>5. Paused'
        BY <1>0, <2>7, <2>11, <3>3, <3>4 DEF Paused, SameCalls
      <3>6. QED BY <1>0, <3>5 DEF PhaseInv
    <2>12. CASE Resuming
      BY <1>0, <2>1, <2>12 DEF Resuming, Quiet
    <2>13. QED BY <2>8, <2>9, <2>10, <2>11, <2>12 DEF PhaseInv
  <1>4. QED BY <1>1, <1>2, <1>3

(***************************************************************************)
(* The theorems                                                            *)
(***************************************************************************)
\* Every step keeps the inductive invariant.
LEMMA StepInv ==
    ASSUME IInv, [Next]_vars PROVE IInv'
  <1>0. TypeInv /\ WaveInv /\ PhaseInv /\ ReduceInv
    BY DEF IInv
  <1>1. TypeInv'
    BY <1>0, StepType
  <1>2. CASE UNCHANGED vars
    <2>1. UNCHANGED <<eng, front, first, coord, toEngine, start, toCoord, toFront, admin>>
      BY <1>2 DEF vars, fronts, wires, control
    <2>2. PhaseInv'
      BY <1>0, <2>1, CallsKept, SameEngines, PlainPhase
    <2>3. WaveInv'
      BY <1>0, <2>1 DEF WaveInv, Reached
    <2>4. QED BY <1>0, <1>1, <2>1, <2>2, <2>3, OthersReduce DEF IInv
  <1>3. ASSUME NEW f \in Fronts, Client(f) PROVE IInv'
    <2>1. UNCHANGED eng
      BY Zenon, <1>3 DEF Client, Pause, Resume, FirstReq, StatsUpdate
    <2>2. QED BY <1>0, <1>1, <1>3, <2>1, FrontWave, FrontPhase, OthersReduce DEF IInv
  <1>4. ASSUME NEW r \in Requests, AddRequest(r) \/ Abort(r) PROVE IInv'
    <2>1. UNCHANGED eng
      BY Zenon, <1>4 DEF AddRequest, Abort
    <2>2. QED BY <1>0, <1>1, <1>4, <2>1, RequestWave, RequestPhase, OthersReduce DEF IInv
  <1>5. CASE (\E x \in Fronts \union Engines : Coordinate(x)) \/ Republish
    <2>1. UNCHANGED eng
      BY <1>5 DEF Coordinate, Republish
    <2>2. QED BY <1>0, <1>1, <1>5, <2>1, CoordWave, CoordPhase, OthersReduce DEF IInv
  <1>6. ASSUME NEW e \in Engines, Engine(e) PROVE IInv'
    BY <1>0, <1>1, <1>6, EngineWave, EnginePhase DEF IInv
  <1>7. CASE Pass \/ AllReduce \/ ResumeBarrier
    BY <1>0, <1>1, <1>7, CollectiveWave, CollectivePhase DEF IInv
  <1>8. QED BY <1>2, <1>3, <1>4, <1>5, <1>6, <1>7 DEF Next

\* The inductive invariant holds in every state: types, waves, the phase of the
\* pause and the all-reduce that all engines enter together.
THEOREM Inductive == Spec => []IInv
  <1>1. Init => IInv
    BY InitType, InitWave, InitPhase DEF IInv
  <1>2. IInv /\ [Next]_vars => IInv'
    BY StepInv
  <1>3. QED BY <1>1, <1>2, PTL DEF Spec

\* Engines that wait in a collective wait in the same one, after the same number
\* of passes and in the same wave (run_busy_loop, _has_global_unfinished_reqs).
THEOREM LockstepHolds == Spec => []Lockstep
  <1>1. IInv => Lockstep
    <2> SUFFICES ASSUME IInv, NEW e \in Engines, NEW d \in Engines,
                        eng[e].at # "input", eng[d].at # "input"
                 PROVE  /\ eng[e].at = eng[d].at
                        /\ eng[e].counter = eng[d].counter
                        /\ eng[e].at = "reduce" => eng[e].wave = eng[d].wave
      BY DEF Lockstep
    <2>1. eng[e].at \in {"pass", "reduce", "resume"} /\ eng[d].at \in {"pass", "reduce", "resume"}
      BY DEF IInv, TypeInv, EngineState
    <2>2. eng[e].at = "reduce" <=> eng[d].at = "reduce"
      BY DEF IInv, ReduceInv
    <2>3. eng[e].at = "resume" <=> eng[d].at = "resume"
      BY DEF IInv, PhaseInv, Serving, Pausing, Paused, Resuming, Quiet
    <2>4. QED BY <2>1, <2>2, <2>3 DEF IInv, WaveInv
  <1>2. QED BY <1>1, Inductive, PTL

\* No engine works between the answers to a pause and the call to resume
\* (pause_scheduler, sync_dp_state, ignore_start_dp_wave).
THEOREM PauseIsHeld == Spec => []PauseHolds
  <1>1. IInv => PauseHolds
    <2> SUFFICES ASSUME IInv, admin = "pause", Answered("pause"), NEW e \in Engines
                 PROVE  Quiet(eng[e])
      BY DEF PauseHolds, Quiet
    <2>1. \A d \in Engines : ~Called(d, "pause") /\ ~eng[d].callback
      BY AnsweredCalls DEF IInv
    <2>2. Paused
      BY <2>1 DEF IInv, PhaseInv, Serving, Pausing, Resuming, Asked
    <2>3. QED BY <2>1, <2>2 DEF Paused
  <1>2. QED BY <1>1, Inductive, PTL

\* All engines are in one wave at all times, and neither a front end, nor the
\* coordinator, nor a message under way is ahead of it: add_request never takes
\* its branch for a request of a later wave.
THEOREM WavesAgree == Spec => []WaveInv
  <1>1. IInv => WaveInv
    BY DEF IInv
  <1>2. QED BY <1>1, Inductive, PTL
================================================================================
