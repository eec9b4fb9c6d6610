------------------------------- MODULE DPWaves --------------------------------
(***************************************************************************)
(* Waves of data-parallel engines: DPEngineCoreProc of vllm/v1/engine/     *)
(* core.py, the coordinator of coordinator.py and the front ends           *)
(* (DPAsyncMPClient) of core_client.py.                                    *)
(*                                                                         *)
(* A forward pass is a collective of all engines: an engine without        *)
(* requests runs dummy passes as long as any other one has requests.  A    *)
(* wave lasts from the first request to the all-reduce that finds no       *)
(* engine with work.  The engines then sleep until a request or a          *)
(* START_DP_WAVE of the coordinator wakes them.  Requests, notifications   *)
(* and wave updates travel over separate sockets, and only messages of one *)
(* socket keep their order.                                                *)
(***************************************************************************)
EXTENDS Naturals, Sequences, FiniteSets

CONSTANTS NEngines,   \* data-parallel size
          Fronts,     \* front-end processes
          Period,     \* passes between two all-reduces (32 in the code)
          Passes,     \* passes a request needs
          Modes,      \* modes of pause_scheduler that are used
          Requests,   \* requests
          Home,       \* Home[r]: front end and engine of request r
          Budgets     \* what may happen in a run: the requests sent, how many of
                      \* them are dropped, the pauses, and whether a front end
                      \* may be stalled while a wave passes

Engines == 0..(NEngines - 1)
NoEngine == NEngines

ASSUME WavesAssumption ==
    /\ NEngines \in Nat \ {0, 1}
    /\ {Period, Passes} \subseteq Nat \ {0}
    /\ Home \in [Requests -> [front : Fronts, engine : Engines]]
    /\ Budgets \subseteq 
          [reqs : SUBSET Requests, drops : Nat, pauses : Nat, stall : BOOLEAN]
    /\ Modes \subseteq {"abort", "wait", "keep"}

VARIABLES
    budget,    \* what may happen in this run
    eng,       \* eng[e]: state of engine e
    left,      \* left[r]: passes request r still needs
    sent,      \* requests sent so far
    dropped,   \* requests withdrawn by their clients, or rejected
    front,     \* front[f]: [wave, running] as front end f believes
    first,     \* first[f]: FIRST_REQ notes inside front end f
    coord,     \* [wave, running] as the coordinator believes
    toEngine,  \* toEngine[f][e]: from front end f to engine e
    start,     \* start[e]: START_DP_WAVE messages to engine e
    toCoord,   \* toCoord[x]: from front end or engine x to the coordinator
    toFront,   \* toFront[f]: the latest wave update for front end f
    admin,     \* the last call of the client that pauses and resumes
    pauses     \* number of pauses so far

vars == <<budget, eng, left, sent, dropped, front, first, coord, toEngine, start,
          toCoord, toFront, admin, pauses>>

requests == <<left, sent, dropped>>
fronts == <<front, first>>
wires == <<toEngine, start, toCoord, toFront>>
control == <<budget, admin, pauses>>

Init ==
    /\ budget \in Budgets
    /\ eng = [e \in Engines |->
                [wave |-> 0, running |-> FALSE, counter |-> 0, at |-> "input",
                 waiting |-> {}, active |-> {}, paused |-> "no",
                 pending |-> FALSE, ignore |-> FALSE, callback |-> FALSE]]
    /\ left = [r \in Requests |-> Passes]
    /\ sent = {}
    /\ dropped = {}
    /\ front = [f \in Fronts |-> [wave |-> 0, running |-> FALSE]]
    /\ first = [f \in Fronts |-> <<>>]
    /\ coord = [wave |-> 0, running |-> FALSE]
    /\ toEngine = [f \in Fronts |-> [e \in Engines |-> <<>>]]
    /\ start = [e \in Engines |-> <<>>]
    /\ toCoord = [x \in Fronts \union Engines |-> <<>>]
    /\ toFront = [f \in Fronts |-> <<>>]
    /\ admin = "resume"
    /\ pauses = 0

\* Append m to every channel of c.
Broadcast(c, m) == [x \in DOMAIN c |-> Append(c[x], m)]

(***************************************************************************)
(* Front ends                                                              *)
(***************************************************************************)
\* No call of this type is under way or unanswered.
Answered(type) ==
    /\ \A f \in Fronts, e \in Engines : \A i \in DOMAIN toEngine[f][e] :
            toEngine[f][e][i].type # type
    /\ \A e \in Engines : ~eng[e].callback /\ eng[e].at # type

\* add_request_async, for the engine that the load balancer has chosen.
AddRequest(r) ==
    LET f == Home[r].front
        e == Home[r].engine
    IN  /\ r \in budget.reqs \ sent
        /\ sent' = sent \union {r}
        /\ toEngine' = [toEngine EXCEPT ![f][e] =
                Append(@, [type |-> "add", req |-> r, wave |-> front[f].wave])]
        /\ first' = IF front[f].running THEN first
                    ELSE [first EXCEPT ![f] = Append(@, e)]
        /\ UNCHANGED <<eng, left, dropped, front, coord, start, toCoord, toFront, control>>

\* run_engine_stats_update_task: the note of a first request goes on to the
\* coordinator with the wave known now ...
FirstReq(f) ==
    /\ first[f] # <<>>
    /\ first' = [first EXCEPT ![f] = Tail(@)]
    /\ front' = [front EXCEPT ![f].running = TRUE]
    /\ toCoord' = [toCoord EXCEPT ![f] =
            Append(@, [type |-> "first", engine |-> Head(first[f]),
                       wave |-> front[f].wave])]
    /\ UNCHANGED <<eng, requests, coord, toEngine, start, toFront, control>>

\* ... and before any update, as long as the engines are thought to be paused.
\* Once they are thought to run, an update goes first, and a second note waits
\* behind it: only a budget with stall lets that happen.
StatsUpdate(f) ==
    /\ toFront[f] # <<>>
    /\ first[f] = <<>> \/ (budget.stall /\ front[f].running)
    /\ front' = [front EXCEPT ![f] = Head(toFront[f])]
    /\ toFront' = [toFront EXCEPT ![f] = <<>>]
    /\ UNCHANGED <<eng, requests, first, coord, toEngine, start, toCoord, control>>

\* The client of a request goes away: abort_requests_async.
Abort(r) ==
    /\ r \in sent \ dropped
    /\ left[r] > 0
    /\ Cardinality(dropped) < budget.drops
    /\ dropped' = dropped \union {r}
    /\ toEngine' = [toEngine EXCEPT ![Home[r].front][Home[r].engine] =
                        Append(@, [type |-> "abort", req |-> r])]
    /\ UNCHANGED <<eng, left, sent, fronts, coord, start, toCoord, toFront, control>>

\* pause_scheduler_async and resume_scheduler_async call every engine; the next
\* call is made when all have answered.
Pause(f, mode) ==
    /\ admin = "resume"
    /\ Answered("resume")
    /\ pauses < budget.pauses
    /\ admin' = "pause"
    /\ pauses' = pauses + 1
    /\ toEngine' = [toEngine EXCEPT ![f] =
                        Broadcast(@, [type |-> "pause", mode |-> mode])]
    /\ UNCHANGED <<eng, requests, fronts, coord, start, toCoord, toFront, budget>>

Resume(f) ==
    /\ admin = "pause"
    /\ Answered("pause")
    /\ admin' = "resume"
    /\ toEngine' = [toEngine EXCEPT ![f] = Broadcast(@, [type |-> "resume"])]
    /\ UNCHANGED <<eng, requests, fronts, coord, start, toCoord, toFront, budget, pauses>>

(***************************************************************************)
(* The coordinator: process_input_socket                                   *)
(***************************************************************************)
\* The state changes, START_DP_WAVE goes to the engines, all front ends hear.
SetWave(wave, running) ==
    /\ coord' = [wave |-> wave, running |-> running]
    /\ toFront' = [f \in Fronts |-> <<coord'>>]

SendStartWave(wave, exclude) ==
    start' = Broadcast(start, [wave |-> wave, exclude |-> exclude])

\* A front end sends a request while it believes the engines to be paused.
OnFirst(m) ==
    \/ /\ ~coord.running
       /\ SetWave(coord.wave, TRUE)
       /\ SendStartWave(coord.wave, IF m.wave < coord.wave THEN NoEngine ELSE m.engine)
    \/ /\ coord.running
       /\ UNCHANGED <<coord, toFront, start>>

\* Rank 0 tells that the wave is complete.
OnComplete(m) ==
    \/ /\ coord.wave <= m.wave
       /\ SetWave(m.wave + 1, FALSE)
       /\ UNCHANGED start
    \/ /\ coord.wave > m.wave
       /\ UNCHANGED <<coord, toFront, start>>

\* An engine has a request of a wave that is over, and starts the next one.
OnStart(e, m) ==
    LET fresh == m.wave > coord.wave \/ (m.wave = coord.wave /\ ~coord.running) IN
    \/ /\ fresh
       /\ SetWave(m.wave, TRUE)
       /\ SendStartWave(m.wave, e)
    \/ /\ ~fresh
       /\ UNCHANGED <<coord, toFront, start>>

Coordinate(x) ==
    /\ toCoord[x] # <<>>
    /\ toCoord' = [toCoord EXCEPT ![x] = Tail(@)]
    /\ LET m == Head(toCoord[x]) IN
       \/ m.type = "first" /\ OnFirst(m)
       \/ m.type = "complete" /\ OnComplete(m)
       \/ m.type = "start" /\ OnStart(x, m)
    /\ UNCHANGED <<eng, requests, fronts, toEngine, control>>

\* The poll times out: the state is published again, along with the load.
Republish ==
    /\ \A f \in Fronts : toFront[f] = <<>>
    /\ \E f \in Fronts : front[f] # coord
    /\ toFront' = [f \in Fronts |-> <<coord>>]
    /\ UNCHANGED <<eng, requests, fronts, coord, toEngine, start, toCoord, control>>

(***************************************************************************)
(* Engines: DPEngineCoreProc                                               *)
(***************************************************************************)
\* scheduler.has_unfinished_requests, which depends on the pause state.
Unfinished(g) ==
    CASE g.paused = "all" -> FALSE
      [] g.paused = "new" -> g.active # {}
      [] OTHER -> g.active \union g.waiting # {}

\* has_work, without finished requests that are still to be reported and batches
\* in flight: a turn of run_busy_loop for these alone makes no pass.
HasWork(g) == g.running \/ Unfinished(g)

\* The request was meant for a wave that is over.
Late_Never(g, m) == FALSE
Late(g, m) == m.wave < g.wave /\ ~g.running /\ g.paused = "no"

\* add_request, with the wave the front end had in mind.
OnAdd(e, m) ==
    LET g == [eng[e] EXCEPT !.waiting = @ \union {m.req}]
    IN  /\ eng' = [eng EXCEPT ![e] =
                    [g EXCEPT !.wave = IF m.wave > @ THEN m.wave ELSE @,
                              !.running = @ \/ Late(g, m)]]
        /\ toCoord' = IF Late(g, m)
                      THEN [toCoord EXCEPT ![e] =
                                Append(@, [type |-> "start", wave |-> g.wave])]
                      ELSE toCoord
        /\ UNCHANGED <<left, dropped>>

\* preprocess_add_request fails in the input thread: an error is returned.
OnReject(m) ==
    /\ Cardinality(dropped) < budget.drops
    /\ m.req \notin dropped
    /\ dropped' = dropped \union {m.req}
    /\ left' = [left EXCEPT ![m.req] = 0]
    /\ UNCHANGED <<eng, toCoord>>

OnAbort(e, m) ==
    /\ eng' = [eng EXCEPT ![e].waiting = @ \ {m.req}, ![e].active = @ \ {m.req}]
    /\ left' = [left EXCEPT ![m.req] = 0]
    /\ UNCHANGED <<dropped, toCoord>>

\* pause_scheduler with _pause_complete: the engine joins the passes until all
\* engines have the request to pause.
OnPause(e, m) ==
    LET g == eng[e]
        out == IF m.mode = "abort" THEN g.active \union g.waiting ELSE {}
    IN  /\ eng' = [eng EXCEPT ![e] =
                    [g EXCEPT !.active = @ \ out, !.waiting = @ \ out,
                              !.paused = IF m.mode = "keep" THEN "all" ELSE "new",
                              !.pending = TRUE, !.running = TRUE, !.callback = TRUE]]
        /\ left' = [r \in Requests |-> IF r \in out THEN 0 ELSE left[r]]
        /\ UNCHANGED <<dropped, toCoord>>

\* resume_scheduler waits in an all-reduce until all engines have resumed.  It
\* is refused or ignored while the engine runs.
OnResume(e) ==
    LET g == eng[e] IN
    /\ eng' = [eng EXCEPT ![e] =
            IF g.pending \/ g.running THEN g
            ELSE [g EXCEPT !.paused = "no", !.ignore = FALSE, !.at = "resume"]]
    /\ UNCHANGED <<left, dropped, toCoord>>

\* _handle_client_request for a message of front end f.
Handle(f, e) ==
    /\ eng[e].at = "input"
    /\ toEngine[f][e] # <<>>
    /\ toEngine' = [toEngine EXCEPT ![f][e] = Tail(@)]
    /\ LET m == Head(toEngine[f][e]) IN
       \/ m.type = "add" /\ OnAdd(e, m)
       \/ m.type = "add" /\ OnReject(m)
       \/ m.type = "abort" /\ OnAbort(e, m)
       \/ m.type = "pause" /\ OnPause(e, m)
       \/ m.type = "resume" /\ OnResume(e)
    /\ UNCHANGED <<sent, fronts, coord, start, toFront, control>>

\* The engine is neither paused nor excluded, nor already in a later wave.
Obeys_Paused(e, m) == m.exclude # e /\ m.wave >= eng[e].wave
Obeys_Stale(e, m) == ~eng[e].ignore /\ m.exclude # e
Obeys(e, m) == ~eng[e].ignore /\ m.exclude # e /\ m.wave >= eng[e].wave

\* _handle_client_request for START_DP_WAVE.
StartWave(e) ==
    /\ eng[e].at = "input"
    /\ start[e] # <<>>
    /\ start' = [start EXCEPT ![e] = Tail(@)]
    /\ LET m == Head(start[e]) IN
       eng' = IF Obeys(e, m)
              THEN [eng EXCEPT ![e].wave = m.wave, ![e].running = TRUE]
              ELSE eng
    /\ UNCHANGED <<requests, fronts, coord, toEngine, toCoord, toFront, control>>

\* The engine is idle: _notify_idle_state_callbacks answers the pause.
IdleCallback(e) ==
    /\ eng[e].at = "input"
    /\ eng[e].callback
    /\ ~HasWork(eng[e])
    /\ eng' = [eng EXCEPT ![e].callback = FALSE]
    /\ UNCHANGED <<requests, fronts, coord, wires, control>>

\* The loop of run_busy_loop enters a pass, with requests or a dummy batch.
EnterPass(e) ==
    LET g == eng[e] IN
    /\ g.at = "input"
    /\ HasWork(g)
    /\ eng' = [eng EXCEPT ![e] =
            IF g.paused = "no"
            THEN [g EXCEPT !.at = "pass", !.active = @ \union g.waiting, !.waiting = {}]
            ELSE [g EXCEPT !.at = "pass"]]
    /\ UNCHANGED <<requests, fronts, coord, wires, control>>

\* The requests that a pass of the engine serves.
Batch(g) == IF g.paused = "all" THEN {} ELSE g.active

\* The pass is a collective of all engines.  Every Period passes an engine goes
\* on to the all-reduce (_has_global_unfinished_reqs).
Pass ==
    /\ \A e \in Engines : eng[e].at = "pass"
    /\ left' = [r \in Requests |->
                  IF \E e \in Engines : r \in Batch(eng[e]) THEN left[r] - 1 ELSE left[r]]
    /\ eng' = [e \in Engines |->
         LET n == (eng[e].counter + 1) % Period IN
         [eng[e] EXCEPT !.active = {r \in @ : left'[r] > 0},
                        !.counter = n,
                        !.running = TRUE,
                        !.at = IF n = 0 THEN "reduce" ELSE "input"]]
    /\ UNCHANGED <<sent, dropped, fronts, coord, wires, control>>

\* sync_dp_state: some engine has work, or some but not all were asked to pause.
MoreWork_NoPause(asked) == \E e \in Engines : Unfinished(eng[e])
MoreWork_NotAll(asked) == (\E e \in Engines : Unfinished(eng[e])) \/ asked # Engines
MoreWork(asked) ==
    \/ \E e \in Engines : Unfinished(eng[e])
    \/ Cardinality(asked) % NEngines # 0

\* The all-reduce, and the end of the wave when no engine has work.
AllReduce ==
    /\ \A e \in Engines : eng[e].at = "reduce"
    /\ LET asked == {e \in Engines : eng[e].pending}
           more == MoreWork(asked)
           consensus == asked = Engines
       IN /\ eng' = [e \in Engines |->
                [eng[e] EXCEPT !.ignore = @ \/ consensus,
                               !.pending = @ /\ ~consensus,
                               !.running = more,
                               !.wave = IF more THEN @ ELSE @ + 1,
                               !.counter = IF more THEN @ ELSE 0,
                               !.at = "input"]]
          /\ toCoord' = IF more THEN toCoord
                        ELSE [toCoord EXCEPT ![0] =
                                Append(@, [type |-> "complete", wave |-> eng[0].wave])]
    /\ UNCHANGED <<requests, fronts, coord, toEngine, start, toFront, control>>

\* has_unfinished_dp: an engine starts when any engine has work.
Restarts_Alone(e) == Unfinished(eng[e])
Restarts(e) == \E x \in Engines : Unfinished(eng[x])

\* The all-reduce of resume_scheduler.
ResumeBarrier ==
    /\ \A e \in Engines : eng[e].at = "resume"
    /\ eng' = [e \in Engines |->
            [eng[e] EXCEPT !.running = Restarts(e), !.at = "input"]]
    /\ UNCHANGED <<requests, fronts, coord, wires, control>>

Client(f) ==
    \/ \E mode \in Modes : Pause(f, mode)
    \/ Resume(f) \/ FirstReq(f) \/ StatsUpdate(f)

Engine(e) ==
    \/ \E f \in Fronts : Handle(f, e)
    \/ StartWave(e) \/ IdleCallback(e) \/ EnterPass(e)

Next ==
    \/ \E f \in Fronts : Client(f)
    \/ \E r \in Requests : AddRequest(r) \/ Abort(r)
    \/ \E x \in Fronts \union Engines : Coordinate(x)
    \/ Republish
    \/ \E e \in Engines : Engine(e)
    \/ Pass \/ AllReduce \/ ResumeBarrier

Spec == Init /\ [][Next]_vars

(***************************************************************************)
(* The tasks of front ends and coordinator keep polling, an engine empties *)
(* its input queue in every turn of its loop, collectives complete when    *)
(* all engines have joined, and whoever pauses the engines resumes them.   *)
(***************************************************************************)
Fairness ==
    /\ \A f \in Fronts : WF_vars(FirstReq(f)) /\ WF_vars(StatsUpdate(f))
    /\ \A x \in Fronts \union Engines : WF_vars(Coordinate(x))
    /\ \A f \in Fronts, e \in Engines : SF_vars(Handle(f, e))
    /\ \A e \in Engines :
          SF_vars(StartWave(e)) /\ WF_vars(IdleCallback(e)) /\ WF_vars(EnterPass(e))
    /\ WF_vars(Pass) /\ WF_vars(AllReduce) /\ WF_vars(ResumeBarrier)
    /\ WF_vars(\E f \in Fronts : Resume(f))

FairSpec == Spec /\ Fairness

(***************************************************************************)
(* Properties                                                              *)
(***************************************************************************)
\* Engines that wait in a collective wait in the same one, after the same
\* number of passes, and in the same wave when the wave may end
\* (run_busy_loop, _has_global_unfinished_reqs, resume_scheduler).
Lockstep ==
    \A e, d \in Engines :
        (eng[e].at # "input" /\ eng[d].at # "input") =>
            /\ eng[e].at = eng[d].at
            /\ eng[e].counter = eng[d].counter
            /\ eng[e].at = "reduce" => eng[e].wave = eng[d].wave

\* Once all engines have answered a pause, none works before it is resumed,
\* whatever START_DP_WAVE messages are still under way (ignore_start_dp_wave).
PauseHolds ==
    admin = "pause" /\ Answered("pause") =>
        \A e \in Engines : eng[e].at = "input" /\ ~HasWork(eng[e])

\* A pause is answered: the engines agree on it whenever it reaches each of
\* them, in or between waves (_pause_complete, sync_dp_state).
PauseCompletes == admin = "pause" ~> Answered("pause")

\* Every request is served, wherever it overlaps with the end of a wave, as long
\* as no request is dropped, the engines are not paused and no note is stalled:
\* the requests and the notifications of add_request_async and add_request wake
\* all engines.
RequestsServed ==
    LET due == {r \in sent : left[r] > 0}
    IN  due # {} ~> (due = {} \/ dropped # {} \/ pauses > 0 \/ budget.stall)

\* Requests that wait in an engine through a pause are served after it
\* (resume_scheduler).
KeptServed ==
    \A r \in Requests :
        (admin = "pause" /\ \E e \in Engines : r \in eng[e].waiting \union eng[e].active)
            ~> (left[r] = 0 \/ dropped # {})

\* The dummy passes end when all requests are done (_has_global_unfinished_reqs),
\* with the exceptions of RequestsServed.
EnginesStop ==
    <>[](\A e \in Engines : ~HasWork(eng[e])) \/ <>(dropped # {} \/ pauses > 0 \/ budget.stall)

\* A wave that the coordinator starts moves every engine into the running state.
EnginesStart ==
    \A e \in Engines : coord.running ~> (HasWork(eng[e]) \/ ~coord.running)
================================================================================
