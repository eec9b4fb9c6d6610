---------------------------- MODULE ExecutorProofs ----------------------------
(***************************************************************************)
(* collective_rpc never hands a call the answer of another: proved for any *)
(* number of workers, calls and batches in flight, any sizes of the queues *)
(* and any set of configurations.                                          *)
(*                                                                         *)
(* The futures are drained in the order in which their calls were put on   *)
(* the broadcast queue (OrderInv), and the answers a worker has under way  *)
(* are, in order, those to the calls it has run, was asked to answer and   *)
(* whose answer has not been read (QueueInv).  The head of the queue that  *)
(* is read is then the answer to the oldest such call, which is the one    *)
(* whose future is being read.  Both hold until a call fails or the last   *)
(* future has been given up after the response queues were dropped.        *)
(***************************************************************************)
EXTENDS Executor, Integers, WellFoundedInduction, TLAPS

\* The calls, an answer to one, and the future made for one.
Kinds == {"utility", "execute", "draft", "sample"}
Answer == [call : Nat, ok : BOOLEAN]
Future == [call : Nat, asks : SUBSET Ranks]

\* The types.
TypeInv ==
    /\ config \in Configs
    /\ calls \in Seq(Kinds)
    /\ engine \in [pc : {"loop", "call", "put", "sent", "wait", "dead"}, kind : Kinds,
                   target : Nat, deferred : BOOLEAN]
    /\ futures \in Seq(Future)
    /\ batches \in Seq(Nat)
    /\ reading \in [call : Nat, asks : SUBSET Ranks, from : SUBSET Ranks]
    /\ answers \in [1..MaxCalls -> {"none", "ok", "error"}]
    /\ taken \in [Ranks -> Nat]
    /\ pending \in [Ranks -> Seq(Answer)]
    /\ resp \in [Ranks -> Seq(Answer)]
    /\ monitor \in {"watch", "failed", "shut", "told"}

\* There is room for k more calls.
Room(k) == Len(calls) + k <= MaxCalls

\* The calls of one batch.
PerBatch == IF config.spec THEN 3 ELSE 2

\* The calls that stand for their batch in the batch queue.
OfBatch(kind) == kind = "sample" \/ (kind = "execute" /\ config.depth # 1)

\* Where the engine is in the calls of a batch, and that they all have room.
EngineInv ==
    /\ Room(0)
    /\ engine.pc \in {"call", "put"} =>
          /\ Room(1)
          /\ engine.kind = "draft" => Room(2)
          /\ engine.kind = "execute" => Room(PerBatch)
    /\ engine.pc = "sent" =>
          /\ Len(calls) > 0 /\ calls[Len(calls)] = engine.kind
          /\ engine.kind = "draft" => Room(1)
          /\ engine.kind = "execute" => Room(PerBatch - 1)
    /\ engine.pc = "wait" =>
          /\ engine.target \in 1..Len(calls)
          /\ calls[engine.target] = "draft" => Room(1)
          /\ calls[engine.target] = "execute" /\ config.depth = 1 => Room(1)
          /\ engine.deferred /\ OfBatch(calls[engine.target]) => Room(PerBatch - 1)
    /\ engine.deferred =>
          \/ engine.pc = "dead"
          \/ engine.pc \in {"call", "put", "sent"} /\ engine.kind \in {"draft", "sample"}
          \/ engine.pc = "wait" /\ (calls[engine.target] = "draft" \/ OfBatch(calls[engine.target]))
    /\ \A i \in 1..Len(batches) : batches[i] \in 1..Len(calls) /\ OfBatch(calls[batches[i]])

\* The calls for which a future has been made, and those whose future has been
\* taken from the queue.
Made == IF engine.pc = "sent" THEN Len(calls) - 1 ELSE Len(calls)
Popped == Made - Len(futures)

\* The future f knows whom its call asked, or is one of the last call that was
\* made after the response queues had been dropped.
Sound(f) ==
    \/ f.asks = Asks(calls[f.call])
    \/ /\ Dropped /\ f.asks = {} /\ f.call = Len(calls)
       /\ engine.pc \in {"loop", "wait"}

\* The futures are those of the last calls, in order, and a call is unanswered
\* exactly when its future has not been read to the end.
OrderInv ==
    /\ Reading => engine.pc = "wait" /\ answers[engine.target] = "none"
    /\ ~Reading => reading = Nothing
    /\ engine.pc # "dead" =>
          /\ Popped >= 0
          /\ \A i \in 1..Len(futures) : futures[i].call = Popped + i /\ Sound(futures[i])
          /\ Reading => reading.call = Popped /\ Sound(reading)
          /\ \A c \in 1..MaxCalls :
                answers[c] = "none" <=> (c > Popped \/ (Reading /\ c = reading.call))

\* The answer of w to call c has not been read.
Unread(w, c) == c > Popped \/ (Reading /\ c = reading.call /\ w \notin reading.from)

\* The calls that w has run and whose answer is under way.
Owed(w) == {c \in 1..taken[w] : w \in Asks(calls[c]) /\ Unread(w, c)}

\* The answers of w: in its response queue, and not put there yet.
Queue(w) == resp[w] \o pending[w]

\* The answers q are to the calls D, in order.
Ordered(q, D) ==
    /\ q \in Seq(Answer)
    /\ \A i \in 1..Len(q) : q[i].call \in D
    /\ \A c \in D : \E i \in 1..Len(q) : q[i].call = c
    /\ \A i, j \in 1..Len(q) : i < j => q[i].call < q[j].call

\* An answer can still be read, now or later.
Awaited ==
    /\ engine.pc # "dead"
    /\ Reading \/ futures # <<>> \/ ~Dropped \/ engine.pc \in {"put", "sent"}

\* No call has failed.
NoFailure == \A c \in 1..Len(calls) : answers[c] # "error"

\* A worker runs only calls that were put, and the answers it has under way are
\* those owed, in order.
QueueInv ==
    /\ \A w \in Ranks : taken[w] <= Len(calls)
    /\ NoFailure /\ Awaited =>
          \A w \in Ranks :
             /\ Ordered(Queue(w), Owed(w))
             /\ \A c \in 1..Len(calls) : w \in Asks(calls[c]) => Unread(w, c) \/ c <= taken[w]

\* The inductive invariant.
IInv == TypeInv /\ EngineInv /\ OrderInv /\ QueueInv

-----------------------------------------------------------------------------
(* Sequences of answers, and the least element of a set of numbers.         *)

\* A set of numbers that is not empty has a least element.
LEMMA Least ==
    ASSUME NEW S \in SUBSET Nat, S # {} PROVE \E x \in S : \A y \in S : x <= y
  <1>1. PICK x \in S : \A y \in S : ~(<<y, x>> \in OpToRel(<, Nat))
    BY NatLessThanWellFounded, WFMin, Zenon
  <1>2. \A y \in S : ~(y < x)
    BY Zenon, <1>1 DEF OpToRel
  <1>3. QED BY <1>2

\* get_response reads the queues in rank order: the next one is among those
\* still to be read.
LEMMA DueLeft ==
    ASSUME TypeInv, Left # {} PROVE Due \in Left /\ Due \in Ranks
  <1>1. Left \in SUBSET Nat /\ Left \subseteq Ranks
    BY Zenon, ConfigsAssumption DEF Left, TypeInv
  <1>2. \E w \in Left : \A v \in Left : w <= v
    BY <1>1, Least
  <1>3. QED BY Zenon, <1>1, <1>2 DEF Due

\* A worker's answer to a later call keeps its answers in order ...
LEMMA OrderedAppend ==
    ASSUME NEW D \in SUBSET Nat, NEW q, Ordered(q, D), NEW m \in Answer,
           \A c \in D : c < m.call
    PROVE  Ordered(Append(q, m), D \union {m.call})
  <1> DEFINE t == Append(q, m)
  <1>1. /\ q \in Seq(Answer) /\ t \in Seq(Answer) /\ Len(q) \in Nat /\ Len(t) = Len(q) + 1
        /\ \A i \in 1..Len(q) : t[i] = q[i]
        /\ t[Len(q) + 1] = m
    BY DEF Ordered
  <1> HIDE DEF t
  <1>2. \A i \in 1..Len(t) : i \in 1..Len(q) \/ i = Len(q) + 1
    BY <1>1
  <1>3. \A i \in 1..Len(t) : t[i].call \in D \union {m.call}
    BY <1>1, <1>2 DEF Ordered
  <1>4. \A c \in D \union {m.call} : \E i \in 1..Len(t) : t[i].call = c
    <2>1. ASSUME NEW c \in D PROVE \E i \in 1..Len(t) : t[i].call = c
      <3>1. PICK i \in 1..Len(q) : q[i].call = c
        BY DEF Ordered
      <3>2. i \in 1..Len(t) /\ t[i].call = c
        BY <1>1, <3>1
      <3>3. QED BY <3>2
    <2>2. Len(q) + 1 \in 1..Len(t) /\ t[Len(q) + 1].call = m.call
      BY <1>1
    <2>3. QED BY <2>1, <2>2
  <1>5. ASSUME NEW i \in 1..Len(t), NEW j \in 1..Len(t), i < j PROVE t[i].call < t[j].call
    <2>1. i \in 1..Len(q) /\ t[i] = q[i] /\ q[i].call \in D
      BY <1>1, <1>2, <1>5 DEF Ordered
    <2>2. CASE j \in 1..Len(q)
      BY <1>1, <1>5, <2>1, <2>2 DEF Ordered
    <2>3. CASE j = Len(q) + 1
      BY Zenon, <1>1, <2>1, <2>3
    <2>4. QED BY <1>2, <2>2, <2>3
  <1>6. QED BY <1>1, <1>3, <1>4, <1>5 DEF Ordered, t

\* ... reading the first one does too, and that is the one to the oldest call ...
LEMMA OrderedTail ==
    ASSUME NEW D \in SUBSET Nat, NEW q, Ordered(q, D), q # <<>>
    PROVE  /\ Head(q) \in Answer /\ Head(q).call \in D
           /\ \A c \in D : Head(q).call <= c
           /\ Ordered(Tail(q), D \ {Head(q).call})
  <1> DEFINE t == Tail(q)
  <1>1. /\ q \in Seq(Answer) /\ t \in Seq(Answer) /\ Len(q) \in Nat /\ Len(q) > 0
        /\ Len(t) = Len(q) - 1
        /\ \A i \in 1..Len(t) : t[i] = q[i + 1] /\ i + 1 \in 1..Len(q)
        /\ Head(q) = q[1] /\ 1 \in 1..Len(q) /\ q[1] \in Answer
    BY DEF Ordered
  <1> HIDE DEF t
  <1>2. q[1].call \in D /\ q[1].call \in Nat
    BY Zenon, <1>1 DEF Ordered
  <1>3. ASSUME NEW i \in 1..Len(q), i # 1 PROVE q[1].call < q[i].call
    <2>1. 1 < i
      BY <1>1, <1>3
    <2>2. QED BY <1>1, <2>1 DEF Ordered
  <1>4. ASSUME NEW c \in D PROVE q[1].call <= c /\ (c # q[1].call => \E i \in 1..Len(t) : t[i].call = c)
    <2>1. PICK i \in 1..Len(q) : q[i].call = c
      BY Zenon DEF Ordered
    <2>2. CASE i = 1
      BY <1>2, <2>1, <2>2
    <2>3. CASE i # 1
      <3>1. q[1].call < c
        BY <1>3, <2>1, <2>3
      <3>2. i - 1 \in 1..Len(t) /\ i \in Int /\ (i - 1) + 1 = i
        BY <1>1, <2>3
      <3>3. t[i - 1] = q[(i - 1) + 1]
        BY <1>1, <3>2
      <3>4. t[i - 1].call = c
        BY <2>1, <3>2, <3>3
      <3>5. c \in Nat
        OBVIOUS
      <3>6. q[1].call <= c
        BY <1>2, <3>1, <3>5
      <3>7. QED BY <3>2, <3>4, <3>6
    <2>4. QED BY <2>2, <2>3
  <1>5. \A i \in 1..Len(t) : t[i].call \in D \ {q[1].call}
    <2>1. TAKE i \in 1..Len(t)
    <2>2. i + 1 \in 1..Len(q) /\ i + 1 # 1 /\ t[i] = q[i + 1]
      BY <1>1
    <2>3. q[1].call < q[i + 1].call /\ q[i + 1].call \in D
      BY <1>3, <2>2 DEF Ordered
    <2>4. q[i + 1].call # q[1].call
      BY <1>2, <2>3
    <2>5. QED BY <2>2, <2>3, <2>4
  <1>6. ASSUME NEW i \in 1..Len(t), NEW j \in 1..Len(t), i < j PROVE t[i].call < t[j].call
    <2>1. i + 1 \in 1..Len(q) /\ j + 1 \in 1..Len(q) /\ i + 1 < j + 1
          /\ t[i] = q[i + 1] /\ t[j] = q[j + 1]
      BY <1>1, <1>6
    <2>2. QED BY <2>1 DEF Ordered
  <1>7. Ordered(t, D \ {q[1].call})
    BY <1>1, <1>4, <1>5, <1>6 DEF Ordered
  <1>8. QED BY <1>1, <1>2, <1>4, <1>7 DEF t

\* ... and so does having none.
LEMMA OrderedEmpty == Ordered(<<>>, {})
  BY DEF Ordered

\* An answer is added to those of the output thread, moved to the response queue,
\* or read from it.
LEMMA QueueAdd ==
    ASSUME NEW r \in Seq(Answer), NEW p \in Seq(Answer), NEW m \in Answer
    PROVE  r \o Append(p, m) = Append(r \o p, m)
  OBVIOUS

\* The output thread puts its oldest answer in the response queue.
LEMMA QueueMove ==
    ASSUME NEW r \in Seq(Answer), NEW p \in Seq(Answer), p # <<>>
    PROVE  Append(r, Head(p)) \o Tail(p) = r \o p
  OBVIOUS

\* The engine reads the oldest answer.
LEMMA QueueRead ==
    ASSUME NEW r \in Seq(Answer), NEW p \in Seq(Answer), r # <<>>
    PROVE  Tail(r) \o p = Tail(r \o p) /\ Head(r \o p) = Head(r) /\ r \o p # <<>>
  OBVIOUS

-----------------------------------------------------------------------------
(* The types.                                                              *)

\* The state of the engine thread.
EngineType ==
    [pc : {"loop", "call", "put", "sent", "wait", "dead"}, kind : Kinds,
     target : Nat, deferred : BOOLEAN]

\* What the operators of the engine thread do to it.
LEMMA RaiseType ==
    ASSUME engine \in EngineType, NEW kind \in Kinds, Raise(kind)
    PROVE  /\ engine' \in EngineType /\ engine'.pc \in {"loop", "dead"}
           /\ engine'.pc = "loop" => kind = "utility"
           /\ engine'.deferred = engine.deferred /\ engine'.kind = engine.kind
  BY DEF EngineType, Raise

\* A call is begun, or a failed executor refuses it.
LEMMA EnterType ==
    ASSUME engine \in EngineType, NEW kind \in Kinds, Enter(kind)
    PROVE  /\ engine' \in EngineType
           /\ \/ monitor = "watch" /\ engine'.pc = "call" /\ engine'.kind = kind
              \/ engine'.pc = "dead"
              \/ engine'.pc = "loop" /\ kind = "utility"
           /\ engine'.deferred = engine.deferred
  BY Zenon, RaiseType DEF EngineType, Enter

\* The engine waits for a call.
LEMMA BlockType ==
    ASSUME engine \in EngineType, NEW c \in Nat, BlockOn(c)
    PROVE  /\ engine' \in EngineType /\ engine'.pc = "wait" /\ engine'.target = c
           /\ engine'.deferred = engine.deferred
  BY Zenon DEF EngineType, BlockOn

\* Appending to a queue.
LEMMA AppendBasics ==
    ASSUME NEW S, NEW s \in Seq(S), NEW v \in S
    PROVE  /\ Append(s, v) \in Seq(S) /\ Append(s, v) # <<>>
           /\ Len(Append(s, v)) = Len(s) + 1
           /\ \A i \in 1..Len(s) : Append(s, v)[i] = s[i]
           /\ Append(s, v)[Len(s) + 1] = v
  OBVIOUS

\* A call that is waited for and not answered has a future in the queue.
LEMMA DrainsOne ==
    ASSUME IInv, Drain
    PROVE  /\ futures # <<>> /\ ~Reading /\ 1 \in 1..Len(futures)
           /\ Pop.future = futures[1] /\ Pop.rest = Tail(futures)
           /\ futures[1] \in Future
           /\ futures[1].call = Popped + 1 /\ Popped \in Nat
  <1>1. engine.pc = "wait" /\ answers[engine.target] = "none" /\ ~Reading
    BY DEF Drain, Reading, Nothing
  <1>2. engine.target \in 1..Len(calls) /\ engine.target \in 1..MaxCalls
    <2>1. Len(calls) \in Nat /\ Len(calls) <= MaxCalls /\ MaxCalls \in Nat
      BY ConfigsAssumption DEF IInv, TypeInv, EngineInv, Room
    <2>2. QED BY <1>1, <2>1 DEF IInv, EngineInv
  <1>3. engine.target > Popped /\ Popped >= 0
    BY <1>1, <1>2 DEF IInv, OrderInv
  <1>4. Popped = Len(calls) - Len(futures) /\ Len(futures) \in Nat /\ Len(calls) \in Nat
    BY <1>1 DEF Popped, Made, IInv, TypeInv
  <1>5. futures \in Seq(Future) /\ futures # <<>> /\ Popped \in Nat
    <2>1. Len(futures) > 0 /\ Popped \in Nat
      BY <1>2, <1>3, <1>4
    <2>2. QED BY <2>1 DEF IInv, TypeInv
  <1>6. 1 \in 1..Len(futures) /\ futures[1] \in Future
    BY <1>5
  <1>7. futures[1].call = Popped + 1
    BY <1>1, <1>6 DEF IInv, OrderInv
  <1>8. QED BY <1>1, <1>5, <1>6, <1>7 DEF Pop

\* Every step keeps the types.
LEMMA StepType ==
    ASSUME IInv, [Next]_vars PROVE TypeInv'
  <1> USE DEF TypeInv
  <1>0. TypeInv /\ engine \in EngineType
    BY DEF IInv, EngineType
  <1>1. CASE UNCHANGED vars
    BY <1>0, <1>1 DEF vars, engineVars, workerVars
  <1>2. CASE StartBatch /\ UNCHANGED <<config, resp, faults, workerVars, monitor>>
    <2>1. engine' \in EngineType
      BY <1>0, <1>2, EnterType DEF StartBatch, Kinds
    <2>2. QED BY <1>0, <1>2, <2>1 DEF StartBatch, workerVars, EngineType
  <1>3. CASE StartUtility /\ UNCHANGED <<config, resp, faults, workerVars, monitor>>
    <2>1. engine' \in EngineType
      BY <1>0, <1>3, EnterType DEF StartUtility, Kinds
    <2>2. QED BY <1>0, <1>3, <2>1 DEF StartUtility, workerVars, EngineType
  <1>4. CASE AwaitBatch /\ UNCHANGED <<config, resp, faults, workerVars, monitor>>
    <2>0. batches \in Seq(Nat) /\ batches # <<>>
      BY <1>0, <1>4 DEF AwaitBatch
    <2>1. Head(batches) \in Nat /\ Tail(batches) \in Seq(Nat)
      BY <2>0
    <2>2. engine' \in EngineType
      BY <1>0, <1>4, <2>1, BlockType DEF AwaitBatch
    <2>3. QED BY <1>0, <1>4, <2>1, <2>2 DEF AwaitBatch, workerVars, EngineType
  <1>5. CASE LookUp /\ UNCHANGED <<config, resp, faults, workerVars, monitor>>
    <2>1. engine' \in EngineType
      <3>1. CASE Dropped
        <4>1. engine.kind \in Kinds /\ Raise(engine.kind)
          BY <1>0, <1>5, <3>1 DEF LookUp, EngineType
        <4>2. QED BY <1>0, <4>1, RaiseType
      <3>2. CASE ~Dropped
        <4>1. engine' = [engine EXCEPT !.pc = "put"]
          BY <1>5, <3>2 DEF LookUp
        <4>2. QED BY Zenon, <1>0, <4>1 DEF EngineType
      <3>3. QED BY <3>1, <3>2
    <2>2. QED BY <1>0, <1>5, <2>1 DEF LookUp, workerVars, EngineType
  <1>6. CASE Send /\ UNCHANGED <<config, resp, faults, workerVars, monitor>>
    <2>1. engine' \in EngineType
      BY Zenon, <1>0, <1>6 DEF Send, EngineType
    <2>2. calls' \in Seq(Kinds)
      BY <1>0, <1>6 DEF Send, EngineType
    <2>3. QED BY <1>0, <1>6, <2>1, <2>2 DEF Send, workerVars, EngineType
  <1>7. CASE Collect /\ UNCHANGED <<config, resp, faults, workerVars, monitor>>
    <2>0. engine.kind \in Kinds /\ Asks(engine.kind) \in SUBSET Ranks /\ Len(calls) \in Nat
      BY <1>0, ConfigsAssumption DEF Asks, EngineType
    <2>1. CASE Dropped /\ Asks(engine.kind) # Ranks
      <3>1. engine' \in EngineType
        BY <1>0, <1>7, <2>0, <2>1, RaiseType DEF Collect
      <3>2. QED BY <1>0, <1>7, <2>1, <3>1 DEF Collect, workerVars, EngineType
    <2>2. CASE ~(Dropped /\ Asks(engine.kind) # Ranks)
      <3> DEFINE asks == IF Dropped THEN {} ELSE Asks(engine.kind)
                 f == [call |-> Len(calls), asks |-> asks]
                 queue == Append(batches, Len(calls))
      <3>1. f \in Future /\ futures' = Append(futures, f)
        <4>1. asks \in SUBSET Ranks
          BY <2>0
        <4>2. f \in Future
          BY <2>0, <4>1 DEF Future
        <4>3. QED BY <1>7, <2>2, <4>2 DEF Collect
      <3> HIDE DEF f
      <3>2. futures' \in Seq(Future)
        BY <1>0, <3>1
      <3>3. queue \in Seq(Nat) /\ queue # <<>> /\ Head(queue) \in Nat /\ Tail(queue) \in Seq(Nat)
        <4>0. batches \in Seq(Nat)
          BY <1>0
        <4>1. queue \in Seq(Nat) /\ queue # <<>>
          BY <2>0, <4>0, AppendBasics
        <4> HIDE DEF queue
        <4>2. QED BY <4>1
      <3>4. batches # <<>> => Head(batches) \in Nat /\ Tail(batches) \in Seq(Nat)
        BY <1>0
      <3> HIDE DEF queue
      <3>5. \/ Enter("sample") /\ UNCHANGED batches
            \/ /\ batches # <<>> /\ batches' = Tail(batches)
               /\ engine' = [engine EXCEPT !.pc = "wait", !.target = Head(batches), !.deferred = TRUE]
            \/ BlockOn(Head(queue)) /\ batches' = Tail(queue)
            \/ engine' = [engine EXCEPT !.pc = "loop", !.deferred = FALSE] /\ batches' = queue
            \/ BlockOn(Len(calls)) /\ UNCHANGED batches
        BY <1>7, <2>2 DEF Collect, Enqueue, queue
      <3>6. engine' \in EngineType /\ batches' \in Seq(Nat)
        <4>1. CASE Enter("sample") /\ UNCHANGED batches
          BY <1>0, <4>1, EnterType DEF Kinds
        <4>2. CASE /\ batches # <<>> /\ batches' = Tail(batches)
                   /\ engine' = [engine EXCEPT !.pc = "wait", !.target = Head(batches),
                                               !.deferred = TRUE]
          BY Zenon, <1>0, <3>4, <4>2 DEF EngineType
        <4>3. CASE BlockOn(Head(queue)) /\ batches' = Tail(queue)
          BY <1>0, <3>3, <4>3, BlockType
        <4>4. CASE engine' = [engine EXCEPT !.pc = "loop", !.deferred = FALSE] /\ batches' = queue
          BY Zenon, <1>0, <3>3, <4>4 DEF EngineType
        <4>5. CASE BlockOn(Len(calls)) /\ UNCHANGED batches
          BY <1>0, <2>0, <4>5, BlockType
        <4>6. QED BY <3>5, <4>1, <4>2, <4>3, <4>4, <4>5
      <3>7. QED BY <1>0, <1>7, <3>2, <3>6 DEF Collect, workerVars, EngineType
    <2>3. QED BY <2>1, <2>2
  <1>8. CASE Drain /\ UNCHANGED <<config, resp, faults, workerVars, monitor>>
    <2>1. /\ futures # <<>> /\ futures[1] \in Future
          /\ reading' = [call |-> futures[1].call, asks |-> futures[1].asks, from |-> {}]
          /\ futures' = Tail(futures)
      BY Zenon, <1>8, DrainsOne DEF Drain
    <2>2. reading' \in [call : Nat, asks : SUBSET Ranks, from : SUBSET Ranks]
      BY <2>1 DEF Future
    <2>3. futures' \in Seq(Future)
      BY <1>0, <2>1
    <2>4. QED BY <1>0, <1>8, <2>2, <2>3 DEF Drain, workerVars
  <1>9. ASSUME NEW outcome \in {"ok", "error"}, Complete(outcome)
        PROVE  /\ answers' \in [1..MaxCalls -> {"none", "ok", "error"}]
               /\ reading' \in [call : Nat, asks : SUBSET Ranks, from : SUBSET Ranks]
    BY Zenon, <1>0, <1>9 DEF Complete, Nothing
  <1>10. CASE ReadAnswer /\ UNCHANGED <<config, faults, workerVars, monitor>>
    <2>1. Left # {} /\ resp[Due] # <<>> /\ Due \in Ranks
      BY <1>0, <1>10, DueLeft DEF ReadAnswer
    <2>2. resp' \in [Ranks -> Seq(Answer)]
      <3>1. resp' = [resp EXCEPT ![Due] = Tail(@)] /\ Tail(resp[Due]) \in Seq(Answer)
        BY <1>0, <1>10, <2>1 DEF ReadAnswer
      <3>2. QED BY <1>0, <2>1, <3>1
    <2>3. /\ answers' \in [1..MaxCalls -> {"none", "ok", "error"}]
          /\ reading' \in [call : Nat, asks : SUBSET Ranks, from : SUBSET Ranks]
      <3>1. CASE Head(resp[Due]).ok
        <4>1. UNCHANGED answers /\ reading' = [reading EXCEPT !.from = @ \union {Due}]
          BY <1>10, <3>1 DEF ReadAnswer
        <4>2. QED BY Zenon, <1>0, <2>1, <4>1
      <3>2. CASE ~Head(resp[Due]).ok
        BY <1>9, <1>10, <3>2 DEF ReadAnswer
      <3>3. QED BY <3>1, <3>2
    <2>4. QED BY <1>0, <1>10, <2>2, <2>3 DEF ReadAnswer, workerVars
  <1>11. CASE (ReadAll \/ ReadCancelled \/ ReadTimeout) /\ UNCHANGED <<config, resp, workerVars, monitor>>
    <2>1. Complete("ok") \/ Complete("error")
      BY <1>11 DEF ReadAll, ReadCancelled, ReadTimeout
    <2>2. /\ answers' \in [1..MaxCalls -> {"none", "ok", "error"}]
          /\ reading' \in [call : Nat, asks : SUBSET Ranks, from : SUBSET Ranks]
      BY <1>9, <2>1
    <2>3. QED BY <1>0, <1>11, <2>2 DEF ReadAll, ReadCancelled, ReadTimeout, workerVars
  <1>12. CASE Return /\ UNCHANGED <<config, resp, faults, workerVars, monitor>>
    <2>1. calls[engine.target] \in Kinds
      <3>1. engine.target \in 1..Len(calls)
        BY <1>12 DEF Return, IInv, EngineInv
      <3>2. QED BY <1>0, <3>1
    <2>2. \/ Raise(calls[engine.target]) \/ Enter("draft") \/ Enter("sample")
          \/ engine' = [engine EXCEPT !.pc = "loop"]
      BY <1>12 DEF Return
    <2>3. engine' \in EngineType
      <3>1. CASE engine' = [engine EXCEPT !.pc = "loop"]
        BY Zenon, <1>0, <3>1 DEF EngineType
      <3>2. QED BY <1>0, <2>1, <2>2, <3>1, RaiseType, EnterType DEF Kinds
    <2>4. QED BY <1>0, <1>12, <2>3 DEF Return, workerVars, EngineType
  <1>13. CASE ExecutorFailed /\ UNCHANGED <<config, resp, faults, workerVars, monitor>>
    <2>1. engine' \in EngineType
      BY Zenon, <1>0, <1>13 DEF ExecutorFailed, EngineType
    <2>2. QED BY <1>0, <1>13, <2>1 DEF ExecutorFailed, workerVars, EngineType
  <1>14. ASSUME NEW w \in Ranks, Work(w), UNCHANGED <<config, engineVars>> PROVE TypeInv'
    <2>1. taken' \in [Ranks -> Nat] /\ taken'[w] \in Nat
      BY SMTT(30), <1>0, <1>14 DEF Work
    <2>2. PICK ok \in BOOLEAN : pending' = IF w \in Asks(calls[taken'[w]])
                        THEN [pending EXCEPT ![w] = Append(@, [call |-> taken'[w], ok |-> ok])]
                        ELSE pending
      BY Zenon, <1>14 DEF Work
    <2>3. [call |-> taken'[w], ok |-> ok] \in Answer
      BY <2>1 DEF Answer
    <2>4. pending' \in [Ranks -> Seq(Answer)]
      BY <1>0, <2>2, <2>3
    <2>5. QED BY SMTT(30), <1>0, <1>14, <2>1, <2>4 DEF Work, engineVars
  <1>15. ASSUME NEW w \in Ranks, Reply(w), UNCHANGED <<config, engineVars>> PROVE TypeInv'
    <2>1. pending[w] \in Seq(Answer) /\ pending[w] # <<>>
      BY <1>0, <1>15 DEF Reply
    <2>2. Head(pending[w]) \in Answer /\ Tail(pending[w]) \in Seq(Answer)
      BY <2>1
    <2>3. resp' \in [Ranks -> Seq(Answer)] /\ pending' \in [Ranks -> Seq(Answer)]
      BY <1>0, <1>15, <2>2 DEF Reply
    <2>4. QED BY <1>0, <1>15, <2>3 DEF Reply, engineVars
  <1>16. ASSUME NEW w \in Ranks, Die(w), UNCHANGED <<config, engineVars>> PROVE TypeInv'
    BY <1>0, <1>16 DEF Die, engineVars
  <1>17. CASE Monitor /\ UNCHANGED <<config, engineVars>>
    BY <1>0, <1>17 DEF Monitor, engineVars
  <1>18. QED
    BY <1>1, <1>2, <1>3, <1>4, <1>5, <1>6, <1>7, <1>8, <1>10, <1>11, <1>12, <1>13, <1>14,
       <1>15, <1>16, <1>17 DEF Next, EngineNext, EngineStep

-----------------------------------------------------------------------------
(* Where the engine is in the calls of a batch.                            *)

\* What the engine has to do next depends on where it is; the batches it has
\* called stay as they are when nothing is put or taken.
LEMMA SameCallsEngine ==
    ASSUME IInv, engine' \in EngineType, UNCHANGED <<config, calls>>,
           \A i \in 1..Len(batches') : batches'[i] \in 1..Len(calls) /\ OfBatch(calls[batches'[i]]),
           engine'.pc \in {"call", "put"} =>
              /\ Room(1)
              /\ engine'.kind = "draft" => Room(2)
              /\ engine'.kind = "execute" => Room(PerBatch),
           engine'.pc # "sent",
           engine'.pc = "wait" =>
              /\ engine'.target \in 1..Len(calls)
              /\ calls[engine'.target] = "draft" => Room(1)
              /\ calls[engine'.target] = "execute" /\ config.depth = 1 => Room(1)
              /\ engine'.deferred /\ OfBatch(calls[engine'.target]) => Room(PerBatch - 1),
           engine'.deferred =>
              \/ engine'.pc = "dead"
              \/ engine'.pc \in {"call", "put"} /\ engine'.kind \in {"draft", "sample"}
              \/ engine'.pc = "wait" /\ (calls[engine'.target] = "draft" \/ OfBatch(calls[engine'.target]))
    PROVE  EngineInv'
  <1>1. Room(0)
    BY DEF IInv, EngineInv
  <1>2. QED BY <1>1 DEF EngineInv, Room, PerBatch, OfBatch

\* What is left of a batch's calls when some of them have been made.
LEMMA RoomLess ==
    ASSUME IInv PROVE /\ Room(PerBatch) => Room(PerBatch - 1)
                      /\ Room(PerBatch - 1) => Room(1)
                      /\ config.spec /\ Room(PerBatch - 1) => Room(2)
  <1>1. Len(calls) \in Nat /\ MaxCalls \in Nat
    BY ConfigsAssumption DEF IInv, TypeInv
  <1>2. QED BY <1>1 DEF Room, PerBatch

\* Every step keeps the engine inside the calls it has room for, and the batch
\* queue a queue of calls that stand for their batches.
LEMMA StepEngine ==
    ASSUME IInv, TypeInv', [Next]_vars PROVE EngineInv'
  <1>0. /\ TypeInv /\ EngineInv /\ engine \in EngineType
        /\ \A i \in 1..Len(batches) : batches[i] \in 1..Len(calls) /\ OfBatch(calls[batches[i]])
        /\ Len(calls) \in Nat /\ MaxCalls \in Nat
    <2>1. TypeInv /\ EngineInv
      BY Zenon DEF IInv
    <2>2. engine \in EngineType /\ calls \in Seq(Kinds) /\ MaxCalls \in Nat
      BY Zenon, <2>1, ConfigsAssumption DEF TypeInv, EngineType
    <2>3. \A i \in 1..Len(batches) : batches[i] \in 1..Len(calls) /\ OfBatch(calls[batches[i]])
      BY <2>1 DEF EngineInv
    <2>4. Len(calls) \in Nat
      BY <2>2
    <2>5. QED BY Zenon, <2>1, <2>2, <2>3, <2>4
  <1>1. CASE UNCHANGED vars \/ (UNCHANGED <<config, engineVars>>)
    <2>1. UNCHANGED <<config, calls, engine, batches>>
      BY <1>1 DEF vars, engineVars
    <2>2. QED BY <1>0, <2>1 DEF EngineInv, Room, PerBatch, OfBatch
  <1>2. CASE StartBatch /\ UNCHANGED config
    <2>1. engine' \in EngineType /\ engine'.pc \in {"call", "dead"} /\ ~engine'.deferred
          /\ (engine'.pc = "call" => engine'.kind = "execute")
      <3>1. Enter("execute") /\ "execute" \in Kinds /\ ~engine.deferred
        BY <1>0, <1>2 DEF StartBatch, Kinds, EngineInv
      <3>2. QED BY <1>0, <3>1, EnterType
    <2>2. Room(PerBatch)
      BY <1>2 DEF StartBatch, Room, PerBatch
    <2>3. UNCHANGED <<calls, batches, config>>
      BY <1>2 DEF StartBatch
    <2>4. QED BY <1>0, <2>1, <2>2, <2>3, RoomLess, SameCallsEngine
  <1>3. CASE StartUtility /\ UNCHANGED config
    <2>1. engine' \in EngineType /\ engine'.pc \in {"call", "dead", "loop"} /\ ~engine'.deferred
          /\ (engine'.pc = "call" => engine'.kind = "utility")
      <3>1. Enter("utility") /\ "utility" \in Kinds /\ ~engine.deferred
        BY <1>0, <1>3 DEF StartUtility, Kinds, EngineInv
      <3>2. QED BY <1>0, <3>1, EnterType
    <2>2. Room(1)
      BY <1>0, <1>3 DEF StartUtility, Room
    <2>3. UNCHANGED <<calls, batches, config>>
      BY <1>3 DEF StartUtility
    <2>4. QED BY <1>0, <2>1, <2>2, <2>3, SameCallsEngine
  <1>4. CASE AwaitBatch /\ UNCHANGED config
    <2>0. batches \in Seq(Nat) /\ batches # <<>> /\ batches' = Tail(batches)
      BY <1>0, <1>4 DEF AwaitBatch, TypeInv
    <2>1. Head(batches) = batches[1] /\ 1 \in 1..Len(batches) /\ batches[1] \in Nat
          /\ \A i \in 1..Len(batches') : i + 1 \in 1..Len(batches) /\ batches'[i] = batches[i + 1]
      BY <2>0
    <2>2. engine' \in EngineType /\ engine'.pc = "wait" /\ engine'.target = batches[1]
          /\ ~engine'.deferred
      <3>1. BlockOn(batches[1]) /\ ~engine.deferred
        BY <1>0, <1>4, <2>1 DEF AwaitBatch, EngineInv
      <3>2. QED BY <1>0, <2>1, <3>1, BlockType
    <2>3. UNCHANGED <<calls, config>>
      BY <1>4 DEF AwaitBatch
    <2>4. batches[1] \in 1..Len(calls) /\ OfBatch(calls[batches[1]])
      BY <1>0, <2>1
    <2>5. \A i \in 1..Len(batches') : batches'[i] \in 1..Len(calls) /\ OfBatch(calls[batches'[i]])
      BY <1>0, <2>1
    <2>6. QED BY <2>2, <2>3, <2>4, <2>5, SameCallsEngine DEF OfBatch
  <1>5. CASE LookUp /\ UNCHANGED config
    <2>1. engine.pc = "call" /\ UNCHANGED <<calls, batches, config>>
      BY <1>5 DEF LookUp
    <2>2. CASE Dropped
      <3>1. Raise(engine.kind) /\ engine.kind \in Kinds
        BY <1>0, <1>5, <2>2 DEF LookUp, EngineType
      <3>2. /\ engine' \in EngineType /\ engine'.pc \in {"loop", "dead"}
            /\ engine'.pc = "loop" => engine.kind = "utility"
            /\ engine'.deferred = engine.deferred
        BY <1>0, <3>1, RaiseType
      <3>3. engine'.pc = "loop" => ~engine'.deferred
        BY <1>0, <2>1, <3>2 DEF EngineInv
      <3>4. QED BY <1>0, <2>1, <3>2, <3>3, SameCallsEngine
    <2>3. CASE ~Dropped
      <3>1. engine' = [engine EXCEPT !.pc = "put"]
        BY <1>5, <2>3 DEF LookUp
      <3>2. engine' \in EngineType /\ engine'.pc = "put" /\ engine'.kind = engine.kind
            /\ engine'.deferred = engine.deferred
        BY <1>0, <3>1 DEF EngineType
      <3>3. /\ Room(1)
            /\ engine.kind = "draft" => Room(2)
            /\ engine.kind = "execute" => Room(PerBatch)
            /\ engine.deferred => engine.kind \in {"draft", "sample"}
        BY <1>0, <2>1 DEF EngineInv
      <3>4. QED BY <1>0, <2>1, <3>2, <3>3, SameCallsEngine
    <2>4. QED BY <2>2, <2>3
  <1>6. CASE Send /\ UNCHANGED config
    <2>0. calls \in Seq(Kinds) /\ engine.kind \in Kinds
      BY <1>0 DEF TypeInv, EngineType
    <2>1. engine.pc = "put" /\ calls' = Append(calls, engine.kind) /\ UNCHANGED batches
      BY <1>6 DEF Send
    <2>2. engine'.pc = "sent" /\ engine'.kind = engine.kind /\ engine'.deferred = engine.deferred
      BY <1>0, <1>6 DEF Send, EngineType
    <2>3. /\ Len(calls') = Len(calls) + 1 /\ \A c \in 1..Len(calls) : calls'[c] = calls[c]
          /\ calls'[Len(calls) + 1] = engine.kind
      BY <2>0, <2>1, AppendBasics
    <2>4. /\ Room(1)
          /\ engine.kind = "draft" => Room(2)
          /\ engine.kind = "execute" => Room(PerBatch)
          /\ engine.deferred => engine.kind \in {"draft", "sample"}
      BY <1>0, <2>1 DEF EngineInv
    <2>5. /\ Room(0)'
          /\ engine.kind = "draft" => Room(1)'
          /\ engine.kind = "execute" => Room(PerBatch - 1)'
      BY <1>0, <1>6, <2>3, <2>4 DEF Room, PerBatch
    <2>6. \A i \in 1..Len(batches) : batches[i] \in 1..Len(calls') /\ OfBatch(calls'[batches[i]])
      BY <1>0, <2>3
    <2>7. \A i \in 1..Len(batches') : batches'[i] \in 1..Len(calls') /\ OfBatch(calls[batches[i]])'
      BY <1>6, <2>1, <2>6 DEF OfBatch
    <2>8. QED BY <1>0, <2>1, <2>2, <2>3, <2>4, <2>5, <2>7 DEF EngineInv
  <1>7. CASE Collect /\ UNCHANGED config
    <2>0. /\ engine.pc = "sent" /\ UNCHANGED calls
          /\ Len(calls) \in 1..Len(calls) /\ calls[Len(calls)] = engine.kind
          /\ engine.kind = "draft" => Room(1)
          /\ engine.kind = "execute" => Room(PerBatch - 1)
          /\ engine.deferred => engine.kind \in {"draft", "sample"}
          /\ engine.kind \in Kinds
      BY <1>0, <1>7 DEF Collect, EngineInv, EngineType
    <2>1. CASE Dropped /\ Asks(engine.kind) # Ranks
      <3>1. Raise(engine.kind) /\ UNCHANGED batches
        BY <1>7, <2>1 DEF Collect
      <3>2. /\ engine' \in EngineType /\ engine'.pc \in {"loop", "dead"}
            /\ engine'.pc = "loop" => engine.kind = "utility"
            /\ engine'.deferred = engine.deferred
        BY <1>0, <2>0, <3>1, RaiseType
      <3>3. engine'.pc = "loop" => ~engine'.deferred
        BY <2>0, <3>2
      <3>4. QED BY <1>0, <1>7, <2>0, <3>1, <3>2, <3>3, SameCallsEngine
    <2>2. CASE ~(Dropped /\ Asks(engine.kind) # Ranks)
      <3> DEFINE queue == Append(batches, Len(calls))
      <3>0. batches \in Seq(Nat)
        BY <1>0 DEF TypeInv
      <3>1. /\ queue \in Seq(Nat) /\ queue # <<>> /\ Len(queue) = Len(batches) + 1
            /\ \A i \in 1..Len(batches) : queue[i] = batches[i]
            /\ queue[Len(batches) + 1] = Len(calls)
        BY <1>0, <3>0, AppendBasics
      <3>2. \/ engine.kind = "execute" /\ Enter("sample") /\ UNCHANGED batches
            \/ /\ engine.kind = "execute" /\ batches # <<>> /\ batches' = Tail(batches)
               /\ engine' = [engine EXCEPT !.pc = "wait", !.target = Head(batches), !.deferred = TRUE]
            \/ OfBatch(engine.kind) /\ ~engine.deferred /\ BlockOn(Head(queue)) /\ batches' = Tail(queue)
            \/ /\ OfBatch(engine.kind)
               /\ engine' = [engine EXCEPT !.pc = "loop", !.deferred = FALSE] /\ batches' = queue
            \/ AwaitedCall(engine.kind) /\ BlockOn(Len(calls)) /\ UNCHANGED batches
        BY <1>7, <2>0, <2>2 DEF Collect, Enqueue, OfBatch, Kinds
      <3> HIDE DEF queue
      <3>3. CASE engine.kind = "execute" /\ Enter("sample") /\ UNCHANGED batches
        <4>1. engine' \in EngineType /\ engine'.pc \in {"call", "dead"} /\ ~engine'.deferred
              /\ (engine'.pc = "call" => engine'.kind = "sample")
          BY <1>0, <2>0, <3>3, EnterType DEF Kinds
        <4>2. Room(1)
          BY <2>0, <3>3, RoomLess
        <4>3. QED BY <1>0, <1>7, <2>0, <3>3, <4>1, <4>2, SameCallsEngine
      <3>4. CASE /\ engine.kind = "execute" /\ batches # <<>> /\ batches' = Tail(batches)
                 /\ engine' = [engine EXCEPT !.pc = "wait", !.target = Head(batches), !.deferred = TRUE]
        <4>1. Head(batches) = batches[1] /\ 1 \in 1..Len(batches) /\ batches[1] \in Nat
              /\ \A i \in 1..Len(batches') : i + 1 \in 1..Len(batches) /\ batches'[i] = batches[i + 1]
          BY <3>0, <3>4
        <4>2. engine' \in EngineType /\ engine'.pc = "wait" /\ engine'.target = batches[1]
          BY Zenon, <1>0, <3>4, <4>1 DEF EngineType
        <4>3. batches[1] \in 1..Len(calls) /\ OfBatch(calls[batches[1]])
          BY <1>0, <4>1
        <4>4. \A i \in 1..Len(batches') : batches'[i] \in 1..Len(calls) /\ OfBatch(calls[batches'[i]])
          BY <1>0, <4>1
        <4>5. QED BY <1>7, <2>0, <3>4, <4>2, <4>3, <4>4, SameCallsEngine, RoomLess
      <3>5. CASE OfBatch(engine.kind) /\ ~engine.deferred /\ BlockOn(Head(queue)) /\ batches' = Tail(queue)
        <4>1. Head(queue) = queue[1] /\ 1 \in 1..Len(queue) /\ queue[1] \in Nat
              /\ \A i \in 1..Len(batches') : i + 1 \in 1..Len(queue) /\ batches'[i] = queue[i + 1]
          BY <3>1, <3>5
        <4>2. \A i \in 1..Len(queue) : queue[i] \in 1..Len(calls) /\ OfBatch(calls[queue[i]])
          <5>1. \A i \in 1..Len(queue) : i \in 1..Len(batches) \/ i = Len(batches) + 1
            BY <3>0, <3>1
          <5>2. QED BY Zenon, <1>0, <2>0, <3>1, <3>5, <5>1
        <4>3. engine' \in EngineType /\ engine'.pc = "wait" /\ engine'.target = queue[1] /\ ~engine'.deferred
          BY <1>0, <3>5, <4>1, BlockType
        <4>4. \A i \in 1..Len(batches') : batches'[i] \in 1..Len(calls) /\ OfBatch(calls[batches'[i]])
          BY <4>1, <4>2
        <4>5. OfBatch(calls[queue[1]]) /\ queue[1] \in 1..Len(calls)
          BY <4>1, <4>2
        <4>6. QED BY <1>7, <2>0, <4>3, <4>4, <4>5, SameCallsEngine DEF OfBatch
      <3>6. CASE /\ OfBatch(engine.kind)
                 /\ engine' = [engine EXCEPT !.pc = "loop", !.deferred = FALSE] /\ batches' = queue
        <4>1. engine' \in EngineType /\ engine'.pc = "loop" /\ ~engine'.deferred
          BY Zenon, <1>0, <3>6 DEF EngineType
        <4>2. \A i \in 1..Len(batches') : batches'[i] \in 1..Len(calls) /\ OfBatch(calls[batches'[i]])
          <5>1. \A i \in 1..Len(queue) : i \in 1..Len(batches) \/ i = Len(batches) + 1
            BY <3>0, <3>1
          <5>2. QED BY SMTT(30), <1>0, <2>0, <3>1, <3>6, <5>1
        <4>3. QED BY <1>7, <2>0, <4>1, <4>2, SameCallsEngine
      <3>7. CASE AwaitedCall(engine.kind) /\ BlockOn(Len(calls)) /\ UNCHANGED batches
        <4>1. engine' \in EngineType /\ engine'.pc = "wait" /\ engine'.target = Len(calls)
              /\ engine'.deferred = engine.deferred
          BY <1>0, <3>7, BlockType
        <4>2. engine.kind = "execute" => Room(1)
          BY <2>0, RoomLess
        <4>3. QED BY <1>0, <1>7, <2>0, <3>7, <4>1, <4>2, SameCallsEngine DEF AwaitedCall, OfBatch
      <3>8. QED BY <3>2, <3>3, <3>4, <3>5, <3>6, <3>7
    <2>3. QED BY <2>1, <2>2
  <1>8. CASE Drain \/ ReadAll \/ ReadCancelled \/ ReadTimeout \/ ReadAnswer
    <2>1. UNCHANGED <<calls, engine, batches>>
      BY <1>8 DEF Drain, ReadAll, ReadCancelled, ReadTimeout, ReadAnswer
    <2>2. config' = config
      BY DEF Next, vars
    <2>3. QED BY <1>0, <2>1, <2>2 DEF EngineInv, Room, PerBatch, OfBatch
  <1>9. CASE Return /\ UNCHANGED config
    <2>0. /\ engine.pc = "wait" /\ UNCHANGED <<calls, batches>> /\ engine.target \in 1..Len(calls)
          /\ calls[engine.target] = "draft" => Room(1)
          /\ calls[engine.target] = "execute" /\ config.depth = 1 => Room(1)
          /\ engine.deferred /\ OfBatch(calls[engine.target]) => Room(PerBatch - 1)
          /\ engine.deferred => (calls[engine.target] = "draft" \/ OfBatch(calls[engine.target]))
      BY <1>0, <1>9 DEF Return, EngineInv
    <2> DEFINE kind == calls[engine.target]
    <2>1. kind \in Kinds
      <3>1. calls \in Seq(Kinds)
        BY <1>0 DEF TypeInv
      <3>2. QED BY <2>0, <3>1
    <2>2. \/ Raise(kind)
          \/ kind # "draft" /\ engine.deferred /\ config.spec /\ Enter("draft")
          \/ kind # "draft" /\ engine.deferred /\ Enter("sample")
          \/ kind = "draft" /\ Enter("sample")
          \/ kind = "execute" /\ config.depth = 1 /\ Enter("sample")
          \/ kind # "draft" /\ ~engine.deferred
             /\ engine' = [engine EXCEPT !.pc = "loop"]
      BY <1>9 DEF Return
    <2> HIDE DEF kind
    <2>3. CASE Raise(kind)
      <3>1. /\ engine' \in EngineType /\ engine'.pc \in {"loop", "dead"}
            /\ engine'.pc = "loop" => kind = "utility"
            /\ engine'.deferred = engine.deferred
        BY <1>0, <2>1, <2>3, RaiseType
      <3>2. engine'.pc = "loop" => ~engine'.deferred
        BY <2>0, <3>1 DEF kind, OfBatch
      <3>3. QED BY <1>0, <1>9, <2>0, <3>1, <3>2, SameCallsEngine
    <2>4. CASE kind # "draft" /\ engine.deferred /\ config.spec /\ Enter("draft")
      <3>1. engine' \in EngineType /\ engine'.pc \in {"call", "dead"}
            /\ (engine'.pc = "call" => engine'.kind = "draft")
        BY <1>0, <2>4, EnterType DEF Kinds
      <3>2. Room(1) /\ Room(2)
        BY <2>0, <2>4, RoomLess DEF kind
      <3>3. QED BY <1>0, <1>9, <2>0, <3>1, <3>2, SameCallsEngine
    <2>5. CASE /\ \/ kind # "draft" /\ engine.deferred
                  \/ kind = "draft"
                  \/ kind = "execute" /\ config.depth = 1
               /\ Enter("sample")
      <3>1. engine' \in EngineType /\ engine'.pc \in {"call", "dead"}
            /\ (engine'.pc = "call" => engine'.kind = "sample")
        BY <1>0, <2>5, EnterType DEF Kinds
      <3>2. Room(1)
        BY <2>0, <2>5, RoomLess DEF kind
      <3>3. QED BY <1>0, <1>9, <2>0, <3>1, <3>2, SameCallsEngine
    <2>6. CASE kind # "draft" /\ ~engine.deferred
               /\ engine' = [engine EXCEPT !.pc = "loop"]
      <3>1. engine' \in EngineType /\ engine'.pc = "loop" /\ engine'.deferred = engine.deferred
        BY <1>0, <2>6 DEF EngineType
      <3>2. ~engine'.deferred
        BY <2>0, <2>6, <3>1 DEF kind
      <3>3. QED BY <1>0, <1>9, <2>0, <3>1, <3>2, SameCallsEngine
    <2>7. QED BY <2>2, <2>3, <2>4, <2>5, <2>6
  <1>10. CASE ExecutorFailed /\ UNCHANGED config
    <2>1. engine' \in EngineType /\ engine'.pc = "dead" /\ UNCHANGED <<calls, batches>>
      BY <1>0, <1>10 DEF ExecutorFailed, EngineType
    <2>2. QED BY <1>0, <1>10, <2>1, SameCallsEngine
  <1>11. CASE Next
    <2>1. UNCHANGED config
      BY <1>11 DEF Next
    <2>2. QED BY <1>1, <1>2, <1>3, <1>4, <1>5, <1>6, <1>7, <1>8, <1>9, <1>10, <1>11, <2>1
               DEF Next, EngineNext, EngineStep
  <1>12. QED BY <1>1, <1>11

-----------------------------------------------------------------------------
(* The futures: made, drained and read in the order of the calls.          *)

\* The futures and answers of a step that makes none, reads none and puts no call.
LEMMA QuietOrder ==
    ASSUME IInv, ~Reading, UNCHANGED <<config, calls, futures, reading, answers, monitor>>,
           engine.pc \notin {"sent", "dead"}, engine'.pc # "sent",
           Dropped => engine'.pc \in {"loop", "wait", "dead"}
    PROVE  OrderInv'
  <1>1. Made' = Made /\ Popped' = Popped
    BY DEF Made, Popped
  <1>2. reading = Nothing /\ ~Reading'
    BY DEF IInv, OrderInv, Reading
  <1>3. /\ Popped >= 0
        /\ \A c \in 1..MaxCalls : answers[c] = "none" <=> c > Popped
        /\ \A i \in 1..Len(futures) : futures[i].call = Popped + i /\ Sound(futures[i])
    BY DEF IInv, OrderInv
  <1>4. ASSUME engine'.pc # "dead", NEW i \in 1..Len(futures')
        PROVE  futures'[i].call = Popped' + i /\ Sound(futures[i])'
    <2>1. futures'[i] = futures[i] /\ i \in 1..Len(futures) /\ (Dropped' <=> Dropped)
      BY DEF Dropped
    <2>2. futures[i].call = Popped + i /\ Sound(futures[i])
      BY <1>3, <2>1
    <2>3. Sound(futures[i])'
      BY <1>4, <2>1, <2>2 DEF Sound, Asks
    <2>4. QED BY <1>1, <2>1, <2>2, <2>3
  <1>5. \A c \in 1..MaxCalls : answers'[c] = "none" <=> c > Popped'
    BY <1>1, <1>3
  <1>6. Popped' >= 0 /\ reading' = Nothing
    BY <1>1, <1>2, <1>3
  <1>7. QED BY <1>2, <1>4, <1>5, <1>6 DEF OrderInv

\* The futures and answers when only the workers or the monitor move.
LEMMA WorkerOrder ==
    ASSUME IInv, UNCHANGED <<config, engineVars>>, Dropped => Dropped'
    PROVE  OrderInv'
  <1>1. UNCHANGED <<config, calls, engine, futures, reading, answers>>
    BY DEF engineVars
  <1>2. Popped' = Popped /\ (Reading' <=> Reading)
    BY <1>1 DEF Popped, Made, Reading
  <1>3. engine.pc # "dead" => /\ \A i \in 1..Len(futures) : Sound(futures[i])'
                              /\ Reading => Sound(reading)'
    BY Zenon, <1>1 DEF IInv, OrderInv, Sound, Asks
  <1>4. QED BY <1>1, <1>2, <1>3 DEF IInv, OrderInv

\* Putting a call on the queue.
LEMMA SendOrder ==
    ASSUME IInv, Send, UNCHANGED <<config, monitor>>
    PROVE  OrderInv' /\ ~Reading /\ ~Reading' /\ Popped' = Popped /\ Popped <= Len(calls)
  <1>0. calls \in Seq(Kinds) /\ engine.kind \in Kinds /\ engine \in EngineType
    BY DEF IInv, TypeInv, EngineType
  <1>1. engine.pc = "put" /\ calls' = Append(calls, engine.kind) /\ engine'.pc = "sent"
        /\ UNCHANGED <<futures, reading, answers>>
    BY <1>0 DEF Send, EngineType
  <1>2. /\ Len(calls') = Len(calls) + 1 /\ \A c \in 1..Len(calls) : calls'[c] = calls[c]
    BY <1>0, <1>1, AppendBasics
  <1>3. Popped' = Popped /\ ~Reading /\ ~Reading' /\ reading = Nothing
        /\ Popped = Len(calls) - Len(futures)
    <2>1. Len(calls) \in Nat /\ Len(futures) \in Nat
      BY DEF IInv, TypeInv
    <2>2. Made' = Made /\ Made = Len(calls)
      BY <1>1, <1>2, <2>1 DEF Made
    <2>3. QED BY <1>1, <2>1, <2>2 DEF Popped, Reading, IInv, OrderInv
  <1>4. /\ Popped >= 0
        /\ \A c \in 1..MaxCalls : answers[c] = "none" <=> c > Popped
        /\ \A i \in 1..Len(futures) : futures[i].call = Popped + i /\ Sound(futures[i])
    BY ZenonT(40), <1>1, <1>3 DEF IInv, OrderInv
  <1>5. ASSUME NEW i \in 1..Len(futures) PROVE Sound(futures[i])'
    <2>0. futures[i].call = Popped + i /\ Sound(futures[i])
      BY <1>4
    <2>1. futures[i].asks = Asks(calls[futures[i].call])
      BY <1>1, <2>0 DEF Sound
    <2>2. futures[i].call \in 1..Len(calls)
      <3>1. Len(calls) \in Nat /\ Len(futures) \in Nat
        BY DEF IInv, TypeInv
      <3>2. QED BY <1>3, <1>4, <2>0, <3>1
    <2>3. futures'[i] = futures[i] /\ calls'[futures[i].call] = calls[futures[i].call]
      BY <1>1, <1>2, <2>2
    <2>4. QED BY <2>1, <2>3 DEF Sound, Asks
  <1>6. \A i \in 1..Len(futures') : futures'[i].call = Popped' + i /\ Sound(futures[i])'
    BY Zenon, <1>1, <1>3, <1>4, <1>5
  <1>7. \A c \in 1..MaxCalls : answers'[c] = "none" <=> c > Popped'
    BY <1>1, <1>3, <1>4
  <1>8. Popped' >= 0 /\ reading' = Nothing
    BY <1>1, <1>3, <1>4
  <1>9. Popped <= Len(calls)
    <2>1. Len(calls) \in Nat /\ Len(futures) \in Nat
      BY DEF IInv, TypeInv
    <2>2. QED BY <1>3, <2>1
  <1>10. QED BY <1>3, <1>6, <1>7, <1>8, <1>9 DEF OrderInv

\* Making the future of the call just put.
LEMMA CollectOrder ==
    ASSUME IInv, Collect, UNCHANGED <<config, monitor>>
    PROVE  OrderInv' /\ ~Reading /\ ~Reading' /\ (engine'.pc = "dead" \/ Popped' = Popped)
  <1>0. /\ engine.pc = "sent" /\ UNCHANGED <<calls, reading, answers>>
        /\ engine \in EngineType /\ engine.kind \in Kinds
        /\ Len(calls) \in 1..Len(calls) /\ calls[Len(calls)] = engine.kind
        /\ futures \in Seq(Future) /\ Len(calls) \in Nat /\ Len(futures) \in Nat
    BY DEF Collect, IInv, TypeInv, EngineType, EngineInv
  <1>1. /\ ~Reading /\ ~Reading' /\ reading = Nothing /\ Popped >= 0
        /\ \A c \in 1..MaxCalls : answers[c] = "none" <=> c > Popped
        /\ \A i \in 1..Len(futures) : futures[i].call = Popped + i /\ Sound(futures[i])
        /\ Popped = Len(calls) - 1 - Len(futures)
    BY <1>0 DEF IInv, OrderInv, Reading, Popped, Made
  <1>2. \A i \in 1..Len(futures) : /\ futures[i].call \in 1..Len(calls)
                                   /\ futures[i].asks = Asks(calls[futures[i].call])
    BY <1>0, <1>1 DEF Sound
  <1>3. CASE Dropped /\ Asks(engine.kind) # Ranks
    <2>1. Raise(engine.kind) /\ UNCHANGED futures
      BY <1>3 DEF Collect
    <2>2. engine'.pc = "loop" => engine.kind = "utility"
      BY <1>0, <2>1, RaiseType
    <2>3. engine.kind # "utility"
      BY <1>3 DEF Asks
    <2>4. engine'.pc = "dead"
      BY <1>0, <2>1, <2>2, <2>3, RaiseType
    <2>5. QED BY <1>0, <1>1, <2>4 DEF OrderInv
  <1>4. CASE ~(Dropped /\ Asks(engine.kind) # Ranks)
    <2> DEFINE asks == IF Dropped THEN {} ELSE Asks(engine.kind)
               f == [call |-> Len(calls), asks |-> asks]
    <2>1. futures' = Append(futures, f)
      BY <1>4 DEF Collect
    <2>2. /\ engine' \in EngineType /\ engine'.pc # "sent"
          /\ engine'.pc \in {"loop", "wait", "dead"} \/ (engine'.pc = "call" /\ ~Dropped)
      <3>1. \/ Enter("sample")
            \/ batches # <<>> /\ engine' = [engine EXCEPT !.pc = "wait", !.target = Head(batches), !.deferred = TRUE]
            \/ BlockOn(Head(Append(batches, Len(calls))))
            \/ engine' = [engine EXCEPT !.pc = "loop", !.deferred = FALSE]
            \/ BlockOn(Len(calls))
        BY <1>0, <1>4 DEF Collect, Enqueue
      <3>2. CASE Enter("sample")
        BY <1>0, <3>2, EnterType DEF Dropped, Kinds
      <3>3. batches \in Seq(Nat) /\ Append(batches, Len(calls)) \in Seq(Nat) /\ Append(batches, Len(calls)) # <<>>
        <4>1. batches \in Seq(Nat)
          BY DEF IInv, TypeInv
        <4>2. QED BY <1>0, <4>1, AppendBasics
      <3>4. Head(Append(batches, Len(calls))) \in Nat /\ (batches # <<>> => Head(batches) \in Nat)
        BY <3>3
      <3>5. CASE batches # <<>> /\ engine' = [engine EXCEPT !.pc = "wait", !.target = Head(batches), !.deferred = TRUE]
        BY Zenon, <1>0, <3>4, <3>5 DEF EngineType
      <3>6. CASE BlockOn(Head(Append(batches, Len(calls))))
        BY <1>0, <3>4, <3>6, BlockType
      <3>7. CASE engine' = [engine EXCEPT !.pc = "loop", !.deferred = FALSE]
        BY Zenon, <1>0, <3>7 DEF EngineType
      <3>8. CASE BlockOn(Len(calls))
        BY <1>0, <3>8, BlockType
      <3>9. QED BY <3>1, <3>2, <3>5, <3>6, <3>7, <3>8
    <2>3. f \in Future /\ f.call = Len(calls) /\ f.asks = asks
      BY <1>0, ConfigsAssumption DEF Future, Asks, IInv, TypeInv
    <2>4. /\ Len(futures') = Len(futures) + 1 /\ \A i \in 1..Len(futures) : futures'[i] = futures[i]
          /\ futures'[Len(futures) + 1] = f
      <3> HIDE DEF f
      <3>1. QED BY <1>0, <2>1, <2>3, AppendBasics
    <2>5. Popped' = Popped
      BY <1>0, <1>1, <2>2, <2>4 DEF Popped, Made
    <2> HIDE DEF f
    <2>6. \A i \in 1..Len(futures') : i \in 1..Len(futures) \/ i = Len(futures) + 1
      BY <1>0, <2>4
    <2>7. ASSUME NEW i \in 1..Len(futures'), engine'.pc # "dead"
          PROVE  futures'[i].call = Popped + i /\ Sound(futures[i])'
      <3>1. CASE i \in 1..Len(futures)
        <4>1. futures'[i] = futures[i]
          BY <2>4, <3>1
        <4>2. QED BY ZenonT(40), <1>0, <1>1, <1>2, <3>1, <4>1 DEF Sound, Asks
      <3>2. CASE i = Len(futures) + 1
        <4>1. futures'[i] = f
          BY <2>4, <3>2
        <4>2. f.call = Popped + i
          BY <1>0, <1>1, <2>3, <3>2
        <4>3. Sound(futures[i])'
          <5>1. CASE Dropped
            BY <1>0, <2>2, <2>3, <2>7, <4>1, <5>1 DEF Sound, Dropped
          <5>2. CASE ~Dropped
            BY <1>0, <2>3, <4>1, <5>2 DEF Sound, Asks
          <5>3. QED BY <5>1, <5>2
        <4>4. QED BY <4>1, <4>2, <4>3
      <3>3. QED BY <2>6, <3>1, <3>2
    <2>8. QED BY Zenon, <1>0, <1>1, <2>5, <2>7 DEF OrderInv
  <1>5. QED BY <1>3, <1>4

\* Taking the oldest future.
LEMMA DrainOrder ==
    ASSUME IInv, Drain, UNCHANGED <<config, monitor>>
    PROVE  /\ OrderInv' /\ Popped' = Popped + 1 /\ Reading' /\ reading'.call = Popped + 1
           /\ reading'.from = {} /\ ~Reading /\ futures # <<>>
  <1>0. /\ futures # <<>> /\ ~Reading /\ 1 \in 1..Len(futures)
        /\ Pop.future = futures[1] /\ Pop.rest = Tail(futures)
        /\ futures[1] \in Future
        /\ futures[1].call = Popped + 1 /\ Popped \in Nat
    BY DrainsOne
  <1>1. /\ UNCHANGED <<calls, engine, answers>> /\ engine.pc = "wait" /\ answers[engine.target] = "none"
        /\ reading' = [call |-> Pop.future.call, asks |-> Pop.future.asks, from |-> {}]
        /\ futures' = Pop.rest
    BY DEF Drain
  <1>2. /\ reading'.call = Popped + 1 /\ reading'.asks = futures[1].asks /\ reading'.from = {}
        /\ Reading'
    BY <1>0, <1>1 DEF Reading
  <1>3. /\ Len(futures') = Len(futures) - 1 /\ Len(futures) \in Nat
        /\ \A i \in 1..Len(futures') : i + 1 \in 1..Len(futures) /\ futures'[i] = futures[i + 1]
    <2>1. futures \in Seq(Future)
      BY DEF IInv, TypeInv
    <2>2. QED BY <1>0, <1>1, <2>1
  <1>4. Popped' = Popped + 1
    <2>1. Made' = Made /\ Made = Len(calls) /\ Len(calls) \in Nat
      BY <1>1 DEF Made, IInv, TypeInv
    <2>2. QED BY <1>3, <2>1 DEF Popped
  <1>5. /\ \A i \in 1..Len(futures) : futures[i].call = Popped + i /\ Sound(futures[i])
        /\ \A c \in 1..MaxCalls : answers[c] = "none" <=> c > Popped
    BY <1>0, <1>1 DEF IInv, OrderInv
  <1>6. ASSUME NEW i \in 1..Len(futures') PROVE futures'[i].call = Popped' + i /\ Sound(futures[i])'
    <2>1. i + 1 \in 1..Len(futures) /\ futures'[i] = futures[i + 1]
      BY <1>3
    <2>2. futures[i + 1].call = Popped + (i + 1) /\ Sound(futures[i + 1])
      BY <1>5, <2>1
    <2>3. Sound(futures[i])'
      BY <1>1, <2>1, <2>2 DEF Sound, Asks, Dropped
    <2>4. QED BY <1>0, <1>4, <2>1, <2>2, <2>3
  <1>7. Sound(reading)'
    <2>1. Sound(futures[1])
      BY <1>0, <1>5
    <2>2. QED BY <1>0, <1>1, <1>2, <2>1 DEF Sound, Asks, Dropped
  <1>8. \A c \in 1..MaxCalls : answers'[c] = "none" <=> (c > Popped' \/ (Reading' /\ c = reading'.call))
    BY <1>0, <1>1, <1>2, <1>4, <1>5
  <1>9. QED BY <1>0, <1>1, <1>2, <1>4, <1>6, <1>7, <1>8 DEF OrderInv

\* A call that is being read is one that was made, and not answered.
LEMMA ReadingCall ==
    ASSUME IInv, Reading
    PROVE  /\ engine.pc = "wait" /\ reading.call = Popped /\ Sound(reading) /\ Popped \in Nat
           /\ reading.call \in 1..Len(calls) /\ reading.call \in 1..MaxCalls
           /\ answers[reading.call] = "none" /\ answers[engine.target] = "none"
           /\ \A c \in 1..MaxCalls : answers[c] = "none" <=> c >= Popped
  <1>1. engine.pc = "wait" /\ answers[engine.target] = "none" /\ reading.call = Popped /\ Sound(reading)
        /\ Popped >= 0
        /\ \A c \in 1..MaxCalls : answers[c] = "none" <=> (c > Popped \/ c = reading.call)
    BY DEF IInv, OrderInv
  <1>2. Popped = Len(calls) - Len(futures) /\ Len(calls) \in Nat /\ Len(futures) \in Nat
        /\ Len(calls) <= MaxCalls /\ MaxCalls \in Nat
    BY <1>1, ConfigsAssumption DEF Popped, Made, IInv, TypeInv, EngineInv, Room
  <1>3. reading.call # 0 /\ reading.call \in Nat
    BY DEF Reading, IInv, TypeInv
  <1>4. QED BY <1>1, <1>2, <1>3

\* A read that ends with an outcome, and one that goes on.
LEMMA CompleteOrder ==
    ASSUME IInv, Reading, NEW outcome \in {"ok", "error"}, Complete(outcome),
           UNCHANGED <<config, monitor, calls, engine, futures>>
    PROVE  OrderInv' /\ Popped' = Popped /\ ~Reading'
  <1>1. /\ answers' = [answers EXCEPT ![reading.call] = outcome] /\ reading' = Nothing /\ ~Reading'
        /\ answers \in [1..MaxCalls -> {"none", "ok", "error"}]
    BY DEF Complete, IInv, TypeInv, Nothing, Reading
  <1>2. Popped' = Popped
    BY DEF Popped, Made
  <1>3. \A c \in 1..MaxCalls : answers'[c] = "none" <=> c > Popped
    BY <1>1, ReadingCall
  <1>4. \A i \in 1..Len(futures) : futures[i].call = Popped + i /\ Sound(futures[i])
    BY ReadingCall DEF IInv, OrderInv
  <1>5. \A i \in 1..Len(futures) : Sound(futures[i])'
    BY Zenon, <1>4 DEF Sound, Asks, Dropped
  <1>6. (\A i \in 1..Len(futures) : futures[i].call = Popped + i /\ Sound(futures[i]))'
    BY Zenon, <1>2, <1>4, <1>5
  <1>7. (\A c \in 1..MaxCalls : answers[c] = "none" <=> (c > Popped \/ (Reading /\ c = reading.call)))'
    BY Zenon, <1>1, <1>2, <1>3
  <1>8. Popped' >= 0
    BY <1>2, ReadingCall
  <1>9. QED BY Zenon, <1>1, <1>2, <1>6, <1>7, <1>8 DEF OrderInv

\* An answer is read and another is still awaited.
LEMMA ReadOrder ==
    ASSUME IInv, Reading, NEW w \in Ranks, reading' = [reading EXCEPT !.from = @ \union {w}],
           UNCHANGED <<config, monitor, calls, engine, futures, answers>>
    PROVE  /\ OrderInv' /\ Popped' = Popped /\ Reading' /\ reading'.call = reading.call
           /\ reading'.from = reading.from \union {w}
  <1>1. /\ reading'.call = reading.call /\ reading'.asks = reading.asks /\ Reading'
        /\ reading'.from = reading.from \union {w}
    BY DEF IInv, TypeInv, Reading
  <1>2. Popped' = Popped
    BY DEF Popped, Made
  <1>3. Sound(reading)' /\ \A i \in 1..Len(futures) : Sound(futures[i])'
    BY Zenon, <1>1, ReadingCall DEF Sound, Asks, Dropped, IInv, OrderInv
  <1>4. QED BY <1>1, <1>2, <1>3 DEF OrderInv, IInv

-----------------------------------------------------------------------------
(* The answers in the queues: those owed to the futures, in order.         *)

\* A step that reads no answer and makes none leaves the queues in order.
LEMMA QueueSame ==
    ASSUME IInv, UNCHANGED <<config, taken, pending, resp>>,
           Len(calls') \in Nat, Len(calls) <= Len(calls'),
           \A c \in 1..Len(calls) : calls'[c] = calls[c],
           NoFailure' /\ Awaited' =>
              /\ NoFailure /\ Awaited
              /\ \A w \in Ranks, c \in 1..Len(calls) :
                    w \in Asks(calls[c]) => (Unread(w, c)' <=> Unread(w, c))
              /\ \A w \in Ranks, c \in 1..Len(calls') : c > Len(calls) => Unread(w, c)'
    PROVE  QueueInv'
  <1>1. Len(calls) \in Nat /\ \A w \in Ranks : taken[w] \in Nat /\ taken[w] <= Len(calls)
    BY DEF IInv, TypeInv, QueueInv
  <1>2. \A w \in Ranks : taken'[w] <= Len(calls')
    BY <1>1
  <1>3. ASSUME NoFailure', Awaited', NEW w \in Ranks
        PROVE  /\ Ordered(Queue(w)', Owed(w)')
               /\ \A c \in 1..Len(calls') : w \in Asks(calls[c])' => Unread(w, c)' \/ c <= taken'[w]
    <2>1. /\ Ordered(Queue(w), Owed(w))
          /\ \A c \in 1..Len(calls) : w \in Asks(calls[c]) => Unread(w, c) \/ c <= taken[w]
      BY Zenon, <1>3 DEF IInv, QueueInv
    <2>2. Queue(w)' = Queue(w)
      BY DEF Queue
    <2>3. \A c \in 1..Len(calls) : Asks(calls[c])' = Asks(calls[c])
      BY DEF Asks
    <2>4. \A c \in 1..taken[w] : c \in 1..Len(calls)
      BY <1>1
    <2>5. Owed(w)' = Owed(w)
      BY <1>3, <2>3, <2>4 DEF Owed
    <2>6. ASSUME NEW c \in 1..Len(calls'), w \in Asks(calls[c])'
          PROVE Unread(w, c)' \/ c <= taken'[w]
      <3>1. CASE c \in 1..Len(calls)
        BY <1>3, <2>1, <2>3, <2>6, <3>1
      <3>2. CASE c > Len(calls)
        BY <1>3, <3>2
      <3>3. QED BY <1>1, <3>1, <3>2
    <2>7. QED BY <2>1, <2>2, <2>5, <2>6
  <1>4. QED BY <1>2, <1>3 DEF QueueInv, Ordered

\* The queues when the engine only moves on in its loop.
LEMMA QuietQueue ==
    ASSUME IInv, ~Reading,
           UNCHANGED <<config, calls, futures, reading, answers, monitor, taken, pending, resp>>,
           engine.pc \notin {"sent", "dead"}, engine'.pc # "sent",
           Dropped => engine'.pc \in {"loop", "wait", "dead"}
    PROVE  QueueInv'
  <1>1. Popped' = Popped /\ ~Reading'
    BY DEF Popped, Made, Reading
  <1>2. \A w, c : Unread(w, c)' <=> Unread(w, c)
    BY <1>1 DEF Unread
  <1>3. (NoFailure' => NoFailure) /\ (Awaited' => Awaited)
    BY <1>1 DEF NoFailure, Awaited, Dropped
  <1>4. Len(calls) \in Nat
    BY DEF IInv, TypeInv
  <1>5. QED BY <1>2, <1>3, <1>4, QueueSame

\* A new call is unread by every worker it asks.
LEMMA SendQueue ==
    ASSUME IInv, Send, UNCHANGED <<config, monitor, taken, pending, resp>>
    PROVE  QueueInv'
  <1>0. calls \in Seq(Kinds) /\ engine.kind \in Kinds /\ Len(calls) \in Nat
    BY DEF IInv, TypeInv
  <1>1. /\ Len(calls') = Len(calls) + 1 /\ \A c \in 1..Len(calls) : calls'[c] = calls[c]
    <2>1. calls' = Append(calls, engine.kind)
      BY DEF Send
    <2>2. QED BY <1>0, <2>1, AppendBasics
  <1>2. engine.pc = "put" /\ UNCHANGED <<futures, reading, answers>>
    BY DEF Send
  <1>3. ~Reading /\ ~Reading' /\ Popped' = Popped /\ Popped <= Len(calls)
    BY SendOrder
  <1>4. \A w, c : Unread(w, c)' <=> Unread(w, c)
    BY <1>3 DEF Unread
  <1>5. NoFailure' => NoFailure
    BY <1>0, <1>1, <1>2 DEF NoFailure
  <1>6. Awaited
    BY <1>2 DEF Awaited
  <1>7. Popped \in Int
    <2>1. Len(futures) \in Nat
      BY DEF IInv, TypeInv
    <2>2. QED BY <1>0, <2>1 DEF Popped, Made
  <1>8. \A w \in Ranks, c \in 1..Len(calls') : c > Len(calls) => Unread(w, c)'
    BY <1>0, <1>1, <1>3, <1>7 DEF Unread
  <1>9. QED BY <1>0, <1>1, <1>4, <1>5, <1>6, <1>8, QueueSame

\* Making a future leaves the answers under way as they are, ...
LEMMA CollectQueue ==
    ASSUME IInv, Collect, UNCHANGED <<config, monitor, taken, pending, resp>>
    PROVE  QueueInv'
  <1>0. Len(calls) \in Nat /\ engine.pc = "sent" /\ UNCHANGED <<calls, reading, answers>>
    BY DEF IInv, TypeInv, Collect
  <1>1. ~Reading /\ ~Reading' /\ (engine'.pc = "dead" \/ Popped' = Popped)
    BY CollectOrder
  <1>2. engine'.pc # "dead" => \A w, c : Unread(w, c)' <=> Unread(w, c)
    BY <1>1 DEF Unread
  <1>3. NoFailure' => NoFailure
    BY <1>0 DEF NoFailure
  <1>4. Awaited /\ (Awaited' => engine'.pc # "dead")
    BY <1>0 DEF Awaited
  <1>5. QED BY <1>0, <1>2, <1>3, <1>4, QueueSame

\* ... and so does taking the oldest one, whose answers have all to be read.
LEMMA DrainQueue ==
    ASSUME IInv, Drain, UNCHANGED <<config, monitor, taken, pending, resp>>
    PROVE  QueueInv'
  <1>0. Len(calls) \in Nat /\ engine.pc = "wait" /\ UNCHANGED <<calls, engine, answers>>
    BY DEF IInv, TypeInv, Drain
  <1>1. /\ Popped' = Popped + 1 /\ Reading' /\ reading'.call = Popped + 1
        /\ reading'.from = {} /\ ~Reading /\ futures # <<>>
    BY DrainOrder
  <1>2. Popped \in Nat
    BY DrainsOne
  <1>3. \A w \in Ranks, c \in 1..Len(calls) : Unread(w, c)' <=> Unread(w, c)
    BY <1>0, <1>1, <1>2 DEF Unread
  <1>4. NoFailure' => NoFailure
    BY <1>0 DEF NoFailure
  <1>5. Awaited
    BY <1>0, <1>1 DEF Awaited
  <1>6. QED BY <1>0, <1>3, <1>4, <1>5, QueueSame

\* After a failed call nothing is claimed of the answers.
LEMMA ErrorQueue ==
    ASSUME IInv, Reading, Complete("error"), UNCHANGED <<calls, taken>>
    PROVE  QueueInv'
  <1>1. /\ answers' = [answers EXCEPT ![reading.call] = "error"]
        /\ answers \in [1..MaxCalls -> {"none", "ok", "error"}]
    BY DEF Complete, IInv, TypeInv
  <1>2. reading.call \in 1..Len(calls) /\ reading.call \in 1..MaxCalls
    BY ReadingCall
  <1>3. ~NoFailure'
    <2>1. answers'[reading.call] = "error"
      BY <1>1, <1>2
    <2>2. QED BY <1>2, <2>1 DEF NoFailure
  <1>4. QED BY <1>3 DEF IInv, QueueInv

\* A call whose answers have all been read leaves nothing unread.
LEMMA ReadAllQueue ==
    ASSUME IInv, ReadAll, UNCHANGED <<config, monitor, taken, pending, resp>>
    PROVE  QueueInv'
  <1>0. /\ Len(calls) \in Nat /\ UNCHANGED <<calls, engine, futures>>
        /\ Reading /\ Left = {} /\ Complete("ok")
    BY DEF IInv, TypeInv, ReadAll
  <1>1. Popped' = Popped /\ ~Reading'
    BY <1>0, CompleteOrder
  <1>2. /\ engine.pc = "wait" /\ reading.call = Popped /\ Sound(reading) /\ Popped \in Nat
        /\ reading.call \in 1..Len(calls) /\ reading.call \in 1..MaxCalls
        /\ answers[reading.call] = "none"
    BY <1>0, ReadingCall
  <1>3. NoFailure' => NoFailure
    <2>1. /\ answers' = [answers EXCEPT ![reading.call] = "ok"]
          /\ answers \in [1..MaxCalls -> {"none", "ok", "error"}]
      BY <1>0 DEF Complete, IInv, TypeInv
    <2>2. \A c : c # reading.call => answers'[c] = answers[c]
      BY <2>1
    <2>3. QED BY <1>0, <1>2, <2>2 DEF NoFailure
  <1>4. Awaited
    BY <1>0, <1>2 DEF Awaited
  <1>5. CASE reading.asks = Asks(calls[reading.call])
    <2>1. \A w \in Ranks, c \in 1..Len(calls) :
             w \in Asks(calls[c]) => (Unread(w, c)' <=> Unread(w, c))
      BY <1>0, <1>1, <1>2, <1>5 DEF Unread, Left
    <2>2. QED BY <1>0, <1>3, <1>4, <2>1, QueueSame
  <1>6. CASE reading.asks # Asks(calls[reading.call])
    <2>1. Dropped /\ reading.call = Len(calls)
      BY <1>2, <1>6 DEF Sound
    <2>2. Len(futures) = 0
      <3>1. Len(futures) \in Nat
        BY DEF IInv, TypeInv
      <3>2. Popped = Len(calls) - Len(futures)
        BY <1>2 DEF Popped, Made
      <3>3. Len(calls) = Len(calls) - Len(futures) /\ Len(calls) \in Nat
        BY Zenon, <1>0, <1>2, <2>1, <3>2
      <3>4. QED BY <3>1, <3>3
    <2>3. futures = <<>>
      BY <2>2 DEF IInv, TypeInv
    <2>4. ~Awaited'
      BY <1>0, <1>1, <1>2, <2>1, <2>3 DEF Awaited, Dropped
    <2>5. \A w \in Ranks : taken'[w] <= Len(calls')
      BY <1>0 DEF IInv, QueueInv
    <2>6. QED BY <2>4, <2>5 DEF QueueInv
  <1>7. QED BY <1>5, <1>6

\* The answer at the head of the queue that is read is to the call it is read for.
LEMMA HeadIsOwn ==
    ASSUME IInv, NoFailure, Reading, Left # {}, resp[Due] # <<>>
    PROVE  /\ Head(resp[Due]).call = reading.call /\ reading.call \in Owed(Due)
           /\ Due \in Ranks /\ Due \notin reading.from
           /\ Ordered(Queue(Due), Owed(Due)) /\ Owed(Due) \in SUBSET Nat
           /\ Head(Queue(Due)) = Head(resp[Due]) /\ Queue(Due) # <<>>
           /\ Tail(resp[Due]) \o pending[Due] = Tail(Queue(Due))
  <1>1. Due \in Left /\ Due \in Ranks
    BY DueLeft DEF IInv
  <1>2. /\ engine.pc = "wait" /\ reading.call = Popped /\ Sound(reading) /\ Popped \in Nat
        /\ reading.call \in 1..Len(calls)
    BY ReadingCall
  <1>3. reading.asks = Asks(calls[reading.call])
    BY <1>1, <1>2 DEF Sound, Left
  <1>4. Due \in Asks(calls[reading.call]) /\ Due \notin reading.from
    BY <1>1, <1>3 DEF Left
  <1>5. Ordered(Queue(Due), Owed(Due))
    <2>1. Awaited
      BY <1>2 DEF Awaited
    <2>2. QED BY <1>1, <2>1 DEF IInv, QueueInv
  <1>6. /\ Head(Queue(Due)) = Head(resp[Due]) /\ Queue(Due) # <<>>
        /\ Tail(resp[Due]) \o pending[Due] = Tail(Queue(Due))
    <2>1. resp[Due] \in Seq(Answer) /\ pending[Due] \in Seq(Answer)
      BY <1>1 DEF IInv, TypeInv
    <2>2. QED BY Zenon, <2>1, QueueRead DEF Queue
  <1>7. Owed(Due) \in SUBSET Nat /\ taken[Due] \in Nat
    BY <1>1 DEF Owed, IInv, TypeInv
  <1> DEFINE h == Head(Queue(Due)).call
  <1>8. h \in Owed(Due) /\ \A c \in Owed(Due) : h <= c
    BY Zenon, <1>5, <1>6, <1>7, OrderedTail
  <1> HIDE DEF h
  <1>9. h \in 1..taken[Due] /\ Unread(Due, h)
    BY <1>8 DEF Owed
  <1>10. h >= Popped
    BY <1>2, <1>7, <1>9 DEF Unread
  <1>11. Popped \in 1..taken[Due]
    BY <1>2, <1>7, <1>9, <1>10
  <1>12. Popped \in Owed(Due)
    BY <1>2, <1>4, <1>11 DEF Owed, Unread
  <1>13. h = Popped
    <2>1. h <= Popped
      BY <1>8, <1>12
    <2>2. h \in Nat
      BY <1>7, <1>8
    <2>3. QED BY <1>2, <1>10, <2>1, <2>2
  <1>14. QED BY Zenon, <1>1, <1>2, <1>4, <1>5, <1>6, <1>7, <1>12, <1>13 DEF h

\* Reading an answer takes the one to this call away from those under way.
LEMMA ReadAnswerInv ==
    ASSUME IInv, TypeInv', ReadAnswer, UNCHANGED <<config, monitor, taken, pending>>
    PROVE  OrderInv' /\ QueueInv'
  <1>0. /\ UNCHANGED <<calls, engine, futures>> /\ Reading /\ Left # {} /\ resp[Due] # <<>>
        /\ resp' = [resp EXCEPT ![Due] = Tail(resp[Due])]
        /\ \/ Complete("error")
           \/ reading' = [reading EXCEPT !.from = @ \union {Due}] /\ UNCHANGED answers
    BY DEF ReadAnswer
  <1>1. Due \in Ranks
    BY <1>0, DueLeft DEF IInv
  <1>2. CASE Complete("error")
    BY <1>0, <1>2, CompleteOrder, ErrorQueue
  <1>3. CASE reading' = [reading EXCEPT !.from = @ \union {Due}] /\ UNCHANGED answers
    <2>1. /\ OrderInv' /\ Popped' = Popped /\ Reading' /\ reading'.call = reading.call
          /\ reading'.from = reading.from \union {Due}
      BY <1>0, <1>1, <1>3, ReadOrder
    <2>2. ASSUME NoFailure', NEW w \in Ranks
          PROVE  /\ Ordered(Queue(w)', Owed(w)')
                 /\ \A c \in 1..Len(calls) : w \in Asks(calls[c]) => Unread(w, c)' \/ c <= taken[w]
      <3>1. NoFailure
        BY <1>0, <1>3, <2>2 DEF NoFailure
      <3>2. Awaited
        BY <1>0, ReadingCall DEF Awaited
      <3>3. /\ Ordered(Queue(w), Owed(w))
            /\ \A c \in 1..Len(calls) : w \in Asks(calls[c]) => Unread(w, c) \/ c <= taken[w]
        BY <3>1, <3>2 DEF IInv, QueueInv
      <3>4. \A c : Asks(calls[c])' = Asks(calls[c])
        BY <1>0 DEF Asks
      <3>5. CASE w # Due
        <4>1. \A c : Unread(w, c)' <=> Unread(w, c)
          BY <1>0, <2>1, <3>5 DEF Unread
        <4>2. Owed(w)' = Owed(w)
          BY <1>0, <3>4, <4>1 DEF Owed
        <4>3. Queue(w)' = Queue(w)
          <5>1. resp'[w] = resp[w]
            BY <1>0, <3>5 DEF IInv, TypeInv
          <5>2. QED BY <5>1 DEF Queue
        <4>4. QED BY <3>3, <4>1, <4>2, <4>3
      <3>6. CASE w = Due
        <4>1. /\ Head(resp[w]).call = reading.call /\ reading.call \in Owed(w)
              /\ Ordered(Queue(w), Owed(w)) /\ Owed(w) \in SUBSET Nat
              /\ Head(Queue(w)) = Head(resp[w]) /\ Queue(w) # <<>>
              /\ Tail(resp[w]) \o pending[w] = Tail(Queue(w))
          BY Zenon, <1>0, <3>1, <3>6, HeadIsOwn
        <4>2. reading.call = Popped /\ Popped \in Nat
          BY <1>0, ReadingCall
        <4>3. \A c : Unread(w, c)' <=> c > Popped
          BY <2>1, <3>6 DEF Unread
        <4>4. \A c \in Nat : Unread(w, c) => c > Popped \/ c = Popped
          BY <4>2 DEF Unread
        <4>5. \A c \in Nat : c > Popped => Unread(w, c) /\ c # Popped
          BY <4>2 DEF Unread
        <4>6. Owed(w)' = Owed(w) \ {reading.call}
          <5>1. \A c \in 1..taken[w] : c \in Nat
            OBVIOUS
          <5>2. Owed(w)' = {c \in 1..taken[w] : w \in Asks(calls[c]) /\ c > Popped}
            BY <1>0, <3>4, <4>3 DEF Owed
          <5>3. QED BY <4>2, <4>4, <4>5, <5>1, <5>2 DEF Owed
        <4>7. Queue(w)' = Tail(Queue(w))
          <5>1. resp'[w] = Tail(resp[w])
            BY <1>0, <1>1, <3>6 DEF IInv, TypeInv
          <5>2. QED BY Zenon, <4>1, <5>1 DEF Queue
        <4>8. Ordered(Tail(Queue(w)), Owed(w) \ {Head(Queue(w)).call})
          BY <4>1, OrderedTail
        <4>9. reading.call <= taken[w]
          BY <4>1 DEF Owed
        <4>10. ASSUME NEW c \in 1..Len(calls), w \in Asks(calls[c]) PROVE Unread(w, c)' \/ c <= taken[w]
          <5>1. Unread(w, c) \/ c <= taken[w]
            BY <3>3, <4>10
          <5>2. QED BY <4>2, <4>3, <4>4, <4>9, <5>1
        <4>11. QED BY Zenon, <4>1, <4>6, <4>7, <4>8, <4>10
      <3>7. QED BY <3>5, <3>6
    <2>3. \A c : Asks(calls[c])' = Asks(calls[c])
      BY <1>0 DEF Asks
    <2>4. \A w \in Ranks : taken'[w] <= Len(calls')
      BY <1>0 DEF IInv, QueueInv
    <2>5. QED BY <1>0, <2>1, <2>2, <2>3, <2>4 DEF QueueInv, Ordered
  <1>4. QED BY <1>0, <1>2, <1>3

-----------------------------------------------------------------------------
(* The invariant and the theorems.                                         *)

\* A worker runs the next call.
LEMMA WorkQueue ==
    ASSUME IInv, NEW v \in Ranks, Work(v), UNCHANGED <<config, engineVars>>
    PROVE  QueueInv'
  <1>0. UNCHANGED <<calls, engine, futures, reading, answers, resp, monitor>>
    BY DEF Work, engineVars
  <1>1. /\ taken[v] \in Nat /\ taken[v] < Len(calls) /\ taken' = [taken EXCEPT ![v] = taken[v] + 1]
        /\ taken \in [Ranks -> Nat] /\ Len(calls) \in Nat
    BY DEF Work, IInv, TypeInv
  <1>2. taken'[v] = taken[v] + 1 /\ \A w \in Ranks : w # v => taken'[w] = taken[w]
    BY <1>1
  <1>3. \A w \in Ranks : taken'[w] <= Len(calls')
    BY <1>0, <1>1, <1>2 DEF IInv, QueueInv
  <1> DEFINE n == taken[v] + 1
  <1>4. \/ v \notin Asks(calls[n]) /\ UNCHANGED pending
        \/ \E ok \in BOOLEAN :
              /\ v \in Asks(calls[n])
              /\ pending' = [pending EXCEPT ![v] = Append(pending[v], [call |-> n, ok |-> ok])]
    BY Zenon, <1>2 DEF Work
  <1>5. (NoFailure' => NoFailure) /\ (Awaited' => Awaited)
    BY <1>0 DEF NoFailure, Awaited, Reading, Dropped
  <1>6. \A w, c : (Unread(w, c)' <=> Unread(w, c)) /\ Asks(calls[c])' = Asks(calls[c])
    BY <1>0 DEF Unread, Popped, Made, Reading, Asks
  <1>7. ASSUME NoFailure', Awaited', NEW w \in Ranks
        PROVE  /\ Ordered(Queue(w)', Owed(w)')
               /\ \A c \in 1..Len(calls) : w \in Asks(calls[c]) => Unread(w, c) \/ c <= taken'[w]
    <2>1. /\ Ordered(Queue(w), Owed(w))
          /\ \A c \in 1..Len(calls) : w \in Asks(calls[c]) => Unread(w, c) \/ c <= taken[w]
      BY <1>5, <1>7 DEF IInv, QueueInv
    <2>2. CASE w # v
      <3>1. pending'[w] = pending[w] /\ taken'[w] = taken[w]
        BY Zenon, <1>2, <1>4, <2>2 DEF IInv, TypeInv
      <3>2. Queue(w)' = Queue(w) /\ Owed(w)' = Owed(w)
        BY <1>0, <1>6, <3>1 DEF Queue, Owed
      <3>3. QED BY <2>1, <3>1, <3>2
    <2>3. CASE w = v
      <3>1. Owed(v)' = {c \in 1..n : v \in Asks(calls[c]) /\ Unread(v, c)}
        <4>1. 1..taken'[v] = 1..n
          BY <1>2
        <4>2. Owed(v)' = {c \in 1..taken'[v] : v \in Asks(calls[c])' /\ Unread(v, c)'}
          BY Zenon DEF Owed
        <4> HIDE DEF n
        <4>3. QED BY Zenon, <1>6, <4>1, <4>2
      <3>2. \A c \in 1..n : c \in 1..taken[v] \/ c = n
        BY <1>1
      <3>3. \A c \in 1..taken[v] : c \in 1..n /\ c < n /\ c \in Nat
        BY <1>1
      <3>4. n \in 1..n /\ n \in 1..Len(calls) /\ n \in Nat /\ ~(n <= taken[v])
        BY <1>1
      <3>5. \A c \in 1..Len(calls) : v \in Asks(calls[c]) => Unread(v, c) \/ c <= taken'[v]
        BY <1>1, <1>2, <2>1, <2>3
      <3>6. CASE v \notin Asks(calls[n]) /\ UNCHANGED pending
        <4> HIDE DEF n
        <4>1. Owed(v)' = Owed(v)
          BY <3>1, <3>2, <3>3, <3>6 DEF Owed
        <4>2. Queue(v)' = Queue(v)
          BY <1>0, <3>6 DEF Queue
        <4>3. QED BY <2>1, <2>3, <3>5, <4>1, <4>2
      <3>7. ASSUME NEW ok \in BOOLEAN, v \in Asks(calls[n]),
                   pending' = [pending EXCEPT ![v] = Append(pending[v], [call |-> n, ok |-> ok])]
            PROVE  Ordered(Queue(v)', Owed(v)')
        <4> DEFINE m == [call |-> n, ok |-> ok]
        <4>1. m \in Answer /\ m.call = n
          BY <3>4 DEF Answer
        <4>2. pending'[v] = Append(pending[v], m) /\ resp[v] \in Seq(Answer) /\ pending[v] \in Seq(Answer)
          BY <3>7 DEF IInv, TypeInv
        <4> HIDE DEF m
        <4>3. Queue(v)' = Append(Queue(v), m)
          <5>1. resp[v] \o Append(pending[v], m) = Append(resp[v] \o pending[v], m)
            BY Zenon, <4>1, <4>2, QueueAdd
          <5>2. QED BY <1>0, <4>2, <5>1 DEF Queue
        <4>4. Unread(v, n)
          BY <2>1, <2>3, <3>4, <3>7
        <4> HIDE DEF n
        <4>5. Owed(v)' = Owed(v) \union {n}
          BY <3>1, <3>2, <3>3, <3>4, <3>7, <4>4 DEF Owed
        <4>6. Owed(v) \in SUBSET Nat /\ \A c \in Owed(v) : c < m.call
          BY <3>3, <4>1 DEF Owed
        <4>7. Ordered(Append(Queue(v), m), Owed(v) \union {m.call})
          BY <2>1, <2>3, <4>1, <4>6, OrderedAppend
        <4>8. QED BY <4>1, <4>3, <4>5, <4>7
      <3>8. QED BY Zenon, <1>4, <2>3, <3>5, <3>6, <3>7
    <2>4. QED BY <2>2, <2>3
  <1> HIDE DEF n
  <1>8. QED
    <2>1. ASSUME NoFailure', Awaited', NEW w \in Ranks
          PROVE  /\ Ordered(Queue(w), Owed(w))'
                 /\ \A c \in 1..Len(calls') : w \in Asks(calls[c])' => Unread(w, c)' \/ c <= taken'[w]
      BY Zenon, <1>0, <1>6, <1>7, <2>1
    <2>2. QED BY Zenon, <1>3, <2>1 DEF QueueInv

\* A worker puts an answer in its response queue.
LEMMA ReplyQueue ==
    ASSUME IInv, NEW v \in Ranks, Reply(v), UNCHANGED <<config, engineVars>>
    PROVE  QueueInv'
  <1>0. UNCHANGED <<calls, engine, futures, reading, answers, taken, monitor>>
    BY DEF Reply, engineVars
  <1>1. /\ resp' = [resp EXCEPT ![v] = Append(resp[v], Head(pending[v]))]
        /\ pending' = [pending EXCEPT ![v] = Tail(pending[v])]
        /\ pending[v] # <<>> /\ resp[v] \in Seq(Answer) /\ pending[v] \in Seq(Answer)
        /\ resp \in [Ranks -> Seq(Answer)] /\ pending \in [Ranks -> Seq(Answer)]
    BY DEF Reply, IInv, TypeInv
  <1>2. ASSUME NEW w \in Ranks PROVE Queue(w)' = Queue(w)
    <2>1. CASE w = v
      <3>1. resp'[w] = Append(resp[v], Head(pending[v])) /\ pending'[w] = Tail(pending[v])
        BY <1>1, <2>1
      <3>2. QED BY <1>1, <2>1, <3>1, QueueMove DEF Queue
    <2>2. CASE w # v
      <3>1. resp'[w] = resp[w] /\ pending'[w] = pending[w]
        BY <1>1, <2>2
      <3>2. QED BY <3>1 DEF Queue
    <2>3. QED BY <2>1, <2>2
  <1>3. (NoFailure' => NoFailure) /\ (Awaited' => Awaited)
    BY <1>0 DEF NoFailure, Awaited, Reading, Dropped
  <1>4. \A w, c : (Unread(w, c)' <=> Unread(w, c)) /\ Asks(calls[c])' = Asks(calls[c])
    BY <1>0 DEF Unread, Popped, Made, Reading, Asks
  <1>5. \A w : Owed(w)' = Owed(w)
    BY <1>0, <1>4 DEF Owed
  <1>6. ASSUME NoFailure', Awaited', NEW w \in Ranks
        PROVE  /\ Ordered(Queue(w)', Owed(w)')
               /\ \A c \in 1..Len(calls) : w \in Asks(calls[c]) => Unread(w, c) \/ c <= taken[w]
    BY <1>2, <1>3, <1>5, <1>6 DEF IInv, QueueInv
  <1>7. \A w \in Ranks : taken'[w] <= Len(calls')
    BY <1>0 DEF IInv, QueueInv
  <1>8. QED
    <2>1. ASSUME NoFailure', Awaited', NEW w \in Ranks
          PROVE  /\ Ordered(Queue(w), Owed(w))'
                 /\ \A c \in 1..Len(calls') : w \in Asks(calls[c])' => Unread(w, c)' \/ c <= taken'[w]
      BY Zenon, <1>0, <1>4, <1>6, <2>1
    <2>2. QED BY Zenon, <1>7, <2>1 DEF QueueInv

\* A worker dies, or the monitor moves on.
LEMMA OthersQueue ==
    ASSUME IInv, UNCHANGED <<config, engineVars, taken, pending, resp>>, Dropped => Dropped'
    PROVE  QueueInv'
  <1>0. UNCHANGED <<calls, engine, futures, reading, answers>> /\ Len(calls) \in Nat
    BY DEF engineVars, IInv, TypeInv
  <1>1. (NoFailure' => NoFailure) /\ (Awaited' => Awaited)
    BY <1>0 DEF NoFailure, Awaited, Reading
  <1>2. \A w, c : (Unread(w, c)' <=> Unread(w, c))
    BY <1>0 DEF Unread, Popped, Made, Reading
  <1>3. QED BY <1>0, <1>1, <1>2, QueueSame

\* Every step keeps the futures and the answers in order.
LEMMA StepOrder ==
    ASSUME IInv, TypeInv', [Next]_vars PROVE OrderInv' /\ QueueInv'
  <1>0. engine \in EngineType
    BY DEF IInv, TypeInv, EngineType
  <1>1. CASE UNCHANGED vars
    <2>1. UNCHANGED <<config, engineVars, taken, pending, resp, monitor>>
      BY <1>1 DEF vars, engineVars, workerVars
    <2>2. Dropped => Dropped'
      BY <2>1 DEF Dropped
    <2>3. QED BY <2>1, <2>2, WorkerOrder, OthersQueue
  <1>2. CASE /\ UNCHANGED <<config, workerVars, monitor>> /\ EngineNext
    <2>0. UNCHANGED <<config, monitor, taken, pending>>
      BY <1>2 DEF workerVars
    <2>1. CASE (StartBatch \/ StartUtility \/ AwaitBatch \/ LookUp \/ Return \/ ExecutorFailed) /\ UNCHANGED resp
      <3>1. UNCHANGED <<calls, futures, reading, answers>>
        BY <2>1 DEF StartBatch, StartUtility, AwaitBatch, LookUp, Return, ExecutorFailed
      <3>2. engine.pc \notin {"sent", "dead"}
        BY <2>1 DEF StartBatch, StartUtility, AwaitBatch, LookUp, Return, ExecutorFailed
      <3>3. ~Reading
        <4>1. CASE engine.pc # "wait"
          BY <4>1 DEF IInv, OrderInv
        <4>2. CASE engine.pc = "wait"
          <5>1. Return
            BY <2>1, <4>2 DEF StartBatch, StartUtility, AwaitBatch, LookUp, ExecutorFailed
          <5>2. QED BY <5>1 DEF Return, IInv, OrderInv
        <4>3. QED BY <4>1, <4>2
      <3>4. engine'.pc # "sent" /\ (Dropped => engine'.pc \in {"loop", "wait", "dead"})
        <4>1. \/ \E k \in Kinds : Enter(k) \/ Raise(k)
              \/ \E b : engine' = [engine EXCEPT !.pc = "wait", !.target = b]
              \/ engine' = [engine EXCEPT !.pc = "put"] /\ ~Dropped
              \/ engine' = [engine EXCEPT !.pc = "dead"]
              \/ engine' = [engine EXCEPT !.pc = "loop"]
          <5>1. CASE StartBatch
            BY Zenon, <5>1 DEF StartBatch, Kinds
          <5>2. CASE StartUtility
            BY Zenon, <5>2 DEF StartUtility, Kinds
          <5>3. CASE AwaitBatch
            BY Zenon, <5>3 DEF AwaitBatch, BlockOn
          <5>4. CASE LookUp
            BY Zenon, <1>0, <5>4 DEF LookUp, EngineType
          <5>5. CASE Return
            <6>1. engine.target \in 1..Len(calls) /\ calls \in Seq(Kinds)
              BY <5>5 DEF Return, IInv, EngineInv, TypeInv
            <6>2. calls[engine.target] \in Kinds
              BY <6>1
            <6>3. \/ Raise(calls[engine.target]) \/ Enter("draft") \/ Enter("sample")
                  \/ engine' = [engine EXCEPT !.pc = "loop"]
              BY <5>5 DEF Return
            <6>4. QED BY Zenon, <6>2, <6>3 DEF Kinds
          <5>6. CASE ExecutorFailed
            BY <5>6 DEF ExecutorFailed
          <5>7. QED BY Zenon, <2>1, <5>1, <5>2, <5>3, <5>4, <5>5, <5>6
        <4>2. ASSUME NEW k \in Kinds, Enter(k) \/ Raise(k)
              PROVE  engine'.pc # "sent" /\ (Dropped => engine'.pc \in {"loop", "wait", "dead"})
          BY <1>0, <4>2, EnterType, RaiseType DEF Dropped
        <4>3. CASE ~\E k \in Kinds : Enter(k) \/ Raise(k)
          BY Zenon, <1>0, <4>1, <4>3 DEF EngineType
        <4>4. QED BY <4>2, <4>3
      <3>5. QED BY <2>0, <2>1, <3>1, <3>2, <3>3, <3>4, QuietOrder, QuietQueue
    <2>2. CASE Send /\ UNCHANGED resp
      BY <2>0, <2>2, SendOrder, SendQueue
    <2>3. CASE Collect /\ UNCHANGED resp
      BY <2>0, <2>3, CollectOrder, CollectQueue
    <2>4. CASE Drain /\ UNCHANGED resp
      BY <2>0, <2>4, DrainOrder, DrainQueue
    <2>5. CASE ReadAll /\ UNCHANGED resp
      <3>1. Reading /\ Complete("ok") /\ UNCHANGED <<calls, engine, futures>>
        BY <2>5 DEF ReadAll
      <3>2. QED BY <2>0, <2>5, <3>1, CompleteOrder, ReadAllQueue
    <2>6. CASE ReadCancelled \/ ReadTimeout
      <3>1. Reading /\ Complete("error") /\ UNCHANGED <<calls, engine, futures>>
        BY <2>6 DEF ReadCancelled, ReadTimeout
      <3>2. QED BY <2>0, <3>1, CompleteOrder, ErrorQueue
    <2>7. CASE ReadAnswer
      BY <2>0, <2>7, ReadAnswerInv
    <2>8. QED BY <1>2, <2>1, <2>2, <2>3, <2>4, <2>5, <2>6, <2>7 DEF EngineNext, EngineStep
  <1>3. CASE /\ UNCHANGED <<config, engineVars>>
             /\ \E w \in Ranks : Work(w) \/ Reply(w) \/ Die(w)
    <2>1. PICK w \in Ranks : Work(w) \/ Reply(w) \/ Die(w)
      BY <1>3
    <2>2. Dropped => Dropped'
      BY <2>1 DEF Work, Reply, Die, Dropped
    <2>3. OrderInv'
      BY <1>3, <2>2, WorkerOrder
    <2>4. CASE Die(w)
      <3>1. UNCHANGED <<taken, pending, resp>>
        BY <2>4 DEF Die
      <3>2. QED BY <1>3, <2>2, <2>3, <3>1, OthersQueue
    <2>5. QED BY <1>3, <2>1, <2>3, <2>4, WorkQueue, ReplyQueue
  <1>4. CASE UNCHANGED <<config, engineVars>> /\ Monitor
    <2>1. UNCHANGED <<taken, pending, resp>> /\ (Dropped => Dropped')
      BY <1>4 DEF Monitor, Dropped
    <2>2. QED BY <1>4, <2>1, WorkerOrder, OthersQueue
  <1>5. QED BY <1>1, <1>2, <1>3, <1>4 DEF Next

\* The invariant holds when the executor has been made.
LEMMA InitInv == ASSUME Init PROVE IInv
  <1>1. /\ config \in Configs /\ calls = <<>> /\ futures = <<>> /\ batches = <<>> /\ reading = Nothing
        /\ engine.pc = "loop" /\ ~engine.deferred /\ engine \in EngineType
        /\ answers = [c \in 1..MaxCalls |-> "none"]
        /\ taken = [w \in Ranks |-> 0]
        /\ pending = [w \in Ranks |-> <<>>] /\ resp = [w \in Ranks |-> <<>>]
        /\ monitor = "watch"
    BY DEF Init, EngineType, Kinds
  <1>2. TypeInv
    <2>1. \A w \in Ranks : pending[w] \in Seq(Answer) /\ resp[w] \in Seq(Answer)
      BY <1>1
    <2>2. reading \in [call : Nat, asks : SUBSET Ranks, from : SUBSET Ranks]
      BY <1>1 DEF Nothing
    <2>3. QED BY <1>1, <2>1, <2>2 DEF TypeInv, EngineType
  <1>3. Len(calls) = 0 /\ Len(futures) = 0 /\ Len(batches) = 0
    BY <1>1
  <1>4. EngineInv
    BY <1>1, <1>3, ConfigsAssumption DEF EngineInv, Room
  <1>5. ~Reading /\ Popped = 0
    BY <1>1, <1>3 DEF Reading, Nothing, Popped, Made
  <1>6. OrderInv
    BY <1>1, <1>3, <1>5, ConfigsAssumption DEF OrderInv
  <1>7. QueueInv
    <2>1. ASSUME NEW w \in Ranks PROVE Ordered(Queue(w), Owed(w))
      <3>1. Queue(w) = <<>>
        BY <1>1 DEF Queue
      <3>2. Owed(w) = {}
        <4>1. taken[w] = 0
          BY <1>1
        <4>2. QED BY <4>1 DEF Owed
      <3>3. QED BY <3>1, <3>2, OrderedEmpty
    <2>2. QED BY <1>1, <1>3, <2>1 DEF QueueInv
  <1>8. QED BY <1>2, <1>4, <1>6, <1>7 DEF IInv

\* The types, the place of the engine in a batch's calls, the order of the
\* futures and the order of the answers under way hold in every state
\* (MultiprocExecutor.collective_rpc, FutureWrapper, worker_busy_loop).
THEOREM Inductive == Spec => []IInv
  <1>1. Init => IInv
    BY InitInv
  <1>2. IInv /\ [Next]_vars => IInv'
    <2>1. SUFFICES ASSUME IInv, [Next]_vars PROVE IInv'
      OBVIOUS
    <2>2. TypeInv'
      BY <2>1, StepType
    <2>3. QED BY <2>1, <2>2, StepEngine, StepOrder DEF IInv
  <1>3. QED BY <1>1, <1>2, PTL DEF Spec

\* Whatever a future reads is an answer to its own call, as long as no call has
\* failed (FutureWrapper.result, get_response).
THEOREM OwnAnswersHold == Spec => []OwnAnswersUntilFailure
  <1>1. IInv => OwnAnswersUntilFailure
    BY Zenon, HeadIsOwn DEF OwnAnswersUntilFailure, Fresh, NoFailure
  <1>2. QED BY <1>1, Inductive, PTL
===============================================================================
