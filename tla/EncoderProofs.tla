----------------------------- MODULE EncoderProofs -----------------------------
(****************************************************************************)
(* The encoder cache manager's counters are exact, its references are       *)
(* returned, and the worker's cache follows it, for any requests, inputs,   *)
(* cache size and configuration.  The properties are inductive only         *)
(* together and only with what holds inside a step: what is evicted and not *)
(* yet sent, what the batch will compute, and what the request that is      *)
(* tried holds already.  The calls of the manager come first, one lemma     *)
(* each; then the loop over the inputs of a request; then one lemma per     *)
(* action.                                                                  *)
(****************************************************************************)
EXTENDS EncoderScheduling, FiniteSetTheorems, TLAPS

--------------------------------------------------------------------------------
\* The invariant.

\* The functions that cached can be.
Entries == UNION {[H -> SUBSET Requests] : H \in SUBSET Hashes}

\* The records that the manager can be.
Manager == [free : Int, reclaimable : Int, cached : Entries,
            ids : [Requests -> SUBSET Nat], freeable : Seq(Hashes), freed : SUBSET Hashes]

\* The entries without references, those with references, and those that r
\* refers to.
Unused(a) == {h \in DOMAIN a.cached : a.cached[h] = {}}
Used(a) == {h \in DOMAIN a.cached : a.cached[h] # {}}
Held(a, r) == {h \in DOMAIN a.cached : r \in a.cached[h]}

\* The manager's own invariant: the counters agree with the entries, the
\* freeable list holds each entry without references once, and a request
\* refers to entries of its own inputs only (request_cached_ids).
CacheOK(a) ==
    /\ a \in Manager /\ IsFiniteSet(DOMAIN a.cached)
    /\ IsInjective(a.freeable) /\ Range(a.freeable) = Unused(a)
    /\ a.free = CacheSize - Embeds(DOMAIN a.cached) /\ a.free >= 0
    /\ a.reclaimable = CacheSize - Embeds(Used(a))
    /\ \A r \in Requests : /\ a.ids[r] \subseteq DOMAIN Features[r]
                           /\ Held(a, r) \subseteq HashesOf(r, a.ids[r])

\* Inputs to compute: different entries, which are not cached and fit.
Distinct(r, I) == \A i, j \in I : HashOf(r, i) = HashOf(r, j) => i = j
Sized(r, I) == I \subseteq DOMAIN Features[r] /\ Distinct(r, I)
Fit(a, r, I) == /\ I \subseteq DOMAIN Features[r] /\ Distinct(r, I)
                /\ HashesOf(r, I) \cap DOMAIN a.cached = {}
                /\ Embeds(HashesOf(r, I)) <= a.free

\* What a batch has of a request, a trial, and the local state of schedule().
Item == [req : Requests, start : Int, n : Int, inputs : SUBSET Nat]
TrialType == [req : Requests, start : Int, n : Int, inputs : SUBSET Nat, compute : Int]
StepType == [at : {"idle", "running", "waiting", "output"}, index : Int, tokens : Int,
             compute : Int, batch : Seq(Item), preempted : BOOLEAN,
             trial : TrialType \cup {NoTrial}]

\* The types of the other variables.
TypesOK ==
    /\ config \in Configs
    /\ status \in [Requests -> {"new", "waiting", "running", "finished"}]
    /\ computed \in [Requests -> Int]
    /\ running \in Seq(Requests) /\ waiting \in Seq(Requests)
    /\ step \in StepType
    /\ queue \in Seq([batch : Seq(Item), freed : SUBSET Hashes, reset : BOOLEAN])
    /\ outputs \in Seq(Seq(Item))

\* The queues agree with the status, and no request runs twice.
ListsOK ==
    /\ IsInjective(running)
    /\ \A r \in Range(running) : status[r] = "running"
    /\ \A r \in Range(waiting) : status[r] = "waiting"

\* allocate_slots is tried for r.
Trying(r) == step.trial # NoTrial /\ step.trial.req = r

\* The local state of schedule(): the inputs of a trial still fit, also after
\* a preemption, and a batch is of running requests.
StepOK ==
    /\ step.at = "idle" => step = Idle /\ m.freed = {}
    /\ step.trial # NoTrial =>
         /\ Fit(m, step.trial.req, step.trial.inputs)
         /\ \/ step.at = "running" /\ step.trial.req \in Range(running)
            \/ step.at = "waiting" /\ step.trial.req \in Range(waiting)
    /\ \A x \in Range(step.batch) : x.req \in Range(running) /\ Sized(x.req, x.inputs)
    /\ step.at = "running" => Len(step.batch) < step.index

\* Only a running request, or the one that is tried, refers to inputs.
RefsOK == \A r \in Requests : status[r] # "running" /\ ~Trying(r) => m.ids[r] = {}

\* Without priorities, the requests of a batch stand before the one that is
\* tried, so that the request preempted last in the queue is none of them.
OrderOK ==
    step.at = "running" =>
        /\ \A x \in Range(step.batch) : \E k \in 1..Len(running) :
              k < step.index /\ running[k] = x.req
        /\ step.trial # NoTrial =>
              step.index \in 1..Len(running) /\ running[step.index] = step.trial.req

\* What the worker's cache holds after the first n batches of q, from the
\* cache w.
Sent(n, q, w) ==
    {h \in Hashes : \E k \in 0..n :
        /\ IF k = 0 THEN h \in w ELSE h \in Computes(q[k])
        /\ \A j \in (k + 1)..n : h \notin q[j].freed}

\* During a step too, the manager's entries are what the worker will hold
\* after what was sent, without what was evicted since, and with what the
\* batch computes.
AgreeOK ==
    /\ DOMAIN m.cached = (Sent(Len(queue), queue, worker) \ m.freed) \cup Computes(step)
    /\ \A x \in Range(step.batch) : HashesOf(x.req, x.inputs) \subseteq Held(m, x.req)

\* The outputs that an item of a batch reads without a drafter.
Reads(r, j, start, n) == ~NoEmbeds(Features[r][j], start, start + n)
Needs(x) == HashesOf(x.req, {i \in DOMAIN Features[x.req] : Reads(x.req, i, x.start, x.n)})

\* What a batch reads is held by its request, or computed with it; once it is
\* sent, the worker has it when the batch comes to its turn.
HitOK ==
    /\ \A x \in Range(step.batch) : Needs(x) \subseteq Held(m, x.req)
    /\ step.trial # NoTrial =>
         Needs(step.trial) \subseteq
            Held(m, step.trial.req) \cup HashesOf(step.trial.req, step.trial.inputs)
    /\ \A k \in 1..Len(queue) : \A x \in Range(queue[k].batch) :
         Needs(x) \subseteq Sent(k, queue, worker)

\* The inductive invariant.  The references and the hits need the schedule
\* without a drafter, the agreement needs the schedule without priorities.
IInv == /\ TypesOK /\ CacheOK(m) /\ ListsOK /\ StepOK
        /\ config.shift = 0 => RefsOK
        /\ config.policy # "PRIORITY" => OrderOK /\ AgreeOK
        /\ config.shift = 0 /\ config.policy # "PRIORITY" => HitOK

--------------------------------------------------------------------------------
\* Sequences.

\* A set of natural numbers that is not empty has a least element.
LEMMA LeastExists ==
    ASSUME NEW S \in SUBSET Nat, S # {} PROVE \E x \in S : \A y \in S : x <= y
  <1>1. PICK x \in S : \A y \in S : ~(<<y, x>> \in OpToRel(<, Nat))
    BY NatLessThanWellFounded, WFMin, Zenon
  <1>2. \A y \in S : ~(y < x)
    BY Zenon, <1>1 DEF OpToRel
  <1>3. QED BY <1>2

\* A sequence is a function on its places, and its range is what stands at
\* them.
LEMMA SeqFun ==
    ASSUME NEW S, NEW s \in Seq(S)
    PROVE  /\ Len(s) \in Nat /\ DOMAIN s = 1..Len(s)
           /\ s \in [1..Len(s) -> S]
           /\ \A i \in 1..Len(s) : s[i] \in S
           /\ Range(s) = {s[i] : i \in 1..Len(s)} /\ Range(s) \subseteq S
           /\ \A i \in 1..Len(s) : s[i] \in Range(s)
           /\ \A x \in Range(s) : \E i \in 1..Len(s) : s[i] = x
  <1>1. Len(s) \in Nat /\ DOMAIN s = 1..Len(s) /\ s \in [1..Len(s) -> S]
    OBVIOUS
  <1>2. QED BY Zenon, <1>1 DEF Range

\* A function on 1..n is a sequence of length n.
LEMMA FunSeq ==
    ASSUME NEW S, NEW n \in Nat, NEW f \in [1..n -> S]
    PROVE  f \in Seq(S) /\ Len(f) = n
  OBVIOUS

\* Kept is the function that its recursion describes.
LEMMA KeptIs ==
    ASSUME NEW T, NEW s \in Seq(T), NEW S
    PROVE  Kept(s, S) = [n \in 0..Len(s) |->
              IF n = 0 THEN <<>>
              ELSE IF s[n] \in S THEN Append(Kept(s, S)[n - 1], s[n]) ELSE Kept(s, S)[n - 1]]
  <1> USE Zenon
  <1> DEFINE Step(f, n) == IF n = 0 THEN <<>>
                           ELSE IF s[n] \in S THEN Append(f[n - 1], s[n]) ELSE f[n - 1]
             Good(k, f) == f = [n \in 0..k |-> Step(f, n)]
             Bad == {k \in Nat : ~(\E f : Good(k, f))}
  <1>0. Len(s) \in Nat
    BY SMT
  <1>1. \E f : Good(Len(s), f)
    <2>1. SUFFICES ASSUME Bad # {} PROVE FALSE
      BY <1>0
    <2>2. Bad \in SUBSET Nat
      OBVIOUS
    <2>3. PICK k \in Bad : \A x \in Bad : k <= x
      BY <2>1, <2>2, LeastExists
    <2>4. CASE k = 0
      <3> DEFINE g == [n \in 0..0 |-> <<>>]
      <3>1. \A n \in 0..0 : n = 0
        BY SMT
      <3>2. Good(0, g)
        BY <3>1
      <3>3. QED BY <2>4, <3>2
    <2>5. CASE k # 0
      <3>1. k - 1 \in Nat /\ ~(k <= k - 1)
        BY SMT, <2>5
      <3>2. PICK f : Good(k - 1, f)
        BY <2>3, <3>1
      <3> DEFINE g == [n \in 0..k |-> Step(f, n)]
      <3>3. \A n \in 0..(k - 1) : g[n] = f[n] /\ n \in 0..k
        <4>1. \A n \in 0..(k - 1) : n \in 0..k
          BY SMT, <3>1
        <4>2. \A n \in 0..k : g[n] = Step(f, n)
          OBVIOUS
        <4>3. \A n \in 0..(k - 1) : f[n] = Step(f, n)
          <5> DEFINE h == [n \in 0..(k - 1) |-> Step(f, n)]
          <5>1. \A n \in 0..(k - 1) : h[n] = Step(f, n)
            OBVIOUS
          <5>2. f = h
            BY <3>2
          <5> HIDE DEF h, Step
          <5>3. QED BY <5>1, <5>2
        <4> HIDE DEF g, Step
        <4>4. QED BY <4>1, <4>2, <4>3
      <3>4. \A n \in 0..k : n # 0 => n - 1 \in 0..(k - 1)
        BY SMT, <3>1
      <3>5. \A n \in 0..k : Step(g, n) = Step(f, n)
        <4> HIDE DEF g
        <4>1. QED BY <3>3, <3>4
      <3>6. Good(k, g)
        <4> DEFINE h == [n \in 0..k |-> Step(g, n)]
        <4>1. h = g
          BY <3>5
        <4>2. QED BY <4>1
      <3>7. QED BY <3>6
    <2>6. QED BY <2>4, <2>5
  <1>2. Kept(s, S) = CHOOSE f : Good(Len(s), f)
    BY DEF Kept
  <1>3. Good(Len(s), Kept(s, S))
    BY <1>1, <1>2
  <1>4. QED BY <1>3

\* Appending one element.
LEMMA AppendFacts ==
    ASSUME NEW T, NEW s \in Seq(T), NEW x \in T
    PROVE  /\ Append(s, x) \in Seq(T) /\ Len(Append(s, x)) = Len(s) + 1
           /\ Range(Append(s, x)) = Range(s) \cup {x}
           /\ IsInjective(s) /\ x \notin Range(s) => IsInjective(Append(s, x))
  <1> DEFINE t == Append(s, x)
             n == Len(s)
  <1>1. /\ t \in Seq(T) /\ Len(t) = n + 1 /\ n \in Nat /\ DOMAIN t = 1..(n + 1) /\ DOMAIN s = 1..n
        /\ \A i \in 1..n : t[i] = s[i]
        /\ t[n + 1] = x
    OBVIOUS
  <1>2. \A i \in 1..(n + 1) : i \in 1..n \/ i = n + 1
    BY <1>1
  <1>3. \A i \in 1..n : i \in 1..(n + 1) /\ i # n + 1
    BY <1>1
  <1>3a. n + 1 \in 1..(n + 1)
    BY <1>1
  <1> HIDE DEF t, n
  <1>4. Range(t) = Range(s) \cup {x}
    BY Zenon, <1>1, <1>2, <1>3, <1>3a DEF Range
  <1>5. ASSUME IsInjective(s), x \notin Range(s) PROVE IsInjective(t)
    <2>1. \A i \in 1..n : s[i] # x
      BY Zenon, <1>1, <1>5 DEF Range
    <2>2. QED BY Zenon, <1>1, <1>2, <1>5, <2>1 DEF IsInjective
  <1>6. QED BY Zenon, <1>1, <1>4, <1>5 DEF t, n

\* Concatenating two sequences.
LEMMA ConcatFacts ==
    ASSUME NEW T, NEW s \in Seq(T), NEW t \in Seq(T)
    PROVE  /\ s \o t \in Seq(T) /\ Len(s \o t) = Len(s) + Len(t)
           /\ Range(s \o t) = Range(s) \cup Range(t)
           /\ \A i \in 1..Len(s) : (s \o t)[i] = s[i]
           /\ \A i \in 1..Len(t) : (s \o t)[Len(s) + i] = t[i]
           /\ \A i \in 1..(Len(s) + Len(t)) :
                 (s \o t)[i] = IF i <= Len(s) THEN s[i] ELSE t[i - Len(s)]
           /\ IsInjective(s) /\ IsInjective(t) /\ (\A x \in Range(s) : x \notin Range(t))
                => IsInjective(s \o t)
  <1> USE Zenon
  <1> DEFINE u == s \o t
             l == Len(s)
             n == Len(t)
  <1>1. /\ u \in Seq(T) /\ Len(u) = l + n /\ l \in Nat /\ n \in Nat
        /\ DOMAIN u = 1..(l + n) /\ DOMAIN s = 1..l /\ DOMAIN t = 1..n
        /\ \A i \in 1..(l + n) : u[i] = IF i <= l THEN s[i] ELSE t[i - l]
    BY SMT
  <1> HIDE DEF u, l, n
  <1>2. \A i \in 1..l : i \in 1..(l + n) /\ i <= l
    BY SMT, <1>1
  <1>3. \A i \in 1..n : l + i \in 1..(l + n) /\ ~(l + i <= l) /\ (l + i) - l = i
    BY SMT, <1>1
  <1>4. \A i \in 1..(l + n) : i \in 1..l \/ (i - l \in 1..n /\ i = l + (i - l) /\ ~(i <= l))
    BY SMT, <1>1
  <1>5. (\A i \in 1..l : u[i] = s[i]) /\ (\A i \in 1..n : u[l + i] = t[i])
    BY <1>1, <1>2, <1>3
  <1>6. Range(u) = Range(s) \cup Range(t)
    <2>1. ASSUME NEW i \in 1..(l + n) PROVE u[i] \in Range(s) \cup Range(t)
      <3>1. CASE i \in 1..l
        BY <1>1, <1>5, <3>1 DEF Range
      <3>2. CASE i - l \in 1..n /\ ~(i <= l)
        <4>1. u[i] = t[i - l]
          BY <1>1, <3>2
        <4>2. QED BY <1>1, <3>2, <4>1 DEF Range
      <3>3. QED BY <1>4, <3>1, <3>2
    <2>2. \A i \in DOMAIN s : s[i] \in Range(u)
      BY <1>1, <1>2, <1>5 DEF Range
    <2>3. \A i \in DOMAIN t : t[i] \in Range(u)
      BY <1>1, <1>3, <1>5 DEF Range
    <2>4. QED BY <1>1, <2>1, <2>2, <2>3 DEF Range
  <1>7. ASSUME IsInjective(s), IsInjective(t), \A x \in Range(s) : x \notin Range(t)
        PROVE  IsInjective(u)
    <2>1. SUFFICES ASSUME NEW i \in 1..(l + n), NEW j \in 1..(l + n), u[i] = u[j]
                   PROVE  i = j
      BY <1>1 DEF IsInjective
    <2>2. CASE i \in 1..l /\ j \in 1..l
      BY <1>1, <1>5, <1>7, <2>1, <2>2 DEF IsInjective
    <2>3. CASE i - l \in 1..n /\ j - l \in 1..n /\ ~(i <= l) /\ ~(j <= l)
      <3>1. t[i - l] = t[j - l]
        BY <1>1, <2>1, <2>3
      <3>2. i - l = j - l
        BY <1>1, <1>7, <2>3, <3>1 DEF IsInjective
      <3>3. QED BY SMT, <1>1, <3>2
    <2>4. CASE i \in 1..l /\ j - l \in 1..n /\ ~(j <= l)
      <3>1. u[i] = s[i] /\ u[j] = t[j - l]
        BY <1>1, <1>5, <2>4
      <3>2. s[i] \in Range(s) /\ t[j - l] \in Range(t)
        BY <1>1, <2>4 DEF Range
      <3>3. QED BY <1>7, <2>1, <3>1, <3>2
    <2>5. CASE j \in 1..l /\ i - l \in 1..n /\ ~(i <= l)
      <3>1. u[j] = s[j] /\ u[i] = t[i - l]
        BY <1>1, <1>5, <2>5
      <3>2. s[j] \in Range(s) /\ t[i - l] \in Range(t)
        BY <1>1, <2>5 DEF Range
      <3>3. QED BY <1>7, <2>1, <3>1, <3>2
    <2>6. QED BY <1>4, <2>2, <2>3, <2>4, <2>5
  <1>8. QED BY <1>1, <1>5, <1>6, <1>7 DEF u, l, n

\* The part of a sequence from place a + 1 to place b.
LEMMA SubSeqFacts ==
    ASSUME NEW T, NEW s \in Seq(T), NEW a \in Nat, NEW b \in Nat, a <= b, b <= Len(s)
    PROVE  /\ SubSeq(s, a + 1, b) \in Seq(T) /\ Len(SubSeq(s, a + 1, b)) = b - a
           /\ \A i \in 1..(b - a) : SubSeq(s, a + 1, b)[i] = s[a + i]
           /\ Range(SubSeq(s, a + 1, b)) = {s[i] : i \in (a + 1)..b}
           /\ IsInjective(s) => IsInjective(SubSeq(s, a + 1, b))
  <1> USE Zenon
  <1> DEFINE u == SubSeq(s, a + 1, b)
             n == Len(s)
  <1>1. n \in Nat /\ DOMAIN s = 1..n /\ b - a \in Nat /\ b <= n
        /\ \A i \in 1..n : s[i] \in T
    BY SMT
  <1>2. \A i \in 1..(b - a) : a + i \in 1..n /\ a + i \in (a + 1)..b
    BY SMT, <1>1
  <1>3. \A i \in (a + 1)..b : i - a \in 1..(b - a) /\ a + (i - a) = i
    BY SMT, <1>1
  <1>4. u \in Seq(T) /\ Len(u) = b - a /\ \A i \in 1..(b - a) : u[i] = s[a + i]
    BY SMT, <1>1
  <1> HIDE DEF u, n
  <1>5. DOMAIN u = 1..(b - a)
    BY <1>4, SeqFun
  <1>7. Range(u) = {s[i] : i \in (a + 1)..b}
    <2>1. ASSUME NEW i \in 1..(b - a) PROVE u[i] \in {s[j] : j \in (a + 1)..b}
      BY <1>2, <1>4
    <2>2. ASSUME NEW i \in (a + 1)..b PROVE s[i] \in Range(u)
      <3>1. u[i - a] = s[i]
        BY <1>3, <1>4
      <3>2. QED BY <1>3, <1>5, <3>1 DEF Range
    <2>3. QED BY <1>5, <2>1, <2>2 DEF Range
  <1>8. ASSUME IsInjective(s) PROVE IsInjective(u)
    <2>1. SUFFICES ASSUME NEW i \in 1..(b - a), NEW j \in 1..(b - a), u[i] = u[j]
                   PROVE  i = j
      BY <1>5 DEF IsInjective
    <2>2. s[a + i] = s[a + j]
      BY <1>4, <2>1
    <2>3. a + i = a + j
      BY <1>1, <1>2, <1>8, <2>2 DEF IsInjective
    <2>4. QED BY SMT, <2>3
  <1>9. QED BY <1>4, <1>7, <1>8 DEF u

\* What filtering returns: the elements of S, none more often than before.
LEMMA KeepFacts ==
    ASSUME NEW T, NEW s \in Seq(T), NEW S
    PROVE  /\ Keep(s, S) \in Seq(T)
           /\ Range(Keep(s, S)) = Range(s) \cap S
           /\ IsInjective(s) => IsInjective(Keep(s, S))
  <1> USE Zenon
  <1> DEFINE k == Kept(s, S)
             Fst(n) == {s[i] : i \in 1..n}
             Good(n) == /\ k[n] \in Seq(T)
                        /\ Range(k[n]) = Fst(n) \cap S
                        /\ IsInjective(s) => IsInjective(k[n])
             Bad == {n \in 0..Len(s) : ~Good(n)}
  <1>0. Len(s) \in Nat /\ DOMAIN s = 1..Len(s) /\ \A i \in 1..Len(s) : s[i] \in T
    BY SMT
  <1>1. k = [n \in 0..Len(s) |-> IF n = 0 THEN <<>>
              ELSE IF s[n] \in S THEN Append(k[n - 1], s[n]) ELSE k[n - 1]]
    BY SMT, KeptIs
  <1>2. \A n \in 0..Len(s) : k[n] = IF n = 0 THEN <<>>
              ELSE IF s[n] \in S THEN Append(k[n - 1], s[n]) ELSE k[n - 1]
    <2> DEFINE h == [n \in 0..Len(s) |-> IF n = 0 THEN <<>>
              ELSE IF s[n] \in S THEN Append(k[n - 1], s[n]) ELSE k[n - 1]]
    <2>1. \A n \in 0..Len(s) : h[n] = IF n = 0 THEN <<>>
              ELSE IF s[n] \in S THEN Append(k[n - 1], s[n]) ELSE k[n - 1]
      OBVIOUS
    <2>2. k = h
      BY <1>1
    <2> HIDE DEF h, k
    <2>3. QED BY <2>1, <2>2
  <1> HIDE DEF k
  <1>3. Good(0)
    <2>1. k[0] = <<>>
      BY SMT, <1>0, <1>2
    <2>2. Fst(0) = {} /\ Range(<<>>) = {}
      BY SMT DEF Range
    <2>3. IsInjective(<<>>)
      BY SMT DEF IsInjective
    <2>4. <<>> \in Seq(T)
      BY SMT
    <2> HIDE DEF Fst
    <2>5. QED BY <2>1, <2>2, <2>3, <2>4
  <1>4. ASSUME NEW n \in 1..Len(s), Good(n - 1) PROVE Good(n)
    <2>1. n \in 0..Len(s) /\ n # 0 /\ s[n] \in T /\ n \in DOMAIN s
      BY SMT, <1>0
    <2>2. k[n] = IF s[n] \in S THEN Append(k[n - 1], s[n]) ELSE k[n - 1]
      BY <1>2, <2>1
    <2>3. \A i \in 1..n : i \in 1..(n - 1) \/ i = n
      BY SMT, <2>1
    <2>4. \A i \in 1..(n - 1) : i \in 1..n /\ i # n /\ i \in 1..Len(s)
      BY SMT, <2>1, <1>0
    <2>4a. n \in 1..n
      BY SMT, <2>1
    <2>5. Fst(n) = Fst(n - 1) \cup {s[n]}
      BY <2>3, <2>4, <2>4a
    <2>6. CASE s[n] \notin S
      BY <1>4, <2>2, <2>5, <2>6
    <2>7. CASE s[n] \in S
      <3> DEFINE t == k[n - 1]
      <3>1. k[n] = Append(t, s[n]) /\ t \in Seq(T)
        BY <1>4, <2>2, <2>7
      <3>2. k[n] \in Seq(T) /\ Range(k[n]) = Range(t) \cup {s[n]}
        <4> HIDE DEF t
        <4>1. Append(t, s[n]) \in Seq(T) /\ Range(Append(t, s[n])) = Range(t) \cup {s[n]}
          BY SMT, <2>1, <3>1, AppendFacts
        <4>2. QED BY <3>1, <4>1
      <3>3. Range(k[n]) = Fst(n) \cap S
        BY <1>4, <2>5, <2>7, <3>2
      <3>5. ASSUME IsInjective(s) PROVE IsInjective(k[n])
        <4>1. \A i \in 1..(n - 1) : s[i] # s[n]
          BY <1>0, <2>1, <2>4, <3>5 DEF IsInjective
        <4>2. s[n] \notin Range(t)
          BY <1>4, <4>1
        <4>3. IsInjective(t)
          BY <1>4, <3>5
        <4>4. QED BY SMT, <2>1, <3>1, <4>2, <4>3, AppendFacts
      <3>6. QED BY <3>2, <3>3, <3>5
    <2>8. QED BY <2>6, <2>7
  <1> HIDE DEF Good
  <1>5. Bad = {}
    <2>1. SUFFICES ASSUME Bad # {} PROVE FALSE
      OBVIOUS
    <2>2. Bad \in SUBSET Nat
      BY SMT, <1>0
    <2>3. PICK n \in Bad : \A x \in Bad : n <= x
      BY <2>1, <2>2, LeastExists
    <2>4. n # 0
      BY <1>3
    <2>5. n \in 1..Len(s) /\ n - 1 \in 0..Len(s) /\ ~(n <= n - 1)
      BY SMT, <1>0, <2>4
    <2>6. n - 1 \notin Bad
      BY <2>3, <2>5
    <2>7. QED BY <1>4, <2>5, <2>6
  <1>6. Good(Len(s))
    BY SMT, <1>0, <1>5
  <1>7. Keep(s, S) = k[Len(s)]
    BY DEF Keep, k
  <1>8. Fst(Len(s)) = Range(s)
    BY <1>0 DEF Range
  <1>10. QED BY <1>6, <1>7, <1>8 DEF Good

\* A sequence without repetitions has as many elements as places.
LEMMA SeqCard ==
    ASSUME NEW T, NEW s \in Seq(T), IsInjective(s)
    PROVE  IsFiniteSet(Range(s)) /\ Cardinality(Range(s)) = Len(s)
  <1> USE Zenon
  <1>1. Len(s) \in Nat /\ DOMAIN s = 1..Len(s) /\ s \in [1..Len(s) -> Range(s)]
    BY SeqFun DEF Range
  <1>2. s \in Bijection(1..Len(s), Range(s))
    BY <1>1, SeqFun DEF Bijection, Injection, Surjection
  <1>3. ExistsBijection(1..Len(s), Range(s))
    BY <1>2 DEF ExistsBijection
  <1>4. QED BY <1>1, <1>3, FS_CountingElements, FS_NatBijection

--------------------------------------------------------------------------------
\* The space that outputs take.

\* An input's hash and embeddings: all inputs with a hash have the same
\* embeddings.
LEMMA InputFacts ==
    ASSUME NEW r \in Requests, NEW i \in DOMAIN Features[r]
    PROVE  /\ HashOf(r, i) \in Hashes /\ EmbedsOf(HashOf(r, i)) = Features[r][i].embeds
           /\ IsFiniteSet(Features[r][i].embeds)
           /\ NumEmbeds(HashOf(r, i)) \in Nat /\ NumEmbeds(HashOf(r, i)) <= CacheSize
           /\ Features[r][i].offset \in Nat /\ Features[r][i].length \in Nat
           /\ Features[r][i].embeds \subseteq 0..(Features[r][i].length - 1)
  <1> USE Zenon
  <1> DEFINE f == Features[r][i]
             g == CHOOSE x \in Inputs : x.hash = f.hash
  <1>1. /\ f.offset \in Nat /\ f.length \in Nat /\ f.embeds \subseteq 0..(f.length - 1)
        /\ Cardinality(f.embeds) <= CacheSize
    BY FeaturesAssumption
  <1>2. f \in Inputs
    BY SMT DEF Inputs, Range
  <1>3. f.hash \in Hashes
    BY <1>2 DEF Hashes
  <1>4. g \in Inputs /\ g.hash = f.hash
    BY <1>2
  <1>5. PICK s \in Requests : g \in Range(Features[s])
    BY <1>4 DEF Inputs
  <1>6. PICK j \in DOMAIN Features[s] : g = Features[s][j]
    BY <1>5 DEF Range
  <1>7. g.embeds = f.embeds
    <2>1. Features[s][j].hash = Features[r][i].hash
      BY <1>4, <1>6
    <2>2. Features[s][j].embeds = Features[r][i].embeds
      BY <2>1, FeaturesAssumption
    <2>3. QED BY <2>2, <1>6
  <1>8. EmbedsOf(f.hash) = f.embeds
    BY <1>7 DEF EmbedsOf
  <1>9. IsFiniteSet(f.embeds)
    <2>1. f.length - 1 \in Int
      BY SMT, <1>1
    <2>2. IsFiniteSet(0..(f.length - 1))
      BY SMT, <2>1, FS_Interval
    <2>3. QED BY <1>1, <2>2, FS_Subset
  <1>10. Cardinality(f.embeds) \in Nat
    BY <1>9, FS_CardinalityType
  <1>11. QED BY <1>1, <1>3, <1>8, <1>9, <1>10 DEF HashOf, NumEmbeds

\* A hash is the hash of an input.
LEMMA HashFacts ==
    ASSUME NEW h \in Hashes
    PROVE  /\ \E r \in Requests : \E i \in DOMAIN Features[r] : HashOf(r, i) = h
           /\ IsFiniteSet(EmbedsOf(h)) /\ NumEmbeds(h) \in Nat /\ NumEmbeds(h) <= CacheSize
  <1> USE Zenon
  <1>1. PICK f \in Inputs : f.hash = h
    BY DEF Hashes
  <1>2. PICK r \in Requests : f \in Range(Features[r])
    BY <1>1 DEF Inputs
  <1>3. PICK i \in DOMAIN Features[r] : f = Features[r][i]
    BY <1>2 DEF Range
  <1>4. HashOf(r, i) = h
    BY <1>1, <1>3 DEF HashOf
  <1>5. QED BY <1>4, InputFacts

\* The embeddings of a set of outputs.
Outputs(H) == UNION {{h} \X EmbedsOf(h) : h \in H}

\* Which embeddings these are.
LEMMA OutputsIn ==
    ASSUME NEW H, NEW p
    PROVE  p \in Outputs(H) <=> \E h \in H : \E e \in EmbedsOf(h) : p = <<h, e>>
  BY DEF Outputs

\* The space that finitely many outputs take is a number.
LEMMA EmbedsType ==
    ASSUME NEW H \in SUBSET Hashes, IsFiniteSet(H)
    PROVE  IsFiniteSet(Outputs(H)) /\ Embeds(H) = Cardinality(Outputs(H)) /\ Embeds(H) \in Nat
  <1> USE Zenon
  <1> DEFINE P == {{h} \X EmbedsOf(h) : h \in H}
             f == [h \in H |-> {h} \X EmbedsOf(h)]
  <1>1. f \in Surjection(H, P)
    BY DEF Surjection
  <1>2. IsFiniteSet(P)
    <2> HIDE DEF P, f
    <2>1. QED BY <1>1, FS_Surjection
  <1>3. ASSUME NEW h \in H PROVE IsFiniteSet({h} \X EmbedsOf(h))
    <2>1. IsFiniteSet({h}) /\ IsFiniteSet(EmbedsOf(h))
      BY FS_Singleton, HashFacts
    <2>2. QED BY <2>1, FS_Product
  <1>4. \A x \in P : IsFiniteSet(x)
    BY <1>3
  <1>5. IsFiniteSet(UNION P)
    <2> HIDE DEF P
    <2>1. QED BY <1>2, <1>4, FS_UNION
  <1>6. Outputs(H) = UNION P
    BY DEF Outputs
  <1>7. Embeds(H) = Cardinality(Outputs(H))
    BY DEF Embeds, Outputs
  <1> HIDE DEF P
  <1>8. QED BY <1>5, <1>6, <1>7, FS_CardinalityType

\* Disjoint sets of outputs take the space of both.
LEMMA EmbedsUnion ==
    ASSUME NEW H \in SUBSET Hashes, IsFiniteSet(H), NEW K \in SUBSET Hashes, IsFiniteSet(K),
           H \cap K = {}
    PROVE  IsFiniteSet(H \cup K) /\ Embeds(H \cup K) = Embeds(H) + Embeds(K)
  <1> USE Zenon
  <1>1. IsFiniteSet(H \cup K)
    BY FS_Union
  <1>2. Outputs(H \cup K) = Outputs(H) \cup Outputs(K)
    BY SMT, OutputsIn
  <1>3. Outputs(H) \cap Outputs(K) = {}
    BY SMT, OutputsIn
  <1>4. /\ IsFiniteSet(Outputs(H)) /\ Embeds(H) = Cardinality(Outputs(H)) /\ Embeds(H) \in Nat
        /\ IsFiniteSet(Outputs(K)) /\ Embeds(K) = Cardinality(Outputs(K)) /\ Embeds(K) \in Nat
        /\ Embeds(H \cup K) = Cardinality(Outputs(H \cup K))
    BY <1>1, EmbedsType
  <1>5. /\ Cardinality(Outputs(H) \cup Outputs(K)) =
              Cardinality(Outputs(H)) + Cardinality(Outputs(K)) - Cardinality(Outputs(H) \cap Outputs(K))
    BY <1>4, FS_Union
  <1>6. Cardinality({}) = 0
    BY FS_EmptySet
  <1>7. /\ Cardinality(Outputs(H \cup K)) = Cardinality(Outputs(H) \cup Outputs(K))
        /\ Cardinality(Outputs(H) \cap Outputs(K)) = 0
    BY <1>2, <1>3, <1>6
  <1>8. QED BY SMT, <1>1, <1>4, <1>5, <1>7

\* No output takes no space.
LEMMA EmbedsNone == Embeds({}) = 0
  <1> USE Zenon
  <1>1. Outputs({}) = {}
    BY DEF Outputs
  <1>2. IsFiniteSet({}) /\ Cardinality({}) = 0 /\ {} \in SUBSET Hashes
    BY FS_EmptySet
  <1>3. Embeds({}) = Cardinality(Outputs({}))
    BY <1>2, EmbedsType
  <1>4. QED BY <1>1, <1>2, <1>3

\* One output takes its embeddings.
LEMMA EmbedsOne ==
    ASSUME NEW h \in Hashes
    PROVE  IsFiniteSet({h}) /\ Embeds({h}) = NumEmbeds(h)
  <1> USE Zenon
  <1>1. IsFiniteSet({h}) /\ Cardinality({h}) = 1
    BY FS_Singleton
  <1>2. Outputs({h}) = {h} \X EmbedsOf(h)
    BY DEF Outputs
  <1>3. IsFiniteSet(EmbedsOf(h)) /\ Cardinality(EmbedsOf(h)) \in Nat
    BY HashFacts, FS_CardinalityType
  <1>4. Cardinality({h} \X EmbedsOf(h)) = Cardinality({h}) * Cardinality(EmbedsOf(h))
    BY <1>1, <1>3, FS_Product
  <1>5. Embeds({h}) = Cardinality(Outputs({h}))
    BY <1>1, EmbedsType
  <1>6. Embeds({h}) = Cardinality({h} \X EmbedsOf(h))
    BY <1>2, <1>5
  <1>7. Embeds({h}) = Cardinality(EmbedsOf(h))
    BY SMT, <1>1, <1>3, <1>4, <1>6
  <1>8. QED BY <1>1, <1>7 DEF NumEmbeds

\* One more output.
LEMMA EmbedsAdd ==
    ASSUME NEW H \in SUBSET Hashes, IsFiniteSet(H), NEW h \in Hashes, h \notin H
    PROVE  IsFiniteSet(H \cup {h}) /\ Embeds(H \cup {h}) = Embeds(H) + NumEmbeds(h)
  <1> USE Zenon
  <1>1. H \cap {h} = {} /\ {h} \in SUBSET Hashes
    OBVIOUS
  <1>2. QED BY <1>1, EmbedsOne, EmbedsUnion

\* The space of a part, and of what is left.
LEMMA EmbedsSubset ==
    ASSUME NEW H \in SUBSET Hashes, IsFiniteSet(H), NEW K \in SUBSET H
    PROVE  /\ IsFiniteSet(K) /\ IsFiniteSet(H \ K) /\ Embeds(K) \in Nat /\ Embeds(H \ K) \in Nat
           /\ Embeds(H) = Embeds(K) + Embeds(H \ K) /\ Embeds(K) <= Embeds(H)
  <1> USE Zenon
  <1>1. IsFiniteSet(K) /\ IsFiniteSet(H \ K)
    BY FS_Subset
  <1>2. K \cap (H \ K) = {} /\ K \cup (H \ K) = H /\ K \in SUBSET Hashes /\ H \ K \in SUBSET Hashes
    OBVIOUS
  <1>3. Embeds(K \cup (H \ K)) = Embeds(K) + Embeds(H \ K)
    BY <1>1, <1>2, EmbedsUnion
  <1>4. Embeds(K) \in Nat /\ Embeds(H \ K) \in Nat
    BY <1>1, <1>2, EmbedsType
  <1>5. Embeds(H) = Embeds(K) + Embeds(H \ K)
    BY <1>2, <1>3
  <1>6. QED BY SMT, <1>1, <1>4, <1>5

\* The inputs of a request are finitely many, and so are their hashes.
LEMMA HashesOfFacts ==
    ASSUME NEW r \in Requests, NEW I, I \subseteq DOMAIN Features[r]
    PROVE  /\ IsFiniteSet(I) /\ HashesOf(r, I) \in SUBSET Hashes /\ IsFiniteSet(HashesOf(r, I))
           /\ \A h \in HashesOf(r, I) : \E i \in I : HashOf(r, i) = h
           /\ \A i \in I : HashOf(r, i) \in HashesOf(r, I)
           /\ DOMAIN Features[r] = 1..Len(Features[r]) /\ Len(Features[r]) \in Nat
  <1> USE Zenon
  <1>1. DOMAIN Features[r] = 1..Len(Features[r]) /\ Len(Features[r]) \in Nat
    BY SMT, FeaturesAssumption
  <1>2. IsFiniteSet(1..Len(Features[r]))
    BY SMT, <1>1, FS_Interval
  <1>3. IsFiniteSet(I)
    BY <1>1, <1>2, FS_Subset
  <1> DEFINE f == [i \in I |-> HashOf(r, i)]
  <1>4. f \in Surjection(I, HashesOf(r, I))
    BY DEF Surjection, HashesOf
  <1>5. IsFiniteSet(HashesOf(r, I))
    <2> HIDE DEF f
    <2>1. QED BY <1>3, <1>4, FS_Surjection
  <1>6. HashesOf(r, I) \in SUBSET Hashes
    BY InputFacts DEF HashesOf
  <1>7. QED BY <1>1, <1>3, <1>5, <1>6 DEF HashesOf

\* Inputs with different hashes need as much space as their hashes take: what
\* allocate subtracts is the size of the new entries.
LEMMA InputEmbedsFacts ==
    ASSUME NEW r \in Requests, NEW I, I \subseteq DOMAIN Features[r], Distinct(r, I)
    PROVE  InputEmbeds(r, I) = Embeds(HashesOf(r, I))
  <1> USE Zenon
  <1> DEFINE A == UNION {{i} \X Features[r][i].embeds : i \in I}
             B == Outputs(HashesOf(r, I))
             f == [p \in A |-> <<HashOf(r, p[1]), p[2]>>]
  <1>1. \A p : p \in A <=> \E i \in I : \E e \in Features[r][i].embeds : p = <<i, e>>
    BY SMT
  <1>2. \A i \in I : EmbedsOf(HashOf(r, i)) = Features[r][i].embeds
    BY InputFacts
  <1>3. IsFiniteSet(B) /\ Embeds(HashesOf(r, I)) = Cardinality(B)
    BY HashesOfFacts, EmbedsType
  <1>4. \A i \in I : \A e \in Features[r][i].embeds : <<i, e>> \in A /\ f[<<i, e>>] = <<HashOf(r, i), e>>
    BY SMT
  <1>5. \A p \in B : \E i \in I : \E e \in Features[r][i].embeds : p = <<HashOf(r, i), e>>
    BY SMT, <1>2, OutputsIn DEF HashesOf
  <1>6. \A i \in I : \A e \in Features[r][i].embeds : <<HashOf(r, i), e>> \in B
    BY <1>2, OutputsIn DEF HashesOf
  <1>7. DOMAIN f = A
    OBVIOUS
  <1>8. f = [p \in A |-> f[p]]
    OBVIOUS
  <1> HIDE DEF A, B, f
  <1>9. \A p \in A : f[p] \in B
    BY SMT, <1>1, <1>4, <1>6
  <1>10. f \in [A -> B]
    BY <1>8, <1>9
  <1>11. \A p, q \in A : f[p] = f[q] => p = q
    <2>1. TAKE p, q \in A
    <2>2. HAVE f[p] = f[q]
    <2>3. PICK i \in I : \E e \in Features[r][i].embeds : p = <<i, e>>
      BY <1>1
    <2>4. PICK e \in Features[r][i].embeds : p = <<i, e>>
      BY <2>3
    <2>5. PICK j \in I : \E e1 \in Features[r][j].embeds : q = <<j, e1>>
      BY <1>1
    <2>6. PICK d \in Features[r][j].embeds : q = <<j, d>>
      BY <2>5
    <2>7. <<HashOf(r, i), e>> = <<HashOf(r, j), d>>
      BY <1>4, <2>2, <2>4, <2>6
    <2>8. HashOf(r, i) = HashOf(r, j) /\ e = d
      BY <2>7
    <2>9. i = j
      BY <2>8 DEF Distinct
    <2>10. QED BY <2>4, <2>6, <2>8, <2>9
  <1>12. f \in Injection(A, B)
    BY <1>10, <1>11 DEF Injection, IsInjective
  <1>13. f \in Surjection(A, B)
    <2>1. ASSUME NEW p \in B PROVE \E q \in A : f[q] = p
      <3>1. PICK i \in I : \E e \in Features[r][i].embeds : p = <<HashOf(r, i), e>>
        BY <1>5
      <3>2. PICK e \in Features[r][i].embeds : p = <<HashOf(r, i), e>>
        BY <3>1
      <3>3. <<i, e>> \in A /\ f[<<i, e>>] = p
        BY <1>4, <3>2
      <3>4. QED BY <3>3
    <2>2. QED BY <1>10, <2>1 DEF Surjection
  <1>14. Cardinality(A) = Cardinality(B)
    BY <1>3, <1>12, <1>13, FS_Injection
  <1>15. InputEmbeds(r, I) = Cardinality(A)
    BY DEF InputEmbeds, A
  <1>16. QED BY <1>3, <1>14, <1>15

--------------------------------------------------------------------------------
\* The calls of the manager.

\* What it means to be a function of Entries.
LEMMA EntriesFacts ==
    ASSUME NEW c
    PROVE  c \in Entries <=> /\ DOMAIN c \subseteq Hashes /\ c = [h \in DOMAIN c |-> c[h]]
                             /\ \A h \in DOMAIN c : c[h] \subseteq Requests
  <1> USE Zenon
  <1>1. ASSUME c \in Entries
        PROVE  /\ DOMAIN c \subseteq Hashes /\ c = [h \in DOMAIN c |-> c[h]]
               /\ \A h \in DOMAIN c : c[h] \subseteq Requests
    <2>1. PICK H \in SUBSET Hashes : c \in [H -> SUBSET Requests]
      BY <1>1 DEF Entries
    <2>2. QED BY <2>1
  <1>2. ASSUME DOMAIN c \subseteq Hashes, c = [h \in DOMAIN c |-> c[h]],
               \A h \in DOMAIN c : c[h] \subseteq Requests
        PROVE  c \in Entries
    <2>1. c \in [DOMAIN c -> SUBSET Requests]
      BY <1>2
    <2>2. QED BY <1>2, <2>1 DEF Entries
  <1>3. QED BY <1>1, <1>2

\* The fields of a manager that satisfies the invariant.
LEMMA CacheFacts ==
    ASSUME NEW a, CacheOK(a)
    PROVE  /\ a \in Manager /\ DOMAIN a.cached \in SUBSET Hashes /\ IsFiniteSet(DOMAIN a.cached)
           /\ a.cached \in Entries /\ \A h \in DOMAIN a.cached : a.cached[h] \subseteq Requests
           /\ a.free \in Int /\ a.reclaimable \in Int /\ a.freeable \in Seq(Hashes)
           /\ a.ids \in [Requests -> SUBSET Nat] /\ a.freed \subseteq Hashes
           /\ Embeds(DOMAIN a.cached) \in Nat /\ Embeds(Used(a)) \in Nat
           /\ Used(a) \subseteq DOMAIN a.cached /\ Unused(a) = DOMAIN a.cached \ Used(a)
           /\ IsFiniteSet(Used(a)) /\ IsFiniteSet(Unused(a))
           /\ CacheSize \in Nat
  <1> USE Zenon
  <1>1. /\ a \in Manager /\ a.cached \in Entries /\ IsFiniteSet(DOMAIN a.cached)
        /\ a.free \in Int /\ a.reclaimable \in Int /\ a.freeable \in Seq(Hashes)
        /\ a.ids \in [Requests -> SUBSET Nat] /\ a.freed \subseteq Hashes
    BY DEF CacheOK, Manager
  <1>2. /\ DOMAIN a.cached \in SUBSET Hashes
        /\ \A h \in DOMAIN a.cached : a.cached[h] \subseteq Requests
    BY <1>1, EntriesFacts
  <1>3. Used(a) \in SUBSET DOMAIN a.cached /\ Unused(a) = DOMAIN a.cached \ Used(a)
    BY DEF Used, Unused
  <1>4. /\ Embeds(DOMAIN a.cached) \in Nat /\ Embeds(Used(a)) \in Nat
        /\ IsFiniteSet(Used(a)) /\ IsFiniteSet(DOMAIN a.cached \ Used(a))
    BY <1>1, <1>2, <1>3, EmbedsType, EmbedsSubset
  <1>5. CacheSize \in Nat
    BY FeaturesAssumption
  <1>6. QED BY <1>1, <1>2, <1>3, <1>4, <1>5

\* check_and_update_cache: the request refers to the entry, which is not
\* freeable any more; nothing else changes.
LEMMA UseCachedOK ==
    ASSUME NEW a, CacheOK(a), NEW r \in Requests, NEW i \in DOMAIN Features[r],
           HashOf(r, i) \in DOMAIN a.cached
    PROVE  LET b == UseCached(a, r, i) IN
           /\ CacheOK(b)
           /\ DOMAIN b.cached = DOMAIN a.cached /\ b.free = a.free /\ b.freed = a.freed
           /\ b.ids = [a.ids EXCEPT ![r] = @ \cup {i}]
           /\ Held(b, r) = Held(a, r) \cup {HashOf(r, i)}
           /\ \A s \in Requests : s # r => Held(b, s) = Held(a, s)
  <1> USE Zenon
  <1> DEFINE b == UseCached(a, r, i)
             h == HashOf(r, i)
             C == DOMAIN a.cached
  <1>1. /\ a \in Manager /\ C \in SUBSET Hashes /\ IsFiniteSet(C)
        /\ a.cached \in Entries /\ \A g \in C : a.cached[g] \subseteq Requests
        /\ a.free \in Int /\ a.reclaimable \in Int /\ a.freeable \in Seq(Hashes)
        /\ a.ids \in [Requests -> SUBSET Nat] /\ a.freed \subseteq Hashes
        /\ Embeds(C) \in Nat /\ Embeds(Used(a)) \in Nat
        /\ Used(a) \subseteq C /\ Unused(a) = C \ Used(a)
        /\ IsFiniteSet(Used(a)) /\ IsFiniteSet(Unused(a)) /\ CacheSize \in Nat
    BY CacheFacts
  <1>2. /\ IsInjective(a.freeable) /\ Range(a.freeable) = Unused(a)
        /\ a.free = CacheSize - Embeds(C) /\ a.free >= 0
        /\ a.reclaimable = CacheSize - Embeds(Used(a))
        /\ \A s \in Requests : a.ids[s] \subseteq DOMAIN Features[s] /\ Held(a, s) \subseteq HashesOf(s, a.ids[s])
    BY DEF CacheOK
  <1>3. h \in C /\ h \in Hashes /\ NumEmbeds(h) \in Nat /\ i \in Nat
    <2>1. i \in Nat
      BY SMT, HashesOfFacts
    <2>2. QED BY <2>1, InputFacts
  <1>4. /\ b.free = a.free /\ b.freed = a.freed
        /\ b.cached = [a.cached EXCEPT ![h] = @ \cup {r}]
        /\ b.ids = [a.ids EXCEPT ![r] = @ \cup {i}]
        /\ b.freeable = IF a.cached[h] = {} THEN Without(a.freeable, h) ELSE a.freeable
        /\ b.reclaimable = IF a.cached[h] = {} THEN a.reclaimable - NumEmbeds(h) ELSE a.reclaimable
        /\ b = [free |-> b.free, reclaimable |-> b.reclaimable, cached |-> b.cached, ids |-> b.ids,
                freeable |-> b.freeable, freed |-> b.freed]
    <2> DEFINE x1 == IF a.cached[h] = {} THEN Without(a.freeable, h) ELSE a.freeable
               x2 == IF a.cached[h] = {} THEN a.reclaimable - NumEmbeds(h) ELSE a.reclaimable
               x3 == [a.cached EXCEPT ![h] = @ \cup {r}]
               x4 == [a.ids EXCEPT ![r] = @ \cup {i}]
    <2>1. b = [a EXCEPT !.freeable = x1, !.reclaimable = x2, !.cached = x3, !.ids = x4]
      BY <1>1 DEF UseCached, Manager
    <2> HIDE DEF x1, x2, x3, x4, b
    <2>2. a \in Manager
      BY <1>1
    <2>3. /\ b.freeable = x1 /\ b.reclaimable = x2 /\ b.cached = x3 /\ b.ids = x4
          /\ b.free = a.free /\ b.freed = a.freed
          /\ b = [free |-> b.free, reclaimable |-> b.reclaimable, cached |-> b.cached, ids |-> b.ids,
                  freeable |-> b.freeable, freed |-> b.freed]
      BY <2>1, <2>2 DEF Manager
    <2>4. QED BY <2>3 DEF x1, x2, x3, x4
  <1> HIDE DEF b, h, C
  <1>5. /\ DOMAIN b.cached = C /\ b.cached[h] = a.cached[h] \cup {r}
        /\ \A g \in C : g # h => b.cached[g] = a.cached[g]
        /\ b.cached = [g \in C |-> b.cached[g]]
    BY <1>3, <1>4, <1>1, EntriesFacts DEF C
  <1>6. b.cached \in Entries
    <2>1. \A g \in C : b.cached[g] \subseteq Requests
      BY <1>1, <1>3, <1>5
    <2>2. QED BY <1>1, <1>5, <2>1, EntriesFacts
  <1>7. /\ Held(b, r) = Held(a, r) \cup {h}
        /\ \A s \in Requests : s # r => Held(b, s) = Held(a, s)
    BY <1>3, <1>5 DEF Held, C
  <1>8. Used(b) = Used(a) \cup {h}
    BY <1>3, <1>5 DEF Used, C
  <1>9. b.ids \in [Requests -> SUBSET Nat]
    BY SMT, <1>1, <1>3, <1>4
  <1>10. \A s \in Requests : b.ids[s] \subseteq DOMAIN Features[s] /\ Held(b, s) \subseteq HashesOf(s, b.ids[s])
    <2>1. TAKE s \in Requests
    <2>2. CASE s = r
      <3>1. b.ids[r] = a.ids[r] \cup {i}
        BY <1>1, <1>4
      <3>2. HashesOf(r, a.ids[r] \cup {i}) = HashesOf(r, a.ids[r]) \cup {h}
        BY DEF HashesOf, h
      <3>3. QED BY <1>2, <1>7, <2>2, <3>1, <3>2
    <2>3. CASE s # r
      <3>1. b.ids[s] = a.ids[s]
        BY <1>1, <1>4, <2>3
      <3>2. QED BY <1>2, <1>7, <2>3, <3>1
    <2>4. QED BY <2>2, <2>3
  <1>11. /\ b.freeable \in Seq(Hashes) /\ IsInjective(b.freeable) /\ Range(b.freeable) = Unused(b)
         /\ b.reclaimable = CacheSize - Embeds(Used(b)) /\ b.reclaimable \in Int
    <2>0. Unused(b) = C \ Used(b)
      BY <1>5 DEF Unused, Used
    <2>1. CASE a.cached[h] = {}
      <3> DEFINE s == a.freeable
                 S == Range(s) \ {h}
      <3>1. b.freeable = Keep(s, S) /\ b.reclaimable = a.reclaimable - NumEmbeds(h)
        BY <1>4, <2>1 DEF Without
      <3>2. s \in Seq(Hashes) /\ IsInjective(s)
        BY <1>1, <1>2
      <3>3. Range(s) \cap S = Range(s) \ {h}
        OBVIOUS
      <3> HIDE DEF s, S
      <3>4. Keep(s, S) \in Seq(Hashes) /\ Range(Keep(s, S)) = Range(s) \cap S /\ IsInjective(Keep(s, S))
        BY <3>2, KeepFacts
      <3>5. Range(b.freeable) = Unused(b)
        BY SMT, <1>1, <1>2, <1>8, <2>0, <3>1, <3>3, <3>4 DEF s
      <3>6. h \notin Used(a) /\ Used(a) \in SUBSET Hashes
        BY <1>1, <2>1 DEF Used
      <3>7. Embeds(Used(a) \cup {h}) = Embeds(Used(a)) + NumEmbeds(h)
        BY <1>1, <1>3, <3>6, EmbedsAdd
      <3>8. Embeds(Used(b)) = Embeds(Used(a)) + NumEmbeds(h)
        BY <1>8, <3>7
      <3>9. b.reclaimable = CacheSize - Embeds(Used(b)) /\ b.reclaimable \in Int
        BY SMT, <1>1, <1>2, <1>3, <3>1, <3>8
      <3>10. QED BY <3>1, <3>4, <3>5, <3>9
    <2>2. CASE a.cached[h] # {}
      <3>1. Used(b) = Used(a)
        BY <1>3, <1>8, <2>2 DEF Used, C
      <3>2. b.freeable = a.freeable /\ b.reclaimable = a.reclaimable /\ Unused(b) = Unused(a)
        BY <1>1, <1>4, <2>0, <2>2, <3>1
      <3>3. QED BY <1>1, <1>2, <3>1, <3>2
    <2>3. QED BY <2>1, <2>2
  <1>12. b \in Manager
    BY <1>1, <1>4, <1>6, <1>9, <1>11 DEF Manager
  <1>13. CacheOK(b)
    BY <1>1, <1>2, <1>4, <1>5, <1>10, <1>11, <1>12 DEF CacheOK
  <1>14. QED BY <1>4, <1>5, <1>7, <1>13 DEF b, h, C

\* Least of a set of numbers is in it.
LEMMA LeastIn ==
    ASSUME NEW S \in SUBSET Nat, S # {}
    PROVE  Least(S) \in S
  BY Zenon, LeastExists DEF Least

\* can_allocate evicts the oldest freeable entries until the input fits.  The
\* two counters promise that there are enough of them, no entry with a
\* reference goes, and each evicted hash is recorded for the worker.
LEMMA EvictOK ==
    ASSUME NEW a, CacheOK(a), NEW needed \in Int, needed <= a.free \/ needed <= a.reclaimable
    PROVE  LET b == Evict(a, needed) IN
           /\ CacheOK(b) /\ needed <= b.free /\ a.free <= b.free
           /\ DOMAIN b.cached \subseteq DOMAIN a.cached
           /\ b.freed = a.freed \cup (DOMAIN a.cached \ DOMAIN b.cached)
           /\ b.ids = a.ids
           /\ \A s \in Requests : Held(b, s) = Held(a, s)
  <1> USE Zenon
  <1> DEFINE b == Evict(a, needed)
             C == DOMAIN a.cached
             s == a.freeable
             l == Len(s)
             Enough == {k \in 0..l : needed <= a.free + Embeds(Oldest(a, k))}
             n == Least(Enough)
             out == Oldest(a, n)
  <1>1. /\ a \in Manager /\ C \in SUBSET Hashes /\ IsFiniteSet(C)
        /\ a.cached \in Entries /\ \A g \in C : a.cached[g] \subseteq Requests
        /\ a.free \in Int /\ a.reclaimable \in Int /\ s \in Seq(Hashes)
        /\ a.ids \in [Requests -> SUBSET Nat] /\ a.freed \subseteq Hashes
        /\ Embeds(C) \in Nat /\ Embeds(Used(a)) \in Nat
        /\ Used(a) \subseteq C /\ Unused(a) = C \ Used(a)
        /\ IsFiniteSet(Used(a)) /\ IsFiniteSet(Unused(a)) /\ CacheSize \in Nat
    BY CacheFacts
  <1>2. /\ IsInjective(s) /\ Range(s) = Unused(a)
        /\ a.free = CacheSize - Embeds(C) /\ a.free >= 0
        /\ a.reclaimable = CacheSize - Embeds(Used(a))
        /\ \A q \in Requests : a.ids[q] \subseteq DOMAIN Features[q] /\ Held(a, q) \subseteq HashesOf(q, a.ids[q])
    BY DEF CacheOK
  <1>3. /\ b.free = a.free + Embeds(out) /\ b.freed = a.freed \cup out
        /\ b.cached = Restrict(a.cached, C \ out)
        /\ b.ids = a.ids /\ b.reclaimable = a.reclaimable
        /\ b.freeable = SubSeq(s, n + 1, l)
        /\ b = [free |-> b.free, reclaimable |-> b.reclaimable, cached |-> b.cached, ids |-> b.ids,
                freeable |-> b.freeable, freed |-> b.freed]
    <2> DEFINE x1 == SubSeq(s, n + 1, l)
               x2 == Restrict(a.cached, C \ out)
               x3 == a.freed \cup out
               x4 == a.free + Embeds(out)
    <2>1. b = [a EXCEPT !.freeable = x1, !.cached = x2, !.freed = x3, !.free = x4]
      BY <1>1 DEF Evict, Manager
    <2> HIDE DEF x1, x2, x3, x4, b, n, out, C, s, l, Enough
    <2>2. a \in Manager
      BY <1>1
    <2>3. /\ b.freeable = x1 /\ b.cached = x2 /\ b.freed = x3 /\ b.free = x4
          /\ b.reclaimable = a.reclaimable /\ b.ids = a.ids
          /\ b = [free |-> b.free, reclaimable |-> b.reclaimable, cached |-> b.cached, ids |-> b.ids,
                  freeable |-> b.freeable, freed |-> b.freed]
      BY <2>1, <2>2 DEF Manager
    <2>4. QED BY <2>3 DEF x1, x2, x3, x4
  <1>4. l \in Nat /\ DOMAIN s = 1..l
    BY <1>1, SeqFun
  <1>5. \A k \in 0..l : Oldest(a, k) = {s[i] : i \in 1..k}
    <2>1. TAKE k \in 0..l
    <2> DEFINE z == 0
    <2>2. z \in Nat /\ z + 1 = 1 /\ k \in Nat /\ z <= k /\ k <= l
      BY SMT, <1>4
    <2>3. z <= k /\ k <= Len(s) /\ s \in Seq(Hashes)
      BY <1>1, <2>2
    <2> HIDE DEF z, s, l
    <2> DEFINE K == SubSeq(s, z + 1, k)
    <2>4. /\ K \in Seq(Hashes) /\ Len(K) = k - z
          /\ \A i \in 1..(k - z) : K[i] = s[z + i]
          /\ Range(K) = {s[i] : i \in (z + 1)..k}
          /\ IsInjective(s) => IsInjective(K)
      BY <2>2, <2>3, SubSeqFacts
    <2>5. Oldest(a, k) = Range(K)
      BY <2>2 DEF Oldest, s
    <2> HIDE DEF K
    <2>6. QED BY <2>2, <2>4, <2>5
  <1> HIDE DEF b
  <1>6. Enough # {}
    <2>1. CASE needed <= a.free
      <3>1. Oldest(a, 0) = {}
        BY SMT, <1>4, <1>5
      <3>2. Embeds(Oldest(a, 0)) = 0
        BY <3>1, EmbedsNone
      <3>3. needed <= a.free + Embeds(Oldest(a, 0))
        BY SMT, <1>1, <2>1, <3>2
      <3>4. QED BY SMT, <1>4, <3>3
    <2>2. CASE needed <= a.reclaimable
      <3>1. Oldest(a, l) = Unused(a)
        <4>1. l \in 0..l
          BY SMT, <1>4
        <4>2. Oldest(a, l) = {s[i] : i \in 1..l}
          BY <1>5, <4>1
        <4> HIDE DEF s, l
        <4>3. Range(s) = {s[i] : i \in 1..l}
          BY <1>4 DEF Range
        <4>4. QED BY <1>2, <4>2, <4>3
      <3>2. Embeds(C) = Embeds(Used(a)) + Embeds(C \ Used(a)) /\ Embeds(C \ Used(a)) \in Nat
        BY <1>1, EmbedsSubset
      <3>3. Embeds(Oldest(a, l)) = Embeds(C \ Used(a))
        BY <1>1, <3>1
      <3>4. needed <= a.free + Embeds(Oldest(a, l))
        BY SMT, <1>1, <1>2, <2>2, <3>2, <3>3
      <3>5. QED BY SMT, <1>4, <3>4
    <2>3. QED BY <2>1, <2>2
  <1>7. Enough \in SUBSET Nat
    BY SMT, <1>4
  <1>8. n \in Enough
    <2> HIDE DEF Enough
    <2>1. QED BY <1>6, <1>7, LeastIn
  <1>9. n \in 0..l /\ needed <= a.free + Embeds(out)
    BY <1>8
  <1>10. out = {s[i] : i \in 1..n}
    BY <1>5, <1>9
  <1> HIDE DEF n, Enough, out, s, C, l
  <1>11. /\ b.freeable \in Seq(Hashes) /\ IsInjective(b.freeable)
         /\ Range(b.freeable) = {s[i] : i \in (n + 1)..l}
    <2>1. n \in Nat /\ l \in Nat /\ n <= l
      BY SMT, <1>4, <1>9
    <2>1a. s \in Seq(Hashes)
      BY <1>1
    <2>2. n <= Len(s) /\ b.freeable = SubSeq(s, n + 1, l) /\ l = Len(s) /\ l <= Len(s)
      BY SMT, <1>3, <2>1 DEF l
    <2>3. /\ SubSeq(s, n + 1, l) \in Seq(Hashes)
          /\ Range(SubSeq(s, n + 1, l)) = {s[i] : i \in (n + 1)..l}
          /\ IsInjective(s) => IsInjective(SubSeq(s, n + 1, l))
      <3>1. s \in Seq(Hashes) /\ n \in Nat /\ l \in Nat /\ n <= l /\ l <= Len(s)
        BY <2>1, <2>1a, <2>2
      <3>2. QED BY SMT, <3>1, SubSeqFacts
    <2>4. QED BY <1>2, <2>2, <2>3
  <1>12. Range(b.freeable) = Unused(a) \ out /\ out \subseteq Unused(a)
    <2>1. Unused(a) = {s[i] : i \in 1..l}
      BY <1>2, <1>4 DEF Range
    <2>2. \A i \in 1..l : i \in 1..n \/ i \in (n + 1)..l
      BY SMT, <1>4, <1>9
    <2>3. \A i \in 1..n : i \in 1..l
      BY SMT, <1>4, <1>9
    <2>4. \A i \in (n + 1)..l : i \in 1..l /\ \A j \in 1..n : i # j
      BY SMT, <1>4, <1>9
    <2>5. \A i, j \in 1..l : s[i] = s[j] => i = j
      BY <1>2, <1>4 DEF IsInjective
    <2>6. QED BY SMT, <1>10, <1>11, <2>1, <2>2, <2>3, <2>4, <2>5
  <1>13. out \subseteq C /\ \A g \in out : a.cached[g] = {}
    BY <1>12 DEF Unused, C
  <1>14. /\ DOMAIN b.cached = C \ out
         /\ b.cached = [g \in C \ out |-> b.cached[g]]
         /\ \A g \in C \ out : b.cached[g] = a.cached[g]
    BY <1>3 DEF Restrict
  <1>15. b.cached \in Entries
    <2>1. DOMAIN b.cached \subseteq Hashes /\ b.cached = [g \in DOMAIN b.cached |-> b.cached[g]]
      BY <1>1, <1>14
    <2>2. \A g \in DOMAIN b.cached : b.cached[g] \subseteq Requests
      BY <1>1, <1>14
    <2>3. QED BY <2>1, <2>2, EntriesFacts
  <1>16. \A q \in Requests : Held(b, q) = Held(a, q)
    BY <1>13, <1>14 DEF Held, C
  <1>17. Used(b) = Used(a) /\ Unused(b) = Unused(a) \ out
    BY <1>13, <1>14 DEF Used, Unused, C
  <1>18. /\ IsFiniteSet(C \ out) /\ Embeds(out) \in Nat /\ Embeds(C \ out) \in Nat
         /\ Embeds(C) = Embeds(out) + Embeds(C \ out)
    BY <1>1, <1>13, EmbedsSubset
  <1>19. b.free = CacheSize - Embeds(C \ out) /\ b.free >= 0 /\ b.free \in Int
         /\ needed <= b.free /\ a.free <= b.free
    BY SMT, <1>1, <1>2, <1>3, <1>9, <1>18
  <1>20. b.freed = a.freed \cup (C \ DOMAIN b.cached) /\ b.freed \subseteq Hashes
    BY <1>1, <1>3, <1>13, <1>14
  <1>21. b \in Manager
    BY <1>1, <1>3, <1>11, <1>15, <1>19, <1>20 DEF Manager
  <1>22. \A q \in Requests : b.ids[q] \subseteq DOMAIN Features[q] /\ Held(b, q) \subseteq HashesOf(q, b.ids[q])
    BY <1>2, <1>3, <1>16
  <1>23. b.free = CacheSize - Embeds(DOMAIN b.cached) /\ IsFiniteSet(DOMAIN b.cached)
         /\ b.reclaimable = CacheSize - Embeds(Used(b)) /\ Range(b.freeable) = Unused(b)
    BY <1>2, <1>3, <1>12, <1>14, <1>17, <1>18, <1>19
  <1>24. CacheOK(b)
    BY <1>11, <1>19, <1>21, <1>22, <1>23 DEF CacheOK
  <1>25. QED BY <1>3, <1>14, <1>16, <1>19, <1>20, <1>24 DEF b, C

\* The order in which free_encoder_input makes entries freeable: each entry
\* that loses its last reference once, at its first input.
NewlyFree(r, I, U) ==
    LET firsts == {i \in I : /\ HashOf(r, i) \in U
                             /\ \A j \in I : HashOf(r, j) = HashOf(r, i) => i <= j}
        order == Keep([i \in 1..Len(Features[r]) |-> i], firsts)
    IN  [k \in 1..Len(order) |-> HashOf(r, order[k])]

\* This order has every such entry once.
LEMMA FreeOrder ==
    ASSUME NEW r \in Requests, NEW I, I \subseteq DOMAIN Features[r], NEW U,
           U \subseteq HashesOf(r, I)
    PROVE  /\ NewlyFree(r, I, U) \in Seq(Hashes) /\ IsInjective(NewlyFree(r, I, U))
           /\ Range(NewlyFree(r, I, U)) = U
  <1> USE Zenon
  <1> DEFINE N == Len(Features[r])
             firsts == {i \in I : /\ HashOf(r, i) \in U
                                  /\ \A j \in I : HashOf(r, j) = HashOf(r, i) => i <= j}
             all == [i \in 1..N |-> i]
             order == Keep(all, firsts)
             new == [k \in 1..Len(order) |-> HashOf(r, order[k])]
  <1>1. /\ N \in Nat /\ DOMAIN Features[r] = 1..N /\ HashesOf(r, I) \in SUBSET Hashes
        /\ \A h \in HashesOf(r, I) : \E i \in I : HashOf(r, i) = h
    BY HashesOfFacts
  <1>2. all \in Seq(Nat) /\ IsInjective(all) /\ Range(all) = 1..N
    <2>1. all \in [1..N -> Nat]
      BY SMT, <1>1
    <2>2. all \in Seq(Nat)
      BY <1>1, <2>1, FunSeq
    <2>3. QED BY <2>2 DEF IsInjective, Range
  <1>3. firsts \subseteq 1..N /\ firsts \subseteq I
    BY <1>1
  <1> HIDE DEF all
  <1>4. order \in Seq(Nat) /\ IsInjective(order) /\ Range(order) = firsts
    <2> HIDE DEF firsts
    <2>1. order \in Seq(Nat) /\ IsInjective(order) /\ Range(order) = Range(all) \cap firsts
      BY <1>2, KeepFacts
    <2>2. QED BY <1>2, <1>3, <2>1
  <1> HIDE DEF order
  <1>5. /\ Len(order) \in Nat /\ DOMAIN order = 1..Len(order)
        /\ \A k \in 1..Len(order) : order[k] \in firsts
        /\ \A i \in firsts : \E k \in 1..Len(order) : order[k] = i
    <2> HIDE DEF firsts
    <2>1. QED BY <1>4, SeqFun
  <1>6. \A k \in 1..Len(order) : new[k] = HashOf(r, order[k]) /\ new[k] \in U
    BY <1>5
  <1>7. U \subseteq Hashes
    BY <1>1
  <1>8. new \in Seq(Hashes) /\ DOMAIN new = 1..Len(order)
    <2>1. new \in [1..Len(order) -> Hashes]
      BY <1>6, <1>7
    <2> HIDE DEF new
    <2>2. QED BY <1>5, <2>1, FunSeq
  <1> HIDE DEF new
  <1>9. IsInjective(new)
    <2>1. SUFFICES ASSUME NEW k \in 1..Len(order), NEW l \in 1..Len(order), new[k] = new[l] PROVE k = l
      BY <1>8 DEF IsInjective
    <2>2. order[k] \in firsts /\ order[l] \in firsts /\ HashOf(r, order[k]) = HashOf(r, order[l])
      BY <1>5, <1>6, <2>1
    <2>3. order[k] <= order[l] /\ order[l] <= order[k] /\ order[k] \in Nat /\ order[l] \in Nat
      BY SMT, <1>1, <1>3, <2>2
    <2>4. order[k] = order[l]
      BY SMT, <2>3
    <2>5. QED BY <1>4, <1>5, <2>4 DEF IsInjective
  <1>10. ASSUME NEW h \in U PROVE h \in Range(new)
    <2> DEFINE S == {i \in I : HashOf(r, i) = h}
    <2>1. S \in SUBSET Nat /\ S # {}
      BY SMT, <1>1
    <2>2. PICK i \in S : \A j \in S : i <= j
      BY <2>1, LeastExists
    <2>3. i \in firsts
      BY <2>2
    <2>4. PICK k \in 1..Len(order) : order[k] = i
      BY <1>5, <2>3
    <2>5. new[k] = h
      BY <1>6, <2>2, <2>4
    <2>6. QED BY <1>8, <2>5 DEF Range
  <1>11. Range(new) = U
    BY <1>6, <1>8, <1>10 DEF Range
  <1>12. NewlyFree(r, I, U) = new
    BY DEF NewlyFree, new, order, all
  <1>13. QED BY <1>8, <1>9, <1>11, <1>12

\* What freeing the inputs I of r makes of the manager a.
Returned(a, b, r, I) ==
    /\ CacheOK(b)
    /\ DOMAIN b.cached = DOMAIN a.cached /\ b.free = a.free /\ b.freed = a.freed
    /\ b.ids = [a.ids EXCEPT ![r] = @ \ I]
    /\ Held(b, r) = Held(a, r) \ HashesOf(r, I)
    /\ \A s \in Requests : s # r => Held(b, s) = Held(a, s)

\* free_encoder_input: entries without references become freeable, nothing is
\* evicted.
LEMMA FreeOK ==
    ASSUME NEW a, CacheOK(a), NEW r \in Requests, NEW I, I \subseteq a.ids[r]
    PROVE  Returned(a, FreeInputs(a, r, I), r, I)
  <1> USE Zenon
  <1> DEFINE b == FreeInputs(a, r, I)
             C == DOMAIN a.cached
             lost == HashesOf(r, I)
             U == {h \in lost \cap C : a.cached[h] = {r}}
             new == NewlyFree(r, I, U)
  <1>1. /\ a \in Manager /\ C \in SUBSET Hashes /\ IsFiniteSet(C)
        /\ a.cached \in Entries /\ \A g \in C : a.cached[g] \subseteq Requests
        /\ a.free \in Int /\ a.reclaimable \in Int /\ a.freeable \in Seq(Hashes)
        /\ a.ids \in [Requests -> SUBSET Nat] /\ a.freed \subseteq Hashes
        /\ Embeds(C) \in Nat /\ Embeds(Used(a)) \in Nat
        /\ Used(a) \subseteq C /\ Unused(a) = C \ Used(a)
        /\ IsFiniteSet(Used(a)) /\ IsFiniteSet(Unused(a)) /\ CacheSize \in Nat
    BY CacheFacts
  <1>2. /\ IsInjective(a.freeable) /\ Range(a.freeable) = Unused(a)
        /\ a.free = CacheSize - Embeds(C) /\ a.free >= 0
        /\ a.reclaimable = CacheSize - Embeds(Used(a))
        /\ \A s \in Requests : a.ids[s] \subseteq DOMAIN Features[s] /\ Held(a, s) \subseteq HashesOf(s, a.ids[s])
    BY DEF CacheOK
  <1>3. I \subseteq DOMAIN Features[r] /\ U \subseteq HashesOf(r, I)
    BY <1>2
  <1>4. new \in Seq(Hashes) /\ IsInjective(new) /\ Range(new) = U
    <2> HIDE DEF U
    <2>1. QED BY <1>3, FreeOrder
  <1>5. /\ b.free = a.free /\ b.freed = a.freed
        /\ b.ids = [a.ids EXCEPT ![r] = @ \ I]
        /\ b.cached = [h \in C |-> IF h \in lost THEN a.cached[h] \ {r} ELSE a.cached[h]]
        /\ b.freeable = a.freeable \o new
        /\ b.reclaimable = a.reclaimable + Embeds(U)
        /\ b = [free |-> b.free, reclaimable |-> b.reclaimable, cached |-> b.cached, ids |-> b.ids,
                freeable |-> b.freeable, freed |-> b.freed]
    <2> DEFINE x1 == [a.ids EXCEPT ![r] = @ \ I]
               x2 == [h \in C |-> IF h \in lost THEN a.cached[h] \ {r} ELSE a.cached[h]]
               x3 == a.freeable \o new
               x4 == a.reclaimable + Embeds(U)
    <2>1. b = [a EXCEPT !.ids = x1, !.cached = x2, !.freeable = x3, !.reclaimable = x4]
      BY <1>1 DEF FreeInputs, Manager, NewlyFree
    <2> HIDE DEF x1, x2, x3, x4, b
    <2>2. a \in Manager
      BY <1>1
    <2>3. /\ b.ids = x1 /\ b.cached = x2 /\ b.freeable = x3 /\ b.reclaimable = x4
          /\ b.free = a.free /\ b.freed = a.freed
          /\ b = [free |-> b.free, reclaimable |-> b.reclaimable, cached |-> b.cached, ids |-> b.ids,
                  freeable |-> b.freeable, freed |-> b.freed]
      BY <2>1, <2>2 DEF Manager
    <2>4. QED BY <2>3 DEF x1, x2, x3, x4
  <1> HIDE DEF b, C, new
  <1>6. /\ DOMAIN b.cached = C /\ b.cached = [h \in C |-> b.cached[h]]
        /\ \A h \in C : b.cached[h] = IF h \in lost THEN a.cached[h] \ {r} ELSE a.cached[h]
    BY <1>5
  <1> HIDE DEF lost
  <1>7. b.cached \in Entries
    <2>1. \A g \in C : b.cached[g] \subseteq Requests
      BY <1>1, <1>6
    <2>2. QED BY <1>1, <1>6, <2>1, EntriesFacts
  <1>8. /\ Held(b, r) = Held(a, r) \ lost
        /\ \A s \in Requests : s # r => Held(b, s) = Held(a, s)
    BY <1>6 DEF Held, C
  <1>9. Used(b) = Used(a) \ U /\ Unused(b) = Unused(a) \cup U /\ U \subseteq Used(a)
    <2>1. \A h \in C : b.cached[h] = {} <=> (a.cached[h] = {} \/ h \in U)
      <3>1. TAKE h \in C
      <3>2. CASE h \in lost
        <4>1. b.cached[h] = a.cached[h] \ {r}
          BY <1>6, <3>2
        <4>2. a.cached[h] \ {r} = {} <=> (a.cached[h] = {} \/ a.cached[h] = {r})
          OBVIOUS
        <4>3. h \in U <=> a.cached[h] = {r}
          BY <3>2
        <4>4. QED BY <4>1, <4>2, <4>3
      <3>3. CASE h \notin lost
        BY <1>6, <3>3
      <3>4. QED BY <3>2, <3>3
    <2>2. \A h \in U : h \in C /\ a.cached[h] # {}
      OBVIOUS
    <2> HIDE DEF U
    <2>3. QED BY <1>6, <2>1, <2>2 DEF Used, Unused, C
  <1> HIDE DEF U
  <1>10. /\ b.freeable \in Seq(Hashes) /\ IsInjective(b.freeable) /\ Range(b.freeable) = Unused(b)
    <2>1. \A x \in Range(a.freeable) : x \notin Range(new)
      BY <1>1, <1>2, <1>4, <1>9
    <2> DEFINE s == a.freeable
    <2>2. s \in Seq(Hashes) /\ new \in Seq(Hashes) /\ IsInjective(s) /\ IsInjective(new)
      BY <1>1, <1>2, <1>4
    <2>3. /\ s \o new \in Seq(Hashes) /\ Range(s \o new) = Range(s) \cup Range(new)
          /\ IsInjective(s \o new)
      <3> HIDE DEF s
      <3>1. \A x \in Range(s) : x \notin Range(new)
        BY <2>1 DEF s
      <3>2. QED BY SMT, <2>2, <3>1, ConcatFacts
    <2>4. QED BY <1>2, <1>4, <1>5, <1>9, <2>3
  <1>11. b.reclaimable = CacheSize - Embeds(Used(b)) /\ b.reclaimable \in Int
    <2>1. Used(a) \in SUBSET Hashes /\ U \in SUBSET Used(a)
      BY <1>1, <1>9
    <2>2. /\ Embeds(U) \in Nat /\ Embeds(Used(a) \ U) \in Nat
          /\ Embeds(Used(a)) = Embeds(U) + Embeds(Used(a) \ U)
      BY <1>1, <2>1, EmbedsSubset
    <2>3. Embeds(Used(b)) = Embeds(Used(a) \ U)
      BY <1>9
    <2>4. QED BY SMT, <1>1, <1>2, <1>5, <2>2, <2>3
  <1>12. b.ids \in [Requests -> SUBSET Nat]
    BY <1>1, <1>5
  <1>13. \A s \in Requests : b.ids[s] \subseteq DOMAIN Features[s] /\ Held(b, s) \subseteq HashesOf(s, b.ids[s])
    <2>1. TAKE s \in Requests
    <2>2. CASE s = r
      <3>1. b.ids[r] = a.ids[r] \ I
        BY <1>1, <1>5
      <3>2. HashesOf(r, a.ids[r]) \ lost \subseteq HashesOf(r, a.ids[r] \ I)
        BY DEF HashesOf, lost
      <3>3. QED BY <1>2, <1>8, <2>2, <3>1, <3>2
    <2>3. CASE s # r
      <3>1. b.ids[s] = a.ids[s]
        BY <1>1, <1>5, <2>3
      <3>2. QED BY <1>2, <1>8, <2>3, <3>1
    <2>4. QED BY <2>2, <2>3
  <1>14. b \in Manager
    BY <1>1, <1>5, <1>7, <1>10, <1>11, <1>12 DEF Manager
  <1>15. CacheOK(b)
    BY <1>1, <1>2, <1>5, <1>6, <1>10, <1>11, <1>13, <1>14 DEF CacheOK
  <1>16. Returned(a, b, r, I)
    BY <1>5, <1>6, <1>8, <1>15 DEF Returned, C, lost
  <1>17. QED BY <1>16 DEF b

\* What allocate makes of the manager a.
Allocated(a, b, r, I) ==
    /\ CacheOK(b)
    /\ DOMAIN b.cached = DOMAIN a.cached \cup HashesOf(r, I) /\ b.freed = a.freed
    /\ b.ids = [a.ids EXCEPT ![r] = @ \cup I]
    /\ Held(b, r) = Held(a, r) \cup HashesOf(r, I)
    /\ \A s \in Requests : s # r => Held(b, s) = Held(a, s)

\* allocate: new entries, each with a reference of the request they are
\* computed for, and the assertions on the counters hold.
LEMMA AllocateOK ==
    ASSUME NEW a, CacheOK(a), NEW r \in Requests, NEW I, Fit(a, r, I)
    PROVE  Allocated(a, Allocate(a, r, I), r, I)
  <1> USE Zenon
  <1> DEFINE b == Allocate(a, r, I)
             C == DOMAIN a.cached
             new == HashesOf(r, I)
             e == InputEmbeds(r, I)
  <1>1. /\ a \in Manager /\ C \in SUBSET Hashes /\ IsFiniteSet(C)
        /\ a.cached \in Entries /\ \A g \in C : a.cached[g] \subseteq Requests
        /\ a.free \in Int /\ a.reclaimable \in Int /\ a.freeable \in Seq(Hashes)
        /\ a.ids \in [Requests -> SUBSET Nat] /\ a.freed \subseteq Hashes
        /\ Embeds(C) \in Nat /\ Embeds(Used(a)) \in Nat
        /\ Used(a) \subseteq C /\ Unused(a) = C \ Used(a)
        /\ IsFiniteSet(Used(a)) /\ IsFiniteSet(Unused(a)) /\ CacheSize \in Nat
    BY CacheFacts
  <1>2. /\ IsInjective(a.freeable) /\ Range(a.freeable) = Unused(a)
        /\ a.free = CacheSize - Embeds(C) /\ a.free >= 0
        /\ a.reclaimable = CacheSize - Embeds(Used(a))
        /\ \A s \in Requests : a.ids[s] \subseteq DOMAIN Features[s] /\ Held(a, s) \subseteq HashesOf(s, a.ids[s])
    BY DEF CacheOK
  <1>3. /\ I \subseteq DOMAIN Features[r] /\ Distinct(r, I) /\ new \cap C = {}
        /\ Embeds(new) <= a.free
    BY DEF Fit
  <1>4. /\ IsFiniteSet(new) /\ new \in SUBSET Hashes /\ e = Embeds(new) /\ I \subseteq Nat
    <2>1. e = Embeds(new)
      BY <1>3, InputEmbedsFacts
    <2>2. QED BY SMT, <1>3, <2>1, HashesOfFacts
  <1>5. /\ b.free = a.free - e /\ b.freed = a.freed /\ b.reclaimable = a.reclaimable - e
        /\ b.ids = [a.ids EXCEPT ![r] = @ \cup I] /\ b.freeable = a.freeable
        /\ b.cached = [h \in C \cup new |-> (IF h \in C THEN a.cached[h] ELSE {})
                                              \cup (IF h \in new THEN {r} ELSE {})]
        /\ b = [free |-> b.free, reclaimable |-> b.reclaimable, cached |-> b.cached, ids |-> b.ids,
                freeable |-> b.freeable, freed |-> b.freed]
    <2> DEFINE x1 == [h \in C \cup new |-> (IF h \in C THEN a.cached[h] ELSE {})
                                              \cup (IF h \in new THEN {r} ELSE {})]
               x2 == [a.ids EXCEPT ![r] = @ \cup I]
               x3 == a.free - e
               x4 == a.reclaimable - e
    <2>1. b = [a EXCEPT !.cached = x1, !.ids = x2, !.free = x3, !.reclaimable = x4]
      BY <1>1 DEF Allocate, Manager
    <2> HIDE DEF x1, x2, x3, x4, b
    <2>2. a \in Manager
      BY <1>1
    <2>3. /\ b.cached = x1 /\ b.ids = x2 /\ b.free = x3 /\ b.reclaimable = x4
          /\ b.freeable = a.freeable /\ b.freed = a.freed
          /\ b = [free |-> b.free, reclaimable |-> b.reclaimable, cached |-> b.cached, ids |-> b.ids,
                  freeable |-> b.freeable, freed |-> b.freed]
      BY <2>1, <2>2 DEF Manager
    <2>4. QED BY <2>3 DEF x1, x2, x3, x4
  <1> HIDE DEF b, C, new, e
  <1>6. /\ DOMAIN b.cached = C \cup new /\ b.cached = [h \in C \cup new |-> b.cached[h]]
        /\ (\A h \in C : b.cached[h] = a.cached[h]) /\ \A h \in new : b.cached[h] = {r}
    <2>1. \A h \in C \cup new : b.cached[h] = (IF h \in C THEN a.cached[h] ELSE {})
                                              \cup (IF h \in new THEN {r} ELSE {})
      BY <1>5
    <2>2. DOMAIN b.cached = C \cup new /\ b.cached = [h \in C \cup new |-> b.cached[h]]
      BY <1>5
    <2>3. \A h \in C : h \notin new
      BY <1>3
    <2>4. \A h \in C : b.cached[h] = a.cached[h]
      BY <2>1, <2>3
    <2>5. \A h \in new : b.cached[h] = {r}
      BY <2>1, <2>3
    <2>6. QED BY <2>2, <2>4, <2>5
  <1>7. b.cached \in Entries
    <2>1. \A g \in C \cup new : b.cached[g] \subseteq Requests
      BY <1>1, <1>6
    <2>2. C \cup new \subseteq Hashes
      BY <1>1, <1>4
    <2>3. QED BY <1>6, <2>1, <2>2, EntriesFacts
  <1>8. /\ Held(b, r) = Held(a, r) \cup new
        /\ \A s \in Requests : s # r => Held(b, s) = Held(a, s)
    <2>1. \A s : Held(b, s) = {h \in C \cup new : s \in b.cached[h]}
      BY <1>6 DEF Held
    <2>2. \A s : Held(a, s) = {h \in C : s \in a.cached[h]}
      BY DEF Held, C
    <2>3. Held(b, r) = Held(a, r) \cup new
      <3>1. \A h \in new : h \in Held(b, r)
        BY <1>6, <2>1
      <3>2. ASSUME NEW h \in C PROVE h \in Held(b, r) <=> h \in Held(a, r)
        <4>1. b.cached[h] = a.cached[h]
          BY <1>6
        <4>2. h \in Held(b, r) <=> r \in b.cached[h]
          BY <2>1
        <4>3. h \in Held(a, r) <=> r \in a.cached[h]
          BY <2>2
        <4>4. QED BY <4>1, <4>2, <4>3
      <3>3. Held(b, r) \subseteq C \cup new /\ Held(a, r) \subseteq C
        BY <2>1, <2>2
      <3>4. QED BY <3>1, <3>2, <3>3
    <2>4. ASSUME NEW s \in Requests, s # r PROVE Held(b, s) = Held(a, s)
      <3>1. \A h \in new : s \notin b.cached[h]
        BY SMT, <1>6, <2>4
      <3>2. QED BY <1>6, <2>1, <2>2, <3>1
    <2>5. QED BY <2>3, <2>4
  <1>9. Used(b) = Used(a) \cup new /\ Unused(b) = Unused(a) /\ Used(a) \cap new = {}
    <2>1. Used(b) = {h \in C \cup new : b.cached[h] # {}} /\ Unused(b) = {h \in C \cup new : b.cached[h] = {}}
      BY <1>6 DEF Used, Unused
    <2>2. Used(a) = {h \in C : a.cached[h] # {}} /\ Unused(a) = {h \in C : a.cached[h] = {}}
      BY DEF Used, Unused, C
    <2>3. \A h \in new : b.cached[h] # {} /\ h \notin C
      BY <1>3, <1>6
    <2>4. Used(b) = Used(a) \cup new
      BY <1>6, <2>1, <2>2, <2>3
    <2>5. Unused(b) = Unused(a)
      BY <1>6, <2>1, <2>2, <2>3
    <2>6. QED BY <2>2, <2>3, <2>4, <2>5
  <1>10. /\ IsFiniteSet(C \cup new) /\ Embeds(C \cup new) = Embeds(C) + Embeds(new)
         /\ Embeds(Used(a) \cup new) = Embeds(Used(a)) + Embeds(new) /\ Embeds(new) \in Nat
    <2>1. Used(a) \in SUBSET Hashes /\ C \cap new = {}
      BY <1>1, <1>3
    <2>2. Embeds(new) \in Nat
      BY <1>4, EmbedsType
    <2>3. IsFiniteSet(C \cup new) /\ Embeds(C \cup new) = Embeds(C) + Embeds(new)
      BY <1>1, <1>4, <2>1, EmbedsUnion
    <2>4. Embeds(Used(a) \cup new) = Embeds(Used(a)) + Embeds(new)
      BY <1>1, <1>4, <1>9, <2>1, EmbedsUnion
    <2>5. QED BY <2>2, <2>3, <2>4
  <1>11. /\ b.free = CacheSize - (Embeds(C) + Embeds(new)) /\ b.free >= 0 /\ b.free \in Int
         /\ b.reclaimable = CacheSize - (Embeds(Used(a)) + Embeds(new)) /\ b.reclaimable \in Int
    BY SMT, <1>1, <1>2, <1>3, <1>4, <1>5, <1>10
  <1>12. /\ b.free = CacheSize - Embeds(DOMAIN b.cached) /\ IsFiniteSet(DOMAIN b.cached)
         /\ b.reclaimable = CacheSize - Embeds(Used(b))
         /\ Range(b.freeable) = Unused(b)
    BY <1>2, <1>5, <1>6, <1>9, <1>10, <1>11
  <1>13. b.ids \in [Requests -> SUBSET Nat]
    BY <1>1, <1>4, <1>5
  <1>14. \A s \in Requests : b.ids[s] \subseteq DOMAIN Features[s] /\ Held(b, s) \subseteq HashesOf(s, b.ids[s])
    <2>1. TAKE s \in Requests
    <2>2. CASE s = r
      <3>1. b.ids[r] = a.ids[r] \cup I
        BY <1>1, <1>5
      <3>2. HashesOf(r, a.ids[r] \cup I) = HashesOf(r, a.ids[r]) \cup new
        BY DEF HashesOf, new
      <3>3. QED BY <1>2, <1>3, <1>8, <2>2, <3>1, <3>2
    <2>3. CASE s # r
      <3>1. b.ids[s] = a.ids[s]
        BY <1>1, <1>5, <2>3
      <3>2. QED BY <1>2, <1>8, <2>3, <3>1
    <2>4. QED BY <2>2, <2>3
  <1>15. b \in Manager
    BY <1>1, <1>5, <1>7, <1>11, <1>13 DEF Manager
  <1>16. CacheOK(b)
    BY <1>2, <1>5, <1>11, <1>12, <1>14, <1>15 DEF CacheOK
  <1>17. Allocated(a, b, r, I)
    BY <1>5, <1>6, <1>8, <1>16 DEF Allocated, C, new
  <1>18. QED BY <1>17 DEF b

\* get_freed_mm_hashes only clears the list of evicted hashes.
LEMMA TakeFreedOK ==
    ASSUME NEW a, CacheOK(a)
    PROVE  LET b == TakeFreed(a) IN
           /\ CacheOK(b) /\ b.freed = {} /\ b.cached = a.cached /\ b.ids = a.ids
           /\ b.free = a.free
           /\ \A s \in Requests : Held(b, s) = Held(a, s)
  <1> USE Zenon
  <1> DEFINE b == TakeFreed(a)
  <1>1. a \in Manager
    BY DEF CacheOK
  <1>2. /\ b.free = a.free /\ b.reclaimable = a.reclaimable /\ b.cached = a.cached /\ b.ids = a.ids
        /\ b.freeable = a.freeable /\ b.freed = {} /\ b \in Manager
    BY <1>1 DEF TakeFreed, Manager
  <1> HIDE DEF b
  <1>3. Used(b) = Used(a) /\ Unused(b) = Unused(a) /\ \A s \in Requests : Held(b, s) = Held(a, s)
    BY <1>2 DEF Used, Unused, Held
  <1>4. CacheOK(b)
    BY <1>2, <1>3 DEF CacheOK
  <1>5. QED BY <1>2, <1>3, <1>4 DEF b

\* The manager after __init__ and after reset.
LEMMA EmptyCacheOK ==
    /\ CacheOK(EmptyCache) /\ EmptyCache.freed = {} /\ DOMAIN EmptyCache.cached = {}
    /\ EmptyCache.ids = [r \in Requests |-> {}]
  <1> USE Zenon
  <1> DEFINE b == EmptyCache
             none == [h \in {} |-> {}]
  <1>1. /\ b.free = CacheSize /\ b.reclaimable = CacheSize /\ b.cached = none
        /\ b.ids = [r \in Requests |-> {}] /\ b.freeable = <<>> /\ b.freed = {}
        /\ b = [free |-> b.free, reclaimable |-> b.reclaimable, cached |-> b.cached, ids |-> b.ids,
                freeable |-> b.freeable, freed |-> b.freed]
    BY DEF EmptyCache
  <1>2. DOMAIN none = {}
    OBVIOUS
  <1>3. none \in Entries
    <2>1. none = [h \in DOMAIN none |-> none[h]] /\ \A h \in DOMAIN none : none[h] \subseteq Requests
      BY <1>2
    <2> HIDE DEF none
    <2>2. QED BY <1>2, <2>1, EntriesFacts
  <1> HIDE DEF b, none
  <1>4. Used(b) = {} /\ Unused(b) = {} /\ \A s \in Requests : Held(b, s) = {}
    BY <1>1, <1>2 DEF Used, Unused, Held
  <1>5. b.freeable \in Seq(Hashes) /\ IsInjective(b.freeable) /\ Range(b.freeable) = {}
    BY SMT, <1>1 DEF IsInjective, Range
  <1>6. CacheSize \in Nat
    BY FeaturesAssumption
  <1>7. b.ids \in [Requests -> SUBSET Nat] /\ \A s \in Requests : b.ids[s] = {}
    BY <1>1
  <1>8. b \in Manager
    <2>1. b.freed \in SUBSET Hashes /\ b.free \in Int /\ b.reclaimable \in Int /\ b.cached \in Entries
      BY SMT, <1>1, <1>3, <1>6
    <2>2. QED BY <1>1, <1>5, <1>7, <2>1 DEF Manager
  <1>9. IsFiniteSet({}) /\ Embeds({}) = 0
    BY FS_EmptySet, EmbedsNone
  <1>10. /\ IsFiniteSet(DOMAIN b.cached) /\ b.free = CacheSize - Embeds(DOMAIN b.cached) /\ b.free >= 0
         /\ b.reclaimable = CacheSize - Embeds(Used(b)) /\ Range(b.freeable) = Unused(b)
    <2>1. DOMAIN b.cached = {}
      BY <1>1, <1>2
    <2>2. Embeds(DOMAIN b.cached) = 0 /\ Embeds(Used(b)) = 0 /\ IsFiniteSet(DOMAIN b.cached)
      BY <1>4, <1>9, <2>1
    <2>3. QED BY SMT, <1>1, <1>4, <1>5, <1>6, <2>2
  <1>11. CacheOK(b)
    BY <1>4, <1>5, <1>7, <1>8, <1>10 DEF CacheOK
  <1>12. QED BY <1>1, <1>2, <1>11 DEF b

--------------------------------------------------------------------------------
\* _try_schedule_encoder_inputs.

\* The inputs of a request follow each other in its prompt.
LEMMA OffsetsGrow ==
    ASSUME NEW r \in Requests, NEW i \in DOMAIN Features[r], NEW j \in DOMAIN Features[r], i < j
    PROVE  Features[r][j].offset >= Features[r][i].offset + Features[r][i].length
  <1> USE Zenon
  <1> DEFINE F(k) == Features[r][k]
             Good(k) == F(k).offset >= F(i).offset + F(i).length
             Bad == {k \in DOMAIN Features[r] : i < k /\ ~Good(k)}
  <1>1. DOMAIN Features[r] = 1..Len(Features[r]) /\ Len(Features[r]) \in Nat
    BY HashesOfFacts
  <1>2. \A k \in DOMAIN Features[r] : F(k).offset \in Nat /\ F(k).length \in Nat
    BY InputFacts
  <1>3. \A k \in DOMAIN Features[r] : k > 1 => F(k).offset >= F(k - 1).offset + F(k - 1).length
    BY FeaturesAssumption
  <1> HIDE DEF F
  <1>4. SUFFICES ASSUME Bad # {} PROVE FALSE
    BY DEF F
  <1>5. Bad \in SUBSET Nat
    BY SMT, <1>1
  <1>6. PICK k \in Bad : \A x \in Bad : k <= x
    BY <1>4, <1>5, LeastExists
  <1>7. k > 1 /\ k \in DOMAIN Features[r] /\ k \in Nat /\ k - 1 \in DOMAIN Features[r] /\ ~(k <= k - 1)
    BY SMT, <1>1, <1>6
  <1>8. F(k).offset >= F(k - 1).offset + F(k - 1).length
    BY <1>3, <1>7
  <1>9. CASE k - 1 = i
    BY <1>6, <1>8, <1>9
  <1>10. CASE k - 1 # i
    <2>1. i < k - 1 /\ k - 1 \notin Bad
      BY SMT, <1>1, <1>6, <1>7, <1>10
    <2>2. F(k - 1).offset >= F(i).offset + F(i).length
      BY <1>7, <2>1
    <2>3. F(k).offset >= F(i).offset + F(i).length
      BY SMT, <1>2, <1>7, <1>8, <2>2
    <2>4. QED BY <1>6, <2>3
  <1>11. QED BY <1>9, <1>10

\* Where the loop of _try_schedule_encoder_inputs starts, and the inputs it
\* looks at.
TryFirst(n) == [m |-> m, n |-> n, inputs |-> {}, compute |-> step.compute, stop |-> FALSE]
Window(r, start, n) == IF n = 0 THEN {} ELSE InWindow(r, start, start + n + config.shift)

\* The recursion of the loop.
LEMMA TriesIs ==
    ASSUME NEW r \in Requests, NEW start, NEW n
    PROVE  \A k \in 0..Len(Features[r]) : Tries(r, start, n)[k] =
              IF k = 0 THEN TryFirst(n)
              ELSE IF k \in Window(r, start, n) THEN TryInput(Tries(r, start, n)[k - 1], r, k, start)
                   ELSE Tries(r, start, n)[k - 1]
  <1> USE Zenon
  <1> DEFINE W == Window(r, start, n)
             N == Len(Features[r])
             Step(f, k) == IF k = 0 THEN TryFirst(n)
                           ELSE IF k \in W THEN TryInput(f[k - 1], r, k, start) ELSE f[k - 1]
             Good(k, f) == f = [x \in 0..k |-> Step(f, x)]
             Bad == {k \in Nat : ~(\E f : Good(k, f))}
  <1>0. N \in Nat
    BY HashesOfFacts
  <1>1. \E f : Good(N, f)
    <2> HIDE DEF W, N
    <2>1. SUFFICES ASSUME Bad # {} PROVE FALSE
      BY <1>0
    <2>2. Bad \in SUBSET Nat
      OBVIOUS
    <2>3. PICK k \in Bad : \A x \in Bad : k <= x
      BY <2>1, <2>2, LeastExists
    <2>4. CASE k = 0
      <3> DEFINE g == [x \in 0..0 |-> TryFirst(n)]
      <3>1. \A x \in 0..0 : x = 0
        BY SMT
      <3>2. Good(0, g)
        BY <3>1
      <3>3. QED BY <2>4, <3>2
    <2>5. CASE k # 0
      <3>1. k - 1 \in Nat /\ ~(k <= k - 1)
        BY SMT, <2>5
      <3>2. PICK f : Good(k - 1, f)
        BY <2>3, <3>1
      <3> DEFINE g == [x \in 0..k |-> Step(f, x)]
      <3>3. \A x \in 0..(k - 1) : g[x] = f[x] /\ x \in 0..k
        <4>1. \A x \in 0..(k - 1) : x \in 0..k
          BY SMT, <3>1
        <4>2. \A x \in 0..k : g[x] = Step(f, x)
          OBVIOUS
        <4>3. \A x \in 0..(k - 1) : f[x] = Step(f, x)
          <5> DEFINE h == [x \in 0..(k - 1) |-> Step(f, x)]
          <5>1. \A x \in 0..(k - 1) : h[x] = Step(f, x)
            OBVIOUS
          <5>2. f = h
            BY <3>2
          <5> HIDE DEF h, Step
          <5>3. QED BY <5>1, <5>2
        <4> HIDE DEF g, Step
        <4>4. QED BY <4>1, <4>2, <4>3
      <3>4. \A x \in 0..k : x # 0 => x - 1 \in 0..(k - 1)
        BY SMT, <3>1
      <3>5. \A x \in 0..k : Step(g, x) = Step(f, x)
        <4> HIDE DEF g
        <4>1. QED BY <3>3, <3>4
      <3>6. Good(k, g)
        <4> DEFINE h == [x \in 0..k |-> Step(g, x)]
        <4>1. h = g
          BY <3>5
        <4>2. QED BY <4>1
      <3>7. QED BY <3>6
    <2>6. QED BY <2>4, <2>5
  <1>2. Tries(r, start, n) = CHOOSE f : Good(N, f)
    BY DEF Tries, Window, TryFirst
  <1>3. Good(N, Tries(r, start, n))
    BY <1>1, <1>2
  <1>4. ASSUME NEW k \in 0..N PROVE Tries(r, start, n)[k] = Step(Tries(r, start, n), k)
    <2> DEFINE f == Tries(r, start, n)
               h == [x \in 0..N |-> Step(f, x)]
    <2>1. h[k] = Step(f, k)
      OBVIOUS
    <2>2. f = h
      BY <1>3
    <2> HIDE DEF f, h, Step
    <2>3. f[k] = Step(f, k)
      BY <2>1, <2>2
    <2>4. QED BY <2>3 DEF f
  <1>5. QED BY <1>4

\* The state of the loop.
TryType == [m : Manager, n : Int, inputs : SUBSET Nat, compute : Int, stop : BOOLEAN]

\* What holds of it after any input of r: the inputs to compute fit, only r
\* gained references, and every entry that is gone is recorded.
TryBase(t, r, n) ==
    /\ t \in TryType /\ CacheOK(t.m) /\ Fit(t.m, r, t.inputs)
    /\ \A s \in Requests : s # r => t.m.ids[s] = m.ids[s] /\ Held(t.m, s) = Held(m, s)
    /\ Held(m, r) \subseteq Held(t.m, r)
    /\ DOMAIN t.m.cached \subseteq DOMAIN m.cached
    /\ t.m.freed = m.freed \cup (DOMAIN m.cached \ DOMAIN t.m.cached)
    /\ ~t.stop => t.n = n

\* The end of input j in the prompt.
End(r, j) == Features[r][j].offset + Features[r][j].length

\* What holds after the first k inputs without a drafter: those that the
\* tokens left will read are held or to be computed, a stopped loop leaves no
\* token of a later one, and a request that gained a reference has tokens
\* left.
TryHit(t, k, r, start, n) ==
    /\ \A j \in DOMAIN Features[r] : j <= k /\ Reads(r, j, start, t.n) =>
          HashOf(r, j) \in Held(t.m, r) \cup HashesOf(r, t.inputs)
    /\ t.stop => \A j \in DOMAIN Features[r] : j > k => ~Reads(r, j, start, t.n)
    /\ n > 0 /\ t.m.ids[r] # m.ids[r] =>
          t.n > 0 /\ \E j \in DOMAIN Features[r] : j <= k /\ End(r, j) > start

\* The cases of one pass, from t to u.
Passes(t, u, r, i, start) ==
    LET h == HashOf(r, i)
        scheduled == InputEmbeds(r, t.inputs)
        before == Features[r][i].offset - start - config.shift
        new == ~t.stop /\ h \notin HashesOf(r, t.inputs) /\ h \notin DOMAIN t.m.cached
        fits == NumEmbeds(h) + scheduled <= t.m.free \/ NumEmbeds(h) + scheduled <= t.m.reclaimable
    IN
    \/ (t.stop \/ h \in HashesOf(r, t.inputs)) /\ u = t
    \/ ~t.stop /\ h \in DOMAIN t.m.cached /\ u = [t EXCEPT !.m = UseCached(t.m, r, i)]
    \/ new /\ u = [t EXCEPT !.n = IF before > 0 THEN before ELSE 0, !.stop = TRUE]
    \/ new /\ fits /\ ~Reads(r, i, start, t.n) /\ u = [t EXCEPT !.m = Evict(t.m, NumEmbeds(h) + scheduled)]
    \/ new /\ fits /\ u = [t EXCEPT !.m = Evict(t.m, NumEmbeds(h) + scheduled),
                                    !.inputs = t.inputs \cup {i}, !.compute = t.compute - NumEmbeds(h)]

\* TryInput has no other case.
LEMMA TryCases ==
    ASSUME NEW t \in TryType, NEW r, NEW i, NEW start
    PROVE  Passes(t, TryInput(t, r, i, start), r, i, start)
  BY Zenon DEF Passes, TryInput, StopBefore, CanAllocate, Reclaim, IsCached, HashOf, Reads, TryType

\* Room for one more input.
LEMMA FitMore ==
    ASSUME NEW a, NEW r \in Requests, NEW I, Fit(a, r, I), NEW i \in DOMAIN Features[r],
           HashOf(r, i) \notin HashesOf(r, I), NEW b, DOMAIN b.cached \subseteq DOMAIN a.cached,
           HashOf(r, i) \notin DOMAIN a.cached,
           NumEmbeds(HashOf(r, i)) + InputEmbeds(r, I) <= b.free, b.free \in Int
    PROVE  Fit(b, r, I \cup {i})
  <1> USE Zenon
  <1> DEFINE h == HashOf(r, i)
             H == HashesOf(r, I)
  <1>1. I \subseteq DOMAIN Features[r] /\ Distinct(r, I) /\ H \cap DOMAIN a.cached = {}
    BY DEF Fit
  <1>2. InputEmbeds(r, I) = Embeds(H)
    BY <1>1, InputEmbedsFacts
  <1>3. HashesOf(r, I \cup {i}) = H \cup {h}
    BY DEF HashesOf
  <1>4. IsFiniteSet(H) /\ H \in SUBSET Hashes /\ h \in Hashes /\ NumEmbeds(h) \in Nat
    BY <1>1, HashesOfFacts, InputFacts
  <1>5. Embeds(H \cup {h}) = Embeds(H) + NumEmbeds(h) /\ Embeds(H) \in Nat
    BY <1>4, EmbedsAdd, EmbedsType
  <1>6. Embeds(HashesOf(r, I \cup {i})) = Embeds(H) + NumEmbeds(h)
    BY <1>3, <1>5
  <1>7. Embeds(HashesOf(r, I \cup {i})) <= b.free
    BY SMT, <1>2, <1>4, <1>5, <1>6
  <1>8. Distinct(r, I \cup {i})
    BY <1>1 DEF Distinct, HashesOf
  <1>9. HashesOf(r, I \cup {i}) \cap DOMAIN b.cached = {}
    BY <1>1, <1>3
  <1>10. QED BY <1>1, <1>7, <1>8, <1>9 DEF Fit

\* Evicting keeps the room for the inputs found so far.
LEMMA FitLess ==
    ASSUME NEW a, NEW r \in Requests, NEW I, Fit(a, r, I), NEW b, DOMAIN b.cached \subseteq DOMAIN a.cached,
           a.free <= b.free, a.free \in Int, b.free \in Int
    PROVE  Fit(b, r, I)
  <1>1. /\ I \subseteq DOMAIN Features[r] /\ Distinct(r, I) /\ HashesOf(r, I) \cap DOMAIN a.cached = {}
        /\ Embeds(HashesOf(r, I)) <= a.free
    BY Zenon DEF Fit
  <1>2. Embeds(HashesOf(r, I)) \in Nat
    BY Zenon, <1>1, HashesOfFacts, EmbedsType
  <1>3. QED BY <1>1, <1>2 DEF Fit

\* One pass keeps the space of the manager, and what other requests refer to.
LEMMA TryInputBase ==
    ASSUME NEW r \in Requests, NEW i \in DOMAIN Features[r], NEW start \in Int, NEW n \in Int,
           NEW t, TryBase(t, r, n), config.shift \in Nat, CacheOK(m)
    PROVE  TryBase(TryInput(t, r, i, start), r, n)
  <1> USE Zenon
  <1> DEFINE u == TryInput(t, r, i, start)
             h == HashOf(r, i)
             e == NumEmbeds(h) + InputEmbeds(r, t.inputs)
             before == Features[r][i].offset - start - config.shift
  <1>1. /\ t \in TryType /\ CacheOK(t.m) /\ Fit(t.m, r, t.inputs)
        /\ \A s \in Requests : s # r => t.m.ids[s] = m.ids[s] /\ Held(t.m, s) = Held(m, s)
        /\ Held(m, r) \subseteq Held(t.m, r)
        /\ DOMAIN t.m.cached \subseteq DOMAIN m.cached
        /\ t.m.freed = m.freed \cup (DOMAIN m.cached \ DOMAIN t.m.cached)
        /\ ~t.stop => t.n = n
    BY DEF TryBase
  <1>2. t.inputs \subseteq DOMAIN Features[r] /\ t.compute \in Int /\ t.m.free \in Int /\ t.m.ids \in [Requests -> SUBSET Nat]
    BY <1>1, CacheFacts DEF Fit, TryType
  <1>3. /\ NumEmbeds(h) \in Nat /\ e \in Int /\ before \in Int /\ i \in Nat
    <2>1. NumEmbeds(h) \in Nat /\ Features[r][i].offset \in Nat
      BY InputFacts
    <2>2. InputEmbeds(r, t.inputs) \in Nat
      <3>1. Distinct(r, t.inputs)
        BY <1>1 DEF Fit
      <3>2. InputEmbeds(r, t.inputs) = Embeds(HashesOf(r, t.inputs))
        BY <1>2, <3>1, InputEmbedsFacts
      <3>3. QED BY <1>2, <3>2, HashesOfFacts, EmbedsType
    <2>3. i \in Nat
      BY SMT, HashesOfFacts
    <2>4. QED BY SMT, <2>1, <2>2, <2>3
  <1>4. \/ u = t
        \/ /\ ~t.stop /\ h \in DOMAIN t.m.cached
           /\ u = [t EXCEPT !.m = UseCached(t.m, r, i)]
        \/ /\ ~t.stop
           /\ u = [t EXCEPT !.n = IF before > 0 THEN before ELSE 0, !.stop = TRUE]
        \/ /\ ~t.stop /\ (e <= t.m.free \/ e <= t.m.reclaimable)
           /\ u = [t EXCEPT !.m = Evict(t.m, e)]
        \/ /\ ~t.stop /\ h \notin HashesOf(r, t.inputs) /\ h \notin DOMAIN t.m.cached
           /\ (e <= t.m.free \/ e <= t.m.reclaimable)
           /\ u = [t EXCEPT !.m = Evict(t.m, e),
                            !.inputs = t.inputs \cup {i}, !.compute = t.compute - NumEmbeds(h)]
    <2>1. Passes(t, u, r, i, start)
      BY <1>1, TryCases
    <2> HIDE DEF u
    <2>2. QED BY <2>1 DEF Passes
  <1> HIDE DEF u, h, e, before
  <1>5. CASE u = t
    BY <1>5 DEF u
  <1>6. CASE h \in DOMAIN t.m.cached /\ u = [t EXCEPT !.m = UseCached(t.m, r, i)]
    <2> DEFINE b == UseCached(t.m, r, i)
    <2>1. /\ CacheOK(b)
          /\ DOMAIN b.cached = DOMAIN t.m.cached /\ b.free = t.m.free /\ b.freed = t.m.freed
          /\ b.ids = [t.m.ids EXCEPT ![r] = @ \cup {i}]
          /\ Held(b, r) = Held(t.m, r) \cup {h}
          /\ \A s \in Requests : s # r => Held(b, s) = Held(t.m, s)
      BY SMT, <1>1, <1>6, UseCachedOK DEF h
    <2> HIDE DEF b
    <2>2. b \in Manager /\ \A s \in Requests : s # r => b.ids[s] = t.m.ids[s]
      BY <1>2, <2>1 DEF CacheOK
    <2>3. u \in TryType /\ u.m = b /\ u.n = t.n /\ u.inputs = t.inputs /\ u.stop = t.stop
      <3>1. u = [t EXCEPT !.m = b]
        BY <1>6 DEF b
      <3>2. QED BY <1>1, <2>2, <3>1 DEF TryType
    <2>4. Fit(b, r, t.inputs)
      BY <1>1, <2>1 DEF Fit
    <2>5. TryBase(u, r, n)
      BY <1>1, <2>1, <2>2, <2>3, <2>4 DEF TryBase
    <2>6. QED BY <2>5 DEF u
  <1>7. CASE ~t.stop /\ u = [t EXCEPT !.n = IF before > 0 THEN before ELSE 0, !.stop = TRUE]
    <2> DEFINE k == IF before > 0 THEN before ELSE 0
    <2>1. k \in Int
      BY SMT, <1>3
    <2>2. u = [t EXCEPT !.n = k, !.stop = TRUE]
      BY <1>7
    <2> HIDE DEF k
    <2>3. u \in TryType /\ u.m = t.m /\ u.inputs = t.inputs /\ u.stop
      BY <1>1, <2>1, <2>2 DEF TryType
    <2>4. TryBase(u, r, n)
      BY <1>1, <2>3 DEF TryBase
    <2>5. QED BY <2>4 DEF u
  <1>8. ASSUME e <= t.m.free \/ e <= t.m.reclaimable
        PROVE  LET b == Evict(t.m, e) IN
               /\ CacheOK(b) /\ e <= b.free /\ t.m.free <= b.free
               /\ DOMAIN b.cached \subseteq DOMAIN t.m.cached
               /\ b.freed = t.m.freed \cup (DOMAIN t.m.cached \ DOMAIN b.cached)
               /\ b.ids = t.m.ids
               /\ \A s \in Requests : Held(b, s) = Held(t.m, s)
    BY <1>1, <1>3, <1>8, EvictOK
  <1>9. CASE (e <= t.m.free \/ e <= t.m.reclaimable) /\ u = [t EXCEPT !.m = Evict(t.m, e)]
    <2> DEFINE b == Evict(t.m, e)
    <2>1. /\ CacheOK(b) /\ e <= b.free /\ t.m.free <= b.free
          /\ DOMAIN b.cached \subseteq DOMAIN t.m.cached
          /\ b.freed = t.m.freed \cup (DOMAIN t.m.cached \ DOMAIN b.cached)
          /\ b.ids = t.m.ids
          /\ \A s \in Requests : Held(b, s) = Held(t.m, s)
      BY <1>8, <1>9
    <2>1a. u = [t EXCEPT !.m = b]
      BY <1>9
    <2> HIDE DEF b
    <2>2. b \in Manager /\ b.free \in Int
      BY <2>1, CacheFacts
    <2>3. u \in TryType /\ u.m = b /\ u.n = t.n /\ u.inputs = t.inputs /\ u.stop = t.stop
      BY <1>1, <2>1a, <2>2 DEF TryType
    <2>4. Fit(b, r, t.inputs)
      BY <1>1, <1>2, <2>1, <2>2, FitLess
    <2>5. b.freed = m.freed \cup (DOMAIN m.cached \ DOMAIN b.cached)
      BY <1>1, <2>1
    <2>6. TryBase(u, r, n)
      BY <1>1, <2>1, <2>2, <2>3, <2>4, <2>5 DEF TryBase
    <2>7. QED BY <2>6 DEF u
  <1>10. CASE /\ h \notin HashesOf(r, t.inputs) /\ h \notin DOMAIN t.m.cached
              /\ (e <= t.m.free \/ e <= t.m.reclaimable)
              /\ u = [t EXCEPT !.m = Evict(t.m, e),
                               !.inputs = t.inputs \cup {i}, !.compute = t.compute - NumEmbeds(h)]
    <2> DEFINE b == Evict(t.m, e)
               I == t.inputs \cup {i}
               c == t.compute - NumEmbeds(h)
    <2>1. /\ CacheOK(b) /\ e <= b.free /\ t.m.free <= b.free
          /\ DOMAIN b.cached \subseteq DOMAIN t.m.cached
          /\ b.freed = t.m.freed \cup (DOMAIN t.m.cached \ DOMAIN b.cached)
          /\ b.ids = t.m.ids
          /\ \A s \in Requests : Held(b, s) = Held(t.m, s)
      BY <1>8, <1>10
    <2>1a. u = [t EXCEPT !.m = b, !.inputs = I, !.compute = c]
      BY <1>10
    <2>1b. I \in SUBSET Nat /\ c \in Int
      BY SMT, <1>1, <1>2, <1>3 DEF TryType
    <2> HIDE DEF b
    <2>2. b \in Manager /\ b.free \in Int
      BY <2>1, CacheFacts
    <2>3. Fit(b, r, I)
      BY <1>1, <1>10, <2>1, <2>2, FitMore DEF e, h
    <2> HIDE DEF I, c
    <2>4. u \in TryType /\ u.m = b /\ u.n = t.n /\ u.inputs = I /\ u.stop = t.stop
      BY <1>1, <2>1a, <2>1b, <2>2 DEF TryType
    <2>5. b.freed = m.freed \cup (DOMAIN m.cached \ DOMAIN b.cached)
      BY <1>1, <2>1
    <2>6. TryBase(u, r, n)
      BY <1>1, <2>1, <2>2, <2>3, <2>4, <2>5 DEF TryBase
    <2>7. QED BY <2>6 DEF u
  <1>11. QED BY <1>4, <1>5, <1>6, <1>7, <1>9, <1>10

\* Reading fewer tokens reads no other input, and none that starts behind
\* them.
LEMMA ReadsFacts ==
    ASSUME NEW r \in Requests, NEW j \in DOMAIN Features[r], NEW start \in Int, NEW n \in Int,
           Reads(r, j, start, n)
    PROVE  /\ n > 0 /\ End(r, j) > start /\ Features[r][j].offset < start + n
           /\ \A k \in Int : n <= k => Reads(r, j, start, k)
  <1>1. /\ Features[r][j].offset \in Nat /\ Features[r][j].length \in Nat
        /\ Features[r][j].embeds \subseteq 0..(Features[r][j].length - 1)
    BY Zenon, InputFacts
  <1>2. PICK x \in Features[r][j].embeds : Features[r][j].offset + x \in start..(start + n - 1)
    BY DEF Reads, NoEmbeds
  <1>3. x \in 0..(Features[r][j].length - 1) /\ x \in Int
    BY <1>1, <1>2
  <1>4. n > 0 /\ End(r, j) > start /\ Features[r][j].offset < start + n
    BY <1>1, <1>2, <1>3 DEF End
  <1>5. ASSUME NEW k \in Int, n <= k PROVE Reads(r, j, start, k)
    <2>1. Features[r][j].offset + x \in start..(start + k - 1)
      BY <1>1, <1>2, <1>3, <1>5
    <2>2. QED BY <2>1 DEF Reads, NoEmbeds
  <1>6. QED BY Zenon, <1>4, <1>5

\* Without a drafter the window has exactly the inputs that the tokens can
\* read.
LEMMA WindowFacts ==
    ASSUME NEW r \in Requests, NEW i \in DOMAIN Features[r], NEW start \in Int, NEW n \in Int,
           config.shift = 0
    PROVE  /\ i \in Window(r, start, n) => End(r, i) > start /\ Features[r][i].offset < start + n
           /\ i \notin Window(r, start, n) => ~Reads(r, i, start, n)
  <1>1. /\ Features[r][i].offset \in Nat /\ Features[r][i].length \in Nat
    BY Zenon, InputFacts
  <1>2. start + n + config.shift = start + n
    OBVIOUS
  <1>3. i \in Window(r, start, n) <=> n # 0 /\ End(r, i) > start /\ Features[r][i].offset < start + n
    BY Zenon, <1>2 DEF Window, InWindow, End
  <1>4. QED BY <1>3, ReadsFacts

\* An input outside the window leaves the loop's state alone.
LEMMA TryOutside ==
    ASSUME NEW r \in Requests, NEW i \in DOMAIN Features[r], NEW start \in Int, NEW n \in Int,
           NEW t, TryBase(t, r, n), TryHit(t, i - 1, r, start, n), config.shift = 0,
           i \notin Window(r, start, n)
    PROVE  TryHit(t, i, r, start, n)
  <1> USE Zenon
  <1>0. DOMAIN Features[r] = 1..Len(Features[r]) /\ Len(Features[r]) \in Nat
    BY HashesOfFacts
  <1>1. \A j \in DOMAIN Features[r] : j \in Int /\ (j <= i => j <= i - 1 \/ j = i) /\ (j > i => j > i - 1)
                                     /\ (j <= i - 1 => j <= i)
    BY SMT, <1>0
  <1>1a. i > i - 1
    BY SMT, <1>0
  <1>2. ~Reads(r, i, start, n)
    BY WindowFacts
  <1>3. ~t.stop => t.n = n
    BY DEF TryBase
  <1>4. ~Reads(r, i, start, t.n)
    BY <1>1, <1>1a, <1>2, <1>3 DEF TryHit
  <1>5. QED BY <1>1, <1>4 DEF TryHit

\* One pass keeps that the inputs the worker will read are held or computed.
LEMMA TryInputHit ==
    ASSUME NEW r \in Requests, NEW i \in DOMAIN Features[r], NEW start \in Int, NEW n \in Int,
           NEW t, TryBase(t, r, n), TryHit(t, i - 1, r, start, n), config.shift = 0,
           i \in Window(r, start, n), CacheOK(m)
    PROVE  TryHit(TryInput(t, r, i, start), i, r, start, n)
  <1> USE Zenon
  <1> DEFINE u == TryInput(t, r, i, start)
             h == HashOf(r, i)
             e == NumEmbeds(h) + InputEmbeds(r, t.inputs)
             before == Features[r][i].offset - start - config.shift
             k == IF before > 0 THEN before ELSE 0
             D == DOMAIN Features[r]
  <1>1. /\ t \in TryType /\ CacheOK(t.m) /\ Fit(t.m, r, t.inputs) /\ (~t.stop => t.n = n) /\ t.n \in Int
    BY DEF TryBase, TryType
  <1>2. \A j \in D : j \in Int /\ (j <= i => j <= i - 1 \/ j = i) /\ (j > i => j > i - 1)
                    /\ (j <= i - 1 => j <= i /\ j < i)
    BY SMT, HashesOfFacts
  <1>2a. i > i - 1 /\ i <= i
    BY SMT, HashesOfFacts
  <1>3. /\ \A j \in D : j <= i - 1 /\ Reads(r, j, start, t.n) => HashOf(r, j) \in Held(t.m, r) \cup HashesOf(r, t.inputs)
        /\ t.stop => \A j \in D : j > i - 1 => ~Reads(r, j, start, t.n)
        /\ n > 0 /\ t.m.ids[r] # m.ids[r] => t.n > 0 /\ \E j \in D : j <= i - 1 /\ End(r, j) > start
    BY DEF TryHit
  <1>4. End(r, i) > start /\ Features[r][i].offset < start + n
    BY WindowFacts
  <1>5. Passes(t, u, r, i, start)
    BY <1>1, TryCases
  <1>6. \A j \in D : Features[r][j].offset \in Nat /\ Features[r][j].length \in Nat
    BY InputFacts
  <1>7. \A j \in D : j < i => Features[r][i].offset >= End(r, j)
    BY OffsetsGrow DEF End
  <1>8. \A j \in D : j >= i => Features[r][j].offset >= Features[r][i].offset
    <2>1. TAKE j \in D
    <2>2. CASE j = i
      BY SMT, <1>6, <2>2
    <2>3. CASE j > i
      <3>1. Features[r][j].offset >= Features[r][i].offset + Features[r][i].length
        BY <2>3, OffsetsGrow
      <3>2. QED BY SMT, <1>6, <3>1
    <2>4. QED BY SMT, <1>2, <2>2, <2>3
  <1> DEFINE Ok(v) == TryHit(v, i, r, start, n)
  <1>9. CASE (t.stop \/ h \in HashesOf(r, t.inputs)) /\ u = t
    <2>1. Reads(r, i, start, t.n) => h \in HashesOf(r, t.inputs)
      BY <1>2a, <1>3, <1>9
    <2> HIDE DEF u
    <2>2. TryHit(t, i, r, start, n)
      BY <1>2, <1>3, <2>1 DEF TryHit
    <2>3. TryHit(u, i, r, start, n)
      BY <1>9, <2>2
    <2>4. QED BY <2>3 DEF u
  <1>10. CASE ~t.stop /\ h \in DOMAIN t.m.cached /\ u = [t EXCEPT !.m = UseCached(t.m, r, i)]
    <2> DEFINE b == UseCached(t.m, r, i)
    <2> HIDE DEF u
    <2>0. HashOf(r, i) \in DOMAIN t.m.cached /\ CacheOK(t.m)
      BY <1>1, <1>10
    <2>1. /\ CacheOK(b)
          /\ DOMAIN b.cached = DOMAIN t.m.cached /\ b.free = t.m.free /\ b.freed = t.m.freed
          /\ b.ids = [t.m.ids EXCEPT ![r] = @ \cup {i}]
          /\ Held(b, r) = Held(t.m, r) \cup {HashOf(r, i)}
          /\ \A s \in Requests : s # r => Held(b, s) = Held(t.m, s)
      BY SMT, <2>0, UseCachedOK
    <2> HIDE DEF b, h
    <2>2. u = [t EXCEPT !.m = b]
      BY <1>10 DEF b
    <2>3. u.m = b /\ u.n = t.n /\ u.inputs = t.inputs /\ u.stop = t.stop
      BY <1>1, <2>2 DEF TryType
    <2>4. \A j \in D : j <= i /\ Reads(r, j, start, u.n) => HashOf(r, j) \in Held(u.m, r) \cup HashesOf(r, u.inputs)
      BY <1>2, <1>3, <2>1, <2>3
    <2>5. n > 0 => u.n > 0 /\ i <= i
      BY <1>1, <1>2a, <1>10, <2>3
    <2>6. TryHit(u, i, r, start, n)
      BY <1>4, <1>10, <2>3, <2>4, <2>5 DEF TryHit
    <2>7. QED BY <2>6 DEF u
  <1>11. CASE ~t.stop /\ u = [t EXCEPT !.n = k, !.stop = TRUE]
    <2>1. k \in Int /\ (k > 0 => start + k = Features[r][i].offset /\ k <= n)
          /\ (Features[r][i].offset > start => k > 0)
      BY SMT, <1>4, <1>6
    <2> HIDE DEF u, k
    <2>2. u.m = t.m /\ u.n = k /\ u.inputs = t.inputs /\ u.stop
      BY <1>1, <1>11 DEF TryType
    <2>3. \A j \in D : Reads(r, j, start, k) => Reads(r, j, start, t.n)
      BY <1>1, <1>11, <2>1, ReadsFacts
    <2>4. \A j \in D : j >= i => ~Reads(r, j, start, k)
      <3>1. SUFFICES ASSUME NEW j \in D, j >= i, Reads(r, j, start, k) PROVE FALSE
        OBVIOUS
      <3>2. k > 0 /\ Features[r][j].offset < start + k
        BY <2>1, <3>1, ReadsFacts
      <3>3. Features[r][j].offset >= Features[r][i].offset
        BY <1>8, <3>1
      <3>4. QED BY SMT, <1>6, <2>1, <3>2, <3>3
    <2>5. \A j \in D : (j <= i - 1 \/ j >= i) /\ (j > i => j >= i)
      BY SMT, <1>2, HashesOfFacts
    <2>6. \A j \in D : j <= i /\ Reads(r, j, start, k) => HashOf(r, j) \in Held(t.m, r) \cup HashesOf(r, t.inputs)
      BY <1>3, <2>3, <2>4, <2>5
    <2>7. n > 0 /\ t.m.ids[r] # m.ids[r] => k > 0
      <3>1. SUFFICES ASSUME NEW j \in D, j <= i - 1, End(r, j) > start PROVE k > 0
        BY <1>3
      <3>2. Features[r][i].offset >= End(r, j) /\ End(r, j) \in Int
        BY SMT, <1>2, <1>6, <1>7, <3>1 DEF End
      <3>3. QED BY SMT, <1>6, <2>1, <3>1, <3>2
    <2>8. TryHit(u, i, r, start, n)
      BY <1>2, <1>3, <2>2, <2>4, <2>5, <2>6, <2>7 DEF TryHit
    <2>9. QED BY <2>8 DEF u
  <1>12. ASSUME e <= t.m.free \/ e <= t.m.reclaimable
         PROVE  Evict(t.m, e).ids = t.m.ids /\ Held(Evict(t.m, e), r) = Held(t.m, r)
    <2>1. NumEmbeds(h) \in Nat /\ t.inputs \subseteq DOMAIN Features[r] /\ Distinct(r, t.inputs)
      BY <1>1, InputFacts DEF Fit
    <2>2. InputEmbeds(r, t.inputs) = Embeds(HashesOf(r, t.inputs))
      BY <2>1, InputEmbedsFacts
    <2>3. InputEmbeds(r, t.inputs) \in Nat
      BY <2>1, <2>2, HashesOfFacts, EmbedsType
    <2>4. e \in Int
      BY SMT, <2>1, <2>3
    <2> HIDE DEF e
    <2>5. QED BY SMT, <1>1, <1>12, <2>4, EvictOK
  <1>13. CASE (e <= t.m.free \/ e <= t.m.reclaimable) /\ ~t.stop /\ ~Reads(r, i, start, t.n) /\ u = [t EXCEPT !.m = Evict(t.m, e)]
    <2> DEFINE b == Evict(t.m, e)
    <2>1. b.ids = t.m.ids /\ Held(b, r) = Held(t.m, r)
      BY <1>12, <1>13
    <2> HIDE DEF b, u, e
    <2>2. u = [t EXCEPT !.m = b]
      BY <1>13 DEF b
    <2>3. u.m = b /\ u.n = t.n /\ u.inputs = t.inputs /\ u.stop = t.stop
      BY <1>1, <2>2 DEF TryType
    <2>4. \A j \in D : j <= i /\ Reads(r, j, start, u.n) => HashOf(r, j) \in Held(u.m, r) \cup HashesOf(r, u.inputs)
      BY <1>2, <1>3, <1>13, <2>1, <2>3
    <2>5. TryHit(u, i, r, start, n)
      BY <1>2, <1>3, <1>13, <2>1, <2>3, <2>4 DEF TryHit
    <2>6. QED BY <2>5 DEF u
  <1>14. CASE /\ (e <= t.m.free \/ e <= t.m.reclaimable) /\ ~t.stop
              /\ u = [t EXCEPT !.m = Evict(t.m, e), !.inputs = t.inputs \cup {i}, !.compute = t.compute - NumEmbeds(h)]
    <2> DEFINE b == Evict(t.m, e)
               I == t.inputs \cup {i}
               c == t.compute - NumEmbeds(h)
    <2>1. b.ids = t.m.ids /\ Held(b, r) = Held(t.m, r)
      BY <1>12, <1>14
    <2>1a. HashesOf(r, I) = HashesOf(r, t.inputs) \cup {h}
      BY DEF HashesOf
    <2> HIDE DEF b, u, e, I, c, h
    <2>2. u = [t EXCEPT !.m = b, !.inputs = I, !.compute = c]
      BY <1>14 DEF b, I, c
    <2>3. u.m = b /\ u.n = t.n /\ u.inputs = I /\ u.stop = t.stop
      BY <1>1, <2>2 DEF TryType
    <2>4. \A j \in D : j <= i /\ Reads(r, j, start, u.n) => HashOf(r, j) \in Held(u.m, r) \cup HashesOf(r, u.inputs)
      BY <1>2, <1>3, <2>1, <2>1a, <2>3 DEF h
    <2>5. TryHit(u, i, r, start, n)
      BY <1>2, <1>3, <1>14, <2>1, <2>3, <2>4 DEF TryHit
    <2>6. QED BY <2>5 DEF u
  <1>15. QED
    <2> HIDE DEF u
    <2>1. QED BY <1>5, <1>9, <1>10, <1>11, <1>13, <1>14 DEF Passes, u

\* The whole loop of _try_schedule_encoder_inputs.
LEMMA TryScheduleOK ==
    ASSUME NEW r \in Requests, NEW start \in Int, NEW n \in Int, config.shift \in Nat, CacheOK(m),
           step.compute \in Int
    PROVE  /\ TryBase(TrySchedule(r, start, n), r, n)
           /\ config.shift = 0 => TryHit(TrySchedule(r, start, n), Len(Features[r]), r, start, n)
  <1> USE Zenon
  <1> DEFINE T == Tries(r, start, n)
             N == Len(Features[r])
             W == Window(r, start, n)
             Good(k) == TryBase(T[k], r, n) /\ (config.shift = 0 => TryHit(T[k], k, r, start, n))
             Bad == {k \in 0..N : ~Good(k)}
  <1>1. N \in Nat /\ DOMAIN Features[r] = 1..N
    BY HashesOfFacts
  <1>2. \A k \in 0..N : T[k] = IF k = 0 THEN TryFirst(n)
                               ELSE IF k \in W THEN TryInput(T[k - 1], r, k, start) ELSE T[k - 1]
    BY SMT, TriesIs
  <1>3. Good(0)
    <2> DEFINE a == TryFirst(n)
    <2>1. T[0] = a
      BY SMT, <1>1, <1>2
    <2>2. m \in Manager /\ m.free >= 0 /\ m.free \in Int
      BY CacheFacts DEF CacheOK
    <2>3. a \in TryType /\ a.m = m /\ a.inputs = {} /\ a.n = n /\ a.stop = FALSE
      BY <2>2 DEF TryFirst, TryType
    <2>4. HashesOf(r, {}) = {}
      BY DEF HashesOf
    <2>5. Fit(m, r, {})
      BY <2>2, <2>4, EmbedsNone DEF Fit, Distinct
    <2> HIDE DEF a
    <2>6. m.freed = m.freed \cup (DOMAIN m.cached \ DOMAIN m.cached)
      OBVIOUS
    <2>7. TryBase(a, r, n)
      BY <2>3, <2>5, <2>6 DEF TryBase
    <2>8. \A j \in DOMAIN Features[r] : ~(j <= 0)
      BY SMT, <1>1
    <2>9. TryHit(a, 0, r, start, n)
      BY <2>3, <2>8 DEF TryHit
    <2> HIDE DEF T
    <2>10. QED BY <2>1, <2>7, <2>9
  <1>4. ASSUME NEW k \in 1..N, Good(k - 1) PROVE Good(k)
    <2>1. k \in DOMAIN Features[r] /\ k \in 0..N /\ k # 0
      BY SMT, <1>1
    <2> HIDE DEF T, W, N
    <2>2. CASE k \in W
      <3>1. T[k] = TryInput(T[k - 1], r, k, start)
        BY <1>2, <2>1, <2>2
      <3>2. TryBase(TryInput(T[k - 1], r, k, start), r, n)
        BY <1>4, <2>1, TryInputBase
      <3>3. config.shift = 0 => TryHit(TryInput(T[k - 1], r, k, start), k, r, start, n)
        BY <1>4, <2>1, <2>2, TryInputHit DEF W
      <3>4. QED BY <3>1, <3>2, <3>3
    <2>3. CASE k \notin W
      <3>1. T[k] = T[k - 1]
        BY <1>2, <2>1, <2>3
      <3>2. config.shift = 0 => TryHit(T[k - 1], k, r, start, n)
        BY <1>4, <2>1, <2>3, TryOutside DEF W
      <3>3. QED BY <1>4, <3>1, <3>2
    <2>4. QED BY <2>2, <2>3
  <1> HIDE DEF T, W, N
  <1>5. Good(N)
    <2> HIDE DEF Good
    <2>1. SUFFICES ASSUME Bad # {} PROVE FALSE
      BY SMT, <1>1
    <2>2. Bad \in SUBSET Nat
      BY SMT, <1>1
    <2>3. PICK k \in Bad : \A x \in Bad : k <= x
      BY <2>1, <2>2, LeastExists
    <2>4. k # 0 /\ k \in 1..N /\ k - 1 \in 0..N /\ ~(k <= k - 1)
      BY SMT, <1>1, <1>3, <2>3
    <2>5. Good(k - 1)
      BY <2>3, <2>4
    <2>6. QED BY <1>4, <2>3, <2>4, <2>5
  <1>6. QED BY <1>5 DEF TrySchedule, T, N

--------------------------------------------------------------------------------
\* update_from_output.

\* One request of a batch in update_from_output.
UpdateOne(a, x) ==
    IF status[x.req] = "finished" THEN a
    ELSE FreeInputs(a, x.req, IF Ends(x) THEN a.ids[x.req] ELSE Processed(a, x.req))

\* The recursion over the batch.
LEMMA UpdatesIs ==
    ASSUME NEW batch, Len(batch) \in Nat
    PROVE  \A k \in 0..Len(batch) : Updates(batch)[k] =
              IF k = 0 THEN m ELSE UpdateOne(Updates(batch)[k - 1], batch[k])
  <1> USE Zenon
  <1> DEFINE N == Len(batch)
             Step(f, k) == IF k = 0 THEN m ELSE UpdateOne(f[k - 1], batch[k])
             Good(k, f) == f = [x \in 0..k |-> Step(f, x)]
             Bad == {k \in Nat : ~(\E f : Good(k, f))}
  <1>1. \E f : Good(N, f)
    <2> HIDE DEF N
    <2>1. SUFFICES ASSUME Bad # {} PROVE FALSE
      BY DEF N
    <2>2. Bad \in SUBSET Nat
      OBVIOUS
    <2>3. PICK k \in Bad : \A x \in Bad : k <= x
      BY <2>1, <2>2, LeastExists
    <2>4. CASE k = 0
      <3> DEFINE g == [x \in 0..0 |-> m]
      <3>1. \A x \in 0..0 : x = 0
        BY SMT
      <3>2. Good(0, g)
        BY <3>1
      <3>3. QED BY <2>4, <3>2
    <2>5. CASE k # 0
      <3>1. k - 1 \in Nat /\ ~(k <= k - 1)
        BY SMT, <2>5
      <3>2. PICK f : Good(k - 1, f)
        BY <2>3, <3>1
      <3> DEFINE g == [x \in 0..k |-> Step(f, x)]
      <3>3. \A x \in 0..(k - 1) : g[x] = f[x] /\ x \in 0..k
        <4>1. \A x \in 0..(k - 1) : x \in 0..k
          BY SMT, <3>1
        <4>2. \A x \in 0..k : g[x] = Step(f, x)
          OBVIOUS
        <4>3. \A x \in 0..(k - 1) : f[x] = Step(f, x)
          <5> DEFINE h == [x \in 0..(k - 1) |-> Step(f, x)]
          <5>1. \A x \in 0..(k - 1) : h[x] = Step(f, x)
            OBVIOUS
          <5>2. f = h
            BY <3>2
          <5> HIDE DEF h, Step
          <5>3. QED BY <5>1, <5>2
        <4> HIDE DEF g, Step
        <4>4. QED BY <4>1, <4>2, <4>3
      <3>4. \A x \in 0..k : x # 0 => x - 1 \in 0..(k - 1)
        BY SMT, <3>1
      <3>5. \A x \in 0..k : Step(g, x) = Step(f, x)
        <4> HIDE DEF g
        <4>1. QED BY <3>3, <3>4
      <3>6. Good(k, g)
        <4> DEFINE h == [x \in 0..k |-> Step(g, x)]
        <4>1. h = g
          BY <3>5
        <4>2. QED BY <4>1
      <3>7. QED BY <3>6
    <2>6. QED BY <2>4, <2>5
  <1>2. Updates(batch) = CHOOSE f : Good(N, f)
    BY DEF Updates, UpdateOne
  <1>3. Good(N, Updates(batch))
    BY <1>1, <1>2
  <1>4. ASSUME NEW k \in 0..N PROVE Updates(batch)[k] = Step(Updates(batch), k)
    <2> DEFINE f == Updates(batch)
               h == [x \in 0..N |-> Step(f, x)]
    <2>1. h[k] = Step(f, k)
      OBVIOUS
    <2>2. f = h
      BY <1>3
    <2> HIDE DEF f, h, Step
    <2>3. f[k] = Step(f, k)
      BY <2>1, <2>2
    <2>4. QED BY <2>3 DEF f
  <1>5. QED BY <1>4

\* What update_from_output leaves of the manager a that it starts with.
Updated(a, b) ==
    /\ CacheOK(b) /\ DOMAIN b.cached = DOMAIN a.cached /\ b.freed = a.freed
    /\ \A r \in Requests : b.ids[r] \subseteq a.ids[r]

\* One request gives back inputs, all of them when it ends.
LEMMA UpdateOneOK ==
    ASSUME NEW a, CacheOK(a), NEW x \in Item
    PROVE  /\ Updated(a, UpdateOne(a, x))
           /\ status[x.req] # "finished" /\ Ends(x) => UpdateOne(a, x).ids[x.req] = {}
  <1> USE Zenon
  <1> DEFINE r == x.req
             I == IF Ends(x) THEN a.ids[r] ELSE Processed(a, r)
             b == FreeInputs(a, r, I)
  <1>1. r \in Requests /\ a.ids \in [Requests -> SUBSET Nat]
    BY CacheFacts DEF Item
  <1>2. I \subseteq a.ids[r] /\ (Ends(x) => I = a.ids[r])
    BY DEF Processed
  <1>3. UpdateOne(a, x) = IF status[r] = "finished" THEN a ELSE b
    BY DEF UpdateOne
  <1> HIDE DEF I, r
  <1>4. /\ CacheOK(b) /\ DOMAIN b.cached = DOMAIN a.cached /\ b.freed = a.freed
        /\ b.ids = [a.ids EXCEPT ![r] = @ \ I]
    <2>1. Returned(a, b, r, I)
      BY <1>1, <1>2, FreeOK
    <2> HIDE DEF b
    <2>2. QED BY <2>1 DEF Returned
  <1> HIDE DEF b
  <1>5. \A s \in Requests : b.ids[s] \subseteq a.ids[s]
    BY <1>1, <1>4
  <1>6. Ends(x) => b.ids[r] = {}
    BY <1>1, <1>2, <1>4
  <1>7. Updated(a, a) /\ Updated(a, b)
    BY <1>4, <1>5 DEF Updated
  <1>8. QED BY <1>3, <1>6, <1>7 DEF r

\* The whole batch.
LEMMA UpdatesOK ==
    ASSUME CacheOK(m), NEW batch \in Seq(Item)
    PROVE  /\ Updated(m, Updates(batch)[Len(batch)])
           /\ \A x \in Range(batch) : status[x.req] # "finished" /\ Ends(x) =>
                 Updates(batch)[Len(batch)].ids[x.req] = {}
  <1> USE Zenon
  <1> DEFINE u == Updates(batch)
             N == Len(batch)
             Over(x) == status[x.req] # "finished" /\ Ends(x)
             Good(k) == /\ Updated(m, u[k])
                        /\ \A j \in 1..k : Over(batch[j]) => u[k].ids[batch[j].req] = {}
             Bad == {k \in 0..N : ~Good(k)}
  <1>1. N \in Nat /\ \A k \in 1..N : batch[k] \in Item /\ batch[k].req \in Requests
    <2>1. N \in Nat /\ \A k \in 1..N : batch[k] \in Item
      BY SeqFun
    <2>2. \A x \in Item : x.req \in Requests
      BY DEF Item
    <2>3. QED BY <2>1, <2>2
  <1>2. \A k \in 0..N : u[k] = IF k = 0 THEN m ELSE UpdateOne(u[k - 1], batch[k])
    BY <1>1, UpdatesIs
  <1> HIDE DEF u, N
  <1>3. Good(0)
    <2>1. u[0] = m
      BY SMT, <1>1, <1>2
    <2>2. Updated(m, m)
      BY DEF Updated
    <2>3. QED BY SMT, <2>1, <2>2
  <1>4. ASSUME NEW k \in 1..N, Good(k - 1) PROVE Good(k)
    <2> DEFINE a == u[k - 1]
               b == u[k]
    <2>1. k \in 0..N /\ k # 0 /\ batch[k] \in Item /\ \A j \in 1..k : j \in 1..(k - 1) \/ j = k
      BY SMT, <1>1
    <2>2. b = UpdateOne(a, batch[k])
      BY <1>2, <2>1
    <2>3. Updated(m, a) /\ CacheOK(a)
      BY <1>4 DEF Updated
    <2> HIDE DEF a, b
    <2>4. Updated(a, b) /\ (Over(batch[k]) => b.ids[batch[k].req] = {})
      BY <2>1, <2>2, <2>3, UpdateOneOK
    <2>5. Updated(m, b)
      BY <2>3, <2>4 DEF Updated
    <2>6. ASSUME NEW j \in 1..k, Over(batch[j]) PROVE b.ids[batch[j].req] = {}
      <3>1. CASE j = k
        BY <2>4, <2>6, <3>1
      <3>2. CASE j \in 1..(k - 1)
        <4>1. a.ids[batch[j].req] = {}
          BY <1>4, <2>6, <3>2 DEF a
        <4>2. batch[j].req \in Requests
          <5>1. j \in 1..N
            BY SMT, <1>1
          <5>2. QED BY <1>1, <5>1
        <4>3. QED BY <2>4, <4>1, <4>2 DEF Updated
      <3>3. QED BY <2>1, <3>1, <3>2
    <2>7. QED BY <2>5, <2>6 DEF b
  <1>5. Good(N)
    <2> HIDE DEF Good
    <2>1. SUFFICES ASSUME Bad # {} PROVE FALSE
      BY SMT, <1>1
    <2>2. Bad \in SUBSET Nat
      BY SMT, <1>1
    <2>3. PICK k \in Bad : \A x \in Bad : k <= x
      BY <2>1, <2>2, LeastExists
    <2>4. k # 0 /\ k \in 1..N /\ k - 1 \in 0..N /\ ~(k <= k - 1)
      BY SMT, <1>1, <1>3, <2>3
    <2>5. Good(k - 1)
      BY <2>3, <2>4
    <2>6. QED BY <1>4, <2>3, <2>4, <2>5
  <1>6. \A x \in Range(batch) : \E j \in 1..N : batch[j] = x
    BY SeqFun DEF N
  <1>7. QED BY <1>5, <1>6 DEF u, N

--------------------------------------------------------------------------------
\* The worker's cache, and the queues.

\* Nothing sent: the worker's cache as it is.
LEMMA SentNone ==
    ASSUME NEW q, NEW w
    PROVE  Sent(0, q, w) = w \cap Hashes
  <1>1. 0..0 = {0} /\ (0 + 1)..0 = {}
    OBVIOUS
  <1>2. QED BY Zenon, <1>1 DEF Sent

\* The worker's cache after one more batch: evicted hashes leave before new
\* outputs come.
LEMMA SentStep ==
    ASSUME NEW n \in Nat, NEW q, NEW w
    PROVE  Sent(n + 1, q, w) = (Sent(n, q, w) \ q[n + 1].freed) \cup (Computes(q[n + 1]) \cap Hashes)
  <1> USE Zenon
  <1> DEFINE A(h, k) == IF k = 0 THEN h \in w ELSE h \in Computes(q[k])
             N(h, j) == h \notin q[j].freed
  <1>1. \A i \in Nat : \A h : h \in Sent(i, q, w) <=> h \in Hashes /\ \E k \in 0..i : A(h, k) /\ \A j \in (k + 1)..i : N(h, j)
    BY DEF Sent
  <1>2. \A h : h \in Computes(q[n + 1]) <=> A(h, n + 1)
    BY SMT
  <1>3. \A h : h \in q[n + 1].freed <=> ~N(h, n + 1)
    OBVIOUS
  <1> HIDE DEF A, N
  <1>4. ASSUME NEW h \in Hashes
        PROVE  (\E k \in 0..(n + 1) : A(h, k) /\ \A j \in (k + 1)..(n + 1) : N(h, j))
                 <=> \/ (\E k \in 0..n : A(h, k) /\ \A j \in (k + 1)..n : N(h, j)) /\ N(h, n + 1)
                     \/ A(h, n + 1)
    <2>1. ASSUME NEW k \in 0..(n + 1), A(h, k), \A j \in (k + 1)..(n + 1) : N(h, j)
          PROVE  \/ (\E i \in 0..n : A(h, i) /\ \A j \in (i + 1)..n : N(h, j)) /\ N(h, n + 1)
                 \/ A(h, n + 1)
      <3>1. CASE k = n + 1
        BY <2>1, <3>1
      <3>2. CASE k # n + 1
        <4>1. k \in 0..n /\ n + 1 \in (k + 1)..(n + 1) /\ \A j \in (k + 1)..n : j \in (k + 1)..(n + 1)
          BY SMT, <3>2
        <4>2. QED BY <2>1, <4>1
      <3>3. QED BY <3>1, <3>2
    <2>2. ASSUME NEW k \in 0..n, A(h, k), \A j \in (k + 1)..n : N(h, j), N(h, n + 1)
          PROVE  \E i \in 0..(n + 1) : A(h, i) /\ \A j \in (i + 1)..(n + 1) : N(h, j)
      <3>1. k \in 0..(n + 1) /\ \A j \in (k + 1)..(n + 1) : j = n + 1 \/ j \in (k + 1)..n
        BY SMT
      <3>2. QED BY <2>2, <3>1
    <2>3. ASSUME A(h, n + 1)
          PROVE  \E i \in 0..(n + 1) : A(h, i) /\ \A j \in (i + 1)..(n + 1) : N(h, j)
      <3>1. n + 1 \in 0..(n + 1) /\ (n + 1 + 1)..(n + 1) = {}
        BY SMT
      <3>2. QED BY <2>3, <3>1
    <2>4. QED BY <2>1, <2>2, <2>3
  <1>5. ASSUME NEW h
        PROVE  h \in Sent(n + 1, q, w) <=> h \in (Sent(n, q, w) \ q[n + 1].freed) \cup (Computes(q[n + 1]) \cap Hashes)
    <2>1. n + 1 \in Nat
      BY SMT
    <2>2. QED BY <1>1, <1>2, <1>3, <1>4, <2>1
  <1>6. QED BY <1>5

\* Later batches do not matter for earlier ones.
LEMMA SentSame ==
    ASSUME NEW n \in Nat, NEW q, NEW p, NEW w, \A k \in 1..n : q[k] = p[k]
    PROVE  Sent(n, q, w) = Sent(n, p, w)
  <1>1. ASSUME NEW h, NEW k \in 0..n
        PROVE  (IF k = 0 THEN h \in w ELSE h \in Computes(q[k])) <=> (IF k = 0 THEN h \in w ELSE h \in Computes(p[k]))
    <2>1. k = 0 \/ k \in 1..n
      OBVIOUS
    <2>2. QED BY Zenon, <2>1
  <1>2. ASSUME NEW h, NEW k \in 0..n
        PROVE  (\A j \in (k + 1)..n : h \notin q[j].freed) <=> (\A j \in (k + 1)..n : h \notin p[j].freed)
    <2>1. \A j \in (k + 1)..n : j \in 1..n
      OBVIOUS
    <2>2. QED BY Zenon, <2>1
  <1>3. QED BY Zenon, <1>1, <1>2 DEF Sent

\* Executing the first batch moves it from the queue to the cache.
LEMMA SentShift ==
    ASSUME NEW n \in Nat, NEW q, NEW p, NEW w, \A k \in 1..n : p[k] = q[k + 1]
    PROVE  Sent(n, p, (w \ q[1].freed) \cup Computes(q[1])) = Sent(n + 1, q, w)
  <1> USE Zenon
  <1> DEFINE v == (w \ q[1].freed) \cup Computes(q[1])
             Good(k) == Sent(k, p, v) = Sent(k + 1, q, w)
             Bad == {k \in 0..n : ~Good(k)}
  <1>1. Good(0)
    <2>1. Sent(0, p, v) = v \cap Hashes /\ Sent(0, q, w) = w \cap Hashes
      BY SentNone
    <2>2. Sent(0 + 1, q, w) = (Sent(0, q, w) \ q[0 + 1].freed) \cup (Computes(q[0 + 1]) \cap Hashes)
      BY SentStep
    <2>3. Sent(0 + 1, q, w) = ((w \cap Hashes) \ q[1].freed) \cup (Computes(q[1]) \cap Hashes)
      BY SMT, <2>1, <2>2
    <2>4. QED BY <2>1, <2>3
  <1> HIDE DEF v
  <1>2. ASSUME NEW k \in 1..n, Good(k - 1) PROVE Good(k)
    <2>1. k - 1 \in Nat /\ (k - 1) + 1 = k /\ k \in Nat /\ p[k] = q[k + 1]
      BY SMT
    <2>2. Sent((k - 1) + 1, p, v) = (Sent(k - 1, p, v) \ p[(k - 1) + 1].freed) \cup (Computes(p[(k - 1) + 1]) \cap Hashes)
      BY <2>1, SentStep
    <2>3. Sent(k + 1, q, w) = (Sent(k, q, w) \ q[k + 1].freed) \cup (Computes(q[k + 1]) \cap Hashes)
      BY <2>1, SentStep
    <2>4. QED BY <1>2, <2>1, <2>2, <2>3
  <1>3. Good(n)
    <2> HIDE DEF Good
    <2>1. SUFFICES ASSUME Bad # {} PROVE FALSE
      BY SMT
    <2>2. Bad \in SUBSET Nat
      BY SMT
    <2>3. PICK k \in Bad : \A x \in Bad : k <= x
      BY <2>1, <2>2, LeastExists
    <2>4. k # 0 /\ k \in 1..n /\ k - 1 \in 0..n /\ ~(k <= k - 1)
      BY SMT, <1>1, <2>3
    <2>5. QED BY <1>2, <2>3, <2>4
  <1>4. QED BY <1>3 DEF v

\* Sent is what the property CachesAgree calls Following.
LEMMA SentIs ==
    ASSUME NEW n PROVE Following(n) = Sent(n, queue, worker)
  BY Zenon DEF Following, Sent

\* Without a drafter, _gather_mm_embeddings reads what Needs says.
LEMMA NeedsIs ==
    ASSUME config.shift = 0, NEW x \in Item PROVE Gathers(x) = Needs(x)
  <1>1. 0..config.shift = {0}
    OBVIOUS
  <1>1a. x.start + 0 = x.start
    BY DEF Item
  <1>2. \A i : (\E d \in 0..config.shift : ~NoEmbeds(Features[x.req][i], x.start + d, x.start + d + x.n))
                 <=> ~NoEmbeds(Features[x.req][i], x.start + 0, x.start + 0 + x.n)
    BY Zenon, <1>1
  <1>3. QED BY Zenon, <1>1a, <1>2 DEF Gathers, Needs, Reads

\* Filtering makes a sequence shorter when it drops something.
LEMMA KeepShorter ==
    ASSUME NEW T, NEW s \in Seq(T), NEW S, \E x \in Range(s) : x \notin S
    PROVE  Len(Keep(s, S)) < Len(s)
  <1> DEFINE k == Kept(s, S)
             Good(n) == /\ k[n] \in Seq(T) /\ Len(k[n]) <= n
                        /\ (\E i \in 1..n : s[i] \notin S) => Len(k[n]) < n
             Bad == {n \in 0..Len(s) : ~Good(n)}
  <1>1. Len(s) \in Nat /\ \A i \in 1..Len(s) : s[i] \in T
    BY Zenon, SeqFun
  <1>2. ASSUME NEW n \in 0..Len(s)
        PROVE  k[n] = IF n = 0 THEN <<>> ELSE IF s[n] \in S THEN Append(k[n - 1], s[n]) ELSE k[n - 1]
    <2>1. k = [j \in 0..Len(s) |->
                IF j = 0 THEN <<>> ELSE IF s[j] \in S THEN Append(k[j - 1], s[j]) ELSE k[j - 1]]
      BY KeptIs
    <2> HIDE DEF k
    <2>2. QED BY Zenon, <2>1
  <1> HIDE DEF k
  <1>3. Good(0)
    <2>1. k[0] = <<>> /\ 1..0 = {}
      BY <1>1, <1>2
    <2>2. QED BY <2>1
  <1>4. ASSUME NEW n \in 1..Len(s), Good(n - 1) PROVE Good(n)
    <2>1. n \in 0..Len(s) /\ n # 0 /\ s[n] \in T /\ \A i \in 1..n : i = n \/ i \in 1..(n - 1)
      BY <1>1
    <2>2. CASE s[n] \in S
      <3>1. k[n] = Append(k[n - 1], s[n])
        BY Zenon, <1>2, <2>1, <2>2
      <3>2. k[n] \in Seq(T) /\ Len(k[n]) = Len(k[n - 1]) + 1 /\ Len(k[n - 1]) \in Nat
        BY <1>4, <2>1, <3>1, AppendFacts
      <3>3. (\E i \in 1..n : s[i] \notin S) => \E i \in 1..(n - 1) : s[i] \notin S
        BY Zenon, <2>1, <2>2
      <3>4. QED BY <1>1, <1>4, <3>2, <3>3
    <2>3. CASE s[n] \notin S
      <3>1. k[n] = k[n - 1]
        BY Zenon, <1>2, <2>1, <2>3
      <3>2. Len(k[n - 1]) \in Nat
        BY <1>4
      <3>3. QED BY <1>1, <1>4, <3>1, <3>2
    <2>4. QED BY Zenon, <2>2, <2>3
  <1>5. Good(Len(s))
    <2> HIDE DEF Good
    <2>1. SUFFICES ASSUME Bad # {} PROVE FALSE
      BY <1>1
    <2>2. Bad \in SUBSET Nat
      BY <1>1
    <2>3. PICK n \in Bad : \A x \in Bad : n <= x
      BY Zenon, <2>1, <2>2, LeastExists
    <2>4. n # 0 /\ n \in 1..Len(s) /\ n - 1 \in 0..Len(s) /\ ~(n <= n - 1)
      BY <1>1, <1>3, <2>3
    <2>5. Good(n - 1)
      BY Zenon, <2>3, <2>4
    <2>6. QED BY Zenon, <1>4, <2>3, <2>4, <2>5
  <1>6. \E i \in 1..Len(s) : s[i] \notin S
    BY SeqFun
  <1>7. QED BY Zenon, <1>5, <1>6 DEF Keep, k

\* A queue that is not empty has a request with the largest p.
LEMMA Extreme ==
    ASSUME NEW s \in Seq(Requests), s # <<>>, NEW p \in [Requests -> Int]
    PROVE  \E r \in Range(s) : \A q \in Range(s) : p[r] >= p[q]
  <1> USE Zenon
  <1> DEFINE Good(n) == \E j \in 1..n : \A i \in 1..n : p[s[j]] >= p[s[i]]
             Bad == {n \in 1..Len(s) : ~Good(n)}
  <1>1. Len(s) \in Nat /\ Len(s) # 0 /\ \A i \in 1..Len(s) : s[i] \in Requests
    BY SMT, SeqFun
  <1>2. Good(1)
    <2>1. 1 \in 1..1 /\ \A i \in 1..1 : i = 1
      BY SMT
    <2>2. p[s[1]] \in Int
      BY SMT, <1>1
    <2>3. QED BY SMT, <2>1, <2>2
  <1>3. ASSUME NEW n \in 2..Len(s), Good(n - 1) PROVE Good(n)
    <2>1. PICK j \in 1..(n - 1) : \A i \in 1..(n - 1) : p[s[j]] >= p[s[i]]
      BY <1>3
    <2>2. j \in 1..n /\ n \in 1..n /\ (\A i \in 1..n : i = n \/ i \in 1..(n - 1)) /\ \A i \in 1..n : i \in 1..Len(s)
      BY SMT, <1>1
    <2>3. \A i \in 1..n : p[s[i]] \in Int
      BY <1>1, <2>2
    <2>4. CASE p[s[j]] >= p[s[n]]
      BY <2>1, <2>2, <2>4
    <2>5. CASE ~(p[s[j]] >= p[s[n]])
      <3>1. \A i \in 1..n : p[s[n]] >= p[s[i]]
        <4>1. TAKE i \in 1..n
        <4>2. CASE i = n
          BY SMT, <2>3, <4>2
        <4>3. CASE i \in 1..(n - 1)
          BY SMT, <2>1, <2>2, <2>3, <2>5, <4>3
        <4>4. QED BY <2>2, <4>2, <4>3
      <3>2. QED BY <2>2, <3>1
    <2>6. QED BY <2>4, <2>5
  <1>4. Good(Len(s))
    <2> HIDE DEF Good
    <2>1. SUFFICES ASSUME Bad # {} PROVE FALSE
      BY SMT, <1>1
    <2>2. Bad \in SUBSET Nat
      BY SMT, <1>1
    <2>3. PICK n \in Bad : \A x \in Bad : n <= x
      BY <2>1, <2>2, LeastExists
    <2>4. n \in 2..Len(s) /\ n - 1 \in 1..Len(s) /\ ~(n <= n - 1)
      BY SMT, <1>1, <1>2, <2>3
    <2>5. Good(n - 1)
      BY <2>3, <2>4
    <2>6. QED BY <1>3, <2>3, <2>4, <2>5
  <1>5. PICK j \in 1..Len(s) : \A i \in 1..Len(s) : p[s[j]] >= p[s[i]]
    BY <1>4
  <1>6. s[j] \in Range(s) /\ \A q \in Range(s) : \E i \in 1..Len(s) : s[i] = q
    BY SeqFun
  <1>7. QED BY <1>5, <1>6

\* The request that is preempted runs.
LEMMA VictimIn ==
    ASSUME running \in Seq(Requests), running # <<>>
    PROVE  Victim \in Range(running)
  <1> USE Zenon
  <1>1. CASE config.policy = "PRIORITY"
    <2> DEFINE p == [r \in Requests |-> Priority[r]]
    <2>1. p \in [Requests -> Int]
      BY ConfigsAssumption
    <2>2. PICK r \in Range(running) : \A q \in Range(running) : p[r] >= p[q]
      BY <2>1, Extreme
    <2>3. \A q \in Range(running) : p[q] = Priority[q]
      BY SeqFun
    <2> HIDE DEF p
    <2>4. \A q \in Range(running) : Priority[r] >= Priority[q]
      BY <2>2, <2>3
    <2>5. QED BY <1>1, <2>4 DEF Victim
  <1>2. CASE config.policy # "PRIORITY"
    <2>1. Len(running) \in 1..Len(running)
      BY SMT, SeqFun
    <2>2. QED BY <1>2, <2>1, SeqFun DEF Victim
  <1>3. QED BY <1>1, <1>2

\* The request that is tried first waits.
LEMMA FirstIn ==
    ASSUME waiting \in Seq(Requests), waiting # <<>>
    PROVE  First \in Range(waiting)
  <1>1. CASE config.policy = "PRIORITY"
    <2> DEFINE p == [r \in Requests |-> 0 - Priority[r]]
    <2>1. p \in [Requests -> Int]
      BY ConfigsAssumption
    <2>2. PICK r \in Range(waiting) : \A q \in Range(waiting) : p[r] >= p[q]
      BY Zenon, <2>1, Extreme
    <2>3. \A q \in Range(waiting) : p[q] = 0 - Priority[q] /\ Priority[q] \in Int
      BY Zenon, SeqFun, ConfigsAssumption
    <2> HIDE DEF p
    <2>4. \A q \in Range(waiting) : Priority[r] <= Priority[q]
      BY <2>2, <2>3
    <2>5. QED BY Zenon, <1>1, <2>4 DEF First
  <1>2. CASE config.policy # "PRIORITY"
    <2>1. 1 \in 1..Len(waiting) /\ Head(waiting) = waiting[1]
      BY SeqFun
    <2>2. QED BY <1>2, <2>1, SeqFun DEF First
  <1>3. QED BY Zenon, <1>1, <1>2

--------------------------------------------------------------------------------
\* Every step keeps the invariant.

\* The local state of schedule() when it does not run.
LEMMA IdleFacts ==
    /\ Idle \in StepType /\ Idle.at = "idle" /\ Idle.batch = <<>> /\ Idle.trial = NoTrial
    /\ Range(Idle.batch) = {} /\ Computes(Idle) = {}
  <1>1. Idle \in StepType /\ Idle.at = "idle" /\ Idle.batch = <<>> /\ Idle.trial = NoTrial
    BY DEF Idle, StepType
  <1>2. Range(<<>>) = {}
    BY DEF Range
  <1>3. QED BY Zenon, <1>1, <1>2 DEF Computes

\* The fields of a trial.
LEMMA TrialFacts ==
    ASSUME NEW r \in Requests, NEW start \in Int, NEW t \in TryType
    PROVE  LET x == Trial(r, start, t) IN
           /\ x \in TrialType /\ x # NoTrial /\ x.req = r /\ x.start = start /\ x.n = t.n
           /\ x.inputs = t.inputs
  <1> USE Zenon
  <1> DEFINE x == Trial(r, start, t)
  <1>1. t.n \in Int /\ t.inputs \in SUBSET Nat /\ t.compute \in Int
    BY DEF TryType
  <1>2. x \in TrialType /\ x.req = r /\ x.start = start /\ x.n = t.n /\ x.inputs = t.inputs
    BY <1>1 DEF Trial, TrialType
  <1>3. "req" \in DOMAIN x /\ "req" \notin DOMAIN NoTrial
    BY DEF Trial, NoTrial
  <1>4. x # NoTrial
    BY <1>3
  <1>5. QED BY <1>2, <1>4

\* The numbers of a configuration.
LEMMA ConfigFacts ==
    ASSUME config \in Configs
    PROVE  config.shift \in Nat /\ config.tokens \in Nat /\ config.compute \in Nat
  BY Zenon, ConfigsAssumption

\* The items of a batch.
LEMMA BatchFacts ==
    ASSUME NEW b \in Seq(Item), NEW x \in Range(b)
    PROVE  x \in Item /\ x.req \in Requests /\ x.n \in Int
  <1> USE Zenon
  <1>1. x \in Item
    BY SeqFun
  <1>2. QED BY <1>1 DEF Item

\* A step of schedule() that changes its place and nothing else.
LEMMA QuietOK ==
    ASSUME IInv, UNCHANGED <<config, m, status, running, waiting, computed, queue, outputs, worker>>,
           step.trial = NoTrial, step'.trial = NoTrial, step' \in StepType, step'.batch = step.batch,
           step'.at # "idle", step'.at = "running" => step.batch = <<>> /\ step'.index = 1
    PROVE  IInv'
  <1> USE Zenon
  <1>1. /\ TypesOK /\ CacheOK(m) /\ ListsOK /\ StepOK /\ (config.shift = 0 => RefsOK)
        /\ config.policy # "PRIORITY" => OrderOK /\ AgreeOK
        /\ config.shift = 0 /\ config.policy # "PRIORITY" => HitOK
    BY DEF IInv
  <1>2. TypesOK' /\ CacheOK(m)' /\ ListsOK'
    BY <1>1 DEF TypesOK, ListsOK
  <1>3. step'.at = "running" => Len(step'.batch) < step'.index /\ Range(step'.batch) = {}
    BY SMT DEF Range
  <1>4. StepOK'
    BY <1>1, <1>3 DEF StepOK
  <1>5. config.shift = 0 => RefsOK'
    BY <1>1 DEF RefsOK, Trying
  <1>6. OrderOK'
    BY <1>3 DEF OrderOK
  <1>7. AgreeOK => AgreeOK'
    BY DEF AgreeOK, Computes
  <1>8. HitOK => HitOK'
    BY DEF HitOK
  <1>9. QED BY <1>1, <1>2, <1>4, <1>5, <1>6, <1>7, <1>8 DEF IInv

\* schedule() starts.
LEMMA StartStepOK == ASSUME IInv, StartStep PROVE IInv'
  <1> USE Zenon
  <1>1. step = Idle /\ config \in Configs
    BY DEF StartStep, IInv, TypesOK
  <1>2. /\ step' = [Idle EXCEPT !.at = "running", !.tokens = config.tokens, !.compute = config.compute]
        /\ UNCHANGED <<config, m, status, running, waiting, computed, queue, outputs, worker>>
    BY DEF StartStep, requests
  <1>3. config.tokens \in Int /\ config.compute \in Int
    BY SMT, <1>1, ConfigFacts
  <1>4. /\ step'.trial = NoTrial /\ step' \in StepType /\ step'.batch = <<>> /\ step'.at = "running"
        /\ step'.index = 1
    <2>1. step' = [at |-> "running", index |-> 1, tokens |-> config.tokens, compute |-> config.compute,
                   batch |-> <<>>, preempted |-> FALSE, trial |-> NoTrial]
      BY <1>2 DEF Idle
    <2>2. QED BY SMT, <1>3, <2>1 DEF StepType
  <1>5. QED BY <1>1, <1>2, <1>4, IdleFacts, QuietOK

\* The loops over the running and the waiting requests end.
LEMMA EndOK == ASSUME IInv, EndRunning \/ EndWaiting PROVE IInv'
  <1> USE Zenon
  <1>1. step \in StepType
    BY DEF IInv, TypesOK
  <1>2. PICK a \in {"waiting", "output"} : step' = [step EXCEPT !.at = a]
    BY DEF EndRunning, EndWaiting
  <1>3. /\ step.trial = NoTrial
        /\ UNCHANGED <<config, m, status, running, waiting, computed, queue, outputs, worker>>
    BY DEF EndRunning, EndWaiting, requests
  <1>4. step'.trial = step.trial /\ step' \in StepType /\ step'.batch = step.batch /\ step'.at = a
    BY <1>1, <1>2 DEF StepType
  <1>5. QED BY <1>3, <1>4, QuietOK

\* What a trial leaves of the agreement between the manager and the worker.
LEMMA TriedAgrees ==
    ASSUME NEW b, AgreeOK, \A s \in Requests : Held(m, s) \subseteq Held(b, s),
           DOMAIN b.cached \subseteq DOMAIN m.cached,
           b.freed = m.freed \cup (DOMAIN m.cached \ DOMAIN b.cached),
           \A x \in Range(step.batch) : x.req \in Requests
    PROVE  /\ DOMAIN b.cached = (Sent(Len(queue), queue, worker) \ b.freed) \cup Computes(step)
           /\ \A x \in Range(step.batch) : HashesOf(x.req, x.inputs) \subseteq Held(b, x.req)
  <1> USE Zenon
  <1>1. /\ DOMAIN m.cached = (Sent(Len(queue), queue, worker) \ m.freed) \cup Computes(step)
        /\ \A x \in Range(step.batch) : HashesOf(x.req, x.inputs) \subseteq Held(m, x.req)
    BY DEF AgreeOK
  <1>2. \A x \in Range(step.batch) : HashesOf(x.req, x.inputs) \subseteq Held(b, x.req)
    BY <1>1
  <1>3. \A s \in Requests : Held(b, s) \subseteq DOMAIN b.cached
    BY DEF Held
  <1>4. Computes(step) \subseteq DOMAIN b.cached
    BY SMT, <1>2, <1>3 DEF Computes
  <1>5. QED BY <1>1, <1>2, <1>4

\* A trial of the inputs of r, which runs or waits.
LEMMA TriedOK ==
    ASSUME IInv, NEW r \in Requests, NEW start \in Int, NEW n \in Int,
           NEW t, t = TrySchedule(r, start, n), m' = t.m,
           UNCHANGED <<config, status, running, waiting, computed, queue, outputs, worker>>,
           step.trial = NoTrial, step' \in StepType, step'.batch = step.batch, step'.at # "idle",
           step'.trial = NoTrial \/ step'.trial = Trial(r, start, t),
           step.at \in {"running", "waiting"},
           step.at = "running" =>
             /\ step.index \in 1..Len(running) /\ r = running[step.index] /\ step'.at = "running"
             /\ step'.index >= step.index /\ (step'.trial # NoTrial => step'.index = step.index),
           step.at = "waiting" =>
             /\ r \in Range(waiting) /\ n > 0 /\ step'.at # "running"
             /\ IF step'.trial = NoTrial THEN t.n = 0 ELSE step'.at = "waiting"
    PROVE  IInv'
  <1> USE Zenon
  <1>1. /\ TypesOK /\ CacheOK(m) /\ ListsOK /\ StepOK /\ (config.shift = 0 => RefsOK)
        /\ config.policy # "PRIORITY" => OrderOK /\ AgreeOK
        /\ config.shift = 0 /\ config.policy # "PRIORITY" => HitOK
    BY DEF IInv
  <1>2. /\ config \in Configs /\ running \in Seq(Requests) /\ waiting \in Seq(Requests)
        /\ step.compute \in Int /\ step.index \in Int /\ step.batch \in Seq(Item)
    BY <1>1 DEF TypesOK, StepType
  <1>3. TryBase(t, r, n) /\ (config.shift = 0 => TryHit(t, Len(Features[r]), r, start, n))
    BY <1>1, <1>2, ConfigFacts, TryScheduleOK
  <1>4. /\ t \in TryType /\ CacheOK(m') /\ Fit(m', r, t.inputs)
        /\ \A s \in Requests : s # r => m'.ids[s] = m.ids[s] /\ Held(m', s) = Held(m, s)
        /\ Held(m, r) \subseteq Held(m', r)
        /\ DOMAIN m'.cached \subseteq DOMAIN m.cached
        /\ m'.freed = m.freed \cup (DOMAIN m.cached \ DOMAIN m'.cached)
    BY <1>3 DEF TryBase
  <1>5. /\ step'.trial # NoTrial =>
             /\ step'.trial.req = r /\ step'.trial.start = start /\ step'.trial.n = t.n
             /\ step'.trial.inputs = t.inputs
    BY SMT, <1>4, TrialFacts
  <1>6. step.at = "running" => r \in Range(running) /\ status[r] = "running"
    BY SMT, <1>1, <1>2, SeqFun DEF ListsOK
  <1>7. \A s \in Requests : Held(m, s) \subseteq Held(m', s)
    BY <1>4
  <1>8. \A x \in Range(step.batch) : x.req \in Requests
    BY <1>2, BatchFacts
  <1>9. TypesOK' /\ ListsOK'
    BY <1>1 DEF TypesOK, ListsOK
  <1>10. StepOK'
    <2>1. Len(step.batch) \in Nat /\ step'.index \in Int
      BY SMT, <1>2, SeqFun DEF StepType
    <2>2. step'.at = "running" => Len(step'.batch) < step'.index
      BY SMT, <1>1, <1>2, <2>1 DEF StepOK
    <2>3. step'.trial # NoTrial =>
            /\ Fit(m', step'.trial.req, step'.trial.inputs)
            /\ \/ step'.at = "running" /\ step'.trial.req \in Range(running')
               \/ step'.at = "waiting" /\ step'.trial.req \in Range(waiting')
      BY <1>4, <1>5, <1>6
    <2>4. QED BY <1>1, <2>2, <2>3 DEF StepOK
  <1>11. ASSUME config.shift = 0 PROVE RefsOK'
    <2>1. SUFFICES ASSUME NEW s \in Requests, status[s] # "running", ~Trying(s)' PROVE m'.ids[s] = {}
      BY DEF RefsOK
    <2>2. m.ids[s] = {}
      BY <1>1, <1>11, <2>1 DEF RefsOK, Trying
    <2>3. CASE s # r
      BY <1>4, <2>2, <2>3
    <2>4. CASE s = r
      <3>1. step.at = "waiting" /\ step'.trial = NoTrial
        BY <1>5, <1>6, <2>1, <2>4 DEF Trying
      <3>2. n > 0 /\ ~(t.n > 0)
        BY SMT, <3>1
      <3>3. QED BY <1>3, <1>11, <2>2, <2>4, <3>2 DEF TryHit
    <2>5. QED BY <2>3, <2>4
  <1>12. OrderOK => OrderOK'
    <2>1. SUFFICES ASSUME OrderOK, step'.at = "running" PROVE OrderOK'
      BY DEF OrderOK
    <2>2. step.at = "running" /\ step'.index \in Int
      BY <2>1 DEF StepType
    <2>3. \A k \in 1..Len(running) : k < step.index => k < step'.index
      BY SMT, <1>2, <2>2
    <2>4. QED BY <1>5, <2>1, <2>2, <2>3 DEF OrderOK
  <1>13. AgreeOK => AgreeOK'
    <2>1. ASSUME AgreeOK
          PROVE  /\ DOMAIN m'.cached = (Sent(Len(queue), queue, worker) \ m'.freed) \cup Computes(step)
                 /\ \A x \in Range(step.batch) : HashesOf(x.req, x.inputs) \subseteq Held(m', x.req)
      BY <1>4, <1>7, <1>8, <2>1, TriedAgrees
    <2>2. Computes(step') = Computes(step)
      BY DEF Computes
    <2>3. QED BY <2>1, <2>2 DEF AgreeOK
  <1>14. ASSUME config.shift = 0, HitOK PROVE HitOK'
    <2>1. \A x \in Range(step.batch) : Needs(x) \subseteq Held(m', x.req)
      BY <1>7, <1>8, <1>14 DEF HitOK
    <2>2. ASSUME step'.trial # NoTrial
          PROVE  Needs(step'.trial) \subseteq Held(m', r) \cup HashesOf(r, t.inputs)
      <3>1. Needs(step'.trial) = HashesOf(r, {i \in DOMAIN Features[r] : Reads(r, i, start, t.n)})
        BY <1>5, <2>2 DEF Needs
      <3>2. DOMAIN Features[r] = 1..Len(Features[r]) /\ Len(Features[r]) \in Nat
        BY HashesOfFacts
      <3>3. \A j \in DOMAIN Features[r] : Reads(r, j, start, t.n) =>
              HashOf(r, j) \in Held(m', r) \cup HashesOf(r, t.inputs)
        BY SMT, <1>3, <1>14, <3>2 DEF TryHit
      <3>4. QED BY <3>1, <3>3 DEF HashesOf
    <2>3. QED BY <1>5, <1>14, <2>1, <2>2 DEF HitOK
  <1>15. QED BY <1>1, <1>4, <1>9, <1>10, <1>11, <1>12, <1>13, <1>14 DEF IInv

\* The smaller of two numbers.
LEMMA MinFacts ==
    ASSUME NEW a \in Int, NEW b \in Int
    PROVE  MinOf(a, b) \in Int /\ (a > 0 /\ b > 0 => MinOf(a, b) > 0)
  BY Zenon DEF MinOf

\* The next running request is tried.
LEMMA TryRunningOK == ASSUME IInv, TryRunning PROVE IInv'
  <1> USE Zenon
  <1> DEFINE r == running[step.index]
             n == MinOf(PromptLen[r] - computed[r], step.tokens)
             t == TrySchedule(r, computed[r], n)
  <1>1. /\ TypesOK /\ StepOK /\ step \in StepType /\ config \in Configs /\ CacheOK(m)
        /\ running \in Seq(Requests) /\ step.batch \in Seq(Item) /\ step.index \in Int
        /\ step.tokens \in Int /\ computed \in [Requests -> Int] /\ step.compute \in Int
    BY DEF IInv, TypesOK, StepType
  <1>2. /\ step.at = "running" /\ step.trial = NoTrial /\ step.index <= Len(running)
        /\ m' = t.m
        /\ step' = IF t.n = 0 THEN [step EXCEPT !.index = @ + 1]
                   ELSE [step EXCEPT !.trial = Trial(r, computed[r], t)]
        /\ UNCHANGED <<config, status, running, waiting, computed, queue, outputs, worker>>
    BY DEF TryRunning, requests
  <1>3. step.index \in 1..Len(running) /\ r \in Requests
    <2>1. Len(step.batch) < step.index /\ Len(step.batch) \in Nat /\ Len(running) \in Nat
      BY SMT, <1>1, <1>2, SeqFun DEF StepOK
    <2>2. step.index \in 1..Len(running)
      BY SMT, <1>1, <1>2, <2>1
    <2>3. QED BY <1>1, <2>2, SeqFun
  <1>4. computed[r] \in Int /\ n \in Int
    <2>1. computed[r] \in Int /\ PromptLen[r] \in Int
      BY SMT, <1>1, <1>3, ConfigsAssumption
    <2>2. PromptLen[r] - computed[r] \in Int
      BY SMT, <2>1
    <2>3. QED BY <1>1, <2>1, <2>2, MinFacts
  <1> HIDE DEF n, r
  <1>5. t \in TryType
    BY <1>1, <1>3, <1>4, ConfigFacts, TryScheduleOK DEF TryBase
  <1> HIDE DEF t
  <1> DEFINE y == Trial(r, computed[r], t)
  <1>6. y \in TrialType
    BY <1>3, <1>4, <1>5, TrialFacts
  <1> HIDE DEF y
  <1>7. \/ step' = [step EXCEPT !.index = @ + 1]
        \/ step' = [step EXCEPT !.trial = y]
    BY <1>2 DEF y
  <1>8. /\ step' \in StepType /\ step'.batch = step.batch /\ step'.at = "running"
        /\ \/ step'.trial = NoTrial /\ step'.index = step.index + 1
           \/ step'.trial = y /\ step'.index = step.index
    <2>1. CASE step' = [step EXCEPT !.index = @ + 1]
      <3> DEFINE i == step.index + 1
      <3>1. i \in Int /\ step' = [step EXCEPT !.index = i]
        BY SMT, <1>1, <2>1
      <3> HIDE DEF i
      <3>2. step' \in StepType /\ step'.batch = step.batch /\ step'.at = step.at
            /\ step'.trial = step.trial /\ step'.index = i
        BY <1>1, <3>1 DEF StepType
      <3>3. QED BY <1>2, <3>2 DEF i
    <2>2. CASE step' = [step EXCEPT !.trial = y]
      BY <1>1, <1>2, <1>6, <2>2 DEF StepType
    <2>3. QED BY <1>7, <2>1, <2>2
  <1>9. step'.trial = NoTrial \/ step'.trial = Trial(r, computed[r], t)
    BY <1>8 DEF y
  <1>10. step'.index >= step.index /\ (step'.trial # NoTrial => step'.index = step.index)
    BY SMT, <1>1, <1>8
  <1>11. t = TrySchedule(r, computed[r], n) /\ r = running[step.index]
    BY DEF t, n, r
  <1>12. QED BY <1>2, <1>3, <1>4, <1>8, <1>9, <1>10, <1>11, TriedOK

\* The first waiting request is tried.
LEMMA TryWaitingOK == ASSUME IInv, TryWaiting PROVE IInv'
  <1> USE Zenon
  <1> DEFINE r == First
             n(s) == MinOf(PromptLen[r] - s, step.tokens)
             t(s) == TrySchedule(r, s, n(s))
  <1>1. /\ TypesOK /\ StepOK /\ step \in StepType /\ config \in Configs /\ CacheOK(m)
        /\ waiting \in Seq(Requests) /\ step.tokens \in Int /\ step.compute \in Int
    BY DEF IInv, TypesOK, StepType
  <1>2. PICK s \in {k \in Hits : k < PromptLen[r]} :
          /\ m' = t(s).m
          /\ step' = IF t(s).n = 0 THEN [step EXCEPT !.at = "output"]
                     ELSE [step EXCEPT !.trial = Trial(r, s, t(s))]
    BY DEF TryWaiting
  <1>3. /\ step.at = "waiting" /\ step.trial = NoTrial /\ waiting # <<>> /\ step.tokens > 0
        /\ UNCHANGED <<config, status, running, waiting, computed, queue, outputs, worker>>
    BY DEF TryWaiting, requests
  <1>4. r \in Range(waiting) /\ r \in Requests
    BY <1>1, <1>3, FirstIn, SeqFun
  <1>5. s \in Int /\ n(s) \in Int /\ n(s) > 0
    <2>1. s \in Int /\ PromptLen[r] \in Int /\ s < PromptLen[r]
      BY SMT, <1>2, <1>4, ConfigsAssumption
    <2>2. PromptLen[r] - s \in Int /\ PromptLen[r] - s > 0
      BY SMT, <2>1
    <2>3. QED BY <1>1, <1>3, <2>1, <2>2, MinFacts
  <1> HIDE DEF n, r
  <1>6. t(s) \in TryType
    BY <1>1, <1>4, <1>5, ConfigFacts, TryScheduleOK DEF TryBase
  <1> DEFINE u == t(s)
             y == Trial(r, s, u)
  <1>7. y \in TrialType /\ y # NoTrial
    BY <1>4, <1>5, <1>6, TrialFacts
  <1>8. \/ u.n = 0 /\ step' = [step EXCEPT !.at = "output"]
        \/ step' = [step EXCEPT !.trial = y]
    BY <1>2
  <1>9. m' = u.m /\ u = TrySchedule(r, s, n(s))
    BY <1>2
  <1> HIDE DEF t, u, y
  <1>10. /\ step' \in StepType /\ step'.batch = step.batch
         /\ \/ step'.trial = NoTrial /\ step'.at = "output" /\ u.n = 0
            \/ step'.trial = y /\ step'.at = "waiting"
    <2>1. CASE u.n = 0 /\ step' = [step EXCEPT !.at = "output"]
      BY <1>1, <1>3, <2>1 DEF StepType
    <2>2. CASE step' = [step EXCEPT !.trial = y]
      BY <1>1, <1>3, <1>7, <2>2 DEF StepType
    <2>3. QED BY <1>8, <2>1, <2>2
  <1>11. step'.trial = NoTrial \/ step'.trial = Trial(r, s, u)
    BY <1>10 DEF y
  <1> DEFINE k == n(s)
  <1>12. k \in Int /\ k > 0 /\ u = TrySchedule(r, s, k)
    BY <1>5, <1>9
  <1> HIDE DEF k
  <1>13. /\ step'.at # "running" /\ step'.at # "idle"
         /\ IF step'.trial = NoTrial THEN u.n = 0 ELSE step'.at = "waiting"
    BY <1>7, <1>10
  <1>14. QED BY <1>3, <1>4, <1>5, <1>9, <1>10, <1>11, <1>12, <1>13, TriedOK

\* The item of a batch for a trial.
ItemOf(t) == [req |-> t.req, start |-> t.start, n |-> t.n, inputs |-> t.inputs]

\* Its fields, and that it reads what the trial reads.
LEMMA ItemFacts ==
    ASSUME NEW t \in TrialType
    PROVE  /\ ItemOf(t) \in Item /\ ItemOf(t).req = t.req /\ ItemOf(t).inputs = t.inputs
           /\ Needs(ItemOf(t)) = Needs(t)
  BY Zenon DEF ItemOf, Item, TrialType, Needs

\* The inputs of the trial are allocated, and the request joins the batch.
LEMMA ScheduledOK ==
    ASSUME IInv, step.trial # NoTrial, Scheduled(step.trial), UNCHANGED <<config, queue, worker>>
    PROVE  LET t == step.trial IN
           /\ t \in TrialType /\ t.req \in Requests /\ CacheOK(m')
           /\ \A s \in Requests : s # t.req => m'.ids[s] = m.ids[s]
           /\ step' \in StepType /\ step'.at = step.at /\ step'.trial = NoTrial
           /\ step'.index = IF step.at = "running" THEN step.index + 1 ELSE step.index
           /\ Len(step'.batch) = Len(step.batch) + 1
           /\ Range(step'.batch) = Range(step.batch) \cup {ItemOf(t)}
           /\ ItemOf(t).req = t.req /\ Sized(t.req, ItemOf(t).inputs)
           /\ AgreeOK => AgreeOK'
           /\ HitOK => HitOK'
  <1> USE Zenon
  <1> DEFINE t == step.trial
             r == t.req
             x == ItemOf(t)
             H == HashesOf(r, t.inputs)
             c == IF t.inputs = {} THEN step.compute ELSE t.compute
             k == IF step.at = "running" THEN step.index + 1 ELSE step.index
             d == step.tokens - t.n
             B == Append(step.batch, x)
  <1>1. TypesOK /\ CacheOK(m) /\ StepOK /\ step \in StepType /\ step.batch \in Seq(Item)
    BY DEF IInv, TypesOK, StepType
  <1>2. t \in TrialType /\ step.index \in Int /\ step.compute \in Int /\ step.tokens \in Int
    BY <1>1 DEF StepType
  <1>3. Fit(m, r, t.inputs)
    BY <1>1 DEF StepOK
  <1>3a. Sized(r, t.inputs)
    BY <1>3 DEF Fit, Sized
  <1>4. r \in Requests /\ c \in Int /\ k \in Int /\ d \in Int
    BY SMT, <1>2 DEF TrialType
  <1>5. x \in Item /\ x.req = r /\ x.inputs = t.inputs /\ Needs(x) = Needs(t)
    BY <1>2, ItemFacts
  <1>6. m' = Allocate(m, r, t.inputs)
    BY DEF Scheduled
  <1>7. step' = [step EXCEPT !.batch = B, !.tokens = d, !.compute = c, !.index = k, !.trial = NoTrial]
    BY DEF Scheduled, ItemOf
  <1> HIDE DEF x
  <1>8. B \in Seq(Item) /\ Len(B) = Len(step.batch) + 1 /\ Range(B) = Range(step.batch) \cup {x}
    BY SMT, <1>1, <1>5, AppendFacts
  <1> HIDE DEF c, k, d, B
  <1>9. /\ step' \in StepType /\ step'.at = step.at /\ step'.trial = NoTrial /\ step'.index = k
        /\ step'.batch = B
    BY <1>1, <1>4, <1>7, <1>8 DEF StepType
  <1>10. /\ CacheOK(m') /\ DOMAIN m'.cached = DOMAIN m.cached \cup H /\ m'.freed = m.freed
         /\ m'.ids = [m.ids EXCEPT ![r] = @ \cup t.inputs]
         /\ Held(m', r) = Held(m, r) \cup H
         /\ \A s \in Requests : s # r => Held(m', s) = Held(m, s)
    <2>1. Allocated(m, m', r, t.inputs)
      BY <1>1, <1>3, <1>4, <1>6, AllocateOK
    <2>2. QED BY <2>1 DEF Allocated
  <1>11. \A s \in Requests : s # r => m'.ids[s] = m.ids[s]
    BY <1>1, <1>10, CacheFacts
  <1>12. \A y \in Range(step.batch) : y.req \in Requests
    BY <1>1, BatchFacts
  <1>13. \A s \in Requests : Held(m, s) \subseteq Held(m', s)
    BY <1>10
  <1>14. ASSUME AgreeOK PROVE AgreeOK'
    <2>1. /\ DOMAIN m.cached = (Sent(Len(queue), queue, worker) \ m.freed) \cup Computes(step)
          /\ \A y \in Range(step.batch) : HashesOf(y.req, y.inputs) \subseteq Held(m, y.req)
      BY <1>14 DEF AgreeOK
    <2>2. Computes(step') = Computes(step) \cup H
      BY <1>5, <1>8, <1>9 DEF Computes
    <2>3. DOMAIN m'.cached = (Sent(Len(queue), queue, worker) \ m'.freed) \cup Computes(step')
      BY <1>10, <2>1, <2>2
    <2>4. \A y \in Range(step'.batch) : HashesOf(y.req, y.inputs) \subseteq Held(m', y.req)
      BY <1>5, <1>8, <1>9, <1>10, <1>12, <1>13, <2>1
    <2>5. QED BY <2>3, <2>4 DEF AgreeOK
  <1>15. ASSUME HitOK PROVE HitOK'
    <2>1. \A y \in Range(step.batch) : Needs(y) \subseteq Held(m', y.req)
      BY <1>12, <1>13, <1>15 DEF HitOK
    <2>2. Needs(x) \subseteq Held(m', x.req)
      BY <1>5, <1>10, <1>15 DEF HitOK
    <2>3. \A y \in Range(step'.batch) : Needs(y) \subseteq Held(m', y.req)
      BY <1>8, <1>9, <2>1, <2>2
    <2>4. QED BY <1>9, <1>15, <2>3 DEF HitOK
  <1>16. QED BY <1>2, <1>3a, <1>4, <1>5, <1>8, <1>9, <1>10, <1>11, <1>14, <1>15 DEF x, k

\* allocate_slots succeeds for a running request.
LEMMA AdmitRunningOK == ASSUME IInv, AdmitRunning PROVE IInv'
  <1> USE Zenon
  <1> DEFINE t == step.trial
             r == t.req
  <1>1. /\ TypesOK /\ CacheOK(m) /\ ListsOK /\ StepOK /\ (config.shift = 0 => RefsOK)
        /\ config.policy # "PRIORITY" => OrderOK /\ AgreeOK
        /\ config.shift = 0 /\ config.policy # "PRIORITY" => HitOK
    BY DEF IInv
  <1>2. /\ step.at = "running" /\ t # NoTrial /\ Scheduled(t)
        /\ UNCHANGED <<config, status, running, waiting, computed, queue, outputs, worker>>
    BY DEF AdmitRunning, requests
  <1>3. /\ t \in TrialType /\ r \in Requests /\ CacheOK(m')
        /\ \A s \in Requests : s # r => m'.ids[s] = m.ids[s]
        /\ step' \in StepType /\ step'.at = "running" /\ step'.trial = NoTrial
        /\ step'.index = step.index + 1 /\ Len(step'.batch) = Len(step.batch) + 1
        /\ Range(step'.batch) = Range(step.batch) \cup {ItemOf(t)}
        /\ ItemOf(t).req = r /\ Sized(r, ItemOf(t).inputs)
        /\ AgreeOK => AgreeOK'
        /\ HitOK => HitOK'
    BY <1>2, ScheduledOK
  <1>4. r \in Range(running) /\ status[r] = "running"
    BY <1>1, <1>2, <1>3 DEF StepOK, ListsOK
  <1>5. TypesOK' /\ ListsOK'
    BY <1>1, <1>2, <1>3 DEF TypesOK, ListsOK
  <1>6. step.index \in Int /\ Len(step.batch) \in Nat
    BY SMT, <1>1, SeqFun DEF TypesOK, StepType
  <1>7. StepOK'
    <2>1. Len(step'.batch) < step'.index
      BY SMT, <1>1, <1>2, <1>3, <1>6 DEF StepOK
    <2>2. \A x \in Range(step'.batch) : x.req \in Range(running) /\ Sized(x.req, x.inputs)
      BY <1>1, <1>3, <1>4 DEF StepOK
    <2>3. QED BY <1>2, <1>3, <2>1, <2>2 DEF StepOK
  <1>8. config.shift = 0 => RefsOK'
    BY <1>1, <1>2, <1>3, <1>4 DEF RefsOK, Trying
  <1>9. OrderOK => OrderOK'
    <2>1. ASSUME OrderOK PROVE \A x \in Range(step'.batch) : \E k \in 1..Len(running) : k < step.index + 1 /\ running[k] = x.req
      <3>1. step.index \in 1..Len(running) /\ running[step.index] = r
        BY <1>2, <2>1 DEF OrderOK
      <3>2. \A k \in 1..Len(running) : k < step.index => k < step.index + 1
        BY SMT, <1>6
      <3>3. step.index < step.index + 1
        BY SMT, <1>6
      <3>4. QED BY <1>2, <1>3, <1>4, <2>1, <3>1, <3>2, <3>3 DEF OrderOK
    <2>2. QED BY <1>2, <1>3, <2>1 DEF OrderOK
  <1>10. QED BY <1>1, <1>2, <1>3, <1>5, <1>7, <1>8, <1>9 DEF IInv

\* allocate_slots succeeds for a waiting request, which runs now.
LEMMA AdmitWaitingOK == ASSUME IInv, AdmitWaiting PROVE IInv'
  <1> USE Zenon
  <1> DEFINE t == step.trial
             r == t.req
  <1>1. /\ TypesOK /\ CacheOK(m) /\ ListsOK /\ StepOK /\ (config.shift = 0 => RefsOK)
        /\ config.policy # "PRIORITY" => OrderOK /\ AgreeOK
        /\ config.shift = 0 /\ config.policy # "PRIORITY" => HitOK
    BY DEF IInv
  <1>2. /\ step.at = "waiting" /\ t # NoTrial /\ Scheduled(t)
        /\ status' = [status EXCEPT ![r] = "running"]
        /\ computed' = [computed EXCEPT ![r] = t.start]
        /\ running' = Append(running, r)
        /\ waiting' = Keep(waiting, Range(waiting) \ {r})
        /\ UNCHANGED <<config, queue, outputs, worker>>
    BY DEF AdmitWaiting, Without
  <1>3. /\ t \in TrialType /\ r \in Requests /\ CacheOK(m')
        /\ \A s \in Requests : s # r => m'.ids[s] = m.ids[s]
        /\ step' \in StepType /\ step'.at = "waiting" /\ step'.trial = NoTrial
        /\ Range(step'.batch) = Range(step.batch) \cup {ItemOf(t)}
        /\ ItemOf(t).req = r /\ Sized(r, ItemOf(t).inputs)
        /\ AgreeOK => AgreeOK'
        /\ HitOK => HitOK'
    BY <1>2, ScheduledOK
  <1>4. r \in Range(waiting) /\ status[r] = "waiting"
    BY <1>1, <1>2, <1>3 DEF StepOK, ListsOK
  <1>5. /\ running \in Seq(Requests) /\ waiting \in Seq(Requests) /\ computed \in [Requests -> Int]
        /\ status \in [Requests -> {"new", "waiting", "running", "finished"}] /\ t.start \in Int
    BY <1>1, <1>3 DEF TypesOK, TrialType
  <1>6. /\ running' \in Seq(Requests) /\ Range(running') = Range(running) \cup {r}
        /\ IsInjective(running) /\ r \notin Range(running) => IsInjective(running')
    BY SMT, <1>2, <1>3, <1>5, AppendFacts
  <1>7. waiting' \in Seq(Requests) /\ Range(waiting') = Range(waiting) \ {r}
    <2>1. waiting' \in Seq(Requests) /\ Range(waiting') = Range(waiting) \cap (Range(waiting) \ {r})
      BY <1>2, <1>5, KeepFacts
    <2>2. QED BY <2>1
  <1>8. /\ status' \in [Requests -> {"new", "waiting", "running", "finished"}]
        /\ computed' \in [Requests -> Int] /\ status'[r] = "running"
        /\ \A s \in Requests : s # r => status'[s] = status[s]
    BY <1>2, <1>3, <1>5
  <1>9. Range(running) \subseteq Requests /\ Range(waiting) \subseteq Requests
    BY <1>5, SeqFun
  <1>10. TypesOK'
    BY <1>1, <1>2, <1>3, <1>6, <1>7, <1>8 DEF TypesOK
  <1>11. ListsOK'
    <2>1. IsInjective(running')
      BY <1>1, <1>4, <1>6 DEF ListsOK
    <2>2. \A s \in Range(running') : status'[s] = "running"
      BY <1>1, <1>6, <1>8, <1>9 DEF ListsOK
    <2>3. \A s \in Range(waiting') : status'[s] = "waiting"
      BY <1>1, <1>7, <1>8, <1>9 DEF ListsOK
    <2>4. QED BY <2>1, <2>2, <2>3 DEF ListsOK
  <1>12. StepOK'
    <2>1. \A x \in Range(step'.batch) : x.req \in Range(running') /\ Sized(x.req, x.inputs)
      BY <1>1, <1>3, <1>4, <1>6 DEF StepOK
    <2>2. QED BY <1>3, <2>1 DEF StepOK
  <1>13. config.shift = 0 => RefsOK'
    BY <1>1, <1>2, <1>3, <1>8 DEF RefsOK, Trying
  <1>14. OrderOK'
    BY <1>3 DEF OrderOK
  <1>15. QED BY <1>1, <1>2, <1>3, <1>10, <1>11, <1>12, <1>13, <1>14 DEF IInv

\* free(r): what the manager holds for the other requests stays.
LEMMA FreeAllOK ==
    ASSUME NEW a, CacheOK(a), NEW r \in Requests
    PROVE  LET b == FreeAll(a, r) IN
           /\ CacheOK(b) /\ DOMAIN b.cached = DOMAIN a.cached /\ b.free = a.free /\ b.freed = a.freed
           /\ b.ids[r] = {}
           /\ \A s \in Requests : s # r => b.ids[s] = a.ids[s] /\ Held(b, s) = Held(a, s)
  <1> USE Zenon
  <1> DEFINE I == a.ids[r]
             b == FreeInputs(a, r, I)
  <1>0. I \subseteq a.ids[r]
    OBVIOUS
  <1> HIDE DEF I
  <1>1. /\ CacheOK(b) /\ DOMAIN b.cached = DOMAIN a.cached /\ b.free = a.free /\ b.freed = a.freed
        /\ b.ids = [a.ids EXCEPT ![r] = @ \ I]
        /\ \A s \in Requests : s # r => Held(b, s) = Held(a, s)
    <2>1. Returned(a, b, r, I)
      BY <1>0, FreeOK
    <2> HIDE DEF b
    <2>2. QED BY <2>1 DEF Returned
  <1>2. a.ids \in [Requests -> SUBSET Nat]
    BY CacheFacts
  <1> HIDE DEF b
  <1>3. b.ids[r] = {} /\ \A s \in Requests : s # r => b.ids[s] = a.ids[s]
    BY <1>1, <1>2 DEF I
  <1>4. QED BY <1>1, <1>3 DEF FreeAll, b, I

\* allocate_slots fails for a waiting request: it gives everything back.
LEMMA RefuseWaitingOK == ASSUME IInv, RefuseWaiting PROVE IInv'
  <1> USE Zenon
  <1> DEFINE r == step.trial.req
  <1>1. /\ TypesOK /\ CacheOK(m) /\ ListsOK /\ StepOK /\ (config.shift = 0 => RefsOK)
        /\ config.policy # "PRIORITY" => OrderOK /\ AgreeOK
        /\ config.shift = 0 /\ config.policy # "PRIORITY" => HitOK
    BY DEF IInv
  <1>2. /\ step.at = "waiting" /\ step.trial # NoTrial /\ m' = FreeAll(m, r)
        /\ step' = [step EXCEPT !.at = "output", !.trial = NoTrial]
        /\ UNCHANGED <<config, status, running, waiting, computed, queue, outputs, worker>>
    BY DEF RefuseWaiting, requests
  <1>3. /\ step \in StepType /\ waiting \in Seq(Requests) /\ running \in Seq(Requests)
    BY <1>1 DEF TypesOK
  <1>4. step' \in StepType /\ step'.at = "output" /\ step'.trial = NoTrial /\ step'.batch = step.batch
    BY <1>2, <1>3 DEF StepType
  <1>5. r \in Range(waiting) /\ r \in Requests /\ status[r] = "waiting"
    BY SMT, <1>1, <1>2, <1>3, SeqFun DEF StepOK, ListsOK
  <1>6. /\ CacheOK(m') /\ DOMAIN m'.cached = DOMAIN m.cached /\ m'.freed = m.freed
        /\ m'.ids[r] = {}
        /\ \A s \in Requests : s # r => m'.ids[s] = m.ids[s] /\ Held(m', s) = Held(m, s)
    BY SMT, <1>1, <1>2, <1>5, FreeAllOK
  <1>7. \A x \in Range(step.batch) : x.req \in Requests /\ x.req # r
    BY SMT, <1>1, <1>3, <1>5, SeqFun DEF StepOK, ListsOK
  <1>8. TypesOK' /\ ListsOK' /\ StepOK' /\ OrderOK'
    BY <1>1, <1>2, <1>4 DEF TypesOK, ListsOK, StepOK, OrderOK
  <1>9. config.shift = 0 => RefsOK'
    BY <1>1, <1>4, <1>2, <1>6 DEF RefsOK, Trying
  <1>10. AgreeOK => AgreeOK'
    <2>1. Computes(step') = Computes(step)
      BY <1>4 DEF Computes
    <2>2. QED BY SMT, <1>2, <1>4, <1>6, <1>7, <2>1 DEF AgreeOK
  <1>11. HitOK => HitOK'
    BY <1>2, <1>4, <1>6, <1>7 DEF HitOK
  <1>12. QED BY <1>1, <1>2, <1>6, <1>8, <1>9, <1>10, <1>11 DEF IInv

\* The running requests without the preempted one.
LEMMA ListWithout ==
    ASSUME running \in Seq(Requests), IsInjective(running), running # <<>>,
           running' = IF config.policy = "PRIORITY" THEN Without(running, Victim)
                      ELSE SubSeq(running, 1, Len(running) - 1)
    PROVE  /\ Victim \in Range(running) /\ Victim \in Requests /\ running' \in Seq(Requests)
           /\ IsInjective(running') /\ Range(running') = Range(running) \ {Victim}
           /\ config.policy # "PRIORITY" =>
                /\ Victim = running[Len(running)] /\ Len(running') = Len(running) - 1
                /\ \A k \in 1..(Len(running) - 1) : running'[k] = running[k]
  <1> USE Zenon
  <1>1. Victim \in Range(running) /\ Victim \in Requests
    BY VictimIn, SeqFun
  <1>2. CASE config.policy = "PRIORITY"
    <2> DEFINE S == Range(running) \ {Victim}
               K == Keep(running, S)
    <2>1. running' = K
      BY <1>2 DEF Without
    <2> HIDE DEF S
    <2>1a. K \in Seq(Requests) /\ IsInjective(K) /\ Range(K) = Range(running) \cap S
      BY KeepFacts
    <2> HIDE DEF K
    <2>2. /\ running' \in Seq(Requests) /\ IsInjective(running')
          /\ Range(running') = Range(running) \cap (Range(running) \ {Victim})
      BY <2>1, <2>1a DEF S
    <2>3. QED BY <1>1, <1>2, <2>2
  <1>3. CASE config.policy # "PRIORITY"
    <2> DEFINE n == Len(running)
    <2>1. Victim = running[n]
      BY <1>3 DEF Victim
    <2>2. n \in Nat /\ n # 0 /\ DOMAIN running = 1..n
      BY SMT, SeqFun
    <2>3. n - 1 \in Nat /\ 0 <= n - 1 /\ n - 1 <= n /\ 0 + 1 = 1 /\ (n - 1) - 0 = n - 1
      BY SMT, <2>2
    <2>4. running' = SubSeq(running, 0 + 1, n - 1)
      BY SMT, <1>3
    <2>5. /\ running' \in Seq(Requests) /\ Len(running') = n - 1 /\ IsInjective(running')
          /\ \A i \in 1..(n - 1) : running'[i] = running[i]
          /\ Range(running') = {running[i] : i \in 1..(n - 1)}
      <3> DEFINE a == 0
                 b == n - 1
                 K == SubSeq(running, a + 1, b)
      <3>1. a \in Nat /\ b \in Nat /\ a <= b /\ b <= Len(running) /\ running' = K
        BY <2>3, <2>4
      <3> HIDE DEF a, b
      <3>2. /\ K \in Seq(Requests) /\ Len(K) = b - a
            /\ \A i \in 1..(b - a) : K[i] = running[a + i]
            /\ Range(K) = {running[i] : i \in (a + 1)..b}
            /\ IsInjective(running) => IsInjective(K)
        BY <3>1, SubSeqFacts
      <3> HIDE DEF K
      <3>3. b - a = n - 1 /\ a + 1 = 1 /\ b = n - 1 /\ \A i \in 1..(n - 1) : a + i = i
        BY SMT, <2>2 DEF a, b
      <3>4. QED BY <3>1, <3>2, <3>3
    <2>6. Range(running) = {running[i] : i \in 1..n}
      BY SeqFun
    <2>7. \A i, j \in 1..n : running[i] = running[j] => i = j
      BY <2>2 DEF IsInjective
    <2> HIDE DEF n
    <2>8. \A i \in 1..n : i \in 1..(n - 1) <=> i # n
      BY SMT, <2>2
    <2>9. n \in 1..n /\ \A i \in 1..(n - 1) : i \in 1..n
      BY SMT, <2>2
    <2>10. Range(running') = Range(running) \ {running[n]}
      <3> DEFINE A == 1..n
                 B == 1..(n - 1)
      <3>1. /\ Range(running') = {running[i] : i \in B} /\ Range(running) = {running[i] : i \in A}
            /\ \A i, j \in A : running[i] = running[j] => i = j
            /\ \A i \in A : i \in B <=> i # n
            /\ n \in A /\ \A i \in B : i \in A
        BY <2>5, <2>6, <2>7, <2>8, <2>9
      <3> HIDE DEF A, B
      <3>2. QED BY <3>1
    <2>11. QED BY <1>1, <1>3, <2>1, <2>5, <2>10 DEF n
  <1>4. QED BY <1>2, <1>3

\* What Preempt makes of the local state of schedule().
LEMMA PreemptStep ==
    ASSUME step \in StepType, Preempt, \A x \in Range(step.batch) : Sized(x.req, x.inputs)
    PROVE  LET taken == {x \in Range(step.batch) : x.req = Victim} IN
           /\ step' \in StepType
           /\ Range(step'.batch) = Range(step.batch) \ taken
           /\ taken = {} => step'.batch = step.batch /\ step'.index = step.index
           /\ taken # {} => Len(step'.batch) < Len(step.batch) /\ step'.index = step.index - 1
           /\ IF Victim = step.trial.req THEN step'.at = "output" /\ step'.trial = NoTrial
              ELSE step'.at = step.at /\ step'.trial = step.trial
  <1> USE Zenon
  <1> DEFINE v == Victim
             taken == {x \in Range(step.batch) : x.req = v}
             mine == CHOOSE x \in taken : TRUE
             B == Keep(step.batch, Range(step.batch) \ taken)
             k == step.tokens + mine.n
             e == step.compute + InputEmbeds(v, mine.inputs)
             back == IF taken = {} THEN step
                     ELSE [step EXCEPT !.batch = B, !.tokens = k, !.compute = e, !.index = @ - 1]
  <1>1. step' = IF v = step.trial.req
                THEN [back EXCEPT !.preempted = TRUE, !.at = "output", !.trial = NoTrial]
                ELSE [back EXCEPT !.preempted = TRUE]
    BY DEF Preempt
  <1>2. /\ step.batch \in Seq(Item) /\ step.index \in Int /\ step.tokens \in Int /\ step.compute \in Int
    BY DEF StepType
  <1>3. B \in Seq(Item) /\ Range(B) = Range(step.batch) \ taken
    <2>1. B \in Seq(Item) /\ Range(B) = Range(step.batch) \cap (Range(step.batch) \ taken)
      BY <1>2, KeepFacts
    <2>2. QED BY <2>1
  <1>4. taken # {} => Len(B) < Len(step.batch)
    BY <1>2, KeepShorter
  <1>5. ASSUME taken # {} PROVE k \in Int /\ e \in Int
    <2>1. mine \in Range(step.batch) /\ mine.req = v
      BY <1>5
    <2> HIDE DEF mine
    <2>2. mine \in Item /\ mine.n \in Int /\ v \in Requests /\ Sized(v, mine.inputs)
      <3>1. mine \in Item
        BY <1>2, <2>1, SeqFun
      <3>2. QED BY <2>1, <3>1 DEF Item
    <2>3. InputEmbeds(v, mine.inputs) = Embeds(HashesOf(v, mine.inputs))
      BY <2>2, InputEmbedsFacts DEF Sized
    <2>4. InputEmbeds(v, mine.inputs) \in Nat
      BY <2>2, <2>3, HashesOfFacts, EmbedsType DEF Sized
    <2>5. QED BY SMT, <1>2, <2>2, <2>4
  <1> HIDE DEF B, k, e, taken, v
  <1>6. /\ back \in StepType /\ back.at = step.at /\ back.trial = step.trial
        /\ Range(back.batch) = Range(step.batch) \ taken
        /\ taken = {} => back.batch = step.batch /\ back.index = step.index
        /\ taken # {} => Len(back.batch) < Len(step.batch) /\ back.index = step.index - 1
    <2>1. CASE taken = {}
      BY <2>1
    <2>2. CASE taken # {}
      <3>1. back = [step EXCEPT !.batch = B, !.tokens = k, !.compute = e, !.index = @ - 1]
        BY <2>2
      <3> HIDE DEF back
      <3>2. /\ back \in StepType /\ back.at = step.at /\ back.trial = step.trial
            /\ back.batch = B /\ back.index = step.index - 1
        <4> DEFINE i == step.index - 1
        <4>1. i \in Int /\ back = [step EXCEPT !.batch = B, !.tokens = k, !.compute = e, !.index = i]
          BY SMT, <1>2, <3>1
        <4> HIDE DEF i
        <4>2. back \in StepType /\ back.at = step.at /\ back.trial = step.trial
              /\ back.batch = B /\ back.index = i
          BY <1>3, <1>5, <2>2, <4>1 DEF StepType
        <4>3. QED BY <4>2 DEF i
      <3>3. QED BY <1>3, <1>4, <2>2, <3>2
    <2>3. QED BY <2>1, <2>2
  <1> HIDE DEF back
  <1>7. /\ step' \in StepType /\ step'.batch = back.batch /\ step'.index = back.index
        /\ IF v = step.trial.req THEN step'.at = "output" /\ step'.trial = NoTrial
           ELSE step'.at = back.at /\ step'.trial = back.trial
    <2>1. CASE v = step.trial.req
      BY <1>1, <1>6, <2>1 DEF StepType
    <2>2. CASE v # step.trial.req
      BY <1>1, <1>6, <2>2 DEF StepType
    <2>3. QED BY <2>1, <2>2
  <1>8. QED BY <1>6, <1>7 DEF taken, v

\* A request is preempted; without priorities it is none of the batch.
LEMMA PreemptOK == ASSUME IInv, Preempt PROVE IInv'
  <1> USE Zenon
  <1> DEFINE v == Victim
             taken == {x \in Range(step.batch) : x.req = v}
             n == Len(running)
  <1>1. /\ TypesOK /\ CacheOK(m) /\ ListsOK /\ StepOK /\ (config.shift = 0 => RefsOK)
        /\ config.policy # "PRIORITY" => OrderOK /\ AgreeOK
        /\ config.shift = 0 /\ config.policy # "PRIORITY" => HitOK
    BY DEF IInv
  <1>2. /\ step.at = "running" /\ step.trial # NoTrial /\ m' = FreeAll(m, v)
        /\ status' = [status EXCEPT ![v] = "waiting"]
        /\ computed' = [computed EXCEPT ![v] = 0]
        /\ running' = IF config.policy = "PRIORITY" THEN Without(running, v)
                      ELSE SubSeq(running, 1, Len(running) - 1)
        /\ waiting' = <<v>> \o waiting
        /\ UNCHANGED <<config, queue, outputs, worker>>
    BY DEF Preempt
  <1>3. /\ step \in StepType /\ waiting \in Seq(Requests) /\ running \in Seq(Requests)
        /\ computed \in [Requests -> Int]
        /\ status \in [Requests -> {"new", "waiting", "running", "finished"}]
        /\ step.index \in Int /\ step.batch \in Seq(Item)
    BY <1>1 DEF TypesOK, StepType
  <1>4. /\ step.trial.req \in Range(running) /\ IsInjective(running)
        /\ Fit(m, step.trial.req, step.trial.inputs) /\ Len(step.batch) < step.index
        /\ \A x \in Range(step.batch) : x.req \in Range(running) /\ Sized(x.req, x.inputs)
    BY <1>1, <1>2 DEF StepOK, ListsOK
  <1>5. running # <<>> /\ n \in Nat /\ Len(step.batch) \in Nat /\ DOMAIN running = 1..n
        /\ Range(running) \subseteq Requests /\ Range(waiting) \subseteq Requests
    BY SMT, <1>3, <1>4, SeqFun DEF Range
  <1>6. /\ v \in Range(running) /\ v \in Requests /\ running' \in Seq(Requests)
        /\ IsInjective(running') /\ Range(running') = Range(running) \ {v}
        /\ config.policy # "PRIORITY" =>
             /\ v = running[n] /\ Len(running') = n - 1
             /\ \A k \in 1..(n - 1) : running'[k] = running[k]
    BY <1>2, <1>3, <1>4, <1>5, ListWithout
  <1>7. /\ step' \in StepType /\ Range(step'.batch) = Range(step.batch) \ taken
        /\ taken = {} => step'.batch = step.batch /\ step'.index = step.index
        /\ taken # {} => Len(step'.batch) < Len(step.batch) /\ step'.index = step.index - 1
        /\ IF v = step.trial.req THEN step'.at = "output" /\ step'.trial = NoTrial
           ELSE step'.at = step.at /\ step'.trial = step.trial
    BY <1>3, <1>4, PreemptStep
  <1> HIDE DEF v
  <1>8. /\ CacheOK(m') /\ DOMAIN m'.cached = DOMAIN m.cached /\ m'.free = m.free /\ m'.freed = m.freed
        /\ m'.ids[v] = {}
        /\ \A s \in Requests : s # v => m'.ids[s] = m.ids[s] /\ Held(m', s) = Held(m, s)
    BY SMT, <1>1, <1>2, <1>6, FreeAllOK
  <1>9. waiting' \in Seq(Requests) /\ Range(waiting') = {v} \cup Range(waiting)
    <2>1. <<v>> \in Seq(Requests) /\ Range(<<v>>) = {v}
      BY SMT, <1>6 DEF Range
    <2> DEFINE a == <<v>>
               w == a \o waiting
    <2>2. w \in Seq(Requests) /\ Range(w) = Range(a) \cup Range(waiting)
      <3> HIDE DEF a
      <3>1. a \in Seq(Requests)
        BY <2>1 DEF a
      <3>2. QED BY SMT, <1>3, <3>1, ConcatFacts
    <2>3. QED BY <1>2, <2>1, <2>2
  <1>10. /\ status' \in [Requests -> {"new", "waiting", "running", "finished"}]
         /\ computed' \in [Requests -> Int] /\ status'[v] = "waiting" /\ status[v] = "running"
         /\ \A s \in Requests : s # v => status'[s] = status[s]
    BY SMT, <1>1, <1>2, <1>3, <1>6 DEF ListsOK
  <1>11. TypesOK'
    BY <1>1, <1>2, <1>6, <1>7, <1>9, <1>10 DEF TypesOK
  <1>12. ListsOK'
    BY <1>1, <1>5, <1>6, <1>9, <1>10 DEF ListsOK
  <1>13. \A x \in Range(step'.batch) : x \in Range(step.batch) /\ x.req # v
    BY <1>7
  <1>14. StepOK'
    <2>1. \A x \in Range(step'.batch) : x.req \in Range(running') /\ Sized(x.req, x.inputs)
      BY <1>4, <1>6, <1>13
    <2>2. step'.at = "running" => Len(step'.batch) < step'.index
      <3>1. Len(step'.batch) \in Nat /\ step'.index \in Int
        BY <1>7, SeqFun DEF StepType
      <3>2. QED BY SMT, <1>3, <1>4, <1>5, <1>7, <3>1
    <2>3. ASSUME step'.trial # NoTrial
          PROVE  /\ Fit(m', step'.trial.req, step'.trial.inputs)
                 /\ step'.at = "running" /\ step'.trial.req \in Range(running')
      <3>1. v # step.trial.req /\ step'.trial = step.trial /\ step'.at = "running"
        BY <1>2, <1>7, <2>3
      <3>2. QED BY <1>4, <1>6, <1>8, <3>1 DEF Fit
    <2>4. step'.at # "idle"
      BY <1>2, <1>7
    <2>5. QED BY <2>1, <2>2, <2>3, <2>4 DEF StepOK
  <1>15. ASSUME config.shift = 0 PROVE RefsOK'
    <2>1. SUFFICES ASSUME NEW s \in Requests, status'[s] # "running", ~Trying(s)' PROVE m'.ids[s] = {}
      BY DEF RefsOK
    <2>2. CASE s = v
      BY <1>8, <2>2
    <2>3. CASE s # v
      <3>1. status[s] # "running"
        BY <1>10, <2>1, <2>3
      <3>2. ~Trying(s)
        BY <1>7, <2>1, <2>3 DEF Trying
      <3>3. QED BY <1>1, <1>8, <1>15, <2>3, <3>1, <3>2 DEF RefsOK
    <2>4. QED BY <2>2, <2>3
  <1>16. ASSUME config.policy # "PRIORITY", OrderOK
         PROVE  /\ taken = {} /\ step.index \in 1..n /\ running[step.index] = step.trial.req
                /\ \A x \in Range(step.batch) : \E k \in 1..n : k < step.index /\ running[k] = x.req
    <2>1. /\ step.index \in 1..n /\ running[step.index] = step.trial.req
          /\ \A x \in Range(step.batch) : \E k \in 1..n : k < step.index /\ running[k] = x.req
      BY <1>2, <1>16 DEF OrderOK
    <2>2. \A i, j \in 1..n : running[i] = running[j] => i = j
      BY <1>4, <1>5 DEF IsInjective
    <2>3. \A k \in 1..n : k < step.index => k \in 1..n /\ n \in 1..n /\ k # n
      <3>1. n \in Nat
        BY <1>5
      <3> HIDE DEF n
      <3>2. QED BY SMT, <2>1, <3>1
    <2>4. QED BY SMT, <1>6, <1>16, <2>1, <2>2, <2>3
  <1>17. ASSUME config.policy # "PRIORITY", OrderOK PROVE OrderOK'
    <2>1. SUFFICES ASSUME step'.at = "running" PROVE OrderOK'
      BY DEF OrderOK
    <2>2. v # step.trial.req /\ step'.trial = step.trial /\ step'.index = step.index /\ step'.batch = step.batch
      BY <1>7, <1>16, <1>17, <2>1
    <2>3. step.index \in 1..(n - 1)
      <3>1. step.index # n
        BY <1>6, <1>16, <1>17, <2>2
      <3>2. QED BY SMT, <1>5, <1>16, <1>17, <3>1
    <2>4. \A k \in 1..n : k < step.index => k \in 1..(n - 1)
      <3>1. n \in Nat
        BY <1>5
      <3> HIDE DEF n
      <3>2. QED BY SMT, <2>3, <3>1
    <2>5. Len(running') = n - 1 /\ \A k \in 1..(n - 1) : running'[k] = running[k]
      BY <1>6, <1>17
    <2>6. \A x \in Range(step'.batch) : \E k \in 1..Len(running') : k < step'.index /\ running'[k] = x.req
      BY <1>16, <1>17, <2>2, <2>4, <2>5
    <2>7. step'.index \in 1..Len(running') /\ running'[step'.index] = step'.trial.req
      BY <1>16, <1>17, <2>2, <2>3, <2>5
    <2>8. QED BY <2>6, <2>7 DEF OrderOK
  <1>18. \A x \in Range(step'.batch) : Held(m', x.req) = Held(m, x.req)
    BY <1>4, <1>5, <1>8, <1>13
  <1>19. ASSUME config.policy # "PRIORITY", OrderOK, AgreeOK PROVE AgreeOK'
    <2>1. step'.batch = step.batch
      BY <1>7, <1>16, <1>19
    <2>2. Computes(step') = Computes(step)
      BY <2>1 DEF Computes
    <2>3. QED BY <1>2, <1>8, <1>18, <1>19, <2>1, <2>2 DEF AgreeOK
  <1>20. ASSUME HitOK PROVE HitOK'
    <2>1. step'.trial # NoTrial => step'.trial = step.trial /\ Held(m', step.trial.req) = Held(m, step.trial.req)
      BY <1>4, <1>5, <1>7, <1>8
    <2>2. QED BY <1>2, <1>13, <1>18, <1>20, <2>1 DEF HitOK
  <1>21. QED BY <1>1, <1>2, <1>8, <1>11, <1>12, <1>14, <1>15, <1>17, <1>19, <1>20 DEF IInv

\* The hashes that the batch of a step computes.
LEMMA ComputesIn ==
    ASSUME IInv PROVE Computes(step) \subseteq Hashes
  <1> USE Zenon
  <1>1. step.batch \in Seq(Item) /\ StepOK
    BY DEF IInv, TypesOK, StepType
  <1>2. \A x \in Range(step.batch) : x.req \in Requests /\ x.inputs \subseteq DOMAIN Features[x.req]
    BY <1>1, BatchFacts DEF StepOK, Sized
  <1>3. \A x \in Range(step.batch) : HashesOf(x.req, x.inputs) \subseteq Hashes
    BY <1>2, HashesOfFacts
  <1>4. QED BY <1>3 DEF Computes

\* What is known of the queue after something is sent.
LEMMA SendFacts ==
    ASSUME NEW T, queue \in Seq(T), NEW e \in T, queue' = Append(queue, e), worker' = worker
    PROVE  /\ queue' \in Seq(T) /\ Len(queue) \in Nat /\ Len(queue') = Len(queue) + 1
           /\ queue'[Len(queue) + 1] = e
           /\ \A k \in 1..Len(queue) : queue'[k] = queue[k]
           /\ \A k \in 1..Len(queue) : Sent(k, queue', worker') = Sent(k, queue, worker)
           /\ Sent(Len(queue) + 1, queue', worker') =
                (Sent(Len(queue), queue, worker) \ e.freed) \cup (Computes(e) \cap Hashes)
  <1> USE Zenon
  <1> DEFINE n == Len(queue)
  <1>1. /\ queue' \in Seq(T) /\ n \in Nat /\ Len(queue') = n + 1 /\ queue'[n + 1] = e
        /\ \A k \in 1..n : queue'[k] = queue[k]
    <2>1. n \in Nat
      BY SeqFun
    <2>2. queue' \in Seq(T) /\ Len(queue') = n + 1
      BY AppendFacts
    <2>3. queue'[n + 1] = e /\ \A k \in 1..n : queue'[k] = queue[k]
      BY SMT, <2>1
    <2>4. QED BY <2>1, <2>2, <2>3
  <1> HIDE DEF n
  <1>2. ASSUME NEW k \in 0..n PROVE Sent(k, queue', worker') = Sent(k, queue, worker)
    <2>1. k \in Nat /\ \A j \in 1..k : queue'[j] = queue[j]
      BY SMT, <1>1
    <2>2. QED BY <2>1, SentSame
  <1>3. Sent(n, queue', worker') = Sent(n, queue, worker)
    BY SMT, <1>1, <1>2
  <1>4. Sent(n + 1, queue', worker') = (Sent(n, queue', worker') \ e.freed) \cup (Computes(e) \cap Hashes)
    BY <1>1, SentStep
  <1>5. \A k \in 1..n : Sent(k, queue', worker') = Sent(k, queue, worker)
    BY SMT, <1>1, <1>2
  <1>6. QED BY <1>1, <1>3, <1>4, <1>5 DEF n

\* What is sent to the worker.
Message == [batch : Seq(Item), freed : SUBSET Hashes, reset : BOOLEAN]

\* The batch is sent with the hashes evicted since the last one.
LEMMA OutputOK == ASSUME IInv, Output PROVE IInv'
  <1> USE Zenon
  <1> DEFINE e == [batch |-> step.batch, freed |-> m.freed, reset |-> FALSE]
             n == Len(queue)
  <1>1. /\ TypesOK /\ CacheOK(m) /\ ListsOK /\ StepOK /\ (config.shift = 0 => RefsOK)
        /\ config.policy # "PRIORITY" => OrderOK /\ AgreeOK
        /\ config.shift = 0 /\ config.policy # "PRIORITY" => HitOK
    BY DEF IInv
  <1>2. /\ step.at = "output" /\ queue' = Append(queue, e) /\ m' = TakeFreed(m) /\ step' = Idle
        /\ computed' = [r \in Requests |-> computed[r] + Advance(r)]
        /\ UNCHANGED <<config, status, running, waiting, outputs, worker>>
    BY DEF Output, requests
  <1>3. /\ step \in StepType /\ step.batch \in Seq(Item) /\ queue \in Seq(Message)
        /\ computed \in [Requests -> Int] /\ m.freed \in SUBSET Hashes
    BY <1>1, CacheFacts DEF TypesOK, StepType, Message
  <1>4. e \in Message /\ e.batch = step.batch /\ e.freed = m.freed
    BY <1>3 DEF Message
  <1>5. Computes(e) = Computes(step) /\ Computes(step) \subseteq Hashes
    BY <1>4, ComputesIn DEF Computes
  <1> HIDE DEF e
  <1>6. /\ queue' \in Seq(Message) /\ n \in Nat /\ Len(queue') = n + 1 /\ queue'[n + 1] = e
        /\ \A k \in 1..n : queue'[k] = queue[k] /\ Sent(k, queue', worker') = Sent(k, queue, worker)
        /\ Sent(n + 1, queue', worker') = (Sent(n, queue, worker) \ m.freed) \cup Computes(step)
    <2>1. /\ queue' \in Seq(Message) /\ n \in Nat /\ Len(queue') = n + 1 /\ queue'[n + 1] = e
          /\ \A k \in 1..n : queue'[k] = queue[k]
          /\ \A k \in 1..n : Sent(k, queue', worker') = Sent(k, queue, worker)
          /\ Sent(n + 1, queue', worker') =
                (Sent(n, queue, worker) \ e.freed) \cup (Computes(e) \cap Hashes)
      BY <1>2, <1>3, <1>4, SendFacts
    <2>2. (Sent(n, queue, worker) \ e.freed) \cup (Computes(e) \cap Hashes)
            = (Sent(n, queue, worker) \ m.freed) \cup Computes(step)
      BY <1>4, <1>5
    <2>3. QED BY <2>1, <2>2
  <1>7. /\ CacheOK(m') /\ m'.freed = {} /\ m'.cached = m.cached /\ m'.ids = m.ids
    BY <1>1, <1>2, TakeFreedOK
  <1>8. computed' \in [Requests -> Int]
    <2>1. ASSUME NEW r \in Requests PROVE Advance(r) \in Int
      <3> DEFINE mine == {x \in Range(step.batch) : x.req = r}
      <3>1. CASE mine = {}
        BY SMT, <3>1 DEF Advance
      <3>2. CASE mine # {}
        <4>1. (CHOOSE x \in mine : TRUE) \in mine
          BY <3>2
        <4>2. \A x \in mine : x.n \in Int
          BY <1>3, BatchFacts
        <4>3. Advance(r) = (CHOOSE x \in mine : TRUE).n
          BY <3>2 DEF Advance
        <4>4. QED BY <4>1, <4>2, <4>3
      <3>3. QED BY <3>1, <3>2
    <2>2. QED BY SMT, <1>2, <1>3, <2>1
  <1>9. TypesOK'
    BY <1>1, <1>2, <1>6, <1>8, IdleFacts DEF TypesOK, Message
  <1>10. ListsOK'
    BY <1>1, <1>2 DEF ListsOK
  <1>11. StepOK' /\ OrderOK'
    BY <1>2, <1>7, IdleFacts DEF StepOK, OrderOK
  <1>12. step.trial = NoTrial
    BY <1>1, <1>2 DEF StepOK
  <1>13. config.shift = 0 => RefsOK'
    BY <1>1, <1>2, <1>7, <1>12, IdleFacts DEF RefsOK, Trying
  <1>14. ASSUME AgreeOK
         PROVE  AgreeOK' /\ Sent(n + 1, queue', worker') = DOMAIN m.cached
    <2>1. Sent(n + 1, queue', worker') = DOMAIN m.cached
      BY <1>6, <1>14 DEF AgreeOK
    <2>2. Computes(step') = {} /\ Range(step'.batch) = {}
      BY <1>2, IdleFacts
    <2>3. DOMAIN m'.cached = (Sent(Len(queue'), queue', worker') \ m'.freed) \cup Computes(step')
      BY <1>6, <1>7, <2>1, <2>2
    <2>4. QED BY <2>1, <2>2, <2>3 DEF AgreeOK
  <1>15. ASSUME AgreeOK, HitOK PROVE HitOK'
    <2>1. step'.trial = NoTrial /\ Range(step'.batch) = {}
      BY <1>2, IdleFacts
    <2>2. ASSUME NEW k \in 1..(n + 1), NEW x \in Range(queue'[k].batch)
          PROVE  Needs(x) \subseteq Sent(k, queue', worker')
      <3>1. CASE k \in 1..n
        BY <1>6, <1>15, <2>2, <3>1 DEF HitOK
      <3>2. CASE k = n + 1
        <4>1. x \in Range(step.batch)
          BY <1>4, <1>6, <2>2, <3>2
        <4>2. Needs(x) \subseteq DOMAIN m.cached
          BY <1>15, <4>1 DEF HitOK, Held
        <4>3. QED BY <1>14, <1>15, <3>2, <4>2
      <3>3. k \in 1..n \/ k = n + 1
        BY SMT, <1>6
      <3>4. QED BY <3>1, <3>2, <3>3
    <2>3. QED BY <1>6, <2>1, <2>2 DEF HitOK
  <1>16. QED BY <1>1, <1>2, <1>7, <1>9, <1>10, <1>11, <1>13, <1>14, <1>15 DEF IInv

\* reset_encoder_cache: the manager is empty, and so is the worker's cache
\* once it has executed what it was sent.
LEMMA ResetOK == ASSUME IInv, ResetEncoderCache PROVE IInv'
  <1> USE Zenon
  <1> DEFINE e == [batch |-> <<>>, freed |-> Hashes, reset |-> TRUE]
             n == Len(queue)
  <1>1. /\ TypesOK /\ CacheOK(m) /\ ListsOK /\ StepOK /\ (config.shift = 0 => RefsOK)
        /\ config.policy # "PRIORITY" => OrderOK /\ AgreeOK
        /\ config.shift = 0 /\ config.policy # "PRIORITY" => HitOK
    BY DEF IInv
  <1>2. /\ step = Idle /\ queue' = Append(queue, e) /\ m' = EmptyCache
        /\ UNCHANGED <<config, status, running, waiting, computed, step, outputs, worker>>
    BY DEF ResetEncoderCache, requests
  <1>3. queue \in Seq(Message) /\ e \in Message /\ e.freed = Hashes /\ e.batch = <<>>
    BY SMT, <1>1 DEF TypesOK, Message
  <1>4. Range(e.batch) = {} /\ Computes(e) = {}
    <2>1. Range(e.batch) = {}
      BY SMT, <1>3 DEF Range
    <2>2. QED BY <2>1 DEF Computes
  <1> HIDE DEF e
  <1>5. /\ queue' \in Seq(Message) /\ n \in Nat /\ Len(queue') = n + 1 /\ queue'[n + 1] = e
        /\ \A k \in 1..n : queue'[k] = queue[k] /\ Sent(k, queue', worker') = Sent(k, queue, worker)
        /\ Sent(n + 1, queue', worker') = {}
    <2>1. /\ queue' \in Seq(Message) /\ n \in Nat /\ Len(queue') = n + 1 /\ queue'[n + 1] = e
          /\ \A k \in 1..n : queue'[k] = queue[k]
          /\ \A k \in 1..n : Sent(k, queue', worker') = Sent(k, queue, worker)
          /\ Sent(n + 1, queue', worker') =
                (Sent(n, queue, worker) \ e.freed) \cup (Computes(e) \cap Hashes)
      BY <1>2, <1>3, SendFacts
    <2>2. Sent(n, queue, worker) \subseteq Hashes
      BY DEF Sent
    <2>3. (Sent(n, queue, worker) \ e.freed) \cup (Computes(e) \cap Hashes) = {}
      BY <1>3, <1>4, <2>2
    <2>4. QED BY <2>1, <2>3
  <1>6. /\ CacheOK(m') /\ m'.freed = {} /\ DOMAIN m'.cached = {} /\ m'.ids = [r \in Requests |-> {}]
    BY <1>2, EmptyCacheOK
  <1>7. TypesOK'
    BY <1>1, <1>2, <1>5 DEF TypesOK, Message
  <1>8. ListsOK'
    BY <1>1, <1>2 DEF ListsOK
  <1>9. StepOK' /\ OrderOK'
    BY <1>2, <1>6, IdleFacts DEF StepOK, OrderOK
  <1>10. RefsOK'
    BY <1>6 DEF RefsOK
  <1>11. AgreeOK'
    <2>1. Computes(step') = {} /\ Range(step'.batch) = {}
      BY <1>2, IdleFacts
    <2>2. DOMAIN m'.cached = (Sent(Len(queue'), queue', worker') \ m'.freed) \cup Computes(step')
      BY <1>5, <1>6, <2>1
    <2>3. QED BY <2>1, <2>2 DEF AgreeOK
  <1>12. ASSUME HitOK PROVE HitOK'
    <2>1. step'.trial = NoTrial /\ Range(step'.batch) = {}
      BY <1>2, IdleFacts
    <2>2. ASSUME NEW k \in 1..(n + 1), NEW x \in Range(queue'[k].batch)
          PROVE  Needs(x) \subseteq Sent(k, queue', worker')
      <3>1. k \in 1..n \/ k = n + 1
        BY SMT, <1>5
      <3>2. k \in 1..n
        BY <1>4, <1>5, <2>2, <3>1
      <3>3. QED BY <1>5, <1>12, <2>2, <3>2 DEF HitOK
    <2>3. QED BY <1>5, <2>1, <2>2 DEF HitOK
  <1>13. QED BY <1>1, <1>2, <1>6, <1>7, <1>8, <1>9, <1>10, <1>11, <1>12 DEF IInv

\* The worker executes a batch.
LEMMA ExecuteOK == ASSUME IInv, Execute PROVE IInv'
  <1> USE Zenon
  <1> DEFINE n == Len(queue) - 1
  <1>1. /\ TypesOK /\ CacheOK(m) /\ ListsOK /\ StepOK /\ (config.shift = 0 => RefsOK)
        /\ config.policy # "PRIORITY" => OrderOK /\ AgreeOK
        /\ config.shift = 0 /\ config.policy # "PRIORITY" => HitOK
    BY DEF IInv
  <1>2. /\ queue # <<>> /\ worker' = (worker \ queue[1].freed) \cup Computes(queue[1]) /\ queue' = Tail(queue)
        /\ outputs' = IF Head(queue).reset THEN outputs ELSE Append(outputs, Head(queue).batch)
        /\ UNCHANGED <<config, m, status, running, waiting, computed, step>>
    <2>1. queue # <<>> /\ queue \in Seq(Message)
      BY <1>1 DEF Execute, TypesOK, Message
    <2>2. Head(queue) = queue[1]
      BY SMT, <2>1
    <2>3. QED BY <2>1, <2>2 DEF Execute, Stored, requests
  <1>3. queue \in Seq(Message) /\ outputs \in Seq(Seq(Item))
    BY <1>1 DEF TypesOK, Message
  <1>4. /\ n \in Nat /\ Len(queue) = n + 1 /\ queue' \in Seq(Message) /\ Len(queue') = n
        /\ \A k \in 1..n : queue'[k] = queue[k + 1] /\ k + 1 \in 1..Len(queue)
        /\ Head(queue) \in Message
    <2>1. Len(queue) \in Nat /\ Len(queue) # 0
      BY SMT, <1>2, <1>3
    <2>2. n \in Nat /\ Len(queue) = n + 1
      BY SMT, <2>1
    <2>3. queue' \in Seq(Message) /\ Len(queue') = n /\ Head(queue) \in Message
      BY SMT, <1>2, <1>3, <2>1
    <2>4. \A k \in 1..n : queue'[k] = queue[k + 1] /\ k + 1 \in 1..Len(queue)
      BY SMT, <1>2, <1>3, <2>2, <2>3
    <2>5. QED BY <2>2, <2>3, <2>4
  <1> HIDE DEF n
  <1>5. outputs' \in Seq(Seq(Item))
    <2>1. Head(queue).batch \in Seq(Item)
      BY <1>4 DEF Message
    <2>2. QED BY <1>2, <1>3, <2>1, AppendFacts
  <1>6. ASSUME NEW k \in 0..n PROVE Sent(k, queue', worker') = Sent(k + 1, queue, worker)
    <2>1. k \in Nat /\ \A j \in 1..k : queue'[j] = queue[j + 1]
      BY SMT, <1>4
    <2>2. Sent(k, queue', (worker \ queue[1].freed) \cup Computes(queue[1])) = Sent(k + 1, queue, worker)
      BY SMT, <2>1, SentShift
    <2>3. QED BY <1>2, <2>2
  <1>7. TypesOK'
    BY <1>1, <1>2, <1>4, <1>5 DEF TypesOK, Message
  <1>8. ListsOK' /\ StepOK' /\ (config.shift = 0 => RefsOK') /\ (OrderOK => OrderOK') /\ CacheOK(m')
    BY <1>1, <1>2 DEF ListsOK, StepOK, RefsOK, Trying, OrderOK
  <1>9. ASSUME AgreeOK PROVE AgreeOK'
    <2>1. Sent(Len(queue'), queue', worker') = Sent(Len(queue), queue, worker)
      BY SMT, <1>4, <1>6
    <2>2. Computes(step') = Computes(step)
      BY <1>2
    <2>3. QED BY <1>2, <1>9, <2>1, <2>2 DEF AgreeOK
  <1>10. ASSUME HitOK PROVE HitOK'
    <2>1. ASSUME NEW k \in 1..n, NEW x \in Range(queue'[k].batch)
          PROVE  Needs(x) \subseteq Sent(k, queue', worker')
      <3>1. x \in Range(queue[k + 1].batch) /\ k + 1 \in 1..Len(queue)
        BY <1>4, <2>1
      <3>2. Needs(x) \subseteq Sent(k + 1, queue, worker)
        BY <1>10, <3>1 DEF HitOK
      <3>3. k \in 0..n
        BY SMT, <1>4
      <3>4. QED BY <1>6, <3>2, <3>3
    <2>2. QED BY <1>2, <1>4, <1>10, <2>1 DEF HitOK
  <1>11. QED BY <1>1, <1>2, <1>7, <1>8, <1>9, <1>10 DEF IInv

\* A step between two calls of schedule() that changes no entry.
LEMMA BetweenOK ==
    ASSUME IInv, step = Idle, UNCHANGED <<config, step, queue, worker>>, TypesOK', ListsOK',
           CacheOK(m'), DOMAIN m'.cached = DOMAIN m.cached, m'.freed = m.freed,
           config.shift = 0 => RefsOK'
    PROVE  IInv'
  <1> USE Zenon
  <1>1. /\ StepOK
        /\ config.policy # "PRIORITY" => OrderOK /\ AgreeOK
        /\ config.shift = 0 /\ config.policy # "PRIORITY" => HitOK
    BY DEF IInv
  <1>2. step' = Idle /\ m'.freed = {} /\ Computes(step') = {} /\ Computes(step) = {}
        /\ Range(step'.batch) = {} /\ step'.trial = NoTrial /\ step'.at = "idle"
    BY <1>1, IdleFacts DEF StepOK
  <1>3. StepOK' /\ OrderOK'
    BY <1>2 DEF StepOK, OrderOK
  <1>4. AgreeOK => AgreeOK'
    BY <1>2 DEF AgreeOK
  <1>5. HitOK => HitOK'
    BY <1>2 DEF HitOK
  <1>6. QED BY <1>1, <1>3, <1>4, <1>5 DEF IInv

\* A request arrives.
LEMMA AddRequestOK == ASSUME IInv, NEW r \in Requests, AddRequest(r) PROVE IInv'
  <1> USE Zenon
  <1>1. /\ TypesOK /\ CacheOK(m) /\ ListsOK /\ StepOK /\ (config.shift = 0 => RefsOK)
    BY DEF IInv
  <1>2. /\ step = Idle /\ status[r] = "new" /\ status' = [status EXCEPT ![r] = "waiting"]
        /\ waiting' = Append(waiting, r)
        /\ UNCHANGED <<config, m, computed, running, step, queue, outputs, worker>>
    BY DEF AddRequest
  <1>3. /\ running \in Seq(Requests) /\ waiting \in Seq(Requests)
        /\ status \in [Requests -> {"new", "waiting", "running", "finished"}]
    BY <1>1 DEF TypesOK
  <1>4. waiting' \in Seq(Requests) /\ Range(waiting') = Range(waiting) \cup {r}
    BY SMT, <1>2, <1>3, AppendFacts
  <1>5. /\ status' \in [Requests -> {"new", "waiting", "running", "finished"}]
        /\ status'[r] = "waiting" /\ \A s \in Requests : s # r => status'[s] = status[s]
        /\ Range(running) \subseteq Requests /\ Range(waiting) \subseteq Requests
    BY <1>2, <1>3, SeqFun
  <1>6. TypesOK'
    BY <1>1, <1>2, <1>4, <1>5 DEF TypesOK
  <1>7. ListsOK'
    BY <1>1, <1>2, <1>4, <1>5 DEF ListsOK
  <1>8. config.shift = 0 => RefsOK'
    BY <1>1, <1>2, <1>5 DEF RefsOK, Trying
  <1>9. QED BY <1>1, <1>2, <1>6, <1>7, <1>8, BetweenOK

\* The requests in O leave the queues.
LEMMA FinishOK ==
    ASSUME IInv, NEW O \in SUBSET Requests,
           status' = [r \in Requests |-> IF r \in O THEN "finished" ELSE status[r]],
           running' \in Seq(Requests), Range(running') = Range(running) \ O, IsInjective(running'),
           waiting' \in Seq(Requests), Range(waiting') = Range(waiting) \ O,
           outputs' \in Seq(Seq(Item)), UNCHANGED <<config, computed, step, queue>>,
           \A r \in Requests : m'.ids[r] \subseteq m.ids[r], \A r \in O : m'.ids[r] = {}
    PROVE  TypesOK' /\ ListsOK' /\ (config.shift = 0 => RefsOK')
  <1> USE Zenon
  <1>1. /\ TypesOK /\ ListsOK /\ (config.shift = 0 => RefsOK)
    BY DEF IInv
  <1>2. /\ running \in Seq(Requests) /\ waiting \in Seq(Requests)
        /\ status \in [Requests -> {"new", "waiting", "running", "finished"}]
    BY <1>1 DEF TypesOK
  <1>3. /\ status' \in [Requests -> {"new", "waiting", "running", "finished"}]
        /\ \A s \in Requests : s \notin O => status'[s] = status[s]
        /\ Range(running) \subseteq Requests /\ Range(waiting) \subseteq Requests
    BY <1>2, SeqFun
  <1>4. TypesOK'
    BY <1>1, <1>3 DEF TypesOK
  <1>5. ListsOK'
    BY <1>1, <1>3 DEF ListsOK
  <1>6. ASSUME config.shift = 0, NEW s \in Requests, status'[s] # "running", ~Trying(s)'
        PROVE  m'.ids[s] = {}
    <2>1. ~Trying(s)
      BY <1>6 DEF Trying
    <2>2. CASE s \in O
      BY <2>2
    <2>3. CASE s \notin O
      BY <1>1, <1>3, <1>6, <2>1, <2>3 DEF RefsOK
    <2>4. QED BY <2>2, <2>3
  <1>7. QED BY <1>4, <1>5, <1>6 DEF RefsOK

\* An output comes back.
LEMMA UpdateFromOutputOK == ASSUME IInv, UpdateFromOutput PROVE IInv'
  <1> USE Zenon
  <1> DEFINE b == Head(outputs)
             O == {x.req : x \in {y \in Range(b) : status[y.req] # "finished" /\ Ends(y)}}
             K == Requests \ O
  <1>1. /\ TypesOK /\ CacheOK(m) /\ ListsOK
    BY DEF IInv
  <1>2. /\ step = Idle /\ outputs # <<>> /\ m' = Updates(b)[Len(b)]
        /\ status' = [r \in Requests |-> IF r \in O THEN "finished" ELSE status[r]]
        /\ running' = Keep(running, K) /\ waiting' = Keep(waiting, K)
        /\ outputs' = Tail(outputs)
        /\ UNCHANGED <<config, computed, step, queue, worker>>
    BY DEF UpdateFromOutput
  <1>3. outputs \in Seq(Seq(Item)) /\ running \in Seq(Requests) /\ waiting \in Seq(Requests)
    BY <1>1 DEF TypesOK
  <1>4. b \in Seq(Item) /\ outputs' \in Seq(Seq(Item))
    BY SMT, <1>2, <1>3
  <1> HIDE DEF b
  <1>5. O \in SUBSET Requests
    BY <1>4, BatchFacts
  <1>6. /\ Updated(m, m')
        /\ \A x \in Range(b) : status[x.req] # "finished" /\ Ends(x) => m'.ids[x.req] = {}
    BY <1>1, <1>2, <1>4, UpdatesOK
  <1>7. /\ CacheOK(m') /\ DOMAIN m'.cached = DOMAIN m.cached /\ m'.freed = m.freed
        /\ \A r \in Requests : m'.ids[r] \subseteq m.ids[r]
    BY <1>6 DEF Updated
  <1>8. \A r \in O : m'.ids[r] = {}
    BY <1>6
  <1> HIDE DEF O
  <1>9. /\ running' \in Seq(Requests) /\ Range(running') = Range(running) \cap K
        /\ IsInjective(running)  => IsInjective(running')
        /\ waiting' \in Seq(Requests) /\ Range(waiting') = Range(waiting) \cap K
    BY <1>2, <1>3, KeepFacts
  <1>10. Range(running) \subseteq Requests /\ Range(waiting) \subseteq Requests
    BY <1>3, SeqFun
  <1>11. /\ Range(running') = Range(running) \ O /\ Range(waiting') = Range(waiting) \ O
         /\ IsInjective(running')
    BY <1>1, <1>9, <1>10 DEF ListsOK
  <1>12. TypesOK' /\ ListsOK' /\ (config.shift = 0 => RefsOK')
    BY <1>2, <1>4, <1>5, <1>7, <1>8, <1>9, <1>11, FinishOK
  <1>13. QED BY <1>2, <1>7, <1>12, BetweenOK

\* A request is aborted.
LEMMA AbortOK == ASSUME IInv, NEW r \in Requests, Abort(r) PROVE IInv'
  <1> USE Zenon
  <1> DEFINE O == {r}
  <1>1. /\ TypesOK /\ CacheOK(m) /\ ListsOK
    BY DEF IInv
  <1>2. /\ step = Idle /\ m' = FreeAll(m, r) /\ status' = [status EXCEPT ![r] = "finished"]
        /\ running' = Keep(running, Range(running) \ {r})
        /\ waiting' = Keep(waiting, Range(waiting) \ {r})
        /\ UNCHANGED <<config, computed, step, queue, outputs, worker>>
    BY DEF Abort, Without
  <1>3. /\ outputs \in Seq(Seq(Item)) /\ running \in Seq(Requests) /\ waiting \in Seq(Requests)
        /\ status \in [Requests -> {"new", "waiting", "running", "finished"}]
    BY <1>1 DEF TypesOK
  <1>4. /\ CacheOK(m') /\ DOMAIN m'.cached = DOMAIN m.cached /\ m'.freed = m.freed
        /\ m'.ids[r] = {} /\ \A s \in Requests : s # r => m'.ids[s] = m.ids[s]
    BY SMT, <1>1, <1>2, FreeAllOK
  <1>5. /\ running' \in Seq(Requests) /\ Range(running') = Range(running) \cap (Range(running) \ {r})
        /\ IsInjective(running)  => IsInjective(running')
        /\ waiting' \in Seq(Requests) /\ Range(waiting') = Range(waiting) \cap (Range(waiting) \ {r})
    BY <1>2, <1>3, KeepFacts
  <1>6. /\ Range(running') = Range(running) \ O /\ Range(waiting') = Range(waiting) \ O
        /\ IsInjective(running')
    BY <1>1, <1>5 DEF ListsOK
  <1>7. status' = [s \in Requests |-> IF s \in O THEN "finished" ELSE status[s]]
    BY <1>2, <1>3
  <1>8. /\ \A s \in Requests : m'.ids[s] \subseteq m.ids[s]
        /\ \A s \in O : m'.ids[s] = {}
        /\ O \in SUBSET Requests /\ outputs' \in Seq(Seq(Item))
    BY <1>2, <1>3, <1>4
  <1> HIDE DEF O
  <1>9. TypesOK' /\ ListsOK' /\ (config.shift = 0 => RefsOK')
    BY <1>2, <1>5, <1>6, <1>7, <1>8, FinishOK
  <1>10. QED BY <1>2, <1>4, <1>9, BetweenOK

\* The initial states.
LEMMA InitOK == ASSUME Init PROVE IInv
  <1> USE Zenon
  <1>1. /\ config \in Configs /\ m = EmptyCache
        /\ status = [r \in Requests |-> IF r \in config.late THEN "new" ELSE "waiting"]
        /\ computed = [r \in Requests |-> 0] /\ running = <<>> /\ step = Idle
        /\ queue = <<>> /\ outputs = <<>> /\ worker = {}
    BY DEF Init
  <1> DEFINE S == Requests \ config.late
             n == Cardinality(S)
  <1>2. waiting \in [1..n -> S]
    BY DEF Init
  <1>3. n \in Nat
    <2>1. IsFiniteSet(S)
      BY ConfigsAssumption, FS_Difference
    <2>2. QED BY <2>1, FS_CardinalityType
  <1> HIDE DEF n
  <1>4. waiting \in Seq(S) /\ Len(waiting) = n
    BY <1>2, <1>3, FunSeq
  <1>5. waiting \in Seq(Requests) /\ Range(waiting) \subseteq S
    <2>1. Range(waiting) \subseteq S
      BY <1>4, SeqFun
    <2>2. waiting \in [1..n -> Requests]
      BY <1>2
    <2>3. QED BY <1>3, <2>1, <2>2, FunSeq
  <1> HIDE DEF S
  <1>6. Range(<<>>) = {} /\ Len(<<>>) = 0 /\ IsInjective(<<>>)
    BY SMT DEF Range, IsInjective
  <1>7. TypesOK
    <2>1. /\ status \in [Requests -> {"new", "waiting", "running", "finished"}]
          /\ computed \in [Requests -> Int]
      BY SMT, <1>1
    <2>2. /\ running \in Seq(Requests) /\ outputs \in Seq(Seq(Item))
          /\ queue \in Seq([batch : Seq(Item), freed : SUBSET Hashes, reset : BOOLEAN])
      BY SMT, <1>1
    <2>3. QED BY <1>1, <1>5, <2>1, <2>2, IdleFacts DEF TypesOK
  <1>8. ListsOK
    <2>1. \A r \in S : r \in Requests /\ r \notin config.late
      BY DEF S
    <2>2. QED BY <1>1, <1>5, <1>6, <2>1 DEF ListsOK
  <1>9. /\ CacheOK(m) /\ m.freed = {} /\ DOMAIN m.cached = {} /\ m.ids = [r \in Requests |-> {}]
    BY <1>1, EmptyCacheOK
  <1>10. StepOK /\ OrderOK /\ RefsOK
    BY <1>1, <1>9, IdleFacts DEF StepOK, OrderOK, RefsOK
  <1>11. AgreeOK
    <2>1. Sent(Len(queue), queue, worker) = {}
      <3>1. Sent(0, queue, worker) = worker \cap Hashes
        BY SentNone
      <3>2. QED BY <1>1, <1>6, <3>1
    <2>2. Computes(step) = {} /\ Range(step.batch) = {}
      BY <1>1, IdleFacts
    <2>3. QED BY <1>9, <2>1, <2>2 DEF AgreeOK
  <1>12. HitOK
    BY SMT, <1>1, <1>6, IdleFacts DEF HitOK
  <1>13. QED BY <1>7, <1>8, <1>9, <1>10, <1>11, <1>12 DEF IInv

\* A stuttering step.
LEMMA StutterOK == ASSUME IInv, UNCHANGED vars PROVE IInv'
  <1> USE Zenon
  <1>1. UNCHANGED <<config, m, status, computed, running, waiting, step, queue, outputs, worker>>
    BY DEF vars
  <1>2. /\ TypesOK /\ CacheOK(m) /\ ListsOK /\ StepOK /\ (config.shift = 0 => RefsOK)
        /\ config.policy # "PRIORITY" => OrderOK /\ AgreeOK
        /\ config.shift = 0 /\ config.policy # "PRIORITY" => HitOK
    BY DEF IInv
  <1>3. TypesOK' /\ CacheOK(m)' /\ ListsOK' /\ StepOK' /\ (config.shift = 0 => RefsOK')
    BY <1>1, <1>2 DEF TypesOK, ListsOK, StepOK, RefsOK, Trying
  <1>4. (OrderOK => OrderOK') /\ (HitOK => HitOK')
    BY <1>1 DEF OrderOK, HitOK
  <1>5. AgreeOK => AgreeOK'
    BY <1>1 DEF AgreeOK, Computes
  <1>6. QED BY <1>1, <1>2, <1>3, <1>4, <1>5 DEF IInv

\* Every step keeps the invariant.
LEMMA NextOK == ASSUME IInv, [Next]_vars PROVE IInv'
  <1> USE Zenon
  <1>1. CASE Schedule
    BY <1>1, StartStepOK, TryRunningOK, AdmitRunningOK, EndOK, TryWaitingOK, AdmitWaitingOK, OutputOK
       DEF Schedule
  <1>2. CASE Preempt \/ RefuseWaiting \/ Execute \/ UpdateFromOutput \/ ResetEncoderCache
    BY <1>2, PreemptOK, RefuseWaitingOK, ExecuteOK, UpdateFromOutputOK, ResetOK
  <1>3. CASE \E r \in Requests : AddRequest(r) \/ Abort(r)
    BY <1>3, AddRequestOK, AbortOK
  <1>4. CASE UNCHANGED vars
    BY <1>4, StutterOK
  <1>5. QED BY <1>1, <1>2, <1>3, <1>4 DEF Next

\* The encoder cache manager and the schedule stay consistent for any
\* requests and inputs, any size of the cache and any configuration:
\* encoder_cache_manager.py, and the parts of schedule() and
\* update_from_output() that use it.
THEOREM SchedulingStaysSound == Spec => []IInv
  <1>1. Init => IInv
    BY Zenon, InitOK
  <1>2. IInv /\ [Next]_vars => IInv'
    BY Zenon, NextOK
  <1>3. QED BY <1>1, <1>2, PTL DEF Spec

\* num_free_slots and num_freeable_slots always agree with the entries and
\* freeable has every entry without references once, so that can_allocate
\* finds entries to evict whenever it promises space, and the assertions of
\* allocate hold.
THEOREM SlotsAreExact == Spec => []SlotsMatchEntries
  <1>1. IInv => SlotsMatchEntries
    <2>1. SUFFICES ASSUME IInv PROVE SlotsMatchEntries
      BY Zenon
    <2> DEFINE used == {h \in DOMAIN m.cached : m.cached[h] # {}}
               rest == DOMAIN m.cached \ used
    <2>2. CacheOK(m) /\ used = Used(m) /\ Unused(m) = rest /\ m.freeable \in Seq(Hashes)
      BY Zenon, <2>1, CacheFacts DEF IInv, Used
    <2>3. /\ m.free = CacheSize - Embeds(DOMAIN m.cached) /\ m.free >= 0
          /\ m.reclaimable = CacheSize - Embeds(used) /\ Range(m.freeable) = rest
          /\ IsInjective(m.freeable)
      BY Zenon, <2>2 DEF CacheOK
    <2>4. Len(m.freeable) = Cardinality(rest)
      BY Zenon, <2>2, <2>3, SeqCard
    <2>5. QED BY Zenon, <2>3, <2>4 DEF SlotsMatchEntries
  <1>2. QED BY <1>1, SchedulingStaysSound, PTL

\* Without a drafter, only running requests refer to entries between two
\* steps: what a request took while it was tried, and was then refused,
\* preempted, aborted or finished, is given back.
THEOREM ReferencesAreReturned == Spec => [](config.shift = 0 => ReferencesReturned)
  <1>1. IInv => (config.shift = 0 => ReferencesReturned)
    <2>1. SUFFICES ASSUME IInv, config.shift = 0, step = Idle, NEW r \in Requests, status[r] # "running"
                   PROVE  m.ids[r] = {} /\ \A h \in DOMAIN m.cached : r \notin m.cached[h]
      BY Zenon DEF ReferencesReturned
    <2>2. m.ids[r] = {}
      BY Zenon, <2>1, IdleFacts DEF IInv, RefsOK, Trying
    <2>3. Held(m, r) \subseteq HashesOf(r, {})
      BY Zenon, <2>1, <2>2 DEF IInv, CacheOK
    <2>4. Held(m, r) = {}
      BY Zenon, <2>3 DEF HashesOf
    <2>5. QED BY Zenon, <2>2, <2>4 DEF Held
  <1>2. QED BY <1>1, SchedulingStaysSound, PTL

\* Without priorities, once the worker has executed what it was sent its
\* cache holds exactly the manager's entries: no output stays there that the
\* manager forgot, and none is missing that the manager counts on.
THEOREM WorkerCacheFollows == Spec => [](config.policy # "PRIORITY" => CachesAgree)
  <1>1. IInv => (config.policy # "PRIORITY" => CachesAgree)
    <2>1. SUFFICES ASSUME IInv, config.policy # "PRIORITY", step = Idle
                   PROVE  DOMAIN m.cached = Following(Len(queue))
      BY Zenon DEF CachesAgree
    <2>2. DOMAIN m.cached = (Sent(Len(queue), queue, worker) \ m.freed) \cup Computes(step)
      BY Zenon, <2>1 DEF IInv, AgreeOK
    <2>3. m.freed = {} /\ Computes(step) = {}
      BY Zenon, <2>1, IdleFacts DEF IInv, StepOK
    <2>4. QED BY Zenon, <2>2, <2>3, SentIs
  <1>2. QED BY <1>1, SchedulingStaysSound, PTL

\* Without a drafter and without priorities, _gather_mm_embeddings finds
\* every encoder output it reads, with any number of batches in flight.
THEOREM WorkerNeverMisses ==
    Spec => [](config.shift = 0 /\ config.policy # "PRIORITY" => WorkerHit)
  <1>1. IInv => (config.shift = 0 /\ config.policy # "PRIORITY" => WorkerHit)
    <2>1. SUFFICES ASSUME IInv, config.shift = 0, config.policy # "PRIORITY", queue # <<>>
                   PROVE  Gathered(Head(queue)) \subseteq Stored(Head(queue))
      BY Zenon DEF WorkerHit
    <2>2. queue \in Seq(Message) /\ HitOK
      BY Zenon, <2>1 DEF IInv, TypesOK, Message
    <2>3. Head(queue) = queue[1] /\ 1 \in 1..Len(queue)
      BY <2>1, <2>2
    <2>4. \A x \in Range(queue[1].batch) : Needs(x) \subseteq Sent(1, queue, worker)
      BY Zenon, <2>2, <2>3 DEF HitOK
    <2>5. Sent(0 + 1, queue, worker) =
            (Sent(0, queue, worker) \ queue[0 + 1].freed) \cup (Computes(queue[0 + 1]) \cap Hashes)
      BY Zenon, SentStep
    <2>6. Sent(1, queue, worker) \subseteq Stored(queue[1])
      <3>1. 0 + 1 = 1
        OBVIOUS
      <3>2. Sent(0, queue, worker) \subseteq worker
        BY Zenon, SentNone
      <3>3. QED BY Zenon, <2>5, <3>1, <3>2 DEF Stored
    <2>7. \A x \in Range(queue[1].batch) : Gathers(x) \subseteq Stored(queue[1])
      <3>1. queue[1].batch \in Seq(Item)
        <4>1. queue[1] \in Message
          BY Zenon, <2>2, <2>3, SeqFun
        <4>2. QED BY Zenon, <4>1 DEF Message
      <3>2. \A x \in Range(queue[1].batch) : Gathers(x) = Needs(x)
        BY Zenon, <2>1, <3>1, BatchFacts, NeedsIs
      <3>3. QED BY Zenon, <2>4, <2>6, <3>2
    <2>8. QED BY Zenon, <2>3, <2>7 DEF Gathered
  <1>2. QED BY <1>1, SchedulingStaysSound, PTL
================================================================================
