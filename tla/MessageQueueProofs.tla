-------------------------- MODULE MessageQueueProofs --------------------------
(***************************************************************************)
(* The shared-memory ring of MessageQueue is safe for every number of      *)
(* readers, chunks and messages.  The argument numbers the chunks by the   *)
(* message they were written for: message n + 1 lives in chunk n % Chunks. *)
(* RingInv says what the flags of a chunk mean in terms of the positions   *)
(* of the writer (sent) and of the readers (pos).                          *)
(* The second half shows that MessageQueue implements BroadcastQueue.      *)
(* SocketInv adds to RingInv what is under way in the sockets: the         *)
(* messages that a reader has yet to take from its socket, in order, and   *)
(* nothing else.                                                           *)
(***************************************************************************)
EXTENDS MessageQueue, Integers, TLAPS

(***************************************************************************)
(* Arithmetic of the ring index                                            *)
(***************************************************************************)
\* Division with remainder.
LEMMA DivMod ==
    ASSUME NEW n \in Nat \ {0}, NEW w \in Nat
    PROVE  \E q \in Nat, r \in 0..(n - 1) : w = n * q + r /\ w % n = r
  <1>1. /\ w \div n \in Nat /\ w % n \in 0..(n - 1)
        /\ w = n * (w \div n) + (w % n)
    OBVIOUS
  <1>2. QED BY <1>1, Zenon

\* Quotient and remainder are unique.
LEMMA DivModUnique ==
    ASSUME NEW n \in Nat \ {0}, NEW q \in Nat, NEW p \in Nat,
           NEW r \in 0..(n - 1), NEW s \in 0..(n - 1),
           n * q + r = n * p + s
    PROVE  q = p /\ r = s
  OBVIOUS

\* A decomposition with a small enough remainder gives the remainder.
LEMMA ModOf ==
    ASSUME NEW n \in Nat \ {0}, NEW w \in Nat, NEW q \in Nat,
           NEW r \in 0..(n - 1), w = n * q + r
    PROVE  w % n = r
  <1>1. PICK p \in Nat, s \in 0..(n - 1) : w = n * p + s /\ w % n = s
    BY DivMod
  <1>2. QED BY <1>1, DivModUnique

\* The index after w % n is (w + 1) % n (current_idx of writer and readers).
LEMMA ModNext ==
    ASSUME NEW n \in Nat \ {0}, NEW w \in Nat
    PROVE  (w + 1) % n = ((w % n) + 1) % n
  <1>1. PICK q \in Nat, r \in 0..(n - 1) : w = n * q + r /\ w % n = r
    BY Zenon, DivMod
  <1>2. CASE r = n - 1
    <2> DEFINE v == w + 1
    <2> DEFINE p == q + 1
    <2>1. v \in Nat /\ p \in Nat /\ 0 \in 0..(n - 1) /\ v = n * p + 0
      BY <1>1, <1>2
    <2> HIDE DEF v, p
    <2>2. v % n = 0 BY <2>1, ModOf
    <2>3. (r + 1) % n = 0 BY <1>2
    <2>4. QED BY <2>2, <2>3, <1>1 DEF v
  <1>3. CASE r # n - 1
    <2> DEFINE v == w + 1
    <2> DEFINE s == r + 1
    <2>1. v \in Nat /\ s \in 0..(n - 1) /\ v = n * q + s
      BY <1>1, <1>3
    <2>2. s % n = s BY <2>1
    <2> HIDE DEF v, s
    <2>3. v % n = s BY <2>1, ModOf
    <2>4. QED BY <2>2, <2>3, <1>1 DEF v, s
  <1>4. QED BY <1>2, <1>3

\* Two messages less than a ring apart do not share a chunk.
LEMMA ModInjective ==
    ASSUME NEW n \in Nat \ {0}, NEW a \in Nat, NEW b \in Nat,
           a % n = b % n, a <= b, b < a + n
    PROVE  a = b
  <1>1. PICK q \in Nat, r \in 0..(n - 1) : a = n * q + r /\ a % n = r
    BY Zenon, DivMod
  <1>2. PICK p \in Nat, s \in 0..(n - 1) : b = n * p + s /\ b % n = s
    BY Zenon, DivMod
  <1>3. r = s /\ n * p - n * q < n /\ n * p - n * q >= 0
    BY <1>1, <1>2
  <1>4. q = p BY <1>3
  <1>5. QED BY <1>1, <1>2, <1>3, <1>4

\* A ring apart they do.
LEMMA ModPeriod ==
    ASSUME NEW n \in Nat \ {0}, NEW w \in Nat
    PROVE  (w + n) % n = w % n
  <1>1. PICK q \in Nat, r \in 0..(n - 1) : w = n * q + r /\ w % n = r
    BY Zenon, DivMod
  <1> DEFINE v == w + n
  <1> DEFINE p == q + 1
  <1>2. v \in Nat /\ p \in Nat /\ v = n * p + r BY <1>1
  <1> HIDE DEF v, p
  <1>3. v % n = r BY <1>2, ModOf
  <1>4. QED BY <1>1, <1>3 DEF v

\* The first messages fill the chunks in order.
LEMMA ModSmall ==
    ASSUME NEW n \in Nat \ {0}
    PROVE  /\ \A w \in Nat : w % n \in 0..(n - 1)
           /\ \A w \in 0..(n - 1) : w % n = w
  OBVIOUS

(***************************************************************************)
(* The inductive invariant                                                 *)
(***************************************************************************)
\* Message n + 1 is stored in this chunk.
Slot(n) == n % Chunks

\* Message n + 1 is still in the ring.
Live(n) == n < sent /\ sent <= n + Chunks /\ (Writing => sent < n + Chunks)

RingType ==
    /\ written \in [Chunk -> BOOLEAN]
    /\ read \in [Chunk -> [Locals -> BOOLEAN]]
    /\ data \in [Chunk -> [msg : Nat, overflow : BOOLEAN]]
    /\ obj \in [Locals -> [msg : Nat, overflow : BOOLEAN]]
    /\ current \in [Locals -> Chunk]
    /\ pos \in [Locals -> Nat]
    /\ sent \in Nat
    /\ count \in 0..NLocal
    /\ pc = [r \in Readers |-> pc[r]]

\* The writer is at the chunk of the next message.
WriterInv ==
    /\ widx = Slot(sent)
    /\ Writing => ~written[widx]
    /\ wpc # "reset" => count = 0
    /\ wpc = "reset" => /\ data[widx].msg = sent + 1
                        /\ \A r \in Locals : r < count => ~read[widx][r]

\* A reader is at most a ring behind, and knows its own flag before it looks
\* at the written flag.
ReaderInv(r) ==
    /\ pos[r] <= sent
    /\ sent <= pos[r] + Chunks
    /\ Writing => sent < pos[r] + Chunks
    /\ current[r] = Slot(pos[r])
    /\ pc[r] = "written" => ~read[current[r]][r]
    /\ pc[r] \in {"copy", "mark"} => pos[r] < sent

\* The flags of a chunk tell who has read its message.
ChunkInv(n) ==
    /\ written[Slot(n)]
    /\ data[Slot(n)].msg = n + 1
    /\ \A r \in Locals : read[Slot(n)][r] <=> n < pos[r]

RingInv ==
    /\ RingType
    /\ WriterInv
    /\ \A r \in Locals : ReaderInv(r)
    /\ \A n \in 0..(sent - 1) : Live(n) => ChunkInv(n)
    /\ \A n \in Chunk : sent <= n => ~written[n]

(***************************************************************************)
(* Proof of the invariant                                                  *)
(***************************************************************************)
\* What the proof needs to know of the chunk numbers.
LEMMA SlotFacts ==
    /\ \A n \in Nat : Slot(n) \in Chunk
    /\ \A n \in Nat : Slot(n + 1) = NextIdx(Slot(n))
    /\ \A a, b \in Nat : Slot(a) = Slot(b) /\ a <= b /\ b < a + Chunks => a = b
    /\ \A n \in Nat : Slot(n + Chunks) = Slot(n)
    /\ \A n \in Chunk : Slot(n) = n
  <1> USE QueueAssumption
  <1>1. /\ \A n \in Nat : Slot(n) \in Chunk
        /\ \A n \in Chunk : Slot(n) = n
    BY ModSmall DEF Slot, Chunk
  <1>2. \A n \in Nat : Slot(n + 1) = NextIdx(Slot(n))
    BY Zenon, ModNext DEF Slot, NextIdx
  <1>3. \A a, b \in Nat : Slot(a) = Slot(b) /\ a <= b /\ b < a + Chunks => a = b
    BY Zenon, ModInjective DEF Slot
  <1>4. \A n \in Nat : Slot(n + Chunks) = Slot(n)
    BY Zenon, ModPeriod DEF Slot
  <1>5. QED BY <1>1, <1>2, <1>3, <1>4

\* The ring starts with all flags clear and nothing written.
LEMMA RingInit == Init => RingInv
  <1> USE QueueAssumption DEF Init
  <1> SUFFICES ASSUME Init PROVE RingInv OBVIOUS
  <1>0. 0 \in Chunk /\ Slot(0) = 0
    BY SlotFacts DEF Chunk
  <1>1. RingType
    <2>1. Torn \in [msg : Nat, overflow : BOOLEAN]
      BY DEF Torn
    <2>2. QED
      BY <1>0, <2>1 DEF RingType
  <1>2. WriterInv
    BY <1>0 DEF WriterInv, Writing
  <1>3. \A r \in Locals : ReaderInv(r)
    BY <1>0 DEF ReaderInv, Writing, Readers
  <1>4. QED
    BY <1>1, <1>2, <1>3 DEF RingInv

\* Steps that leave the ring alone and tell the truth about what was read.
LEMMA RingFrame ==
    ASSUME RingInv, UNCHANGED ring, pc' = [r \in Readers |-> pc'[r]],
           Writing' <=> Writing,
           wpc' = "reset" <=> wpc = "reset",
           \A r \in Locals : pc'[r] = "written" =>
                pc[r] = "written" \/ ~read[current[r]][r],
           \A r \in Locals : pc'[r] \in {"copy", "mark"} =>
                pc[r] \in {"copy", "mark"} \/ pos[r] < sent
    PROVE  RingInv'
  <1> USE DEF ring
  <1>1. RingType' BY DEF RingInv, RingType
  <1>2. WriterInv' BY DEF RingInv, WriterInv
  <1>3. \A r \in Locals : ReaderInv(r)'
    BY DEF RingInv, ReaderInv
  <1>4. \A n \in 0..(sent - 1) : (Live(n) => ChunkInv(n))'
    BY DEF RingInv, Live, ChunkInv
  <1>5. QED
    BY <1>1, <1>2, <1>3, <1>4 DEF RingInv

\* Every step of the writer and of the readers preserves RingInv.
LEMMA RingStep == RingInv /\ [Next]_vars => RingInv'
  <1> SUFFICES ASSUME RingInv, [Next]_vars PROVE RingInv' OBVIOUS
  <1> USE QueueAssumption
  <1>0. /\ RingType /\ WriterInv /\ \A r \in Locals : ReaderInv(r)
        /\ \A n \in 0..(sent - 1) : Live(n) => ChunkInv(n)
        /\ \A n \in Chunk : sent <= n => ~written[n]
    BY DEF RingInv
  <1>t. pc = [r \in Readers |-> pc[r]] /\ Locals \subseteq Readers
    BY <1>0 DEF RingType, Readers
  <1>1. CASE ReadyLocal \/ ReadyRemote \/ SendOverflow \/ Notify \/ SendRemote
    BY <1>1, <1>t, RingFrame
    DEF ReadyLocal, ReadyRemote, SendOverflow, Notify, SendRemote, Write, Writing
  <1>2. ASSUME NEW r \in Readers, Connect(r) \/ RecvReady(r) \/ Recv(r)
        PROVE  RingInv'
    BY <1>2, <1>t, RingFrame DEF Connect, RecvReady, Recv, Read, Writing
  <1>3. ASSUME NEW r \in Locals,
               \/ Spin(r) \/ Sleep(r) \/ Wake(r) \/ RecvTimeout(r) \/ Shutdown(r)
        PROVE  RingInv'
    BY <1>3, <1>t, RingFrame
    DEF Spin, Sleep, Wake, RecvTimeout, Shutdown, Read, Writing
  <1>4. ASSUME NEW r \in Locals, ReadFlag(r) PROVE RingInv'
    BY <1>4, <1>t, RingFrame DEF ReadFlag, Read, Writing, ring
  <1>5. CASE UNCHANGED vars
    BY <1>5, <1>t, RingFrame DEF vars, ring, Writing
  <1>6. ASSUME NEW r \in Locals, WrittenFlag(r) PROVE RingInv'
    \* The chunk of message sent + 1 is new, being written, or holds a message
    \* the reader has read already.
    <2>1. pc[r] = "written" /\ written[current[r]] => pos[r] < sent
      <3>0. pos[r] \in Nat /\ sent \in Nat /\ pos[r] <= sent
        BY Zenon, <1>0 DEF RingType, ReaderInv
      <3> SUFFICES ASSUME pc[r] = "written", written[current[r]], pos[r] = sent
                   PROVE  FALSE
        BY <3>0
      <3>1. current[r] = Slot(sent) /\ widx = Slot(sent) /\ ~read[Slot(sent)][r]
        BY <1>0 DEF ReaderInv, WriterInv
      <3>2. ~Writing
        BY <3>1, <1>0 DEF WriterInv
      <3>3. sent >= Chunks
        <4> SUFFICES ASSUME sent < Chunks PROVE FALSE
          BY <3>0
        <4>1. sent \in Chunk
          BY <3>0 DEF Chunk
        <4>2. Slot(sent) = sent /\ ~written[sent]
          BY <4>1, <3>0, <1>0, SlotFacts
        <4>3. QED
          BY <3>1, <4>2
      <3> DEFINE n == sent - Chunks
      <3>4. n \in 0..(sent - 1) /\ n \in Nat /\ n + Chunks = sent
        BY <3>3, <1>0 DEF RingType
      <3>5. Slot(n) = Slot(sent)
        BY <3>4, SlotFacts
      <3>6. Live(n)
        BY <3>2, <3>4, <1>0 DEF Live, RingType
      <3> HIDE DEF n
      <3>7. read[Slot(n)][r] <=> n < pos[r]
        BY <3>4, <3>6, <1>0 DEF ChunkInv
      <3>8. QED
        BY <3>1, <3>4, <3>5, <3>7, <1>0 DEF RingType
    <2>2. QED
      BY <1>6, <1>t, <2>1, RingFrame DEF WrittenFlag, Read, Writing
  <1>7. ASSUME NEW r \in Locals, Copy(r) PROVE RingInv'
    <2> USE <1>7 DEF Copy, Read
    <2>1. /\ UNCHANGED <<written, read, data, widx, current, count, sent, pos, wpc>>
          /\ pc'[r] = "mark" /\ pc[r] = "copy"
          /\ \A x \in Locals \ {r} : pc'[x] = pc[x]
          /\ Writing' <=> Writing
      BY <1>t DEF Writing
    <2>2. RingType'
      BY SMTT(30), <1>0, <2>1 DEF RingType, Locals
    <2>3. WriterInv'
      BY <1>0, <2>1 DEF WriterInv
    <2>4. \A x \in Locals : ReaderInv(x)'
      BY <1>0, <2>1 DEF ReaderInv
    <2>5. \A n \in 0..(sent - 1) : (Live(n) => ChunkInv(n))'
      BY <1>0, <2>1 DEF Live, ChunkInv
    <2>6. QED
      BY <1>0, <2>1, <2>2, <2>3, <2>4, <2>5 DEF RingInv
  <1>8. ASSUME NEW r \in Locals, MarkRead(r) PROVE RingInv'
    <2>1. /\ UNCHANGED <<written, data, widx, count, sent, wpc>>
          /\ pc[r] = "mark" /\ pc'[r] \in {"recv", "check"}
          /\ \A x \in Locals \ {r} : pc'[x] = pc[x]
          /\ pc' = [x \in Readers |-> pc'[x]]
          /\ Writing' <=> Writing
      BY <1>8, <1>t DEF MarkRead, Read, Writing
    <2>2. /\ pos[r] \in Nat /\ sent \in Nat /\ pos[r] < sent
          /\ current[r] = Slot(pos[r]) /\ current[r] \in Chunk
          /\ sent <= pos[r] + Chunks
          /\ Writing => sent < pos[r] + Chunks
          /\ widx = Slot(sent)
      BY Zenon, <1>0, <2>1 DEF RingType, ReaderInv, WriterInv
    <2>3. /\ pos' = [pos EXCEPT ![r] = pos[r] + 1]
          /\ current' = [current EXCEPT ![r] = Slot(pos[r] + 1)]
          /\ Slot(pos[r] + 1) \in Chunk
      <3>1. pos[r] + 1 \in Nat BY <2>2
      <3>2. Slot(pos[r] + 1) \in Chunk /\ Slot(pos[r] + 1) = NextIdx(Slot(pos[r]))
        BY <2>2, <3>1, SlotFacts
      <3>3. QED
        BY Zenon, <1>8, <2>2, <3>2 DEF MarkRead
    <2>4. /\ read' = [read EXCEPT ![current[r]][r] = TRUE]
          /\ \A i \in Chunk, x \in Locals :
                read'[i][x] = IF i = current[r] /\ x = r THEN TRUE ELSE read[i][x]
      BY Zenon, <1>8, <1>0, <2>2 DEF MarkRead, RingType
    <2>5. RingType'
      <3>1. obj' \in [Locals -> [msg : Nat, overflow : BOOLEAN]]
        BY <1>8, <1>0 DEF MarkRead, RingType, Torn
      <3>2. pos' \in [Locals -> Nat] /\ current' \in [Locals -> Chunk]
        BY <1>0, <2>2, <2>3 DEF RingType
      <3>3. read' \in [Chunk -> [Locals -> BOOLEAN]]
        BY <1>0, <2>2, <2>4 DEF RingType
      <3>4. QED
        BY <1>0, <2>1, <3>1, <3>2, <3>3 DEF RingType
    <2>6. WriterInv'
      <3>1. Writing => widx # current[r]
        <4>1. Slot(pos[r]) = Slot(sent) /\ pos[r] <= sent /\ sent < pos[r] + Chunks
                => pos[r] = sent
          BY <2>2, SlotFacts
        <4>2. QED BY <2>2, <4>1
      <3>2. widx \in Chunk
        BY <2>2, SlotFacts
      <3>3. QED
        BY <1>0, <2>1, <2>4, <3>1, <3>2 DEF WriterInv, Writing
    <2>7. ASSUME NEW x \in Locals PROVE ReaderInv(x)'
      <3>1. ReaderInv(x) /\ pos[x] \in Nat /\ current[x] \in Chunk
        BY <1>0 DEF RingType
      <3>2. CASE x = r
        BY <1>0, <2>1, <2>2, <2>3, <3>1, <3>2 DEF ReaderInv, RingType
      <3>3. CASE x # r
        <4>1. pos'[x] = pos[x] /\ current'[x] = current[x] /\ pc'[x] = pc[x]
          BY <1>0, <2>1, <2>3, <3>3 DEF RingType
        <4>2. read'[current[x]][x] = read[current[x]][x]
          BY <2>4, <3>1, <3>3
        <4>3. QED
          BY <2>1, <3>1, <4>1, <4>2 DEF ReaderInv
      <3>4. QED BY <3>2, <3>3
    <2>8. ASSUME NEW n \in 0..(sent - 1), Live(n)' PROVE ChunkInv(n)'
      <3>1. Live(n) /\ n \in Nat /\ Slot(n) \in Chunk
        BY <2>1, <2>2, <2>8, SlotFacts DEF Live
      <3>2. ChunkInv(n)
        BY <1>0, <3>1
      <3>3. Slot(n) = Slot(pos[r]) => n = pos[r]
        <4>1. n < pos[r] + Chunks /\ pos[r] < n + Chunks
          BY <2>2, <3>1 DEF Live
        <4>2. QED
          BY <2>2, <3>1, <4>1, SlotFacts
      <3>4. ASSUME NEW x \in Locals PROVE read'[Slot(n)][x] <=> n < pos'[x]
        <4>1. pos[x] \in Nat /\ pos'[x] = IF x = r THEN pos[r] + 1 ELSE pos[x]
          BY <1>0, <2>3 DEF RingType
        <4>2. read[Slot(n)][x] <=> n < pos[x]
          BY <3>2 DEF ChunkInv
        <4>3. CASE Slot(n) = Slot(pos[r]) /\ x = r
          <5>1. n < pos'[x]
            BY <2>2, <3>3, <4>1, <4>3
          <5>2. read'[Slot(n)][x]
            BY Zenon, <2>2, <2>4, <3>1, <4>3
          <5>3. QED BY <5>1, <5>2
        <4>4. CASE Slot(n) # Slot(pos[r]) \/ x # r
          <5>1. read'[Slot(n)][x] <=> read[Slot(n)][x]
            BY <2>2, <2>4, <3>1, <4>4
          <5>2. x = r => n # pos[r]
            BY <4>4
          <5>3. QED BY <2>2, <3>1, <4>1, <4>2, <5>1, <5>2
        <4>5. QED BY <4>3, <4>4
      <3>5. QED
        BY <2>1, <3>2, <3>4 DEF ChunkInv
    <2>9. QED
      BY <1>0, <2>1, <2>5, <2>6, <2>7, <2>8 DEF RingInv
  <1>w. /\ sent \in Nat /\ widx = Slot(sent) /\ widx \in Chunk
    BY <1>0, SlotFacts DEF RingType, WriterInv
  \* While the writer is at its chunk, no message of the ring is in it.
  <1>v. ASSUME NEW n \in 0..(sent - 1), sent < n + Chunks
        PROVE  n \in Nat /\ Slot(n) \in Chunk /\ Slot(n) # widx
    <2>1. n \in Nat /\ n < sent BY <1>w
    <2>2. Slot(n) = Slot(sent) /\ n <= sent /\ sent < n + Chunks => n = sent
      BY <1>w, <2>1, SlotFacts
    <2>3. QED BY <1>w, <1>v, <2>1, <2>2, SlotFacts
  <1>9. CASE AcquireWrite
    <2>1. /\ UNCHANGED <<read, widx, current, obj, count, sent, pos, pc>>
          /\ wpc = "idle" /\ wpc' = "fill" /\ ~Writing /\ Writing'
          /\ written' = [written EXCEPT ![widx] = FALSE]
          /\ data' = [data EXCEPT ![widx] = Torn]
          /\ written[widx] => \A r \in Locals : read[widx][r]
      BY <1>9 DEF AcquireWrite, Write, Writing, CanWrite
    <2>2. ASSUME NEW r \in Locals PROVE sent < pos[r] + Chunks
      <3>0. pos[r] \in Nat /\ pos[r] <= sent
        BY Zenon, <1>0 DEF RingType, ReaderInv
      <3>1. CASE sent < Chunks
        BY <3>0, <3>1, <1>w
      <3>2. CASE sent >= Chunks
        <4> DEFINE n == sent - Chunks
        <4>1. n \in 0..(sent - 1) /\ n \in Nat /\ n + Chunks = sent
          BY <3>2, <1>w
        <4>2. Slot(n) = widx
          BY <4>1, <1>w, SlotFacts
        <4>3. Live(n)
          BY <4>1, <2>1, <1>w DEF Live
        <4> HIDE DEF n
        <4>4. written[widx] /\ (read[widx][r] <=> n < pos[r])
          BY <4>1, <4>2, <4>3, <1>0 DEF ChunkInv
        <4>5. QED
          BY <4>1, <4>4, <2>1, <3>0, <1>w
      <3>3. QED BY <3>1, <3>2, <1>w
    <2>3. RingType'
      BY <1>0, <1>w, <2>1 DEF RingType, Torn
    <2>4. WriterInv'
      BY <1>0, <1>w, <2>1 DEF WriterInv, RingType
    <2>5. \A r \in Locals : ReaderInv(r)'
      BY <1>0, <2>1, <2>2 DEF ReaderInv
    <2>6. ASSUME NEW n \in 0..(sent - 1), Live(n)' PROVE ChunkInv(n)'
      <3>1. sent < n + Chunks /\ Live(n)
        BY <1>w, <2>1, <2>6 DEF Live
      <3>2. Slot(n) \in Chunk /\ Slot(n) # widx
        BY <1>v, <3>1
      <3>3. QED
        BY <1>0, <2>1, <3>1, <3>2 DEF ChunkInv, RingType
    <2>7. \A n \in Chunk : sent' <= n => ~written'[n]
      BY <1>0, <1>w, <2>1 DEF RingType
    <2>8. QED
      BY <2>1, <2>3, <2>4, <2>5, <2>6, <2>7 DEF RingInv
  <1>10. CASE Fill
    <2>1. /\ UNCHANGED <<written, read, widx, current, obj, count, sent, pos, pc>>
          /\ wpc = "fill" /\ wpc' = "reset" /\ Writing /\ Writing'
          /\ data' = [data EXCEPT ![widx] =
                        [msg |-> sent + 1, overflow |-> sent + 1 \in Oversized]]
      BY <1>10 DEF Fill, Write, Writing
    <2>2. RingType'
      BY <1>0, <1>w, <2>1 DEF RingType
    <2>3. WriterInv'
      BY <1>0, <1>w, <2>1 DEF WriterInv, RingType, Locals
    <2>4. \A r \in Locals : ReaderInv(r)'
      BY <1>0, <2>1 DEF ReaderInv
    <2>5. ASSUME NEW n \in 0..(sent - 1), Live(n)' PROVE ChunkInv(n)'
      <3>1. sent < n + Chunks /\ Live(n)
        BY <1>w, <2>1, <2>5 DEF Live
      <3>2. Slot(n) \in Chunk /\ Slot(n) # widx
        BY <1>v, <3>1
      <3>3. QED
        BY <1>0, <2>1, <3>1, <3>2 DEF ChunkInv, RingType
    <2>6. QED
      BY <1>0, <2>1, <2>2, <2>3, <2>4, <2>5 DEF RingInv
  <1>11. CASE ResetFlag
    <2>1. /\ UNCHANGED <<written, data, widx, current, obj, sent, pos, pc, wpc>>
          /\ wpc = "reset" /\ Writing /\ Writing'
          /\ count < NLocal /\ count' = count + 1
          /\ read' = [read EXCEPT ![widx][count] = FALSE]
      BY <1>11 DEF ResetFlag, Writing
    <2>2. count \in Locals /\ count' \in 0..NLocal
      BY <1>0, <2>1 DEF RingType, Locals
    <2>3. /\ read' \in [Chunk -> [Locals -> BOOLEAN]]
          /\ ~read'[widx][count]
          /\ \A i \in Chunk \ {widx} : read'[i] = read[i]
          /\ \A i \in Chunk, r \in Locals : read'[i][r] => read[i][r]
      BY <1>0, <1>w, <2>1, <2>2 DEF RingType
    <2>4. RingType'
      BY <1>0, <2>1, <2>2, <2>3 DEF RingType
    <2>5. WriterInv'
      <3>1. ASSUME NEW r \in Locals, r < count + 1 PROVE ~read'[widx][r]
        <4>1. r < count \/ r = count
          BY <2>2, <3>1 DEF Locals
        <4>2. QED
          BY <1>0, <1>w, <2>1, <2>3, <4>1 DEF WriterInv
      <3>2. QED
        BY <1>0, <2>1, <3>1 DEF WriterInv
    <2>6. \A r \in Locals : ReaderInv(r)'
      BY Zenon, <1>0, <2>1, <2>3 DEF ReaderInv, RingType
    <2>7. ASSUME NEW n \in 0..(sent - 1), Live(n)' PROVE ChunkInv(n)'
      <3>1. sent < n + Chunks /\ Live(n)
        BY <1>w, <2>1, <2>7 DEF Live
      <3>2. Slot(n) \in Chunk /\ Slot(n) # widx
        BY <1>v, <3>1
      <3>3. QED
        BY <1>0, <2>1, <2>3, <3>1, <3>2 DEF ChunkInv
    <2>8. QED
      BY <1>0, <2>1, <2>4, <2>5, <2>6, <2>7 DEF RingInv
  <1>12. CASE MarkWritten
    <2>1. /\ UNCHANGED <<read, data, current, obj, pos, pc>>
          /\ wpc = "reset" /\ Writing /\ wpc' # "reset" /\ ~Writing'
          /\ count = NLocal /\ count' = 0
          /\ widx' = NextIdx(widx) /\ sent' = sent + 1
          /\ written' = [written EXCEPT ![widx] = TRUE]
      BY <1>12 DEF MarkWritten, Write, Writing
    <2>2. RingType'
      BY <1>0, <1>w, <2>1 DEF RingType
    <2>3. WriterInv'
      BY <1>w, <2>1, SlotFacts DEF WriterInv
    <2>4. ASSUME NEW r \in Locals PROVE ReaderInv(r)'
      <3>1. ReaderInv(r) /\ pos[r] \in Nat
        BY <1>0 DEF RingType
      <3>2. QED BY <1>w, <2>1, <3>1 DEF ReaderInv
    <2>5. ASSUME NEW n \in 0..(sent' - 1), Live(n)' PROVE ChunkInv(n)'
      <3>1. CASE n = sent
        <4>1. written'[Slot(n)] /\ data'[Slot(n)].msg = n + 1
          BY <1>0, <1>w, <2>1, <3>1 DEF RingType, WriterInv
        <4>2. ASSUME NEW r \in Locals
              PROVE  ~read'[Slot(n)][r] /\ ~(n < pos'[r])
          <5>1. r < count
            BY <2>1 DEF Locals
          <5>2. ~read[widx][r]
            BY <1>0, <2>1, <5>1 DEF WriterInv
          <5>3. pos[r] \in Nat /\ pos[r] <= sent
            BY Zenon, <1>0 DEF RingType, ReaderInv
          <5>4. QED BY <1>w, <2>1, <3>1, <5>2, <5>3
        <4>3. QED BY <4>1, <4>2 DEF ChunkInv
      <3>2. CASE n # sent
        <4>1. n \in 0..(sent - 1) /\ sent < n + Chunks /\ Live(n)
          BY <1>w, <2>1, <2>5, <3>2 DEF Live
        <4>2. Slot(n) \in Chunk /\ Slot(n) # widx
          BY <1>v, <4>1
        <4>3. QED
          BY <1>0, <2>1, <4>1, <4>2 DEF ChunkInv, RingType
      <3>3. QED BY <3>1, <3>2
    <2>6. ASSUME NEW n \in Chunk, sent' <= n PROVE ~written'[n]
      <3>1. sent \in Chunk /\ sent < n
        BY <1>w, <2>1, <2>6 DEF Chunk
      <3>2. widx = sent
        BY <1>w, <3>1, SlotFacts
      <3>3. QED
        BY <1>0, <1>w, <2>1, <3>1, <3>2 DEF RingType, Chunk
    <2>7. QED
      BY <2>1, <2>2, <2>3, <2>4, <2>5, <2>6 DEF RingInv
  <1>q. QED
    BY <1>1, <1>2, <1>3, <1>4, <1>5, <1>6, <1>7, <1>8, <1>9, <1>10, <1>11, <1>12
    DEF Next, Writer, Local, Reader

(***************************************************************************)
(* The theorems                                                            *)
(***************************************************************************)
\* In every reachable state the flags of the ring mean what RingInv says, for
\* any number of readers, chunks and messages (acquire_write, acquire_read).
THEOREM RingInvariant == Spec => []RingInv
  BY RingInit, RingStep, PTL DEF Spec

\* The reader's message is complete and stays so while the reader is at it.
LEMMA RingExclusive == RingInv => ExclusiveAccess
  <1> SUFFICES ASSUME RingInv, NEW r \in Locals, pc[r] \in {"copy", "mark"}
               PROVE  /\ ~(Writing /\ widx = current[r])
                      /\ data[current[r]].msg = pos[r] + 1
    BY DEF ExclusiveAccess
  <1> USE QueueAssumption
  <1>1. /\ pos[r] \in Nat /\ sent \in Nat /\ pos[r] < sent
        /\ sent <= pos[r] + Chunks
        /\ Writing => sent < pos[r] + Chunks
        /\ current[r] = Slot(pos[r]) /\ widx = Slot(sent)
    BY Zenon DEF RingInv, RingType, ReaderInv, WriterInv
  <1>2. Live(pos[r]) /\ pos[r] \in 0..(sent - 1)
    BY <1>1 DEF Live
  <1>3. data[current[r]].msg = pos[r] + 1
    BY <1>1, <1>2 DEF RingInv, ChunkInv
  <1>4. Slot(pos[r]) = Slot(sent) /\ pos[r] <= sent /\ sent < pos[r] + Chunks
            => pos[r] = sent
    BY <1>1, SlotFacts
  <1>5. QED BY <1>1, <1>3, <1>4

\* The flags keep the writer out of a chunk that a reader looks into, without a
\* lock, whatever the number of readers and chunks.
THEOREM RingIsExclusive == Spec => []ExclusiveAccess
  BY RingInvariant, RingExclusive, PTL

--------------------------------------------------------------------------------
(***************************************************************************)
(* Sequences that list a set of numbers in increasing order                *)
(***************************************************************************)
Lists(s, D) ==
    /\ s \in Seq(Nat)
    /\ \A i \in 1..Len(s) : s[i] \in D
    /\ \A n \in D : \E i \in 1..Len(s) : s[i] = n
    /\ \A i, j \in 1..Len(s) : i < j => s[i] < s[j]

\* A number above all others is listed last (send_multipart).
LEMMA ListsAppend ==
    ASSUME NEW D \in SUBSET Nat, NEW s, Lists(s, D),
           NEW m \in Nat, \A n \in D : n < m
    PROVE  Lists(Append(s, m), D \union {m})
  <1> DEFINE t == Append(s, m)
  <1>1. /\ s \in Seq(Nat) /\ t \in Seq(Nat) /\ Len(s) \in Nat /\ Len(t) = Len(s) + 1
        /\ \A i \in 1..Len(s) : t[i] = s[i]
        /\ t[Len(s) + 1] = m
    BY DEF Lists
  <1> HIDE DEF t
  <1>2. ASSUME NEW i \in 1..Len(t) PROVE t[i] \in D \union {m}
    <2>1. CASE i = Len(s) + 1
      BY <1>1, <2>1
    <2>2. CASE i \in 1..Len(s)
      <3>1. t[i] = s[i] /\ s[i] \in D
        BY <1>1, <2>2 DEF Lists
      <3>2. QED BY <3>1
    <2>3. QED BY <1>1, <2>1, <2>2
  <1>3. ASSUME NEW n \in D \union {m} PROVE \E i \in 1..Len(t) : t[i] = n
    <2>1. CASE n = m
      BY <1>1, <2>1
    <2>2. CASE n \in D
      <3>1. PICK i \in 1..Len(s) : s[i] = n
        BY <2>2 DEF Lists
      <3>2. QED BY <1>1, <3>1
    <2>3. QED BY <2>1, <2>2
  <1>4. ASSUME NEW i \in 1..Len(t), NEW j \in 1..Len(t), i < j
        PROVE  t[i] < t[j]
    <2>1. i \in 1..Len(s) /\ t[i] = s[i] /\ s[i] \in D
      BY SMTT(30), <1>1, <1>4 DEF Lists
    <2>2. CASE j = Len(s) + 1
      BY <1>1, <2>1, <2>2
    <2>3. CASE j \in 1..Len(s)
      BY SMTT(30), <1>1, <1>4, <2>1, <2>3 DEF Lists
    <2>4. QED BY <1>1, <2>2, <2>3
  <1>5. QED BY SMTT(30), <1>1, <1>2, <1>3, <1>4 DEF Lists, t

\* The first one is the least, and the others are listed by the rest
\* (recv_multipart).
LEMMA ListsTail ==
    ASSUME NEW D \in SUBSET Nat, NEW s, Lists(s, D), s # <<>>
    PROVE  /\ Head(s) \in D
           /\ \A n \in D : Head(s) <= n
           /\ Lists(Tail(s), D \ {Head(s)})
  <1> DEFINE t == Tail(s)
  <1>1. /\ s \in Seq(Nat) /\ t \in Seq(Nat) /\ Len(s) \in Nat /\ Len(s) > 0
        /\ Len(t) = Len(s) - 1
        /\ \A i \in 1..Len(t) : t[i] = s[i + 1]
        /\ Head(s) = s[1]
    BY DEF Lists
  <1> HIDE DEF t
  <1>2. Head(s) \in D /\ Head(s) \in Nat
    BY <1>1 DEF Lists
  <1>3. ASSUME NEW i \in 2..Len(s) PROVE s[i] \in D /\ s[1] < s[i] /\ s[i] \in Nat
    <2>1. i \in 1..Len(s) /\ 1 \in 1..Len(s) /\ 1 < i
      BY <1>1
    <2>2. QED BY SMTT(30), <1>1, <2>1 DEF Lists
  <1>4. ASSUME NEW n \in D PROVE Head(s) <= n
    <2>1. PICK i \in 1..Len(s) : s[i] = n
      BY DEF Lists
    <2>2. QED BY <1>1, <1>2, <1>3, <2>1
  <1>5. ASSUME NEW i \in 1..Len(t) PROVE t[i] \in D \ {Head(s)}
    <2>1. i + 1 \in 2..Len(s) /\ t[i] = s[i + 1]
      BY <1>1
    <2>2. t[i] \in D /\ t[i] # Head(s)
      BY <1>1, <1>2, <1>3, <2>1
    <2>3. QED BY <2>2
  <1>6. ASSUME NEW n \in D \ {Head(s)} PROVE \E i \in 1..Len(t) : t[i] = n
    <2>1. PICK i \in 1..Len(s) : s[i] = n
      BY DEF Lists
    <2>2. i - 1 \in 1..Len(t) /\ t[i - 1] = n
      BY <1>1, <2>1
    <2>3. QED BY <2>2
  <1>7. ASSUME NEW i \in 1..Len(t), NEW j \in 1..Len(t), i < j
        PROVE  t[i] < t[j]
    <2>1. i + 1 \in 1..Len(s) /\ j + 1 \in 1..Len(s) /\ i + 1 < j + 1
      BY <1>1, <1>7
    <2>2. QED BY Zenon, <1>1, <2>1 DEF Lists
  <1>8. QED BY <1>1, <1>2, <1>4, <1>5, <1>6, <1>7 DEF Lists, t

\* A new socket is empty.
LEMMA ListsEmpty == Lists(<<>>, {})
  BY DEF Lists

(***************************************************************************)
(* The inductive invariant                                                 *)
(***************************************************************************)
\* The writer has sent READY to r.
Ready(r) == wpc # "ready" /\ (r \in Locals \/ wpc # "ready_remote")

\* The last message was written to the ring and not yet sent to r.
Unsent(r) == wpc = "overflow" \/ (r \notin Locals /\ wpc \in {"notify", "remote"})

\* The numbers that the socket holds for r.
ToCome(r) ==
    {n \in (got[r] + 1)..sent :
        (r \in Locals => n \in Oversized) /\ (Unsent(r) => n < sent)}
    \union (IF pc[r] = "handshake" /\ Ready(r) THEN {0} ELSE {})

\* A chunk holds the marker exactly when its message is oversized.
MarkerInv ==
    /\ \A i \in Chunk : data[i].msg # 0 =>
            (data[i].overflow <=> data[i].msg \in Oversized)
    /\ \A r \in Locals : pc[r] = "mark" =>
            obj[r].msg = pos[r] + 1 /\ (obj[r].overflow <=> obj[r].msg \in Oversized)
    /\ wpc \in {"ready", "ready_remote"} => sent = 0
    /\ wpc = "overflow" => sent \in Oversized
    /\ wpc \in {"overflow", "notify", "remote"} => sent # 0

\* A reader takes part in the handshake before it reads.
HandshakeInv(r) ==
    /\ r \in sub <=> pc[r] # "connect"
    /\ Ready(r) => r \in sub
    /\ ~Ready(r) => pc[r] \in {"connect", "handshake"}
    /\ pc[r] \in {"connect", "handshake"} => got[r] = 0 /\ r \notin lost
    /\ r \notin Locals => pc[r] \in {"connect", "handshake", "recv"}

\* A local reader has returned all it has read, except the oversized message
\* that it is about to receive.
GotInv(r) ==
    IF pc[r] = "recv" THEN got[r] + 1 = pos[r] /\ pos[r] \in Oversized
                      ELSE got[r] = pos[r]

\* A reader returns what was sent to it.
BehindInv(r) == got[r] <= sent /\ (Unsent(r) => got[r] < sent)

SocketInv ==
    /\ got \in [Readers -> Nat]
    /\ socket \in [Readers -> Seq(Nat)]
    /\ lost \subseteq Locals
    /\ MarkerInv
    /\ \A r \in Readers : HandshakeInv(r)
    /\ \A r \in Locals \ lost : GotInv(r)
    /\ \A r \in Readers \ lost : BehindInv(r) /\ Lists(socket[r], ToCome(r))
    /\ \A r \in lost : \A i \in 1..Len(socket[r]) : socket[r][i] \in 1..sent

(***************************************************************************)
(* Proof of the invariant                                                  *)
(***************************************************************************)
LEMMA SocketInit == Init => SocketInv
  <1> SUFFICES ASSUME Init PROVE SocketInv OBVIOUS
  <1> USE QueueAssumption DEF Init
  <1>1. got \in [Readers -> Nat] /\ socket \in [Readers -> Seq(Nat)]
    OBVIOUS
  <1>2. MarkerInv
    BY DEF MarkerInv, Torn, Readers
  <1>3. \A r \in Readers : HandshakeInv(r)
    BY DEF HandshakeInv, Ready
  <1>4. \A r \in Locals \ lost : GotInv(r)
    BY DEF GotInv, Readers
  <1>5. ASSUME NEW r \in Readers PROVE Lists(socket[r], ToCome(r))
    <2>1. ToCome(r) = {} /\ socket[r] = <<>>
      BY DEF ToCome, Ready
    <2>2. QED BY <2>1, ListsEmpty
  <1>6. \A r \in Readers : BehindInv(r)
    BY DEF BehindInv, Unsent
  <1>7. QED BY <1>1, <1>2, <1>3, <1>4, <1>5, <1>6 DEF SocketInv

\* What is to come depends on these parts of the state only.
LEMMA ToComeSame ==
    ASSUME NEW q, got'[q] = got[q], sent' = sent,
           Unsent(q)' <=> Unsent(q),
           (pc[q] = "handshake" /\ Ready(q))' <=> (pc[q] = "handshake" /\ Ready(q))
    PROVE  ToCome(q)' = ToCome(q)
  BY DEF ToCome

\* What is to come are message numbers, and 0 for READY.
LEMMA ToComeType ==
    ASSUME NEW q \in Readers, got \in [Readers -> Nat], sent \in Nat
    PROVE  /\ ToCome(q) \in SUBSET Nat
           /\ \A n \in ToCome(q) : n <= sent /\ (Unsent(q) => n < sent \/ n = 0)
  BY DEF ToCome

\* Steps that leave the sockets alone and return no message.
LEMMA SocketFrame ==
    ASSUME SocketInv, MarkerInv', UNCHANGED <<socket, got, lost, sub, sent, pos>>,
           \A q \in Readers : (Ready(q)' <=> Ready(q)) /\ (Unsent(q)' <=> Unsent(q)),
           \A q \in Readers :
              \/ pc'[q] = pc[q]
              \/ /\ q \in Locals
                 /\ pc[q] \notin {"connect", "handshake", "recv"}
                 /\ pc'[q] \notin {"connect", "handshake", "recv"}
    PROVE  SocketInv'
  <1>1. ASSUME NEW q \in Readers PROVE HandshakeInv(q)'
    BY DEF SocketInv, HandshakeInv
  <1>2. ASSUME NEW q \in Locals \ lost PROVE GotInv(q)'
    BY DEF SocketInv, GotInv, Readers
  <1>3. ASSUME NEW q \in Readers PROVE ToCome(q)' = ToCome(q)
    BY ToComeSame
  <1>4. ASSUME NEW q \in Readers \ lost PROVE BehindInv(q)'
    BY DEF SocketInv, BehindInv
  <1>5. QED
    BY <1>1, <1>2, <1>3, <1>4 DEF SocketInv

\* Steps that send m to the readers P, all of which have subscribed.
LEMMA SocketSend ==
    ASSUME SocketInv, sent \in Nat, MarkerInv', NEW P, P \subseteq sub, NEW m \in Nat,
           Publish(P, m), UNCHANGED <<got, lost, sub, sent, pos, pc>>,
           \A q \in Readers : (Ready(q) => Ready(q)') /\ (Unsent(q)' => Unsent(q)),
           \A q \in Readers : Ready(q)' => q \in sub,
           \A q \in Readers \cap P : q \in lost => m \in 1..sent,
           \A q \in (Readers \cap P) \ lost :
              ToCome(q)' = ToCome(q) \union {m} /\ \A n \in ToCome(q) : n < m,
           \A q \in Readers \ P : ToCome(q)' = ToCome(q)
    PROVE  SocketInv'
  <1>0. /\ got \in [Readers -> Nat] /\ socket \in [Readers -> Seq(Nat)]
        /\ lost \subseteq Locals /\ Locals \subseteq Readers
    BY DEF SocketInv, Readers
  <1>1. /\ socket' \in [Readers -> Seq(Nat)]
        /\ \A q \in Readers \cap P : socket'[q] = Append(socket[q], m)
        /\ \A q \in Readers \ P : socket'[q] = socket[q]
    BY <1>0 DEF Publish
  <1>2. ASSUME NEW q \in Readers PROVE HandshakeInv(q)'
    BY DEF SocketInv, HandshakeInv
  <1>3. ASSUME NEW q \in Locals \ lost PROVE GotInv(q)'
    BY DEF SocketInv, GotInv
  <1>4. ASSUME NEW q \in Readers \ lost PROVE Lists(socket'[q], ToCome(q)')
    <2>1. Lists(socket[q], ToCome(q)) /\ ToCome(q) \in SUBSET Nat
      BY <1>0, ToComeType DEF SocketInv
    <2>2. CASE q \in P
      <3>1. ToCome(q)' = ToCome(q) \union {m} /\ \A n \in ToCome(q) : n < m
        BY <2>2
      <3>2. Lists(Append(socket[q], m), ToCome(q) \union {m})
        BY <2>1, <3>1, ListsAppend
      <3>3. QED BY Zenon, <1>1, <2>2, <3>1, <3>2
    <2>3. CASE q \notin P
      BY <1>1, <2>1, <2>3
    <2>4. QED BY <2>2, <2>3
  <1>5. ASSUME NEW q \in lost, NEW i \in 1..Len(socket'[q])
        PROVE  socket'[q][i] \in 1..sent
    <2>1. q \in Readers /\ socket[q] \in Seq(Nat)
      BY <1>0
    <2>2. CASE q \in P
      <3>1. /\ socket'[q] = Append(socket[q], m) /\ m \in 1..sent
            /\ \A j \in 1..Len(socket[q]) : socket[q][j] \in 1..sent
        BY <1>1, <2>1, <2>2 DEF SocketInv
      <3>2. QED BY <1>5, <2>1, <3>1
    <2>3. CASE q \notin P
      BY <1>1, <1>5, <2>1, <2>3 DEF SocketInv
    <2>4. QED BY <2>2, <2>3
  <1>6. (\A q \in Readers \ lost : BehindInv(q) /\ Lists(socket[q], ToCome(q)))'
    <2>1. ASSUME NEW q \in Readers \ lost PROVE BehindInv(q)'
      BY DEF SocketInv, BehindInv
    <2>2. QED BY <1>4, <2>1
  <1>7. (\A q \in lost : \A i \in 1..Len(socket[q]) : socket[q][i] \in 1..sent)'
    BY <1>5
  <1>8. QED
    BY <1>0, <1>1, <1>2, <1>3, <1>6, <1>7 DEF SocketInv

\* The steps of the writer.
LEMMA WriterStep ==
    ASSUME RingInv, SocketInv, Writer PROVE SocketInv'
  <1> USE QueueAssumption
  <1>0. /\ got \in [Readers -> Nat] /\ socket \in [Readers -> Seq(Nat)]
        /\ lost \subseteq Locals /\ Locals \subseteq Readers /\ MarkerInv
        /\ \A r \in Readers : HandshakeInv(r)
    BY DEF SocketInv, Readers
  <1>r. /\ sent \in Nat /\ widx \in Chunk /\ pos \in [Locals -> Nat]
        /\ data \in [Chunk -> [msg : Nat, overflow : BOOLEAN]]
    BY SlotFacts DEF RingInv, RingType, WriterInv
  <1>1. CASE ReadyLocal
    <2>1. /\ wpc = "ready" /\ wpc' = "ready_remote" /\ Locals \subseteq sub
          /\ Publish(Locals, 0) /\ sent = 0
          /\ UNCHANGED <<pc, data, obj, pos, sent, got, lost, sub>>
      BY <1>0, <1>1 DEF ReadyLocal, Write, ring, ends, MarkerInv
    <2>2. MarkerInv'
      BY <1>0, <2>1 DEF MarkerInv
    <2>3. ASSUME NEW q \in Readers \cap Locals
          PROVE  q \notin lost /\ ToCome(q) = {} /\ ToCome(q)' = {0}
      <3>1. ~Ready(q) /\ Ready(q)' /\ pc[q] = "handshake" /\ got[q] = 0 /\ q \notin lost
        BY <1>0, <2>1 DEF HandshakeInv, Ready
      <3>2. QED BY <2>1, <3>1 DEF ToCome
    <2>4. ASSUME NEW q \in Readers \ Locals PROVE ToCome(q)' = ToCome(q)
      <3>1. (Unsent(q)' <=> Unsent(q)) /\ ~Ready(q) /\ ~Ready(q)'
        BY <2>1 DEF Unsent, Ready
      <3>2. QED BY <2>1, <3>1, ToComeSame
    <2>5. \A q \in Readers : ~Ready(q) /\ (Ready(q)' => q \in sub) /\ ~Unsent(q)'
      BY <2>1 DEF Ready, Unsent
    <2>6. QED
      BY <1>r, <2>1, <2>2, <2>3, <2>4, <2>5, SocketSend
  <1>2. CASE ReadyRemote
    <2>1. /\ wpc = "ready_remote" /\ wpc' = "idle" /\ Remotes \subseteq sub
          /\ Publish(Remotes, 0) /\ sent = 0
          /\ UNCHANGED <<pc, data, obj, pos, sent, got, lost, sub>>
      BY <1>0, <1>2 DEF ReadyRemote, Write, ring, ends, MarkerInv
    <2>2. MarkerInv'
      BY <1>0, <2>1 DEF MarkerInv
    <2>3. ASSUME NEW q \in Readers \cap Remotes
          PROVE  q \notin lost /\ ToCome(q) = {} /\ ToCome(q)' = {0}
      <3>1. ~Ready(q) /\ Ready(q)' /\ pc[q] = "handshake" /\ got[q] = 0 /\ q \notin lost
        BY <1>0, <2>1 DEF HandshakeInv, Ready
      <3>2. QED BY <2>1, <3>1 DEF ToCome
    <2>4. ASSUME NEW q \in Readers \ Remotes PROVE ToCome(q)' = ToCome(q)
      <3>1. (Unsent(q)' <=> Unsent(q)) /\ Ready(q) /\ Ready(q)'
        BY <2>1 DEF Unsent, Ready, Readers
      <3>2. QED BY <2>1, <3>1, ToComeSame
    <2>5. \A q \in Readers :
             (Ready(q) => Ready(q)') /\ (Ready(q)' => q \in sub) /\ ~Unsent(q)'
      BY <1>0, <2>1 DEF Ready, Unsent, HandshakeInv, Readers
    <2>6. QED
      BY <1>r, <2>1, <2>2, <2>3, <2>4, <2>5, SocketSend
  <1>3. CASE SendOverflow
    <2>1. /\ wpc = "overflow" /\ wpc' = "notify" /\ Publish(Locals, sent)
          /\ sent \in Oversized /\ sent \in 1..sent
          /\ UNCHANGED <<pc, data, obj, pos, sent, got, lost, sub>>
      BY <1>0, <1>r, <1>3 DEF SendOverflow, Write, ring, ends, MarkerInv
    <2>2. MarkerInv'
      BY <1>0, <2>1 DEF MarkerInv
    <2>3. \A q \in Readers :
             Ready(q) /\ Ready(q)' /\ q \in sub /\ (Unsent(q)' => Unsent(q))
      BY <1>0, <2>1 DEF Ready, Unsent, HandshakeInv
    <2>4. ASSUME NEW q \in (Readers \cap Locals) \ lost
          PROVE  ToCome(q)' = ToCome(q) \union {sent} /\ \A n \in ToCome(q) : n < sent
      <3>1. Unsent(q) /\ ~Unsent(q)' /\ got[q] \in Nat
        BY <1>0, <2>1 DEF Unsent
      <3>2. got[q] < sent
        BY <3>1 DEF SocketInv, BehindInv
      <3>3. QED BY <1>r, <2>1, <2>3, <3>1, <3>2 DEF ToCome
    <2>5. ASSUME NEW q \in Readers \ Locals PROVE ToCome(q)' = ToCome(q)
      <3>1. (Unsent(q)' <=> Unsent(q))
        BY <2>1 DEF Unsent
      <3>2. QED BY <2>1, <2>3, <3>1, ToComeSame
    <2>6. QED
      BY Zenon, <1>0, <1>r, <2>1, <2>2, <2>3, <2>4, <2>5, SocketSend
  <1>4. CASE SendRemote
    <2>1. /\ wpc = "remote" /\ wpc' = "idle" /\ Publish(Remotes, sent)
          /\ sent \in 1..sent
          /\ UNCHANGED <<pc, data, obj, pos, sent, got, lost, sub>>
      BY <1>0, <1>r, <1>4 DEF SendRemote, Write, ring, ends, MarkerInv
    <2>2. MarkerInv'
      BY <1>0, <2>1 DEF MarkerInv
    <2>3. /\ \A q \in Readers :
                Ready(q) /\ Ready(q)' /\ q \in sub /\ (Unsent(q)' => Unsent(q))
          /\ Remotes \subseteq sub
      BY <1>0, <2>1 DEF Ready, Unsent, HandshakeInv, Readers
    <2>4. ASSUME NEW q \in (Readers \cap Remotes) \ lost
          PROVE  ToCome(q)' = ToCome(q) \union {sent} /\ \A n \in ToCome(q) : n < sent
      <3>1. Unsent(q) /\ ~Unsent(q)' /\ got[q] \in Nat /\ q \notin Locals
        BY <1>0, <2>1 DEF Unsent
      <3>2. got[q] < sent
        BY <3>1 DEF SocketInv, BehindInv
      <3>3. QED BY <1>r, <2>1, <2>3, <3>1, <3>2 DEF ToCome
    <2>5. ASSUME NEW q \in Readers \ Remotes PROVE ToCome(q)' = ToCome(q)
      <3>1. (Unsent(q)' <=> Unsent(q))
        BY <2>1 DEF Unsent, Readers
      <3>2. QED BY <2>1, <2>3, <3>1, ToComeSame
    <2>6. QED
      BY Zenon, <1>0, <1>r, <2>1, <2>2, <2>3, <2>4, <2>5, SocketSend
  <1>5. CASE AcquireWrite \/ Fill \/ ResetFlag \/ Notify
    <2>1. /\ UNCHANGED <<pc, obj, pos, sent, socket, got, lost, sub>>
          /\ \/ wpc = "notify" /\ wpc' = "remote"
             \/ /\ wpc \in {"idle", "fill", "reset"}
                /\ wpc' \in {"idle", "fill", "reset"}
      BY <1>5 DEF AcquireWrite, Fill, ResetFlag, Notify, Write, ring, wires, ends
    <2>2. \/ data' = data
          \/ data' = [data EXCEPT ![widx] = Torn]
          \/ data' = [data EXCEPT ![widx] =
                        [msg |-> sent + 1, overflow |-> sent + 1 \in Oversized]]
      BY <1>5 DEF AcquireWrite, Fill, ResetFlag, Notify, ring
    <2>3. MarkerInv'
      <3>1. ASSUME NEW i \in Chunk, data'[i].msg # 0
            PROVE  data'[i].overflow <=> data'[i].msg \in Oversized
        <4>1. CASE data'[i] = data[i]
          BY <1>0, <3>1, <4>1 DEF MarkerInv
        <4>2. CASE data'[i] = Torn
          BY <3>1, <4>2 DEF Torn
        <4>3. CASE data'[i] = [msg |-> sent + 1, overflow |-> sent + 1 \in Oversized]
          <5>1. data'[i].msg = sent + 1
            BY <4>3
          <5>2. data'[i].overflow = (sent + 1 \in Oversized)
            BY <4>3
          <5>3. QED BY Zenon, <5>1, <5>2
        <4>4. QED BY <1>r, <2>2, <4>1, <4>2, <4>3
      <3>2. QED BY <1>0, <2>1, <3>1 DEF MarkerInv
    <2>4. \A q \in Readers : (Ready(q)' <=> Ready(q)) /\ (Unsent(q)' <=> Unsent(q))
      BY <2>1 DEF Ready, Unsent
    <2>5. QED BY <2>1, <2>3, <2>4, SocketFrame
  <1>6. CASE MarkWritten
    <2>1. /\ UNCHANGED <<pc, data, obj, pos, socket, got, lost, sub>>
          /\ wpc = "reset" /\ sent' = sent + 1
          /\ wpc' = IF sent + 1 \in Oversized THEN "overflow" ELSE "notify"
      <3>1. data[widx].msg = sent + 1 /\ wpc = "reset"
        BY <1>6 DEF RingInv, WriterInv, MarkWritten, Write
      <3>2. data[widx].overflow <=> sent + 1 \in Oversized
        BY <1>0, <1>r, <3>1 DEF MarkerInv
      <3>3. QED BY <1>6, <3>1, <3>2 DEF MarkWritten, Write, wires, ends
    <2>2. MarkerInv'
      <3>1. sent' # 0 /\ (wpc' = "overflow" => sent' \in Oversized)
            /\ wpc' \notin {"ready", "ready_remote"}
        BY <1>r, <2>1
      <3>2. QED BY <1>0, <2>1, <3>1 DEF MarkerInv
    <2>3. ASSUME NEW q \in Readers
          PROVE  Ready(q) /\ Ready(q)' /\ HandshakeInv(q)'
      BY <1>0, <2>1 DEF Ready, HandshakeInv
    <2>4. ASSUME NEW q \in Locals \ lost PROVE GotInv(q)'
      BY <2>1 DEF SocketInv, GotInv
    <2>5. ASSUME NEW q \in Readers \ lost
          PROVE  BehindInv(q)' /\ ToCome(q)' = ToCome(q)
      <3>1. got[q] \in Nat /\ got[q] <= sent /\ ~Unsent(q)
        BY <1>0, <2>1 DEF SocketInv, BehindInv, Unsent
      <3>2. (Unsent(q) \/ (q \in Locals /\ sent \notin Oversized))'
        BY <2>1 DEF Unsent
      <3>3. BehindInv(q)'
        BY <1>r, <2>1, <3>1 DEF BehindInv
      <3>4. {n \in (got[q] + 1)..(sent + 1) :
                (q \in Locals => n \in Oversized) /\ (Unsent(q)' => n < sent + 1)}
            = {n \in (got[q] + 1)..sent :
                (q \in Locals => n \in Oversized) /\ (Unsent(q) => n < sent)}
        <4>1. sent + 1 \in Oversized /\ q \in Locals => Unsent(q)'
          BY <2>1, <3>2
        <4>2. q \notin Locals => Unsent(q)'
          BY <2>1, <3>2
        <4>3. ASSUME NEW n \in (got[q] + 1)..(sent + 1), q \in Locals => n \in Oversized,
                     Unsent(q)' => n < sent + 1
              PROVE  n \in (got[q] + 1)..sent
          <5>1. n # sent + 1
            BY <1>r, <4>1, <4>2, <4>3
          <5>2. QED BY <1>r, <3>1, <5>1
        <4>4. \A n \in (got[q] + 1)..sent : n \in (got[q] + 1)..(sent + 1) /\ n < sent + 1
          BY <1>r, <3>1
        <4>5. QED BY <3>1, <4>3, <4>4, Zenon
      <3>5. QED BY <2>1, <2>3, <3>3, <3>4 DEF ToCome
    <2>6. \A q \in lost : \A i \in 1..Len(socket[q]) : socket[q][i] \in 1..(sent + 1)
      BY <1>r DEF SocketInv
    <2>7. QED
      BY <1>0, <2>1, <2>2, <2>3, <2>4, <2>5, <2>6 DEF SocketInv
  <1>7. QED
    BY <1>1, <1>2, <1>3, <1>4, <1>5, <1>6 DEF Writer

\* Steps of reader r, which leave the other readers alone.
LEMMA SocketReader ==
    ASSUME SocketInv, MarkerInv', NEW r \in Readers, UNCHANGED <<wpc, sent>>,
           got' \in [Readers -> Nat], socket' \in [Readers -> Seq(Nat)],
           lost' \subseteq Locals,
           \A q \in Readers \ {r} :
              /\ pc'[q] = pc[q] /\ got'[q] = got[q] /\ socket'[q] = socket[q]
              /\ q \in Locals => pos'[q] = pos[q]
              /\ q \in sub' <=> q \in sub
              /\ q \in lost' <=> q \in lost,
           HandshakeInv(r)',
           r \in Locals \ lost' => GotInv(r)',
           r \notin lost' => BehindInv(r)' /\ Lists(socket'[r], ToCome(r)'),
           r \in lost' => \A i \in 1..Len(socket'[r]) : socket'[r][i] \in 1..sent
    PROVE  SocketInv'
  <1>0. Locals \subseteq Readers /\ lost \subseteq Locals
    BY DEF Readers, SocketInv
  <1>1. ASSUME NEW q \in Readers PROVE HandshakeInv(q)'
    BY Zenon DEF SocketInv, HandshakeInv, Ready
  <1>2. ASSUME NEW q \in Locals \ lost' PROVE GotInv(q)'
    BY Zenon, <1>0 DEF SocketInv, GotInv
  <1>3. ASSUME NEW q \in Readers \ lost'
        PROVE  BehindInv(q)' /\ Lists(socket'[q], ToCome(q)')
    <2>1. CASE q = r
      BY <2>1
    <2>2. CASE q # r
      <3>1. BehindInv(q) /\ Lists(socket[q], ToCome(q))
        BY <2>2 DEF SocketInv
      <3>2. (Unsent(q)' <=> Unsent(q)) /\ (Ready(q)' <=> Ready(q))
        BY DEF Unsent, Ready
      <3>3. ToCome(q)' = ToCome(q)
        BY Zenon, <2>2, <3>2, ToComeSame
      <3>4. BehindInv(q)'
        BY <2>2, <3>1, <3>2 DEF BehindInv
      <3>5. QED BY <2>2, <3>1, <3>3, <3>4
    <2>3. QED BY <2>1, <2>2
  <1>4. ASSUME NEW q \in lost', NEW i \in 1..Len(socket'[q])
        PROVE  socket'[q][i] \in 1..sent
    <2>1. CASE q = r
      BY <1>4, <2>1
    <2>2. CASE q # r
      BY <1>0, <1>4, <2>2 DEF SocketInv
    <2>3. QED BY <2>1, <2>2
  <1>5. (\A q \in Readers \ lost : BehindInv(q) /\ Lists(socket[q], ToCome(q)))'
    BY <1>3
  <1>6. (\A q \in lost : \A i \in 1..Len(socket[q]) : socket[q][i] \in 1..sent)'
    BY <1>4
  <1>7. QED
    BY <1>1, <1>2, <1>5, <1>6 DEF SocketInv

\* What a reader finds in its socket is the message after the last one it
\* returned.
LEMMA RecvNext ==
    ASSUME RingInv, SocketInv, NEW r \in Readers \ lost, pc[r] = "recv",
           socket[r] # <<>>
    PROVE  /\ Head(socket[r]) = got[r] + 1
           /\ got[r] < sent
           /\ Unsent(r) => got[r] + 1 < sent
           /\ Lists(Tail(socket[r]), ToCome(r) \ {got[r] + 1})
  <1> DEFINE h == Head(socket[r])
  <1>1. got \in [Readers -> Nat] /\ got[r] \in Nat /\ sent \in Nat
    BY DEF SocketInv, RingInv, RingType
  <1>2. Lists(socket[r], ToCome(r)) /\ ToCome(r) \in SUBSET Nat
    BY <1>1, ToComeType DEF SocketInv
  <1>3. /\ h \in ToCome(r) /\ \A n \in ToCome(r) : h <= n
        /\ Lists(Tail(socket[r]), ToCome(r) \ {h})
    BY Zenon, <1>2, ListsTail
  <1> HIDE DEF h
  <1>4. h \in (got[r] + 1)..sent /\ (Unsent(r) => h < sent)
    BY <1>3 DEF ToCome
  <1>5. r \in Locals => got[r] + 1 \in Oversized
    BY DEF SocketInv, GotInv
  <1>6. got[r] + 1 \in (got[r] + 1)..sent /\ (Unsent(r) => got[r] + 1 < sent)
    BY <1>1, <1>4
  <1>7. got[r] + 1 \in ToCome(r)
    BY <1>5, <1>6 DEF ToCome
  <1>8. h = got[r] + 1
    BY <1>1, <1>3, <1>4, <1>7
  <1>9. got[r] < sent
    BY <1>1, <1>6
  <1>10. QED
    BY Zenon, <1>3, <1>6, <1>8, <1>9 DEF h

\* The steps that take something from a socket or from the ring.
LEMMA ReaderStep ==
    ASSUME RingInv, SocketInv, NEW r \in Readers,
           Reader(r) \/ (r \in Locals /\ (RecvTimeout(r) \/ MarkRead(r)))
    PROVE  SocketInv'
  <1> USE QueueAssumption
  <1>0. /\ got \in [Readers -> Nat] /\ socket \in [Readers -> Seq(Nat)]
        /\ lost \subseteq Locals /\ Locals \subseteq Readers /\ MarkerInv
        /\ HandshakeInv(r) /\ got[r] \in Nat /\ socket[r] \in Seq(Nat)
        /\ sent \in Nat /\ pc = [q \in Readers |-> pc[q]]
        /\ pos \in [Locals -> Nat] /\ obj \in [Locals -> [msg : Nat, overflow : BOOLEAN]]
    BY DEF SocketInv, Readers, RingInv, RingType
  <1>a. r \notin lost => BehindInv(r) /\ Lists(socket[r], ToCome(r))
    BY DEF SocketInv
  <1>b. r \in lost => \A i \in 1..Len(socket[r]) : socket[r][i] \in 1..sent
    BY DEF SocketInv
  <1>1. CASE Connect(r)
    <2>1. /\ pc[r] = "connect" /\ pc'[r] = "handshake" /\ sub' = sub \union {r}
          /\ \A q \in Readers \ {r} : pc'[q] = pc[q]
          /\ UNCHANGED <<wpc, sent, data, obj, pos, got, socket, lost>>
      BY <1>0, <1>1 DEF Connect, Read, ring, ends
    <2>2. MarkerInv'
      BY Zenon, <1>0, <2>1 DEF MarkerInv, Readers
    <2>3. ~Ready(r) /\ ~Ready(r)' /\ (Unsent(r)' <=> Unsent(r)) /\ r \notin lost
      BY <1>0, <2>1 DEF HandshakeInv, Ready, Unsent
    <2>4. HandshakeInv(r)'
      BY <1>0, <2>1, <2>3 DEF HandshakeInv
    <2>5. r \in Locals => GotInv(r)'
      BY <2>1, <2>3 DEF SocketInv, GotInv
    <2>6. BehindInv(r)' /\ ToCome(r)' = ToCome(r)
      BY <1>a, <2>1, <2>3, ToComeSame DEF BehindInv
    <2>7. QED
      BY Zenon, <1>0, <1>a, <2>1, <2>2, <2>3, <2>4, <2>5, <2>6, SocketReader
  <1>2. CASE RecvReady(r)
    <2>1. /\ pc[r] = "handshake" /\ pc'[r] = IF r \in Locals THEN "check" ELSE "recv"
          /\ socket[r] # <<>> /\ socket' = [socket EXCEPT ![r] = Tail(@)]
          /\ \A q \in Readers \ {r} : pc'[q] = pc[q]
          /\ UNCHANGED <<wpc, sent, data, obj, pos, got, sub, lost>>
      BY <1>0, <1>2 DEF RecvReady, Read, ring, ends
    <2>2. MarkerInv'
      BY Zenon, <1>0, <2>1 DEF MarkerInv, Readers
    <2>3. r \notin lost /\ got[r] = 0 /\ (Unsent(r)' <=> Unsent(r)) /\ (Ready(r)' <=> Ready(r))
      BY <1>0, <2>1 DEF HandshakeInv, Ready, Unsent
    <2>4. /\ Head(socket[r]) \in ToCome(r) /\ \A n \in ToCome(r) : Head(socket[r]) <= n
          /\ Lists(Tail(socket[r]), ToCome(r) \ {Head(socket[r])})
      BY Zenon, <1>0, <1>a, <2>1, <2>3, ListsTail, ToComeType
    <2>5. Ready(r)
      <3> SUFFICES ASSUME ~Ready(r) PROVE FALSE OBVIOUS
      <3>1. sent = 0
        BY <1>0 DEF Ready, MarkerInv
      <3>2. QED BY <2>3, <2>4, <3>1 DEF ToCome
    <2>6. Head(socket[r]) = 0
      <3>1. 0 \in ToCome(r) /\ Head(socket[r]) \in Nat
        BY <1>0, <2>1, <2>4, <2>5, ToComeType DEF ToCome
      <3>2. QED BY <2>4, <3>1
    <2>7. ToCome(r)' = ToCome(r) \ {0}
      <3>1. 0 \notin (got[r] + 1)..sent
        BY <1>0
      <3>2. QED BY <2>1, <2>3, <2>5, <3>1 DEF ToCome
    <2>8. HandshakeInv(r)' /\ BehindInv(r)'
      BY <1>0, <1>a, <2>1, <2>3, <2>5 DEF HandshakeInv, BehindInv
    <2>9. r \in Locals => GotInv(r)'
      BY <2>1, <2>3 DEF SocketInv, GotInv
    <2>10. socket' \in [Readers -> Seq(Nat)] /\ socket'[r] = Tail(socket[r])
           /\ \A q \in Readers \ {r} : socket'[q] = socket[q]
      BY <1>0, <2>1
    <2>11. QED
      BY <1>0, <2>1, <2>2, <2>3, <2>4, <2>6, <2>7, <2>8, <2>9, <2>10, SocketReader, ZenonT(40)
  <1>3. CASE Recv(r)
    <2>1. /\ pc[r] = "recv" /\ pc'[r] = IF r \in Locals THEN "check" ELSE "recv"
          /\ socket[r] # <<>> /\ socket' = [socket EXCEPT ![r] = Tail(@)]
          /\ got' = [got EXCEPT ![r] = Head(socket[r])]
          /\ \A q \in Readers \ {r} : pc'[q] = pc[q]
          /\ UNCHANGED <<wpc, sent, data, obj, pos, sub, lost>>
      BY <1>0, <1>3 DEF Recv, Read, ring
    <2>2. MarkerInv'
      BY Zenon, <1>0, <2>1 DEF MarkerInv, Readers
    <2>3. (Unsent(r)' <=> Unsent(r)) /\ (Ready(r)' <=> Ready(r))
      BY <2>1 DEF Ready, Unsent
    <2>4. /\ Head(socket[r]) \in Nat /\ Tail(socket[r]) \in Seq(Nat)
          /\ Len(Tail(socket[r])) = Len(socket[r]) - 1 /\ Len(socket[r]) \in Nat
          /\ \A i \in 1..Len(Tail(socket[r])) : Tail(socket[r])[i] = socket[r][i + 1]
      BY <1>0, <2>1
    <2>5. /\ socket' \in [Readers -> Seq(Nat)] /\ socket'[r] = Tail(socket[r])
          /\ got' \in [Readers -> Nat] /\ got'[r] = Head(socket[r])
          /\ \A q \in Readers \ {r} : socket'[q] = socket[q] /\ got'[q] = got[q]
      BY <1>0, <2>1, <2>4
    <2>6. HandshakeInv(r)'
      BY <1>0, <2>1, <2>3 DEF HandshakeInv
    <2>7. CASE r \in lost
      <3>1. ASSUME NEW i \in 1..Len(socket'[r]) PROVE socket'[r][i] \in 1..sent
        <4>1. i + 1 \in 1..Len(socket[r]) /\ socket'[r][i] = socket[r][i + 1]
          BY SMTT(30), <2>4, <2>5
        <4>2. QED BY <1>b, <2>7, <4>1
      <3>2. QED
        BY Zenon, <1>0, <2>1, <2>2, <2>5, <2>6, <2>7, <3>1, SocketReader
    <2>8. CASE r \notin lost
      <3>1. /\ Head(socket[r]) = got[r] + 1 /\ got[r] < sent
            /\ Unsent(r) => got[r] + 1 < sent
            /\ Lists(Tail(socket[r]), ToCome(r) \ {got[r] + 1})
        BY Zenon, <2>1, <2>8, RecvNext
      <3>2. BehindInv(r)'
        BY <1>0, <2>1, <2>3, <2>5, <3>1 DEF BehindInv
      <3>3. ToCome(r)' = ToCome(r) \ {got[r] + 1}
        <4>1. (got[r] + 2)..sent = ((got[r] + 1)..sent) \ {got[r] + 1}
          BY <1>0
        <4>2. got'[r] + 1 = got[r] + 2
          BY <1>0, <2>5, <3>1
        <4>3. QED BY <2>1, <2>3, <4>1, <4>2 DEF ToCome
      <3>4. r \in Locals => GotInv(r)'
        BY Zenon, <1>0, <2>1, <2>5, <2>8, <3>1 DEF SocketInv, GotInv
      <3>5. QED
        BY Zenon, <1>0, <2>1, <2>2, <2>5, <2>6, <2>8, <3>1, <3>2, <3>3, <3>4, SocketReader
    <2>9. QED BY <2>7, <2>8
  <1>4. CASE r \in Locals /\ RecvTimeout(r)
    <2>1. /\ pc[r] = "recv" /\ pc'[r] = "check" /\ socket[r] = <<>>
          /\ lost' = lost \union {r}
          /\ \A q \in Readers \ {r} : pc'[q] = pc[q]
          /\ UNCHANGED <<wpc, sent, data, obj, pos, got, socket, sub>>
      BY <1>0, <1>4 DEF RecvTimeout, Read, ring, wires
    <2>2. MarkerInv'
      BY Zenon, <1>0, <2>1 DEF MarkerInv, Readers
    <2>3. HandshakeInv(r)'
      BY <1>0, <1>4, <2>1 DEF HandshakeInv, Ready
    <2>4. \A i \in 1..Len(socket'[r]) : socket'[r][i] \in 1..sent
      BY <2>1
    <2>5. QED
      BY Zenon, <1>0, <1>4, <2>1, <2>2, <2>3, <2>4, SocketReader
  <1>5. CASE r \in Locals /\ MarkRead(r)
    <2>1. /\ pc[r] = "mark" /\ pc'[r] = IF obj[r].overflow THEN "recv" ELSE "check"
          /\ pos' = [pos EXCEPT ![r] = @ + 1]
          /\ got' = IF obj[r].overflow THEN got ELSE [got EXCEPT ![r] = obj[r].msg]
          /\ obj' = [obj EXCEPT ![r] = Torn]
          /\ \A q \in Readers \ {r} : pc'[q] = pc[q]
          /\ UNCHANGED <<wpc, sent, data, socket, sub, lost>>
      BY <1>0, <1>5 DEF MarkRead, Read, wires
    <2>2. /\ pos[r] \in Nat /\ pos[r] < sent /\ obj[r].msg = pos[r] + 1
          /\ obj[r].overflow <=> pos[r] + 1 \in Oversized
      <3>1. pos[r] \in Nat /\ pos[r] < sent
        BY Zenon, <1>0, <1>5, <2>1 DEF RingInv, ReaderInv
      <3>2. obj[r].msg = pos[r] + 1 /\ (obj[r].overflow <=> obj[r].msg \in Oversized)
        BY Zenon, <1>0, <1>5, <2>1 DEF MarkerInv
      <3>3. QED BY <3>1, <3>2
    <2>3. MarkerInv'
      <3>1. ASSUME NEW q \in Locals, pc'[q] = "mark"
            PROVE  obj'[q].msg = pos'[q] + 1 /\ (obj'[q].overflow <=> obj'[q].msg \in Oversized)
        <4>1. q # r
          BY <2>1, <3>1
        <4>2. pc[q] = "mark" /\ obj'[q] = obj[q] /\ pos'[q] = pos[q]
          BY <1>0, <2>1, <3>1, <4>1
        <4>3. QED BY Zenon, <1>0, <4>2 DEF MarkerInv
      <3>2. QED BY <1>0, <2>1, <3>1 DEF MarkerInv
    <2>4. /\ got' \in [Readers -> Nat] /\ pos'[r] = pos[r] + 1
          /\ got'[r] = IF pos[r] + 1 \in Oversized THEN got[r] ELSE pos[r] + 1
          /\ \A q \in Readers \ {r} : got'[q] = got[q] /\ (q \in Locals => pos'[q] = pos[q])
      BY <1>0, <1>5, <2>1, <2>2
    <2>5. (Unsent(r)' <=> Unsent(r)) /\ (Ready(r)' <=> Ready(r))
      BY <2>1 DEF Ready, Unsent
    <2>6. HandshakeInv(r)'
      BY <1>0, <1>5, <2>1, <2>5 DEF HandshakeInv
    <2>7. CASE r \in lost
      BY Zenon, <1>0, <1>b, <2>1, <2>3, <2>4, <2>6, <2>7, SocketReader
    <2>8. CASE r \notin lost
      <3>1. got[r] = pos[r]
        BY Zenon, <1>5, <2>1, <2>8 DEF SocketInv, GotInv
      <3>2. GotInv(r)'
        BY <1>0, <2>1, <2>2, <2>4, <3>1 DEF GotInv
      <3>3. Unsent(r) => sent \in Oversized
        BY <1>0, <1>5 DEF Unsent, MarkerInv
      <3>4. BehindInv(r)'
        BY <1>0, <1>a, <2>1, <2>2, <2>4, <2>5, <2>8, <3>1, <3>3 DEF BehindInv
      <3>5. ToCome(r)' = ToCome(r)
        <4>1. CASE pos[r] + 1 \in Oversized
          <5>1. got'[r] = got[r] /\ sent' = sent /\ pc'[r] # "handshake" /\ pc[r] # "handshake"
            BY <2>1, <2>2, <2>4, <4>1
          <5>2. QED BY <2>5, <5>1, ToComeSame
        <4>2. CASE pos[r] + 1 \notin Oversized
          <5>1. (got[r] + 2)..sent = ((got[r] + 1)..sent) \ {got[r] + 1}
            BY <1>0
          <5>2. got'[r] + 1 = got[r] + 2 /\ got[r] + 1 \notin Oversized
            BY <1>0, <2>4, <3>1, <4>2
          <5>3. pc'[r] # "handshake" /\ pc[r] # "handshake" /\ sent' = sent
            BY <2>1
          <5>4. QED BY <1>5, <2>5, <5>1, <5>2, <5>3 DEF ToCome
        <4>3. QED BY <4>1, <4>2
      <3>6. QED
        BY Zenon, <1>0, <1>a, <2>1, <2>3, <2>4, <2>6, <2>8, <3>2, <3>4, <3>5, SocketReader
    <2>9. QED BY <2>7, <2>8
  <1>6. QED
    BY <1>1, <1>2, <1>3, <1>4, <1>5 DEF Reader

\* Every step of the writer and of the readers preserves SocketInv: the ones
\* that use a socket by WriterStep and ReaderStep, the others leave the sockets
\* alone, and Copy takes the marker of the chunk with the message.
LEMMA SocketStep == RingInv /\ SocketInv /\ [Next]_vars => SocketInv'
  <1> SUFFICES ASSUME RingInv, SocketInv, [Next]_vars PROVE SocketInv'
    OBVIOUS
  <1>0. /\ Locals \subseteq Readers /\ MarkerInv /\ pc = [q \in Readers |-> pc[q]]
        /\ obj \in [Locals -> [msg : Nat, overflow : BOOLEAN]]
    BY DEF SocketInv, Readers, RingInv, RingType
  <1>1. ASSUME NEW r \in Locals,
               \/ ReadFlag(r) \/ WrittenFlag(r) \/ Spin(r) \/ Sleep(r) \/ Wake(r)
               \/ Copy(r) \/ Shutdown(r)
        PROVE  SocketInv'
    <2>1. /\ UNCHANGED <<wpc, data, sent, pos, socket, got, lost, sub>>
          /\ \A q \in Readers \ {r} : pc'[q] = pc[q]
          /\ \/ pc'[r] = pc[r]
             \/ /\ pc[r] \notin {"connect", "handshake", "recv"}
                /\ pc'[r] \notin {"connect", "handshake", "recv"}
      BY <1>0, <1>1
      DEF ReadFlag, WrittenFlag, Spin, Sleep, Wake, Copy, Shutdown, Read, ring,
          wires, ends
    <2>2. \A q \in Readers : (Ready(q)' <=> Ready(q)) /\ (Unsent(q)' <=> Unsent(q))
      BY <2>1 DEF Ready, Unsent
    <2>3. CASE Copy(r)
      <3>1. /\ pc[r] = "copy" /\ obj' = [obj EXCEPT ![r] = data[current[r]]]
        BY <2>3 DEF Copy, Read
      <3>2. /\ data[current[r]].msg = pos[r] + 1 /\ pos[r] \in Nat
            /\ current[r] \in Chunk
        BY Zenon, <3>1, RingExclusive DEF ExclusiveAccess, RingInv, RingType
      <3>3. data[current[r]].overflow <=> data[current[r]].msg \in Oversized
        BY <1>0, <3>2 DEF MarkerInv
      <3>4. ASSUME NEW q \in Locals, pc'[q] = "mark"
            PROVE  obj'[q].msg = pos[q] + 1 /\ (obj'[q].overflow <=> obj'[q].msg \in Oversized)
        <4>1. CASE q = r
          <5>1. obj'[q] = data[current[r]]
            BY <1>0, <3>1, <4>1
          <5>2. QED BY <3>2, <3>3, <4>1, <5>1
        <4>2. CASE q # r
          <5>1. obj'[q] = obj[q] /\ pc[q] = "mark"
            BY <1>0, <2>1, <3>1, <3>4, <4>2
          <5>2. QED BY <1>0, <5>1 DEF MarkerInv
        <4>3. QED BY <4>1, <4>2
      <3>5. MarkerInv'
        BY <1>0, <2>1, <3>4 DEF MarkerInv
      <3>6. QED BY <2>1, <2>2, <3>5, SocketFrame
    <2>4. CASE ~Copy(r)
      <3>1. obj' = obj /\ (pc'[r] = "mark" => pc[r] = "mark")
        BY <1>0, <1>1, <2>4
        DEF ReadFlag, WrittenFlag, Spin, Sleep, Wake, Shutdown, Read, ring
      <3>2. MarkerInv'
        BY <1>0, <2>1, <3>1 DEF MarkerInv
      <3>3. QED BY <2>1, <2>2, <3>2, SocketFrame
    <2>5. QED BY <2>3, <2>4
  <1>2. CASE UNCHANGED vars
    <2>1. UNCHANGED <<wpc, pc, data, obj, sent, pos, socket, got, lost, sub>>
      BY <1>2 DEF vars
    <2>2. MarkerInv'
      BY <1>0, <2>1 DEF MarkerInv
    <2>3. \A q \in Readers : (Ready(q)' <=> Ready(q)) /\ (Unsent(q)' <=> Unsent(q))
      BY <2>1 DEF Ready, Unsent
    <2>4. QED BY <2>1, <2>2, <2>3, SocketFrame
  <1>3. QED
    BY <1>0, <1>1, <1>2, WriterStep, ReaderStep DEF Next, Local

(***************************************************************************)
(* The theorems                                                            *)
(***************************************************************************)
\* In every reachable state the socket of a reader holds, in order, the
\* messages that it still has to receive there: all of them for a reader on
\* another node, the oversized ones for one that shares the ring (enqueue,
\* dequeue, wait_until_ready).
THEOREM SocketInvariant == Spec => []SocketInv
  BY RingInvariant, SocketInit, SocketStep, PTL DEF Spec

\* A step of the queue is a step of the broadcast, or changes nothing there.
LEMMA StepImplements ==
    RingInv /\ SocketInv /\ [Next]_vars => [Queue!Next]_(Queue!vars)
  <1> SUFFICES ASSUME RingInv, SocketInv, [Next]_vars
               PROVE  Queue!Next \/ UNCHANGED <<sent, got, lost>>
    BY DEF Queue!vars
  <1> USE QueueAssumption
  <1>0. /\ got \in [Readers -> Nat] /\ sent \in Nat /\ Locals \subseteq Readers
        /\ lost \subseteq Locals
    BY DEF SocketInv, RingInv, RingType, Readers
  <1>1. CASE MarkWritten
    <2>1. sent' = sent + 1 /\ UNCHANGED <<got, lost>> /\ Writing
      BY <1>1 DEF MarkWritten, Write, Writing, ends
    <2>2. ASSUME NEW q \in Locals \ lost PROVE sent - got[q] < Chunks + 1
      <3>1. /\ pos[q] \in Nat /\ got[q] \in Nat
            /\ sent < pos[q] + Chunks /\ (got[q] = pos[q] \/ got[q] + 1 = pos[q])
        BY Zenon, <1>0, <2>1 DEF RingInv, RingType, ReaderInv, SocketInv, GotInv
      <3>2. QED BY <1>0, <3>1
    <2>3. Queue!Put
      BY <2>1, <2>2 DEF Queue!Put
    <2>4. QED BY <2>3 DEF Queue!Next
  <1>2. ASSUME NEW r \in Readers, Recv(r) PROVE Queue!Next
    <2>1. /\ pc[r] = "recv" /\ socket[r] # <<>> /\ UNCHANGED <<sent, lost>>
          /\ got' = [got EXCEPT ![r] = Head(socket[r])]
      BY <1>2 DEF Recv, Read, ring
    <2>2. CASE r \notin lost
      <3>1. Head(socket[r]) = got[r] + 1 /\ got[r] < sent
        BY Zenon, <2>1, <2>2, RecvNext
      <3>2. Queue!Get(r)
        BY Zenon, <2>1, <2>2, <3>1 DEF Queue!Get
      <3>3. QED BY <3>2 DEF Queue!Next
    <2>3. CASE r \in lost
      <3>1. Head(socket[r]) \in 1..sent
        BY <2>1, <2>3 DEF SocketInv
      <3>2. Queue!GetAny(r)
        BY Zenon, <2>1, <2>3, <3>1 DEF Queue!GetAny
      <3>3. QED BY <3>2 DEF Queue!Next
    <2>4. QED BY <2>2, <2>3
  <1>3. ASSUME NEW r \in Locals, MarkRead(r)
        PROVE  Queue!Next \/ UNCHANGED <<sent, got, lost>>
    <2>1. /\ pc[r] = "mark" /\ UNCHANGED <<sent, lost>>
          /\ got' = IF obj[r].overflow THEN got ELSE [got EXCEPT ![r] = obj[r].msg]
      BY <1>3 DEF MarkRead, Read
    <2>2. pos[r] \in Nat /\ pos[r] < sent /\ obj[r].msg = pos[r] + 1
      BY Zenon, <2>1 DEF SocketInv, MarkerInv, RingInv, RingType, ReaderInv
    <2>3. CASE obj[r].overflow
      BY <2>1, <2>3
    <2>4. CASE ~obj[r].overflow /\ r \notin lost
      <3>1. got[r] = pos[r]
        BY <2>1, <2>4 DEF SocketInv, GotInv
      <3>2. Queue!Get(r)
        BY <2>1, <2>2, <2>4, <3>1 DEF Queue!Get
      <3>3. QED BY <1>0, <3>2 DEF Queue!Next
    <2>5. CASE ~obj[r].overflow /\ r \in lost
      <3>1. obj[r].msg \in 1..sent
        BY <1>0, <2>2
      <3>2. Queue!GetAny(r)
        BY Zenon, <2>1, <2>5, <3>1 DEF Queue!GetAny
      <3>3. QED BY <1>0, <3>2 DEF Queue!Next
    <2>6. QED BY <2>3, <2>4, <2>5
  <1>4. ASSUME NEW r \in Locals, RecvTimeout(r) PROVE Queue!Next
    <2>1. Queue!Lose(r)
      BY <1>4 DEF RecvTimeout, ring, Queue!Lose
    <2>2. QED BY <1>0, <2>1 DEF Queue!Next
  <1>5. CASE \/ ReadyLocal \/ ReadyRemote \/ AcquireWrite \/ Fill \/ ResetFlag
             \/ SendOverflow \/ Notify \/ SendRemote
    BY <1>5
    DEF ReadyLocal, ReadyRemote, AcquireWrite, Fill, ResetFlag, SendOverflow,
        Notify, SendRemote, ring, ends
  <1>6. ASSUME NEW r \in Locals,
               \/ ReadFlag(r) \/ WrittenFlag(r) \/ Spin(r) \/ Sleep(r) \/ Wake(r)
               \/ Copy(r) \/ Shutdown(r)
        PROVE  UNCHANGED <<sent, got, lost>>
    BY Zenon, <1>6
    DEF ReadFlag, WrittenFlag, Spin, Sleep, Wake, Copy, Shutdown, ring, ends
  <1>7. ASSUME NEW r \in Readers, Connect(r) \/ RecvReady(r)
        PROVE  UNCHANGED <<sent, got, lost>>
    BY <1>7 DEF Connect, RecvReady, ring, ends
  <1>8. CASE UNCHANGED vars
    BY <1>8 DEF vars
  <1>9. QED
    BY <1>1, <1>2, <1>3, <1>4, <1>5, <1>6, <1>7, <1>8
    DEF Next, Writer, Local, Reader

\* The message queue implements the broadcast: whatever the number of readers,
\* chunks and messages and whichever of them are oversized, every reader gets
\* every message once and in order, and the writer is held back by the slowest
\* reader of the ring (enqueue, dequeue).
THEOREM QueueImplementsBroadcast == Spec => ImplementsBroadcast
  <1>1. Init => Queue!Init
    BY DEF Init, Queue!Init
  <1>2. QED
    BY <1>1, RingInvariant, SocketInvariant, StepImplements, PTL
    DEF Spec, ImplementsBroadcast, Queue!Spec
================================================================================
