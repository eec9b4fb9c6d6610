----------------------------- MODULE MessageQueue -----------------------------
(***************************************************************************)
(* The message queue of vllm/distributed/device_communicators/             *)
(* shm_broadcast.py: one writer, readers of the same node through a ring   *)
(* of shared-memory chunks, readers of other nodes through a socket.       *)
(*                                                                         *)
(* A chunk has a written flag and one read flag per local reader.  There   *)
(* is no lock: the writer and the readers poll the flags, and every access *)
(* to a flag or to the chunk is a step of its own here.  memory_fence()    *)
(* makes the steps of one process visible to the others in program order.  *)
(* A message that does not fit into a chunk goes over a publish socket,    *)
(* after a marker in the chunk.  A local reader that has been idle sleeps  *)
(* on a second socket until the writer's ping or a cancellation.           *)
(*                                                                         *)
(* Messages are numbered; the READY message of the handshake is number 0.  *)
(***************************************************************************)
EXTENDS Naturals, Sequences, FiniteSets

CONSTANTS NLocal,    \* number of readers on the writer's node
          Remotes,   \* readers on other nodes
          Chunks,    \* chunks of the ring (max_chunks)
          Oversized, \* numbers of the messages that do not fit into a chunk
          MaxMsgs,   \* bound on the messages the writer enqueues
          MaxFaults  \* bound on shutdowns and timeouts of oversized messages

Locals == 0..(NLocal - 1)
Readers == Locals \union Remotes
Chunk == 0..(Chunks - 1)

ASSUME QueueAssumption ==
    /\ NLocal \in Nat
    /\ Chunks \in Nat \ {0}
    /\ MaxMsgs \in Nat
    /\ MaxFaults \in Nat
    /\ Locals \intersect Remotes = {}

VARIABLES
    written,     \* written[i]: the written flag of chunk i
    read,        \* read[i][r]: the flag of local reader r in chunk i
    data,        \* data[i]: [msg, overflow] stored in chunk i
    widx,        \* current_idx of the writer
    current,     \* current[r]: current_idx of local reader r
    wpc,         \* what the writer does next
    pc,          \* pc[r]: what reader r does next
    obj,         \* obj[r]: what local reader r took from its chunk
    count,       \* read flags the writer has reset so far
    sub,         \* readers whose subscription the writer has received
    socket,      \* socket[r]: messages under way to reader r
    ping,        \* ping[r]: a notification waits for local reader r
    cancelled,   \* readers whose queue was shut down by their process
    sent,        \* number of the last message published
    pos,         \* pos[r]: chunks local reader r has marked as read
    got,         \* got[r]: number of the last message returned by dequeue
    lost         \* readers that timed out on an oversized message

vars == <<written, read, data, widx, current, wpc, pc, obj, count, sub, socket,
          ping, cancelled, sent, pos, got, lost>>

ring == <<written, read, data, widx, current, obj, count, sent, pos>>
wires == <<sub, socket, ping>>
ends == <<cancelled, got, lost>>

\* A chunk that is being overwritten holds nothing a reader could use.
Torn == [msg |-> 0, overflow |-> FALSE]

\* The index after i in the ring.
NextIdx(i) == (i + 1) % Chunks

Init ==
    /\ written = [i \in Chunk |-> FALSE]
    /\ read = [i \in Chunk |-> [r \in Locals |-> FALSE]]
    /\ data = [i \in Chunk |-> Torn]
    /\ widx = 0
    /\ current = [r \in Locals |-> 0]
    /\ wpc = "ready"
    /\ pc = [r \in Readers |-> "connect"]
    /\ obj = [r \in Locals |-> Torn]
    /\ count = 0
    /\ sub = {}
    /\ socket = [r \in Readers |-> <<>>]
    /\ ping = [r \in Locals |-> FALSE]
    /\ cancelled = {}
    /\ sent = 0
    /\ pos = [r \in Locals |-> 0]
    /\ got = [r \in Readers |-> 0]
    /\ lost = {}

\* One step of the writer, and one step of reader r.
Write(from, to) == wpc = from /\ wpc' = to /\ UNCHANGED pc
Read(r, from, to) == pc[r] = from /\ pc' = [pc EXCEPT ![r] = to] /\ UNCHANGED wpc

\* A publish socket drops what it sends to a reader that has not subscribed.
Publish(S, m) ==
    socket' = [r \in Readers |-> IF r \in S \intersect sub
                                 THEN Append(socket[r], m) ELSE socket[r]]

(***************************************************************************)
(* wait_until_ready                                                        *)
(***************************************************************************)
\* A reader connects its subscribe socket.
Connect(r) ==
    /\ Read(r, "connect", "handshake")
    /\ sub' = sub \union {r}
    /\ UNCHANGED <<ring, socket, ping, ends>>

\* The writer has the subscription of every local reader, then of every remote one.
ReadyLocal ==
    /\ Write("ready", "ready_remote")
    /\ Locals \subseteq sub
    /\ Publish(Locals, 0)
    /\ UNCHANGED <<ring, sub, ping, ends>>

ReadyRemote ==
    /\ Write("ready_remote", "idle")
    /\ Remotes \subseteq sub
    /\ Publish(Remotes, 0)
    /\ UNCHANGED <<ring, sub, ping, ends>>

\* The first message of the socket is taken for READY.
RecvReady(r) ==
    /\ socket[r] # <<>>
    /\ Read(r, "handshake", IF r \in Locals THEN "check" ELSE "recv")
    /\ socket' = [socket EXCEPT ![r] = Tail(@)]
    /\ UNCHANGED <<ring, sub, ping, ends>>

(***************************************************************************)
(* enqueue, acquire_write.  A timeout of acquire_write raises before any   *)
(* flag is touched, and changes nothing.                                   *)
(***************************************************************************)
\* check() of acquire_write: the chunk is not written, or all have read it.
CanWrite_AnyRead(i) == written[i] => \E r \in Locals : read[i][r]
CanWrite(i) == written[i] => \A r \in Locals : read[i][r]

\* The chunk is marked as not written; the caller starts to overwrite it.
AcquireWrite ==
    /\ sent < MaxMsgs
    /\ CanWrite(widx)
    /\ Write("idle", "fill")
    /\ written' = [written EXCEPT ![widx] = FALSE]
    /\ data' = [data EXCEPT ![widx] = Torn]
    /\ UNCHANGED <<read, widx, current, obj, count, sent, pos, wires, ends>>

\* The caller's block: the message itself, or the marker of an oversized one.
Fill ==
    /\ Write("fill", "reset")
    /\ data' = [data EXCEPT ![widx] =
                    [msg |-> sent + 1, overflow |-> sent + 1 \in Oversized]]
    /\ UNCHANGED <<written, read, widx, current, obj, count, sent, pos, wires, ends>>

\* The read flags are reset one at a time, in rank order.
ResetFlag ==
    /\ wpc = "reset"
    /\ count < NLocal
    /\ read' = [read EXCEPT ![widx][count] = FALSE]
    /\ count' = count + 1
    /\ UNCHANGED <<wpc, pc, written, data, widx, current, obj, sent, pos, wires, ends>>

\* The chunk is marked as written; the writer moves to the next one.
MarkWritten ==
    /\ count = NLocal
    /\ Write("reset", IF data[widx].overflow THEN "overflow" ELSE "notify")
    /\ written' = [written EXCEPT ![widx] = TRUE]
    /\ widx' = NextIdx(widx)
    /\ sent' = sent + 1
    /\ count' = 0
    /\ UNCHANGED <<read, data, current, obj, pos, wires, ends>>

\* The oversized message follows its marker.
SendOverflow ==
    /\ Write("overflow", "notify")
    /\ Publish(Locals, sent)
    /\ UNCHANGED <<ring, sub, ping, ends>>

\* SpinCondition.notify: one ping is kept for each local reader.
Notify_Sleepers ==
    /\ Write("notify", "remote")
    /\ ping' = [r \in Locals |-> ping[r] \/ pc[r] = "asleep"]
    /\ UNCHANGED <<ring, sub, socket, ends>>
Notify ==
    /\ Write("notify", "remote")
    /\ ping' = [r \in Locals |-> TRUE]
    /\ UNCHANGED <<ring, sub, socket, ends>>

\* Remote readers get every message over the socket.
SendRemote ==
    /\ Write("remote", "idle")
    /\ Publish(Remotes, sent)
    /\ UNCHANGED <<ring, sub, ping, ends>>

(***************************************************************************)
(* dequeue, acquire_read.  A timeout of acquire_read raises before any     *)
(* flag is touched; the next call starts again with check().               *)
(***************************************************************************)
\* check() of acquire_read reads the reader's own flag first ...
ReadFlag_Skipped(r) ==
    /\ Read(r, "check", "written")
    /\ UNCHANGED <<ring, wires, ends>>
ReadFlag(r) ==
    /\ Read(r, "check", IF read[current[r]][r] THEN "wait" ELSE "written")
    /\ UNCHANGED <<ring, wires, ends>>

\* ... and the written flag second.
WrittenFlag(r) ==
    /\ Read(r, "written", IF written[current[r]] THEN "copy" ELSE "wait")
    /\ UNCHANGED <<ring, wires, ends>>

\* SpinCondition.wait returns at once after a recent read ...
Spin(r) ==
    /\ Read(r, "wait", IF r \in cancelled THEN "exit" ELSE "check")
    /\ UNCHANGED <<ring, wires, ends>>

\* ... and otherwise polls the sockets, here without a timeout.
Sleep(r) ==
    /\ Read(r, "wait", "asleep")
    /\ UNCHANGED <<ring, wires, ends>>

\* A ping or a cancellation wakes the reader; the cancellation has precedence
\* and is left in its socket.
Wake_PingOnly(r) ==
    /\ ping[r]
    /\ Read(r, "asleep", IF r \in cancelled THEN "exit" ELSE "check")
    /\ ping' = [ping EXCEPT ![r] = @ /\ r \in cancelled]
    /\ UNCHANGED <<ring, sub, socket, ends>>
Wake(r) ==
    /\ ping[r] \/ r \in cancelled
    /\ Read(r, "asleep", IF r \in cancelled THEN "exit" ELSE "check")
    /\ ping' = [ping EXCEPT ![r] = @ /\ r \in cancelled]
    /\ UNCHANGED <<ring, sub, socket, ends>>

\* The caller reads the chunk ...
Copy(r) ==
    /\ Read(r, "copy", "mark")
    /\ obj' = [obj EXCEPT ![r] = data[current[r]]]
    /\ UNCHANGED <<written, read, data, widx, current, count, sent, pos, wires, ends>>

\* ... then its flag is set, and dequeue returns unless a marker was read.
MarkRead(r) ==
    /\ Read(r, "mark", IF obj[r].overflow THEN "recv" ELSE "check")
    /\ read' = [read EXCEPT ![current[r]][r] = TRUE]
    /\ current' = [current EXCEPT ![r] = NextIdx(@)]
    /\ pos' = [pos EXCEPT ![r] = @ + 1]
    /\ got' = IF obj[r].overflow THEN got ELSE [got EXCEPT ![r] = obj[r].msg]
    /\ obj' = [obj EXCEPT ![r] = Torn]
    /\ UNCHANGED <<written, data, widx, count, sent, wires, cancelled, lost>>

\* MessageQueue.recv: the rest of an oversized message, or any message of a
\* remote reader.
Recv(r) ==
    /\ socket[r] # <<>>
    /\ Read(r, "recv", IF r \in Locals THEN "check" ELSE "recv")
    /\ got' = [got EXCEPT ![r] = Head(socket[r])]
    /\ socket' = [socket EXCEPT ![r] = Tail(@)]
    /\ UNCHANGED <<ring, sub, ping, cancelled, lost>>

MoreFaults == Cardinality(cancelled) + Cardinality(lost) < MaxFaults

\* recv times out: the chunk with the marker has been given back already.
RecvTimeout(r) ==
    /\ MoreFaults
    /\ socket[r] = <<>>
    /\ Read(r, "recv", "check")
    /\ lost' = lost \union {r}
    /\ UNCHANGED <<ring, wires, cancelled, got>>

\* shutdown: a monitor thread of the reader's process cancels its waits.
Shutdown(r) ==
    /\ MoreFaults
    /\ r \notin cancelled
    /\ cancelled' = cancelled \union {r}
    /\ UNCHANGED <<ring, wpc, pc, wires, got, lost>>

Writer ==
    \/ ReadyLocal \/ ReadyRemote
    \/ AcquireWrite \/ Fill \/ ResetFlag \/ MarkWritten
    \/ SendOverflow \/ Notify \/ SendRemote

Local(r) ==
    \/ ReadFlag(r) \/ WrittenFlag(r) \/ Spin(r) \/ Sleep(r) \/ Wake(r)
    \/ Copy(r) \/ MarkRead(r)

Reader(r) == Connect(r) \/ RecvReady(r) \/ Recv(r)

Next ==
    \/ Writer
    \/ \E r \in Locals : Local(r) \/ RecvTimeout(r) \/ Shutdown(r)
    \/ \E r \in Readers : Reader(r)

Spec == Init /\ [][Next]_vars

(***************************************************************************)
(* Every process of the queue keeps running its loop.  No fairness is      *)
(* asked of timeouts and of shutdowns.                                     *)
(***************************************************************************)
Fairness ==
    /\ WF_vars(Writer)
    /\ \A r \in Locals : WF_vars(Local(r))
    /\ \A r \in Readers : WF_vars(Reader(r))

FairSpec == Spec /\ Fairness

(***************************************************************************)
(* Properties                                                              *)
(***************************************************************************)
\* The writer owns its current chunk.
Writing == wpc \in {"fill", "reset"}

\* While a local reader looks into its chunk, the writer is not at that
\* chunk, and the chunk holds the message the reader is due: flags without a
\* lock are enough (acquire_write, acquire_read).
ExclusiveAccess ==
    \A r \in Locals : pc[r] \in {"copy", "mark"} =>
        /\ ~(Writing /\ widx = current[r])
        /\ data[current[r]].msg = pos[r] + 1

\* Every reader gets every message once and in order, and the writer is never
\* more than the ring ahead of a local reader, plus the oversized message
\* whose chunk that reader has given back (enqueue, dequeue).
Queue == INSTANCE BroadcastQueue WITH Bounded <- Locals, Capacity <- Chunks + 1
ImplementsBroadcast == Queue!Spec

\* Every message is delivered.  The writer is not blocked for ever by readers
\* that keep reading, and a reader that is behind catches up with the last
\* message, unless it is shut down or timed out on an oversized one: no ping is
\* lost between check() and the poll of a reader that goes to sleep
\* (SpinCondition).
Delivered ==
    /\ <>(sent = MaxMsgs \/ cancelled # {})
    /\ \A r \in Readers :
          got[r] < sent ~> (got[r] = sent \/ r \in cancelled \union lost)

\* A local reader that is shut down leaves its wait, asleep or not.
ShutdownEnds == \A r \in Locals : r \in cancelled ~> pc[r] = "exit"
================================================================================
