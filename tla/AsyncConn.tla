----------------------------- MODULE AsyncConn -----------------------------
(***************************************************************************)
(* A connection together with its writeQueue: WriteAsync, WritevAsync and  *)
(* Async push closures (writer.go), Broadcaster.Broadcast pushes its own,  *)
(* and whichever goroutine runs workerQueue.do executes them one after the *)
(* other, against a connection that other goroutines use and close at the  *)
(* same time.                                                              *)
(*                                                                         *)
(* WorkerQueue is the queue, C the connection.  C's Worker does only what  *)
(* a job of the queue makes it do: a job's body is the steps Worker takes  *)
(* between RunJob and NextJob.                                             *)
(***************************************************************************)
EXTENDS WorkerQueue

CONSTANTS Writes,       \* the jobs pushed by WriteAsync and WritevAsync
          Broadcasts,   \* the jobs pushed by Broadcaster.Broadcast
          Callers, Worker, ReadLoop, Handlers, Nobody, NoErr, Ops,   \* as in Conn
          Reasons, WriteMaxPayloadSize, MaxCalls, MaxReads, MaxSegments

ASSUME AsyncAssumption ==
    /\ Jobs = Writes \cup Broadcasts
    /\ Writes \cap Broadcasts = {}
    /\ Worker \notin Callers \cup {ReadLoop} \cup Handlers

VARIABLES closed, ev, mu, netClosed, wire, failed, pc, err, segment, rl, active,
          seen, reclaimed, calls, reads,   \* as in Conn
          written       \* history: the jobs whose frame is on the wire, in its order

C == INSTANCE Conn

conn == <<closed, ev, mu, netClosed, wire, failed, pc, err, segment, rl, active,
          seen, reclaimed, calls, reads>>
all  == <<vars, conn, written>>

(* The constructor gives the connection a queue with one worker. *)
AsyncInit == maxConcurrency = 1 /\ Init /\ C!Init /\ written = <<>>

-----------------------------------------------------------------------------
(* Async: any code of the application may push, callbacks included, and    *)
(* does not wait.                                                          *)
Async(j) ==
    /\ \E g \in C!Goroutines \ {Worker} : C!InUserCode(g)
    /\ Push(j)
    /\ UNCHANGED <<conn, written>>

(* do enters the closure, which at once calls WriteMessage, Writev or      *)
(* Broadcaster.writeFrame.                                                 *)
StartJob(j) ==
    /\ RunJob(j)
    /\ C!Goto(Worker, IF j \in Writes THEN "lock" ELSE "check")
    /\ UNCHANGED <<closed, ev, mu, netClosed, wire, failed, err, segment, rl, active,
                   seen, reclaimed, calls, reads, written>>

(* A step of the closure inside the library; the frame it puts on the wire *)
(* is that of the job.                                                     *)
JobStep(j) ==
    /\ j \in running
    /\ C!NetworkStep(Worker) \/ C!OtherStep(Worker)
    /\ written' = IF Len(wire') > Len(wire) /\ wire'[Len(wire')] \in {"data", "bcast"}
                  THEN Append(written, j) ELSE written
    /\ UNCHANGED vars

(* emitError is over, the callback of WriteAsync runs, the closure returns *)
(* and do fetches the next.                                                *)
EndJob(j) ==
    /\ pc[Worker] = "idle"
    /\ NextJob(j)
    /\ UNCHANGED <<conn, written>>

(* The other goroutines, as in Conn. *)
ConnStep ==
    /\ \/ \E g \in C!Goroutines \ {Worker} : C!Call(g) \/ C!NetworkStep(g) \/ C!OtherStep(g)
       \/ C!ReadStep
       \/ C!PeerStep
    /\ UNCHANGED <<vars, written>>

AsyncNext ==
    \/ \E j \in Jobs : Async(j) \/ StartJob(j) \/ JobStep(j) \/ EndJob(j)
    \/ ConnStep

(* The fairness of Conn for the connection; a goroutine that holds a job   *)
(* is scheduled, and callbacks return.                                     *)
AsyncSpec ==
    /\ AsyncInit
    /\ [][AsyncNext]_all
    /\ C!Scheduling /\ C!WritesEnd
    /\ \A j \in Jobs : WF_all(StartJob(j)) /\ WF_all(EndJob(j))

-----------------------------------------------------------------------------
(* The asynchronous frames on the wire are those of the first jobs pushed, *)
(* in the order of Push and without a gap: once one is missing, because    *)
(* genFrame rejected it or its write failed, emitError has closed the      *)
(* connection before the next job starts, and no later one gets out.       *)
AsyncPrefix ==
    /\ Len(written) <= Len(pushed)
    /\ \A i \in 1..Len(written) : written[i] = pushed[i]

(* Every job's callback is called, whether its frame went out or the       *)
(* connection was closed before or while it was waiting for mu.            *)
CallbackRuns == \A j \in Jobs : j \in Range(pushed) ~> j \in finished
=============================================================================
