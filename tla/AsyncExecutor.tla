---------------------------- MODULE AsyncExecutor ----------------------------
(***************************************************************************)
(* What workerQueue promises to Conn.Async, Conn.WriteAsync and            *)
(* Broadcaster.Broadcast: submitted jobs are taken in submission order, at *)
(* most Capacity of them are active at a time, no job waits while there is *)
(* capacity, and every submitted job is eventually completed.              *)
(***************************************************************************)
EXTENDS Naturals, Sequences, FiniteSets

CONSTANTS Jobs,      \* the closures that may be submitted
          Capacity   \* how many jobs may be active at a time

VARIABLES pending,   \* jobs submitted and not yet taken, oldest first
          active,    \* jobs taken by a goroutine and not yet completed
          completed  \* jobs that have run to their end

vars == <<pending, active, completed>>

Init ==
    /\ pending = <<>>
    /\ active = {}
    /\ completed = {}

Submitted == {pending[i] : i \in DOMAIN pending} \cup active \cup completed

(* There is room: the job becomes active at once. *)
SubmitAndTake(j) ==
    /\ j \notin Submitted
    /\ Cardinality(active) < Capacity
    /\ active' = active \cup {j}
    /\ UNCHANGED <<pending, completed>>

(* There is no room: the job waits behind those submitted before it. *)
SubmitAndWait(j) ==
    /\ j \notin Submitted
    /\ Cardinality(active) = Capacity
    /\ pending' = Append(pending, j)
    /\ UNCHANGED <<active, completed>>

(* A job ends; the room it leaves goes to the oldest job that waits. *)
Complete(j) ==
    /\ j \in active
    /\ completed' = completed \cup {j}
    /\ \/ /\ pending = <<>>
          /\ active' = active \ {j}
          /\ UNCHANGED pending
       \/ /\ pending # <<>>
          /\ active' = (active \ {j}) \cup {Head(pending)}
          /\ pending' = Tail(pending)

Next == \E j \in Jobs : SubmitAndTake(j) \/ SubmitAndWait(j) \/ Complete(j)

Spec == Init /\ [][Next]_vars /\ \A j \in Jobs : WF_vars(Complete(j))
==============================================================================
