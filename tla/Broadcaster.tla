----------------------------- MODULE Broadcaster -----------------------------
(***************************************************************************)
(* Broadcaster (writer.go): Broadcast may be called by many goroutines,    *)
(* one call per socket here; every call hands a job to the writeQueue of   *)
(* its socket.  Two frames are shared by the jobs, one for the sockets     *)
(* with compression and one for the others; they go back to binaryPool     *)
(* when Close was called and the last job is done, which `state` counts.   *)
(* Close is called as its comment says, after all calls of Broadcast.      *)
(***************************************************************************)
EXTENDS Integers, FiniteSets

CONSTANTS Sockets,
          MaxInt32     \* what Close takes off state; any positive number does

ASSUME BroadcasterAssumption == IsFiniteSet(Sockets) /\ MaxInt32 \in Nat \ {0}

VARIABLES enabled,     \* the pd.Enabled of each socket
          socketClosed,\* the sockets that were closed
          msgs,        \* msgs[i].frame is "none", "made" or "error"
          puts,        \* how often msgs[i].frame was put into binaryPool
          state,       \* c.state
          callPc,      \* where each socket's call, and then its job, is: "new", "generated",
                       \* "added", "queued", "writing", "written", "free" or "done"
          closePc      \* where the call of Close is

broadcastVars == <<enabled, socketClosed, msgs, puts, state, callPc, closePc>>

BroadcastInit ==
    /\ enabled \in [Sockets -> BOOLEAN]
    /\ socketClosed = {}
    /\ msgs = [i \in BOOLEAN |-> "none"]
    /\ puts = [i \in BOOLEAN |-> 0]
    /\ state = MaxInt32
    /\ callPc = [s \in Sockets |-> "new"]
    /\ closePc = "open"

Goto(s, location) == callPc' = [callPc EXCEPT ![s] = location]

(* msg.once.Do: the first call makes the frame, or an error; the others    *)
(* wait for it.  An error makes Broadcast return.                          *)
Generate(s) ==
    /\ closePc = "open"
    /\ callPc[s] = "new"
    /\ LET i == enabled[s]
       IN  /\ \/ msgs[i] = "none" /\ msgs' \in {[msgs EXCEPT ![i] = "made"], [msgs EXCEPT ![i] = "error"]}
              \/ msgs[i] # "none" /\ UNCHANGED msgs
           /\ Goto(s, IF msgs'[i] = "error" THEN "done" ELSE "generated")
    /\ UNCHANGED <<enabled, socketClosed, puts, state, closePc>>

AddState(s) ==
    /\ callPc[s] = "generated"
    /\ state' = state + 1
    /\ Goto(s, "added")
    /\ UNCHANGED <<enabled, socketClosed, msgs, puts, closePc>>

(* writeQueue.Push, and Broadcast returns. *)
PushJob(s) ==
    /\ callPc[s] = "added"
    /\ Goto(s, "queued")
    /\ UNCHANGED <<enabled, socketClosed, msgs, puts, state, closePc>>

(* The job: writeFrame reads the frame from here on, unless the socket is  *)
(* closed.                                                                 *)
StartWrite(s) ==
    /\ callPc[s] = "queued"
    /\ Goto(s, IF s \in socketClosed THEN "written" ELSE "writing")
    /\ UNCHANGED <<enabled, socketClosed, msgs, puts, state, closePc>>

(* WriteN returns; emitError closes the socket if it failed. *)
EndWrite(s) ==
    /\ callPc[s] = "writing"
    /\ Goto(s, "written")
    /\ socketClosed' \in {socketClosed, socketClosed \cup {s}}
    /\ UNCHANGED <<enabled, msgs, puts, state, closePc>>

Release_LastForgets(s) ==
    /\ callPc[s] = "written"
    /\ state' = state - 1
    /\ Goto(s, "done")
    /\ UNCHANGED <<enabled, socketClosed, msgs, puts, closePc>>

Release_OffByOne(s) ==
    /\ callPc[s] = "written"
    /\ state' = state - 1
    /\ Goto(s, IF state' <= 1 THEN "free" ELSE "done")
    /\ UNCHANGED <<enabled, socketClosed, msgs, puts, closePc>>

(* The job's atomic decrement, whose result decides who frees. *)
Release(s) ==
    /\ callPc[s] = "written"
    /\ state' = state - 1
    /\ Goto(s, IF state' = 0 THEN "free" ELSE "done")
    /\ UNCHANGED <<enabled, socketClosed, msgs, puts, closePc>>

(* doClose; Put ignores the nil frame of a wrapper that was not used. *)
Freed == [i \in BOOLEAN |-> IF msgs[i] = "made" THEN puts[i] + 1 ELSE puts[i]]

DoClose(s) ==
    /\ callPc[s] = "free"
    /\ puts' = Freed
    /\ Goto(s, "done")
    /\ UNCHANGED <<enabled, socketClosed, msgs, state, closePc>>

Close_Unconditional ==
    /\ closePc = "open"
    /\ \A s \in Sockets : callPc[s] \notin {"generated", "added"}
    /\ state' = state - MaxInt32
    /\ closePc' = "free"
    /\ UNCHANGED <<enabled, socketClosed, msgs, puts, callPc>>

Close ==
    /\ closePc = "open"
    /\ \A s \in Sockets : callPc[s] \notin {"generated", "added"}
    /\ state' = state - MaxInt32
    /\ closePc' = IF state' = 0 THEN "free" ELSE "closed"
    /\ UNCHANGED <<enabled, socketClosed, msgs, puts, callPc>>

CloseFrees ==
    /\ closePc = "free"
    /\ puts' = Freed
    /\ closePc' = "closed"
    /\ UNCHANGED <<enabled, socketClosed, msgs, state, callPc>>

(* Anything else closes a socket. *)
SocketCloses(s) ==
    /\ socketClosed' = socketClosed \cup {s}
    /\ UNCHANGED <<enabled, msgs, puts, state, callPc, closePc>>

JobStep(s) == StartWrite(s) \/ EndWrite(s) \/ Release(s) \/ DoClose(s)

BroadcastNext ==
    \/ \E s \in Sockets :
          Generate(s) \/ AddState(s) \/ PushJob(s) \/ JobStep(s) \/ SocketCloses(s)
    \/ Close \/ CloseFrees

(* Jobs are run (AsyncConn: CallbackRuns) and goroutines scheduled. *)
BroadcastSpec ==
    /\ BroadcastInit /\ [][BroadcastNext]_broadcastVars
    /\ \A s \in Sockets : WF_broadcastVars(AddState(s) \/ PushJob(s) \/ JobStep(s))
    /\ WF_broadcastVars(CloseFrees)

-----------------------------------------------------------------------------

(* A job that will read or is reading its frame has one, and it is not in  *)
(* binaryPool, where another writer would take and overwrite it.           *)
FrameAlive ==
    \A s \in Sockets :
        callPc[s] \in {"generated", "added", "queued", "writing"} =>
            msgs[enabled[s]] = "made" /\ puts[enabled[s]] = 0

(* At most one goroutine frees, none before Close, and no frame is put     *)
(* into binaryPool twice, where two writers would then get it.             *)
OneFrees ==
    /\ \A i \in BOOLEAN : puts[i] <= 1
    /\ \A s \in Sockets : callPc[s] = "free" => closePc = "closed"
    /\ \A s, t \in Sockets : callPc[s] = "free" /\ callPc[t] = "free" => s = t
    /\ (\E i \in BOOLEAN : puts[i] = 1) => closePc = "closed" /\ \A s \in Sockets : callPc[s] # "free"

(* After Close every frame that was made goes back to the pool. *)
FramesFreed ==
    closePc # "open" ~> \A i \in BOOLEAN : msgs[i] = "made" => puts[i] = 1
==============================================================================
