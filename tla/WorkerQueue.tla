----------------------------- MODULE WorkerQueue -----------------------------
(***************************************************************************)
(* workerQueue (task.go): the queue of asynchronous jobs that every Conn   *)
(* owns with maxConcurrency 1.  Any goroutine may call Push, a running job *)
(* included.  getJob runs under workerQueue.mu, so each call of it is one  *)
(* step; the `go` statement and the body of a job run outside the mutex    *)
(* and interleave with everything.                                         *)
(*                                                                         *)
(* A job is an opaque closure; each is pushed at most once.  The deque is  *)
(* a sequence here.                                                        *)
(***************************************************************************)
EXTENDS Integers, Sequences, FiniteSets, Functions

CONSTANTS Jobs,            \* the closures given to Push
          maxConcurrency   \* workerQueue.maxConcurrency

ASSUME MaxConcurrencyAssumption == maxConcurrency \in Nat \ {0}

VARIABLES q,               \* workerQueue.q
          curConcurrency,  \* workerQueue.curConcurrency
          launched,        \* jobs handed to a goroutine running do, body not entered
          running,         \* jobs whose body is executing
          finished,        \* jobs whose body has returned
          pushed,          \* history: jobs in the order Push received them
          executed         \* history: jobs in the order their bodies were entered

vars == <<q, curConcurrency, launched, running, finished, pushed, executed>>

-----------------------------------------------------------------------------

Live == launched \cup running

Init ==
    /\ q = <<>>
    /\ curConcurrency = 0
    /\ launched = {}
    /\ running = {}
    /\ finished = {}
    /\ pushed = <<>>
    /\ executed = <<>>

(* c.q.PopFront on a nonempty deque: the value and what remains. *)
PopFront_Newest(jobs) == [value |-> jobs[Len(jobs)], rest |-> SubSeq(jobs, 1, Len(jobs) - 1)]
PopFront(jobs) == [value |-> Head(jobs), rest |-> Tail(jobs)]

(* getJob's test of the limit, negated. *)
HasSlot(cur) == cur < maxConcurrency

(***************************************************************************)
(* getJob, where jobs is the queue after the new job (if any) is appended: *)
(* add delta, test the limit, then the queue; a job that is returned goes  *)
(* to the calling goroutine, the next in do's loop or a new one of Push.   *)
(***************************************************************************)
getJob(jobs, delta) ==
    LET cur == curConcurrency + delta
    IN  \/ /\ ~HasSlot(cur) \/ jobs = <<>>
           /\ q' = jobs
           /\ curConcurrency' = cur
           /\ UNCHANGED launched
        \/ /\ HasSlot(cur)
           /\ jobs # <<>>
           /\ q' = PopFront(jobs).rest
           /\ curConcurrency' = cur + 1
           /\ launched' = launched \cup {PopFront(jobs).value}

(* Push: queue the job and, if getJob returns one, `go c.do` with it. *)
Push(j) ==
    /\ j \notin Range(pushed)
    /\ pushed' = Append(pushed, j)
    /\ getJob(Append(q, j), 0)
    /\ UNCHANGED <<running, finished, executed>>

(* The goroutine holding j is scheduled and enters job(). *)
RunJob(j) ==
    /\ j \in launched
    /\ launched' = launched \ {j}
    /\ running' = running \cup {j}
    /\ executed' = Append(executed, j)
    /\ UNCHANGED <<q, curConcurrency, finished, pushed>>

NextJob_SlotKept(j) ==
    /\ j \in running
    /\ running' = running \ {j}
    /\ finished' = finished \cup {j}
    /\ getJob(q, 0)
    /\ UNCHANGED <<pushed, executed>>

NextJob_NoLoop(j) ==
    /\ j \in running
    /\ running' = running \ {j}
    /\ finished' = finished \cup {j}
    /\ curConcurrency' = curConcurrency - 1
    /\ UNCHANGED <<q, launched, pushed, executed>>

(* job() returns and the loop of do asks for the next one: getJob(nil, -1). *)
NextJob(j) ==
    /\ j \in running
    /\ running' = running \ {j}
    /\ finished' = finished \cup {j}
    /\ getJob(q, -1)
    /\ UNCHANGED <<pushed, executed>>

Next == \E j \in Jobs : Push(j) \/ RunJob(j) \/ NextJob(j)

(* The Go scheduler runs every runnable goroutine, and jobs do not block   *)
(* for ever (the comment on Conn.Async asks that of its callers).          *)
Fairness == \A j \in Jobs : WF_vars(RunJob(j)) /\ WF_vars(NextJob(j))

Spec == Init /\ [][Next]_vars /\ Fairness

-----------------------------------------------------------------------------

(* Types; curConcurrency stays within the limit getJob enforces. *)
TypeOK ==
    /\ q \in Seq(Jobs)
    /\ curConcurrency \in 0..maxConcurrency
    /\ launched \in SUBSET Jobs
    /\ running \in SUBSET Jobs
    /\ finished \in SUBSET Jobs
    /\ pushed \in Seq(Jobs)
    /\ executed \in Seq(Jobs)

(* curConcurrency, moved by +1 and -1 in three places, is the number of    *)
(* goroutines running do: it never drifts, whatever the interleaving.      *)
CounterExact ==
    /\ launched \cap running = {}
    /\ IsFiniteSet(Live)
    /\ curConcurrency = Cardinality(Live)

(* No stranded job: while a job waits in the queue, every slot is taken,   *)
(* so some running job will fetch it.  A Push that finds the limit reached *)
(* just leaves; this is why its job is not forgotten.                      *)
NoStrandedJob == q # <<>> => curConcurrency = maxConcurrency

(* How many of the pushed jobs have left the queue. *)
Taken == Len(pushed) - Len(q)

(* The queue is the part of `pushed` that was not taken: jobs leave it in  *)
(* the order Push received them.                                           *)
QueueIsSuffix ==
    /\ Taken \in Nat
    /\ \A i \in 1..Len(q) : q[i] = pushed[Taken + i]

(* No job is lost or run twice: the jobs that left the queue are exactly   *)
(* those a goroutine holds or has finished, each in one place only.        *)
TakenJobsAccounted ==
    /\ \A j \in Live \cup finished : \E i \in 1..Taken : pushed[i] = j
    /\ \A i \in 1..Taken : pushed[i] \in Live \cup finished
    /\ finished \cap Live = {}
    /\ \A i, k \in 1..Len(pushed) : pushed[i] = pushed[k] => i = k

(* Conn uses concurrency 1, and WriteAsync relies on it: the bodies of the *)
(* jobs run one at a time, in the order of the calls to Push.              *)
FIFO ==
    maxConcurrency = 1 =>
        /\ Len(executed) <= Len(pushed)
        /\ \A i \in 1..Len(executed) : executed[i] = pushed[i]
        /\ \A j, k \in running : j = k

(* The queue implements the abstract executor. *)
Executor == INSTANCE AsyncExecutor
              WITH Capacity <- maxConcurrency, pending <- q,
                   active <- Live, completed <- finished

ImplementsExecutor == Executor!Spec
==============================================================================
