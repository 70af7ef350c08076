------------------------------ MODULE TrainingPool ------------------------------
(***************************************************************************)
(* The thread pool of the training tools (tools/training/utils/            *)
(* thread_pool.h, .cpp) together with the code that submits tasks to it:   *)
(* the clustering trainers, CompressionUtils::tryCompress(), the Pareto    *)
(* combination, the genetic algorithm and the compressor explorer.         *)
(*                                                                         *)
(* A critical section of queueMutex_ is one step; everything the code does *)
(* outside the mutex (notify_one(), running a task, future.get(), the end  *)
(* of the caller's scope) is a step of its own.  One pool is used by one   *)
(* caller thread that makes a sequence of calls and then destroys the pool.*)
(***************************************************************************)
EXTENDS Naturals, Sequences, FiniteSets

CONSTANTS
    Workers,     \* threads_: the threads of the pool
    NbTasks,     \* samples, each of which tryCompress() compresses in a task
    NbGroups,    \* clusters, candidates or genes a call has under trial
    NbCalls,     \* calls the caller makes before it destroys the pool
    Callers      \* the ways a caller submits and joins, see Patterns

(* How the callers use the pool; the tasks of all of them may throw:       *)
(*  "join"     getBackendGraphSelections() with joinBenchmarks(): a task   *)
(*             per candidate, gets every future, rethrows at the end       *)
(*  "trainer"  the full split, the greedy trainer's similar inputs,        *)
(*             filterParetoFrontier() and the genetic algorithm: a task    *)
(*             per candidate, gets the futures in order, the first         *)
(*             exception unwinds the caller's scope                        *)
(*  "greedy"   the greedy trainer's candidates: tryCompress() for each of  *)
(*             them, that is a task per sample and one more that gets the  *)
(*             futures of these; the caller gets the futures of the last   *)
(*  "bottomUp" the bottom-up trainer: a task per candidate, and for each   *)
(*             candidate in order, get() and tryCompress(), then the costs *)
(*  "shared"   computeFitness() of the explorer: as "trainer", but the     *)
(*             tasks own what they use                                     *)
Patterns == {"join", "trainer", "greedy", "bottomUp", "shared"}

ASSUME PoolAssumption ==
    /\ Workers # {} /\ IsFiniteSet(Workers)
    /\ NbTasks \in Nat \ {0} /\ NbGroups \in Nat \ {0} /\ NbCalls \in Nat \ {0}
    /\ Callers \subseteq Patterns

(* Whether a call submits a task for each candidate, and whether it calls  *)
(* tryCompress() for each.                                                 *)
HasCandidates(k) == k # "greedy"
Tries(k) == k \in {"greedy", "bottomUp"}

(* The tasks hold what they use themselves, by value or by a shared_ptr.   *)
OwnsWhatItUses(k) == k = "shared"

(* A task is a call, a candidate of it and its place: 0 for the task of    *)
(* the candidate itself, a sample of its tryCompress(), or the task that   *)
(* sums up the cost.                                                       *)
Cost == NbTasks + 1
Tasks == (1..NbCalls) \X (1..NbGroups) \X (0..Cost)
NoTask == <<0, 0, 0>>

VARIABLES
    taskQueue,   \* taskQueue_
    stop,        \* stop_
    worker,      \* what each thread does: [at, task, next]
    future,      \* shared state of the future of each task
    caller       \* the caller's thread: [at, kinds, group, place, error];
                 \* kinds has the pattern of each call made so far

vars == <<taskQueue, stop, worker, future, caller>>

WorkerPlaces == {"check", "asleep", "run", "exited"}
CallerPlaces == {"idle", "submit", "notify", "get", "unwind", "stop",
                 "notifyAll", "join", "gone"}

TypeOK ==
    /\ taskQueue \in Seq(Tasks)
    /\ stop \in BOOLEAN
    /\ worker \in [Workers -> [at : WorkerPlaces, task : Tasks \cup {NoTask},
                               next : 1..Cost]]
    /\ future \in [Tasks -> {"none", "pending", "value", "error"}]
    /\ caller \in [at : CallerPlaces, kinds : Seq(Callers), group : 1..NbGroups,
                   place : 0..Cost, error : BOOLEAN]
    /\ Len(caller.kinds) <= NbCalls

Call == Len(caller.kinds)
Kind == caller.kinds[Call]
Current == <<Call, caller.group, caller.place>>

Ready(t) == future[t] \in {"value", "error"}

Init ==
    /\ taskQueue = <<>>
    /\ stop = FALSE
    /\ \E threads \in SUBSET Workers \ {{}} :
         worker = [w \in Workers |->
                     [at |-> IF w \in threads THEN "check" ELSE "exited",
                      task |-> NoTask, next |-> 1]]
    /\ future = [t \in Tasks |-> "none"]
    /\ caller = [at |-> "idle", kinds |-> <<>>, group |-> 1, place |-> 0, error |-> FALSE]

-----------------------------------------------------------------------------
(* The threads of the pool.                                                *)

(* The predicate of condition_.wait(): a thread that finds it true leaves  *)
(* the wait.                                                               *)
Awake == stop \/ taskQueue # <<>>

(* The predicate is false: the thread releases the mutex and waits.        *)
Sleep(w) ==
    /\ worker[w].at = "check"
    /\ ~Awake
    /\ worker' = [worker EXCEPT ![w].at = "asleep"]
    /\ UNCHANGED <<taskQueue, stop, future, caller>>

(* A condition variable may wake a thread without a notification.          *)
SpuriousWakeup(w) ==
    /\ worker[w].at = "asleep"
    /\ worker' = [worker EXCEPT ![w].at = "check"]
    /\ UNCHANGED <<taskQueue, stop, future, caller>>

ExitCondition == stop /\ taskQueue = <<>>

WorkerExit(w) ==
    /\ worker[w].at = "check"
    /\ Awake
    /\ ExitCondition
    /\ worker' = [worker EXCEPT ![w].at = "exited"]
    /\ UNCHANGED <<taskQueue, stop, future, caller>>

(* front(), pop(): the oldest task leaves the queue.                       *)
FaultyTaken(q) == [task |-> q[1], rest |-> q]
FaultyOrder(q) == [task |-> q[Len(q)], rest |-> SubSeq(q, 1, Len(q) - 1)]
Taken(q) == [task |-> q[1], rest |-> Tail(q)]

Pop(w) ==
    /\ worker[w].at = "check"
    /\ Awake
    /\ ~ExitCondition
    /\ worker' = [worker EXCEPT ![w] = [at |-> "run", task |-> Taken(taskQueue).task,
                                        next |-> 1]]
    /\ taskQueue' = Taken(taskQueue).rest
    /\ UNCHANGED <<stop, future, caller>>

(* A packaged task stores its result or its exception in its future.       *)
Complete(w, outcome) ==
    /\ future' = [future EXCEPT ![worker[w].task] = outcome]
    /\ worker' = [worker EXCEPT ![w] = [at |-> "check", task |-> NoTask,
                                        next |-> 1]]
    /\ UNCHANGED <<taskQueue, stop, caller>>

RunTask(w) ==
    /\ worker[w].at = "run"
    /\ worker[w].task[3] # Cost
    /\ Complete(w, "value") \/ Complete(w, "error")

(* The last task of tryCompress() gets the futures of the samples in       *)
(* order, next being the one to get; the first exception ends it.          *)
RunCost(w) ==
    /\ worker[w].at = "run"
    /\ worker[w].task[3] = Cost
    /\ LET t == <<worker[w].task[1], worker[w].task[2], worker[w].next>> IN
       \/ /\ worker[w].next = Cost
          /\ Complete(w, "value")
       \/ /\ worker[w].next < Cost
          /\ future[t] = "error"
          /\ Complete(w, "error")
       \/ /\ worker[w].next < Cost
          /\ future[t] = "value"
          /\ worker' = [worker EXCEPT ![w].next = @ + 1]
          /\ UNCHANGED <<taskQueue, stop, future, caller>>

WorkerStep(w) ==
    Sleep(w) \/ WorkerExit(w) \/ Pop(w) \/ RunTask(w) \/ RunCost(w)

-----------------------------------------------------------------------------
(* The caller.                                                             *)

StartCall ==
    /\ caller.at = "idle"
    /\ Call < NbCalls
    /\ \E k \in Callers :
         caller' = [at |-> "submit", kinds |-> Append(caller.kinds, k), group |-> 1,
                    place |-> IF HasCandidates(k) THEN 0 ELSE 1, error |-> FALSE]
    /\ UNCHANGED <<taskQueue, stop, worker, future>>

(* run(): the task enters the queue under the mutex ...                    *)
Submit ==
    /\ caller.at = "submit"
    /\ taskQueue' = Append(taskQueue, Current)
    /\ future' = [future EXCEPT ![Current] = "pending"]
    /\ caller' = [caller EXCEPT !.at = "notify"]
    /\ UNCHANGED <<stop, worker>>

(* What the caller does after it has submitted a task: the next candidate, *)
(* the next sample or the cost of the same candidate, or the candidate     *)
(* after it; and then the first future.                                    *)
AfterSubmit(c, k) ==
    IF c.place \in 1..NbTasks
    THEN [c EXCEPT !.at = "submit", !.place = @ + 1]
    ELSE IF c.group = NbGroups
    THEN [c EXCEPT !.at = "get", !.group = 1]
    ELSE IF c.place = 0
    THEN [c EXCEPT !.at = "submit", !.group = @ + 1]
    ELSE [c EXCEPT !.at = IF HasCandidates(k) THEN "get" ELSE "submit", !.group = @ + 1,
                   !.place = IF HasCandidates(k) THEN 0 ELSE 1]

(* ... and one sleeping thread, if there is one, is notified after the     *)
(* mutex is released.                                                      *)
NotifyOne ==
    /\ caller.at = "notify"
    /\ \/ /\ \A w \in Workers : worker[w].at # "asleep"
          /\ UNCHANGED worker
       \/ \E w \in Workers :
            /\ worker[w].at = "asleep"
            /\ worker' = [worker EXCEPT ![w].at = "check"]
    /\ caller' = AfterSubmit(caller, Kind)
    /\ UNCHANGED <<taskQueue, stop, future>>

(* What the caller does after it has read a future: tryCompress() for the  *)
(* candidate it got, or the next future; after the last one it returns or  *)
(* rethrows, and either way what the tasks refer to (the candidates, which *)
(* are then moved from, cUtils, the metadata) is gone.                     *)
AfterGet(c, k) ==
    IF c.place = 0 /\ Tries(k)
    THEN [c EXCEPT !.at = "submit", !.place = 1]
    ELSE IF c.group < NbGroups
    THEN [c EXCEPT !.group = @ + 1]
    ELSE [c EXCEPT !.at = "unwind"]

(* future.get() of the next future.  joinBenchmarks() keeps the first      *)
(* exception and goes on; the others leave their scope at once.            *)
FaultyLeavesOnError(k) == TRUE
LeavesOnError(k) == k # "join"

GetFuture ==
    /\ caller.at = "get"
    /\ Ready(Current)
    /\ LET failed == future[Current] = "error" IN
       caller' = IF failed /\ LeavesOnError(Kind)
                 THEN [caller EXCEPT !.at = "unwind", !.error = TRUE]
                 ELSE AfterGet([caller EXCEPT !.error = @ \/ failed], Kind)
    /\ UNCHANGED <<taskQueue, stop, worker, future>>

(* The exception propagates to the owner of the pool, which destroys it;   *)
(* otherwise the caller makes its next call or is done.                    *)
LeaveScope ==
    /\ caller.at = "unwind"
    /\ caller' = [caller EXCEPT !.at =
                    IF caller.error \/ Call = NbCalls THEN "stop" ELSE "idle"]
    /\ UNCHANGED <<taskQueue, stop, worker, future>>

(* ~ThreadPool()                                                           *)
SetStop ==
    /\ caller.at = "stop"
    /\ stop' = TRUE
    /\ caller' = [caller EXCEPT !.at = "notifyAll"]
    /\ UNCHANGED <<taskQueue, worker, future>>

FaultyWakeAll(ws) == LET s == {w \in Workers : ws[w].at = "asleep"} IN
                     IF s = {} THEN ws
                     ELSE [ws EXCEPT ![CHOOSE w \in s : TRUE].at = "check"]
WakeAll(ws) == [w \in Workers |-> IF ws[w].at = "asleep"
                                  THEN [ws[w] EXCEPT !.at = "check"] ELSE ws[w]]

NotifyAll ==
    /\ caller.at = "notifyAll"
    /\ worker' = WakeAll(worker)
    /\ caller' = [caller EXCEPT !.at = "join"]
    /\ UNCHANGED <<taskQueue, stop, future>>

JoinThreads ==
    /\ caller.at = "join"
    /\ \A w \in Workers : worker[w].at = "exited"
    /\ caller' = [caller EXCEPT !.at = "gone"]
    /\ UNCHANGED <<taskQueue, stop, worker, future>>

CallerStep ==
    \/ StartCall \/ Submit \/ NotifyOne \/ GetFuture \/ LeaveScope
    \/ SetStop \/ NotifyAll \/ JoinThreads

Done == caller.at = "gone" /\ UNCHANGED vars

Next ==
    \/ \E w \in Workers : WorkerStep(w)
    \/ \E w \in Workers : SpuriousWakeup(w)
    \/ CallerStep
    \/ Done

(* Every thread that can run is eventually scheduled; no wakeup is owed    *)
(* to a thread that was not notified.                                      *)
Spec ==
    /\ Init /\ [][Next]_vars
    /\ WF_vars(CallerStep)
    /\ \A w \in Workers : WF_vars(WorkerStep(w))

-----------------------------------------------------------------------------
(* Properties.                                                             *)

(* What the tasks of a call refer to by reference is alive: its scope has  *)
(* not been left.  The explorer's tasks own what they use.                 *)
ScopeAlive(call) ==
    \/ OwnsWhatItUses(caller.kinds[call])
    \/ Call = call /\ caller.at \in {"submit", "notify", "get"}

(* "Every task must be joined before unwinding, because they reference     *)
(* state owned by the caller" (pareto_combination.cpp:63).  A task that is *)
(* queued or runs after the scope it refers to was left is never one of    *)
(* joinBenchmarks(), and in the other calls only if a task of the same     *)
(* call threw: their first get() that throws leaves the rest behind        *)
(* (full_split_trainer.cpp:44, bottom_up_trainer.cpp:145), and also the    *)
(* cost task leaves its samples behind (compression_utils.cpp:206).        *)
Threw(call) == \E t \in Tasks : t[1] = call /\ future[t] = "error"
MayOutlive(call) == ScopeAlive(call) \/ (caller.kinds[call] # "join" /\ Threw(call))

JoinedBeforeUnwind ==
    /\ \A w \in Workers :
         worker[w].at = "run" => MayOutlive(worker[w].task[1])
    /\ \A i \in DOMAIN taskQueue : MayOutlive(taskQueue[i][1])

(* A task's future is pending exactly while the task is queued or runs, so *)
(* that no future is lost (its get() would block forever) and no task runs *)
(* twice.                                                                  *)
OneOwnerPerTask ==
    \A t \in Tasks :
      LET queued  == {i \in DOMAIN taskQueue : taskQueue[i] = t}
          running == {w \in Workers : worker[w].task = t}
      IN Cardinality(queued) + Cardinality(running)
           = IF future[t] = "pending" THEN 1 ELSE 0

(* Every submitted task ends, also when it waits for other tasks in the    *)
(* same pool, with any number of threads: the queue is first in first out, *)
(* so that what a waiter waits for was started before it.                  *)
EveryTaskEnds == \A t \in Tasks : future[t] = "pending" ~> Ready(t)

(* The destructor returns: no thread sleeps through the stop.              *)
PoolStops == <>(caller.at = "gone")
=============================================================================
