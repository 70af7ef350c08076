--------------------------- MODULE TrainingPool_proofs ---------------------------
(***************************************************************************)
(* Proofs about TrainingPool, for any threads, samples, candidates and     *)
(* calls, whatever tasks throw.                                            *)
(***************************************************************************)
EXTENDS TrainingPool, TLAPS, FiniteSetTheorems

-----------------------------------------------------------------------------
(* The inductive invariant.                                                *)

ThreadType == [at : WorkerPlaces, task : Tasks \cup {NoTask}, next : 1..Cost]
CallerType == [at : CallerPlaces, kinds : Seq(Callers), group : 1..NbGroups,
               place : 0..Cost, error : BOOLEAN]

(* Where the caller can be: it submits and gets what calls of its kind do. *)
Busy == caller.at \in {"submit", "notify", "get"}
CallOK ==
    /\ Busy \/ caller.at = "unwind" => Call > 0
    /\ Busy => IF caller.place = 0 THEN HasCandidates(Kind) ELSE Tries(Kind)
    /\ caller.at = "get" => caller.place = 0 \/ caller.place = Cost

(* The tasks of the running call that are not yet submitted, or are none   *)
(* of its kind.                                                            *)
NotYet(g, p) ==
    \/ p = 0 /\ ~HasCandidates(Kind)
    \/ p > 0 /\ ~Tries(Kind)
    \/ /\ caller.at \in {"submit", "notify"} /\ caller.place = 0
       /\ p > 0 \/ g > caller.group \/ (g = caller.group /\ caller.at = "submit")
    \/ /\ caller.at \in {"submit", "notify"} /\ caller.place > 0 /\ p > 0
       /\ \/ g > caller.group
          \/ g = caller.group /\ (p > caller.place \/ (p = caller.place /\ caller.at = "submit"))
    \/ caller.at = "get" /\ caller.place = 0 /\ p > 0 /\ g >= caller.group
NotSubmitted(t) == t[1] > Call \/ (t[1] = Call /\ NotYet(t[2], t[3]))

FreshOK == \A t \in Tasks : NotSubmitted(t) => future[t] = "none"

Queued(q, t) == \E i \in 1..Len(q) : q[i] = t
RunBy(w, t) == worker[w].task = t

(* A pending task is in the queue or with a thread, never twice or both.   *)
OwnersOK ==
    /\ \A i, j \in 1..Len(taskQueue) : taskQueue[i] = taskQueue[j] => i = j
    /\ \A w \in Workers : worker[w].at = "run" <=> worker[w].task \in Tasks
    /\ \A v, w \in Workers :
         worker[v].task \in Tasks /\ worker[v].task = worker[w].task => v = w
    /\ \A w \in Workers : ~Queued(taskQueue, worker[w].task)
    /\ \A t \in Tasks : future[t] = "pending" <=>
                          Queued(taskQueue, t) \/ \E w \in Workers : RunBy(w, t)

IInv == TypeOK /\ CallOK /\ FreshOK /\ OwnersOK

-----------------------------------------------------------------------------
(* The rest of it: who has waited for whom.                                *)

(* A cost task that is done, or has come so far, has seen the ends of the  *)
(* samples.                                                                *)
CostsOK ==
    /\ \A t \in Tasks : \A d \in 1..NbTasks :
         t[3] = Cost /\ future[t] = "value" => Ready(<<t[1], t[2], d>>)
    /\ \A w \in Workers : \A d \in 1..NbTasks :
         worker[w].at = "run" /\ worker[w].task[3] = Cost /\ d < worker[w].next
         => Ready(<<worker[w].task[1], worker[w].task[2], d>>)

(* What the caller has got so far.                                         *)
Got(g, p) ==
    \/ caller.at = "get" /\ caller.place = 0 /\ p = 0 /\ g < caller.group
    \/ /\ caller.at \in {"submit", "notify"} /\ caller.place > 0
       /\ HasCandidates(Kind) /\ p = 0 /\ g <= caller.group
    \/ /\ caller.at = "get" /\ caller.place = Cost
       /\ \/ HasCandidates(Kind) /\ p = 0
          \/ p = Cost /\ g < caller.group
ReadOK == \A g \in 1..NbGroups, p \in 0..Cost : Got(g, p) => Ready(<<Call, g, p>>)

ScopesOK == \A t \in Tasks : future[t] = "pending" => MayOutlive(t[1])

JInv == CostsOK /\ ReadOK /\ ScopesOK

-----------------------------------------------------------------------------
(* Tasks.                                                                  *)

LEMMA Counts ==
    /\ NbTasks \in Nat /\ NbTasks > 0 /\ NbGroups \in Nat /\ NbGroups > 0 /\ NbCalls \in Nat
    /\ Cost \in Nat /\ Cost > 1 /\ Cost = NbTasks + 1
BY PoolAssumption DEF Cost

LEMMA TaskParts ==
    /\ \A t \in Tasks : /\ t = <<t[1], t[2], t[3]>>
                        /\ t[1] \in 1..NbCalls /\ t[1] \in Nat
                        /\ t[2] \in 1..NbGroups /\ t[2] \in Nat
                        /\ t[3] \in 0..Cost /\ t[3] \in Nat
    /\ \A c \in 1..NbCalls, g \in 1..NbGroups, p \in 0..Cost : <<c, g, p>> \in Tasks
    /\ NoTask \notin Tasks
BY Counts DEF Tasks, NoTask

LEMMA TypesAre ==
    TypeOK <=> /\ taskQueue \in Seq(Tasks) /\ stop \in BOOLEAN
               /\ worker \in [Workers -> ThreadType]
               /\ future \in [Tasks -> {"none", "pending", "value", "error"}]
               /\ caller \in CallerType /\ Len(caller.kinds) <= NbCalls
BY DEF TypeOK, ThreadType, CallerType

LEMMA TypesNext ==
    TypeOK' <=> /\ taskQueue' \in Seq(Tasks) /\ stop' \in BOOLEAN
                /\ worker' \in [Workers -> ThreadType]
                /\ future' \in [Tasks -> {"none", "pending", "value", "error"}]
                /\ caller' \in CallerType /\ Len(caller'.kinds) <= NbCalls
BY DEF TypeOK, ThreadType, CallerType

LEMMA InitOK == Init => IInv
<1> SUFFICES ASSUME Init PROVE IInv
  OBVIOUS
<1>1. caller = [at |-> "idle", kinds |-> <<>>, group |-> 1, place |-> 0, error |-> FALSE]
  BY DEF Init
<1>2. PICK threads \in SUBSET Workers \ {{}} :
         worker = [w \in Workers |->
                     [at |-> IF w \in threads THEN "check" ELSE "exited",
                      task |-> NoTask, next |-> 1]]
  BY DEF Init
<1>3. TypeOK
  <2>1. worker \in [Workers -> ThreadType]
    BY <1>2, Counts DEF WorkerPlaces, ThreadType
  <2>2. caller \in CallerType /\ Len(caller.kinds) <= NbCalls
    BY <1>1, Counts DEF CallerPlaces, CallerType
  <2>3. /\ taskQueue \in Seq(Tasks) /\ stop \in BOOLEAN
        /\ future \in [Tasks -> {"none", "pending", "value", "error"}]
    <3>1. taskQueue = <<>> /\ stop = FALSE /\ future = [t \in Tasks |-> "none"]
      BY DEF Init
    <3>2. taskQueue \in Seq(Tasks)
      BY <3>1
    <3>3. future \in [Tasks -> {"none", "pending", "value", "error"}]
      BY <3>1
    <3>4. QED
      BY <3>1, <3>2, <3>3
  <2>4. QED
    BY <2>1, <2>2, <2>3, TypesAre
<1>4. CallOK
  BY <1>1 DEF CallOK, Busy
<1>5. FreshOK
  BY DEF Init, FreshOK
<1>6. OwnersOK
  <2>1. Len(taskQueue) = 0 /\ \A t : ~Queued(taskQueue, t)
    BY DEF Init, Queued
  <2>2. \A w \in Workers : worker[w].task = NoTask /\ worker[w].at # "run"
    BY <1>2
  <2>3. \A t \in Tasks : future[t] = "none"
    BY DEF Init
  <2>4. QED
    BY <2>1, <2>2, <2>3, TaskParts DEF OwnersOK, RunBy
<1>7. QED
  BY <1>3, <1>4, <1>5, <1>6 DEF IInv

(* Who has which task does not change.                                     *)
LEMMA SameOwners ==
    ASSUME OwnersOK, UNCHANGED <<taskQueue, future>>,
           \A w \in Workers : /\ worker'[w].task = worker[w].task
                              /\ worker'[w].at = "run" <=> worker[w].at = "run"
    PROVE  OwnersOK'
BY DEF OwnersOK, Queued, RunBy

LEMMA SameCaller ==
    ASSUME CallOK, FreshOK, UNCHANGED <<caller, future>>
    PROVE  CallOK' /\ FreshOK'
BY DEF CallOK, Busy, FreshOK, NotSubmitted, NotYet, Call, Kind

-----------------------------------------------------------------------------
(* The threads.                                                            *)

(* A thread goes from one place to another with the task that it has.      *)
LEMMA MoveThread ==
    ASSUME TypeOK, NEW w \in Workers, NEW place \in WorkerPlaces,
           worker' = [worker EXCEPT ![w].at = place]
    PROVE  /\ worker' \in [Workers -> ThreadType]
           /\ \A v \in Workers : worker'[v].task = worker[v].task
           /\ worker'[w].at = place
           /\ \A v \in Workers \ {w} : worker'[v] = worker[v]
BY TypesAre DEF ThreadType

(* A thread that has no task moves.                                        *)
LEMMA IdleThreadKeeps ==
    ASSUME IInv, NEW w \in Workers, Sleep(w) \/ SpuriousWakeup(w) \/ WorkerExit(w)
    PROVE  IInv'
<1>1. PICK place \in WorkerPlaces \ {"run"} :
         worker' = [worker EXCEPT ![w].at = place]
  BY DEF Sleep, SpuriousWakeup, WorkerExit, WorkerPlaces
<1>2. UNCHANGED <<taskQueue, stop, future, caller>> /\ worker[w].at # "run"
  BY DEF Sleep, SpuriousWakeup, WorkerExit
<1>3. \A v \in Workers : /\ worker'[v].task = worker[v].task
                         /\ worker'[v].at = "run" <=> worker[v].at = "run"
  BY <1>1, <1>2, MoveThread DEF IInv
<1>4. TypeOK'
  BY <1>1, <1>2, MoveThread, TypesAre, TypesNext DEF IInv
<1>5. QED
  BY <1>2, <1>3, <1>4, SameOwners, SameCaller DEF IInv

LEMMA PopKeeps ==
    ASSUME IInv, NEW w \in Workers, Pop(w)
    PROVE  IInv'
<1> DEFINE t == taskQueue[1]
           new == [at |-> "run", task |-> t, next |-> 1]
<1>1. taskQueue \in Seq(Tasks) /\ Len(taskQueue) \in Nat /\ Len(taskQueue) > 0
  BY DEF Pop, Awake, ExitCondition, IInv, TypeOK
<1>2. t \in Tasks /\ Queued(taskQueue, t)
  BY <1>1 DEF Queued
<1>3. taskQueue' = Tail(taskQueue) /\ worker' = [worker EXCEPT ![w] = new]
      /\ UNCHANGED <<stop, future, caller>> /\ worker[w].at = "check"
  BY DEF Pop, Taken
<1>4. /\ taskQueue' \in Seq(Tasks) /\ Len(taskQueue') = Len(taskQueue) - 1
      /\ \A i \in 1..Len(taskQueue') : taskQueue'[i] = taskQueue[i + 1]
  BY <1>1, <1>3
<1>5. new \in ThreadType
  BY <1>2, Counts DEF WorkerPlaces, ThreadType
<1>6. TypeOK'
  BY <1>3, <1>4, <1>5, TypesAre, TypesNext DEF IInv
<1>7. worker[w].task \notin Tasks
  BY <1>3 DEF IInv, OwnersOK
<1>8. /\ worker'[w].at = "run" /\ worker'[w].task = t
      /\ \A v \in Workers \ {w} : worker'[v] = worker[v]
  BY <1>3 DEF IInv, TypeOK
<1> HIDE DEF t
<1>9. \A u : Queued(taskQueue', u) <=> Queued(taskQueue, u) /\ u # t
  <2>1. ASSUME NEW u, NEW i \in 1..Len(taskQueue'), taskQueue'[i] = u
        PROVE  Queued(taskQueue, u) /\ u # t
    <3>1. i + 1 \in 1..Len(taskQueue) /\ taskQueue[i + 1] = u /\ i + 1 # 1
          /\ 1 \in 1..Len(taskQueue)
      BY <1>1, <1>4, <2>1
    <3>2. QED
      BY <3>1 DEF Queued, IInv, OwnersOK, t
  <2>2. ASSUME NEW u, NEW i \in 1..Len(taskQueue), taskQueue[i] = u, u # t
        PROVE  Queued(taskQueue', u)
    <3>1. i - 1 \in 1..Len(taskQueue')
      BY <1>1, <1>4, <2>2 DEF t
    <3>2. taskQueue'[i - 1] = u
      BY <1>4, <2>2, <3>1
    <3>3. QED
      BY <3>1, <3>2 DEF Queued
  <2>3. QED
    BY <2>1, <2>2 DEF Queued
<1>10. OwnersOK'
  <2>1. \A i, j \in 1..Len(taskQueue') : taskQueue'[i] = taskQueue'[j] => i = j
    <3>1. ASSUME NEW i \in 1..Len(taskQueue'), NEW j \in 1..Len(taskQueue'),
                 taskQueue'[i] = taskQueue'[j]
          PROVE  i = j
      <4>1. i + 1 \in 1..Len(taskQueue) /\ j + 1 \in 1..Len(taskQueue)
        BY <1>1, <1>4
      <4>2. taskQueue[i + 1] = taskQueue[j + 1]
        BY <1>4, <3>1
      <4>3. i + 1 = j + 1
        BY <4>1, <4>2 DEF IInv, OwnersOK
      <4>4. QED
        BY <4>3
    <3>2. QED
      BY <3>1
  <2>2. \A v \in Workers : worker[v].task # t
    BY <1>2 DEF IInv, OwnersOK
  <2>3. \A v \in Workers : worker'[v].at = "run" <=> worker'[v].task \in Tasks
    BY <1>2, <1>8 DEF IInv, OwnersOK
  <2>4. \A u, v \in Workers :
          worker'[u].task \in Tasks /\ worker'[u].task = worker'[v].task => u = v
    BY <1>8, <2>2 DEF IInv, OwnersOK
  <2>5. \A v \in Workers : ~Queued(taskQueue', worker'[v].task)
    BY <1>8, <1>9 DEF IInv, OwnersOK
  <2>6. ASSUME NEW u \in Tasks
        PROVE  future'[u] = "pending" <=>
                 Queued(taskQueue', u) \/ \E v \in Workers : worker'[v].task = u
    <3>1. future'[u] = "pending" <=> Queued(taskQueue, u) \/ \E v \in Workers : worker[v].task = u
      BY <1>3 DEF IInv, OwnersOK, RunBy
    <3>2. CASE u = t
      BY <1>2, <1>8, <3>1, <3>2
    <3>3. CASE u # t
      BY <1>7, <1>8, <1>9, <3>1, <3>3
    <3>4. QED
      BY <3>2, <3>3
  <2>7. QED
    BY <2>1, <2>3, <2>4, <2>5, <2>6 DEF OwnersOK, RunBy
<1>11. QED
  BY <1>3, <1>6, <1>10, SameCaller DEF IInv

(* A task ends.                                                            *)
LEMMA CompleteKeeps ==
    ASSUME IInv, NEW w \in Workers, NEW outcome \in {"value", "error"},
           worker[w].at = "run", Complete(w, outcome)
    PROVE  IInv'
<1> DEFINE t == worker[w].task
           new == [at |-> "check", task |-> NoTask, next |-> 1]
<1>1. /\ future' = [future EXCEPT ![t] = outcome]
      /\ worker' = [worker EXCEPT ![w] = new]
      /\ UNCHANGED <<taskQueue, stop, caller>>
  BY DEF Complete
<1>2. t \in Tasks /\ ~Queued(taskQueue, t)
  BY DEF IInv, OwnersOK
<1>3. future[t] = "pending"
  BY <1>2 DEF IInv, OwnersOK, RunBy
<1>4. TypeOK'
  <2>1. new \in ThreadType
    BY Counts DEF WorkerPlaces, ThreadType
  <2>2. QED
    BY <1>1, <1>2, <2>1, TypesAre, TypesNext DEF IInv
<1>5. /\ worker'[w].at = "check" /\ worker'[w].task = NoTask
      /\ \A v \in Workers \ {w} : worker'[v] = worker[v]
  BY <1>1 DEF IInv, TypeOK
<1>6. future'[t] = outcome /\ \A u \in Tasks \ {t} : future'[u] = future[u]
  BY <1>1, <1>2 DEF IInv, TypeOK
<1> HIDE DEF t
<1>7. CallOK' /\ FreshOK'
  <2>1. CallOK'
    BY <1>1 DEF IInv, CallOK, Busy, Call, Kind
  <2>2. \A u \in Tasks : NotSubmitted(u)' <=> NotSubmitted(u)
    BY <1>1 DEF NotSubmitted, NotYet, Call, Kind
  <2>3. ~NotSubmitted(t)
    BY <1>2, <1>3 DEF IInv, FreshOK
  <2>4. QED
    BY <1>6, <2>1, <2>2, <2>3 DEF IInv, FreshOK
<1>8. OwnersOK'
  <2>1. \A u : Queued(taskQueue', u) <=> Queued(taskQueue, u)
    BY <1>1 DEF Queued
  <2>2. ~Queued(taskQueue, NoTask)
    BY TaskParts DEF Queued, IInv, TypeOK
  <2>3. \A v \in Workers : worker'[v].at = "run" <=> worker'[v].task \in Tasks
    BY <1>5, TaskParts DEF IInv, OwnersOK
  <2>4. \A u, v \in Workers :
          worker'[u].task \in Tasks /\ worker'[u].task = worker'[v].task => u = v
    BY <1>5, TaskParts DEF IInv, OwnersOK
  <2>5. \A v \in Workers : ~Queued(taskQueue', worker'[v].task)
    BY <1>5, <2>1, <2>2 DEF IInv, OwnersOK
  <2>6. ASSUME NEW u \in Tasks
        PROVE  future'[u] = "pending" <=>
                 Queued(taskQueue', u) \/ \E v \in Workers : worker'[v].task = u
    <3>1. future[u] = "pending" <=> Queued(taskQueue, u) \/ \E v \in Workers : worker[v].task = u
      BY DEF IInv, OwnersOK, RunBy
    <3>2. CASE u = t
      <4>1. \A v \in Workers \ {w} : worker[v].task # t
        BY <1>2 DEF IInv, OwnersOK, t
      <4>2. QED
        BY <1>2, <1>5, <1>6, <2>1, <3>2, <4>1, TaskParts
    <3>3. CASE u # t
      BY <1>5, <1>6, <2>1, <3>1, <3>3, TaskParts DEF t
    <3>4. QED
      BY <3>2, <3>3
  <2>7. QED
    BY <1>1, <2>3, <2>4, <2>5, <2>6 DEF OwnersOK, RunBy, IInv
<1>9. QED
  BY <1>4, <1>7, <1>8 DEF IInv

-----------------------------------------------------------------------------
(* The caller.                                                             *)

LEMMA CallType ==
    ASSUME TypeOK
    PROVE  /\ Call \in 0..NbCalls /\ Call \in Nat /\ caller.kinds \in Seq(Callers)
           /\ caller.group \in 1..NbGroups /\ caller.group \in Nat
           /\ caller.place \in 0..Cost /\ caller.place \in Nat
           /\ caller.at \in CallerPlaces
BY Counts DEF TypeOK, Call

(* What the caller does next, field by field.                              *)
Fields(r, c, at, g, p) ==
    r.at = at /\ r.group = g /\ r.place = p /\ r.kinds = c.kinds /\ r.error = c.error

LEMMA AfterSubmitIs ==
    ASSUME NEW c \in CallerType, NEW k
    PROVE  LET r == AfterSubmit(c, k) IN
           /\ r \in CallerType
           /\ \/ /\ c.place > 0 /\ c.place < Cost
                 /\ Fields(r, c, "submit", c.group, c.place + 1)
              \/ /\ c.place = 0 \/ c.place = Cost
                 /\ c.group = NbGroups /\ Fields(r, c, "get", 1, c.place)
              \/ c.place = 0 /\ c.group < NbGroups /\ Fields(r, c, "submit", c.group + 1, 0)
              \/ /\ c.place = Cost /\ c.group < NbGroups /\ HasCandidates(k)
                 /\ Fields(r, c, "get", c.group + 1, 0)
              \/ /\ c.place = Cost /\ c.group < NbGroups /\ ~HasCandidates(k)
                 /\ Fields(r, c, "submit", c.group + 1, 1)
<1> DEFINE r == AfterSubmit(c, k)
<1>1. /\ c.place \in Nat /\ c.place <= Cost /\ c.group \in Nat /\ c.group >= 1 /\ c.group <= NbGroups
      /\ c = [at |-> c.at, kinds |-> c.kinds, group |-> c.group, place |-> c.place, error |-> c.error]
      /\ c.kinds \in Seq(Callers) /\ c.error \in BOOLEAN
  BY Counts DEF CallerType
<1>2. "submit" \in CallerPlaces /\ "get" \in CallerPlaces
  BY DEF CallerPlaces
<1>3. CASE c.place > 0 /\ c.place < Cost
  <2>1. c.place \in 1..NbTasks /\ c.place + 1 \in 0..Cost
    BY <1>1, <1>3, Counts
  <2>2. r = [c EXCEPT !.at = "submit", !.place = c.place + 1]
    BY <2>1 DEF AfterSubmit
  <2> QED BY <1>1, <1>2, <1>3, <2>1, <2>2 DEF Fields, CallerType
<1>4. CASE c.place = 0 \/ c.place = Cost
  <2>1. c.place \notin 1..NbTasks /\ 1 \in 1..NbGroups /\ 0 \in 0..Cost /\ 1 \in 0..Cost
    BY <1>4, Counts
  <2>2. CASE c.group = NbGroups
    <3>1. r = [c EXCEPT !.at = "get", !.group = 1]
      BY <2>1, <2>2 DEF AfterSubmit
    <3> QED BY <1>1, <1>2, <1>4, <2>1, <2>2, <3>1 DEF Fields, CallerType
  <2>3. CASE c.group # NbGroups
    <3>1. c.group < NbGroups /\ c.group + 1 \in 1..NbGroups
      BY <1>1, <2>3, Counts
    <3>2. CASE c.place = 0
      <4>1. r = [c EXCEPT !.at = "submit", !.group = c.group + 1]
        BY <2>1, <2>3, <3>2 DEF AfterSubmit
      <4> QED BY <1>1, <1>2, <3>1, <3>2, <4>1 DEF Fields, CallerType
    <3>3. CASE c.place = Cost /\ HasCandidates(k)
      <4>1. c.place # 0
        BY <3>3, Counts
      <4>2. r = [c EXCEPT !.at = "get", !.group = c.group + 1, !.place = 0]
        BY <2>1, <2>3, <3>3, <4>1 DEF AfterSubmit
      <4> QED BY <1>1, <1>2, <2>1, <3>1, <3>3, <4>2 DEF Fields, CallerType
    <3>4. CASE c.place = Cost /\ ~HasCandidates(k)
      <4>1. c.place # 0
        BY <3>4, Counts
      <4>2. r = [c EXCEPT !.at = "submit", !.group = c.group + 1, !.place = 1]
        BY <2>1, <2>3, <3>4, <4>1 DEF AfterSubmit
      <4> QED BY <1>1, <1>2, <2>1, <3>1, <3>4, <4>2 DEF Fields, CallerType
    <3> QED BY <1>4, <3>2, <3>3, <3>4
  <2> QED BY <2>2, <2>3
<1> QED BY <1>1, <1>3, <1>4, Counts

LEMMA AfterGetIs ==
    ASSUME NEW c \in CallerType, c.at = "get", NEW k
    PROVE  LET r == AfterGet(c, k) IN
           /\ r \in CallerType
           /\ \/ c.place = 0 /\ Tries(k) /\ Fields(r, c, "submit", c.group, 1)
              \/ /\ c.place # 0 \/ ~Tries(k)
                 /\ c.group < NbGroups /\ Fields(r, c, "get", c.group + 1, c.place)
              \/ /\ c.place # 0 \/ ~Tries(k)
                 /\ c.group = NbGroups /\ Fields(r, c, "unwind", c.group, c.place)
<1> DEFINE r == AfterGet(c, k)
<1>1. /\ c.place \in Nat /\ c.group \in Nat /\ c.group >= 1 /\ c.group <= NbGroups
      /\ c = [at |-> c.at, kinds |-> c.kinds, group |-> c.group, place |-> c.place, error |-> c.error]
      /\ c.kinds \in Seq(Callers) /\ c.error \in BOOLEAN /\ c.place \in 0..Cost
  BY Counts DEF CallerType
<1>2. "submit" \in CallerPlaces /\ "get" \in CallerPlaces /\ "unwind" \in CallerPlaces
  BY DEF CallerPlaces
<1>3. CASE c.place = 0 /\ Tries(k)
  <2>1. 1 \in 0..Cost /\ r = [c EXCEPT !.at = "submit", !.place = 1]
    BY <1>3, Counts DEF AfterGet
  <2> QED BY <1>1, <1>2, <1>3, <2>1 DEF Fields, CallerType
<1>4. CASE ~(c.place = 0 /\ Tries(k)) /\ c.group < NbGroups
  <2>1. c.group + 1 \in 1..NbGroups /\ r = [c EXCEPT !.group = c.group + 1]
    BY <1>1, <1>4, Counts DEF AfterGet
  <2> QED BY <1>1, <1>2, <1>4, <2>1 DEF Fields, CallerType
<1>5. CASE ~(c.place = 0 /\ Tries(k)) /\ ~(c.group < NbGroups)
  <2>1. c.group = NbGroups /\ r = [c EXCEPT !.at = "unwind"]
    BY <1>1, <1>5, Counts DEF AfterGet
  <2> QED BY <1>1, <1>2, <1>5, <2>1 DEF Fields, CallerType
<1> QED BY <1>3, <1>4, <1>5

LEMMA StartCallKeeps ==
    ASSUME IInv, StartCall
    PROVE  IInv'
<1>1. PICK k \in Callers :
         caller' = [at |-> "submit", kinds |-> Append(caller.kinds, k), group |-> 1,
                    place |-> IF HasCandidates(k) THEN 0 ELSE 1, error |-> FALSE]
  BY DEF StartCall
<1>2. Call \in Nat /\ caller.kinds \in Seq(Callers) /\ Call < NbCalls
  BY CallType DEF IInv, StartCall
<1>3. /\ Append(caller.kinds, k) \in Seq(Callers)
      /\ Len(Append(caller.kinds, k)) = Call + 1
      /\ Append(caller.kinds, k)[Call + 1] = k
  BY <1>2 DEF Call
<1>4. Call' = Call + 1 /\ Kind' = k
  BY <1>1, <1>3 DEF Call, Kind
<1>5. TypeOK'
  <2>1. caller' \in CallerType
    BY <1>1, <1>3, Counts DEF CallerPlaces, CallerType
  <2>2. Len(caller'.kinds) <= NbCalls
    BY <1>1, <1>2, <1>3, Counts
  <2>3. QED
    BY <2>1, <2>2, TypesAre, TypesNext DEF StartCall, IInv, CallerType, TypeOK
<1>6. CallOK'
  BY <1>1, <1>2, <1>4 DEF CallOK, Busy, HasCandidates, Tries
<1>7. \A t \in Tasks : NotSubmitted(t)' => NotSubmitted(t)
  BY <1>2, <1>4, TaskParts DEF NotSubmitted
<1>8. FreshOK'
  BY <1>7 DEF StartCall, IInv, FreshOK
<1>9. OwnersOK'
  BY SameOwners DEF StartCall, IInv
<1>10. QED
  BY <1>5, <1>6, <1>8, <1>9 DEF IInv

(* The task that the caller submits or waits for.                          *)
LEMMA CurrentTask ==
    ASSUME IInv, Busy
    PROVE  /\ Current \in Tasks /\ Current[1] = Call /\ Current[2] = caller.group
           /\ Current[3] = caller.place /\ Call \in 1..NbCalls
<1>1. Call \in 1..NbCalls /\ caller.group \in 1..NbGroups /\ caller.place \in 0..Cost
  BY CallType, Counts DEF IInv, CallOK
<1> QED BY <1>1, TaskParts DEF Current

LEMMA SubmitKeeps ==
    ASSUME IInv, Submit
    PROVE  IInv'
<1> DEFINE t == Current
<1>1. caller.at = "submit" /\ Busy
  BY DEF Submit, Busy
<1>2. t \in Tasks /\ t[1] = Call /\ t[2] = caller.group /\ t[3] = caller.place
  BY <1>1, CurrentTask
<1>3. /\ taskQueue' = Append(taskQueue, t)
      /\ future' = [future EXCEPT ![t] = "pending"]
      /\ caller' = [caller EXCEPT !.at = "notify"]
      /\ UNCHANGED <<stop, worker>>
  BY DEF Submit
<1>4. future[t] = "none"
  <2>1. NotSubmitted(t)
    BY <1>1, <1>2, CallType DEF IInv, NotSubmitted, NotYet
  <2> QED BY <1>2, <2>1 DEF IInv, FreshOK
<1> HIDE DEF t
<1>5. TypeOK'
  <2>1. taskQueue' \in Seq(Tasks)
    BY <1>2, <1>3 DEF IInv, TypeOK
  <2>2. future' \in [Tasks -> {"none", "pending", "value", "error"}]
    BY <1>2, <1>3 DEF IInv, TypeOK
  <2>3. caller' \in CallerType /\ caller'.kinds = caller.kinds
    BY <1>3, TypesAre DEF IInv, CallerType, CallerPlaces
  <2>4. QED
    BY <1>3, <2>1, <2>2, <2>3, TypesAre, TypesNext DEF IInv, TypeOK, CallerType
<1>6. /\ caller'.at = "notify" /\ caller'.kinds = caller.kinds
      /\ caller'.group = caller.group /\ caller'.place = caller.place
  BY <1>3 DEF IInv, TypeOK
<1>7. Call' = Call /\ Kind' = Kind
  BY <1>6 DEF Call, Kind
<1>8. CallOK'
  BY <1>1, <1>6, <1>7 DEF IInv, CallOK, Busy
<1>9. future'[t] = "pending" /\ \A u \in Tasks \ {t} : future'[u] = future[u]
  BY <1>2, <1>3 DEF IInv, TypeOK
<1>10. FreshOK'
  <2>1. ASSUME NEW u \in Tasks, NotSubmitted(u)' PROVE NotSubmitted(u) /\ u # t
    <3>1. /\ u[1] \in Nat /\ u[2] \in Nat /\ u[3] \in Nat /\ Call \in Nat /\ caller.group \in Nat
          /\ caller.place \in Nat
      BY TaskParts, CallType DEF IInv
    <3>2. IF caller.place = 0 THEN HasCandidates(Kind) ELSE Tries(Kind)
      BY <1>1 DEF IInv, CallOK
    <3>3. QED
      BY <1>1, <1>2, <1>6, <1>7, <2>1, <3>1, <3>2 DEF NotSubmitted, NotYet
  <2>2. QED
    BY <1>9, <2>1 DEF IInv, FreshOK
<1>11. OwnersOK'
  <2> DEFINE n == Len(taskQueue)
  <2>1. ~Queued(taskQueue, t) /\ \A v \in Workers : worker[v].task # t
    BY <1>2, <1>4 DEF IInv, OwnersOK, RunBy
  <2>2. /\ n \in Nat /\ Len(taskQueue') = n + 1 /\ taskQueue'[n + 1] = t
        /\ \A i \in 1..n : taskQueue'[i] = taskQueue[i]
    BY <1>2, <1>3 DEF IInv, TypeOK
  <2> HIDE DEF n
  <2>3. \A u : Queued(taskQueue', u) <=> Queued(taskQueue, u) \/ u = t
    <3>1. ASSUME NEW u, NEW i \in 1..(n + 1), taskQueue'[i] = u
          PROVE  Queued(taskQueue, u) \/ u = t
      <4>1. i = n + 1 \/ i \in 1..n
        BY <2>2
      <4>2. QED
        BY <2>2, <3>1, <4>1 DEF Queued, n
    <3>2. ASSUME NEW u, NEW i \in 1..n, taskQueue[i] = u
          PROVE  Queued(taskQueue', u)
      <4>1. i \in 1..(n + 1) /\ taskQueue'[i] = u
        BY <2>2, <3>2
      <4>2. QED
        BY <2>2, <4>1 DEF Queued
    <3>3. Queued(taskQueue', t)
      <4>1. n + 1 \in 1..(n + 1)
        BY <2>2
      <4>2. QED
        BY <2>2, <4>1 DEF Queued
    <3>4. QED
      BY <2>2, <3>1, <3>2, <3>3 DEF Queued, n
  <2>4. ASSUME NEW i \in 1..(n + 1), NEW j \in 1..(n + 1),
               taskQueue'[i] = taskQueue'[j]
        PROVE  i = j
    <3>1. (i = n + 1 \/ i \in 1..n) /\ (j = n + 1 \/ j \in 1..n)
      BY <2>2
    <3>2. \A k \in 1..n : taskQueue[k] # t
      BY <2>1 DEF Queued, n
    <3>3. QED
      BY <2>2, <2>4, <3>1, <3>2 DEF IInv, OwnersOK, n
  <2>5. \A v \in Workers : ~Queued(taskQueue', worker'[v].task)
    BY <1>3, <2>1, <2>3 DEF IInv, OwnersOK
  <2>6. \A u \in Tasks : future'[u] = "pending" <=>
           Queued(taskQueue', u) \/ \E v \in Workers : worker'[v].task = u
    BY <1>3, <1>9, <2>3 DEF IInv, OwnersOK, RunBy
  <2>7. QED
    BY <1>3, <2>2, <2>4, <2>5, <2>6 DEF IInv, OwnersOK, RunBy
<1>12. QED
  BY <1>5, <1>8, <1>10, <1>11 DEF IInv

LEMMA NotifyKeeps ==
    ASSUME IInv, NotifyOne
    PROVE  IInv'
<1>1. /\ worker' \in [Workers -> ThreadType]
      /\ \A v \in Workers : /\ worker'[v].task = worker[v].task
                            /\ worker'[v].at = "run" <=> worker[v].at = "run"
  <2>1. CASE UNCHANGED worker
    BY <2>1, TypesAre DEF IInv
  <2>2. ASSUME NEW w \in Workers, worker[w].at = "asleep",
               worker' = [worker EXCEPT ![w].at = "check"]
        PROVE  /\ worker' \in [Workers -> ThreadType]
               /\ \A v \in Workers : /\ worker'[v].task = worker[v].task
                                     /\ worker'[v].at = "run" <=> worker[v].at = "run"
    <3>1. "check" \in WorkerPlaces
      BY DEF WorkerPlaces
    <3>2. QED
      BY <2>2, <3>1, MoveThread DEF IInv
  <2>3. QED
    BY <2>1, <2>2 DEF NotifyOne
<1>2. OwnersOK'
  BY <1>1, SameOwners DEF NotifyOne, IInv
<1>3. /\ caller \in CallerType /\ Call \in Nat /\ Call > 0 /\ caller.group \in Nat
      /\ caller.group >= 1 /\ caller.place \in Nat /\ caller.at = "notify"
      /\ IF caller.place = 0 THEN HasCandidates(Kind) ELSE Tries(Kind)
  BY TypesAre, CallType DEF IInv, CallOK, NotifyOne, Busy
<1>4. /\ caller' \in CallerType /\ caller'.kinds = caller.kinds
      /\ \/ /\ caller.place > 0 /\ caller.place < Cost
            /\ Fields(caller', caller, "submit", caller.group, caller.place + 1)
         \/ /\ caller.place = 0 \/ caller.place = Cost
            /\ caller.group = NbGroups /\ Fields(caller', caller, "get", 1, caller.place)
         \/ caller.place = 0 /\ Fields(caller', caller, "submit", caller.group + 1, 0)
         \/ /\ caller.place = Cost /\ HasCandidates(Kind)
            /\ Fields(caller', caller, "get", caller.group + 1, 0)
         \/ /\ caller.place = Cost /\ ~HasCandidates(Kind)
            /\ Fields(caller', caller, "submit", caller.group + 1, 1)
  <2>1. caller' = AfterSubmit(caller, Kind)
    BY DEF NotifyOne
  <2> QED BY <1>3, <2>1, AfterSubmitIs DEF Fields
<1>5. TypeOK'
  BY <1>1, <1>4, TypesAre, TypesNext DEF NotifyOne, IInv, TypeOK, CallerType
<1>6. Call' = Call /\ Kind' = Kind
  BY <1>4 DEF Call, Kind
<1>7. CallOK'
  BY <1>3, <1>4, <1>6, Counts DEF CallOK, Busy, Fields
<1>8. ASSUME NEW t \in Tasks, NotSubmitted(t)' PROVE NotSubmitted(t)
  <2>1. t[1] \in Nat /\ t[2] \in Nat /\ t[2] >= 1 /\ t[3] \in Nat /\ Cost \in Nat
    BY TaskParts, Counts
  <2>2. SUFFICES ASSUME t[1] = Call, NotYet(t[2], t[3])' PROVE NotYet(t[2], t[3])
    BY <1>6, <1>8 DEF NotSubmitted
  <2>3. CASE /\ caller.place > 0 /\ caller.place < Cost
             /\ Fields(caller', caller, "submit", caller.group, caller.place + 1)
    BY <1>3, <1>6, <2>1, <2>2, <2>3 DEF NotYet, Fields
  <2>4. CASE /\ caller.place = 0 \/ caller.place = Cost
             /\ caller.group = NbGroups /\ Fields(caller', caller, "get", 1, caller.place)
    BY <1>3, <1>6, <2>1, <2>2, <2>4, Counts DEF NotYet, Fields
  <2>5. CASE caller.place = 0 /\ Fields(caller', caller, "submit", caller.group + 1, 0)
    BY <1>3, <1>6, <2>1, <2>2, <2>5 DEF NotYet, Fields
  <2>6. CASE caller.place = Cost /\ Fields(caller', caller, "get", caller.group + 1, 0)
    BY <1>3, <1>6, <2>1, <2>2, <2>6, Counts DEF NotYet, Fields
  <2>7. CASE caller.place = Cost /\ Fields(caller', caller, "submit", caller.group + 1, 1)
    BY <1>3, <1>6, <2>1, <2>2, <2>7, Counts DEF NotYet, Fields
  <2> QED BY <1>4, <2>3, <2>4, <2>5, <2>6, <2>7
<1>9. FreshOK'
  BY <1>8 DEF NotifyOne, IInv, FreshOK
<1> QED BY <1>2, <1>5, <1>7, <1>9 DEF IInv

(* Getting a future: what comes next.                                      *)
LEMMA GetIs ==
    ASSUME IInv, GetFuture
    PROVE  /\ caller.at = "get" /\ Busy /\ caller' \in CallerType /\ caller'.kinds = caller.kinds
           /\ \/ caller'.at = "unwind" /\ future[Current] = "error" /\ LeavesOnError(Kind)
              \/ /\ caller.place = 0 /\ Tries(Kind)
                 /\ caller'.at = "submit" /\ caller'.group = caller.group /\ caller'.place = 1
              \/ /\ caller.place # 0 \/ ~Tries(Kind)
                 /\ caller'.at = "get" /\ caller'.group = caller.group + 1
                 /\ caller'.place = caller.place
              \/ /\ caller.place # 0 \/ ~Tries(Kind)
                 /\ caller'.at = "unwind" /\ caller.group = NbGroups
<1> DEFINE failed == future[Current] = "error"
           c == [caller EXCEPT !.error = @ \/ failed]
<1>1. caller.at = "get" /\ Busy /\ caller \in CallerType
  BY TypesAre DEF IInv, GetFuture, Busy
<1>2. caller' = IF failed /\ LeavesOnError(Kind)
                THEN [caller EXCEPT !.at = "unwind", !.error = TRUE]
                ELSE AfterGet(c, Kind)
  BY DEF GetFuture
<1>3. CASE failed /\ LeavesOnError(Kind)
  BY <1>1, <1>2, <1>3 DEF CallerType, CallerPlaces
<1>4. CASE ~(failed /\ LeavesOnError(Kind))
  <2>1. (caller.error \/ failed) \in BOOLEAN
    BY <1>1 DEF CallerType
  <2> HIDE DEF failed
  <2>2. /\ c \in CallerType /\ c.at = "get" /\ c.group = caller.group /\ c.place = caller.place
        /\ c.kinds = caller.kinds
    BY <1>1, <2>1 DEF CallerType
  <2>3. caller' = AfterGet(c, Kind)
    BY <1>2, <1>4
  <2> HIDE DEF c
  <2> QED BY <1>1, <2>2, <2>3, AfterGetIs DEF Fields
<1> QED BY <1>3, <1>4

LEMMA GetKeeps ==
    ASSUME IInv, GetFuture
    PROVE  IInv'
<1>1. /\ caller.at = "get" /\ Call \in Nat /\ Call > 0 /\ caller.group \in Nat /\ caller.place \in Nat
      /\ IF caller.place = 0 THEN HasCandidates(Kind) ELSE Tries(Kind)
      /\ caller.place = 0 \/ caller.place = Cost
  BY GetIs, CallType DEF IInv, CallOK, Busy
<1>2. /\ caller' \in CallerType /\ caller'.kinds = caller.kinds
      /\ \/ caller'.at = "unwind"
         \/ /\ caller.place = 0 /\ Tries(Kind)
            /\ caller'.at = "submit" /\ caller'.group = caller.group /\ caller'.place = 1
         \/ caller'.at = "get" /\ caller'.group = caller.group + 1 /\ caller'.place = caller.place
  BY GetIs
<1>3. Call' = Call /\ Kind' = Kind
  BY <1>2 DEF Call, Kind
<1>4. TypeOK'
  BY <1>2, TypesAre, TypesNext DEF GetFuture, IInv, TypeOK, CallerType
<1>5. CallOK'
  BY <1>1, <1>2, <1>3 DEF CallOK, Busy
<1>6. ASSUME NEW t \in Tasks, NotSubmitted(t)' PROVE NotSubmitted(t)
  <2>1. t[1] \in Nat /\ t[2] \in Nat /\ t[3] \in Nat
    BY TaskParts
  <2>2. SUFFICES ASSUME t[1] = Call, NotYet(t[2], t[3])' PROVE NotYet(t[2], t[3])
    BY <1>3, <1>6 DEF NotSubmitted
  <2>3. CASE caller'.at = "unwind"
    BY <1>3, <2>2, <2>3 DEF NotYet
  <2>4. CASE caller.place = 0 /\ caller'.at = "submit" /\ caller'.group = caller.group /\ caller'.place = 1
    BY <1>1, <1>3, <2>1, <2>2, <2>4 DEF NotYet
  <2>5. CASE caller'.at = "get" /\ caller'.group = caller.group + 1 /\ caller'.place = caller.place
    BY <1>1, <1>3, <2>1, <2>2, <2>5 DEF NotYet
  <2> QED BY <1>2, <2>3, <2>4, <2>5
<1>7. FreshOK'
  BY <1>6 DEF GetFuture, IInv, FreshOK
<1>8. OwnersOK'
  BY SameOwners DEF GetFuture, IInv
<1>9. QED
  BY <1>4, <1>5, <1>7, <1>8 DEF IInv

(* Leaving the scope, and the destructor.                                  *)
LEMMA LeaveKeeps ==
    ASSUME IInv, LeaveScope \/ SetStop \/ NotifyAll \/ JoinThreads
    PROVE  IInv'
<1>1. PICK place \in CallerPlaces \ {"submit", "notify", "get", "unwind"} :
         caller' = [caller EXCEPT !.at = place]
  BY DEF LeaveScope, SetStop, NotifyAll, JoinThreads, CallerPlaces
<1>2. caller' \in CallerType /\ caller'.kinds = caller.kinds /\ caller'.at = place
  BY <1>1, TypesAre DEF IInv, CallerType
<1>3. UNCHANGED <<taskQueue, future>> /\ stop' \in BOOLEAN
  BY DEF LeaveScope, SetStop, NotifyAll, JoinThreads, IInv, TypeOK
<1>4. /\ worker' \in [Workers -> ThreadType]
      /\ \A v \in Workers : /\ worker'[v].task = worker[v].task
                            /\ worker'[v].at = "run" <=> worker[v].at = "run"
  <2>1. CASE UNCHANGED worker
    BY <2>1, TypesAre DEF IInv
  <2>2. CASE worker' = WakeAll(worker)
    BY <2>2, TypesAre DEF WakeAll, IInv, ThreadType, WorkerPlaces
  <2>3. QED
    BY <2>1, <2>2 DEF LeaveScope, SetStop, NotifyAll, JoinThreads
<1>5. TypeOK'
  BY <1>2, <1>3, <1>4, TypesAre, TypesNext DEF IInv, TypeOK, ThreadType, CallerType
<1>6. Call' = Call /\ Kind' = Kind
  BY <1>2 DEF Call, Kind
<1>7. CallOK' /\ \A t \in Tasks : NotSubmitted(t)' => NotSubmitted(t)
  BY <1>2, <1>6 DEF CallOK, Busy, NotSubmitted, NotYet
<1>8. FreshOK'
  BY <1>3, <1>7 DEF IInv, FreshOK
<1>9. OwnersOK'
  BY <1>3, <1>4, SameOwners DEF IInv
<1> QED BY <1>5, <1>7, <1>8, <1>9 DEF IInv

-----------------------------------------------------------------------------
(* Types, and who has which task.                                          *)

LEMMA RunKeeps ==
    ASSUME IInv, NEW w \in Workers, RunTask(w) \/ RunCost(w)
    PROVE  IInv'
<1>1. worker[w].at = "run"
  BY DEF RunTask, RunCost
<1>2. ASSUME NEW outcome \in {"value", "error"}, Complete(w, outcome) PROVE IInv'
  BY <1>1, <1>2, CompleteKeeps
<1>3. CASE /\ worker' = [worker EXCEPT ![w].next = @ + 1] /\ worker[w].next < Cost
           /\ UNCHANGED <<taskQueue, stop, future, caller>>
  <2>1. worker[w].next + 1 \in 1..Cost
    BY <1>3, Counts DEF IInv, TypeOK
  <2>2. /\ worker' \in [Workers -> ThreadType]
        /\ \A v \in Workers : /\ worker'[v].task = worker[v].task
                              /\ worker'[v].at = worker[v].at
    BY <1>3, <2>1, TypesAre DEF IInv, ThreadType
  <2>3. TypeOK'
    BY <1>3, <2>2, TypesAre, TypesNext DEF IInv, TypeOK, ThreadType
  <2>4. QED
    BY <1>3, <2>2, <2>3, SameOwners, SameCaller DEF IInv
<1>4. QED
  BY <1>2, <1>3 DEF RunTask, RunCost

LEMMA StepKeeps == IInv /\ [Next]_vars => IInv'
<1> SUFFICES ASSUME IInv, [Next]_vars PROVE IInv'
  OBVIOUS
<1>1. ASSUME NEW w \in Workers, WorkerStep(w) \/ SpuriousWakeup(w) PROVE IInv'
  BY <1>1, IdleThreadKeeps, PopKeeps, RunKeeps DEF WorkerStep
<1>2. CASE CallerStep
  BY <1>2, StartCallKeeps, SubmitKeeps, NotifyKeeps, GetKeeps, LeaveKeeps
     DEF CallerStep
<1>3. CASE UNCHANGED vars
  BY <1>3, SameOwners, SameCaller DEF vars, IInv, TypeOK
<1>4. QED
  BY <1>1, <1>2, <1>3 DEF Next, Done

(* The invariant holds always.                                             *)
THEOREM Inductive == Spec => []IInv
BY InitOK, StepKeeps, PTL DEF Spec

(* Every variable of the pool and of its caller keeps its type.            *)
THEOREM TypeCorrect == Spec => []TypeOK
<1>1. IInv => TypeOK
  BY DEF IInv
<1>2. QED
  BY <1>1, Inductive, PTL

(* A pending task is in the queue or with one thread, once, for any number *)
(* of threads, tasks and calls, with spurious wakeups, exceptions and a    *)
(* destructor that comes early (ThreadPool::run, ThreadPool::ThreadPool).  *)
THEOREM TaskHasOneOwner == Spec => []OneOwnerPerTask
<1>1. ASSUME IInv, NEW t \in Tasks
      PROVE  Cardinality({i \in DOMAIN taskQueue : taskQueue[i] = t})
               + Cardinality({w \in Workers : worker[w].task = t})
               = IF future[t] = "pending" THEN 1 ELSE 0
  <2> USE <1>1
  <2> DEFINE queued == {i \in DOMAIN taskQueue : taskQueue[i] = t}
             running == {w \in Workers : worker[w].task = t}
  <2>1. DOMAIN taskQueue = 1..Len(taskQueue)
    BY DEF IInv, TypeOK
  <2>2. CASE Queued(taskQueue, t)
    <3>1. PICK i \in 1..Len(taskQueue) : taskQueue[i] = t
      BY <2>2 DEF Queued
    <3>2. queued = {i}
      BY <2>1, <3>1 DEF IInv, OwnersOK
    <3>3. running = {}
      BY <2>2 DEF IInv, OwnersOK
    <3>4. future[t] = "pending"
      BY <2>2 DEF IInv, OwnersOK
    <3>5. Cardinality(queued) = 1 /\ Cardinality(running) = 0
      BY <3>2, <3>3, FS_Singleton, FS_EmptySet
    <3>6. QED
      BY <3>4, <3>5
  <2>3. CASE ~Queued(taskQueue, t) /\ \E w \in Workers : worker[w].task = t
    <3>1. PICK w \in Workers : worker[w].task = t
      BY <2>3
    <3>2. running = {w}
      BY <3>1 DEF IInv, OwnersOK
    <3>3. queued = {}
      BY <2>1, <2>3 DEF Queued
    <3>4. future[t] = "pending"
      BY <3>1 DEF IInv, OwnersOK, RunBy
    <3>5. Cardinality(queued) = 0 /\ Cardinality(running) = 1
      BY <3>2, <3>3, FS_Singleton, FS_EmptySet
    <3>6. QED
      BY <3>4, <3>5
  <2>4. CASE ~Queued(taskQueue, t) /\ ~\E w \in Workers : worker[w].task = t
    <3>1. queued = {} /\ running = {}
      BY <2>1, <2>4 DEF Queued
    <3>2. future[t] # "pending"
      BY <2>4 DEF IInv, OwnersOK, RunBy
    <3>3. Cardinality(queued) = 0 /\ Cardinality(running) = 0
      BY <3>1, FS_EmptySet
    <3>4. QED
      BY <3>2, <3>3
  <2>5. QED
    BY <2>2, <2>3, <2>4
<1>2. IInv => OneOwnerPerTask
  BY <1>1 DEF OneOwnerPerTask
<1>3. QED
  BY <1>2, Inductive, PTL

-----------------------------------------------------------------------------
(* Joining.                                                                *)

LEMMA JInitOK == Init => JInv
<1> SUFFICES ASSUME Init PROVE JInv
  OBVIOUS
<1>1. \A t \in Tasks : future[t] = "none"
  BY DEF Init
<1>2. caller.at = "idle"
  BY DEF Init
<1>3. \A w \in Workers : worker[w].at # "run"
  BY DEF Init
<1>4. QED
  BY <1>1, <1>2, <1>3 DEF JInv, CostsOK, ReadOK, Got, ScopesOK

(* The samples of a cost task.                                             *)
LEMMA Sample ==
    ASSUME NEW t \in Tasks, NEW d \in 1..NbTasks
    PROVE  <<t[1], t[2], d>> \in Tasks
<1>1. d \in 0..Cost
  BY Counts
<1> QED BY <1>1, TaskParts

(* A task that was submitted is of a call that was made.                   *)
LEMMA SubmittedStarted ==
    ASSUME IInv, NEW t \in Tasks, future[t] # "none"
    PROVE  t[1] \in 1..Call
BY TaskParts, CallType DEF IInv, FreshOK, NotSubmitted

LEMMA RunningStarted ==
    ASSUME IInv, NEW w \in Workers, worker[w].at = "run"
    PROVE  /\ worker[w].task \in Tasks /\ future[worker[w].task] = "pending"
           /\ worker[w].next \in 1..Cost
<1>1. worker[w].task \in Tasks
  BY DEF IInv, OwnersOK
<1>2. future[worker[w].task] = "pending"
  BY <1>1 DEF IInv, OwnersOK, RunBy
<1>3. QED
  BY <1>1, <1>2 DEF IInv, TypeOK

(* Nobody completes a task: what was ready and who threw stays.            *)
LEMMA FutureStays ==
    ASSUME UNCHANGED future
    PROVE  /\ \A t : Ready(t)' <=> future[t] \in {"value", "error"}
           /\ \A c : Threw(c)' <=> Threw(c)
BY DEF Ready, Threw

(* Threads move and no future changes.                                     *)
LEMMA ThreadsMove ==
    ASSUME JInv, UNCHANGED <<future, caller>>,
           \A v \in Workers : \A d \in 1..NbTasks :
             worker'[v].at = "run" /\ worker'[v].task[3] = Cost /\ d < worker'[v].next
             => Ready(<<worker'[v].task[1], worker'[v].task[2], d>>)
    PROVE  JInv'
<1>1. ScopesOK'
  BY DEF JInv, ScopesOK, MayOutlive, Threw, Call, ScopeAlive, OwnsWhatItUses
<1>2. ReadOK'
  BY DEF JInv, ReadOK, Got, Kind, Call, Ready
<1>3. CostsOK'
  BY DEF JInv, CostsOK, Ready
<1>4. QED
  BY <1>1, <1>2, <1>3 DEF JInv

(* The caller moves, the threads keep their tasks.                         *)
LEMMA CallerStays ==
    ASSUME JInv, UNCHANGED future,
           \A v \in Workers : /\ worker'[v].task = worker[v].task
                              /\ worker'[v].next = worker[v].next
                              /\ worker'[v].at = "run" <=> worker[v].at = "run"
    PROVE  CostsOK'
<1>1. ASSUME NEW v \in Workers, NEW d \in 1..NbTasks,
             worker'[v].at = "run", worker'[v].task[3] = Cost, d < worker'[v].next
      PROVE  Ready(<<worker'[v].task[1], worker'[v].task[2], d>>)
  BY <1>1 DEF JInv, CostsOK
<1> QED BY <1>1 DEF JInv, CostsOK, Ready

(* A task ends, and a cost task with a value only after all its samples.   *)
LEMMA TaskEnds ==
    ASSUME IInv, JInv, NEW w \in Workers, NEW outcome \in {"value", "error"},
           worker[w].at = "run", Complete(w, outcome),
           outcome = "value" /\ worker[w].task[3] = Cost => worker[w].next = Cost
    PROVE  JInv'
<1> DEFINE t == worker[w].task
<1>1. t \in Tasks /\ future[t] = "pending"
  BY RunningStarted
<1>2. /\ future' = [future EXCEPT ![t] = outcome]
      /\ worker' = [worker EXCEPT ![w] = [at |-> "check", task |-> NoTask, next |-> 1]]
      /\ UNCHANGED caller
  BY DEF Complete
<1>3. /\ worker'[w].at = "check"
      /\ \A v \in Workers \ {w} : worker'[v] = worker[v]
  BY <1>2 DEF IInv, TypeOK
<1>4. future'[t] = outcome /\ \A u \in Tasks \ {t} : future'[u] = future[u]
  BY <1>1, <1>2 DEF IInv, TypeOK
<1> HIDE DEF t
<1>5. \A u \in Tasks : Ready(u) => future'[u] \in {"value", "error"}
  BY <1>4 DEF Ready
<1>6. Call' = Call /\ Kind' = Kind
  BY <1>2 DEF Call, Kind
<1>7. ScopesOK'
  <2>1. \A c : Threw(c) => Threw(c)'
    BY <1>1, <1>4 DEF Threw
  <2>2. \A c : MayOutlive(c) => MayOutlive(c)'
    BY <1>2, <1>6, <2>1 DEF MayOutlive, ScopeAlive, OwnsWhatItUses
  <2> QED BY <1>4, <2>2 DEF JInv, ScopesOK
<1>8. ReadOK'
  <2> SUFFICES ASSUME NEW g \in 1..NbGroups, NEW p \in 0..Cost, Got(g, p)'
               PROVE  Ready(<<Call, g, p>>)'
    BY DEF ReadOK
  <2>1. Got(g, p)
    BY <1>2, <1>6 DEF Got
  <2>2. Ready(<<Call, g, p>>)
    BY <2>1 DEF JInv, ReadOK
  <2>3. Call \in 1..NbCalls
    BY <2>1, CallType DEF IInv, CallOK, Busy, Got
  <2>4. future'[<<Call, g, p>>] \in {"value", "error"}
    BY <1>5, <2>2, <2>3, TaskParts
  <2> QED BY <1>6, <2>4 DEF Ready
<1>9. ASSUME NEW u \in Tasks, NEW d \in 1..NbTasks, u[3] = Cost, future'[u] = "value"
      PROVE  future'[<<u[1], u[2], d>>] \in {"value", "error"}
  <2>1. <<u[1], u[2], d>> \in Tasks
    BY Sample
  <2>2. CASE u # t
    BY <1>4, <1>5, <1>9, <2>1, <2>2 DEF JInv, CostsOK
  <2>3. CASE u = t
    <3>1. outcome = "value" /\ worker[w].next = Cost
      BY <1>4, <1>9, <2>3 DEF t
    <3>2. d < worker[w].next
      BY <3>1, Counts
    <3>3. Ready(<<u[1], u[2], d>>)
      BY <1>9, <2>3, <3>2 DEF JInv, CostsOK, t
    <3>4. QED
      BY <1>5, <2>1, <3>3
  <2>4. QED
    BY <2>2, <2>3
<1>10. ASSUME NEW v \in Workers, NEW d \in 1..NbTasks,
              worker'[v].at = "run", worker'[v].task[3] = Cost, d < worker'[v].next
       PROVE  future'[<<worker'[v].task[1], worker'[v].task[2], d>>] \in {"value", "error"}
  <2> DEFINE u == worker[v].task
  <2>1. v # w /\ worker'[v] = worker[v]
    BY <1>3, <1>10
  <2>2. u \in Tasks
    BY <1>10, <2>1, RunningStarted
  <2>3. Ready(<<u[1], u[2], d>>)
    BY <1>10, <2>1 DEF JInv, CostsOK
  <2>4. <<u[1], u[2], d>> \in Tasks
    BY <2>2, Sample
  <2>5. future'[<<u[1], u[2], d>>] \in {"value", "error"}
    BY <1>5, <2>3, <2>4
  <2> QED BY <2>1, <2>5
<1>11. CostsOK'
  BY <1>9, <1>10 DEF CostsOK, Ready
<1> QED BY <1>7, <1>8, <1>11 DEF JInv

LEMMA ThreadStepJ ==
    ASSUME IInv, JInv, NEW w \in Workers, WorkerStep(w) \/ SpuriousWakeup(w)
    PROVE  JInv'
<1>1. CASE Sleep(w) \/ SpuriousWakeup(w) \/ WorkerExit(w)
  <2>1. PICK place \in WorkerPlaces \ {"run"} :
           worker' = [worker EXCEPT ![w].at = place]
    BY <1>1 DEF Sleep, SpuriousWakeup, WorkerExit, WorkerPlaces
  <2>2. worker'[w].at # "run" /\ \A v \in Workers \ {w} : worker'[v] = worker[v]
    BY <2>1, MoveThread DEF IInv
  <2>3. UNCHANGED <<future, caller>>
    BY <1>1 DEF Sleep, SpuriousWakeup, WorkerExit
  <2>4. \A v \in Workers : \A d \in 1..NbTasks :
             worker'[v].at = "run" /\ worker'[v].task[3] = Cost /\ d < worker'[v].next
             => Ready(<<worker'[v].task[1], worker'[v].task[2], d>>)
    BY <2>2 DEF JInv, CostsOK
  <2>5. QED
    BY <2>3, <2>4, ThreadsMove
<1>2. CASE Pop(w)
  <2>1. worker'[w].next = 1 /\ \A v \in Workers \ {w} : worker'[v] = worker[v]
    BY <1>2 DEF Pop, IInv, TypeOK
  <2>2. UNCHANGED <<future, caller>>
    BY <1>2 DEF Pop
  <2>3. \A v \in Workers : \A d \in 1..NbTasks :
             worker'[v].at = "run" /\ worker'[v].task[3] = Cost /\ d < worker'[v].next
             => Ready(<<worker'[v].task[1], worker'[v].task[2], d>>)
    BY <2>1, Counts DEF JInv, CostsOK
  <2>4. QED
    BY <2>2, <2>3, ThreadsMove
<1>3. CASE RunTask(w)
  BY <1>3, TaskEnds DEF RunTask
<1>4. CASE RunCost(w)
  <2> DEFINE t == worker[w].task
             n == worker[w].next
             u == <<t[1], t[2], n>>
  <2>1. worker[w].at = "run" /\ t[3] = Cost
    BY <1>4 DEF RunCost
  <2>2. t \in Tasks /\ future[t] = "pending" /\ n \in 1..Cost
    BY <2>1, RunningStarted
  <2>3. CASE n = Cost /\ Complete(w, "value")
    BY <2>1, <2>3, TaskEnds
  <2>4. CASE Complete(w, "error")
    BY <2>1, <2>4, TaskEnds
  <2>5. CASE /\ n < Cost /\ future[u] = "value"
             /\ worker' = [worker EXCEPT ![w].next = @ + 1]
             /\ UNCHANGED <<taskQueue, stop, future, caller>>
    <3>1. /\ worker'[w].at = "run" /\ worker'[w].task = t /\ worker'[w].next = n + 1
          /\ \A v \in Workers \ {w} : worker'[v] = worker[v]
      BY <2>1, <2>5 DEF IInv, TypeOK
    <3>2. ASSUME NEW d \in 1..NbTasks, d < n + 1
          PROVE  Ready(<<t[1], t[2], d>>)
      <4>1. CASE d = n
        BY <2>5, <4>1 DEF Ready
      <4>2. CASE d # n
        <5>1. d < n
          BY <2>2, <3>2, <4>2, Counts
        <5>2. QED
          BY <2>1, <5>1 DEF JInv, CostsOK
      <4>3. QED
        BY <4>1, <4>2
    <3>3. \A v \in Workers : \A d \in 1..NbTasks :
             worker'[v].at = "run" /\ worker'[v].task[3] = Cost /\ d < worker'[v].next
             => Ready(<<worker'[v].task[1], worker'[v].task[2], d>>)
      BY <3>1, <3>2 DEF JInv, CostsOK
    <3>4. QED
      BY <2>5, <3>3, ThreadsMove
  <2>6. QED
    BY <1>4, <2>3, <2>4, <2>5 DEF RunCost
<1>5. QED
  BY <1>1, <1>2, <1>3, <1>4 DEF WorkerStep

(* The caller's steps.                                                     *)
LEMMA StartCallJ ==
    ASSUME IInv, JInv, StartCall
    PROVE  JInv'
<1>1. PICK k \in Callers :
         caller' = [at |-> "submit", kinds |-> Append(caller.kinds, k), group |-> 1,
                    place |-> IF HasCandidates(k) THEN 0 ELSE 1, error |-> FALSE]
  BY DEF StartCall
<1>2. Call \in Nat /\ caller.kinds \in Seq(Callers) /\ UNCHANGED <<worker, future>>
  BY CallType DEF IInv, StartCall
<1>3. Call' = Call + 1 /\ caller'.at = "submit" /\ Kind' = k
      /\ \A c \in 1..Call : caller'.kinds[c] = caller.kinds[c]
  BY <1>1, <1>2 DEF Call, Kind
<1>4. CostsOK'
  BY <1>2, CallerStays
<1>5. ReadOK'
  BY <1>1, <1>3 DEF ReadOK, Got
<1>6. ASSUME NEW t \in Tasks, future[t] = "pending"
      PROVE  MayOutlive(t[1])'
  <2>1. t[1] \in 1..Call /\ MayOutlive(t[1])
    BY <1>6, SubmittedStarted DEF JInv, ScopesOK
  <2>2. \/ caller.kinds[t[1]] = "shared"
        \/ caller.kinds[t[1]] # "join" /\ Threw(t[1])
    BY <2>1 DEF MayOutlive, ScopeAlive, OwnsWhatItUses, StartCall
  <2>3. Threw(t[1])' <=> Threw(t[1])
    BY <1>2, FutureStays
  <2> QED BY <1>3, <2>1, <2>2, <2>3 DEF MayOutlive, ScopeAlive, OwnsWhatItUses
<1>7. ScopesOK'
  BY <1>2, <1>6 DEF ScopesOK
<1> QED BY <1>4, <1>5, <1>7 DEF JInv

LEMMA SubmitJ ==
    ASSUME IInv, JInv, Submit
    PROVE  JInv'
<1> DEFINE t == Current
<1>1. caller.at = "submit" /\ Busy
  BY DEF Submit, Busy
<1>2. t \in Tasks /\ t[1] = Call /\ t[2] = caller.group /\ t[3] = caller.place /\ Call \in 1..NbCalls
  BY <1>1, CurrentTask
<1>3. future[t] = "none"
  <2>1. NotSubmitted(t)
    BY <1>1, <1>2, CallType DEF IInv, NotSubmitted, NotYet
  <2> QED BY <1>2, <2>1 DEF IInv, FreshOK
<1>4. UNCHANGED worker /\ future' = [future EXCEPT ![t] = "pending"]
  BY DEF Submit
<1>5. /\ caller'.at = "notify" /\ caller'.kinds = caller.kinds
      /\ caller'.group = caller.group /\ caller'.place = caller.place
  BY DEF Submit, IInv, TypeOK
<1> HIDE DEF t
<1>6. Call' = Call /\ Kind' = Kind
  BY <1>5 DEF Call, Kind
<1>7. future'[t] = "pending" /\ \A u \in Tasks \ {t} : future'[u] = future[u]
  BY <1>2, <1>4 DEF IInv, TypeOK
<1>8. \A u \in Tasks : Ready(u) => future'[u] \in {"value", "error"}
  BY <1>3, <1>7 DEF Ready
<1>9. ReadOK'
  <2> SUFFICES ASSUME NEW g \in 1..NbGroups, NEW p \in 0..Cost, Got(g, p)'
               PROVE  Ready(<<Call, g, p>>)'
    BY DEF ReadOK
  <2>1. Got(g, p)
    BY <1>1, <1>5, <1>6 DEF Got
  <2>2. Ready(<<Call, g, p>>)
    BY <2>1 DEF JInv, ReadOK
  <2>3. future'[<<Call, g, p>>] \in {"value", "error"}
    BY <1>2, <1>8, <2>2, TaskParts
  <2> QED BY <1>6, <2>3 DEF Ready
<1>10. ASSUME NEW u \in Tasks, NEW d \in 1..NbTasks, u[3] = Cost, future'[u] = "value"
       PROVE  future'[<<u[1], u[2], d>>] \in {"value", "error"}
  <2>1. future[u] = "value"
    BY <1>7, <1>10
  <2>2. <<u[1], u[2], d>> \in Tasks /\ Ready(<<u[1], u[2], d>>)
    BY <1>10, <2>1, Sample DEF JInv, CostsOK
  <2>3. QED
    BY <1>8, <2>2
<1>11. ASSUME NEW v \in Workers, NEW d \in 1..NbTasks,
              worker[v].at = "run", worker[v].task[3] = Cost, d < worker[v].next
       PROVE  future'[<<worker[v].task[1], worker[v].task[2], d>>] \in {"value", "error"}
  <2>1. worker[v].task \in Tasks
    BY <1>11, RunningStarted
  <2>2. <<worker[v].task[1], worker[v].task[2], d>> \in Tasks
    BY <2>1, Sample
  <2>3. Ready(<<worker[v].task[1], worker[v].task[2], d>>)
    BY <1>11 DEF JInv, CostsOK
  <2> QED BY <1>8, <2>2, <2>3
<1>12. CostsOK'
  BY <1>4, <1>10, <1>11 DEF CostsOK, Ready
<1>13. ScopesOK'
  <2>1. \A c : Threw(c) => Threw(c)'
    BY <1>2, <1>3, <1>7 DEF Threw
  <2>2. \A c : MayOutlive(c) => MayOutlive(c)'
    BY <1>1, <1>5, <1>6, <2>1 DEF MayOutlive, ScopeAlive, OwnsWhatItUses
  <2>3. \A c : c = Call => MayOutlive(c)'
    BY <1>5, <1>6 DEF MayOutlive, ScopeAlive, OwnsWhatItUses
  <2>4. ASSUME NEW u \in Tasks, future'[u] = "pending" PROVE MayOutlive(u[1])'
    <3>1. CASE u = t
      BY <1>2, <2>3, <3>1
    <3>2. CASE u # t
      BY <1>7, <2>2, <2>4, <3>2 DEF JInv, ScopesOK
    <3>3. QED
      BY <3>1, <3>2
  <2>5. QED
    BY <2>4 DEF ScopesOK
<1>14. QED
  BY <1>9, <1>12, <1>13 DEF JInv

LEMMA NotifyJ ==
    ASSUME IInv, JInv, NotifyOne
    PROVE  JInv'
<1>1. \A v \in Workers : /\ worker'[v].task = worker[v].task
                         /\ worker'[v].next = worker[v].next
                         /\ worker'[v].at = "run" <=> worker[v].at = "run"
  BY DEF NotifyOne, IInv, TypeOK
<1>2. /\ UNCHANGED future /\ caller.at = "notify" /\ caller' = AfterSubmit(caller, Kind)
  BY DEF NotifyOne
<1>3. /\ caller \in CallerType /\ caller.group \in Nat /\ caller.place \in Nat
  BY TypesAre, CallType DEF IInv
<1>4. /\ caller'.kinds = caller.kinds /\ caller'.at \in {"submit", "get"}
      /\ \/ /\ caller.place > 0 /\ caller.place < Cost
            /\ Fields(caller', caller, "submit", caller.group, caller.place + 1)
         \/ /\ caller.place = 0 \/ caller.place = Cost
            /\ caller.group = NbGroups /\ Fields(caller', caller, "get", 1, caller.place)
         \/ caller.place = 0 /\ Fields(caller', caller, "submit", caller.group + 1, 0)
         \/ /\ caller.place = Cost /\ HasCandidates(Kind)
            /\ Fields(caller', caller, "get", caller.group + 1, 0)
         \/ /\ caller.place = Cost /\ ~HasCandidates(Kind)
            /\ Fields(caller', caller, "submit", caller.group + 1, 1)
  BY <1>2, <1>3, AfterSubmitIs DEF Fields
<1>5. Call' = Call /\ Kind' = Kind
  BY <1>4 DEF Call, Kind
<1>6. CostsOK'
  BY <1>1, <1>2, CallerStays
<1>7. ScopesOK'
  <2>1. \A c : MayOutlive(c) => MayOutlive(c)'
    BY <1>2, <1>4, <1>5, FutureStays DEF MayOutlive, ScopeAlive, OwnsWhatItUses
  <2> QED BY <1>2, <2>1 DEF JInv, ScopesOK
<1>8. ReadOK'
  <2> SUFFICES ASSUME NEW g \in 1..NbGroups, NEW p \in 0..Cost, Got(g, p)'
               PROVE  Got(g, p)
    BY <1>2, <1>5 DEF JInv, ReadOK, Ready
  <2>1. g \in Nat /\ g >= 1 /\ g <= NbGroups /\ p \in Nat /\ NbGroups \in Nat /\ Cost \in Nat /\ Cost > 1
    BY Counts
  <2>2. CASE /\ caller.place > 0 /\ caller.place < Cost
             /\ Fields(caller', caller, "submit", caller.group, caller.place + 1)
    BY <1>2, <1>3, <1>5, <2>1, <2>2 DEF Got, Fields
  <2>3. CASE /\ caller.place = 0 \/ caller.place = Cost
             /\ caller.group = NbGroups /\ Fields(caller', caller, "get", 1, caller.place)
    BY <1>2, <1>3, <1>5, <2>1, <2>3 DEF Got, Fields
  <2>4. CASE caller.place = 0 /\ Fields(caller', caller, "submit", caller.group + 1, 0)
    BY <1>2, <1>3, <1>5, <2>1, <2>4 DEF Got, Fields
  <2>5. CASE /\ caller.place = Cost /\ HasCandidates(Kind)
             /\ Fields(caller', caller, "get", caller.group + 1, 0)
    BY <1>2, <1>3, <1>5, <2>1, <2>5 DEF Got, Fields
  <2>6. CASE /\ caller.place = Cost /\ ~HasCandidates(Kind)
             /\ Fields(caller', caller, "submit", caller.group + 1, 1)
    BY <1>2, <1>3, <1>5, <2>1, <2>6 DEF Got, Fields
  <2> QED BY <1>4, <2>2, <2>3, <2>4, <2>5, <2>6
<1> QED BY <1>6, <1>7, <1>8 DEF JInv

(* The last future is got: every candidate and every cost is ready, so     *)
(* that a sample that is still pending is one of a cost that threw.        *)
LEMMA AllGot ==
    ASSUME IInv, JInv, caller.at = "get", Ready(Current), caller.group = NbGroups,
           caller.place # 0 \/ ~Tries(Kind), NEW t \in Tasks, t[1] = Call, future[t] = "pending"
    PROVE  Kind # "join" /\ Threw(Call)
<1>1. /\ Call \in 1..NbCalls /\ Busy
      /\ caller.place = 0 \/ caller.place = Cost
      /\ IF caller.place = 0 THEN HasCandidates(Kind) ELSE Tries(Kind)
  BY CurrentTask DEF Busy, IInv, CallOK
<1>2. t = <<Call, t[2], t[3]>> /\ t[2] \in 1..NbGroups /\ t[3] \in 0..Cost /\ t[3] \in Nat /\ t[2] \in Nat
  BY TaskParts
<1>3. ~NotYet(t[2], t[3])
  BY DEF IInv, FreshOK, NotSubmitted
<1>4. ~Ready(t)
  BY DEF Ready
<1>5. ~Got(t[2], t[3]) /\ t # Current
  BY <1>2, <1>4 DEF JInv, ReadOK
<1>6. t[3] # 0
  <2> SUFFICES ASSUME t[3] = 0 PROVE FALSE
    OBVIOUS
  <2>1. HasCandidates(Kind)
    BY <1>3 DEF NotYet
  <2>2. CASE caller.place = 0
    <3>1. t[2] # caller.group
      BY <1>2, <1>5, <2>2 DEF Current
    <3>2. t[2] < caller.group
      BY <1>2, <3>1, Counts
    <3> QED BY <1>5, <2>2, <3>2 DEF Got
  <2>3. CASE caller.place = Cost
    BY <1>5, <2>1, <2>3 DEF Got
  <2> QED BY <1>1, <2>2, <2>3
<1>7. Tries(Kind)
  BY <1>2, <1>3, <1>6 DEF NotYet
<1>8. caller.place = Cost /\ Kind # "join"
  BY <1>1, <1>7 DEF Tries
<1> DEFINE c == <<Call, t[2], Cost>>
<1>9. c \in Tasks /\ c[1] = Call /\ c[2] = t[2] /\ c[3] = Cost
  BY <1>1, <1>2, TaskParts, Counts
<1>10. Ready(c)
  <2>1. CASE t[2] = caller.group
    BY <1>8, <2>1 DEF Current
  <2>2. CASE t[2] # caller.group
    <3>1. t[2] < caller.group /\ Cost \in 0..Cost
      BY <1>2, <2>2, Counts
    <3>2. Got(t[2], Cost)
      BY <1>8, <3>1 DEF Got
    <3> QED BY <1>2, <3>1, <3>2 DEF JInv, ReadOK
  <2> QED BY <2>1, <2>2
<1> HIDE DEF c
<1>11. future[c] = "error"
  <2> SUFFICES ASSUME future[c] = "value" PROVE FALSE
    BY <1>10 DEF Ready
  <2>1. t[3] # Cost
    BY <1>2, <1>4, <1>10 DEF c
  <2>2. t[3] \in 1..NbTasks
    BY <1>2, <1>6, <2>1, Counts
  <2>3. Ready(<<c[1], c[2], t[3]>>)
    BY <1>9, <2>2 DEF JInv, CostsOK
  <2>4. <<c[1], c[2], t[3]>> = t
    BY <1>2, <1>9
  <2> QED BY <1>4, <2>3, <2>4
<1> QED BY <1>8, <1>9, <1>11 DEF Threw

LEMMA GetJ ==
    ASSUME IInv, JInv, GetFuture
    PROVE  JInv'
<1>1. UNCHANGED <<worker, future>> /\ Ready(Current)
  BY DEF GetFuture
<1>2. /\ caller.at = "get" /\ Busy /\ caller'.kinds = caller.kinds
      /\ \/ caller'.at = "unwind" /\ future[Current] = "error" /\ LeavesOnError(Kind)
         \/ /\ caller.place = 0 /\ Tries(Kind)
            /\ caller'.at = "submit" /\ caller'.group = caller.group /\ caller'.place = 1
         \/ /\ caller.place # 0 \/ ~Tries(Kind)
            /\ caller'.at = "get" /\ caller'.group = caller.group + 1
            /\ caller'.place = caller.place
         \/ /\ caller.place # 0 \/ ~Tries(Kind)
            /\ caller'.at = "unwind" /\ caller.group = NbGroups
  BY GetIs
<1>3. /\ Current \in Tasks /\ Current[1] = Call /\ caller.group \in Nat /\ caller.place \in Nat
      /\ caller.place = 0 \/ caller.place = Cost
  BY <1>2, CurrentTask, CallType DEF IInv, CallOK
<1>4. Call' = Call /\ Kind' = Kind
  BY <1>2 DEF Call, Kind
<1>5. CostsOK'
  BY <1>1, CallerStays
<1>6. ReadOK'
  <2> SUFFICES ASSUME NEW g \in 1..NbGroups, NEW p \in 0..Cost, Got(g, p)'
               PROVE  Ready(<<Call, g, p>>)
    BY <1>1, <1>4 DEF ReadOK, Ready
  <2>1. g \in Nat /\ p \in Nat /\ Cost \in Nat /\ Cost > 1
    BY Counts
  <2>2. Got(g, p) \/ (g = caller.group /\ p = caller.place)
    <3>1. CASE caller'.at = "unwind"
      BY <3>1 DEF Got
    <3>2. CASE /\ caller.place = 0
               /\ caller'.at = "submit" /\ caller'.group = caller.group /\ caller'.place = 1
      BY <1>2, <1>3, <2>1, <3>2 DEF Got
    <3>3. CASE caller'.at = "get" /\ caller'.group = caller.group + 1 /\ caller'.place = caller.place
      BY <1>2, <1>3, <1>4, <2>1, <3>3 DEF Got
    <3> QED BY <1>2, <3>1, <3>2, <3>3
  <2> QED BY <1>1, <2>2 DEF JInv, ReadOK, Current
<1>7. ASSUME NEW t \in Tasks, future[t] = "pending" PROVE MayOutlive(t[1])'
  <2>1. MayOutlive(t[1])
    BY <1>7 DEF JInv, ScopesOK
  <2>2. Threw(t[1])' <=> Threw(t[1])
    BY <1>1, FutureStays
  <2>3. CASE t[1] # Call
    BY <1>2, <2>1, <2>2, <2>3 DEF MayOutlive, ScopeAlive, OwnsWhatItUses
  <2>4. CASE t[1] = Call /\ caller'.at # "unwind"
    BY <1>2, <1>4, <2>4 DEF MayOutlive, ScopeAlive, OwnsWhatItUses
  <2>5. CASE t[1] = Call /\ caller'.at = "unwind"
    <3>1. caller.kinds[t[1]] # "join" /\ Threw(t[1])
      <4>1. CASE future[Current] = "error" /\ LeavesOnError(Kind)
        BY <1>3, <2>5, <4>1 DEF Threw, LeavesOnError, Kind
      <4>2. CASE caller.group = NbGroups /\ (caller.place # 0 \/ ~Tries(Kind))
        BY <1>1, <1>2, <1>7, <2>5, <4>2, AllGot DEF Kind
      <4> QED BY <1>2, <2>5, <4>1, <4>2
    <3> QED BY <1>2, <2>2, <3>1 DEF MayOutlive
  <2> QED BY <2>3, <2>4, <2>5
<1>8. ScopesOK'
  BY <1>1, <1>7 DEF ScopesOK
<1> QED BY <1>5, <1>6, <1>8 DEF JInv

LEMMA LeaveJ ==
    ASSUME IInv, JInv, LeaveScope \/ SetStop \/ NotifyAll \/ JoinThreads
    PROVE  JInv'
<1>1. \A v \in Workers : /\ worker'[v].task = worker[v].task
                         /\ worker'[v].next = worker[v].next
                         /\ worker'[v].at = "run" <=> worker[v].at = "run"
  <2>1. CASE UNCHANGED worker
    BY <2>1
  <2>2. CASE worker' = WakeAll(worker)
    BY <2>2 DEF WakeAll, IInv, TypeOK
  <2>3. QED
    BY <2>1, <2>2 DEF LeaveScope, SetStop, NotifyAll, JoinThreads
<1>2. /\ UNCHANGED future /\ caller'.kinds = caller.kinds
      /\ caller.at \notin {"submit", "notify", "get"}
      /\ caller'.at \notin {"submit", "notify", "get"}
  BY DEF LeaveScope, SetStop, NotifyAll, JoinThreads, IInv, TypeOK
<1>3. CostsOK'
  BY <1>1, <1>2, CallerStays
<1>4. ReadOK'
  BY <1>2 DEF ReadOK, Got
<1>5. ScopesOK'
  <2>1. \A c : MayOutlive(c) => MayOutlive(c)'
    BY <1>2, FutureStays DEF MayOutlive, ScopeAlive, OwnsWhatItUses
  <2> QED BY <1>2, <2>1 DEF JInv, ScopesOK
<1>6. QED
  BY <1>3, <1>4, <1>5 DEF JInv

LEMMA StepKeepsJ == IInv /\ JInv /\ [Next]_vars => JInv'
<1> SUFFICES ASSUME IInv, JInv, [Next]_vars PROVE JInv'
  OBVIOUS
<1>1. ASSUME NEW w \in Workers, WorkerStep(w) \/ SpuriousWakeup(w) PROVE JInv'
  BY <1>1, ThreadStepJ
<1>2. CASE CallerStep
  BY <1>2, StartCallJ, SubmitJ, NotifyJ, GetJ, LeaveJ DEF CallerStep
<1>3. CASE UNCHANGED vars
  BY <1>3, ThreadsMove DEF vars, JInv, CostsOK
<1>4. QED
  BY <1>1, <1>2, <1>3 DEF Next, Done

(* A task that outlives the scope it refers to is never one of             *)
(* joinBenchmarks() (pareto_combination.cpp:63), and in the other calls    *)
(* only if a task of the call threw, for any number of threads, samples,   *)
(* candidates and calls and whichever tasks throw.                         *)
THEOREM TasksJoined == Spec => []JoinedBeforeUnwind
<1>1. ASSUME IInv, JInv PROVE JoinedBeforeUnwind
  <2>1. ASSUME NEW w \in Workers, worker[w].at = "run"
        PROVE  MayOutlive(worker[w].task[1])
    BY <1>1, <2>1, RunningStarted DEF JInv, ScopesOK
  <2>2. ASSUME NEW i \in DOMAIN taskQueue PROVE MayOutlive(taskQueue[i][1])
    <3>1. i \in 1..Len(taskQueue) /\ taskQueue[i] \in Tasks
      BY <1>1 DEF IInv, TypeOK
    <3>2. Queued(taskQueue, taskQueue[i])
      BY <3>1 DEF Queued
    <3>3. future[taskQueue[i]] = "pending"
      BY <1>1, <3>1, <3>2 DEF IInv, OwnersOK
    <3>4. QED
      BY <1>1, <3>1, <3>3 DEF JInv, ScopesOK
  <2>3. QED
    BY <2>1, <2>2 DEF JoinedBeforeUnwind
<1>2. Spec => []JInv
  BY JInitOK, StepKeepsJ, Inductive, PTL DEF Spec
<1>3. QED
  BY <1>1, <1>2, Inductive, PTL
=============================================================================
