-------------------------- MODULE ManagerRunProofs --------------------------
(***************************************************************************)
(* Proofs about ManagerRun, for every set of requests, every set of        *)
(* adapters and every horizon: the run keeps its types, works only when it *)
(* is warranted, ends a session as completed only when all of its work is  *)
(* done, keeps the session and the graph in agreement, and gives a task to *)
(* one worker.                                                             *)
(***************************************************************************)
EXTENDS ManagerRun, SequenceTheorems, TLAPS

-----------------------------------------------------------------------------
(* The inductive invariant, by the records that it relates.  Its parts are *)
(* operators of values, so that a record which a step leaves alone keeps   *)
(* its part.                                                               *)

Working == {"plan", "dispatch", "backoff"}
Checking == {"gate", "verify", "save", "start", "complete"}
Learning == {"procedure", "transfer", "lesson"}
Waiting == {"pending", "ready", "blocked"}

(* What a decision to execute has come through: first the routing, then    *)
(* the brief.                                                              *)
Routed(d, r) ==
    d.should_execute =>
        /\ d.kind = "mission"
        /\ ~ r.dry /\ ~ r.ambiguous
        /\ r.routed = "chat_memory_update" => r.force

Warranted(d, r) ==
    /\ d.should_execute
    /\ ~ r.thin /\ r.facts = {} /\ r.data # "blocked"

(* The graph of a mission with these workers.                              *)
Shaped(g, o) ==
    /\ {"verification_gate", "final_report"} \subseteq DOMAIN g
    /\ \A i \in 1..2 : WorkNodes[i] \in DOMAIN g <=> i \in DOMAIN o
    /\ \A i \in DOMAIN o : g[WorkNodes[i]].assigned_worker = o[i]
    /\ 2 \in DOMAIN o => g["secondary_work_1"].depends_on = {"primary_work"}

AllSucceeded(rs) == \A i \in DOMAIN rs : rs[i].answer.status = "success"

(* The first tasks have their results.                                     *)
Progressed(g, rs, o) ==
    /\ Len(rs) <= Len(o)
    /\ \A i \in DOMAIN rs :
          /\ rs[i].task = WorkNodes[i]
          /\ g[WorkNodes[i]].status = "completed" <=> rs[i].answer.status = "success"
          /\ g[WorkNodes[i]].status \in {"completed", "failed"}

(* The next one has this status, and those behind it wait.                 *)
NextIs(status, g, rs, o) ==
    \A i \in DOMAIN o :
        /\ i = Len(rs) + 1 => g[WorkNodes[i]].status = status
        /\ i > Len(rs) + 1 => g[WorkNodes[i]].status \in Waiting

(* The work is over: all of it is done, or its last result is no success.  *)
WorkIsOver(rs, o) ==
    /\ Len(rs) \in 1..Len(o)
    /\ AllSucceeded(rs) => Len(rs) = Len(o)

(* The session holds the results.                                          *)
Recorded(b, rs) ==
    /\ Len(b.worker_tasks) >= Len(rs)
    /\ \A i \in DOMAIN rs :
          b.worker_tasks[i] = [task |-> rs[i].task, worker |-> rs[i].executed,
                               status |-> rs[i].answer.status]

Reviewed(b, rs, status) ==
    /\ Recorded(b, rs)
    /\ Len(b.worker_tasks) = Len(rs) + 1
    /\ b.worker_tasks[Len(rs) + 1] =
          [task |-> "verification_gate", worker |-> "verifier", status |-> status]

OpenBundle(b) == b # NoBundle /\ ~ b.report /\ b.status # "completed"

Judged(v, rs, o) ==
    /\ v # None
    /\ v = "verified_complete" =>
          /\ AllSucceeded(rs) /\ Len(rs) = Len(o)
          /\ \A i \in DOMAIN rs : rs[i].answer.checks # "failed"

(* A session with its report.                                              *)
Concluded(b, g, rs, v, o) ==
    /\ Shaped(g, o) /\ Progressed(g, rs, o)
    /\ Len(rs) \in 1..Len(o)
    /\ Judged(v, rs, o)
    /\ Reviewed(b, rs, IF v = "verified_complete" THEN "success" ELSE "needs_retry")
    /\ g["verification_gate"].status = "completed" <=> v = "verified_complete"
    /\ b.status = "completed" <=> v = "verified_complete"

(* The adapters of one task that were given up, as far as the chain goes.  *)
GivenUp(t) ==
    /\ t.kind \in {"unavailable", "missing_adapter"}
    /\ t.worker # "claude" /\ t.kind = "unavailable" => t.attempts = MaxAttempts

Handed(d) ==
    /\ d.place \in DOMAIN d.chain
    /\ EachOnce(d.chain)
    /\ Len(d.tried) = d.place - 1
    /\ \A j \in DOMAIN d.tried : d.tried[j].worker = d.chain[j] /\ GivenUp(d.tried[j])

TriedOnce(tried) ==
    \A j, k \in DOMAIN tried :
        /\ tried[j].worker = tried[k].worker => j = k
        /\ j < Len(tried) => GivenUp(tried[j])

(* What holds in each phase of a run that has not concluded.               *)
BeforeWork(p, d, rs, dp, v, b, l, r) ==
    /\ p \in {"route", "compile", "stop", "remember", "answer"} =>
          rs = <<>> /\ dp = None /\ v = None
    /\ p \in {"route", "compile", "remember", "answer"} => b = NoBundle
    /\ p = "stop" => b # NoBundle /\ ~ b.report /\ b.worker_tasks = <<>>
    /\ p \in {"stop", "remember", "answer"} => ~ d.should_execute
    /\ p \in {"route", "compile", "answer"} => l = 0
    /\ p = "remember" => l <= r.said

AtWork(p, g, b, rs, dp, v, o) ==
    /\ p \in Working =>
          /\ Shaped(g, o) /\ Progressed(g, rs, o) /\ AllSucceeded(rs)
          /\ OpenBundle(b) /\ Recorded(b, rs) /\ Len(b.worker_tasks) = Len(rs)
          /\ v = None
    /\ p = "plan" => NextIs("ready", g, rs, o) /\ dp = None
    /\ p \in {"dispatch", "backoff"} =>
          /\ NextIs("running", g, rs, o)
          /\ Len(rs) < Len(o)
          /\ dp # None
          /\ dp.task = WorkNodes[Len(rs) + 1] /\ dp.requested = o[Len(rs) + 1]

AtReview(p, g, b, rs, v, o) ==
    /\ p \in Checking =>
          /\ Shaped(g, o) /\ Progressed(g, rs, o) /\ WorkIsOver(rs, o)
          /\ OpenBundle(b)
    /\ p = "gate" => Recorded(b, rs) /\ Len(b.worker_tasks) = Len(rs)
    /\ p \in Checking \ {"gate"} => Reviewed(b, rs, "running")
    /\ p \in {"gate", "verify"} => v = None
    /\ p \in Checking \ {"gate", "verify"} => Judged(v, rs, o)

AtEnd(p, d, b, g, rs, v, o) ==
    /\ p \in Learning \/ (p = "returned" /\ rs # <<>>) => b # NoBundle /\ b.report
    /\ b # NoBundle /\ b.report => Concluded(b, g, rs, v, o)
    /\ b # NoBundle /\ ~ b.report /\ d.should_execute => b.status # "completed"

Justified(p, d, rs, dp, r) ==
    /\ Routed(d, r)
    /\ p \in Working \cup Checking \cup Learning \/ dp # None \/ rs # <<>> => Warranted(d, r)

OneWorker(dp, rs) ==
    /\ dp # None => Handed(dp)
    /\ \A i \in DOMAIN rs : TriedOnce(rs[i].tried)

IInv ==
    /\ TypeOK
    /\ Justified(phase, decision, results, dispatch, request)
    /\ BeforeWork(phase, decision, results, dispatch, verdict, bundle, learned, request)
    /\ AtWork(phase, graph, bundle, results, dispatch, verdict, OrderedWorkers)
    /\ AtReview(phase, graph, bundle, results, verdict, OrderedWorkers)
    /\ AtEnd(phase, decision, bundle, graph, results, verdict, OrderedWorkers)
    /\ OneWorker(dispatch, results)

-----------------------------------------------------------------------------
(* The workers of a task. *)

(* A list without one of its workers has the others, each once.            *)
LEMMA WithoutWorker ==
    ASSUME NEW workers \in Seq(ManagerWorkers), EachOnce(workers), NEW worker
    PROVE  /\ Without(workers, worker) \in Seq(ManagerWorkers)
           /\ EachOnce(Without(workers, worker))
           /\ \A i \in DOMAIN Without(workers, worker) : Without(workers, worker)[i] # worker
<1> DEFINE rest == Without(workers, worker)
           n == Len(workers)
<1>1. CASE \A i \in DOMAIN workers : workers[i] # worker
  BY <1>1 DEF Without
<1>2. CASE \E k \in DOMAIN workers : workers[k] = worker
  <2>1. PICK k \in 1..n : workers[k] = worker
    BY <1>2
  <2>2. n \in Nat /\ n >= 1
    BY <2>1
  <2>3. \A i \in 1..n : workers[i] = worker => i = k
    BY <2>1 DEF EachOnce
  <2>4. rest = [i \in 1..(n - 1) |-> IF \A j \in 1..i : workers[j] # worker
                                     THEN workers[i] ELSE workers[i + 1]]
    BY <1>2 DEF Without
  <2>5. ASSUME NEW i \in 1..(n - 1)
        PROVE  rest[i] = IF i < k THEN workers[i] ELSE workers[i + 1]
    <3>1. (\A j \in 1..i : workers[j] # worker) <=> i < k
      BY <2>1, <2>2, <2>3
    <3> QED BY <2>4, <3>1
  <2> HIDE DEF rest
  <2>6. rest \in Seq(ManagerWorkers) /\ DOMAIN rest = 1..(n - 1)
    <3>1. \A i \in 1..(n - 1) : rest[i] \in ManagerWorkers
      BY <2>1, <2>2, <2>5
    <3> QED BY <2>2, <2>4, <3>1
  <2>7. ASSUME NEW i \in 1..(n - 1), NEW j \in 1..(n - 1), rest[i] = rest[j]
        PROVE  i = j
    <3> DEFINE at(l) == IF l < k THEN l ELSE l + 1
    <3>1. at(i) \in 1..n /\ at(j) \in 1..n
      BY <2>1, <2>2
    <3>2. workers[at(i)] = workers[at(j)]
      BY <2>5, <2>7
    <3>3. at(i) = at(j)
      BY <3>1, <3>2 DEF EachOnce
    <3> QED BY <2>1, <2>2, <3>3
  <2>8. \A i \in 1..(n - 1) : rest[i] # worker
    BY <2>1, <2>2, <2>3, <2>5
  <2> QED BY <2>6, <2>7, <2>8 DEF EachOnce, rest
<1> QED BY <1>1, <1>2

LEMMA FirstOfType ==
    ASSUME NEW workers \in Seq(ManagerWorkers), EachOnce(workers),
           NEW worker \in ManagerWorkers
    PROVE  /\ FirstOf(worker, workers) \in Seq(ManagerWorkers)
           /\ Len(FirstOf(worker, workers)) >= 1
           /\ EachOnce(FirstOf(worker, workers))
<1> DEFINE rest == Without(workers, worker)
           first == FirstOf(worker, workers)
<1>1. /\ rest \in Seq(ManagerWorkers) /\ EachOnce(rest)
      /\ \A i \in DOMAIN rest : rest[i] # worker
  BY WithoutWorker
<1>2. first = <<worker>> \o rest
  BY DEF FirstOf
<1> HIDE DEF rest, first
<1>3. /\ first \in Seq(ManagerWorkers) /\ Len(first) = Len(rest) + 1 /\ Len(rest) \in Nat
      /\ first[1] = worker
      /\ \A i \in 2..Len(first) : first[i] = rest[i - 1] /\ i - 1 \in DOMAIN rest
  BY <1>1, <1>2
<1>4. EachOnce(first)
  <2> SUFFICES ASSUME NEW i \in 1..Len(first), NEW j \in 1..Len(first), first[i] = first[j]
               PROVE  i = j
    BY <1>3 DEF EachOnce
  <2>1. CASE i = 1 /\ j = 1
    BY <2>1
  <2>2. CASE i = 1 /\ j # 1
    BY <1>1, <1>3, <2>2
  <2>3. CASE i # 1 /\ j = 1
    BY <1>1, <1>3, <2>3
  <2>4. CASE i # 1 /\ j # 1
    <3>1. i \in 2..Len(first) /\ j \in 2..Len(first)
      BY <1>3, <2>4
    <3>2. rest[i - 1] = rest[j - 1] /\ i - 1 \in DOMAIN rest /\ j - 1 \in DOMAIN rest
      BY <1>3, <3>1
    <3>3. i - 1 = j - 1
      BY <1>1, <3>2 DEF EachOnce
    <3> QED BY <3>1, <3>3
  <2> QED BY <2>1, <2>2, <2>3, <2>4
<1> QED BY <1>3, <1>4 DEF first

(* The chain of a task is not empty and names no worker twice.             *)
LEMMA ChainType ==
    ASSUME NEW preferred \in Seq(ManagerWorkers), EachOnce(preferred),
           NEW requested \in ManagerWorkers
    PROVE  /\ PrimaryWorkerChain(requested, preferred) \in Seq(ManagerWorkers)
           /\ Len(PrimaryWorkerChain(requested, preferred)) >= 1
           /\ EachOnce(PrimaryWorkerChain(requested, preferred))
<1> DEFINE first == FirstOf(requested, preferred)
           fallback == FallbackOrder(requested)
           chain == PrimaryWorkerChain(requested, preferred)
<1>1. first \in Seq(ManagerWorkers) /\ Len(first) >= 1 /\ EachOnce(first)
  BY FirstOfType
<1>2. fallback = <<>> \/ (\E w \in ManagerWorkers : fallback = <<w>>)
  BY DEF FallbackOrder, ManagerWorkers
<1>3. chain = IF \E i \in DOMAIN first, j \in DOMAIN fallback : first[i] = fallback[j]
              THEN first ELSE first \o fallback
  BY DEF PrimaryWorkerChain
<1> HIDE DEF first, fallback, chain
<1>4. CASE fallback = <<>>
  <2>1. chain = first \o <<>>
    BY <1>3, <1>4
  <2>2. chain = first
    BY <1>1, <2>1
  <2> QED BY <1>1, <2>2 DEF chain
<1>5. CASE \E w \in ManagerWorkers : fallback = <<w>>
  <2>1. PICK w \in ManagerWorkers : fallback = <<w>>
    BY <1>5
  <2>2. CASE \E i \in DOMAIN first : first[i] = w
    <3>1. chain = first
      BY <1>3, <2>1, <2>2
    <3> QED BY <1>1, <3>1 DEF chain
  <2>3. CASE \A i \in DOMAIN first : first[i] # w
    <3>1. chain = Append(first, w)
      BY <1>1, <1>3, <2>1, <2>3
    <3>2. chain \in Seq(ManagerWorkers) /\ Len(chain) = Len(first) + 1 /\ Len(first) \in Nat
      BY <1>1, <3>1
    <3>3. \A i \in 1..Len(chain) : chain[i] = IF i = Len(chain) THEN w ELSE first[i]
      BY <1>1, <3>1, <3>2
    <3>4. EachOnce(chain)
      BY <1>1, <2>3, <3>2, <3>3 DEF EachOnce
    <3> QED BY <1>1, <3>2, <3>4 DEF chain
  <2> QED BY <2>1, <2>2, <2>3
<1> QED BY <1>2, <1>4, <1>5

-----------------------------------------------------------------------------
(* The graph. *)

MissionGraph(g) == DOMAIN g \subseteq NodeIds /\ \A n \in DOMAIN g : g[n] \in TaskNode

(* The status of a node after that of a task was set, before the others    *)
(* are recomputed, and whether its dependencies are satisfied then.        *)
StatusSet(g, task, status, n) == IF n = task THEN status ELSE g[n].status

DependenciesMet(g, task, status, n) ==
    \A d \in g[n].depends_on : d \in DOMAIN g /\ StatusSet(g, task, status, d) = "completed"

(* h is g with the status of a task set: only statuses differ, and a node  *)
(* that waits is ready if its dependencies are satisfied.                  *)
Follows(h, g, task, status) ==
    /\ MissionGraph(h) /\ DOMAIN h = DOMAIN g
    /\ \A n \in DOMAIN g :
          /\ h[n].assigned_worker = g[n].assigned_worker
          /\ h[n].depends_on = g[n].depends_on
          /\ StatusSet(g, task, status, n) \notin Waiting =>
                h[n].status = StatusSet(g, task, status, n)
          /\ StatusSet(g, task, status, n) \in Waiting =>
                /\ h[n].status \in Waiting
                /\ h[n].status = "ready" <=> DependenciesMet(g, task, status, n)

LEMMA RecomputeIs ==
    ASSUME NEW g, MissionGraph(g)
    PROVE  /\ MissionGraph(RecomputeMissionGraph(g))
           /\ DOMAIN RecomputeMissionGraph(g) = DOMAIN g
           /\ \A n \in DOMAIN g :
                 /\ RecomputeMissionGraph(g)[n].assigned_worker = g[n].assigned_worker
                 /\ RecomputeMissionGraph(g)[n].depends_on = g[n].depends_on
                 /\ RecomputeMissionGraph(g)[n].status = RecomputedStatus(g, g[n])
<1> DEFINE h == RecomputeMissionGraph(g)
<1>1. h = [n \in DOMAIN g |-> [g[n] EXCEPT !.status = RecomputedStatus(g, g[n])]]
  BY DEF RecomputeMissionGraph
<1> HIDE DEF h
<1>2. ASSUME NEW n \in DOMAIN g
      PROVE  /\ h[n] \in TaskNode
             /\ h[n].assigned_worker = g[n].assigned_worker
             /\ h[n].depends_on = g[n].depends_on
             /\ h[n].status = RecomputedStatus(g, g[n])
  <2>1. g[n] \in TaskNode
    BY DEF MissionGraph
  <2>2. h[n] = [g[n] EXCEPT !.status = RecomputedStatus(g, g[n])]
    BY <1>1
  <2>3. RecomputedStatus(g, g[n]) \in TaskStatuses
    BY <2>1 DEF RecomputedStatus, TaskNode, TaskStatuses
  <2> QED BY <2>1, <2>2, <2>3 DEF TaskNode
<1>3. DOMAIN h = DOMAIN g
  BY <1>1
<1> QED BY <1>2, <1>3 DEF MissionGraph, h

LEMMA UpdateFollows ==
    ASSUME NEW g, MissionGraph(g), NEW task \in DOMAIN g, NEW status \in TaskStatuses
    PROVE  Follows(UpdateTaskStatus(g, task, status), g, task, status)
<1> DEFINE old == g[task]
           tries == old.retry_count + (IF status = "failed" THEN 1 ELSE 0)
           new == [old EXCEPT !.status = status, !.retry_count = tries]
           set == [g EXCEPT ![task] = new]
           h == UpdateTaskStatus(g, task, status)
<1>1. h = RecomputeMissionGraph(set)
  BY DEF UpdateTaskStatus
<1>2. DOMAIN set = DOMAIN g
  OBVIOUS
<1>3. ASSUME NEW n \in DOMAIN g
      PROVE  /\ set[n] \in TaskNode
             /\ set[n].assigned_worker = g[n].assigned_worker
             /\ set[n].depends_on = g[n].depends_on
             /\ set[n].status = StatusSet(g, task, status, n)
  <2>1. g[n] \in TaskNode
    BY DEF MissionGraph
  <2>2. CASE n = task
    <3>1. set[n] = new
      BY <2>2
    <3>2. old \in TaskNode
      BY <2>1, <2>2
    <3> HIDE DEF set, old
    <3>4. tries \in Nat
      BY <3>2 DEF TaskNode
    <3> HIDE DEF tries
    <3>3. /\ new \in TaskNode
          /\ new.assigned_worker = old.assigned_worker
          /\ new.depends_on = old.depends_on
          /\ new.status = status
      BY <3>2, <3>4 DEF TaskNode
    <3> QED BY <2>2, <3>1, <3>3 DEF StatusSet, old
  <2>3. CASE n # task
    <3>1. set[n] = g[n]
      BY <2>3
    <3> QED BY <2>1, <2>3, <3>1 DEF StatusSet
  <2> QED BY <2>2, <2>3
<1> HIDE DEF set, h
<1>4. MissionGraph(set)
  BY <1>2, <1>3 DEF MissionGraph
<1>5. /\ MissionGraph(h) /\ DOMAIN h = DOMAIN g
      /\ \A n \in DOMAIN g :
            /\ h[n].assigned_worker = set[n].assigned_worker
            /\ h[n].depends_on = set[n].depends_on
            /\ h[n].status = RecomputedStatus(set, set[n])
  BY <1>1, <1>2, <1>4, RecomputeIs
<1>6. ASSUME NEW n \in DOMAIN g
      PROVE  /\ DependenciesSatisfied(set, set[n]) <=> DependenciesMet(g, task, status, n)
             /\ h[n].assigned_worker = g[n].assigned_worker
             /\ h[n].depends_on = g[n].depends_on
             /\ StatusSet(g, task, status, n) \notin Waiting =>
                   h[n].status = StatusSet(g, task, status, n)
             /\ StatusSet(g, task, status, n) \in Waiting =>
                   /\ h[n].status \in Waiting
                   /\ h[n].status = "ready" <=> DependenciesMet(g, task, status, n)
  <2>1. DependenciesSatisfied(set, set[n]) <=> DependenciesMet(g, task, status, n)
    BY <1>2, <1>3 DEF DependenciesSatisfied, DependenciesMet
  <2>2. /\ h[n].assigned_worker = g[n].assigned_worker
        /\ h[n].depends_on = g[n].depends_on
    BY <1>3, <1>5
  <2>3. h[n].status = RecomputedStatus(set, set[n]) /\ set[n].status = StatusSet(g, task, status, n)
    BY <1>3, <1>5
  <2> QED BY <2>1, <2>2, <2>3 DEF RecomputedStatus, Waiting
<1> QED BY <1>5, <1>6 DEF Follows, h

-----------------------------------------------------------------------------
(* What a step of the graph leaves of the work.                            *)

LEMMA WorkNodeIds ==
    /\ WorkNodes[1] = "primary_work" /\ WorkNodes[2] = "secondary_work_1"
    /\ DOMAIN WorkNodes = 1..2
    /\ \A i \in 1..2 : WorkNodes[i] \in NodeIds
    /\ \A i, j \in 1..2 : WorkNodes[i] = WorkNodes[j] => i = j
    /\ \A i \in 1..2 : WorkNodes[i] \notin {"verification_gate", "final_report"}
BY DEF WorkNodes, NodeIds

Workers(o) == o \in Seq(ManagerWorkers) /\ Len(o) \in 1..2

LEMMA ShapeStays ==
    ASSUME NEW o, Workers(o), NEW g, NEW h, NEW task, NEW status,
           Shaped(g, o), Follows(h, g, task, status)
    PROVE  Shaped(h, o)
<1>1. DOMAIN o \subseteq 1..2
  BY DEF Workers
<1>2. \A i \in DOMAIN o : WorkNodes[i] \in DOMAIN g
  BY <1>1 DEF Shaped
<1>3. \A i \in DOMAIN o : h[WorkNodes[i]].assigned_worker = o[i]
  BY <1>1, <1>2 DEF Shaped, Follows
<1>4. 2 \in DOMAIN o => h["secondary_work_1"].depends_on = {"primary_work"}
  BY <1>1, <1>2, WorkNodeIds DEF Shaped, Follows
<1> QED BY <1>3, <1>4 DEF Shaped, Follows

(* Setting the status of another node leaves the results of the work.      *)
LEMMA ProgressStays ==
    ASSUME NEW o, Workers(o), NEW g, NEW h, NEW task, NEW status, NEW rs \in Seq(Result),
           Shaped(g, o), Progressed(g, rs, o), Follows(h, g, task, status),
           \A i \in DOMAIN rs : WorkNodes[i] # task
    PROVE  Progressed(h, rs, o)
<1>1. \A i \in DOMAIN rs : i \in DOMAIN o /\ i \in 1..2
  BY DEF Workers, Progressed
<1>2. \A i \in DOMAIN rs : WorkNodes[i] \in DOMAIN g
  BY <1>1 DEF Shaped
<1>3. ASSUME NEW i \in DOMAIN rs
      PROVE  h[WorkNodes[i]].status = g[WorkNodes[i]].status
  <2>1. WorkNodes[i] \in DOMAIN g /\ WorkNodes[i] # task
    BY <1>2
  <2>2. g[WorkNodes[i]].status \notin Waiting
    BY DEF Progressed, Waiting
  <2>3. StatusSet(g, task, status, WorkNodes[i]) = g[WorkNodes[i]].status
    BY <2>1 DEF StatusSet
  <2> QED BY <2>1, <2>2, <2>3 DEF Follows
<1> QED BY <1>3 DEF Progressed

(* In the planning phase the first task without a result is the next one.  *)
LEMMA NextTaskIs ==
    ASSUME NEW o, Workers(o), NEW g, NEW rs \in Seq(Result),
           Shaped(g, o), Progressed(g, rs, o), NextIs("ready", g, rs, o)
    PROVE  /\ ReadyExecutionTasks(g) # {} <=> Len(rs) < Len(o)
           /\ Len(rs) < Len(o) =>
                 /\ NextTask(g) = WorkNodes[Len(rs) + 1]
                 /\ NextTask(g) \in DOMAIN g
                 /\ g[NextTask(g)].assigned_worker = o[Len(rs) + 1]
<1> DEFINE k == Len(rs)
           ready == ReadyExecutionTasks(g)
<1>1. k \in Nat /\ k <= Len(o) /\ Len(o) \in 1..2 /\ DOMAIN o = 1..Len(o) /\ DOMAIN rs = 1..k
  BY DEF Workers, Progressed
<1>2. ready = {i \in 1..2 : WorkNodes[i] \in DOMAIN g /\ g[WorkNodes[i]].status = "ready"}
  BY WorkNodeIds DEF ReadyExecutionTasks
<1>3. ASSUME NEW i \in ready
      PROVE  i \in k + 1 .. Len(o)
  <2>1. i \in 1..2 /\ i \in DOMAIN o /\ g[WorkNodes[i]].status = "ready"
    BY <1>2 DEF Shaped
  <2>2. i \notin DOMAIN rs
    BY <2>1 DEF Progressed
  <2> QED BY <1>1, <2>1, <2>2
<1>4. ASSUME k < Len(o)
      PROVE  k + 1 \in ready /\ WorkNodes[k + 1] \in DOMAIN g /\ k + 1 \in DOMAIN o
  <2> DEFINE n == Len(o)
  <2>5. k \in Nat /\ n \in 1..2 /\ k < n
    BY <1>1, <1>4
  <2> HIDE DEF ready, k, n
  <2>6. k + 1 \in 1..n /\ k + 1 \in 1..2
    BY <2>5
  <2>1. k + 1 \in DOMAIN o /\ k + 1 \in 1..2
    BY <1>1, <2>6 DEF n
  <2>2. g[WorkNodes[k + 1]].status = "ready"
    BY <2>1 DEF NextIs, k
  <2>3. WorkNodes[k + 1] \in DOMAIN g
    BY <2>1 DEF Shaped
  <2>4. k + 1 \in ready
    BY <1>2, <2>1, <2>2, <2>3
  <2> QED BY <2>1, <2>3, <2>4
<1> HIDE DEF ready
<1>5. ready # {} <=> k < Len(o)
  BY <1>1, <1>3, <1>4
<1>6. ASSUME k < Len(o)
      PROVE  NextTask(g) = WorkNodes[k + 1]
  <2>1. k + 1 \in ready /\ \A j \in ready : k + 1 <= j /\ j \in Nat
    BY <1>1, <1>3, <1>4, <1>6
  <2>2. \A i \in ready : (\A j \in ready : i <= j) <=> i = k + 1
    BY <2>1, <1>1
  <2>3. (CHOOSE i \in ready : \A j \in ready : i <= j) = k + 1
    BY <2>1, <2>2
  <2> QED BY <2>3 DEF NextTask, ready
<1> QED BY <1>4, <1>5, <1>6 DEF Shaped, ready

(* The next task is marked as running.                                     *)
LEMMA StartOfTask ==
    ASSUME NEW o, Workers(o), NEW g, NEW h, NEW rs \in Seq(Result),
           Shaped(g, o), Progressed(g, rs, o), NextIs("ready", g, rs, o), Len(rs) < Len(o),
           Follows(h, g, WorkNodes[Len(rs) + 1], "running")
    PROVE  Shaped(h, o) /\ Progressed(h, rs, o) /\ NextIs("running", h, rs, o)
<1> DEFINE k == Len(rs)
<1>1. k \in Nat /\ Len(o) \in 1..2 /\ DOMAIN o = 1..Len(o) /\ DOMAIN rs = 1..k
      /\ k + 1 \in DOMAIN o /\ k + 1 \in 1..2
  BY DEF Workers
<1>2. \A i \in 1..2 : WorkNodes[i] = WorkNodes[k + 1] => i = k + 1
  BY <1>1, WorkNodeIds
<1>3. Progressed(h, rs, o)
  <2>1. \A i \in DOMAIN rs : i \in 1..2 /\ i # k + 1
    BY <1>1
  <2> QED BY <1>2, <2>1, ProgressStays
<1>4. ASSUME NEW i \in DOMAIN o
      PROVE  /\ i = k + 1 => h[WorkNodes[i]].status = "running"
             /\ i > k + 1 => h[WorkNodes[i]].status \in Waiting
  <2>1. i \in 1..2 /\ WorkNodes[i] \in DOMAIN g
    BY <1>1 DEF Shaped
  <2>2. StatusSet(g, WorkNodes[k + 1], "running", WorkNodes[i]) =
           IF i = k + 1 THEN "running" ELSE g[WorkNodes[i]].status
    BY <1>2, <2>1 DEF StatusSet
  <2>3. i > k + 1 => g[WorkNodes[i]].status \in Waiting
    BY DEF NextIs
  <2>4. CASE i = k + 1
    BY <2>1, <2>2, <2>4, <1>1 DEF Follows, Waiting
  <2>5. CASE i > k + 1
    <3>1. StatusSet(g, WorkNodes[k + 1], "running", WorkNodes[i]) \in Waiting
      BY <1>1, <2>1, <2>2, <2>3, <2>5
    <3>2. h[WorkNodes[i]].status \in Waiting
      BY <2>1, <3>1 DEF Follows
    <3> QED BY <1>1, <2>1, <2>5, <3>2
  <2> QED BY <2>4, <2>5
<1> QED BY <1>3, <1>4, ShapeStays DEF NextIs

(* The task that runs gets its result; after a success the next is ready.  *)
LEMMA EndOfTask ==
    ASSUME NEW o, Workers(o), NEW g, NEW h, NEW rs \in Seq(Result), NEW r \in Result,
           Shaped(g, o), Progressed(g, rs, o), NextIs("running", g, rs, o), Len(rs) < Len(o),
           r.task = WorkNodes[Len(rs) + 1],
           NEW status \in {"completed", "failed"},
           status = "completed" <=> r.answer.status = "success",
           Follows(h, g, WorkNodes[Len(rs) + 1], status)
    PROVE  /\ Shaped(h, o) /\ Progressed(h, Append(rs, r), o)
           /\ status = "completed" => NextIs("ready", h, Append(rs, r), o)
<1> DEFINE k == Len(rs)
           more == Append(rs, r)
<1>1. k \in Nat /\ Len(o) \in 1..2 /\ DOMAIN o = 1..Len(o) /\ DOMAIN rs = 1..k
      /\ k + 1 \in DOMAIN o /\ k + 1 \in 1..2
  BY DEF Workers
<1>2. \A i \in 1..2 : WorkNodes[i] = WorkNodes[k + 1] => i = k + 1
  BY <1>1, WorkNodeIds
<1>3. Progressed(h, rs, o)
  <2>1. \A i \in DOMAIN rs : i \in 1..2 /\ i # k + 1
    BY <1>1
  <2> QED BY <1>2, <2>1, ProgressStays
<1>4. /\ DOMAIN more = 1..(k + 1) /\ Len(more) = k + 1
      /\ more[k + 1] = r /\ \A i \in 1..k : more[i] = rs[i]
  BY <1>1
<1> HIDE DEF more
<1>5. WorkNodes[k + 1] \in DOMAIN g
  BY <1>1 DEF Shaped
<1>6. h[WorkNodes[k + 1]].status = status
  <2>1. StatusSet(g, WorkNodes[k + 1], status, WorkNodes[k + 1]) = status
    BY DEF StatusSet
  <2> QED BY <1>5, <2>1 DEF Follows, Waiting
<1>7. Progressed(h, more, o)
  <2>1. Len(more) <= Len(o)
    BY <1>1, <1>4
  <2>2. ASSUME NEW i \in DOMAIN more
        PROVE  /\ more[i].task = WorkNodes[i]
               /\ h[WorkNodes[i]].status = "completed" <=> more[i].answer.status = "success"
               /\ h[WorkNodes[i]].status \in {"completed", "failed"}
    <3>1. CASE i = k + 1
      BY <1>4, <1>6, <3>1
    <3>2. CASE i # k + 1
      <4>1. i \in DOMAIN rs /\ more[i] = rs[i]
        BY <1>1, <1>4, <3>2
      <4> QED BY <1>3, <4>1 DEF Progressed
    <3> QED BY <3>1, <3>2
  <2> QED BY <2>1, <2>2 DEF Progressed
<1>8. ASSUME status = "completed", NEW i \in DOMAIN o
      PROVE  /\ i = Len(more) + 1 => h[WorkNodes[i]].status = "ready"
             /\ i > Len(more) + 1 => h[WorkNodes[i]].status \in Waiting
  <2>1. CASE k = 0 /\ i = 2
    <3>1. /\ WorkNodes[1] = "primary_work" /\ WorkNodes[2] = "secondary_work_1"
          /\ "primary_work" # "secondary_work_1"
      BY WorkNodeIds
    <3>2. g["secondary_work_1"].depends_on = {"primary_work"}
      BY <2>1 DEF Shaped
    <3>3. "primary_work" \in DOMAIN g /\ "secondary_work_1" \in DOMAIN g
      BY <1>1, <2>1, <3>1 DEF Shaped
    <3>4. g["secondary_work_1"].status \in Waiting
      BY <1>1, <2>1, <3>1 DEF NextIs
    <3>5. DependenciesMet(g, "primary_work", "completed", "secondary_work_1")
      BY <3>2, <3>3 DEF DependenciesMet, StatusSet
    <3>6. StatusSet(g, "primary_work", "completed", "secondary_work_1") \in Waiting
      BY <3>1, <3>4 DEF StatusSet
    <3>7. Follows(h, g, "primary_work", "completed")
      BY <1>8, <2>1, <3>1
    <3>8. h["secondary_work_1"].status = "ready"
      BY <3>3, <3>5, <3>6, <3>7 DEF Follows
    <3> QED BY <1>4, <2>1, <3>1, <3>8
  <2>2. CASE ~ (k = 0 /\ i = 2)
    <3>1. ~ (i >= Len(more) + 1)
      BY <1>1, <1>4, <2>2
    <3> QED BY <1>1, <1>4, <3>1
  <2> QED BY <2>1, <2>2
<1>9. status = "completed" => NextIs("ready", h, more, o)
  BY <1>8 DEF NextIs
<1> QED BY <1>7, <1>9, ShapeStays DEF more

(* The graph of the compiler: no node has begun, and the first task waits  *)
(* for the review of the context or for the selection of the data.         *)
Built(g, o, needsData) ==
    /\ MissionGraph(g) /\ Shaped(g, o)
    /\ "context_review" \in DOMAIN g
    /\ needsData => "data_selection" \in DOMAIN g
    /\ \A n \in DOMAIN g : g[n].status \in Waiting
    /\ g["primary_work"].depends_on =
          {IF needsData THEN "data_selection" ELSE "context_review"}

LEMMA GraphIsBuilt ==
    ASSUME NEW o, Workers(o), NEW needsData \in BOOLEAN
    PROVE  Built(BuildMissionTaskGraph(o, needsData), o, needsData)
<1> DEFINE first == IF needsData THEN "data_selection" ELSE "context_review"
           work == {WorkNodes[i] : i \in DOMAIN o}
           place(n) == CHOOSE i \in DOMAIN o : WorkNodes[i] = n
           nodes == {"context_review", "verification_gate", "final_report"}
                    \cup (IF needsData THEN {"data_selection"} ELSE {}) \cup work
           before(n) == {IF place(n) = 1 THEN first ELSE WorkNodes[place(n) - 1]}
           set == [n \in nodes |->
                     CASE n = "context_review" -> Node(Manager, {})
                       [] n = "data_selection" -> Node(Manager, {"context_review"})
                       [] n = "verification_gate" ->
                            Node("verifier", {IF o = <<>> THEN "context_review"
                                              ELSE WorkNodes[Len(o)]})
                       [] n = "final_report" -> Node(Manager, {"verification_gate"})
                       [] OTHER -> Node(o[place(n)], before(n))]
           g == BuildMissionTaskGraph(o, needsData)
<1>1. g = RecomputeMissionGraph(set)
  BY DEF BuildMissionTaskGraph
<1>2. /\ Len(o) \in 1..2 /\ DOMAIN o = 1..Len(o) /\ o # <<>>
      /\ 1 \in DOMAIN o /\ DOMAIN o \subseteq 1..2
      /\ \A i \in DOMAIN o : o[i] \in ManagerWorkers
  BY DEF Workers
<1>3. /\ "primary_work" \in work
      /\ "secondary_work_1" \in work <=> 2 \in DOMAIN o
      /\ work \subseteq {"primary_work", "secondary_work_1"}
      /\ \A i \in DOMAIN o : WorkNodes[i] \in work
  BY <1>2, WorkNodeIds
<1>4. ASSUME NEW i \in DOMAIN o
      PROVE  place(WorkNodes[i]) = i
  <2>1. \A j \in DOMAIN o : WorkNodes[j] = WorkNodes[i] <=> j = i
    BY <1>2, WorkNodeIds
  <2> QED BY <2>1
<1>5. DOMAIN set = nodes
  OBVIOUS
<1> HIDE DEF place, g
<1>6. ASSUME NEW i \in DOMAIN o
      PROVE  set[WorkNodes[i]] = Node(o[i], {IF i = 1 THEN first ELSE WorkNodes[i - 1]})
  <2>1. /\ WorkNodes[i] \in nodes
        /\ WorkNodes[i] \notin {"context_review", "data_selection", "verification_gate",
                                "final_report"}
    BY <1>2, <1>3, WorkNodeIds
  <2>2. set[WorkNodes[i]] = Node(o[place(WorkNodes[i])], before(WorkNodes[i]))
    BY <2>1
  <2> QED BY <1>4, <2>2
<1>7. /\ set["context_review"] = Node(Manager, {})
      /\ needsData => set["data_selection"] = Node(Manager, {"context_review"})
      /\ set["verification_gate"] = Node("verifier", {WorkNodes[Len(o)]})
      /\ set["final_report"] = Node(Manager, {"verification_gate"})
  BY <1>2
<1>8. nodes \subseteq NodeIds
  BY <1>3 DEF NodeIds
<1> HIDE DEF set, work
<1>9. ASSUME NEW worker \in ManagerWorkers \cup {"verifier", Manager}, NEW d \in NodeIds
      PROVE  /\ Node(worker, {d}) \in TaskNode /\ Node(worker, {}) \in TaskNode
             /\ Node(worker, {d}).status = "pending" /\ Node(worker, {}).status = "pending"
             /\ Node(worker, {d}).assigned_worker = worker
             /\ Node(worker, {d}).depends_on = {d}
  BY DEF Node, TaskNode, TaskStatuses
<1>10. ASSUME NEW i \in DOMAIN o
       PROVE  /\ WorkNodes[i] \in nodes
              /\ set[WorkNodes[i]] \in TaskNode
              /\ set[WorkNodes[i]].status = "pending"
              /\ set[WorkNodes[i]].assigned_worker = o[i]
              /\ set[WorkNodes[i]].depends_on = {IF i = 1 THEN first ELSE WorkNodes[i - 1]}
  <2> DEFINE dependency == IF i = 1 THEN first ELSE WorkNodes[i - 1]
  <2>1. dependency \in NodeIds
    <3>1. CASE i = 1
      BY <3>1 DEF NodeIds
    <3>2. CASE i # 1
      BY <1>2, <3>2, WorkNodeIds
    <3> QED BY <3>1, <3>2
  <2> HIDE DEF dependency
  <2>2. set[WorkNodes[i]] = Node(o[i], {dependency})
    BY <1>6 DEF dependency
  <2> QED BY <1>2, <1>3, <1>9, <2>1, <2>2 DEF dependency
<1>11. ASSUME NEW n \in nodes
       PROVE  set[n] \in TaskNode /\ set[n].status = "pending"
  <2>1. "context_review" \in NodeIds /\ "verification_gate" \in NodeIds
        /\ WorkNodes[Len(o)] \in NodeIds
    BY <1>2, WorkNodeIds DEF NodeIds
  <2>2. n = "primary_work" => \E i \in DOMAIN o : n = WorkNodes[i]
    BY <1>2, WorkNodeIds
  <2>3. n = "secondary_work_1" => \E i \in DOMAIN o : n = WorkNodes[i]
    BY <1>2, <1>3, WorkNodeIds
  <2>4. CASE \E i \in DOMAIN o : n = WorkNodes[i]
    BY <1>10, <2>4
  <2>5. CASE n = "context_review"
    BY <1>7, <1>9, <2>1, <2>5
  <2>6. CASE n = "data_selection"
    <3>1. needsData
      BY <1>3, <2>6
    <3> QED BY <1>7, <1>9, <2>1, <2>6, <3>1
  <2>7. CASE n = "verification_gate"
    <3> DEFINE d == WorkNodes[Len(o)]
    <3>1. d \in NodeIds /\ set["verification_gate"] = Node("verifier", {d})
      BY <1>7, <2>1
    <3> HIDE DEF d
    <3>2. "verifier" \in ManagerWorkers \cup {"verifier", Manager}
      OBVIOUS
    <3>3. Node("verifier", {d}) \in TaskNode /\ Node("verifier", {d}).status = "pending"
      BY <1>9, <3>1, <3>2
    <3> QED BY <2>7, <3>1, <3>3
  <2>8. CASE n = "final_report"
    BY <1>7, <1>9, <2>1, <2>8
  <2>9. n \in {"context_review", "data_selection", "verification_gate", "final_report",
               "primary_work", "secondary_work_1"}
    BY <1>3
  <2>10. CASE n \in {"primary_work", "secondary_work_1"}
    <3>1. \E i \in DOMAIN o : n = WorkNodes[i]
      BY <2>2, <2>3, <2>10
    <3> QED BY <2>4, <3>1
  <2> QED BY <2>5, <2>6, <2>7, <2>8, <2>9, <2>10
<1>12. MissionGraph(set)
  BY <1>5, <1>8, <1>11 DEF MissionGraph
<1>13. /\ MissionGraph(g) /\ DOMAIN g = nodes
       /\ \A n \in nodes : /\ g[n].assigned_worker = set[n].assigned_worker
                           /\ g[n].depends_on = set[n].depends_on
                           /\ g[n].status = RecomputedStatus(set, set[n])
  BY <1>1, <1>5, <1>12, RecomputeIs
<1>14. \A n \in nodes : g[n].status \in Waiting
  BY <1>11, <1>13 DEF RecomputedStatus, Waiting
<1>15. Shaped(g, o)
  <2>1. \A i \in 1..2 : WorkNodes[i] \in DOMAIN g <=> i \in DOMAIN o
    <3>1. "primary_work" \in nodes /\ ("secondary_work_1" \in nodes <=> 2 \in DOMAIN o)
      BY <1>3
    <3> QED BY <1>2, <1>13, <3>1, WorkNodeIds
  <2>2. \A i \in DOMAIN o : g[WorkNodes[i]].assigned_worker = o[i]
    BY <1>10, <1>13
  <2>3. ASSUME 2 \in DOMAIN o
        PROVE  g["secondary_work_1"].depends_on = {"primary_work"}
    BY <1>10, <1>13, <2>3, WorkNodeIds
  <2> QED BY <1>13, <2>1, <2>2, <2>3 DEF Shaped
<1>16. g["primary_work"].depends_on = {first}
  <2>1. /\ WorkNodes[1] \in nodes
        /\ set[WorkNodes[1]].depends_on = {IF 1 = 1 THEN first ELSE WorkNodes[1 - 1]}
    BY <1>2, <1>10
  <2> QED BY <1>13, <2>1, WorkNodeIds
<1> QED BY <1>13, <1>14, <1>15, <1>16 DEF Built, g

LEMMA RequestType ==
    ASSUME TypeOK
    PROVE  /\ request \in Request /\ request \in Requests
           /\ Workers(OrderedWorkers)
           /\ request.preferred \in Seq(ManagerWorkers) /\ EachOnce(request.preferred)
<1>1. request \in Request /\ request \in Requests
  BY ManagerRunAssumption DEF TypeOK
<1>2. /\ request.preferred \in Seq(ManagerWorkers) /\ EachOnce(request.preferred)
      /\ request.selected \in ManagerWorkers
      /\ Len(FirstOf(request.selected, request.preferred)) <= 2
  BY <1>1, ManagerRunAssumption DEF Request
<1>3. /\ FirstOf(request.selected, request.preferred) \in Seq(ManagerWorkers)
      /\ Len(FirstOf(request.selected, request.preferred)) >= 1
  BY <1>2, FirstOfType
<1>4. Workers(OrderedWorkers)
  <2>1. \A n \in Nat : n >= 1 /\ n <= 2 => n \in 1..2
    OBVIOUS
  <2>2. OrderedWorkers \in Seq(ManagerWorkers) /\ Len(OrderedWorkers) >= 1
        /\ Len(OrderedWorkers) <= 2
    BY <1>2, <1>3 DEF OrderedWorkers
  <2>3. Len(OrderedWorkers) \in Nat
    BY <2>2
  <2> QED BY <2>1, <2>2, <2>3 DEF Workers
<1> QED BY <1>1, <1>2, <1>4

LEMMA ChatGraphType ==
    MissionGraph(ChatGraph) /\ "context_review" \in DOMAIN ChatGraph
<1> DEFINE node(n) == Node(Manager, IF n = "final_response" THEN {"context_review"} ELSE {})
           set == [n \in {"context_review", "final_response"} |-> node(n)]
<1>1. ChatGraph = RecomputeMissionGraph(set)
  BY DEF ChatGraph
<1>2. \A n : node(n) \in TaskNode
  BY DEF Node, TaskNode, TaskStatuses, NodeIds
<1>3. DOMAIN set = {"context_review", "final_response"} /\ \A n \in DOMAIN set : set[n] = node(n)
  OBVIOUS
<1> HIDE DEF set, node
<1>4. MissionGraph(set)
  BY <1>2, <1>3 DEF MissionGraph, NodeIds
<1> QED BY <1>1, <1>3, <1>4, RecomputeIs

(* The compiled graph of a mission has its shape, and its first task is    *)
(* ready unless an input is blocked.                                       *)
LEMMA CompiledIs ==
    ASSUME TypeOK
    PROVE  /\ MissionGraph(CompiledGraph)
           /\ decision.kind # "chat" => Shaped(CompiledGraph, OrderedWorkers)
           /\ decision.kind # "chat" /\ request.data # "blocked" =>
                  NextIs("ready", CompiledGraph, <<>>, OrderedWorkers)
<1> DEFINE o == OrderedWorkers
           needsData == request.data # "not_required"
           first == BuildMissionTaskGraph(o, needsData)
           built == UpdateTaskStatus(first, "context_review", "completed")
           selected == UpdateTaskStatus(built, "data_selection", "completed")
           blocked == UpdateTaskStatus(built, "data_selection", "failed")
<1>0. {"completed", "failed"} \subseteq TaskStatuses
  BY DEF TaskStatuses
<1>1. Workers(o) /\ request.data \in {"not_required", "selected", "blocked"}
  BY RequestType DEF Request
<1>2. CASE decision.kind = "chat"
  <2>1. CompiledGraph = UpdateTaskStatus(ChatGraph, "context_review", "completed")
    BY <1>2 DEF CompiledGraph
  <2>2. MissionGraph(CompiledGraph)
    BY <1>0, <2>1, ChatGraphType, UpdateFollows DEF Follows
  <2> QED BY <1>2, <2>2
<1>3. CASE decision.kind # "chat"
  <2>1. CompiledGraph = CASE request.data = "selected" -> selected
                          [] request.data = "blocked" -> blocked
                          [] OTHER -> built
    BY <1>3 DEF CompiledGraph
  <2>2. Built(first, o, needsData)
    BY <1>1, GraphIsBuilt
  <2>3. "primary_work" \in DOMAIN first /\ DOMAIN o = 1..Len(o) /\ Len(o) \in 1..2
    BY <1>1, <2>2, WorkNodeIds DEF Built, Shaped, Workers
  <2> HIDE DEF first, o
  <2>4. Follows(built, first, "context_review", "completed")
    BY <1>0, <2>2, UpdateFollows DEF Built
  <2> HIDE DEF built
  <2>5. MissionGraph(built) /\ DOMAIN built = DOMAIN first /\ Shaped(built, o)
    BY <1>1, <2>2, <2>4, ShapeStays DEF Built, Follows
  <2>6. \A n \in DOMAIN first : n # "context_review" => built[n].status \in Waiting
    BY <2>2, <2>4 DEF Built, Follows, StatusSet
  <2>7. built["primary_work"].depends_on =
           {IF needsData THEN "data_selection" ELSE "context_review"}
    BY <2>2, <2>3, <2>4 DEF Built, Follows
  <2>8. CASE request.data = "not_required"
    <3>1. CompiledGraph = built
      BY <2>1, <2>8
    <3>2. first["primary_work"].depends_on = {"context_review"}
      BY <2>2, <2>8 DEF Built
    <3>3. DependenciesMet(first, "context_review", "completed", "primary_work")
      BY <2>2, <3>2 DEF DependenciesMet, StatusSet, Built
    <3>4. StatusSet(first, "context_review", "completed", "primary_work") \in Waiting
      BY <2>2, <2>3 DEF StatusSet, Built
    <3>5. built["primary_work"].status = "ready"
      BY <2>3, <2>4, <3>3, <3>4 DEF Follows
    <3>6. NextIs("ready", built, <<>>, o)
      <4>1. \A i \in DOMAIN o : i = 1 \/ (i = 2 /\ WorkNodes[2] \in DOMAIN first)
        BY <2>3, <2>5 DEF Shaped
      <4>2. WorkNodes[2] \in DOMAIN first => built[WorkNodes[2]].status \in Waiting
        BY <2>6, WorkNodeIds
      <4> QED BY <3>5, <4>1, <4>2, WorkNodeIds DEF NextIs
    <3> QED BY <2>5, <3>1, <3>6 DEF o
  <2>9. CASE request.data # "not_required"
    <3>1. "data_selection" \in DOMAIN built
      BY <2>2, <2>5, <2>9 DEF Built
    <3>2. Follows(selected, built, "data_selection", "completed")
      BY <1>0, <2>5, <3>1, UpdateFollows
    <3>3. Follows(blocked, built, "data_selection", "failed")
      BY <1>0, <2>5, <3>1, UpdateFollows
    <3> HIDE DEF selected, blocked
    <3>4. /\ MissionGraph(selected) /\ Shaped(selected, o)
          /\ MissionGraph(blocked) /\ Shaped(blocked, o)
      BY <1>1, <2>5, <3>2, <3>3, ShapeStays DEF Follows
    <3>5. CASE request.data = "blocked"
      <4>1. CompiledGraph = blocked
        BY <2>1, <3>5
      <4> QED BY <3>4, <3>5, <4>1 DEF o
    <3>6. CASE request.data = "selected"
      <4>1. CompiledGraph = selected
        BY <2>1, <3>6
      <4>2. built["primary_work"].depends_on = {"data_selection"}
        BY <2>7, <3>6
      <4>3. DependenciesMet(built, "data_selection", "completed", "primary_work")
        BY <3>1, <4>2 DEF DependenciesMet, StatusSet
      <4>4. StatusSet(built, "data_selection", "completed", "primary_work") \in Waiting
        BY <2>3, <2>6 DEF StatusSet
      <4>5. selected["primary_work"].status = "ready"
        BY <2>3, <2>5, <3>2, <4>3, <4>4 DEF Follows
      <4>6. NextIs("ready", selected, <<>>, o)
        <5>1. \A i \in DOMAIN o : i = 1 \/ (i = 2 /\ WorkNodes[2] \in DOMAIN first)
          BY <2>3, <2>5 DEF Shaped
        <5>2. WorkNodes[2] \in DOMAIN first => selected[WorkNodes[2]].status \in Waiting
          BY <2>5, <2>6, <3>2, WorkNodeIds DEF Follows, StatusSet
        <5> QED BY <4>5, <5>1, <5>2, WorkNodeIds DEF NextIs
      <4> QED BY <3>4, <4>1, <4>6 DEF o
    <3> QED BY <1>1, <2>9, <3>5, <3>6
  <2> QED BY <2>8, <2>9
<1> QED BY <1>2, <1>3

-----------------------------------------------------------------------------
(* The record of the session. *)

LEMMA EventsType ==
    ASSUME NEW b \in Bundle, NEW n \in Nat
    PROVE  /\ RecordEvents(b, n) \in Bundle
           /\ RecordEvents(b, n).status = b.status
           /\ RecordEvents(b, n).worker_tasks = b.worker_tasks
           /\ RecordEvents(b, n).checkpoints = b.checkpoints
           /\ RecordEvents(b, n).report = b.report
BY SMTT(20) DEF RecordEvents, Bundle

(* A field is replaced and the event counted.                             *)
WithTasks(b, tasks) == [b EXCEPT !.worker_tasks = tasks, !.events = b.events + 1]

LEMMA TasksType ==
    ASSUME NEW b \in Bundle, NEW tasks \in Seq(WorkerTaskRun)
    PROVE  LET c == WithTasks(b, tasks)
           IN  /\ c \in Bundle /\ c.status = b.status /\ c.worker_tasks = tasks
               /\ c.checkpoints = b.checkpoints /\ c.report = b.report
<1> DEFINE c == WithTasks(b, tasks)
           d == [b EXCEPT !.worker_tasks = tasks]
<1>1. /\ d \in Bundle /\ d.status = b.status /\ d.worker_tasks = tasks
      /\ d.checkpoints = b.checkpoints /\ d.report = b.report /\ d.events = b.events
  BY DEF Bundle
<1>2. c = [d EXCEPT !.events = b.events + 1]
  BY DEF WithTasks
<1> HIDE DEF d
<1>3. c = RecordEvents(d, 1)
  BY <1>1, <1>2 DEF RecordEvents
<1> QED BY <1>1, <1>3, EventsType

WithCheckpoints(b, all) ==
    [b EXCEPT !.checkpoints = all, !.status = "checkpointed", !.events = b.events + 1]

LEMMA CheckpointsType ==
    ASSUME NEW b \in Bundle, NEW all \in Seq(Checkpoint)
    PROVE  /\ WithCheckpoints(b, all) \in Bundle
           /\ WithCheckpoints(b, all).status = "checkpointed"
           /\ WithCheckpoints(b, all).worker_tasks = b.worker_tasks
           /\ WithCheckpoints(b, all).checkpoints = all
           /\ WithCheckpoints(b, all).report = b.report
<1> DEFINE c == WithCheckpoints(b, all)
           d == [b EXCEPT !.checkpoints = all]
           e == [d EXCEPT !.status = "checkpointed"]
<1>1. /\ d \in Bundle /\ d.worker_tasks = b.worker_tasks
      /\ d.checkpoints = all /\ d.report = b.report /\ d.events = b.events
  BY DEF Bundle
<1>2. c = [e EXCEPT !.events = b.events + 1]
  BY DEF WithCheckpoints
<1> HIDE DEF c
<1> HIDE DEF d
<1>3. /\ e \in Bundle /\ e.worker_tasks = d.worker_tasks /\ e.status = "checkpointed"
      /\ e.checkpoints = d.checkpoints /\ e.report = d.report /\ e.events = d.events
  BY <1>1 DEF Bundle, SessionStatuses
<1> HIDE DEF e
<1>4. c = RecordEvents(e, 1)
  BY <1>1, <1>2, <1>3 DEF RecordEvents
<1>5. /\ c \in Bundle /\ c.status = e.status /\ c.worker_tasks = e.worker_tasks
      /\ c.checkpoints = e.checkpoints /\ c.report = e.report
  <2>1. e \in Bundle /\ 1 \in Nat
    BY <1>3
  <2> QED BY <1>4, <2>1, EventsType
<1> QED BY <1>1, <1>3, <1>5 DEF c

LEMMA StatusType ==
    ASSUME NEW b \in Bundle, NEW status \in SessionStatuses
    PROVE  /\ SetSessionStatus(b, status) \in Bundle
           /\ SetSessionStatus(b, status).status = status
           /\ SetSessionStatus(b, status).worker_tasks = b.worker_tasks
           /\ SetSessionStatus(b, status).checkpoints = b.checkpoints
           /\ SetSessionStatus(b, status).report = b.report
BY DEF SetSessionStatus, Bundle

LEMMA FinalizeType ==
    ASSUME NEW b \in Bundle, NEW status \in SessionStatuses
    PROVE  /\ Finalize(b, status) \in Bundle
           /\ Finalize(b, status).status = status
           /\ Finalize(b, status).worker_tasks = b.worker_tasks
           /\ Finalize(b, status).checkpoints = b.checkpoints
           /\ Finalize(b, status).report = b.report
BY StatusType, EventsType DEF Finalize

LEMMA OpenSessionType ==
    /\ OpenSession \in Bundle /\ OpenSession.status = "active"
    /\ OpenSession.worker_tasks = <<>> /\ ~ OpenSession.report
<1>1. /\ Opened \in Bundle /\ Opened.worker_tasks = <<>> /\ Opened.report = FALSE
  BY DEF Opened, Bundle, SessionStatuses
<1> QED BY <1>1, StatusType, EventsType DEF OpenSession, SessionStatuses

LEMMA StartType ==
    ASSUME NEW b \in Bundle, NEW task \in NodeIds, NEW worker \in ManagerWorkers \cup {"verifier"}
    PROVE  /\ StartWorkerTask(b, task, worker) \in Bundle
           /\ StartWorkerTask(b, task, worker).status = b.status
           /\ StartWorkerTask(b, task, worker).worker_tasks =
                 Append(b.worker_tasks, [task |-> task, worker |-> worker, status |-> "running"])
           /\ StartWorkerTask(b, task, worker).checkpoints = b.checkpoints
           /\ StartWorkerTask(b, task, worker).report = b.report
<1> DEFINE run == [task |-> task, worker |-> worker, status |-> "running"]
           tasks == Append(b.worker_tasks, run)
           c == WithTasks(b, tasks)
<1>1. run \in WorkerTaskRun
  BY DEF WorkerTaskRun, WorkerTaskStatuses
<1>2. StartWorkerTask(b, task, worker) = c
  BY DEF StartWorkerTask, WithTasks
<1> HIDE DEF run
<1>3. tasks \in Seq(WorkerTaskRun)
  BY <1>1 DEF Bundle
<1> HIDE DEF tasks
<1>4. /\ c \in Bundle /\ c.status = b.status /\ c.worker_tasks = tasks
      /\ c.checkpoints = b.checkpoints /\ c.report = b.report
  BY <1>3, TasksType
<1> QED BY <1>2, <1>4 DEF tasks, run

LEMMA CompleteType ==
    ASSUME NEW b \in Bundle, NEW status \in WorkerTaskStatuses, Len(b.worker_tasks) >= 1
    PROVE  /\ CompleteWorkerTask(b, status) \in Bundle
           /\ CompleteWorkerTask(b, status).status = b.status
           /\ CompleteWorkerTask(b, status).worker_tasks =
                 [b.worker_tasks EXCEPT ![Len(b.worker_tasks)] =
                     [task |-> b.worker_tasks[Len(b.worker_tasks)].task,
                      worker |-> b.worker_tasks[Len(b.worker_tasks)].worker,
                      status |-> status]]
           /\ CompleteWorkerTask(b, status).checkpoints = b.checkpoints
           /\ CompleteWorkerTask(b, status).report = b.report
<1> DEFINE n == Len(b.worker_tasks)
           old == b.worker_tasks[n]
           run == [task |-> old.task, worker |-> old.worker, status |-> status]
           tasks == [b.worker_tasks EXCEPT ![n] = run]
           c == WithTasks(b, tasks)
<1>1. b.worker_tasks \in Seq(WorkerTaskRun) /\ n \in DOMAIN b.worker_tasks
  BY DEF Bundle
<1>2. old \in WorkerTaskRun
  BY <1>1
<1>3. run = [old EXCEPT !.status = status] /\ run \in WorkerTaskRun
  BY <1>2 DEF WorkerTaskRun
<1>4. CompleteWorkerTask(b, status) =
        [b EXCEPT !.worker_tasks = [b.worker_tasks EXCEPT ![n] = [old EXCEPT !.status = status]],
                  !.events = b.events + 1]
  BY DEF CompleteWorkerTask
<1>5. CompleteWorkerTask(b, status) = c
  BY <1>3, <1>4 DEF WithTasks
<1> HIDE DEF run, n
<1>6. tasks \in Seq(WorkerTaskRun)
  BY <1>1, <1>3
<1> HIDE DEF tasks
<1>7. /\ c \in Bundle /\ c.status = b.status /\ c.worker_tasks = tasks
      /\ c.checkpoints = b.checkpoints /\ c.report = b.report
  BY <1>6, TasksType
<1> QED BY <1>5, <1>7 DEF tasks, run, n

LEMMA CheckpointType ==
    ASSUME NEW b \in Bundle, NEW label \in NodeIds, NEW restorable \in BOOLEAN, NEW at \in Nat
    PROVE  /\ CreateCheckpoint(b, label, restorable, at) \in Bundle
           /\ CreateCheckpoint(b, label, restorable, at).status = "checkpointed"
           /\ CreateCheckpoint(b, label, restorable, at).worker_tasks = b.worker_tasks
           /\ CreateCheckpoint(b, label, restorable, at).checkpoints =
                 Append(b.checkpoints,
                        [label |-> label, restore_supported |-> restorable, at |-> at])
           /\ CreateCheckpoint(b, label, restorable, at).report = b.report
<1> DEFINE new == [label |-> label, restore_supported |-> restorable, at |-> at]
           all == Append(b.checkpoints, new)
           c == WithCheckpoints(b, all)
<1>1. new \in Checkpoint
  BY DEF Checkpoint
<1>2. CreateCheckpoint(b, label, restorable, at) = c
  BY DEF CreateCheckpoint, WithCheckpoints
<1> HIDE DEF new
<1>3. all \in Seq(Checkpoint)
  BY <1>1 DEF Bundle
<1> HIDE DEF all
<1>4. /\ c \in Bundle /\ c.status = "checkpointed" /\ c.worker_tasks = b.worker_tasks
      /\ c.checkpoints = all /\ c.report = b.report
  BY <1>3, CheckpointsType
<1> QED BY <1>2, <1>4 DEF all, new

LEMMA ReportType ==
    ASSUME NEW b \in Bundle
    PROVE  /\ RecordFinalReport(b) \in Bundle
           /\ RecordFinalReport(b).report
           /\ RecordFinalReport(b).worker_tasks = b.worker_tasks
           /\ RecordFinalReport(b).checkpoints = b.checkpoints
<1> DEFINE c == [b EXCEPT !.report = TRUE]
<1>1. /\ c \in Bundle /\ c.report /\ c.worker_tasks = b.worker_tasks
      /\ c.checkpoints = b.checkpoints /\ c.events = b.events
  BY DEF Bundle
<1>2. RecordFinalReport(b) = [c EXCEPT !.events = b.events + 1]
  BY DEF RecordFinalReport
<1> HIDE DEF c
<1>3. RecordFinalReport(b) = RecordEvents(c, 1)
  BY <1>1, <1>2 DEF RecordEvents
<1> QED BY <1>1, <1>3, EventsType

(* A finished task leaves one closed task and one checkpoint.              *)
Holds(saved, b, task, worker, status) ==
    /\ saved \in Bundle /\ saved.status = "checkpointed"
    /\ saved.report <=> b.report
    /\ saved.worker_tasks =
          Append(b.worker_tasks, [task |-> task, worker |-> worker, status |-> status])
    /\ Len(saved.checkpoints) = Len(b.checkpoints) + 1

LEMMA RecordDispatchType ==
    ASSUME NEW b \in Bundle, NEW task \in NodeIds, NEW requested,
           NEW worker \in ManagerWorkers,
           NEW status \in WorkerTaskStatuses, NEW at \in Nat
    PROVE  Holds(RecordDispatch(b, task, requested, worker, status, at),
                 b, task, worker, status)
<1> DEFINE run(s) == [task |-> task, worker |-> worker, status |-> s]
           n == IF worker # requested THEN 1 ELSE 0
           started == StartWorkerTask(b, task, worker)
           noted == RecordEvents(started, n)
           ended == RecordEvents(noted, 2)
           closed == CompleteWorkerTask(ended, status)
           saved == CreateCheckpoint(closed, task, TRUE, at)
           tasks == b.worker_tasks
<1>1. saved = RecordDispatch(b, task, requested, worker, status, at)
  BY DEF RecordDispatch, RecordCompletedProcess
<1>2. /\ started \in Bundle /\ started.status = b.status
      /\ started.worker_tasks = Append(tasks, run("running"))
      /\ started.checkpoints = b.checkpoints /\ started.report = b.report
  BY StartType
<1> HIDE DEF started
<1>3. /\ noted \in Bundle /\ noted.worker_tasks = started.worker_tasks
      /\ noted.checkpoints = started.checkpoints /\ noted.report = started.report
  <2>1. n \in Nat
    OBVIOUS
  <2> HIDE DEF n
  <2> QED BY <1>2, <2>1, EventsType
<1> HIDE DEF noted
<1>4. /\ ended \in Bundle /\ ended.worker_tasks = noted.worker_tasks
      /\ ended.checkpoints = noted.checkpoints /\ ended.report = noted.report
  BY <1>3, EventsType
<1> HIDE DEF ended
<1>5. tasks \in Seq(WorkerTaskRun) /\ run("running") \in WorkerTaskRun
      /\ run(status) \in WorkerTaskRun
  BY DEF Bundle, WorkerTaskRun, WorkerTaskStatuses
<1>6. ended.worker_tasks = Append(tasks, run("running"))
  BY <1>2, <1>3, <1>4
<1>7. /\ Len(ended.worker_tasks) = Len(tasks) + 1 /\ Len(tasks) \in Nat
      /\ ended.worker_tasks[Len(tasks) + 1] = run("running")
  <2> HIDE DEF run, tasks
  <2> QED BY <1>5, <1>6
<1>8. /\ closed \in Bundle
      /\ closed.worker_tasks = [ended.worker_tasks EXCEPT ![Len(tasks) + 1] = run(status)]
      /\ closed.checkpoints = ended.checkpoints /\ closed.report = ended.report
  <2>1. Len(ended.worker_tasks) >= 1
    BY <1>7
  <2>2. /\ run("running").task = task /\ run("running").worker = worker
    OBVIOUS
  <2>3. closed.worker_tasks =
           [ended.worker_tasks EXCEPT ![Len(ended.worker_tasks)] =
               [task |-> ended.worker_tasks[Len(ended.worker_tasks)].task,
                worker |-> ended.worker_tasks[Len(ended.worker_tasks)].worker,
                status |-> status]]
    BY <1>4, <2>1, CompleteType
  <2>4. /\ closed \in Bundle
        /\ closed.checkpoints = ended.checkpoints /\ closed.report = ended.report
    BY <1>4, <2>1, CompleteType
  <2>5. /\ Len(ended.worker_tasks) = Len(tasks) + 1
        /\ [task |-> ended.worker_tasks[Len(ended.worker_tasks)].task,
            worker |-> ended.worker_tasks[Len(ended.worker_tasks)].worker,
            status |-> status] = run(status)
    BY <1>7, <2>2
  <2> HIDE DEF closed, run, tasks
  <2> QED BY <2>3, <2>4, <2>5
<1> HIDE DEF closed
<1>9. closed.worker_tasks = Append(tasks, run(status))
  <2> HIDE DEF run, tasks
  <2>1. [Append(tasks, run("running")) EXCEPT ![Len(tasks) + 1] = run(status)]
           = Append(tasks, run(status))
    <3> DEFINE x == run("running")
               y == run(status)
               k == Len(tasks) + 1
               opened == Append(tasks, x)
               closing == [opened EXCEPT ![k] = y]
               done == Append(tasks, y)
    <3>1. tasks \in Seq(WorkerTaskRun) /\ x \in WorkerTaskRun /\ y \in WorkerTaskRun
      BY <1>5
    <3> HIDE DEF x, y
    <3>2. /\ opened \in Seq(WorkerTaskRun) /\ Len(opened) = k
          /\ done \in Seq(WorkerTaskRun) /\ Len(done) = k /\ k \in 1..k
          /\ \A i \in 1..k : done[i] = IF i = k THEN y ELSE opened[i]
      BY <3>1
    <3> HIDE DEF opened, done, k
    <3>3. /\ closing \in Seq(WorkerTaskRun) /\ Len(closing) = k
          /\ \A i \in 1..k : closing[i] = IF i = k THEN y ELSE opened[i]
      BY <3>1, <3>2, ExceptSeq
    <3> HIDE DEF closing
    <3>4. closing = done
      BY <3>2, <3>3, SeqEqual
    <3> QED BY <3>4 DEF x, y, k, opened, done, closing
  <2> QED BY <1>6, <1>8, <2>1
<1>10. /\ saved \in Bundle /\ saved.status = "checkpointed"
       /\ saved.worker_tasks = closed.worker_tasks /\ saved.report = closed.report
       /\ saved.checkpoints =
             Append(closed.checkpoints, [label |-> task, restore_supported |-> TRUE, at |-> at])
  <2>1. saved = CreateCheckpoint(closed, task, TRUE, at) /\ TRUE \in BOOLEAN
    OBVIOUS
  <2> HIDE DEF saved, run, tasks
  <2> QED BY <1>8, <2>1, CheckpointType
<1> HIDE DEF saved
<1>11. Len(saved.checkpoints) = Len(b.checkpoints) + 1
  <2>1. closed.checkpoints = b.checkpoints
    BY <1>2, <1>3, <1>4, <1>8
  <2>2. closed.checkpoints \in Seq(Checkpoint)
    BY <1>8 DEF Bundle
  <2> QED BY <1>10, <2>1, <2>2
<1>12. saved.report = b.report
  BY <1>2, <1>3, <1>4, <1>8, <1>10
<1> QED BY <1>1, <1>9, <1>10, <1>11, <1>12 DEF Holds

(* The last task, which is the verifier's, closed in the list of tasks.    *)
LastClosed(tasks, status) ==
    [tasks EXCEPT ![Len(tasks)] =
        [task |-> tasks[Len(tasks)].task, worker |-> tasks[Len(tasks)].worker,
         status |-> status]]

(* The end of a session.  A run that is not verified is restored to the    *)
(* checkpoint it has just written: only its status and events differ.      *)
LEMMA ReportAndFinalizeType ==
    ASSUME NEW b \in Bundle, Len(b.worker_tasks) >= 1, NEW at \in Nat, NEW fs,
           fs[at] = CheckpointVerification(b, at)
    PROVE  LET ended == ReportAndFinalize(CheckpointVerification(b, at), fs)
           IN  /\ CheckpointVerification(b, at) \in Bundle
               /\ ended \in Bundle /\ ended.report
               /\ ended.status = IF Verified THEN "completed" ELSE "failed"
               /\ ended.worker_tasks =
                     LastClosed(b.worker_tasks, IF Verified THEN "success" ELSE "needs_retry")
               /\ Len(ended.checkpoints) = Len(b.checkpoints) + 1
<1> DEFINE status == IF Verified THEN "success" ELSE "needs_retry"
           final == IF Verified THEN "completed" ELSE "failed"
           closed == CompleteWorkerTask(b, status)
           saved == CheckpointVerification(b, at)
           kept == RestoredAfter(saved, fs)
           reported == RecordFinalReport(kept)
           ended == ReportAndFinalize(saved, fs)
           n == Len(b.checkpoints)
<1>1. status \in WorkerTaskStatuses /\ final \in SessionStatuses
  BY DEF WorkerTaskStatuses, SessionStatuses
<1>2. /\ saved = CreateCheckpoint(closed, "verification_gate", ~ Verified, at)
      /\ ended = Finalize(reported, final)
  BY DEF CheckpointVerification, ReportAndFinalize
<1>3. (~ Verified) \in BOOLEAN
  BY DEF Verified
<1> HIDE DEF status, final
<1>4. /\ closed \in Bundle /\ closed.worker_tasks = LastClosed(b.worker_tasks, status)
      /\ closed.checkpoints = b.checkpoints /\ closed.report = b.report
  BY <1>1, CompleteType DEF LastClosed
<1> HIDE DEF closed, saved, ended
<1>5. /\ saved \in Bundle /\ saved.worker_tasks = closed.worker_tasks
      /\ saved.checkpoints = Append(closed.checkpoints,
            [label |-> "verification_gate", restore_supported |-> ~ Verified, at |-> at])
  <2>1. "verification_gate" \in NodeIds
    BY DEF NodeIds
  <2> QED BY <1>2, <1>3, <1>4, <2>1, CheckpointType
<1>6. /\ n \in Nat /\ Len(saved.checkpoints) = n + 1
      /\ saved.checkpoints[n + 1] =
            [label |-> "verification_gate", restore_supported |-> ~ Verified, at |-> at]
  <2>1. b.checkpoints \in Seq(Checkpoint)
    BY DEF Bundle
  <2> QED BY <1>4, <1>5, <2>1
<1>7. /\ kept \in Bundle /\ kept.worker_tasks = saved.worker_tasks
      /\ kept.checkpoints = saved.checkpoints
  <2>1. CASE Verified
    BY <1>5, <2>1 DEF RestoredAfter
  <2>2. CASE ~ Verified
    <3> DEFINE latest == LatestRestorableCheckpoints(saved)
    <3>1. DOMAIN saved.checkpoints = 1..(n + 1)
      <4>1. saved.checkpoints \in Seq(Checkpoint)
        BY <1>5 DEF Bundle
      <4> QED BY <1>6, <4>1
    <3>2. saved.checkpoints[n + 1].restore_supported /\ saved.checkpoints[n + 1].at = at
      <4>1. (~ Verified) = TRUE
        BY <2>2
      <4>2. saved.checkpoints[n + 1] =
               [label |-> "verification_gate", restore_supported |-> TRUE, at |-> at]
        BY <1>6, <4>1
      <4> QED BY <4>2
    <3>3. latest = {n + 1}
      BY <1>6, <3>1, <3>2 DEF LatestRestorableCheckpoints
    <3> HIDE DEF latest
    <3>4. (CHOOSE c \in latest : TRUE) = n + 1
      BY <3>3
    <3>5. kept = RestoreCheckpoint(saved, fs, n + 1)
      BY <2>2, <3>3, <3>4 DEF RestoredAfter, latest
    <3>6. kept = RecordEvents(SetSessionStatus(saved, "active"), 1)
      BY <3>2, <3>5 DEF RestoreCheckpoint, saved
    <3>7. "active" \in SessionStatuses
      BY DEF SessionStatuses
    <3> DEFINE active == SetSessionStatus(saved, "active")
    <3> HIDE DEF kept
    <3>8. /\ active \in Bundle /\ active.worker_tasks = saved.worker_tasks
          /\ active.checkpoints = saved.checkpoints
      BY <1>5, <3>7, StatusType
    <3> HIDE DEF active
    <3>9. kept = RecordEvents(active, 1)
      BY <3>6 DEF active
    <3> QED BY <3>8, <3>9, EventsType
  <2> QED BY <2>1, <2>2
<1> HIDE DEF kept
<1>8. /\ reported \in Bundle /\ reported.report
      /\ reported.worker_tasks = kept.worker_tasks /\ reported.checkpoints = kept.checkpoints
  BY <1>7, ReportType
<1> HIDE DEF reported
<1>9. /\ ended \in Bundle /\ ended.status = final
      /\ ended.worker_tasks = reported.worker_tasks
      /\ ended.checkpoints = reported.checkpoints /\ ended.report = reported.report
  BY <1>1, <1>2, <1>8, FinalizeType
<1>10. ended.report
  BY <1>8, <1>9
<1>11. ended.worker_tasks = LastClosed(b.worker_tasks, status)
  BY <1>4, <1>5, <1>7, <1>8, <1>9
<1>12. Len(ended.checkpoints) = n + 1
  BY <1>6, <1>7, <1>8, <1>9
<1> QED BY <1>5, <1>9, <1>10, <1>11, <1>12 DEF ended, saved, status, final

-----------------------------------------------------------------------------
(* The results in the session. *)

LEMMA ResultIsRecorded ==
    ASSUME NEW b \in Bundle, NEW c \in Bundle, NEW rs \in Seq(Result), NEW r \in Result,
           Recorded(b, rs), Len(b.worker_tasks) = Len(rs),
           c.worker_tasks = Append(b.worker_tasks,
               [task |-> r.task, worker |-> r.executed, status |-> r.answer.status])
    PROVE  Recorded(c, Append(rs, r)) /\ Len(c.worker_tasks) = Len(Append(rs, r))
<1> DEFINE run(t) == [task |-> t.task, worker |-> t.executed, status |-> t.answer.status]
           tasks == b.worker_tasks
           all == c.worker_tasks
           more == Append(rs, r)
           k == Len(rs)
<1>1. tasks \in Seq(WorkerTaskRun) /\ all \in Seq(WorkerTaskRun) /\ k \in Nat
  BY DEF Bundle
<1>2. all = Append(tasks, run(r)) /\ Len(tasks) = k
  OBVIOUS
<1>3. \A i \in 1..k : tasks[i] = run(rs[i])
  BY DEF Recorded
<1> HIDE DEF run, tasks, all, more
<1>4. /\ Len(more) = k + 1 /\ DOMAIN more = 1..(k + 1)
      /\ \A i \in 1..(k + 1) : more[i] = IF i = k + 1 THEN r ELSE rs[i]
  BY <1>1 DEF more
<1>5. /\ Len(all) = k + 1
      /\ \A i \in 1..(k + 1) : all[i] = IF i = k + 1 THEN run(r) ELSE tasks[i]
  BY <1>1, <1>2
<1>6. \A i \in 1..(k + 1) : all[i] = run(more[i])
  BY <1>1, <1>3, <1>4, <1>5
<1> QED BY <1>1, <1>4, <1>5, <1>6 DEF Recorded, run, all, more

LEMMA ReviewIsOpened ==
    ASSUME NEW b \in Bundle, NEW c \in Bundle, NEW rs \in Seq(Result),
           Recorded(b, rs), Len(b.worker_tasks) = Len(rs),
           c.worker_tasks = Append(b.worker_tasks,
               [task |-> "verification_gate", worker |-> "verifier", status |-> "running"])
    PROVE  Reviewed(c, rs, "running")
<1> DEFINE run(t) == [task |-> t.task, worker |-> t.executed, status |-> t.answer.status]
           review == [task |-> "verification_gate", worker |-> "verifier", status |-> "running"]
           tasks == b.worker_tasks
           all == c.worker_tasks
           k == Len(rs)
<1>1. tasks \in Seq(WorkerTaskRun) /\ all \in Seq(WorkerTaskRun) /\ k \in Nat
      /\ DOMAIN rs = 1..k
  BY DEF Bundle
<1>2. all = Append(tasks, review) /\ Len(tasks) = k
  OBVIOUS
<1>3. \A i \in 1..k : tasks[i] = run(rs[i])
  BY DEF Recorded
<1> HIDE DEF run, tasks, all, review
<1>5. /\ Len(all) = k + 1 /\ all[k + 1] = review
      /\ \A i \in 1..k : all[i] = tasks[i]
  BY <1>1, <1>2
<1>6. \A i \in 1..k : all[i] = run(rs[i])
  BY <1>3, <1>5
<1> QED BY <1>1, <1>5, <1>6 DEF Recorded, Reviewed, run, all, review

LEMMA ReviewIsClosed ==
    ASSUME NEW b \in Bundle, NEW c \in Bundle, NEW rs \in Seq(Result),
           NEW status \in WorkerTaskStatuses,
           Reviewed(b, rs, "running"), c.worker_tasks = LastClosed(b.worker_tasks, status)
    PROVE  Reviewed(c, rs, status)
<1> DEFINE run(t) == [task |-> t.task, worker |-> t.executed, status |-> t.answer.status]
           review(s) == [task |-> "verification_gate", worker |-> "verifier", status |-> s]
           tasks == b.worker_tasks
           all == c.worker_tasks
           k == Len(rs)
<1>1. tasks \in Seq(WorkerTaskRun) /\ all \in Seq(WorkerTaskRun) /\ k \in Nat
      /\ DOMAIN rs = 1..k
  BY DEF Bundle
<1>2. /\ Len(tasks) = k + 1 /\ tasks[k + 1] = review("running")
      /\ \A i \in 1..k : tasks[i] = run(rs[i])
  BY DEF Reviewed, Recorded
<1>3. review("running").task = "verification_gate" /\ review("running").worker = "verifier"
  OBVIOUS
<1>4. all = [tasks EXCEPT ![k + 1] = review(status)]
  BY <1>2, <1>3 DEF LastClosed
<1>5. review(status) \in WorkerTaskRun
  BY DEF WorkerTaskRun, NodeIds
<1> HIDE DEF run, tasks, all, review
<1>6. /\ Len(all) = k + 1 /\ all[k + 1] = review(status)
      /\ \A i \in 1..k : all[i] = tasks[i]
  BY <1>1, <1>2, <1>4, <1>5
<1>7. \A i \in 1..k : all[i] = run(rs[i])
  BY <1>2, <1>6
<1> QED BY <1>1, <1>6, <1>7 DEF Recorded, Reviewed, run, all, review

-----------------------------------------------------------------------------
(* Each step keeps the invariant.  First those that only move on. *)

LEMMA SameWorkers ==
    ASSUME request' = request
    PROVE  OrderedWorkers' = OrderedWorkers
BY DEF OrderedWorkers

(* Facts about the present records.                                        *)
LEMMA Types ==
    ASSUME IInv
    PROVE  /\ TypeOK
           /\ Workers(OrderedWorkers) /\ Len(OrderedWorkers) \in 1..2
           /\ MissionGraph(graph)
           /\ results \in Seq(Result) /\ Len(results) \in Nat
           /\ bundle # NoBundle => bundle \in Bundle
           /\ now \in Nat
           /\ request \in Request
BY RequestType, ManagerRunAssumption DEF IInv, TypeOK, MissionGraph, Workers

LEMMA RouteStep ==
    ASSUME IInv, Route
    PROVE  IInv'
<1>1. /\ phase = "route" /\ phase' = "compile" /\ OrderedWorkers' = OrderedWorkers
      /\ UNCHANGED <<request, graph, bundle, files, now, dispatch, results, verdict, writes,
                     learned>>
  BY SameWorkers DEF Route
<1>2. request \in Request /\ TypeOK
  BY Types
<1> DEFINE triaged == Triaged
           d == Forced(triaged)
<1>3. triaged \in Decision /\ (triaged.kind = "mission" <=> triaged.kind # "chat")
      /\ (triaged.should_execute => triaged.kind = "mission" /\ ~ request.dry)
      /\ (triaged.kind # "chat" => request.routed # "chat_memory_update")
  BY <1>2 DEF Triaged, Heuristic, Decided, Decision, Request
<1> HIDE DEF triaged
<1>4. /\ d \in Decision /\ (d.kind = "mission" <=> d.kind # "chat")
      /\ d.should_execute => d.kind = "mission" /\ ~ request.dry
      /\ d.kind # "chat" => request.routed # "chat_memory_update" \/ request.force
  BY <1>2, <1>3 DEF Forced, Decided, Decision, Request
<1>5. decision' = IF request.ambiguous /\ d.kind # "chat" THEN BlockedBy(d, "ambiguous_goal") ELSE d
  BY DEF Route, triaged
<1> HIDE DEF d
<1>6. decision' \in Decision /\ Routed(decision', request)
  BY <1>2, <1>4, <1>5 DEF BlockedBy, Decision, Reasons, Routed
<1>7. TypeOK'
  BY <1>1, <1>2, <1>6 DEF TypeOK, Phases
<1>8. results = <<>> /\ dispatch = None /\ verdict = None /\ bundle = NoBundle /\ learned = 0
  BY <1>1 DEF IInv, BeforeWork
<1>9. Justified(phase, decision, results, dispatch, request)'
  BY <1>1, <1>6, <1>8 DEF Justified, Working, Checking, Learning
<1>10. BeforeWork(phase, decision, results, dispatch, verdict, bundle, learned, request)'
  BY <1>1, <1>8 DEF BeforeWork
<1>11. AtWork(phase, graph, bundle, results, dispatch, verdict, OrderedWorkers)'
  BY <1>1 DEF AtWork, Working
<1>12. AtReview(phase, graph, bundle, results, verdict, OrderedWorkers)'
  BY <1>1 DEF AtReview, Checking
<1>13. AtEnd(phase, decision, bundle, graph, results, verdict, OrderedWorkers)'
  BY <1>1, <1>8 DEF AtEnd, Learning
<1>14. OneWorker(dispatch, results)'
  BY <1>1 DEF IInv, OneWorker
<1> QED BY <1>7, <1>9, <1>10, <1>11, <1>12, <1>13, <1>14 DEF IInv

(* An early answer leaves no work behind.                                  *)
LEMMA EarlyStep ==
    ASSUME IInv, LearnOwnerFact \/ FinishMemoryUpdate \/ AnswerChat
    PROVE  IInv'
<1>1. /\ phase \in {"remember", "answer"} /\ phase' \in {"remember", "answer", "returned"}
      /\ OrderedWorkers' = OrderedWorkers
      /\ UNCHANGED <<request, decision, graph, bundle, files, now, dispatch, results, verdict,
                     writes>>
  <2>1. UNCHANGED request
    BY DEF LearnOwnerFact, FinishMemoryUpdate, AnswerChat
  <2> QED BY <2>1, SameWorkers DEF LearnOwnerFact, FinishMemoryUpdate, AnswerChat, Return
<1>2. /\ results = <<>> /\ dispatch = None /\ verdict = None /\ bundle = NoBundle
      /\ ~ decision.should_execute
  BY <1>1 DEF IInv, BeforeWork
<1>3. request \in Request /\ TypeOK
  BY Types
<1>4. /\ learned' \in 0..2
      /\ phase' = "answer" => learned' = 0
      /\ phase' = "remember" => learned' <= request.said
  <2>1. phase = "answer" => learned = 0
    BY DEF IInv, BeforeWork
  <2>2. phase = "remember" => learned <= request.said
    BY DEF IInv, BeforeWork
  <2>3. learned \in 0..2 /\ request.said \in 0..2 /\ request.lessons \in 0..2
    BY <1>3 DEF TypeOK, Request
  <2>4. CASE LearnOwnerFact
    BY <2>3, <2>4 DEF LearnOwnerFact
  <2>5. CASE FinishMemoryUpdate
    BY <2>2, <2>3, <2>5 DEF FinishMemoryUpdate
  <2>6. CASE AnswerChat
    BY <2>1, <2>3, <2>6 DEF AnswerChat, Return
  <2> QED BY <2>4, <2>5, <2>6
<1>5. TypeOK'
  BY <1>1, <1>3, <1>4 DEF TypeOK, Phases
<1>6. Justified(phase, decision, results, dispatch, request)'
  BY <1>1, <1>2 DEF IInv, Justified, Working, Checking, Learning
<1>7. BeforeWork(phase, decision, results, dispatch, verdict, bundle, learned, request)'
  BY <1>1, <1>2, <1>4 DEF BeforeWork
<1>8. AtWork(phase, graph, bundle, results, dispatch, verdict, OrderedWorkers)'
  BY <1>1 DEF AtWork, Working
<1>9. AtReview(phase, graph, bundle, results, verdict, OrderedWorkers)'
  BY <1>1 DEF AtReview, Checking
<1>10. AtEnd(phase, decision, bundle, graph, results, verdict, OrderedWorkers)'
  BY <1>1, <1>2 DEF AtEnd, Learning
<1>11. OneWorker(dispatch, results)'
  BY <1>1 DEF IInv, OneWorker
<1> QED BY <1>5, <1>6, <1>7, <1>8, <1>9, <1>10, <1>11 DEF IInv

(* The steps that wait, write to the brain or break off.                   *)
MovesOn(from, to) ==
    /\ phase = from /\ phase' = to
    /\ UNCHANGED <<request, decision, graph, bundle, files, now, dispatch, results, verdict,
                   learned>>
    /\ \/ writes' = writes
       \/ \E action \in {"save_outcome", "start_verification", "capture_learning",
                         "save_failure"} : writes' = Append(writes, action)

Onward == {<<"backoff", "dispatch">>, <<"save", "start">>, <<"start", "complete">>,
           <<"procedure", "transfer">>, <<"transfer", "returned">>, <<"lesson", "returned">>}

LEMMA MovesOnStep ==
    ASSUME IInv, NEW from \in Phases, NEW to \in Phases, MovesOn(from, to),
           to = "thrown" \/ <<from, to>> \in Onward
    PROVE  IInv'
<1>1. /\ phase = from /\ phase' = to /\ OrderedWorkers' = OrderedWorkers
      /\ UNCHANGED <<request, decision, graph, bundle, files, now, dispatch, results, verdict,
                     learned>>
  BY SameWorkers DEF MovesOn
<1>2. TypeOK'
  <2>1. writes' \in Seq({"save_outcome", "start_verification", "complete_verification",
                         "capture_learning", "save_failure"})
    <3> DEFINE Actions == {"save_outcome", "start_verification", "complete_verification",
                           "capture_learning", "save_failure"}
    <3>1. writes \in Seq(Actions)
      BY DEF IInv, TypeOK
    <3>2. writes' = writes \/ \E action \in Actions : writes' = Append(writes, action)
      BY DEF MovesOn
    <3> HIDE DEF Actions
    <3>3. writes' \in Seq(Actions)
      BY <3>1, <3>2
    <3> QED BY <3>3 DEF Actions
  <2> QED BY <1>1, <2>1 DEF IInv, TypeOK
<1>3. to = "thrown" \/ from \in Working \cup Checking \cup Learning
  BY DEF Onward, Working, Checking, Learning
<1>4. Justified(phase, decision, results, dispatch, request)'
  BY <1>1, <1>3 DEF IInv, Justified, Working, Checking, Learning
<1>5. BeforeWork(phase, decision, results, dispatch, verdict, bundle, learned, request)'
  BY <1>1 DEF IInv, BeforeWork, Onward
<1>6. AtWork(phase, graph, bundle, results, dispatch, verdict, OrderedWorkers)'
  BY <1>1 DEF IInv, AtWork, Working, Onward
<1>7. AtReview(phase, graph, bundle, results, verdict, OrderedWorkers)'
  BY <1>1 DEF IInv, AtReview, Checking, Onward
<1>8. AtEnd(phase, decision, bundle, graph, results, verdict, OrderedWorkers)'
  BY <1>1 DEF IInv, AtEnd, Learning, Onward
<1>9. OneWorker(dispatch, results)'
  BY <1>1 DEF IInv, OneWorker
<1> QED BY <1>2, <1>4, <1>5, <1>6, <1>7, <1>8, <1>9 DEF IInv

LEMMA MovingOn ==
    ASSUME IInv,
           \/ WaitBeforeRetry \/ SaveOutcome \/ StartVerification
           \/ ProposeProcedure \/ ProposeTransfer \/ SaveFailure
           \/ BrainFails \/ ObserverFails
    PROVE  IInv' /\ UNCHANGED bundle
<1>1. phase \in Phases
  BY DEF IInv, TypeOK
<1>2. CASE WaitBeforeRetry
  <2>1. MovesOn("backoff", "dispatch")
    BY <1>2 DEF WaitBeforeRetry, MovesOn
  <2>2. <<"backoff", "dispatch">> \in Onward /\ {"backoff", "dispatch"} \subseteq Phases
    BY DEF Onward, Phases
  <2> QED BY <2>1, <2>2, MovesOnStep DEF MovesOn
<1>3. CASE SaveOutcome
  <2>1. MovesOn("save", "start")
    BY <1>3 DEF SaveOutcome, MovesOn, Write
  <2>2. <<"save", "start">> \in Onward /\ {"save", "start"} \subseteq Phases
    BY DEF Onward, Phases
  <2> QED BY <2>1, <2>2, MovesOnStep DEF MovesOn
<1>4. CASE StartVerification
  <2>1. MovesOn("start", "complete")
    BY <1>4 DEF StartVerification, MovesOn, Write
  <2>2. <<"start", "complete">> \in Onward /\ {"start", "complete"} \subseteq Phases
    BY DEF Onward, Phases
  <2> QED BY <2>1, <2>2, MovesOnStep DEF MovesOn
<1>5. CASE ProposeProcedure
  <2>1. MovesOn("procedure", "transfer")
    BY <1>5 DEF ProposeProcedure, MovesOn, Write
  <2>2. <<"procedure", "transfer">> \in Onward /\ {"procedure", "transfer"} \subseteq Phases
    BY DEF Onward, Phases
  <2> QED BY <2>1, <2>2, MovesOnStep DEF MovesOn
<1>6. CASE ProposeTransfer
  <2>1. MovesOn("transfer", "returned")
    BY <1>6 DEF ProposeTransfer, MovesOn, Write, Return
  <2>2. <<"transfer", "returned">> \in Onward /\ {"transfer", "returned"} \subseteq Phases
    BY DEF Onward, Phases
  <2> QED BY <2>1, <2>2, MovesOnStep DEF MovesOn
<1>7. CASE SaveFailure
  <2>1. MovesOn("lesson", "returned")
    BY <1>7 DEF SaveFailure, MovesOn, Write, Return
  <2>2. <<"lesson", "returned">> \in Onward /\ {"lesson", "returned"} \subseteq Phases
    BY DEF Onward, Phases
  <2> QED BY <2>1, <2>2, MovesOnStep DEF MovesOn
<1>8. CASE BrainFails \/ ObserverFails
  <2>1. MovesOn(phase, "thrown")
    BY <1>8 DEF BrainFails, ObserverFails, MovesOn
  <2>2. "thrown" \in Phases
    BY DEF Phases
  <2> QED BY <1>1, <2>1, <2>2, MovesOnStep DEF MovesOn
<1> QED BY <1>2, <1>3, <1>4, <1>5, <1>6, <1>7, <1>8

LEMMA CompileBriefStep ==
    ASSUME IInv, CompileBrief
    PROVE  IInv'
<1> DEFINE d == BlockedByBrief(decision)
           n == IF request.data = "not_required" THEN 1 ELSE 2
           o == OrderedWorkers
<1>1. /\ phase = "compile" /\ OrderedWorkers' = o
      /\ graph' = CompiledGraph /\ decision' = d
      /\ bundle' = IF decision.kind = "chat" THEN NoBundle ELSE RecordEvents(OpenSession, n)
      /\ phase' = IF d.should_execute THEN "plan"
                  ELSE IF decision.kind # "chat" THEN "stop"
                  ELSE IF decision.mode = "chat_memory_update" THEN "remember"
                  ELSE "answer"
      /\ UNCHANGED <<request, files, now, dispatch, results, verdict, writes, learned>>
  BY SameWorkers DEF CompileBrief
<1>2. /\ TypeOK /\ request \in Request /\ decision \in Decision /\ Workers(o)
  BY Types DEF TypeOK
<1>3. /\ results = <<>> /\ dispatch = None /\ verdict = None /\ bundle = NoBundle /\ learned = 0
      /\ Routed(decision, request)
  BY <1>1 DEF IInv, BeforeWork, Justified
<1>4. /\ d \in Decision /\ Routed(d, request)
      /\ d.should_execute => Warranted(d, request) /\ decision.kind # "chat"
  <2> DEFINE fault == BriefFault
  <2>1. /\ fault \in Reasons \cup {None}
        /\ fault = None => ~ request.thin /\ request.facts = {} /\ request.data # "blocked"
    BY <1>2, ManagerRunAssumption DEF BriefFault, Reasons, Request
  <2>2. d = IF decision.kind = "chat" \/ fault = None THEN decision
            ELSE BlockedBy(decision, fault)
    BY DEF BlockedByBrief
  <2> HIDE DEF fault, d
  <2>3. CASE decision.kind = "chat" \/ fault = None
    BY <1>2, <1>3, <2>1, <2>2, <2>3 DEF Routed, Warranted
  <2>4. CASE ~ (decision.kind = "chat" \/ fault = None)
    <3>1. d = BlockedBy(decision, fault)
      BY <2>2, <2>4
    <3>2. d \in Decision /\ d.should_execute = FALSE
      BY <1>2, <2>1, <3>1 DEF BlockedBy, Decision
    <3> QED BY <3>2 DEF Routed
  <2> QED BY <2>3, <2>4
<1> HIDE DEF d, o
<1>5. /\ MissionGraph(CompiledGraph)
      /\ decision.kind # "chat" => Shaped(CompiledGraph, o)
      /\ decision.kind # "chat" /\ request.data # "blocked" =>
             NextIs("ready", CompiledGraph, <<>>, o)
  BY <1>2, CompiledIs DEF o
<1>6. phase' \in {"plan", "stop", "remember", "answer"}
      /\ (phase' = "plan" => d.should_execute)
      /\ (phase' # "plan" => ~ d.should_execute)
      /\ (phase' = "stop" => decision.kind # "chat")
      /\ (phase' \in {"remember", "answer"} => decision.kind = "chat")
  BY <1>1
<1>7. CASE decision.kind = "chat"
  <2>1. bundle' = NoBundle
    BY <1>1, <1>7
  <2>2. TypeOK'
    BY <1>1, <1>2, <1>4, <1>5, <1>6, <2>1 DEF TypeOK, Phases, MissionGraph
  <2>3. phase' \in {"remember", "answer"}
    BY <1>4, <1>6, <1>7
  <2>4. Justified(phase, decision, results, dispatch, request)'
    BY <1>1, <1>3, <1>4, <2>3 DEF Justified, Working, Checking, Learning
  <2>5. BeforeWork(phase, decision, results, dispatch, verdict, bundle, learned, request)'
    BY <1>1, <1>2, <1>3, <1>6, <2>1, <2>3 DEF BeforeWork, Request
  <2>6. AtWork(phase, graph, bundle, results, dispatch, verdict, OrderedWorkers)'
    BY <2>3 DEF AtWork, Working
  <2>7. AtReview(phase, graph, bundle, results, verdict, OrderedWorkers)'
    BY <2>3 DEF AtReview, Checking
  <2>8. AtEnd(phase, decision, bundle, graph, results, verdict, OrderedWorkers)'
    BY <2>1, <2>3 DEF AtEnd, Learning
  <2>9. OneWorker(dispatch, results)'
    BY <1>1 DEF IInv, OneWorker
  <2> QED BY <2>2, <2>4, <2>5, <2>6, <2>7, <2>8, <2>9 DEF IInv
<1>8. CASE decision.kind # "chat"
  <2>1. /\ bundle' \in Bundle /\ bundle'.status = "active"
        /\ bundle'.worker_tasks = <<>> /\ ~ bundle'.report
    <3>1. n \in Nat
      OBVIOUS
    <3> HIDE DEF n
    <3>2. bundle' = RecordEvents(OpenSession, n)
      BY <1>1, <1>8
    <3> QED BY <3>1, <3>2, OpenSessionType, EventsType
  <2>2. bundle' # NoBundle
    BY <2>1, NoBundleAssumption
  <2>3. TypeOK'
    BY <1>1, <1>2, <1>4, <1>5, <1>6, <2>1 DEF TypeOK, Phases, MissionGraph
  <2>4. phase' \in {"plan", "stop"}
    BY <1>6, <1>8
  <2>5. Justified(phase, decision, results, dispatch, request)'
    BY <1>1, <1>3, <1>4, <1>6, <2>4 DEF Justified, Working, Checking, Learning
  <2>6. BeforeWork(phase, decision, results, dispatch, verdict, bundle, learned, request)'
    BY <1>1, <1>3, <1>6, <2>1, <2>2, <2>4 DEF BeforeWork
  <2>7. AtWork(phase, graph, bundle, results, dispatch, verdict, OrderedWorkers)'
    <3>1. CASE phase' = "plan"
      <4>1. Shaped(graph', o) /\ NextIs("ready", graph', <<>>, o)
        BY <1>1, <1>4, <1>5, <1>6, <1>8, <3>1 DEF Warranted
      <4>2. Progressed(graph', <<>>, o) /\ AllSucceeded(<<>>)
        <5>1. Len(o) \in 1..2 /\ DOMAIN <<>> = {}
          BY <1>2 DEF Workers
        <5> QED BY <5>1 DEF Progressed, AllSucceeded
      <4>3. OpenBundle(bundle') /\ Recorded(bundle', <<>>) /\ Len(bundle'.worker_tasks) = Len(<<>>)
        BY <2>1, <2>2 DEF OpenBundle, Recorded
      <4> QED BY <1>1, <1>3, <3>1, <4>1, <4>2, <4>3 DEF AtWork, o
    <3>2. CASE phase' = "stop"
      BY <3>2 DEF AtWork, Working
    <3> QED BY <2>4, <3>1, <3>2
  <2>8. AtReview(phase, graph, bundle, results, verdict, OrderedWorkers)'
    BY <2>4 DEF AtReview, Checking
  <2>9. AtEnd(phase, decision, bundle, graph, results, verdict, OrderedWorkers)'
    BY <2>1, <2>4 DEF AtEnd, Learning
  <2>10. OneWorker(dispatch, results)'
    BY <1>1 DEF IInv, OneWorker
  <2> QED BY <2>3, <2>5, <2>6, <2>7, <2>8, <2>9, <2>10 DEF IInv
<1> QED BY <1>7, <1>8

(* What RecordsSurviveRestore asks of one step.                            *)
Survives(b, c) ==
    /\ c.report \/ ~ b.report
    /\ Len(c.checkpoints) >= Len(b.checkpoints)
    /\ \A t \in DOMAIN b.worker_tasks :
          /\ t \in DOMAIN c.worker_tasks
          /\ b.worker_tasks[t].status # "running" => c.worker_tasks[t] = b.worker_tasks[t]

LEMMA SurvivesSame ==
    ASSUME NEW b \in Bundle, NEW c \in Bundle, c.report \/ ~ b.report,
           Len(c.checkpoints) >= Len(b.checkpoints), c.worker_tasks = b.worker_tasks
    PROVE  Survives(b, c)
BY DEF Survives

LEMMA SurvivesMore ==
    ASSUME NEW b \in Bundle, NEW c \in Bundle, c.report \/ ~ b.report,
           Len(c.checkpoints) >= Len(b.checkpoints),
           NEW run, c.worker_tasks = Append(b.worker_tasks, run)
    PROVE  Survives(b, c)
<1>1. b.worker_tasks \in Seq(WorkerTaskRun)
  BY DEF Bundle
<1>2. \A t \in DOMAIN b.worker_tasks : /\ t \in DOMAIN c.worker_tasks
                                       /\ c.worker_tasks[t] = b.worker_tasks[t]
  BY <1>1
<1> QED BY <1>2 DEF Survives

LEMMA Reflexive ==
    ASSUME NEW b \in Bundle
    PROVE  Survives(b, b)
<1>1. Len(b.checkpoints) \in Nat
  BY DEF Bundle
<1> QED BY <1>1, SurvivesSame

LEMMA StopBeforeWorkStep ==
    ASSUME IInv, StopBeforeWork
    PROVE  IInv' /\ (bundle # NoBundle => Survives(bundle, bundle'))
<1> DEFINE status == IF decision.blocked # None THEN "aborted" ELSE "completed"
<1>1. /\ phase = "stop" /\ phase' = "returned" /\ OrderedWorkers' = OrderedWorkers
      /\ bundle' = Finalize(bundle, status)
      /\ UNCHANGED <<request, decision, graph, files, now, dispatch, results, verdict,
                     writes, learned>>
  BY SameWorkers DEF StopBeforeWork, Return
<1>2. /\ results = <<>> /\ dispatch = None /\ ~ decision.should_execute
      /\ bundle # NoBundle /\ ~ bundle.report
  BY <1>1 DEF IInv, BeforeWork
<1>3. TypeOK /\ bundle \in Bundle
  BY <1>2, Types
<1>4. status \in SessionStatuses
  BY DEF SessionStatuses
<1> HIDE DEF status
<1>5. /\ bundle' \in Bundle /\ bundle'.worker_tasks = bundle.worker_tasks
      /\ bundle'.checkpoints = bundle.checkpoints /\ bundle'.report = bundle.report
  BY <1>1, <1>3, <1>4, FinalizeType
<1>6. bundle' # NoBundle /\ ~ bundle'.report
  BY <1>2, <1>5, NoBundleAssumption
<1>7. Survives(bundle, bundle')
  <2>1. Len(bundle.checkpoints) \in Nat
    BY <1>3 DEF Bundle
  <2> QED BY <1>2, <1>3, <1>5, <2>1, SurvivesSame
<1>8. TypeOK'
  BY <1>1, <1>3, <1>5 DEF TypeOK, Phases
<1>9. Justified(phase, decision, results, dispatch, request)'
  BY <1>1, <1>2 DEF IInv, Justified, Working, Checking, Learning
<1>10. BeforeWork(phase, decision, results, dispatch, verdict, bundle, learned, request)'
  BY <1>1 DEF BeforeWork
<1>11. AtWork(phase, graph, bundle, results, dispatch, verdict, OrderedWorkers)'
  BY <1>1 DEF AtWork, Working
<1>12. AtReview(phase, graph, bundle, results, verdict, OrderedWorkers)'
  BY <1>1 DEF AtReview, Checking
<1>13. AtEnd(phase, decision, bundle, graph, results, verdict, OrderedWorkers)'
  BY <1>1, <1>2, <1>6 DEF AtEnd, Learning
<1>14. OneWorker(dispatch, results)'
  BY <1>1 DEF IInv, OneWorker
<1> QED BY <1>7, <1>8, <1>9, <1>10, <1>11, <1>12, <1>13, <1>14 DEF IInv

LEMMA DispatchWorkerStep ==
    ASSUME IInv, DispatchWorker
    PROVE  IInv' /\ Survives(bundle, bundle')
<1> DEFINE o == OrderedWorkers
           k == Len(results)
           task == NextTask(graph)
           requested == graph[task].assigned_worker
           chain == PrimaryWorkerChain(requested, request.preferred)
           d == [task |-> task, requested |-> requested, chain |-> chain, place |-> 1,
                 attempt |-> 1, tried |-> <<>>]
<1>1. /\ phase = "plan" /\ phase' = "dispatch" /\ OrderedWorkers' = o
      /\ ReadyExecutionTasks(graph) # {}
      /\ graph' = UpdateTaskStatus(graph, task, "running") /\ dispatch' = d
      /\ bundle' = RecordEvents(bundle, 1)
      /\ UNCHANGED <<request, decision, files, now, results, verdict, writes, learned>>
  BY SameWorkers DEF DispatchWorker
<1> HIDE DEF o
<1>2. /\ TypeOK /\ Workers(o) /\ MissionGraph(graph) /\ results \in Seq(Result) /\ k \in Nat
  BY Types DEF o
<1>3. /\ Shaped(graph, o) /\ Progressed(graph, results, o) /\ AllSucceeded(results)
      /\ OpenBundle(bundle) /\ Recorded(bundle, results) /\ Len(bundle.worker_tasks) = k
      /\ verdict = None
      /\ NextIs("ready", graph, results, o) /\ dispatch = None
  BY <1>1 DEF IInv, AtWork, Working, o
<1>4. /\ k < Len(o) /\ task = WorkNodes[k + 1] /\ task \in DOMAIN graph
      /\ requested = o[k + 1]
  BY <1>1, <1>2, <1>3, NextTaskIs
<1>5. Len(o) \in 1..2 /\ k + 1 \in 1..2 /\ k + 1 \in DOMAIN o /\ requested \in ManagerWorkers
  <2>1. o \in Seq(ManagerWorkers) /\ Len(o) \in 1..2
    BY <1>2 DEF Workers
  <2>2. k + 1 \in 1..Len(o)
    BY <1>2, <1>4, <2>1
  <2> QED BY <1>4, <2>1, <2>2
<1> HIDE DEF task, requested
<1>6. /\ chain \in Seq(ManagerWorkers) /\ Len(chain) >= 1 /\ EachOnce(chain)
  BY <1>2, <1>5, RequestType, ChainType
<1> HIDE DEF chain
<1>7. d \in Dispatch
  BY <1>2, <1>4, <1>5, <1>6, WorkNodeIds DEF Dispatch, MaxAttempts
<1>8. d # None /\ Handed(d)
  <2>1. 1 \in DOMAIN chain
    BY <1>6
  <2> QED BY <1>6, <1>7, <2>1, ManagerRunAssumption DEF Handed
<1>9. Follows(graph', graph, WorkNodes[k + 1], "running")
  BY <1>1, <1>2, <1>4, UpdateFollows DEF TaskStatuses
<1>10. Shaped(graph', o) /\ Progressed(graph', results, o) /\ NextIs("running", graph', results, o)
  BY <1>2, <1>3, <1>4, <1>9, StartOfTask
<1>11. bundle \in Bundle
  BY <1>3, Types DEF OpenBundle
<1>12. /\ bundle' \in Bundle /\ bundle'.status = bundle.status
       /\ bundle'.worker_tasks = bundle.worker_tasks
       /\ bundle'.checkpoints = bundle.checkpoints /\ bundle'.report = bundle.report
  BY <1>1, <1>11, EventsType
<1>13. OpenBundle(bundle') /\ Recorded(bundle', results)
  BY <1>3, <1>12, NoBundleAssumption DEF OpenBundle, Recorded
<1>14. Survives(bundle, bundle')
  <2>1. Len(bundle.checkpoints) \in Nat
    BY <1>11 DEF Bundle
  <2> QED BY <1>3, <1>11, <1>12, <2>1, SurvivesSame DEF OpenBundle
<1>15. TypeOK'
  <2>1. MissionGraph(graph')
    BY <1>9 DEF Follows
  <2> QED BY <1>1, <1>2, <1>7, <1>12, <2>1 DEF TypeOK, Phases, MissionGraph
<1>16. Justified(phase, decision, results, dispatch, request)'
  BY <1>1 DEF IInv, Justified, Working
<1>17. BeforeWork(phase, decision, results, dispatch, verdict, bundle, learned, request)'
  BY <1>1 DEF BeforeWork
<1>18. AtWork(phase, graph, bundle, results, dispatch, verdict, OrderedWorkers)'
  <2>1. d.task = WorkNodes[k + 1] /\ d.requested = o[k + 1]
    BY <1>4
  <2> HIDE DEF d
  <2> QED BY <1>1, <1>3, <1>4, <1>8, <1>10, <1>12, <1>13, <2>1 DEF AtWork, Working
<1>19. AtReview(phase, graph, bundle, results, verdict, OrderedWorkers)'
  BY <1>1 DEF AtReview, Checking
<1>20. AtEnd(phase, decision, bundle, graph, results, verdict, OrderedWorkers)'
  BY <1>1, <1>13 DEF AtEnd, Learning, OpenBundle
<1>21. OneWorker(dispatch, results)'
  <2> HIDE DEF d
  <2> QED BY <1>1, <1>8 DEF IInv, OneWorker
<1> QED BY <1>14, <1>15, <1>16, <1>17, <1>18, <1>19, <1>20, <1>21 DEF IInv

(* The dispatch under way.                                                 *)
LEMMA AtDispatch ==
    ASSUME IInv, phase \in {"dispatch", "backoff"}
    PROVE  /\ dispatch # None /\ dispatch \in Dispatch /\ Handed(dispatch)
           /\ Worker \in ManagerWorkers
           /\ Shaped(graph, OrderedWorkers) /\ Progressed(graph, results, OrderedWorkers)
           /\ AllSucceeded(results)
           /\ OpenBundle(bundle) /\ Recorded(bundle, results)
           /\ Len(bundle.worker_tasks) = Len(results)
           /\ NextIs("running", graph, results, OrderedWorkers)
           /\ Len(results) < Len(OrderedWorkers)
           /\ dispatch.task = WorkNodes[Len(results) + 1]
           /\ verdict = None
<1>1. dispatch # None
  BY DEF IInv, AtWork
<1>2. dispatch \in Dispatch /\ Handed(dispatch)
  BY <1>1 DEF IInv, TypeOK, OneWorker
<1>3. Worker \in ManagerWorkers
  <2>1. dispatch.chain \in Seq(ManagerWorkers) /\ dispatch.place \in DOMAIN dispatch.chain
    BY <1>2 DEF Dispatch, Handed
  <2> QED BY <2>1 DEF Worker
<1> QED BY <1>1, <1>2, <1>3 DEF IInv, AtWork, Working

(* A task that is tried again or handed on keeps its place in the run.     *)
LEMMA StillAtDispatch ==
    ASSUME IInv, phase = "dispatch", phase' \in {"dispatch", "backoff"},
           UNCHANGED <<request, decision, graph, bundle, files, now, results, verdict, writes,
                       learned>>,
           dispatch' \in Dispatch, dispatch'.task = dispatch.task,
           dispatch'.requested = dispatch.requested, Handed(dispatch')
    PROVE  IInv' /\ Survives(bundle, bundle')
<1>1. OrderedWorkers' = OrderedWorkers /\ dispatch' # None
  BY SameWorkers, ManagerRunAssumption
<1>2. TypeOK'
  BY DEF IInv, TypeOK, Phases
<1>3. Justified(phase, decision, results, dispatch, request)'
  BY DEF IInv, Justified, Working
<1>4. BeforeWork(phase, decision, results, dispatch, verdict, bundle, learned, request)'
  BY DEF BeforeWork
<1>5. AtWork(phase, graph, bundle, results, dispatch, verdict, OrderedWorkers)'
  <2>1. AtWork("dispatch", graph, bundle, results, dispatch, verdict, OrderedWorkers)
    BY DEF IInv
  <2> QED BY <1>1, <2>1 DEF AtWork, Working
<1>6. AtReview(phase, graph, bundle, results, verdict, OrderedWorkers)'
  BY DEF AtReview, Checking
<1>7. AtEnd(phase, decision, bundle, graph, results, verdict, OrderedWorkers)'
  BY <1>1 DEF IInv, AtEnd, Learning
<1>8. OneWorker(dispatch, results)'
  BY DEF IInv, OneWorker
<1>9. Survives(bundle, bundle')
  BY AtDispatch, Types, Reflexive DEF OpenBundle
<1> QED BY <1>2, <1>3, <1>4, <1>5, <1>6, <1>7, <1>8, <1>9 DEF IInv

LEMMA RetryWorkerStep ==
    ASSUME IInv, RetryWorker
    PROVE  IInv' /\ Survives(bundle, bundle')
<1>1. /\ phase = "dispatch" /\ phase' = "backoff"
      /\ dispatch' = [dispatch EXCEPT !.attempt = dispatch.attempt + 1]
      /\ UNCHANGED <<request, decision, graph, bundle, files, now, results, verdict, writes,
                     learned>>
  BY DEF RetryWorker
<1>2. dispatch.attempt < MaxAttempts
  BY DEF RetryWorker, TriesAgain, Retries
<1>3. dispatch \in Dispatch /\ Handed(dispatch)
  BY <1>1, AtDispatch
<1>4. /\ dispatch' \in Dispatch
      /\ dispatch'.task = dispatch.task /\ dispatch'.requested = dispatch.requested
      /\ dispatch'.chain = dispatch.chain /\ dispatch'.place = dispatch.place
      /\ dispatch'.tried = dispatch.tried
  BY <1>1, <1>2, <1>3 DEF Dispatch, MaxAttempts
<1>5. Handed(dispatch')
  BY <1>3, <1>4 DEF Handed
<1> QED BY <1>1, <1>4, <1>5, StillAtDispatch

(* What is noted of an adapter when the task is handed on, or ends.        *)
LEMMA TriedType ==
    ASSUME NEW d \in Dispatch, Handed(d), NEW t \in Try, t.worker = d.chain[d.place]
    PROVE  /\ Append(d.tried, t) \in Seq(Try)
           /\ Len(Append(d.tried, t)) = d.place
           /\ \A j \in DOMAIN Append(d.tried, t) : Append(d.tried, t)[j].worker = d.chain[j]
           /\ \A j \in DOMAIN Append(d.tried, t) :
                 j < d.place \/ GivenUp(t) => GivenUp(Append(d.tried, t)[j])
<1> DEFINE tried == d.tried
           more == Append(tried, t)
           place == d.place
<1>1. /\ tried \in Seq(Try) /\ Len(tried) = place - 1 /\ place \in Nat /\ place >= 1
      /\ \A j \in 1..(place - 1) : tried[j].worker = d.chain[j] /\ GivenUp(tried[j])
  <2>1. d.tried \in Seq(Try) /\ d.chain \in Seq(ManagerWorkers) /\ d.place \in Nat
    BY DEF Dispatch
  <2> QED BY <2>1 DEF Handed
<1> HIDE DEF tried, place
<1>2. /\ more \in Seq(Try) /\ Len(more) = place /\ DOMAIN more = 1..place
      /\ \A j \in 1..place : more[j] = IF j = place THEN t ELSE tried[j]
  BY <1>1
<1> HIDE DEF more
<1>3. ASSUME NEW j \in DOMAIN more
      PROVE  more[j].worker = d.chain[j] /\ (j < place \/ GivenUp(t) => GivenUp(more[j]))
  <2>1. CASE j = place
    BY <1>1, <1>2, <2>1 DEF place
  <2>2. CASE j # place
    <3>1. j \in 1..(place - 1) /\ more[j] = tried[j]
      BY <1>1, <1>2, <2>2
    <3> QED BY <1>1, <3>1
  <2> QED BY <2>1, <2>2
<1> QED BY <1>2, <1>3 DEF more, tried, place

(* An adapter's answer, and what is noted of it.                           *)
LEMMA AnswerIsTried ==
    ASSUME IInv, phase = "dispatch",
           NEW answer \in AdapterAnswers(Worker, dispatch.requested)
    PROVE  /\ answer \in Answer
           /\ [worker |-> Worker, attempts |-> dispatch.attempt, kind |-> answer.kind] \in Try
<1>1. answer \in Answer
  BY DEF AdapterAnswers
<1>2. dispatch \in Dispatch /\ Worker \in ManagerWorkers
  BY AtDispatch
<1> QED BY <1>1, <1>2 DEF Try, Dispatch, Answer

LEMMA FallBackStep ==
    ASSUME IInv, FallBack
    PROVE  IInv' /\ Survives(bundle, bundle')
<1>1. phase = "dispatch"
  BY DEF FallBack
<1>2. PICK answer \in AdapterAnswers(Worker, dispatch.requested) :
         /\ HandsOn(answer)
         /\ dispatch' = [dispatch EXCEPT !.place = dispatch.place + 1, !.attempt = 1,
                                         !.tried = Tried(answer)]
  BY DEF FallBack
<1> DEFINE t == [worker |-> Worker, attempts |-> dispatch.attempt, kind |-> answer.kind]
           tried == Append(dispatch.tried, t)
<1>3. t \in Try /\ answer \in Answer
  BY <1>1, AnswerIsTried
<1>4. dispatch \in Dispatch /\ Handed(dispatch) /\ Worker = dispatch.chain[dispatch.place]
  BY <1>1, AtDispatch DEF Worker
<1>5. Tried(answer) = tried
  BY DEF Tried
<1>6. t.worker = dispatch.chain[dispatch.place]
  BY <1>4
<1>7. /\ answer.kind \in {"missing_adapter", "unavailable"}
      /\ dispatch.place < Len(dispatch.chain)
      /\ Worker # "claude" /\ answer.kind = "unavailable" => dispatch.attempt >= MaxAttempts
  <2>1. dispatch.attempt \in 1..MaxAttempts
    BY <1>4 DEF Dispatch
  <2> QED BY <1>2, <1>4, <2>1
       DEF HandsOn, FallsBack, Retries, CanFallback, CanRetryOnSameWorker, MaxAttempts
<1>8. GivenUp(t)
  <2>1. dispatch.attempt \in 1..MaxAttempts
    BY <1>4 DEF Dispatch
  <2>2. t.worker # "claude" /\ t.kind = "unavailable" => t.attempts = MaxAttempts
    BY <1>7, <2>1 DEF MaxAttempts
  <2> QED BY <1>7, <2>2 DEF GivenUp
<1> HIDE DEF t
<1>9. /\ tried \in Seq(Try) /\ Len(tried) = dispatch.place
      /\ \A j \in DOMAIN tried : tried[j].worker = dispatch.chain[j] /\ GivenUp(tried[j])
  BY <1>3, <1>4, <1>6, <1>8, TriedType
<1> HIDE DEF tried
<1>10. dispatch.place \in Nat /\ dispatch.chain \in Seq(ManagerWorkers)
  BY <1>4 DEF Dispatch
<1>11. /\ dispatch' \in Dispatch
       /\ dispatch'.task = dispatch.task /\ dispatch'.requested = dispatch.requested
       /\ dispatch'.chain = dispatch.chain /\ dispatch'.place = dispatch.place + 1
       /\ dispatch'.tried = tried
  <2> DEFINE d == dispatch
             d1 == [d EXCEPT !.place = d.place + 1]
             d2 == [d1 EXCEPT !.attempt = 1]
             d3 == [d2 EXCEPT !.tried = tried]
  <2>1. dispatch' = d3
    BY <1>2, <1>5
  <2>2. /\ d1 \in Dispatch /\ d1.task = d.task /\ d1.requested = d.requested
        /\ d1.chain = d.chain /\ d1.place = d.place + 1
    BY <1>4, <1>10 DEF Dispatch
  <2> HIDE DEF d1
  <2>3. /\ d2 \in Dispatch /\ d2.task = d1.task /\ d2.requested = d1.requested
        /\ d2.chain = d1.chain /\ d2.place = d1.place
    BY <2>2 DEF Dispatch, MaxAttempts
  <2> HIDE DEF d2
  <2>4. /\ d3 \in Dispatch /\ d3.task = d2.task /\ d3.requested = d2.requested
        /\ d3.chain = d2.chain /\ d3.place = d2.place /\ d3.tried = tried
    BY <1>9, <2>3 DEF Dispatch
  <2> HIDE DEF d3
  <2> QED BY <2>1, <2>2, <2>3, <2>4
<1>12. Handed(dispatch')
  <2>1. dispatch.place + 1 \in DOMAIN dispatch.chain
    BY <1>4, <1>7, <1>10
  <2>2. Len(tried) = (dispatch.place + 1) - 1
    BY <1>9, <1>10
  <2> QED BY <1>4, <1>9, <1>11, <2>1, <2>2 DEF Handed
<1> QED BY <1>1, <1>11, <1>12, StillAtDispatch DEF FallBack

LEMMA FinishDispatchStep ==
    ASSUME IInv, FinishDispatch
    PROVE  IInv' /\ Survives(bundle, bundle')
<1> DEFINE o == OrderedWorkers
           k == Len(results)
<1>1. phase = "dispatch" /\ OrderedWorkers' = o /\ dispatch' = None
      /\ UNCHANGED <<request, decision, verdict, writes, learned>>
  BY SameWorkers DEF FinishDispatch
<1>2. PICK answer \in AdapterAnswers(Worker, dispatch.requested), at \in now..(now + 1) :
         /\ at \in DOMAIN files
         /\ results' = Append(results, [task |-> dispatch.task, requested |-> dispatch.requested,
                                        executed |-> Worker, answer |-> answer,
                                        tried |-> Tried(answer)])
         /\ graph' = UpdateTaskStatus(graph, dispatch.task,
                         IF answer.status = "success" THEN "completed" ELSE "failed")
         /\ LET saved == RecordDispatch(bundle, dispatch.task, dispatch.requested, Worker,
                                        answer.status, at)
            IN  /\ files' = [files EXCEPT ![at] = saved]
                /\ bundle' = RecordEvents(SetSessionStatus(saved, "active"), 1)
         /\ now' = at
         /\ phase' = IF answer.status = "success" THEN "plan" ELSE "gate"
  BY DEF FinishDispatch
<1> DEFINE t == [worker |-> Worker, attempts |-> dispatch.attempt, kind |-> answer.kind]
           tried == Append(dispatch.tried, t)
           r == [task |-> dispatch.task, requested |-> dispatch.requested,
                 executed |-> Worker, answer |-> answer, tried |-> tried]
           status == IF answer.status = "success" THEN "completed" ELSE "failed"
           saved == RecordDispatch(bundle, dispatch.task, dispatch.requested, Worker,
                                   answer.status, at)
           active == SetSessionStatus(saved, "active")
<1>3. /\ TypeOK /\ Workers(o) /\ MissionGraph(graph) /\ results \in Seq(Result) /\ k \in Nat
  BY Types
<1>4. /\ dispatch # None /\ dispatch \in Dispatch /\ Handed(dispatch)
      /\ Worker \in ManagerWorkers /\ Worker = dispatch.chain[dispatch.place]
      /\ Shaped(graph, o) /\ Progressed(graph, results, o)
      /\ AllSucceeded(results)
      /\ OpenBundle(bundle) /\ Recorded(bundle, results)
      /\ Len(bundle.worker_tasks) = k
      /\ NextIs("running", graph, results, o)
      /\ k < Len(o)
      /\ dispatch.task = WorkNodes[k + 1]
      /\ verdict = None
  BY <1>1, AtDispatch DEF Worker
<1>5. t \in Try /\ answer \in Answer
  BY <1>1, AnswerIsTried
<1>6. /\ graph' = UpdateTaskStatus(graph, dispatch.task, status) /\ files' = [files EXCEPT ![at] = saved]
      /\ bundle' = RecordEvents(active, 1) /\ now' = at
      /\ phase' = IF answer.status = "success" THEN "plan" ELSE "gate"
      /\ results' = Append(results, r)
  BY <1>2 DEF Tried
<1>7. t.worker = dispatch.chain[dispatch.place]
  BY <1>4
<1> HIDE DEF o, t
<1>8. /\ tried \in Seq(Try) /\ Len(tried) = dispatch.place
      /\ \A j \in DOMAIN tried : tried[j].worker = dispatch.chain[j]
      /\ \A j \in DOMAIN tried : j < dispatch.place => GivenUp(tried[j])
  BY <1>4, <1>5, <1>7, TriedType
<1> HIDE DEF tried
<1>9. TriedOnce(tried)
  <2>1. /\ dispatch.chain \in Seq(ManagerWorkers) /\ dispatch.place \in 1..Len(dispatch.chain)
        /\ EachOnce(dispatch.chain)
    BY <1>4 DEF Dispatch, Handed
  <2>2. ASSUME NEW i \in DOMAIN tried, NEW j \in DOMAIN tried
        PROVE  /\ tried[i].worker = tried[j].worker => i = j
               /\ i < Len(tried) => GivenUp(tried[i])
    <3>1. i \in DOMAIN dispatch.chain /\ j \in DOMAIN dispatch.chain
      BY <1>8, <2>1
    <3> QED BY <1>8, <2>1, <3>1 DEF EachOnce
  <2> QED BY <2>2 DEF TriedOnce
<1>10. r \in Result
  BY <1>4, <1>5, <1>8 DEF Result, Dispatch
<1>11. r.task = WorkNodes[k + 1] /\ r.answer = answer /\ r.executed = Worker /\ r.tried = tried
       /\ r.task = dispatch.task
  BY <1>4
<1> HIDE DEF r
<1>12. status \in {"completed", "failed"} /\ (status = "completed" <=> answer.status = "success")
  OBVIOUS
<1>13. /\ Len(o) \in 1..2 /\ k + 1 \in 1..2 /\ k + 1 \in DOMAIN o /\ WorkNodes[k + 1] \in DOMAIN graph
  <2>1. o \in Seq(ManagerWorkers) /\ Len(o) \in 1..2
    BY <1>3 DEF Workers
  <2>2. k + 1 \in 1..Len(o) /\ k + 1 \in 1..2
    BY <1>3, <1>4, <2>1
  <2>3. k + 1 \in DOMAIN o
    BY <2>1, <2>2
  <2> QED BY <1>4, <2>1, <2>2, <2>3 DEF Shaped
<1> HIDE DEF status
<1>14. Follows(graph', graph, WorkNodes[k + 1], status)
  <2>1. status \in TaskStatuses
    BY <1>12 DEF TaskStatuses
  <2> QED BY <1>3, <1>4, <1>6, <1>13, <2>1, UpdateFollows
<1>15. /\ Shaped(graph', o) /\ Progressed(graph', results', o)
       /\ answer.status = "success" => NextIs("ready", graph', results', o)
  BY <1>3, <1>4, <1>6, <1>10, <1>11, <1>12, <1>14, EndOfTask
<1>16. bundle \in Bundle /\ at \in Nat /\ at \in 0..Horizon
  BY <1>2, <1>3, <1>4, Types, ManagerRunAssumption DEF OpenBundle, TypeOK
<1>17. /\ saved \in Bundle /\ (saved.report <=> bundle.report)
       /\ saved.worker_tasks = Append(bundle.worker_tasks,
             [task |-> dispatch.task, worker |-> Worker, status |-> answer.status])
       /\ Len(saved.checkpoints) = Len(bundle.checkpoints) + 1
  <2>1. dispatch.task \in NodeIds /\ answer.status \in WorkerTaskStatuses
    BY <1>4, <1>5 DEF Dispatch, Answer, WorkerTaskStatuses
  <2>2. Holds(saved, bundle, dispatch.task, Worker, answer.status)
    BY <1>4, <1>16, <2>1, RecordDispatchType
  <2> HIDE DEF saved
  <2> QED BY <2>2 DEF Holds
<1> HIDE DEF saved
<1>18. /\ active \in Bundle /\ active.status = "active"
       /\ active.worker_tasks = saved.worker_tasks
       /\ active.checkpoints = saved.checkpoints /\ active.report = saved.report
  <2>1. "active" \in SessionStatuses
    BY DEF SessionStatuses
  <2> QED BY <1>17, <2>1, StatusType
<1> HIDE DEF active
<1>19. /\ bundle' \in Bundle /\ bundle'.status = "active"
       /\ bundle'.worker_tasks = saved.worker_tasks
       /\ bundle'.checkpoints = saved.checkpoints /\ (bundle'.report <=> bundle.report)
  BY <1>6, <1>17, <1>18, EventsType
<1>20. OpenBundle(bundle')
  BY <1>4, <1>19, NoBundleAssumption DEF OpenBundle
<1>21. Recorded(bundle', results') /\ Len(bundle'.worker_tasks) = Len(results')
  <2>1. bundle'.worker_tasks = Append(bundle.worker_tasks,
           [task |-> r.task, worker |-> r.executed, status |-> r.answer.status])
    BY <1>11, <1>17, <1>19
  <2> QED BY <1>3, <1>4, <1>6, <1>10, <1>16, <1>19, <2>1, ResultIsRecorded
<1>22. Survives(bundle, bundle')
  <2>1. Len(bundle.checkpoints) \in Nat
    BY <1>16 DEF Bundle
  <2>2. ~ bundle.report /\ Len(bundle'.checkpoints) >= Len(bundle.checkpoints)
    BY <1>4, <1>17, <1>19, <2>1 DEF OpenBundle
  <2>3. bundle'.worker_tasks = Append(bundle.worker_tasks,
           [task |-> dispatch.task, worker |-> Worker, status |-> answer.status])
    BY <1>17, <1>19
  <2> QED BY <1>16, <1>19, <2>2, <2>3, SurvivesMore
<1>23. /\ results' \in Seq(Result) /\ Len(results') = k + 1 /\ DOMAIN results' = 1..(k + 1)
       /\ \A i \in DOMAIN results' : results'[i] = IF i = k + 1 THEN r ELSE results[i]
  BY <1>3, <1>6, <1>10
<1>24. TypeOK'
  <2>1. MissionGraph(graph')
    BY <1>14 DEF Follows
  <2>2. files' \in [0..Horizon -> Bundle \cup {NoBundle}]
    BY <1>3, <1>6, <1>16, <1>17 DEF TypeOK
  <2> QED BY <1>1, <1>3, <1>6, <1>16, <1>19, <1>23, <2>1, <2>2 DEF TypeOK, Phases, MissionGraph
<1>25. Justified(phase, decision, results, dispatch, request)'
  BY <1>1 DEF IInv, Justified, Working
<1>26. BeforeWork(phase, decision, results, dispatch, verdict, bundle, learned, request)'
  BY <1>6 DEF BeforeWork
<1>27. AllSucceeded(results') <=> answer.status = "success"
  BY <1>3, <1>4, <1>11, <1>23 DEF AllSucceeded
<1>28. AtWork(phase, graph, bundle, results, dispatch, verdict, OrderedWorkers)'
  BY <1>1, <1>4, <1>6, <1>15, <1>20, <1>21, <1>27 DEF AtWork, Working
<1>29. AtReview(phase, graph, bundle, results, verdict, OrderedWorkers)'
  <2>1. phase' = "gate" => WorkIsOver(results', o)
    BY <1>3, <1>6, <1>13, <1>4, <1>23, <1>27 DEF WorkIsOver
  <2> QED BY <1>1, <1>4, <1>6, <1>15, <1>20, <1>21, <2>1 DEF AtReview, Checking
<1>30. AtEnd(phase, decision, bundle, graph, results, verdict, OrderedWorkers)'
  BY <1>6, <1>20 DEF AtEnd, Learning, OpenBundle
<1>31. OneWorker(dispatch, results)'
  <2>1. \A i \in DOMAIN results : TriedOnce(results[i].tried)
    BY DEF IInv, OneWorker
  <2>2. ASSUME NEW i \in DOMAIN results'
        PROVE  TriedOnce(results'[i].tried)
    <3>1. CASE i = k + 1
      BY <1>9, <1>11, <1>23, <3>1
    <3>2. CASE i # k + 1
      <4>1. i \in DOMAIN results /\ results'[i] = results[i]
        BY <1>3, <1>23, <3>2
      <4> QED BY <2>1, <4>1
    <3> QED BY <3>1, <3>2
  <2> QED BY <1>1, <2>2 DEF OneWorker
<1> QED BY <1>22, <1>24, <1>25, <1>26, <1>28, <1>29, <1>30, <1>31 DEF IInv

LEMMA EndOfWorkStep ==
    ASSUME IInv, EndOfWork
    PROVE  IInv' /\ Survives(bundle, bundle')
<1> DEFINE o == OrderedWorkers
<1>1. /\ phase = "plan" /\ phase' = "gate" /\ OrderedWorkers' = o
      /\ ReadyExecutionTasks(graph) = {} /\ results # <<>>
      /\ UNCHANGED <<request, decision, graph, bundle, files, now, dispatch, results, verdict,
                     writes, learned>>
  BY SameWorkers DEF EndOfWork
<1>2. /\ TypeOK /\ Workers(o) /\ results \in Seq(Result) /\ Len(results) \in Nat
      /\ Len(o) \in 1..2
  BY Types
<1> HIDE DEF o
<1>3. /\ Shaped(graph, o) /\ Progressed(graph, results, o)
      /\ OpenBundle(bundle) /\ Recorded(bundle, results)
      /\ Len(bundle.worker_tasks) = Len(results)
      /\ verdict = None /\ NextIs("ready", graph, results, o)
  BY <1>1 DEF IInv, AtWork, Working, o
<1>4. WorkIsOver(results, o)
  <2>1. ~ (Len(results) < Len(o))
    BY <1>1, <1>2, <1>3, NextTaskIs
  <2>2. Len(results) <= Len(o)
    BY <1>3 DEF Progressed
  <2>3. Len(results) = Len(o)
    BY <1>2, <2>1, <2>2
  <2> QED BY <1>2, <2>3 DEF WorkIsOver
<1>5. TypeOK'
  BY <1>1, <1>2 DEF TypeOK, Phases
<1>6. Justified(phase, decision, results, dispatch, request)'
  BY <1>1 DEF IInv, Justified, Working, Checking, Learning
<1>7. BeforeWork(phase, decision, results, dispatch, verdict, bundle, learned, request)'
  BY <1>1 DEF BeforeWork
<1>8. AtWork(phase, graph, bundle, results, dispatch, verdict, OrderedWorkers)'
  BY <1>1 DEF AtWork, Working
<1>9. AtReview(phase, graph, bundle, results, verdict, OrderedWorkers)'
  BY <1>1, <1>3, <1>4 DEF AtReview, Checking
<1>10. AtEnd(phase, decision, bundle, graph, results, verdict, OrderedWorkers)'
  <2>1. phase' = "gate"
    BY <1>1
  <2>2. ~ bundle'.report /\ bundle'.status # "completed"
    BY <1>1, <1>3 DEF OpenBundle
  <2> QED BY <2>1, <2>2 DEF AtEnd, Learning
<1>11. OneWorker(dispatch, results)'
  BY <1>1 DEF IInv, OneWorker
<1>12. Survives(bundle, bundle')
  BY <1>1, <1>3, Types, Reflexive DEF OpenBundle
<1> QED BY <1>5, <1>6, <1>7, <1>8, <1>9, <1>10, <1>11, <1>12 DEF IInv

LEMMA BeginVerificationStep ==
    ASSUME IInv, BeginVerification
    PROVE  IInv' /\ Survives(bundle, bundle')
<1> DEFINE o == OrderedWorkers
<1>1. /\ phase = "gate" /\ phase' = "verify" /\ OrderedWorkers' = o
      /\ bundle' = StartWorkerTask(bundle, "verification_gate", "verifier")
      /\ UNCHANGED <<request, decision, graph, files, now, dispatch, results, verdict, writes,
                     learned>>
  BY SameWorkers DEF BeginVerification
<1>2. TypeOK /\ results \in Seq(Result)
  BY Types
<1> HIDE DEF o
<1>3. /\ Shaped(graph, o) /\ Progressed(graph, results, o) /\ WorkIsOver(results, o)
      /\ OpenBundle(bundle) /\ Recorded(bundle, results)
      /\ Len(bundle.worker_tasks) = Len(results)
      /\ verdict = None
  BY <1>1 DEF IInv, AtReview, Checking, o
<1>4. bundle \in Bundle
  BY <1>3, Types DEF OpenBundle
<1>5. /\ bundle' \in Bundle /\ bundle'.status = bundle.status
      /\ bundle'.worker_tasks = Append(bundle.worker_tasks,
            [task |-> "verification_gate", worker |-> "verifier", status |-> "running"])
      /\ bundle'.checkpoints = bundle.checkpoints /\ bundle'.report = bundle.report
  <2>1. "verification_gate" \in NodeIds /\ "verifier" \in ManagerWorkers \cup {"verifier"}
    BY DEF NodeIds
  <2> QED BY <1>1, <1>4, <2>1, StartType
<1>6. OpenBundle(bundle')
  BY <1>3, <1>5, NoBundleAssumption DEF OpenBundle
<1>7. Reviewed(bundle', results, "running")
  BY <1>2, <1>3, <1>4, <1>5, ReviewIsOpened
<1>8. Survives(bundle, bundle')
  <2>1. Len(bundle.checkpoints) \in Nat
    BY <1>4 DEF Bundle
  <2>2. ~ bundle.report /\ Len(bundle'.checkpoints) >= Len(bundle.checkpoints)
    BY <1>3, <1>5, <2>1 DEF OpenBundle
  <2> QED BY <1>4, <1>5, <2>2, SurvivesMore
<1>9. TypeOK'
  BY <1>1, <1>2, <1>5 DEF TypeOK, Phases
<1>10. Justified(phase, decision, results, dispatch, request)'
  BY <1>1 DEF IInv, Justified, Working, Checking, Learning
<1>11. BeforeWork(phase, decision, results, dispatch, verdict, bundle, learned, request)'
  BY <1>1 DEF BeforeWork
<1>12. AtWork(phase, graph, bundle, results, dispatch, verdict, OrderedWorkers)'
  BY <1>1 DEF AtWork, Working
<1>13. AtReview(phase, graph, bundle, results, verdict, OrderedWorkers)'
  BY <1>1, <1>3, <1>6, <1>7 DEF AtReview, Checking
<1>14. AtEnd(phase, decision, bundle, graph, results, verdict, OrderedWorkers)'
  <2>1. phase' = "verify"
    BY <1>1
  <2>2. ~ bundle'.report /\ bundle'.status # "completed"
    BY <1>6 DEF OpenBundle
  <2> QED BY <2>1, <2>2 DEF AtEnd, Learning
<1>15. OneWorker(dispatch, results)'
  BY <1>1 DEF IInv, OneWorker
<1> QED BY <1>8, <1>9, <1>10, <1>11, <1>12, <1>13, <1>14, <1>15 DEF IInv

(* The verdict is complete only if every task is done and no check failed. *)
LEMMA VerdictIsJudged ==
    ASSUME NEW o, WorkIsOver(results, o)
    PROVE  Judged(IF MergedSuccess /\ AllChecksPass THEN "verified_complete"
                  ELSE "verification_failed", results, o)
<1>1. None \notin {"verified_complete", "verification_failed"}
  BY ManagerRunAssumption DEF Verdicts
<1>2. CASE MergedSuccess /\ AllChecksPass
  <2>1. \A i \in DOMAIN results : results[i].answer \in Answers
    BY DEF Answers
  <2>2. /\ \A i \in DOMAIN results : results[i].answer.status = "success"
        /\ \A i \in DOMAIN results : results[i].answer.checks # "failed"
    BY <1>2, <2>1 DEF MergedSuccess, AllChecksPass
  <2> QED BY <1>1, <1>2, <2>2 DEF Judged, WorkIsOver, AllSucceeded
<1>3. CASE ~ (MergedSuccess /\ AllChecksPass)
  BY <1>1, <1>3 DEF Judged
<1> QED BY <1>2, <1>3

LEMMA ReviewStep ==
    ASSUME IInv, Review
    PROVE  IInv' /\ Survives(bundle, bundle')
<1> DEFINE o == OrderedWorkers
<1>1. /\ phase = "verify" /\ phase' = "save" /\ OrderedWorkers' = o
      /\ verdict' = IF MergedSuccess /\ AllChecksPass THEN "verified_complete"
                    ELSE "verification_failed"
      /\ bundle' = RecordEvents(bundle, 1)
      /\ UNCHANGED <<request, decision, graph, files, now, dispatch, results, writes, learned>>
  BY SameWorkers DEF Review
<1>2. TypeOK /\ results \in Seq(Result)
  BY Types
<1> HIDE DEF o
<1>3. /\ Shaped(graph, o) /\ Progressed(graph, results, o) /\ WorkIsOver(results, o)
      /\ OpenBundle(bundle) /\ Reviewed(bundle, results, "running")
  BY <1>1 DEF IInv, AtReview, Checking, o
<1>4. bundle \in Bundle
  BY <1>3, Types DEF OpenBundle
<1>5. /\ bundle' \in Bundle /\ bundle'.status = bundle.status
      /\ bundle'.worker_tasks = bundle.worker_tasks
      /\ bundle'.checkpoints = bundle.checkpoints /\ bundle'.report = bundle.report
  BY <1>1, <1>4, EventsType
<1>6. OpenBundle(bundle') /\ Reviewed(bundle', results, "running")
  BY <1>3, <1>5, NoBundleAssumption DEF OpenBundle, Reviewed, Recorded
<1>7. Judged(verdict', results, o) /\ verdict' \in Verdicts
  BY <1>1, <1>3, VerdictIsJudged DEF Verdicts
<1>8. Survives(bundle, bundle')
  <2>1. Len(bundle.checkpoints) \in Nat
    BY <1>4 DEF Bundle
  <2> QED BY <1>3, <1>4, <1>5, <2>1, SurvivesSame DEF OpenBundle
<1>9. TypeOK'
  BY <1>1, <1>2, <1>5, <1>7 DEF TypeOK, Phases
<1>10. Justified(phase, decision, results, dispatch, request)'
  BY <1>1 DEF IInv, Justified, Working, Checking, Learning
<1>11. BeforeWork(phase, decision, results, dispatch, verdict, bundle, learned, request)'
  BY <1>1 DEF BeforeWork
<1>12. AtWork(phase, graph, bundle, results, dispatch, verdict, OrderedWorkers)'
  BY <1>1 DEF AtWork, Working
<1>13. AtReview(phase, graph, bundle, results, verdict, OrderedWorkers)'
  BY <1>1, <1>3, <1>6, <1>7 DEF AtReview, Checking
<1>14. AtEnd(phase, decision, bundle, graph, results, verdict, OrderedWorkers)'
  BY <1>1, <1>6 DEF AtEnd, Learning, OpenBundle
<1>15. OneWorker(dispatch, results)'
  BY <1>1 DEF IInv, OneWorker
<1> QED BY <1>8, <1>9, <1>10, <1>11, <1>12, <1>13, <1>14, <1>15 DEF IInv

(* After the verdict the gate has it, and the work is as it was.           *)
LEMMA GraphAfterVerdictIs ==
    ASSUME NEW o, Workers(o), MissionGraph(graph), results \in Seq(Result),
           Shaped(graph, o), Progressed(graph, results, o)
    PROVE  /\ MissionGraph(GraphAfterVerdict)
           /\ Shaped(GraphAfterVerdict, o) /\ Progressed(GraphAfterVerdict, results, o)
           /\ GraphAfterVerdict["verification_gate"].status = "completed" <=> Verified
<1> DEFINE status == IF Verified THEN "completed" ELSE "failed"
           gated == UpdateTaskStatus(graph, "verification_gate", status)
           final == GraphAfterVerdict
<1>1. /\ status \in TaskStatuses /\ status \notin Waiting /\ "completed" \in TaskStatuses
      /\ (status = "completed" <=> Verified)
  BY DEF TaskStatuses, Waiting
<1>2. final = UpdateTaskStatus(gated, "final_report", "completed")
  BY DEF GraphAfterVerdict
<1> HIDE DEF status, final
<1>3. \A i \in DOMAIN results : WorkNodes[i] \notin {"verification_gate", "final_report"}
  <2>1. \A i \in DOMAIN results : i \in 1..2
    BY DEF Workers, Progressed
  <2> QED BY <2>1, WorkNodeIds
<1>4. Follows(gated, graph, "verification_gate", status)
  BY <1>1, UpdateFollows DEF Shaped
<1> HIDE DEF gated
<1>5. /\ MissionGraph(gated) /\ Shaped(gated, o) /\ Progressed(gated, results, o)
      /\ gated["verification_gate"].status = status
  <2>1. gated["verification_gate"].status = status
    BY <1>1, <1>4 DEF Follows, Shaped, StatusSet
  <2>2. MissionGraph(gated) /\ Shaped(gated, o)
    BY <1>4, ShapeStays DEF Follows
  <2>3. \A i \in DOMAIN results : WorkNodes[i] # "verification_gate"
    BY <1>3
  <2>4. Progressed(gated, results, o)
    BY <1>4, <2>3, ProgressStays
  <2> QED BY <2>1, <2>2, <2>4
<1>6. Follows(final, gated, "final_report", "completed")
  BY <1>1, <1>2, <1>5, UpdateFollows DEF Shaped
<1>7. final["verification_gate"].status = status
  BY <1>1, <1>5, <1>6 DEF Follows, Shaped, StatusSet
<1>8. MissionGraph(final) /\ Shaped(final, o) /\ Progressed(final, results, o)
  <2>1. MissionGraph(final) /\ Shaped(final, o)
    BY <1>5, <1>6, ShapeStays DEF Follows
  <2>2. \A i \in DOMAIN results : WorkNodes[i] # "final_report"
    BY <1>3
  <2>3. Progressed(final, results, o)
    BY <1>5, <1>6, <2>2, ProgressStays
  <2> QED BY <2>1, <2>3
<1> QED BY <1>1, <1>7, <1>8 DEF final

LEMMA CompleteVerificationStep ==
    ASSUME IInv, CompleteVerification
    PROVE  IInv' /\ Survives(bundle, bundle')
<1> DEFINE o == OrderedWorkers
           k == Len(results)
           status == IF Verified THEN "success" ELSE "needs_retry"
<1>1. /\ phase = "complete" /\ phase' = IF Verified THEN "procedure" ELSE "lesson"
      /\ OrderedWorkers' = o
      /\ graph' = GraphAfterVerdict /\ writes' = Append(writes, "complete_verification")
      /\ UNCHANGED <<request, decision, dispatch, results, verdict, learned>>
  BY SameWorkers DEF CompleteVerification, Write
<1>2. PICK at \in now..(now + 1) :
         /\ at \in DOMAIN files /\ now' = at
         /\ files' = [files EXCEPT ![at] = CheckpointVerification(bundle, at)]
         /\ bundle' = ReportAndFinalize(CheckpointVerification(bundle, at), files')
  BY DEF CompleteVerification
<1>3. /\ TypeOK /\ Workers(o) /\ MissionGraph(graph) /\ results \in Seq(Result) /\ k \in Nat
  BY Types
<1> HIDE DEF o
<1>4. /\ Shaped(graph, o) /\ Progressed(graph, results, o) /\ WorkIsOver(results, o)
      /\ OpenBundle(bundle) /\ Reviewed(bundle, results, "running")
      /\ Judged(verdict, results, o)
  BY <1>1 DEF IInv, AtReview, Checking, o
<1>5. bundle \in Bundle /\ at \in Nat /\ at \in 0..Horizon
  BY <1>2, <1>3, <1>4, Types, ManagerRunAssumption DEF OpenBundle, TypeOK
<1>6. Len(bundle.worker_tasks) = k + 1
  BY <1>4 DEF Reviewed
<1>7. /\ CheckpointVerification(bundle, at) \in Bundle
      /\ bundle' \in Bundle /\ bundle'.report
      /\ bundle'.status = IF Verified THEN "completed" ELSE "failed"
      /\ bundle'.worker_tasks = LastClosed(bundle.worker_tasks, status)
      /\ Len(bundle'.checkpoints) = Len(bundle.checkpoints) + 1
  <2>1. files'[at] = CheckpointVerification(bundle, at)
    BY <1>2
  <2>2. Len(bundle.worker_tasks) >= 1
    BY <1>3, <1>6
  <2> QED BY <1>2, <1>5, <2>1, <2>2, ReportAndFinalizeType
<1>8. status \in WorkerTaskStatuses
  BY DEF WorkerTaskStatuses
<1>9. Reviewed(bundle', results, status)
  BY <1>3, <1>4, <1>5, <1>7, <1>8, ReviewIsClosed
<1>10. /\ MissionGraph(graph') /\ Shaped(graph', o) /\ Progressed(graph', results, o)
       /\ graph'["verification_gate"].status = "completed" <=> Verified
  BY <1>1, <1>3, <1>4, GraphAfterVerdictIs
<1>11. Concluded(bundle', graph', results, verdict, o)
  <2>1. bundle'.status = "completed" <=> Verified
    BY <1>7
  <2>2. Len(results) \in 1..Len(o)
    BY <1>4 DEF WorkIsOver
  <2>3. /\ Shaped(graph', o) /\ Progressed(graph', results, o) /\ Judged(verdict, results, o)
    BY <1>4, <1>10
  <2>4. graph'["verification_gate"].status = "completed" <=> verdict = "verified_complete"
    BY <1>10 DEF Verified
  <2>5. bundle'.status = "completed" <=> verdict = "verified_complete"
    BY <2>1 DEF Verified
  <2>6. Reviewed(bundle', results, IF verdict = "verified_complete" THEN "success"
                                   ELSE "needs_retry")
    BY <1>9 DEF Verified
  <2> QED BY <2>2, <2>3, <2>4, <2>5, <2>6 DEF Concluded
<1>12. bundle' # NoBundle
  BY <1>7, NoBundleAssumption
<1>13. Survives(bundle, bundle')
  <2>1. /\ bundle.worker_tasks \in Seq(WorkerTaskRun)
        /\ Len(bundle'.checkpoints) >= Len(bundle.checkpoints)
    BY <1>5, <1>7 DEF Bundle
  <2>2. bundle.worker_tasks[k + 1].status = "running"
    BY <1>4 DEF Reviewed
  <2>3. /\ DOMAIN bundle'.worker_tasks = DOMAIN bundle.worker_tasks
        /\ \A t \in DOMAIN bundle.worker_tasks :
              t # k + 1 => bundle'.worker_tasks[t] = bundle.worker_tasks[t]
    BY <1>6, <1>7 DEF LastClosed
  <2> QED BY <1>7, <2>1, <2>2, <2>3 DEF Survives
<1>14. TypeOK'
  <2>1. files' \in [0..Horizon -> Bundle \cup {NoBundle}]
    BY <1>2, <1>3, <1>5, <1>7 DEF TypeOK
  <2>2. writes' \in Seq({"save_outcome", "start_verification", "complete_verification",
                         "capture_learning", "save_failure"})
    <3> DEFINE Actions == {"save_outcome", "start_verification", "complete_verification",
                           "capture_learning", "save_failure"}
    <3>1. writes \in Seq(Actions) /\ "complete_verification" \in Actions
      BY <1>3 DEF TypeOK
    <3> HIDE DEF Actions
    <3>2. writes' \in Seq(Actions)
      BY <1>1, <3>1
    <3> QED BY <3>2 DEF Actions
  <2> QED BY <1>1, <1>2, <1>3, <1>5, <1>7, <1>10, <2>1, <2>2 DEF TypeOK, Phases, MissionGraph
<1>15. Justified(phase, decision, results, dispatch, request)'
  BY <1>1 DEF IInv, Justified, Working, Checking, Learning
<1>16. BeforeWork(phase, decision, results, dispatch, verdict, bundle, learned, request)'
  BY <1>1 DEF BeforeWork
<1>17. AtWork(phase, graph, bundle, results, dispatch, verdict, OrderedWorkers)'
  BY <1>1 DEF AtWork, Working
<1>18. AtReview(phase, graph, bundle, results, verdict, OrderedWorkers)'
  BY <1>1 DEF AtReview, Checking
<1>19. AtEnd(phase, decision, bundle, graph, results, verdict, OrderedWorkers)'
  BY <1>1, <1>7, <1>11, <1>12 DEF AtEnd
<1>20. OneWorker(dispatch, results)'
  BY <1>1 DEF IInv, OneWorker
<1> QED BY <1>13, <1>14, <1>15, <1>16, <1>17, <1>18, <1>19, <1>20 DEF IInv

-----------------------------------------------------------------------------
(* The theorems. *)

LEMMA InitIsInvariant ==
    ASSUME Init
    PROVE  IInv
<1>1. /\ request \in Requests /\ phase = "route"
      /\ decision = [kind |-> "chat", mode |-> None, should_execute |-> FALSE,
                     blocked |-> None]
      /\ graph = <<>> /\ bundle = NoBundle /\ files = [t \in 0..Horizon |-> NoBundle]
      /\ now = 0 /\ dispatch = None /\ results = <<>> /\ verdict = None
      /\ writes = <<>> /\ learned = 0
  BY DEF Init, NoGraph
<1>2. TypeOK
  <2>1. now \in 0..Horizon
    BY <1>1, ManagerRunAssumption
  <2>2. decision \in Decision
    BY <1>1 DEF Decision
  <2>3. DOMAIN graph = {}
    BY <1>1
  <2> QED BY <1>1, <2>1, <2>2, <2>3 DEF TypeOK, Phases
<1>3. Justified(phase, decision, results, dispatch, request)
  BY <1>1 DEF Justified, Routed, Working, Checking, Learning
<1>4. BeforeWork(phase, decision, results, dispatch, verdict, bundle, learned, request)
  BY <1>1 DEF BeforeWork
<1>5. /\ AtWork(phase, graph, bundle, results, dispatch, verdict, OrderedWorkers)
      /\ AtReview(phase, graph, bundle, results, verdict, OrderedWorkers)
  BY <1>1 DEF AtWork, AtReview, Working, Checking
<1>6. AtEnd(phase, decision, bundle, graph, results, verdict, OrderedWorkers)
  BY <1>1 DEF AtEnd, Learning
<1>7. OneWorker(dispatch, results)
  BY <1>1 DEF OneWorker
<1> QED BY <1>2, <1>3, <1>4, <1>5, <1>6, <1>7 DEF IInv

LEMMA RestIsInvariant ==
    ASSUME IInv, UNCHANGED vars
    PROVE  IInv'
<1>1. /\ OrderedWorkers' = OrderedWorkers
      /\ UNCHANGED <<request, phase, decision, graph, bundle, files, now, dispatch, results,
                     verdict, writes, learned>>
  BY SameWorkers DEF vars
<1>2. TypeOK'
  BY <1>1 DEF IInv, TypeOK
<1>3. /\ Justified(phase, decision, results, dispatch, request)'
      /\ BeforeWork(phase, decision, results, dispatch, verdict, bundle, learned, request)'
      /\ AtWork(phase, graph, bundle, results, dispatch, verdict, OrderedWorkers)'
      /\ AtReview(phase, graph, bundle, results, verdict, OrderedWorkers)'
      /\ AtEnd(phase, decision, bundle, graph, results, verdict, OrderedWorkers)'
      /\ OneWorker(dispatch, results)'
  BY <1>1 DEF IInv
<1> QED BY <1>2, <1>3 DEF IInv

(* Every step keeps the invariant, and what the session has on record.     *)
LEMMA NextIsInvariant ==
    ASSUME IInv, [Next]_vars
    PROVE  IInv' /\ (bundle # NoBundle => Survives(bundle, bundle'))
<1>1. bundle # NoBundle => Survives(bundle, bundle)
  BY Types, Reflexive
<1>2. CASE Route
  <2>1. bundle = NoBundle
    BY <1>2 DEF Route, IInv, BeforeWork
  <2> QED BY <1>2, <2>1, RouteStep
<1>3. CASE CompileBrief
  <2>1. bundle = NoBundle
    BY <1>3 DEF CompileBrief, IInv, BeforeWork
  <2> QED BY <1>3, <2>1, CompileBriefStep
<1>4. CASE StopBeforeWork
  BY <1>4, StopBeforeWorkStep
<1>5. CASE LearnOwnerFact \/ FinishMemoryUpdate \/ AnswerChat
  <2>1. bundle = NoBundle
    BY <1>5 DEF LearnOwnerFact, FinishMemoryUpdate, AnswerChat, IInv, BeforeWork
  <2> QED BY <1>5, <2>1, EarlyStep
<1>6. CASE DispatchWorker
  BY <1>6, DispatchWorkerStep
<1>7. CASE RetryWorker
  BY <1>7, RetryWorkerStep
<1>8. CASE FallBack
  BY <1>8, FallBackStep
<1>9. CASE FinishDispatch
  BY <1>9, FinishDispatchStep
<1>10. CASE EndOfWork
  BY <1>10, EndOfWorkStep
<1>11. CASE BeginVerification
  BY <1>11, BeginVerificationStep
<1>12. CASE Review
  BY <1>12, ReviewStep
<1>13. CASE CompleteVerification
  BY <1>13, CompleteVerificationStep
<1>14. CASE \/ WaitBeforeRetry \/ SaveOutcome \/ StartVerification
            \/ ProposeProcedure \/ ProposeTransfer \/ SaveFailure
            \/ BrainFails \/ ObserverFails
  <2>1. IInv' /\ bundle' = bundle
    BY <1>14, MovingOn
  <2> QED BY <1>1, <2>1
<1>15. CASE UNCHANGED vars
  <2>1. bundle' = bundle
    BY <1>15 DEF vars
  <2> QED BY <1>1, <1>15, <2>1, RestIsInvariant
<1>16. Step \/ UNCHANGED vars
  BY DEF Next, Rest
<1> QED BY <1>2, <1>3, <1>4, <1>5, <1>6, <1>7, <1>8, <1>9, <1>10, <1>11, <1>12, <1>13,
           <1>14, <1>15, <1>16 DEF Step

(* The invariant that the properties below follow from holds throughout    *)
(* every run of the manager.                                               *)
THEOREM Invariance == Spec => []IInv
<1>1. Init => IInv
  BY InitIsInvariant
<1>2. IInv /\ [Next]_vars => IInv'
  BY NextIsInvariant
<1> QED BY <1>1, <1>2, PTL DEF Spec

(* The locals of a run, the session that the spine keeps and its           *)
(* checkpoint files keep the shape of their types, also when a restore     *)
(* replaces the session by what a file holds.                              *)
THEOREM TypeCorrect == Spec => []TypeOK
<1>1. IInv => TypeOK
  BY DEF IInv
<1> QED BY <1>1, Invariance, PTL

(* No worker runs for a request that an earlier decision of the run has    *)
(* refused, and a run that may execute finds a first task to dispatch.     *)
THEOREM WorkIsWarranted == Spec => []DispatchIsWarranted
<1>1. ASSUME IInv
      PROVE  DispatchIsWarranted
  <2>1. ASSUME dispatch # None \/ results # <<>>
        PROVE  /\ ~ request.dry /\ ~ request.ambiguous /\ ~ request.thin
               /\ request.facts = {} /\ request.data # "blocked"
               /\ request.routed = "chat_memory_update" => request.force
    BY <1>1, <2>1 DEF IInv, Justified, Routed, Warranted
  <2>2. ASSUME phase = "plan", results = <<>>
        PROVE  ReadyExecutionTasks(graph) # {}
    <3> DEFINE o == OrderedWorkers
    <3>1. Workers(o) /\ Len(o) \in 1..2 /\ results \in Seq(Result) /\ Len(results) = 0
      BY <1>1, <2>2, Types
    <3>2. /\ Shaped(graph, o) /\ Progressed(graph, results, o)
          /\ NextIs("ready", graph, results, o)
      BY <1>1, <2>2 DEF IInv, AtWork, Working
    <3> HIDE DEF o
    <3>3. Len(results) < Len(o)
      BY <3>1
    <3> QED BY <3>1, <3>2, <3>3, NextTaskIs
  <2> QED BY <2>1, <2>2 DEF DispatchIsWarranted
<1> QED BY <1>1, Invariance, PTL

(* A session that ends as completed after work has every task of its plan  *)
(* done by a worker that said so, and no failed check: the restore after a *)
(* refused verification never leads there.                                 *)
THEOREM CompletedIsDone == Spec => []NoFalseComplete
<1>1. ASSUME IInv
      PROVE  NoFalseComplete
  <2> DEFINE o == OrderedWorkers
  <2> SUFFICES ASSUME bundle # NoBundle, bundle.status = "completed",
                      decision.should_execute
               PROVE  /\ \A i \in DOMAIN o : graph[WorkNodes[i]].status = "completed"
                      /\ Len(results) = Len(o)
                      /\ \A i \in DOMAIN results : /\ results[i].answer.status = "success"
                                                   /\ results[i].answer.checks # "failed"
    BY DEF NoFalseComplete
  <2>1. Workers(o) /\ results \in Seq(Result)
    BY <1>1, Types
  <2>2. Concluded(bundle, graph, results, verdict, o)
    BY <1>1 DEF IInv, AtEnd
  <2> HIDE DEF o
  <2>3. verdict = "verified_complete"
    BY <2>2 DEF Concluded
  <2>4. /\ \A i \in DOMAIN results : results[i].answer.status = "success"
        /\ \A i \in DOMAIN results : results[i].answer.checks # "failed"
        /\ Len(results) = Len(o)
    BY <2>2, <2>3 DEF Concluded, Judged, AllSucceeded
  <2>5. DOMAIN results = DOMAIN o
    BY <2>1, <2>4 DEF Workers
  <2>6. \A i \in DOMAIN o : graph[WorkNodes[i]].status = "completed"
    BY <2>2, <2>4, <2>5 DEF Concluded, Progressed
  <2> QED BY <2>4, <2>6
<1> QED BY <1>1, Invariance, PTL

(* With the verdict the session, which may have come back from a file, and *)
(* the graph tell the same of every task and of the verification; the      *)
(* report is on record then, and not before.                               *)
THEOREM RecordsAgree == Spec => []SessionAgreesWithGraph
<1>1. ASSUME IInv
      PROVE  SessionAgreesWithGraph
  <2> DEFINE o == OrderedWorkers
             k == Len(results)
             tasks == bundle.worker_tasks
             review == IF verdict = "verified_complete" THEN "success" ELSE "needs_retry"
  <2>1. Workers(o) /\ results \in Seq(Result) /\ k \in Nat
    BY <1>1, Types
  <2>2. bundle # NoBundle /\ bundle.report => verdict # None
    BY <1>1 DEF IInv, AtEnd, Concluded, Judged
  <2>3. ASSUME phase \in {"procedure", "transfer", "lesson"}
               \/ (phase = "returned" /\ results # <<>>)
        PROVE  /\ bundle.report
               /\ Len(tasks) = k + 1
               /\ \A t \in DOMAIN tasks :
                     /\ tasks[t].status # "running"
                     /\ tasks[t].status = "success"
                           <=> graph[tasks[t].task].status = "completed"
                     /\ t <= k => /\ tasks[t].task = results[t].task
                                  /\ tasks[t].worker = results[t].executed
    <3>1. bundle # NoBundle /\ bundle.report
      BY <1>1, <2>3 DEF IInv, AtEnd, Learning
    <3>2. Concluded(bundle, graph, results, verdict, o)
      BY <1>1, <3>1 DEF IInv, AtEnd
    <3>3. tasks \in Seq(WorkerTaskRun)
      BY <1>1, <3>1, Types DEF Bundle
    <3> HIDE DEF o
    <3>4. /\ Len(tasks) = k + 1
          /\ tasks[k + 1] = [task |-> "verification_gate", worker |-> "verifier",
                             status |-> review]
          /\ \A i \in DOMAIN results :
                tasks[i] = [task |-> results[i].task, worker |-> results[i].executed,
                            status |-> results[i].answer.status]
      BY <3>2 DEF Concluded, Reviewed, Recorded
    <3> HIDE DEF tasks
    <3>5. ASSUME NEW t \in DOMAIN tasks
          PROVE  /\ tasks[t].status # "running"
                 /\ tasks[t].status = "success" <=> graph[tasks[t].task].status = "completed"
                 /\ t <= k => /\ tasks[t].task = results[t].task
                              /\ tasks[t].worker = results[t].executed
      <4>1. t \in 1..(k + 1)
        BY <3>3, <3>4
      <4>2. CASE t = k + 1
        <5>1. tasks[t].status = review /\ tasks[t].task = "verification_gate"
          BY <3>4, <4>2
        <5>2. graph["verification_gate"].status = "completed"
                 <=> verdict = "verified_complete"
          BY <3>2 DEF Concluded
        <5> QED BY <2>1, <4>2, <5>1, <5>2
      <4>3. CASE t # k + 1
        <5>1. t \in DOMAIN results
          BY <2>1, <4>1, <4>3
        <5>2. results[t].answer.status # "running"
          <6>1. results[t] \in Result
            BY <2>1, <5>1
          <6>2. results[t].answer \in Answer
            BY <6>1 DEF Result
          <6> QED BY <6>2 DEF Answer
        <5>3. /\ results[t].task = WorkNodes[t]
              /\ graph[WorkNodes[t]].status = "completed"
                    <=> results[t].answer.status = "success"
          BY <3>2, <5>1 DEF Concluded, Progressed
        <5>4. /\ tasks[t].task = results[t].task /\ tasks[t].worker = results[t].executed
              /\ tasks[t].status = results[t].answer.status
          <6> DEFINE task == results[t].task
                     worker == results[t].executed
                     status == results[t].answer.status
          <6>1. tasks[t] = [task |-> task, worker |-> worker, status |-> status]
            BY <3>4, <5>1
          <6> HIDE DEF task, worker, status
          <6>2. tasks[t].task = task /\ tasks[t].worker = worker /\ tasks[t].status = status
            BY <6>1
          <6> QED BY <6>2 DEF task, worker, status
        <5> QED BY <5>2, <5>3, <5>4
      <4> QED BY <4>2, <4>3
    <3> QED BY <3>1, <3>4, <3>5
  <2> QED BY <2>2, <2>3 DEF SessionAgreesWithGraph
<1> QED BY <1>1, Invariance, PTL

(* A task that a worker carried out is handed to no other, and no worker   *)
(* gets more than its three attempts or the task a second time.            *)
THEOREM TaskHasOneWorker == Spec => []OneWorkerPerTask
<1>1. ASSUME IInv
      PROVE  OneWorkerPerTask
  <2>1. ASSUME NEW i \in DOMAIN results
        PROVE  LET tried == results[i].tried
               IN  \A j, k \in DOMAIN tried :
                       /\ tried[j].attempts <= 3
                       /\ tried[j].worker = tried[k].worker => j = k
                       /\ j < Len(tried) =>
                             /\ tried[j].kind \in {"unavailable", "missing_adapter"}
                             /\ tried[j].worker # "claude" /\ tried[j].kind = "unavailable"
                                   => tried[j].attempts = MaxAttempts
    <3> DEFINE tried == results[i].tried
    <3>1. results \in Seq(Result)
      BY <1>1, Types
    <3>2. tried \in Seq(Try)
      <4>1. results[i] \in Result
        BY <2>1, <3>1
      <4> QED BY <4>1 DEF Result
    <3>3. TriedOnce(tried)
      BY <1>1 DEF IInv, OneWorker
    <3> HIDE DEF tried
    <3>4. ASSUME NEW j \in DOMAIN tried
          PROVE  tried[j].attempts <= 3
      <4>1. tried[j] \in Try
        BY <3>2
      <4>2. tried[j].attempts \in 1..MaxAttempts
        BY <4>1 DEF Try
      <4> QED BY <4>2 DEF MaxAttempts
    <3>5. \A j, k \in DOMAIN tried :
             /\ tried[j].worker = tried[k].worker => j = k
             /\ j < Len(tried) => GivenUp(tried[j])
      BY <3>3 DEF TriedOnce
    <3> QED BY <3>4, <3>5 DEF GivenUp, tried
  <2> QED BY <2>1 DEF OneWorkerPerTask
<1> QED BY <1>1, Invariance, PTL

(* No step of a run, the restore of a checkpoint included, takes a closed  *)
(* task, a checkpoint or the report from the session, whatever the clock   *)
(* gives two checkpoints as their file.                                    *)
THEOREM NothingIsLost == Spec => RecordsSurviveRestore
<1> DEFINE Kept == bundle # NoBundle =>
          /\ bundle'.report \/ ~ bundle.report
          /\ Len(bundle'.checkpoints) >= Len(bundle.checkpoints)
          /\ \A t \in DOMAIN bundle.worker_tasks :
                /\ t \in DOMAIN bundle'.worker_tasks
                /\ bundle.worker_tasks[t].status # "running" =>
                      bundle'.worker_tasks[t] = bundle.worker_tasks[t]
<1>1. IInv /\ [Next]_vars => [Kept]_vars
  BY NextIsInvariant DEF Survives
<1>2. RecordsSurviveRestore <=> [][Kept]_vars
  BY DEF RecordsSurviveRestore
<1> QED BY <1>1, <1>2, Invariance, PTL DEF Spec

=============================================================================
