------------------------------ MODULE TaskGraph ------------------------------
(***************************************************************************)
(* The task graph of one manager run (manager/graph.ts): a function from   *)
(* the ids of its nodes to the nodes.  Titles, objectives, node types and  *)
(* artifacts are left out, nothing decides on them.                        *)
(***************************************************************************)
EXTENDS Naturals, Sequences

(* The workers that a node may be assigned to besides the verifier, and    *)
(* the null of nodes that the manager handles itself.                      *)
ManagerWorkers == {"claude", "codex", "shell", "browser", "mail"}
Manager == "manager"

TaskStatuses == {"pending", "ready", "running", "blocked", "completed",
                 "failed", "cancelled"}

NodeIds == {"context_review", "data_selection", "primary_work", "secondary_work_1",
            "verification_gate", "final_report", "final_response"}

TaskNode == [status: TaskStatuses,
             assigned_worker: ManagerWorkers \cup {"verifier", Manager},
             depends_on: SUBSET NodeIds,
             retry_count: Nat]

Node(worker, deps) == [status |-> "pending", assigned_worker |-> worker,
                       depends_on |-> deps, retry_count |-> 0]

(* Ids of the nodes that workers execute, in the order of the graph: the   *)
(* selected worker and the one that the playbook prefers (no playbook      *)
(* prefers two others).                                                    *)
WorkNodes == <<"primary_work", "secondary_work_1">>

DependenciesSatisfied(graph, node) ==
    \A d \in node.depends_on : d \in DOMAIN graph /\ graph[d].status = "completed"

RecomputedStatus(graph, node) ==
    LET met == DependenciesSatisfied(graph, node)
    IN  IF node.status \in {"pending", "blocked"} /\ met THEN "ready"
        ELSE IF node.status = "ready" /\ ~met THEN "blocked"
        ELSE node.status

RecomputeMissionGraph(graph) ==
    [n \in DOMAIN graph |->
        [graph[n] EXCEPT !.status = RecomputedStatus(graph, graph[n])]]

ChatGraph ==
    RecomputeMissionGraph(
        [n \in {"context_review", "final_response"} |->
            Node(Manager, IF n = "final_response" THEN {"context_review"} ELSE {})])

(* One node for each worker, each after the one before; then the gate and  *)
(* the report.                                                             *)
BuildMissionTaskGraph(workers, needsData) ==
    LET first == IF needsData THEN "data_selection" ELSE "context_review"
        work  == {WorkNodes[i] : i \in DOMAIN workers}
        place(n) == CHOOSE i \in DOMAIN workers : WorkNodes[i] = n
        nodes == {"context_review", "verification_gate", "final_report"}
                 \cup (IF needsData THEN {"data_selection"} ELSE {}) \cup work
    IN  RecomputeMissionGraph(
            [n \in nodes |->
                CASE n = "context_review" -> Node(Manager, {})
                  [] n = "data_selection" -> Node(Manager, {"context_review"})
                  [] n = "verification_gate" ->
                       Node("verifier", {IF workers = <<>> THEN "context_review"
                                         ELSE WorkNodes[Len(workers)]})
                  [] n = "final_report" -> Node(Manager, {"verification_gate"})
                  [] OTHER ->
                       Node(workers[place(n)],
                            {IF place(n) = 1 THEN first ELSE WorkNodes[place(n) - 1]})])

UpdateTaskStatus(graph, task, status) ==
    LET node == graph[task]
        failures == node.retry_count + (IF status = "failed" THEN 1 ELSE 0)
    IN  RecomputeMissionGraph(
            [graph EXCEPT ![task] =
                [node EXCEPT !.status = status, !.retry_count = failures]])

(* The ready nodes of workers, by their places in the graph (planner.ts).  *)
ReadyExecutionTasks(graph) ==
    {i \in DOMAIN WorkNodes :
        WorkNodes[i] \in DOMAIN graph /\ graph[WorkNodes[i]].status = "ready"}

(* The first of them is the one that is executed.                          *)
NextTask(graph) ==
    WorkNodes[CHOOSE i \in ReadyExecutionTasks(graph) :
                  \A j \in ReadyExecutionTasks(graph) : i <= j]

=============================================================================
