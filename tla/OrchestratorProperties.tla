------------------------ MODULE OrchestratorProperties ------------------------
(***************************************************************************)
(* What must be true of an orchestrator run, and, at the end, what the     *)
(* repository's documents say of it that the code does not keep.           *)
(***************************************************************************)
EXTENDS Orchestrator

-----------------------------------------------------------------------------
(* The task queue *)

\* Both copies of the queue, in memory and on disk, hold every approved step
\* once and in the approved order: queue_manager_node moves the front step
\* across whatever retries, crashes and re-executions came before.
QueueOrderOf(th) ==
  IF th.plan_approved
  THEN th.completed_tasks \o th.todo_tasks = StepIds(th.plan)
  ELSE th.completed_tasks = <<>> /\ th.todo_tasks = <<>> /\ th.plan = <<>>
QueueOrder == QueueOrderOf(thread) /\ QueueOrderOf(saved)

DistinctIds(plan) ==
  \A i, j \in 1..Len(plan) : plan[i].id = plan[j].id => i = j

\* The coder is never told "No step plan found.": it is given the document of the
\* step whose turn it is in the plan, or, because step_plans has one entry for an
\* id, the last document with the id of that step.
CurrentStepIsPlanned ==
  LET turn == Len(thread.completed_tasks) + 1
      OfThisId == {i \in 1..Len(thread.plan) : thread.plan[i].id = thread.plan[turn].id}
  IN thread.next \in {"coder", "coder_tools"} /\ turn <= Len(thread.plan) =>
       \E i \in OfThisId : /\ \A j \in OfThisId : j <= i
                          /\ PromptedStep(thread) = thread.plan[i].body

-----------------------------------------------------------------------------
(* Retries, budget and conversation *)

\* A task is tested at most MAX_TEST_RETRIES times in a row without success:
\* the limit is reached only on the way out, also after a crash.  And no task
\* is given up earlier: a goal ends with steps left only at the limit.
RetryBudgetOf(th) ==
  /\ th.retry_count <= MAX_TEST_RETRIES
  /\ th.retry_count = MAX_TEST_RETRIES => th.next \in {"give_up", "END"}
  /\ th.next = "give_up" \/ (th.next = "END" /\ th.todo_tasks # <<>>) =>
       th.retry_count = MAX_TEST_RETRIES
RetryBudget == RetryBudgetOf(thread) /\ RetryBudgetOf(saved)

\* Messages of the conversation that ask for tools, and that end a turn.
ToolTurns(ms) == {i \in 1..Len(ms) : ms[i].role = "ai" /\ ms[i].calls # <<>>}
FinalTurns(ms) == {i \in 1..Len(ms) : ms[i].role = "ai" /\ ms[i].calls = <<>>}

\* Each attempt the coder has ended in the current conversation, and only
\* those, has been tested and counted when the coder is called again.
AttemptsAreCounted ==
  thread.next \in {"coder", "coder_tools"} =>
    thread.retry_count = Cardinality(FinalTurns(thread.messages))

\* tool_call_count is the number of responses with tool calls in the stored
\* conversation: a re-executed coder_node counts nothing twice, and the
\* counter and the conversation are wiped together.
BudgetMatchesHistory ==
  thread.tool_call_count = Cardinality(ToolTurns(thread.messages))

\* The history coder_node sends answers each tool call exactly once: an
\* unanswered one is the "400" the comments of coder_node and coder_router
\* are about.
HistoryIsComplete ==
  thread.next = "coder" =>
    LET sent == sanitize_history(thread.messages)
    IN \A i \in 1..Len(sent) : \A k \in 1..Len(sent[i].calls) :
         Cardinality({j \in 1..Len(sent) : sent[j].answers = sent[i].calls[k]}) = 1

\* No message of an earlier task is sent with a later one.
HistoryIsOwnTask ==
  \A i \in 1..Len(thread.messages) : thread.messages[i].task = CurrentTask(thread)

\* An LLM that obeys the tool-limit instruction asks for tools in at most
\* max_tool_calls responses to a task.
ObedientStaysInBudget == thread.tool_call_count <= MaxToolCalls

-----------------------------------------------------------------------------
(* The working tree and the commits *)

\* Files change, and commits are made, only under an approval that is already
\* durable: no crash can bring back the planning of work already begun.
ApprovalIsDurable ==
  faults.resets = 0 /\ (tree # {} \/ commits # <<>>) => saved.plan_approved

\* What leaves changes behind: --reset, which deletes rows and no files, and a
\* failed git command, which is ignored.
NothingLeftBehind == faults.resets = 0 /\ faults.git = 0

\* A commit holds the changes of the task it names and of no other, although
\* nodes are re-executed after a crash.
CommitIsPure ==
  NothingLeftBehind => \A i \in 1..Len(commits) : commits[i].work = {commits[i].task}

\* The changes of a completed task are committed: none is in the tree, unless
\* its id occurs twice in the plan.
CompletedIsCommitted ==
  NothingLeftBehind /\ DistinctIds(saved.plan) =>
    \A i \in 1..Len(saved.completed_tasks) : saved.completed_tasks[i] \notin tree

\* The commits follow the plan, until a reset has another one made: each names
\* a step that is completed or whose turn it is, and they never go back.  What
\* a failed git command has left in the tree goes into the commit of a later
\* step; no commit holds changes of a step that comes after its own.
FollowPlan(step) ==
  /\ \A i \in 1..Len(commits) :
       /\ commits[i].task = saved.plan[step[i]].id
       /\ commits[i].work \subseteq {saved.plan[k].id : k \in 1..step[i]}
       /\ step[i] <= Len(saved.completed_tasks) + 1
  /\ \A i, j \in 1..Len(commits) : i <= j => step[i] <= step[j]
CommitsFollowPlan ==
  faults.resets = 0 =>
    \E step \in [1..Len(commits) -> 1..Len(saved.plan)] : FollowPlan(step)

\* A step of a plan with distinct ids has one commit, whatever retries it took,
\* and each crash costs at most one more, however many nodes it has executed
\* again.
Committed == {commits[i].task : i \in 1..Len(commits)}
RepeatedCommitsAreCrashes ==
  faults.resets = 0 /\ DistinctIds(thread.plan) =>
    Len(commits) <= Cardinality(Committed) + faults.crashes

-----------------------------------------------------------------------------
(* The abstract specification, and progress *)

Queue == INSTANCE TaskQueue WITH
  Plans <- {StepIds(d) : d \in Drafts},
  stage <- IF saved.next = "END" THEN "ended"
           ELSE IF saved.plan_approved THEN "working" ELSE "planning",
  plan <- StepIds(saved.plan),
  todo <- saved.todo_tasks,
  done <- saved.completed_tasks

\* The durable state of the goal goes through the steps of TaskQueue and no
\* others: no crash, re-execution or background write skips or repeats one.
QueueSpec == Queue!Spec

\* An approved plan comes to its end: all steps done, or given up.
ApprovedPlanEnds == saved.plan_approved ~> saved.next = "END"

\* What an approved plan still has to spend, the costliest first: crashes,
\* steps in the queue, the attempt of a step, its retries and its tool calls,
\* the nodes of a round, and within a node its work, the write and the launch.
Rank == [END |-> 0, give_up |-> 1, queue_manager |-> 2, tester |-> 3,
         coder |-> 4, coder_tools |-> 5, planner |-> 6]
One(b) == IF b THEN 1 ELSE 0
Unwritten == saved # thread
Effort ==
  <<MaxCrashes - faults.crashes, Len(thread.todo_tasks),
    One(thread.next \in {"coder", "coder_tools", "tester"}),
    MAX_TEST_RETRIES - thread.retry_count, MaxToolCalls - thread.tool_call_count,
    Rank[thread.next], One(phase = "ready"), One(Unwritten), One(~alive)>>
LexLess(a, b) ==
  \E j \in 1..Len(a) : a[j] < b[j] /\ \A i \in 1..(j - 1) : a[i] = b[i]

\* No loop of the graph is free: whatever a node returns, every step of an
\* approved plan (of the nodes, the process or the checkpoints, a re-execution
\* too) uses up something that only a costlier step gives back, except --reset.
PlanDescends ==
  [][saved.plan_approved /\ saved.next # "END" /\ faults'.resets = faults.resets
     => LexLess(Effort', Effort)]_vars

-----------------------------------------------------------------------------
(* Statements of the documents and comments *)

\* docs/graph-overview.md: planner_node surfaces the draft and, on approval,
\* parses "the draft": the plan that is executed is the one that was shown.
ApprovedPlanWasShown == thread.plan_approved => thread.plan = shown

\* docs/graph-overview.md: test_results is injected "on failure": the coder is
\* told of a failed run only when the run whose output it is shown failed.
FailureContextIsTrue ==
  thread.next = "coder" /\ ToldOfFailure(thread) => thread.test_results = "failed"
=============================================================================
