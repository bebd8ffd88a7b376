----------------------------- MODULE Orchestrator -----------------------------
(***************************************************************************)
(* orchestrator/main.py: one goal's LangGraph thread, the process that     *)
(* runs it, and the world its nodes touch (the human, the git working tree *)
(* and its commits).                                                       *)
(*                                                                         *)
(* `thread' is the state in the running process, `saved' the last          *)
(* checkpoint SqliteSaver has made durable.  LangGraph's default           *)
(* durability is "async": a node's result is written in the background     *)
(* while the next node runs, so `saved' may be one node behind `thread'    *)
(* and a crash re-executes the node whose result was not yet written.      *)
(***************************************************************************)
EXTENDS Naturals, Sequences, FiniteSets

CONSTANTS
  Tasks,             \* step ids the planner LLM may write
  Bodies,            \* texts of a step's YAML document
  Drafts,            \* plan drafts the planner LLM may answer with
  None,              \* Python's None
  Unknown,           \* the task name "unknown" of an empty queue
  MAX_TEST_RETRIES,  \* main.py's constant
  MaxToolCalls,      \* config.toml's max_tool_calls
  MaxBatch,          \* bound: tool calls in one LLM response
  ToolTurnBound,     \* bound: responses with tool calls in one conversation
  Obedient,          \* whether the LLM obeys the tool-limit instruction
  MaxCrashes,        \* bound: crashes
  MaxResets,         \* bound: launches with --reset
  MaxGitFailures     \* bound: git commands that fail

\* A document of a draft, reduced to its id and the rest of its text; only
\* the documents planner_node keeps are represented.
Doc == [id : Tasks, body : Bodies]

\* The id of a tool call: the position of its message and its number there.
CallId == Nat \X Nat

ASSUME NoneAssumption == None \notin CallId
ASSUME DraftsAssumption == Drafts \subseteq Seq(Doc)
ASSUME UnknownAssumption == Unknown \notin Tasks
ASSUME RetriesAssumption == MAX_TEST_RETRIES \in Nat \ {0}
ASSUME BudgetAssumption ==
  /\ MaxToolCalls \in Nat
  /\ MaxBatch \in Nat
  /\ ToolTurnBound \in Nat
  /\ Obedient \in BOOLEAN
ASSUME FaultsAssumption ==
  /\ MaxCrashes \in Nat
  /\ MaxResets \in Nat
  /\ MaxGitFailures \in Nat

VARIABLES
  thread,   \* WorkflowState in the running process, and the node to run next
  saved,    \* the last durable checkpoint of it
  alive,    \* whether a process is running the graph
  phase,    \* "ready", "asking" (inside input()), or "worked": the node's
            \* side effects have happened and its return has not
  shown,    \* history: the draft last shown to the human
  tree,     \* tasks with uncommitted changes in the working tree
  commits,  \* git log: the task a commit names and whose changes it holds
  faults    \* how many crashes, resets and git failures so far

vars == <<thread, saved, alive, phase, shown, tree, commits, faults>>

-----------------------------------------------------------------------------
(* Data *)

\* What the human types: whether one of _approval_keywords occurs in it
\* somewhere, whatever it is meant to say.
Response == [keyword : BOOLEAN]

HumanMessage(t) == [role |-> "human", task |-> t, calls |-> <<>>, answers |-> None]
AIMessage(t, cs) == [role |-> "ai", task |-> t, calls |-> cs, answers |-> None]
ToolMessage(t, c) == [role |-> "tool", task |-> t, calls |-> <<>>, answers |-> c]

\* A checkpoint-less thread starts from main.py's initial_state.  `plan' is a
\* history variable: the draft that was parsed when the human approved.
InitialThread ==
  [next |-> "planner", resume |-> None,
   plan_draft |-> None, plan_approved |-> FALSE, plan_feedback |-> None,
   todo_tasks |-> <<>>, completed_tasks |-> <<>>, step_plans |-> <<>>,
   test_results |-> "", messages |-> <<>>, tests_passed |-> FALSE,
   retry_count |-> 0, tool_call_count |-> 0, plan |-> <<>>]

\* Seeded fault: the wrong end of the queue.
CurrentTask_Last(th) ==
  IF th.todo_tasks = <<>> THEN Unknown ELSE th.todo_tasks[Len(th.todo_tasks)]

CurrentTask(th) == IF th.todo_tasks = <<>> THEN Unknown ELSE Head(th.todo_tasks)

\* The parsing loop of planner_node: the ids in order, and a dict in which a
\* later document with the same id replaces an earlier one.
StepIds(draft) == [i \in 1..Len(draft) |-> draft[i].id]
StepPlans_KeepsFirst(draft) ==  \* seeded fault: a later document is ignored
  [s \in {draft[i].id : i \in 1..Len(draft)} |->
     LET i == CHOOSE i \in 1..Len(draft) :
                /\ draft[i].id = s
                /\ \A j \in 1..(i - 1) : draft[j].id # s
     IN draft[i].body]
StepPlans(draft) ==
  [s \in {draft[i].id : i \in 1..Len(draft)} |->
     LET i == CHOOSE i \in 1..Len(draft) :
                /\ draft[i].id = s
                /\ \A j \in (i + 1)..Len(draft) : draft[j].id # s
     IN draft[i].body]

\* What _build_system_prompt tells the coder: the document of the step it is
\* to work on, if there is one, and that the previous test run has failed.
PromptedStep(th) ==
  IF CurrentTask(th) \in DOMAIN th.step_plans THEN th.step_plans[CurrentTask(th)]
  ELSE None
ToldOfFailure(th) == th.test_results # "" /\ ~th.tests_passed

\* `any(kw in user_response ...)': a substring test.
Approves(r) == r.keyword

-----------------------------------------------------------------------------
(* Routers *)

\* Seeded faults: no gate before the coder, and no way past the planner.
plan_evaluator_NoGate(th) == "coder"
plan_evaluator_Loops(th) == "planner"
plan_evaluator(th) == IF th.plan_approved THEN "coder" ELSE "planner"

\* Seeded fault: the router itself enforces the budget, which drops calls.
coder_router_UnderBudget(th) ==
  IF /\ th.messages[Len(th.messages)].calls # <<>>
     /\ th.tool_call_count <= MaxToolCalls
  THEN "coder_tools" ELSE "tester"
coder_router(th) ==
  IF th.messages[Len(th.messages)].calls # <<>> THEN "coder_tools" ELSE "tester"

\* Seeded fault: off by one in the retry limit.
test_evaluator_OneMore(th) ==
  IF th.tests_passed THEN "queue_manager"
  ELSE IF th.retry_count > MAX_TEST_RETRIES THEN "give_up" ELSE "coder"
test_evaluator(th) ==
  IF th.tests_passed THEN "queue_manager"
  ELSE IF th.retry_count >= MAX_TEST_RETRIES THEN "give_up" ELSE "coder"

\* Seeded fault: the last step is forgotten.
queue_evaluator_OneLess(th) == IF Len(th.todo_tasks) > 1 THEN "coder" ELSE "END"
queue_evaluator(th) == IF th.todo_tasks # <<>> THEN "coder" ELSE "END"

-----------------------------------------------------------------------------
(* What the nodes return *)

PlanApproved(th, draft) ==
  [th EXCEPT !.plan_draft = None, !.plan_approved = TRUE, !.plan_feedback = None,
             !.todo_tasks = StepIds(draft), !.step_plans = StepPlans(draft),
             !.retry_count = 0, !.tool_call_count = 0,
             !.resume = None, !.plan = draft]

PlanRevised(th, draft) ==
  [th EXCEPT !.plan_draft = draft, !.plan_feedback = th.resume, !.resume = None]

\* _sanitize_history drops the trailing AI messages with an unanswered call.
Answered(ms) == {ms[i].answers : i \in 1..Len(ms)}
Orphan(ms, i) ==
  /\ ms[i].role = "ai"
  /\ \E k \in 1..Len(ms[i].calls) : ms[i].calls[k] \notin Answered(ms)
sanitize_history(ms) ==
  LET n == CHOOSE n \in 0..Len(ms) :
             /\ n = 0 \/ ~Orphan(ms, n)
             /\ \A i \in (n + 1)..Len(ms) : Orphan(ms, i)
  IN SubSeq(ms, 1, n)

\* coder_node: n tool calls in the response.  The seed is stored, the
\* tool-limit instruction is not.
CoderReturns(th, n) ==
  LET seed == IF sanitize_history(th.messages) = <<>>
              THEN <<HumanMessage(CurrentTask(th))>> ELSE <<>>
      at == Len(th.messages) + Len(seed) + 1
      calls == [k \in 1..n |-> <<at, k>>]
  IN [th EXCEPT !.messages = th.messages \o seed
                               \o <<AIMessage(CurrentTask(th), calls)>>,
                !.tool_call_count = IF n > 0 THEN @ + 1 ELSE @]

\* Seeded fault: off by one in at_limit.
ToldToStop_OneLate(th) ==
  /\ th.tool_call_count > MaxToolCalls
  /\ sanitize_history(th.messages) # <<>>

\* coder_node's instruction to stop calling tools.
ToldToStop(th) ==
  /\ th.tool_call_count >= MaxToolCalls
  /\ sanitize_history(th.messages) # <<>>

\* ToolNode answers every call of the last message.
ToolsReturn(th) ==
  LET calls == th.messages[Len(th.messages)].calls
  IN [th EXCEPT !.messages = th.messages
                 \o [k \in 1..Len(calls) |-> ToolMessage(CurrentTask(th), calls[k])]]

\* Seeded fault: a failed run is not counted.
TesterReturns_NoCount(th, ok) ==
  [th EXCEPT !.test_results = IF ok THEN "passed" ELSE "failed",
             !.tests_passed = ok, !.retry_count = IF ok THEN 0 ELSE @]

TesterReturns(th, ok) ==
  IF ok THEN [th EXCEPT !.test_results = "passed", !.tests_passed = TRUE,
                        !.retry_count = 0]
  ELSE [th EXCEPT !.test_results = "failed", !.tests_passed = FALSE,
                  !.retry_count = @ + 1]

\* Seeded faults of queue_manager_node's updates: completed_tasks without its
\* reducer, the tool counter or the conversation kept, the front not removed.
QueueAdvanced_Replaces(th) ==
  IF th.todo_tasks = <<>> THEN th
  ELSE [th EXCEPT !.todo_tasks = Tail(@), !.completed_tasks = <<Head(th.todo_tasks)>>,
                  !.tests_passed = FALSE, !.retry_count = 0,
                  !.tool_call_count = 0, !.messages = <<>>]
QueueAdvanced_KeepsCounter(th) ==
  IF th.todo_tasks = <<>> THEN th
  ELSE [th EXCEPT !.todo_tasks = Tail(@),
                  !.completed_tasks = Append(@, Head(th.todo_tasks)),
                  !.tests_passed = FALSE, !.retry_count = 0, !.messages = <<>>]
QueueAdvanced_KeepsHistory(th) ==
  IF th.todo_tasks = <<>> THEN th
  ELSE [th EXCEPT !.todo_tasks = Tail(@),
                  !.completed_tasks = Append(@, Head(th.todo_tasks)),
                  !.tests_passed = FALSE, !.retry_count = 0, !.tool_call_count = 0]
QueueAdvanced_KeepsFront(th) ==
  IF th.todo_tasks = <<>> THEN th
  ELSE [th EXCEPT !.completed_tasks = Append(@, Head(th.todo_tasks)),
                  !.tests_passed = FALSE, !.retry_count = 0,
                  !.tool_call_count = 0, !.messages = <<>>]

\* queue_manager_node; an empty queue returns {}.
QueueAdvanced(th) ==
  IF th.todo_tasks = <<>> THEN th
  ELSE [th EXCEPT !.todo_tasks = Tail(th.todo_tasks),
                  !.completed_tasks = Append(th.completed_tasks, Head(th.todo_tasks)),
                  !.tests_passed = FALSE, !.retry_count = 0,
                  !.tool_call_count = 0, !.messages = <<>>]

-----------------------------------------------------------------------------
(* The process and its checkpoints *)

Runs(node) == alive /\ phase = "ready" /\ thread.next = node

\* A node's updates are merged and the next node chosen.  The write of the
\* previous checkpoint has ended by then: an assumption on how far LangGraph's
\* asynchronous durability lags behind, which nothing in src/ guarantees.
Return(th, node) ==
  /\ saved = thread
  /\ thread' = [th EXCEPT !.next = node]
  /\ phase' = "ready"
  /\ UNCHANGED <<saved, alive>>

\* The background write of the newest checkpoint ends.
Flush == /\ alive
         /\ saved # thread
         /\ saved' = thread
         /\ UNCHANGED <<thread, alive, phase, shown, tree, commits, faults>>

\* The process dies, is killed, or a node raises.
Crash == /\ alive
         /\ faults.crashes < MaxCrashes
         /\ alive' = FALSE
         /\ thread' = saved
         /\ phase' = "ready"
         /\ faults' = [faults EXCEPT !.crashes = @ + 1]
         /\ UNCHANGED <<saved, shown, tree, commits>>

\* The stream of a finished graph ends once its writes have.
Exit == /\ Runs("END")
        /\ saved = thread
        /\ alive' = FALSE
        /\ UNCHANGED <<thread, saved, phase, shown, tree, commits, faults>>

\* python main.py "<goal>": resume the checkpoint, or start from initial_state.
Launch == /\ ~alive
          /\ alive' = TRUE
          /\ UNCHANGED <<thread, saved, phase, shown, tree, commits, faults>>

\* ... --reset: delete the thread's rows.  The working tree stays as it is.
LaunchReset == /\ ~alive
               /\ faults.resets < MaxResets
               /\ alive' = TRUE
               /\ thread' = InitialThread
               /\ saved' = InitialThread
               /\ faults' = [faults EXCEPT !.resets = @ + 1]
               /\ UNCHANGED <<phase, shown, tree, commits>>

-----------------------------------------------------------------------------
(* The nodes *)

\* planner_node up to interrupt(): the stream ends, with every write done,
\* and main.py's loop shows the draft.
PlannerProposes(draft) ==
  /\ Runs("planner")
  /\ thread.resume = None
  /\ saved = thread
  /\ phase' = "asking"
  /\ shown' = draft
  /\ UNCHANGED <<thread, saved, alive, tree, commits, faults>>

\* Command(resume=user_response) re-enters the graph.
Answer(r) ==
  /\ alive
  /\ phase = "asking"
  /\ phase' = "ready"
  /\ thread' = [thread EXCEPT !.resume = r]
  /\ UNCHANGED <<saved, alive, shown, tree, commits, faults>>

\* The resumed node runs again from its first line, so it calls the LLM again
\* and goes on with the draft of this call.
PlannerResumes(draft) ==
  /\ Runs("planner")
  /\ thread.resume # None
  /\ LET th == IF Approves(thread.resume) THEN PlanApproved(thread, draft)
                                           ELSE PlanRevised(thread, draft)
     IN Return(th, plan_evaluator(th))
  /\ UNCHANGED <<shown, tree, commits, faults>>

CoderNode(n) ==
  /\ Runs("coder")
  /\ n > 0 => thread.tool_call_count < ToolTurnBound
  /\ Obedient /\ ToldToStop(thread) => n = 0
  /\ LET th == CoderReturns(thread, n) IN Return(th, coder_router(th))
  /\ UNCHANGED <<shown, tree, commits, faults>>

\* The tools of a batch run; write_rust_file and add_rust_dependency change
\* the working tree, the others do not.
ToolsWork ==
  /\ Runs("coder_tools")
  /\ phase' = "worked"
  /\ \E w \in SUBSET {CurrentTask(thread)} : tree' = tree \cup w
  /\ UNCHANGED <<thread, saved, alive, shown, commits, faults>>

ToolsEnd ==
  /\ alive
  /\ phase = "worked"
  /\ thread.next = "coder_tools"
  /\ Return(ToolsReturn(thread), "coder")
  /\ UNCHANGED <<shown, tree, commits, faults>>

TesterNode(ok) ==
  /\ Runs("tester")
  /\ LET th == TesterReturns(thread, ok) IN Return(th, test_evaluator(th))
  /\ UNCHANGED <<shown, tree, commits, faults>>

\* Seeded faults: no check for an empty queue; one commit for the whole plan.
QueueCommit_NoCheck ==
  /\ Runs("queue_manager")
  /\ phase' = "worked"
  /\ commits' = IF tree = {} THEN commits
                ELSE Append(commits, [task |-> CurrentTask(thread), work |-> tree])
  /\ tree' = {}
  /\ UNCHANGED <<thread, saved, alive, shown, faults>>
QueueCommit_AtEnd ==
  /\ Runs("queue_manager")
  /\ phase' = "worked"
  /\ IF Len(thread.todo_tasks) # 1 \/ tree = {}
     THEN UNCHANGED <<tree, commits>>
     ELSE /\ commits' = Append(commits, [task |-> CurrentTask(thread), work |-> tree])
          /\ tree' = {}
  /\ UNCHANGED <<thread, saved, alive, shown, faults>>

\* queue_manager_node's git commands: skipped when the queue is empty or the
\* tree is clean; a failure of git is ignored.
QueueCommit ==
  /\ Runs("queue_manager")
  /\ phase' = "worked"
  /\ IF thread.todo_tasks = <<>> \/ tree = {}
     THEN UNCHANGED <<tree, commits, faults>>
     ELSE \/ /\ commits' = Append(commits, [task |-> CurrentTask(thread), work |-> tree])
             /\ tree' = {}
             /\ UNCHANGED faults
          \/ /\ faults.git < MaxGitFailures
             /\ faults' = [faults EXCEPT !.git = @ + 1]
             /\ UNCHANGED <<tree, commits>>
  /\ UNCHANGED <<thread, saved, alive, shown>>

QueueEnd ==
  /\ alive
  /\ phase = "worked"
  /\ thread.next = "queue_manager"
  /\ LET th == QueueAdvanced(thread) IN Return(th, queue_evaluator(th))
  /\ UNCHANGED <<shown, tree, commits, faults>>

GiveUpNode ==
  /\ Runs("give_up")
  /\ Return(thread, "END")
  /\ UNCHANGED <<shown, tree, commits, faults>>

-----------------------------------------------------------------------------
Init ==
  /\ thread = InitialThread
  /\ saved = InitialThread
  /\ alive = FALSE
  /\ phase = "ready"
  /\ shown = None
  /\ tree = {}
  /\ commits = <<>>
  /\ faults = [crashes |-> 0, resets |-> 0, git |-> 0]

\* What the process does by itself.
Work ==
  \/ \E draft \in Drafts : PlannerProposes(draft) \/ PlannerResumes(draft)
  \/ \E n \in 0..MaxBatch : CoderNode(n)
  \/ ToolsWork \/ ToolsEnd
  \/ \E ok \in BOOLEAN : TesterNode(ok)
  \/ QueueCommit \/ QueueEnd
  \/ GiveUpNode

Next ==
  \/ Work
  \/ Flush
  \/ Exit
  \/ Launch
  \/ LaunchReset
  \/ Crash
  \/ \E r \in Response : Answer(r)

\* Nodes and checkpoint writes end, and somebody launches the program again
\* when it has stopped.  The human need not answer, nor anything fail.
Fairness == WF_vars(Work) /\ WF_vars(Flush) /\ WF_vars(Exit) /\ WF_vars(Launch)

Spec == Init /\ [][Next]_vars /\ Fairness

-----------------------------------------------------------------------------
(* Types *)

Nodes == {"planner", "coder", "coder_tools", "tester", "queue_manager", "give_up", "END"}

Message == [role : {"human", "ai", "tool"}, task : Tasks \cup {Unknown},
            calls : Seq(CallId), answers : CallId \cup {None}]

Thread ==
  [next : Nodes, resume : Response \cup {None},
   plan_draft : Drafts \cup {None}, plan_approved : BOOLEAN,
   plan_feedback : Response \cup {None},
   todo_tasks : Seq(Tasks), completed_tasks : Seq(Tasks),
   step_plans : UNION {[S -> Bodies] : S \in SUBSET Tasks},
   test_results : {"", "passed", "failed"}, messages : Seq(Message),
   tests_passed : BOOLEAN, retry_count : Nat, tool_call_count : Nat,
   plan : Seq(Doc)]

\* The values every variable of the process and of its world may take.
TypeOK ==
  /\ thread \in Thread
  /\ saved \in Thread
  /\ alive \in BOOLEAN
  /\ phase \in {"ready", "asking", "worked"}
  /\ shown \in Drafts \cup {None}
  /\ tree \in SUBSET (Tasks \cup {Unknown})
  /\ commits \in Seq([task : Tasks, work : SUBSET (Tasks \cup {Unknown})])
  /\ faults \in [crashes : 0..MaxCrashes, resets : 0..MaxResets, git : 0..MaxGitFailures]
=============================================================================
