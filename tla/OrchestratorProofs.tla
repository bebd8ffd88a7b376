-------------------------- MODULE OrchestratorProofs --------------------------
(***************************************************************************)
(* Theorems about Orchestrator, for every number of steps, drafts,         *)
(* retries, tool calls and faults.                                         *)
(***************************************************************************)
EXTENDS OrchestratorProperties, TLAPS, SequenceTheorems, WellFoundedInduction

-----------------------------------------------------------------------------
(* Sets of positions *)

\* A nonempty set of positions has a last one.
LEMMA LastPosition ==
  ASSUME NEW n \in Nat, NEW T \in SUBSET (1..n), T # {}
  PROVE  \E m \in T : \A k \in T : k <= m
<1> DEFINE Less == {p \in Nat \X Nat : p[1] < p[2]}
           Below == {n - k : k \in T}
<1>1. IsWellFoundedOn(Less, Nat)
  BY NatLessThanWellFounded DEF OpToRel
<1>2. PICK k \in T : TRUE
  OBVIOUS
<1>3. n - k \in Below
  OBVIOUS
<1>4. Below \subseteq Nat
  OBVIOUS
<1>5. PICK x \in Below : \A y \in Below : ~ (<<y, x>> \in Less)
  <2> HIDE DEF Less, Below
  <2> QED BY <1>1, <1>3, <1>4, WFMin
<1>6. PICK m \in T : x = n - m
  OBVIOUS
<1>7. ASSUME NEW j \in T PROVE j <= m
  <2>1. n - j \in Below
    OBVIOUS
  <2>2. ~ (n - j < n - m)
    BY <1>4, <1>5, <1>6, <2>1
  <2> QED BY <2>2
<1> QED BY <1>7

-----------------------------------------------------------------------------
(* What planner_node's parsing loop returns *)

\* The ids of a draft are a list of step ids, one for each document.
LEMMA StepIdsType ==
  ASSUME NEW draft \in Seq(Doc)
  PROVE  StepIds(draft) \in Seq(Tasks) /\ Len(StepIds(draft)) = Len(draft)
<1>1. \A i \in 1..Len(draft) : draft[i] \in Doc
  BY ElementOfSeq
<1>2. \A i \in 1..Len(draft) : draft[i].id \in Tasks
  BY <1>1 DEF Doc
<1>3. Len(draft) \in Nat
  BY LenProperties
<1> QED BY <1>2, <1>3, IsASeq DEF StepIds

\* The dict maps the ids of the draft, and only those, to documents.
LEMMA StepPlansType ==
  ASSUME NEW draft \in Seq(Doc)
  PROVE  StepPlans(draft) \in UNION {[S -> Bodies] : S \in SUBSET Tasks}
<1> DEFINE ids == {draft[i].id : i \in 1..Len(draft)}
           IsLast(s, i) == /\ draft[i].id = s
                           /\ \A j \in (i + 1)..Len(draft) : draft[j].id # s
<1>1. \A i \in 1..Len(draft) : draft[i] \in Doc
  BY ElementOfSeq
<1>2. ids \in SUBSET Tasks
  BY <1>1 DEF Doc
<1>3. ASSUME NEW s \in ids
      PROVE  \E i \in 1..Len(draft) : IsLast(s, i)
  <2> DEFINE T == {i \in 1..Len(draft) : draft[i].id = s}
  <2>1. T # {} /\ T \in SUBSET (1..Len(draft)) /\ Len(draft) \in Nat
    BY LenProperties
  <2>2. PICK m \in T : \A k \in T : k <= m
    <3> HIDE DEF T
    <3> QED BY <2>1, LastPosition
  <2>3. IsLast(s, m)
    BY <2>1, <2>2
  <2> QED BY <2>2, <2>3
<1>4. ASSUME NEW s \in ids
      PROVE  draft[CHOOSE i \in 1..Len(draft) : IsLast(s, i)].body \in Bodies
  BY <1>1, <1>3, <1>4 DEF Doc
<1>5. StepPlans(draft) \in [ids -> Bodies]
  BY <1>4 DEF StepPlans
<1> QED BY <1>2, <1>5
-----------------------------------------------------------------------------
(* What the nodes return has the types of WorkflowState *)

LEMMA InitialThreadType == InitialThread \in Thread
<1>1. <<>> \in Seq(Tasks) /\ <<>> \in Seq(Message) /\ <<>> \in Seq(Doc)
  OBVIOUS
<1>2. <<>> \in UNION {[S -> Bodies] : S \in SUBSET Tasks}
  <2>1. <<>> \in [{} -> Bodies] /\ {} \in SUBSET Tasks
    OBVIOUS
  <2> QED BY <2>1
<1> QED BY <1>1, <1>2 DEF InitialThread, Thread, Nodes

LEMMA CurrentTaskType ==
  ASSUME NEW th \in Thread
  PROVE  /\ CurrentTask(th) \in Tasks \cup {Unknown}
         /\ th.todo_tasks # <<>> => CurrentTask(th) \in Tasks
<1>1. th.todo_tasks \in Seq(Tasks)
  BY DEF Thread
<1>2. th.todo_tasks # <<>> => Head(th.todo_tasks) \in Tasks
  BY <1>1, HeadTailProperties
<1> QED BY <1>2 DEF CurrentTask

\* Merging a node's updates and choosing the next node.
LEMMA NextType ==
  ASSUME NEW th \in Thread, NEW node \in Nodes
  PROVE  [th EXCEPT !.next = node] \in Thread
BY DEF Thread

LEMMA PlanApprovedType ==
  ASSUME NEW th \in Thread, NEW draft \in Drafts
  PROVE  PlanApproved(th, draft) \in Thread
<1>1. draft \in Seq(Doc)
  BY DraftsAssumption
<1>2. StepIds(draft) \in Seq(Tasks)
  BY <1>1, StepIdsType
<1>3. StepPlans(draft) \in UNION {[S -> Bodies] : S \in SUBSET Tasks}
  BY <1>1, StepPlansType
<1> QED BY <1>1, <1>2, <1>3 DEF PlanApproved, Thread

LEMMA PlanRevisedType ==
  ASSUME NEW th \in Thread, NEW draft \in Drafts
  PROVE  PlanRevised(th, draft) \in Thread
BY DEF PlanRevised, Thread

\* The coder's response is a message, and the history is not empty after it.
LEMMA CoderReturnsType ==
  ASSUME NEW th \in Thread, NEW n \in Nat
  PROVE  CoderReturns(th, n) \in Thread /\ CoderReturns(th, n).messages # <<>>
<1> DEFINE seed == IF sanitize_history(th.messages) = <<>>
                   THEN <<HumanMessage(CurrentTask(th))>> ELSE <<>>
           at == Len(th.messages) + Len(seed) + 1
           calls == [k \in 1..n |-> <<at, k>>]
           response == AIMessage(CurrentTask(th), calls)
<1>1. CurrentTask(th) \in Tasks \cup {Unknown}
  BY CurrentTaskType
<1>2. th.messages \in Seq(Message)
  BY DEF Thread
<1>3. HumanMessage(CurrentTask(th)) \in Message
  BY <1>1 DEF HumanMessage, Message
<1>4. seed \in Seq(Message)
  BY <1>3
<1>5. calls \in Seq(CallId)
  <2>1. at \in Nat
    <3> HIDE DEF seed
    <3>1. Len(th.messages) \in Nat /\ Len(seed) \in Nat
      BY <1>2, <1>4, LenProperties
    <3> QED BY <3>1
  <2> HIDE DEF at
  <2>2. \A k \in 1..n : <<at, k>> \in CallId
    BY <2>1 DEF CallId
  <2> QED BY <2>2, IsASeq
<1>6. response \in Message
  <2> HIDE DEF calls
  <2> QED BY <1>1, <1>5 DEF AIMessage, Message
<1>7. /\ th.messages \o seed \o <<response>> \in Seq(Message)
      /\ th.messages \o seed \o <<response>> # <<>>
  <2> HIDE DEF seed, response
  <2>1. th.messages \o seed \in Seq(Message)
    BY <1>2, <1>4, ConcatProperties
  <2>2. <<response>> \in Seq(Message) /\ <<response>> # <<>>
    BY <1>6
  <2> QED BY <2>1, <2>2, ConcatProperties, ConcatEqualIffEmpty
<1>8. (IF n > 0 THEN th.tool_call_count + 1 ELSE th.tool_call_count) \in Nat
  <2>1. th.tool_call_count \in Nat
    BY DEF Thread
  <2> QED BY <2>1
<1>9. CoderReturns(th, n) =
        [th EXCEPT !.messages = th.messages \o seed \o <<response>>,
                   !.tool_call_count = IF n > 0 THEN @ + 1 ELSE @]
  BY DEF CoderReturns
<1> HIDE DEF seed, response
<1> QED BY <1>7, <1>8, <1>9 DEF Thread

LEMMA ToolsReturnType ==
  ASSUME NEW th \in Thread, th.messages # <<>>
  PROVE  ToolsReturn(th) \in Thread
<1> DEFINE calls == th.messages[Len(th.messages)].calls
           answers == [k \in 1..Len(calls) |-> ToolMessage(CurrentTask(th), calls[k])]
<1>1. th.messages \in Seq(Message)
  BY DEF Thread
<1>2. th.messages[Len(th.messages)] \in Message
  <2>1. Len(th.messages) \in 1..Len(th.messages)
    BY <1>1, LenProperties, EmptySeq
  <2> QED BY <1>1, <2>1, ElementOfSeq
<1>3. calls \in Seq(CallId)
  BY <1>2 DEF Message
<1>4. \A k \in 1..Len(calls) : calls[k] \in CallId
  <2> HIDE DEF calls
  <2> QED BY <1>3, ElementOfSeq
<1>5. \A k \in 1..Len(calls) : ToolMessage(CurrentTask(th), calls[k]) \in Message
  <2> HIDE DEF calls
  <2> QED BY <1>4, CurrentTaskType DEF ToolMessage, Message
<1>6. answers \in Seq(Message)
  <2> HIDE DEF calls
  <2>1. Len(calls) \in Nat
    BY <1>3, LenProperties
  <2> QED BY <1>5, <2>1, IsASeq
<1>7. th.messages \o answers \in Seq(Message)
  <2> HIDE DEF answers
  <2> QED BY <1>1, <1>6, ConcatProperties
<1>8. ToolsReturn(th) = [th EXCEPT !.messages = th.messages \o answers]
  BY DEF ToolsReturn
<1> HIDE DEF answers
<1> QED BY <1>7, <1>8 DEF Thread

LEMMA TesterReturnsType ==
  ASSUME NEW th \in Thread, NEW ok \in BOOLEAN
  PROVE  TesterReturns(th, ok) \in Thread
<1>1. th.retry_count + 1 \in Nat
  <2>1. th.retry_count \in Nat
    BY DEF Thread
  <2> QED BY <2>1
<1> QED BY <1>1 DEF TesterReturns, Thread

LEMMA QueueAdvancedType ==
  ASSUME NEW th \in Thread
  PROVE  QueueAdvanced(th) \in Thread
<1>1. CASE th.todo_tasks = <<>>
  BY <1>1 DEF QueueAdvanced
<1>2. CASE th.todo_tasks # <<>>
  <2>1. th.todo_tasks \in Seq(Tasks) /\ th.completed_tasks \in Seq(Tasks)
    BY DEF Thread
  <2>2. Tail(th.todo_tasks) \in Seq(Tasks) /\ Head(th.todo_tasks) \in Tasks
    BY <1>2, <2>1, HeadTailProperties
  <2>3. Append(th.completed_tasks, Head(th.todo_tasks)) \in Seq(Tasks)
    BY <2>1, <2>2, AppendProperties
  <2>4. <<>> \in Seq(Message)
    OBVIOUS
  <2> QED BY <1>2, <2>2, <2>3, <2>4 DEF QueueAdvanced, Thread
<1> QED BY <1>1, <1>2
-----------------------------------------------------------------------------
(* The inductive invariant *)

\* Only an approved plan leaves the planner, and for good.
PlannerIsFirst(th) == th.next = "planner" <=> ~th.plan_approved

\* ToolNode has a last message to read.
ToolsHaveMessage(th) == th.next = "coder_tools" => th.messages # <<>>

\* What holds of a thread in memory holds of its checkpoints: a crash puts the
\* one in the place of the other.
ThreadInv(th) ==
  /\ th \in Thread
  /\ PlannerIsFirst(th)
  /\ ToolsHaveMessage(th)
  /\ QueueOrderOf(th)
  /\ RetryBudgetOf(th)

IInv == TypeOK /\ ThreadInv(thread) /\ ThreadInv(saved)

\* planner_node: on approval the whole plan is the queue, and nothing is done.
LEMMA PlannerKeeps ==
  ASSUME NEW th, ThreadInv(th), th.next = "planner", NEW draft \in Drafts,
         NEW t, t \in {PlanApproved(th, draft), PlanRevised(th, draft)}
  PROVE  ThreadInv([t EXCEPT !.next = plan_evaluator(t)])
<1> DEFINE u == [t EXCEPT !.next = plan_evaluator(t)]
<1>1. th \in Thread /\ ~th.plan_approved
  BY DEF ThreadInv, PlannerIsFirst
<1>2. /\ th.completed_tasks = <<>> /\ th.todo_tasks = <<>> /\ th.plan = <<>>
      /\ th.retry_count < MAX_TEST_RETRIES
  <2>1. th.retry_count \in Nat /\ MAX_TEST_RETRIES \in Nat
    BY <1>1, RetriesAssumption DEF Thread
  <2>2. th.retry_count <= MAX_TEST_RETRIES /\ th.retry_count # MAX_TEST_RETRIES
    BY DEF ThreadInv, RetryBudgetOf
  <2>3. th.completed_tasks = <<>> /\ th.todo_tasks = <<>> /\ th.plan = <<>>
    BY <1>1 DEF ThreadInv, QueueOrderOf
  <2> QED BY <2>1, <2>2, <2>3
<1>3. t \in Thread
  BY <1>1, PlanApprovedType, PlanRevisedType
<1>4. u \in Thread
  BY <1>3, NextType DEF plan_evaluator, Nodes
<1>5. CASE t = PlanApproved(th, draft)
  <2>1. /\ t.plan_approved
        /\ t.completed_tasks = <<>> /\ t.todo_tasks = StepIds(draft)
        /\ t.plan = draft /\ t.retry_count = 0
    BY <1>1, <1>2, <1>5 DEF PlanApproved, Thread
  <2>2. /\ u.plan_approved /\ u.next = "coder"
        /\ u.completed_tasks = <<>> /\ u.todo_tasks = StepIds(draft)
        /\ u.plan = draft /\ u.retry_count = 0
    BY <1>3, <2>1 DEF plan_evaluator, Thread
  <2>3. <<>> \o StepIds(draft) = StepIds(draft)
    BY DraftsAssumption, StepIdsType, ConcatEmptySeq
  <2> HIDE DEF u
  <2>4. ThreadInv(u)
    BY <1>4, <2>2, <2>3, RetriesAssumption
       DEF ThreadInv, PlannerIsFirst, ToolsHaveMessage, QueueOrderOf, RetryBudgetOf
  <2> QED BY <2>4 DEF u
<1>6. CASE t = PlanRevised(th, draft)
  <2>1. /\ ~t.plan_approved
        /\ t.completed_tasks = <<>> /\ t.todo_tasks = <<>>
        /\ t.plan = <<>> /\ t.retry_count = th.retry_count
    BY <1>1, <1>2, <1>6 DEF PlanRevised, Thread
  <2>2. /\ ~u.plan_approved /\ u.next = "planner"
        /\ u.completed_tasks = <<>> /\ u.todo_tasks = <<>>
        /\ u.plan = <<>> /\ u.retry_count = th.retry_count
    BY <1>3, <2>1 DEF plan_evaluator, Thread
  <2>3. th.retry_count \in Nat /\ MAX_TEST_RETRIES \in Nat
    BY <1>1, RetriesAssumption DEF Thread
  <2> HIDE DEF u
  <2>4. ThreadInv(u)
    BY <1>2, <1>4, <2>2, <2>3
       DEF ThreadInv, PlannerIsFirst, ToolsHaveMessage, QueueOrderOf, RetryBudgetOf
  <2> QED BY <2>4 DEF u
<1> QED BY <1>5, <1>6

\* A node that changes neither the queue nor the retry count.
LEMMA OthersKeep ==
  ASSUME NEW th, ThreadInv(th), th.next \notin {"planner", "give_up", "END"},
         NEW t \in Thread, NEW node \in Nodes \ {"planner"},
         /\ t.plan_approved = th.plan_approved /\ t.plan = th.plan
         /\ t.todo_tasks = th.todo_tasks /\ t.completed_tasks = th.completed_tasks
         /\ t.retry_count = th.retry_count,
         node = "coder_tools" => t.messages # <<>>,
         node # "give_up", node = "END" => th.todo_tasks = <<>>
  PROVE  ThreadInv([t EXCEPT !.next = node])
<1> DEFINE u == [t EXCEPT !.next = node]
<1>1. /\ u \in Thread /\ u.next = node
      /\ u.plan_approved = th.plan_approved /\ u.plan = th.plan
      /\ u.todo_tasks = th.todo_tasks /\ u.completed_tasks = th.completed_tasks
      /\ u.retry_count = th.retry_count /\ u.messages = t.messages
  BY NextType DEF Thread
<1> HIDE DEF u
<1>2. ThreadInv(u)
  BY <1>1
     DEF ThreadInv, PlannerIsFirst, ToolsHaveMessage, QueueOrderOf, RetryBudgetOf
<1> QED BY <1>2 DEF u

LEMMA CoderKeeps ==
  ASSUME NEW th, ThreadInv(th), th.next = "coder", NEW n \in Nat,
         NEW t, t = CoderReturns(th, n)
  PROVE  ThreadInv([t EXCEPT !.next = coder_router(t)])
<1>1. th \in Thread
  BY DEF ThreadInv
<1>2. t \in Thread /\ t.messages # <<>>
  BY <1>1, CoderReturnsType
<1>3. /\ t.plan_approved = th.plan_approved /\ t.plan = th.plan
      /\ t.todo_tasks = th.todo_tasks /\ t.completed_tasks = th.completed_tasks
      /\ t.retry_count = th.retry_count
  BY <1>1 DEF CoderReturns, Thread
<1>4. coder_router(t) \in Nodes \ {"planner", "give_up", "END"}
  BY DEF coder_router, Nodes
<1> QED BY <1>2, <1>3, <1>4, OthersKeep

LEMMA ToolsKeep ==
  ASSUME NEW th, ThreadInv(th), th.next = "coder_tools"
  PROVE  ThreadInv([ToolsReturn(th) EXCEPT !.next = "coder"])
<1> DEFINE t == ToolsReturn(th)
<1>1. th \in Thread /\ th.messages # <<>>
  BY DEF ThreadInv, ToolsHaveMessage
<1>2. t \in Thread
  BY <1>1, ToolsReturnType
<1>3. /\ t.plan_approved = th.plan_approved /\ t.plan = th.plan
      /\ t.todo_tasks = th.todo_tasks /\ t.completed_tasks = th.completed_tasks
      /\ t.retry_count = th.retry_count
  BY <1>1 DEF ToolsReturn, Thread
<1>4. "coder" \in Nodes \ {"planner"}
  BY DEF Nodes
<1> HIDE DEF t
<1>5. ThreadInv([t EXCEPT !.next = "coder"])
  BY <1>2, <1>3, <1>4, OthersKeep
<1> QED BY <1>5 DEF t

\* tester_node counts a failure, and test_evaluator leaves at the limit.
LEMMA TesterKeeps ==
  ASSUME NEW th, ThreadInv(th), th.next = "tester", NEW ok \in BOOLEAN,
         NEW t, t = TesterReturns(th, ok)
  PROVE  ThreadInv([t EXCEPT !.next = test_evaluator(t)])
<1> DEFINE u == [t EXCEPT !.next = test_evaluator(t)]
<1>1. th \in Thread /\ th.plan_approved
  BY DEF ThreadInv, PlannerIsFirst
<1>2. t \in Thread
  BY <1>1, TesterReturnsType
<1>3. /\ t.plan_approved = th.plan_approved /\ t.plan = th.plan
      /\ t.todo_tasks = th.todo_tasks /\ t.completed_tasks = th.completed_tasks
      /\ t.tests_passed = ok
      /\ t.retry_count = IF ok THEN 0 ELSE th.retry_count + 1
  BY <1>1 DEF TesterReturns, Thread
<1>4. test_evaluator(t) \in Nodes \ {"planner", "coder_tools"}
  BY DEF test_evaluator, Nodes
<1>5. /\ u \in Thread /\ u.next = test_evaluator(t)
      /\ u.plan_approved /\ u.plan = th.plan
      /\ u.todo_tasks = th.todo_tasks /\ u.completed_tasks = th.completed_tasks
      /\ u.retry_count = t.retry_count
  BY <1>1, <1>2, <1>3, <1>4, NextType DEF Thread
<1>6. /\ t.retry_count <= MAX_TEST_RETRIES
      /\ t.retry_count = MAX_TEST_RETRIES <=> test_evaluator(t) = "give_up"
      /\ test_evaluator(t) # "END"
  <2>1. th.retry_count \in Nat /\ MAX_TEST_RETRIES \in Nat \ {0}
    BY <1>1, RetriesAssumption DEF Thread
  <2>2. th.retry_count < MAX_TEST_RETRIES
    BY <2>1 DEF ThreadInv, RetryBudgetOf
  <2> QED BY <1>3, <2>1, <2>2 DEF test_evaluator
<1> HIDE DEF u
<1>7. QueueOrderOf(u)
  BY <1>1, <1>5 DEF ThreadInv, QueueOrderOf
<1>8. ThreadInv(u)
  BY <1>4, <1>5, <1>6, <1>7
     DEF ThreadInv, PlannerIsFirst, ToolsHaveMessage, RetryBudgetOf
<1> QED BY <1>8 DEF u

\* Moving the front of one list to the end of another keeps the two together.
LEMMA MoveFront ==
  ASSUME NEW S, NEW a \in Seq(S), NEW b \in Seq(S), b # <<>>
  PROVE  Append(a, Head(b)) \o Tail(b) = a \o b
<1> DEFINE h == Head(b)
<1>1. h \in S /\ Tail(b) \in Seq(S) /\ <<h>> \in Seq(S)
  BY HeadTailProperties
<1>2. Append(a, h) = a \o <<h>>
  BY <1>1, AppendIsConcat
<1>3. <<h>> \o Tail(b) = b
  OBVIOUS
<1> HIDE DEF h
<1>4. (a \o <<h>>) \o Tail(b) = a \o (<<h>> \o Tail(b))
  BY <1>1, ConcatAssociative
<1>5. Append(a, h) \o Tail(b) = a \o b
  BY <1>2, <1>3, <1>4
<1> QED BY <1>5 DEF h

\* queue_manager_node moves the front of the queue behind what is completed.
LEMMA QueueKeeps ==
  ASSUME NEW th, ThreadInv(th), th.next = "queue_manager",
         NEW t, t = QueueAdvanced(th)
  PROVE  ThreadInv([t EXCEPT !.next = queue_evaluator(t)])
<1>1. th \in Thread /\ th.plan_approved
  BY DEF ThreadInv, PlannerIsFirst
<1>2. t \in Thread
  BY <1>1, QueueAdvancedType
<1>3. queue_evaluator(t) \in Nodes \ {"planner", "coder_tools"}
  BY DEF queue_evaluator, Nodes
<1>4. CASE th.todo_tasks = <<>>
  <2>1. t = th /\ queue_evaluator(t) # "give_up"
    BY <1>4 DEF QueueAdvanced, queue_evaluator
  <2> QED BY <1>2, <1>3, <1>4, <2>1, OthersKeep
<1>5. CASE th.todo_tasks # <<>>
  <2> DEFINE u == [t EXCEPT !.next = queue_evaluator(t)]
  <2>1. /\ t.plan_approved /\ t.plan = th.plan /\ t.retry_count = 0
        /\ t.todo_tasks = Tail(th.todo_tasks)
        /\ t.completed_tasks = Append(th.completed_tasks, Head(th.todo_tasks))
    BY <1>1, <1>5 DEF QueueAdvanced, Thread
  <2>2. /\ u \in Thread /\ u.next \notin {"planner", "coder_tools"}
        /\ u.plan_approved /\ u.plan = th.plan /\ u.retry_count = 0
        /\ u.todo_tasks = Tail(th.todo_tasks)
        /\ u.completed_tasks = Append(th.completed_tasks, Head(th.todo_tasks))
    BY <1>2, <1>3, <2>1, NextType DEF Thread
  <2>3. Append(th.completed_tasks, Head(th.todo_tasks)) \o Tail(th.todo_tasks)
          = th.completed_tasks \o th.todo_tasks
    <3>1. th.completed_tasks \in Seq(Tasks) /\ th.todo_tasks \in Seq(Tasks)
      BY <1>1 DEF Thread
    <3> QED BY <1>5, <3>1, MoveFront
  <2>4. u.next = queue_evaluator(t) /\ u.todo_tasks = t.todo_tasks
    BY <1>2, <1>3, NextType DEF Thread
  <2> HIDE DEF u
  <2>5. QueueOrderOf(u)
    BY <1>1, <2>2, <2>3 DEF ThreadInv, QueueOrderOf
  <2>6. u.next # "give_up" /\ (u.next = "END" => u.todo_tasks = <<>>)
    BY <2>4 DEF queue_evaluator
  <2>7. RetryBudgetOf(u)
    BY <2>2, <2>6, RetriesAssumption DEF RetryBudgetOf
  <2>8. ThreadInv(u)
    BY <2>2, <2>5, <2>7 DEF ThreadInv, PlannerIsFirst, ToolsHaveMessage
  <2> QED BY <2>8 DEF u
<1> QED BY <1>4, <1>5
-----------------------------------------------------------------------------
(* Invariance *)

LEMMA InitialThreadInv == ThreadInv(InitialThread)
<1>1. InitialThread \in Thread
  BY InitialThreadType
<1>2. /\ InitialThread.next = "planner" /\ InitialThread.plan_approved = FALSE
      /\ InitialThread.completed_tasks = <<>> /\ InitialThread.todo_tasks = <<>>
      /\ InitialThread.plan = <<>> /\ InitialThread.retry_count = 0
  BY DEF InitialThread
<1> QED BY <1>1, <1>2, RetriesAssumption
     DEF ThreadInv, PlannerIsFirst, ToolsHaveMessage, QueueOrderOf, RetryBudgetOf

LEMMA InitIInv == Init => IInv
<1> SUFFICES ASSUME Init PROVE IInv
  OBVIOUS
<1>1. ThreadInv(thread) /\ ThreadInv(saved)
  BY InitialThreadInv DEF Init
<1>2. thread \in Thread /\ saved \in Thread
  BY <1>1 DEF ThreadInv
<1>3. commits \in Seq([task : Tasks, work : SUBSET (Tasks \cup {Unknown})])
  BY DEF Init
<1>4. faults \in [crashes : 0..MaxCrashes, resets : 0..MaxResets, git : 0..MaxGitFailures]
  BY FaultsAssumption DEF Init
<1> QED BY <1>1, <1>2, <1>3, <1>4 DEF Init, IInv, TypeOK

\* The part of IInv about the world, kept by actions that leave it alone.
LEMMA ThreadStep ==
  ASSUME IInv, ThreadInv(thread'), ThreadInv(saved'), alive' \in BOOLEAN,
         phase' \in {"ready", "asking", "worked"},
         UNCHANGED <<shown, tree, commits, faults>>
  PROVE  IInv'
BY DEF IInv, TypeOK, ThreadInv

\* Response needs an answer for the thread to wait with.
LEMMA AnswerKeeps ==
  ASSUME NEW th, ThreadInv(th), NEW r \in Response
  PROVE  ThreadInv([th EXCEPT !.resume = r])
<1> DEFINE u == [th EXCEPT !.resume = r]
<1>1. th \in Thread
  BY DEF ThreadInv
<1>2. /\ u \in Thread /\ u.next = th.next
      /\ u.plan_approved = th.plan_approved /\ u.plan = th.plan
      /\ u.todo_tasks = th.todo_tasks /\ u.completed_tasks = th.completed_tasks
      /\ u.retry_count = th.retry_count /\ u.messages = th.messages
  BY <1>1 DEF Thread
<1> HIDE DEF u
<1>3. ThreadInv(u)
  BY <1>2
     DEF ThreadInv, PlannerIsFirst, ToolsHaveMessage, QueueOrderOf, RetryBudgetOf
<1> QED BY <1>3 DEF u

LEMMA GiveUpKeeps ==
  ASSUME NEW th, ThreadInv(th), th.next = "give_up"
  PROVE  ThreadInv([th EXCEPT !.next = "END"])
<1> DEFINE u == [th EXCEPT !.next = "END"]
<1>1. th \in Thread
  BY DEF ThreadInv
<1>2. /\ u \in Thread /\ u.next = "END"
      /\ u.plan_approved = th.plan_approved /\ u.plan = th.plan
      /\ u.todo_tasks = th.todo_tasks /\ u.completed_tasks = th.completed_tasks
      /\ u.retry_count = th.retry_count
  <2>1. "END" \in Nodes
    BY DEF Nodes
  <2> QED BY <1>1, <2>1, NextType DEF Thread
<1> HIDE DEF u
<1>3. ThreadInv(u)
  BY <1>2
     DEF ThreadInv, PlannerIsFirst, ToolsHaveMessage, QueueOrderOf, RetryBudgetOf
<1> QED BY <1>3 DEF u

LEMMA NextIInv == IInv /\ [Next]_vars => IInv'
<1> SUFFICES ASSUME IInv, [Next]_vars PROVE IInv'
  OBVIOUS
<1> USE DEF Runs, Return
<1>0. ThreadInv(thread) /\ ThreadInv(saved) /\ TypeOK
  BY DEF IInv
<1>1. ASSUME NEW draft \in Drafts, PlannerProposes(draft) PROVE IInv'
  BY <1>0, <1>1 DEF PlannerProposes, IInv, TypeOK, ThreadInv
<1>2. ASSUME NEW draft \in Drafts, PlannerResumes(draft) PROVE IInv'
  <2>1. PICK t \in {PlanApproved(thread, draft), PlanRevised(thread, draft)} :
          thread' = [t EXCEPT !.next = plan_evaluator(t)]
    BY <1>2 DEF PlannerResumes
  <2>2. ThreadInv(thread')
    BY <1>0, <1>2, <2>1, PlannerKeeps DEF PlannerResumes
  <2> QED BY <1>0, <1>2, <2>2, ThreadStep DEF PlannerResumes, TypeOK
<1>3. ASSUME NEW n \in 0..MaxBatch, CoderNode(n) PROVE IInv'
  <2>1. n \in Nat
    BY BudgetAssumption
  <2>2. ThreadInv(thread')
    BY <1>0, <1>3, <2>1, CoderKeeps DEF CoderNode
  <2> QED BY <1>0, <1>3, <2>2, ThreadStep DEF CoderNode, TypeOK
<1>4. CASE ToolsWork
  <2>1. tree' \in SUBSET (Tasks \cup {Unknown})
    <3>1. CurrentTask(thread) \in Tasks \cup {Unknown}
      BY <1>0, CurrentTaskType DEF ThreadInv
    <3> QED BY <1>0, <1>4, <3>1 DEF ToolsWork, TypeOK
  <2> QED BY <1>0, <1>4, <2>1 DEF ToolsWork, IInv, TypeOK, ThreadInv
<1>5. CASE ToolsEnd
  <2>1. ThreadInv(thread')
    BY <1>0, <1>5, ToolsKeep DEF ToolsEnd
  <2> QED BY <1>0, <1>5, <2>1, ThreadStep DEF ToolsEnd, TypeOK
<1>6. ASSUME NEW ok \in BOOLEAN, TesterNode(ok) PROVE IInv'
  <2>1. ThreadInv(thread')
    BY <1>0, <1>6, TesterKeeps DEF TesterNode
  <2> QED BY <1>0, <1>6, <2>1, ThreadStep DEF TesterNode, TypeOK
<1>7. CASE QueueCommit
  <2>1. /\ tree' \in SUBSET (Tasks \cup {Unknown})
        /\ commits' \in Seq([task : Tasks, work : SUBSET (Tasks \cup {Unknown})])
        /\ faults' \in [crashes : 0..MaxCrashes, resets : 0..MaxResets,
                        git : 0..MaxGitFailures]
    <3>1. CASE UNCHANGED <<tree, commits, faults>>
      BY <1>0, <3>1 DEF TypeOK
    <3>2. CASE /\ thread.todo_tasks # <<>>
               /\ commits' = Append(commits, [task |-> CurrentTask(thread), work |-> tree])
               /\ tree' = {}
               /\ UNCHANGED faults
      <4>1. CurrentTask(thread) \in Tasks
        BY <1>0, <3>2, CurrentTaskType DEF ThreadInv
      <4>2. [task |-> CurrentTask(thread), work |-> tree]
              \in [task : Tasks, work : SUBSET (Tasks \cup {Unknown})]
        BY <1>0, <4>1 DEF TypeOK
      <4> QED BY <1>0, <3>2, <4>2, AppendProperties DEF TypeOK
    <3>3. CASE /\ faults.git < MaxGitFailures
               /\ faults' = [faults EXCEPT !.git = @ + 1]
               /\ UNCHANGED <<tree, commits>>
      BY <1>0, <3>3, FaultsAssumption DEF TypeOK
    <3> QED BY <1>7, <3>1, <3>2, <3>3 DEF QueueCommit
  <2> QED BY <1>0, <1>7, <2>1 DEF QueueCommit, IInv, TypeOK, ThreadInv
<1>8. CASE QueueEnd
  <2>1. ThreadInv(thread')
    BY <1>0, <1>8, QueueKeeps DEF QueueEnd
  <2> QED BY <1>0, <1>8, <2>1, ThreadStep DEF QueueEnd, TypeOK
<1>9. CASE GiveUpNode
  <2>1. ThreadInv(thread')
    BY <1>0, <1>9, GiveUpKeeps DEF GiveUpNode
  <2> QED BY <1>0, <1>9, <2>1, ThreadStep DEF GiveUpNode, TypeOK
<1>10. CASE Flush
  BY <1>0, <1>10, ThreadStep DEF Flush, TypeOK
<1>11. CASE Exit
  BY <1>0, <1>11, ThreadStep DEF Exit, TypeOK
<1>12. CASE Launch
  BY <1>0, <1>12, ThreadStep DEF Launch, TypeOK
<1>13. CASE LaunchReset
  <2>1. faults' \in [crashes : 0..MaxCrashes, resets : 0..MaxResets, git : 0..MaxGitFailures]
    BY <1>0, <1>13, FaultsAssumption DEF LaunchReset, TypeOK
  <2>2. ThreadInv(thread') /\ ThreadInv(saved')
    BY <1>13, InitialThreadInv DEF LaunchReset
  <2> QED BY <1>0, <1>13, <2>1, <2>2 DEF LaunchReset, IInv, TypeOK, ThreadInv
<1>14. CASE Crash
  <2>1. faults' \in [crashes : 0..MaxCrashes, resets : 0..MaxResets, git : 0..MaxGitFailures]
    BY <1>0, <1>14, FaultsAssumption DEF Crash, TypeOK
  <2> QED BY <1>0, <1>14, <2>1 DEF Crash, IInv, TypeOK, ThreadInv
<1>15. ASSUME NEW r \in Response, Answer(r) PROVE IInv'
  <2>1. ThreadInv(thread')
    BY <1>0, <1>15, AnswerKeeps DEF Answer
  <2> QED BY <1>0, <1>15, <2>1 DEF Answer, IInv, TypeOK, ThreadInv
<1>16. CASE UNCHANGED vars
  BY <1>0, <1>16, ThreadStep DEF vars, TypeOK
<1> QED BY <1>1, <1>2, <1>3, <1>4, <1>5, <1>6, <1>7, <1>8, <1>9, <1>10, <1>11,
           <1>12, <1>13, <1>14, <1>15, <1>16 DEF Next, Work

LEMMA Invariance == Spec => []IInv
BY InitIInv, NextIInv, PTL DEF Spec

\* Every variable keeps its type, in every execution of the orchestrator.
THEOREM TypeCorrect == Spec => []TypeOK
<1>1. IInv => TypeOK
  BY DEF IInv
<1> QED BY <1>1, Invariance, PTL

\* Whatever crashes, retries, resets and re-executions happen, neither copy of
\* the queue loses, repeats or reorders a step of the approved plan.
THEOREM QueueOrderHolds == Spec => []QueueOrder
<1>1. IInv => QueueOrder
  BY DEF IInv, ThreadInv, QueueOrder
<1> QED BY <1>1, Invariance, PTL

\* The retry limit holds for every value of MAX_TEST_RETRIES, in memory and in
\* every checkpoint: no crash gives a task an attempt more, or takes one away.
THEOREM RetryBudgetHolds == Spec => []RetryBudget
<1>1. IInv => RetryBudget
  BY DEF IInv, ThreadInv, RetryBudget
<1> QED BY <1>1, Invariance, PTL

-----------------------------------------------------------------------------
(* What the coder is told of the last test run *)

\* The result of the last run: a failure of this task's, or the success that
\* ended the task before it; queue_manager_node resets tests_passed but leaves
\* test_results as it is.
LastRun(th) ==
  IF th.retry_count > 0 THEN "failed"
  ELSE IF th.completed_tasks = <<>> THEN "" ELSE "passed"

TestsInv(th) ==
  /\ th.next \in {"planner", "coder", "coder_tools", "tester"} =>
       ~th.tests_passed /\ th.test_results = LastRun(th)
  /\ th.next = "planner" => th.retry_count = 0
  /\ th.next = "queue_manager" => th.test_results = "passed" /\ th.tests_passed

LEMMA InitialTests == TestsInv(InitialThread)
  BY DEF TestsInv, LastRun, InitialThread

LEMMA PlannerKeepsTests ==
  ASSUME NEW th, ThreadInv(th), TestsInv(th), th.next = "planner",
         NEW draft \in Drafts,
         NEW t, t \in {PlanApproved(th, draft), PlanRevised(th, draft)}
  PROVE  TestsInv([t EXCEPT !.next = plan_evaluator(t)])
<1> DEFINE u == [t EXCEPT !.next = plan_evaluator(t)]
<1>1. /\ th \in Thread /\ th.completed_tasks = <<>>
      /\ ~th.tests_passed /\ th.test_results = "" /\ th.retry_count = 0
  <2>1. th \in Thread /\ ~th.plan_approved
    BY DEF ThreadInv, PlannerIsFirst
  <2>2. th.completed_tasks = <<>>
    BY <2>1 DEF ThreadInv, QueueOrderOf
  <2>3. ~th.tests_passed /\ th.test_results = LastRun(th)
    BY Zenon DEF TestsInv
  <2>4. th.retry_count = 0
    BY Zenon DEF TestsInv
  <2>5. LastRun(th) = ""
    <3>1. ~(th.retry_count > 0)
      BY <2>4
    <3> QED BY <2>2, <3>1, Zenon DEF LastRun
  <2> QED BY <2>1, <2>2, <2>3, <2>4, <2>5
<1>2. t \in Thread
  BY <1>1, PlanApprovedType, PlanRevisedType
<1>3. /\ t.completed_tasks = <<>> /\ ~t.tests_passed
      /\ t.test_results = "" /\ t.retry_count = 0
  BY <1>1 DEF PlanApproved, PlanRevised, Thread
<1>4. /\ u.completed_tasks = <<>> /\ ~u.tests_passed
      /\ u.test_results = "" /\ u.retry_count = 0
      /\ u.next \in {"planner", "coder"}
  BY <1>2, <1>3 DEF plan_evaluator, Thread
<1> HIDE DEF u
<1>5. LastRun(u) = ""
  <2>1. u.retry_count = 0
    BY <1>4
  <2>2. ~(u.retry_count > 0)
    BY <2>1
  <2> QED BY <1>4, <2>2, Zenon DEF LastRun
<1>6. u.next # "queue_manager"
  BY <1>4
<1>7. TestsInv(u)
  BY <1>4, <1>5, <1>6, Zenon DEF TestsInv
<1> QED BY <1>7 DEF u

\* A node that changes nothing the coder is told.
LEMMA OthersKeepTests ==
  ASSUME NEW th, TestsInv(th), NEW t \in Thread, NEW node,
         th.next \in {"coder", "coder_tools"} /\ node \in {"coder", "coder_tools", "tester"},
         /\ t.tests_passed = th.tests_passed /\ t.test_results = th.test_results
         /\ t.retry_count = th.retry_count /\ t.completed_tasks = th.completed_tasks
  PROVE  TestsInv([t EXCEPT !.next = node])
<1> DEFINE u == [t EXCEPT !.next = node]
<1>1. /\ u.tests_passed = th.tests_passed /\ u.test_results = th.test_results
      /\ u.retry_count = th.retry_count /\ u.completed_tasks = th.completed_tasks
      /\ u.next = node
  BY DEF Thread
<1> HIDE DEF u
<1>2. TestsInv(u)
  BY <1>1 DEF TestsInv, LastRun
<1> QED BY <1>2 DEF u

LEMMA TesterKeepsTests ==
  ASSUME NEW th, ThreadInv(th), TestsInv(th), th.next = "tester", NEW ok \in BOOLEAN,
         NEW t, t = TesterReturns(th, ok)
  PROVE  TestsInv([t EXCEPT !.next = test_evaluator(t)])
<1> DEFINE u == [t EXCEPT !.next = test_evaluator(t)]
<1>1. th \in Thread /\ th.retry_count \in Nat
  BY DEF ThreadInv, Thread
<1>2. t \in Thread
  BY <1>1, TesterReturnsType
<1>3. CASE ok
  <2>1. t.tests_passed /\ t.test_results = "passed"
    BY <1>1, <1>3 DEF TesterReturns, Thread
  <2>2. u.tests_passed /\ u.test_results = "passed" /\ u.next = "queue_manager"
    BY <1>2, <2>1 DEF test_evaluator, Thread
  <2> HIDE DEF u
  <2>3. TestsInv(u)
    BY <2>2 DEF TestsInv
  <2> QED BY <2>3 DEF u
<1>4. CASE ~ok
  <2>1. ~t.tests_passed /\ t.test_results = "failed" /\ t.retry_count = th.retry_count + 1
    BY <1>1, <1>4 DEF TesterReturns, Thread
  <2>2. u.tests_passed = t.tests_passed /\ u.test_results = "failed" /\ u.retry_count > 0
    <3>1. /\ u.tests_passed = t.tests_passed /\ u.test_results = t.test_results
          /\ u.retry_count = t.retry_count
      BY <1>2 DEF Thread
    <3>2. t.test_results = "failed" /\ t.retry_count > 0
      <4>1. t.test_results = "failed" /\ t.retry_count = th.retry_count + 1
        BY <2>1
      <4> QED BY <1>1, <4>1
    <3> QED BY <3>1, <3>2
  <2>3. u.next = test_evaluator(t) /\ test_evaluator(t) \in {"give_up", "coder"}
    BY <1>2, <2>1 DEF test_evaluator, Thread
  <2> HIDE DEF u
  <2>4. LastRun(u) = "failed" /\ u.next # "planner" /\ u.next # "queue_manager"
    BY <2>2, <2>3 DEF LastRun
  <2>5. TestsInv(u)
    BY <2>1, <2>2, <2>4, Zenon DEF TestsInv
  <2> QED BY <2>5 DEF u
<1> QED BY <1>3, <1>4

LEMMA QueueKeepsTests ==
  ASSUME NEW th, ThreadInv(th), TestsInv(th), th.next = "queue_manager",
         NEW t, t = QueueAdvanced(th)
  PROVE  TestsInv([t EXCEPT !.next = queue_evaluator(t)])
<1> DEFINE u == [t EXCEPT !.next = queue_evaluator(t)]
<1>1. th \in Thread /\ th.test_results = "passed"
  BY DEF ThreadInv, TestsInv
<1>2. t \in Thread
  BY <1>1, QueueAdvancedType
<1>3. /\ u.next = queue_evaluator(t)
      /\ u.tests_passed = t.tests_passed /\ u.test_results = t.test_results
      /\ u.retry_count = t.retry_count /\ u.completed_tasks = t.completed_tasks
  BY <1>2 DEF Thread
<1> HIDE DEF u
<1>4. CASE th.todo_tasks = <<>>
  <2>1. queue_evaluator(t) = "END"
    BY <1>4 DEF QueueAdvanced, queue_evaluator
  <2>2. u.next = "END"
    BY <1>3, <2>1
  <2>3. TestsInv(u)
    BY <2>2 DEF TestsInv
  <2> QED BY <2>3 DEF u
<1>5. CASE th.todo_tasks # <<>>
  <2>1. /\ t.test_results = "passed" /\ ~t.tests_passed /\ t.retry_count = 0
        /\ t.completed_tasks = Append(th.completed_tasks, Head(th.todo_tasks))
    BY <1>1, <1>5 DEF QueueAdvanced, Thread
  <2>2. t.completed_tasks # <<>>
    <3>1. th.completed_tasks \in Seq(Tasks) /\ Head(th.todo_tasks) \in Tasks
      BY <1>1, <1>5, HeadTailProperties DEF Thread
    <3> QED BY <2>1, <3>1, AppendProperties
  <2>3. queue_evaluator(t) \in {"coder", "END"}
    BY DEF queue_evaluator
  <2>4. LastRun(u) = "passed" /\ u.next # "planner" /\ u.next # "queue_manager"
    BY <1>3, <2>1, <2>2, <2>3 DEF LastRun
  <2>5. TestsInv(u)
    BY <1>3, <2>1, <2>4, Zenon DEF TestsInv
  <2> QED BY <2>5 DEF u
<1> QED BY <1>4, <1>5

TestsInvs == TestsInv(thread) /\ TestsInv(saved)

LEMMA NextTestsInvs == IInv /\ TestsInvs /\ [Next]_vars => TestsInvs'
<1> SUFFICES ASSUME IInv, TestsInvs, [Next]_vars PROVE TestsInv(thread') /\ TestsInv(saved')
  BY DEF TestsInvs
<1> USE DEF Runs, Return
<1>0. /\ ThreadInv(thread) /\ thread \in Thread
      /\ TestsInv(thread) /\ TestsInv(saved)
  BY DEF IInv, TypeOK, TestsInvs
<1>1. ASSUME NEW draft \in Drafts, PlannerResumes(draft)
      PROVE  TestsInv(thread') /\ TestsInv(saved')
  BY <1>0, <1>1, PlannerKeepsTests DEF PlannerResumes
<1>2. ASSUME NEW n \in 0..MaxBatch, CoderNode(n)
      PROVE  TestsInv(thread') /\ TestsInv(saved')
  <2> DEFINE t == CoderReturns(thread, n)
  <2>1. n \in Nat
    BY BudgetAssumption
  <2>2. t \in Thread
    BY <1>0, <2>1, CoderReturnsType
  <2>3. /\ t.tests_passed = thread.tests_passed /\ t.test_results = thread.test_results
        /\ t.retry_count = thread.retry_count
        /\ t.completed_tasks = thread.completed_tasks
    BY <1>0 DEF CoderReturns, Thread
  <2>4. coder_router(t) \in {"coder_tools", "tester"}
    BY DEF coder_router
  <2>5. thread' = [t EXCEPT !.next = coder_router(t)] /\ thread.next = "coder" /\ saved' = saved
    BY <1>2 DEF CoderNode
  <2> HIDE DEF t
  <2> QED BY <1>0, <2>2, <2>3, <2>4, <2>5, OthersKeepTests
<1>3. CASE ToolsEnd
  <2> DEFINE t == ToolsReturn(thread)
  <2>1. thread.messages # <<>>
    BY <1>3 DEF ToolsEnd, IInv, ThreadInv, ToolsHaveMessage
  <2>2. t \in Thread
    BY <1>0, <2>1, ToolsReturnType
  <2>3. /\ t.tests_passed = thread.tests_passed /\ t.test_results = thread.test_results
        /\ t.retry_count = thread.retry_count
        /\ t.completed_tasks = thread.completed_tasks
    BY <1>0 DEF ToolsReturn, Thread
  <2>4. thread' = [t EXCEPT !.next = "coder"] /\ thread.next = "coder_tools" /\ saved' = saved
    BY <1>3 DEF ToolsEnd
  <2> HIDE DEF t
  <2> QED BY <1>0, <2>2, <2>3, <2>4, OthersKeepTests
<1>4. ASSUME NEW ok \in BOOLEAN, TesterNode(ok)
      PROVE  TestsInv(thread') /\ TestsInv(saved')
  BY <1>0, <1>4, TesterKeepsTests DEF TesterNode
<1>5. CASE QueueEnd
  BY <1>0, <1>5, QueueKeepsTests DEF QueueEnd
<1>6. CASE GiveUpNode
  <2>1. thread' = [thread EXCEPT !.next = "END"] /\ saved' = saved
    BY <1>6 DEF GiveUpNode
  <2>2. thread'.next = "END"
    BY <1>0, <2>1 DEF Thread
  <2> QED BY <1>0, <2>1, <2>2 DEF TestsInv
<1>7. ASSUME NEW r \in Response, Answer(r)
      PROVE  TestsInv(thread') /\ TestsInv(saved')
  <2>1. /\ thread'.next = thread.next /\ thread'.tests_passed = thread.tests_passed
        /\ thread'.test_results = thread.test_results
        /\ thread'.retry_count = thread.retry_count
        /\ thread'.completed_tasks = thread.completed_tasks /\ saved' = saved
    BY <1>0, <1>7 DEF Answer, Thread
  <2> QED BY <1>0, <2>1 DEF TestsInv, LastRun
<1>8. CASE Flush \/ Crash
  BY <1>0, <1>8 DEF Flush, Crash
<1>9. CASE LaunchReset
  BY <1>9, InitialTests DEF LaunchReset
<1>10. ASSUME UNCHANGED <<thread, saved>>
       PROVE  TestsInv(thread') /\ TestsInv(saved')
  BY <1>0, <1>10
<1>11. CASE ToolsWork \/ QueueCommit \/ Exit \/ Launch \/ UNCHANGED vars
  BY <1>10, <1>11 DEF ToolsWork, QueueCommit, Exit, Launch, vars
<1>12. ASSUME NEW draft \in Drafts, PlannerProposes(draft)
       PROVE  TestsInv(thread') /\ TestsInv(saved')
  BY <1>10, <1>12 DEF PlannerProposes
<1> QED BY <1>1, <1>2, <1>3, <1>4, <1>5, <1>6, <1>7, <1>8, <1>9, <1>11, <1>12
        DEF Next, Work

\* For plans of any length: the coder is told of a failure that was none at
\* every call of the first attempt at every task but the first, and at no other
\* call: the states that refute FailureContextIsTrue.
THEOREM FalseFailureIsExact ==
  Spec => [](FailureContextIsTrue
             <=> ~(/\ thread.next = "coder" /\ thread.retry_count = 0
                   /\ thread.completed_tasks # <<>>))
<1>1. Init => TestsInvs
  BY InitialTests DEF Init, TestsInvs
<1>2. IInv /\ TestsInvs =>
        (FailureContextIsTrue
         <=> ~(/\ thread.next = "coder" /\ thread.retry_count = 0
               /\ thread.completed_tasks # <<>>))
  <2> SUFFICES ASSUME thread.retry_count \in Nat, TestsInv(thread)
               PROVE  FailureContextIsTrue
                      <=> ~(/\ thread.next = "coder" /\ thread.retry_count = 0
                            /\ thread.completed_tasks # <<>>)
    BY DEF IInv, TypeOK, Thread, TestsInvs
  <2>1. CASE thread.next # "coder"
    BY <2>1 DEF FailureContextIsTrue
  <2>2. CASE thread.next = "coder"
    <3>1. ~thread.tests_passed /\ thread.test_results = LastRun(thread)
      BY <2>2, Zenon DEF TestsInv
    <3>2. FailureContextIsTrue <=> LastRun(thread) # "passed"
      <4>1. LastRun(thread) \in {"failed", "", "passed"}
        BY DEF LastRun
      <4>2. ToldOfFailure(thread) <=> LastRun(thread) # ""
        BY <3>1, Zenon DEF ToldOfFailure
      <4> QED BY <2>2, <3>1, <4>1, <4>2 DEF FailureContextIsTrue
    <3>3. LastRun(thread) = "passed"
          <=> thread.retry_count = 0 /\ thread.completed_tasks # <<>>
      BY DEF LastRun
    <3> QED BY <2>2, <3>2, <3>3, Zenon
  <2> QED BY <2>1, <2>2
<1> QED BY <1>1, <1>2, NextTestsInvs, Invariance, PTL DEF Spec
=============================================================================
