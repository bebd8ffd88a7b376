------------------------ MODULE OrchestratorWorldProofs ------------------------
(***************************************************************************)
(* Theorems that relate the checkpoint, the running thread and what cannot *)
(* be taken back: the working tree and the commits.  At the end, the steps *)
(* of TaskQueue that the checkpoint takes.                                 *)
(***************************************************************************)
EXTENDS OrchestratorProofs, FiniteSetTheorems

-----------------------------------------------------------------------------
(* The steps of the orchestrator, as far as queue, tree and commits go *)

\* What the nodes between the planner and the queue manager leave alone.
Kept(a, b) ==
  /\ b.plan_approved = a.plan_approved /\ b.plan = a.plan
  /\ b.todo_tasks = a.todo_tasks /\ b.completed_tasks = a.completed_tasks

World == <<tree, commits, faults>>
Returns == saved = thread /\ saved' = saved /\ phase' = "ready" /\ UNCHANGED World

PlannerStep ==
  /\ Returns
  /\ thread.next = "planner"
  /\ \/ /\ thread'.next = "coder"
        /\ thread'.plan_approved
        /\ thread'.plan \in Drafts
        /\ thread'.todo_tasks = StepIds(thread'.plan)
        /\ thread'.completed_tasks = <<>>
     \/ thread'.next = "planner" /\ Kept(thread, thread')

WorkStep ==
  /\ Returns
  /\ \/ /\ thread.next \in {"coder", "coder_tools", "tester"}
        /\ thread'.next \in {"coder", "coder_tools", "tester", "queue_manager", "give_up"}
     \/ thread.next = "give_up" /\ thread'.next = "END"
  /\ Kept(thread, thread')

FilesStep ==
  /\ thread.next = "coder_tools"
  /\ tree' \in {tree, tree \cup {CurrentTask(thread)}}
  /\ phase' = "worked"
  /\ UNCHANGED <<thread, saved, commits, faults>>

CommitStep ==
  /\ thread.next = "queue_manager"
  /\ phase = "ready" /\ phase' = "worked"
  /\ \/ (thread.todo_tasks = <<>> \/ tree = {}) /\ UNCHANGED World
     \/ /\ thread.todo_tasks # <<>> /\ tree # {}
        /\ commits' = Append(commits, [task |-> CurrentTask(thread), work |-> tree])
        /\ tree' = {}
        /\ UNCHANGED faults
     \/ /\ faults' = [faults EXCEPT !.git = @ + 1]
        /\ UNCHANGED <<tree, commits>>
  /\ UNCHANGED <<thread, saved>>

QueueStep ==
  /\ Returns
  /\ thread.next = "queue_manager" /\ phase = "worked"
  /\ thread'.plan_approved = thread.plan_approved /\ thread'.plan = thread.plan
  /\ \/ /\ thread.todo_tasks = <<>> /\ thread'.next = "END"
        /\ Kept(thread, thread')
     \/ /\ thread.todo_tasks # <<>>
        /\ thread'.todo_tasks = Tail(thread.todo_tasks)
        /\ thread'.completed_tasks = Append(thread.completed_tasks, Head(thread.todo_tasks))
        /\ thread'.next = IF thread'.todo_tasks = <<>> THEN "END" ELSE "coder"

WriteStep == saved' = thread /\ UNCHANGED <<thread, phase, World>>

ResetStep ==
  /\ thread' = InitialThread /\ saved' = InitialThread
  /\ phase' = phase
  /\ faults' = [faults EXCEPT !.resets = @ + 1]
  /\ UNCHANGED <<tree, commits>>

CrashStep ==
  /\ thread' = saved /\ saved' = saved
  /\ phase' = "ready"
  /\ faults' = [faults EXCEPT !.crashes = @ + 1]
  /\ UNCHANGED <<tree, commits>>

OtherStep ==
  /\ thread'.next = thread.next /\ Kept(thread, thread')
  /\ phase' = phase \/ (phase' # "worked" /\ phase # "worked")
  /\ UNCHANGED <<saved, World>>

LEMMA CoderNodeSteps ==
  ASSUME IInv, NEW n \in 0..MaxBatch, CoderNode(n) PROVE WorkStep
<1> USE DEF Runs, Return, World
<1> DEFINE t == CoderReturns(thread, n)
<1>1. thread \in Thread /\ n \in Nat
  BY BudgetAssumption DEF IInv, TypeOK
<1>2. t \in Thread /\ Kept(thread, t)
  BY <1>1, CoderReturnsType DEF CoderReturns, Thread, Kept
<1>3. coder_router(t) \in {"coder_tools", "tester"}
  BY DEF coder_router
<1>4. thread' = [t EXCEPT !.next = coder_router(t)]
  BY DEF CoderNode
<1>5. Returns /\ thread.next = "coder"
  BY DEF CoderNode, Returns
<1> HIDE DEF t
<1>6. thread'.next = coder_router(t) /\ Kept(t, thread')
  BY <1>2, <1>4 DEF Thread, Kept
<1> QED BY <1>2, <1>3, <1>5, <1>6 DEF WorkStep, Kept

LEMMA ToolsEndSteps == ASSUME IInv, ToolsEnd PROVE WorkStep
<1> USE DEF Runs, Return, World
<1>1. thread \in Thread /\ thread.messages # <<>>
  BY DEF IInv, TypeOK, ThreadInv, ToolsHaveMessage, ToolsEnd
<1>2. ToolsReturn(thread) \in Thread /\ Kept(thread, ToolsReturn(thread))
  BY <1>1, ToolsReturnType DEF ToolsReturn, Thread, Kept
<1>3. thread' = [ToolsReturn(thread) EXCEPT !.next = "coder"]
  BY DEF ToolsEnd
<1>4. thread'.next = "coder" /\ Kept(ToolsReturn(thread), thread')
  BY <1>2, <1>3 DEF Thread, Kept
<1> QED BY <1>2, <1>4 DEF WorkStep, Returns, Kept, ToolsEnd

LEMMA TesterNodeSteps ==
  ASSUME IInv, NEW ok \in BOOLEAN, TesterNode(ok) PROVE WorkStep
<1> USE DEF Runs, Return, World
<1> DEFINE t == TesterReturns(thread, ok)
<1>1. thread \in Thread
  BY DEF IInv, TypeOK
<1>2. t \in Thread /\ Kept(thread, t)
  BY <1>1, TesterReturnsType DEF TesterReturns, Thread, Kept
<1>3. test_evaluator(t) \in {"queue_manager", "give_up", "coder"}
  BY DEF test_evaluator
<1>4. thread' = [t EXCEPT !.next = test_evaluator(t)]
  BY DEF TesterNode
<1>5. Returns /\ thread.next = "tester"
  BY DEF TesterNode, Returns
<1> HIDE DEF t
<1>6. thread'.next = test_evaluator(t) /\ Kept(t, thread')
  BY <1>2, <1>4 DEF Thread, Kept
<1> QED BY <1>2, <1>3, <1>5, <1>6 DEF WorkStep, Kept

LEMMA GiveUpSteps == ASSUME IInv, GiveUpNode PROVE WorkStep
<1>1. thread \in Thread
  BY DEF IInv, TypeOK
<1> QED BY <1>1 DEF GiveUpNode, WorkStep, Returns, Kept, Runs, Return, World, Thread

LEMMA PlannerSteps ==
  ASSUME IInv, NEW draft \in Drafts, PlannerResumes(draft) PROVE PlannerStep
<1> USE DEF Runs, Return, World
<1>1. thread \in Thread /\ ~thread.plan_approved /\ thread.completed_tasks = <<>>
  BY DEF IInv, TypeOK, ThreadInv, PlannerIsFirst, QueueOrderOf, PlannerResumes
<1>2. Returns /\ thread.next = "planner"
  BY DEF PlannerResumes, Returns
<1>3. PICK t \in {PlanApproved(thread, draft), PlanRevised(thread, draft)} :
        thread' = [t EXCEPT !.next = plan_evaluator(t)]
  BY DEF PlannerResumes
<1>4. t \in Thread
  BY <1>1, PlanApprovedType, PlanRevisedType
<1>5. thread'.next = plan_evaluator(t) /\ Kept(t, thread')
  BY <1>3, <1>4 DEF Thread, Kept
<1>6. CASE t = PlanApproved(thread, draft)
  <2>1. /\ t.plan_approved /\ t.plan = draft /\ t.todo_tasks = StepIds(draft)
        /\ t.completed_tasks = <<>>
    BY <1>1, <1>6 DEF PlanApproved, Thread
  <2> QED BY <1>2, <1>5, <2>1 DEF PlannerStep, Kept, plan_evaluator
<1>7. CASE t = PlanRevised(thread, draft)
  <2>1. Kept(thread, t)
    BY <1>1, <1>7 DEF PlanRevised, Thread, Kept
  <2> QED BY <1>1, <1>2, <1>5, <2>1 DEF PlannerStep, Kept, plan_evaluator
<1> QED BY <1>6, <1>7

LEMMA QueueEndSteps == ASSUME IInv, QueueEnd PROVE QueueStep
<1> USE DEF Runs, Return, World
<1> DEFINE t == QueueAdvanced(thread)
<1>1. thread \in Thread
  BY DEF IInv, TypeOK
<1>2. t \in Thread
  BY <1>1, QueueAdvancedType
<1>3. thread' = [t EXCEPT !.next = queue_evaluator(t)]
  BY DEF QueueEnd
<1>4. Returns /\ thread.next = "queue_manager" /\ phase = "worked"
  BY DEF QueueEnd, Returns
<1>5. CASE thread.todo_tasks = <<>>
  <2>1. t = thread
    BY <1>5 DEF QueueAdvanced
  <2> HIDE DEF t
  <2>2. thread'.next = "END" /\ Kept(thread, thread')
    BY <1>1, <1>3, <1>5, <2>1 DEF queue_evaluator, Kept, Thread
  <2> QED BY <1>4, <1>5, <2>2 DEF QueueStep, Kept
<1>6. CASE thread.todo_tasks # <<>>
  <2>1. /\ t.plan_approved = thread.plan_approved /\ t.plan = thread.plan
        /\ t.todo_tasks = Tail(thread.todo_tasks)
        /\ t.completed_tasks = Append(thread.completed_tasks, Head(thread.todo_tasks))
    BY <1>1, <1>6 DEF QueueAdvanced, Thread
  <2> HIDE DEF t
  <2>2. thread'.next = queue_evaluator(t) /\ Kept(t, thread')
    BY <1>2, <1>3 DEF Kept, Thread
  <2> QED BY <1>4, <1>6, <2>1, <2>2 DEF QueueStep, Kept, queue_evaluator
<1> QED BY <1>5, <1>6

LEMMA Steps ==
  ASSUME IInv, [Next]_vars
  PROVE  \/ PlannerStep \/ WorkStep \/ FilesStep \/ CommitStep \/ QueueStep
         \/ WriteStep \/ ResetStep \/ CrashStep \/ OtherStep
<1> USE DEF Runs, Return, World
<1>1. ASSUME NEW draft \in Drafts, PlannerProposes(draft) PROVE OtherStep
  BY <1>1 DEF PlannerProposes, OtherStep, Kept
<1>2. ASSUME NEW draft \in Drafts, PlannerResumes(draft) PROVE PlannerStep
  BY <1>2, PlannerSteps
<1>3. ASSUME NEW n \in 0..MaxBatch, CoderNode(n) PROVE WorkStep
  BY <1>3, CoderNodeSteps
<1>4. CASE ToolsWork
  BY <1>4 DEF ToolsWork, FilesStep
<1>5. CASE ToolsEnd
  BY <1>5, ToolsEndSteps
<1>6. ASSUME NEW ok \in BOOLEAN, TesterNode(ok) PROVE WorkStep
  BY <1>6, TesterNodeSteps
<1>7. CASE QueueCommit
  BY <1>7 DEF QueueCommit, CommitStep
<1>8. CASE QueueEnd
  BY <1>8, QueueEndSteps
<1>9. CASE GiveUpNode
  BY <1>9, GiveUpSteps
<1>10. CASE Flush
  BY <1>10 DEF Flush, WriteStep
<1>11. CASE Exit \/ Launch \/ UNCHANGED vars
  BY <1>11 DEF Exit, Launch, vars, OtherStep, Kept
<1>12. CASE LaunchReset
  BY <1>12 DEF LaunchReset, ResetStep
<1>13. CASE Crash
  BY <1>13 DEF Crash, CrashStep
<1>14. ASSUME NEW r \in Response, Answer(r) PROVE OtherStep
  <2>1. thread \in Thread
    BY DEF IInv, TypeOK
  <2> QED BY <1>14, <2>1 DEF Answer, OtherStep, Kept, Thread
<1> QED BY <1>1, <1>2, <1>3, <1>4, <1>5, <1>6, <1>7, <1>8, <1>9, <1>10, <1>11,
           <1>12, <1>13, <1>14 DEF Next, Work

-----------------------------------------------------------------------------
(* Approval *)

\* A node that acts on the world runs only when an approval is on disk, and no
\* approval on disk is missing in memory.
ApprovalInv ==
  /\ thread.next \notin {"planner", "coder"} => saved.plan_approved
  /\ saved.plan_approved => thread.plan_approved
  /\ ApprovalIsDurable

LEMMA InitialFields ==
  /\ InitialThread.next = "planner" /\ InitialThread.plan_approved = FALSE
  /\ InitialThread.todo_tasks = <<>> /\ InitialThread.completed_tasks = <<>>
  /\ InitialThread.plan = <<>>
BY DEF InitialThread

LEMMA FaultsCount ==
  ASSUME TypeOK PROVE faults.resets \in Nat /\ faults.git \in Nat /\ faults.crashes \in Nat
<1>1. /\ faults.resets \in 0..MaxResets /\ faults.git \in 0..MaxGitFailures
      /\ faults.crashes \in 0..MaxCrashes
  BY DEF TypeOK
<1> QED BY <1>1, FaultsAssumption

\* What a step adds to the faults.
LEMMA FaultsGrow ==
  ASSUME TypeOK
  PROVE  /\ ResetStep => faults'.resets # 0
         /\ faults' = [faults EXCEPT !.git = @ + 1] =>
              /\ faults'.git # 0
              /\ faults'.resets = faults.resets /\ faults'.crashes = faults.crashes
         /\ CrashStep => /\ faults'.crashes # 0
                         /\ faults'.resets = faults.resets /\ faults'.git = faults.git
<1>1. faults.resets \in Nat /\ faults.git \in Nat /\ faults.crashes \in Nat
  BY FaultsCount
<1> QED BY <1>1 DEF TypeOK, ResetStep, CommitStep, CrashStep, World

LEMMA NextApprovalInv ==
  ASSUME IInv, ApprovalInv, [Next]_vars PROVE ApprovalInv'
<1> USE DEF ApprovalInv, ApprovalIsDurable, Kept, Returns, World
<1>0. PlannerIsFirst(thread) /\ PlannerIsFirst(saved) /\ TypeOK
  BY DEF IInv, ThreadInv
<1>1. CASE PlannerStep
  BY <1>0, <1>1 DEF PlannerStep, PlannerIsFirst
<1>2. CASE WorkStep
  BY <1>0, <1>2 DEF WorkStep, PlannerIsFirst
<1>3. CASE FilesStep
  BY <1>0, <1>3 DEF FilesStep, PlannerIsFirst
<1>4. CASE CommitStep
  BY <1>0, <1>4, FaultsGrow DEF CommitStep, PlannerIsFirst
<1>5. CASE QueueStep
  BY <1>0, <1>5 DEF QueueStep, PlannerIsFirst
<1>6. CASE WriteStep
  BY <1>0, <1>6 DEF WriteStep, PlannerIsFirst
<1>7. CASE ResetStep
  BY <1>0, <1>7, FaultsGrow, InitialFields DEF ResetStep
<1>8. CASE CrashStep
  BY <1>0, <1>8, FaultsGrow DEF CrashStep, PlannerIsFirst
<1>9. CASE OtherStep
  BY <1>0, <1>9 DEF OtherStep
<1> QED BY <1>1, <1>2, <1>3, <1>4, <1>5, <1>6, <1>7, <1>8, <1>9, Steps

LEMMA ApprovalInvariance == Spec => []ApprovalInv
<1>1. Init => ApprovalInv
  BY InitialFields DEF Init, ApprovalInv, ApprovalIsDurable
<1> QED BY <1>1, NextApprovalInv, Invariance, PTL DEF Spec

\* No execution, whatever crashes and is executed again, has touched files or
\* made a commit while a crash could still bring the planning back.
THEOREM ApprovalIsDurableHolds == Spec => []ApprovalIsDurable
<1>1. ApprovalInv => ApprovalIsDurable
  BY DEF ApprovalInv
<1> QED BY <1>1, ApprovalInvariance, PTL

-----------------------------------------------------------------------------
(* Commits *)

\* While nothing is left behind, the changes in the tree are those of the task
\* whose turn it is in memory and on disk; where the two differ, there are
\* none.  A commit has been tried where the queue manager has worked.
TreeInv ==
  /\ thread.next \notin {"planner", "coder", "END"} =>
       saved.todo_tasks = thread.todo_tasks
  /\ NothingLeftBehind =>
       /\ tree \subseteq {CurrentTask(thread)}
       /\ tree \subseteq {CurrentTask(saved)}
       /\ phase = "worked" /\ thread.next = "queue_manager" =>
            tree = {} \/ thread.todo_tasks = <<>>
  /\ CommitIsPure

\* The task depends on the queue only.
LEMMA SameTask ==
  ASSUME NEW a, NEW b, a.todo_tasks = b.todo_tasks
  PROVE  CurrentTask(a) = CurrentTask(b)
BY DEF CurrentTask

\* A commit of what is in the tree is pure.
LEMMA CommitKeepsPure ==
  ASSUME IInv, TreeInv, CommitStep PROVE CommitIsPure'
<1> USE DEF World
<1>1. TypeOK
  BY DEF IInv
<1>2. CASE UNCHANGED <<commits, faults>>
  BY <1>2 DEF TreeInv, CommitIsPure, NothingLeftBehind
<1>3. CASE /\ tree # {}
           /\ commits' = Append(commits, [task |-> CurrentTask(thread), work |-> tree])
           /\ UNCHANGED faults
  <2> SUFFICES ASSUME NothingLeftBehind, NEW i \in 1..Len(commits')
               PROVE  commits'[i].work = {commits'[i].task}
    BY <1>3 DEF CommitIsPure, NothingLeftBehind
  <2> DEFINE new == [task |-> CurrentTask(thread), work |-> tree]
  <2>1. new.work = {new.task}
    BY <1>3 DEF TreeInv
  <2>2. commits \in Seq([task : Tasks, work : SUBSET (Tasks \cup {Unknown})])
    BY <1>1 DEF TypeOK
  <2> HIDE DEF new
  <2>3. commits' = Append(commits, new) /\ Len(commits) \in Nat
    BY <1>3, <2>2, LenProperties DEF new
  <2>4. Len(commits') = Len(commits) + 1
    BY <2>2, <2>3
  <2>5. CASE i = Len(commits) + 1
    BY <2>1, <2>2, <2>3, <2>5
  <2>6. CASE i # Len(commits) + 1
    <3>1. i \in 1..Len(commits)
      BY <2>3, <2>4, <2>6
    <3>2. commits'[i] = commits[i]
      BY <2>2, <2>3, <3>1
    <3> QED BY <3>1, <3>2 DEF TreeInv, CommitIsPure
  <2> QED BY <2>5, <2>6
<1>4. CASE faults'.git # 0
  BY <1>4 DEF CommitIsPure, NothingLeftBehind
<1> QED BY <1>1, <1>2, <1>3, <1>4, FaultsGrow DEF CommitStep

LEMMA NextTreeInv ==
  ASSUME IInv, ApprovalInv, TreeInv, [Next]_vars PROVE TreeInv'
<1> USE DEF Kept, Returns, World, NothingLeftBehind
<1>0. TypeOK
  BY DEF IInv
<1>1. CASE PlannerStep
  <2>1. ~saved.plan_approved
    BY <1>1 DEF IInv, ThreadInv, PlannerIsFirst, PlannerStep
  <2>2. NothingLeftBehind => tree = {}
    BY <2>1 DEF ApprovalInv, ApprovalIsDurable
  <2> QED BY <1>1, <2>2 DEF TreeInv, CommitIsPure, PlannerStep
<1>2. CASE WorkStep
  <2>1. CurrentTask(thread') = CurrentTask(thread)
    BY <1>2, SameTask DEF WorkStep
  <2> QED BY <1>2, <2>1 DEF TreeInv, CommitIsPure, WorkStep
<1>3. CASE FilesStep
  <2>1. CurrentTask(saved) = CurrentTask(thread)
    BY <1>3, SameTask DEF TreeInv, FilesStep
  <2> QED BY <1>3, <2>1 DEF TreeInv, CommitIsPure, FilesStep
<1>4. CASE CommitStep
  <2>1. CommitIsPure'
    BY <1>4, CommitKeepsPure
  <2>2. thread' = thread /\ saved' = saved /\ thread.next = "queue_manager"
    BY <1>4 DEF CommitStep
  <2>3. \/ faults'.git # 0
        \/ /\ faults' = faults
           /\ tree' = {} \/ (tree' = tree /\ thread.todo_tasks = <<>>)
    <3>1. CASE faults' = [faults EXCEPT !.git = @ + 1]
      BY <1>0, <3>1, FaultsGrow
    <3>2. CASE faults' # [faults EXCEPT !.git = @ + 1]
      BY <1>4, <3>2 DEF CommitStep
    <3> QED BY <3>1, <3>2
  <2> QED BY <2>1, <2>2, <2>3 DEF TreeInv
<1>5. CASE QueueStep
  <2>1. CASE thread.todo_tasks = <<>>
    <3>1. CurrentTask(thread') = CurrentTask(thread)
      BY <1>5, <2>1, SameTask DEF QueueStep
    <3> QED BY <1>5, <2>1, <3>1 DEF TreeInv, CommitIsPure, QueueStep
  <2>2. CASE thread.todo_tasks # <<>>
    BY <1>5, <2>2 DEF TreeInv, CommitIsPure, QueueStep
  <2> QED BY <2>1, <2>2
<1>6. CASE WriteStep
  BY <1>6 DEF TreeInv, CommitIsPure, WriteStep
<1>7. CASE ResetStep
  <2>1. thread'.next = "planner"
    BY <1>7, InitialFields DEF ResetStep
  <2> QED BY <1>0, <1>7, <2>1, FaultsGrow DEF TreeInv, CommitIsPure
<1>8. CASE CrashStep
  BY <1>0, <1>8, FaultsGrow DEF TreeInv, CommitIsPure, CrashStep
<1>9. CASE OtherStep
  <2>1. CurrentTask(thread') = CurrentTask(thread)
    BY <1>9, SameTask DEF OtherStep
  <2> QED BY <1>9, <2>1 DEF TreeInv, CommitIsPure, OtherStep
<1> QED BY <1>1, <1>2, <1>3, <1>4, <1>5, <1>6, <1>7, <1>8, <1>9, Steps

LEMMA InitTreeInv == Init => TreeInv
<1> SUFFICES ASSUME Init PROVE TreeInv
  OBVIOUS
<1>1. Len(commits) = 0
  BY DEF Init
<1>2. CommitIsPure
  BY <1>1 DEF CommitIsPure
<1> QED BY <1>2, InitialFields DEF Init, TreeInv

LEMMA TreeInvariance == Spec => []TreeInv
BY InitTreeInv, NextTreeInv, Invariance, ApprovalInvariance, PTL DEF Spec

\* Without resets and failures of git, each commit of every execution holds the
\* changes of the task it names, after any number of crashes between the
\* commit, the node's return and its checkpoint.
THEOREM CommitIsPureHolds == Spec => []CommitIsPure
<1>1. TreeInv => CommitIsPure
  BY DEF TreeInv
<1> QED BY <1>1, TreeInvariance, PTL

-----------------------------------------------------------------------------
(* Ids of a plan *)

\* What is completed, and the front of the queue, are steps of the plan.
LEMMA TasksAreSteps ==
  ASSUME NEW th \in Thread, th.plan_approved, QueueOrderOf(th), th.todo_tasks # <<>>
  PROVE  /\ \A i \in 1..Len(th.completed_tasks) :
              i \in 1..Len(th.plan) /\ th.plan[i].id = th.completed_tasks[i]
         /\ Len(th.completed_tasks) + 1 \in 1..Len(th.plan)
         /\ th.plan[Len(th.completed_tasks) + 1].id = Head(th.todo_tasks)
<1> DEFINE done == th.completed_tasks
           todo == th.todo_tasks
           m == Len(done) + 1
<1>1. done \in Seq(Tasks) /\ todo \in Seq(Tasks) /\ th.plan \in Seq(Doc)
  BY DEF Thread
<1>2. done \o todo = StepIds(th.plan) /\ Len(StepIds(th.plan)) = Len(th.plan)
  BY <1>1, StepIdsType DEF QueueOrderOf
<1>3. Len(done) \in Nat /\ Len(todo) \in Nat /\ Len(todo) # 0
  BY <1>1, LenProperties, EmptySeq
<1>4. todo[1] = Head(todo)
  OBVIOUS
<1> HIDE DEF done, todo
<1>5. Len(done \o todo) = Len(done) + Len(todo)
  BY <1>1
<1>6. m \in 1..Len(th.plan) /\ \A i \in 1..Len(done) : i \in 1..Len(th.plan)
  BY <1>2, <1>3, <1>5
<1>7. (done \o todo)[m] = Head(todo) /\ \A i \in 1..Len(done) : (done \o todo)[i] = done[i]
  BY <1>1, <1>3, <1>4
<1>8. \A i \in 1..Len(th.plan) : StepIds(th.plan)[i] = th.plan[i].id
  BY DEF StepIds
<1> HIDE DEF m
<1>9. th.plan[m].id = Head(todo)
  BY <1>2, <1>6, <1>7, <1>8
<1>10. ASSUME NEW i \in 1..Len(done) PROVE th.plan[i].id = done[i]
  BY <1>2, <1>6, <1>7, <1>8
<1> QED BY <1>6, <1>9, <1>10 DEF done, todo, m

\* In a plan with distinct ids the front of the queue is not completed.
LEMMA FrontIsNotDone ==
  ASSUME NEW th \in Thread, th.plan_approved, QueueOrderOf(th),
         DistinctIds(th.plan), th.todo_tasks # <<>>,
         NEW i \in 1..Len(th.completed_tasks)
  PROVE  th.completed_tasks[i] # Head(th.todo_tasks)
<1> DEFINE m == Len(th.completed_tasks) + 1
<1>1. th.completed_tasks \in Seq(Tasks)
  BY DEF Thread
<1>2. i # m
  BY <1>1, LenProperties
<1>3. /\ i \in 1..Len(th.plan) /\ th.plan[i].id = th.completed_tasks[i]
      /\ m \in 1..Len(th.plan) /\ th.plan[m].id = Head(th.todo_tasks)
  BY TasksAreSteps
<1> HIDE DEF m
<1> QED BY <1>2, <1>3 DEF DistinctIds

\* ... and on disk a completed task has left nothing in the tree.
THEOREM CompletedIsCommittedHolds == Spec => []CompletedIsCommitted
<1>1. ASSUME IInv, TreeInv PROVE CompletedIsCommitted
  <2> SUFFICES ASSUME NothingLeftBehind, DistinctIds(saved.plan),
                      NEW i \in 1..Len(saved.completed_tasks)
               PROVE  saved.completed_tasks[i] \notin tree
    BY DEF CompletedIsCommitted
  <2>1. saved \in Thread /\ QueueOrderOf(saved)
    BY <1>1 DEF IInv, ThreadInv
  <2>2. saved.completed_tasks \in Seq(Tasks)
    BY <2>1 DEF Thread
  <2>3. saved.completed_tasks[i] \in Tasks
    BY <2>2, ElementOfSeq
  <2>4. tree \subseteq {CurrentTask(saved)}
    BY <1>1 DEF TreeInv
  <2>5. CASE saved.todo_tasks = <<>>
    BY <2>3, <2>4, <2>5, UnknownAssumption DEF CurrentTask
  <2>6. CASE saved.todo_tasks # <<>>
    <3>1. saved.plan_approved
      BY <2>1, <2>6 DEF QueueOrderOf
    <3>2. saved.completed_tasks[i] # Head(saved.todo_tasks)
      BY <2>1, <2>6, <3>1, FrontIsNotDone
    <3> QED BY <2>4, <2>6, <3>2 DEF CurrentTask
  <2> QED BY <2>5, <2>6
<1> QED BY <1>1, Invariance, TreeInvariance, PTL

-----------------------------------------------------------------------------
(* The abstract specification *)

Stage(th) == IF th.next = "END" THEN "ended"
             ELSE IF th.plan_approved THEN "working" ELSE "planning"

\* b is where TaskQueue is, or may be one step later, when it is in a.
SameGoal(a, b) ==
  /\ Stage(b) = Stage(a) /\ StepIds(b.plan) = StepIds(a.plan)
  /\ b.todo_tasks = a.todo_tasks /\ b.completed_tasks = a.completed_tasks
Approved(a, b) ==
  /\ Stage(a) = "planning" /\ Stage(b) = "working"
  /\ b.plan \in Drafts
  /\ b.todo_tasks = StepIds(b.plan) /\ b.completed_tasks = a.completed_tasks
Finished(a, b) ==
  /\ Stage(a) = "working" /\ a.todo_tasks # <<>>
  /\ b.completed_tasks = Append(a.completed_tasks, Head(a.todo_tasks))
  /\ b.todo_tasks = Tail(a.todo_tasks)
  /\ Stage(b) = IF b.todo_tasks = <<>> THEN "ended" ELSE "working"
  /\ StepIds(b.plan) = StepIds(a.plan)
Stopped(a, b) ==
  /\ Stage(a) = "working" /\ Stage(b) = "ended"
  /\ StepIds(b.plan) = StepIds(a.plan)
  /\ b.todo_tasks = a.todo_tasks /\ b.completed_tasks = a.completed_tasks

\* The thread is at most one step of TaskQueue ahead of its checkpoint.
AheadInv == \/ SameGoal(saved, thread) \/ Approved(saved, thread)
            \/ Finished(saved, thread) \/ Stopped(saved, thread)

LEMMA NextAheadInv ==
  ASSUME IInv, AheadInv, [Next]_vars PROVE AheadInv'
<1> USE DEF Kept, Returns, World
<1>0. PlannerIsFirst(thread) /\ QueueOrderOf(thread)
  BY DEF IInv, ThreadInv
<1>1. CASE PlannerStep
  <2>1. CASE thread'.next = "planner"
    BY <1>0, <1>1, <2>1 DEF PlannerStep, PlannerIsFirst, AheadInv, SameGoal, Stage
  <2>2. CASE thread'.next = "coder"
    BY <1>0, <1>1, <2>2
       DEF PlannerStep, PlannerIsFirst, QueueOrderOf, AheadInv, Approved, Stage
  <2> QED BY <1>1, <2>1, <2>2 DEF PlannerStep
<1>2. CASE WorkStep
  BY <1>0, <1>2 DEF WorkStep, PlannerIsFirst, AheadInv, SameGoal, Stopped, Stage
<1>3. CASE QueueStep
  <2>1. CASE thread.todo_tasks = <<>>
    BY <1>0, <1>3, <2>1 DEF QueueStep, PlannerIsFirst, AheadInv, Stopped, Stage
  <2>2. CASE thread.todo_tasks # <<>>
    BY <1>0, <1>3, <2>2 DEF QueueStep, PlannerIsFirst, AheadInv, Finished, Stage
  <2> QED BY <2>1, <2>2
<1>4. CASE FilesStep \/ CommitStep
  BY <1>4 DEF FilesStep, CommitStep, AheadInv
<1>5. CASE WriteStep \/ ResetStep \/ CrashStep
  BY <1>5 DEF WriteStep, ResetStep, CrashStep, AheadInv, SameGoal
<1>6. CASE OtherStep
  BY <1>6 DEF OtherStep, AheadInv, SameGoal, Approved, Finished, Stopped, Stage
<1> QED BY <1>1, <1>2, <1>3, <1>4, <1>5, <1>6, Steps

\* A step that makes no commit and keeps the plan on disk, of which not less is
\* completed.
LEMMA QuietFollowsPlan ==
  ASSUME CommitsFollowPlan, UNCHANGED commits, faults'.resets = 0 => faults.resets = 0,
         saved \in Thread, saved' \in Thread, StepIds(saved'.plan) = StepIds(saved.plan),
         Len(saved'.completed_tasks) >= Len(saved.completed_tasks)
  PROVE  CommitsFollowPlan'
<1> SUFFICES ASSUME faults'.resets = 0
             PROVE  \E step \in [1..Len(commits) -> 1..Len(saved'.plan)] : FollowPlan(step)'
  BY DEF CommitsFollowPlan
<1>1. PICK step \in [1..Len(commits) -> 1..Len(saved.plan)] : FollowPlan(step)
  BY DEF CommitsFollowPlan
<1>2. /\ Len(saved'.completed_tasks) \in Nat /\ Len(saved.completed_tasks) \in Nat
      /\ saved.plan \in Seq(Doc) /\ saved'.plan \in Seq(Doc)
  BY LenProperties DEF Thread
<1>3. Len(saved'.plan) = Len(saved.plan)
  BY <1>2, StepIdsType
<1>4. ASSUME NEW k \in 1..Len(saved.plan) PROVE saved'.plan[k].id = saved.plan[k].id
  <2>1. StepIds(saved.plan)[k] = saved.plan[k].id /\ StepIds(saved'.plan)[k] = saved'.plan[k].id
    BY <1>3 DEF StepIds
  <2> QED BY <2>1
<1>5. \A i \in 1..Len(commits) : step[i] \in 1..Len(saved.plan)
  OBVIOUS
<1>6. ASSUME NEW i \in 1..Len(commits)
      PROVE  /\ commits[i].task = saved'.plan[step[i]].id
             /\ commits[i].work \subseteq {saved'.plan[k].id : k \in 1..step[i]}
             /\ step[i] <= Len(saved'.completed_tasks) + 1
  <2>1. /\ commits[i].task = saved.plan[step[i]].id
        /\ commits[i].work \subseteq {saved.plan[k].id : k \in 1..step[i]}
        /\ step[i] <= Len(saved.completed_tasks) + 1
    BY <1>1 DEF FollowPlan
  <2>2. step[i] \in 1..Len(saved.plan) /\ Len(saved.plan) \in Nat
    BY <1>2, <1>5, LenProperties
  <2>3. \A k \in 1..step[i] : k \in 1..Len(saved.plan)
    BY <2>2
  <2>4. {saved.plan[k].id : k \in 1..step[i]} \subseteq {saved'.plan[k].id : k \in 1..step[i]}
    BY <1>4, <2>3
  <2>5. step[i] <= Len(saved'.completed_tasks) + 1
    BY <1>2, <2>1, <2>2
  <2>6. commits[i].work \subseteq {saved'.plan[k].id : k \in 1..step[i]}
    BY <2>1, <2>4
  <2>7. commits[i].task = saved'.plan[step[i]].id
    BY <1>4, <2>1, <2>2
  <2> QED BY <2>5, <2>6, <2>7
<1>7. FollowPlan(step)'
  BY <1>1, <1>6 DEF FollowPlan
<1> QED BY <1>3, <1>7

\* Until a reset, the changes in the tree are those of tasks that are completed
\* on disk or whose turn it is there, whichever commits have failed.
Begun(th) ==
  {th.completed_tasks[i] : i \in 1..Len(th.completed_tasks)} \cup {CurrentTask(th)}
BegunInv == faults.resets = 0 => tree \subseteq Begun(saved)

\* A step finished on disk stays begun.
LEMMA BegunGrows ==
  ASSUME NEW a \in Thread, NEW b \in Thread, Finished(a, b)
  PROVE  Begun(a) \subseteq Begun(b)
<1>1. a.completed_tasks \in Seq(Tasks) /\ a.todo_tasks \in Seq(Tasks)
  BY DEF Thread
<1>2. Len(a.completed_tasks) \in Nat /\ Head(a.todo_tasks) \in Tasks
  BY <1>1, LenProperties, HeadTailProperties DEF Finished
<1> DEFINE n == Len(a.completed_tasks)
<1>3. /\ Len(b.completed_tasks) = n + 1
      /\ b.completed_tasks[n + 1] = Head(a.todo_tasks)
      /\ \A i \in 1..n : b.completed_tasks[i] = a.completed_tasks[i]
  BY <1>1, <1>2 DEF Finished
<1>4. n + 1 \in 1..(n + 1) /\ \A i \in 1..n : i \in 1..(n + 1)
  BY <1>2
<1>5. CurrentTask(a) = Head(a.todo_tasks)
  BY DEF CurrentTask, Finished
<1> HIDE DEF n
<1>6. ASSUME NEW i \in 1..n PROVE a.completed_tasks[i] \in Begun(b)
  BY <1>3, <1>4 DEF Begun
<1>7. CurrentTask(a) \in Begun(b)
  BY <1>3, <1>4, <1>5 DEF Begun
<1> QED BY <1>6, <1>7 DEF Begun, n

LEMMA NextBegunInv ==
  ASSUME IInv, IInv', ApprovalInv, TreeInv, AheadInv, BegunInv, [Next]_vars
  PROVE  BegunInv'
<1> USE DEF Returns, World
<1>0. TypeOK /\ saved \in Thread /\ saved' \in Thread
  BY DEF IInv, TypeOK
<1>1. CASE FilesStep
  <2>1. CurrentTask(thread) = CurrentTask(saved)
    BY <1>1, SameTask DEF TreeInv, FilesStep
  <2>2. CurrentTask(saved) \in Begun(saved)
    BY DEF Begun
  <2> QED BY <1>1, <2>1, <2>2 DEF BegunInv, FilesStep
<1>2. CASE CommitStep
  <2>1. faults'.resets = faults.resets /\ saved' = saved /\ tree' \in {tree, {}}
    BY <1>0, <1>2, FaultsGrow DEF CommitStep
  <2> QED BY <2>1 DEF BegunInv
<1>3. CASE WriteStep
  <2>1. saved' = thread /\ UNCHANGED <<tree, faults>>
    BY <1>3 DEF WriteStep
  <2>2. CASE SameGoal(saved, thread) \/ Stopped(saved, thread)
    <3>1. Begun(thread) = Begun(saved)
      BY <2>2, SameTask DEF Begun, SameGoal, Stopped
    <3> QED BY <2>1, <3>1 DEF BegunInv
  <2>3. CASE Finished(saved, thread)
    BY <1>0, <2>1, <2>3, BegunGrows DEF BegunInv
  <2>4. CASE Approved(saved, thread)
    <3>1. ~saved.plan_approved
      BY <2>4 DEF Approved, Stage
    <3> QED BY <2>1, <3>1 DEF ApprovalInv, ApprovalIsDurable, BegunInv
  <2> QED BY <2>2, <2>3, <2>4 DEF AheadInv
<1>4. CASE ResetStep
  BY <1>0, <1>4, FaultsGrow DEF BegunInv
<1>5. CASE PlannerStep \/ WorkStep \/ QueueStep \/ CrashStep \/ OtherStep
  <2>1. saved' = saved /\ tree' = tree /\ faults'.resets = faults.resets
    BY <1>0, <1>5, FaultsGrow DEF PlannerStep, WorkStep, QueueStep, CrashStep, OtherStep
  <2> QED BY <2>1 DEF BegunInv
<1> QED BY <1>1, <1>2, <1>3, <1>4, <1>5, Steps

\* What the queue manager commits is the step whose turn it is on disk, with
\* changes of it and of earlier steps.
LEMMA CommitFollowsPlan ==
  ASSUME IInv, ApprovalInv, TreeInv, BegunInv, CommitsFollowPlan, CommitStep
  PROVE  CommitsFollowPlan'
<1> USE DEF World
<1>0. TypeOK /\ saved \in Thread /\ QueueOrderOf(saved)
  BY DEF IInv, ThreadInv
<1>1. CASE UNCHANGED commits
  <2>1. faults'.resets = faults.resets /\ saved' = saved
    BY <1>0, FaultsGrow DEF CommitStep
  <2>2. Len(saved.completed_tasks) \in Nat
    BY <1>0, LenProperties DEF Thread
  <2> QED BY <1>0, <1>1, <2>1, <2>2, QuietFollowsPlan
<1>2. CASE /\ thread.todo_tasks # <<>>
           /\ commits' = Append(commits, [task |-> CurrentTask(thread), work |-> tree])
           /\ UNCHANGED faults
  <2> DEFINE new == [task |-> CurrentTask(thread), work |-> tree]
             n == Len(commits)
             m == Len(saved.completed_tasks) + 1
  <2>1. /\ saved' = saved /\ saved.plan_approved
        /\ saved.todo_tasks = thread.todo_tasks
    BY DEF CommitStep, ApprovalInv, TreeInv
  <2>2. /\ m \in 1..Len(saved.plan) /\ saved.plan[m].id = new.task
        /\ \A i \in 1..Len(saved.completed_tasks) :
             saved.plan[i].id = saved.completed_tasks[i]
    BY <1>0, <1>2, <2>1, TasksAreSteps DEF CurrentTask
  <2>3. commits \in Seq([task : Tasks, work : SUBSET (Tasks \cup {Unknown})])
    BY <1>0 DEF TypeOK
  <2>4. n \in Nat /\ m \in Nat
    <3>1. saved.completed_tasks \in Seq(Tasks)
      BY <1>0 DEF Thread
    <3> QED BY <2>3, <3>1, LenProperties
  <2> SUFFICES ASSUME faults.resets = 0
               PROVE  \E step \in [1..Len(commits') -> 1..Len(saved.plan)] : FollowPlan(step)'
    BY <1>2, <2>1 DEF CommitsFollowPlan
  <2>15. new.work \subseteq {saved.plan[k].id : k \in 1..m}
    <3> DEFINE ids == {saved.plan[k].id : k \in 1..m}
    <3>1. m \in 1..m /\ \A i \in 1..Len(saved.completed_tasks) : i \in 1..m
      BY <2>4
    <3>2. CurrentTask(saved) = new.task
      BY <2>1, SameTask
    <3>3. Begun(saved) \subseteq ids
      <4> HIDE DEF m, new
      <4> QED BY <2>2, <3>1, <3>2 DEF Begun
    <3> QED BY <3>3 DEF BegunInv
  <2>5. PICK step \in [1..n -> 1..Len(saved.plan)] : FollowPlan(step)
    BY DEF CommitsFollowPlan
  <2> DEFINE extended == [i \in 1..(n + 1) |-> IF i = n + 1 THEN m ELSE step[i]]
  <2>6. \A i \in 1..n : step[i] \in 1..Len(saved.plan) /\ step[i] \in Nat
    BY <2>5
  <2> HIDE DEF new
  <2>7. /\ Len(commits') = n + 1 /\ commits'[n + 1] = new
        /\ \A i \in 1..n : commits'[i] = commits[i]
    BY <1>2, <2>3, <2>4 DEF new
  <2>8. /\ \A i \in 1..n :
             /\ commits[i].task = saved.plan[step[i]].id
             /\ commits[i].work \subseteq {saved.plan[k].id : k \in 1..step[i]}
             /\ step[i] <= m
        /\ \A i, j \in 1..n : i <= j => step[i] <= step[j]
    BY <2>5 DEF FollowPlan
  <2> HIDE DEF n, m
  <2>9. \A i \in 1..(n + 1) : i = n + 1 \/ i \in 1..n
    BY <2>4
  <2>10. extended \in [1..(n + 1) -> 1..Len(saved.plan)]
    BY <2>2, <2>6, <2>9
  <2>11. extended[n + 1] = m /\ \A i \in 1..n : extended[i] = step[i]
    BY <2>4
  <2> HIDE DEF extended
  <2> PICK longer \in [1..(n + 1) -> 1..Len(saved.plan)] : longer = extended
    BY <2>10
  <2>12. ASSUME NEW i \in 1..(n + 1)
         PROVE  /\ commits'[i].task = saved.plan[longer[i]].id
                /\ commits'[i].work \subseteq {saved.plan[k].id : k \in 1..longer[i]}
                /\ longer[i] <= m
    <3>1. CASE i = n + 1
      BY <2>2, <2>4, <2>7, <2>11, <2>15, <3>1
    <3>2. CASE i \in 1..n
      BY <2>7, <2>8, <2>11, <3>2
    <3> QED BY <2>9, <3>1, <3>2
  <2>13. ASSUME NEW i \in 1..(n + 1), NEW j \in 1..(n + 1), i <= j
         PROVE  longer[i] <= longer[j]
    <3>1. CASE j = n + 1
      BY <2>11, <2>12, <3>1
    <3>2. CASE j \in 1..n
      <4>1. i \in 1..n
        BY <2>4, <2>13, <3>2
      <4> QED BY <2>8, <2>11, <2>13, <3>2, <4>1
    <3> QED BY <2>9, <3>1, <3>2
  <2>14. FollowPlan(longer)'
    BY <2>1, <2>7, <2>12, <2>13 DEF FollowPlan, m
  <2> QED BY <2>7, <2>14
<1> QED BY <1>1, <1>2 DEF CommitStep

LEMMA NextFollowsPlan ==
  ASSUME IInv, IInv', ApprovalInv, TreeInv, AheadInv, BegunInv, CommitsFollowPlan,
         [Next]_vars
  PROVE  CommitsFollowPlan'
<1> USE DEF Returns, World
<1>0. /\ TypeOK /\ saved \in Thread /\ saved' \in Thread
      /\ saved.completed_tasks \in Seq(Tasks) /\ saved.todo_tasks \in Seq(Tasks)
      /\ Len(saved.completed_tasks) \in Nat
  BY LenProperties DEF IInv, TypeOK, Thread
<1>1. CASE CommitStep
  BY <1>1, CommitFollowsPlan
<1>2. CASE ResetStep
  BY <1>0, <1>2, FaultsGrow DEF CommitsFollowPlan
<1>3. CASE WriteStep
  <2>1. saved' = thread /\ UNCHANGED <<commits, faults>>
    BY <1>3 DEF WriteStep
  <2>2. CASE SameGoal(saved, thread) \/ Stopped(saved, thread)
    BY <1>0, <2>1, <2>2, QuietFollowsPlan DEF SameGoal, Stopped
  <2>3. CASE Finished(saved, thread)
    <3>1. Head(saved.todo_tasks) \in Tasks
      BY <1>0, <2>3, HeadTailProperties DEF Finished
    <3>2. Len(thread.completed_tasks) = Len(saved.completed_tasks) + 1
      BY <1>0, <2>3, <3>1 DEF Finished
    <3> QED BY <1>0, <2>1, <2>3, <3>2, QuietFollowsPlan DEF Finished
  <2>4. CASE Approved(saved, thread)
    <3> SUFFICES ASSUME faults.resets = 0 PROVE CommitsFollowPlan'
      BY <2>1 DEF CommitsFollowPlan
    <3>1. ~saved.plan_approved
      BY <2>4 DEF Approved, Stage
    <3>2. commits = <<>>
      BY <3>1 DEF ApprovalInv, ApprovalIsDurable
    <3>3. Len(commits') = 0
      BY <2>1, <3>2
    <3> DEFINE none == [i \in 1..0 |-> 1]
    <3>4. none \in [1..0 -> 1..Len(saved'.plan)]
      OBVIOUS
    <3>5. FollowPlan(none)'
      BY <3>3 DEF FollowPlan
    <3> QED BY <3>3, <3>4, <3>5 DEF CommitsFollowPlan
  <2> QED BY <2>2, <2>3, <2>4 DEF AheadInv
<1>4. CASE PlannerStep \/ WorkStep \/ FilesStep \/ QueueStep \/ CrashStep \/ OtherStep
  <2>1. saved' = saved /\ UNCHANGED commits /\ faults'.resets = faults.resets
    BY <1>0, <1>4, FaultsGrow
       DEF PlannerStep, WorkStep, FilesStep, QueueStep, CrashStep, OtherStep
  <2> QED BY <1>0, <2>1, QuietFollowsPlan
<1> QED BY <1>1, <1>2, <1>3, <1>4, Steps

\* The facts about plan and commits on which the theorems below rest.
PlanInv == AheadInv /\ BegunInv /\ CommitsFollowPlan
LEMMA PlanInvariance == Spec => []PlanInv
<1>1. Init => AheadInv
  BY DEF Init, AheadInv, SameGoal
<1>2. Init => BegunInv
  BY DEF Init, BegunInv
<1>3. Init => CommitsFollowPlan
  <2> SUFFICES ASSUME Init PROVE CommitsFollowPlan
    OBVIOUS
  <2>1. Len(commits) = 0
    BY DEF Init
  <2> DEFINE none == [i \in 1..0 |-> 1]
  <2>2. none \in [1..0 -> 1..Len(saved.plan)]
    OBVIOUS
  <2>3. FollowPlan(none)
    BY <2>1 DEF FollowPlan
  <2> QED BY <2>1, <2>2, <2>3 DEF CommitsFollowPlan
<1>4. ASSUME IInv, IInv', ApprovalInv, TreeInv, PlanInv, [Next]_vars PROVE PlanInv'
  BY <1>4, NextAheadInv, NextBegunInv, NextFollowsPlan DEF PlanInv
<1>5. Init => PlanInv
  BY <1>1, <1>2, <1>3 DEF PlanInv
<1> QED BY <1>4, <1>5, Invariance, ApprovalInvariance, TreeInvariance, PTL DEF Spec

\* For plans of any length, with or without distinct ids, the commits name the
\* steps of the plan in its order, after any number of crashes and failures of
\* git: none is for a step that is still to come, none goes back, and none
\* holds changes of a later step.
THEOREM CommitsFollowPlanHolds == Spec => []CommitsFollowPlan
<1>1. PlanInv => CommitsFollowPlan
  BY DEF PlanInv
<1> QED BY <1>1, PlanInvariance, PTL

\* The checkpoint changes only when it is written or deleted: by what the
\* thread is ahead, or to where a goal begins.
LEMMA SavedSteps ==
  ASSUME IInv, AheadInv, [Next]_vars PROVE [Queue!Next]_(Queue!vars)
<1> USE DEF Returns, World
<1>1. CASE saved' = saved
  BY <1>1 DEF Queue!vars
<1>2. CASE WriteStep
  <2>1. saved' = thread
    BY <1>2 DEF WriteStep
  <2>2. CASE SameGoal(saved, thread)
    BY <2>1, <2>2 DEF SameGoal, Stage, Queue!vars
  <2>3. CASE Approved(saved, thread)
    <3>1. StepIds(thread.plan) \in {StepIds(d) : d \in Drafts}
      BY <2>3 DEF Approved
    <3>2. Queue!Approve(StepIds(thread.plan))
      BY <2>1, <2>3 DEF Approved, Stage, Queue!Approve
    <3> QED BY <3>1, <3>2 DEF Queue!Next
  <2>4. CASE Finished(saved, thread)
    <3>1. Queue!Finish
      BY <2>1, <2>4 DEF Finished, Stage, Queue!Finish
    <3> QED BY <3>1 DEF Queue!Next
  <2>5. CASE Stopped(saved, thread)
    <3>1. Queue!Stop
      BY <2>1, <2>5 DEF Stopped, Stage, Queue!Stop
    <3> QED BY <3>1 DEF Queue!Next
  <2> QED BY <2>2, <2>3, <2>4, <2>5 DEF AheadInv
<1>3. CASE ResetStep
  <2>1. saved' = InitialThread
    BY <1>3 DEF ResetStep
  <2>2. StepIds(<<>>) = <<>>
    BY DEF StepIds
  <2>3. Queue!Restart
    BY <2>1, <2>2, InitialFields DEF Queue!Restart
  <2> QED BY <2>3 DEF Queue!Next
<1>4. CASE \/ PlannerStep \/ WorkStep \/ FilesStep \/ CommitStep \/ QueueStep
           \/ CrashStep \/ OtherStep
  BY <1>1, <1>4
     DEF PlannerStep, WorkStep, FilesStep, CommitStep, QueueStep, CrashStep, OtherStep
<1> QED BY <1>2, <1>3, <1>4, Steps

\* For every plan, whatever is retried, crashes, is executed again or reset,
\* the checkpoint goes through the steps of TaskQueue and no others: the safety
\* part of QueueSpec.
THEOREM SavedIsTaskQueue == Spec => Queue!Init /\ [][Queue!Next]_(Queue!vars)
<1>1. StepIds(<<>>) = <<>>
  BY DEF StepIds
<1>2. Init => Queue!Init
  BY <1>1, InitialFields DEF Init, Queue!Init
<1>3. Init => AheadInv
  BY DEF Init, AheadInv, SameGoal
<1>4. IInv /\ AheadInv /\ [Next]_vars => [Queue!Next]_(Queue!vars)
  BY SavedSteps
<1> QED BY <1>2, <1>3, <1>4, NextAheadInv, Invariance, PTL DEF Spec
-----------------------------------------------------------------------------
(* What is durable stays *)

\* A crash takes back at most the last step: no more than that is completed in
\* memory and not on disk.
AtMostOneStepAhead ==
  \/ thread.completed_tasks = saved.completed_tasks
  \/ /\ saved.todo_tasks # <<>>
     /\ thread.completed_tasks = Append(saved.completed_tasks, Head(saved.todo_tasks))

\* Until --reset, what is completed on disk stays completed, in a plan whose
\* steps stay what they were when it was approved, and a goal that has ended
\* stays as it is.
DurableProgress ==
  [][faults'.resets = faults.resets =>
       /\ Len(saved.completed_tasks) <= Len(saved'.completed_tasks)
       /\ \A i \in 1..Len(saved.completed_tasks) :
            saved'.completed_tasks[i] = saved.completed_tasks[i]
       /\ saved.plan_approved =>
            saved'.plan_approved /\ StepIds(saved'.plan) = StepIds(saved.plan)
       /\ saved.next = "END" => saved' = saved]_vars

\* Whatever crashes when, a step completed in memory is completed on disk, or
\* is the one whose turn it is there.
THEOREM AtMostOneStepAheadHolds == Spec => []AtMostOneStepAhead
<1>1. IInv /\ AheadInv => AtMostOneStepAhead
  <2> SUFFICES ASSUME IInv, AheadInv PROVE AtMostOneStepAhead
    OBVIOUS
  <2>1. CASE Approved(saved, thread)
    BY <2>1 DEF Approved, AtMostOneStepAhead
  <2>2. CASE Finished(saved, thread)
    BY <2>2 DEF Finished, AtMostOneStepAhead
  <2>3. CASE SameGoal(saved, thread) \/ Stopped(saved, thread)
    BY <2>3 DEF SameGoal, Stopped, AtMostOneStepAhead
  <2> QED BY <2>1, <2>2, <2>3 DEF AheadInv
<1>2. PlanInv => AheadInv
  BY DEF PlanInv
<1> QED BY <1>1, <1>2, Invariance, PlanInvariance, PTL

\* What has ended on disk has ended in memory, with nothing left to write; and
\* only the planner asks.
EndInv ==
  /\ saved.next = "END" => thread = saved
  /\ phase = "asking" => thread.next = "planner"

LEMMA NextEndInv ==
  ASSUME IInv, EndInv, [Next]_vars PROVE EndInv'
<1> USE DEF Runs, Return, EndInv, Returns, World
<1>1. CASE Flush \/ Crash \/ LaunchReset
  BY <1>1, InitialFields DEF Flush, Crash, LaunchReset
<1>2. CASE Work
  <2>1. saved' = saved
    BY <1>2 DEF Work, PlannerProposes, PlannerResumes, CoderNode, ToolsWork, ToolsEnd,
                TesterNode, QueueCommit, QueueEnd, GiveUpNode
  <2>2. thread' = thread \/ (saved = thread /\ thread.next # "END")
    BY <1>2 DEF Work, PlannerProposes, PlannerResumes, CoderNode, ToolsWork, ToolsEnd,
                TesterNode, QueueCommit, QueueEnd, GiveUpNode
  <2>3. phase' = "asking" => thread' = thread /\ thread.next = "planner"
    BY <1>2 DEF Work, PlannerProposes, PlannerResumes, CoderNode, ToolsWork, ToolsEnd,
                TesterNode, QueueCommit, QueueEnd, GiveUpNode
  <2> QED BY <2>1, <2>2, <2>3
<1>3. CASE Exit \/ Launch \/ UNCHANGED vars
  BY <1>3 DEF Exit, Launch, vars
<1>4. ASSUME NEW r \in Response, Answer(r) PROVE EndInv'
  <2>1. thread.next = "planner" /\ saved' = saved /\ phase' = "ready"
    BY <1>4 DEF Answer
  <2> QED BY <2>1
<1> QED BY <1>1, <1>2, <1>3, <1>4 DEF Next

\* No crash, re-execution or late write takes back what a checkpoint has.
THEOREM DurableProgressHolds == Spec => DurableProgress
<1>1. ASSUME IInv, IInv', AheadInv, EndInv, EndInv', [Next]_vars,
             faults'.resets = faults.resets
      PROVE  /\ Len(saved.completed_tasks) <= Len(saved'.completed_tasks)
             /\ \A i \in 1..Len(saved.completed_tasks) :
                  saved'.completed_tasks[i] = saved.completed_tasks[i]
             /\ saved.plan_approved =>
                  saved'.plan_approved /\ StepIds(saved'.plan) = StepIds(saved.plan)
             /\ saved.next = "END" => saved' = saved
  <2> USE DEF World, Returns
  <2>0. /\ TypeOK /\ saved \in Thread
        /\ saved.completed_tasks \in Seq(Tasks) /\ saved.todo_tasks \in Seq(Tasks)
        /\ Len(saved.completed_tasks) \in Nat
    BY <1>1, LenProperties DEF IInv, TypeOK, Thread
  <2>1. CASE saved' = saved
    BY <2>0, <2>1
  <2>2. CASE WriteStep
    <3>1. saved' = thread
      BY <2>2 DEF WriteStep
    <3>2. saved.next = "END" => saved' = saved
      BY <1>1, <3>1 DEF EndInv
    <3>3. saved.plan_approved =>
            saved'.plan_approved /\ StepIds(saved'.plan) = StepIds(saved.plan)
      BY <1>1, <3>1, <3>2
         DEF AheadInv, SameGoal, Approved, Finished, Stopped, Stage,
             IInv, ThreadInv, PlannerIsFirst
    <3>4. CASE thread.completed_tasks = saved.completed_tasks
      BY <2>0, <3>1, <3>2, <3>3, <3>4
    <3>5. CASE Finished(saved, thread)
      <4>1. Head(saved.todo_tasks) \in Tasks
        BY <2>0, <3>5, HeadTailProperties DEF Finished
      <4>2. /\ Len(thread.completed_tasks) = Len(saved.completed_tasks) + 1
            /\ \A i \in 1..Len(saved.completed_tasks) :
                 thread.completed_tasks[i] = saved.completed_tasks[i]
        BY <2>0, <3>5, <4>1 DEF Finished
      <4> QED BY <2>0, <3>1, <3>2, <3>3, <4>2
    <3> QED BY <1>1, <3>4, <3>5 DEF AheadInv, SameGoal, Approved, Stopped
  <2>3. CASE ResetStep
    <3>1. faults.resets \in Nat /\ faults'.resets = faults.resets + 1
      BY <2>0, <2>3, FaultsCount DEF ResetStep, TypeOK
    <3> QED BY <1>1, <3>1
  <2> QED BY <1>1, <2>1, <2>2, <2>3, Steps
          DEF PlannerStep, WorkStep, FilesStep, CommitStep, QueueStep, CrashStep, OtherStep
<1>2. Init => EndInv
  BY DEF Init, EndInv
<1>3. PlanInv => AheadInv
  BY DEF PlanInv
<1>4. Spec => []EndInv
  BY <1>2, NextEndInv, Invariance, PTL DEF Spec
<1>5. Spec => []AheadInv
  BY <1>3, PlanInvariance, PTL
<1> QED BY <1>1, <1>4, <1>5, Invariance, PTL DEF Spec, DurableProgress

-----------------------------------------------------------------------------
(* One commit for each task *)

\* Something can still be committed under the name of a task that has a commit:
\* the task's turn has come again, and its commit is not the one that the queue
\* manager has just made.
TurnAgain ==
  /\ thread.todo_tasks # <<>> /\ CurrentTask(thread) \in Committed
  /\ ~(phase = "worked" /\ thread.next = "queue_manager")
\* ... and only a crash brings a turn back.
RepeatInv ==
  faults.resets = 0 /\ DistinctIds(thread.plan) =>
    Len(commits) + One(TurnAgain) <= Cardinality(Committed) + faults.crashes

\* Nothing repeats where nothing is committed.
LEMMA NoneCommitted ==
  ASSUME TypeOK, commits = <<>> PROVE RepeatInv
<1>1. Len(commits) = 0 /\ Committed = {}
  BY DEF Committed
<1>2. One(TurnAgain) = 0
  BY <1>1 DEF TurnAgain, One
<1> QED BY <1>1, <1>2, FaultsCount, FS_EmptySet DEF RepeatInv

\* The count of the commits, and of the tasks they name.
LEMMA CommittedCount ==
  ASSUME TypeOK PROVE /\ Len(commits) \in Nat /\ IsFiniteSet(Committed)
                      /\ Cardinality(Committed) \in Nat
<1>1. Len(commits) \in Nat
  BY LenProperties DEF TypeOK
<1> DEFINE task == [i \in 1..Len(commits) |-> commits[i].task]
<1>2. task \in Surjection(1..Len(commits), Committed)
  BY DEF Surjection, Committed
<1>3. IsFiniteSet(Committed)
  BY <1>1, <1>2, FS_Interval, FS_Surjection
<1> QED BY <1>1, <1>3, FS_CardinalityType

\* Whether ids are distinct depends on the ids only.
LEMMA SameIdsDistinct ==
  ASSUME NEW p \in Seq(Doc), NEW q \in Seq(Doc), StepIds(p) = StepIds(q), DistinctIds(q)
  PROVE  DistinctIds(p)
<1>1. Len(p) = Len(q)
  BY StepIdsType
<1>2. ASSUME NEW i \in 1..Len(p) PROVE p[i].id = q[i].id
  <2>1. StepIds(p)[i] = p[i].id /\ StepIds(q)[i] = q[i].id
    BY <1>1 DEF StepIds
  <2> QED BY <2>1
<1> QED BY <1>1, <1>2 DEF DistinctIds

\* A step that commits nothing and gives no turn back.
LEMMA QuietRepeatInv ==
  ASSUME TypeOK, RepeatInv, UNCHANGED commits,
         faults'.resets = faults.resets, faults'.crashes = faults.crashes,
         thread'.plan = thread.plan, TurnAgain' => TurnAgain
  PROVE  RepeatInv'
<1>1. Committed' = Committed /\ Len(commits') = Len(commits)
  BY DEF Committed
<1>2. One(TurnAgain)' \in Nat /\ One(TurnAgain) \in Nat /\ One(TurnAgain)' <= One(TurnAgain)
  BY DEF One
<1>3. faults.crashes \in Nat
  BY FaultsCount
<1> HIDE DEF TurnAgain
<1>4. DistinctIds(thread.plan)' = DistinctIds(thread.plan)
  OBVIOUS
<1> QED BY <1>1, <1>2, <1>3, <1>4, CommittedCount DEF RepeatInv

\* The commit of a turn: a new task is named, or one whose turn has come again.
LEMMA CommitKeepsRepeatInv ==
  ASSUME TypeOK, RepeatInv, CommitStep PROVE RepeatInv'
<1> USE DEF World
<1>0. thread' = thread /\ ~TurnAgain'
  BY DEF CommitStep, TurnAgain
<1>1. CASE UNCHANGED commits
  <2>1. faults'.crashes = faults.crashes /\ faults'.resets = faults.resets
    BY FaultsGrow DEF CommitStep
  <2> QED BY <1>0, <1>1, <2>1, QuietRepeatInv
<1>2. CASE /\ thread.todo_tasks # <<>>
           /\ commits' = Append(commits, [task |-> CurrentTask(thread), work |-> tree])
           /\ UNCHANGED faults
  <2> DEFINE new == [task |-> CurrentTask(thread), work |-> tree]
             n == Len(commits)
  <2>1. commits \in Seq([task : Tasks, work : SUBSET (Tasks \cup {Unknown})])
    BY DEF TypeOK
  <2>2. n \in Nat /\ IsFiniteSet(Committed) /\ Cardinality(Committed) \in Nat
    BY CommittedCount
  <2>3. new.task = CurrentTask(thread)
    OBVIOUS
  <2> HIDE DEF new
  <2>4. commits' = Append(commits, new)
    BY <1>2 DEF new
  <2>5. /\ Len(commits') = n + 1 /\ commits'[n + 1] = new
        /\ \A i \in 1..n : commits'[i] = commits[i]
    BY <2>1, <2>2, <2>4
  <2>6. \A i : i \in 1..(n + 1) <=> i = n + 1 \/ i \in 1..n
    BY <2>2
  <2>7. Committed' = Committed \cup {CurrentTask(thread)}
    <3>1. Committed = {commits[i].task : i \in 1..n}
      BY DEF Committed
    <3>2. Committed' = {commits'[i].task : i \in 1..(n + 1)}
      BY <2>5 DEF Committed
    <3> HIDE DEF n
    <3> QED BY <2>3, <2>5, <2>6, <3>1, <3>2
  <2>8. One(TurnAgain)' = 0 /\ faults.crashes \in Nat
    BY <1>0, FaultsCount DEF One
  <2>9. phase # "worked"
    BY DEF CommitStep
  <2> SUFFICES ASSUME faults.resets = 0, DistinctIds(thread.plan)
               PROVE  n + 1 <= Cardinality(Committed') + faults.crashes
    BY <1>0, <1>2, <2>2, <2>5, <2>8 DEF RepeatInv
  <2>10. n + One(TurnAgain) <= Cardinality(Committed) + faults.crashes
    BY DEF RepeatInv
  <2>11. CASE CurrentTask(thread) \in Committed
    <3>1. One(TurnAgain) = 1
      BY <1>2, <2>9, <2>11 DEF One, TurnAgain
    <3>2. Committed' = Committed
      BY <2>7, <2>11
    <3> QED BY <2>10, <3>1, <3>2
  <2>12. CASE CurrentTask(thread) \notin Committed
    <3>1. Cardinality(Committed') = Cardinality(Committed) + 1
      BY <2>2, <2>7, <2>12, FS_AddElement
    <3>2. One(TurnAgain) = 0
      BY <2>12 DEF One, TurnAgain
    <3> QED BY <2>2, <2>8, <2>10, <3>1, <3>2
  <2> QED BY <2>11, <2>12
<1> QED BY <1>1, <1>2 DEF CommitStep

\* In a plan with distinct ids, the step whose turn comes next is not committed.
LEMMA NextTurnIsNew ==
  ASSUME IInv, IInv', CommitsFollowPlan, QueueStep, faults.resets = 0,
         DistinctIds(thread.plan)
  PROVE  ~TurnAgain'
<1> USE DEF World, Returns
<1> SUFFICES ASSUME thread'.todo_tasks # <<>>, CurrentTask(thread') \in Committed
             PROVE  FALSE
  BY DEF QueueStep, TurnAgain, Committed
<1>1. /\ saved = thread /\ thread'.plan = thread.plan
      /\ thread' \in Thread /\ QueueOrderOf(thread') /\ thread \in Thread
  BY DEF IInv, ThreadInv, TypeOK, QueueStep
<1>2. thread.todo_tasks # <<>>
  BY DEF QueueStep, Kept
<1> DEFINE m == Len(thread.completed_tasks) + 1
<1>3. thread.completed_tasks \in Seq(Tasks) /\ thread.todo_tasks \in Seq(Tasks)
  BY <1>1 DEF Thread
<1>4. Len(thread.completed_tasks) \in Nat /\ Head(thread.todo_tasks) \in Tasks
  BY <1>2, <1>3, LenProperties, HeadTailProperties
<1>5. Len(thread'.completed_tasks) = m
  BY <1>2, <1>3, <1>4 DEF QueueStep
<1>6. thread'.plan_approved
  BY <1>1 DEF QueueOrderOf
<1>7. /\ m + 1 \in 1..Len(thread.plan)
      /\ thread.plan[m + 1].id = CurrentTask(thread')
  BY <1>1, <1>5, <1>6, TasksAreSteps DEF CurrentTask
<1>8. PICK step \in [1..Len(commits) -> 1..Len(saved.plan)] : FollowPlan(step)
  BY DEF CommitsFollowPlan
<1>9. PICK i \in 1..Len(commits) : commits[i].task = CurrentTask(thread')
  BY DEF Committed
<1>10. /\ step[i] \in 1..Len(thread.plan)
       /\ thread.plan[step[i]].id = thread.plan[m + 1].id
       /\ step[i] <= m
  BY <1>1, <1>7, <1>8, <1>9 DEF FollowPlan
<1> HIDE DEF m
<1>11. step[i] = m + 1
  BY <1>7, <1>10 DEF DistinctIds
<1> QED BY <1>4, <1>10, <1>11 DEF m

LEMMA NextRepeatInv ==
  ASSUME IInv, IInv', ApprovalInv, PlanInv, RepeatInv, [Next]_vars PROVE RepeatInv'
<1> USE DEF Kept, Returns, World
<1>0. TypeOK /\ TypeOK' /\ thread \in Thread /\ saved \in Thread
  BY DEF IInv, TypeOK
<1>1. CASE PlannerStep
  <2>1. ~saved.plan_approved /\ UNCHANGED <<commits, faults>>
    BY <1>1 DEF IInv, ThreadInv, PlannerIsFirst, PlannerStep
  <2>2. faults.resets = 0 => commits' = <<>>
    BY <2>1 DEF ApprovalInv, ApprovalIsDurable
  <2>3. CASE faults.resets = 0
    <3>1. Len(commits') = 0 /\ Committed' = {}
      BY <2>2, <2>3 DEF Committed
    <3>2. One(TurnAgain)' = 0
      BY <3>1 DEF TurnAgain, One
    <3> QED BY <1>0, <2>1, <3>1, <3>2, FaultsCount, FS_EmptySet DEF RepeatInv
  <2>4. CASE faults.resets # 0
    BY <2>1, <2>4 DEF RepeatInv
  <2> QED BY <2>3, <2>4
<1>2. CASE WorkStep
  <2>1. TurnAgain' => TurnAgain
    <3>1. CurrentTask(thread') = CurrentTask(thread) /\ Committed' = Committed
      BY <1>2, SameTask DEF WorkStep, Committed
    <3> QED BY <1>2, <3>1 DEF WorkStep, TurnAgain
  <2> QED BY <1>0, <1>2, <2>1, QuietRepeatInv DEF WorkStep
<1>3. CASE FilesStep
  <2>1. TurnAgain' => TurnAgain
    BY <1>3 DEF FilesStep, TurnAgain, Committed
  <2> QED BY <1>0, <1>3, <2>1, QuietRepeatInv DEF FilesStep
<1>4. CASE CommitStep
  BY <1>0, <1>4, CommitKeepsRepeatInv
<1>5. CASE QueueStep
  <2>1. thread'.plan = thread.plan /\ UNCHANGED <<commits, faults>>
    BY <1>5 DEF QueueStep
  <2>2. CASE faults.resets = 0 /\ DistinctIds(thread.plan)
    <3>1. ~TurnAgain'
      BY <1>5, <2>2, NextTurnIsNew DEF PlanInv
    <3> QED BY <1>0, <2>1, <3>1, QuietRepeatInv
  <2>3. CASE ~(faults.resets = 0 /\ DistinctIds(thread.plan))
    BY <2>1, <2>3 DEF RepeatInv
  <2> QED BY <2>2, <2>3
<1>6. CASE WriteStep
  <2>1. TurnAgain' => TurnAgain
    BY <1>6 DEF WriteStep, TurnAgain, Committed
  <2> QED BY <1>0, <1>6, <2>1, QuietRepeatInv DEF WriteStep
<1>7. CASE ResetStep
  BY <1>0, <1>7, FaultsGrow DEF RepeatInv
<1>8. CASE CrashStep
  <2>1. /\ thread' = saved /\ commits' = commits /\ faults'.resets = faults.resets
        /\ faults'.crashes = faults.crashes + 1
    BY <1>0, <1>8 DEF CrashStep, TypeOK
  <2> SUFFICES ASSUME faults.resets = 0, DistinctIds(saved.plan)
               PROVE  Len(commits) + One(TurnAgain)' <= Cardinality(Committed) + faults.crashes + 1
    <3>1. Committed' = Committed
      BY <2>1 DEF Committed
    <3>2. faults.crashes \in Nat
      BY <1>0, FaultsCount
    <3>3. One(TurnAgain)' \in Nat
      BY DEF One
    <3> HIDE DEF TurnAgain
    <3> QED BY <1>0, <2>1, <3>1, <3>2, <3>3, CommittedCount DEF RepeatInv
  <2>2. One(TurnAgain) \in 0..1 /\ One(TurnAgain)' \in 0..1
    BY DEF One
  <2>3. Len(commits) <= Cardinality(Committed) + faults.crashes
    <3>1. CASE saved.plan_approved
      <4>1. StepIds(thread.plan) = StepIds(saved.plan)
        BY <3>1 DEF PlanInv, AheadInv, SameGoal, Finished, Stopped, Approved, Stage
      <4>2. DistinctIds(thread.plan)
        BY <1>0, <4>1, SameIdsDistinct DEF Thread
      <4> HIDE DEF TurnAgain
      <4> QED BY <1>0, <2>2, <4>2, CommittedCount, FaultsCount DEF RepeatInv
    <3>2. CASE ~saved.plan_approved
      <4>1. commits = <<>>
        BY <3>2 DEF ApprovalInv, ApprovalIsDurable
      <4>2. Len(commits) = 0
        BY <4>1
      <4> QED BY <1>0, <4>2, CommittedCount, FaultsCount
    <3> QED BY <3>1, <3>2
  <2> HIDE DEF TurnAgain
  <2> QED BY <1>0, <2>2, <2>3, CommittedCount, FaultsCount
<1>9. CASE OtherStep
  <2>1. TurnAgain' => TurnAgain
    <3>1. CurrentTask(thread') = CurrentTask(thread) /\ Committed' = Committed
      BY <1>9, SameTask DEF OtherStep, Committed
    <3> QED BY <1>9, <3>1 DEF OtherStep, TurnAgain
  <2> QED BY <1>0, <1>9, <2>1, QuietRepeatInv DEF OtherStep
<1> QED BY <1>1, <1>2, <1>3, <1>4, <1>5, <1>6, <1>7, <1>8, <1>9, Steps

\* A plan of any length with distinct ids has one commit for each of its steps
\* that has any, and at most one more for each crash, through all retries, tool
\* calls and failures of git.
THEOREM RepeatedCommitsAreCrashesHolds == Spec => []RepeatedCommitsAreCrashes
<1>1. Init => RepeatInv
  BY InitIInv, NoneCommitted DEF Init, IInv
<1>2. IInv /\ RepeatInv => RepeatedCommitsAreCrashes
  <2> SUFFICES ASSUME IInv, RepeatInv PROVE RepeatedCommitsAreCrashes
    OBVIOUS
  <2>1. One(TurnAgain) \in Nat
    BY DEF One
  <2>2. TypeOK
    BY DEF IInv
  <2> HIDE DEF TurnAgain
  <2> QED BY <2>1, <2>2, CommittedCount, FaultsCount DEF RepeatInv, RepeatedCommitsAreCrashes
<1> QED BY <1>1, <1>2, NextRepeatInv, Invariance, ApprovalInvariance, PlanInvariance, PTL
        DEF Spec

=============================================================================
