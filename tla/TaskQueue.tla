------------------------------ MODULE TaskQueue ------------------------------
(***************************************************************************)
(* What the orchestrator promises about a goal, without nodes, retries,    *)
(* LLM calls, checkpoints or crashes: a plan is agreed once, its steps are *)
(* finished one at a time from the front, and the run ends when no step is *)
(* left or when it is abandoned.  Orchestrator.tla implements this.        *)
(***************************************************************************)
EXTENDS Naturals, Sequences

CONSTANT Plans   \* the lists of step ids a human may approve

VARIABLES stage,   \* "planning", "working" or "ended"
          plan,    \* the approved list of step ids
          todo,    \* WorkflowState.todo_tasks
          done     \* WorkflowState.completed_tasks

vars == <<stage, plan, todo, done>>

Init == /\ stage = "planning"
        /\ plan = <<>>
        /\ todo = <<>>
        /\ done = <<>>

\* planner_node on an approving answer.
Approve(p) == /\ stage = "planning"
              /\ stage' = "working"
              /\ plan' = p
              /\ todo' = p
              /\ UNCHANGED done

\* queue_manager_node and queue_evaluator: only the front step finishes.
Finish == /\ stage = "working"
          /\ todo # <<>>
          /\ done' = Append(done, Head(todo))
          /\ todo' = Tail(todo)
          /\ stage' = IF todo' = <<>> THEN "ended" ELSE "working"
          /\ UNCHANGED plan

\* give_up_node, or a queue that was empty from the start.
Stop == /\ stage = "working"
        /\ stage' = "ended"
        /\ UNCHANGED <<plan, todo, done>>

\* --reset: the goal starts over.
Restart == /\ stage' = "planning"
           /\ plan' = <<>>
           /\ todo' = <<>>
           /\ done' = <<>>

Next == (\E p \in Plans : Approve(p)) \/ Finish \/ Stop \/ Restart

\* A goal being worked on does not stay where it is for ever.
Fairness == WF_vars(Finish \/ Stop)

Spec == Init /\ [][Next]_vars /\ Fairness
=============================================================================
