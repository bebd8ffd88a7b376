------------------------------- MODULE Launcher -------------------------------
(***************************************************************************)
(* orchestrator/main.py's __main__ block: processes launched for several   *)
(* goals, one after the other or at the same time, over one checkpoints.db *)
(* and one working tree.  Orchestrator.tla has the nodes of one goal; here *)
(* a run of the graph is what TaskQueue.tla says of it, and the question   *)
(* is which run a process gets hold of.                                    *)
(***************************************************************************)
EXTENDS Naturals, Sequences, FiniteSets

CONSTANTS
  Goals,       \* goals, with normalised white space
  Ids,         \* thread ids
  Processes,   \* bound: processes at one time
  None,        \* Python's None
  Absent,      \* no checkpoint
  Lengths,     \* bound: numbers of steps in the plans a human may approve
  MaxLaunches, \* bound: launches
  MaxCrashes,  \* bound: crashes
  MaxResets    \* bound: launches with --reset

ASSUME NamesAssumption == None \notin Goals \cup Ids /\ Absent \notin Ids
ASSUME BoundsAssumption ==
  /\ Lengths \subseteq Nat
  /\ MaxLaunches \in Nat /\ MaxCrashes \in Nat /\ MaxResets \in Nat

VARIABLES
  make_thread_id,  \* the truncated hash: any map from goals to ids, constant
  db,              \* the newest checkpoint of each id
  proc,            \* the processes
  tree,            \* the goals with uncommitted changes in the working tree
  counts,          \* how many launches, crashes and resets so far
  abandoned,       \* history: goals whose run, since git last committed the
                   \* tree, was given up, crashed, had no step or had git fail
  doubled,         \* history: ids two processes have run under at one time
  together         \* history: whether two processes have run at one time

vars == <<make_thread_id, db, proc, tree, counts, abandoned, doubled,
          together>>
history == <<abandoned, doubled, together>>

-----------------------------------------------------------------------------
(* Checkpoints and processes *)

Plan(g, n) == [i \in 1..n |-> <<g, i>>]

\* The checkpoint of an input that no node has seen: its goal is not a channel
\* value yet.  `stage' is the next node, as in TaskQueue.
Input(g) == [goal |-> None, input |-> g, stage |-> "input",
             plan |-> <<>>, todo |-> <<>>, done |-> <<>>]
InputOver(base, g) ==
  IF base = Absent THEN Input(g)
  ELSE [base EXCEPT !.input = g, !.stage = "input"]

\* `goal' is the argument, `thread' the run in memory and `put' whether it is
\* in the database; `blind' is history: the checkpoint resumed had no goal.
Idle == [at |-> "none", goal |-> None, fresh |-> FALSE, blind |-> FALSE,
         thread |-> Absent, put |-> TRUE]

Active(p) == proc[p].at # "none"
Id_Constant(p) == CHOOSE i \in Ids : TRUE  \* seeded fault: the goal left out
Id(p) == make_thread_id[proc[p].goal]

\* The comparison with the stored goal.
OfAnotherGoal_NoGoal(existing, g) ==  \* seeded fault: which goal is not asked
  existing # Absent /\ existing.goal = None
OfAnotherGoal(existing, g) ==
  existing # Absent /\ existing.goal # None /\ existing.goal # g

-----------------------------------------------------------------------------
(* __main__ up to the stream *)

Launch(p, g, reset) ==
  /\ ~Active(p)
  /\ counts.launches < MaxLaunches
  /\ reset => counts.resets < MaxResets
  /\ proc' = [proc EXCEPT ![p] = [Idle EXCEPT !.at = IF reset THEN "reset" ELSE "look",
                                              !.goal = g]]
  /\ counts' = [counts EXCEPT !.launches = @ + 1,
                              !.resets = IF reset THEN @ + 1 ELSE @]
  /\ together' = (together \/ \E q \in Processes : Active(q))
  /\ doubled' = doubled \cup {i \in {make_thread_id[g]} :
                                \E q \in Processes : Active(q) /\ Id(q) = i}
  /\ UNCHANGED <<make_thread_id, db, tree, abandoned>>

Reset_AllThreads(p) ==  \* seeded fault: DELETE without its WHERE
  /\ proc[p].at = "reset"
  /\ db' = [i \in Ids |-> Absent]
  /\ proc' = [proc EXCEPT ![p] = [@ EXCEPT !.at = "look"]]
  /\ UNCHANGED <<make_thread_id, tree, counts, history>>

\* reset_thread
Reset(p) ==
  /\ proc[p].at = "reset"
  /\ db' = [db EXCEPT ![Id(p)] = Absent]
  /\ proc' = [proc EXCEPT ![p] = [@ EXCEPT !.at = "look"]]
  /\ UNCHANGED <<make_thread_id, tree, counts, history>>

\* get_tuple: sys.exit if the checkpoint is another goal's, else on to the
\* stream, with initial_state as its input if there is no checkpoint.
Look(p) ==
  /\ proc[p].at = "look"
  /\ LET existing == db[Id(p)]
         me == proc[p]
     IN proc' = [proc EXCEPT ![p] =
                   IF OfAnotherGoal(existing, me.goal) THEN Idle
                   ELSE [me EXCEPT !.at = "stream", !.fresh = (existing = Absent)]]
  /\ UNCHANGED <<make_thread_id, db, tree, counts, history>>

\* app.stream loads the newest checkpoint once more.  With an input it goes
\* on from a checkpoint of that input; without one it resumes what it has
\* loaded, or raises if there is nothing.
Stream(p) ==
  /\ proc[p].at = "stream"
  /\ LET base == db[Id(p)]
         me == proc[p]
     IN proc' = [proc EXCEPT ![p] =
          IF me.fresh
          THEN [me EXCEPT !.at = "graph", !.thread = InputOver(base, me.goal),
                          !.put = FALSE]
          ELSE IF base = Absent THEN Idle
          ELSE [me EXCEPT !.at = "graph", !.thread = base,
                          !.blind = (base.goal = None)]]
  /\ UNCHANGED <<make_thread_id, db, tree, counts, history>>

-----------------------------------------------------------------------------
(* The graph *)

\* The next node runs when the checkpoint of the last one is in the database: a
\* stage stands for several nodes, the first of which only reads, and the end
\* of that one waits for the write.
Runs(p, stage) ==
  proc[p].at = "graph" /\ proc[p].thread.stage = stage /\ proc[p].put

\* A node returns; its checkpoint is written in the background.
Return(p, th) == proc' = [proc EXCEPT ![p] = [@ EXCEPT !.thread = th, !.put = FALSE]]

\* The background write ends.
Flush(p) ==
  /\ proc[p].at = "graph"
  /\ ~proc[p].put
  /\ db' = [db EXCEPT ![Id(p)] = proc[p].thread]
  /\ proc' = [proc EXCEPT ![p] = [@ EXCEPT !.put = TRUE]]
  /\ UNCHANGED <<make_thread_id, tree, counts, history>>

Started(th) == [goal |-> th.input, input |-> None, stage |-> "planning",
                plan |-> <<>>, todo |-> <<>>, done |-> th.done]

\* The input becomes the state; completed_tasks is appended to, the other
\* fields are replaced.
Start(p) ==
  /\ Runs(p, "input")
  /\ Return(p, Started(proc[p].thread))
  /\ UNCHANGED <<make_thread_id, db, tree, counts, history>>

\* planner_node, with what the human approves.
Approve(p) ==
  /\ Runs(p, "planning")
  /\ LET th == proc[p].thread
     IN \E n \in Lengths :
          Return(p, [th EXCEPT !.stage = "working", !.plan = Plan(th.goal, n),
                               !.todo = Plan(th.goal, n)])
  /\ UNCHANGED <<make_thread_id, db, tree, counts, history>>

\* The coder's tools change files.
Change(p) ==
  /\ Runs(p, "working")
  /\ tree' = tree \cup {proc[p].thread.goal}
  /\ UNCHANGED <<make_thread_id, db, proc, counts, history>>

\* git status, add -A and commit: they take what is there, whoever made it, or
\* they fail, which nobody notices.
GitCommits ==
  /\ tree' = {}
  /\ abandoned' = {}
GitFails(g) ==
  /\ tree # {}
  /\ abandoned' = abandoned \cup {g}
  /\ UNCHANGED tree

Commit_NotLast(p) ==  \* seeded fault: the last step is not committed
  /\ Runs(p, "working")
  /\ LET th == proc[p].thread
     IN /\ th.todo # <<>>
        /\ IF Len(th.todo) = 1 THEN UNCHANGED <<tree, abandoned>>
           ELSE GitCommits \/ GitFails(th.goal)
        /\ proc' = [proc EXCEPT ![p] =
                      [@ EXCEPT !.thread = [th EXCEPT !.stage = "committed"]]]
  /\ UNCHANGED <<make_thread_id, db, counts, doubled, together>>

\* queue_manager_node commits ...
Commit(p) ==
  /\ Runs(p, "working")
  /\ LET th == proc[p].thread
     IN /\ th.todo # <<>>
        /\ GitCommits \/ GitFails(th.goal)
        /\ proc' = [proc EXCEPT ![p] =
                      [@ EXCEPT !.thread = [th EXCEPT !.stage = "committed"]]]
  /\ UNCHANGED <<make_thread_id, db, counts, doubled, together>>

\* ... and the queue moves.
Finish(p) ==
  /\ Runs(p, "committed")
  /\ LET th == proc[p].thread
     IN Return(p, [th EXCEPT !.stage = IF Len(th.todo) > 1 THEN "working" ELSE "ended",
                             !.done = Append(th.done, Head(th.todo)),
                             !.todo = Tail(th.todo)])
  /\ UNCHANGED <<make_thread_id, db, tree, counts, history>>

\* A plan without steps: queue_manager_node returns at once, and the run ends
\* with what the coder has changed for it still in the working tree.
FinishNothing(p) ==
  /\ Runs(p, "working")
  /\ LET th == proc[p].thread
     IN /\ th.todo = <<>>
        /\ Return(p, [th EXCEPT !.stage = "ended"])
        /\ abandoned' = abandoned \cup {th.goal}
  /\ UNCHANGED <<make_thread_id, db, tree, counts, doubled, together>>

\* give_up_node: the changes stay in the working tree.
GiveUp(p) ==
  /\ Runs(p, "working")
  /\ LET th == proc[p].thread
     IN /\ Return(p, [th EXCEPT !.stage = "ended"])
        /\ abandoned' = abandoned \cup {th.goal}
  /\ UNCHANGED <<make_thread_id, db, tree, counts, doubled, together>>

\* A finished graph has nothing to run, when it is launched again too.
Exit(p) ==
  /\ Runs(p, "ended")
  /\ proc' = [proc EXCEPT ![p] = Idle]
  /\ UNCHANGED <<make_thread_id, db, tree, counts, history>>

Crash(p) ==
  /\ proc[p].at = "graph"
  /\ counts.crashes < MaxCrashes
  /\ proc' = [proc EXCEPT ![p] = Idle]
  /\ counts' = [counts EXCEPT !.crashes = @ + 1]
  /\ abandoned' = abandoned \cup ({proc[p].thread.goal} \cap Goals)
  /\ UNCHANGED <<make_thread_id, db, tree, doubled, together>>

-----------------------------------------------------------------------------
Init ==
  /\ make_thread_id \in [Goals -> Ids]
  /\ db = [i \in Ids |-> Absent]
  /\ proc = [p \in Processes |-> Idle]
  /\ tree = {}
  /\ counts = [launches |-> 0, crashes |-> 0, resets |-> 0]
  /\ abandoned = {}
  /\ doubled = {}
  /\ together = FALSE

Main(p) ==
  (\E g \in Goals, reset \in BOOLEAN : Launch(p, g, reset)) \/ Reset(p) \/ Look(p)
  \/ Stream(p)
Graph(p) ==
  Flush(p) \/ Start(p) \/ Approve(p) \/ Change(p) \/ Commit(p) \/ Finish(p)
  \/ FinishNothing(p) \/ GiveUp(p) \/ Exit(p) \/ Crash(p)

Next == \E p \in Processes : Main(p) \/ Graph(p)

Spec == Init /\ [][Next]_vars

-----------------------------------------------------------------------------
(* Properties *)

Stages == {"input", "planning", "working", "committed", "ended"}
Step == Goals \X Nat
Thread == [goal : Goals \cup {None}, input : Goals \cup {None}, stage : Stages,
           plan : Seq(Step), todo : Seq(Step), done : Seq(Step)]
ASSUME AbsentAssumption == Absent \notin Thread
Process == [at : {"none", "reset", "look", "stream", "graph"},
            goal : Goals \cup {None}, fresh : BOOLEAN, blind : BOOLEAN,
            thread : Thread \cup {Absent}, put : BOOLEAN]

\* The values the database, the processes and the working tree may take; in
\* the working tree there are only changes made for a goal.
TypeOK ==
  /\ make_thread_id \in [Goals -> Ids]
  /\ db \in [Ids -> Thread \cup {Absent}]
  /\ proc \in [Processes -> Process]
  /\ tree \in SUBSET Goals
  /\ counts \in [launches : 0..MaxLaunches, crashes : 0..MaxCrashes,
                resets : 0..MaxResets]
  /\ abandoned \in SUBSET Goals
  /\ doubled \in SUBSET Ids
  /\ together \in BOOLEAN

\* Whatever goals share an id, a process works for a goal that is not its own
\* only if the checkpoint it resumed had no goal to compare with, or if another
\* process has run under the id at the same time.
OwnGoal ==
  \A p \in Processes :
    proc[p].at = "graph" /\ proc[p].thread.goal \notin {None, proc[p].goal} =>
      \/ proc[p].blind
      \/ Id(p) \in doubled

\* Goals with different ids never meet, whatever processes run at the same
\* time: what is stored under an id, or runs from it, has that id.
IdsKeepApart ==
  /\ \A i \in Ids : db[i] # Absent =>
       \A g \in {db[i].goal, db[i].input} \ {None} : make_thread_id[g] = i
  /\ \A p \in Processes : proc[p].at = "graph" =>
       \A g \in {proc[p].thread.goal, proc[p].thread.input} \ {None} :
         make_thread_id[g] = Id(p)

\* git add -A puts the changes of one goal into another's commit only if, since
\* the last commit, a run for the first goal was given up or crashed, had a
\* plan without steps, or had git fail, or if two processes have run at one
\* time: any other run that comes to its end has left nothing behind.
ForeignWorkWasAbandoned ==
  [][\A p \in Processes :
       Commit(p) /\ tree' # tree =>
         tree \ {proc[p].thread.goal} \subseteq abandoned \/ together]_vars

\* What TaskQueue says of the checkpoint under an id.
Stored(i) ==
  IF db[i] = Absent THEN [Input(None) EXCEPT !.stage = "planning"]
  ELSE [db[i] EXCEPT !.stage = IF @ = "input" THEN "planning" ELSE @]
Queue(i) == INSTANCE TaskQueue WITH
              Plans <- {Plan(g, n) : g \in Goals, n \in Lengths},
              stage <- Stored(i).stage,
              plan <- Stored(i).plan, todo <- Stored(i).todo, done <- Stored(i).done

\* Under each id, whichever goals share it, however often their processes
\* crash and are launched again, the stored run takes only steps of TaskQueue
\* and is deleted only by --reset for a goal with this id; and as long as no
\* two processes have run under the id at one time, its goal stays the same
\* and what is done stays done.
StoredRunIsTaskQueue ==
  [][\A i \in Ids :
       /\ db[i] # Absent /\ db'[i] = Absent =>
            \E p \in Processes : proc[p].at = "reset" /\ Id(p) = i
       /\ i \in doubled \/ Queue(i)!Next \/ UNCHANGED Queue(i)!vars
       /\ i \notin doubled /\ Absent \notin {db[i], db'[i]} /\ db[i].goal # None =>
            /\ db'[i].goal = db[i].goal
            /\ Len(db'[i].done) >= Len(db[i].done)]_vars
=============================================================================
