---------------------------- MODULE LauncherProofs ----------------------------
(***************************************************************************)
(* Which run a process gets hold of, for any number of goals, ids and      *)
(* processes, and any map from goals to ids.                               *)
(***************************************************************************)
EXTENDS Launcher, SequenceTheorems, TLAPS

-----------------------------------------------------------------------------
(* Types, and what a run has at each of its stages *)

GoodThread(th) ==
  /\ th \in Thread
  /\ th.stage = "input" => th.input \in Goals
  /\ th.stage # "input" => th.goal \in Goals
  /\ th.stage = "committed" => th.todo # <<>>

GoodProcess(r) ==
  /\ r \in Process
  /\ r.at # "none" => r.goal \in Goals
  /\ r.at = "graph" => GoodThread(r.thread)

GoodDb == /\ db \in [Ids -> Thread \cup {Absent}]
          /\ \A i \in Ids : db[i] # Absent => GoodThread(db[i])
GoodProc == /\ proc \in [Processes -> Process]
            /\ \A p \in Processes : GoodProcess(proc[p])
Good == TypeOK /\ GoodDb /\ GoodProc

\* A plan of a goal is a list of its steps.
LEMMA PlanTyped ==
  ASSUME NEW g \in Goals, NEW n \in Lengths
  PROVE  Plan(g, n) \in Seq(Step)
<1>1. Plan(g, n) \in [1..n -> Step]
  BY DEF Plan, Step
<1>2. n \in Nat
  BY BoundsAssumption
<1>. QED
  BY <1>1, <1>2

LEMMA NoSteps == <<>> \in Seq(Step)
  OBVIOUS

LEMMA TailLeft ==
  ASSUME NEW s \in Seq(Step), Len(s) > 1
  PROVE  Tail(s) # <<>>
<1>1. s # <<>> /\ Len(s) \in Nat
  OBVIOUS
<1>2. Len(Tail(s)) = Len(s) - 1
  <2>1. s # <<>>
    BY <1>1
  <2>2. \A S : \A q \in Seq(S) : q # <<>> => Len(Tail(q)) = Len(q) - 1
    BY HeadTailProperties, Zenon
  <2>. QED
    BY <2>1, <2>2, Zenon
<1>3. \A n \in Nat : n > 1 => n - 1 # 0
  OBVIOUS
<1>4. Len(<<>>) = 0
  BY EmptySeq
<1>. QED
  BY <1>1, <1>2, <1>3, <1>4, Zenon

LEMMA LastTail ==
  ASSUME NEW s \in Seq(Step), s # <<>>, Len(s) = 1
  PROVE  Tail(s) = <<>>
<1>1. Tail(s) \in Seq(Step) /\ Len(Tail(s)) = Len(s) - 1
  BY HeadTailProperties
<1>2. Len(Tail(s)) = 0
  BY <1>1
<1>. QED
  BY <1>1, <1>2, EmptySeq

LEMMA IdleGood == GoodProcess(Idle)
  BY DEF GoodProcess, Idle, Process

\* What an input makes of a checkpoint, or of none.
LEMMA InputGood ==
  ASSUME NEW base, base = Absent \/ GoodThread(base), NEW g \in Goals
  PROVE  GoodThread(InputOver(base, g))
<1>1. GoodThread(Input(g))
  BY NoSteps DEF GoodThread, Input, Thread, Stages
<1>2. ASSUME GoodThread(base)
      PROVE  GoodThread([base EXCEPT !.input = g, !.stage = "input"])
  BY <1>2 DEF GoodThread, Thread, Stages
<1>3. CASE base = Absent
  BY <1>1, <1>3 DEF InputOver
<1>4. CASE base # Absent
  BY <1>2, <1>4 DEF InputOver
<1>. QED
  BY <1>3, <1>4

\* A process that changes keeps the others as they are.
LEMMA ProcChanges ==
  ASSUME GoodProc, NEW p \in Processes, NEW r, GoodProcess(r),
         proc' = [proc EXCEPT ![p] = r]
  PROVE  GoodProc'
  BY DEF GoodProc, GoodProcess

\* A node that returns a good thread keeps its process good.
LEMMA ReturnGood ==
  ASSUME GoodProc, NEW p \in Processes, proc[p].at = "graph",
         NEW th, GoodThread(th), Return(p, th)
  PROVE  GoodProc'
<1>. DEFINE r == [proc[p] EXCEPT !.thread = th, !.put = FALSE]
<1>1. GoodProcess(r)
  BY DEF GoodProc, GoodProcess, Process, GoodThread
<1>2. proc' = [proc EXCEPT ![p] = r]
  BY DEF Return
<1>. HIDE DEF r
<1>. QED
  BY <1>1, <1>2, ProcChanges

LEMMA InitGood == Init => Good
<1>. SUFFICES ASSUME Init PROVE Good
  OBVIOUS
<1>1. GoodDb
  BY DEF Init, GoodDb
<1>2. GoodProc
  <2>1. Idle \in Process
    BY IdleGood DEF GoodProcess
  <2>. QED
    BY <2>1, IdleGood DEF Init, GoodProc
<1>3. TypeOK
  <2>1. counts \in [launches : 0..MaxLaunches, crashes : 0..MaxCrashes,
                    resets : 0..MaxResets]
    BY BoundsAssumption DEF Init
  <2>. QED
    BY <1>1, <1>2, <2>1 DEF Init, TypeOK, GoodDb, GoodProc
<1>. QED
  BY <1>1, <1>2, <1>3 DEF Good

LEMMA MainGood ==
  ASSUME Good, NEW p \in Processes, Main(p)
  PROVE  Good'
<1>. USE DEF Good
<1>0. GoodProcess(proc[p])
  BY DEF GoodProc
<1>1. CASE \E g \in Goals, reset \in BOOLEAN : Launch(p, g, reset)
  <2>. PICK g \in Goals, reset \in BOOLEAN : Launch(p, g, reset)
    BY <1>1
  <2>. DEFINE r == [Idle EXCEPT !.at = IF reset THEN "reset" ELSE "look", !.goal = g]
  <2>1. GoodProcess(r)
    BY DEF GoodProcess, Idle, Process
  <2>2. GoodProc'
    <3>. proc' = [proc EXCEPT ![p] = r]
      BY DEF Launch
    <3>. HIDE DEF r
    <3>. QED
      BY <2>1, ProcChanges
  <2>3. GoodDb'
    BY DEF Launch, GoodDb
  <2>4. counts' \in [launches : 0..MaxLaunches, crashes : 0..MaxCrashes,
                     resets : 0..MaxResets]
    <3>1. /\ counts \in [launches : 0..MaxLaunches, crashes : 0..MaxCrashes,
                          resets : 0..MaxResets]
          /\ counts.launches < MaxLaunches
          /\ reset => counts.resets < MaxResets
          /\ counts' = [counts EXCEPT !.launches = @ + 1,
                                      !.resets = IF reset THEN @ + 1 ELSE @]
      BY DEF Launch, TypeOK
    <3>2. counts.launches + 1 \in 0..MaxLaunches
      BY <3>1, BoundsAssumption
    <3>3. (IF reset THEN counts.resets + 1 ELSE counts.resets) \in 0..MaxResets
      BY <3>1, BoundsAssumption
    <3>. QED
      BY <3>1, <3>2, <3>3
  <2>5. doubled' \in SUBSET Ids /\ together' \in BOOLEAN
    BY DEF Launch, TypeOK
  <2>. QED
    BY <2>2, <2>3, <2>4, <2>5 DEF Launch, TypeOK, GoodDb, GoodProc
<1>2. CASE Reset(p)
  <2>. DEFINE r == [proc[p] EXCEPT !.at = "look"]
  <2>1. GoodProcess(r)
    BY <1>0, <1>2 DEF GoodProcess, Process, Reset
  <2>2. GoodProc'
    <3>. proc' = [proc EXCEPT ![p] = r]
      BY <1>2 DEF Reset
    <3>. HIDE DEF r
    <3>. QED
      BY <2>1, ProcChanges
  <2>3. GoodDb'
    BY <1>2 DEF Reset, GoodDb
  <2>. QED
    BY <1>2, <2>2, <2>3 DEF Reset, TypeOK, GoodDb, GoodProc, history
<1>3. CASE Look(p)
  <2>. DEFINE on == [proc[p] EXCEPT !.at = "stream", !.fresh = (db[Id(p)] = Absent)]
  <2>1. GoodProcess(on)
    BY <1>0, <1>3 DEF GoodProcess, Process, Look
  <2>2. GoodProc'
    <3>. PICK r \in {Idle, on} : proc' = [proc EXCEPT ![p] = r]
      BY <1>3 DEF Look
    <3>. HIDE DEF on
    <3>. QED
      BY <2>1, IdleGood, ProcChanges
  <2>. QED
    BY <1>3, <2>2 DEF Look, TypeOK, GoodDb, GoodProc, history
<1>4. CASE Stream(p)
  <2>. DEFINE base == db[Id(p)]
              input == [proc[p] EXCEPT !.at = "graph", !.put = FALSE,
                                       !.thread = InputOver(base, proc[p].goal)]
              resumed == [proc[p] EXCEPT !.at = "graph", !.thread = base,
                                         !.blind = (base.goal = None)]
  <2>0. proc[p].goal \in Goals /\ Id(p) \in Ids
    BY <1>0, <1>4 DEF Stream, GoodProcess, Id, TypeOK
  <2>1. base = Absent \/ GoodThread(base)
    BY <2>0 DEF GoodDb
  <2>2. GoodProcess(input)
    <3>. HIDE DEF base
    <3>1. GoodThread(InputOver(base, proc[p].goal))
      BY <2>0, <2>1, InputGood
    <3>. QED
      BY <1>0, <2>0, <3>1 DEF GoodProcess, Process, GoodThread
  <2>3. ASSUME base # Absent
        PROVE  GoodProcess(resumed)
    <3>. HIDE DEF base
    <3>. QED
      BY <1>0, <2>0, <2>1, <2>3 DEF GoodProcess, Process, GoodThread
  <2>4. GoodProc'
    <3>. PICK r : /\ r \in {Idle, input} \/ (base # Absent /\ r = resumed)
                  /\ proc' = [proc EXCEPT ![p] = r]
      BY <1>4 DEF Stream
    <3>. HIDE DEF base, input, resumed
    <3>. QED
      BY <2>2, <2>3, IdleGood, ProcChanges
  <2>. QED
    BY <1>4, <2>4 DEF Stream, TypeOK, GoodDb, GoodProc, history
<1>. QED
  BY <1>1, <1>2, <1>3, <1>4 DEF Main

LEMMA GraphGood ==
  ASSUME Good, NEW p \in Processes, Graph(p)
  PROVE  Good'
<1>. USE DEF Good
<1>. DEFINE th == proc[p].thread
<1>0. proc[p].at = "graph" /\ GoodProcess(proc[p]) /\ GoodThread(th)
  BY DEF GoodProc, GoodProcess, Graph, Flush, Start, Approve, Change, Commit, Finish,
         FinishNothing, GiveUp, Exit, Crash, Runs
<1>1. Id(p) \in Ids
  BY <1>0 DEF GoodProcess, Id, TypeOK
\* Each action: what becomes of the process, and of the rest.
<1>2. CASE Flush(p)
  <2>. DEFINE r == [proc[p] EXCEPT !.put = TRUE]
  <2>1. GoodProcess(r)
    BY <1>0 DEF GoodProcess, Process, GoodThread
  <2>2. GoodProc'
    <3>. proc' = [proc EXCEPT ![p] = r]
      BY <1>2 DEF Flush
    <3>. HIDE DEF r
    <3>. QED
      BY <2>1, ProcChanges
  <2>3. GoodDb'
    <3>1. GoodThread(th) /\ th \in Thread
      BY <1>0 DEF GoodThread
    <3>2. db' = [db EXCEPT ![Id(p)] = th]
      BY <1>2 DEF Flush
    <3>. HIDE DEF th
    <3>. QED
      BY <3>1, <3>2, <1>1 DEF GoodDb
  <2>. QED
    BY <1>2, <2>2, <2>3 DEF Flush, TypeOK, GoodDb, GoodProc, history
<1>3. CASE Start(p)
  <2>. DEFINE next == Started(th)
  <2>1. GoodThread(next)
    <3>. th.stage = "input"
      BY <1>3 DEF Start, Runs
    <3>. HIDE DEF th
    <3>1. th \in Thread /\ th.input \in Goals
      BY <1>0 DEF GoodThread
    <3>. QED
      BY <3>1, NoSteps DEF Started, GoodThread, Thread, Stages
  <2>2. GoodProc'
    <3>. Return(p, next)
      BY <1>3 DEF Start
    <3>. HIDE DEF next
    <3>. QED
      BY <1>0, <2>1, ReturnGood
  <2>. QED
    BY <1>3, <2>2 DEF Start, TypeOK, GoodDb, GoodProc, history
<1>4. CASE Approve(p)
  <2>. PICK n \in Lengths :
         Return(p, [th EXCEPT !.stage = "working", !.plan = Plan(th.goal, n),
                              !.todo = Plan(th.goal, n)])
    BY <1>4 DEF Approve
  <2>. DEFINE next == [th EXCEPT !.stage = "working", !.plan = Plan(th.goal, n),
                                 !.todo = Plan(th.goal, n)]
  <2>1. GoodThread(next)
    <3>1. th.stage = "planning"
      BY <1>4 DEF Approve, Runs
    <3>. HIDE DEF th
    <3>2. th.goal \in Goals
      BY <1>0, <3>1 DEF GoodThread
    <3>3. Plan(th.goal, n) \in Seq(Step)
      BY <3>2, PlanTyped
    <3>. QED
      BY <1>0, <3>2, <3>3 DEF GoodThread, Thread, Stages
  <2>2. GoodProc'
    <3>. HIDE DEF next
    <3>. QED
      BY <1>0, <2>1, ReturnGood DEF next
  <2>. QED
    BY <1>4, <2>2 DEF Approve, TypeOK, GoodDb, GoodProc, history
<1>5. CASE Change(p)
  <2>1. th.goal \in Goals
    BY <1>0, <1>5 DEF Change, Runs, GoodThread
  <2>. QED
    BY <1>5, <2>1 DEF Change, TypeOK, GoodDb, GoodProc, history
<1>6. CASE Commit(p)
  <2>. DEFINE next == [th EXCEPT !.stage = "committed"]
              r == [proc[p] EXCEPT !.thread = next]
  <2>1. GoodThread(next)
    <3>. th.stage = "working" /\ th.todo # <<>>
      BY <1>6 DEF Commit, Runs
    <3>. HIDE DEF th
    <3>. QED
      BY <1>0 DEF GoodThread, Thread, Stages
  <2>2. GoodProcess(r)
    <3>. HIDE DEF next
    <3>. QED
      BY <1>0, <2>1 DEF GoodProcess, Process, GoodThread
  <2>3. GoodProc'
    <3>. proc' = [proc EXCEPT ![p] = r]
      BY <1>6 DEF Commit
    <3>. HIDE DEF r
    <3>. QED
      BY <2>2, ProcChanges
  <2>4. tree' \in SUBSET Goals /\ abandoned' \in SUBSET Goals
    <3>1. th.goal \in Goals
      BY <1>0, <1>6 DEF Commit, Runs, GoodThread
    <3>. QED
      BY <1>6, <3>1 DEF Commit, GitCommits, GitFails, TypeOK
  <2>. QED
    BY <1>6, <2>3, <2>4 DEF Commit, TypeOK, GoodDb, GoodProc
<1>7. CASE Finish(p)
  <2>. DEFINE next == [th EXCEPT
                !.stage = IF Len(th.todo) > 1 THEN "working" ELSE "ended",
                !.done = Append(th.done, Head(th.todo)), !.todo = Tail(th.todo)]
  <2>1. GoodThread(next)
    <3>1. th.stage = "committed"
      BY <1>7 DEF Finish, Runs
    <3>. HIDE DEF th
    <3>2. th \in Thread /\ th.goal \in Goals /\ th.todo # <<>>
      BY <1>0, <3>1 DEF GoodThread
    <3>3. th.todo \in Seq(Step) /\ th.done \in Seq(Step)
      BY <3>2 DEF Thread
    <3>4. /\ Append(th.done, Head(th.todo)) \in Seq(Step)
          /\ Tail(th.todo) \in Seq(Step)
          /\ Len(th.todo) > 1 => Tail(th.todo) # <<>>
      <4>1. Head(th.todo) \in Step /\ Tail(th.todo) \in Seq(Step)
        BY <3>2, <3>3
      <4>2. Append(th.done, Head(th.todo)) \in Seq(Step)
        BY <3>3, <4>1
      <4>4. Len(th.todo) > 1 => Tail(th.todo) # <<>>
        BY <3>3, TailLeft
      <4>. QED
        BY <4>1, <4>2, <4>4
    <3>. QED
      BY <3>2, <3>4 DEF GoodThread, Thread, Stages
  <2>2. GoodProc'
    <3>. Return(p, next)
      BY <1>7 DEF Finish
    <3>. HIDE DEF next
    <3>. QED
      BY <1>0, <2>1, ReturnGood
  <2>. QED
    BY <1>7, <2>2 DEF Finish, TypeOK, GoodDb, GoodProc, history
<1>8. CASE FinishNothing(p) \/ GiveUp(p)
  <2>. DEFINE next == [th EXCEPT !.stage = "ended"]
  <2>0. th.stage = "working"
    BY <1>8 DEF FinishNothing, GiveUp, Runs
  <2>1. GoodThread(next) /\ th.goal \in Goals
    <3>. HIDE DEF th
    <3>. QED
      BY <1>0, <2>0 DEF GoodThread, Thread, Stages
  <2>2. GoodProc'
    <3>. Return(p, next)
      BY <1>8 DEF FinishNothing, GiveUp
    <3>. HIDE DEF next
    <3>. QED
      BY <1>0, <2>1, ReturnGood
  <2>. QED
    BY <1>8, <2>1, <2>2 DEF FinishNothing, GiveUp, TypeOK, GoodDb, GoodProc
<1>9. CASE Exit(p)
  <2>1. GoodProc'
    BY <1>9, IdleGood, ProcChanges DEF Exit
  <2>. QED
    BY <1>9, <2>1 DEF Exit, TypeOK, GoodDb, GoodProc, history
<1>10. CASE Crash(p)
  <2>1. GoodProc'
    BY <1>10, IdleGood, ProcChanges DEF Crash
  <2>2. counts' \in [launches : 0..MaxLaunches, crashes : 0..MaxCrashes,
                     resets : 0..MaxResets]
    <3>1. /\ counts \in [launches : 0..MaxLaunches, crashes : 0..MaxCrashes,
                          resets : 0..MaxResets]
          /\ counts.crashes < MaxCrashes
          /\ counts' = [counts EXCEPT !.crashes = @ + 1]
      BY <1>10 DEF Crash, TypeOK
    <3>2. counts.crashes + 1 \in 0..MaxCrashes
      BY <3>1, BoundsAssumption
    <3>. QED
      BY <3>1, <3>2
  <2>. QED
    BY <1>10, <2>1, <2>2 DEF Crash, TypeOK, GoodDb, GoodProc
<1>. QED
  BY <1>2, <1>3, <1>4, <1>5, <1>6, <1>7, <1>8, <1>9, <1>10 DEF Graph

LEMMA StepGood == Good /\ [Next]_vars => Good'
<1>. SUFFICES ASSUME Good, [Next]_vars PROVE Good'
  OBVIOUS
<1>1. CASE Next
  BY <1>1, MainGood, GraphGood DEF Next
<1>2. CASE UNCHANGED vars
  BY <1>2 DEF vars, Good, TypeOK, GoodDb, GoodProc
<1>. QED
  BY <1>1, <1>2

\* The database, the processes and the working tree have their types, and in
\* the tree there are only changes made for a goal.
THEOREM TypeCorrect == Spec => []TypeOK
<1>1. Good => TypeOK
  BY DEF Good
<1>. QED
  BY <1>1, InitGood, StepGood, PTL DEF Spec

-----------------------------------------------------------------------------
(* Whose run it is.  As long as a process is alone under its id, nobody      *)
(* writes there between its comparison and what it resumes.                  *)

OfId(th, i) == \A g \in {th.goal, th.input} \ {None} : make_thread_id[g] = i

\* A checkpoint has a goal, or an input that will be its goal, not both.
OneGoal(th) == th.goal = None \/ (th.input = None /\ th.stage # "input")

Lone == \A p, q \in Processes :
          p # q /\ Active(p) /\ Active(q) /\ Id(p) = Id(q) => Id(p) \in doubled

DbOk(i) == db[i] # Absent => /\ OfId(db[i], i)
                             /\ i \notin doubled => OneGoal(db[i])

Compared(p) ==
  IF proc[p].fresh THEN db[Id(p)] = Absent
  ELSE db[Id(p)] # Absent /\ db[Id(p)].goal \in {None, proc[p].goal}

ProcOk(p) ==
  /\ proc[p].at = "stream" /\ Id(p) \notin doubled => Compared(p)
  /\ proc[p].at = "graph" =>
       /\ OfId(proc[p].thread, Id(p))
       /\ Id(p) \notin doubled =>
            /\ OneGoal(proc[p].thread)
            /\ \/ proc[p].blind
               \/ {proc[p].thread.goal, proc[p].thread.input} \subseteq
                    {None, proc[p].goal}

\* The inductive invariant.
Own == /\ Good
       /\ Lone
       /\ \A i \in Ids : DbOk(i)
       /\ \A p \in Processes : ProcOk(p)

LEMMA InitOwn == Init => Own
<1>. SUFFICES ASSUME Init PROVE Own
  OBVIOUS
<1>1. Good
  BY InitGood
<1>2. \A p \in Processes : proc[p].at = "none"
  BY DEF Init, Idle
<1>3. \A i \in Ids : db[i] = Absent
  BY DEF Init
<1>. QED
  BY <1>1, <1>2, <1>3 DEF Own, Lone, Active, DbOk, ProcOk

\* A step of a process that stays under its id, or stops, concerns nobody who
\* is alone under another; it is enough to look at what it leaves itself.
LEMMA StepOwn ==
  ASSUME Own, Good', NEW p \in Processes, Active(p), NEW here, here = Id(p),
         NEW r, r.at = "none" \/ r.goal = proc[p].goal,
         proc' = [proc EXCEPT ![p] = r],
         UNCHANGED <<make_thread_id, doubled>>,
         \A i \in Ids \ {here} : db'[i] = db[i],
         DbOk(here)', ProcOk(p)'
  PROVE  Own'
<1>1. \A q \in Processes \ {p} : proc'[q] = proc[q] /\ Id(q)' = Id(q)
  BY DEF Own, Good, GoodProc, Id
<1>2. proc'[p] = r /\ (Active(p)' => Id(p)' = here)
  BY DEF Own, Good, GoodProc, Id, Active
<1>3. Lone'
  BY <1>1, <1>2 DEF Own, Lone, Active
<1>4. ASSUME NEW i \in Ids
      PROVE  DbOk(i)'
  <2>1. CASE i = here
    BY <2>1, Zenon
  <2>2. CASE i # here
    BY <2>2 DEF Own, DbOk, OfId
  <2>. QED
    BY <2>1, <2>2
<1>5. ASSUME NEW q \in Processes \ {p}
      PROVE  ProcOk(q)'
  <2>1. ProcOk(q)
    BY DEF Own
  <2>2. CASE Active(q) /\ Id(q) \notin doubled
    <3>1. Id(q) # here
      BY <2>2 DEF Own, Lone
    <3>2. Id(q) \in Ids
      BY <2>2 DEF Own, Good, GoodProc, GoodProcess, TypeOK, Id, Active
    <3>3. db'[Id(q)] = db[Id(q)]
      BY <3>1, <3>2
    <3>. QED
      BY <1>1, <2>1, <3>3 DEF ProcOk, Compared, OfId
  <2>3. CASE ~Active(q) \/ Id(q) \in doubled
    BY <1>1, <2>1, <2>3 DEF ProcOk, OfId, Active
  <2>. QED
    BY <2>2, <2>3
<1>. QED
  BY <1>3, <1>4, <1>5 DEF Own

\* Such a process that leaves the database alone, and is not left with a run.
LEMMA StopsOwn ==
  ASSUME Own, Good', NEW p \in Processes, Active(p),
         proc' = [proc EXCEPT ![p] = Idle],
         UNCHANGED <<make_thread_id, doubled, db>>
  PROVE  Own'
<1>. PICK here \in Ids : here = Id(p)
  BY DEF Own, Good, GoodProc, GoodProcess, TypeOK, Id, Active
<1>1. proc'[p] = Idle
  BY DEF Own, Good, GoodProc
<1>2. ProcOk(p)'
  BY <1>1 DEF ProcOk, Idle
<1>3. DbOk(here)'
  BY DEF Own, DbOk, OfId
<1>. QED
  BY <1>2, <1>3, StepOwn DEF Idle

\* A node that returns a run of the same goal.
LEMMA ReturnOwn ==
  ASSUME Own, Good', NEW p \in Processes, proc[p].at = "graph",
         NEW th, Return(p, th),
         {th.goal, th.input} \subseteq {proc[p].thread.goal, proc[p].thread.input, None},
         OneGoal(proc[p].thread) => OneGoal(th),
         UNCHANGED <<make_thread_id, doubled, db>>
  PROVE  Own'
<1>. DEFINE r == [proc[p] EXCEPT !.thread = th, !.put = FALSE]
<1>. PICK here \in Ids : here = Id(p)
  BY DEF Own, Good, GoodProc, GoodProcess, TypeOK, Id
<1>1. proc' = [proc EXCEPT ![p] = r]
  BY DEF Return
<1>2. proc[p] \in Process
  BY DEF Own, Good, GoodProc
<1>3. r.goal = proc[p].goal /\ r.blind = proc[p].blind /\ r.at = "graph" /\ r.thread = th
  BY <1>2 DEF Process
<1>. HIDE DEF r
<1>4. proc'[p] = r /\ Id(p)' = Id(p)
  BY <1>1, <1>3 DEF Own, Good, GoodProc, Id
<1>5. ProcOk(p)'
  <2>. ProcOk(p)
    BY DEF Own
  <2>. QED
    BY <1>3, <1>4 DEF ProcOk, OfId, OneGoal
<1>6. DbOk(here)'
  BY DEF Own, DbOk, OfId
<1>. QED
  BY <1>1, <1>3, <1>5, <1>6, StepOwn DEF Active

LEMMA LaunchOwn ==
  ASSUME Own, Good', NEW p \in Processes, NEW g \in Goals, NEW reset \in BOOLEAN,
         Launch(p, g, reset)
  PROVE  Own'
<1>. DEFINE r == [Idle EXCEPT !.at = IF reset THEN "reset" ELSE "look", !.goal = g]
<1>1. proc' = [proc EXCEPT ![p] = r]
  BY DEF Launch
<1>2. r.goal = g /\ r.at \in {"reset", "look"}
  BY DEF Idle
<1>. HIDE DEF r
<1>3. proc'[p] = r /\ Id(p)' = make_thread_id[g] /\ ~Active(p)
  BY <1>1, <1>2 DEF Own, Good, GoodProc, Id, Launch
<1>4. \A q \in Processes \ {p} : proc'[q] = proc[q] /\ Id(q)' = Id(q)
  BY <1>1 DEF Own, Good, GoodProc, Id, Launch
<1>5. /\ doubled \subseteq doubled'
      /\ \A q \in Processes : Active(q) /\ Id(q) = make_thread_id[g] =>
                               make_thread_id[g] \in doubled'
      /\ db' = db /\ make_thread_id' = make_thread_id
  BY DEF Launch
<1>6. Lone'
  BY <1>3, <1>4, <1>5 DEF Own, Lone, Active
<1>7. \A i \in Ids : DbOk(i)'
  BY <1>5 DEF Own, DbOk, OfId
<1>8. ProcOk(p)'
  BY <1>2, <1>3 DEF ProcOk
<1>9. ASSUME NEW q \in Processes \ {p}
      PROVE  ProcOk(q)'
  <2>. ProcOk(q)
    BY DEF Own
  <2>. QED
    BY <1>4, <1>5 DEF ProcOk, Compared, OfId
<1>. QED
  BY <1>6, <1>7, <1>8, <1>9 DEF Own

LEMMA MainOwn ==
  ASSUME Own, Good', NEW p \in Processes, Main(p)
  PROVE  Own'
<1>0. ProcOk(p) /\ Lone /\ proc \in [Processes -> Process] /\ proc[p] \in Process
  BY DEF Own, Good, GoodProc
<1>1. CASE \E g \in Goals, reset \in BOOLEAN : Launch(p, g, reset)
  BY <1>1, LaunchOwn
<1>2. CASE Reset(p)
  <2>. PICK here \in Ids : here = Id(p)
    BY <1>2 DEF Own, Good, GoodProc, GoodProcess, TypeOK, Id, Reset
  <2>. DEFINE r == [proc[p] EXCEPT !.at = "look"]
  <2>1. proc' = [proc EXCEPT ![p] = r]
    BY <1>2 DEF Reset
  <2>2. r.goal = proc[p].goal /\ r.at = "look"
    BY <1>0 DEF Process
  <2>. HIDE DEF r
  <2>3. ProcOk(p)'
    BY <1>0, <2>1, <2>2 DEF ProcOk
  <2>4. /\ \A i \in Ids \ {here} : db'[i] = db[i]
        /\ db'[here] = Absent
    BY <1>2 DEF Reset, Own, Good, GoodDb
  <2>5. Active(p) /\ UNCHANGED <<make_thread_id, doubled>>
    BY <1>2 DEF Reset, Active, history
  <2>6. DbOk(here)'
    BY <2>4 DEF DbOk
  <2>. QED
    BY <2>1, <2>2, <2>3, <2>4, <2>5, <2>6, StepOwn
<1>3. CASE Look(p)
  <2>. PICK here \in Ids : here = Id(p)
    BY <1>3 DEF Own, Good, GoodProc, GoodProcess, TypeOK, Id, Look
  <2>0. Active(p) /\ UNCHANGED <<make_thread_id, doubled, db>>
    BY <1>3 DEF Look, Active, history
  <2>1. CASE OfAnotherGoal(db[Id(p)], proc[p].goal)
    <3>. proc' = [proc EXCEPT ![p] = Idle]
      BY <1>3, <2>1 DEF Look
    <3>. QED
      BY <2>0, StopsOwn
  <2>2. CASE ~OfAnotherGoal(db[Id(p)], proc[p].goal)
    <3>. DEFINE r == [proc[p] EXCEPT !.at = "stream", !.fresh = (db[Id(p)] = Absent)]
    <3>1. proc' = [proc EXCEPT ![p] = r]
      BY <1>3, <2>2 DEF Look
    <3>2. /\ r.goal = proc[p].goal /\ r.at = "stream"
          /\ r.fresh = (db[here] = Absent)
      BY <1>0 DEF Process
    <3>. HIDE DEF r
    <3>3. proc'[p] = r /\ Id(p)' = here
      BY <1>0, <2>0, <3>1, <3>2 DEF Id
    <3>4. ProcOk(p)'
      BY <2>0, <2>2, <3>2, <3>3 DEF ProcOk, Compared, OfAnotherGoal
    <3>5. DbOk(here)'
      BY <2>0 DEF Own, DbOk, OfId
    <3>. QED
      BY <2>0, <3>1, <3>2, <3>4, <3>5, StepOwn
  <2>. QED
    BY <2>1, <2>2
<1>4. CASE Stream(p)
  <2>. PICK here \in Ids : here = Id(p)
    BY <1>4 DEF Own, Good, GoodProc, GoodProcess, TypeOK, Id, Stream
  <2>. DEFINE base == db[here]
              g == proc[p].goal
              input == [proc[p] EXCEPT !.at = "graph", !.thread = InputOver(base, g),
                                       !.put = FALSE]
              resumed == [proc[p] EXCEPT !.at = "graph", !.thread = base,
                                         !.blind = (base.goal = None)]
  <2>0. /\ Active(p) /\ UNCHANGED <<make_thread_id, doubled, db>>
        /\ proc[p].at = "stream" /\ g \in Goals
    BY <1>4 DEF Stream, Active, history, Own, Good, GoodProc, GoodProcess
  <2>1. DbOk(here) /\ DbOk(here)'
    BY <2>0 DEF Own, DbOk, OfId
  <2>2. CASE proc[p].fresh
    <3>1. proc' = [proc EXCEPT ![p] = input]
      BY <1>4, <2>2 DEF Stream
    <3>2. /\ input.goal = g /\ input.at = "graph"
          /\ input.thread = InputOver(base, g)
      BY <1>0 DEF Process
    <3>. HIDE DEF input
    <3>3. proc'[p] = input /\ Id(p)' = here
      BY <1>0, <2>0, <3>1, <3>2 DEF Id
    <3>4. InputOver(base, g).input = g
      <4>1. CASE base = Absent
        BY <4>1 DEF InputOver, Input
      <4>2. CASE base # Absent
        BY <4>2, <2>0 DEF InputOver, Own, Good, GoodDb, GoodThread, Thread
      <4>. QED
        BY <4>1, <4>2
    <3>5. base # Absent => InputOver(base, g).goal = base.goal
      BY DEF InputOver, Own, Good, GoodDb, GoodThread, Thread
    <3>6. base = Absent => InputOver(base, g).goal = None
      BY DEF InputOver, Input
    <3>7. OfId(InputOver(base, g), here)
      BY <2>1, <3>4, <3>5, <3>6 DEF DbOk, OfId, Id
    <3>8. here \notin doubled => base = Absent
      BY <1>0, <2>0, <2>2 DEF ProcOk, Compared
    <3>9. ProcOk(p)'
      <4>. HIDE DEF base, g
      <4>1. g = proc[p].goal
        BY DEF g
      <4>. QED
        BY <2>0, <3>2, <3>3, <3>4, <3>6, <3>7, <3>8, <4>1 DEF ProcOk, OneGoal, OfId
    <3>. QED
      BY <2>0, <2>1, <3>1, <3>2, <3>9, StepOwn
  <2>3. CASE ~proc[p].fresh /\ base = Absent
    <3>. proc' = [proc EXCEPT ![p] = Idle]
      BY <1>4, <2>3 DEF Stream
    <3>. QED
      BY <2>0, StopsOwn
  <2>4. CASE ~proc[p].fresh /\ base # Absent
    <3>1. proc' = [proc EXCEPT ![p] = resumed]
      BY <1>4, <2>4 DEF Stream
    <3>2. /\ resumed.goal = g /\ resumed.at = "graph" /\ resumed.thread = base
          /\ resumed.blind = (base.goal = None)
      BY <1>0 DEF Process
    <3>. HIDE DEF resumed
    <3>3. proc'[p] = resumed /\ Id(p)' = here
      BY <1>0, <2>0, <3>1, <3>2 DEF Id
    <3>4. here \notin doubled => base.goal \in {None, g} /\ OneGoal(base)
      BY <1>0, <2>0, <2>1, <2>4 DEF ProcOk, Compared, DbOk
    <3>5. ProcOk(p)'
      BY <2>0, <2>1, <2>4, <3>2, <3>3, <3>4 DEF ProcOk, OneGoal, OfId, DbOk
    <3>. QED
      BY <2>0, <2>1, <3>1, <3>2, <3>5, StepOwn
  <2>. QED
    BY <2>2, <2>3, <2>4
<1>. QED
  BY <1>1, <1>2, <1>3, <1>4 DEF Main

LEMMA GraphOwn ==
  ASSUME Own, Good', NEW p \in Processes, Graph(p)
  PROVE  Own'
<1>. DEFINE th == proc[p].thread
<1>0. /\ proc[p].at = "graph" /\ Active(p) /\ ProcOk(p)
      /\ proc \in [Processes -> Process] /\ proc[p] \in Process
      /\ th \in Thread
  BY DEF Graph, Flush, Start, Approve, Change, Commit, Finish,
       FinishNothing, GiveUp, Exit, Crash,
         Runs, Active, Own, Good, GoodProc, GoodProcess, GoodThread
<1>. PICK here \in Ids : here = Id(p)
  BY <1>0 DEF Own, Good, GoodProc, GoodProcess, TypeOK, Id
<1>1. UNCHANGED <<make_thread_id, doubled>>
  BY DEF Graph, Flush, Start, Approve, Change, Commit, Finish,
       FinishNothing, GiveUp, Exit, Crash,
         history
<1>2. CASE Flush(p)
  <2>. DEFINE r == [proc[p] EXCEPT !.put = TRUE]
  <2>1. proc' = [proc EXCEPT ![p] = r]
    BY <1>2 DEF Flush
  <2>2. /\ r.goal = proc[p].goal /\ r.at = "graph" /\ r.thread = th
        /\ r.blind = proc[p].blind
    BY <1>0 DEF Process
  <2>. HIDE DEF r
  <2>3. proc'[p] = r /\ Id(p)' = here
    BY <1>0, <1>1, <2>1, <2>2 DEF Id
  <2>4. ProcOk(p)'
    BY <1>0, <1>1, <2>2, <2>3 DEF ProcOk, OfId
  <2>5. /\ \A i \in Ids \ {here} : db'[i] = db[i]
        /\ db'[here] = th
    BY <1>2 DEF Flush, Own, Good, GoodDb
  <2>6. DbOk(here)'
    BY <1>0, <1>1, <2>5 DEF ProcOk, DbOk, OfId
  <2>. QED
    BY <1>0, <1>1, <2>1, <2>2, <2>4, <2>5, <2>6, StepOwn
<1>3. CASE Start(p)
  <2>1. Return(p, Started(th)) /\ db' = db
    BY <1>3 DEF Start
  <2>2. /\ {Started(th).goal, Started(th).input} \subseteq {th.goal, th.input, None}
        /\ OneGoal(Started(th))
    BY DEF Started, OneGoal
  <2>. HIDE DEF th
  <2>. QED
    BY <1>0, <1>1, <2>1, <2>2, ReturnOwn DEF th
<1>4. ASSUME NEW next, Return(p, next), UNCHANGED db,
             next.goal = th.goal, next.input = th.input,
             th.stage # "input", next.stage # "input"
      PROVE  Own'
  BY <1>0, <1>1, <1>4, ReturnOwn DEF OneGoal
<1>5. CASE Approve(p)
  <2>. PICK n \in Lengths :
         Return(p, [th EXCEPT !.stage = "working", !.plan = Plan(th.goal, n),
                              !.todo = Plan(th.goal, n)])
    BY <1>5 DEF Approve
  <2>. DEFINE next == [th EXCEPT !.stage = "working", !.plan = Plan(th.goal, n),
                                 !.todo = Plan(th.goal, n)]
  <2>1. Return(p, next) /\ UNCHANGED db /\ th.stage # "input"
    BY <1>5 DEF Approve, Runs
  <2>2. next.goal = th.goal /\ next.input = th.input /\ next.stage # "input"
    BY <1>0 DEF Thread
  <2>. HIDE DEF next
  <2>. QED
    BY <1>4, <2>1, <2>2
<1>6. CASE Change(p)
  BY <1>6, <1>1 DEF Change, Own, Lone, DbOk, ProcOk, Compared, OfId, Active, Id
<1>7. CASE Commit(p)
  <2>. DEFINE next == [th EXCEPT !.stage = "committed"]
              r == [proc[p] EXCEPT !.thread = next]
  <2>1. proc' = [proc EXCEPT ![p] = r] /\ UNCHANGED db /\ th.stage # "input"
    BY <1>7 DEF Commit, Runs
  <2>2. next.goal = th.goal /\ next.input = th.input /\ next.stage # "input"
    BY <1>0 DEF Thread
  <2>. HIDE DEF next
  <2>3. /\ r.goal = proc[p].goal /\ r.at = "graph" /\ r.thread = next
        /\ r.blind = proc[p].blind
    BY <1>0 DEF Process
  <2>. HIDE DEF r
  <2>4. proc'[p] = r /\ Id(p)' = here
    BY <1>0, <1>1, <2>1, <2>3 DEF Id
  <2>5. ProcOk(p)'
    BY <1>0, <1>1, <2>1, <2>2, <2>3, <2>4 DEF ProcOk, OfId, OneGoal
  <2>6. DbOk(here)'
    BY <1>1, <2>1 DEF Own, DbOk, OfId
  <2>. QED
    BY <1>0, <1>1, <2>1, <2>3, <2>5, <2>6, StepOwn
<1>8. CASE Finish(p)
  <2>. DEFINE next == [th EXCEPT
                !.stage = IF Len(th.todo) > 1 THEN "working" ELSE "ended",
                !.done = Append(th.done, Head(th.todo)), !.todo = Tail(th.todo)]
  <2>1. Return(p, next) /\ UNCHANGED db /\ th.stage # "input"
    BY <1>8 DEF Finish, Runs
  <2>2. next.goal = th.goal /\ next.input = th.input /\ next.stage # "input"
    BY <1>0 DEF Thread
  <2>. HIDE DEF next
  <2>. QED
    BY <1>4, <2>1, <2>2
<1>9. CASE FinishNothing(p) \/ GiveUp(p)
  <2>. DEFINE next == [th EXCEPT !.stage = "ended"]
  <2>1. Return(p, next) /\ UNCHANGED db /\ th.stage # "input"
    BY <1>9 DEF FinishNothing, GiveUp, Runs
  <2>2. next.goal = th.goal /\ next.input = th.input /\ next.stage # "input"
    BY <1>0 DEF Thread
  <2>. HIDE DEF next
  <2>. QED
    BY <1>4, <2>1, <2>2
<1>10. CASE Exit(p)
  BY <1>0, <1>1, <1>10, StopsOwn DEF Exit
<1>11. CASE Crash(p)
  BY <1>0, <1>1, <1>11, StopsOwn DEF Crash
<1>. QED
  BY <1>2, <1>3, <1>5, <1>6, <1>7, <1>8, <1>9, <1>10, <1>11 DEF Graph

LEMMA NextOwn == Own /\ [Next]_vars => Own'
<1>. SUFFICES ASSUME Own, [Next]_vars PROVE Own'
  OBVIOUS
<1>1. Good'
  BY StepGood DEF Own
<1>2. CASE Next
  BY <1>1, <1>2, MainOwn, GraphOwn DEF Next
<1>3. CASE UNCHANGED vars
  BY <1>1, <1>3 DEF vars, Own, Lone, DbOk, ProcOk, Compared, OfId, OneGoal, Active, Id
<1>. QED
  BY <1>2, <1>3

\* For any goals, processes and map to ids: a process works for another goal
\* only after it has resumed a checkpoint without a goal, or has met another
\* process under its id.
THEOREM OwnGoalHolds == Spec => []OwnGoal
<1>1. Own => OwnGoal
  BY DEF Own, ProcOk, OwnGoal
<1>. QED
  BY <1>1, InitOwn, NextOwn, PTL DEF Spec

\* For any map from goals to ids and any processes: what is stored under an id,
\* or runs from it, is of a goal with that id.
THEOREM IdsKeepApartHolds == Spec => []IdsKeepApart
<1>1. Own => IdsKeepApart
  BY DEF Own, DbOk, ProcOk, OfId, IdsKeepApart
<1>. QED
  BY <1>1, InitOwn, NextOwn, PTL DEF Spec

-----------------------------------------------------------------------------
(* What a run leaves in the working tree.  As long as no two processes have  *)
(* run at one time, changes nobody has abandoned are those of the process    *)
(* that is at work.                                                          *)

AtWork(p) == proc[p].at = "graph" /\ proc[p].thread.stage = "working"

Left == /\ \A p, q \in Processes : Active(p) /\ Active(q) => p = q
        /\ \A h \in tree \ abandoned :
             \E p \in Processes : AtWork(p) /\ proc[p].thread.goal = h

\* The inductive invariant.
TreeInv == Good /\ (together \/ Left)

LEMMA InitTree == Init => TreeInv
  BY InitGood DEF Init, Idle, TreeInv, Left, Active

\* A step that leaves the tree alone keeps it accounted for if its process is
\* not at work before, or is at work for the same goal afterwards.
LEMMA TreeKept ==
  ASSUME TreeInv, Good', NEW p \in Processes, NEW r,
         proc' = [proc EXCEPT ![p] = r],
         Active(p) \/ \A q \in Processes : ~Active(q),
         tree' = tree, together' = together, abandoned \subseteq abandoned',
         AtWork(p) => \/ proc[p].thread.goal \in abandoned'
                      \/ AtWork(p)' /\ r.thread.goal = proc[p].thread.goal
  PROVE  TreeInv'
<1>. SUFFICES ASSUME ~together PROVE Left'
  BY DEF TreeInv
<1>0. Left
  BY DEF TreeInv
<1>1. /\ proc'[p] = r
      /\ \A q \in Processes \ {p} : proc'[q] = proc[q]
  BY DEF TreeInv, Good, GoodProc
<1>2. \A q1, q2 \in Processes : Active(q1)' /\ Active(q2)' => q1 = q2
  BY <1>0, <1>1 DEF Left, Active
<1>3. ASSUME NEW h \in tree' \ abandoned'
      PROVE  \E q \in Processes : AtWork(q)' /\ proc'[q].thread.goal = h
  <2>1. PICK q \in Processes : AtWork(q) /\ proc[q].thread.goal = h
    BY <1>0, <1>3 DEF Left
  <2>2. CASE q = p
    BY <1>1, <2>1, <2>2, <1>3
  <2>3. CASE q # p
    BY <1>1, <2>1, <2>3 DEF AtWork
  <2>. QED
    BY <2>2, <2>3
<1>. QED
  BY <1>0, <1>2, <1>3 DEF Left

LEMMA MainTree ==
  ASSUME TreeInv, Good', NEW p \in Processes, Main(p)
  PROVE  TreeInv'
<1>0. proc \in [Processes -> Process] /\ proc[p] \in Process
  BY DEF TreeInv, Good, GoodProc
<1>1. CASE \E g \in Goals, reset \in BOOLEAN : Launch(p, g, reset)
  <2>. PICK g \in Goals, reset \in BOOLEAN : Launch(p, g, reset)
    BY <1>1
  <2>1. CASE together'
    BY <2>1 DEF TreeInv
  <2>2. CASE ~together'
    <3>. DEFINE r == [Idle EXCEPT !.at = IF reset THEN "reset" ELSE "look", !.goal = g]
    <3>1. /\ proc' = [proc EXCEPT ![p] = r] /\ UNCHANGED <<tree, abandoned>>
          /\ ~together /\ \A q \in Processes : ~Active(q)
      BY <2>2 DEF Launch
    <3>2. ~AtWork(p)
      BY <3>1 DEF AtWork, Active
    <3>3. together' = together
      BY <2>2, <3>1 DEF TreeInv, Good, TypeOK
    <3>. HIDE DEF r
    <3>. QED
      BY <3>1, <3>2, <3>3, TreeKept
  <2>. QED
    BY <2>1, <2>2
<1>2. CASE Reset(p) \/ Look(p) \/ Stream(p)
  <2>1. PICK r : proc' = [proc EXCEPT ![p] = r]
    BY <1>2 DEF Reset, Look, Stream
  <2>2. /\ Active(p) /\ ~AtWork(p)
        /\ UNCHANGED <<tree, abandoned, together>>
    BY <1>2 DEF Reset, Look, Stream, Active, AtWork, history
  <2>. QED
    BY <2>1, <2>2, TreeKept
<1>. QED
  BY <1>1, <1>2 DEF Main

LEMMA GraphTree ==
  ASSUME TreeInv, Good', NEW p \in Processes, Graph(p)
  PROVE  TreeInv'
<1>. DEFINE th == proc[p].thread
<1>0. /\ proc[p].at = "graph" /\ Active(p) /\ GoodThread(th) /\ th \in Thread
      /\ proc \in [Processes -> Process] /\ proc[p] \in Process
  BY DEF Graph, Flush, Start, Approve, Change, Commit, Finish,
       FinishNothing, GiveUp, Exit, Crash,
         Runs, Active, TreeInv, Good, GoodProc, GoodProcess, GoodThread
<1>1. CASE Flush(p)
  <2>. DEFINE r == [proc[p] EXCEPT !.put = TRUE]
  <2>1. /\ proc' = [proc EXCEPT ![p] = r]
        /\ UNCHANGED <<tree, abandoned, together>>
    BY <1>1 DEF Flush, history
  <2>2. r.at = "graph" /\ r.thread = th
    BY <1>0 DEF Process
  <2>. HIDE DEF r
  <2>3. proc'[p] = r
    BY <1>0, <2>1
  <2>. QED
    BY <1>0, <2>1, <2>2, <2>3, TreeKept DEF AtWork
<1>2. CASE Start(p) \/ Approve(p) \/ Finish(p) \/ Exit(p)
  <2>1. PICK r : proc' = [proc EXCEPT ![p] = r]
    BY <1>2 DEF Start, Approve, Finish, Exit, Return
  <2>2. ~AtWork(p) /\ UNCHANGED <<tree, abandoned, together>>
    BY <1>2 DEF Start, Approve, Finish, Exit, Runs, AtWork, history
  <2>. QED
    BY <1>0, <2>1, <2>2, TreeKept
<1>3. CASE Change(p)
  <2>1. /\ AtWork(p) /\ tree' = tree \cup {th.goal}
        /\ UNCHANGED <<proc, abandoned, together>>
    BY <1>3 DEF Change, Runs, AtWork, history
  <2>. QED
    BY <2>1 DEF TreeInv, Left, AtWork, Active
<1>4. CASE Commit(p)
  <2>. DEFINE r == [proc[p] EXCEPT !.thread = [th EXCEPT !.stage = "committed"]]
  <2>1. /\ proc' = [proc EXCEPT ![p] = r] /\ together' = together
        /\ GitCommits \/ GitFails(th.goal)
    BY <1>4 DEF Commit
  <2>. HIDE DEF r
  <2>2. CASE GitCommits
    <3>1. \A q \in Processes : Active(q)' => Active(q)
      BY <1>0, <2>1 DEF Active
    <3>. QED
      BY <2>1, <2>2, <3>1 DEF GitCommits, TreeInv, Left
  <2>3. CASE GitFails(th.goal)
    BY <1>0, <2>1, <2>3, TreeKept DEF GitFails
  <2>. QED
    BY <2>1, <2>2, <2>3
<1>5. CASE FinishNothing(p) \/ GiveUp(p)
  <2>1. PICK r : proc' = [proc EXCEPT ![p] = r]
    BY <1>5 DEF FinishNothing, GiveUp, Return
  <2>2. /\ abandoned' = abandoned \cup {th.goal}
        /\ UNCHANGED <<tree, together>>
    BY <1>5 DEF FinishNothing, GiveUp
  <2>. QED
    BY <1>0, <2>1, <2>2, TreeKept
<1>6. CASE Crash(p)
  <2>1. /\ abandoned' = abandoned \cup ({th.goal} \cap Goals)
        /\ UNCHANGED <<tree, together>>
        /\ proc' = [proc EXCEPT ![p] = Idle]
    BY <1>6 DEF Crash
  <2>2. AtWork(p) => th.goal \in Goals
    BY <1>0 DEF AtWork, GoodThread
  <2>. QED
    BY <1>0, <2>1, <2>2, TreeKept
<1>. QED
  BY <1>1, <1>2, <1>3, <1>4, <1>5, <1>6 DEF Graph

LEMMA NextTree == TreeInv /\ [Next]_vars => TreeInv'
<1>. SUFFICES ASSUME TreeInv, [Next]_vars PROVE TreeInv'
  OBVIOUS
<1>1. Good'
  BY StepGood DEF TreeInv
<1>2. CASE Next
  BY <1>1, <1>2, MainTree, GraphTree DEF Next
<1>3. CASE UNCHANGED vars
  BY <1>1, <1>3 DEF vars, TreeInv, Left, Active, AtWork
<1>. QED
  BY <1>2, <1>3

\* For any goals, ids and plans: without processes at the same time, a commit
\* takes another goal's changes only if, since the last commit, a run for it was
\* given up, crashed, had a plan without steps or had git fail.
THEOREM ForeignWorkHolds == Spec => ForeignWorkWasAbandoned
<1>. DEFINE Foreign(p) == tree \ {proc[p].thread.goal} \subseteq abandoned \/ together
<1>1. ASSUME TreeInv, NEW p \in Processes, Commit(p)
      PROVE  Foreign(p)
  <2>1. AtWork(p) /\ Active(p)
    BY <1>1 DEF Commit, Runs, AtWork, Active
  <2>2. ASSUME Left, NEW q \in Processes, AtWork(q)
        PROVE  q = p
    BY <2>1, <2>2 DEF Left, AtWork, Active
  <2>3. ASSUME Left
        PROVE  tree \ {proc[p].thread.goal} \subseteq abandoned
    BY <2>2, <2>3 DEF Left
  <2>. QED
    BY <1>1, <2>3 DEF TreeInv
<1>2. TreeInv /\ [Next]_vars =>
        [\A p \in Processes : Commit(p) /\ tree' # tree => Foreign(p)]_vars
  BY <1>1
<1>. QED
  BY <1>2, InitTree, NextTree, PTL DEF Spec, ForeignWorkWasAbandoned

-----------------------------------------------------------------------------
(* What is stored takes the steps of TaskQueue.  As long as a process is     *)
(* alone under its id, its run is where the checkpoint is, or one node       *)
(* further on.                                                               *)

Blank(th) == th.plan = <<>> /\ th.todo = <<>> /\ th.done = <<>>

StoredOk(i) ==
  i \notin doubled /\ db[i] # Absent =>
    /\ db[i].stage # "committed"
    /\ db[i].stage \in {"input", "planning"} => Blank(db[i])

SameRun(base, th) ==
  /\ base # Absent
  /\ th.goal = base.goal /\ th.plan = base.plan
  /\ th.todo = base.todo /\ th.done = base.done

\* The thread when its own checkpoint is written, and when it is not.
AtCheckpoint(base, th) ==
  /\ SameRun(base, th)
  /\ \/ th.stage = base.stage
     \/ base.stage = "working" /\ th.stage = "committed"
Opened(base, th) == base = Absent /\ th.stage = "input" /\ Blank(th)
Begun(base, th) ==
  base # Absent /\ base.stage = "input" /\ th.stage = "planning" /\ Blank(th)
Agreed(base, th) ==
  /\ base # Absent /\ base.stage = "planning" /\ th.stage = "working"
  /\ th.goal = base.goal /\ th.goal \in Goals
  /\ \E n \in Lengths : th.plan = Plan(th.goal, n)
  /\ th.todo = th.plan /\ th.done = base.done
Finished(base, th) ==
  /\ base # Absent /\ base.stage = "working" /\ base.todo # <<>>
  /\ th.goal = base.goal /\ th.plan = base.plan
  /\ th.todo = Tail(base.todo) /\ th.done = Append(base.done, Head(base.todo))
  /\ th.stage = IF th.todo = <<>> THEN "ended" ELSE "working"
GivenUp(base, th) ==
  SameRun(base, th) /\ base.stage = "working" /\ th.stage = "ended"
Ahead(base, th) ==
  Opened(base, th) \/ Begun(base, th) \/ Agreed(base, th) \/ Finished(base, th)
  \/ GivenUp(base, th)

RunOk(p) ==
  /\ proc[p].at \in {"reset", "look", "stream"} => proc[p].put
  /\ proc[p].at = "graph" /\ Id(p) \notin doubled =>
       IF proc[p].put THEN AtCheckpoint(db[Id(p)], proc[p].thread)
       ELSE Ahead(db[Id(p)], proc[p].thread)

\* The inductive invariant.
RunInv == Own /\ (\A i \in Ids : StoredOk(i)) /\ (\A p \in Processes : RunOk(p))

LEMMA InitRun == Init => RunInv
<1>. SUFFICES ASSUME Init PROVE RunInv
  OBVIOUS
<1>1. \A p \in Processes : proc[p].at = "none"
  BY DEF Init, Idle
<1>2. \A i \in Ids : db[i] = Absent
  BY DEF Init
<1>. QED
  BY <1>1, <1>2, InitOwn DEF RunInv, StoredOk, RunOk

\* A step of a process concerns no run but its own.
LEMMA StepRun ==
  ASSUME RunInv, Own', NEW p \in Processes, Active(p), NEW here, here = Id(p),
         NEW r, r.at = "none" \/ r.goal = proc[p].goal,
         proc' = [proc EXCEPT ![p] = r],
         make_thread_id' = make_thread_id, doubled' = doubled,
         \A i \in Ids \ {here} : db'[i] = db[i],
         StoredOk(here)', RunOk(p)'
  PROVE  RunInv'
<1>1. \A q \in Processes \ {p} : proc'[q] = proc[q] /\ Id(q)' = Id(q)
  BY DEF RunInv, Own, Good, GoodProc, Id
<1>2. ASSUME NEW i \in Ids
      PROVE  StoredOk(i)'
  <2>1. CASE i = here
    BY <2>1, Zenon
  <2>2. CASE i # here
    BY <2>2 DEF RunInv, StoredOk
  <2>. QED
    BY <2>1, <2>2
<1>3. ASSUME NEW q \in Processes \ {p}
      PROVE  RunOk(q)'
  <2>1. RunOk(q)
    BY DEF RunInv
  <2>2. CASE Active(q) /\ Id(q) \notin doubled
    <3>1. Id(q) # here
      BY <2>2 DEF RunInv, Own, Lone
    <3>2. Id(q) \in Ids
      BY <2>2 DEF RunInv, Own, Good, GoodProc, GoodProcess, TypeOK, Id, Active
    <3>3. db'[Id(q)] = db[Id(q)]
      BY <3>1, <3>2
    <3>. QED
      BY <1>1, <2>1, <3>3 DEF RunOk
  <2>3. CASE ~Active(q) \/ Id(q) \in doubled
    BY <1>1, <2>1, <2>3 DEF RunOk, Active
  <2>. QED
    BY <2>2, <2>3
<1>. QED
  BY <1>2, <1>3 DEF RunInv

\* A step that leaves the database alone.
LEMMA QuietRun ==
  ASSUME RunInv, Own', NEW p \in Processes, Active(p),
         NEW r, r.at = "none" \/ r.goal = proc[p].goal,
         proc' = [proc EXCEPT ![p] = r],
         make_thread_id' = make_thread_id, doubled' = doubled, db' = db,
         r.at = "none" \/ (RunOk(p)')
  PROVE  RunInv'
<1>. PICK here \in Ids : here = Id(p)
  BY DEF RunInv, Own, Good, GoodProc, GoodProcess, TypeOK, Id, Active
<1>1. StoredOk(here)'
  BY DEF RunInv, StoredOk
<1>2. RunOk(p)'
  BY DEF RunInv, Own, Good, GoodProc, RunOk
<1>. QED
  BY <1>1, <1>2, StepRun

\* The state of a run in the graph, under an id that one process has.
LEMMA NodeRun ==
  ASSUME RunInv, Own', NEW p \in Processes, proc[p].at = "graph",
         NEW th, Return(p, th),
         make_thread_id' = make_thread_id, doubled' = doubled, db' = db,
         Id(p) \notin doubled => Ahead(db[Id(p)], th)
  PROVE  RunInv'
<1>. DEFINE r == [proc[p] EXCEPT !.thread = th, !.put = FALSE]
<1>1. proc' = [proc EXCEPT ![p] = r]
  BY DEF Return
<1>2. proc[p] \in Process /\ proc \in [Processes -> Process]
  BY DEF RunInv, Own, Good, GoodProc
<1>3. r.goal = proc[p].goal /\ r.at = "graph" /\ r.thread = th /\ r.put = FALSE
  BY <1>2 DEF Process
<1>. HIDE DEF r
<1>4. proc'[p] = r /\ Id(p)' = Id(p)
  BY <1>1, <1>2, <1>3 DEF Id
<1>5. RunOk(p)'
  BY <1>3, <1>4 DEF RunOk
<1>. QED
  BY <1>1, <1>3, <1>5, QuietRun DEF Active

LEMMA LaunchRun ==
  ASSUME RunInv, Own', NEW p \in Processes, NEW g \in Goals, NEW reset \in BOOLEAN,
         Launch(p, g, reset)
  PROVE  RunInv'
<1>. DEFINE r == [Idle EXCEPT !.at = IF reset THEN "reset" ELSE "look", !.goal = g]
<1>1. proc' = [proc EXCEPT ![p] = r]
  BY DEF Launch
<1>2. r.at # "graph" /\ r.put
  BY DEF Idle
<1>. HIDE DEF r
<1>3. proc'[p] = r /\ \A q \in Processes \ {p} : proc'[q] = proc[q] /\ Id(q)' = Id(q)
  BY <1>1 DEF RunInv, Own, Good, GoodProc, Id, Launch
<1>4. doubled \subseteq doubled' /\ db' = db
  BY DEF Launch
<1>5. \A i \in Ids : StoredOk(i)'
  BY <1>4 DEF RunInv, StoredOk
<1>6. RunOk(p)'
  BY <1>2, <1>3 DEF RunOk
<1>7. ASSUME NEW q \in Processes \ {p}
      PROVE  RunOk(q)'
  <2>. RunOk(q)
    BY DEF RunInv
  <2>. QED
    BY <1>3, <1>4 DEF RunOk
<1>. QED
  BY <1>5, <1>6, <1>7 DEF RunInv

LEMMA ResetRun ==
  ASSUME RunInv, Own', NEW p \in Processes, Reset(p)
  PROVE  RunInv'
<1>. PICK here \in Ids : here = Id(p)
  BY DEF RunInv, Own, Good, GoodProc, GoodProcess, TypeOK, Id, Reset
<1>. DEFINE r == [proc[p] EXCEPT !.at = "look"]
<1>1. proc' = [proc EXCEPT ![p] = r]
  BY DEF Reset
<1>2. proc[p] \in Process /\ proc \in [Processes -> Process] /\ proc[p].put
  BY DEF RunInv, Own, Good, GoodProc, RunOk, Reset
<1>3. r.goal = proc[p].goal /\ r.at = "look" /\ r.put
  BY <1>2 DEF Process
<1>. HIDE DEF r
<1>4. RunOk(p)'
  BY <1>1, <1>2, <1>3 DEF RunOk
<1>5. /\ \A i \in Ids \ {here} : db'[i] = db[i]
      /\ db'[here] = Absent
  BY DEF RunInv, Own, Good, GoodDb, Reset
<1>6. StoredOk(here)'
  BY <1>5 DEF StoredOk
<1>. QED
  BY <1>1, <1>3, <1>4, <1>5, <1>6, StepRun DEF Reset, Active, history

LEMMA LookRun ==
  ASSUME RunInv, Own', NEW p \in Processes, Look(p)
  PROVE  RunInv'
<1>1. proc[p] \in Process /\ proc \in [Processes -> Process] /\ proc[p].put
  BY DEF RunInv, Own, Good, GoodProc, RunOk, Look
<1>. DEFINE r == [proc[p] EXCEPT !.at = "stream", !.fresh = (db[Id(p)] = Absent)]
<1>2. r.goal = proc[p].goal /\ r.at = "stream" /\ r.put
  BY <1>1 DEF Process
<1>3. CASE proc' = [proc EXCEPT ![p] = Idle]
  BY <1>3, QuietRun DEF Look, Active, Idle, history
<1>4. CASE proc' = [proc EXCEPT ![p] = r]
  <2>. HIDE DEF r
  <2>1. RunOk(p)'
    BY <1>1, <1>2, <1>4 DEF RunOk
  <2>. QED
    BY <1>2, <1>4, <2>1, QuietRun DEF Look, Active, history
<1>. QED
  BY <1>3, <1>4 DEF Look

\* What is resumed is the checkpoint; an input is made where there is none.
LEMMA StreamRun ==
  ASSUME RunInv, Own', NEW p \in Processes, Stream(p)
  PROVE  RunInv'
<1>1. /\ proc[p] \in Process /\ proc \in [Processes -> Process] /\ proc[p].put
      /\ proc[p].at = "stream" /\ db' = db
      /\ make_thread_id' = make_thread_id /\ doubled' = doubled
      /\ Id(p) \notin doubled => Compared(p)
  BY DEF RunInv, Own, Good, GoodProc, RunOk, ProcOk, Stream, history
<1>. DEFINE base == db[Id(p)]
            r1 == [proc[p] EXCEPT !.at = "graph",
                     !.thread = InputOver(base, proc[p].goal), !.put = FALSE]
            r2 == [proc[p] EXCEPT !.at = "graph", !.thread = base,
                                  !.blind = (base.goal = None)]
<1>2. CASE proc[p].fresh
  <2>1. proc' = [proc EXCEPT ![p] = r1]
    BY <1>2 DEF Stream
  <2>2. r1.goal = proc[p].goal /\ r1.at = "graph" /\ r1.put = FALSE
        /\ r1.thread = InputOver(base, proc[p].goal)
    BY <1>1 DEF Process
  <2>3. Id(p) \notin doubled => Opened(base, r1.thread)
    BY <1>1, <1>2, <2>2 DEF Compared, Opened, InputOver, Input, Blank
  <2>. HIDE DEF r1
  <2>4. proc'[p] = r1 /\ Id(p)' = Id(p)
    BY <1>1, <2>1, <2>2 DEF Id
  <2>5. RunOk(p)'
    BY <1>1, <2>2, <2>3, <2>4 DEF RunOk, Ahead
  <2>. QED
    BY <1>1, <2>1, <2>2, <2>5, QuietRun DEF Active
<1>3. CASE ~proc[p].fresh /\ base = Absent
  <2>1. proc' = [proc EXCEPT ![p] = Idle]
    BY <1>3 DEF Stream
  <2>. QED
    BY <1>1, <2>1, QuietRun DEF Active, Idle
<1>4. CASE ~proc[p].fresh /\ base # Absent
  <2>1. proc' = [proc EXCEPT ![p] = r2]
    BY <1>4 DEF Stream
  <2>2. r2.goal = proc[p].goal /\ r2.at = "graph" /\ r2.put /\ r2.thread = base
    BY <1>1 DEF Process
  <2>. HIDE DEF r2
  <2>3. AtCheckpoint(base, r2.thread)
    BY <1>4, <2>2 DEF AtCheckpoint, SameRun
  <2>4. proc'[p] = r2 /\ Id(p)' = Id(p)
    BY <1>1, <2>1, <2>2 DEF Id
  <2>5. RunOk(p)'
    BY <1>1, <2>2, <2>3, <2>4 DEF RunOk
  <2>. QED
    BY <1>1, <2>1, <2>2, <2>5, QuietRun DEF Active
<1>. QED
  BY <1>2, <1>3, <1>4

LEMMA FlushRun ==
  ASSUME RunInv, Own', NEW p \in Processes, Flush(p)
  PROVE  RunInv'
<1>. PICK here \in Ids : here = Id(p)
  BY DEF RunInv, Own, Good, GoodProc, GoodProcess, TypeOK, Id, Flush
<1>. DEFINE r == [proc[p] EXCEPT !.put = TRUE]
<1>1. /\ proc[p] \in Process /\ proc \in [Processes -> Process] /\ ~proc[p].put
      /\ proc[p].at = "graph" /\ GoodThread(proc[p].thread)
      /\ make_thread_id' = make_thread_id /\ doubled' = doubled
      /\ here \notin doubled => Ahead(db[here], proc[p].thread)
      /\ proc' = [proc EXCEPT ![p] = r]
  BY DEF RunInv, Own, Good, GoodProc, GoodProcess, RunOk, Flush, history
<1>2. r.goal = proc[p].goal /\ r.at = "graph" /\ r.put /\ r.thread = proc[p].thread
  BY <1>1 DEF Process
<1>. HIDE DEF r
<1>3. proc'[p] = r /\ Id(p)' = here
  BY <1>1, <1>2 DEF Id
<1>4. /\ \A i \in Ids \ {here} : db'[i] = db[i]
      /\ db'[here] = proc[p].thread
  BY DEF RunInv, Own, Good, GoodDb, Flush
<1>5. StoredOk(here)
  BY DEF RunInv
<1>6. StoredOk(here)'
  BY <1>1, <1>4, <1>5 DEF StoredOk, Ahead, Opened, Begun, Agreed, Finished, GivenUp,
                          SameRun, Blank
<1>7. proc[p].thread # Absent
  BY <1>1, AbsentAssumption DEF GoodThread
<1>8. RunOk(p)'
  BY <1>1, <1>2, <1>3, <1>4, <1>7 DEF RunOk, AtCheckpoint, SameRun
<1>. QED
  BY <1>1, <1>2, <1>4, <1>6, <1>8, StepRun DEF Active

\* Where a node runs, the thread is at its checkpoint.
LEMMA AtNode ==
  ASSUME RunInv, NEW p \in Processes, NEW stage, Runs(p, stage)
  PROVE  /\ proc[p].at = "graph" /\ proc[p].put /\ Active(p)
         /\ proc[p] \in Process /\ proc \in [Processes -> Process]
         /\ GoodThread(proc[p].thread) /\ proc[p].thread.stage = stage
         /\ Id(p) \in Ids
         /\ Id(p) \notin doubled =>
              /\ AtCheckpoint(db[Id(p)], proc[p].thread)
              /\ db[Id(p)].stage # "committed"
              /\ db[Id(p)].stage \in {"input", "planning"} => Blank(db[Id(p)])
<1>1. proc[p].at = "graph" /\ proc[p].put /\ proc[p].thread.stage = stage
  BY DEF Runs
<1>2. /\ proc[p] \in Process /\ proc \in [Processes -> Process]
      /\ GoodThread(proc[p].thread) /\ Id(p) \in Ids
  BY <1>1 DEF RunInv, Own, Good, GoodProc, GoodProcess, TypeOK, Id
<1>3. RunOk(p) /\ StoredOk(Id(p))
  BY <1>2 DEF RunInv
<1>. QED
  BY <1>1, <1>2, <1>3 DEF RunOk, StoredOk, AtCheckpoint, SameRun, Active

LEMMA GraphRun ==
  ASSUME RunInv, Own', NEW p \in Processes, Graph(p)
  PROVE  RunInv'
<1>. DEFINE base == db[Id(p)]
            th == proc[p].thread
<1>1. CASE Flush(p)
  BY <1>1, FlushRun
<1>2. CASE Start(p)
  <2>1. Runs(p, "input") /\ Return(p, Started(th))
        /\ make_thread_id' = make_thread_id /\ doubled' = doubled /\ db' = db
    BY <1>2 DEF Start, history
  <2>2. Id(p) \notin doubled => Begun(base, Started(th))
    BY <2>1, AtNode DEF Begun, Started, Blank, AtCheckpoint, SameRun
  <2>. QED
    BY <2>1, <2>2, AtNode, NodeRun DEF Ahead
<1>3. CASE Approve(p)
  <2>. PICK n \in Lengths :
         Return(p, [th EXCEPT !.stage = "working", !.plan = Plan(th.goal, n),
                              !.todo = Plan(th.goal, n)])
    BY <1>3 DEF Approve
  <2>. DEFINE u == [th EXCEPT !.stage = "working", !.plan = Plan(th.goal, n),
                              !.todo = Plan(th.goal, n)]
  <2>1. Runs(p, "planning") /\ Return(p, u)
        /\ make_thread_id' = make_thread_id /\ doubled' = doubled /\ db' = db
    BY <1>3 DEF Approve, history
  <2>2. /\ u.stage = "working" /\ u.plan = Plan(th.goal, n) /\ u.todo = u.plan
        /\ u.goal = th.goal /\ u.done = th.done /\ th.goal \in Goals
    BY <2>1, AtNode DEF GoodThread, Thread
  <2>. HIDE DEF u
  <2>3. Id(p) \notin doubled => Agreed(base, u)
    BY <2>1, <2>2, AtNode DEF Agreed, AtCheckpoint, SameRun
  <2>. QED
    BY <2>1, <2>3, AtNode, NodeRun DEF Ahead
<1>4. CASE Change(p)
  <2>1. /\ proc' = proc /\ make_thread_id' = make_thread_id
        /\ doubled' = doubled /\ db' = db
    BY <1>4 DEF Change, history
  <2>. QED
    BY <2>1 DEF RunInv, StoredOk, RunOk, Id
<1>5. CASE Commit(p)
  <2>. DEFINE r == [proc[p] EXCEPT !.thread = [th EXCEPT !.stage = "committed"]]
  <2>1. Runs(p, "working") /\ proc' = [proc EXCEPT ![p] = r]
        /\ make_thread_id' = make_thread_id /\ doubled' = doubled /\ db' = db
    BY <1>5 DEF Commit, history
  <2>2. /\ r.goal = proc[p].goal /\ r.at = "graph" /\ r.put
        /\ r.thread.stage = "committed" /\ SameRun(th, r.thread)
    BY <2>1, AtNode, AbsentAssumption DEF GoodThread, Thread, Process, SameRun
  <2>. HIDE DEF r
  <2>3. Id(p) \notin doubled => AtCheckpoint(base, r.thread)
    BY <2>1, <2>2, AtNode, AbsentAssumption DEF AtCheckpoint, SameRun, GoodThread
  <2>4. RunOk(p)'
    BY <2>1, <2>2, <2>3, AtNode DEF RunOk, Id
  <2>. QED
    BY <2>1, <2>2, <2>4, AtNode, QuietRun
<1>6. CASE Finish(p)
  <2>. DEFINE u == [th EXCEPT !.stage = IF Len(th.todo) > 1 THEN "working" ELSE "ended",
                              !.done = Append(th.done, Head(th.todo)),
                              !.todo = Tail(th.todo)]
  <2>1. Runs(p, "committed") /\ Return(p, u)
        /\ make_thread_id' = make_thread_id /\ doubled' = doubled /\ db' = db
    BY <1>6 DEF Finish, history
  <2>2. /\ u.stage = IF Len(th.todo) > 1 THEN "working" ELSE "ended"
        /\ u.done = Append(th.done, Head(th.todo)) /\ u.todo = Tail(th.todo)
        /\ u.goal = th.goal /\ u.plan = th.plan
        /\ th.todo \in Seq(Step) /\ th.todo # <<>>
    BY <2>1, AtNode DEF GoodThread, Thread
  <2>. HIDE DEF u
  <2>3. Len(th.todo) > 1 <=> Tail(th.todo) # <<>>
    <3>1. Len(th.todo) > 1 => Tail(th.todo) # <<>>
      BY <2>2, TailLeft
    <3>2. Len(th.todo) = 1 => Tail(th.todo) = <<>>
      BY <2>2, LastTail
    <3>3. Len(th.todo) \in Nat /\ Len(th.todo) # 0
      BY <2>2, LenProperties, EmptySeq
    <3>. QED
      BY <3>1, <3>2, <3>3
  <2>4. Id(p) \notin doubled => Finished(base, u)
    BY <2>1, <2>2, <2>3, AtNode DEF Finished, AtCheckpoint, SameRun
  <2>. QED
    BY <2>1, <2>4, AtNode, NodeRun DEF Ahead
<1>7. CASE FinishNothing(p) \/ GiveUp(p)
  <2>. DEFINE u == [th EXCEPT !.stage = "ended"]
  <2>1. Runs(p, "working") /\ Return(p, u)
        /\ make_thread_id' = make_thread_id /\ doubled' = doubled /\ db' = db
    BY <1>7 DEF FinishNothing, GiveUp
  <2>2. /\ u.stage = "ended" /\ u.goal = th.goal /\ u.plan = th.plan
        /\ u.todo = th.todo /\ u.done = th.done
    BY <2>1, AtNode DEF GoodThread, Thread
  <2>. HIDE DEF u
  <2>3. Id(p) \notin doubled => GivenUp(base, u)
    BY <2>1, <2>2, AtNode DEF GivenUp, AtCheckpoint, SameRun
  <2>. QED
    BY <2>1, <2>3, AtNode, NodeRun DEF Ahead
<1>8. CASE Exit(p) \/ Crash(p)
  <2>1. /\ proc' = [proc EXCEPT ![p] = Idle] /\ Active(p)
        /\ make_thread_id' = make_thread_id /\ doubled' = doubled /\ db' = db
    BY <1>8 DEF Exit, Crash, Runs, Active, history
  <2>. QED
    BY <2>1, QuietRun DEF Idle
<1>. QED
  BY <1>1, <1>2, <1>3, <1>4, <1>5, <1>6, <1>7, <1>8 DEF Graph

LEMMA NextRun == RunInv /\ [Next]_vars => RunInv'
<1>. SUFFICES ASSUME RunInv, [Next]_vars PROVE RunInv'
  OBVIOUS
<1>1. Own'
  BY NextOwn DEF RunInv
<1>2. CASE UNCHANGED vars
  BY <1>1, <1>2 DEF vars, RunInv, StoredOk, RunOk, Id
<1>3. ASSUME NEW p \in Processes, Main(p) PROVE RunInv'
  BY <1>1, <1>3, LaunchRun, ResetRun, LookRun, StreamRun DEF Main
<1>4. ASSUME NEW p \in Processes, Graph(p) PROVE RunInv'
  BY <1>1, <1>4, GraphRun
<1>. QED
  BY <1>2, <1>3, <1>4 DEF Next

\* A background write is a step of TaskQueue, or none.
LEMMA FlushSteps ==
  ASSUME RunInv, NEW p \in Processes, Flush(p), NEW i, i = Id(p), i \notin doubled
  PROVE  /\ Queue(i)!Next \/ UNCHANGED Queue(i)!vars
         /\ Absent \notin {db[i], db'[i]} /\ db[i].goal # None =>
              /\ db'[i].goal = db[i].goal
              /\ Len(db'[i].done) >= Len(db[i].done)
<1>. DEFINE base == db[i]
            th == proc[p].thread
<1>1. /\ i \in Ids /\ GoodThread(th) /\ (base = Absent \/ GoodThread(base))
      /\ StoredOk(i) /\ DbOk(i) /\ Ahead(base, th)
      /\ db'[i] = th /\ th # Absent
  BY AbsentAssumption
     DEF RunInv, Own, Good, GoodDb, GoodProc, GoodProcess, TypeOK, Id, Flush, RunOk,
         GoodThread
<1>2. /\ Stored(i).stage = IF base = Absent \/ base.stage = "input" THEN "planning"
                          ELSE base.stage
      /\ Stored(i).plan = IF base = Absent THEN <<>> ELSE base.plan
      /\ Stored(i).todo = IF base = Absent THEN <<>> ELSE base.todo
      /\ Stored(i).done = IF base = Absent THEN <<>> ELSE base.done
  BY <1>1 DEF Stored, Input, GoodThread, Thread
<1>3. /\ Stored(i).stage' = IF th.stage = "input" THEN "planning" ELSE th.stage
      /\ Stored(i).plan' = th.plan /\ Stored(i).todo' = th.todo
      /\ Stored(i).done' = th.done
  BY <1>1 DEF Stored, GoodThread, Thread
<1>4. base # Absent => base.done \in Seq(Step) /\ base.todo \in Seq(Step)
                       /\ Len(base.done) \in Nat
  BY <1>1, LenProperties DEF GoodThread, Thread
<1>. HIDE DEF base, th
<1>5. CASE Opened(base, th)
  BY <1>2, <1>3, <1>5, <1>1 DEF Opened, Blank, Queue!vars, base
<1>6. CASE Begun(base, th)
  BY <1>1, <1>2, <1>3, <1>6 DEF Begun, Blank, Queue!vars, StoredOk, DbOk, OneGoal, base
<1>7. CASE Agreed(base, th)
  <2>. PICK n \in Lengths : th.plan = Plan(th.goal, n)
    BY <1>7 DEF Agreed
  <2>1. Queue(i)!Approve(Plan(th.goal, n))
    BY <1>1, <1>2, <1>3, <1>7 DEF Agreed, Queue!Approve
  <2>. QED
    BY <1>1, <1>4, <1>7, <2>1 DEF Agreed, Queue!Next, base
<1>8. CASE Finished(base, th)
  <2>1. Queue(i)!Finish
    BY <1>1, <1>2, <1>3, <1>8 DEF Finished, Queue!Finish
  <2>2. Len(th.done) >= Len(base.done)
    BY <1>4, <1>8, AppendProperties DEF Finished
  <2>. QED
    BY <1>1, <1>8, <2>1, <2>2 DEF Finished, Queue!Next, base
<1>9. CASE GivenUp(base, th)
  <2>1. Queue(i)!Stop
    BY <1>1, <1>2, <1>3, <1>9 DEF GivenUp, SameRun, Queue!Stop
  <2>. QED
    BY <1>1, <1>4, <1>9, <2>1 DEF GivenUp, SameRun, Queue!Next, base
<1>. QED
  BY <1>1, <1>5, <1>6, <1>7, <1>8, <1>9 DEF Ahead

\* What a step does to the checkpoint of an id.
LEMMA StoredSteps ==
  ASSUME RunInv, [Next]_vars, NEW i \in Ids
  PROVE  \/ db'[i] = db[i]
         \/ db'[i] = Absent /\ \E p \in Processes : proc[p].at = "reset" /\ Id(p) = i
         \/ \E p \in Processes : Flush(p) /\ Id(p) = i
<1>1. db \in [Ids -> Thread \cup {Absent}]
  BY DEF RunInv, Own, Good, GoodDb
<1>2. ASSUME NEW p \in Processes, Main(p)
      PROVE  db' = db \/ Reset(p)
  BY <1>2 DEF Main, Launch, Look, Stream
<1>3. ASSUME NEW p \in Processes, Graph(p)
      PROVE  db' = db \/ Flush(p)
  BY <1>3 DEF Graph, Start, Approve, Change, Commit, Finish,
       FinishNothing, GiveUp, Exit, Crash
<1>4. ASSUME NEW p \in Processes, Reset(p), Id(p) # i
      PROVE  db'[i] = db[i]
  BY <1>1, <1>4 DEF Reset
<1>5. ASSUME NEW p \in Processes, Reset(p), Id(p) = i
      PROVE  db'[i] = Absent /\ proc[p].at = "reset"
  BY <1>1, <1>5 DEF Reset
<1>6. ASSUME NEW p \in Processes, Flush(p), Id(p) # i
      PROVE  db'[i] = db[i]
  BY <1>1, <1>6 DEF Flush
<1>7. CASE UNCHANGED vars
  BY <1>7 DEF vars
<1>8. CASE Next
  BY <1>2, <1>3, <1>4, <1>5, <1>6, <1>8 DEF Next
<1>. QED
  BY <1>7, <1>8

\* For any number of goals, ids and processes, and any crashes and launches: what
\* is stored under an id takes only steps of TaskQueue, is deleted only by a
\* --reset, and keeps its goal and what is done, as long as no two processes
\* have met under it.
THEOREM StoredRunHolds == Spec => StoredRunIsTaskQueue
<1>. DEFINE Kept(i) ==
       /\ db[i] # Absent /\ db'[i] = Absent =>
            \E p \in Processes : proc[p].at = "reset" /\ Id(p) = i
       /\ i \in doubled \/ Queue(i)!Next \/ UNCHANGED Queue(i)!vars
       /\ i \notin doubled /\ Absent \notin {db[i], db'[i]} /\ db[i].goal # None =>
            /\ db'[i].goal = db[i].goal
            /\ Len(db'[i].done) >= Len(db[i].done)
<1>1. ASSUME RunInv, [Next]_vars, NEW i \in Ids PROVE Kept(i)
  <2>1. db[i] = Absent \/ GoodThread(db[i])
    BY <1>1 DEF RunInv, Own, Good, GoodDb
  <2>2. CASE db'[i] = db[i]
    <3>1. UNCHANGED Queue(i)!vars
      BY <2>2 DEF Queue!vars, Stored
    <3>2. db[i] # Absent => Len(db[i].done) \in Nat
      BY <2>1, LenProperties DEF GoodThread, Thread
    <3>. QED
      BY <2>2, <3>1, <3>2
  <2>3. CASE db'[i] = Absent /\ \E p \in Processes : proc[p].at = "reset" /\ Id(p) = i
    <3>1. Queue(i)!Restart
      BY <2>3 DEF Queue!Restart, Stored, Input
    <3>. QED
      BY <2>3, <3>1 DEF Queue!Next
  <2>4. ASSUME NEW p \in Processes, Flush(p), Id(p) = i
        PROVE  Kept(i)
    <3>1. proc[p].at = "graph" /\ db'[i] = proc[p].thread
      BY <1>1, <2>4 DEF RunInv, Own, Good, GoodDb, Flush
    <3>2. db'[i] # Absent
      BY <1>1, <3>1, AbsentAssumption
         DEF RunInv, Own, Good, GoodProc, GoodProcess, GoodThread
    <3>3. i \notin doubled =>
            /\ Queue(i)!Next \/ UNCHANGED Queue(i)!vars
            /\ Absent \notin {db[i], db'[i]} /\ db[i].goal # None =>
                 /\ db'[i].goal = db[i].goal
                 /\ Len(db'[i].done) >= Len(db[i].done)
      BY <1>1, <2>4, FlushSteps
    <3>. QED
      BY <3>2, <3>3
  <2>. QED
    BY <1>1, <2>2, <2>3, <2>4, StoredSteps
<1>2. RunInv /\ [Next]_vars => [\A i \in Ids : Kept(i)]_vars
  BY <1>1
<1>. QED
  BY <1>2, InitRun, NextRun, PTL DEF Spec, StoredRunIsTaskQueue

-----------------------------------------------------------------------------
(* The order of the stored run *)

\* What is done and what is left of a run are, in this order, its plan, and the
\* plan is one of its goal; before the approval there is nothing, and only a
\* plan without steps is worked at with nothing left.
InOrder(th) ==
  /\ th.done \o th.todo = th.plan
  /\ th.plan # <<>> =>
       th.goal \in Goals /\ \E n \in Lengths : th.plan = Plan(th.goal, n)
  /\ th.stage \in {"input", "planning"} => th.plan = <<>>
  /\ th.stage = "working" /\ th.plan # <<>> => th.todo # <<>>

StoredInOrder ==
  \A i \in Ids : i \in doubled \/ db[i] = Absent \/ InOrder(db[i])

LEMMA MovedHead ==
  ASSUME NEW S, NEW s \in Seq(S), NEW t \in Seq(S), t # <<>>
  PROVE  Append(s, Head(t)) \o Tail(t) = s \o t
<1>. DEFINE h == Head(t)
<1>1. h \in S /\ Tail(t) \in Seq(S) /\ <<h>> \in Seq(S)
  BY HeadTailProperties
<1>2. Append(s, h) = s \o <<h>>
  BY <1>1, AppendIsConcat
<1>3. <<h>> \o Tail(t) = t
  OBVIOUS
<1>. HIDE DEF h
<1>4. (s \o <<h>>) \o Tail(t) = s \o (<<h>> \o Tail(t))
  BY <1>1, ConcatAssociative
<1>5. Append(s, h) \o Tail(t) = s \o t
  BY <1>2, <1>3, <1>4
<1>. QED BY <1>5 DEF h

\* A checkpoint written by a process that is alone under its id is in order when
\* the one it replaces is.
LEMMA FlushInOrder ==
  ASSUME RunInv, StoredInOrder, NEW p \in Processes, Flush(p), NEW i, i = Id(p),
         i \notin doubled
  PROVE  InOrder(db'[i])
<1>. DEFINE base == db[i]
            th == proc[p].thread
<1>1. /\ i \in Ids /\ GoodThread(th) /\ (base = Absent \/ GoodThread(base))
      /\ StoredOk(i) /\ Ahead(base, th) /\ db'[i] = th
      /\ base = Absent \/ InOrder(base)
  BY DEF RunInv, Own, Good, GoodDb, GoodProc, GoodProcess, TypeOK, Id, Flush, RunOk,
         GoodThread, StoredInOrder
<1>2. base # Absent => base.done \in Seq(Step) /\ base.todo \in Seq(Step)
  BY <1>1 DEF GoodThread, Thread
<1>3. base # Absent /\ base.stage \in {"input", "planning"} => Blank(base)
  BY <1>1 DEF StoredOk
<1>. HIDE DEF base, th
<1>4. ASSUME Blank(th), th.stage # "working" PROVE InOrder(th)
  <2>1. <<>> \o <<>> = <<>>
    BY EmptySeq, ConcatEmptySeq
  <2>. QED BY <1>4, <2>1 DEF Blank, InOrder
<1>5. CASE Opened(base, th) \/ Begun(base, th)
  BY <1>1, <1>4, <1>5 DEF Opened, Begun
<1>6. CASE Agreed(base, th)
  <2>1. /\ th.done = <<>> /\ th.todo = th.plan
        /\ \E n \in Lengths : th.plan = Plan(th.goal, n)
        /\ th.goal \in Goals /\ th.stage = "working"
    BY <1>3, <1>6 DEF Agreed, Blank
  <2>2. <<>> \o th.todo = th.todo
    BY <1>1, ConcatEmptySeq DEF GoodThread, Thread
  <2>. QED BY <1>1, <2>1, <2>2 DEF InOrder
<1>7. CASE Finished(base, th)
  <2>1. th.done \o th.todo = base.done \o base.todo
    BY <1>2, <1>7, MovedHead DEF Finished
  <2>. QED BY <1>1, <1>7, <2>1 DEF Finished, InOrder
<1>8. CASE GivenUp(base, th)
  BY <1>1, <1>8 DEF GivenUp, SameRun, InOrder
<1>. QED
  BY <1>1, <1>5, <1>6, <1>7, <1>8 DEF Ahead

LEMMA NextInOrder ==
  ASSUME RunInv, StoredInOrder, [Next]_vars
  PROVE  StoredInOrder'
<1>. SUFFICES ASSUME NEW i \in Ids, i \notin doubled', db'[i] # Absent
              PROVE  InOrder(db'[i])
  BY DEF StoredInOrder
<1>1. i \notin doubled
  <2>1. \A p \in Processes : Main(p) => doubled \subseteq doubled'
    BY DEF Main, Launch, Reset, Look, Stream, history
  <2>2. \A p \in Processes : Graph(p) => doubled' = doubled
    BY DEF Graph, Flush, Start, Approve, Change, Commit, Finish,
       FinishNothing, GiveUp, Exit, Crash, history
  <2>. QED BY <2>1, <2>2 DEF Next, vars
<1>2. CASE db'[i] = db[i]
  BY <1>1, <1>2 DEF StoredInOrder
<1>3. ASSUME NEW p \in Processes, Flush(p), Id(p) = i
      PROVE  InOrder(db'[i])
  BY <1>1, <1>3, FlushInOrder
<1>. QED
  BY <1>2, <1>3, StoredSteps

\* As long as no two processes have met under an id, the stored run has done a
\* first part of its goal's plan and has the rest to do, whatever crashes and
\* launches there were.
THEOREM StoredInOrderHolds == Spec => []StoredInOrder
<1>1. Init => StoredInOrder
  BY DEF Init, StoredInOrder
<1>2. RunInv /\ StoredInOrder /\ [Next]_vars => StoredInOrder'
  BY NextInOrder
<1>. QED
  BY <1>1, <1>2, InitRun, NextRun, PTL DEF Spec

\* For somebody who never runs two processes at one time: at most one is active,
\* no id is shared, and every stored run is in order.
OneAtATime ==
  ~together =>
    /\ \A p, q \in Processes : Active(p) /\ Active(q) => p = q
    /\ doubled = {}
    /\ \A i \in Ids : db[i] = Absent \/ InOrder(db[i])

THEOREM OneAtATimeHolds == Spec => []OneAtATime
<1>. DEFINE Apart == together \/ doubled = {}
<1>1. Init => Apart
  BY DEF Init
<1>2. Apart /\ [Next]_vars => Apart'
  <2>. SUFFICES ASSUME Apart, [Next]_vars PROVE Apart'
    OBVIOUS
  <2>1. ASSUME NEW p \in Processes, NEW g \in Goals, NEW reset \in BOOLEAN,
               Launch(p, g, reset)
        PROVE  Apart'
    BY <2>1 DEF Launch
  <2>2. ASSUME NEW p \in Processes, Reset(p) \/ Look(p) \/ Stream(p) \/ Graph(p)
        PROVE  together' = together /\ doubled' = doubled
    BY <2>2 DEF Reset, Look, Stream, Graph, Flush, Start, Approve, Change, Commit,
                Finish, FinishNothing, GiveUp, Exit, Crash, history
  <2>. QED
    BY <2>1, <2>2 DEF Next, Main, vars
<1>3. TreeInv /\ Apart /\ StoredInOrder => OneAtATime
  BY DEF TreeInv, Left, StoredInOrder, OneAtATime
<1>4. Spec => []Apart
  BY <1>1, <1>2, PTL DEF Spec
<1>. QED
  BY <1>3, <1>4, InitTree, NextTree, StoredInOrderHolds, PTL DEF Spec
=============================================================================
