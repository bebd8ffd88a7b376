----------------------- MODULE OrchestratorHistoryProofs -----------------------
(***************************************************************************)
(* Theorems about the conversation that coder_node sends to the LLM, the   *)
(* counters that go with it, and the step it is about.  At the end, why an *)
(* approved plan cannot go on for ever.                                    *)
(***************************************************************************)
EXTENDS OrchestratorWorldProofs

-----------------------------------------------------------------------------
(* Conversations *)

\* A message's calls have the message's position in them; an answer is to a
\* call of an earlier message.
Named(ms) ==
  \A i \in 1..Len(ms) : \A k \in 1..Len(ms[i].calls) : ms[i].calls[k] = <<i, k>>
AnswersBefore(ms) ==
  \A j \in 1..Len(ms) : ms[j].answers # None => ms[j].answers[1] < j

\* A call that has exactly one answer, and a conversation whose first n
\* messages have no other ones.
OneAnswer(ms, c) ==
  \E j \in 1..Len(ms) :
    /\ ms[j].answers = c
    /\ \A l \in 1..Len(ms) : ms[l].answers = c => l = j
AnsweredTo(ms, n) ==
  \A i \in 1..n : \A k \in 1..Len(ms[i].calls) : OneAnswer(ms, <<i, k>>)

Own(ms, t) == \A i \in 1..Len(ms) : ms[i].task = t

LEMMA TurnsFinite ==
  ASSUME NEW ms \in Seq(Message)
  PROVE  /\ IsFiniteSet(ToolTurns(ms)) /\ IsFiniteSet(FinalTurns(ms))
         /\ Cardinality(ToolTurns(ms)) \in Nat /\ Cardinality(FinalTurns(ms)) \in Nat
<1>1. Len(ms) \in Nat
  BY LenProperties
<1>2. IsFiniteSet(1..Len(ms))
  BY <1>1, FS_Interval
<1>3. ToolTurns(ms) \subseteq 1..Len(ms) /\ FinalTurns(ms) \subseteq 1..Len(ms)
  BY DEF ToolTurns, FinalTurns
<1>4. IsFiniteSet(ToolTurns(ms)) /\ IsFiniteSet(FinalTurns(ms))
  BY <1>2, <1>3, FS_Subset
<1> QED BY <1>4, FS_CardinalityType

\* The empty conversation has every property of one.
LEMMA EmptyConversation ==
  /\ \A n \in Int : n <= 0 => AnsweredTo(<<>>, n)
  /\ Named(<<>>) /\ AnswersBefore(<<>>) /\ \A t : Own(<<>>, t)
  /\ ToolTurns(<<>>) = {} /\ FinalTurns(<<>>) = {}
  /\ Cardinality({}) = 0
<1>1. Len(<<>>) = 0
  OBVIOUS
<1> QED BY <1>1, FS_EmptySet
     DEF AnsweredTo, Named, AnswersBefore, Own, ToolTurns, FinalTurns

\* What is where in a conversation with one message more.
LEMMA OneMore ==
  ASSUME NEW ms \in Seq(Message), NEW m \in Message
  PROVE  LET new == ms \o <<m>> IN
         /\ new \in Seq(Message) /\ Len(ms) \in Nat /\ Len(new) = Len(ms) + 1
         /\ \A i \in 1..Len(ms) : i \in 1..Len(new) /\ new[i] = ms[i]
         /\ Len(new) \in 1..Len(new) /\ new[Len(new)] = m
         /\ \A i \in 1..Len(new) : i \in 1..Len(ms) \/ i = Len(new)
<1> DEFINE new == ms \o <<m>>
<1>1. <<m>> \in Seq(Message) /\ Len(<<m>>) = 1 /\ <<m>>[1] = m
  OBVIOUS
<1>2. Len(ms) \in Nat /\ new \in Seq(Message) /\ Len(new) = Len(ms) + 1
  BY <1>1, LenProperties, ConcatProperties
<1>3. \A i \in 1..Len(ms) : new[i] = ms[i]
  BY <1>1, <1>2, ConcatProperties
<1>4. new[Len(ms) + 1] = m
  BY <1>1, <1>2, ConcatProperties
<1> HIDE DEF new
<1>5. /\ \A i \in 1..Len(ms) : i \in 1..Len(new)
      /\ Len(new) \in 1..Len(new)
      /\ \A i \in 1..Len(new) : i \in 1..Len(ms) \/ i = Len(new)
  BY <1>2
<1> QED BY <1>2, <1>3, <1>4, <1>5 DEF new

\* A message of a human or a tool ends no turn.
LEMMA TurnsKept ==
  ASSUME NEW ms \in Seq(Message), NEW m \in Message, m.role # "ai"
  PROVE  /\ ToolTurns(ms \o <<m>>) = ToolTurns(ms)
         /\ FinalTurns(ms \o <<m>>) = FinalTurns(ms)
<1> DEFINE new == ms \o <<m>>
<1>1. /\ \A i \in 1..Len(ms) : i \in 1..Len(new) /\ new[i] = ms[i]
      /\ new[Len(new)] = m
      /\ \A i \in 1..Len(new) : i \in 1..Len(ms) \/ i = Len(new)
  BY OneMore
<1> HIDE DEF new
<1>2. ToolTurns(new) = ToolTurns(ms) /\ FinalTurns(new) = FinalTurns(ms)
  BY <1>1 DEF ToolTurns, FinalTurns
<1> QED BY <1>2 DEF new

\* A response ends one turn, with tool calls or without.
LEMMA TurnsMore ==
  ASSUME NEW ms \in Seq(Message), NEW m \in Message, m.role = "ai"
  PROVE  /\ Cardinality(ToolTurns(ms \o <<m>>)) =
              Cardinality(ToolTurns(ms)) + IF m.calls # <<>> THEN 1 ELSE 0
         /\ Cardinality(FinalTurns(ms \o <<m>>)) =
              Cardinality(FinalTurns(ms)) + IF m.calls # <<>> THEN 0 ELSE 1
<1> DEFINE new == ms \o <<m>>
<1>1. /\ \A i \in 1..Len(ms) : i \in 1..Len(new) /\ new[i] = ms[i]
      /\ Len(new) \in 1..Len(new) /\ new[Len(new)] = m
      /\ \A i \in 1..Len(new) : i \in 1..Len(ms) \/ i = Len(new)
      /\ Len(ms) \in Nat /\ Len(new) = Len(ms) + 1
  BY OneMore
<1> HIDE DEF new
<1>2. /\ ToolTurns(new) = IF m.calls # <<>> THEN ToolTurns(ms) \cup {Len(new)}
                          ELSE ToolTurns(ms)
      /\ FinalTurns(new) = IF m.calls # <<>> THEN FinalTurns(ms)
                           ELSE FinalTurns(ms) \cup {Len(new)}
  BY <1>1 DEF ToolTurns, FinalTurns
<1>3. Len(new) \notin ToolTurns(ms) /\ Len(new) \notin FinalTurns(ms)
  BY <1>1 DEF ToolTurns, FinalTurns
<1>4. /\ IsFiniteSet(ToolTurns(ms)) /\ IsFiniteSet(FinalTurns(ms))
      /\ Cardinality(ToolTurns(ms)) \in Nat /\ Cardinality(FinalTurns(ms)) \in Nat
  BY TurnsFinite
<1>5. /\ Cardinality(ToolTurns(ms) \cup {Len(new)}) = Cardinality(ToolTurns(ms)) + 1
      /\ Cardinality(FinalTurns(ms) \cup {Len(new)}) = Cardinality(FinalTurns(ms)) + 1
  BY <1>3, <1>4, FS_AddElement
<1> QED BY <1>2, <1>4, <1>5 DEF new

\* _sanitize_history drops nothing of a conversation without open calls.
LEMMA NothingDropped ==
  ASSUME NEW ms \in Seq(Message), Named(ms), AnsweredTo(ms, Len(ms))
  PROVE  sanitize_history(ms) = ms
<1>1. Len(ms) \in Nat
  BY LenProperties
<1>2. ASSUME NEW i \in 1..Len(ms) PROVE ~Orphan(ms, i)
  <2>1. ASSUME NEW k \in 1..Len(ms[i].calls) PROVE ms[i].calls[k] \in Answered(ms)
    <3>1. ms[i].calls[k] = <<i, k>>
      BY <2>1 DEF Named
    <3>2. PICK j \in 1..Len(ms) : ms[j].answers = <<i, k>>
      BY <2>1 DEF AnsweredTo, OneAnswer
    <3> QED BY <3>1, <3>2 DEF Answered
  <2> QED BY <2>1 DEF Orphan
<1> DEFINE Cut(n) == /\ n = 0 \/ ~Orphan(ms, n)
                     /\ \A i \in (n + 1)..Len(ms) : Orphan(ms, i)
<1>3. Len(ms) \in 0..Len(ms) /\ Cut(Len(ms))
  BY <1>1, <1>2
<1>4. ASSUME NEW n \in 0..Len(ms), Cut(n) PROVE n = Len(ms)
  <2>1. n # Len(ms) => n + 1 \in (n + 1)..Len(ms) /\ n + 1 \in 1..Len(ms)
    BY <1>1
  <2> QED BY <1>2, <1>4, <2>1
<1>5. (CHOOSE n \in 0..Len(ms) : Cut(n)) = Len(ms)
  <2> HIDE DEF Cut
  <2> QED BY <1>3, <1>4
<1>6. sanitize_history(ms) = SubSeq(ms, 1, Len(ms))
  BY <1>5 DEF sanitize_history
<1>7. SubSeq(ms, 1, Len(ms)) = ms
  OBVIOUS
<1> QED BY <1>6, <1>7

\* What coder_node stores: a message whose calls, if it has any, are open.
LEMMA StoreKeeps ==
  ASSUME NEW ms \in Seq(Message), NEW t, NEW m \in Message,
         Own(ms, t), Named(ms), AnswersBefore(ms), AnsweredTo(ms, Len(ms)),
         m.task = t, m.answers = None,
         \A k \in 1..Len(m.calls) : m.calls[k] = <<Len(ms) + 1, k>>
  PROVE  LET new == ms \o <<m>> IN
         /\ Own(new, t) /\ Named(new) /\ AnswersBefore(new)
         /\ AnsweredTo(new, Len(new) - 1)
         /\ m.calls = <<>> => AnsweredTo(new, Len(new))
<1> DEFINE new == ms \o <<m>>
<1>1. /\ Len(ms) \in Nat /\ Len(new) = Len(ms) + 1
      /\ \A i \in 1..Len(ms) : i \in 1..Len(new) /\ new[i] = ms[i]
      /\ Len(new) \in 1..Len(new) /\ new[Len(new)] = m
      /\ \A i \in 1..Len(new) : i \in 1..Len(ms) \/ i = Len(new)
  BY OneMore
<1> HIDE DEF new
<1>2. Own(new, t)
  BY <1>1 DEF Own
<1>3. Named(new)
  BY <1>1 DEF Named
<1>4. AnswersBefore(new)
  BY <1>1 DEF AnswersBefore
<1>5. ASSUME NEW i \in 1..Len(ms), NEW k \in 1..Len(new[i].calls)
      PROVE  OneAnswer(new, <<i, k>>)
  <2>1. new[i] = ms[i]
    BY <1>1
  <2>2. PICK j \in 1..Len(ms) :
          /\ ms[j].answers = <<i, k>>
          /\ \A l \in 1..Len(ms) : ms[l].answers = <<i, k>> => l = j
    BY <1>5, <2>1 DEF AnsweredTo, OneAnswer
  <2>3. k \in Nat /\ i \in Nat
    BY <1>1
  <2>4. m.answers # <<i, k>>
    BY <2>3, NoneAssumption DEF CallId
  <2>5. j \in 1..Len(new) /\ new[j].answers = <<i, k>>
    BY <1>1, <2>2
  <2>6. ASSUME NEW l \in 1..Len(new), new[l].answers = <<i, k>> PROVE l = j
    BY <1>1, <2>2, <2>4, <2>6
  <2> QED BY <2>5, <2>6 DEF OneAnswer
<1>6. Len(new) - 1 = Len(ms)
  BY <1>1
<1>7. AnsweredTo(new, Len(new) - 1)
  BY <1>5, <1>6 DEF AnsweredTo
<1>8. ASSUME m.calls = <<>> PROVE AnsweredTo(new, Len(new))
  <2>1. \A k \in 1..Len(new[Len(new)].calls) : FALSE
    <3>1. Len(<<>>) = 0
      OBVIOUS
    <3> QED BY <1>1, <1>8, <3>1
  <2> QED BY <1>1, <1>5, <2>1 DEF AnsweredTo
<1> QED BY <1>2, <1>3, <1>4, <1>7, <1>8 DEF new

\* What ToolNode stores: an answer to each open call of the last message.
LEMMA AnswersKeep ==
  ASSUME NEW ms \in Seq(Message), ms # <<>>, NEW t \in Tasks \cup {Unknown},
         Own(ms, t), Named(ms), AnswersBefore(ms), AnsweredTo(ms, Len(ms) - 1)
  PROVE  LET calls == ms[Len(ms)].calls
             new == ms \o [k \in 1..Len(calls) |-> ToolMessage(t, calls[k])]
         IN /\ Own(new, t) /\ Named(new) /\ AnswersBefore(new)
            /\ AnsweredTo(new, Len(new))
            /\ ToolTurns(new) = ToolTurns(ms) /\ FinalTurns(new) = FinalTurns(ms)
<1> DEFINE L == Len(ms)
           calls == ms[L].calls
           n == Len(calls)
           answers == [k \in 1..n |-> ToolMessage(t, calls[k])]
           new == ms \o answers
<1>1. L \in Nat /\ L \in 1..L
  BY LenProperties, EmptySeq
<1>2. ms[L] \in Message
  BY <1>1, ElementOfSeq
<1>3. calls \in Seq(CallId) /\ n \in Nat
  <2>1. calls \in Seq(CallId)
    BY <1>2 DEF Message
  <2> QED BY <2>1, LenProperties
<1>4. \A k \in 1..n : calls[k] = <<L, k>>
  BY <1>1 DEF Named
<1> HIDE DEF calls, L
<1>5. \A k \in 1..n : ToolMessage(t, calls[k]) \in Message
  <2>1. \A k \in 1..n : calls[k] \in CallId
    BY <1>3, ElementOfSeq
  <2> QED BY <2>1 DEF ToolMessage, Message
<1> HIDE DEF n
<1>6. answers \in Seq(Message) /\ Len(answers) = n
  BY <1>3, <1>5, IsASeq
<1>7. \A k \in 1..n : answers[k] = ToolMessage(t, <<L, k>>)
  BY <1>4
<1> HIDE DEF answers
<1>8. /\ Len(new) = L + n
      /\ \A i \in 1..L : new[i] = ms[i]
      /\ \A k \in 1..n : new[L + k] = ToolMessage(t, <<L, k>>)
  <2>1. Len(new) = L + n
    BY <1>6, ConcatProperties DEF L
  <2>2. \A i \in 1..L : new[i] = ms[i]
    BY <1>1, <1>3, <1>6, ConcatProperties DEF L
  <2>3. \A k \in 1..n : new[L + k] = answers[k]
    BY <1>1, <1>3, <1>6, ConcatProperties DEF L
  <2> QED BY <1>7, <2>1, <2>2, <2>3
<1>9. \A i \in 1..Len(new) : i \in 1..L \/ \E k \in 1..n : i = L + k
  <2>1. ASSUME NEW i \in 1..(L + n), i \notin 1..L PROVE i - L \in 1..n /\ i = L + (i - L)
    BY <1>1, <1>3, <2>1
  <2> HIDE DEF new
  <2> QED BY <1>8, <2>1
<1>10. /\ \A i \in 1..L : i \in 1..Len(new) /\ i < L + 1
       /\ \A k \in 1..n : L + k \in 1..Len(new) /\ L < L + k /\ L + k \notin 1..L
  <2> HIDE DEF new
  <2> QED BY <1>1, <1>3, <1>8
<1> HIDE DEF new
<1>11. \A k \in 1..n : /\ new[L + k].role = "tool" /\ new[L + k].task = t
                       /\ new[L + k].calls = <<>> /\ new[L + k].answers = <<L, k>>
  <2> TAKE k \in 1..n
  <2>1. new[L + k] = ToolMessage(t, <<L, k>>)
    BY <1>8
  <2> DEFINE m == ToolMessage(t, <<L, k>>)
  <2>2. m.role = "tool" /\ m.task = t /\ m.calls = <<>> /\ m.answers = <<L, k>>
    BY DEF ToolMessage
  <2> HIDE DEF m
  <2> QED BY <2>1, <2>2 DEF m
<1>12. Own(new, t)
  BY <1>8, <1>9, <1>11 DEF Own, L
<1>13. Len(<<>>) = 0
  OBVIOUS
<1>14. Named(new)
  <2> SUFFICES ASSUME NEW i \in 1..Len(new), NEW k \in 1..Len(new[i].calls)
               PROVE  new[i].calls[k] = <<i, k>>
    BY DEF Named
  <2>1. CASE i \in 1..L
    BY <1>8, <2>1 DEF Named, L
  <2>2. ASSUME NEW q \in 1..n, i = L + q PROVE FALSE
    BY <1>11, <1>13, <2>2
  <2> QED BY <1>9, <2>1, <2>2
<1>15. AnswersBefore(new)
  <2>1. \A k \in 1..n : <<L, k>>[1] < L + k
    BY <1>10
  <2> QED BY <1>8, <1>9, <1>11, <2>1 DEF AnswersBefore, L
<1>16. ToolTurns(new) = ToolTurns(ms) /\ FinalTurns(new) = FinalTurns(ms)
  <2>1. \A i \in 1..Len(new) : new[i].role = "ai" => i \in 1..L
    BY <1>9, <1>11
  <2> QED BY <1>8, <1>10, <2>1 DEF ToolTurns, FinalTurns, L
<1>17. ASSUME NEW i \in 1..L, i # L, NEW k \in 1..Len(new[i].calls)
       PROVE  OneAnswer(new, <<i, k>>)
  <2>1. i \in 1..(L - 1) /\ new[i] = ms[i]
    BY <1>1, <1>8, <1>17
  <2>2. PICK j \in 1..L :
          /\ ms[j].answers = <<i, k>>
          /\ \A l \in 1..L : ms[l].answers = <<i, k>> => l = j
    BY <2>1, <1>17 DEF AnsweredTo, OneAnswer, L
  <2>3. j \in 1..Len(new) /\ new[j].answers = <<i, k>>
    BY <1>8, <1>10, <2>2
  <2>4. ASSUME NEW l \in 1..Len(new), new[l].answers = <<i, k>> PROVE l = j
    <3>1. ASSUME NEW q \in 1..n, l = L + q PROVE FALSE
      <4>1. <<L, q>> = <<i, k>>
        BY <1>11, <2>4, <3>1
      <4> QED BY <1>17, <4>1
    <3>2. l \in 1..L
      BY <1>9, <3>1
    <3> QED BY <1>8, <2>2, <2>4, <3>2
  <2> QED BY <2>3, <2>4 DEF OneAnswer
<1>18. ASSUME NEW k \in 1..n PROVE OneAnswer(new, <<L, k>>)
  <2>1. L + k \in 1..Len(new) /\ new[L + k].answers = <<L, k>>
    BY <1>10, <1>11
  <2>2. ASSUME NEW l \in 1..Len(new), new[l].answers = <<L, k>> PROVE l = L + k
    <3>1. CASE l \in 1..L
      <4>1. ms[l].answers = <<L, k>>
        BY <1>8, <2>2, <3>1
      <4>2. <<L, k>> # None
        BY <1>1, <1>3, NoneAssumption DEF CallId
      <4>3. ms[l].answers[1] < l
        BY <3>1, <4>1, <4>2 DEF AnswersBefore, L
      <4>4. <<L, k>>[1] = L
        OBVIOUS
      <4>5. L < l /\ l <= L
        BY <1>1, <3>1, <4>1, <4>3, <4>4
      <4> QED BY <1>1, <3>1, <4>5
    <3>2. ASSUME NEW q \in 1..n, l = L + q PROVE l = L + k
      <4>1. <<L, q>> = <<L, k>>
        BY <1>11, <2>2, <3>2
      <4> QED BY <3>2, <4>1
    <3> QED BY <1>9, <3>1, <3>2
  <2> QED BY <2>1, <2>2 DEF OneAnswer
<1>19. AnsweredTo(new, Len(new))
  <2> SUFFICES ASSUME NEW i \in 1..Len(new), NEW k \in 1..Len(new[i].calls)
               PROVE  OneAnswer(new, <<i, k>>)
    BY DEF AnsweredTo
  <2>1. CASE i \in 1..L /\ i # L
    BY <1>17, <2>1
  <2>2. CASE i = L
    <3>1. new[L].calls = calls
      BY <1>1, <1>8 DEF calls
    <3> QED BY <1>18, <2>2, <3>1 DEF n
  <2>3. ASSUME NEW q \in 1..n, i = L + q PROVE FALSE
    BY <1>11, <1>13, <2>3
  <2> QED BY <1>9, <2>1, <2>2, <2>3
<1> QED BY <1>12, <1>14, <1>15, <1>16, <1>19 DEF new, answers, n, calls, L

-----------------------------------------------------------------------------
(* The invariant *)

\* Each turn that ended without tool calls is an attempt; the tester counts it.
AttemptsOf(th) ==
  /\ th.next \in {"coder", "coder_tools"} =>
       th.retry_count = Cardinality(FinalTurns(th.messages))
  /\ th.next = "tester" =>
       th.retry_count + 1 = Cardinality(FinalTurns(th.messages))

\* ToolNode finds the last message's calls open, every other node none.
AnswersOf(th) ==
  AnsweredTo(th.messages,
             IF th.next = "coder_tools" THEN Len(th.messages) - 1 ELSE Len(th.messages))

BudgetOf(th) ==
  /\ th.tool_call_count = Cardinality(ToolTurns(th.messages))
  /\ Obedient /\ MaxToolCalls # 0 => th.tool_call_count <= MaxToolCalls

\* The conversation and the plan of steps begin with the approval.
BeginsOf(th) == IF th.plan_approved THEN th.step_plans = StepPlans(th.plan)
                ELSE th.messages = <<>>

HistoryInv(th) ==
  /\ Own(th.messages, CurrentTask(th))
  /\ Named(th.messages)
  /\ AnswersBefore(th.messages)
  /\ AnswersOf(th)
  /\ AttemptsOf(th)
  /\ BudgetOf(th)
  /\ BeginsOf(th)

HInv == HistoryInv(thread) /\ HistoryInv(saved)

\* An empty conversation, with its counters at zero.
LEMMA EmptyKeeps ==
  ASSUME NEW u, u.messages = <<>>, u.tool_call_count = 0, u.next # "tester",
         u.next \in {"coder", "coder_tools"} => u.retry_count = 0,
         BeginsOf(u)
  PROVE  HistoryInv(u)
<1>1. Len(<<>>) = 0
  OBVIOUS
<1>2. AnsweredTo(<<>>, 0) /\ AnsweredTo(<<>>, 0 - 1)
  BY EmptyConversation
<1>3. AnswersOf(u)
  BY <1>1, <1>2 DEF AnswersOf
<1>4. AttemptsOf(u)
  BY EmptyConversation DEF AttemptsOf
<1>5. BudgetOf(u)
  <2>1. 0 <= MaxToolCalls
    BY BudgetAssumption
  <2>2. Cardinality(ToolTurns(u.messages)) = 0
    BY EmptyConversation
  <2> QED BY <2>1, <2>2, Zenon DEF BudgetOf
<1> QED BY <1>3, <1>4, <1>5, EmptyConversation DEF HistoryInv

LEMMA PlannerKeepsHistory ==
  ASSUME IInv, HistoryInv(thread), NEW draft \in Drafts, PlannerResumes(draft)
  PROVE  HistoryInv(thread')
<1> USE DEF Runs, Return
<1>1. thread \in Thread /\ ~thread.plan_approved
  BY DEF IInv, TypeOK, ThreadInv, PlannerIsFirst, PlannerResumes
<1>2. thread.messages = <<>>
  BY <1>1 DEF HistoryInv, BeginsOf
<1>3. thread.tool_call_count = 0
  BY <1>2, EmptyConversation DEF HistoryInv, BudgetOf
<1>4. PICK t \in {PlanApproved(thread, draft), PlanRevised(thread, draft)} :
        thread' = [t EXCEPT !.next = plan_evaluator(t)]
  BY DEF PlannerResumes
<1>5. t \in Thread
  BY <1>1, PlanApprovedType, PlanRevisedType
<1>6. /\ thread'.messages = t.messages /\ thread'.tool_call_count = t.tool_call_count
      /\ thread'.retry_count = t.retry_count /\ thread'.plan_approved = t.plan_approved
      /\ thread'.step_plans = t.step_plans /\ thread'.plan = t.plan
      /\ thread'.next = plan_evaluator(t)
  BY <1>4, <1>5 DEF Thread
<1>7. CASE t = PlanApproved(thread, draft)
  <2>1. /\ t.messages = <<>> /\ t.tool_call_count = 0 /\ t.retry_count = 0
        /\ t.plan_approved /\ t.step_plans = StepPlans(draft) /\ t.plan = draft
    BY <1>1, <1>2, <1>7 DEF PlanApproved, Thread
  <2> QED BY <1>6, <2>1, EmptyKeeps DEF BeginsOf, plan_evaluator
<1>8. CASE t = PlanRevised(thread, draft)
  <2>1. t.messages = <<>> /\ t.tool_call_count = 0 /\ ~t.plan_approved
    BY <1>1, <1>2, <1>3, <1>8 DEF PlanRevised, Thread
  <2> QED BY <1>6, <2>1, EmptyKeeps DEF BeginsOf, plan_evaluator
<1> QED BY <1>7, <1>8

LEMMA CoderKeepsHistory ==
  ASSUME IInv, HistoryInv(thread), NEW n \in 0..MaxBatch, CoderNode(n)
  PROVE  HistoryInv(thread')
<1> USE DEF Runs, Return
<1> DEFINE ms == thread.messages
           task == CurrentTask(thread)
           seed == IF ms = <<>> THEN <<HumanMessage(task)>> ELSE <<>>
           base == ms \o seed
           calls == [k \in 1..n |-> <<Len(ms) + Len(seed) + 1, k>>]
           response == AIMessage(task, calls)
           new == base \o <<response>>
           t == CoderReturns(thread, n)
<1>1. /\ thread \in Thread /\ n \in Nat /\ thread.next = "coder"
      /\ thread.plan_approved
  BY BudgetAssumption DEF IInv, ThreadInv, PlannerIsFirst, CoderNode
<1>2. ms \in Seq(Message) /\ Len(ms) \in Nat /\ thread.tool_call_count \in Nat
  <2>1. ms \in Seq(Message) /\ thread.tool_call_count \in Nat
    BY <1>1 DEF Thread
  <2> QED BY <2>1, LenProperties
<1>3. task \in Tasks \cup {Unknown}
  BY <1>1, CurrentTaskType
<1>4. /\ Own(ms, task) /\ Named(ms) /\ AnswersBefore(ms) /\ AnsweredTo(ms, Len(ms))
  BY <1>1 DEF HistoryInv, AnswersOf
<1>5. sanitize_history(ms) = ms
  BY <1>2, <1>4, NothingDropped
<1>6. t = [thread EXCEPT !.messages = ms \o seed \o <<response>>,
                         !.tool_call_count = IF n > 0 THEN @ + 1 ELSE @]
  BY <1>5 DEF CoderReturns
<1> HIDE DEF task
<1>7. HumanMessage(task) \in Message
  BY <1>3 DEF HumanMessage, Message
<1>8. /\ base \in Seq(Message) /\ Len(base) = Len(ms) + Len(seed)
      /\ Own(base, task) /\ Named(base) /\ AnswersBefore(base)
      /\ AnsweredTo(base, Len(base))
      /\ ToolTurns(base) = ToolTurns(ms) /\ FinalTurns(base) = FinalTurns(ms)
  <2>1. CASE ms = <<>>
    <3> DEFINE h == HumanMessage(task)
    <3>1. h.role = "human" /\ h.task = task /\ h.calls = <<>> /\ h.answers = None
      BY DEF HumanMessage
    <3>2. Len(<<>>) = 0
      OBVIOUS
    <3>3. \A k \in 1..Len(h.calls) : h.calls[k] = <<Len(ms) + 1, k>>
      BY <3>1, <3>2
    <3>4. h \in Message
      BY <1>7
    <3> HIDE DEF h
    <3>5. LET one == ms \o <<h>> IN
          /\ Own(one, task) /\ Named(one) /\ AnswersBefore(one)
          /\ AnsweredTo(one, Len(one))
      BY <1>2, <1>4, <3>1, <3>3, <3>4, StoreKeeps
    <3>6. /\ ToolTurns(ms \o <<h>>) = ToolTurns(ms)
          /\ FinalTurns(ms \o <<h>>) = FinalTurns(ms)
      BY <1>2, <3>1, <3>4, TurnsKept
    <3>7. ms \o <<h>> \in Seq(Message) /\ Len(ms \o <<h>>) = Len(ms) + 1
      BY <1>2, <3>4, OneMore
    <3>8. seed = <<h>> /\ Len(seed) = 1
      BY <2>1 DEF h
    <3> QED BY <3>5, <3>6, <3>7, <3>8
  <2>2. CASE ms # <<>>
    <3>1. seed = <<>> /\ Len(seed) = 0
      BY <2>2
    <3>2. ms \o <<>> = ms
      BY <1>2, ConcatEmptySeq
    <3>3. base = ms
      BY <3>1, <3>2
    <3> HIDE DEF base, seed
    <3>4. Len(base) = Len(ms) + Len(seed)
      BY <1>2, <3>1, <3>3
    <3> QED BY <1>2, <1>4, <3>3, <3>4
  <2> QED BY <2>1, <2>2
<1>9. calls = [k \in 1..n |-> <<Len(base) + 1, k>>] /\ Len(base) \in Nat
  BY <1>8, LenProperties
<1> HIDE DEF base, seed
<1>10. calls \in Seq(CallId) /\ Len(calls) = n /\ (calls = <<>> <=> n = 0)
  <2>1. \A k \in 1..n : <<Len(base) + 1, k>> \in CallId
    BY <1>9 DEF CallId
  <2>2. calls \in Seq(CallId) /\ Len(calls) = n
    BY <1>1, <1>9, <2>1, IsASeq
  <2> HIDE DEF calls
  <2> QED BY <1>1, <2>2, EmptySeq
<1>11. \A k \in 1..Len(calls) : calls[k] = <<Len(base) + 1, k>>
  BY <1>9, <1>10
<1> HIDE DEF calls
<1>12. /\ response.role = "ai" /\ response.task = task /\ response.calls = calls
       /\ response.answers = None
  BY DEF AIMessage
<1>13. response \in Message
  BY <1>3, <1>10 DEF AIMessage, Message
<1> HIDE DEF response
<1>14. /\ Own(new, task) /\ Named(new) /\ AnswersBefore(new)
       /\ AnsweredTo(new, Len(new) - 1)
       /\ n = 0 => AnsweredTo(new, Len(new))
  BY <1>8, <1>10, <1>11, <1>12, <1>13, StoreKeeps
<1>15. /\ Cardinality(ToolTurns(new)) =
            Cardinality(ToolTurns(ms)) + IF n = 0 THEN 0 ELSE 1
       /\ Cardinality(FinalTurns(new)) =
            Cardinality(FinalTurns(ms)) + IF n = 0 THEN 1 ELSE 0
  BY <1>8, <1>10, <1>12, <1>13, TurnsMore
<1>16. new[Len(new)] = response
  BY <1>8, <1>13, OneMore
<1> HIDE DEF new
<1>17. t \in Thread
  BY <1>1, CoderReturnsType
<1>18. /\ t.messages = new
       /\ t.tool_call_count = thread.tool_call_count + IF n = 0 THEN 0 ELSE 1
       /\ t.retry_count = thread.retry_count /\ t.plan_approved = thread.plan_approved
       /\ t.step_plans = thread.step_plans /\ t.plan = thread.plan
       /\ t.todo_tasks = thread.todo_tasks
  <2>1. t = [thread EXCEPT !.messages = new,
                           !.tool_call_count = IF n > 0 THEN @ + 1 ELSE @]
    BY <1>6 DEF new, base
  <2> HIDE DEF t
  <2>2. /\ t.messages = new
        /\ t.tool_call_count = IF n > 0 THEN thread.tool_call_count + 1
                               ELSE thread.tool_call_count
        /\ t.retry_count = thread.retry_count /\ t.plan_approved = thread.plan_approved
        /\ t.step_plans = thread.step_plans /\ t.plan = thread.plan
        /\ t.todo_tasks = thread.todo_tasks
    BY <1>1, <2>1 DEF Thread
  <2> QED BY <1>1, <1>2, <2>2
<1>19. thread' = [t EXCEPT !.next = coder_router(t)]
  BY DEF CoderNode
<1> HIDE DEF t
<1>20. coder_router(t) = IF n = 0 THEN "tester" ELSE "coder_tools"
  BY <1>10, <1>12, <1>16, <1>18 DEF coder_router
<1>21. /\ thread'.messages = new /\ thread'.tool_call_count = t.tool_call_count
       /\ thread'.retry_count = t.retry_count /\ thread'.plan_approved = t.plan_approved
       /\ thread'.step_plans = t.step_plans /\ thread'.plan = t.plan
       /\ thread'.todo_tasks = t.todo_tasks
       /\ thread'.next = IF n = 0 THEN "tester" ELSE "coder_tools"
  BY <1>17, <1>18, <1>19, <1>20 DEF Thread
<1>22. CurrentTask(thread') = task
  BY <1>18, <1>21, SameTask DEF task
<1>23. AnswersOf(thread')
  BY <1>14, <1>21 DEF AnswersOf
<1>24. AttemptsOf(thread')
  <2>1. thread.retry_count = Cardinality(FinalTurns(ms)) /\ thread.retry_count \in Nat
    BY <1>1 DEF HistoryInv, AttemptsOf, Thread
  <2> QED BY <1>15, <1>18, <1>21, <2>1 DEF AttemptsOf
<1>25. BudgetOf(thread')
  <2>1. /\ thread.tool_call_count = Cardinality(ToolTurns(ms))
        /\ Obedient /\ MaxToolCalls # 0 => thread.tool_call_count <= MaxToolCalls
    BY DEF HistoryInv, BudgetOf
  <2>2. ASSUME Obedient, MaxToolCalls # 0, n # 0
        PROVE  thread.tool_call_count + 1 <= MaxToolCalls
    <3>1. ~ToldToStop(thread)
      BY <2>2 DEF CoderNode
    <3>2. CASE ms = <<>>
      <4>1. thread.tool_call_count = 0
        BY <2>1, <3>2, EmptyConversation
      <4> QED BY <2>2, <4>1, BudgetAssumption
    <3>3. CASE ~(thread.tool_call_count >= MaxToolCalls)
      BY <1>2, <3>3, BudgetAssumption
    <3> QED BY <1>5, <3>1, <3>2, <3>3 DEF ToldToStop
  <2>3. thread'.tool_call_count = Cardinality(ToolTurns(new))
    BY <1>15, <1>18, <1>21, <2>1
  <2>4. Obedient /\ MaxToolCalls # 0 => thread'.tool_call_count <= MaxToolCalls
    BY <1>2, <1>18, <1>21, <2>1, <2>2
  <2> QED BY <1>21, <2>3, <2>4 DEF BudgetOf
<1>26. BeginsOf(thread')
  BY <1>1, <1>18, <1>21 DEF HistoryInv, BeginsOf
<1> QED BY <1>14, <1>21, <1>22, <1>23, <1>24, <1>25, <1>26 DEF HistoryInv

LEMMA ToolsKeepHistory ==
  ASSUME IInv, HistoryInv(thread), ToolsEnd PROVE HistoryInv(thread')
<1> USE DEF Runs, Return
<1> DEFINE ms == thread.messages
           task == CurrentTask(thread)
           calls == ms[Len(ms)].calls
           new == ms \o [k \in 1..Len(calls) |-> ToolMessage(task, calls[k])]
           t == ToolsReturn(thread)
<1>1. thread \in Thread /\ thread.next = "coder_tools" /\ ms # <<>>
  BY DEF IInv, TypeOK, ThreadInv, ToolsHaveMessage, ToolsEnd
<1>2. ms \in Seq(Message) /\ task \in Tasks \cup {Unknown}
  BY <1>1, CurrentTaskType DEF Thread
<1>3. Own(ms, task) /\ Named(ms) /\ AnswersBefore(ms) /\ AnsweredTo(ms, Len(ms) - 1)
  BY <1>1 DEF HistoryInv, AnswersOf
<1>4. t = [thread EXCEPT !.messages = new]
  BY DEF ToolsReturn
<1>5. t \in Thread
  BY <1>1, ToolsReturnType
<1> HIDE DEF task
<1>6. /\ Own(new, task) /\ Named(new) /\ AnswersBefore(new)
      /\ AnsweredTo(new, Len(new))
      /\ ToolTurns(new) = ToolTurns(ms) /\ FinalTurns(new) = FinalTurns(ms)
  BY <1>1, <1>2, <1>3, AnswersKeep
<1> HIDE DEF new, t
<1>7. /\ t.messages = new /\ t.tool_call_count = thread.tool_call_count
      /\ t.retry_count = thread.retry_count /\ t.plan_approved = thread.plan_approved
      /\ t.step_plans = thread.step_plans /\ t.plan = thread.plan
      /\ t.todo_tasks = thread.todo_tasks
  BY <1>1, <1>4 DEF Thread
<1>8. thread' = [t EXCEPT !.next = "coder"]
  BY DEF ToolsEnd, t
<1>9. /\ thread'.messages = new /\ thread'.tool_call_count = thread.tool_call_count
      /\ thread'.retry_count = thread.retry_count
      /\ thread'.plan_approved = thread.plan_approved
      /\ thread'.step_plans = thread.step_plans /\ thread'.plan = thread.plan
      /\ thread'.todo_tasks = thread.todo_tasks /\ thread'.next = "coder"
  BY <1>5, <1>7, <1>8 DEF Thread
<1>10. CurrentTask(thread') = task
  BY <1>9, SameTask DEF task
<1>11. thread.plan_approved
  BY <1>1 DEF IInv, ThreadInv, PlannerIsFirst
<1> QED BY <1>1, <1>6, <1>9, <1>10, <1>11
     DEF HistoryInv, AnswersOf, AttemptsOf, BudgetOf, BeginsOf

\* A step of a node that leaves the conversation and its task alone.
LEMMA QuietHistory ==
  ASSUME NEW th, NEW u, HistoryInv(th), th.next # "coder_tools", u.next # "coder_tools",
         u.messages = th.messages, u.tool_call_count = th.tool_call_count,
         u.todo_tasks = th.todo_tasks, u.plan_approved = th.plan_approved,
         u.step_plans = th.step_plans, u.plan = th.plan,
         AttemptsOf(u)
  PROVE  HistoryInv(u)
<1>1. CurrentTask(u) = CurrentTask(th)
  BY SameTask
<1> QED BY <1>1 DEF HistoryInv, AnswersOf, BudgetOf, BeginsOf

LEMMA TesterKeepsHistory ==
  ASSUME IInv, HistoryInv(thread), NEW ok \in BOOLEAN, TesterNode(ok)
  PROVE  HistoryInv(thread')
<1> USE DEF Runs, Return
<1> DEFINE t == TesterReturns(thread, ok)
<1>1. thread \in Thread /\ thread.next = "tester"
  BY DEF IInv, TypeOK, TesterNode
<1>2. t \in Thread
  BY <1>1, TesterReturnsType
<1>3. /\ t.messages = thread.messages /\ t.tool_call_count = thread.tool_call_count
      /\ t.todo_tasks = thread.todo_tasks /\ t.plan_approved = thread.plan_approved
      /\ t.step_plans = thread.step_plans /\ t.plan = thread.plan
      /\ t.tests_passed = ok /\ t.retry_count = IF ok THEN 0 ELSE thread.retry_count + 1
  BY <1>1 DEF TesterReturns, Thread
<1>4. thread' = [t EXCEPT !.next = test_evaluator(t)]
  BY DEF TesterNode
<1> HIDE DEF t
<1>5. /\ thread'.messages = t.messages /\ thread'.tool_call_count = t.tool_call_count
      /\ thread'.todo_tasks = t.todo_tasks /\ thread'.plan_approved = t.plan_approved
      /\ thread'.step_plans = t.step_plans /\ thread'.plan = t.plan
      /\ thread'.retry_count = t.retry_count /\ thread'.next = test_evaluator(t)
  BY <1>2, <1>4 DEF Thread
<1>6. /\ test_evaluator(t) \notin {"coder_tools", "tester"}
      /\ test_evaluator(t) = "coder" => ~ok
  BY <1>3 DEF test_evaluator
<1>7. thread.retry_count + 1 = Cardinality(FinalTurns(thread.messages))
  BY <1>1 DEF HistoryInv, AttemptsOf
<1>8. AttemptsOf(thread')
  BY <1>3, <1>5, <1>6, <1>7 DEF AttemptsOf
<1> QED BY <1>1, <1>3, <1>5, <1>6, <1>8, QuietHistory

LEMMA QueueKeepsHistory ==
  ASSUME IInv, HistoryInv(thread), QueueEnd PROVE HistoryInv(thread')
<1> USE DEF Runs, Return
<1> DEFINE t == QueueAdvanced(thread)
<1>1. thread \in Thread /\ thread.next = "queue_manager" /\ thread.plan_approved
  BY DEF IInv, TypeOK, ThreadInv, PlannerIsFirst, QueueEnd
<1>2. t \in Thread
  BY <1>1, QueueAdvancedType
<1>3. thread' = [t EXCEPT !.next = queue_evaluator(t)]
  BY DEF QueueEnd
<1>4. /\ thread'.messages = t.messages /\ thread'.tool_call_count = t.tool_call_count
      /\ thread'.retry_count = t.retry_count /\ thread'.todo_tasks = t.todo_tasks
      /\ thread'.plan_approved = t.plan_approved
      /\ thread'.step_plans = t.step_plans /\ thread'.plan = t.plan
      /\ thread'.next = queue_evaluator(t)
  <2> HIDE DEF t
  <2> QED BY <1>2, <1>3 DEF Thread
<1>5. CASE thread.todo_tasks = <<>>
  <2>1. t = thread
    BY <1>5 DEF QueueAdvanced
  <2>2. queue_evaluator(t) = "END"
    BY <1>5, <2>1 DEF queue_evaluator
  <2> HIDE DEF t
  <2>3. AttemptsOf(thread')
    BY <1>4, <2>2 DEF AttemptsOf
  <2> QED BY <1>1, <1>4, <2>1, <2>2, <2>3, QuietHistory
<1>6. CASE thread.todo_tasks # <<>>
  <2>1. /\ t.messages = <<>> /\ t.tool_call_count = 0 /\ t.retry_count = 0
        /\ t.plan_approved = thread.plan_approved
        /\ t.step_plans = thread.step_plans /\ t.plan = thread.plan
    BY <1>1, <1>6 DEF QueueAdvanced, Thread
  <2>2. queue_evaluator(t) \in {"coder", "END"}
    BY DEF queue_evaluator
  <2> HIDE DEF t
  <2>3. BeginsOf(thread')
    BY <1>1, <1>4, <2>1 DEF HistoryInv, BeginsOf
  <2> QED BY <1>4, <2>1, <2>2, <2>3, EmptyKeeps
<1> QED BY <1>5, <1>6

LEMMA GiveUpKeepsHistory ==
  ASSUME IInv, HistoryInv(thread), GiveUpNode PROVE HistoryInv(thread')
<1>1. thread \in Thread /\ thread.next = "give_up"
  BY DEF IInv, TypeOK, GiveUpNode, Runs
<1>2. /\ thread'.messages = thread.messages
      /\ thread'.tool_call_count = thread.tool_call_count
      /\ thread'.todo_tasks = thread.todo_tasks
      /\ thread'.plan_approved = thread.plan_approved
      /\ thread'.step_plans = thread.step_plans /\ thread'.plan = thread.plan
      /\ thread'.next = "END"
  BY <1>1 DEF GiveUpNode, Return, Thread
<1>3. AttemptsOf(thread')
  BY <1>2 DEF AttemptsOf
<1> QED BY <1>1, <1>2, <1>3, QuietHistory

LEMMA AnswerKeepsHistory ==
  ASSUME IInv, HistoryInv(thread), NEW r \in Response, Answer(r)
  PROVE  HistoryInv(thread')
<1>1. thread \in Thread
  BY DEF IInv, TypeOK
<1>2. /\ thread'.messages = thread.messages
      /\ thread'.tool_call_count = thread.tool_call_count
      /\ thread'.retry_count = thread.retry_count
      /\ thread'.todo_tasks = thread.todo_tasks
      /\ thread'.plan_approved = thread.plan_approved
      /\ thread'.step_plans = thread.step_plans /\ thread'.plan = thread.plan
      /\ thread'.next = thread.next
  BY <1>1 DEF Answer, Thread
<1>3. CurrentTask(thread') = CurrentTask(thread)
  BY <1>2, SameTask
<1> QED BY <1>2, <1>3
     DEF HistoryInv, AnswersOf, AttemptsOf, BudgetOf, BeginsOf

LEMMA InitialHistory == HistoryInv(InitialThread)
<1>1. /\ InitialThread.messages = <<>> /\ InitialThread.tool_call_count = 0
      /\ InitialThread.next = "planner" /\ InitialThread.plan_approved = FALSE
  BY DEF InitialThread
<1> QED BY <1>1, EmptyKeeps DEF BeginsOf

LEMMA NextHInv == IInv /\ HInv /\ [Next]_vars => HInv'
<1> SUFFICES ASSUME IInv, HInv, [Next]_vars PROVE HInv'
  OBVIOUS
<1> USE DEF HInv, Return
<1>1. ASSUME NEW draft \in Drafts, PlannerProposes(draft) PROVE HInv'
  BY <1>1 DEF PlannerProposes
<1>2. ASSUME NEW draft \in Drafts, PlannerResumes(draft) PROVE HInv'
  BY <1>2, PlannerKeepsHistory DEF PlannerResumes
<1>3. ASSUME NEW n \in 0..MaxBatch, CoderNode(n) PROVE HInv'
  BY <1>3, CoderKeepsHistory DEF CoderNode
<1>4. CASE ToolsWork
  BY <1>4 DEF ToolsWork
<1>5. CASE ToolsEnd
  BY <1>5, ToolsKeepHistory DEF ToolsEnd
<1>6. ASSUME NEW ok \in BOOLEAN, TesterNode(ok) PROVE HInv'
  BY <1>6, TesterKeepsHistory DEF TesterNode
<1>7. CASE QueueCommit
  BY <1>7 DEF QueueCommit
<1>8. CASE QueueEnd
  BY <1>8, QueueKeepsHistory DEF QueueEnd
<1>9. CASE GiveUpNode
  BY <1>9, GiveUpKeepsHistory DEF GiveUpNode
<1>10. CASE Flush \/ Crash
  BY <1>10 DEF Flush, Crash
<1>11. CASE Exit \/ Launch \/ UNCHANGED vars
  BY <1>11 DEF Exit, Launch, vars
<1>12. CASE LaunchReset
  BY <1>12, InitialHistory DEF LaunchReset
<1>13. ASSUME NEW r \in Response, Answer(r) PROVE HInv'
  BY <1>13, AnswerKeepsHistory DEF Answer
<1> QED BY <1>1, <1>2, <1>3, <1>4, <1>5, <1>6, <1>7, <1>8, <1>9, <1>10, <1>11,
           <1>12, <1>13 DEF Next, Work

LEMMA HistoryInvariance == Spec => []HInv
<1>1. Init => HInv
  BY InitialHistory DEF Init, HInv
<1> QED BY <1>1, NextHInv, Invariance, PTL DEF Spec

-----------------------------------------------------------------------------
(* Theorems *)

\* For any number of turns, retries, crashes and re-executions, no message of
\* one task is in the conversation of another.
THEOREM HistoryIsOwnTaskHolds == Spec => []HistoryIsOwnTask
<1>1. HInv => HistoryIsOwnTask
  BY DEF HInv, HistoryInv, Own, HistoryIsOwnTask
<1> QED BY <1>1, HistoryInvariance, PTL

\* ... and the tool counter is what the conversation says it is.
THEOREM BudgetMatchesHistoryHolds == Spec => []BudgetMatchesHistory
<1>1. HInv => BudgetMatchesHistory
  BY DEF HInv, HistoryInv, BudgetOf, BudgetMatchesHistory
<1> QED BY <1>1, HistoryInvariance, PTL

\* The retry counter is the number of attempts that have ended.
THEOREM AttemptsAreCountedHolds == Spec => []AttemptsAreCounted
<1>1. HInv => AttemptsAreCounted
  BY DEF HInv, HistoryInv, AttemptsOf, AttemptsAreCounted
<1> QED BY <1>1, HistoryInvariance, PTL

\* An LLM that obeys the tool-limit instruction stays in any budget but zero,
\* with which the instruction is given too late for the first response.
THEOREM ObedientStaysInBudgetHolds ==
  ASSUME Obedient, MaxToolCalls # 0 PROVE Spec => []ObedientStaysInBudget
<1>1. HInv => ObedientStaysInBudget
  BY DEF HInv, HistoryInv, BudgetOf, ObedientStaysInBudget
<1> QED BY <1>1, HistoryInvariance, PTL

\* Each call of what is sent has exactly one answer in it.
EachAnsweredOnce(sent) ==
  \A i \in 1..Len(sent) : \A k \in 1..Len(sent[i].calls) :
    Cardinality({j \in 1..Len(sent) : sent[j].answers = sent[i].calls[k]}) = 1

LEMMA NothingOpen ==
  ASSUME NEW ms, Named(ms), AnsweredTo(ms, Len(ms))
  PROVE  EachAnsweredOnce(ms)
<1>1. ASSUME NEW i \in 1..Len(ms), NEW k \in 1..Len(ms[i].calls)
      PROVE  Cardinality({j \in 1..Len(ms) : ms[j].answers = ms[i].calls[k]}) = 1
  <2>1. ms[i].calls[k] = <<i, k>> /\ OneAnswer(ms, <<i, k>>)
    BY DEF Named, AnsweredTo
  <2>2. PICK j \in 1..Len(ms) :
          /\ ms[j].answers = <<i, k>>
          /\ \A l \in 1..Len(ms) : ms[l].answers = <<i, k>> => l = j
    BY <2>1 DEF OneAnswer
  <2>3. {l \in 1..Len(ms) : ms[l].answers = ms[i].calls[k]} = {j}
    BY <2>1, <2>2
  <2> QED BY <2>3, FS_Singleton
<1> QED BY <1>1 DEF EachAnsweredOnce

\* What coder_node sends is always complete: however many tool turns there
\* were and wherever it crashed, each call has exactly one answer.
THEOREM HistoryIsCompleteHolds == Spec => []HistoryIsComplete
<1>1. ASSUME IInv, HInv, thread.next = "coder"
      PROVE  EachAnsweredOnce(sanitize_history(thread.messages))
  <2>1. thread.messages \in Seq(Message)
    BY <1>1 DEF IInv, TypeOK, Thread
  <2>2. Named(thread.messages) /\ AnsweredTo(thread.messages, Len(thread.messages))
    BY <1>1 DEF HInv, HistoryInv, AnswersOf
  <2>3. sanitize_history(thread.messages) = thread.messages
    BY <2>1, <2>2, NothingDropped
  <2> QED BY <2>2, <2>3, NothingOpen
<1>2. IInv /\ HInv => HistoryIsComplete
  BY <1>1 DEF HistoryIsComplete, EachAnsweredOnce
<1> QED BY <1>2, Invariance, HistoryInvariance, PTL

\* Only a response, which answers nothing, leaves calls for ToolNode.
LastIsResponse(th) ==
  th.next = "coder_tools" => /\ th.messages[Len(th.messages)].role = "ai"
                             /\ th.messages[Len(th.messages)].answers = None
ResponseInv == LastIsResponse(thread) /\ LastIsResponse(saved)

LEMMA CoderStoresResponse ==
  ASSUME IInv, NEW n \in 0..MaxBatch, CoderNode(n)
  PROVE  LastIsResponse(thread')
<1> USE DEF Runs, Return
<1> DEFINE t == CoderReturns(thread, n)
           task == CurrentTask(thread)
           seed == IF sanitize_history(thread.messages) = <<>>
                   THEN <<HumanMessage(task)>> ELSE <<>>
           at == Len(thread.messages) + Len(seed) + 1
           calls == [k \in 1..n |-> <<at, k>>]
           base == thread.messages \o seed
           response == AIMessage(task, calls)
<1>1. /\ thread \in Thread /\ n \in Nat /\ task \in Tasks \cup {Unknown}
      /\ thread.messages \in Seq(Message)
  <2>1. thread \in Thread
    BY DEF IInv, TypeOK
  <2>2. n \in Nat
    BY BudgetAssumption
  <2>3. task \in Tasks \cup {Unknown}
    BY <2>1, CurrentTaskType
  <2>4. thread.messages \in Seq(Message)
    BY <2>1 DEF Thread
  <2> QED BY <2>1, <2>2, <2>3, <2>4
<1>2. t \in Thread
  BY <1>1, CoderReturnsType
<1>3. t = [thread EXCEPT !.messages = base \o <<response>>,
                         !.tool_call_count = IF n > 0 THEN @ + 1 ELSE @]
  BY DEF CoderReturns
<1>4. thread' = [t EXCEPT !.next = coder_router(t)]
  BY DEF CoderNode
<1> HIDE DEF t, base, response
<1>5. thread'.messages = base \o <<response>>
  <2>1. t.messages = base \o <<response>>
    BY <1>1, <1>3 DEF Thread
  <2> QED BY <1>2, <1>4, <2>1 DEF Thread
<1>6. HumanMessage(task) \in Message
  BY <1>1 DEF HumanMessage, Message
<1> HIDE DEF task
<1>7. seed \in Seq(Message) /\ Len(seed) \in Nat
  <2> DEFINE h == HumanMessage(task)
  <2>1. seed = <<h>> \/ seed = <<>>
    OBVIOUS
  <2>2. h \in Message
    BY <1>6
  <2> HIDE DEF seed, h
  <2>3. <<h>> \in Seq(Message) /\ <<>> \in Seq(Message)
    BY <2>2
  <2>4. seed \in Seq(Message)
    BY <2>1, <2>3
  <2> QED BY <2>4, LenProperties
<1> HIDE DEF seed
<1>8. base \in Seq(Message)
  BY <1>1, <1>7, ConcatProperties DEF base
<1>9. response \in Message
  <2>1. at \in Nat \ {0}
    <3>1. Len(thread.messages) \in Nat
      BY <1>1, LenProperties
    <3> QED BY <1>7, <3>1
  <2> HIDE DEF at
  <2>2. \A k \in 1..n : <<at, k>> \in CallId
    BY <2>1 DEF CallId
  <2>3. calls \in Seq(CallId)
    BY <1>1, <2>2, IsASeq
  <2> HIDE DEF calls
  <2> QED BY <1>1, <2>3 DEF AIMessage, Message, task, response
<1>10. response.role = "ai" /\ response.answers = None
  BY DEF AIMessage, response
<1>11. thread'.messages[Len(thread'.messages)] = response
  BY <1>5, <1>8, <1>9, OneMore
<1> QED BY <1>10, <1>11 DEF LastIsResponse

LEMMA ResponseInvariance == Spec => []ResponseInv
<1>1. Init => ResponseInv
  <2>1. InitialThread.next # "coder_tools"
    BY DEF InitialThread
  <2> QED BY <2>1 DEF Init, ResponseInv, LastIsResponse
<1>2. ASSUME IInv, ResponseInv, [Next]_vars PROVE ResponseInv'
  <2> USE DEF Runs, Return
  <2>0. /\ thread \in Thread /\ LastIsResponse(thread) /\ LastIsResponse(saved)
        /\ ThreadInv(thread)
    BY <1>2 DEF IInv, TypeOK, ResponseInv
  <2>1. ASSUME NEW draft \in Drafts, PlannerResumes(draft)
        PROVE  LastIsResponse(thread') /\ saved' = saved
    <3>1. PICK t \in {PlanApproved(thread, draft), PlanRevised(thread, draft)} :
            thread' = [t EXCEPT !.next = plan_evaluator(t)] /\ saved' = saved
      BY <2>1 DEF PlannerResumes
    <3>2. t \in Thread
      BY <2>0, <3>1, PlanApprovedType, PlanRevisedType
    <3>3. plan_evaluator(t) # "coder_tools"
      BY DEF plan_evaluator
    <3>4. thread'.next = plan_evaluator(t)
      BY <3>1, <3>2 DEF Thread
    <3> QED BY <3>1, <3>3, <3>4 DEF LastIsResponse
  <2>2. ASSUME NEW n \in 0..MaxBatch, CoderNode(n)
        PROVE  LastIsResponse(thread') /\ saved' = saved
    BY <1>2, <2>2, CoderStoresResponse DEF CoderNode
  <2>3. CASE ToolsEnd
    <3>1. ToolsReturn(thread) \in Thread
      BY <1>2, <2>0, <2>3, ToolsReturnType DEF ToolsEnd, ThreadInv, ToolsHaveMessage
    <3>2. thread' = [ToolsReturn(thread) EXCEPT !.next = "coder"] /\ saved' = saved
      BY <2>3 DEF ToolsEnd
    <3>3. thread'.next = "coder"
      BY <3>1, <3>2 DEF Thread
    <3> QED BY <2>0, <3>2, <3>3 DEF ResponseInv, LastIsResponse
  <2>4. ASSUME NEW ok \in BOOLEAN, TesterNode(ok)
        PROVE  LastIsResponse(thread') /\ saved' = saved
    <3> DEFINE t == TesterReturns(thread, ok)
    <3>1. t \in Thread
      BY <2>0, TesterReturnsType
    <3>2. thread' = [t EXCEPT !.next = test_evaluator(t)] /\ saved' = saved
      BY <2>4 DEF TesterNode
    <3> HIDE DEF t
    <3>3. test_evaluator(t) # "coder_tools"
      BY DEF test_evaluator
    <3>4. thread'.next = test_evaluator(t)
      BY <3>1, <3>2 DEF Thread
    <3> QED BY <3>2, <3>3, <3>4 DEF LastIsResponse
  <2>5. CASE QueueEnd
    <3> DEFINE t == QueueAdvanced(thread)
    <3>1. t \in Thread
      BY <2>0, QueueAdvancedType
    <3>2. thread' = [t EXCEPT !.next = queue_evaluator(t)] /\ saved' = saved
      BY <2>5 DEF QueueEnd
    <3> HIDE DEF t
    <3>3. queue_evaluator(t) # "coder_tools"
      BY DEF queue_evaluator
    <3>4. thread'.next = queue_evaluator(t)
      BY <3>1, <3>2 DEF Thread
    <3> QED BY <2>0, <3>2, <3>3, <3>4 DEF ResponseInv, LastIsResponse
  <2>6. CASE GiveUpNode
    <3>1. thread' = [thread EXCEPT !.next = "END"] /\ saved' = saved
      BY <2>6 DEF GiveUpNode
    <3>2. thread'.next = "END"
      BY <2>0, <3>1 DEF Thread
    <3> QED BY <2>0, <3>1, <3>2 DEF ResponseInv, LastIsResponse
  <2>7. ASSUME NEW r \in Response, Answer(r)
        PROVE  LastIsResponse(thread') /\ saved' = saved
    <3>1. /\ thread'.next = thread.next /\ thread'.messages = thread.messages
          /\ saved' = saved
      BY <2>0, <2>7 DEF Answer, Thread
    <3> QED BY <2>0, <3>1 DEF LastIsResponse
  <2>8. CASE Flush \/ Crash
    BY <2>0, <2>8 DEF Flush, Crash, ResponseInv
  <2>9. CASE LaunchReset
    BY <2>9 DEF LaunchReset, ResponseInv, LastIsResponse, InitialThread
  <2>10. ASSUME UNCHANGED <<thread, saved>> PROVE ResponseInv'
    BY <2>0, <2>10 DEF ResponseInv
  <2>11. CASE ToolsWork \/ QueueCommit \/ Exit \/ Launch \/ UNCHANGED vars
    BY <2>10, <2>11 DEF ToolsWork, QueueCommit, Exit, Launch, vars
  <2>12. ASSUME NEW draft \in Drafts, PlannerProposes(draft) PROVE ResponseInv'
    BY <2>10, <2>12 DEF PlannerProposes
  <2>13. LastIsResponse(thread') /\ saved' = saved => ResponseInv'
    BY <2>0 DEF ResponseInv
  <2> QED BY <1>2, <2>1, <2>2, <2>3, <2>4, <2>5, <2>6, <2>7, <2>8, <2>9, <2>11,
             <2>12, <2>13 DEF Next, Work
<1> QED BY <1>1, <1>2, Invariance, PTL DEF Spec

\* _sanitize_history drops a last response with open calls, and stops there.
LEMMA ResponseDropped ==
  ASSUME NEW ms \in Seq(Message), ms # <<>>,
         Named(ms), AnswersBefore(ms), AnsweredTo(ms, Len(ms) - 1),
         ms[Len(ms)].role = "ai", ms[Len(ms)].answers = None
  PROVE  /\ EachAnsweredOnce(sanitize_history(ms))
         /\ sanitize_history(ms) \in {ms, SubSeq(ms, 1, Len(ms) - 1)}
<1> DEFINE L == Len(ms)
           calls == ms[L].calls
<1>1. L \in Nat /\ L > 0 /\ L \in 1..L
  BY LenProperties, EmptySeq
<1>2. calls \in Seq(CallId) /\ Len(calls) \in Nat
  <2>1. ms[L] \in Message
    BY <1>1, ElementOfSeq
  <2>2. calls \in Seq(CallId)
    BY <2>1 DEF Message
  <2> QED BY <2>2, LenProperties
<1>3. CASE Len(calls) = 0
  <2>1. AnsweredTo(ms, Len(ms))
    <3>1. \A i \in 1..L : i # L => i \in 1..(L - 1)
      BY <1>1
    <3>2. \A k \in 1..Len(ms[L].calls) : FALSE
      BY <1>3
    <3> QED BY <3>1, <3>2 DEF AnsweredTo, L
  <2> QED BY <2>1, NothingDropped, NothingOpen
<1>4. CASE Len(calls) # 0
  <2>1. Orphan(ms, L)
    <3>1. 1 \in 1..Len(calls)
      BY <1>2, <1>4
    <3>2. ms[L].calls[1] = <<L, 1>>
      BY <1>1, <3>1 DEF Named
    <3>3. ASSUME <<L, 1>> \in Answered(ms) PROVE FALSE
      <4>1. PICK j \in 1..L : ms[j].answers = <<L, 1>>
        BY <3>3 DEF Answered
      <4>2. <<L, 1>> # None
        BY <1>1, NoneAssumption DEF CallId
      <4>3. ms[j].answers[1] < j
        BY <4>1, <4>2 DEF AnswersBefore
      <4>4. <<L, 1>>[1] = L
        OBVIOUS
      <4>5. L < j
        BY <4>1, <4>3, <4>4
      <4> QED BY <1>1, <4>5
    <3> QED BY <3>1, <3>2, <3>3 DEF Orphan
  <2>2. ASSUME NEW i \in 1..(L - 1) PROVE ~Orphan(ms, i)
    <3>1. ASSUME NEW k \in 1..Len(ms[i].calls) PROVE ms[i].calls[k] \in Answered(ms)
      <4>0. i \in 1..L
        BY <1>1
      <4>1. ms[i].calls[k] = <<i, k>>
        BY <3>1, <4>0 DEF Named
      <4>2. PICK j \in 1..Len(ms) : ms[j].answers = <<i, k>>
        BY <3>1 DEF AnsweredTo, OneAnswer
      <4> QED BY <4>1, <4>2 DEF Answered
    <3> QED BY <3>1 DEF Orphan
  <2> DEFINE Cut(n) == /\ n = 0 \/ ~Orphan(ms, n)
                       /\ \A i \in (n + 1)..Len(ms) : Orphan(ms, i)
  <2>3. L - 1 \in 0..Len(ms) /\ Cut(L - 1)
    <3>1. L - 1 \in 0..L /\ (L - 1 = 0 \/ L - 1 \in 1..(L - 1))
      <4> HIDE DEF L
      <4> QED BY <1>1
    <3>2. \A i \in ((L - 1) + 1)..L : i = L
      BY <1>1
    <3> QED BY <2>1, <2>2, <3>1, <3>2 DEF L
  <2>4. ASSUME NEW n \in 0..Len(ms), Cut(n) PROVE n = L - 1
    <3>1. n = L \/ n = L - 1 \/ n + 1 \in 1..(L - 1)
      BY <1>1
    <3>2. n # L
      BY <1>1, <2>1, <2>4
    <3>3. n + 1 \in 1..(L - 1) => n + 1 \in (n + 1)..Len(ms)
      BY <1>1
    <3> QED BY <2>2, <2>4, <3>1, <3>2, <3>3
  <2>5. (CHOOSE n \in 0..Len(ms) : Cut(n)) = L - 1
    <3> HIDE DEF Cut
    <3> QED BY <2>3, <2>4
  <2> DEFINE sub == SubSeq(ms, 1, L - 1)
  <2>6. sanitize_history(ms) = sub
    BY <2>5 DEF sanitize_history
  <2>7. Len(sub) = L - 1 /\ \A i \in 1..(L - 1) : sub[i] = ms[i]
    <3>1. \A i \in 1..(L - 1) : i \in 1..L
      BY <1>1
    <3>2. L - 1 \in 0..L /\ 1 \in 1..(L + 1)
      BY <1>1
    <3> HIDE DEF L
    <3>3. /\ Len(sub) = IF 1 <= L - 1 THEN (L - 1) - 1 + 1 ELSE 0
          /\ \A i \in 1..((L - 1) - 1 + 1) : sub[i] = ms[1 + i - 1]
      BY <1>1, <3>2, SubSeqProperties DEF L
    <3>4. \A i \in 1..(L - 1) : 1 + i - 1 = i /\ i \in 1..((L - 1) - 1 + 1)
      BY <1>1
    <3> QED BY <1>1, <3>3, <3>4
  <2> HIDE DEF sub
  <2>8. \A i \in 1..(L - 1) : i \in 1..L
    BY <1>1
  <2>9. Named(sub)
    BY <2>7, <2>8 DEF Named
  <2>10. AnsweredTo(sub, Len(sub))
    <3> SUFFICES ASSUME NEW i \in 1..(L - 1), NEW k \in 1..Len(ms[i].calls)
                 PROVE  OneAnswer(sub, <<i, k>>)
      BY <2>7 DEF AnsweredTo
    <3>1. PICK j \in 1..L :
            /\ ms[j].answers = <<i, k>>
            /\ \A l \in 1..L : ms[l].answers = <<i, k>> => l = j
      BY DEF AnsweredTo, OneAnswer
    <3>2. <<i, k>> # None
      BY <1>1, <2>8, NoneAssumption DEF CallId
    <3>3. j \in 1..(L - 1)
      <4>1. j # L
        BY <3>1, <3>2
      <4> QED BY <1>1, <4>1
    <3>4. j \in 1..Len(sub) /\ sub[j].answers = <<i, k>>
      BY <2>7, <3>1, <3>3
    <3>5. ASSUME NEW l \in 1..Len(sub), sub[l].answers = <<i, k>> PROVE l = j
      BY <2>7, <2>8, <3>1, <3>5
    <3> QED BY <3>4, <3>5 DEF OneAnswer
  <2> QED BY <2>6, <2>9, <2>10, NothingOpen DEF sub
<1> QED BY <1>3, <1>4

\* The repair makes any conversation the orchestrator can have, in memory or in
\* a checkpoint of any node, complete again: it drops at most the response whose
\* calls were never executed, which is what _sanitize_history is for.
THEOREM RepairIsEnough ==
  Spec => [](\A th \in {thread, saved} :
               LET sent == sanitize_history(th.messages)
               IN /\ EachAnsweredOnce(sent)
                  /\ sent \in {th.messages, SubSeq(th.messages, 1, Len(th.messages) - 1)})
<1>1. ASSUME NEW th, ThreadInv(th), HistoryInv(th), LastIsResponse(th)
      PROVE  LET sent == sanitize_history(th.messages)
             IN /\ EachAnsweredOnce(sent)
                /\ sent \in {th.messages, SubSeq(th.messages, 1, Len(th.messages) - 1)}
  <2>1. th.messages \in Seq(Message)
    BY <1>1 DEF ThreadInv, Thread
  <2>2. Named(th.messages) /\ AnswersBefore(th.messages)
    BY <1>1 DEF HistoryInv
  <2>3. CASE th.next = "coder_tools"
    BY <1>1, <2>1, <2>2, <2>3, ResponseDropped
       DEF HistoryInv, AnswersOf, LastIsResponse, ThreadInv, ToolsHaveMessage
  <2>4. CASE th.next # "coder_tools"
    BY <1>1, <2>1, <2>2, <2>4, NothingDropped, NothingOpen DEF HistoryInv, AnswersOf
  <2> QED BY <2>3, <2>4
<1>2. IInv /\ HInv /\ ResponseInv =>
        \A th \in {thread, saved} :
          LET sent == sanitize_history(th.messages)
          IN /\ EachAnsweredOnce(sent)
             /\ sent \in {th.messages, SubSeq(th.messages, 1, Len(th.messages) - 1)}
  BY <1>1 DEF IInv, HInv, ResponseInv
<1> QED BY <1>2, Invariance, HistoryInvariance, ResponseInvariance, PTL

\* In a plan of any length, the coder is prompted with the last document that has
\* the id of the step whose turn it is.
THEOREM CurrentStepIsPlannedHolds == Spec => []CurrentStepIsPlanned
<1>1. ASSUME IInv, HInv PROVE CurrentStepIsPlanned
  <2> DEFINE plan == thread.plan
             done == thread.completed_tasks
             todo == thread.todo_tasks
             turn == Len(done) + 1
             s == plan[turn].id
             OfThisId == {i \in 1..Len(plan) : plan[i].id = s}
  <2> SUFFICES ASSUME thread.next \in {"coder", "coder_tools"}, turn <= Len(plan)
               PROVE  \E i \in OfThisId : /\ \A j \in OfThisId : j <= i
                                         /\ PromptedStep(thread) = plan[i].body
    BY DEF CurrentStepIsPlanned
  <2>1. thread \in Thread /\ thread.plan_approved /\ QueueOrderOf(thread)
    BY <1>1 DEF IInv, ThreadInv, PlannerIsFirst
  <2>2. done \in Seq(Tasks) /\ todo \in Seq(Tasks) /\ plan \in Seq(Doc)
    BY <2>1 DEF Thread
  <2>3. Len(done) \in Nat /\ Len(todo) \in Nat /\ Len(plan) \in Nat
    BY <2>2, LenProperties
  <2>4. done \o todo = StepIds(plan) /\ Len(StepIds(plan)) = Len(plan)
    BY <2>1, <2>2, StepIdsType DEF QueueOrderOf
  <2>5. turn \in 1..Len(plan)
    BY <2>3
  <2>6. StepIds(plan)[turn] = plan[turn].id
    <3> HIDE DEF turn, plan
    <3> QED BY <2>5 DEF StepIds
  <2> HIDE DEF done, todo, plan
  <2>7. Len(done \o todo) = Len(done) + Len(todo) /\ Len(todo) # 0
    BY <2>2, <2>3, <2>4, <2>5
  <2>8. todo # <<>> /\ Head(todo) = todo[1] /\ (done \o todo)[turn] = todo[1]
    <3>1. todo # <<>>
      BY <2>7
    <3>2. (done \o todo)[turn] = todo[1]
      BY <2>2, <2>3, <2>7
    <3> QED BY <3>1, <3>2
  <2>9. CurrentTask(thread) = s
    BY <2>4, <2>6, <2>8 DEF CurrentTask, todo
  <2> HIDE DEF turn, s
  <2> DEFINE IsLast(i) == /\ plan[i].id = s
                          /\ \A j \in (i + 1)..Len(plan) : plan[j].id # s
             last == CHOOSE i \in 1..Len(plan) : IsLast(i)
  <2>10. turn \in OfThisId /\ OfThisId \in SUBSET (1..Len(plan))
    BY <2>5 DEF s
  <2>11. PICK m \in OfThisId : \A j \in OfThisId : j <= m
    <3> HIDE DEF OfThisId
    <3> QED BY <2>3, <2>10, LastPosition
  <2>12. ASSUME NEW j \in (m + 1)..Len(plan), plan[j].id = s PROVE FALSE
    <3>1. j \in 1..Len(plan) /\ ~ (j <= m)
      BY <2>3, <2>11
    <3> QED BY <2>11, <2>12, <3>1
  <2>13. m \in 1..Len(plan) /\ IsLast(m)
    BY <2>11, <2>12
  <2>14. last \in 1..Len(plan) /\ IsLast(last)
    <3> HIDE DEF IsLast
    <3> QED BY <2>13
  <2>15. ASSUME NEW j \in OfThisId PROVE j <= last
    <3>1. j \in 1..Len(plan) /\ plan[j].id = s /\ last \in 1..Len(plan)
      BY <2>14
    <3> HIDE DEF last
    <3>2. j \notin (last + 1)..Len(plan)
      BY <2>14, <3>1
    <3> QED BY <2>3, <3>1, <3>2
  <2>16. last \in OfThisId
    BY <2>14
  <2>17. s \in DOMAIN StepPlans(plan) /\ StepPlans(plan)[s] = plan[last].body
    BY <2>5, <2>10 DEF StepPlans
  <2>18. thread.step_plans = StepPlans(plan)
    BY <1>1, <2>1 DEF HInv, HistoryInv, BeginsOf, plan
  <2>19. PromptedStep(thread) = plan[last].body
    BY <2>9, <2>17, <2>18 DEF PromptedStep
  <2> HIDE DEF last
  <2> QED BY <2>15, <2>16, <2>19
<1> QED BY <1>1, Invariance, HistoryInvariance, PTL

-----------------------------------------------------------------------------
(* The descent of an approved plan *)

\* Where two lists of nine numbers differ first decides between them.
LEMMA LexNine ==
  ASSUME NEW a1, NEW a2, NEW a3, NEW a4, NEW a5, NEW a6, NEW a7, NEW a8, NEW a9,
         NEW b1, NEW b2, NEW b3, NEW b4, NEW b5, NEW b6, NEW b7, NEW b8, NEW b9,
         \/ a1 < b1
         \/ a1 = b1 /\ a2 < b2
         \/ a1 = b1 /\ a2 = b2 /\ a3 < b3
         \/ a1 = b1 /\ a2 = b2 /\ a3 = b3 /\ a4 < b4
         \/ a1 = b1 /\ a2 = b2 /\ a3 = b3 /\ a4 = b4 /\ a5 < b5
         \/ a1 = b1 /\ a2 = b2 /\ a3 = b3 /\ a4 = b4 /\ a5 = b5 /\ a6 < b6
         \/ a1 = b1 /\ a2 = b2 /\ a3 = b3 /\ a4 = b4 /\ a5 = b5 /\ a6 = b6 /\ a7 < b7
         \/ /\ a1 = b1 /\ a2 = b2 /\ a3 = b3 /\ a4 = b4 /\ a5 = b5 /\ a6 = b6 /\ a7 = b7
            /\ a8 < b8 \/ (a8 = b8 /\ a9 < b9)
  PROVE  LexLess(<<a1, a2, a3, a4, a5, a6, a7, a8, a9>>,
                 <<b1, b2, b3, b4, b5, b6, b7, b8, b9>>)
<1> DEFINE a == <<a1, a2, a3, a4, a5, a6, a7, a8, a9>>
           b == <<b1, b2, b3, b4, b5, b6, b7, b8, b9>>
           At(j) == a[j] < b[j] /\ \A i \in 1..(j - 1) : a[i] = b[i]
<1>1. /\ a[1] = a1 /\ a[2] = a2 /\ a[3] = a3 /\ a[4] = a4 /\ a[5] = a5
      /\ a[6] = a6 /\ a[7] = a7 /\ a[8] = a8 /\ a[9] = a9
  OBVIOUS
<1>2. /\ b[1] = b1 /\ b[2] = b2 /\ b[3] = b3 /\ b[4] = b4 /\ b[5] = b5
      /\ b[6] = b6 /\ b[7] = b7 /\ b[8] = b8 /\ b[9] = b9
  OBVIOUS
<1>3. Len(a) = 9
  OBVIOUS
<1> HIDE DEF a, b
<1>4. At(1) \/ At(2) \/ At(3) \/ At(4) \/ At(5) \/ At(6) \/ At(7) \/ At(8) \/ At(9)
  BY <1>1, <1>2
<1>5. \E j \in 1..9 : At(j)
  BY <1>4
<1>6. LexLess(a, b)
  BY <1>3, <1>5 DEF LexLess
<1> QED BY <1>6 DEF a, b

\* The human is asked for nothing but the approval of a draft, and only the
\* tools and the queue manager have side effects to be between.
PhaseInv ==
  /\ ~alive => phase = "ready"
  /\ phase = "asking" => thread.next = "planner"
  /\ phase = "worked" => thread.next \in {"coder_tools", "queue_manager"}

LEMMA PhaseInvariance == Spec => []PhaseInv
<1>1. Init => PhaseInv
  BY DEF Init, PhaseInv
<1>2. ASSUME IInv, PhaseInv, [Next]_vars PROVE PhaseInv'
  <2> USE DEF PhaseInv, Return, Runs
  <2>1. ASSUME NEW draft \in Drafts, PlannerProposes(draft) \/ PlannerResumes(draft)
        PROVE  PhaseInv'
    BY <2>1 DEF PlannerProposes, PlannerResumes
  <2>2. ASSUME NEW n \in 0..MaxBatch, CoderNode(n) PROVE PhaseInv'
    BY <2>2 DEF CoderNode
  <2>3. ASSUME NEW ok \in BOOLEAN, TesterNode(ok) PROVE PhaseInv'
    BY <2>3 DEF TesterNode
  <2>4. CASE ToolsWork \/ ToolsEnd \/ QueueCommit \/ QueueEnd \/ GiveUpNode
    BY <2>4 DEF ToolsWork, ToolsEnd, QueueCommit, QueueEnd, GiveUpNode
  <2>5. CASE Flush \/ Exit \/ Launch \/ Crash \/ UNCHANGED vars
    BY <1>2, <2>5 DEF Flush, Exit, Launch, Crash, vars
  <2>7. CASE LaunchReset
    BY <1>2, <2>7, InitialFields DEF LaunchReset
  <2>6. ASSUME NEW r \in Response, Answer(r) PROVE PhaseInv'
    BY <2>6 DEF Answer
  <2> QED BY <1>2, <2>1, <2>2, <2>3, <2>4, <2>5, <2>6, <2>7 DEF Next, Work
<1> QED BY <1>1, <1>2, Invariance, PTL DEF Spec

\* What a node returns, as far as the effort goes: it needs the previous
\* checkpoint to be written and leaves one to write.
LEMMA CoderSpends ==
  ASSUME IInv, NEW n \in 0..MaxBatch, CoderNode(n)
  PROVE  /\ thread.next = "coder" /\ UNCHANGED faults
         /\ thread'.todo_tasks = thread.todo_tasks
         /\ thread'.retry_count = thread.retry_count
         /\ \/ /\ thread'.next \in {"coder_tools", "tester"}
               /\ thread'.tool_call_count = thread.tool_call_count + 1
            \/ /\ thread'.next = "tester"
               /\ thread'.tool_call_count = thread.tool_call_count
<1> DEFINE t == CoderReturns(thread, n)
           seed == IF sanitize_history(thread.messages) = <<>>
                   THEN <<HumanMessage(CurrentTask(thread))>> ELSE <<>>
           calls == [k \in 1..n |-> <<Len(thread.messages) + Len(seed) + 1, k>>]
           response == AIMessage(CurrentTask(thread), calls)
<1>0. thread \in Thread /\ n \in Nat
  BY BudgetAssumption DEF IInv, TypeOK
<1>1. /\ thread \in Thread /\ n \in Nat /\ thread.messages \in Seq(Message)
      /\ thread.tool_call_count \in Nat
  BY <1>0 DEF Thread
<1>2. t \in Thread
  BY <1>1, CoderReturnsType
<1>3. /\ thread' = [t EXCEPT !.next = coder_router(t)]
      /\ thread.next = "coder" /\ UNCHANGED faults
  BY DEF CoderNode, Return, Runs
<1>4. t = [thread EXCEPT !.messages = thread.messages \o seed \o <<response>>,
                         !.tool_call_count = IF n > 0 THEN @ + 1 ELSE @]
  BY DEF CoderReturns
<1> HIDE DEF t, seed, response
<1>5. /\ t.todo_tasks = thread.todo_tasks /\ t.retry_count = thread.retry_count
      /\ t.messages = thread.messages \o seed \o <<response>>
      /\ t.tool_call_count = IF n > 0 THEN thread.tool_call_count + 1
                             ELSE thread.tool_call_count
  BY <1>1, <1>4 DEF Thread
<1>6. /\ thread'.todo_tasks = thread.todo_tasks /\ thread'.retry_count = thread.retry_count
      /\ thread'.tool_call_count = t.tool_call_count /\ thread'.next = coder_router(t)
  BY <1>2, <1>3, <1>5 DEF Thread
<1>7. coder_router(t) \in {"coder_tools", "tester"}
  BY DEF coder_router
<1>8. CASE n = 0
  <2>1. calls = <<>>
    BY <1>8
  <2> HIDE DEF calls
  <2>2. response \in Message /\ response.calls = <<>>
    <3>1. CurrentTask(thread) \in Tasks \cup {Unknown}
      BY <1>1, CurrentTaskType
    <3>2. response = AIMessage(CurrentTask(thread), <<>>)
      BY <2>1 DEF response
    <3> QED BY <3>1, <3>2 DEF AIMessage, Message
  <2>3. thread.messages \o seed \in Seq(Message)
    <3>1. HumanMessage(CurrentTask(thread)) \in Message
      BY <1>1, CurrentTaskType DEF HumanMessage, Message
    <3>2. seed \in Seq(Message)
      BY <3>1 DEF seed
    <3> QED BY <1>1, <3>2, ConcatProperties
  <2>4. t.messages[Len(t.messages)] = response
    <3> DEFINE base == thread.messages \o seed
    <3> HIDE DEF base
    <3>1. (base \o <<response>>)[Len(base \o <<response>>)] = response
      BY <2>2, <2>3, OneMore DEF base
    <3> QED BY <1>5, <3>1 DEF base
  <2>5. coder_router(t) = "tester"
    BY <2>2, <2>4 DEF coder_router
  <2> QED BY <1>3, <1>5, <1>6, <1>8, <2>5
<1>9. CASE n > 0
  BY <1>3, <1>5, <1>6, <1>7, <1>9
<1> QED BY <1>1, <1>8, <1>9

LEMMA ToolsSpend ==
  ASSUME IInv, ToolsEnd
  PROVE  /\ thread.next = "coder_tools" /\ UNCHANGED faults
         /\ thread'.next = "coder"
         /\ thread'.todo_tasks = thread.todo_tasks
         /\ thread'.retry_count = thread.retry_count
         /\ thread'.tool_call_count = thread.tool_call_count
<1> DEFINE t == ToolsReturn(thread)
<1>1. thread \in Thread /\ thread.messages # <<>>
  BY DEF IInv, TypeOK, ThreadInv, ToolsHaveMessage, ToolsEnd
<1>2. /\ t \in Thread /\ t.todo_tasks = thread.todo_tasks
      /\ t.retry_count = thread.retry_count /\ t.tool_call_count = thread.tool_call_count
  BY <1>1, ToolsReturnType DEF ToolsReturn, Thread
<1> HIDE DEF t
<1>3. /\ thread' = [t EXCEPT !.next = "coder"]
      /\ thread.next = "coder_tools" /\ UNCHANGED faults
  BY DEF ToolsEnd, Return, t
<1> QED BY <1>2, <1>3 DEF Thread

LEMMA TesterSpends ==
  ASSUME IInv, NEW ok \in BOOLEAN, TesterNode(ok)
  PROVE  /\ thread.next = "tester" /\ UNCHANGED faults
         /\ thread'.todo_tasks = thread.todo_tasks
         /\ \/ thread'.next \in {"queue_manager", "give_up"}
            \/ /\ thread'.next = "coder"
               /\ thread'.retry_count = thread.retry_count + 1
<1> DEFINE t == TesterReturns(thread, ok)
<1>1. thread \in Thread
  BY DEF IInv, TypeOK
<1>2. /\ t \in Thread /\ t.todo_tasks = thread.todo_tasks
      /\ t.tests_passed = ok
      /\ ~ok => t.retry_count = thread.retry_count + 1
  BY <1>1, TesterReturnsType DEF TesterReturns, Thread
<1>3. /\ thread' = [t EXCEPT !.next = test_evaluator(t)]
      /\ thread.next = "tester" /\ UNCHANGED faults
  BY DEF TesterNode, Return, Runs
<1> HIDE DEF t
<1>4. /\ thread'.next = test_evaluator(t) /\ thread'.todo_tasks = t.todo_tasks
      /\ thread'.retry_count = t.retry_count
  BY <1>2, <1>3 DEF Thread
<1>5. CASE ok
  BY <1>2, <1>3, <1>4, <1>5 DEF test_evaluator
<1>6. CASE ~ok
  BY <1>2, <1>3, <1>4, <1>6 DEF test_evaluator
<1> QED BY <1>5, <1>6

LEMMA QueueSpends ==
  ASSUME IInv, QueueEnd
  PROVE  /\ thread.next = "queue_manager" /\ UNCHANGED faults
         /\ \/ Len(thread'.todo_tasks) < Len(thread.todo_tasks)
            \/ /\ thread'.next = "END"
               /\ thread'.todo_tasks = thread.todo_tasks
               /\ thread'.retry_count = thread.retry_count
               /\ thread'.tool_call_count = thread.tool_call_count
<1> DEFINE t == QueueAdvanced(thread)
<1>1. thread \in Thread /\ thread.todo_tasks \in Seq(Tasks)
  BY DEF IInv, TypeOK, Thread
<1>2. t \in Thread
  BY <1>1, QueueAdvancedType
<1>3. /\ thread' = [t EXCEPT !.next = queue_evaluator(t)]
      /\ thread.next = "queue_manager" /\ UNCHANGED faults
  BY DEF QueueEnd, Return, Runs
<1>4. CASE thread.todo_tasks = <<>>
  <2>1. t = thread
    BY <1>4 DEF QueueAdvanced
  <2> HIDE DEF t
  <2> QED BY <1>1, <1>3, <1>4, <2>1 DEF queue_evaluator, Thread
<1>5. CASE thread.todo_tasks # <<>>
  <2>1. t.todo_tasks = Tail(thread.todo_tasks)
    BY <1>1, <1>5 DEF QueueAdvanced, Thread
  <2> HIDE DEF t
  <2>2. thread'.todo_tasks = Tail(thread.todo_tasks)
    BY <1>2, <1>3, <2>1 DEF Thread
  <2>3. Len(Tail(thread.todo_tasks)) < Len(thread.todo_tasks)
    <3>1. Len(thread.todo_tasks) \in Nat
      BY <1>1, LenProperties
    <3>2. Len(Tail(thread.todo_tasks)) = Len(thread.todo_tasks) - 1
      BY <1>1, <1>5, HeadTailProperties
    <3> QED BY <3>1, <3>2
  <2> QED BY <1>3, <2>2, <2>3
<1> QED BY <1>4, <1>5

\* Whatever a node returns, it has spent something.
LEMMA NodesSpend ==
  ASSUME IInv, [Next]_vars, thread.next # "planner", phase # "asking",
         faults'.resets = faults.resets, vars' # vars,
         thread.next # "END" \/ saved # thread
  PROVE  LexLess(Effort', Effort)
<1> USE DEF Return, Runs
<1>0. /\ thread \in Thread /\ thread.retry_count \in Nat /\ thread.tool_call_count \in Nat
      /\ MAX_TEST_RETRIES \in Nat /\ MaxToolCalls \in Nat
      /\ faults.crashes \in Nat /\ MaxCrashes \in Nat
  BY RetriesAssumption, BudgetAssumption, FaultsAssumption, FaultsCount
     DEF IInv, TypeOK, Thread
<1>01. /\ Rank["END"] = 0 /\ Rank["give_up"] = 1 /\ Rank["queue_manager"] = 2
       /\ Rank["tester"] = 3 /\ Rank["coder"] = 4 /\ Rank["coder_tools"] = 5
  BY DEF Rank
<1>02. One(TRUE) = 1 /\ One(FALSE) = 0
  BY DEF One
<1>1. ASSUME NEW draft \in Drafts, PlannerProposes(draft) \/ PlannerResumes(draft)
      PROVE  FALSE
  BY <1>1 DEF PlannerProposes, PlannerResumes
<1>2. ASSUME NEW n \in 0..MaxBatch, CoderNode(n) PROVE LexLess(Effort', Effort)
  <2>1. /\ thread.next = "coder" /\ UNCHANGED faults
        /\ thread'.todo_tasks = thread.todo_tasks
        /\ thread'.retry_count = thread.retry_count
        /\ thread'.next \in {"coder_tools", "tester"}
        /\ \/ thread'.tool_call_count = thread.tool_call_count + 1
           \/ /\ thread'.next = "tester"
              /\ thread'.tool_call_count = thread.tool_call_count
    BY <1>2, CoderSpends
  <2>2. CASE thread'.tool_call_count = thread.tool_call_count + 1
    <3>1. MaxToolCalls - thread'.tool_call_count < MaxToolCalls - thread.tool_call_count
      BY <1>0, <2>2
    <3> QED BY <2>1, <3>1, LexNine DEF Effort
  <2>3. CASE /\ thread'.next = "tester"
             /\ thread'.tool_call_count = thread.tool_call_count
    <3>1. Rank[thread'.next] < Rank[thread.next]
      BY <1>01, <2>1, <2>3
    <3> QED BY <2>1, <2>3, <3>1, LexNine DEF Effort
  <2> QED BY <2>1, <2>2, <2>3
<1>3. CASE ToolsEnd
  <2>1. /\ thread.next = "coder_tools" /\ UNCHANGED faults
        /\ thread'.next = "coder"
        /\ thread'.todo_tasks = thread.todo_tasks
        /\ thread'.retry_count = thread.retry_count
        /\ thread'.tool_call_count = thread.tool_call_count
    BY <1>3, ToolsSpend
  <2>2. Rank[thread'.next] < Rank[thread.next]
    BY <1>01, <2>1
  <2> QED BY <2>1, <2>2, LexNine DEF Effort
<1>4. ASSUME NEW ok \in BOOLEAN, TesterNode(ok) PROVE LexLess(Effort', Effort)
  <2>1. /\ thread.next = "tester" /\ UNCHANGED faults
        /\ thread'.todo_tasks = thread.todo_tasks
        /\ \/ thread'.next \in {"queue_manager", "give_up"}
           \/ /\ thread'.next = "coder"
              /\ thread'.retry_count = thread.retry_count + 1
    BY <1>4, TesterSpends
  <2>2. CASE thread'.next \in {"queue_manager", "give_up"}
    <3>1. One(thread'.next \in {"coder", "coder_tools", "tester"})
            < One(thread.next \in {"coder", "coder_tools", "tester"})
      BY <2>1, <2>2 DEF One
    <3> QED BY <2>1, <3>1, LexNine DEF Effort
  <2>3. CASE /\ thread'.next = "coder"
             /\ thread'.retry_count = thread.retry_count + 1
    <3>1. One(thread'.next \in {"coder", "coder_tools", "tester"})
            = One(thread.next \in {"coder", "coder_tools", "tester"})
      BY <2>1, <2>3 DEF One
    <3>2. MAX_TEST_RETRIES - thread'.retry_count < MAX_TEST_RETRIES - thread.retry_count
      BY <1>0, <2>3
    <3> QED BY <2>1, <3>1, <3>2, LexNine DEF Effort
  <2> QED BY <2>1, <2>2, <2>3
<1>5. CASE QueueEnd
  <2>1. /\ thread.next = "queue_manager" /\ UNCHANGED faults
        /\ \/ Len(thread'.todo_tasks) < Len(thread.todo_tasks)
           \/ /\ thread'.next = "END"
              /\ thread'.todo_tasks = thread.todo_tasks
              /\ thread'.retry_count = thread.retry_count
              /\ thread'.tool_call_count = thread.tool_call_count
    BY <1>5, QueueSpends
  <2>2. CASE Len(thread'.todo_tasks) < Len(thread.todo_tasks)
    BY <2>1, <2>2, LexNine DEF Effort
  <2>3. CASE /\ thread'.next = "END"
             /\ thread'.todo_tasks = thread.todo_tasks
             /\ thread'.retry_count = thread.retry_count
             /\ thread'.tool_call_count = thread.tool_call_count
    <3>1. One(thread'.next \in {"coder", "coder_tools", "tester"})
            = One(thread.next \in {"coder", "coder_tools", "tester"})
      BY <2>1, <2>3 DEF One
    <3>2. Rank[thread'.next] < Rank[thread.next]
      BY <1>01, <2>1, <2>3
    <3> QED BY <2>1, <2>3, <3>1, <3>2, LexNine DEF Effort
  <2> QED BY <2>1, <2>2, <2>3
<1>6. CASE GiveUpNode
  <2>1. /\ thread' = [thread EXCEPT !.next = "END"] /\ thread.next = "give_up"
        /\ UNCHANGED faults
    BY <1>6 DEF GiveUpNode
  <2>2. /\ thread'.next = "END" /\ thread'.todo_tasks = thread.todo_tasks
        /\ thread'.retry_count = thread.retry_count
        /\ thread'.tool_call_count = thread.tool_call_count
    BY <1>0, <2>1 DEF Thread
  <2>3. Rank[thread'.next] < Rank[thread.next]
    BY <1>01, <2>1, <2>2
  <2>4. One(thread'.next \in {"coder", "coder_tools", "tester"})
          = One(thread.next \in {"coder", "coder_tools", "tester"})
    BY <2>1, <2>2 DEF One
  <2> QED BY <2>1, <2>2, <2>3, <2>4, LexNine DEF Effort
<1>7. CASE ToolsWork \/ QueueCommit
  <2>1. UNCHANGED thread /\ faults'.crashes = faults.crashes
    <3>1. CASE ToolsWork
      BY <3>1 DEF ToolsWork
    <3>2. CASE QueueCommit
      BY <3>2 DEF QueueCommit, IInv, TypeOK
    <3> QED BY <1>7, <3>1, <3>2
  <2>2. One(phase' = "ready") < One(phase = "ready")
    BY <1>7 DEF ToolsWork, QueueCommit, One
  <2> QED BY <2>1, <2>2, LexNine DEF Effort
<1>8. CASE Flush
  <2>1. UNCHANGED <<thread, faults, phase>>
    BY <1>8 DEF Flush
  <2>2. Unwritten /\ ~Unwritten'
    BY <1>8 DEF Flush, Unwritten
  <2>3. One(Unwritten') < One(Unwritten)
    BY <2>2 DEF One
  <2> QED BY <2>1, <2>3, LexNine DEF Effort
<1>9. CASE Exit
  BY <1>9 DEF Exit
<1>10. CASE Launch
  <2>1. UNCHANGED <<thread, faults, phase>> /\ Unwritten' = Unwritten
    BY <1>10 DEF Launch, Unwritten
  <2>2. One(~alive') < One(~alive)
    BY <1>10 DEF Launch, One
  <2> QED BY <2>1, <2>2, LexNine DEF Effort
<1>11. CASE LaunchReset
  <2>1. faults'.resets # faults.resets
    BY <1>11, FaultsCount DEF LaunchReset, IInv, TypeOK
  <2> QED BY <2>1
<1>12. CASE Crash
  <2>1. faults'.crashes = faults.crashes + 1
    BY <1>12 DEF Crash, IInv, TypeOK
  <2>2. MaxCrashes - faults'.crashes < MaxCrashes - faults.crashes
    BY <1>0, <2>1
  <2> QED BY <2>2, LexNine DEF Effort
<1>13. ASSUME NEW r \in Response, Answer(r) PROVE FALSE
  BY <1>13 DEF Answer
<1> QED BY <1>1, <1>2, <1>3, <1>4, <1>5, <1>6, <1>7, <1>8, <1>9, <1>10, <1>11, <1>12,
           <1>13 DEF Next, Work

\* From an approval on disk to the end of the graph, every step of the nodes,
\* of the checkpoint writes and of the process descends, for any plan, LLM,
\* retry limit, tool limit and number of faults.
THEOREM PlanDescendsHolds == Spec => PlanDescends
<1>1. ASSUME IInv, ApprovalInv, PhaseInv, [Next]_vars
      PROVE  [saved.plan_approved /\ saved.next # "END" /\ faults'.resets = faults.resets
                => LexLess(Effort', Effort)]_vars
  <2> SUFFICES ASSUME saved.plan_approved, saved.next # "END",
                      faults'.resets = faults.resets, vars' # vars
               PROVE  LexLess(Effort', Effort)
    OBVIOUS
  <2>1. thread.next # "planner"
    BY <1>1 DEF ApprovalInv, IInv, ThreadInv, PlannerIsFirst
  <2>2. phase # "asking"
    BY <1>1, <2>1 DEF PhaseInv
  <2>3. thread.next # "END" \/ saved # thread
    OBVIOUS
  <2> QED BY <1>1, <2>1, <2>2, <2>3, NodesSpend
<1> QED BY <1>1, Invariance, ApprovalInvariance, PhaseInvariance, PTL
     DEF Spec, PlanDescends

\* With an LLM that obeys the tool-limit instruction what is left to spend is
\* never negative.
THEOREM EffortIsNatural ==
  ASSUME Obedient, MaxToolCalls # 0
  PROVE  Spec => [](Effort \in [1..9 -> Nat])
<1>1. ASSUME IInv, HInv PROVE Effort \in [1..9 -> Nat]
  <2>1. /\ thread \in Thread /\ ThreadInv(thread) /\ TypeOK
        /\ thread.todo_tasks \in Seq(Tasks)
    BY <1>1 DEF IInv, ThreadInv, Thread
  <2>2. Len(thread.todo_tasks) \in Nat
    BY <2>1, LenProperties
  <2>3. MaxCrashes - faults.crashes \in Nat
    <3>1. faults.crashes \in 0..MaxCrashes
      BY <2>1 DEF TypeOK
    <3> QED BY <3>1, FaultsAssumption
  <2>4. MAX_TEST_RETRIES - thread.retry_count \in Nat
    <3>1. thread.retry_count \in Nat /\ thread.retry_count <= MAX_TEST_RETRIES
      BY <2>1 DEF ThreadInv, RetryBudgetOf, Thread
    <3> QED BY <3>1, RetriesAssumption
  <2>5. MaxToolCalls - thread.tool_call_count \in Nat
    <3>1. thread.tool_call_count <= MaxToolCalls
      BY <1>1 DEF HInv, HistoryInv, BudgetOf
    <3>2. thread.tool_call_count \in Nat
      BY <2>1 DEF Thread
    <3> QED BY <3>1, <3>2, BudgetAssumption
  <2>6. Rank[thread.next] \in Nat
    <3>1. thread.next \in {"planner", "coder", "coder_tools", "tester", "queue_manager",
                           "give_up", "END"}
      BY <2>1 DEF Thread, Nodes
    <3>2. /\ Rank["planner"] \in Nat /\ Rank["coder"] \in Nat /\ Rank["coder_tools"] \in Nat
          /\ Rank["tester"] \in Nat /\ Rank["queue_manager"] \in Nat
          /\ Rank["give_up"] \in Nat /\ Rank["END"] \in Nat
      BY DEF Rank
    <3> QED BY <3>1, <3>2
  <2>7. /\ One(thread.next \in {"coder", "coder_tools", "tester"}) \in Nat
        /\ One(phase = "ready") \in Nat /\ One(Unwritten) \in Nat
        /\ One(~alive) \in Nat
    BY DEF One
  <2>8. \A n1, n2, n3, n4, n5, n6, n7, n8, n9 \in Nat :
          <<n1, n2, n3, n4, n5, n6, n7, n8, n9>> \in [1..9 -> Nat]
    OBVIOUS
  <2> QED BY <2>2, <2>3, <2>4, <2>5, <2>6, <2>7, <2>8 DEF Effort
<1> QED BY <1>1, Invariance, HistoryInvariance, PTL

\* The nine numbers as the digits of one: the costlier ones weigh as much as all
\* that the cheaper ones can add up to, in plans of at most L steps.
Weight(e, L) ==
  (((((((e[1] * (L + 1) + e[2]) * 2 + e[3]) * (MAX_TEST_RETRIES + 1) + e[4])
       * (MaxToolCalls + 1) + e[5]) * 7 + e[6]) * 2 + e[7]) * 2 + e[8]) * 2 + e[9]

\* 112 (MaxCrashes + 1) (L + 1) (MAX_TEST_RETRIES + 1) (MaxToolCalls + 1).
MostSteps(L) ==
  (((((((MaxCrashes + 1) * (L + 1)) * 2) * (MAX_TEST_RETRIES + 1))
       * (MaxToolCalls + 1) * 7) * 2) * 2) * 2

\* The digits are digits.
InBase(e, L) ==
  /\ e[1] \in 0..MaxCrashes /\ e[2] \in 0..L /\ e[3] \in 0..1
  /\ e[4] \in 0..MAX_TEST_RETRIES /\ e[5] \in 0..MaxToolCalls /\ e[6] \in 0..6
  /\ e[7] \in 0..1 /\ e[8] \in 0..1 /\ e[9] \in 0..1

\* A digit less decides only between numbers that agree before it.
LEMMA Digit ==
  ASSUME NEW a \in Nat, NEW b \in Nat, NEW base \in Nat,
         NEW x \in 0..(base - 1), NEW y \in 0..(base - 1),
         a < b \/ (a = b /\ x < y)
  PROVE  a * base + x < b * base + y
<1>1. CASE a < b
  <2> DEFINE k == b - a - 1
  <2>1. k \in Nat /\ b = a + 1 + k
    BY <1>1
  <2> HIDE DEF k
  <2>2. b * base = a * base + base + k * base
    BY <2>1
  <2>3. k * base \in Nat /\ a * base \in Nat
    BY <2>1
  <2> DEFINE ab == a * base
             kb == k * base
  <2>4. b * base = ab + base + kb /\ ab \in Nat /\ kb \in Nat
    BY <2>2, <2>3
  <2> HIDE DEF ab, kb
  <2>5. ab + x < ab + base + kb + y
    BY <2>4
  <2> QED BY <2>4, <2>5 DEF ab
<1>2. CASE a = b /\ x < y
  <2> DEFINE ab == a * base
  <2>1. ab \in Nat /\ b * base = ab
    BY <1>2
  <2> HIDE DEF ab
  <2>2. ab + x < ab + y
    BY <1>2, <2>1
  <2> QED BY <2>1, <2>2 DEF ab
<1> QED BY <1>1, <1>2

DropsBy(e, f, k) == \E j \in 1..k : e[j] < f[j] /\ \A i \in 1..(j - 1) : e[i] = f[i]
SameTo(e, f, k) == \A i \in 1..k : e[i] = f[i]

\* One digit more of two numbers.
LEMMA NextDigit ==
  ASSUME NEW a \in Nat, NEW b \in Nat, NEW base \in Nat,
         NEW x \in 0..(base - 1), NEW y \in 0..(base - 1)
  PROVE  /\ a * base + x \in Nat /\ b * base + y \in Nat
         /\ a < b \/ (a = b /\ x < y) => a * base + x < b * base + y
<1>1. a * base \in Nat /\ b * base \in Nat
  OBVIOUS
<1> DEFINE ab == a * base
           bb == b * base
<1>2. ab + x \in Nat /\ bb + y \in Nat
  <2> HIDE DEF ab, bb
  <2> QED BY <1>1 DEF ab, bb
<1>3. a < b \/ (a = b /\ x < y) => a * base + x < b * base + y
  BY Digit
<1> QED BY <1>2, <1>3

LEMMA DropsSplit ==
  ASSUME NEW e, NEW f, NEW k \in Nat, NEW n, n = k + 1
  PROVE  /\ DropsBy(e, f, n) => DropsBy(e, f, k) \/ (SameTo(e, f, k) /\ e[n] < f[n])
         /\ SameTo(e, f, n) => SameTo(e, f, k) /\ e[n] = f[n]
<1>1. ASSUME NEW j \in 1..n, e[j] < f[j], \A i \in 1..(j - 1) : e[i] = f[i]
      PROVE  DropsBy(e, f, k) \/ (SameTo(e, f, k) /\ e[n] < f[n])
  <2>1. CASE j = n
    <3>1. j - 1 = k
      BY <2>1
    <3> QED BY <1>1, <2>1, <3>1 DEF SameTo
  <2>2. CASE j # n
    <3>1. j \in 1..k
      BY <2>2
    <3> QED BY <1>1, <3>1 DEF DropsBy
  <2> QED BY <2>1, <2>2
<1>2. DropsBy(e, f, n) => DropsBy(e, f, k) \/ (SameTo(e, f, k) /\ e[n] < f[n])
  BY <1>1 DEF DropsBy
<1>3. SameTo(e, f, n) => SameTo(e, f, k) /\ e[n] = f[n]
  BY DEF SameTo
<1> QED BY <1>2, <1>3

LEMMA LeadingDigit ==
  ASSUME NEW a \in Nat, NEW m \in Nat, NEW base \in Nat, NEW x \in 0..(base - 1),
         a < m
  PROVE  a * base + x \in Nat /\ m * base \in Nat /\ a * base + x < m * base
<1>1. 0 \in 0..(base - 1)
  OBVIOUS
<1>2. a * base + x < m * base + 0
  BY <1>1, Digit
<1> DEFINE ab == a * base
           mb == m * base
<1>3. ab \in Nat /\ mb \in Nat /\ ab + x < mb + 0
  BY <1>2
<1> HIDE DEF ab, mb
<1>4. ab + x \in Nat /\ ab + x < mb
  BY <1>3
<1> QED BY <1>3, <1>4 DEF ab, mb

\* What descends in the order of the nine numbers weighs less.
LEMMA WeightLess ==
  ASSUME NEW L \in Nat, NEW e, NEW f, InBase(e, L), InBase(f, L), DropsBy(e, f, 9)
  PROVE  Weight(e, L) \in Nat /\ Weight(e, L) < Weight(f, L)
<1> DEFINE BL == L + 1
           BR == MAX_TEST_RETRIES + 1
           BT == MaxToolCalls + 1
           B7 == 7
           B2 == 2
           u1 == e[1]
           v1 == f[1]
           u2 == u1 * BL + e[2]
           v2 == v1 * BL + f[2]
           u3 == u2 * B2 + e[3]
           v3 == v2 * B2 + f[3]
           u4 == u3 * BR + e[4]
           v4 == v3 * BR + f[4]
           u5 == u4 * BT + e[5]
           v5 == v4 * BT + f[5]
           u6 == u5 * B7 + e[6]
           v6 == v5 * B7 + f[6]
           u7 == u6 * B2 + e[7]
           v7 == v6 * B2 + f[7]
           u8 == u7 * B2 + e[8]
           v8 == v7 * B2 + f[8]
           u9 == u8 * B2 + e[9]
           v9 == v8 * B2 + f[9]
<1>0. /\ BL \in Nat /\ BR \in Nat /\ BT \in Nat /\ B7 \in Nat /\ B2 \in Nat
      /\ \A x \in {e, f} :
           /\ x[2] \in 0..(BL - 1)
           /\ x[3] \in 0..(B2 - 1)
           /\ x[4] \in 0..(BR - 1)
           /\ x[5] \in 0..(BT - 1)
           /\ x[6] \in 0..(B7 - 1)
           /\ x[7] \in 0..(B2 - 1)
           /\ x[8] \in 0..(B2 - 1)
           /\ x[9] \in 0..(B2 - 1)
  BY RetriesAssumption, BudgetAssumption DEF InBase
<1>1. /\ u1 \in Nat /\ v1 \in Nat
      /\ DropsBy(e, f, 1) => u1 < v1
      /\ SameTo(e, f, 1) => u1 = v1
  BY DEF InBase, DropsBy, SameTo
<1> HIDE DEF BL, BR, BT, B7, B2
<1>2. /\ u2 \in Nat /\ v2 \in Nat
      /\ DropsBy(e, f, 2) => u2 < v2
      /\ SameTo(e, f, 2) => u2 = v2
  <2>1. e[2] \in 0..(BL - 1) /\ f[2] \in 0..(BL - 1) /\ BL \in Nat
    BY <1>0
  <2>2. /\ DropsBy(e, f, 2) =>
             DropsBy(e, f, 1) \/ (SameTo(e, f, 1) /\ e[2] < f[2])
        /\ SameTo(e, f, 2) => SameTo(e, f, 1) /\ e[2] = f[2]
    <3>1. 1 \in Nat /\ 2 = 1 + 1
      OBVIOUS
    <3> QED BY <3>1, DropsSplit
  <2> HIDE DEF u1, v1
  <2>3. /\ u2 \in Nat /\ v2 \in Nat
        /\ u1 < v1 \/ (u1 = v1 /\ e[2] < f[2]) => u2 < v2
    BY <1>1, <2>1, NextDigit
  <2>4. u1 = v1 /\ e[2] = f[2] => u2 = v2
    OBVIOUS
  <2> HIDE DEF u2, v2
  <2> QED BY <1>1, <2>2, <2>3, <2>4
<1>3. /\ u3 \in Nat /\ v3 \in Nat
      /\ DropsBy(e, f, 3) => u3 < v3
      /\ SameTo(e, f, 3) => u3 = v3
  <2>1. e[3] \in 0..(B2 - 1) /\ f[3] \in 0..(B2 - 1) /\ B2 \in Nat
    BY <1>0
  <2>2. /\ DropsBy(e, f, 3) =>
             DropsBy(e, f, 2) \/ (SameTo(e, f, 2) /\ e[3] < f[3])
        /\ SameTo(e, f, 3) => SameTo(e, f, 2) /\ e[3] = f[3]
    <3>1. 2 \in Nat /\ 3 = 2 + 1
      OBVIOUS
    <3> QED BY <3>1, DropsSplit
  <2> HIDE DEF u2, v2
  <2>3. /\ u3 \in Nat /\ v3 \in Nat
        /\ u2 < v2 \/ (u2 = v2 /\ e[3] < f[3]) => u3 < v3
    BY <1>2, <2>1, NextDigit
  <2>4. u2 = v2 /\ e[3] = f[3] => u3 = v3
    OBVIOUS
  <2> HIDE DEF u3, v3
  <2> QED BY <1>2, <2>2, <2>3, <2>4
<1>4. /\ u4 \in Nat /\ v4 \in Nat
      /\ DropsBy(e, f, 4) => u4 < v4
      /\ SameTo(e, f, 4) => u4 = v4
  <2>1. e[4] \in 0..(BR - 1) /\ f[4] \in 0..(BR - 1) /\ BR \in Nat
    BY <1>0
  <2>2. /\ DropsBy(e, f, 4) =>
             DropsBy(e, f, 3) \/ (SameTo(e, f, 3) /\ e[4] < f[4])
        /\ SameTo(e, f, 4) => SameTo(e, f, 3) /\ e[4] = f[4]
    <3>1. 3 \in Nat /\ 4 = 3 + 1
      OBVIOUS
    <3> QED BY <3>1, DropsSplit
  <2> HIDE DEF u3, v3
  <2>3. /\ u4 \in Nat /\ v4 \in Nat
        /\ u3 < v3 \/ (u3 = v3 /\ e[4] < f[4]) => u4 < v4
    BY <1>3, <2>1, NextDigit
  <2>4. u3 = v3 /\ e[4] = f[4] => u4 = v4
    OBVIOUS
  <2> HIDE DEF u4, v4
  <2> QED BY <1>3, <2>2, <2>3, <2>4
<1>5. /\ u5 \in Nat /\ v5 \in Nat
      /\ DropsBy(e, f, 5) => u5 < v5
      /\ SameTo(e, f, 5) => u5 = v5
  <2>1. e[5] \in 0..(BT - 1) /\ f[5] \in 0..(BT - 1) /\ BT \in Nat
    BY <1>0
  <2>2. /\ DropsBy(e, f, 5) =>
             DropsBy(e, f, 4) \/ (SameTo(e, f, 4) /\ e[5] < f[5])
        /\ SameTo(e, f, 5) => SameTo(e, f, 4) /\ e[5] = f[5]
    <3>1. 4 \in Nat /\ 5 = 4 + 1
      OBVIOUS
    <3> QED BY <3>1, DropsSplit
  <2> HIDE DEF u4, v4
  <2>3. /\ u5 \in Nat /\ v5 \in Nat
        /\ u4 < v4 \/ (u4 = v4 /\ e[5] < f[5]) => u5 < v5
    BY <1>4, <2>1, NextDigit
  <2>4. u4 = v4 /\ e[5] = f[5] => u5 = v5
    OBVIOUS
  <2> HIDE DEF u5, v5
  <2> QED BY <1>4, <2>2, <2>3, <2>4
<1>6. /\ u6 \in Nat /\ v6 \in Nat
      /\ DropsBy(e, f, 6) => u6 < v6
      /\ SameTo(e, f, 6) => u6 = v6
  <2>1. e[6] \in 0..(B7 - 1) /\ f[6] \in 0..(B7 - 1) /\ B7 \in Nat
    BY <1>0
  <2>2. /\ DropsBy(e, f, 6) =>
             DropsBy(e, f, 5) \/ (SameTo(e, f, 5) /\ e[6] < f[6])
        /\ SameTo(e, f, 6) => SameTo(e, f, 5) /\ e[6] = f[6]
    <3>1. 5 \in Nat /\ 6 = 5 + 1
      OBVIOUS
    <3> QED BY <3>1, DropsSplit
  <2> HIDE DEF u5, v5
  <2>3. /\ u6 \in Nat /\ v6 \in Nat
        /\ u5 < v5 \/ (u5 = v5 /\ e[6] < f[6]) => u6 < v6
    BY <1>5, <2>1, NextDigit
  <2>4. u5 = v5 /\ e[6] = f[6] => u6 = v6
    OBVIOUS
  <2> HIDE DEF u6, v6
  <2> QED BY <1>5, <2>2, <2>3, <2>4
<1>7. /\ u7 \in Nat /\ v7 \in Nat
      /\ DropsBy(e, f, 7) => u7 < v7
      /\ SameTo(e, f, 7) => u7 = v7
  <2>1. e[7] \in 0..(B2 - 1) /\ f[7] \in 0..(B2 - 1) /\ B2 \in Nat
    BY <1>0
  <2>2. /\ DropsBy(e, f, 7) =>
             DropsBy(e, f, 6) \/ (SameTo(e, f, 6) /\ e[7] < f[7])
        /\ SameTo(e, f, 7) => SameTo(e, f, 6) /\ e[7] = f[7]
    <3>1. 6 \in Nat /\ 7 = 6 + 1
      OBVIOUS
    <3> QED BY <3>1, DropsSplit
  <2> HIDE DEF u6, v6
  <2>3. /\ u7 \in Nat /\ v7 \in Nat
        /\ u6 < v6 \/ (u6 = v6 /\ e[7] < f[7]) => u7 < v7
    BY <1>6, <2>1, NextDigit
  <2>4. u6 = v6 /\ e[7] = f[7] => u7 = v7
    OBVIOUS
  <2> HIDE DEF u7, v7
  <2> QED BY <1>6, <2>2, <2>3, <2>4
<1>8. /\ u8 \in Nat /\ v8 \in Nat
      /\ DropsBy(e, f, 8) => u8 < v8
      /\ SameTo(e, f, 8) => u8 = v8
  <2>1. e[8] \in 0..(B2 - 1) /\ f[8] \in 0..(B2 - 1) /\ B2 \in Nat
    BY <1>0
  <2>2. /\ DropsBy(e, f, 8) =>
             DropsBy(e, f, 7) \/ (SameTo(e, f, 7) /\ e[8] < f[8])
        /\ SameTo(e, f, 8) => SameTo(e, f, 7) /\ e[8] = f[8]
    <3>1. 7 \in Nat /\ 8 = 7 + 1
      OBVIOUS
    <3> QED BY <3>1, DropsSplit
  <2> HIDE DEF u7, v7
  <2>3. /\ u8 \in Nat /\ v8 \in Nat
        /\ u7 < v7 \/ (u7 = v7 /\ e[8] < f[8]) => u8 < v8
    BY <1>7, <2>1, NextDigit
  <2>4. u7 = v7 /\ e[8] = f[8] => u8 = v8
    OBVIOUS
  <2> HIDE DEF u8, v8
  <2> QED BY <1>7, <2>2, <2>3, <2>4
<1>9. /\ u9 \in Nat /\ v9 \in Nat
      /\ DropsBy(e, f, 9) => u9 < v9
      /\ SameTo(e, f, 9) => u9 = v9
  <2>1. e[9] \in 0..(B2 - 1) /\ f[9] \in 0..(B2 - 1) /\ B2 \in Nat
    BY <1>0
  <2>2. /\ DropsBy(e, f, 9) =>
             DropsBy(e, f, 8) \/ (SameTo(e, f, 8) /\ e[9] < f[9])
        /\ SameTo(e, f, 9) => SameTo(e, f, 8) /\ e[9] = f[9]
    <3>1. 8 \in Nat /\ 9 = 8 + 1
      OBVIOUS
    <3> QED BY <3>1, DropsSplit
  <2> HIDE DEF u8, v8
  <2>3. /\ u9 \in Nat /\ v9 \in Nat
        /\ u8 < v8 \/ (u8 = v8 /\ e[9] < f[9]) => u9 < v9
    BY <1>8, <2>1, NextDigit
  <2>4. u8 = v8 /\ e[9] = f[9] => u9 = v9
    OBVIOUS
  <2> HIDE DEF u9, v9
  <2> QED BY <1>8, <2>2, <2>3, <2>4
<1> QED BY <1>9 DEF Weight, BL, BR, BT, B7, B2

\* And never more than the most.
LEMMA WeightBound ==
  ASSUME NEW L \in Nat, NEW e, InBase(e, L)
  PROVE  Weight(e, L) \in Nat /\ Weight(e, L) < MostSteps(L)
<1> DEFINE BL == L + 1
           BR == MAX_TEST_RETRIES + 1
           BT == MaxToolCalls + 1
           B7 == 7
           B2 == 2
           u1 == e[1]
           m1 == MaxCrashes + 1
           u2 == u1 * BL + e[2]
           m2 == m1 * BL
           u3 == u2 * B2 + e[3]
           m3 == m2 * B2
           u4 == u3 * BR + e[4]
           m4 == m3 * BR
           u5 == u4 * BT + e[5]
           m5 == m4 * BT
           u6 == u5 * B7 + e[6]
           m6 == m5 * B7
           u7 == u6 * B2 + e[7]
           m7 == m6 * B2
           u8 == u7 * B2 + e[8]
           m8 == m7 * B2
           u9 == u8 * B2 + e[9]
           m9 == m8 * B2
<1>0. /\ BL \in Nat /\ BR \in Nat /\ BT \in Nat /\ B7 \in Nat /\ B2 \in Nat
      /\ e[2] \in 0..(BL - 1)
      /\ e[3] \in 0..(B2 - 1)
      /\ e[4] \in 0..(BR - 1)
      /\ e[5] \in 0..(BT - 1)
      /\ e[6] \in 0..(B7 - 1)
      /\ e[7] \in 0..(B2 - 1)
      /\ e[8] \in 0..(B2 - 1)
      /\ e[9] \in 0..(B2 - 1)
  BY RetriesAssumption, BudgetAssumption DEF InBase
<1>1. u1 \in Nat /\ m1 \in Nat /\ u1 < m1
  BY FaultsAssumption DEF InBase
<1> HIDE DEF BL, BR, BT, B7, B2
<1>2. u2 \in Nat /\ m2 \in Nat /\ u2 < m2
  <2>1. BL \in Nat /\ e[2] \in 0..(BL - 1)
    BY <1>0
  <2> HIDE DEF u1, m1
  <2> QED BY <1>1, <2>1, LeadingDigit
<1>3. u3 \in Nat /\ m3 \in Nat /\ u3 < m3
  <2>1. B2 \in Nat /\ e[3] \in 0..(B2 - 1)
    BY <1>0
  <2> HIDE DEF u2, m2
  <2> QED BY <1>2, <2>1, LeadingDigit
<1>4. u4 \in Nat /\ m4 \in Nat /\ u4 < m4
  <2>1. BR \in Nat /\ e[4] \in 0..(BR - 1)
    BY <1>0
  <2> HIDE DEF u3, m3
  <2> QED BY <1>3, <2>1, LeadingDigit
<1>5. u5 \in Nat /\ m5 \in Nat /\ u5 < m5
  <2>1. BT \in Nat /\ e[5] \in 0..(BT - 1)
    BY <1>0
  <2> HIDE DEF u4, m4
  <2> QED BY <1>4, <2>1, LeadingDigit
<1>6. u6 \in Nat /\ m6 \in Nat /\ u6 < m6
  <2>1. B7 \in Nat /\ e[6] \in 0..(B7 - 1)
    BY <1>0
  <2> HIDE DEF u5, m5
  <2> QED BY <1>5, <2>1, LeadingDigit
<1>7. u7 \in Nat /\ m7 \in Nat /\ u7 < m7
  <2>1. B2 \in Nat /\ e[7] \in 0..(B2 - 1)
    BY <1>0
  <2> HIDE DEF u6, m6
  <2> QED BY <1>6, <2>1, LeadingDigit
<1>8. u8 \in Nat /\ m8 \in Nat /\ u8 < m8
  <2>1. B2 \in Nat /\ e[8] \in 0..(B2 - 1)
    BY <1>0
  <2> HIDE DEF u7, m7
  <2> QED BY <1>7, <2>1, LeadingDigit
<1>9. u9 \in Nat /\ m9 \in Nat /\ u9 < m9
  <2>1. B2 \in Nat /\ e[9] \in 0..(B2 - 1)
    BY <1>0
  <2> HIDE DEF u8, m8
  <2> QED BY <1>8, <2>1, LeadingDigit
<1> QED BY <1>9 DEF Weight, MostSteps, BL, BR, BT, B7, B2

LEMMA MostStepsNatural ==
  ASSUME NEW L \in Nat PROVE MostSteps(L) \in Nat
<1> DEFINE m2 == (MaxCrashes + 1) * (L + 1)
           m4 == m2 * 2 * (MAX_TEST_RETRIES + 1)
           m5 == m4 * (MaxToolCalls + 1)
<1>1. m2 \in Nat
  BY FaultsAssumption
<1>2. m4 \in Nat
  <2> HIDE DEF m2
  <2> QED BY <1>1, RetriesAssumption
<1>3. m5 \in Nat
  <2> HIDE DEF m4
  <2> QED BY <1>2, BudgetAssumption
<1>4. m5 * 7 * 2 * 2 * 2 \in Nat
  <2> HIDE DEF m5
  <2> QED BY <1>3
<1> QED BY <1>4 DEF MostSteps

\* No queue, in memory or on disk, is longer than the longest draft.
ShortQueues(L) == Len(thread.todo_tasks) <= L /\ Len(saved.todo_tasks) <= L

LEMMA ShortQueuesInvariance ==
  ASSUME NEW L \in Nat, \A d \in Drafts : Len(d) <= L
  PROVE  Spec => []ShortQueues(L)
<1>0. Len(<<>>) = 0
  BY EmptySeq
<1>1. Init => ShortQueues(L)
  BY <1>0, InitialFields DEF Init, ShortQueues
<1>2. ASSUME IInv, ShortQueues(L), [Next]_vars PROVE ShortQueues(L)'
  <2> USE DEF ShortQueues, Kept, Returns, World
  <2>1. /\ thread.todo_tasks \in Seq(Tasks)
        /\ Len(thread.todo_tasks) \in Nat /\ Len(saved.todo_tasks) \in Nat
    BY <1>2, LenProperties DEF IInv, TypeOK, Thread
  <2>2. CASE PlannerStep
    <3>1. ASSUME NEW draft \in Drafts, thread'.todo_tasks = StepIds(draft)
          PROVE  Len(thread'.todo_tasks) <= L
      <4>1. Len(StepIds(draft)) = Len(draft)
        BY DraftsAssumption, StepIdsType
      <4> QED BY <3>1, <4>1
    <3> QED BY <1>2, <2>2, <3>1 DEF PlannerStep
  <2>3. CASE QueueStep
    <3>1. thread.todo_tasks # <<>> => Len(Tail(thread.todo_tasks)) <= L
      BY <1>2, <2>1, HeadTailProperties
    <3> QED BY <1>2, <2>3, <3>1 DEF QueueStep
  <2>4. CASE WorkStep \/ FilesStep \/ CommitStep \/ WriteStep \/ CrashStep \/ OtherStep
    BY <1>2, <2>4 DEF WorkStep, FilesStep, CommitStep, WriteStep, CrashStep, OtherStep
  <2>5. CASE ResetStep
    BY <1>0, <2>5, InitialFields DEF ResetStep
  <2> QED BY <1>2, <2>2, <2>3, <2>4, <2>5, Steps
<1> QED BY <1>1, <1>2, Invariance, PTL DEF Spec

\* An approved plan ends within a number of steps that is known beforehand: with
\* an LLM that obeys the tool-limit instruction and drafts of at most L steps, the
\* weight of what is left is below MostSteps(L), and every step of the nodes, the
\* process and the checkpoint writes, crashes included, makes it less.
THEOREM PlanIsBoundedHolds ==
  ASSUME Obedient, MaxToolCalls # 0, NEW L \in Nat, \A d \in Drafts : Len(d) <= L
  PROVE  Spec => /\ [](Weight(Effort, L) \in 0..(MostSteps(L) - 1))
                 /\ [][saved.plan_approved /\ saved.next # "END"
                         /\ faults'.resets = faults.resets
                       => Weight(Effort, L)' < Weight(Effort, L)]_vars
<1>1. ASSUME IInv, HInv, ShortQueues(L) PROVE InBase(Effort, L)
  <2>1. /\ thread \in Thread /\ ThreadInv(thread) /\ TypeOK
        /\ thread.todo_tasks \in Seq(Tasks)
    BY <1>1 DEF IInv, ThreadInv, Thread
  <2>2. Len(thread.todo_tasks) \in 0..L
    BY <1>1, <2>1, LenProperties DEF ShortQueues
  <2>3. MaxCrashes - faults.crashes \in 0..MaxCrashes
    <3>1. faults.crashes \in 0..MaxCrashes
      BY <2>1 DEF TypeOK
    <3> QED BY <3>1, FaultsAssumption
  <2>4. MAX_TEST_RETRIES - thread.retry_count \in 0..MAX_TEST_RETRIES
    <3>1. thread.retry_count \in Nat /\ thread.retry_count <= MAX_TEST_RETRIES
      BY <2>1 DEF ThreadInv, RetryBudgetOf, Thread
    <3> QED BY <3>1, RetriesAssumption
  <2>5. MaxToolCalls - thread.tool_call_count \in 0..MaxToolCalls
    <3>1. thread.tool_call_count <= MaxToolCalls
      BY <1>1 DEF HInv, HistoryInv, BudgetOf
    <3>2. thread.tool_call_count \in Nat
      BY <2>1 DEF Thread
    <3> QED BY <3>1, <3>2, BudgetAssumption
  <2>6. Rank[thread.next] \in 0..6
    <3>1. thread.next \in {"planner", "coder", "coder_tools", "tester", "queue_manager",
                           "give_up", "END"}
      BY <2>1 DEF Thread, Nodes
    <3>2. /\ Rank["planner"] = 6 /\ Rank["coder"] = 4 /\ Rank["coder_tools"] = 5
          /\ Rank["tester"] = 3 /\ Rank["queue_manager"] = 2
          /\ Rank["give_up"] = 1 /\ Rank["END"] = 0
      BY DEF Rank
    <3> QED BY <3>1, <3>2
  <2>7. /\ One(thread.next \in {"coder", "coder_tools", "tester"}) \in 0..1
        /\ One(phase = "ready") \in 0..1 /\ One(Unwritten) \in 0..1
        /\ One(~alive) \in 0..1
    BY DEF One
  <2>8. /\ Effort[1] = MaxCrashes - faults.crashes
        /\ Effort[2] = Len(thread.todo_tasks)
        /\ Effort[3] = One(thread.next \in {"coder", "coder_tools", "tester"})
        /\ Effort[4] = MAX_TEST_RETRIES - thread.retry_count
        /\ Effort[5] = MaxToolCalls - thread.tool_call_count
        /\ Effort[6] = Rank[thread.next] /\ Effort[7] = One(phase = "ready")
        /\ Effort[8] = One(Unwritten) /\ Effort[9] = One(~alive)
    BY DEF Effort
  <2> QED BY <2>2, <2>3, <2>4, <2>5, <2>6, <2>7, <2>8 DEF InBase
<1> DEFINE Known == InBase(Effort, L)
<1>2. Known => Weight(Effort, L) \in 0..(MostSteps(L) - 1)
  <2>1. ASSUME Known PROVE /\ Weight(Effort, L) \in Nat
                           /\ Weight(Effort, L) < MostSteps(L)
    BY <2>1, WeightBound
  <2>2. MostSteps(L) \in Nat
    BY MostStepsNatural
  <2> QED BY <2>1, <2>2
<1>3. ASSUME Known, Known', LexLess(Effort', Effort)
      PROVE  Weight(Effort, L)' < Weight(Effort, L)
  <2>1. Len(Effort') = 9
    BY DEF Effort
  <2>2. DropsBy(Effort', Effort, 9)
    BY <1>3, <2>1 DEF LexLess, DropsBy
  <2> QED BY <1>3, <2>2, WeightLess DEF Weight, InBase
<1>4. Spec => []Known
  BY <1>1, Invariance, HistoryInvariance, ShortQueuesInvariance, PTL
<1> DEFINE Going == saved.plan_approved /\ saved.next # "END"
                    /\ faults'.resets = faults.resets
<1>5. Known /\ Known' /\ [Going => LexLess(Effort', Effort)]_vars
        => [Going => Weight(Effort, L)' < Weight(Effort, L)]_vars
  BY <1>3
<1>6. Spec => [][Going => LexLess(Effort', Effort)]_vars
  BY PlanDescendsHolds DEF PlanDescends
<1> HIDE DEF Known
<1> QED BY <1>2, <1>4, <1>5, <1>6, PTL

\* The guards of Launch, of Flush, and of the nodes after the planner.
CanStep ==
  \/ ~alive
  \/ saved # thread
  \/ /\ phase = "ready"
     /\ thread.next \in {"coder", "coder_tools", "tester", "queue_manager", "give_up"}
  \/ phase = "worked" /\ thread.next \in {"coder_tools", "queue_manager"}

\* A plan that is approved and not at its end never waits for the human: it is
\* to be launched, a checkpoint is to be written, or a node can go on.
THEOREM ApprovedPlanCanStep ==
  Spec => [](saved.plan_approved /\ saved.next # "END" => CanStep)
<1>1. ASSUME IInv, PhaseInv, saved.plan_approved, saved.next # "END" PROVE CanStep
  <2>1. saved = thread => /\ thread.next \in Nodes
                          /\ thread.next # "planner" /\ thread.next # "END"
    BY <1>1 DEF IInv, TypeOK, Thread, ThreadInv, PlannerIsFirst
  <2>2. phase \in {"ready", "asking", "worked"}
    BY <1>1 DEF IInv, TypeOK
  <2> QED BY <1>1, <2>1, <2>2 DEF PhaseInv, Nodes, CanStep
<1> QED BY <1>1, Invariance, PhaseInvariance, PTL
=============================================================================
