# A specification of RustyArm64

RustyArm64 is two programs. The **orchestrator** (`orchestrator/main.py`) is a
LangGraph workflow in which one LLM plans an ARM64 simulator with a human and
another writes it, one step of the plan at a time, with tests and commits. The
**simulator** (`simulator/`) is what has been written so far: it loads a static
AArch64 ELF file and executes ADD/SUB immediate, MOVZ/MOVK/MOVN and HLT.

This directory specifies both in TLA+, checks them with TLC on small instances,
and proves some of their properties for all instances with TLAPS.

## 1. Inventory

| Component | State it keeps | Operations | Correct when |
|---|---|---|---|
| Workflow graph (`build_graph`) | `WorkflowState`: queue, plan, conversation, counters, test result; the node to run next | six nodes, four routers, two plain edges | every approved step is worked on once, in order, and ends in a commit of its own; retries and budget stay in their limits |
| Command line loop (`__main__`) | the process, the input to `stream` | launch, resume, `--reset`, compare the goal, ask the human, `Command(resume)` | a run goes on where its last checkpoint is; the plan executed is the plan approved; a process works for its own goal |
| LangGraph and `SqliteSaver` (library) | durable checkpoints of the state | merge a node's updates, choose the next node, write a checkpoint in the background, interrupt | external |
| Tools and git (`tools`, `queue_manager_node`) | the working tree and its commits | write, add a dependency, test, commit | changes are committed for the task that made them |
| LLMs, human, `cargo test` | none | answer | external: any answer |
| Configuration (`load_config`) | none after start | read `config.toml` | not modelled |
| Thread id (`make_thread_id`, stored goal) | goal in the checkpoint | compare, refuse | goals that share an id do not mix |
| Registers and executor | X0–X30, SP, PC, NZCV | one instruction | results and flags are the architecture's |
| CPU | registers, halt flag, memory | accessors, `execute`, `step`, `run` | PC and halt flag as documented, on faults too; `run` returns |
| Decoder | none | `decode` | one meaning for a word, nothing lost, nothing the executor cannot take |
| Memory | bytes | `read_u32`, `write_u32`, `write_bytes`, `fill_zeros` | exact bounds, no panic, no byte touched outside the range |
| ELF loader | the memory it fills | header checks, a loop over program headers | memory is the file's image, or the file is rejected |
| `main` of the simulator | exit code | read, load, run, exit | exit code 0 exactly for a clean halt |

**Interactions.** The nodes share one state, which LangGraph hands from node to
node and writes to SQLite; planner and command line loop talk through
`interrupt` and `Command(resume)`; the tools, `cargo test` and git share the
working tree, which is *not* part of a checkpoint. In the simulator `main` calls
the loader, which calls `Memory`; the CPU owns memory and registers and calls
decoder and executor. The orchestrator edits the simulator's sources; at run
time the two have nothing in common.

**What is hard.** In the orchestrator: effects outside the checkpointed state
(commits, files, LLM calls), nodes that are executed again after a crash or an
interrupt, counters that are incremented by such nodes and reset in other ones,
and a conversation that must stay well-formed across all this; and, around one run,
several goals and processes over one database and one working tree. In the simulator,
which is sequential: arithmetic in two widths at the ends of their ranges,
address arithmetic at the end of memory and of the address space, errors in the
middle of loading, and a halt flag that a caller can step past. `hazards` in
`PROJECT.json` has the list, each at its line.

## 2. The modules

| Module | Models | |
|---|---|---|
| `TaskQueue` | what the orchestrator promises about a goal | abstract specification |
| `Orchestrator` | `orchestrator/main.py` | detailed specification, implements `TaskQueue` |
| `OrchestratorProperties`, `MCOrchestrator` | | properties, instances |
| `OrchestratorProofs`, `OrchestratorWorldProofs`, `OrchestratorHistoryProofs` | | theorems: queue and retries; checkpoint, tree and commits; conversation and counters |
| `Launcher` (`MCLauncher`, `LauncherProofs`) | the `__main__` block of `main.py`, with many goals and processes | what is under an id implements `TaskQueue` |
| `Executor` | `executor.rs`, `registers.rs` | operators |
| `Cpu` | `cpu.rs` and its caller | extends `Executor` |
| `CpuProperties`, `MCCpu`, `CpuProofs` | | properties, instances, theorems |
| `CpuTests` | the unit tests of `executor.rs`, `registers.rs`, `cpu.rs` | scripts of actions of `Cpu` |
| `Decode` (`MCDecode`, `DecodeProofs`) | `decode.rs` | extends `Executor` |
| `DecodeTests` | the unit tests of `decode.rs` | extends `Decode` |
| `Memory`, `MemoryApi` (`MemoryProofs`) | `memory.rs`; a memory and its caller | operators; specification |
| `Loader` | `loader.rs` | extends `Memory` |
| `Simulator` (`MCSimulator`, `SimulatorProofs`) | `main.rs` | composes `Loader` with an instance of `Cpu`; theorems about both |
| `SimulatorTests` | the unit tests of `memory.rs`, `loader.rs`, the integration test | extends `Simulator` |

`map` in `PROJECT.json` gives the source lines of every definition. Operators
with a suffix, such as `test_evaluator_OneMore`, are *seeded faults*: plausible
mistakes in the operator of the same name, with which the checks are themselves
checked. No specification uses them.

### 2.1 Orchestrator

`thread` is `WorkflowState` in the running process, with the node to run next;
`saved` is the last checkpoint on disk. Each node is an action, or two where it
has effects on the outside before it returns: `ToolsWork`/`ToolsEnd` and
`QueueCommit`/`QueueEnd`, with `phase` telling the two halves apart. A crash may
fall between any two actions; it discards `thread` and leaves files and commits
as they are. `Return` merges a node's updates and takes the outgoing edge.

What is assumed of LangGraph:

- *Durability is asynchronous*, the default: the checkpoint of a node is written
  while the next node runs (`Flush`), and before that one's own is written.
  `saved` therefore lags at most one node behind `thread`. This bound is an
  assumption on LangGraph: nothing in `main.py` asks for it or guarantees it, and
  it is the one place where the model is tighter than arbitrary buffering.
  `ApprovalIsDurable`, `CommitIsPure`, `AtMostOneStepAhead` and
  `CommitsFollowPlan` rest on it.
- A stream ends, by `interrupt` or at END, after its writes (`PlannerProposes`,
  `Exit`). `input()` is called after that.
- `Command(resume=...)` re-executes the interrupted node from its first line,
  with `interrupt` now returning the answer: `PlannerProposes` and
  `PlannerResumes` both ask the LLM for a draft. The answer is part of the
  checkpoint, so a crash afterwards does not ask again.
- `ToolNode` answers every call of the last message, in order.

`plan` (in the thread) and `shown` are history variables: the draft that was
parsed and the draft last shown. Texts are reduced to what is decided on them: a
draft is the sequence of its documents, an answer is whether it contains an
approval keyword, a message is its role, its task and its call ids.

A crash stands for any end of the process: a signal, an exception in a node, the
recursion limit, a 400 from the LLM's API.

**Fairness**: weak fairness of `Work` (the nodes), `Flush`, `Exit` and `Launch`.
The first three are a running process, in which nothing waits for anything but
subprocesses and the LLM; the fourth says that somebody starts the program again
after it has stopped, without which nothing can be said about a goal after a
crash. There is none for the human's answer, nor for any fault, and faults are
bounded in number: progress is claimed for runs that fail finitely often.

`TaskQueue` forgets nodes, retries, LLMs, tests, checkpoints and crashes: a plan
is approved, its front step finishes, the run stops. `QueueSpec` is
`TaskQueue!Spec` under the mapping from `saved`: what is on disk goes through
those steps and no others, and does not rest while work remains. It is `saved`,
not `thread`, that implements it: in memory a crash undoes a finished step.

**`Launcher`** is what is around one goal's run: `make_thread_id` (`main.py:30-34`),
`reset_thread` and the `__main__` block up to the stream (`:480-577`), for
several goals and processes over one database (`db`, the newest checkpoint of
each id) and one working tree. A process goes through `Launch`, `Reset` if asked
to, `Look` (`get_tuple` and the comparison of the stored goal, `:523-531`) and
`Stream`, each an action, since another process may write to the database between
any two of them. `make_thread_id` is a variable that never changes, so that all
maps from goals to ids, colliding ones included, are initial states. The graph
itself is what `TaskQueue` says of it, with the one effect that goals share, the
working tree: `Change`, `Commit`, `Finish`, `GiveUp`. git may fail in a `Commit`
without anybody noticing (`GitFails`; `check=False`, `:256-277`), and a plan without
steps, which a human may approve too (`Lengths`), ends in `queue_manager_node`
before git is called (`FinishNothing`, `:247-248`). A write of a checkpoint is
a `Flush` after the node, and a `Crash` may fall anywhere. A stage of `Launcher`
stands for several nodes, so a stage waits for the write of the last one where
`Orchestrator` lets the next node run beside it. Of LangGraph:

- `stream` loads the newest checkpoint again, whatever `get_tuple` has seen. With
  an input it puts a checkpoint of that input on top of it; this checkpoint has
  no `goal` among its channel values until the first node has its writes applied.
  Without one it resumes, or raises (`EmptyInputError`) if nothing is there.
- A new input keeps the values of channels it does not name, and
  `completed_tasks`, which has a reducer, is appended to.

The history variable `abandoned` has the goals whose run, since git last
committed the tree, was given up, crashed, had a plan without steps or had git
fail: the ways in which a run may leave changes behind. `doubled` and `together`
record whether processes overlapped, under an id and at all.

### 2.2 Simulator

`Executor` keeps the code's order of wrapping, flag computation and masking, with
`FieldBits` (16 in the code) and `ImmBits` (12) as parameters: a register is four
fields, the "32-bit" operations use the lower two. `2^W64` is the wrap of `u64`.
Bitwise operations are written as division and remainder.

`Cpu` is the public API of `Cpu`, called in any order: the setters, a write to
the public field `mem`, `execute`, `step` and `run`. `run` is a loop; each
iteration is an action (`RunLoop`) with the body of `step`, and while it runs
the caller waits. `result` is what the last call has returned, `run` itself too:
`Ok` where its last step has answered `Halt`, the step's error otherwise. Memory is
seen here as what its words decode to, at addresses that `read_u32` converts to
`usize` first (`as_usize`): on a narrow host an address beyond memory may be taken for
one within (`OutOfBounds` says which are refused), and one whose four bytes are
not in memory after all is a panic in the slice.
**Fairness**: weak fairness of `RunLoop`: a loop goes on.

`Decode` has the code's widths (an assumption of the module), and takes a word
as its two halves, since TLC's integers have 32 bits with sign.

`Memory` has both wraps: `checked_add` in `u64` (`AddrSpace`) and `as usize`
(`UsizeSpace`); slicing beyond the end is the outcome `Panic`. `MemoryApi` is a
memory and a caller of its four operations.

**The repository's tests** are part of the model's checks. A test of the CPU is
a script in `CpuTests`: its calls are played as the actions of `Cpu` they name,
and its assertions compare the state (`UnitTestsPass`). The instance has 28-bit
registers, so every 16-bit field of a value in a test is reduced to 7 bits and
every immediate modulo 2^6, by the same operators in what is written and in what
is expected; ends of ranges stay ends of ranges; words in memory go through
`Decode` at its real widths first. `DecodeTests` has words and instructions
as they are in the source. `SimulatorTests` has a memory of 16 bytes: what a
test does inside, at or past the end of its memory is done inside, at or past
the end of this one. These modules check the model against the code's own
statements about itself.

`Loader` makes each program header an action; a file is what the leading bytes
and goblin say of it, the fields `load_elf` reads, and its contents. A panic in
`write_bytes` or `fill_zeros`, which a narrow host may have, ends it. `Simulator`
adds `main`, with the exit code 101 for a panic (`Panicked`): the loader's memory is mapped to the CPU's words by `Meaning`, an
instance's stand-in for `decode`. **Fairness**: weak fairness of `Next`; the
program is sequential.

## 3. What is checked

| Run | Instance | What it shows |
|---|---|---|
| `queue` | two tasks; drafts of two, one and no steps, and of two with one id; two crashes, a reset, a git failure; limit of 2 retries | types, order of the queue, the prompt's step, the retry limit, and that `saved` implements `TaskQueue` |
| `execution` | one plan of two steps, batches of up to 2 tool calls, 2 tool turns, limit of 3 retries, two crashes, a git failure | conversation and counters agree and are complete; approval is durable before files change; each commit has a step of its own, in the plan's order, up to crashes |
| `progress` | an LLM that obeys the tool limit, one crash, one git failure | an approved plan ends, and within the budget; every step of it uses something up |
| `launches` | two goals, every map to two ids, two processes, plans of two steps and of none, git that may fail, three launches, a crash, a reset | a process works for its own goal, ids keep goals apart, whose changes a commit holds, and that what is stored implements `TaskQueue` |
| `arithmetic` | 28-bit registers, every value at which a result or flag changes, all ADD/SUB/MOV instructions, both widths | results and flags equal a reference over the integers; MOV acts on fields; the unit tests of executor, registers and CPU pass |
| `control` | programs of three words, a `usize` of half the addresses, PCs inside, unaligned, at the end and beyond, PSTATE writes | contract of `step` and of `run`'s answer, finality of a halt, `run` returns |
| `decoding` | all 65536 upper halves, four lower halves | executable, unambiguous, invertible; the decoder's unit tests pass |
| `bytes` | 5 bytes of memory, 10 addresses, slices of up to 3 | exact bounds and effects, no panic |
| `simulation` | about 5500 files of up to two program headers, and those of the tests, 16 bytes of memory, 40 addresses; each file on a host with a `usize` as wide, then on one with a `usize` of 20 | image, rejection, exit code; that the process exits, on the narrow host and after a panic too; the tests of memory and loader and the integration test pass |
| `shownPlan`, `failureContext` | small, without faults | two statements of `docs/graph-overview.md` that the code does not keep |
| `sub32Carry` | as `arithmetic` | a 32-bit SUBS whose carry depends on bits it should ignore |

**Bounds and why they are enough.**

- *Tasks, drafts.* Order needs two tasks; a revision needs a second draft; the
  empty draft is the one on which `todo_tasks` is empty; two steps with one id are
  the case in which `step_plans` has fewer entries than the queue. Nothing distinguishes a
  third task from the second: nodes look at the front and at emptiness.
- *`MAX_TEST_RETRIES`* (5 in the code) is 2 or 3: below, at and past the limit.
- *`ToolTurnBound`* limits the tool turns of an LLM that need not obey, in
  `execution` above `MaxToolCalls`, so that the exhausted budget is reached. In
  `progress` it is 4, above the budget of 2, and does not bind for an obedient
  LLM: this is what `ObedientStaysInBudget` says.
- *Crashes.* Two, so that a node executed again can crash again, and a crash can
  fall on each side of the commit: a crash between commit and checkpoint has a
  second one made. `RepeatedCommitsAreCrashes` counts these: no more commits
  than steps that have one, plus crashes. Two crashes reach that bound.
- *Resets and git failures* are only in the runs whose properties speak of them.
  `CommitIsPure` and `CompletedIsCommitted` have the condition that there has
  been neither (`NothingLeftBehind`): a reset or a failed commit leaves changes
  that go into the next commit. `CommitsFollowPlan` says where they may go after a
  failed commit: into those of later steps, never of earlier ones. It,
  `RepeatedCommitsAreCrashes` and `ApprovalIsDurable` have the condition that there was no reset, after which the goal is planned again
  over what was done. That is how the code is written (`check=False`, and
  `--reset` deletes rows only), and the documents claim nothing else.
- *Launches.* Two processes, because one of them can only be overtaken by
  another; a third launch, so that a goal is launched again after a crash or
  beside another. Three launches are all there are: the run stops when they are
  used up, and deadlock is not checked in it. Two steps, so that there is a
  checkpoint between commits; and none, so that a run ends without a commit. git
  may fail at every commit: this needs no bound.
- *Registers* of 28 bits have four fields of seven bits and both widths; carries
  and signs at 14 and 28 bits behave as at 32 and 64. An operand has at most 12
  bits, below both, as the code's 24 are below 32. Operands are 0, 1, 5 and the
  largest immediate, shifted or not; sources are all values within 2 of where
  one of these operands, added or subtracted, reaches 0 or the sign bit in either
  width, with upper halves 0, 1, the sign bit and all ones. Registers of 8 bits
  (`control`, `sub32Carry`) have four fields of two bits.
- *Memory.* Ranges end before, at and after the last byte and the last address.
  `usize` is as wide as an address in `bytes` and `simulation`, as on a 64-bit host,
  and half as wide in `control` and on the second host of `simulation`, so that
  each address in memory has an alias beyond. That second host is a second
  instance of `Simulator` in `MCSimulator`, started with the same file where the
  first one has exited.
  `Size` may not be zero here; the theorems allow it.
- *Lower halves* in `decoding`: each field is cut out bit by bit, and the four
  halves have each bit set in one and clear in another.

Each property is also checked to fail when the code it is about is replaced by
one of the seeded faults.

## 4. What is proved

All theorems hold for every value of the constants that the named assumptions in
the modules allow.

**`OrchestratorProofs`** — `TypeCorrect`, `QueueOrderHolds`, `RetryBudgetHolds`,
`FalseFailureIsExact`.
The assumptions are those on the constants: drafts are sequences of documents,
`Unknown` is no task, limits are naturals. There is no bound on drafts, retries,
tool calls or faults. None of the three is inductive. `QueueOrder` needs that
the planner runs only before the approval (otherwise a second approval would
replace the queue under the done tasks), and `RetryBudget` that `give_up` goes
to the end, with the count still at its limit: no task is given up before it;
typing needs that ToolNode has a last message. `ThreadInv` collects
these, and `IInv` states it of `thread` *and* `saved`: a crash puts one in the
place of the other, a `Flush` the other way round. Each node has a lemma that
its returned thread keeps `ThreadInv`; `NextIInv` is one step for each action.
`FalseFailureIsExact` says when the statement of run `failureContext` is false:
at each call of the first attempt of every task but the first, and at no other.
`TestsInvs` ties `test_results` to the last test run, again of both copies.

**`OrchestratorWorldProofs`** — `ApprovalIsDurableHolds`, `CommitIsPureHolds`,
`CompletedIsCommittedHolds`, `RepeatedCommitsAreCrashesHolds`,
`CommitsFollowPlanHolds`, `SavedIsTaskQueue`, `AtMostOneStepAheadHolds`,
`DurableProgressHolds`. They relate the checkpoint to what a crash cannot take back. All steps are first
classified by what they do to queue, tree and commits (`Steps`: `PlannerStep`,
`WorkStep`, `FilesStep`, `CommitStep`, `QueueStep` and the faults); the
invariants are then shown for the few classes. `ApprovalInv` has an approval on
disk wherever a node runs that acts on the world; `TreeInv` has the changes in the tree
belong to the front task of the thread and of the checkpoint both, so that a
crash does not hand them to another one. `AheadInv` has the thread at most one step of
`TaskQueue` ahead of the checkpoint, so that a `Flush` is that step:
`SavedIsTaskQueue` is the refinement `QueueSpec` without its fairness.
Two more consequences of it are stated, which have no run of their own:
`AtMostOneStepAhead`, a crash takes back at most one completed step, and
`DurableProgress`, until `--reset` what is completed, approved or ended on disk stays
so (`EndInv`: what has ended on disk has nothing left to write).

`CommitsFollowPlan` says that a map from commits to steps of the plan exists, with
the changes in each commit those of steps up to its own. It is inductive given the
others: a new commit extends the map by the step whose turn it is on disk,
`AheadInv` says which checkpoints a `Flush` can write without taking that turn
back, and before the first approval there are no commits. That the changes are of
no later step is `BegunInv`: whatever git has failed to commit, what lies in the
tree is of steps that are done or have their turn on disk (`PlanInv` puts the
three together). `RepeatedCommitsAreCrashes` is a count, and not
inductive: after a crash the surplus has not been made yet. `RepeatInv` adds one to
the left side while it can be (`TurnAgain`: the turn of a committed step has come
again); only a crash makes that true, and a commit made in it uses it up.

**`OrchestratorHistoryProofs`** — `HistoryIsOwnTaskHolds`,
`BudgetMatchesHistoryHolds`, `AttemptsAreCountedHolds`,
`ObedientStaysInBudgetHolds`, `HistoryIsCompleteHolds`,
`CurrentStepIsPlannedHolds` (for duplicate ids too), `RepairIsEnough`, and the end
of a plan (below). The invariant `HistoryInv` says of a conversation which calls it has (`Named`), that answers come after calls (`AnswersBefore`),
and that everything is answered except the calls of the last response, and
these only at `coder_tools` (`AnswersOf`); `AttemptsOf` and
`BudgetOf` tie the counters to it at each node. It holds of `thread` and of
`saved`. The lemmas are about conversations: one message more, a batch of answers
more, and that `sanitize_history` drops nothing where nothing is open
(`NothingDropped`). A checkpoint may hold open calls, but then `coder_tools` is
its next node and answers them before the coder runs: the repair that
`sanitize_history` could do is never needed. It would suffice if it were:
`RepairIsEnough` says that any conversation, in memory or in a checkpoint of any
node, is complete after it, and that it drops at most the one response whose calls were
not executed. `ResponseInv` adds to `HistoryInv` that such calls are those of
a response.
`NoneAssumption` says that "no answer" is no call.
`ObedientStaysInBudgetHolds` assumes `MaxToolCalls # 0`: the instruction to
stop comes with a call count at the limit, and nothing has been counted before
the first response.

`ApprovedPlanEnds` is liveness and stays with TLC, but all of its argument
except fairness is proved. `PlanDescendsHolds`: each step of an approved plan,
crashes and re-executions included, makes `Effort` smaller in the lexicographic
order: crashes left, steps left, retries left, tool calls left, then the place in
the round. Only `--reset` makes it larger. `EffortIsNatural`: with an LLM that obeys, its
parts are naturals (`HistoryInv` has the tool calls). `PlanIsBoundedHolds` draws the
conclusion in one number: for drafts of at most `L` steps each part of `Effort` has a
bound, so that the parts are the digits of a number, `Weight`, which is below
`MostSteps(L)`, 112 times the product of crashes, steps, retries and tool calls (each
plus one), and which each step of an approved plan makes smaller. A plan that is
not reset takes fewer steps than that. `ShortQueues` is the invariant that queues
are no longer than drafts. `ApprovedPlanCanStep`: a plan that has not ended always
has an action whose guard holds. The step from there to "it ends" is weak
fairness and `ENABLED`, which the prover does not have. `PhaseInv` (which nodes have
a second half) and `ApprovalInv` are the invariants used besides.

**`MemoryProofs`** — what the four methods do on *any* host, for any memory,
address space and `usize`: `RepliesAnswerHolds` (when a call succeeds, fails, or
panics, in terms of the converted address), `OnlyTheConvertedRangeHolds` (no byte
changes outside the range that this address names, and none unless the call
succeeds), `ExactBelowUsizeHolds` (a call whose range a `usize` can hold is
answered as documented, so a narrow host goes wrong with the other addresses
only, section 5). The lemmas
say what is left of a range under the two wraps (`Converted`, `Checked`), and then
that each of the four operations `Meets` its contract. `MemoryNeverPanics`,
`BoundsHold` and `OnlyTheRangeHolds` are the properties of run `bytes`. They follow
under `WideHost`, `usize` as wide as an address, and are false without it. The run
has a wide host; the contracts have no run of their own.

**`LauncherProofs`** — `TypeCorrect`, `OwnGoalHolds`, `IdsKeepApartHolds`,
`ForeignWorkHolds`, `StoredRunHolds`, `StoredInOrderHolds`, `OneAtATimeHolds`, for any
number of goals, ids and processes, any `make_thread_id` and any number of launches, crashes and resets. Three
invariants are added to typing. `Good`: a thread that is past its input has a
goal, and one that is not has an input. `Own`: under an id that was never
`doubled`, there is at most one process, so what `Look` compared is what `Stream`
resumes, and nobody writes in between; hence a thread's goal is the process's
own, or the checkpoint it resumed had none. `TreeInv`: as long as no two
processes have run `together`, changes in the tree belong to the goal at work
or to an abandoned one. `ForeignWorkWasAbandoned` is about the step in which git
takes the tree, and follows from it: whose changes a commit may hold. `TypeCorrect` has
no run of its own.

`StoredRunHolds` is `StoredRunIsTaskQueue`, the refinement of `TaskQueue` by what
is stored under each id. Its `RunInv` has a thread at its checkpoint or one node
ahead of it as long as its process is alone under the id, so that a `Flush` is a
step of `TaskQueue` or a stutter. Two consequences for whoever looks into the
database, without a run of their own: `StoredInOrder`, what is stored is a first
part of its goal's plan done and the rest to do, and `OneAtATime`, somebody who
never has two processes running never has two under an id either, so that the
former holds of every id. `AbsentAssumption` says that "no checkpoint" is
not a checkpoint.

**`DecodeProofs`** — `PatternsDisjoint`, `DecodedTaken`, `InvertibleHolds`, for all
2^32 words: the run has all upper halves but only four lower ones. The fields are
recovered by division (`FieldWidths`, `FieldRanges`), and a word is put together
again from them. `EveryInstructionDecodes` is the other direction: every ADD/SUB,
MOV and HLT with fields of their full width has a word, its `Encoding`, and
decodes from it. Together they are a bijection between the instructions and the
words that decode, reserved shifts aside.

**`SimulatorProofs`** — `OnlyLoadableRunsHolds`, `ImageIsTheFilesHolds`,
`ExitIsTheVerdictHolds`, for files with any number of program headers and words of
any meaning, under `WideHost` (on a narrower host they are false, section 5), and
`RunIsBoundedHolds` on any host, with aliased addresses and panics as they are.
The lemmas on memory operations say what a header's copy and fill leave.
`LoadInv` has all headers before `next` loaded and in bounds, and memory equal to
the image of those headers, later ones over earlier ones. `RunInv` has PC
at the k-th word after the entry point, for some k, and no word before it one that
ends the program. `NoneAssumption` says that "no exit code yet" is no exit code.
`RunIsBounded`, which has no run of its own, is the safety half of `Exits`: each step
of the program uses up one of `StepsLeft`, a number that the file's headers and the size of memory fix.
Its `BoundInv` has the types that this needs, and that nothing runs before the
loader is done; PC, as a `usize`, is 4 further in each step, and memory ends. A
step that would take it over the end of `usize` has read no word: there memory has
ended already.

**`CpuProofs`** — `CpuTypeOKHolds`, `ArithmeticHolds`, `MovWideHolds`,
`StepContractHolds`, `HaltIsFinalHolds`, `RunDescendsHolds`, `PstateShowsFlagsHolds`,
`PstateReadsBackHolds`, `Sub32CarryIsTheOnlyLeak`, `SubsComparesHolds`,
`OppositesCancel`, `AnyConstantLoads`, for any register width,
instructions, memory, program and `usize`. The provers know nothing of `2^n` for a symbolic
`n`; `PowersAssumption` is the definition of the power, `2^0` is 1 and `2^(n+1)`
twice `2^n`, for the exponents up to the width of a register, and TLC evaluates it
in each run. That the powers at the widths of a field, a half and a register are
products of one another (`Powers`) is proved from it, by induction with the set of
exponents for which it holds (`SetInduction`), as an induction over an operator
is not available. On top of it the
argument is about division with rest (`DivModIs`): wrapping in the register and
then in the word is wrapping in the word (`NarrowSum`); the code's bit tests for
sign and overflow are comparisons of integers (`SignBit`, `FlagsOfSum`); and a
register is a number of four digits (`HasFields`, `FieldsAreRead`), of which MOV
replaces one (`FieldReplaced`). `CpuTypeOK` is inductive, and what makes the
two properties of arithmetic speak of all operands a register can hold. The
contract of `step` needs of it only that PC is an address; `ExecuteKeepsPc` says
that no instruction touches PC. `HaltIsFinal` is what the halt flag means to a caller
who goes on: no instruction moves PC, `execute` and `step` return no `Ok`, and
`run` ends with its first instruction. PSTATE is a word of four digits of two
(`PstateIs`, `BitsOfFlags`): its bits are the flags, and a write followed by a read
gives the upper four bits of what was written. `Sub32CarryIsTheOnlyLeak` describes
the finding of run `sub32Carry` exactly: the statement is false in a state if and
only if some SUBS has a source whose upper half hides a borrow of the lower one
(`BorrowLost`); in the result and the other flags the upper half never shows.

The last three are what compiled programs rely on, composed from the properties of
single instructions: the flags of SUBS answer the comparisons that conditions ask
for, after an overflow too (`SubsCompares`; for the unsigned one in 64 bits only,
as 32 bits have the finding); ADD and SUB of one operand cancel, also when the first
one wraps; and a MOVZ with three MOVKs loads any constant, whatever was in the
register and in whatever order the fields come. `RunDescends` is the safety half of
`RunReturns`: after each iteration memory has four bytes less left from PC on.
None of the four has a run of its own.

**Model-checked only.** Liveness under fairness (`ApprovedPlanEnds`,
`RunReturns`, `ExitsOnBothHosts`), and with it the fairness part of `QueueSpec`, which are out
of the prover's reach (of all three the descent is proved);
the unit tests, which are finite (`UnitTestsPass` of `CpuTests`, `DecodeTests` and
`SimulatorTests`: scripts played by TLC, with words as in the source, about which
there is nothing to generalise); and that the three statements which the code
does not keep are indeed violated in a reachable state. Where two of them are false is
proved; the third, `ApprovedPlanWasShown`, depends only on what the LLM answers.

## 5. Where code and documents disagree

Three have a run of their own (`findings` in `PROJECT.json`). Others met while
modelling; the model follows the code in each:

- `docs/graph-overview.md:54` lets `coder_router` check the budget; the code
  (`main.py:447`) deliberately does not. An LLM that ignores the instruction is
  not stopped by the graph.
- `docs/graph-overview.md:80` has `tool_call_count` count tool calls; the code
  (`main.py:440`) counts responses with calls.
- `docs/graph-overview.md:97-98` and the prompt at `main.py:573` have an approval and
  feedback as answers. The keywords are looked for as substrings (`main.py:343`),
  and one of them is "y": most feedback in English approves the plan.
- `main.py:31` and `docs/graph-overview.md:163` have one thread per goal. Goals
  whose truncated hashes collide share one; the second is refused
  (`main.py:526-531`), unless the checkpoint has no goal yet, and then its
  process works for the first one's goal (`blind` in `Launcher`).
- `step_plans` has one document for an id, `todo_tasks` every one
  (`main.py:353-355`): of two steps with one id the earlier is worked on with the
  document of the later (`CurrentStepIsPlanned`). `docs/graph-overview.md` says nothing of it.
- `docs/graph-overview.md:161` has the state checkpointed after every node. The
  write ends during the next node, and a crash before loses the node.
- `docs/graph-overview.md:71` has `plan_feedback` cleared before each LLM call;
  the code clears it on approval.
- `docs/graph-overview.md:120`: a clean tree means that the commit has happened.
  It may also mean that the task changed nothing: a completed task need not have
  a commit (`main.py:263`).
- `cpu.rs:9` and `:144`: `Halt` is for HLT. Every instruction executed on a CPU
  that has halted returns it, after taking effect (`cpu.rs:150`, `:175`). `run` on
  such a CPU executes one instruction, whatever it is, and returns `Ok(())`
  (`cpu.rs:194-203`), "a clean halt" (`:193`).
- `cpu.rs:186-191` has PC incremented before execution; `step` does it after, and
  not on HLT. With instructions that read PC this would matter.
- `DecodeError::IllegalEncoding` is never returned: reserved shifts of ADD/SUB,
  `opc` 1 and a 32-bit MOV of an upper field decode (`decode.rs:87`, `:108-109`).
- `decode.rs:73` gives the pattern of HLT as 0xD503, the code and the table at
  `:70` test 0xD403; the architecture's HLT is 0xD440 and up.
- Comments of tests, whose assertions are right: `cpu.rs:556` ("PC advanced past
  HLT") and `:569` ("PC was incremented before execute") describe the order that
  `step` does not have; the message at `integration_test.rs:128` says entry + 12
  where entry + 8 is asserted; `cpu.rs:263` calls 0xA000_0000 N and Z, which is N
  and C.
- `memory.rs:56`, `:72`, `:95`, `:116`: on a host with a 32-bit `usize` an
  address beyond 2^32 is truncated and accepted, or panics in the slice if its
  range crosses the end of `usize`; so do segments, entry points and PCs.

## 6. Not modelled, and why

- *Configuration, prompts, streaming to the terminal, register dumps*: no
  property of state depends on them.
- *File contents, paths and exceptions of the tools*: what a tool does to the
  project is one bit, whether it changed something for the current task.
- *Nodes of several goals at once*: `Launcher` has several runs, each as
  `TaskQueue` and with its effects on the tree; the nodes themselves are in
  `Orchestrator`, for one.
- *goblin, git, cargo, SQLite, LangGraph*: external; modelled by how the code
  uses them.
- *Of the simulator's tests*: those of `Debug`, `Display` and `dump`, which are
  formatting, and the `should_panic` tests of register numbers above 30, which no
  instruction has; the executor's callers never use them.
- *CI, lock files*: no behaviour of their own.

## 7. Plan

Done: the orchestrator's core with its abstract specification, the launcher
around it, the simulator from decoder to exit code with its tests, and the
theorems above. What is left:

- `ToolNode` in more detail: batches in which a tool raises (`main.py:113`), and
  the crash loop of a call that raises whenever it is resumed.
- The nodes of `Orchestrator` as the graph of `Launcher`, so that retries and
  conversations of two goals meet in one working tree.
- The last step of `ApprovedPlanEnds`, `RunReturns` and `Exits`: from the proved
  descents to their ends, which takes fairness and `ENABLED`.
