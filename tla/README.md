# Cartopian in TLA+

Cartopian runs software projects with agents. A *project manager* (PM) agent
plans a project as a tree of Markdown artifacts (requirements, plan, phases,
specs, tasks, decisions, backlog), hands tasks to *coder* and *reviewer* agents,
reads what they report and moves the tasks on. Everything it does to the tree
goes through one-shot commands of the `cartopian` CLI (`src/cli/commands/`), most
of them wrapped as tools of a small MCP server. There is no daemon and no
database: the state is files, the commands are separate processes, and what is
hard about the system is what happens between them.

This directory holds the TLA+ modules that model its core, the TLC
configurations that check them on small instances, and the theorems the TLA+
proof system checks for every instance.

| to | do |
| --- | --- |
| parse | `tlasany Handoff.tla` |
| check | `tlc -config Handoff.cfg MCHandoff.tla` (each run's module and cfg are in `PROJECT.json`) |
| prove | `tlapm Backlog_proofs.tla` |

## 1. Inventory

`PROJECT.json` lists every component with its sources and what is done about it.
The ones that keep state, and what makes each correct:

| component | state it keeps | hard part | correct when | modelled in |
| --- | --- | --- | --- | --- |
| mediated writer (`mediated_write.py`, `atomic_write.py`) | one artifact's name, temporary names, inodes | several commands on one name, editors, crashes between system calls | no torn body is readable; a create never replaces; a correction lands only on the bytes it was made for | `MediatedWrite`, `ArtifactRegister` |
| provenance ledger (`provenance.py`) | append-only write log | log order against landing order, missed records | the audit names raw edits and nothing else | `MediatedWrite` |
| handoff (`dispatch.py`, `output_safety.py`, `handoff_observer.py`, `wait_handoff.py`) | per report slot: report, `.status`, `.launch.log`; per launch: supervisor, wrapper, assignee | three publishers of one status file, deaths of any of them, leftover processes, repeated waits | only final bytes are routed; a terminal wait means nobody writes; no launch stays `running` | `Handoff` |
| native Claude session (`cartopian-claude`, `claude_stop_hook.py`, `claude_publication.py`) | counter of blocked stops, staged report, watcher | turn ends, deadline, watcher and publication race | a session always ends; a success leaves a report; nothing happens that the handoff does not allow for | `ClaudeSession` |
| task lifecycle (`move_task.py`, `write_prompt.py`, `report_action.py`) | the task file's directory; prompt, two reports, review | artifacts guarded now and rewritten later, policy changes, session restarts | a task closes only on the work its review judged; recovery never meets a writer | `TaskClosure` |
| report readers (`validate_report.py`, `correct_report.py`, `report_action.py`) | the report at its slot | three programs read one file that may still change | they agree; a correction repairs form and keeps what the producer said | `ReportAcceptance` |
| acceptance trace (`acceptance_trace.py`, `trace_binding.py`, `review_intake.py`) | a section of the task, of the prompt and of the review | texts edited between prompt, review and closure | a task closes on the trace its reviewer judged; no request is lost with the plan | `AcceptanceTrace` |
| backlog (`write_backlog.py`, `delete_backlog.py`) | `BACKLOG.md` with its id mark; `Source:` stamps | read-render-replace without a lock | an id names one entry for ever; nothing acknowledged is dropped | `Backlog`, `BacklogLedger` |
| decisions (`write_decision.py`, `reset_plan.py`) | `decisions/DEC-NNN.md`, `INDEX.md` | ids freed by resets, pointers between decisions, crash between body and index | an id keeps its meaning; a pin is as good as a copy; an operator's ruling stands | `Decisions` |
| request evidence (`intake_adapter.py`, `select_project.py`, `evidence_resolver.py`, `revoke_evidence.py`) | session event logs, bindings, records, revocations | hooks and commands on one store without a lock | a turn is evidence of one project; a pair answers what was said; an interrupted selection heals | `EvidenceStore` |
| prompt evidence and plan closeout (`prompt_evidence.py`, `archive_plan.py`, `reset_plan.py`) | an append-only ledger with an allowance; `archive/PLAN-NNN` and its index | failed and torn appends, crash between any two file operations | a summary counts what happened or says it does not know; nothing outlives its plan | `PlanCloseout` |
| routing (`next_action.py`, `planning_status.py`, `compose_state.py`, `close_audit.py`, `plan_audit.py`) | none: derived anew from files | four readers of one tree that replanning changes | advice followed arrives; complete means closable; the readers agree | `PlanRouting` |
| installation (`install_workflow.py`, `resume_state.py`) | tool directories, backups, run record, lease | crash between two renames; stale plans; recoverers of one orphaned lease | one owner; the old or the new tool, never neither; no interrupted work replayed unseen | `InstallLease`, `InstallRun` |
| configuration migration (`config_migration.py`) | a shared file, a file per project, checkpoints | several files in one logical change, crashes, overlap | no project comes to mean something else; all end migrated | `ConfigMigration` |
| filesystem migrations (`migrations.py`) | the project's files, provenance records | interrupted and repeated, edited meanwhile | complete means nothing is left of the entry | `EntryMigration` |

The rest (composition of prompts, configuration schema, readiness of a task's
contract, risk, guidance and practice selection, evaluations) computes over the
texts of artifacts and keeps no state, or keeps one file that a single mediated
write replaces (registry, continuity summary, restart state).

How they interact: the PM runs one command after the other; a command calls the
others' code directly (all writers end in `mediated_write`, `dispatch` re-runs
the packet's checks); PM and assignees share nothing but the artifact tree; the
supervisor and the wrapper are detached processes that report through files; the
operator's host calls the capture hooks on its own schedule; installation and
migrations are run by the operator, at times twice.

## 2. The modules

| module | checked by | proved in |
| --- | --- | --- |
| `ArtifactRegister`: what an artifact write promises | `write` | `MediatedWrite_proofs` (as `ImplementsRegister`) |
| `MediatedWrite`: the system calls of concurrent writes; implements `ArtifactRegister` | `write` | `MediatedWrite_proofs` |
| `Handoff`: one report slot and its launches, from dispatch to cleanup | `handoff` | `Handoff_proofs` |
| `ClaudeSession`: one native launch from within; its steps are steps of `Handoff` | `handoff` | `Handoff_proofs` |
| `TaskClosure`: one task from `open` to `done` | `task_closure` | `TaskClosure_proofs` |
| `ReportAcceptance`: validate, correct and route one report | `task_closure`, `correction_drift` | `TaskClosure_proofs` |
| `AcceptanceTrace`: one task's upstream trace, from authoring to the plan's close | `task_closure` | `TaskClosure_proofs` |
| `BacklogLedger`: what the backlog promises of its ids | `backlog` | `Backlog_proofs` (as `ImplementsLedger`) |
| `Backlog`: overlapping backlog commands and promotions; implements `BacklogLedger` | `backlog` | `Backlog_proofs` |
| `PlanCloseout`: the evidence of a plan, its archive and its reset | `backlog` | `Backlog_proofs` |
| `EvidenceStore`: hooks, selections and revocations over the request store | `backlog` | `Backlog_proofs` |
| `InstallLease`: the lease and its takeover by renames | `install` | `InstallRun_proofs` |
| `InstallRun`: the install and update workflow under that lease | `install` | `InstallRun_proofs` |
| `ConfigMigration`: migrate-config over a shared and several project files | `config`, `config_interrupted` | `ConfigMigration_proofs` |
| `EntryMigration`: apply-migration-entry over a project's files | `config`, `entry_edited` | `ConfigMigration_proofs` |
| `Decisions`: the register of decisions over plans | `decisions`, `decisions_draft` | `Decisions_proofs` |
| `PlanRouting`: where next-action sends the PM | `routing` | `PlanRouting_proofs` |

`MC*` modules instantiate these for TLC. Four of them host more than one
component: `MCBacklog`, `MCHandoff`, `MCTaskClosure` and `MCConfigMigration` choose in
their initial states, by a variable `part`, which component a behaviour is one of,
and leave the variables of the others alone. No step mixes two of them; hosting
only shares the run. Where a component lives in such a module, its properties
are restated there under the same names.

The levels meet at these seams. A mediated write is many steps in
`MediatedWrite` and one atomic landing elsewhere; `RegisterSpec`, checked and
proved, is the licence for it. A launch is some twenty steps in `Handoff`, one
step of which `ClaudeSession` looks into: `ActsAsLaunch` says that everything a
native session does to the slot and to its processes is a step `Handoff` has for
a launch, and is proved for every ceiling of the guard and every number of writes.
In `TaskClosure` a launch begins, writes and ends; what it takes from
`Handoff` is that an assignee is gone when its launch was observed terminal
(`TerminalMeansGone`) and that routing acts on the bytes observed
(`RoutedFinal`). `ReportAcceptance` is what `TaskClosure` calls a routed report,
`AcceptanceTrace` what it calls an approving review. `InstallRun` extends
`InstallLease`: its lease actions are the lease's own.

### MediatedWrite

State: the file the artifact's name refers to (`dest`, an inode number and
bytes), each call's temporary file, inodes that abandoned temporary names still
hold, each call's program counter and plan, the write log, and history
(`landings`, `raced`, `seen`) for the properties.

Each action is one system call of `mediated_write`/`atomic_write_bytes` that
another process can observe: `Probe`, `Stat`, `CreateTmp`, `FillTmp`,
`VerifyLeaf`, `Reread`, `Link` or `Replace`, `UnlinkTmp`, `Record`; `Fail` and
`Crash` may take any call at any of them, and `EditInPlace`, `EditByRename`,
`Delete` are changes that bypass the writer. Inode numbers are reused as soon as
no name holds them, because the writer trusts them. The walk over the path's
directories is one possible failure.

### Handoff and ClaudeSession

State of `Handoff`: the three files of the slot; supervisor, wrapper, assignee and
leftover background process of each launch; the staged report a sandboxed assignee
writes into; what the PM has read, accepted and routed. `Dispatch` is five steps
(clear report, status and log, announce `running`, spawn), an observation is three
reads that are not atomic, `Route` compares the identity it accepted, and the
supervisor publishes log and status as two steps. Timers are steps that may
happen at any time. Exit codes, log texts, interactive launches, launch
preflights and the PowerShell wrappers are left out. `Eager` (a PM that waits
again without the launch id) is a constant no run sets any more.

`ClaudeSession` is one launch from within. A report is absent, partial,
plausible (everything the shell watcher `cartopian_report_complete` looks for,
yet the parser refuses it) or complete, and has a revision. The assignee works
in turns; `EndTurn` raises a Stop event, `Guard` is the whole Stop hook with its
counter file, which may be impossible to write; `SeeReport`, `ReapChild` and
`Reap` are the watcher, `Cut` is the deadline or a forwarded signal, `Publish`
the wrapper's staged publication and its exit status. The refinement found a
case `Handoff` lacked: under staging, the living assignee may still write the
slot itself. It is a disjunct of `WriteReport` now.

### TaskClosure, ReportAcceptance, AcceptanceTrace

State of `TaskClosure`: the task's directory (`place`), the four artifacts, which
slots have a `.status` or a `.launch.log`, the running assignee, the review policy,
the request evidence in force, the status the last `report-action` named (`routed`),
and a `move-task` between its guards and its rename (`move`). A piece of
completed work is a number, since two reports with other bytes have other
identities; a review prompt's binding is the task's place, that number and the
evidence. Actions are the PM's commands and everything that goes on meanwhile: an
assignee writing, a process it left rewriting its report, the operator's next
request, an edit of the policy, and a PM that restarts and remembers nothing.
Three things are the PM's discipline, not code, and are guards of the model
because the skills prescribe them: one command and one launch of a task at a
time, cleanup of a slot after its launch ended, and, if `Routes`, no guarded move
without a routed report.

`ReportAcceptance` has one report as the record of the tokens its readers tell
apart: header fields, claims with their weights, verdict, drift, each well
formed, absent or off the grammar, at most two tokens off the skeleton. `Judge` is
correct-report's judgement and `Land` its hash-bound write, two steps because the
producer may write between them. `Failures` is validate-report's list, each failed
check with its class; `Target` is what report-action does.

`AcceptanceTrace` has the two acceptance lists, the excerpts in force, the
task's `## Upstream trace` block in normal form, the prompt's copy and the
review's determinations. `EditContract`, `EditBlock`, `Recompose` and
`ChangeInForce` happen between any two of `WritePrompt`, `Review`, `Approve`
(move-task's closure guard), `OthersClaim`, `Decide` and `ClosePlan`.

### Backlog, PlanCloseout, EvidenceStore

`Backlog`: `BACKLOG.md` as its id mark, its sections by id and its preamble, each
artifact's `Source:` stamp, and overlapping invocations. A command is a read and
a landing; `delete-backlog` also scans the artifacts in between. Ids past the
grammar's largest (`MaxId` stands for 999) have no section and no readable mark,
so their text falls to the section before. Titles, triggers and headings inside
bodies are left out. `Legacy` and `ReadFaults` are constants the proofs' assumptions
speak of; no run sets them.

`PlanCloseout`: the ledger as a sequence of lines (a record, a torn tail, or the
junk the next append makes of it), the lifecycle of each unit, what the provenance
journal counts of it, archives, their index, and the closing command in progress
step by step. Ghosts count what really happened, so `CountsTrue` compares a
summary with the truth. An append may fail or be torn, a command may die. What a
reader selects from the ledger is a set of its indices (`Of`, `Summaries`). The
bytes of a prompt count as one.

`EvidenceStore`: `session.json`, event log and pairs of each session, bindings
and revocations of each project, and each hook or command between its reads and
its writes. `overlap`, chosen once, says whether operations run interleaved or the
host finishes each before the next; the properties say for which they hold.
`overtaken` is history: a hook evicted from a log that had grown since its read,
or a session was discarded or put back under an operation still at it. From then on
receipt ordinals are given out again (intake_adapter.py:265 takes the next one
from the log it reads), and `OneProjectPerTurn` claims nothing.

### InstallLease, InstallRun

`InstallLease` has every system call of acquire, take-over and release that
another invocation can see. A lease object is named by its creator, its bytes
are the creator once written. `astray` is history: a failed claimer's blind unlink, a
holder's own release or a crash removed a live holder's lease; CONVENTIONS calls for
operator recovery there.

`InstallRun` adds the plan (on stale reads), the reread under the lease, the
gates, quarantine, preservation, the persisted intent, the swap of each target by
two renames with its backup, verification, the terminal markers, and the crash or
system error anywhere. One operator-owned surface stands for bridges, client
registrations and hooks. `OperatorRepairs` is the recovery the refusals ask for.

### ConfigMigration, EntryMigration

`ConfigMigration` keeps of a configuration file the two facts the rewrite carries
across scopes: the pace pair with its budget, and a role's automatic
launches. `Plan` computes the steps of plan_configuration_migration from what
it reads; `Advance` executes the next with its checkpoint, rolls back on a failed
comparison and finishes with the project's marker. `Means` and `MeansLaunch` are
what the code resolves from a shared and a project file, ghosts remember what that
was.

`EntryMigration` has files as versions with what they mention in retired form,
entries as plans (landings, then retirements, then records, then the plan again),
people who edit, decide and advance the marker meanwhile.

### Decisions

A decision is its headers, the units its evidence markers bind and a stamp for
its bytes. `WriteBody` is write-decision with all its guards (reserved ids,
supersession, ratification, restatement, carrying); `WriteIndex`, `Unlink`,
`Regenerate` are the file operations that follow; `StartReset` carries what the plan
leaves standing. Ghosts remember what an id meant when it was written.

### PlanRouting

Nothing is stored but the files: `Advice` is next_action's verdict, a chain of
first matches, with the dependency walk of task_dependencies and the order of
open tasks; `StateSays` is compose-state's; `CloseBlockers` and `MissingReviews`
the audits'. `Follow` does as told; replanning, an unadvised move, an operator
and a refused review happen a bounded number of times.

## 3. Runs

| run | instance | shows |
| --- | --- | --- |
| `write` | 3 calls, or 2 and a raw change; 2 bodies, 3 inodes | the log never vouches for bytes that did not land, the audit is exact when records were appended in landing order, a stale hash-bound correction loses to an earlier write only inside the last window; the write path implements `ArtifactRegister` |
| `handoff` | 2 launches, 2 revisions, any of supervisor, wrapper and dispatch may die; one native session with 2 writes and a guard of 0 or 2 blocks | routed bytes are final, a terminal wait means the assignee is gone, no launch stays `running`; a session cannot be stranded by its guard, a success leaves a report, every step of it is one `Handoff` has |
| `task_closure` | 2 pieces of work, 2 states of the evidence, 2 policy changes, rewrites; a task and a review report at most two tokens off, one change of the world; 2 ids, 2 edits of a trace | a reviewed task closes only on judged work, recovery never meets a running assignee; the readers of a report agree and a correction keeps what the producer said; no request is lost with the plan, and a task closes on the trace its reviewer judged |
| `correction_drift` (violation) | the same reports | a correction that repairs a path may turn recorded drift into aligned |
| `backlog` | 2 invocations, 2 notes, 1 artifact, 3 ids; 1 unit of prompt evidence, 5 events, 2 plans, one fault and one crash; 1 session, 2 projects, 2 processes, 4 hook events (2 when they overlap), 4 commands, one crash | ids are issued once, nothing acknowledged vanishes, `BacklogLedger` is implemented; summaries count what happened or say they do not know, no evidence outlives its plan; a turn is evidence of one project, a later selection heals an interrupted one, a pair answers what was last said |
| `install` | 2 invocations, 2 targets, 2 sources, a crash anywhere, one system error | one owner of the lease; a terminal record is true; no interrupted work is replaced unseen; old or new, never neither |
| `config` | 2 projects over one shared file, one process may die, 2 runs each; entries over 2 artifacts with an edit, a crash, a failed record | no setting comes to mean something else, undisturbed all projects end migrated; an entry that says complete is complete |
| `config_interrupted` (violation) | the same projects | interrupted after `write-project`, a project cannot be planned any more |
| `entry_edited` (violation) | 2 artifacts, one edit | an edit between copy and deletion is deleted by the retry |
| `decisions` | 3 ids, 3 writes, 2 resets, 1 crash | ids keep their meaning, pins hold, no ruling of an earlier plan rules in a later one |
| `decisions_draft` (violation) | 4 writes | an operator's ratification of an open draft speaks for another text |
| `routing` | 3 tasks, 2 phases, three of: a replanning, a stray move, a flip, a refusal | advice followed arrives, `plan-complete` is closable, compose-state agrees |

Each violation run is an entry of `findings`, which quotes the sentence the
code contradicts.

### Why the bounds are enough

- `MediatedWrite`: every hazard of the writer is a race of one call with one other
  writer; the third call gives the register a write to be lost between two
  others. Three inodes are one for the artifact and two for temporary files; a
  freed one comes back at once. The state constraint leaves raw changes to pairs
  of calls. Calls, bodies and inodes are symmetric; `RegisterSpec` is a step
  formula, for which symmetry is sound.
- `Handoff`: two launches are what a stale publication needs; two revisions are
  what a rewrite between two reads needs.
- `TaskClosure`: two pieces of work and two states of the evidence tell every
  binding from its predecessor; two policy changes reach each policy in each place
  and back. `ReportAcceptance`: two tokens off is one that is corrected and one that
  hides behind it; claim lists have at most two rows, the second `- none` or
  decisive. `AcceptanceTrace`: two edits are one before and one after
  the review; two excerpts can conflict and merge.
- `Backlog`: three ids let one be deleted below and above the mark; two
  invocations overlap. `PlanCloseout`: two plans are what outliving takes.
  `EvidenceStore`: two projects and one session are what a turn of two projects
  takes; a buffer of two evicts at the third event.
- `InstallRun`: two invocations are what a lease is about; two targets let one be
  replaced and one not; two sources let a record be stale. A third invocation
  does break the lease: see 4.
- `ConfigMigration`: two projects share what one of them may break; one death is
  one death between any two file operations. `EntryMigration`: two artifacts can be one
  migrated, one not.
- `Decisions`: three ids are a decision, what restates it and what retires that;
  two resets are what a ruling needs to come back (below).
- `PlanRouting`: a chain of two tasks and one beside it, in two phases.

`MaxRaw`, `MaxRev`, `NLaunch`, `MaxWork`, `MaxTrace`, `MaxFlip`, `MaxAlloc`,
`MaxWrites`, `MaxResets`, `MaxCrashes`, `MaxEvents` and the like only bound; where
there is a theorem it holds for every value.

### Fairness

`Handoff`: weak fairness of the supervisor's and the wrapper's steps, which the
operating system schedules, and of the exit of the assignee, which GNU `timeout`
enforces in the wrapper. (Where `timeout` is missing the wrapper warns and runs
unbounded; the claim does not cover that.) No fairness is assumed of a background
process an assignee leaves, so `RunningEnds` excuses a launch whose pipe such a
process holds, and none of the PM. `ClaudeSession`: weak fairness of `Progress`, the
end of a turn, the hook's run and the wrapper's publication; neither watcher nor
deadline is counted on. `ConfigMigration`: an invocation that runs goes on, and the
operator starts the next when none runs. `PlanRouting`: the PM follows the
advice as long as it changes something. The other modules claim safety
alone: a command may always be killed and nobody is obliged to run the next.

## 4. Proofs

All theorems are for arbitrary constants that satisfy the modules' named
assumptions, and where a theorem needs more it says so in its own ASSUME.
`PROJECT.json` lists them with the properties they state.

`MediatedWrite_proofs`: `TypeCorrect`, `WholeBodies` and `ImplementsRegister` rest
on `WholeInv`: every temporary name holds an inode of its own and, from "written"
on, complete bytes; without that an inode reused by another call could bring a
torn body under the artifact's name. `LogHonest` and `AuditVerdict` rest on
`LogInv`, which pairs each landed call with its program counter, and, while no
landing raced an append, the log with the landings index by index.
`StaleBinding` rests on `BindingInv`: a call that passed its reread saw, at the
landing it counted, exactly the bytes it expects, so a landing in between
must be younger than its validation.

`Handoff_proofs`: `TerminalEnds` and `RoutedStays` rest on `HandoffInv`. Its
heart is `SlotTells`: as long as the assignee lives or the wrapper has still to
publish, the status says `running` of this very launch, the retained log is not
there, an observation in progress has not read otherwise, and nothing is accepted.
That is preserved because launches go one at a time (`OneAtATime`: of the others
nothing is left) and the processes of one end in their order (`InOrder`: the
wrapper reports after its assignee, the supervisor after the pipe's last holder).
Both theorems assume `WoundUp`: the PM lets a launch be wound up before it
dispatches the next, and a background process cannot reach the project.
Neither is idle: with `Eager` the status of the launch before terminates the
next one's wait (the observer compares variants, not launch ids, where
CONVENTIONS.md:1199 says it cannot), and a surviving process that may write makes a
report change after it was terminal (CONVENTIONS.md:1198, "binds final bytes").

Of the native session, where `MCHandoff` hosts it, the same module proves
`SessionLeavesReport` (from `Backed`: what the wrapper counted as done is in the
slot, or staged and about to be published) and `SessionIsLaunch`, action by action:
each step is one that `Handoff` has for a launch, or that it does not see.

`TaskClosure_proofs`: `TypeCorrect`; `RecoverySafe` by `LiveMarked` (a running
assignee's slot has its `.status`), for any PM; `ClosureSafe` for a PM that
routes, by `RoutedJudged`: once `report-action` named `done` for a task in
review, no assignee runs, the review approves, and if the prompt is a review
prompt of this place the review judged what it binds. The guard of `move-task`
adds that the prompt binds the report as it is. Neither half is enough.

The same module goes on to the two judgements a closure rests on, where
`MCTaskClosure` hosts them. `ClosesOnJudgedTrace` and `RequestsKept`, for any lists of
criteria and any number of requests and edits: what a prompt showed and its review
copied is the text of one identity (`ReviewHolds`), so equal identities at the move mean
equal criteria, claims and scopes; and the trace of a done task is the judged one
(`DoneHolds`), so what `close-audit` reads of it is what the reviewer saw.
`RequestsKept` assumes `LateEdits = FALSE`. `ReadersNeverDisagree` needs no history:
it characterises when each validator finds nothing (`TaskPasses`, `ReviewPasses`) and
follows the router through it, for every report of the grammar. `CorrectionsKeep`: a
token that a failed check opens was not readable (`TaskOpens`, `ReviewOpens`), a
repaired list has every readable row (`ClaimsKept`), and what lands is the judged
correction or nothing. What TLC shows for reports two tokens off and claim lists of
two rows, the lemmas show for every report of the grammar (`TaskAgrees`,
`ReviewAgrees`) and lists of any length.

`Backlog_proofs`: `MarkAlwaysCovers` and `BacklogTypes` need no assumption
besides those on the constants. `NothingDroppedHolds` needs `Serial`, that
backlog commands take turns. `IdsNeverReissued` and `ImplementsLedger` need
`Careful`: turns, a file with its mark, no read fault, and ids inside the
grammar. Lemmas state what a render of an added, revised or deleted entry does to
the live ids and to the mark.

The same module proves the three properties of `PlanCloseout`, where `MCBacklog` hosts
it, for any units, allowance, plans, faults and crashes: `SummariesCountTrue`,
`ProjectionSettles`, `EvidenceIsOfPlan`. They assume that a unit has two summary
slots (`HostedAssumption`; prompt_evidence.py reserves two), for with one the closing
summary has no room and a unit approved would never be settled. None of the three is
inductive; `CloseoutInv` adds:

- `Tallied`: of each unit and each family with an independent count, no more is
  counted than was observed, and what was observed and not counted is at most what
  the ledger falls short of the independent count; so a reader who finds no
  shortfall has counted the truth. Each boundary moves both sides, a lost, torn
  or suppressed append only one; `Review` (a unit in review has its last journal
  row there) makes the journal count each reopen.
- `Cleared`: between plans, and from the close of the window to the last unlink, the
  ledger is empty; with `FromPlan` that is `NoneOutlives`.
- `Slotted`: of a unit's summaries in a window all but the first are settled, and
  `Closing`: while a window is being closed, those still to do are approved and have
  a slot, and if nothing was lost the last summary of each of the others is settled.
  That carries `PadCounted` over a close that died and was begun again: a unit whose
  slots are used up has a second summary, which settles it.

The lemmas on the ledger (`AppendedCounts`, `AppendedSummaries`, `Emitted`) say what
one append, whole, torn or failed, does to the indices a reader selects.

In its last part stands `TurnsOfOneProject`, where `MCBacklog` hosts `EvidenceStore`, for any
sessions, projects, processes, buffer size, events, commands and deaths, with operations
of one machine overlapping or not. A turn is named by its session's handle and its ordinal,
and belongs to a project through a binding that the session's own record confirms; so it
is enough that a handle is one session's (`OwnHandle`) and that a record's bindings
are ordered, disjoint and, but for the last, closed (`Chain`). The record is written back
whole by operations that read it long before, so `StoreInv` says it of every record in
hand too, as long as its session is there (`ChainedOp`), measured against the log as it is
now: a binding ends at or below the last ordinal. That needs logs that do not shrink.
They shrink only when a hook evicts or a session is removed. An eviction keeps the last
ordinal, in an event or in the marker (`EvictKeeps`), so it lowers nothing unless
the log had grown since it was read, which is `overtaken`; a session removed leaves
no operation whose record is still of it, because handles are never given out twice
(`Handed`). `InProject`: a project's file holds its own bindings only.

The same module proves `SelectionHeals`: when operations take turns, a completed selection
leaves every binding of its session that can hold a turn in its project's file, whatever died
half-way before. `TakeTurns` says that at most one process is at work (`Alone`),
that what it holds is what is on disk (`InTurn`: the record it loaded, the file it read),
and, on disk and in its hands, that a binding that ended and holds an ordinal is filed with its
range (`Exact`) and an open one at least by its place (`Known`). The open binding may be
filed as ended: a selection that died after its first write leaves it so, and the next one
ends it again. One assumption is added, `NoSessionAssumption`: the value for "no session" is not
a session record.

And `RepliesAnswerLast`, which states `PairedMeansLast`. `Answering` adds to these, while
operations take turns and none has died, the order of what was said: ordinals rise along a
log (`Grows`), turns rise from prompt to prompt and a Stop is of a turn that was begun before
it (`Turning`), and what an eviction leaves is a marker and the last events (`Lately`). Of a pair
it says that no Stop lies between its proposal and its reply, and that the reply is in the log
as long as anything before it is (`Joined`), so that the prompt a late Stop looks for is
found; and that a Stop which says something else is still to be compared (`Owed`, between the
append and the pair of the same hook) or has marked the pair (`Doubted`). `LateIs` follows
classify_late_stop from the Stop to the one pair it is about, `StopMarks` draws the mark.

`InstallRun_proofs`: of the lease, `MutualExclusion`, for any number of invocations of which at
most two overlap (`MaxLive <= 2`), until a mishap (`astray`). `Undisturbed` says
that a holder's lease is at the path, or aside with a take-over that will not match
it and puts it back; that a take-over is after the lease of one that ended; and
that until it is judged the lease of a live creator gives way to no other. The
assumption is the code's: of three, one finds the name free while the second has
the holder's lease aside, and takes it (resume_state.py:1004, 1020), which TLC finds
with `MaxLive = 3`.

The same module extends it to the workflow. The lease's variables change only by
the lease's own steps, so `OneOwnerOfRun` follows; on that exclusion rest
`CompleteIsTrue`, `NothingSetAsideUnseen` and `OldOrNew`. `RunInv` says of
the holder that the record on disk is the one it reread or wrote
(`HolderCurrent`), and of a record that says complete that every target, the
registration and the schema are as it says (`Honest`). Both hold until a mishap;
`OldOrNew` and the type need not know.

`Decisions_proofs`: `NamesKept`, `PinsKept`, `NothingStale` from `DecisionInv`, for
any ids, bodies, numbers of writes, resets and deaths. Names and pins hold because a
write refuses an id any file names and a rewrite of what another retires.
`NothingStale` needs `ResetSound` and `OldSettled`: what a reset keeps is closed
under restating, and each of it either binds no plan or is retired by another
that is kept; and a decision of an earlier plan cannot be written again, so what it
retires stays retired. The lemmas on chains (`ChainLeast`, `ChainClosed`,
`ChainNested`, `ChainStep`) stand for the induction over data the prover lacks.

`PlanRouting_proofs`: `CompletePlansClose` and `StateFollowsAdvice` from `RoutingInv`:
the plan was planned in its order and every task's phase has a file (`Grown`). With
work left, then, planning asks for nothing but a review (`WorkIsPlanned`), which is what
lets compose-state look at the task in flight first. `WaitEnds` shows that the descent of
dependency_wait to first prerequisites ends: a task it reaches from another reaches less,
or there is a cycle, which `Problem` excludes; and sets of tasks are finite. `Reach` and
`Descent` are least closed sets for that reason, not recursive functions.

`ConfigMigration_proofs`: `MigrationKeepsSettings`, which states `SettingsKept`, where
`MCConfigMigration` hosts `ConfigMigration`, for any finite set of projects over one
shared file. The files say what operators wrote only together: what the shared file no
longer says, each project's own must. `ConfigInv(x0)` follows the files from what they
were, `x0`: `Held` says that each is as it was or in the new vocabulary, with the pace and
the launches it then meant (`SharedForm`, `OwnForm`, `Reachable`), and that where the
shared file lost a meaning no project still relies on it. That is not inductive: a
migration holds steps it planned long before. `RunFits` adds that each step still to be
done takes its file from one such form to another (`Fits`), and that before each step that
takes a meaning from the shared file stands, still to be done, the step of this run that
makes each project state it (`Due`, `Demand`), if the file does not state it already. Since a step
writes only where its file is what it expects, another run's step that came first does no
harm (`TurnFits`). `PairKept` is the arithmetic: every reachable pair of files means the
legacy pair or is refused as conflicting. Assumed are integer budgets, the absent
budget none of them, and that the shared scope is no project (`ConfigAssumption`).

The last part proves `CompleteLeavesNothing`, which states `CompleteIsDone`, for any artifacts and
any number of edits, failed records, deaths and repetitions. A second plan that finds
nothing is not enough: v0.10.0 looks only for mentions of the names still there, and does
not look for the archive's directory at all. So `EntryInv` says what files may mention
(`Says`: a file under a canonical name, or whose copy is still to be made, mentions
retired names only as long as those are there), that no artifact is lost (`Whole`),
and that what an application has still to do is all that is left to do (`JobFits`), which
its end and every refusal keep true; sources go when all writes have landed, so the plan
shrinks with the names. Of v0.10.0 the theorem holds unconditionally. Of the earlier
entries it assumes `Patient`, a manager who advances the marker when the entry is
complete: with the marker ahead their plan is empty (migrations.py:973), and complete says
nothing.

### What the attempts to prove showed

- `NoStaleRuling` was stated, and checked with one reset, as if a reset were one
  step. Its induction step failed: an early-closing decision that a carried one
  restates comes along, retired; a later reset removes the files by name, and if
  the restating one goes first and the command dies there, the earlier ruling is
  in force again. TLC finds it with two resets. The property now excepts a reset
  half-way or dead (`torn`), and the run has two resets.
- `OneProjectPerTurn` holds in the run and was false beyond it. Overlapping
  hooks of one session evict by writing back a log one of them read before the other
  appended, and a discard may remove a session another hook then puts back; either way
  the next ordinal is computed from a shorter log and given out a second time,
  inside a binding of another project. The property now claims what holds
  before that (`overtaken`), on which simulation of larger instances agrees.

### Only model-checked

- Liveness: `RunningEnds`, `SessionEnds`, `EventuallyMigrated`, `AdviceArrives`. The
  prover has no ENABLED, so no fairness. Every other property of a passing run is
  stated by a theorem.
- That the slots, runs, tasks and backlogs of one project do not meet: the modules take
  them one at a time, as the code shares no state between them.
- The violation runs.

## 5. What the models leave out, and what was met on the way

Named in `findings` are the four disagreements a run shows. The following were
met while modelling; each was confirmed in the code, most by running it.

**Writer, handoff, lifecycle.** A missed provenance record is a guard, not an
advisory, when the artifact has an older record (provenance.py:283). `os.replace`
does not look at the bytes it was promised to replace (mediated_write.py:142,
atomic_write.py:334). A supervisor that dies strands a complete report
(output_safety.py:691). A crash between `os.link` and `os.unlink` leaves the
artifact with two names, and the writer refuses it as hard-linked. `TaskClosure`
states its property of the artifacts as the guards read them: between the guards
and the rename a leftover process may still rewrite the report. A PM that moves a
task without a routed report can close it on the review of an older report
(move_task.py:225). A completion report lost or spoilt while its task is in review
cannot be repaired by the recovery that the refusal advises. The context identity
of a review covers a list of artifact paths besides report and evidence; the model
allows more than the code there. One artifact, one slot, one task, one backlog:
the code shares no state between two of them.

**Native session.** If a complete report is at the slot and an incomplete one
staged, publishing overwrites it and the launch still ends well; `SuccessHasReport`
excepts exactly this. The shell watcher takes `Status: failed` with `Ready to
close: yes` for complete, which the parser refuses. Without `timeout` there is no
process group, so background children survive the reaping. Reads of the guard's
counter are taken not to fail; the publication of a review is one with the report's
refusal; the death of the wrapper is left to `Handoff`.

**Reports.** An unreadable claim row may be replaced by any row, `- none` included
(validate_report.py:55). Planning reviews skip identity alignment in validation,
the router refuses on a path mismatch (validate_report.py:434); the numbering
guard is only in the router; a missing binding is classed mechanical though its
cause is a missing input. Left out: legacy contexts, prompt alignments, more than two
tokens off the skeleton.

**Acceptance trace.** Rewriting a done task so that its trace no longer binds makes
close-audit forget what it had scoped out (trace_binding.py:937, where
CONVENTIONS.md:813 says "Scoping therefore never silently drops operator intent"):
with `LateEdits = TRUE` TLC shows `IntentKept` violated. Waivers are outside the
trace's identity, so one added after the review releases an identity no reviewer
saw. Intake is compared with the current body only, not the record set an
assignment was issued under. Removing the `Upstream trace: required`
declaration makes the guard inert. Left out: byte bounds, parsing, precedence classes,
self-referencing clauses, exemption reasons, early close; other tasks' claims and
the operator's decisions happen only after the task is done.

**Backlog.** A file that lost its mark, and an id past the grammar, can be issued
again (delete_backlog.py:139, write_backlog.py:303). An `OSError` on an existing
`BACKLOG.md` reads as a missing file. `Legacy`, `ReadFaults` here, `Eager` in
`Handoff` and `Routes` in `TaskClosure` are parameters the theorems' assumptions
speak of; no run sets the other value.

**Prompt evidence and closeout.** The provenance journal is never cleared, so
later plans count it as "omitted"; a crash after the archive's rename loses the
window; a failed delete leaves the log; archiving is possible twice; a reset does
not ask the audit; routing the same report on another day counts twice.

**Request evidence.** "already-bound" is answered though a crashed switch left the
binding unreceipted; rebinding can duplicate a binding id; a late Stop is not
marked when its turn was evicted; a bindings file may lose an update when two commands
overlap; a crash may leave two confirmations (select_project.py:163).

**Installation.** The lineage of preserved evidence can get stuck
(resume_state.py:791); `record_failure` may be refused at a second row
(resume_state.py:1328); a failed write of the lease unlinks whatever is at the
path; a crash leaves a backup behind; the source may change between plan and copy;
after a mishap two owners can drop each other's backup.

**Migrations.** Two projects with a shared legacy launch permission block each
other (config_migration.py:2578); resuming works only with the plan in memory.
update_config accepts `--remove-role r --set-role-launch r.agent=x` and loses the
launch. A pending judgement of an early entry does not block the marker
(config_migration.py:2936 asks only v0.10.0; CONVENTIONS.md:1006); a crash between a
landed write and its record leaves a collision only deletion by hand resolves; any
later decision counts as review of every receipt.

**Decisions.** Amendments of a carrier are not required to travel with it; an open
decision's `Supersedes` already retires; an amended open target can be re-issued.
Two writers at once are outside the model: decisions are written by one PM.

**Routing.** compose-state may say to continue a task while next-action says that a
checkpoint review is missing; a middle phase that has no tasks yet is taken as
behind, so a plan can be complete without it; a cyclic wait of a task in progress
is left to plan-audit. Left out: legacy refs, unscoped reviews, delivery records,
exit criteria, stale prompts.

## 6. Not modelled, and the plan

Not modelled, because it computes over texts and keeps no state, or keeps one file
replaced by one mediated write: prompt composition and handoff packets, plan-audit's
texts, configuration schema and rendering, registry, continuity summary, restart
state, risk, guidance and practice selection, evaluations, decision
neighbours. Not modelled, because it is a decision table over data or operating
system policy: the settings and per-call access decisions of the Claude adapter,
sandbox and proxy, the Windows wrappers. The MCP server runs one command at a time
in a subprocess and adds no interleaving.

What would come next is breadth, not proof: the deployment of the Claude adapter's
settings and hooks (claude_launch_settings.py, install_state.py), the composition of
prompts with its guards, and readiness of a task's contract.
