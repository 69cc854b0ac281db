# TLA+ verification of Monolynx

Monolynx is a FastAPI application (projects, tickets, sprints, settlements,
wiki, error tracking, monitoring) over PostgreSQL and an object store, with an
MCP server and a REST API for AI agents, and a plugin whose scripts let one
machine run several agent sessions on the tickets of a sprint. This directory
holds TLA+ models of its protocols, TLC configurations that check them on small
instances, and proofs checked by TLAPS. Paths below are relative to the
repository; `src/monolynx` is the server, `plugin` the agent plugin.

## 1. Inventory

The server has no queue and no worker pool. Each HTTP or MCP request runs as
one coroutine with its own SQLAlchemy session: the transaction starts with the
first statement, other requests run at every `await`, and the isolation level
is PostgreSQL's READ COMMITTED. Apart from one advisory lock per project
(dependencies), one row lock (ticket numbers) and a few unique constraints,
nothing orders two requests: they decide on rows they loaded, and write later.

| Component | State | Operations | What is hard | Correct when |
|---|---|---|---|---|
| Ticket dependencies (`services/ticket_dependencies.py`) | rows ticket-blocker, advisory lock per project | replace the blockers of a ticket, create with blockers, backfill from prose (dry run, apply), delete | concurrent checks, unflushed rows, lock order, refused item inside one transaction | the relation is acyclic and inside one project; a refusal changes nothing |
| Tickets and board (`services/tickets.py`, `dashboard/scrum.py`) | ticket rows, labels, points, activity | create, update, move, delete, comment | forms and service take locks in different orders | a completion takes what is unfinished and nothing else; tickets of a sent settlement are frozen |
| Sprints (`services/sprint.py`) | sprint status | start, complete | check and write without a lock | one active sprint; sprints only advance |
| Ticket numbers (`services/ticket_numbering.py`) | largest number of a project | next number | row lock of the project, deletion of the last ticket | no two tickets share a number |
| Settlements (`services/settlements.py`) | status and its timestamps, M2M projects, attachments, global number | create, edit, send, pay, reopen, delete, attach | decisions on loaded rows; object store and row written apart; retry of the number | status and timestamps agree; nothing changes after sending; no attachment without its file |
| Agent pipelines (`services/pipelines.py`) | status of jobs, steps, pipelines; wiki log page of a job | create, update job, finish, append log, clean | aggregation by concurrent callers | a step whose jobs ended has ended |
| URL monitoring (`services/monitor_loop.py`, `notifications.py`) | checks, last alert, advisory lock of the loop | check due monitors, alert | lock tied to a connection, debounce on a loaded row | one loop; one alert in five minutes |
| Heartbeats (`services/heartbeat.py`, `api/heartbeat.py`) | status, last ping | ping, mark overdue | the checker writes over a newer ping | a heartbeat that pings is up |
| Error tracking (`services/event_processor.py`) | issue with a counter, events | accept an event | read, increment, write | the counter is the number of events |
| Sprint dispatcher (`plugin/scripts/sprint_run*`, `plugin/skills/sprint-run`) | registry of sessions, pid file, auto-resume comments | loop, tick (sort, collect, resume, dispatch, report), session start and stop | several processes over one JSON file, ticks that die, sessions that end at any time, people who move tickets | one live session per ticket; nothing forgotten when the loop ends |
| Test lock (`plugin/scripts/test_lock.py`) | flock, holder entry | acquire with a timeout, run, release | timeout racing the lock, signals | one test run at a time; the note names the holder |
| Merge queue (`plugin/scripts/mr_queue_state.py`) | queue file | set, append, update, propose an order; the tick of the skill on top | people and a forge between two steps of a tick, ticks that die | merges are spaced by the target's CI; what is merged is what was green; the queue drains |
| Wiki (`services/wiki.py`, `ensure_post` of `services/blog.py`) | pages: row, text in the object store, address of the blog post | create, edit, publish, delete, lint | row and text written apart; addresses unique among all projects | a page shows the text of an accepted save |
| Members and permissions, OAuth, connections graph, burndown and reports, SDK and CLI | rows read once per request | | little beyond single statements | |

Interactions: the REST API, the MCP server and the dashboard call the same
services; the dispatcher reads the board and the blockers through MCP and
starts a ticket only when its blockers are `done`, so its decisions rest on
the dependency relation; agents move tickets and report pipelines over MCP.

## 2. Plan

Order: the most consequential protocol first. Written, in this order:

1. `Reachability`, `DependencyStore`, `TicketDependencies`, with proofs of the
   invariants and of the refinement.
2. `SprintDispatcher`, with proofs.
3. `SprintBoard`, with proofs.
4. `AgentPipelines`, `Settlements`, `SettlementNumbers`, `ErrorGrouping`,
   `TestLock`, `WikiPages`: parts without shared state, which `MCServices`
   checks together with the board in one run. Proofs of the pipelines and the
   errors in `ReportsProofs`, of both settlement modules in
   `SettlementsProofs`, of the lock in `TestLockProofs`, of the wiki and of the
   composition in `ServicesProofs`.
5. `MergeQueue` and `Monitoring`: loops that never end, checked for safety and
   liveness together by `MCLoops`, with proofs of the safety in `LoopsProofs`.

Every invariant and every action property that a passing run checks, and the
refinement, is a theorem now (section 5); liveness stays with TLC. Left to
model: the projects of a settlement, wiki attachments and system pages, the
editorial state of a post, work plans.

## 3. Modules

`Reachability` defines `Reach(T, E, b)`, the least set of tickets closed under
the relation from `b`. The code walks the relation with a recursive query
(`_find_cycle_path`); the definition has no recursion, so it can be used in
proofs. `NoCycle` is the acyclicity of a relation.

`DependencyStore` is what the component promises: a relation between tickets
that changes by whole operations only (replace one ticket's blockers, add a
ticket, remove a ticket with its rows, one batch of additions), none of which
closes a cycle or leaves its project.

`TicketDependencies` is the detailed model. The tables `tickets` and `deps` are
the committed rows. A session `x` of `Txn` serves one request at a time and
goes through the awaits of the code, one action for each statement:

| Code | Action |
|---|---|
| `update_ticket` (label branch, plain branch), form `ticket_edit` | `StartUpdate` with the kind of caller, `LockRow`, `FlushTicket` |
| `create_ticket`, form `ticket_create` | `StartCreate` |
| `pg_advisory_xact_lock` | `AcquireLock` |
| self-blocker, unknown ticket, other project | `RefuseSelf`, `CheckExists` |
| autoflush before a query | `FlushPending`, `FlushFails` |
| cycle query for each new blocker | `CheckBlocker` |
| DELETE and `session.add` of the rows | `ReplaceRows` |
| `commit`, `rollback`, error page | `Commit`, `Refuse`, `Rollback` |
| `backfill_dependencies` | `StartBackfill`, `NextTicket`, then the same actions, `FinishBackfill` |
| `delete_ticket` with ON DELETE CASCADE | `DeleteTicket` |
| PostgreSQL's deadlock detector, lost connection | `DeadlockVictim`, `Crash` |

What a session has written before it commits is in `repl` (tickets whose rows
it deleted), `ins` (rows inserted) and `pend` (rows added to the ORM session and
not flushed). `View(x)` is what a statement of `x` reads.

`SprintDispatcher` models the loop script, the tick and the sessions it starts.
The steps of a tick are those at which another process can come in between: the
board is read, the registry is loaded and refreshed, it is saved and the
tickets are sorted, finished sessions are removed one by one, failed ones are
resumed, free tickets are started in the order of their rank (look up, spawn,
save), and the status line is printed. `agent[s]` is the process table, which
the registry describes only as of the last refresh. The text of the skill
`sprint-run` is the program of the tick: an agent executes it step by step, and
the parts it leaves to scripts are modelled from the scripts. The model takes
the Codex backend, in which the dispatcher's registry is the only record of the
sessions; with the Claude backend that record is kept by the `claude` client,
which is not part of the repository. The double load of the registry in `stop`
and `start` is one step. A process id is not given to a second process while
the registry names it (the comment at `sprint_run_backend.py:677` accepts that
risk). A loop killed with SIGKILL takes its tick along.

`SprintBoard` is one project's sprints and tickets: `sprintStatus`, the rows
`card` (status, sprint, number), the row lock of the project and the rows the
uncommitted UPDATE of a completion holds. A request is what it has loaded
(`call`), and it writes at its commit only the columns that differ from that.
`raced` is history: the starts another start has committed beside.

| Code | Action |
|---|---|
| `start_sprint` | `FindActive`, `LoadPlanned`, `CommitStart` |
| `complete_sprint` | `LoadActive`, `MoveUnfinished`, `CommitComplete` |
| `ticket_status_update`, `update_ticket` | `SetStatus`, `PutInSprint`, `CommitWrite` |
| `ticket_sprint_update` | `DragIntoSprint`, `CheckSprint`, `DragToBacklog`, `CommitWrite` |
| `get_next_ticket_number`, `create_ticket` | `TakeNumber`, `InsertCard` |
| `delete_ticket`, `ticket_delete` | `LoadDeleted`, `DeleteCard` |
| rollback at the end of `get_db` | `Abandon` |

`AgentPipelines` is one pipeline: `job`, `step` and `pipeline` statuses, and
calls that load a job (`LoadJob`), the step's other jobs (`LoadSiblings`), and
commit what `_update_step_status` makes of them (`Verdict`, `CommitUpdate`), or
finish the pipeline (`LoadPipeline`, `CommitFinish`). `Settlements` has each
operation as a load and a commit, and the object store as steps in between
(`StoreFile`, `RemoveFile`); the edit form of a ticket, which rewrites its
settlements as well, loads, looks the settlements up and commits (`LoadForForm`,
`PickBills`, `CommitForm`). `SettlementNumbers` is the loop of
three attempts of `create_settlement`, with the INSERT that waits for an open
transaction with the same number. `ErrorGrouping` is `process_event` for one
fingerprint: look up, then increment the loaded counter or insert the issue.
`TestLock` is `test_lock.py`: the flock, the note, each wrapper's place in the
program, its command, and the signals (`Alarm`, `Interrupt`, `Kill`).

`WikiPages` is `create_wiki_page`, `update_wiki_page` and `delete_wiki_page`
with `ensure_post` (the descendants a deletion takes along are those `Reach`
gives): rows with slugs, texts known by what became of the request
that wrote them, addresses of posts, and the waits PostgreSQL makes for
uncommitted unique keys and updated rows.

Where the code lets two requests overlap and spoil a result, the model lets them
too, and a history variable no action reads says of what it happened to:
`raced` (board), `outrun`, `late`, `stale` (pipelines), `overtaken`, `outdated`,
`crossed` (settlements), `outpaced`, `missed` (errors). The properties then say
that nothing else spoils the result, and what mends it.

`MergeQueue` has the queue file (`queue`), the forge (`forge`, `targetCI`) and
the tick of the skill `mr-queue` (`tick`), which picks the first item
(`Pick`), waits for the target's CI, asks the forge (`Ask`), fixes and pushes
(`StartFix`, `Push`, `CountRound`), merges and sees to the ticket (`Merge`,
`RecordMerge`, `SetTicketDone`, `CloseItem`). `QueueSet`, `QueueAppend`,
`SetStatus` and `Propose` are the operations of `mr_queue_state.py`. People push,
draft, approve, close, reopen and merge on the forge, and write the queue file
through `queue-update`: a stopped or closed item back to pending (`RestartItem`),
a merged one to `done` after a failed target CI or to `merging` when the forge
does not name the merge (`MarkDone`, `RecordByHand`), a halted one to `closed`
(`LiftHalt`). `byHand` and `fixes` are history: the items set done by a person,
and the pushes of ticks since an MR's item came into the queue. The order
in which `queue_propose` walks the MRs depth first is stated by what it comes
to, an order of the trails from the default branch, without recursion. The copies
of that file under `plugin/skills/*/scripts` are identical.

`Monitoring` has the workers that run `monitor_loop.py` under one advisory lock
(`loop`, `advisory`), a monitored URL with the ages of its stamp and of its last
alert, and a heartbeat with a job that pings or not. The lock belongs to a
connection the loop never looks at again: `LoseSession` takes it from a worker
that goes on (`severed`), and another one may then start the loop beside it.

`MCServices` and `MCLoops` compose parts that share no state. The variable
`part`, chosen in the first state, says which of them runs; the others do not
move. One run then explores each part on its own, not their product.

Definitions commented "(Bug to detect: ...)" or "A mutant: ..." are faulty variants of the
definition that follows them. No specification uses them; they are there to
show, by putting one in place of the real definition, that the property it is
paired with in `PROJECT.json` can fail.

## 4. What the runs check

| Run | Instance | Shows |
|---|---|---|
| `requests` | 3 tickets of one project and 1 of another, 2 sessions, lists of up to two blockers, deletions, crashes, deadlocks | types, acyclicity, rows inside their project, and that every behaviour is one of `DependencyStore` (`ImplementsStore`) |
| `backfill` | 3 tickets whose prose forms cycles, 2 sessions | backfills racing edits keep the relation acyclic, and a refused proposal leaves its ticket's rows alone inside a transaction that goes on |
| `request_ends` | 2 tickets, 2 sessions, `FairSpec` | every request ends although the service and the form take row lock and advisory lock in opposite orders |
| `dry_run` (violation) | 3 tickets, 1 session | a dry run accepts two proposals that contradict each other; `--apply` refuses the second |
| `backfill_race` (violation) | 3 tickets, 2 sessions | the backfill drops a blocker set by hand after it loaded the tickets |
| `sessions` | 2 loops, 2 tickets (the second blocked by the first and a migration), 3 session ids, 2 slots, ticks that die at every step but one, Codex out of reach, people who send tickets back | the registry knows every live process (`RegistryInv`), one live session per ticket, `stop` kills no working process, a loop that reports the sprint done leaves only what its last tick resumed and forgets no `todo` ticket, a migration starts alone |
| `sprint_progress` | 1 loop, 2 tickets that compete for 1 slot, ticks that give up at the dispatch, nobody but the sessions moves tickets, `FairSpec` | a ticket that can start gets its session, or its loop has ended |
| `left_running` (violation) | 1 loop, 2 tickets, nothing fails | a session resumed by the last tick is in no number of the status line: the loop says `sprint wykonany` and leaves it |
| `concurrent_ticks` (violation) | 1 loop and 1 tick run by hand | both look up the ticket before either saves the registry: two sessions, and one registry entry is lost |
| `services` | seven parts, see below | board: `NumberFree`, `ActiveOnlyAlone`, `SprintsOnlyAdvance`, `CompletionKeepsFinished`; pipelines: `StepFollowsJobs`, `EndedStaysEnded`; settlements: `StampsAgree`, `SealHolds`, `RowHasFile`, `RefusedOnlyByThree`; errors: `CountWithinEvents`; test lock: `CommandsExclusive`, `NoteNamesHolder`; wiki: `ShowsWhatWasSaved` |
| `two_active_sprints` (violation) | the board alone | two starts overlap and the project has two active sprints |
| `loops` | the queue with 2 MRs, monitoring with 2 workers, fair | queue: `MergesAreSpaced`, `MergesWhatWasGreen`, `FixesBounded`, `DoneMeansSeenTo`, `QueueDrains`; monitoring: `RepeatsBounded`, `OutageIsAlerted`, `SilenceIsNoticed`, `AliveIsSeen` |

Bounds. Two sessions are enough for every race between a check and a write
(each hazard is a pair); three tickets of one project give cycles of length one
to three and chains through a ticket that is deleted; the ticket of a second
project gives the cross-project lists. The proofs lift these bounds. In the
dispatcher two tickets give the relations that matter (blocked, competing for a
slot, one waiting while the other runs), two loops give the hand-over of the
pid file, three session ids allow a resumed session beside the exited entry and
another ticket's session (an id nothing refers to is used again, so ids never
run out). `MaxErrors` is 3 in the script and 2 in the runs; `Slots` and
`MaxWaiting` are the options `--slots` and `MONOLYNX_SPRINT_MAX_WAITING`.

Bounds of `services`: 2 requests at a time for the board, pipelines,
settlements and wiki, 3 for numbers, events and wrappers (an attempt that loses
twice, and a note that changes hands while a third waits, need three); 2
sprints and 2 tickets with numbers up to 2: one request at a time writes the
columns of a ticket (`OneWrite`), starts of a sprint, which touch no ticket,
run beside starts and completions (`Apart`), and one ticket at most is
otherwise than a creation can leave it (`OneChanged`); once a pipeline has
ended, the calls begun after that take turns (`OneMore`), while those begun
before, and all calls before the end, overlap as they like. The proofs about
the board and the pipelines know none of these bounds. 2 jobs of a step, set to
success, failed, running or back to pending, and a finish that derives the
status (a job that is skipped or canceled ends a step as success and failed do,
and a status given by hand is stored as the derived one is; the proofs are
about all of them); 2 settlements, 1 ticket, 1 attachment; 4 settlement
numbers, since three lost attempts need three commits; 5 events; 2 pages in up
to 2 projects with 2 titles and 3 requests, which is a page, the page whose
title or address it takes, and the edit that collides. The settlements run
twice: with their ticket, where one settlement at most is deleted or has
crossed changes of its status (`Odd`), and with their terms and attachment,
where one settlement at most leaves its first state (`Touched`); tickets and
attachments meet only in the settlement's row. Bounds of `loops`: 2 MRs, 1 fix
(2 in the skill), 1 death of a tick or 1 meddling of people beside what people
do as often as they like (`MaxTroubles`), 2 workers, 1 stop, crash, failed step
or lost session. `Init` of `MCLoops` narrows the queue's first states: a draft
has the other MR based on it, an item that was in the queue before comes with
an MR to the default branch, and the second MR does not go to the integration
branch.

What the runs assume. Each of these constants excludes an overlap the code does
nothing about; the property named fails when it is lifted.

| Constant | Excludes | Lifted, it breaks |
|---|---|---|
| `RacingRenames = FALSE` | somebody takes the slug of a private rename, or publishes that page, before it commits | `ShowsWhatWasSaved`: the text of a private page is stored before its row is refused |
| `FreeOrders = FALSE` | an order given by hand while a merge awaits its CI; a restart of an item that stands before the one under way, or before a merge that is not recorded | `MergesAreSpaced`: `queue_set` loses an item that is `merging`, a restarted item is merged before the first merge is recorded |
| `CleanHandover = TRUE` | a dead worker's session outliving its successor's one try for the lock | `OutageIsAlerted`: the successor is spare for good and nobody monitors |

No other property of `services` and `loops` assumes that requests, calls,
starts, orders or sessions take turns. `AtMostOneActive` is the one that has no
weaker form under which it holds, hence its own run.

Limits of `sessions`. `CrashAt` leaves out one step of the tick, `register`: a
tick that dies between the spawn and the save of the registry leaves a session
nobody knows, and the next tick starts a second one. That window, and two loops
started in the same instant (`RacingStarts`), are known from the code (no lock
around `start`; test, then write, of the pid file) and are excluded there by
constants, so that the run shows what holds outside them. `Exclusive` is the
same exclusion as an assumption of the theorems.

Fairness. `RequestEnds` assumes strong fairness of each session's next
statement: PostgreSQL serves waiters of a lock in turn and a deadlock is broken
after `deadlock_timeout`, so a statement that is enabled again and again is
executed. Starting a request, deleting and crashing are not fair.
`FreeTicketStarts` assumes weak fairness of a running loop's steps (the shell
loop and the agent go on) and of the end of each session's process; people,
session questions and dying ticks are not fair. `loops` assumes weak fairness
of each worker's steps (Docker restarts a worker, its loop goes on), of time
(`Due`, `Age`), of a pinging job's pings, of the steps of ticks (the skill runs
in a loop), of pipelines that end, and of people who, in the end, approve,
finish a draft, restart what needs a restart and lift a halt: the queue stops
until they do. Nobody has to meddle, fail or die. `services` has no liveness:
its requests are finite sequences of statements.

## 5. What is proved

`TicketDependenciesProofs` proves, for any sets of tickets, projects, sessions,
prose declarations, lists and scopes satisfying the five named assumptions of
`TicketDependencies`:

* `TypeCorrect`: `Spec => []TypeOK`;
* `LocksHeld`: a session past its lock step holds the advisory lock of the
  project it works on, and an idle session holds none and has written nothing;
* `RowsValid`: committed and uncommitted rows join tickets of one project, and
  existing ones once they are flushed;
* `ChecksHold`: for each blocker `b` that session `x` has checked for ticket
  `t`, `t` is still unreachable from `b` in what `x` sees;
* `Acyclic`: the committed rows, and the rows each open transaction would leave
  (`Final`), are well-founded;
* `DependenciesAcyclic` (`NoDependencyCycle`) and `DependenciesInProject`
  (`RowsJoinProjectTickets`), which follow;
* `CommitsOneRequest` (`CommitInv`): a session that serves one request has
  written nothing until it comes to its commit, which replaces the rows of its
  own ticket; a ticket being created is in no table and nobody else creates it;
* `StoreImplemented` (`ImplementsStore`): the initial states and every step map
  to `DependencyStore`. The commit of an update is `Replace`, of a creation
  `Add`, of a backfill `Batch`, a deletion is `Remove`, everything else
  stutters. `Replace` asks that no new blocker leads to the ticket in the rows
  of that very moment, which is more than what was checked: it follows from the
  acyclicity of what the commit leaves, since the ticket's own old rows lie on
  no path that only leads to it (`ReachWithoutOwnRows`);
* `RefusedKeepTheirRows` (`RefusedTicketKeepsItsRows`), from `TriedInv`: the
  tickets refused, replaced and still to try are apart.

Acyclicity is not inductive: a commit publishes rows checked many steps
before. The invariant therefore goes through the lock (only the holder of a
project's lock changes its rows), the stability of a check (other sessions
can only add rows of other projects or delete rows, and deleting shrinks
`Reach`), and the union argument (new rows of `t` close a cycle only if `t` is
reachable from a new blocker). Well-foundedness is stated over subsets (every
non-empty set has a member without a blocker in it), which needs no induction.

`SprintDispatcherProofs` proves, for any finite set of tickets, any blockers,
limits and moves of people, and any sets of loops and session ids satisfying
the named assumptions of `SprintDispatcher`, `TypeCorrect` (`TypeOK`), and under
`Exclusive` (no ticks by hand, loops that do not start in the same instant, no
tick that dies at `register`):

* `OneLoop` (`LoopInv`): at most one loop is past its first line, and the pid
  file names it while it runs. Every other dispatcher is then off, which is what
  makes the read-decide-write steps of a tick safe;
* `RegistryComplete` (`RegistryInv`): every live process is its ticket's entry
  in `sessions.json`, called running there, except between spawn and save, when
  the entry is in what the tick is about to save;
* `OneSession` (`OneSessionPerTicket`), which follows, since a registry has one
  entry for each ticket;
* `StopIsHarmless` (`StopKillsNobody`): `StopInv` says that the entries of
  tickets sorted as done and not yet cleared are those of ended processes, that
  a started ticket has left the list, and that `stop` sees such an entry;
* `NothingForgotten` (`DoneForgetsNoTicket`): `CountInv` relates the verdicts,
  the tickets started in this tick and the registry; that the two counts agree
  then means that the sets agree, because the started tickets are free ones;
* `ProcessesAccounted` (`AccountInv`): once a tick has sorted its tickets, every
  live process is of one it found running, waiting or in need of people, or has
  started itself. Hence `OnlyResumedLeft` (`DoneLeavesOnlyResumed`), for counts
  of zero are counts of empty sets, and `MigrationsAlone`
  (`MigrationStartsAlone`), for the look-up that precedes a spawn does not
  change what was eligible.

None of these properties is inductive by itself. `OneSessionPerTicket` needs to
know that the look-up before a spawn tells the truth, hence `RegistryInv`; that
needs to know that nobody writes between a load and the save that follows it,
hence `LoopInv`. Every step is checked by one lemma (`RegistryStep`, `StopStep`,
`CountStep`, `AccountStep`) that reduces the invariant over all dispatchers to the one that moved.

`SprintBoardProofs` proves, for any sprints, tickets and requests,
`BoardTypeCorrect` (`BoardTypeOK`) and:

* `NumbersAreFree` (`NumberFree`). The invariant `NumberInv` says that a
  creation with a number holds the project's row, and that the number lies
  above every ticket's: only the holder inserts, deletions only lower the maximum;
* `CompletionIsExact` (`CompletionKeepsFinished`), from `HoldInv`: the rows a
  completion holds are, until its commit, unfinished and in its sprint, because
  a write of a held row waits. `MovesExist` says that they exist;
* `StartsComeAlone` and `SprintsAdvance` (`ActiveOnlyAlone`,
  `SprintsOnlyAdvance`), for starts that overlap as they like. `SprintInv` says
  that while a start is under way that no other start has raced, no sprint is
  active and the sprint it has loaded is still planned at its commit, and that a
  sprint being completed is no longer planned.

`TestLockProofs`, for any set of wrappers: `LockTypeCorrect`, `CommandsExclude`
(`CommandsExclusive`) and `NoteIsTrue` (`NoteNamesHolder`). Exclusion follows
from `HolderInv` (from the grant to the end of the command the wrapper's
descriptor is the one that holds the flock) together with `CommandInv` and
`NoteInv`, which say where in the program a wrapper may have a command or a
note.

`ReportsProofs`, for any reporters, agents, jobs and steps that satisfy
`PipelineAssumption` (the statuses that are asked for are those the schema
accepts): `CountIsBounded` (`CountWithinEvents`), which needs that a request in
flight has loaded no more than there are events, and what the counter still is
unless another one was counted beside it (`LoadedInv`); `PipelinesTypeCorrect`;
and, for calls that overlap as they like, `StepsFollowTheirJobs`
(`StepFollowsJobs`) and `EndedPipelinesStay` (`EndedStaysEnded`). `UpdatesInv`
says that what an update that is not outrun has loaded is still so
(`LoadedStill`) and that what it is about to write follows the jobs there will
be (`PlannedWell`); `StartsInv` that an update that will set the pipeline
running, and that no finish has committed beside (`late`), meets one that is
created or running.
The case analysis is about `_update_step_status`: all jobs terminal, one
running, or neither.

`SettlementsProofs`, for any settlements, tickets, attachments and requests:

* `RowsHaveFiles` (`RowHasFile`): an upload is alone on its attachment, which
  has no row, and has stored the file before it writes one (`UploadInv`); a
  removal follows the upload and removes the file last (`RemoveInv`);
* `StampsFollowStatus` (`StampsAgree`): a change of status that no other one has
  overtaken is still allowed at its commit, and the columns it leaves alone are
  those it loaded (`StampsInv`); settlements whose changes have crossed are
  excepted until they go back to draft;
* `WhatWasSentStays` (`SealHolds`, and that who counts as overtaken is under
  way): a request that was not under way when something came under the seal
  touches no settlement that stands and no frozen ticket (`SealInv`), those of
  the edit form included, so only the overtaken ones can;
* `RefusalsCostThree` (`RefusedOnlyByThree`) and `NumbersConsecutive`: every
  lost attempt has cost the commit of another settlement (`IssuingInv`), since
  the numbers taken are `1 .. n` and the one offered is `n + 1`.

`LoopsProofs`, for any workers, MRs, limits and numbers of troubles:

* of the monitoring `MonitoringTypeCorrect`, `OneIntactLoop` (whoever is in the
  loop holds the advisory lock, or has lost the session it was on) and
  `RepeatsAreCounted` (`RepeatsBounded`): an alert whose stamp was lost, and of
  which nobody knows, was counted before it lets another one through (`CountInv`);
* of the queue `QueueTypeCorrect` (no MR has two items, and a tick works on an
  MR of the queue), `DoneWasSeenTo` (`DoneMeansSeenTo`) from `MergedInv`, and
  `MergedWasGreen` (`MergesWhatWasGreen`) from `GreenInv`: between the verdict
  and the merge the head may move on, but while it is the one that was judged
  its CI stays green;
* `FixesAreBounded` (`FixesBounded`) from `FixInv`: the pushes to an MR since its
  item came are the rounds counted, the ticks that died, and the one about to be
  counted, since no step that keeps an item takes rounds from it;
* assuming `~FreeOrders`, `SpacesMerges` (`MergesAreSpaced`) from `SpaceInv`: a
  merge that awaits its CI has an item, and that is the one a tick looks at
  first, recorded as `merging` or not;
* `LoopsTypeCorrect` (`LoopsTypeOK`) for the two side by side.

The lemmas about `InOrder`, `Only`, `QueueSet` and `QueueAppend` (an order of a
finite set lists each element once; the items of a new queue are those of the
old one or new ones) are proved without induction, from the cardinality of the
elements that come before.

`ServicesProofs`, for any finite set of pages, any titles, requests and limit
that satisfy `WikiAssumption`: `WikiTypeCorrect` (a free suffix for a slug
always exists, since there are finitely many pages) and, assuming
`~RacingRenames`, `SavedTextIsShown` (`ShowsWhatWasSaved`). The property is
about texts of requests that may still be refused. `WikiInv` adds that the text
a page has is that of a done request or of one that cannot fail any more:
creations have their page to themselves (`BirthsApart`), rows that were sent
stay free of conflicts because whoever would make one waits (`SlugsDiffer`,
`SentFits`), and the slug of a private rename, whose text is stored before its
row is sent, is nobody else's (`RenamesFit`, `RenamesStayPrivate`).
`EachByItself` shows that each of the seven parts of `MCServices` takes only its
own steps, hence `ServicesTypeCorrect` (`ServicesTypeOK`).

The theorems that assume `~RacingRenames`, `~FreeOrders` or `Exclusive` are the
ones whose property fails without (section 4); all others hold for both values.

Only model-checked: liveness (`RequestEnds`, `FreeTicketStarts`, `QueueDrains`,
`OutageIsAlerted`, `SilenceIsNoticed`, `AliveIsSeen`), since fairness and
ENABLED are beyond the prover. Of `services` and `loops` the theorems are about
each part's own specification; the composed runs only choose which part moves.

## 6. Known from the code, not refuted by a run

Seen while the modules were written; the runs exclude them or the models stop short of them.

* A tick dies between its merge and the record of it, and a person restarts a
  stopped item that stands earlier in the queue: the next tick merges that one to
  the default branch while the CI of the first merge still runs, although
  `mr-queue/SKILL.md:27` calls the order of the queue sacred. It takes three
  troubles where `loops` allows one, and `FreeOrders = FALSE` excludes it.
* `queue_set` (`mr_queue_state.py`) loses an item that is `merging` when the
  list leaves it out, and an item left out loses its `fix_rounds`. The comment
  of `queue_append` (lines 787-795) has a stopped MR return only through
  queue-set, but `queue_set` keeps the status `stopped` (line 775).
* An open MR is made a draft again, or the MR it is based on is: the next proposal
  skips it (lines 686-700), `queue_set` drops the item (line 768), and proposed
  again the MR gets its fixes anew. So does one that an order leaves out and a
  later one names. `FixesBounded` counts from the item's arrival for that reason.
* The item of an MR that was closed stays `closed` when the MR is opened again:
  `queue_append` skips it and `queue_set` keeps its status, until a person sets
  it `pending` (`RestartItem`).
* After a failed CI of the target the skill has a person set the item `done`
  (`SKILL.md:170`). No tick sees to its ticket after that; `DoneMeansSeenTo`
  excepts the items in `byHand`.
* Step 3a of the skill `mr-queue` stops an item after a failed target CI without
  a `stop_reason`, so the next one is taken with a red target, although rule 6
  (line 614) waits for green. A tick that dies between its push and
  `--fix-round` loses that round. An MR whose parent was stopped is merged into
  the parent's branch.
* A worker that lost the race for the advisory lock never tries again; only the
  health check goes stale. One whose connection ends under the running loop
  (`monitor_loop.py:124-152`) goes on without the lock, a second worker can start
  the loop beside it, and both alert. `features.py:542` and `:604` speak of a
  single worker. The model has this; `RepeatsBounded` counts the alerts of a worker
  that is alone.
* `update_ticket` lets a frozen ticket change its status only (comment at
  `tickets.py:547`), but others write it without asking: `ticket_sprint_update`
  moves it between sprints (`dashboard/scrum.py:1547-1597`), acceptance criteria
  (`tickets.py:834-946`), attachments (`dashboard/scrum.py:1071-1182`) and hours
  (`time_tracking.py:69-125`) are added and removed, `complete_sprint` takes it
  out of its sprint (`sprint.py:54-62`), a backfill sets its blockers. None of
  them writes what `work` stands for, so `SealHolds` says nothing of them.
* Two changes of one settlement's status that overlap leave its timestamps and its
  status apart; two starts of one sprint that overlap a completion bring the
  completed sprint back; two jobs that end at once leave their step running; a
  report in flight while its pipeline is finished sets it running again. The runs
  contain these, and the properties name the race as the only cause.
* `update_wiki_page` does not refuse reserved slugs: a page renamed to "Wiki
  log" takes the system slug, and the system page is then written over it. Two
  concurrent `append_log` lose one entry.
* `update_settlement` can take away a project whose tickets stay linked, and the
  limit of attachments is checked on a list loaded before.
* Turning an issue into a ticket (`dashboard/scrum.py`) twice at once makes two
  tickets, and two appends to the log of a job lose one. The code guards
  neither, so no property would say more than that.

## 7. Not modelled

Parsing and rendering (prose to keys, terminal logs, markdown, blocks of the
blog), permissions and login, plain CRUD without a protocol (`features.py` and
most of `mcp_server.py` are texts and argument parsing around the services),
sums over rows read once (burndown, reports, work plan), and external services.
The wiki's attachments, backlinks, embeddings and system pages are best-effort
writes after the commit. Creating and editing monitors, heartbeats and planned
sprints are single statements. `MergeQueue` leaves out the answers by which the
forge only makes a tick wait, other people's branches, the cancelling of a
target's CI and the fast-forward of the checkout. `SprintDispatcher` leaves out
the Claude backend, whose record of sessions is kept outside the repository.
Ids are never reused within a behaviour except for tickets and sessions under a
free id, and the ids of pages whose creation failed. Rows carry no data beyond
what the properties tell apart. `PROJECT.json` lists every component with its
status and every hazard found while reading the code, those no property covers
with the reason.
