# TLA+ specifications of system_analyse

`system_analyse` runs long analyses of firmware by LLM agents. A user creates a
task over HTTP; the task is a row of `app_sa_task`; a worker pod claims it, runs
a pipeline of stages (workers propose, judges vote), stores the result in the
row and the files in a shared directory. Two things are hard: who runs a task
(pods die, messages come twice, users cancel and restart, and several loops
repair the same row at the same time), and how one run comes to its end (agents
fail, hang, answer nonsense and delete files, in several threads at once). The
first is the subject of the control planes (`CeleryExec`, `ControlPlane`,
`Leases`), the second of `Pipeline`, `Refine` and `AgentCall`; `FailureDebug` is
what happens after a failure.

Sources are named relative to `src/`. Run everything inside this directory:
`tlc -config celery_faults.cfg MCCeleryExec`, `tlc -config pipeline.cfg
MCPipeline`, `tlapm CeleryExecProofs.tla`.

## 1. The system

### Components

| Part | Source | State it keeps | Operations | Interacts with |
|---|---|---|---|---|
| Task API | `app/api/tasks.py`, `app/service/task_service.py` | rows of `app_sa_task`, task directory | create, cancel, restart, delete, retry a stage, queries | database, Celery revoke, file system |
| Dispatcher side-car | `app/dispatcher.py`, `app/celery_app.py` | none of its own between loops | startup reset, pump, stale scan | database, Redis, `inspect().active()`, revoke |
| Celery worker | `app/celery_tasks.py`, `app/service/execution_coordinator.py` | the child's claim (owner, epoch, control version), a lease thread, a sync thread | claim, clean, set up, begin, renew, run, archive, commit, recover | database, shared directory |
| Task supervision | `app/service/task_runner.py`, `app/service/task_repository.py` | event buffer, cancel event, snapshot of the row | prepare, snapshot the configuration, supervise, persist result or error | database, execution lock, orchestrator |
| Task workspace | `app/service/task_workspace.py` | `run/` and `output/` of a task, on the pod's disk and on NFS | set up, sync for the front end, finalize | worker, API |
| Scheduler V3 | `app/service/scheduler_v3.py`, `worker_control.py`, `sched_proto.py`, `run_task.py` | manager: queue, running table, workers, requeue counters, a state file; worker: current process, socket | submit, dispatch, reconcile, adopt, cancel, restart; RUN, CANCEL, RESTART, TASK_STATE, HEARTBEAT | TCP, database |
| Scheduler V2 | `app/service/scheduler.py`, `worker_dispatcher.py`, `runner_registry_service.py`, `runtime_control_service.py` | leases and runner assignments in the database | acquire, renew, sweep, poll assignments | database |
| Execution lock | `app/service/task_execution_lock.py`, `task_service.py:2461-2636` | a lock file per task | acquire, judge stale, clear | file system, database |
| Orchestrator and pipeline | `app/orchestrator.py`, `app/pipeline/` | pipeline context, round counters, the workspace (`filtered_files.txt`, `modules/<m>/files.list`, `deleted.list`, reports) | stages S0 to S4, worker/judge rounds, super-fast mode, reports, `output/flag` | agent runner, supervision |
| Stage 2 | `app/pipeline/s2_refine.py` | two queues, sets of modules in progress and refined, drafts and snapshots | refine a module, commit its draft, wait for both | agent runner, workspace |
| Agent runner | `app/runner.py`, `app/agent_process.py` | agent subprocess, session file, retry counters | run an agent, retry, compact, take for stuck, abort | pi, LLM providers |
| Failure debugger | `app/service/failure_debug.py`, `app/api/failure_debug.py` | rows of reports, a queue in memory | submit, debug, sweep at startup, delete | notifiers in the Celery worker and the V3 manager |
| Event log, session index | `app/service/event_log.py`, `session_index.py` | JSON-lines files | append, read, index | supervision, queries |
| Agent clean-up | `app/service/agent_cleanup.py`, `agent_runtime_registry.py` | table of running agents | register, kill left-overs | supervision, agent runner |
| Settings | `app/config.py`, `config_service.py`, `prompt_service.py`, `llm_provider_sync.py` | configuration rows and files | load, merge, sync | all |
| Observability | `app/metrics*.py`, `probe_*.py`, `agent_observability.py`, `worker_slot_snapshot.py`, `pod_metrics.py`, `task_query_service.py` | none that other parts use | read-only views | all |
| Bootstrap | `app/server.py`, `runtime_bootstrap.py`, `registry_service.py`, `cli.py`, `main.py` | threads by role | start, stop | all |

Two control planes live in the tree. The Celery path is the one the worker and
scheduler roles run ("scheduler/worker roles run outside FastAPI",
`app/service/runtime_bootstrap.py:90`); Scheduler V3 is started inside FastAPI
by `app/server.py:155-197` when `SCHED_V3` is set, which is the default; V2 is
what remains when it is not. All of them write the same rows.

### How the Celery path works

A row is created `pending`. The dispatcher's **pump** publishes one Redis message
for every pending row without a `celery_task_id` and records the id. A pod's
single prefork child receives the message and **claims** the row: an UPDATE
guarded by the status it read, and for a running row by an expired lease; it
writes owner, epoch and lease and leaves the row pending. The child then cleans
the task's old files, sets up its workspace, and **begins**, which sets the row
running if owner, epoch and control version are still its own. A **heartbeat
thread** renews the lease every 60 s. The pipeline runs under a **supervisor**
that asks it to stop when the row is cancelled, no longer running, or no longer
leased to the child. At the end the result is written under the same fence, the
files are archived, `commit_terminal_state_if_owner` settles a row that is still
running, and otherwise `recover_running_task_for_cleanup` returns it to pending.

The **stale scan** asks every pod which messages it executes, reads the running
rows, revokes and resets those whose message is not executed or whose heartbeat
is older than 120 s. **startup_reset** resets every running or published row when
a dispatcher starts. **cancel**, **restart** and **delete** load the row, revoke
the message (cancel and restart), and write the row in two or three transactions
with no guard but the primary key.

### How Scheduler V3 works

One **manager** keeps a queue of task ids, a table of running tasks and a table of
connected workers in memory, under one lock, and writes the first two to a state
file every few seconds. Its **dispatch thread** takes the first queued task that
is not cooling down, asks the database whether it exists, records it for an idle
worker, claims the row (`pending` to `running`, `lease_epoch` + 1) and sends RUN.
A runner pod's **control process** keeps one TCP connection to the manager; its
net thread obeys RUN and CANCEL, its reaper reports the end of its one **task
process**, a third thread sends heartbeats that name the task in hand. The task
process stores its own result, guarded by dispatcher and epoch.

The manager has one **handler** per connection, which registers workers and
applies TASK_STATE and HEARTBEAT; a **reconcile thread** that times out workers
and takes back tasks whose worker does not report them; and a **database
reconcile thread** that reads the running rows, adopts those some worker reports,
resets those nobody serves, heals rows whose task is queued, and queues pending
rows the manager does not know. Too many losses in a row turn into a soft retry
with a cooldown, and too many of those into a failure. API handlers write the row
and then tell the manager.

### How Scheduler V2 works

One **manager** loop takes back rows whose lease has run out (it reads them,
removes their task directories, then writes them by primary key) and leases
pending rows to registered runner pods: owner, `lease_epoch` + 1, lease. A runner
**polls** the database for a row it owns, enters it into a table in memory and
starts a thread for it. The thread judges and takes `task.execution.lock`, saves
the configuration, runs the pipeline under a supervisor that renews the lease,
and stores the result where owner and epoch are its own. Its `finally` clause
drops the entry and clears the lock.

### How one run works

`Orchestrator.execute` runs the stages in order in one thread. S0 filters the
files of the target, by script or agent; some small stages look at them again; S1
has an agent put them into modules while judges vote, round after round; S1.5 has
agents filter the modules again; S2 (`RefineStage`) splits and merges modules with
LLM worker threads and one commit thread; S3 has a thread of a pool for each
module, each with its own rounds; S4 checks that every module has its report and
writes the final one. Files are handed on as lists in the workspace that agents
edit by themselves, so the code repairs what they did: backups, snapshots,
deletions put together in `deleted.list`, files the judges want back.
`max_rounds_exceeded_action` and `continue_on_module_failure` decide what a module
without a passed round means, `PiFatalError` and `StageError` which errors end the
run; every way out writes its own report, status and `output/flag`. **Super-fast
mode** has other stages and no judges.

A call of an agent (`run_agent`) is four loops inside each other: recovery from an
overflowing context, restarts of a process that crashed, retries of API errors,
and the reading of the output of one process in a process group of its own,
watched by a thread that sees cancellations.

When a run fails, a **notifier** thread posts the task to the **failure
debugger**, up to three times. The request writes a row and puts the task into a
queue in memory; the debugger's one thread has an agent write a report.

### Hard behaviours

* Interleaving: seven writers of one row (claim, begin, heartbeat, result/error,
  pump, stale scan, API handlers), each reading in one transaction and writing
  in another; SQLAlchemy then writes only the columns that changed.
* Delivery: a message may be delivered twice while its first delivery is still
  executing (`acks_late=True`), or vanish with Redis, which keeps nothing on disk.
* Crashes: a child may die at any point, also by a revoke with SIGKILL; a
  dispatcher may restart at any point.
* Time: leases (300 s), heartbeat age (120 s), late `inspect` replies.
* Partial failure: a transaction of the pump, the result or the error path may
  raise, and several callers swallow the exception.
* V3: seven threads share a lock that none of them holds from its decision to its
  effect, since every database access and most sends lie outside; messages carry
  no epoch upwards, so late ones are taken for new ones; a broken connection
  loses a suffix of what was sent, and each side learns of it at its own time.
* Agents: an agent may fail, hang, be cancelled, answer without a verdict, or move
  and lose files; what it says decides which of four loops goes on.
* Threads of a run: S2 and S3 threads, the judges and the main thread share the
  context, the queues and the workspace; errors of threads are collected and
  raised, passed over, or logged.
* Shared files: `run/` and `output/` of a task are cleaned and replaced by pods
  that may or may not own the task; the commit thread of stage 2 reads, rewrites and
  removes lists while agents and workers use them, without a lock.
* Single database faults: a `refresh` or a handler's own query that raises leaves a
  row as it is, and the thread that would have gone on with it is idle.

### What makes each part correct

* Dispatcher: a published task is served or published again; an orphan is reset;
  a task that is not running is not touched.
* Worker: only the last claimant of a task records its result; a live lease is
  respected; one pod runs a task at a time and owns its files; a child leaves
  nothing running behind.
* API: a cancelled, finished or deleted task does not come back by itself.
* Scheduler V3: a task is in the queue or in the running table and not lost by a
  disconnect; a worker runs one task; a message of an earlier dispatch does not
  end a later one; retries are bounded.
* Execution lock: one holder per task; only a stale lock is cleared.
* V2: one live lease per task; an assignment of an older epoch has no effect.
* Pipeline: no file of the target vanishes; a fatal error fails the run; every end
  has its report; a cancelled run ends.
* Stage 2: splits, merges, recoveries and commits lose no file that an agent has not
  dropped, except where a write meets what it has not read; the stage passes only
  after all commits.
* Agent runner: no process is left or overlaps the next one of its session; a
  cancelled call returns; a call whose agent works returns.
* Failure debugger: a report that was asked for is written or fails.

## 2. Plan

Most important first; each stage is a detailed module, an abstract one where a
promise can be stated, an MC module with runs, and then proofs.

1. **CeleryExec / TaskClaim** (modelled, checked, proved): the row's life on the
   Celery path.
2. **ControlPlane** = **SchedulerV3** + **WorkerControl** over **ControlNet**,
   abstract specification **TaskDispatch** (modelled, checked, proved): manager and
   runners over TCP, with disconnects, late messages, the reconcile threads,
   restarts.
3. **Leases** (modelled, checked, proved): V2 and the execution lock, which share
   the executions.
4. **Pipeline** (modelled, checked, proved): stages, rounds, errors, files, ends.
5. **Refine** (modelled, checked, proved): the threads of stage 2.
6. **AgentCall** (modelled, checked, proved).
7. **FailureDebug** (modelled, checked, proved).
8. What would come next: the composition of `Pipeline` with `AgentCall` (the
   answers of a call as an abstract specification of it).

## 3. Modules

| Module | What it is |
|---|---|
| `CeleryExec` | the Celery execution path: state, one action per transaction, queue operation or change of the shared files; properties; mutated definitions used to test the properties |
| `TaskClaim` | abstract specification of what that path promises about a task's status and claimant |
| `MCCeleryExec` | budgets of faults and the symmetry for TLC |
| `ControlNet` | what the V3 manager and runners share: rows, connections, messages, and what each writer makes of a row |
| `SchedulerV3` | the manager: one action per section under its lock, per transaction and per send |
| `WorkerControl` | the control processes of the runner pods and their task processes |
| `ControlPlane` | both together, with time, the network and the API; the V3 properties |
| `TaskDispatch` | abstract specification of what the V3 control plane promises |
| `MCControlPlane` | budgets and symmetry for TLC |
| `Leases` | Scheduler V2: manager, runner pods, executions, the lock file |
| `Pipeline` | one run of the orchestrator with all its stages, and super-fast mode |
| `Refine` | the inside of stage 2 |
| `AgentCall` | one call of an agent |
| `FailureDebug` | the failure debugger and its notifiers |
| `MCLeases`, `MCPipeline`, `MCRefine`, `MCAgentCall`, `MCFailureDebug` | values and symmetry for TLC |
| `CeleryExecProofs`, `ControlPlaneProofs`, `ControlPlaneImplements`, `LeasesProofs`, `PipelineProofs`, `RefineProofs`, `AgentCallProofs`, `FailureDebugProofs` | theorems about the component and their proofs |

Operators with a comment `Mutant` are definitions of the code with a plausible
error put in; no specification uses them, they test that the properties bite.

### State of CeleryExec

| Variable | In the code |
|---|---|
| `row` | the columns of `app_sa_task` some guard reads: `status`, `is_deleted`, `celery_task_id` (`cid`), `execution_owner_id` (`owner`), `execution_epoch` (`epoch`), `control_version` (`cv`), `execution_lease_until` (`lease`), `execution_heartbeat_at` (`hb`), `dispatcher_instance_id` (`disp`), `lease_epoch` (`lepoch`) |
| `queue` | messages in the Redis queue `sa` that no worker holds |
| `published`, `revoked` | Celery ids given out, and revoked |
| `child` | the prefork child of each pod: where it is in `run_sa_task`, its claim, the row object it loaded, whether its heartbeat thread runs, whether its orchestrator was told to stop, how its pipeline ended |
| `artifacts` | the pod whose files `run/` and `output/` of the task hold |
| `pump`, `scan` | the two dispatcher threads between their transactions |
| `req` | API handlers between their transactions |
| `budget` | how many faults, calls and scan rounds are left |
| `claimant` | history variable: the last pod whose claim succeeded |

Times are three values, not clocks: a lease is absent, live or expired, a
heartbeat absent, fresh or stale. `HeartbeatAges` and `LeaseExpires` let them age
at any moment, a lease only after its heartbeat since 300 s > 120 s and both
start together. A beating row ages only against the budget `stall`.

A SQLAlchemy object that is loaded, changed and committed later writes the
columns that differ from what was loaded (`Flush`). Bulk updates with a WHERE
clause (`ClaimCas`, `Begin`, `RenewLease`, `PersistResult`, `CommitTerminal`,
`Recover`, the statements of `startup_reset`) are atomic compare-and-swaps.

### Actions of CeleryExec and the code

| Actions | Code |
|---|---|
| `Receive`, `DiscardRevoked`, `Redeliver` | Celery and Redis: external, from how the code uses them |
| `ClaimRead`, `ClaimCas`, `ClaimReload` | `claim_specific_task`: candidate query, UPDATE, attribute reload after the commit |
| `CleanArtifacts`, `SetupWorkspace`, `Archive` | `_clean_task_artifacts`, `setup_local_workspace`, `finalize_workspace` |
| `Begin`, `RenewLease` | `begin_execution_if_owner`, `renew_lease` + `still_owner` in the heartbeat thread |
| `Prepare`, `Snapshot`, `Supervise` | `_prepare_task_execution`, `save_resolved_config_snapshot`, `_supervise_running_task` |
| `RunCompletes`, `RunStopped` | the end of `Orchestrator.execute`, by itself or after `stop()` |
| `PersistResult`, `ErrorRead`, `ErrorWrite` | `_persist_task_result`, `_persist_task_error` + `finalize_task_error` |
| `CommitTerminal`, `Recover` | the `finally` clause of `run_sa_task` |
| `Crash`, `Terminate` | a killed child (`task_reject_on_worker_lost=False`), a revoke with SIGKILL |
| `PumpQuery`, `PumpPublish`, `PumpRecord`, `PumpAbort` | `_pump_once` |
| `ScanInspect`, `ScanQuery`, `ScanFlush` | `_stale_once` |
| `DispatcherRestart` | `_startup_reset` in a new process, with or without the old Redis |
| `Cancel*`, `Restart*`, `Delete*`, `Refresh` | `cancel_task`, `restart_task`, `delete_task`, each commit and the refresh after it |

### State of the V3 modules

| Variable | In the code |
|---|---|
| `row` | `status`, `is_deleted`, `dispatcher_instance_id` (`disp`), `lease_epoch` (`epoch`), age of `dispatch_started_at` |
| `chan` | a TCP connection: its worker, whether packets still flow, the messages under way each way |
| `queue`, `run`, `slot` | `_queue`, `_running` (worker, and whether the grace period since `started_ts` is over), `_workers` |
| `counts`, `soft`, `cooling` | `_requeue_counts`, `_orphan_soft_retries`, `_orphan_cooldown_until` |
| `dispatch`, `loop`, `serve` | the locals that the dispatch thread, the two reconcile threads and a handler carry from one section to the next |
| `saved` | the state file |
| `wc` | a control process: `_sock`, `_current`, and where its net thread is |
| `procs` | task processes, from `Popen` to the reaper |
| `api` | the API handler between its commits and its call of the manager |
| `budget` | what is left of faults, calls and claims |
| `given`, `begun`, `refusals` | history: claims, processes started for them, requeues after refusals |

A `WorkerConn` object is told apart from its successor by the connection it was
made for (`slot[w].obj`): the dispatch thread keeps the object it picked, handlers
look theirs up by worker id. Clocks are again few values: a grace period is over
or not, a worker is 0, 1 or 4 time-outs behind. Time passes freely where nothing
is on its way; while a message, a thread or a process is (`InTransit`), a time-out
is a fault of the budgets `late` and `slow`, since 2 s polls race periods of 30 s
and more. A heartbeat is one step (`Heartbeat`), possible when nothing sent before
it is still under way: a heartbeat that is delivered late equals one not sent.

### Actions of the V3 modules and the code

| Actions | Code |
|---|---|
| `DispatchPick`, `DispatchAssign`, `DispatchClaim`, `DispatchSend`, `DispatchUndo` | `_dispatch_once`: two lock sections, `_claim_task`, `_send`, the section after a failure |
| `ReconcileScan`, `LoopRequeue`, `LoopAppend`, `MemoryLoopEnds` | `_reconcile_once` |
| `LoopSoft`, `LoopFail`, `LoopCool`, `CooldownEnds` | `_soft_requeue_or_fail`: the reset or the read of the row, the write that ends it, the lock section |
| `DbQuery`, `DbClassify`, `LoopRequeue`, `LoopAppend`, `DbHeal`, `DbRepair`, `DbEnqueue` | `_db_reconcile_once` and the repair of pending rows |
| `ServeHello`, `OnHeartbeat`, `ServeState`, `ServeRequeue`, `ServeRequeued`, `ServeFinalize`, `ServeWrite`, `ServeFinalized`, `ServeEnd` | `_serve_worker`, `_register_worker`, `_on_heartbeat`, `_on_task_state`, `_on_worker_disconnect` |
| `Submit`, `CancelQueued`, `CancelRunning`, `Restart` | `submit`, `cancel`, `restart` of the manager |
| `Persist`, `ManagerRestart` | `_save_state`; `start` in a new process |
| `Connect`, `Disconnect`, `OnRun`, `Spawn`, `OnCancel`, `Kill` | `_net_loop`, `_connect`, `_on_run`, `_on_cancel` |
| `Reap` | `_reaper_loop` |
| `ProcStart`, `ProcEnds`, `ProcPersist`, `ProcError`, `ProcWrite` | `TaskRunner.execute_task` inside `run_task.py`; the error path reads the row in one step and writes it in another |
| `WorkerCrash`, `ProcDies`, `Breaks`, `GetsLate`, `RunAges`, `RowAges` | a pod, a process, a connection that fails; time |
| `ApiCancel`, `ApiRestart`, `ApiDelete`, `ApiSubmit` | `cancel_task`, `restart_task`, `delete_task`, `create_task`: the row is loaded |
| `ApiStop`, `ApiReset`, `ApiMark` | their commits, by primary key |
| `ApiNotify*`, `ApiFinalize` | `_v3_notify_scheduler` of `app/api/tasks.py` and what the manager does for it |

**Reads and blind writes.** Wherever the code reads a row without a lock, decides by
its status, and writes it by its key, the read and the write are two steps with
everything else between them: the end of a task by a report (`ServeFinalize`,
`ServeWrite`), by a reconcile thread (`LoopSoft`, `LoopFail`), by the error path of a
process (`ProcError`, `ProcWrite`), by a cancel of the manager (`ApiNotifyCancel`,
`ApiFinalize`) and by API handlers (`ApiCancel`, `ApiStop` and so on). A cancel of a
queued task is made under the manager's lock from its look at the queue to the end of
its transaction (`Locked`); only steps that need no lock (`LockFree`) come in between.
Two things are one step for good reason: `Requeued` does not look at the row before
it writes it, and a claim is a compare-and-swap, which fails when the row it read
has changed. The existence query of a dispatch is merged with the lock section after
it, with all three answers (there is a row, there is none, and a query that raises,
which is taken for a row): the section does not look at the row, so a deletion that
falls between the two has the effect of one just after them.

A handler that ends marks its worker offline by id, and leaves alone a slot whose
HELLO it never got. `Kill` takes the process off at once: `_terminate_proc` may give up
on a SIGKILL-ed process after its time-out, but the process is dead for its task
then, and the reaper finds it.

### Leases and the code

`row` is the task's row as V2 guards read it (`status`, `dispatcher_instance_id`,
`lease_epoch`, and whether the lease is live), `lock` the lock file (pod, epoch, and
whether boot id and process are those of now), `entry` the table
`_running_task_epochs` of each pod, `exec` the executions (a thread of
`execute_task` and its supervisor), `manager` and `stale` the sweep between its
read, its removal of directories and its commit.

| Actions | Code |
|---|---|
| `Claim`, `SweepRead`, `SweepClean`, `SweepCommit`, `SweepFails` | `SchedulerService._dispatch_db` with `claim_task_lease`; `_reap_stale_tasks` with `recover_stale_running_tasks` |
| `Poll` | `_runner_assignment_loop`, `_run_task_locally` |
| `Check`, `Lock`, `Unlink`, `Save` | `_prepare_task_execution`, `_acquire_execution_lock`, `save_resolved_config_snapshot` |
| `Work`, `Result`, `Error`, `ErrorCommit`, `Post`, `Clear`, `Supervise` | the rest of `execute_task`, with `_persist_task_result`, `_persist_task_error`, the `finally` clause and `_supervise_running_task` |
| `Cancel`, `Restart` | `cancel_task`, `restart_task`, one transaction each here |
| `Expire`, `Crash` | time, a pod's container |

An empty lock file (created, not yet filled) is judged as one of another owner is,
so creation and filling are one step.

### Pipeline and the code

| Variable | In the code |
|---|---|
| `cfg` | what `TaskConfig` says about engine, votes, rounds, forced passes, soft failures, optional stages, super-fast mode |
| `stage`, `round` | where `Pipeline.run` is in its stages, and the loop variable of that stage |
| `filtered`, `listed`, `saved` | `ctx.filtered_files`, `filtered_files.txt`, `.filtered_backup.txt` |
| `list`, `trash`, `recover`, `gone`, `backup` | `modules/<m>/files.list`, `deleted/`, `recover/`, `deleted.list`, `modules_pre_filter_backup/` |
| `report`, `thread`, `errors` | `module_report.md` of each module, the pool's threads, `s3_errors` |
| `soft`, `completed`, `failures` | `soft_failed_modules`, and the rounds on record in the evaluation |
| `outcome`, `flag`, `final` | `result.status`, `output/flag`, a `final_report.md` |
| `cancelled`, `late` | `cancel_event`, and the calls that were on their way when it was set |
| `fatal`, `swallowed`, `classified` | history: a fatal error was raised; one was swallowed by the file summaries of stage 2; the files with a module when S1.5 began |

Stage 2 may do to a file whatever module `Refine` shows it to do (`Scattered`): one
file, kept or never put anywhere, is afterwards in any of `Fates`: nowhere, in
another module, in `deleted.list`, or in both. `enforce_filter_constraint` may follow.
Agents that summarise files swallow fatal errors (`Swallows`).

A call of an agent is a step, taken when it returns; `Answers` says that a call that
begins after the cancellation fails, and one under way may still answer. An agent
writes any list its prompt lets it write. The score and the words of a verdict are
parsed as `parse_eval_md` does (`Parsed`), and `Voted` is `check_voting`.

| Actions | Code |
|---|---|
| `Start`, `SyncFails`, `Finish`, `Cancel`, `Raise` | `Orchestrator.execute`, `stop`, `abort`, its `except` clauses |
| `AgentFilter`, `ScriptFilter`, `Identify`, `Unknown`, `Explore`, `Prepare`, `Preread`, `Validate` | the stages of S0 |
| `ClassifySkips`, `Classify`, `Check` | `ClassifyStage.execute`: a worker's call, the judges' calls and what follows |
| `SiftSkips`, `Sift`, `Review` | `SecurityFocusFilterStage.execute` |
| `Refine` | `RefineStage.execute`, by its effect on the lists (`Scattered`) and its ends |
| `Begin`, `Write`, `Judge`, `Join` | `AnalyseStage._analyse_module` in each thread, and `execute`, which waits for them |
| `Complete`, `Redo`, `Report` | `CompletenessCheckStage`, `FinalReportStage` |
| `Sort`, `Recut`, `Rate`, `FastJoin` | `super_fast_mode.py` |

### Refine and the code

The files of the workspace (`list`, `snap`, `split`, `into`, `dropped`, `gone`), the
queues and sets of `RefineStage`, and the position of each thread. None of these files
has a lock: each read and each write of the commit thread is a step, with agents,
judges and workers at work on the same module between them. A commit that is under
way keeps what it has read in `committer`.

| Actions | Code |
|---|---|
| `Take`, `Prepare`, `Requeue`, `Leave` | `_llm_worker`, with the removal of a module whose list is empty (`Removed`) |
| `Propose`, `Judge`, `AgentFails` | `_refine_one`: the worker's call, the vote with what follows, a call that raises |
| `Fetch`, `ReadDrafts`, `Validate` | `_commit_one_module`: snapshot and deleted files, drafts, the comparison |
| `DeliverRead`, `DeliverWrite` | the list of each child and merge target, read and written |
| `ReadParent`, `WriteParent`, `Clean` | the parent's list, read again and written or removed; the drafts removed |
| `Announce` | what `_commit_worker` queues again |
| `Join`, `StopWorkers`, `StopCommitter`, `Collect`, `CheckAll` | `execute` and `_global_completeness_check` with `enforce_filter_constraint`, whose reclassification may raise |

A plan of an agent gives each file it has read a place (`Places`): it stays, is listed
for the parent as a child of itself (`retain`), goes to a child, a merge target or
`deleted/`, or is lost. A plan may rewrite the list from what the agent read earlier.
`MaxPlans` bounds the plans that change something. An agent's failure leaves what it
wrote and fails the stage, or is passed over under `continue_on_module_failure`.
`lost` and `torn` are history: the files an agent dropped, and those that a write of the
stage itself took from their last place.

### AgentCall and the code

`at` is the place of the calling thread in the four loops of `runner.py`: `Preflight`,
`CompactStart`, `CompactEnd`, `Answer` (`_run_with_context_overflow_recovery`,
`_run_compact_command`), `PiTop`,
`PiLayer`, `PiCrash`, `PiSleep` (`_run_with_pi_retry`), `Spawn`, `Stuck`, `ReadError`,
`Stop`, `Reap`, `Classify`, `Sleep` (`_run_with_api_retry`). `CancelKill` is the
monitor thread, `Say`, `Quiet`, `Exit` are pi, `group` is its process group: `leaked`
is a group whose leader has exited while a child lives. `n` are the counters of the
retries; a counter that has a limit is counted up to one past it. `SetupFails` is an
exception between `Popen` and the `try` with the clean-up: the process lives on,
listed or not, and nobody will kill it. `Kills` is `terminate_tree`, which waits some
seconds and does not look again. Both are remembered as `stray`.

### FailureDebug and the code

`notifier` and `request` are the threads of `_dispatch_failure_debug` and the requests
they sent, which go on when the notifier gives them up after 10 s; `row`, `queue`
and `worker` belong to `FailureDebugService`, `up` is the start of its process.
`Check`, `Post`, `Answer` are the notifier; `SubmitReads`, `SubmitWrites`,
`SubmitFails`, `SubmitQueues` are `submit_failure_debug`; `Boot`, `Sweep`, `Enqueue`
the start; `Take`, `Begin`, `Refresh`, `Collect`, `Work`, `Store`, `Handle` the worker
thread; `Fails`, `Restart`, `DeleteReport` tasks and users. Every transaction of the
service may raise, also the refresh after the commit of `running`, and the query and
commit of the handler that follows an error of the agent (`Drop`); `stranded` remembers
the task until the service takes it up again. The worker updates the row by its id: a
row deleted and made again is another one (`holds`), whose update fails, and the handler
then finds the new row by its task. `Bound` is whether the service has a session at
all: in the role `all` the module is imported before `init_db` and has none.

## 4. Runs

Every behaviour of the Celery and V3 runs starts with one *budget* out of a set: how
often each fault and each call may still happen. A run with several budgets checks
the union of what they allow, not their combination, which would be out of reach.
The other runs bound faults by a constant. `CHECK_DEADLOCK FALSE` is set where the
bounded system stops (all budgets spent, a run over); `agent` and `refine` have a
stuttering step for their end instead, and check that there is no other deadlock.

### Celery path

One task and two pods: every guard of the path compares columns of one row, tasks
share nothing but the queue and the pods, and a second execution of the *same*
task is what every hazard needs. Two pods are a holder and a rival; a third adds
no new pair. `MaxPublish` is 1 where the second execution comes from a redelivery
and 2 where it comes from a new message.

| Run | Budgets | Shows |
|---|---|---|
| `celery_faults` | a crash, a redelivery and a scan; a failing transaction and a redelivery; an API call and a failing transaction; an API call and a scan; a stall, a redelivery and a scan; all four endings | `TypeOK`, `ResultByClaimant`, `GuardedWritesKeepTerminal`, `NoLiveTakeover`, `OrphanedByKillOnly`, `ImplementsTaskClaim` |
| `celery_messages` | two messages, with an API call; or with a dispatcher restart and a scan | `ImplementsTaskClaim` |
| `celery_liveness` | a crash, scans as needed, fairness | `OrphanIsRecovered`, `SupersededStops` |
| `stale_error` | a crash, a redelivery and a scan | `OnlyClaimantFails` is violated, see below |

`early` bounds scan rounds that start while nothing is orphaned; rounds that find
work are bounded by `scan`, and in `celery_liveness` that bound (4) never binds: 3
gives the same states.

### Scheduler V3

A claim is a dispatch that reached the database; two of them are an old and a new
run of a task, which is what late messages confuse. Two connections are an old
and a new one of the same runner. `MaxRequeue` (3 by default in the code) is 1.

| Run | Instance | Budgets | Shows |
|---|---|---|---|
| `v3_tasks` | 2 tasks, 2 runners | a process dies, a spawn fails | `TypeOK`, `QueueDistinct`, `ImplementsTaskDispatch` |
| `v3_network` | 1 task, 1 runner, 2 connections | a connection breaks; a heartbeat and a grace period run out early; pairs of cancel, restart, delete, submit; a late heartbeat and a submit | `OneProcess`, `ImplementsTaskDispatch` |
| `v3_recovery` | 1 task, 1 runner, 2 connections, fairness | a process dies, a spawn fails, a transaction raises; the user restarts the task; the user cancels or deletes it and a transaction raises; the manager restarts, or the runner does; the last four with one claim | `OrphanIsReset`, `PendingIsQueued`, `WorkerIsReleased` |

Every task starts pending or cancelled, so the runs with two tasks include those
where one of them gets both claims. One fault of a kind is enough for what the
properties are about: each forbids something that one fault and one interleaving
would produce, and the mutants of the code are all found within it.

### Scheduler V2, pipeline, agents, failure debugger

| Run | Instance | Shows |
|---|---|---|
| `leases` | 1 task, 2 runner pods, 2 executions at a time, 2 claims, 1 fault | `TypeOK`, `OnePerPod`, `FencedByEpoch`, `SupersededEnds`, `OrphanLeaves` |
| `pipeline` | 2 files, 2 modules, 2 judges, 2 threads, rounds up to 2, four configurations | `TypeOK`, `EndsWithReport`, `FatalFails`, `FilesAccounted`, `CancelEnds` |
| `refine` | 2 files, 3 modules (one still to be made), 2 workers, 2 rounds, 2 plans, soft failures, all `Places` | `TypeOK`, `NothingLost`, `PassedIsCommitted` |
| `agent` | every limit of a retry 1, crashes 2, pi and fatal retries without limit | `TypeOK`, `NothingLeft`, `OneLateProcess`, `NoTwoProcesses`, `CancelReturns`, `ReturnsOnceHealthy` |
| `debug` | 1 task, 2 failures, 2 posts each and 3 in all, 1 fault | `RunningIsWorked`, `PendingIsCarried`, `ReportEnds` |

* `leases`: executions of different tasks share only the pods' tables, and a second
  execution of the same task, on the same or the other pod, is what the epoch is
  for.
* `pipeline`: the configurations are a majority vote without a limit of rounds and
  with soft failures, a unanimous vote with a strict limit and all optional reading,
  forced passes behind the agent engine, and super-fast mode; the first has the
  completeness check. Two files and two modules let a file move, be deleted, be
  recovered and be the only one of its module; two judges disagree; two threads fail
  in different ways at once. Rounds past the second repeat the first two: nothing
  but the limits looks at their number, and `Lasting` has none. `Fates` are the kinds
  of places a file may have after stage 2: none, one, deleted, and both at once.
* `refine`: two plans are a draft under way to the commit thread while another
  worker drafts against lists that the commit changes, and the drafts of two rounds of
  one module. The path of one file is a part of that of the other (`Paths`), which is
  how the comparison with the snapshot can be deceived. The workers are
  interchangeable; the files are not, because of their paths.
* `agent`: each limit is reached and passed; without a limit a counter stays. The
  activation of a session is not tried again (`ActivationMax` 0).
* `debug`: the second failure is one after a restart of the task, three posts are
  one that is repeated while its first request is still under way, and a third.

Distinct states, to see what a run costs: `celery_faults` 1.8 million, `v3_tasks` 0.7,
`v3_network` 2.3 (the longest, between three and four minutes), `v3_recovery` 0.15
with liveness, `refine` 1.4, `pipeline` 0.8, `agent` 0.6, `debug` 0.5, `leases` 0.08.

### Disagreements between code and comments

One run expects a violation; it is a `finding` in `PROJECT.json` with the sentence
of the repository that the code does not keep: in `stale_error`, pod 1 is superseded
by pod 2 and its pipeline raises; `finalize_task_error` changes the row object, then
sees the wrong epoch and returns False, and its caller commits the session: pod 2's
running task becomes an error.

Other statements one might expect were refuted in the same instances. Their
definitions are kept beside the properties; each can be checked by naming it in the
configuration given.

| Definition | Configuration | What the trace shows |
|---|---|---|
| `PassedMeansPassed` | `celery_faults` | the pipeline raises, storing the error fails and is swallowed, and `run_sa_task`, for which the run ended normally, stores passed |
| `RunNotAbandoned`, the docstring at `execution_coordinator.py:244` | `celery_faults` | the first commit of a restart makes the row pending; a pod claims it and begins; the second commit writes the same epoch and a new control version and leaves the pod's name in the owner columns; the run fails, and so does the transaction that stores the error; `recover_running_task_for_cleanup` compares the control version with that of the claim and passes over the row, which runs until its lease is over and a scan comes by |
| `NoDoubleRun`, `ActiveRunKeepsArtifacts` | `celery_faults` | setup outlasts the lease, a redelivery claims the task and both pods are in the pipeline until the supervisor of the first notices; the second delivery cleans or replaces the files of the first |
| `StaleResetsOnlyRunning` | `celery_faults` | the scan reads a running row, a user cancels the task, the scan's write makes it pending again |
| `PublishedIsServed` | `celery_liveness` | the child dies between claim and begin; the row is pending with a Celery id and no loop looks at such rows |
| `HealsOnlyStale` | `v3_tasks` | while dispatch asks the database about a task it took off the queue, the database thread queues it again; the second dispatch fails its claim and pops the record of the first, whose row is then reset although its process lives |
| `ReconcileKeepsResults` | `v3_tasks` | the database thread reads a running row; the task passes and is reported; the thread adopts it for the worker whose last heartbeat still names it; a grace period later the other thread finds it lost and resets the passed row |
| `ReportsEndNoOtherRun` | `v3_network` | a task is cancelled and restarted; the new run is dispatched, then the answer to the CANCEL for the old one ends it |
| `OnlineIsReachable` | `v3_network` | the handler of the old connection ends after the new one has registered, and takes its socket away by worker id; the next heartbeat makes the worker online without a socket |
| `ControlSurvives` | `v3_network` | the peer is gone when a command is answered; the failed send drops the reader, and the net thread dies of an `AttributeError` it does not catch: the runner never connects again |
| `FinalizesOnce`, the comment "idempotent" at `task_service.py:2014` | `v3_network` | a report reads the row as running; the process stores its result, or a user cancels; the write of the report overwrites the status that the row has got since |
| `RefusalsBounded` | `v3_network`, with budgets of two refusals and three claims | the report of a refusal clears the counter before it is read |
| `OwnerHoldsLock` | `leases` | the sweep has read a row under an expired lease, the execution goes on and renews it, the sweep removes the directory and the lock with it |
| `FinishedStays` | `leases` | the sweep has read the row; the execution starts late, passes, and the sweep's commit makes the row pending |
| `AnyOrphanLeaves` | `leases`, `MaxFaults = 2` | storing the error fails, and then the report of the clean-up: the pod's table keeps the entry, the pod polls no more, and the supervisor of the dead thread renews the lease for ever |
| `AnyFatalFails` | `pipeline` | the agents of the filter engine and those that summarise files in stage 2 are called under a handler of every exception (`s0_filter.py:107`, `helpers.py:1421`), `PiFatalError` included, and the task passes |
| `CancelledFails` | `pipeline` | only calls of agents notice a cancellation: a run that needs no more of them passes, and so may one whose module failures are passed over |
| `ListIsRestored` | `pipeline` | the agent engine leaves no `.filtered_backup.txt`, so what the Explore agent does to `filtered_files.txt` is not undone |
| `RecoveredIsKept` | `pipeline` | one judge wants a file back, the vote passes, and the file is deleted |
| `EveryModuleTold` | `pipeline` | a module has neither a report nor a failure on record in a task that passed: an exception in a thread of S2 or S3 of super-fast mode is only logged |
| `FastFatalFails`, `FastEndsWithReport`, `FastKeepsFiles` | `pipeline` | super-fast mode logs every exception of its threads, passes without any report, and drops the files an agent merges into other modules |
| `CommitsLoseNothing` | `refine` | a merge target's list is read, its agent deletes or recovers a file, and the list is written as it was; a draft that lists the parent as a child of itself replaces what came in after it; drafts that are newer than the commit are removed with it |
| `CommitKeepsSnapshot` | `refine` | an agent drops a file whose path is a part of that of a file in another module; the comparison looks for the path in the text of the lists (`s2_refine.py:203`, `206`) and finds it there. Or a retained parent replaces the list into which a judge gave a file back |
| `OneRefiner` | `refine` | a module that waits in the queue becomes the target of a merge and is queued again: two workers refine it at a time |
| `ChildrenAreRefined` | `refine` | `execute` waits for the LLM queue before it waits for the commits; a module queued by the last commit is refined by nobody |
| `ActiveIsNotStuck` | `agent` | the stuck timeout is measured by the age of the session file; a call without one is taken to be stuck whatever it says |
| `NoStray` | `agent` | an exception between `Popen` (`runner.py:1288`) and the `try` (1337) leaves a process that nobody kills; so does a process that outlives the waits of `terminate_tree` |
| `DoneIsAnswered` | `agent` | a process that ends with code 0 and no output counts as done |
| `RunningIsNeverLeft` | `debug` | the refresh after the commit of `running` raises, outside the handler; the row is running, the worker idle, and requests pass over the row until the next start |
| `TakenIsServed` | `debug`, `Bound = FALSE` | in the role `all` the service has no session (`failure_debug.py:27`): no row is swept, and the worker drops every entry |
| `DoneIsNotRepeated` | `debug` | a request has written its row, the startup queues it, then the request does too; the worker does not look whether the report is done |
| `DeletedStaysAway` | `debug` | the task is deleted while its entry is in the queue; the worker makes the row and the directory again |

A file lost by an agent under a forced pass stays lost, which
`prompts/workers/step2_refine.md` forbids the agent and `s2_refine.py:244` finds only
at a commit; `NothingLost` therefore leaves out what agents dropped.
`prompts/workers/step2_fine_refine.md:174` tells the agent that Python restores
`files.list` from the snapshot before a retry; `s2_refine.py:558` does not.

`StageEnds` holds with one plan and without symmetry (39,046 states); it is kept beside
the properties and not part of a run, since symmetry is unsound for liveness and two
plans without it are too many states.

## 5. Properties

* `ResultByClaimant`: a task passes or fails only by a step of its last claimant.
* `GuardedWritesKeepTerminal`: only the writers without a WHERE clause (the scan,
  the error path, API handlers) take a task out of a terminal status.
* `NoLiveTakeover`: the owner of a running row under a live lease is removed
  perhaps, but never replaced in the same step.
* `OrphanedByKillOnly`: a running row loses the child that serves it only when the
  child is killed or its last transaction raises, whatever else is redelivered,
  claimed again, swept or failed, in a task that no user has cancelled or restarted.
  Without this condition it is false (`RunNotAbandoned`, found while trying to prove it).
* `ImplementsTaskClaim`: status and claimant behave as `TaskClaim` says.
* `OrphanIsRecovered`, `SupersededStops`: liveness, below.

Scheduler V3:

* `QueueDistinct`: no task is in the queue twice, although four threads and the
  API append to it.
* `OneProcess`: a runner has at most one task process, whatever reaches it over
  however many connections.
* `ImplementsTaskDispatch`: only a waiting task is dispatched, no dispatch number
  is given twice, a process is started at most once for each and only by the
  chosen runner, and a task that is over gets another end only from a transaction
  that read it while it waited or ran. `TaskDispatch` calls these transactions `seen`;
  that they overwrite an end is `FinalizesOnce`, refuted above.
* `OrphanIsReset`: no row runs for ever without a process of its own.
* `PendingIsQueued`: no pending task stays out of queue and tables for ever.
* `WorkerIsReleased`: while its first connection lasts, no online worker counts for
  ever as busy with a task it has not got. (A pod that registers again between the
  finalizing of its last report and the popping of the record does.)

Scheduler V2:

* `OnePerPod`: no two executions overlap on a pod; the clean-up before a task kills
  all agents of the pod, so it relies on this.
* `FencedByEpoch`: executions of one task that overlap, on two pods or after a
  restart, have different epochs. The lock does not keep them apart, see above.
* `SupersededEnds`: an execution whose row has got another epoch or owner ends. It is
  what limits the overlap that `FencedByEpoch` allows.
* `OrphanLeaves`: a running row that nobody executes gets an execution or is taken
  back, unless its pod's table leaked.

Pipeline, stage 2, agent calls:

* `EndsWithReport`: every end but an exception out of `execute` has a final report
  (super-fast mode: if any module has one) and a flag that agrees with the status.
* `FatalFails`: a fatal error fails the task, whichever threads and modules fail with
  it and whatever is passed over; but for the agents of the filter engine and those
  that summarise files in stage 2 (`AnyFatalFails`), and super-fast mode.
* `FilesAccounted`: from S1.5 up to stage 2 every file that had a module is in a module, in the
  backup or in `deleted.list`, and none is both kept and deleted, whatever agents
  moved, judges recovered and rounds repeated.
* `CancelEnds`: a cancelled run ends, also without a limit of rounds.
* `NothingLost`: a file that no agent dropped is in a module, deleted, or in the hands
  of the commit thread, through splits, merges, recoveries and commits that meet
  drafts under way, unless an unlocked write took it from its last place. There are
  three kinds of these (`torn`): a write over a list that has changed since it was
  read; over what came in after the draft of a retained parent; the removal of drafts
  newer than the commit, or of a module that its drafts had emptied. No other step
  loses a file.
* `PassedIsCommitted`: the stage passes after all commits only.
* `NothingLeft`: a call that returned left nothing of the process it had in hand, and
  no entry in the table but that of a `stray`.
* `NoTwoProcesses`, `OneLateProcess`: a process starts when nothing of the one in hand
  before it lives; at most one starts after a cancellation.
* `CancelReturns`, `ReturnsOnceHealthy`: liveness, below.

Failure debugger:

* `RunningIsWorked`: after the sweep a row is running only while the worker has it.
* `PendingIsCarried`: a pending row is in the queue, in the worker's hands or about
  to be queued.
* `ReportEnds`: liveness: a report that was asked for ends.

The three leave out the tasks in `stranded`: one of the service's own transactions
raised and the row was left as it was. One such fault is enough (`RunningIsNeverLeft`);
what the properties say is that nothing else, no repeated or late post, no deletion, no
restart and no death of the process, leaves a row behind.

### Fairness

Weak fairness of receiving, of every step of a child, of its heartbeat and
supervisor threads, of the pump and the scan, of API handlers once started, and
of time for rows nobody renews. These are loops with a time-out and threads that
nothing blocks for ever. A *stopped* pipeline ends, since `Orchestrator.stop` sets
an event every agent call polls (`CancelEnds` and `CancelReturns` show what this
rests on); a healthy one need not, since an LLM run has no time limit. No fault and
no API call is fair. `PumpAbort` is a fault.

For V3, weak fairness of the manager's threads and handlers, of the net thread,
reaper and connection attempts of runners, of the storing steps of a task process,
of the ending of a pipeline that was told to stop, of an API call once started,
and of time for what nobody renews. Two things are strongly fair. `Heartbeat`
stands for a message that waits its turn behind others, which the model has as a
guard. And the rounds of the database thread (every 30 s) meet the dispatch thread
(every 2 s) between two dispatches again and again: without this a round could
fall into the window of a dispatch every single time, and a task whose claim fails
each time would not be healed. A pipeline that may run need not end.

`Leases`: weak fairness of the manager's sweep, claims and polls (loops with a
sleep), of threads and supervisors, of the lease of a row nobody renews, and of the
end of work that was stopped. `Pipeline`: the main thread and the threads of the
pool go on, and a call of an agent ends; that is what a cancelled call does
(`CancelReturns`), and `CancelEnds` speaks of no other. `AgentCall`: the thread's own
steps, the monitor of the cancellation, and the end of the output of a process; pi
speaks, exits or falls silent as it likes, and `ReturnsOnceHealthy` takes as its
premise that errors and silences stop and that the stuck timeout passes no more: a
call without a session file that takes longer is started again without limit.
`Refine`: every thread, every agent call.
`FailureDebug`: its pod is started again, its thread, the notifiers and requests go
on; users and faults are free.

## 6. Proofs

| Module | Theorem | Statement |
|---|---|---|
| `CeleryExecProofs` | `TypesHold` | `Spec => []TypeOK` |
| | `OwnerIsClaimant` | `Spec => [](TypeInv /\ Ownership)` |
| | `ResultsAreByClaimant` | `Spec => ResultByClaimant` |
| | `TerminalIsKept` | `Spec => GuardedWritesKeepTerminal` |
| | `LiveLeaseExcludes` | `Spec => NoLiveTakeover` |
| | `OrphansAreLeft` | `Spec => OrphanedByKillOnly` |
| | `Implements` | `Spec => ImplementsTaskClaim` |
| `ControlPlaneProofs` | `TypesHold` | `Spec => []TypeOK` |
| | `QueueHoldsOnce`, `OneProcessPerRunner` | `Spec => []QueueDistinct`, `Spec => []OneProcess` |
| `ControlPlaneImplements` | `ClaimsAreCarriedOnce` | `Spec => []ClaimInv` |
| | `Implements` | `Spec => ImplementsTaskDispatch` |
| `LeasesProofs` | `TypesHold` | `Spec => []TypeOK` |
| | `OneExecutionPerPod`, `EpochsFence` | `Spec => []OnePerPod`, `Spec => []FencedByEpoch` |
| `PipelineProofs` | `TypesHold` | `Spec => []TypeOK` |
| | `FatalErrorsFail`, `EveryEndIsReported` | `Spec => []FatalFails`, `Spec => []EndsWithReport` |
| | `NoFileVanishes` | `Spec => []FilesAccounted` |
| | `SoftFailuresAreTold` | `Spec => []SoftIsRecorded` |
| `RefineProofs` | `TypesHold` | `Spec => []TypeOK` |
| | `PassesWhenCommitted` | `Spec => []PassedIsCommitted` |
| | `FilesAreKept` | `Spec => []NothingLost`, if stage 1 has put every file into a module |
| `AgentCallProofs` | `TypesHold` | `Spec => []TypeOK` |
| | `ReturnLeavesNothing`, `OneProcessAtATime`, `OneProcessAfterCancel` | `Spec => []NothingLeft`, `Spec => NoTwoProcesses`, `Spec => []OneLateProcess` |
| `FailureDebugProofs` | `TypesHold` | `Spec => []TypeOK` |
| | `RunningRowsAreWorked`, `PendingRowsAreCarried` | `Spec => []RunningIsWorked`, `Spec => []PendingIsCarried` |

They hold for all values of the constants that satisfy the assumptions of each
module: `ConstantsAssumption`, `LeasesAssumption`, `PipelineAssumption`,
`RefineAssumption`, `AgentAssumption`, `DebugAssumption`, and for the control plane
`NetAssumption`, `SchedulerAssumption` and `OutcomesAssumption`; so for any numbers of tasks, pods, requests,
modules, threads, failures, claims and faults, and for limits of retries and rounds
that TLC could not reach.

### Celery path

**Typing.** `TypeOK` is not inductive: a child that has a task must have it in
`Tasks` and an id in `1 .. MaxPublish`, or `row[Task(w)]` means nothing.
`TypeInv` adds that (`Busy`). One lemma per group of actions (`WorkerTypes`,
`ClockTypes`, `DispatcherTypes`, `RequestTypes`), each on top of lemmas that the
writers of rows (`FlushType`, `WriterTypes`) keep rows rows.

**Ownership.** The properties are about the last claimant, but the guards compare
columns. `Ownership` closes the gap: `owner` and `disp` are NULL or the claimant.
It is inductive only because no blind writer ever writes a pod's name into these
columns, also not through `Flush`, where the loaded row may be older than the
claim; so the loaded rows of the scan, the requests and the error path are part of
the argument: their `new` value has NULL or the loaded value, and `Flush` then
writes NULL or leaves the present one (`FlushEffect`, `SaveEffect`).

**Effects.** `StepEffect` reduces every step of `Next` to one of five effects on
rows: a claim, a begin, an end by the claimant, a reset, a blind write, or
nothing. Each property, and the refinement (`EffectRefines`), follows from the
effect alone.

**Versions.** The guards of a commit and of the clean-up compare the control version
of the row with that of the claim. Only API handlers write one, and never 0
(`RowVersions`), and a child takes the version of the row it claims and keeps it
(`ChildVersions`). Hence the invariant `VersionsAgree`: a child has a version other
than 0 only if its row has. While the row's is 0, so is the child's, every
comparison of the clean-up of a row of its own succeeds, and the row is put back.

**Orphans.** A blind write of an old object could make a row running again.
`ReadRunning` excludes it: what the scan and the error path write over was running
when they read it, so the status they write is always a change, and never `running`.
With it and `VersionsAgree`, `OrphanStep` goes through the steps and finds that a served row loses
its child by a kill or by a failed last transaction alone.

### V3 control plane

`PlaneInv` is one conjunct for each group of variables. Besides types it says that
whoever is in the middle of something knows its task (`DispatchOK`, `LoopOK`, `ServeOK`,
`ControlOK`, `ApiOK`): a thread that has let go of the lock acts on what it noted
before. Epochs stay within their bound because each claim is paid for by the budget
(`RowsOK`). `QueueHoldsOnce` asks the same of the queue in the state file (`QueueOK`),
which a new manager appends to; each of the writers appends only what it has just seen
to be missing, which lemmas about the sequence operators turn into distinctness
(`JoinDistinct`, `CutDistinct`, `RemovedDistinct`, `OrderedDistinct`). `OneProcess` is
inductive only with `ProcessOK`: the process of a runner is that of `_current`, and there
is none while `on_run` spawns one; so `Reap`, `Kill` and a crash leave none behind.

The refinement (`Implements`) says that a process is started at most once for each
dispatch, and only by the runner chosen for it. The code keeps no record of this:
what has been given is known from the epochs (`CountOK`: the epoch of a row counts the
dispatches of its task, so a new one has a number never given), and a dispatch not
yet begun is carried by one command on a connection of its runner (`CommandsOK`), by
`on_run` of that runner (`SpawnOK`), by the dispatch thread before the send
(`SendOK`), or by nobody any more. `ConnOK` ties this to the network: whoever holds
the number of a connection holds one of the right worker, so a command does not reach
another one. `ClaimInv` is these five. Most steps neither give nor begin a dispatch;
they are reduced to what they do to the rows, the commands and the connections, group
of variables by group, and keep `ClaimInv` for that reason alone. The others are
proved one by one: `DispatchClaim` gives, `DispatchSend` and `OnRun` hand on, `Spawn`
begins, `Connect` opens a connection.

The other half of the refinement is that whoever ends a task has read it as active.
`ProcsKnow`, `LoopsKnow`, `ServesKnow` and `ApiKnows` say of each process, thread,
handler and call between its read and its write which task it has in hand; they make
up `Writing`, to which `TaskDispatch`'s `seen` is mapped. `SeenMoves` says that a task
gets into it only by a step that reads its row as active, and leaves it by the write
or by giving up.

### Leases

`LeaseInv` adds to `TypeOK`, `OnePerPod` and `FencedByEpoch`: epochs count claims
(`EpochsCounted`); an execution has an entry in its pod's table (`Entered`), which is
why its pod polls nothing; and the epoch of an execution was once the row's, and
its pod owns the row while it still is (`OfItsClaim`), which is why a later claim
has a greater one. All steps but `Claim` keep the epochs of rows (`RowsKept`) and all
but `Poll` keep the executions (`ExecsKept`), so the invariant is proved once for
each of these two abstractions, and once for the two actions.

### Pipeline

Three invariants, each for its own properties. `EndInv`: a fatal error that no handler
swallows is either in `s3_errors` or has failed the run already, and a run that is
about to end has its report; `RaiseEnds` is the lemma about every way an exception
takes. `FileInv`: from S1.5 to stage 2 modules share no file (`Parted`), and between
the copy and the end of S1.5 each module's list is that of the backup or empty
(`Copied`); so a file that leaves a module is in the backup until it is in
`deleted.list`. `SoftInv`: the thread of a module whose
failure was passed over is done, so that no later round of it can be recorded as
completed and take the failure out of the summary. `SoftIsRecorded` was checked in
the instance of `pipeline` too.

### Stage 2

`TypesHold` and `PassesWhenCommitted` hold for every choice of `Places`. The latter
rests on `StopIsLast`: the sentinel of the commit thread is queued when every worker
has ended, so no module comes after it and nobody is left to raise an error once it
is taken. `FilesAreKept` holds for every choice of `Places`, `PathIn` and limits, and
assumes only that stage 1 has put every file into a module (`Files = UNION` of
`Start`). Its invariant `FilesInv` adds to `NothingLost` what drafts and jobs are: what a
draft merges goes to another module (`MergesAway`); a file already delivered stays
away from the parent, in another module or deleted, unless it is `lost` or `torn`
(`DeliveredStays`); every delivery that is due has files, and what was deleted is on
record before the drafts are removed (`JobsHaveFiles`). With these, each write of the
commit thread is shown to take a file from its last place only if the writer did not
know of it, which is what `torn` records.

### Agent calls

`TypeOK` needs `Counted`, that the loops are left when a counter passes its limit.
`Reaped` is `NothingLeft` in every place: the process in hand lives only while its
output is read, a compaction runs, or it is being reaped, and an entry without one is
that of a `stray`. `OneLateProcess` needs `Quieted`:
after a process started late the stuck timeout cannot run out any more (the monitor
kills the process first), and every other way to a new process looks at the
cancellation.

### Failure debugger

`RunningIsWorked` is inductive once every transaction that may raise is known to put
its task into `stranded`, and once nothing but taking the task up again takes it out.
`PendingIsCarried` is not: a worker that found no row will insert one,
which fails if a request made it meanwhile. `Carried` leaves that worker out, and
holds because that request is still to queue the task. `PostsCounted` says that a
notifier's posts are numbered one after the other, so a new one touches no request
under way. No step but that of a request takes a task off its way (`WayKept`).

### Model-checked only

The liveness properties: `OrphanIsRecovered`, `SupersededStops`, `OrphanIsReset`,
`PendingIsQueued`, `WorkerIsReleased`, `SupersededEnds`, `OrphanLeaves`, `CancelEnds`, `CancelReturns`,
`ReturnsOnceHealthy`, `ReportEnds`. Fairness and ENABLED are out of the prover's reach,
as are induction over data and RECURSIVE operators, which these modules do not use.
Every safety property of a passing run is stated by a theorem.

## 7. What is left out

* `WORKER_ID` (`SA_POD_NAME` or `HOSTNAME`) and `WORKER_INSTANCE_ID` (`POD_NAME`)
  are taken to be one name, as under Kubernetes.
* The size of a pump round (20), the order of its rows, `sync_for_frontend`, the
  text of errors, events, statistics and timeline entries.
* The execution lock inside `_prepare_task_execution` of the Celery path appears as
  one more reason for it to raise: every lock of another boot or epoch is judged
  stale and cleared, so it excludes nobody there. Its own model is in `Leases`.
* Process groups of Celery children and what a SIGKILL leaves behind.
* V3: `_dispatch_failure_debug` (it is in `FailureDebug`), MSG_RESTART (the manager
  never sends it), the pod clean-up around a task, what `finalize_workspace` and
  `_remove_task_root_for_restart` do to files, a state file that cannot be
  written, a notification lost between API pod and manager pod, two API calls at
  once, and a Celery dispatcher that works on the same rows (the deployment runs
  one of the two).
* V3: `start` of a new manager is one step; its accept thread runs while the last
  part of it queues pending rows, which is also what the database thread does.
* V3: a runner that reports a task state the manager has no record for has no
  effect but on counters, as in the code; STARTING reports are not modelled.
* V2: the registry (any runner may be missing from it, or be the freshest),
  control switches, drain, the `all` role that dispatches to itself in memory,
  deletion; cancel and restart are one transaction each, from the load of the row to
  its commit. A supervisor that fails to renew three times stops its execution, which
  adds nothing: a renewal fails because the row is no longer its own, and that is what
  the supervisor looks at before each renewal.
  `TaskGuard.cleanup()` has no caller.
* Pipeline: the text of prompts, feedback and reports, scripts, path groups, file
  formats, the merging of details; self reflection, which adds a paragraph to
  prompts. A call of an agent is one step, with any answer; its inside is
  `AgentCall`, and the two are not composed. What raises in the last lines of
  `execute` (`orchestrator.py:427`, `457-460`) is an end `raised`; the copies of
  `final_report.md` in the workspace and in `output/` are one. In S1 and S1.5 all judges' calls of a
  round are one step: they write nothing but their own verdict and `recover/`.
* Refine: the summaries of files are ready at once; the paths of files matter only
  where the code looks for one inside another (`PathIn`).
* Agent calls: waits have no length; the number of lines and tokens. Of the exceptions
  that the reading of a live process may raise, the idle timeout is modelled;
  `runner.py:1459` treats any other one alike.
* Failure debugger: the text of reports, and a second debugger pod.
* Event log: `TaskRunner.on_event` runs in the threads of the pool; two of them may
  flush `event_buffer[last:]` at once, and a line be lost or written twice; the API
  appends to the same file. No status depends on these lines, and nothing reads
  them back but views, so a model would have nothing to relate them to.
* Agent clean-up beyond the table of running agents: it kills what the process table
  of the pod shows; `OnePerPod` is what it relies on.
* `_orchestrator_legacy.py` and the helpers no code calls (`commit_split_plan`,
  `restore_module_for_retry`, `fix_orphan_dirs_before_judge`,
  `build_s2_diagnose_report`, `archive_module_deletions`) are dead code.
* Everything `PROJECT.json` lists as not modelled, with its reason.
