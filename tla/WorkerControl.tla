--------------------------- MODULE WorkerControl ---------------------------
(***************************************************************************)
(* The runner pods of the V3 control plane: the control process that talks *)
(* to the manager, and the task processes it spawns.                       *)
(*                                                                         *)
(* Source: app/service/worker_control.py and run_task.py; inside a task    *)
(* process, TaskRunner.execute_task of task_runner.py, whose steps are     *)
(* modelled in detail in CeleryExec and here as one step per transaction   *)
(* that the manager can tell apart.                                        *)
(***************************************************************************)
EXTENDS ControlNet

CONSTANT Outcomes  \* how a pipeline may end, without raising

ASSUME OutcomesAssumption == Outcomes \subseteq {"passed", "failed", "error"}

\* A control process.  sock is its connection (0: self._sock is None).  pc is
\* where the net thread is: reading commands, inside on_run with _task_lock
\* held, inside on_cancel after it cleared _current, or dead.  task and epoch
\* are those of _current, or those on_run and on_cancel work on.
Control == [sock : 0 .. MaxConn, pc : {"ready", "spawn", "kill", "dead"},
            task : Tasks \cup {None}, epoch : 0 .. MaxClaims]
NewControl == [sock |-> 0, pc |-> "ready", task |-> None, epoch |-> 0]

\* A task process, from its start to the moment it is reaped.  error: it has read
\* the row it is to settle.  exit is the end with code 0: execute_task swallows
\* what its pipeline raises.
Process == [worker : Workers, task : Tasks, epoch : 1 .. MaxClaims,
            pc : {"start", "run", "persist", "raised", "error", "exit", "dead"}]

VARIABLES
  wc,     \* the control processes
  procs,  \* the task processes
  begun   \* history: the commands that were spawned, as <<task, epoch, worker>>

workers == <<wc, procs, begun>>

WorkerTypeOK ==
  /\ wc \in [Workers -> Control]
  /\ procs \subseteq Process
  /\ begun \subseteq (Tasks \X (1 .. MaxClaims) \X Workers)

WorkerInit ==
  /\ wc = [w \in Workers |-> NewControl]
  /\ procs = {}
  /\ begun = {}

-----------------------------------------------------------------------------
(* Helpers.                                                                *)

Current(w) == IF wc[w].pc \in {"ready", "dead"} THEN wc[w].task ELSE None

Opened == {c \in Conns : chan[c].worker # None}

\* The net thread has a command to handle.
Commanded(w) == wc[w].pc = "ready" /\ wc[w].sock # 0 /\ chan[wc[w].sock].down # <<>>
Command(w)   == Head(chan[wc[w].sock].down)

\* The next command is taken, and the answer m sent on the same connection.
Answer(c, m) ==
  chan' = [chan EXCEPT ![c].down = Tail(@),
                       ![c].up = IF chan[c].open THEN Append(@, m) ELSE @]

\* A command was handled that sent something, or during which the heartbeat
\* thread did: if the peer was gone, self._reader may be None now, on which the
\* next read raises an exception that net_loop does not catch.
Handled(w) ==
  IF wc[w].sock # 0 /\ ~ chan[wc[w].sock].open THEN {"ready", "dead"} ELSE {"ready"}

\* The row is still that of the process.
Fenced(p) ==
  LET r == row[p.task]
  IN  r.disp = p.worker /\ r.epoch = p.epoch

Becomes(p, pc) == procs' = (procs \ {p}) \cup {[p EXCEPT !.pc = pc]}

-----------------------------------------------------------------------------
(* The net thread.                                                         *)

Connect(w) ==
  LET c == Cardinality(Opened) + 1
  IN  /\ wc[w].pc = "ready" /\ wc[w].sock = 0 /\ c \in Conns
      /\ chan' = [chan EXCEPT ![c] = [worker |-> w, open |-> TRUE, up |-> <<Hello>>, down |-> <<>>]]
      /\ wc' = [wc EXCEPT ![w].sock = c]
      /\ UNCHANGED <<row, budget, procs, begun>>

\* The end of a broken connection is read.
Disconnect(w) ==
  LET c == wc[w].sock
  IN  /\ wc[w].pc = "ready" /\ c # 0 /\ ~ chan[c].open /\ chan[c].down = <<>>
      /\ wc' = [wc EXCEPT ![w].sock = 0]
      /\ UNCHANGED <<shared, procs, begun>>

\* on_run: a busy worker refuses; an idle one prepares under the task lock.
NeverBusy(w) == FALSE  \* mutant: _current is not looked at
Busy(w) == wc[w].task # None
OnRun(w) ==
  LET m == Command(w)
      c == wc[w].sock
  IN  /\ Commanded(w) /\ m.type = "run"
      /\ \/ /\ Busy(w)
            /\ Answer(c, State(m.task, "refused"))
            /\ \E pc \in Handled(w) : wc' = [wc EXCEPT ![w].pc = pc]
         \/ /\ ~ Busy(w)
            /\ chan' = [chan EXCEPT ![c].down = Tail(@)]
            /\ wc' = [wc EXCEPT ![w].pc = "spawn", ![w].task = m.task, ![w].epoch = m.epoch]
      /\ UNCHANGED <<row, budget, procs, begun>>

\* The process is spawned, or that fails.  Either way something is sent.
Spawn(w) ==
  LET t == wc[w].task
      e == wc[w].epoch
      c == wc[w].sock
  IN  /\ wc[w].pc = "spawn"
      /\ \E pc \in Handled(w) :
           \/ /\ procs' = procs \cup {[worker |-> w, task |-> t, epoch |-> e, pc |-> "start"]}
              /\ begun' = begun \cup {<<t, e, w>>}
              /\ wc' = [wc EXCEPT ![w].pc = pc]
              /\ UNCHANGED <<chan, budget>>
           \/ /\ Spend("refuse")
              /\ PushUp(c, State(t, "refused"))
              /\ wc' = [wc EXCEPT ![w] = [NewControl EXCEPT !.sock = c, !.pc = pc]]
              /\ UNCHANGED <<procs, begun>>
      /\ UNCHANGED row

\* on_cancel: not running here, or the process is to be killed.
OnCancel(w) ==
  LET m == Command(w)
      c == wc[w].sock
  IN  /\ Commanded(w) /\ m.type = "cancel"
      /\ \/ /\ wc[w].task # m.task
            /\ Answer(c, State(m.task, "cancelled"))
            /\ \E pc \in Handled(w) : wc' = [wc EXCEPT ![w].pc = pc]
         \/ /\ wc[w].task = m.task
            /\ chan' = [chan EXCEPT ![c].down = Tail(@)]
            /\ wc' = [wc EXCEPT ![w].pc = "kill"]
      /\ UNCHANGED <<row, budget, procs, begun>>

\* The process is terminated and waited for, then the report is sent.  One that
\* outlasts SIGKILL and the wait for it takes no step of its own any more.
Kill(w) ==
  LET c == wc[w].sock
  IN  /\ wc[w].pc = "kill"
      /\ procs' = {p \in procs : ~ (p.worker = w /\ p.task = wc[w].task /\ p.epoch = wc[w].epoch)}
      /\ PushUp(c, State(wc[w].task, "cancelled"))
      /\ \E pc \in Handled(w) : wc' = [wc EXCEPT ![w] = [NewControl EXCEPT !.sock = c, !.pc = pc]]
      /\ UNCHANGED <<row, budget, begun>>

\* The reaper thread: the process of _current has exited.  A report that
\* cannot be sent is not sent again.
Reap(w) ==
  LET c == wc[w].sock
  IN  /\ Current(w) # None
      /\ \E p \in procs :
           /\ p.worker = w /\ p.task = wc[w].task /\ p.epoch = wc[w].epoch
           /\ p.pc \in {"exit", "dead"}
           /\ procs' = procs \ {p}
           /\ IF c = 0 THEN UNCHANGED chan
              ELSE PushUp(c, State(p.task, IF p.pc = "exit" THEN "finished" ELSE "failed"))
      /\ wc' = [wc EXCEPT ![w].task = None, ![w].epoch = 0]
      /\ UNCHANGED <<row, budget, begun>>

\* The pod restarts under its name; its processes are gone.
WorkerCrash(w) ==
  LET c == wc[w].sock
  IN  /\ Spend("crash")
      /\ wc' = [wc EXCEPT ![w] = NewControl]
      /\ procs' = {p \in procs : p.worker # w}
      /\ chan' = IF c = 0 THEN chan ELSE [chan EXCEPT ![c].open = FALSE, ![c].down = <<>>]
      /\ UNCHANGED <<row, begun>>

-----------------------------------------------------------------------------
(* A task process.                                                         *)

\* _prepare_task_execution and the snapshot of the configuration, which renews
\* dispatch_started_at; they raise if the task is not this process's any more,
\* and may raise for other reasons.
ProcStart(p) ==
  /\ p.pc = "start"
  /\ \/ /\ Fenced(p) /\ row[p.task].status = "running" /\ ~ row[p.task].deleted
        /\ row' = [row EXCEPT ![p.task].age = "fresh"]
        /\ Becomes(p, "run")
     \/ /\ Becomes(p, "raised")
        /\ UNCHANGED row
  /\ UNCHANGED <<chan, budget, wc, begun>>

\* The pipeline returns, also when the supervisor stopped it, or raises.
ProcEnds(p) ==
  /\ p.pc = "run"
  /\ \E pc \in {"persist", "raised"} : Becomes(p, pc)
  /\ UNCHANGED <<shared, wc, begun>>

\* finalize_task_result, a guarded update.  If the database raises, so does the
\* process.
ProcPersist(p) ==
  LET r == row[p.task]
  IN  /\ p.pc = "persist"
      /\ \/ /\ IF Fenced(p) /\ r.status = "running" /\ ~ r.deleted
                 THEN \E s \in Outcomes :
                        row' = [row EXCEPT ![p.task] = Settled(r, s)]
                 ELSE UNCHANGED row
            /\ Becomes(p, "exit")
            /\ UNCHANGED budget
         \/ /\ Spend("db")
            /\ Becomes(p, "raised")
            /\ UNCHANGED row
      /\ UNCHANGED <<chan, wc, begun>>

\* finalize_task_error reads the row; one that runs becomes an error, whosever it
\* is, since the caller commits what the comparison of epochs refused, and
\* whatever it has become by the commit.  A database exception is swallowed.
ProcError(p) ==
  /\ p.pc = "raised"
  /\ Becomes(p, IF row[p.task].status = "running" THEN "error" ELSE "exit")
  /\ UNCHANGED <<shared, wc, begun>>

ProcWrite(p) ==
  /\ p.pc = "error"
  /\ \/ /\ row' = [row EXCEPT ![p.task] = Settled(@, "error")]
        /\ UNCHANGED budget
     \/ Spend("db") /\ UNCHANGED row
  /\ Becomes(p, "exit")
  /\ UNCHANGED <<chan, wc, begun>>

\* The system kills the process.
ProcDies(p) ==
  /\ p.pc \in {"start", "run", "persist", "raised", "error"}
  /\ Spend("die")
  /\ Becomes(p, "dead")
  /\ UNCHANGED <<row, chan, wc, begun>>

-----------------------------------------------------------------------------
\* Steps that nothing but the program decides.
ControlStep(w) == OnRun(w) \/ Spawn(w) \/ OnCancel(w) \/ Kill(w)
ProcStep(p)    == ProcStart(p) \/ ProcPersist(p) \/ ProcError(p) \/ ProcWrite(p)

WorkerNext(w) ==
  \/ Connect(w) \/ Disconnect(w) \/ ControlStep(w) \/ Reap(w) \/ WorkerCrash(w)
  \/ \E p \in procs : p.worker = w /\ (ProcStep(p) \/ ProcEnds(p) \/ ProcDies(p))
=============================================================================
