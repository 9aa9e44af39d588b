------------------------------- MODULE Refine -------------------------------
(***************************************************************************)
(* Stage 2 of the pipeline, app/pipeline/s2_refine.py: LLM workers take    *)
(* modules from a queue and plan how to split them, one commit thread      *)
(* carries the plans out, and the main thread waits for both.              *)
(*                                                                         *)
(* The files of the workspace are the state that matters: the files.list,  *)
(* .snapshot, split/ and deleted/ of each module and the workspace's       *)
(* deleted.list.  An absent file and an empty one are the same here, as    *)
(* they are to _read_lines.  There is no lock: the commit thread reads and *)
(* writes the files of a module while agents may be at work on it, and     *)
(* each of its reads and writes is a step.  The agents are external: they  *)
(* may propose any plan for the files they read.                           *)
(***************************************************************************)
EXTENDS Naturals, Sequences, FiniteSets, SequencesExt

CONSTANTS
  Files,        \* every path that a files.list may name
  Filtered,     \* those of filtered_files.txt
  Modules,      \* module names, those of children yet to be made included
  Workers,      \* LLM worker threads, cfg.parallel_modules of them
  Stop,         \* the sentinel None on either queue
  Start,        \* files.list of every module when the stage begins
  PathIn,       \* PathIn[f]: the files whose path contains that of f
  MinRounds, MaxRounds,
  TreatAsPassed,  \* max_rounds_exceeded_action = treat_as_passed
  SoftFailures,   \* continue_on_module_failure
  Places,         \* what the agents may do with a file, see Plans
  MaxPlans        \* bound: plans that change anything

ASSUME RefineAssumption ==
  /\ IsFiniteSet(Modules) /\ IsFiniteSet(Workers) /\ Filtered \subseteq Files
  /\ Stop \notin Modules
  /\ Start \in [Modules -> SUBSET Files]
  /\ PathIn \in [Files -> SUBSET Files] /\ \A f \in Files : f \in PathIn[f]
  /\ MinRounds \in Nat /\ MaxRounds \in Nat \ {0} /\ MaxPlans \in Nat
  /\ TreatAsPassed \in BOOLEAN /\ SoftFailures \in BOOLEAN
  /\ Places \subseteq {"keep", "retain", "split", "merge", "delete", "lose"}

VARIABLES
  list,       \* modules/<mod>/files.list
  snap,       \* modules/<mod>/.snapshot
  split,      \* split[m][c]: modules/<m>/split/<c>/files.list
  into,       \* into[m][t]: modules/<m>/split/_merge_to/<t>/files.list
  dropped,    \* modules/<mod>/deleted/files.list
  gone,       \* deleted.list of the workspace
  queue, commits,                   \* _queue, _commit_queue
  refined, inProgress, pending,     \* _refined, _in_progress, _pending_merge_targets
  failed,                           \* _errors is not empty
  worker, committer, main,          \* the threads
  plans,      \* plans made so far
  lost,       \* history: the files an agent dropped without a place
  torn        \* history: the files that a write of the stage itself took from their
              \* last place because it did not know of them

disk    == <<list, snap, split, into, dropped, gone>>
threads == <<worker, committer, main>>
history == <<lost, torn>>
vars    == <<disk, queue, commits, refined, inProgress, pending, failed, threads, plans, history>>

NoFiles == [m \in Modules |-> {}]
Idle    == [at |-> "idle", mod |-> Stop, round |-> 0, seen |-> {}]
Resting == [at |-> "idle", mod |-> Stop, base |-> {}, out |-> {}, kids |-> NoFiles,
            merges |-> NoFiles, todo |-> {}, job |-> <<"none", Stop>>, buf |-> {}]

\* What a commit has to deliver: a child's list or a merge target's.
Jobs == {"split", "merge"} \X Modules

TypeOK ==
  /\ {list, snap, dropped} \subseteq [Modules -> SUBSET Files] /\ gone \subseteq Files
  /\ {split, into} \subseteq [Modules -> [Modules -> SUBSET Files]]
  /\ {queue, commits} \subseteq Seq(Modules \cup {Stop})
  /\ UNION {refined, inProgress, pending} \subseteq Modules
  /\ failed \in BOOLEAN /\ plans \in 0 .. MaxPlans /\ lost \cup torn \subseteq Files
  /\ worker \in [Workers -> [at : {"idle", "read", "work", "judge", "requeue", "leave", "stopped"},
                            mod : Modules \cup {Stop}, round : 0 .. MaxRounds, seen : SUBSET Files]]
  /\ committer \in [at : {"idle", "drafts", "check", "deliver", "write", "parent", "clean",
                          "announce", "stopped"},
                    mod : Modules \cup {Stop}, base : SUBSET Files, out : SUBSET Files,
                    kids : [Modules -> SUBSET Files], merges : [Modules -> SUBSET Files],
                    todo : SUBSET Jobs, job : Jobs \cup {<<"none", Stop>>}, buf : SUBSET Files]
  /\ main \in {"join", "stop", "workers", "commits", "check", "passed", "failed"}

\* execute() puts every module that has files on the queue.
Init ==
  /\ list = Start
  /\ snap = NoFiles /\ dropped = NoFiles /\ gone = {}
  /\ split = [m \in Modules |-> NoFiles] /\ into = split
  /\ queue \in SetToSeqs({m \in Modules : Start[m] # {}})
  /\ commits = <<>>
  /\ refined = {} /\ inProgress = {} /\ pending = {}
  /\ failed = FALSE
  /\ worker = [w \in Workers |-> Idle]
  /\ committer = Resting
  /\ main = "join"
  /\ plans = 0 /\ lost = {} /\ torn = {}

-----------------------------------------------------------------------------
(* LLM workers: _llm_worker and _refine_one.                               *)

\* The module's directory is removed, drafts and all.
Removed(m) ==
  /\ list' = [list EXCEPT ![m] = {}] /\ snap' = [snap EXCEPT ![m] = {}]
  /\ split' = [split EXCEPT ![m] = NoFiles] /\ into' = [into EXCEPT ![m] = NoFiles]
  /\ dropped' = [dropped EXCEPT ![m] = {}]

\* From the queue into _in_progress; a module refined before, or without a
\* files.list, is not looked at, one whose files.list is empty is removed.  The
\* sentinel ends the thread.
Take(w) ==
  /\ worker[w].at = "idle" /\ queue # <<>>
  /\ queue' = Tail(queue)
  /\ LET m    == Head(queue)
         skip == m \in refined \/ list[m] = {}
     IN  IF m = Stop
         THEN /\ worker' = [worker EXCEPT ![w].at = "stopped"]
              /\ UNCHANGED <<disk, inProgress, torn>>
         ELSE /\ worker' = [worker EXCEPT ![w] =
                   [Idle EXCEPT !.at = IF skip THEN "requeue" ELSE "read", !.mod = m]]
              /\ inProgress' = inProgress \cup {m}
              /\ UNCHANGED gone
              /\ \/ UNCHANGED <<list, snap, split, into, dropped, torn>>
                 \/ /\ m \notin refined /\ list[m] = {}
                    /\ Removed(m)
                    /\ torn' = torn \cup dropped[m]
  /\ UNCHANGED <<commits, refined, pending, failed, committer, main, plans, lost>>

\* _create_snapshot_file: only when there is none.
Snapshotted(m) == IF snap[m] = {} THEN [snap EXCEPT ![m] = list[m]] ELSE snap

\* The summaries of the files are ready, the snapshot is taken, round 1 begins.
Prepare(w) ==
  LET m == worker[w].mod
  IN  /\ worker[w].at = "read"
      /\ snap' = Snapshotted(m)
      /\ worker' = [worker EXCEPT ![w].at = "work", ![w].round = 1, ![w].seen = list[m]]
      /\ UNCHANGED <<list, split, into, dropped, gone, queue, commits, refined, inProgress,
                     pending, failed, committer, main, plans, history>>

\* A plan gives each file the agent read a place: it stays in files.list, is listed
\* for the parent as a child of itself, goes to a child, to another module that
\* exists, to deleted/, or is lost.
Homes(m) ==
  {h \in [to : Places, mod : Modules] :
     CASE h.to = "split" -> h.mod # m
       [] h.to = "merge" -> h.mod # m /\ list[h.mod] # {}
       [] OTHER -> h.mod = m}

Placed(p, to, m) == {f \in DOMAIN p : p[f] = [to |-> to, mod |-> m]}

\* The worker agent runs: it leaves the draft of an earlier round as it is, or
\* writes a new one: what it deletes (or loses) leaves files.list, what the old draft
\* deleted and the new one does not comes back.  If it writes files.list anew from
\* what it read, it loses what came in since.  Afterwards a snapshot that has gone
\* is taken again.
Propose(w) ==
  LET m == worker[w].mod
  IN  /\ worker[w].at = "work"
      /\ worker' = [worker EXCEPT ![w].at = "judge"]
      /\ \/ /\ UNCHANGED <<list, split, into, dropped, plans, lost>>
            /\ snap' = Snapshotted(m)
         \/ /\ plans < MaxPlans /\ plans' = plans + 1
            /\ \E p \in [worker[w].seen -> Homes(m)], anew \in BOOLEAN :
                 LET new  == list[m] \ worker[w].seen
                     lose == Placed(p, "lose", m) \cup IF anew THEN new ELSE {}
                     left == ((list[m] \cup dropped[m]) \ Placed(p, "delete", m)) \ lose
                 IN  /\ \E f \in DOMAIN p : p[f].to # "keep"
                     /\ anew => new # {} /\ "lose" \in Places
                     /\ split' = [split EXCEPT ![m] = [c \in Modules |->
                                    Placed(p, IF c = m THEN "retain" ELSE "split", c)]]
                     /\ into' = [into EXCEPT ![m] = [t \in Modules |-> Placed(p, "merge", t)]]
                     /\ dropped' = [dropped EXCEPT ![m] = Placed(p, "delete", m)]
                     /\ list' = [list EXCEPT ![m] = left]
                     /\ lost' = lost \cup lose
                     /\ snap' = IF snap[m] = {} THEN [snap EXCEPT ![m] = left] ELSE snap
      /\ UNCHANGED <<gone, queue, commits, refined, inProgress, pending, failed, committer,
                     main, torn>>

Drafted(m) == (\E x \in Modules : split[m][x] \cup into[m][x] # {}) \/ dropped[m] # {}

LastRoundLate(w) ==  \* mutant: one round too many
  worker[w].round > MaxRounds
LastRound(w) == worker[w].round >= MaxRounds

\* The judges vote.  A pass, or the last round where that counts as one, sends the
\* module to the commit thread if there is a draft and is the end of it if there is
\* none.  After a rejection what the judges put into recover/ goes back to
\* files.list.  The last round without a pass is a StageError.
Judge(w) ==
  LET m      == worker[w].mod
      last   == LastRound(w)
      forced == last /\ TreatAsPassed
  IN  /\ worker[w].at = "judge"
      /\ \E vote \in BOOLEAN :
           LET passed == vote /\ worker[w].round >= MinRounds
           IN  IF passed \/ forced
               THEN /\ worker' = [worker EXCEPT ![w].at = "requeue"]
                    /\ commits' = IF Drafted(m) THEN Append(commits, m) ELSE commits
                    /\ refined' = IF Drafted(m) THEN refined ELSE refined \cup {m}
                    /\ UNCHANGED <<list, dropped, failed>>
               ELSE /\ \E back \in {{}} \cup IF vote THEN {} ELSE SUBSET dropped[m] :
                         /\ list' = [list EXCEPT ![m] = @ \cup back]
                         /\ dropped' = [dropped EXCEPT ![m] = @ \ back]
                    /\ worker' = [worker EXCEPT ![w].at = IF last THEN "requeue" ELSE "work",
                                                ![w].round = IF last THEN @ ELSE @ + 1]
                    /\ failed' = (failed \/ (last /\ ~SoftFailures))
                    /\ UNCHANGED <<commits, refined>>
      /\ UNCHANGED <<snap, split, into, gone, queue, inProgress, pending, committer, main, plans, history>>

\* An agent call raises: PiFatalError, or any exception, which is made one, or a
\* StageError, which continue_on_module_failure passes over.  What the agent wrote
\* before stays (Propose).
AgentFails(w) ==
  /\ worker[w].at \in {"work", "judge"}
  /\ failed' = TRUE \/ (SoftFailures /\ UNCHANGED failed)
  /\ worker' = [worker EXCEPT ![w].at = "requeue"]
  /\ UNCHANGED <<disk, queue, commits, refined, inProgress, pending, committer, main, plans, history>>

\* The finally block, as far as a merge that came in meanwhile goes ...
Requeue(w) ==
  LET m == worker[w].mod
  IN  /\ worker[w].at = "requeue"
      /\ worker' = [worker EXCEPT ![w].at = "leave"]
      /\ pending' = pending \ {m}
      /\ queue' = IF m \in pending THEN Append(queue, m) ELSE queue
      /\ UNCHANGED <<disk, commits, refined, inProgress, failed, committer, main, plans, history>>

\* ... and its end, with task_done().
Leave(w) ==
  /\ worker[w].at = "leave"
  /\ inProgress' = inProgress \ {worker[w].mod}
  /\ worker' = [worker EXCEPT ![w] = Idle]
  /\ UNCHANGED <<disk, queue, commits, refined, pending, failed, committer, main, plans, history>>

-----------------------------------------------------------------------------
(* The commit thread: _commit_worker and _commit_one_module.               *)

At(label) == committer.at = label
Apart == <<queue, refined, inProgress, pending, worker, main, plans, lost>>

\* The commit starts with the snapshot and the deleted files ...
Fetch ==
  /\ At("idle") /\ commits # <<>>
  /\ commits' = Tail(commits)
  /\ LET m == Head(commits)
     IN  committer' = IF m = Stop THEN [Resting EXCEPT !.at = "stopped"]
                      ELSE [Resting EXCEPT !.at = "drafts", !.mod = m, !.base = snap[m],
                                           !.out = dropped[m]]
  /\ UNCHANGED <<disk, failed, torn, Apart>>

\* ... then reads the drafts.
ReadDrafts ==
  LET m == committer.mod
  IN  /\ At("drafts")
      /\ committer' = [committer EXCEPT !.at = "check", !.kids = split[m], !.merges = into[m]]
      /\ UNCHANGED <<disk, commits, failed, torn, Apart>>

SplitOut  == UNION {committer.kids[c] : c \in Modules}
MergedOut == UNION {committer.merges[t] : t \in Modules}
Moved     == SplitOut \cup MergedOut
Covered   == Moved \cup committer.out \cup list[committer.mod]

\* A file of the snapshot without a place may be in another module or deleted; the
\* code looks for its path as a part of the text of those lists.
Elsewhere(f) ==
  \E g \in PathIn[f] : g \in gone \/ \E o \in Modules \ {committer.mod} : g \in list[o]

Rejected ==
  /\ committer.base # {}
  /\ \/ Covered \ committer.base # {}
     \/ \E f \in committer.base \ Covered : ~Elsewhere(f)

Validate ==
  /\ At("check")
  /\ IF Rejected
     THEN failed' = TRUE /\ committer' = Resting
     ELSE /\ committer' = [committer EXCEPT !.at = "deliver", !.todo =
               {j \in Jobs : IF j[1] = "split" THEN committer.kids[j[2]] # {}
                                              ELSE committer.merges[j[2]] # {}}]
          /\ UNCHANGED failed
  /\ UNCHANGED <<disk, commits, torn, Apart>>

\* Children come before merge targets.  The list of a child or target is read ...
FilesOf(j) == IF j[1] = "split" THEN committer.kids[j[2]] ELSE committer.merges[j[2]]
Due(j) == j \in committer.todo /\ (j[1] = "merge" => \A k \in committer.todo : k[1] = "merge")

DeliverRead ==
  /\ At("deliver")
  /\ \E j \in Jobs :
       /\ Due(j)
       /\ committer' = [committer EXCEPT !.at = "write", !.job = j, !.buf = list[j[2]],
                                         !.todo = @ \ {j}]
  /\ UNCHANGED <<disk, commits, failed, torn, Apart>>

\* ... and written with what it gets, and its snapshot with it while it is in
\* progress.  The parent as a child of itself is written without being read.
DeliveredOver ==  \* mutant: the list is overwritten
  FilesOf(committer.job)
Delivered ==
  IF committer.job = <<"split", committer.mod>> THEN FilesOf(committer.job)
  ELSE committer.buf \cup FilesOf(committer.job)
Unknown(o) ==  \* what the writer of list[o] does not know of
  IF o = committer.mod /\ committer.kids[o] # {} THEN (list[o] \ Moved) \ committer.out
  ELSE list[o] \ committer.buf

DeliverWrite ==
  LET o == committer.job[2]
  IN  /\ At("write")
      /\ list' = [list EXCEPT ![o] = Delivered]
      /\ snap' = IF o # committer.mod /\ o \in inProgress /\ snap[o] # {}
                 THEN [snap EXCEPT ![o] = @ \cup FilesOf(committer.job)] ELSE snap
      /\ torn' = torn \cup Unknown(o)
      /\ committer' = [committer EXCEPT !.at = "deliver"]
      /\ UNCHANGED <<split, into, dropped, gone, commits, failed, Apart>>

\* Then the parent's list is read again ...
ReadParent ==
  /\ At("deliver") /\ committer.todo = {}
  /\ committer' = [committer EXCEPT !.at = "parent", !.buf = list[committer.mod]]
  /\ UNCHANGED <<disk, commits, failed, torn, Apart>>

\* ... and it keeps what is listed for it as a child of itself, or else what was
\* not moved.  If nothing is left and nothing was deleted its directory is removed.
\* What was deleted goes to the deleted.list of the workspace.
WriteParent ==
  LET m    == committer.mod
      rest == IF committer.kids[m] # {} THEN committer.kids[m] ELSE committer.buf \ Moved
  IN  /\ At("parent")
      /\ IF rest = {} /\ committer.out = {}
         THEN Removed(m) /\ torn' = torn \cup Unknown(m) \cup dropped[m]
         ELSE /\ list' = [list EXCEPT ![m] = rest] /\ torn' = torn \cup Unknown(m)
              /\ UNCHANGED <<snap, split, into, dropped>>
      /\ gone' = gone \cup committer.out
      /\ committer' = [committer EXCEPT !.at = "clean"]
      /\ UNCHANGED <<commits, failed, Apart>>

\* The drafts are removed, whoever wrote them.
Clean ==
  LET m == committer.mod
  IN  /\ At("clean")
      /\ snap' = [snap EXCEPT ![m] = {}]
      /\ split' = [split EXCEPT ![m] = NoFiles] /\ into' = [into EXCEPT ![m] = NoFiles]
      /\ dropped' = [dropped EXCEPT ![m] = {}]
      /\ torn' = torn \cup (dropped[m] \ committer.out)
      /\ committer' = [committer EXCEPT !.at = "announce"]
      /\ UNCHANGED <<list, gone, commits, failed, Apart>>

\* Modules with new files are queued again, a merge target that is in progress only
\* when its worker ends.  The module itself counts as refined.
Announce ==
  LET merged  == {t \in Modules : committer.merges[t] # {}}
      waiting == merged \cap inProgress
      targets == merged \ inProgress
      news    == {c \in Modules \ {committer.mod} : committer.kids[c] # {}} \ (inProgress \cup targets)
  IN  /\ At("announce")
      /\ pending' = pending \cup waiting
      /\ \E q \in SetToSeqs(targets), r \in SetToSeqs(news) : queue' = queue \o q \o r
      /\ inProgress' = inProgress \cup targets \cup news
      /\ refined' = (refined \ (targets \cup news)) \cup {committer.mod}
      /\ committer' = Resting
      /\ UNCHANGED <<disk, commits, failed, worker, main, plans, history>>

-----------------------------------------------------------------------------
(* The main thread: execute and _global_completeness_check.                *)

\* _queue.join(): every item was taken and its worker has called task_done().
Join ==
  /\ main = "join"
  /\ queue = <<>> /\ \A w \in Workers : worker[w].at = "idle"
  /\ main' = "stop"
  /\ UNCHANGED <<disk, queue, commits, refined, inProgress, pending, failed, worker, committer, plans, history>>

StopWorkers ==
  /\ main = "stop"
  /\ main' = "workers"
  /\ \E q \in [1 .. Cardinality(Workers) -> {Stop}] : queue' = queue \o q
  /\ UNCHANGED <<disk, commits, refined, inProgress, pending, failed, worker, committer, plans, history>>

WorkersIdle ==  \* mutant: the workers are not joined
  \A w \in Workers : worker[w].mod = Stop
WorkersJoined == \A w \in Workers : worker[w].at = "stopped"

StopCommitter ==
  /\ main = "workers"
  /\ WorkersJoined
  /\ commits' = Append(commits, Stop)
  /\ main' = "commits"
  /\ UNCHANGED <<disk, queue, refined, inProgress, pending, failed, worker, committer, plans, history>>

Collect ==
  /\ main = "commits"
  /\ committer.at = "stopped"
  /\ main' = IF failed THEN "failed" ELSE "check"
  /\ UNCHANGED <<disk, queue, commits, refined, inProgress, pending, failed, worker, committer, plans, history>>

Unclassified == (Filtered \ gone) \ UNION {list[m] : m \in Modules}

\* If filtered files have no module an agent is asked to find one for each; if it
\* raises, so does the stage.  Afterwards enforce_filter_constraint takes whatever is
\* not filtered from the lists, and the stage passes whatever the agent left.
CheckAll ==
  /\ main = "check"
  /\ \/ /\ Unclassified = {}
        /\ main' = "passed" /\ UNCHANGED list
     \/ /\ Unclassified # {}
        /\ main' = "passed"
        /\ \E home \in [Unclassified -> Modules \cup {Stop}] :
             list' = [m \in Modules |->
                        (list[m] \cup {f \in Unclassified : home[f] = m}) \cap Filtered]
     \/ /\ Unclassified # {}
        /\ main' = "failed" /\ UNCHANGED list
  /\ UNCHANGED <<snap, split, into, dropped, gone, queue, commits, refined, inProgress, pending,
                 failed, worker, committer, plans, history>>

\* ctx.refined_modules is set and the pipeline goes on, or the error is raised.
Ended == main \in {"passed", "failed"} /\ UNCHANGED vars

WorkerStep(w) ==
  Take(w) \/ Prepare(w) \/ Propose(w) \/ Judge(w) \/ AgentFails(w) \/ Requeue(w) \/ Leave(w)
CommitStep ==
  \/ Fetch \/ ReadDrafts \/ Validate \/ DeliverRead \/ DeliverWrite
  \/ ReadParent \/ WriteParent \/ Clean \/ Announce
MainStep   == Join \/ StopWorkers \/ StopCommitter \/ Collect \/ CheckAll

Next ==
  \/ \E w \in Workers : WorkerStep(w)
  \/ CommitStep
  \/ MainStep
  \/ Ended

\* The threads run as long as they are alive, and every agent call returns.
Fairness ==
  /\ \A w \in Workers : WF_vars(WorkerStep(w))
  /\ WF_vars(CommitStep)
  /\ WF_vars(MainStep)

Spec == Init /\ [][Next]_vars /\ Fairness

-----------------------------------------------------------------------------
\* What the commit thread still holds: files to deliver and to record as deleted.
InHand ==
  CASE At("deliver") -> committer.out \cup UNION {FilesOf(j) : j \in committer.todo}
    [] At("write") -> committer.out \cup UNION {FilesOf(j) : j \in committer.todo \cup {committer.job}}
    [] At("parent") -> committer.out
    [] OTHER -> {}

Somewhere(f) == f \in gone \cup InHand \/ \E m \in Modules : f \in list[m] \cup dropped[m]

\* A file that no agent dropped is in a module, marked as deleted there, deleted, or
\* on its way, whatever is split, merged and given back in whatever order, unless a
\* write without a lock took it from its last place: over a list that has changed
\* since it was read, over what came in after the draft that lists the parent, or
\* with the removal of drafts that are newer than the commit or of a module that its
\* draft had emptied.  The check at the end takes files that are not filtered.
NothingLost ==
  \A f \in Files \ (lost \cup torn) : Somewhere(f) \/ (main = "passed" /\ f \notin Filtered)

\* The stage passes only after every commit is made, and without any error.
PassedIsCommitted ==
  main \in {"check", "passed"} => ~failed /\ commits = <<>> /\ At("stopped")

\* Checked apart (README, section 4): the stage comes to an end, whatever waits for
\* what, if the agents stop to plan.
StageEnds == <>(main \in {"passed", "failed"})

(* Statements the code does not keep (README, section 4).                  *)

\* Two workers never refine one module at a time.
OneRefiner ==
  \A v, w \in Workers :
    /\ {worker[v].at, worker[w].at} \subseteq {"read", "work", "judge"}
    /\ worker[v].mod = worker[w].mod
    => v = w

\* The stage itself loses no file.
CommitsLoseNothing ==
  main # "passed" => \A f \in Files \ lost : Somewhere(f)

\* A file an agent dropped does not get past the commit of its module.
CommitKeepsSnapshot ==
  At("clean") => \A f \in committer.base : f \in gone \/ \E m \in Modules : f \in list[m]

\* A module whose files changed is refined again before the stage passes.
ChildrenAreRefined ==
  main = "passed" => \A i \in DOMAIN queue : queue[i] \notin Modules
=============================================================================
