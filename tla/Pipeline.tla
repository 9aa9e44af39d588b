------------------------------ MODULE Pipeline ------------------------------
(***************************************************************************)
(* One run of the orchestrator: the stages S0 to S4 in their order, the    *)
(* worker and judge rounds of S1, S1.5 and S3, the module threads of S3,   *)
(* the super-fast pipeline that knows no judges, cancellation, and what is *)
(* left in output/ when the run is over (app/orchestrator.py,              *)
(* app/pipeline/).                                                         *)
(*                                                                         *)
(* A call of an agent is one step, taken when it returns.  Agents are      *)
(* external: they answer, fail (StageError) or end the task                *)
(* (PiFatalError), and change in the workspace what their prompts let them *)
(* change.  Stage 2 is one step here; module Refine has its inside.        *)
(***************************************************************************)
EXTENDS Integers, FiniteSets, Functions

CONSTANTS
  Files,     \* the files of the target
  Modules,   \* module names
  Judges,
  Threads,   \* parallel_modules
  Configs,   \* the configurations a run may have, see ConfigType
  None,      \* no module
  Fates,     \* bound: where the one file that changes its places in stage 2 may be then
  RoundCap   \* bound: rounds are told apart up to this number

ConfigType ==
  [engine : {"script", "agent"},         \* filter_engine
   mode   : {"any", "majority", "all"},  \* pass_mode
   min    : Nat, max : Int,              \* min_rounds, max_rounds (-1: no limit)
   force  : BOOLEAN,                     \* max_rounds_exceeded_action = treat_as_passed
   soft   : BOOLEAN,                     \* continue_on_module_failure
   sift   : BOOLEAN,                     \* any filter of stage 1.5
   check  : BOOLEAN,                     \* enable_final_check
   look   : BOOLEAN,                     \* enable_unknown_checker, and sub_reader_mode = llm_assist
   fast   : BOOLEAN]                     \* super_fast_mode

ASSUME PipelineAssumption ==
  /\ Configs \subseteq ConfigType
  /\ Threads \in Nat \ {0}
  /\ \A word \in {None, "main", "deleted", "nowhere", "dropped"} : word \notin Modules
  /\ IsFiniteSet(Judges)
  /\ Fates \subseteq SUBSET (Modules \cup {"deleted"})
  /\ RoundCap \in Nat \ {0} /\ \A c \in Configs : c.min <= RoundCap /\ c.max <= RoundCap

VARIABLES
  cfg,
  stage, round,    \* where the main thread is, and the rounds begun there
  filtered,        \* ctx.filtered_files
  listed,          \* filtered_files.txt
  saved,           \* .filtered_backup.txt: {} while there is none, else {its files}
  list,            \* modules/<m>/files.list
  trash, recover,  \* deleted/files.list and recover/files.list of stage 1
  gone,            \* deleted.list
  backup,          \* modules_pre_filter_backup/<m>/files.list
  report,          \* modules with a module_report.md
  thread,          \* stage 3, and the stages 2 and 3 of super-fast mode: each module's thread
  errors,          \* s3_errors: the kinds of exception in it
  soft,            \* soft_failed_modules: the stage and the module of each
  completed, failures,  \* modules with a completed, with a failed round on record
  outcome,         \* result.status
  flag, final,     \* output/flag; a final_report.md exists
  cancelled, late, \* cancel_event; the calls that were on their way when it was set
  fatal,           \* history: an agent raised PiFatalError outside the filter engine and
                   \* the file summaries of stage 2
  swallowed,       \* history: the file summaries of stage 2 swallowed one
  classified       \* history: the files that had a module when stage 1.5 began, until
                   \* stage 2 has them

text    == <<filtered, listed, saved>>
places  == <<list, trash, recover, gone, backup>>
records == <<soft, completed, failures>>
ends    == <<outcome, flag, final>>
ctl     == <<cancelled, late>>
vars    == <<cfg, stage, round, text, places, report, thread, errors, records, ends, ctl,
             fatal, swallowed, classified>>

NoFiles == [m \in Modules |-> {}]
Idle    == [at |-> "none", round |-> 0]

Calls == {"filter", "unknown", "explore", "preread", "classify", "check", "sift", "review",
          "refine", "complete", "redo", "sort"}     \* stages whose steps are calls of agents
Pools == {"analyse", "recut", "rate"}               \* stages with a thread for each module

ThreadType == [at : {"none", "wait", "work", "judge", "done"}, round : 0 .. RoundCap]

TypeOK ==
  /\ cfg \in Configs
  /\ stage \in Calls \cup Pools \cup
       {"start", "script", "identify", "prepare", "validate", "report", "over", "end"}
  /\ round \in 0 .. RoundCap
  /\ filtered \subseteq Files /\ listed \subseteq Files /\ saved \subseteq SUBSET Files
  /\ list \in [Modules -> SUBSET Files] /\ backup \in [Modules -> SUBSET Files]
  /\ trash \subseteq Files /\ recover \subseteq Files /\ gone \subseteq Files
  /\ classified \subseteq Files
  /\ report \subseteq Modules /\ completed \subseteq Modules /\ failures \subseteq Modules
  /\ soft \subseteq {"refine", "analyse", "redo"} \X Modules
  /\ thread \in [Modules -> ThreadType]
  /\ errors \subseteq {"error", "fatal"}
  /\ outcome \in {"running", "passed", "failed", "error", "raised"}
  /\ flag \in {"none", "0", "1"} /\ final \in BOOLEAN /\ fatal \in BOOLEAN
  /\ swallowed \in BOOLEAN
  /\ cancelled \in BOOLEAN /\ late \subseteq Modules \cup {"main"}

Init ==
  /\ cfg \in Configs
  /\ stage = "start" /\ round = 0
  /\ filtered = {} /\ listed = {} /\ saved = {}
  /\ list = NoFiles /\ trash = {} /\ recover = {} /\ gone = {} /\ backup = NoFiles
  /\ report = {} /\ thread = [m \in Modules |-> Idle] /\ errors = {}
  /\ soft = {} /\ completed = {} /\ failures = {}
  /\ outcome = "running" /\ flag = "none" /\ final = FALSE
  /\ cancelled = FALSE /\ late = {}
  /\ fatal = FALSE /\ swallowed = FALSE /\ classified = {}

-----------------------------------------------------------------------------
(* Helpers of the stages (app/pipeline/helpers.py).                        *)

\* discover_modules.
Discovered == {m \in Modules : list[m] # {}}

Kept == UNION {list[m] : m \in Modules}

\* A thread for each module with a file.
Waiting(lists) == [m \in Modules |-> IF lists[m] # {} THEN [Idle EXCEPT !.at = "wait"] ELSE Idle]

\* What a judge writes: a score, a claim, and corrections or a wish to regroup, early in
\* its text or after the first 1000 characters of it.
Outputs == [score : {0, 60, 90}, says : {"yes", "no", "nothing"},
            wants : {"nothing", "early", "late"}]

\* parse_eval_md: the claim counts, else the score; a pass without a score is a violation
\* of the format, whose feedback replaces the judge's; else the first 1000 characters are kept.
Parsed(o) ==
  LET says == o.says = "yes" \/ (o.says = "nothing" /\ o.score >= 75)
  IN  [pass |-> says /\ o.score > 0,
       wants |-> o.wants = "early" /\ ~(says /\ o.score = 0)]

Reviews == [Judges -> {Parsed(o) : o \in Outputs}]

\* check_voting.
Voted(passes) ==
  LET n == Cardinality(passes)
  IN  CASE cfg.mode = "any"      -> n >= 1
        [] cfg.mode = "majority" -> 2 * n > Cardinality(Judges)
        [] OTHER                 -> n = Cardinality(Judges)

Passes(r) == Voted({j \in Judges : r[j].pass})
Wanted(r) == {j \in Judges : r[j].wants}

\* The last round: S1 and S1.5 take 0 for no round at all, S3 (max_iter) for no limit.
Reached(n)  == cfg.max >= 0 /\ n >= cfg.max
Reached3(n) == cfg.max > 0 /\ n >= cfg.max
Up(n)       == IF n < RoundCap THEN n + 1 ELSE n

\* Mutant: the cancel event is not looked at before a call.
AnswersDeaf(who) == {"ok", "error", "fatal"}

\* run_agent_with_stage_guard and check_agent_result: a call that begins after the cancel
\* event fails; one that was on its way may still answer.
Answers(who) == IF cancelled /\ who \notin late THEN {"error"} ELSE {"ok", "error", "fatal"}
Returned(who) == late' = late \ {who} /\ UNCHANGED cancelled

\* Mutant: the kind of the exception becomes the status.
RaiseKind(kind) ==
  /\ stage' = "over" /\ outcome' = kind
  /\ fatal' = (fatal \/ kind = "fatal")
  /\ UNCHANGED <<flag, final, round>>

\* An exception leaves the pipeline: StageError and PiFatalError fail the task, any other
\* one is an error of the task.
Raise(kind) ==
  /\ stage' = "over"
  /\ outcome' = IF kind = "odd" THEN "error" ELSE "failed"
  /\ fatal' = (fatal \/ kind = "fatal")
  /\ UNCHANGED <<flag, final, round>>

GoTo(s) == stage' = s /\ round' = 0 /\ UNCHANGED <<ends, fatal>>

-----------------------------------------------------------------------------
(* Before the pipeline and stage 0.                                        *)

\* The providers cannot be read: the exception leaves execute itself.
SyncFails ==
  /\ stage = "start" /\ stage' = "end" /\ outcome' = "raised"
  /\ UNCHANGED <<cfg, swallowed, round, text, places, report, thread, errors, records, flag, final, ctl,
                 fatal, classified>>

\* flag is 0 until the end; a target without files passes at once, with a report.
Start ==
  /\ stage = "start" /\ round' = 0
  /\ \/ stage' = "end" /\ outcome' = "passed" /\ flag' = "1" /\ final' = TRUE
     \/ /\ stage' = IF cfg.engine = "agent" THEN "filter" ELSE "script"
        /\ flag' = "0" /\ UNCHANGED <<outcome, final>>
  /\ UNCHANGED <<cfg, swallowed, text, places, report, thread, errors, records, ctl, fatal, classified>>

\* What validate_filter_outputs accepts: some file, no module without one, no file in two
\* modules, none in a module that is not on the list.
Filterings == UNION {[kept -> Modules \cup {None}] : kept \in (SUBSET Files) \ {{}}}

\* write_filter_outputs.
WriteFilter(to) ==
  /\ listed' = DOMAIN to
  /\ list' = [m \in Modules |-> {f \in DOMAIN to : to[f] = m}]

\* The first stage after the filter.
First == IF cfg.fast THEN "sort" ELSE "identify"

\* run_agent_filter_engine: batches, then the merge.  Whatever goes wrong, PiFatalError and
\* cancellation included: the script takes over.
AgentFilter ==
  /\ stage = "filter" /\ Returned("main")
  /\ \/ /\ "ok" \in Answers("main") /\ GoTo(First)
        /\ \E to \in Filterings : filtered' = DOMAIN to /\ WriteFilter(to)
        /\ UNCHANGED saved
     \/ GoTo("script") /\ UNCHANGED <<text, list>>
  /\ UNCHANGED <<cfg, swallowed, trash, recover, gone, backup, report, thread, errors, records, classified>>

\* filter_files.sh and load_script_filter_outputs.  No file, or no script: the run is over,
\* passed, with a report of its own.
ScriptFilter ==
  /\ stage = "script"
  /\ \E kept \in SUBSET Files :
       /\ filtered' = kept /\ listed' = kept /\ saved' = {kept}
       /\ IF kept = {}
          THEN /\ stage' = "over" /\ outcome' = "passed" /\ final' = TRUE
               /\ UNCHANGED <<round, flag, fatal>>
          ELSE GoTo(First)
  /\ UNCHANGED <<cfg, swallowed, places, report, thread, errors, records, ctl, classified>>

\* A stage without an agent's call.
Plain(from, to) ==
  /\ stage = from /\ GoTo(to)
  /\ UNCHANGED <<cfg, swallowed, text, places, report, thread, errors, records, ctl, classified>>

\* A stage with one kind of call and no round: it answers or the run fails.
Sole(from, to) ==
  /\ stage = from /\ Returned("main")
  /\ \E a \in Answers("main") : IF a = "ok" THEN GoTo(to) ELSE Raise(a)
  /\ UNCHANGED <<cfg, swallowed, filtered, saved, places, report, thread, errors, records, classified>>

\* TypeClassifyStage: the script's exit code is not looked at; UnknownCheckerStage is asked
\* about the files whose type it left open, if any.
Identify == \E open \in {{}, listed} :
  Plain("identify", IF cfg.look /\ open # {} THEN "unknown" ELSE "explore")

\* UnknownCheckerStage.
Unknown == Sole("unknown", "explore") /\ UNCHANGED listed

\* ExploreStage: the agent may overwrite the list of files; it is put back from the copy
\* the script engine left.
Explore ==
  /\ Sole("explore", "prepare")
  /\ listed' \in IF saved # {} /\ stage' = "prepare" THEN saved ELSE SUBSET Files

\* PrescanStage and PathGroupStage: hints for the prompts.
Prepare == Plain("prepare", IF cfg.look /\ listed # {} THEN "preread" ELSE "validate")

\* SubReaderStage: no file is read (the thread pool is not called), so every file is one the
\* agent is asked about; what it answers is dropped, for there is no file to merge it into.
Preread == Sole("preread", "validate") /\ UNCHANGED listed

\* ValidateDetailsStage: all files are found missing, none is made.
Validate == Plain("validate", "classify")

-----------------------------------------------------------------------------
(* Stage 1: ClassifyStage.                                                 *)

\* The agent engine made the modules.
ClassifySkips ==
  /\ stage = "classify" /\ round = 0 /\ cfg.engine = "agent" /\ Discovered # {}
  /\ GoTo("sift")
  /\ classified' = Kept
  /\ UNCHANGED <<cfg, swallowed, text, places, report, thread, errors, records, ctl>>

\* One call of the worker.  From the second round on deleted/ is cleared and recover/ handed
\* to the worker first.  It puts each file in a module, in deleted/ or nowhere.
Classify ==
  /\ stage = "classify" /\ ~(round = 0 /\ cfg.engine = "agent" /\ Discovered # {})
  /\ UNCHANGED <<cfg, swallowed, text, gone, backup, report, thread, errors, records, classified>>
  /\ IF Reached(round)
     THEN Raise("error") /\ UNCHANGED <<list, trash, recover, ctl>>
     ELSE /\ Returned("main")
          /\ recover' = IF round > 0 THEN {} ELSE recover
          /\ \E a \in Answers("main") :
               IF a = "ok"
               THEN /\ stage' = "check" /\ round' = Up(round) /\ UNCHANGED <<ends, fatal>>
                    /\ \E to \in [listed -> Modules \cup {"deleted", "nowhere"}] :
                         /\ list' = [m \in Modules |-> {f \in listed : to[f] = m}]
                         /\ trash' = {f \in listed : to[f] = "deleted"}
               ELSE /\ Raise(a) /\ UNCHANGED list
                    /\ trash' = IF round > 0 THEN {} ELSE trash

\* The judges' calls and what follows.  A judge that fails the round may ask for deleted
\* files back.  Passed, or out of rounds and forced: deleted/ goes to deleted.list.
Check ==
  /\ stage = "check" /\ Returned("main")
  /\ UNCHANGED <<cfg, swallowed, text, list, backup, report, thread, errors, records>>
  /\ \/ /\ "ok" \in Answers("main")
        /\ \E r \in Reviews : \E back \in SUBSET trash :
             LET passed == Passes(r) /\ round >= cfg.min
                 forced == Reached(round) /\ cfg.force
             IN  /\ back # {} => \E j \in Judges : ~r[j].pass
                 /\ recover' = recover \cup back
                 /\ IF passed \/ forced
                    THEN GoTo("sift") /\ gone' = gone \cup trash /\ trash' = {}
                         /\ classified' = Kept
                    ELSE /\ IF Reached(round)
                            THEN Raise("error")
                            ELSE stage' = "classify" /\ UNCHANGED <<round, ends, fatal>>
                         /\ UNCHANGED <<gone, trash, classified>>
     \/ /\ \E a \in Answers("main") \ {"ok"} : Raise(a)
        /\ UNCHANGED <<gone, trash, recover, classified>>

-----------------------------------------------------------------------------
(* Stage 1.5: SecurityFocusFilterStage.                                    *)

SiftSkips ==
  /\ stage = "sift" /\ ~cfg.sift
  /\ GoTo("refine")
  /\ UNCHANGED <<cfg, swallowed, text, places, report, thread, errors, records, ctl, classified>>

\* Mutant: the copy is made anew in every round.
BackedUpAgain == list

\* The modules are copied once, before the first round.
BackedUp == IF round = 0 THEN list ELSE backup

\* The worker removes modules, and copies modules back from the backup.
Sift ==
  /\ stage = "sift" /\ cfg.sift
  /\ UNCHANGED <<cfg, swallowed, text, trash, recover, gone, report, thread, errors, records, classified>>
  /\ backup' = BackedUp
  /\ IF Reached(round)
     THEN Raise("error") /\ UNCHANGED <<list, ctl>>
     ELSE /\ Returned("main")
          /\ \E a \in Answers("main") :
               /\ IF a = "ok"
                  THEN stage' = "review" /\ round' = Up(round) /\ UNCHANGED <<ends, fatal>>
                  ELSE Raise(a)
               /\ \E stay \in SUBSET {m \in Modules : BackedUp[m] # {}} :
                    list' = [m \in Modules |-> IF m \in stay THEN BackedUp[m] ELSE {}]

\* The files of the modules in the backup that are no longer there.
Removed == UNION {backup[m] : m \in Modules \ Discovered}

\* A round passes if the vote does and no judge is seen to want a correction; there is no
\* forced pass.  The backup is dropped after the files of the removed modules are on
\* deleted.list.
Review ==
  /\ stage = "review" /\ Returned("main")
  /\ UNCHANGED <<cfg, swallowed, text, list, trash, recover, report, thread, errors, records, classified>>
  /\ \/ /\ "ok" \in Answers("main")
        /\ \E r \in Reviews :
             IF Passes(r) /\ Wanted(r) = {} /\ round >= cfg.min
             THEN GoTo("refine") /\ gone' = gone \cup Removed /\ backup' = NoFiles
             ELSE /\ IF Reached(round)
                     THEN Raise("error")
                     ELSE stage' = "sift" /\ UNCHANGED <<round, ends, fatal>>
                  /\ UNCHANGED <<gone, backup>>
     \/ /\ \E a \in Answers("main") \ {"ok"} : Raise(a)
        /\ UNCHANGED <<gone, backup>>

-----------------------------------------------------------------------------
(* Stage 2 in one step, by what module Refine may leave behind.            *)

\* A file may be in any modules or on deleted.list, in several of these places or in none:
\* commits copy before they remove and lose what is written meanwhile, a forced pass or a
\* path that is part of another lets a dropped file through, the check at the end takes
\* what the filter did not keep.  Bound: one file changes its places, to one of Fates.
Scattered ==
  \/ UNCHANGED <<list, gone>>
  \/ \E f \in Kept \cup listed, to \in Fates :
       /\ list' = [m \in Modules |-> IF m \in to THEN list[m] \cup {f} ELSE list[m] \ {f}]
       /\ gone' = IF "deleted" \in to THEN gone \cup {f} ELSE gone

\* The agents that summarise files may raise what they want: collect_file_summaries goes on
\* without them.
Swallows == swallowed' = swallowed \/ ("fatal" \in Answers("main") /\ swallowed' = TRUE)

\* The agents may leave reports behind.  Failures of modules are passed over where they may
\* be, fatal ones never.
Refine ==
  /\ stage = "refine" /\ Returned("main")
  /\ UNCHANGED <<cfg, text, trash, recover, backup, errors, completed>>
  /\ Scattered /\ Swallows /\ classified' = {}
  /\ \/ /\ report' \in {report, Discovered'}
        /\ GoTo("analyse")
        /\ thread' = Waiting(list')
        /\ \E bad \in SUBSET Discovered :
             /\ bad # {} => cfg.soft
             /\ cancelled => bad # {} \/ Discovered = {} \/ "ok" \in Answers("main")
             /\ soft' = soft \cup ({"refine"} \X bad) /\ failures' = failures \cup bad
     \/ /\ \E a \in Answers("main") \ {"ok"} : Raise(a) /\ (a = "error" => ~cfg.soft)
        /\ UNCHANGED <<report, thread, soft, failures>>

-----------------------------------------------------------------------------
(* Stage 3: AnalyseStage, a thread for each module.                        *)

Running == {m \in Modules : thread[m].at \in {"work", "judge"}}

Moved(m, at) == thread' = [thread EXCEPT ![m].at = at]

\* record_round: the module has a round of that kind on record from now on.
Recorded(set, m, happened) == IF happened THEN set \cup {m} ELSE set

\* The thread gets the semaphore, or is one of the pool; stage 3 deletes an old report.
Begin(m) ==
  /\ stage \in Pools /\ thread[m].at = "wait" /\ Cardinality(Running) < Threads
  /\ thread' = [thread EXCEPT ![m] = [at |-> "work", round |-> 1]]
  /\ report' = IF stage = "analyse" THEN report \ {m} ELSE report
  /\ UNCHANGED <<cfg, swallowed, stage, round, text, places, errors, records, ends, ctl, fatal, classified>>

\* _analyse_one's handlers.  A StageError of a module is recorded and passed over where that
\* is allowed, with a failed round unless the last round is on record; any other exception
\* is dropped with the thread's result.
Ended(m, kind, rounds) ==
  /\ Moved(m, "done")
  /\ soft' = IF kind = "error" /\ cfg.soft THEN soft \cup {<<"analyse", m>>} ELSE soft
  /\ errors' = IF kind = "fatal" \/ (kind = "error" /\ ~cfg.soft) THEN errors \cup {kind} ELSE errors
  /\ fatal' = (fatal \/ kind = "fatal")
  /\ failures' = Recorded(failures, m, rounds \/ (kind = "error" /\ cfg.soft))

\* The worker's call: it may write the report, in any round.
Write(m) ==
  /\ stage = "analyse" /\ thread[m].at = "work" /\ Returned(m)
  /\ report' \in {report, report \cup {m}}
  /\ \/ /\ "ok" \in Answers(m) /\ Moved(m, "judge")
        /\ UNCHANGED <<errors, soft, failures, fatal>>
     \/ \E a \in (Answers(m) \ {"ok"}) \cup {"odd"} : Ended(m, a, FALSE)
  /\ UNCHANGED <<cfg, swallowed, stage, round, text, places, completed, ends, classified>>

\* The judges' calls and what follows.  Enough wishes to regroup end the module, unanalysed.
\* A vote ends it with or without a report; out of rounds, a report is enough where that
\* is configured.
Judge(m) ==
  LET n == thread[m].round
  IN  /\ stage = "analyse" /\ thread[m].at = "judge" /\ Returned(m)
      /\ UNCHANGED <<cfg, swallowed, stage, round, text, places, report, ends, classified>>
      /\ \/ /\ "ok" \in Answers(m)
            /\ \E r \in Reviews :
                 LET regroup == Wanted(r) # {} /\ Voted(Wanted(r))
                     passed  == ~regroup /\ Passes(r) /\ n >= cfg.min
                     forced  == ~regroup /\ Reached3(n) /\ m \in report /\ cfg.force
                 IN  /\ completed' = Recorded(completed, m, (passed \/ forced) /\ m \in report)
                     /\ \/ /\ regroup /\ Ended(m, "none", TRUE)
                        \/ /\ passed \/ forced
                           /\ Ended(m, "none", FALSE)
                        \/ /\ ~regroup /\ ~passed /\ ~forced /\ Reached3(n)
                           /\ Ended(m, "error", TRUE)
                        \/ /\ ~regroup /\ ~passed /\ ~forced /\ ~Reached3(n)
                           /\ thread' = [thread EXCEPT ![m] = [at |-> "work", round |-> Up(n)]]
                           /\ UNCHANGED <<soft, errors, failures, fatal>>
         \/ /\ \E a \in Answers(m) \ {"ok"} : Ended(m, a, FALSE)
            /\ UNCHANGED completed

\* Mutant: what may be passed over is passed over, the fatal error with it.
JoinSoft ==
  /\ stage = "analyse" /\ \A m \in Modules : thread[m].at \in {"none", "done"}
  /\ IF errors = {} \/ cfg.soft THEN GoTo("complete")
     ELSE Raise(IF "fatal" \in errors THEN "fatal" ELSE "error")
  /\ UNCHANGED <<cfg, swallowed, text, places, report, thread, errors, records, ctl, classified>>

\* All threads are done: a fatal error goes first.
Join ==
  /\ stage = "analyse" /\ \A m \in Modules : thread[m].at \in {"none", "done"}
  /\ IF errors = {} THEN GoTo("complete")
     ELSE Raise(IF "fatal" \in errors THEN "fatal" ELSE "error")
  /\ UNCHANGED <<cfg, swallowed, text, places, report, thread, errors, records, ctl, classified>>

-----------------------------------------------------------------------------
(* Stage 4 and the end of the run.                                         *)

\* CompletenessCheckStage: judges look for modules without a report; with any vote against
\* and a module named, the missing ones are done again.
Complete ==
  /\ stage = "complete"
  /\ IF ~cfg.check
     THEN GoTo("report") /\ UNCHANGED ctl
     ELSE /\ Returned("main")
          /\ \E a \in Answers("main") :
               IF a # "ok" THEN Raise(a)
               ELSE \E again \in BOOLEAN :
                      /\ again => Discovered # {} /\ Judges # {}
                      /\ GoTo(IF again THEN "redo" ELSE "report")
  /\ UNCHANGED <<cfg, swallowed, text, places, report, thread, errors, records, classified>>

\* _redo_missing: a refine call for each of them.  They all fail and may; or one fails the
\* run; or after one answers a Future is put into the prompt as text, and the TypeError ends it.
Redo ==
  /\ stage = "redo" /\ Returned("main")
  /\ \/ \E bad \in (SUBSET Discovered) \ {{}} :
          /\ cfg.soft /\ GoTo("report")
          /\ soft' = soft \cup ({"redo"} \X bad) /\ failures' = failures \cup bad
     \/ \E a \in Answers("main") :
          /\ a = "error" => ~cfg.soft
          /\ Raise(IF a = "ok" THEN "odd" ELSE a) /\ UNCHANGED <<soft, failures>>
  /\ UNCHANGED <<cfg, swallowed, text, places, report, thread, errors, completed, classified>>

\* _write_fallback_final_report: it needs one report of a module.
Summed == Discovered \cap report # {}

\* FinalReportStage: a report of its own when no module is left, else the reports of the
\* modules in one; none at all fails the stage.
Report ==
  /\ stage = "report"
  /\ IF Discovered = {} \/ Summed
     THEN stage' = "over" /\ outcome' = "passed" /\ final' = TRUE /\ UNCHANGED <<round, flag, fatal>>
     ELSE Raise("error")
  /\ UNCHANGED <<cfg, swallowed, text, places, report, thread, errors, records, ctl, classified>>

-----------------------------------------------------------------------------
(* The super-fast pipeline (_run_w): a round ends the work when the        *)
(* program finds its output well formed; at the last round it is taken as  *)
(* it is where that is configured, else it is an error, and max_rounds = 0 *)
(* is no limit.                                                            *)

\* SuperFastClassifyStage: it needs one module with a file, and drops what the filter did not
\* keep.
Sort ==
  LET last == Reached3(Up(round))
  IN  /\ stage = "sort" /\ Returned("main")
      /\ UNCHANGED <<cfg, swallowed, text, trash, recover, gone, backup, report, errors, records>>
      /\ \/ /\ "ok" \in Answers("main")
            /\ \E to \in [listed -> Modules \cup {None}] :
                 list' = [m \in Modules |-> {f \in listed : to[f] = m}]
            /\ \/ /\ Discovered' # {} \/ (last /\ cfg.force)
                  /\ GoTo("recut") /\ thread' = Waiting(list') /\ classified' = Kept'
               \/ /\ Discovered' = {} /\ ~(last /\ cfg.force) /\ UNCHANGED <<thread, classified>>
                  /\ IF last THEN Raise("error")
                     ELSE round' = Up(round) /\ UNCHANGED <<stage, ends, fatal>>
         \/ /\ \E a \in Answers("main") \ {"ok"} : Raise(a)
            /\ UNCHANGED <<list, thread, classified>>

\* One more round of the module's thread.
Again(m) ==
  /\ ~Reached3(thread[m].round)
  /\ thread' = [thread EXCEPT ![m].round = Up(@)]

\* _commit_r: files go to other modules or to deleted.list; those in split/_merge_to go
\* nowhere.
Recommit(m) == \E to \in [list[m] -> Modules \cup {"deleted", "dropped"}] :
  /\ list' = [x \in Modules |-> {f \in list[m] : to[f] = x} \cup IF x = m THEN {} ELSE list[x]]
  /\ gone' = gone \cup {f \in list[m] : to[f] = "deleted"}

\* SuperFastRefineStage: whatever is raised is only logged, and leaves the module as the
\* agent left it.
Recut(m) ==
  /\ stage = "recut" /\ thread[m].at = "work" /\ Returned(m)
  /\ \/ "ok" \in Answers(m) /\ Recommit(m) /\ Moved(m, "done") /\ UNCHANGED fatal
     \/ "ok" \in Answers(m) /\ Again(m) /\ UNCHANGED <<list, gone, fatal>>
     \/ /\ \E a \in Answers(m) \ {"ok"} : fatal' = (fatal \/ a = "fatal")
        /\ \E left \in SUBSET list[m] : list' = [list EXCEPT ![m] = left]
        /\ Moved(m, "done") /\ UNCHANGED gone
  /\ UNCHANGED <<cfg, swallowed, stage, round, text, trash, recover, backup, report, errors, records, ends,
                 classified>>

\* SuperFastAnalyseStage.
Rate(m) ==
  /\ stage = "rate" /\ thread[m].at = "work" /\ Returned(m)
  /\ report' \in {report, report \cup {m}}
  /\ \/ /\ "ok" \in Answers(m) /\ Moved(m, "done") /\ UNCHANGED fatal
        /\ m \in report' \/ (Reached3(thread[m].round) /\ cfg.force)
     \/ "ok" \in Answers(m) /\ Again(m) /\ UNCHANGED fatal
     \/ /\ \E a \in Answers(m) \ {"ok"} : fatal' = (fatal \/ a = "fatal")
        /\ Moved(m, "done")
  /\ UNCHANGED <<cfg, swallowed, stage, round, text, places, errors, records, ends, classified>>

\* The end of either stage; SuperFastReportStage follows the second one, and leaves no
\* report where no module has one.
FastJoin ==
  /\ stage \in {"recut", "rate"} /\ \A m \in Modules : thread[m].at \in {"none", "done"}
  /\ IF stage = "recut"
     THEN GoTo("rate") /\ thread' = Waiting(list)
     ELSE /\ stage' = "over" /\ outcome' = "passed" /\ final' = Summed
          /\ UNCHANGED <<round, thread, flag, fatal>>
  /\ UNCHANGED <<cfg, swallowed, text, places, report, errors, records, ctl, classified>>

-----------------------------------------------------------------------------
(* The end.                                                                *)

\* Mutant: an error of the task leaves no report.
ExcusedFailure == final \/ outcome = "failed"

\* write_failure_report, where there is no report yet.
Excused == final \/ outcome \in {"failed", "error"}

\* The last lines of execute: a report of its own for a failure, and the flag.  The report
\* and the archive of the run may raise, and the exception leaves execute.
Finish ==
  /\ stage = "over" /\ stage' = "end"
  /\ \/ /\ final' = Excused
        /\ flag' = IF outcome = "passed" THEN "1" ELSE "0"
        /\ UNCHANGED outcome
     \/ final' \in {final, Excused} /\ outcome' = "raised" /\ UNCHANGED flag
  /\ UNCHANGED <<cfg, swallowed, round, text, places, report, thread, errors, records, ctl, fatal,
                 classified>>

\* Orchestrator.stop.
Cancel ==
  /\ stage \notin {"start", "over", "end"} /\ ~cancelled
  /\ cancelled' = TRUE
  /\ late' = IF stage \in Pools THEN Running ELSE IF stage \in Calls THEN {"main"} ELSE {}
  /\ UNCHANGED <<cfg, swallowed, stage, round, text, places, report, thread, errors, records, ends, fatal,
                 classified>>

Stages ==
  \/ SyncFails \/ Start \/ AgentFilter \/ ScriptFilter \/ Identify \/ Unknown \/ Explore
  \/ Prepare \/ Preread \/ Validate
  \/ ClassifySkips \/ Classify \/ Check \/ SiftSkips \/ Sift \/ Review \/ Refine
  \/ Join \/ Complete \/ Redo \/ Report \/ Sort \/ FastJoin \/ Finish

Module(m) == Begin(m) \/ Write(m) \/ Judge(m) \/ Recut(m) \/ Rate(m)

Next == Stages \/ (\E m \in Modules : Module(m)) \/ Cancel

\* The main thread and the threads of the pool go on; every call of an agent ends.
Fairness == WF_vars(Stages) /\ \A m \in Modules : WF_vars(Module(m))

Spec == Init /\ [][Next]_vars /\ Fairness

-----------------------------------------------------------------------------
(* Properties.                                                             *)

\* A run that is over left a final report, whatever way it took to its end, but for one in
\* super-fast mode without any report of a module; and the flag says 1 exactly when the task
\* passed (the flag is read by whoever waits for output/).
EndsWithReport ==
  stage = "end" /\ outcome # "raised" =>
    /\ final \/ (cfg.fast /\ ~Summed)
    /\ flag = "1" <=> outcome = "passed"

\* An agent's fatal error in any thread fails the task, also when other modules of the
\* stage failed first or module failures are passed over; but for the agents of the filter
\* engine, whom the script replaces, and those that summarise the files of a module in
\* stage 2 (swallowed).
FatalFails == fatal /\ ~cfg.fast => outcome # "passed"

\* From stage 1.5 up to stage 2 a file that had a module is in a module, in the backup or
\* on deleted.list, and not both in a module and on deleted.list, whatever is removed,
\* copied back and restored in whatever rounds (for stage 2 see module Refine).
FilesAccounted ==
  ~cfg.fast =>
    /\ classified \subseteq Kept \cup gone \cup UNION {backup[m] : m \in Modules}
    /\ classified \cap Kept \cap gone = {}

\* write_summary: the failed modules of the evaluation.
FailedModules == failures \ completed

\* A failure of a module that was passed over is a failed module in the summary of the
\* evaluation, whichever exception ended it.
SoftIsRecorded ==
  \A m \in Modules : /\ <<"analyse", m>> \in soft => m \in FailedModules
                     /\ \A s \in {"refine", "redo"} : <<s, m>> \in soft => m \in failures

\* A cancelled run ends, also when rounds have no limit.
CancelEnds == cancelled ~> stage = "end"

(* Statements the code does not keep (README, section 4).                  *)

\* A fatal error of any agent fails the task.
AnyFatalFails == (fatal \/ swallowed) /\ ~cfg.fast => outcome # "passed"

\* A cancelled run does not pass.
CancelledFails == cancelled /\ stage = "end" => outcome # "passed"

\* filtered_files.txt stays what the filter engine made it.
ListIsRestored == stage \in {"classify", "check", "sift", "refine"} => listed = filtered

\* A passed task has a report, or a failure on record, for each of its modules.
EveryModuleTold ==
  stage = "end" /\ outcome = "passed" => Discovered \subseteq report \cup failures

\* Super-fast mode: a fatal error fails the task, a task that passed has a report, and no
\* file is lost.
FastFatalFails == fatal => outcome # "passed"
FastEndsWithReport == stage = "end" /\ outcome = "passed" => final
FastKeepsFiles == classified \subseteq Kept \cup gone \cup UNION {backup[m] : m \in Modules}

\* What the judges of stage 1 want back is not deleted.
RecoveredIsKept == stage = "sift" => recover \cap gone = {}
=============================================================================
