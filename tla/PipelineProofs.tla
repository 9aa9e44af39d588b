--------------------------- MODULE PipelineProofs ---------------------------
(***************************************************************************)
(* Proofs about Pipeline, for any target, modules, judges, threads and     *)
(* configurations.                                                         *)
(***************************************************************************)
EXTENDS Pipeline, TLAPS

\* The stages of super-fast mode.
FastStages == stage \in {"sort", "recut", "rate"} => cfg.fast

\* A fatal error is still in the list of errors, or has failed the run.
FatalIsTold ==
  fatal /\ ~cfg.fast => \/ stage = "analyse" /\ "fatal" \in errors
                        \/ stage \in {"over", "end"} /\ outcome = "failed"
                        \/ stage = "end" /\ outcome = "raised"

\* Before the last lines of execute a run has its outcome, and its report if it passed.
OverIsTold ==
  stage = "over" => /\ outcome \in {"passed", "failed", "error"}
                    /\ outcome = "passed" => final \/ (cfg.fast /\ ~Summed)

\* No run has an outcome before.
Unended == stage \notin {"over", "end"} => outcome = "running"

EndInv == FastStages /\ Unended /\ FatalIsTold /\ OverIsTold /\ EndsWithReport

-----------------------------------------------------------------------------
(* How a run ends.                                                         *)

\* An exception ends a run in a way that satisfies the invariant.
LEMMA RaiseEnds ==
  ASSUME EndInv, cfg' = cfg, NEW kind, Raise(kind), stage \notin {"over", "end"},
         kind = "odd" => stage # "analyse"
  PROVE  EndInv'
BY DEF EndInv, FastStages, Unended, FatalIsTold, OverIsTold, EndsWithReport, Raise

\* A stage follows another one without an error.
LEMMA GoEnds ==
  ASSUME EndInv, cfg' = cfg, NEW s, GoTo(s), s \notin {"over", "end"},
         stage \notin {"analyse", "over", "end"},
         s \in {"sort", "recut", "rate"} => cfg.fast
  PROVE  EndInv'
BY DEF EndInv, FastStages, Unended, FatalIsTold, OverIsTold, EndsWithReport, GoTo, ends

LEMMA StagesEnd == EndInv /\ Stages => EndInv'
<1> SUFFICES ASSUME EndInv, Stages PROVE EndInv'
  OBVIOUS
<1> USE DEF ends
<1>1. CASE SyncFails \/ Start
  BY <1>1 DEF SyncFails, Start, EndInv, FastStages, Unended, FatalIsTold, OverIsTold, EndsWithReport
<1>9. CASE Finish
  <2>1. Summed' = Summed
    BY <1>9 DEF Finish, Summed, Discovered, places
  <2>2. cfg' = cfg /\ fatal' = fatal /\ stage = "over" /\ stage' = "end"
    BY <1>9 DEF Finish
  <2>3. CASE /\ final' = (final \/ outcome \in {"failed", "error"}) /\ outcome' = outcome
             /\ flag' = IF outcome = "passed" THEN "1" ELSE "0"
    <3>1. EndsWithReport'
      BY <2>1, <2>2, <2>3 DEF EndInv, OverIsTold, EndsWithReport
    <3>2. FatalIsTold'
      BY <2>2, <2>3 DEF EndInv, FatalIsTold
    <3> QED
      BY <2>2, <3>1, <3>2 DEF EndInv, FastStages, Unended, OverIsTold
  <2>4. CASE outcome' = "raised"
    BY <2>2, <2>4 DEF EndInv, FastStages, Unended, FatalIsTold, OverIsTold, EndsWithReport
  <2> QED
    BY <1>9, <2>3, <2>4 DEF Finish, Excused
<1>2. CASE AgentFilter
  BY <1>2, GoEnds DEF AgentFilter, First
<1>3. CASE ScriptFilter
  <2>1. cfg' = cfg /\ stage = "script"
    BY <1>3 DEF ScriptFilter
  <2>2. CASE GoTo(First)
    BY <2>1, <2>2, GoEnds DEF First
  <2>3. CASE stage' = "over" /\ outcome' = "passed" /\ final' = TRUE /\ fatal' = fatal
    BY <2>1, <2>3 DEF EndInv, FastStages, Unended, FatalIsTold, OverIsTold, EndsWithReport
  <2> QED
    BY <1>3, <2>2, <2>3 DEF ScriptFilter
<1>4. CASE Identify \/ Prepare \/ Validate \/ SiftSkips \/ ClassifySkips
  BY <1>4, GoEnds DEF Identify, Prepare, Validate, Plain, SiftSkips, ClassifySkips
<1>5. CASE Unknown \/ Explore \/ Preread
  BY <1>5, GoEnds, RaiseEnds DEF Unknown, Explore, Preread, Sole, Answers
<1>6. CASE Classify
  <2>1. cfg' = cfg /\ stage = "classify"
    BY <1>6 DEF Classify
  <2>2. CASE \E kind \in {"error", "fatal"} : Raise(kind)
    BY <2>1, <2>2, RaiseEnds
  <2>3. CASE stage' = "check" /\ UNCHANGED <<ends, fatal>>
    BY <2>1, <2>3 DEF EndInv, FastStages, Unended, FatalIsTold, OverIsTold, EndsWithReport
  <2> QED
    BY <1>6, <2>2, <2>3 DEF Classify, Answers
<1>7. CASE Check
  <2>1. cfg' = cfg /\ stage = "check"
    BY <1>7 DEF Check
  <2>2. CASE \E kind \in {"error", "fatal"} : Raise(kind)
    BY <2>1, <2>2, RaiseEnds
  <2>3. CASE stage' = "classify" /\ UNCHANGED <<ends, fatal>>
    BY <2>1, <2>3 DEF EndInv, FastStages, Unended, FatalIsTold, OverIsTold, EndsWithReport
  <2>4. CASE GoTo("sift")
    BY <2>1, <2>4, GoEnds
  <2> QED
    BY <1>7, <2>2, <2>3, <2>4 DEF Check, Answers
<1>8. CASE Sift
  <2>1. cfg' = cfg /\ stage = "sift"
    BY <1>8 DEF Sift
  <2>2. CASE \E kind \in {"error", "fatal"} : Raise(kind)
    BY <2>1, <2>2, RaiseEnds
  <2>3. CASE stage' = "review" /\ UNCHANGED <<ends, fatal>>
    BY <2>1, <2>3 DEF EndInv, FastStages, Unended, FatalIsTold, OverIsTold, EndsWithReport
  <2> QED
    BY <1>8, <2>2, <2>3 DEF Sift, Answers
<1>10. CASE Review
  <2>1. cfg' = cfg /\ stage = "review"
    BY <1>10 DEF Review
  <2>2. CASE \E kind \in {"error", "fatal"} : Raise(kind)
    BY <2>1, <2>2, RaiseEnds
  <2>3. CASE stage' = "sift" /\ UNCHANGED <<ends, fatal>>
    BY <2>1, <2>3 DEF EndInv, FastStages, Unended, FatalIsTold, OverIsTold, EndsWithReport
  <2>4. CASE GoTo("refine")
    BY <2>1, <2>4, GoEnds
  <2> QED
    BY <1>10, <2>2, <2>3, <2>4 DEF Review, Answers
<1>11. CASE Refine
  <2>1. cfg' = cfg /\ stage = "refine"
    BY <1>11 DEF Refine
  <2>2. CASE \E kind \in {"error", "fatal"} : Raise(kind)
    BY <2>1, <2>2, RaiseEnds
  <2>3. CASE GoTo("analyse")
    BY <2>1, <2>3, GoEnds
  <2> QED
    BY <1>11, <2>2, <2>3 DEF Refine, Answers
<1>12. CASE Join
  <2>1. cfg' = cfg /\ stage = "analyse" /\ errors' = errors
    BY <1>12 DEF Join
  <2>2. CASE errors # {}
    <3>1. \E kind \in {"error", "fatal"} : Raise(kind)
      BY <1>12, <2>2 DEF Join
    <3> QED
      BY <2>1, <3>1, RaiseEnds
  <2>3. CASE errors = {}
    <3>1. GoTo("complete") /\ ~(fatal /\ ~cfg.fast)
      BY <1>12, <2>1, <2>3 DEF Join, EndInv, FatalIsTold
    <3> QED
      BY <2>1, <3>1 DEF GoTo, EndInv, FastStages, Unended, FatalIsTold, OverIsTold, EndsWithReport
  <2> QED
    BY <2>2, <2>3
<1>13. CASE Complete \/ Redo
  <2>1. cfg' = cfg /\ stage \in {"complete", "redo"}
    BY <1>13 DEF Complete, Redo
  <2>2. CASE \E kind \in {"error", "fatal", "odd"} : Raise(kind)
    BY <2>1, <2>2, RaiseEnds
  <2>3. CASE \E s \in {"redo", "report"} : GoTo(s)
    BY <2>1, <2>3, GoEnds
  <2> QED
    BY <1>13, <2>2, <2>3 DEF Complete, Redo, Answers
<1>14. CASE Report
  <2>1. cfg' = cfg /\ stage = "report"
    BY <1>14 DEF Report
  <2>2. CASE Raise("error")
    BY <2>1, <2>2, RaiseEnds
  <2>3. CASE stage' = "over" /\ outcome' = "passed" /\ final' = TRUE /\ fatal' = fatal
    BY <2>1, <2>3 DEF EndInv, FastStages, Unended, FatalIsTold, OverIsTold, EndsWithReport
  <2> QED
    BY <1>14, <2>2, <2>3 DEF Report
<1>15. CASE Sort
  <2>1. cfg' = cfg /\ stage = "sort" /\ cfg.fast
    BY <1>15 DEF Sort, EndInv, FastStages
  <2>2. CASE \E kind \in {"error", "fatal"} : Raise(kind)
    BY <2>1, <2>2, RaiseEnds
  <2>3. CASE GoTo("recut")
    BY <2>1, <2>3, GoEnds
  <2>4. CASE UNCHANGED <<stage, ends, fatal>>
    BY <2>1, <2>4 DEF EndInv, FastStages, Unended, FatalIsTold, OverIsTold, EndsWithReport
  <2> QED
    BY <1>15, <2>2, <2>3, <2>4 DEF Sort, Answers
<1>16. CASE FastJoin
  <2>1. cfg' = cfg /\ stage \in {"recut", "rate"} /\ cfg.fast
    BY <1>16 DEF FastJoin, EndInv, FastStages
  <2>2. CASE GoTo("rate")
    BY <2>1, <2>2, GoEnds
  <2>3. CASE stage' = "over" /\ outcome' = "passed" /\ final' = Summed
    <3>1. Summed' = Summed
      BY <1>16 DEF FastJoin, Summed, Discovered, places
    <3> QED
      BY <2>1, <2>3, <3>1 DEF EndInv, FastStages, Unended, FatalIsTold, OverIsTold, EndsWithReport
  <2> QED
    BY <1>16, <2>2, <2>3 DEF FastJoin
<1> QED
  BY <1>1, <1>2, <1>3, <1>4, <1>5, <1>6, <1>7, <1>8, <1>9, <1>10, <1>11, <1>12, <1>13, <1>14,
     <1>15, <1>16 DEF Stages

\* The threads of a stage put a fatal error on the list when they raise it.
LEMMA ModulesEnd == \A m \in Modules : EndInv /\ Module(m) => EndInv'
<1> SUFFICES ASSUME NEW m \in Modules, EndInv, Module(m) PROVE EndInv'
  OBVIOUS
<1>1. cfg' = cfg /\ UNCHANGED <<stage, ends>> /\ stage \in {"analyse", "recut", "rate"}
  BY DEF Module, Begin, Write, Judge, Recut, Rate, Pools
<1>2. FatalIsTold'
  <2>1. CASE fatal' = fatal /\ errors' = errors
    BY <1>1, <2>1 DEF EndInv, FatalIsTold
  <2>2. CASE stage = "analyse" /\ \E kind, rounds : Ended(m, kind, rounds)
    BY <1>1, <2>2 DEF Ended, EndInv, FatalIsTold
  <2>3. CASE stage \in {"recut", "rate"}
    BY <1>1, <2>3 DEF EndInv, FastStages, Unended, FatalIsTold
  <2>4. Begin(m) => fatal' = fatal /\ errors' = errors
    BY DEF Begin
  <2>5. Write(m) => stage = "analyse" /\ (\/ fatal' = fatal /\ errors' = errors
                                          \/ \E kind, rounds : Ended(m, kind, rounds))
    BY DEF Write
  <2>6. Judge(m) => stage = "analyse" /\ (\/ fatal' = fatal /\ errors' = errors
                                          \/ \E kind, rounds : Ended(m, kind, rounds))
    BY DEF Judge
  <2>7. Recut(m) \/ Rate(m) => stage \in {"recut", "rate"}
    BY DEF Recut, Rate
  <2> QED
    BY <2>1, <2>2, <2>3, <2>4, <2>5, <2>6, <2>7 DEF Module
<1> QED
  BY <1>1, <1>2 DEF EndInv, FastStages, Unended, OverIsTold, EndsWithReport, ends

LEMMA EndInvAlways == Spec => []EndInv
<1>1. Init => EndInv
  BY DEF Init, EndInv, FastStages, Unended, FatalIsTold, OverIsTold, EndsWithReport
<1>2. EndInv /\ Cancel => EndInv'
  BY DEF Cancel, EndInv, FastStages, Unended, FatalIsTold, OverIsTold, EndsWithReport, ends, Summed,
         Discovered, places
<1>3. EndInv /\ UNCHANGED vars => EndInv'
  BY DEF vars, EndInv, FastStages, Unended, FatalIsTold, OverIsTold, EndsWithReport, ends, Summed,
         Discovered, places
<1>4. EndInv /\ [Next]_vars => EndInv'
  BY <1>2, <1>3, StagesEnd, ModulesEnd DEF Next
<1> QED
  BY <1>1, <1>4, PTL DEF Spec

\* A fatal error that reaches a stage fails the task outside super-fast mode, whatever other
\* failures and configuration there are (AnalyseStage's list of errors, Orchestrator.execute).
\* The agents of the filter engine and of stage 2's file summaries are not among them: their
\* callers drop the error (helpers.collect_file_summaries).
THEOREM FatalErrorsFail == Spec => []FatalFails
<1>1. EndInv => FatalFails
  BY DEF EndInv, Unended, FatalIsTold, FatalFails
<1> QED
  BY <1>1, EndInvAlways, PTL

\* A run that is over has its report, and the flag that says how it ended (the last lines
\* of Orchestrator.execute).
THEOREM EveryEndIsReported == Spec => []EndsWithReport
<1>1. EndInv => EndsWithReport
  BY DEF EndInv
<1> QED
  BY <1>1, EndInvAlways, PTL

-----------------------------------------------------------------------------
(* Types.                                                                  *)

\* The helpers of the stages.
LEMMA RoundTypes ==
  ASSUME TypeOK
  PROVE  /\ round \in Nat /\ Up(round) \in 1 .. RoundCap /\ 0 \in 0 .. RoundCap
         /\ \A m \in Modules : Up(thread[m].round) \in 0 .. RoundCap
         /\ Idle \in ThreadType
         /\ \A t \in ThreadType :
              /\ \A at \in {"wait", "work", "judge", "done"} : [t EXCEPT !.at = at] \in ThreadType
              /\ \A r \in 0 .. RoundCap : /\ [t EXCEPT !.round = r] \in ThreadType
                                         /\ [at |-> "work", round |-> r] \in ThreadType
<1>1. round \in 0 .. RoundCap /\ RoundCap \in Nat \ {0}
  BY PipelineAssumption DEF TypeOK
<1>2. \A n \in 0 .. RoundCap : Up(n) \in 1 .. RoundCap
  BY <1>1 DEF Up
<1>3. \A m \in Modules : thread[m].round \in 0 .. RoundCap
  BY DEF TypeOK, ThreadType
<1>4. Idle \in ThreadType
  BY <1>1 DEF Idle, ThreadType
<1>5. ASSUME NEW t \in ThreadType
      PROVE  /\ \A at \in {"wait", "work", "judge", "done"} : [t EXCEPT !.at = at] \in ThreadType
             /\ \A r \in 0 .. RoundCap : /\ [t EXCEPT !.round = r] \in ThreadType
                                        /\ [at |-> "work", round |-> r] \in ThreadType
  BY DEF ThreadType
<1>6. Up(round) \in 1 .. RoundCap
  BY <1>1, <1>2
<1>7. \A m \in Modules : Up(thread[m].round) \in 0 .. RoundCap
  BY <1>1, <1>2, <1>3
<1> QED
  BY <1>1, <1>4, <1>5, <1>6, <1>7

\* The lists of the files.
LEMMA TextTypes ==
  ASSUME TypeOK, [Next]_vars
  PROVE  filtered' \subseteq Files /\ listed' \subseteq Files /\ saved' \subseteq SUBSET Files
<1>0. filtered \subseteq Files /\ listed \subseteq Files /\ saved \subseteq SUBSET Files
  BY DEF TypeOK
<1>1. CASE AgentFilter
  BY <1>0, <1>1 DEF AgentFilter, WriteFilter, Filterings, text
<1>2. CASE ScriptFilter
  BY <1>0, <1>2 DEF ScriptFilter
<1>3. CASE Explore
  BY <1>0, <1>3 DEF Explore, Sole
<1>4. CASE UNCHANGED text
  BY <1>0, <1>4 DEF text
<1>5. Unknown \/ Preread => UNCHANGED text
  BY DEF Unknown, Preread, Sole, text
<1> QED
  BY <1>1, <1>2, <1>3, <1>4, <1>5
     DEF Next, Stages, Module, SyncFails, Start, Identify, Prepare, Validate, Plain, ClassifySkips,
         Classify, Check, SiftSkips, Sift, Review, Refine, Join, Complete, Redo, Report, Sort,
         FastJoin, Finish, Begin, Write, Judge, Recut, Rate, Cancel, vars

\* The places of the files.
LEMMA PlaceTypes ==
  ASSUME TypeOK, [Next]_vars
  PROVE  /\ list' \in [Modules -> SUBSET Files] /\ backup' \in [Modules -> SUBSET Files]
         /\ trash' \subseteq Files /\ recover' \subseteq Files /\ gone' \subseteq Files
         /\ classified' \subseteq Files
<1>0. /\ list \in [Modules -> SUBSET Files] /\ backup \in [Modules -> SUBSET Files]
      /\ trash \subseteq Files /\ recover \subseteq Files /\ gone \subseteq Files
      /\ classified \subseteq Files /\ listed \subseteq Files
  BY DEF TypeOK
<1>1. \A l \in [Modules -> SUBSET Files] : UNION {l[m] : m \in Modules} \subseteq Files
  OBVIOUS
<1> DEFINE Goal == /\ list' \in [Modules -> SUBSET Files] /\ backup' \in [Modules -> SUBSET Files]
                   /\ trash' \subseteq Files /\ recover' \subseteq Files /\ gone' \subseteq Files
                   /\ classified' \subseteq Files
<1>2. CASE UNCHANGED places /\ classified' \in {classified, Kept}
  BY <1>0, <1>1, <1>2 DEF places, Kept
<1>3. CASE AgentFilter
  BY <1>0, <1>3 DEF AgentFilter, WriteFilter, Filterings
<1>4. CASE Classify
  BY <1>0, <1>4 DEF Classify
<1>5. CASE Check
  BY <1>0, <1>1, <1>5 DEF Check, Kept
<1>6. CASE Sift
  BY <1>0, <1>6 DEF Sift, BackedUp
<1>7. CASE Review
  BY <1>0, <1>7 DEF Review, Removed, NoFiles
<1>8. CASE Refine
  BY <1>0, <1>1, <1>8 DEF Refine, Scattered, Kept
<1>9. CASE Sort
  <2>1. list' \in [Modules -> SUBSET Files]
    BY <1>0, <1>9 DEF Sort
  <2>2. classified' = classified \/ classified' = Kept'
    BY <1>9 DEF Sort
  <2> QED
    BY <1>0, <1>1, <1>9, <2>1, <2>2 DEF Sort, Kept
<1>10. ASSUME NEW m \in Modules, Recut(m) PROVE Goal
  BY <1>0, <1>10 DEF Recut, Recommit
<1>11. Unknown \/ Preread \/ Explore => UNCHANGED <<places, classified>>
  BY DEF Unknown, Preread, Explore, Sole
<1> QED
  BY <1>2, <1>3, <1>4, <1>5, <1>6, <1>7, <1>8, <1>9, <1>10, <1>11
     DEF Next, Stages, Module, SyncFails, Start, ScriptFilter, Identify, Prepare, Validate, Plain,
         ClassifySkips, SiftSkips, Join, Complete, Redo, Report, FastJoin, Finish, Begin, Write,
         Judge, Rate, Cancel, vars

\* Where a run is and how it ends.
LEMMA StageTypes ==
  ASSUME TypeOK, [Next]_vars
  PROVE  /\ cfg' \in Configs
         /\ stage' \in Calls \cup Pools \cup
              {"start", "script", "identify", "prepare", "validate", "report", "over", "end"}
         /\ round' \in 0 .. RoundCap
<1>0. cfg \in Configs /\ round \in 0 .. RoundCap
  BY DEF TypeOK
<1>1. cfg' = cfg
  BY DEF Next, Stages, Module, SyncFails, Start, AgentFilter, ScriptFilter, Identify, Unknown,
         Explore, Prepare, Preread, Validate, Plain, Sole, ClassifySkips, Classify, Check,
         SiftSkips, Sift, Review, Refine, Join, Complete, Redo, Report, Sort, FastJoin, Finish,
         Begin, Write, Judge, Recut, Rate, Cancel, vars
<1>2. stage' \in Calls \cup Pools \cup
        {"start", "script", "identify", "prepare", "validate", "report", "over", "end"}
  <2>0. stage \in Calls \cup Pools \cup
          {"start", "script", "identify", "prepare", "validate", "report", "over", "end"}
    BY DEF TypeOK
  <2>1. CASE \E m \in Modules : Module(m)
    BY <2>0, <2>1 DEF Module, Begin, Write, Judge, Recut, Rate
  <2>2. CASE Cancel \/ UNCHANGED vars
    BY <2>0, <2>2 DEF Cancel, vars
  <2>3. CASE Stages
    BY <2>0, <2>3
       DEF Calls, Pools, GoTo, Raise, First, Stages, SyncFails, Start, AgentFilter, ScriptFilter,
           Identify, Unknown, Explore, Prepare, Preread, Validate, Plain, Sole, ClassifySkips,
           Classify, Check, SiftSkips, Sift, Review, Refine, Join, Complete, Redo, Report, Sort,
           FastJoin, Finish
  <2> QED
    BY <2>1, <2>2, <2>3 DEF Next
<1>3. round' \in 0 .. RoundCap
  <2>0. Up(round) \in 0 .. RoundCap /\ 0 \in 0 .. RoundCap
    BY RoundTypes
  <2>1. round' \in {0, round, Up(round)}
    BY DEF GoTo, Raise, Next, Stages, Module, SyncFails, Start, AgentFilter, ScriptFilter, Identify,
           Unknown, Explore, Prepare, Preread, Validate, Plain, Sole, ClassifySkips, Classify,
           Check, SiftSkips, Sift, Review, Refine, Join, Complete, Redo, Report, Sort, FastJoin,
           Finish, Begin, Write, Judge, Recut, Rate, Cancel, vars
  <2> QED
    BY <1>0, <2>0, <2>1
<1> QED
  BY <1>0, <1>1, <1>2, <1>3

\* The outcome, and what a cancellation leaves.
LEMMA OutcomeTypes ==
  ASSUME TypeOK, [Next]_vars
  PROVE  /\ outcome' \in {"running", "passed", "failed", "error", "raised"}
         /\ flag' \in {"none", "0", "1"} /\ final' \in BOOLEAN /\ fatal' \in BOOLEAN
         /\ swallowed' \in BOOLEAN
         /\ cancelled' \in BOOLEAN /\ late' \subseteq Modules \cup {"main"}
<1>0. /\ outcome \in {"running", "passed", "failed", "error", "raised"}
      /\ flag \in {"none", "0", "1"} /\ final \in BOOLEAN /\ fatal \in BOOLEAN
      /\ swallowed \in BOOLEAN
      /\ cancelled \in BOOLEAN /\ late \subseteq Modules \cup {"main"}
  BY DEF TypeOK
<1>1. outcome' \in {"running", "passed", "failed", "error", "raised"}
  BY <1>0
     DEF GoTo, Raise, Next, Stages, Module, SyncFails, Start, AgentFilter, ScriptFilter, Identify,
         Unknown, Explore, Prepare, Preread, Validate, Plain, Sole, ClassifySkips, Classify, Check,
         SiftSkips, Sift, Review, Refine, Join, Complete, Redo, Report, Sort, FastJoin, Finish,
         Begin, Write, Judge, Recut, Rate, Cancel, vars, ends
<1>2. flag' \in {"none", "0", "1"}
  BY <1>0
     DEF GoTo, Raise, Next, Stages, Module, SyncFails, Start, AgentFilter, ScriptFilter, Identify,
         Unknown, Explore, Prepare, Preread, Validate, Plain, Sole, ClassifySkips, Classify, Check,
         SiftSkips, Sift, Review, Refine, Join, Complete, Redo, Report, Sort, FastJoin, Finish,
         Begin, Write, Judge, Recut, Rate, Cancel, vars, ends
<1>3. final' \in BOOLEAN
  BY <1>0
     DEF GoTo, Raise, Next, Stages, Module, SyncFails, Start, AgentFilter, ScriptFilter, Identify,
         Unknown, Explore, Prepare, Preread, Validate, Plain, Sole, ClassifySkips, Classify, Check,
         SiftSkips, Sift, Review, Refine, Join, Complete, Redo, Report, Sort, FastJoin, Finish,
         Begin, Write, Judge, Recut, Rate, Cancel, vars, ends, Excused, Summed
<1>4. fatal' \in BOOLEAN
  <2>1. ASSUME NEW b, fatal' = (fatal \/ b) PROVE fatal' \in BOOLEAN
    BY <1>0, <2>1
  <2>2. ASSUME NEW kind, Raise(kind) PROVE fatal' \in BOOLEAN
    BY <2>1, <2>2 DEF Raise
  <2>3. ASSUME NEW m, NEW kind, NEW rounds, Ended(m, kind, rounds) PROVE fatal' \in BOOLEAN
    BY <2>1, <2>3 DEF Ended
  <2>4. CASE fatal' = fatal
    BY <1>0, <2>4
  <2>5. ASSUME NEW m \in Modules, Module(m) PROVE fatal' \in BOOLEAN
    <3>1. \/ fatal' = fatal \/ \E kind, rounds : Ended(m, kind, rounds)
          \/ \E a : fatal' = (fatal \/ a = "fatal")
      BY <2>5 DEF Module, Begin, Write, Judge, Recut, Rate
    <3> QED
      BY <2>1, <2>3, <2>4, <3>1
  <2>6. CASE Stages
    <3>1. fatal' = fatal \/ \E kind : Raise(kind)
      BY <2>6
         DEF GoTo, Stages, SyncFails, Start, AgentFilter, ScriptFilter, Identify, Unknown, Explore,
             Prepare, Preread, Validate, Plain, Sole, ClassifySkips, Classify, Check, SiftSkips,
             Sift, Review, Refine, Join, Complete, Redo, Report, Sort, FastJoin, Finish
    <3> QED
      BY <2>2, <2>4, <3>1
  <2>7. Cancel \/ UNCHANGED vars => fatal' = fatal
    BY DEF Cancel, vars
  <2> QED
    BY <2>4, <2>5, <2>6, <2>7 DEF Next
<1>5. cancelled' \in BOOLEAN
  BY <1>0
     DEF Returned, Next, Stages, Module, SyncFails, Start, AgentFilter, ScriptFilter, Identify,
         Unknown, Explore, Prepare, Preread, Validate, Plain, Sole, ClassifySkips, Classify, Check,
         SiftSkips, Sift, Review, Refine, Join, Complete, Redo, Report, Sort, FastJoin, Finish,
         Begin, Write, Judge, Recut, Rate, Cancel, vars, ctl
<1>6. late' \subseteq Modules \cup {"main"}
  BY <1>0
     DEF Returned, Running, Next, Stages, Module, SyncFails, Start, AgentFilter, ScriptFilter,
         Identify, Unknown, Explore, Prepare, Preread, Validate, Plain, Sole, ClassifySkips,
         Classify, Check, SiftSkips, Sift, Review, Refine, Join, Complete, Redo, Report, Sort,
         FastJoin, Finish, Begin, Write, Judge, Recut, Rate, Cancel, vars, ctl
<1>7. swallowed' \in BOOLEAN
  BY <1>0
     DEF Swallows, Next, Stages, Module, SyncFails, Start, AgentFilter, ScriptFilter, Identify,
         Unknown, Explore, Prepare, Preread, Validate, Plain, Sole, ClassifySkips, Classify, Check,
         SiftSkips, Sift, Review, Refine, Join, Complete, Redo, Report, Sort, FastJoin, Finish,
         Begin, Write, Judge, Recut, Rate, Cancel, vars
<1> QED
  BY <1>1, <1>2, <1>3, <1>4, <1>5, <1>6, <1>7

\* The threads and what they record.
LEMMA ThreadTypes ==
  ASSUME TypeOK, [Next]_vars
  PROVE  /\ thread' \in [Modules -> ThreadType] /\ errors' \subseteq {"error", "fatal"}
         /\ soft' \subseteq {"refine", "analyse", "redo"} \X Modules
         /\ report' \subseteq Modules /\ completed' \subseteq Modules
         /\ failures' \subseteq Modules
<1>0. /\ thread \in [Modules -> ThreadType] /\ errors \subseteq {"error", "fatal"}
      /\ soft \subseteq {"refine", "analyse", "redo"} \X Modules
      /\ report \subseteq Modules /\ completed \subseteq Modules
      /\ failures \subseteq Modules
  BY DEF TypeOK
<1>1. \A l : Waiting(l) \in [Modules -> ThreadType]
  BY RoundTypes DEF Waiting, ThreadType, Idle
<1> DEFINE Goal == /\ thread' \in [Modules -> ThreadType] /\ errors' \subseteq {"error", "fatal"}
                   /\ soft' \subseteq {"refine", "analyse", "redo"} \X Modules
                   /\ report' \subseteq Modules /\ completed' \subseteq Modules
                   /\ failures' \subseteq Modules
<1>2. ASSUME NEW m \in Modules, NEW at \in {"wait", "work", "judge", "done"}, Moved(m, at)
      PROVE  thread' \in [Modules -> ThreadType]
  BY <1>0, <1>2, RoundTypes DEF Moved
<1>3. ASSUME NEW m \in Modules, NEW r \in 0 .. RoundCap,
             \/ thread' = [thread EXCEPT ![m] = [at |-> "work", round |-> r]]
             \/ thread' = [thread EXCEPT ![m] = [thread[m] EXCEPT !.round = r]]
      PROVE  thread' \in [Modules -> ThreadType]
  <2>1. thread[m] \in ThreadType
    BY <1>0
  <2>2. [at |-> "work", round |-> r] \in ThreadType
    BY <2>1, RoundTypes
  <2>3. [thread[m] EXCEPT !.round = r] \in ThreadType
    BY <2>1, RoundTypes
  <2> QED
    BY <1>0, <1>3, <2>2, <2>3
<1>4. ASSUME NEW m \in Modules, NEW kind, NEW rounds, Ended(m, kind, rounds)
      PROVE  /\ thread' \in [Modules -> ThreadType] /\ errors' \subseteq {"error", "fatal"}
             /\ soft' \subseteq {"refine", "analyse", "redo"} \X Modules
             /\ failures' \subseteq Modules
  <2>1. thread' \in [Modules -> ThreadType]
    BY <1>2, <1>4 DEF Ended
  <2>2. errors' \subseteq {"error", "fatal"}
    <3>1. errors' = errors \/ (errors' = errors \cup {kind} /\ kind \in {"error", "fatal"})
      BY <1>4 DEF Ended
    <3> QED
      BY <1>0, <3>1
  <2>3. soft' = soft \/ soft' = soft \cup {<<"analyse", m>>}
    BY <1>4 DEF Ended
  <2>4. failures' = failures \/ failures' = failures \cup {m}
    BY <1>4 DEF Ended, Recorded
  <2> QED
    BY <1>0, <2>1, <2>2, <2>3, <2>4
<1>5. ASSUME NEW m \in Modules, Begin(m) PROVE Goal
  <2>1. 1 \in 0 .. RoundCap
    BY PipelineAssumption
  <2> QED
    BY <1>0, <1>3, <1>5, <2>1 DEF Begin, records
<1>6. ASSUME NEW m \in Modules, Write(m) PROVE Goal
  <2>1. report' \subseteq Modules /\ completed' = completed
    BY <1>0, <1>6 DEF Write
  <2>2. \/ Moved(m, "judge") /\ UNCHANGED <<errors, soft, failures>>
        \/ \E kind, rounds : Ended(m, kind, rounds)
    BY <1>6 DEF Write
  <2> QED
    BY <1>0, <1>2, <1>4, <2>1, <2>2
<1>7. ASSUME NEW m \in Modules, Judge(m) PROVE Goal
  <2>1. report' = report /\ completed' \subseteq Modules
    BY <1>0, <1>7 DEF Judge, Recorded
  <2>2. \/ \E kind, rounds : Ended(m, kind, rounds)
        \/ /\ thread' = [thread EXCEPT ![m] = [at |-> "work", round |-> Up(thread[m].round)]]
           /\ UNCHANGED <<soft, errors, failures>>
    BY <1>7 DEF Judge
  <2> QED
    BY <1>0, <1>3, <1>4, <2>1, <2>2, RoundTypes
<1>8. ASSUME NEW m \in Modules, Recut(m) \/ Rate(m) PROVE Goal
  <2>1. UNCHANGED <<errors, records>> /\ report' \subseteq Modules
    BY <1>0, <1>8 DEF Recut, Rate
  <2>2. Moved(m, "done") \/ thread' = [thread EXCEPT ![m] = [thread[m] EXCEPT !.round = Up(thread[m].round)]]
    BY <1>8 DEF Recut, Rate, Again
  <2> QED
    BY <1>0, <1>2, <1>3, <2>1, <2>2, RoundTypes DEF records
<1>9. CASE Refine
  BY <1>0, <1>1, <1>9 DEF Refine, Discovered
<1>10. CASE Redo
  BY <1>0, <1>10 DEF Redo, Discovered
<1>11. CASE Sort \/ FastJoin
  <2>1. UNCHANGED <<errors, records, report>>
    BY <1>11 DEF Sort, FastJoin
  <2>2. thread' = thread \/ \E l : thread' = Waiting(l)
    BY <1>11 DEF Sort, FastJoin
  <2> QED
    BY <1>0, <1>1, <2>1, <2>2 DEF records
<1>12. CASE UNCHANGED <<thread, errors, records, report>>
  BY <1>0, <1>12 DEF records
<1> QED
  BY <1>5, <1>6, <1>7, <1>8, <1>9, <1>10, <1>11, <1>12
     DEF Next, Stages, Module, SyncFails, Start, AgentFilter, ScriptFilter, Identify, Unknown,
         Explore, Prepare, Preread, Validate, Plain, Sole, ClassifySkips, Classify, Check,
         SiftSkips, Sift, Review, Join, Complete, Report, Finish, Cancel, vars

\* Every variable of a run keeps its type (Orchestrator and its stages).
THEOREM TypesHold == Spec => []TypeOK
<1>1. Init => TypeOK
  <2> SUFFICES ASSUME Init PROVE TypeOK
    OBVIOUS
  <2>1. Idle \in ThreadType /\ 0 \in 0 .. RoundCap
    BY PipelineAssumption DEF Idle, ThreadType
  <2> QED
    BY <2>1 DEF Init, TypeOK, NoFiles
<1>2. TypeOK /\ [Next]_vars => TypeOK'
  BY StageTypes, TextTypes, PlaceTypes, ThreadTypes, OutcomeTypes DEF TypeOK
<1> QED
  BY <1>1, <1>2, PTL DEF Spec

-----------------------------------------------------------------------------
(* The files.                                                              *)

\* The stages before stage 1.5.
Early == {"start", "filter", "script", "identify", "unknown", "explore", "prepare", "preread",
          "validate", "classify", "check"}

\* The stages up to stage 2.
Open == Early \cup {"sift", "review", "refine"}

Parted(l) == \A m, k \in Modules : m # k => l[m] \cap l[k] = {}
In(l)     == UNION {l[m] : m \in Modules}

\* Between the copy and the end of stage 1.5 each module is as in the backup, or gone.
Copied ==
  /\ Parted(backup)
  /\ \A m \in Modules : list[m] \in {backup[m], {}}
  /\ classified \subseteq gone \cup In(backup)
  /\ In(backup) \cap gone = {}

Filed ==
  ~cfg.fast =>
    /\ stage \in Open => Parted(list) /\ In(list) \cap gone = {}
    /\ stage \in Early => classified = {} /\ gone = {} /\ backup = NoFiles
    /\ stage = "check" => In(list) \cap trash = {}
    /\ stage = "sift" /\ round = 0 => backup = NoFiles
    /\ stage = "review" => round > 0
    /\ stage = "review" \/ (stage = "sift" /\ round > 0) => Copied
    /\ classified \subseteq In(list) \cup gone \cup In(backup)
    /\ classified \cap In(list) \cap gone = {}

FileInv == TypeOK /\ FastStages /\ Filed

\* Each file goes to one place at most.
LEMMA Partition ==
  ASSUME NEW D, NEW to, list' = [m \in Modules |-> {f \in D : to[f] = m}]
  PROVE  Parted(list)'
BY DEF Parted

\* Nothing that stage 1 or later does to the files is done by the other stages.
LEMMA OtherFiled ==
  ASSUME Filed, UNCHANGED <<list, gone, backup, classified, cfg>>,
         \/ UNCHANGED <<stage, round, trash>>
         \/ stage' \in Early /\ stage' # "check" /\ stage \in Early
         \/ stage' \notin Open
         \/ stage' = "refine" /\ stage \in Open
  PROVE  Filed'
BY DEF Filed, Open, Early, Parted, In, Copied, NoFiles

\* The first worker of stage 1 and the agent engine.
LEMMA EarlyFiled ==
  ASSUME Filed, UNCHANGED <<gone, backup, classified, cfg>>, stage \in Early,
         NEW D, NEW to, list' = [m \in Modules |-> {f \in D : to[f] = m}],
         stage' \in Early \cup {"sort"},
         stage' = "check" => trash' = {f \in D : to[f] = "deleted"} /\ "deleted" \notin Modules
  PROVE  Filed'
<1>1. Parted(list)'
  BY Partition
<1>2. stage' = "check" => In(list)' \cap trash' = {}
  BY DEF In
<1> QED
  BY <1>1, <1>2 DEF Filed, Open, Early, In, Copied, NoFiles

\* Stages 0 and 1.
LEMMA EarlySteps ==
  ASSUME FileInv,
         SyncFails \/ Start \/ AgentFilter \/ ScriptFilter \/ Identify \/ Unknown \/ Explore
           \/ Prepare \/ Preread \/ Validate \/ ClassifySkips \/ Classify \/ Check
  PROVE  Filed'
<1>0. TypeOK /\ Filed
  BY DEF FileInv
<1>1. CASE SyncFails \/ Start \/ ScriptFilter \/ Identify \/ Prepare \/ Validate
  <2>1. UNCHANGED <<places, classified, cfg>> /\ stage \in Early
    BY <1>1 DEF SyncFails, Start, ScriptFilter, Identify, Prepare, Validate, Plain, Early
  <2>2. stage' \in Early \cup {"sort", "end", "over"} /\ stage' # "check"
    BY <1>1 DEF SyncFails, Start, ScriptFilter, Identify, Prepare, Validate, Plain, Early, First,
                GoTo
  <2>3. stage' \in Early \/ stage' \notin Early \cup {"sift", "review"}
    BY <2>2
  <2> QED
    BY <1>0, <2>1, <2>2, <2>3, OtherFiled DEF places, Open, Early
<1>2. CASE Unknown \/ Explore \/ Preread
  <2>1. UNCHANGED <<places, classified, cfg>> /\ stage \in Early
    BY <1>2 DEF Unknown, Explore, Preread, Sole, Early
  <2>2. stage' \in {"explore", "prepare", "validate", "over"}
    BY <1>2 DEF Unknown, Explore, Preread, Sole, GoTo, Raise
  <2> QED
    BY <1>0, <2>1, <2>2, OtherFiled DEF places, Open, Early
<1>3. CASE AgentFilter
  <2>1. stage \in Early /\ UNCHANGED <<gone, backup, classified, cfg>>
    BY <1>3 DEF AgentFilter, Early
  <2>2. CASE GoTo("script") /\ list' = list
    BY <1>0, <2>1, <2>2, OtherFiled DEF GoTo, Early
  <2>3. CASE GoTo(First) /\ \E to : WriteFilter(to)
    <3>1. PICK to : WriteFilter(to)
      BY <2>3
    <3>2. list' = [m \in Modules |-> {f \in DOMAIN to : to[f] = m}]
      BY <3>1 DEF WriteFilter
    <3>3. stage' \in Early \cup {"sort"} /\ stage' # "check"
      BY <2>3 DEF GoTo, First, Early
    <3> QED
      BY <1>0, <2>1, <3>2, <3>3, EarlyFiled
  <2> QED
    BY <1>3, <2>2, <2>3 DEF AgentFilter
<1>4. CASE ClassifySkips
  <2>1. /\ stage = "classify" /\ stage' = "sift" /\ classified' = In(list)
        /\ UNCHANGED <<list, gone, backup, cfg>>
    BY <1>4 DEF ClassifySkips, GoTo, Kept, In, places
  <2>2. round' = 0
    BY <1>4 DEF ClassifySkips, GoTo
  <2> QED
    BY <1>0, <2>1, <2>2 DEF Filed, Open, Early, In, Parted
<1>5. CASE Classify
  <2>1. stage = "classify" /\ UNCHANGED <<gone, backup, classified, cfg>>
    BY <1>5 DEF Classify
  <2>2. CASE stage' = "over" /\ list' = list
    BY <1>0, <2>1, <2>2, OtherFiled DEF Open, Early
  <2>3. CASE stage' = "check" /\ \E to : /\ list' = [m \in Modules |-> {f \in listed : to[f] = m}]
                                        /\ trash' = {f \in listed : to[f] = "deleted"}
    BY <1>0, <2>1, <2>3, EarlyFiled, PipelineAssumption DEF Early
  <2> QED
    BY <1>5, <2>2, <2>3 DEF Classify, Raise
<1>6. CASE Check
  <2>1. stage = "check" /\ UNCHANGED <<list, backup, cfg>>
    BY <1>6 DEF Check
  <2>2. CASE stage' \in {"over", "classify"} /\ UNCHANGED <<gone, classified>>
    BY <1>0, <2>1, <2>2, OtherFiled DEF Open, Early
  <2>3. CASE GoTo("sift") /\ gone' = gone \cup trash /\ classified' = Kept
    BY <1>0, <2>1, <2>3 DEF GoTo, Filed, Open, Early, In, Parted, Kept
  <2> QED
    BY <1>6, <2>2, <2>3 DEF Check, Raise
<1> QED
  BY <1>1, <1>2, <1>3, <1>4, <1>5, <1>6

\* Stage 1.5 puts a module back from its copy or removes it, whatever it did before.
LEMMA SiftStep == FileInv /\ Sift => Filed'
<1> SUFFICES ASSUME FileInv, Sift, ~cfg.fast PROVE Filed'
  BY DEF Sift, Filed
<1>0. TypeOK /\ Filed /\ stage = "sift" /\ UNCHANGED <<gone, classified, cfg>>
  BY DEF FileInv, Sift
<1>1. /\ Parted(list) /\ classified \subseteq In(list) \cup gone \cup In(backup)
      /\ In(list) \cap gone = {}
      /\ round = 0 => backup = NoFiles
      /\ round > 0 => Copied
  BY <1>0 DEF Filed, Open, Early
<1>2. /\ backup' = BackedUp /\ Parted(BackedUp)
      /\ classified \subseteq gone \cup In(BackedUp) /\ In(BackedUp) \cap gone = {}
  <2>1. CASE round = 0
    BY <1>1, <2>1 DEF Sift, BackedUp, In, NoFiles
  <2>2. CASE round # 0
    BY <1>0, <1>1, <2>2, RoundTypes DEF Sift, BackedUp, Copied
  <2> QED
    BY <2>1, <2>2
<1>3. \A m \in Modules : list'[m] \in {BackedUp[m], {}}
  <2>1. CASE list' = list
    <3>1. \A m \in Modules : list[m] \in {BackedUp[m], {}}
      BY <1>0, <1>1, RoundTypes DEF BackedUp, Copied
    <3> QED
      BY <2>1, <3>1
  <2>2. CASE \E stay : list' = [m \in Modules |-> IF m \in stay THEN BackedUp[m] ELSE {}]
    BY <2>2
  <2> QED
    BY <2>1, <2>2 DEF Sift
<1>4. stage' \in {"review", "over"}
  BY DEF Sift, Raise
<1>5. Copied'
  BY <1>0, <1>2, <1>3 DEF Copied, Parted, In
<1>6. Parted(list)' /\ (In(list) \cap gone = {})'
  BY <1>0, <1>2, <1>3 DEF Parted, In
<1>7. (classified \subseteq In(list) \cup gone \cup In(backup))'
  BY <1>0, <1>2 DEF In
<1>8. stage' = "review" => round' > 0
  BY RoundTypes, <1>0 DEF Sift, Raise
<1> QED
  BY <1>0, <1>4, <1>5, <1>6, <1>7, <1>8 DEF Filed, Open, Early

\* What stage 1.5 removes goes to deleted.list before the copy is dropped.
LEMMA ReviewStep == FileInv /\ Review => Filed'
<1> SUFFICES ASSUME FileInv, Review, ~cfg.fast PROVE Filed'
  BY DEF Review, Filed
<1>0. TypeOK /\ Filed /\ stage = "review" /\ UNCHANGED <<list, classified, cfg>>
  BY DEF FileInv, Review
<1>1. Copied /\ Parted(list) /\ In(list) \cap gone = {} /\ round > 0
  BY <1>0 DEF Filed, Open, Early
<1>2. CASE GoTo("refine") /\ gone' = gone \cup Removed /\ backup' = NoFiles
  <2>1. Removed = UNION {backup[m] : m \in {k \in Modules : list[k] = {}}}
    BY DEF Removed, Discovered
  <2>2. In(list) \cap Removed = {}
    <3> SUFFICES ASSUME NEW m \in Modules, NEW k \in Modules, list[k] = {},
                        NEW f \in list[m], f \in backup[k]
                 PROVE  FALSE
      BY <2>1 DEF In
    <3>1. m # k /\ f \in backup[m]
      BY <1>1 DEF Copied
    <3> QED
      BY <3>1, <1>1 DEF Copied, Parted
  <2>3. In(backup) \subseteq In(list) \cup Removed
    <3> SUFFICES ASSUME NEW m \in Modules, NEW f \in backup[m]
                 PROVE  f \in In(list) \cup Removed
      BY DEF In
    <3>1. CASE list[m] = {}
      BY <2>1, <3>1
    <3>2. CASE list[m] = backup[m]
      BY <3>2 DEF In
    <3> QED
      BY <3>1, <3>2, <1>1 DEF Copied
  <2>4. (classified \subseteq In(list) \cup gone \cup In(backup))'
    BY <1>0, <1>1, <1>2, <2>3 DEF Copied, In
  <2>5. (In(list) \cap gone = {})'
    BY <1>0, <1>1, <1>2, <2>2 DEF In
  <2> QED
    BY <1>0, <1>1, <1>2, <2>4, <2>5 DEF Filed, GoTo, Early, Parted
<1>3. CASE stage' \in {"sift", "over"} /\ UNCHANGED <<gone, backup>>
  <2>1. stage' = "sift" => round' = round
    BY DEF Review, GoTo, Raise
  <2>2. Copied'
    BY <1>0, <1>1, <1>3 DEF Copied, Parted, In
  <2>3. stage' = "sift" => round' > 0
    BY <1>1, <2>1
  <2> QED
    BY <1>0, <1>1, <1>3, <2>2, <2>3 DEF Filed, Open, Early, Parted, In
<1> QED
  BY <1>2, <1>3 DEF Review, Raise

\* Stage 2 takes the files over.
LEMMA RefineStep == FileInv /\ Refine => Filed'
<1>1. Refine => classified' = {} /\ stage' \in {"analyse", "over"}
  BY DEF Refine, GoTo, Raise
<1> QED
  BY <1>1 DEF Filed, Open, Early

LEMMA FileInvAlways == Spec => []FileInv
<1>1. Init => Filed
  BY DEF Init, Filed, Early, NoFiles, In, Parted
<1>2. FileInv /\ [Next]_vars => Filed'
  <2> SUFFICES ASSUME FileInv, [Next]_vars PROVE Filed'
    OBVIOUS
  <2>0. TypeOK /\ FastStages /\ Filed
    BY DEF FileInv
  <2>1. CASE \/ SyncFails \/ Start \/ AgentFilter \/ ScriptFilter \/ Identify \/ Unknown \/ Explore
             \/ Prepare \/ Preread \/ Validate \/ ClassifySkips \/ Classify \/ Check
    BY <2>1, EarlySteps
  <2>2. CASE Sift \/ Review \/ Refine
    BY <2>2, SiftStep, ReviewStep, RefineStep
  <2>3. CASE Sort \/ FastJoin \/ \E m \in Modules : Recut(m) \/ Rate(m)
    <3>1. cfg.fast /\ cfg' = cfg
      BY <2>0, <2>3 DEF Sort, FastJoin, Recut, Rate, FastStages
    <3> QED
      BY <3>1 DEF Filed
  <2>4. CASE SiftSkips \/ Join \/ Complete \/ Redo \/ Report \/ Finish
    <3>1. UNCHANGED <<places, classified, cfg>>
      BY <2>4 DEF SiftSkips, Join, Complete, Redo, Report, Finish
    <3>2. \/ stage' \in {"complete", "redo", "report", "over", "end"}
          \/ stage' = "refine" /\ stage = "sift"
      BY <2>4 DEF SiftSkips, Join, Complete, Redo, Report, Finish, GoTo, Raise
    <3> QED
      BY <2>0, <3>1, <3>2, OtherFiled DEF places, Open, Early
  <2>5. CASE Cancel \/ UNCHANGED vars \/ \E m \in Modules : Begin(m) \/ Write(m) \/ Judge(m)
    <3>1. UNCHANGED <<places, classified, cfg, stage, round>>
      BY <2>5 DEF Cancel, vars, Begin, Write, Judge
    <3> QED
      BY <2>0, <3>1, OtherFiled DEF places, Open, Early
  <2> QED
    BY <2>1, <2>2, <2>3, <2>4, <2>5 DEF Next, Stages, Module
<1>3. EndInv => FastStages
  BY DEF EndInv
<1>4. Spec => []Filed
  BY <1>1, <1>2, <1>3, TypesHold, EndInvAlways, PTL DEF Spec, FileInv
<1> QED
  BY <1>3, <1>4, TypesHold, EndInvAlways, PTL DEF FileInv

\* Between the start of stage 1.5 and stage 2 no file that has a module is lost, and none is
\* both in a module and deleted: what the agents of stage 1.5 remove is in the copy until it
\* is on deleted.list, in whatever round (SecurityFocusFilterStage).
THEOREM NoFileVanishes == Spec => []FilesAccounted
<1>1. FileInv => FilesAccounted
  BY DEF FileInv, Filed, FilesAccounted, Kept, In
<1> QED
  BY <1>1, FileInvAlways, PTL
-----------------------------------------------------------------------------
(* Failures that were passed over.                                         *)

\* Stage 3 has a last word about the module: a failure it passed over, or a completed round.
Settled(m) == <<"analyse", m>> \in soft \/ m \in completed

\* From stage 3 on.
Late == stage \in {"analyse", "complete", "redo", "report", "over", "end"}

\* The thread of such a module is done, and stays so.
SoftInv ==
  /\ SoftIsRecorded
  /\ \A m \in Modules : Settled(m) => thread[m].at = "done" /\ Late

\* A step that changes no record and does not begin the stage anew.
LEMMA SoftKept ==
  ASSUME SoftInv, UNCHANGED records,
         \/ \A m \in Modules : ~Settled(m)
         \/ Late' /\ \A m \in Modules : thread[m].at = "done" => thread'[m].at = "done"
  PROVE  SoftInv'
BY DEF SoftInv, SoftIsRecorded, FailedModules, records, Settled

\* More failures of the other stages are on record, and passed over.
LEMMA SoftAdded ==
  ASSUME SoftInv, NEW s \in {"refine", "redo"}, NEW bad, completed' = completed,
         soft' = soft \cup ({s} \X bad), failures' = failures \cup bad,
         \/ \A m \in Modules : ~Settled(m)
         \/ Late' /\ thread' = thread
  PROVE  SoftInv'
<1>1. \A m \in Modules : <<"analyse", m>> \in soft' => <<"analyse", m>> \in soft
  OBVIOUS
<1>2. \A m \in Modules, x \in {"refine", "redo"} :
        <<x, m>> \in soft' => <<x, m>> \in soft \/ m \in bad
  OBVIOUS
<1> QED
  BY <1>1, <1>2 DEF SoftInv, SoftIsRecorded, FailedModules, Settled

LEMMA SoftStages == SoftInv /\ Stages => SoftInv'
<1> SUFFICES ASSUME SoftInv, Stages PROVE SoftInv'
  OBVIOUS
<1>0. ~Late => \A m \in Modules : ~Settled(m)
  BY DEF SoftInv
<1>1. CASE SyncFails \/ Start \/ AgentFilter \/ ScriptFilter \/ Identify \/ Unknown \/ Explore
  <2>1. ~Late /\ UNCHANGED records
    BY <1>1 DEF Late, SyncFails, Start, AgentFilter, ScriptFilter, Identify, Unknown, Explore, Plain, Sole
  <2> QED
    BY <1>0, <2>1, SoftKept
<1>2. CASE Prepare \/ Preread \/ Validate \/ ClassifySkips \/ Classify \/ Check \/ SiftSkips \/ Sift \/ Review
  <2>1. ~Late /\ UNCHANGED records
    BY <1>2 DEF Late, Prepare, Preread, Validate, ClassifySkips, Classify, Check, SiftSkips, Sift, Review,
                Plain, Sole, records
  <2> QED
    BY <1>0, <2>1, SoftKept
<1>3. CASE Refine
  <2>0. ~Late
    BY <1>3 DEF Refine, Late
  <2>1. completed' = completed
    BY <1>3 DEF Refine
  <2>2. \/ UNCHANGED <<soft, failures>>
        \/ \E bad : soft' = soft \cup ({"refine"} \X bad) /\ failures' = failures \cup bad
    BY <1>3 DEF Refine
  <2>3. CASE UNCHANGED <<soft, failures>>
    BY <1>0, <2>0, <2>1, <2>3, SoftKept DEF records
  <2>4. CASE \E bad : soft' = soft \cup ({"refine"} \X bad) /\ failures' = failures \cup bad
    BY <1>0, <2>0, <2>1, <2>4, SoftAdded
  <2> QED
    BY <2>2, <2>3, <2>4
<1>4. CASE Redo
  <2>1. completed' = completed /\ thread' = thread /\ Late'
    BY <1>4 DEF Redo, GoTo, Raise, Late
  <2>2. \/ UNCHANGED <<soft, failures>>
        \/ \E bad : soft' = soft \cup ({"redo"} \X bad) /\ failures' = failures \cup bad
    BY <1>4 DEF Redo
  <2>3. CASE UNCHANGED <<soft, failures>>
    BY <2>1, <2>3, SoftKept DEF records
  <2>4. CASE \E bad : soft' = soft \cup ({"redo"} \X bad) /\ failures' = failures \cup bad
    BY <2>1, <2>4, SoftAdded
  <2> QED
    BY <2>2, <2>3, <2>4
<1>5. CASE Join \/ Complete \/ Report \/ Finish
  <2>1. UNCHANGED records /\ thread' = thread /\ Late'
    BY <1>5 DEF Join, Complete, Report, Finish, GoTo, Raise, Late
  <2> QED
    BY <2>1, SoftKept
<1>6. CASE Sort \/ FastJoin
  <2>1. ~Late /\ UNCHANGED records
    BY <1>6 DEF Late, Sort, FastJoin
  <2> QED
    BY <1>0, <2>1, SoftKept
<1> QED
  BY <1>1, <1>2, <1>3, <1>4, <1>5, <1>6 DEF Stages

\* The end of a module's thread in stage 3, by whichever exception or vote.
LEMMA SoftEnded ==
  ASSUME TypeOK, SoftInv, NEW m \in Modules, NEW kind, NEW rounds \in BOOLEAN,
         stage = "analyse", stage' = stage, thread[m].at # "done", Ended(m, kind, rounds),
         completed' \subseteq completed \cup {m}, kind = "error" => completed' = completed
  PROVE  SoftInv'
<1>1. ~Settled(m)
  BY DEF SoftInv
<1>2. \A x \in Modules : thread'[x].at = IF x = m THEN "done" ELSE thread[x].at
  BY DEF Ended, Moved, TypeOK, ThreadType
<1>3. /\ soft' = soft \/ (kind = "error" /\ soft' = soft \cup {<<"analyse", m>>} /\ m \in failures')
      /\ failures \subseteq failures'
  BY DEF Ended, Recorded
<1>4. \A x \in Modules, s \in {"refine", "redo"} : <<s, x>> \in soft' => <<s, x>> \in soft
  BY <1>3
<1>5. \A x \in Modules : x # m => (Settled(x)' => Settled(x))
  BY <1>3 DEF Settled
<1>6. ASSUME NEW x \in Modules, <<"analyse", x>> \in soft'
      PROVE  x \in failures' \ completed'
  <2>1. CASE x = m
    BY <1>1, <1>3, <1>6, <2>1 DEF Settled
  <2>2. CASE x # m
    <3>1. <<"analyse", x>> \in soft
      BY <1>3, <1>6, <2>2
    <3>2. x \in failures /\ x \notin completed
      BY <3>1 DEF SoftInv, SoftIsRecorded, FailedModules
    <3> QED
      BY <1>3, <2>2, <3>2
  <2> QED
    BY <2>1, <2>2
<1>7. \A x \in Modules : Settled(x)' => thread'[x].at = "done" /\ Late'
  BY <1>2, <1>5 DEF SoftInv, Late
<1> QED
  BY <1>3, <1>4, <1>6, <1>7 DEF SoftInv, SoftIsRecorded, FailedModules

LEMMA SoftModules == \A m \in Modules : TypeOK /\ SoftInv /\ Module(m) => SoftInv'
<1> SUFFICES ASSUME TypeOK, SoftInv, NEW m \in Modules, Module(m) PROVE SoftInv'
  OBVIOUS
<1>1. CASE Begin(m)
  <2>1. /\ UNCHANGED records /\ stage' = stage
        /\ \A x \in Modules : thread[x].at = "done" => thread'[x].at = "done"
    BY <1>1 DEF Begin, TypeOK, ThreadType
  <2> QED
    BY <2>1, SoftKept DEF SoftInv, Late
<1>2. CASE Write(m)
  <2>1. /\ completed' = completed /\ stage = "analyse" /\ stage' = stage /\ thread[m].at = "work"
        /\ \/ Moved(m, "judge") /\ UNCHANGED <<soft, failures>>
           \/ \E a : Ended(m, a, FALSE)
    BY <1>2 DEF Write
  <2>2. CASE Moved(m, "judge") /\ UNCHANGED <<soft, failures>>
    <3>1. \A x \in Modules : thread[x].at = "done" => thread'[x].at = "done"
      BY <2>1, <2>2 DEF Moved, TypeOK, ThreadType
    <3> QED
      BY <2>1, <2>2, <3>1, SoftKept DEF records, Late
  <2>3. ASSUME NEW a, Ended(m, a, FALSE) PROVE SoftInv'
    BY <2>1, <2>3, SoftEnded
  <2> QED
    BY <2>1, <2>2, <2>3
<1>3. CASE Judge(m)
  <2> DEFINE NextRound == thread' = [thread EXCEPT ![m] = [at |-> "work", round |-> Up(thread[m].round)]]
  <2>1. stage = "analyse" /\ stage' = stage /\ thread[m].at = "judge"
    BY <1>3 DEF Judge
  <2>2. ASSUME NextRound, completed' = completed, UNCHANGED <<soft, failures>> PROVE SoftInv'
    <3>1. \A x \in Modules : thread[x].at = "done" => thread'[x].at = "done"
      BY <2>1, <2>2 DEF TypeOK, ThreadType
    <3> QED
      BY <2>1, <2>2, <3>1, SoftKept DEF records, Late
  <2>3. ASSUME NEW a, NEW rounds \in BOOLEAN, Ended(m, a, rounds), completed' = completed
        PROVE  SoftInv'
    BY <2>1, <2>3, SoftEnded
  <2>4. ASSUME completed' \subseteq completed \cup {m}, NEW rounds \in BOOLEAN, Ended(m, "none", rounds)
        PROVE  SoftInv'
    BY <2>1, <2>4, SoftEnded
  <2>5. CASE \E a \in Answers(m) \ {"ok"} : Ended(m, a, FALSE) /\ UNCHANGED completed
    BY <2>3, <2>5
  <2>6. ASSUME NEW r \in Reviews,
               LET regroup == Wanted(r) # {} /\ Voted(Wanted(r))
                   passed  == ~regroup /\ Passes(r) /\ thread[m].round >= cfg.min
                   forced  == ~regroup /\ Reached3(thread[m].round) /\ m \in report /\ cfg.force
               IN  /\ completed' = Recorded(completed, m, (passed \/ forced) /\ m \in report)
                   /\ \/ /\ regroup /\ Ended(m, "none", TRUE)
                      \/ /\ passed \/ forced
                         /\ Ended(m, "none", FALSE)
                      \/ /\ ~regroup /\ ~passed /\ ~forced /\ Reached3(thread[m].round)
                         /\ Ended(m, "error", TRUE)
                      \/ /\ ~regroup /\ ~passed /\ ~forced /\ ~Reached3(thread[m].round)
                         /\ NextRound
                         /\ UNCHANGED <<soft, errors, failures, fatal>>
        PROVE  SoftInv'
    <3>1. /\ completed' \subseteq completed \cup {m}
          /\ \/ Ended(m, "none", TRUE) \/ Ended(m, "none", FALSE)
             \/ Ended(m, "error", TRUE) /\ completed' = completed
             \/ NextRound /\ completed' = completed /\ UNCHANGED <<soft, failures>>
      BY <2>6 DEF Recorded
    <3> QED
      BY <2>2, <2>3, <2>4, <3>1
  <2> QED
    BY <1>3, <2>5, <2>6 DEF Judge
<1>4. CASE Recut(m) \/ Rate(m)
  <2>1. UNCHANGED records /\ ~Late
    BY <1>4 DEF Recut, Rate, Late
  <2> QED
    BY <2>1, SoftKept DEF SoftInv
<1> QED
  BY <1>1, <1>2, <1>3, <1>4 DEF Module

\* A failure of a module that was passed over is among the failed ones of the summary.
THEOREM SoftFailuresAreTold == Spec => []SoftIsRecorded
<1>1. Init => SoftInv
  BY DEF Init, SoftInv, SoftIsRecorded, Settled
<1>2. ASSUME TypeOK, SoftInv, [Next]_vars PROVE SoftInv'
  <2>1. CASE Stages
    BY <1>2, <2>1, SoftStages
  <2>2. CASE \E m \in Modules : Module(m)
    BY <1>2, <2>2, SoftModules
  <2>3. CASE Cancel \/ UNCHANGED vars
    <3>1. UNCHANGED <<records, thread, stage>>
      BY <2>3 DEF Cancel, vars
    <3> QED
      BY <1>2, <3>1, SoftKept DEF SoftInv, Late
  <2> QED
    BY <1>2, <2>1, <2>2, <2>3 DEF Next
<1>3. SoftInv => SoftIsRecorded
  BY DEF SoftInv
<1> QED
  BY <1>1, <1>2, <1>3, TypesHold, PTL DEF Spec
=============================================================================
