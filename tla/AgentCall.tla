----------------------------- MODULE AgentCall -----------------------------
(***************************************************************************)
(* One call of an agent, app/runner.py run_agent, from the stage that      *)
(* waits for it down to the process group of pi (app/agent_process.py).    *)
(* Four loops lie inside each other: recovery from an overflowing context, *)
(* restarts of a pi that crashed, retries of API errors, and the reading   *)
(* of the output of one pi process.                                        *)
(*                                                                         *)
(* The text of an error is a member of Errors, named for the patterns it   *)
(* matches.  pi is external: it says and does what it likes.               *)
(***************************************************************************)
EXTENDS Integers

CONSTANTS
  Timed,           \* run_timeout_seconds is given (failure_debug only)
  KeyAuthMax,      \* _KEY_AUTH_MAX_RETRIES
  QueryMax,        \* _QUERY_ENGINE_401_MAX_RETRIES
  OverflowMax,     \* _MAX_OVERFLOW_COMPACT_ATTEMPTS
  ActivationMax,   \* model_stuck_max_activations
  CrashMax,        \* _PI_CRASH_LOOP_MAX
  ApiMax,          \* max_retries: of pipe errors, no other error is counted against it
  PiMax, FatalMax  \* pi_max_retries, fatal_max_retries; -1: no limit

ASSUME AgentAssumption ==
  /\ Timed \in BOOLEAN
  /\ KeyAuthMax \in Nat /\ QueryMax \in Nat /\ OverflowMax \in Nat /\ ActivationMax \in Nat
  /\ CrashMax \in Nat \ {0}
  /\ ApiMax \in Int /\ PiMax \in Int /\ FatalMax \in Int

VARIABLES
  session,     \* the call has a session file
  big,         \* the prompt alone is over the limit
  cancel,      \* cancel_event
  at,          \* where the calling thread is
  group,       \* the process group: "none", "alive", or "leaked": the leader has exited
  registered,  \* the call is in the table of running agents
  quiet,       \* the stuck timeout has passed since the session file last changed
  content,     \* the session holds an answer
  ask,         \* effective_prompt
  said,        \* what this process has said: [msgs, out]
  result,      \* AgentResult: [err, code, fatal]
  n,           \* the counters
  verdict,     \* what the stage sees
  late,        \* history: processes started after the cancellation (2: or more)
  stray        \* history: a process was left to itself: what follows its start raised before
               \* anybody would kill it, or it outlived its killing

vars == <<session, big, cancel, at, group, registered, quiet, content, ask, said, result, n,
          verdict, late, stray>>
call == <<session, big>>
proc == <<group, registered, quiet, content, said>>

Errors == {"none", "fatal", "key", "noModel", "query", "api", "pipe", "overflow", "overflow500",
           "other"}

\* _is_retryable_api_error: the patterns "500", "502" and "503" also match the numbers
\* of tokens in the text of an overflow.
Retryable(e) == e \in {"api", "overflow500"}
Overflow(e)  == e \in {"overflow", "overflow500"}
Within(count, limit) == limit < 0 \/ count <= limit
Next1(count, limit)  == IF limit < 0 \/ count > limit THEN count ELSE count + 1

Silent == [msgs |-> FALSE, out |-> FALSE]
Blank  == [err |-> "none", code |-> 0, fatal |-> FALSE]
Zero   == [key |-> 0, query |-> 0, api |-> 0, acts |-> 0, pi |-> 0, crash |-> 0, fatal |-> 0,
           overflow |-> 0]

Results == [err : Errors, code : {0, 1}, fatal : BOOLEAN]
Counts  == [key : 0 .. KeyAuthMax + 1, query : 0 .. QueryMax + 1, api : Nat,
            acts : 0 .. ActivationMax, pi : Nat, crash : 0 .. CrashMax, fatal : Nat,
            overflow : 0 .. OverflowMax + 1]

TypeOK ==
  /\ session \in BOOLEAN /\ big \in BOOLEAN /\ cancel \in BOOLEAN
  /\ registered \in BOOLEAN /\ quiet \in BOOLEAN /\ content \in BOOLEAN
  /\ at \in {"preflight", "compact", "compacting", "top", "spawn", "running", "reaping",
             "classify", "sleep", "pi", "crashed", "pisleep", "answered", "returned"}
  /\ group \in {"none", "alive", "leaked"}
  /\ ask \in {"full", "continue"}
  /\ said \in [msgs : BOOLEAN, out : BOOLEAN] /\ result \in Results /\ n \in Counts
  /\ verdict \in {"waiting", "ok", "StageError", "PiFatalError", "error"}
  /\ late \in 0 .. 2 /\ stray \in BOOLEAN

Init ==
  /\ session \in BOOLEAN /\ big \in BOOLEAN
  /\ cancel \in BOOLEAN
  /\ at = "preflight"
  /\ group = "none" /\ registered = FALSE /\ quiet = FALSE
  /\ content \in {FALSE, session}
  /\ ask = "full" /\ said = Silent /\ result = Blank
  /\ n = Zero
  /\ verdict = "waiting" /\ late = 0 /\ stray = FALSE

Go(place) == at' = place
Stay      == UNCHANGED <<call, cancel, verdict>>
Idle      == UNCHANGED proc

\* A process starts; the table of running agents is keyed by the session file.
Starts  == late' = IF cancel /\ late < 2 THEN late + 1 ELSE late
Started == Starts /\ group' = "alive" /\ registered' = session

TriesUncounted ==  \* mutant: a compaction does not count as an attempt
  n.overflow
Tries == n.overflow + 1

KilledLeader(g) ==  \* mutant: the group is left alone when its leader has exited
  IF g = "leaked" THEN "leaked" ELSE "none"
\* terminate_tree: SIGTERM and then SIGKILL to the group; a group whose leader has
\* exited gets SIGKILL.
Killed(g) == "none"

\* Whether the group is gone then is waited for some seconds and not looked at again.
Kills == group' = Killed(group) /\ (UNCHANGED stray \/ (group # "none" /\ stray' = TRUE))

Ended == Kills /\ registered' = FALSE

-----------------------------------------------------------------------------
(* _run_with_context_overflow_recovery and the compaction of the session.  *)

\* The estimate looks at the prompt only, which no compaction makes shorter.
Preflight ==
  LET tries == Tries
  IN  /\ at = "preflight"
      /\ \/ ~big /\ Go("top") /\ n' = [n EXCEPT !.pi = 0, !.crash = 0, !.fatal = 0]
            /\ UNCHANGED result
         \/ ~big /\ Go("answered")       \* the directory of the task is gone
            /\ result' = [err |-> "other", code |-> 1, fatal |-> TRUE] /\ UNCHANGED n
         \/ big /\ session /\ tries <= OverflowMax
            /\ Go("compact") /\ n' = [n EXCEPT !.overflow = tries, !.pi = 0] /\ UNCHANGED result
         \/ big /\ (session => tries > OverflowMax)
            /\ Go("returned") /\ result' = [Blank EXCEPT !.err = "other"] /\ UNCHANGED n
      /\ said' = Silent
      /\ verdict' = IF at' = "returned" THEN "StageError" ELSE verdict
      /\ UNCHANGED <<call, cancel, group, registered, quiet, content, ask, late, stray>>

\* pi runs once more, for the command "compact".  A failure is the end of the call.
CompactFails ==
  /\ Go("returned")
  /\ verdict' = IF result.fatal THEN "PiFatalError" ELSE IF said.out THEN "ok" ELSE "StageError"

CompactStart ==
  /\ at = "compact"
  /\ \/ cancel /\ CompactFails /\ UNCHANGED <<group, registered, late, stray>>
     \/ ~cancel /\ Go("compacting") /\ Started /\ UNCHANGED <<verdict, stray>>
  /\ UNCHANGED <<call, cancel, quiet, content, ask, said, result, n>>

CompactEnd ==
  LET fails == n.pi + 1
  IN  /\ at = "compacting"
      /\ \/ Go("preflight") /\ UNCHANGED <<n, verdict>>
         \/ CompactFails /\ UNCHANGED n
         \/ /\ n' = [n EXCEPT !.pi = Next1(@, PiMax)]   \* no answer, or a crash
            /\ IF Within(fails, PiMax) /\ ~cancel
               THEN Go("compact") /\ UNCHANGED verdict
               ELSE CompactFails
      /\ Ended
      /\ UNCHANGED <<call, cancel, quiet, content, ask, said, result, late>>

-----------------------------------------------------------------------------
(* _run_with_pi_retry.                                                     *)

TopDeaf ==  \* mutant: the cancellation is not looked at between two processes
  FALSE
TopCancelled == cancel

\* The call of the loop below it starts with the whole prompt.
PiTop ==
  /\ at = "top"
  /\ IF TopCancelled
     THEN /\ Go("answered")
          /\ result' = [Blank EXCEPT !.err = "other"] /\ said' = Silent
          /\ UNCHANGED <<n, ask>>
     ELSE /\ Go("spawn")
          /\ n' = [n EXCEPT !.key = 0, !.query = 0, !.api = 0, !.acts = 0]
          /\ ask' = "full"
          /\ UNCHANGED <<result, said>>
  /\ Stay /\ UNCHANGED <<group, registered, quiet, content, late, stray>>

Crashed == result.code # 0 /\ ~said.msgs /\ ~Retryable(result.err)

\* What the loop below returned is final, or the 30 s before the next process begin.
PiLayer ==
  LET fails == n.fatal + 1
  IN  /\ at = "pi"
      /\ IF result.err \in {"key", "noModel"} THEN Go("answered") /\ UNCHANGED <<n, result>>
         ELSE IF result.err = "fatal" \/ result.fatal
         THEN IF Within(fails, FatalMax)
              THEN /\ Go("pisleep")
                   /\ n' = [n EXCEPT !.fatal = Next1(@, FatalMax)]
                   /\ result' = [result EXCEPT !.fatal = FALSE]
              ELSE Go("answered") /\ UNCHANGED <<n, result>>
         ELSE Go(IF Crashed THEN "crashed" ELSE "answered") /\ UNCHANGED <<n, result>>
      /\ Stay /\ Idle /\ UNCHANGED <<ask, late, stray>>

\* A crash, or a process that did not start.  Crashes leave the window after 60 s.
PiCrash ==
  LET fails == n.pi + 1
  IN  /\ at = "crashed"
      /\ said' = Silent
      /\ IF cancel \/ ~Within(fails, PiMax)
         THEN Go("answered") /\ UNCHANGED n
              /\ result' = [result EXCEPT !.fatal = FALSE,
                                          !.err = IF @ = "none" THEN "other" ELSE @]
         ELSE \E recent \in 1 .. n.crash + 1 :
                /\ n' = [n EXCEPT !.pi = Next1(@, PiMax), !.crash = recent]
                /\ Go(IF recent >= CrashMax THEN "answered" ELSE "pisleep")
                /\ result' = [result EXCEPT !.fatal = (recent >= CrashMax),
                                            !.err = IF @ = "none" THEN "other" ELSE @]
      /\ Stay /\ UNCHANGED <<group, registered, quiet, content, ask, late, stray>>

PiSleep == at = "pisleep" /\ Go("top") /\ Stay /\ Idle /\ UNCHANGED <<ask, result, n, late, stray>>

-----------------------------------------------------------------------------
(* _run_with_api_retry: one process of pi.                                 *)

\* After Popen and before the try with the finally: the process is alive, listed or not yet,
\* and nobody's.  An OSError is taken for a crash, anything else (no thread can be started)
\* ends the call.
SetupFails ==
  /\ Starts /\ stray' = TRUE
  /\ registered' \in {registered, session} /\ UNCHANGED group
  /\ \/ Go("crashed") /\ UNCHANGED verdict
     \/ Go("returned") /\ verdict' = "error"

Spawn ==
  /\ at = "spawn"
  /\ said' = Silent /\ result' = Blank /\ quiet' = FALSE
  /\ \/ Started /\ Go("running") /\ UNCHANGED <<stray, verdict>>
     \/ Go("crashed") /\ UNCHANGED <<group, registered, late, stray, verdict>>   \* OSError
     \/ SetupFails
  /\ UNCHANGED <<call, cancel, content, ask, n>>

\* pi: a message has ended.  Its error stays when a later message is fine.
Say ==
  /\ at = "running" /\ group = "alive"
  /\ \E text \in BOOLEAN, e \in Errors :
       /\ said' = [msgs |-> TRUE, out |-> text]
       /\ content' = (content \/ (text /\ session))
       /\ result' = [result EXCEPT !.err = IF e = "none" THEN @ ELSE e]
  /\ quiet' = (quiet /\ ~session)
  /\ Stay /\ UNCHANGED <<at, group, registered, ask, n, late, stray>>

\* The stuck timeout passes; without a session file nothing restarts it.  A cancelled
\* process is dead long before.
Quiet ==
  /\ at = "running" /\ ~quiet /\ ~cancel
  /\ quiet' = TRUE
  /\ Stay /\ UNCHANGED <<at, group, registered, content, ask, said, result, n, late, stray>>

\* pi exits in the middle; what it started may live on.
Exit ==
  /\ at = "running" /\ group = "alive"
  /\ group' \in {"none", "leaked"}
  /\ \E c \in {0, 1} : result' = [result EXCEPT !.code = c]
  /\ Stay /\ UNCHANGED <<at, registered, quiet, content, ask, said, n, late, stray>>

\* The monitor thread of the process sees the cancellation.
CancelKill ==
  /\ at \in {"running", "reaping"} /\ cancel /\ group # "none"
  /\ Kills
  /\ result' = [result EXCEPT !.code = IF group = "alive" THEN 1 ELSE @]
  /\ Stay /\ UNCHANGED <<at, registered, quiet, content, ask, said, n, late>>

\* agent_end, the end of the output, or nothing to read after a cancellation.
Stop ==
  /\ at = "running"
  /\ Go("reaping")
  /\ Stay /\ Idle /\ UNCHANGED <<ask, result, n, late, stray>>

\* The process is killed; the next one is told to go on if the session has an answer.
\* Whether the call was cancelled is not asked.
Stuck ==
  /\ at = "running" /\ quiet
  /\ Ended
  /\ Go("spawn")
  /\ n' = [n EXCEPT !.acts = IF @ < ActivationMax THEN @ + 1 ELSE 0, !.api = 0, !.query = 0]
  /\ ask' = IF content THEN "continue" ELSE "full"
  /\ Stay /\ UNCHANGED <<quiet, content, said, result, late>>

\* Every exception of the reading is caught there, whether pi is alive or not: a pipe that
\* broke, a callback that raised, the idle timeout, whose text counts as an API error and
\* which run_agent never sees.
ReadError ==
  /\ at = "running"
  /\ \/ Timed /\ result' = [result EXCEPT !.err = "api", !.code = 1]
     \/ \E e \in {"pipe", "other"} : result' = [result EXCEPT !.err = e, !.code = 1]
  /\ Ended /\ Go("classify")
  /\ Stay /\ UNCHANGED <<quiet, content, ask, said, n, late>>

\* stdin is closed, stderr is the error if there is none, and pi has 15 s to exit.
Reap ==
  /\ at = "reaping"
  /\ \E e \in Errors, c \in {0, 1} :
       result' = [result EXCEPT !.err = IF @ = "none" THEN e ELSE @,
                                !.code = IF group = "alive" THEN c ELSE @]
  /\ Ended /\ Go("classify")
  /\ Stay /\ UNCHANGED <<quiet, content, ask, said, n, late>>

Resume == ask' = IF content THEN "continue" ELSE ask

ClassifyDeaf ==  \* mutant: the cancellation is not looked at
  FALSE
Cancelled == cancel

KeyRetryOnceMore ==  \* mutant: off by one
  n.key <= KeyAuthMax
KeyRetry == n.key + 1 <= KeyAuthMax

\* What the result calls for, in the order of the code.
Classify ==
  LET e == result.err
  IN  /\ at = "classify"
      /\ IF Cancelled \/ Crashed \/ e = "fatal"
         THEN Go("pi") /\ UNCHANGED <<n, ask, result>>
         ELSE IF e = "key"
         THEN /\ n' = [n EXCEPT !.key = @ + 1]
              /\ IF KeyRetry THEN Go("sleep") /\ Resume /\ UNCHANGED result
                 ELSE Go("pi") /\ result' = [result EXCEPT !.fatal = TRUE] /\ UNCHANGED ask
         ELSE IF e = "noModel"
         THEN Go("pi") /\ result' = [result EXCEPT !.fatal = TRUE] /\ UNCHANGED <<n, ask>>
         ELSE IF e = "query"
         THEN /\ n' = [n EXCEPT !.query = @ + 1]
              /\ IF n.query + 1 <= QueryMax THEN Go("sleep") /\ Resume ELSE Go("pi") /\ UNCHANGED ask
              /\ UNCHANGED result
         ELSE IF Retryable(e)
         THEN /\ Go("sleep") /\ Resume /\ UNCHANGED result
              /\ n' = [n EXCEPT !.query = 0, !.api = Next1(@, ApiMax)]
         ELSE /\ n' = [n EXCEPT !.query = 0, !.api = IF e = "pipe" /\ result.code # 0
                                                     THEN Next1(@, ApiMax) ELSE @]
              /\ Go(IF e = "pipe" /\ result.code # 0 /\ Within(n.api + 1, ApiMax)
                    THEN "sleep" ELSE "pi")
              /\ UNCHANGED <<ask, result>>
      /\ Stay /\ Idle /\ UNCHANGED <<late, stray>>

Sleep == at = "sleep" /\ Go("spawn") /\ Stay /\ Idle /\ UNCHANGED <<ask, result, n, late, stray>>

-----------------------------------------------------------------------------
\* The recovery loop takes the result: an overflow is compacted away and asked again,
\* as often as it may; anything else goes to check_agent_result.
Answer ==
  LET tries  == Tries
      counts == Overflow(result.err) /\ session
  IN  /\ at = "answered"
      /\ IF counts /\ tries <= OverflowMax
         THEN /\ Go("compact") /\ n' = [n EXCEPT !.overflow = tries, !.pi = 0]
              /\ UNCHANGED verdict
         ELSE /\ Go("returned") /\ UNCHANGED n
              /\ verdict' = IF result.fatal THEN "PiFatalError"
                            ELSE IF result.err # "none" /\ ~said.out THEN "StageError" ELSE "ok"
      /\ UNCHANGED <<call, cancel, proc, ask, result, late, stray>>

\* The task is cancelled.
Cancel ==
  /\ ~cancel /\ at # "returned"
  /\ cancel' = TRUE
  /\ UNCHANGED <<call, at, proc, ask, result, n, verdict, late, stray>>

Returned == at = "returned" /\ UNCHANGED vars

\* The thread of the call, and the monitor thread of its process.
Recovery == Preflight \/ CompactStart \/ CompactEnd \/ Answer
PiRetry  == PiTop \/ PiLayer \/ PiCrash \/ PiSleep
ApiRetry == Spawn \/ Stop \/ Stuck \/ ReadError \/ Reap \/ Classify \/ Sleep
Outside  == Say \/ Quiet \/ Exit \/ Cancel

Next == Recovery \/ PiRetry \/ ApiRetry \/ CancelKill \/ Outside \/ Returned

\* The threads run while they have something to do, and a process of pi ends at some
\* time: by itself, or because it is taken to be stuck.
Fairness ==
  /\ WF_vars(Recovery) /\ WF_vars(PiRetry) /\ WF_vars(CancelKill)
  /\ WF_vars(Spawn \/ Reap \/ Classify \/ Sleep)
  /\ WF_vars(Stop)

Spec == Init /\ [][Next]_vars /\ Fairness

-----------------------------------------------------------------------------
\* However the call ends, nothing of the process it has in hand is alive, nor is it listed as
\* running, but for one that was left to itself (the finally blocks, terminate_tree).
NothingLeft == at = "returned" => group = "none" /\ (registered => stray)

\* A process starts only when nothing of the one in hand before it is alive: no two of them
\* write one session, but for one that was left to itself.
NoTwoProcesses == [][at' \in {"running", "compacting"} /\ at # at' => group = "none"]_vars

\* A cancellation that comes between two of the checks lets one more process start,
\* which is killed, and not another one.
OneLateProcess == late <= 1

\* A cancelled call returns, whatever pi says before it is dead and whatever loop the
\* call is in.
CancelReturns == cancel ~> at = "returned"

Disturbed ==
  \/ Quiet \/ Exit \/ ReadError
  \/ result'.err \notin {"none", result.err}
  \/ at = "reaping" /\ result'.code # 0
  \/ at = "spawn" /\ at' = "crashed"
  \/ at = "compacting" /\ at' = "compact"

\* Once pi and the API work, the call comes to an end: no retry feeds on itself.  To work is
\* to say nothing wrong, to keep the process, and not to let the stuck timeout pass: a call
\* without a session file that takes longer is started again without limit, and is not meant.
ReturnsOnceHealthy == <>[][~Disturbed]_vars => <>(at = "returned")

\* What comments and tests say and the code does not keep.

\* No call leaves a process to itself.
NoStray == ~stray

\* A process that says something is not stuck (models.py:501: no output for so long).
ActiveIsNotStuck == [][Stuck => ~said.msgs \/ session]_vars

\* A call that returns to the stage as done has an answer.
DoneIsAnswered == verdict = "ok" => said.out
=============================================================================
