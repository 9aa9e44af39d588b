-------------------------- MODULE AgentCallProofs --------------------------
(***************************************************************************)
(* Proofs about AgentCall, for any limits of its counters.                 *)
(***************************************************************************)
EXTENDS AgentCall, TLAPS

\* A process of pi is alive, or may be, in these places only.
WithProcess == {"running", "compacting", "reaping"}

\* The loop that retries API errors, and that loop with the one around it.
InApiRetry == {"spawn", "running", "reaping", "classify", "sleep"}
InPiRetry  == InApiRetry \cup {"top", "pi", "crashed", "pisleep"}

\* A counter that has passed its limit is not counted up again: the loop it belongs
\* to is left, and entered anew with zero.
Counted ==
  /\ at \in InApiRetry => n.key <= KeyAuthMax /\ n.query <= QueryMax
  /\ at \in InPiRetry => n.crash < CrashMax

TypeInv == TypeOK /\ Counted

\* NothingLeft, in every place.
Reaped == at \notin WithProcess => group = "none" /\ (registered => stray)

\* After a process started late, nothing leads to another start: the stuck timeout does
\* not run, and every loop looks at the cancellation.
Quieted == late >= 1 => /\ cancel
                        /\ at \notin {"spawn", "sleep", "compacting"}
                        /\ at = "running" => ~quiet

-----------------------------------------------------------------------------
(* The records.                                                            *)

\* Next1 counts in the naturals.
LEMMA NextType ==
  ASSUME NEW count \in Nat, NEW limit \in Int
  PROVE  Next1(count, limit) \in Nat
BY DEF Next1

\* The counters with one of them changed.
LEMMA CountTypes ==
  ASSUME NEW c \in Counts
  PROVE  /\ \A v \in 0 .. KeyAuthMax + 1 : [c EXCEPT !.key = v] \in Counts
         /\ \A v \in 0 .. QueryMax + 1 : [c EXCEPT !.query = v] \in Counts
         /\ \A v \in Nat : [c EXCEPT !.api = v] \in Counts
         /\ \A v \in 0 .. ActivationMax : [c EXCEPT !.acts = v] \in Counts
         /\ \A v \in Nat : [c EXCEPT !.pi = v] \in Counts
         /\ \A v \in 0 .. CrashMax : [c EXCEPT !.crash = v] \in Counts
         /\ \A v \in Nat : [c EXCEPT !.fatal = v] \in Counts
         /\ \A v \in 0 .. OverflowMax + 1 : [c EXCEPT !.overflow = v] \in Counts
BY DEF Counts

\* The counters with several of them changed.
LEMMA CountsTypes ==
  ASSUME NEW c \in Counts
  PROVE  /\ \A v \in 0 .. OverflowMax + 1 : [c EXCEPT !.overflow = v, !.pi = 0] \in Counts
         /\ \A v \in Nat, w \in 0 .. CrashMax : [c EXCEPT !.pi = v, !.crash = w] \in Counts
         /\ \A v \in Nat : [c EXCEPT !.query = 0, !.api = v] \in Counts
         /\ \A v \in 0 .. ActivationMax :
              [c EXCEPT !.acts = v, !.api = 0, !.query = 0] \in Counts
         /\ [c EXCEPT !.pi = 0, !.crash = 0, !.fatal = 0] \in Counts
         /\ [c EXCEPT !.key = 0, !.query = 0, !.api = 0, !.acts = 0] \in Counts
<1>0. /\ 0 \in 0 .. KeyAuthMax + 1 /\ 0 \in 0 .. QueryMax + 1 /\ 0 \in 0 .. ActivationMax
      /\ 0 \in 0 .. CrashMax
  BY AgentAssumption
<1>1. \A v \in 0 .. OverflowMax + 1 : [c EXCEPT !.overflow = v, !.pi = 0] \in Counts
  BY DEF Counts
<1>2. \A v \in Nat, w \in 0 .. CrashMax : [c EXCEPT !.pi = v, !.crash = w] \in Counts
  BY DEF Counts
<1>3. \A v \in Nat : [c EXCEPT !.query = 0, !.api = v] \in Counts
  BY <1>0 DEF Counts
<1>4. \A v \in 0 .. ActivationMax : [c EXCEPT !.acts = v, !.api = 0, !.query = 0] \in Counts
  BY <1>0 DEF Counts
<1>5. [c EXCEPT !.pi = 0, !.crash = 0, !.fatal = 0] \in Counts
  BY <1>0 DEF Counts
<1>6. [c EXCEPT !.key = 0, !.query = 0, !.api = 0, !.acts = 0] \in Counts
  BY <1>0 DEF Counts
<1> QED
  BY <1>1, <1>2, <1>3, <1>4, <1>5, <1>6

\* A result with one field changed.
LEMMA ResultTypes ==
  ASSUME NEW r \in Results
  PROVE  /\ \A v \in Errors : [r EXCEPT !.err = v] \in Results
         /\ \A v \in {0, 1} : [r EXCEPT !.code = v] \in Results
         /\ \A v \in BOOLEAN : [r EXCEPT !.fatal = v] \in Results
         /\ \A v \in Errors, w \in {0, 1} : [r EXCEPT !.err = v, !.code = w] \in Results
         /\ \A v \in BOOLEAN, w \in Errors : [r EXCEPT !.fatal = v, !.err = w] \in Results
BY DEF Results

\* The fields of the counters and of a result.
LEMMA FieldTypes ==
  ASSUME TypeOK
  PROVE  /\ n.key \in 0 .. KeyAuthMax + 1 /\ n.query \in 0 .. QueryMax + 1
         /\ n.acts \in 0 .. ActivationMax /\ n.crash \in 0 .. CrashMax
         /\ n.overflow \in 0 .. OverflowMax + 1
         /\ n.api \in Nat /\ n.pi \in Nat /\ n.fatal \in Nat
         /\ result.err \in Errors /\ result.code \in {0, 1} /\ result.fatal \in BOOLEAN
BY DEF TypeOK, Counts, Results

\* The values that are not made from earlier ones.
LEMMA FirstTypes ==
  /\ Zero \in Counts /\ Blank \in Results
  /\ [Blank EXCEPT !.err = "other"] \in Results
  /\ [err |-> "other", code |-> 1, fatal |-> TRUE] \in Results
  /\ Silent \in [msgs : BOOLEAN, out : BOOLEAN]
<1>1. Zero \in Counts
  BY AgentAssumption DEF Zero, Counts
<1>2. /\ Blank \in Results
      /\ [Blank EXCEPT !.err = "other"] \in Results
      /\ [err |-> "other", code |-> 1, fatal |-> TRUE] \in Results
  BY DEF Blank, Results, Errors
<1>3. Silent \in [msgs : BOOLEAN, out : BOOLEAN]
  BY DEF Silent
<1> QED
  BY <1>1, <1>2, <1>3

-----------------------------------------------------------------------------
(* TypeOK.                                                                 *)

LEMMA InitTypes == Init => TypeInv
<1> SUFFICES ASSUME Init PROVE TypeInv
  OBVIOUS
<1>1. n \in Counts /\ result \in Results
  BY FirstTypes DEF Init
<1>2. TypeOK
  <2>1. said \in [msgs : BOOLEAN, out : BOOLEAN]
    BY DEF Init, Silent
  <2>2. session \in BOOLEAN /\ big \in BOOLEAN /\ cancel \in BOOLEAN
    BY DEF Init
  <2>22. registered \in BOOLEAN /\ quiet \in BOOLEAN 
    BY DEF Init
  <2>21. content \in BOOLEAN
    BY DEF Init
  <2>3. late \in 0 .. 2
    BY DEF Init
  <2>31. stray \in BOOLEAN
    BY DEF Init
  <2>4. at \in {"preflight", "compact", "compacting", "top", "spawn", "running", "reaping",
             "classify", "sleep", "pi", "crashed", "pisleep", "answered", "returned"}
    BY DEF Init
  <2>5. group \in {"none", "alive", "leaked"} /\ ask \in {"full", "continue"}
    BY DEF Init
  <2>6. verdict \in {"waiting", "ok", "StageError", "PiFatalError", "error"}
    BY DEF Init
  <2> QED BY <1>1, <2>1, <2>2, <2>3, <2>4, <2>5, <2>6, <2>21, <2>22, <2>31 DEF TypeOK
<1>3. Counted
  BY DEF Init, Counted, InApiRetry, InPiRetry
<1> QED
  BY <1>2, <1>3 DEF TypeInv

\* What is not touched keeps its type.
LEMMA RecoveryTypes == TypeInv /\ Recovery => TypeInv'
<1> SUFFICES ASSUME TypeInv, Recovery PROVE TypeInv'
  OBVIOUS
<1> USE AgentAssumption
<1>0. TypeOK /\ Counted /\ n \in Counts /\ result \in Results
  BY DEF TypeInv, TypeOK
<1>1. n.overflow \in 0 .. OverflowMax + 1 /\ n.pi \in Nat
  BY <1>0, FieldTypes
<1>2. ASSUME Tries <= OverflowMax
      PROVE  [n EXCEPT !.overflow = Tries, !.pi = 0] \in Counts
  <2>1. Tries \in 0 .. OverflowMax + 1
    BY <1>1, <1>2 DEF Tries
  <2> QED
    BY <2>1, <1>0, CountTypes, CountsTypes
<1>3. CASE Preflight
  <2>1. n' \in Counts
    BY <1>3, <1>0, <1>2, CountTypes, CountsTypes DEF Preflight
  <2>2. result' \in Results
    BY <1>3, <1>0, FirstTypes DEF Preflight
  <2>3. TypeOK'
    BY <1>3, <1>0, <2>1, <2>2, FirstTypes DEF TypeOK, Preflight, Go, call
  <2>4. at' = "top" => n'.crash = 0
    BY <1>3, <1>0 DEF Preflight, Go, Counts
  <2>5. Counted'
    BY <1>3, <1>0, <2>4 DEF Counted, Preflight, Go, InApiRetry, InPiRetry
  <2> QED
    BY <2>3, <2>5 DEF TypeInv
<1>4. CASE CompactStart
  <2>1. TypeOK'
    BY <1>4, <1>0 DEF TypeOK, CompactStart, CompactFails, Go, Started, Starts, call
  <2>2. Counted'
    BY <1>4 DEF Counted, CompactStart, CompactFails, Go, InApiRetry, InPiRetry
  <2> QED
    BY <2>1, <2>2 DEF TypeInv
<1>5. CASE CompactEnd
  <2>1. n' \in Counts
    <3>1. Next1(n.pi, PiMax) \in Nat
      BY <1>1, NextType
    <3> QED
      BY <3>1, <1>5, <1>0, CountTypes, CountsTypes DEF CompactEnd
  <2>2. TypeOK'
    <3>1. at' \in {"preflight", "compact", "returned"} /\ verdict' \in {verdict, "PiFatalError", "ok", "StageError"}
      BY <1>5 DEF CompactEnd, CompactFails, Go
    <3>2. group' = "none" /\ registered' = FALSE /\ stray' \in {stray, TRUE}
      BY <1>5 DEF CompactEnd, Ended, Kills, Killed
    <3>3. UNCHANGED <<session, big, cancel, quiet, content, ask, said, result, late>>
      BY <1>5 DEF CompactEnd, call
    <3>4. stray' \in BOOLEAN /\ registered' \in BOOLEAN
      BY <1>0, <3>2 DEF TypeOK
    <3>5. UNCHANGED <<session, big, cancel, quiet, content>>
      BY <3>3
    <3> QED
      BY <1>0, <2>1, <3>1, <3>2, <3>3, <3>4, <3>5 DEF TypeOK
  <2>3. Counted'
    BY <1>5 DEF Counted, CompactEnd, CompactFails, Go, InApiRetry, InPiRetry
  <2> QED
    BY <2>2, <2>3 DEF TypeInv
<1>6. CASE Answer
  <2>1. n' \in Counts
    BY <1>6, <1>0, <1>2 DEF Answer
  <2>2. TypeOK'
    BY <1>6, <1>0, <2>1 DEF TypeOK, Answer, Go, call, proc
  <2>3. Counted'
    BY <1>6 DEF Counted, Answer, Go, InApiRetry, InPiRetry
  <2> QED
    BY <2>2, <2>3 DEF TypeInv
<1> QED
  BY <1>3, <1>4, <1>5, <1>6 DEF Recovery

LEMMA PiRetryTypes == TypeInv /\ PiRetry => TypeInv'
<1> SUFFICES ASSUME TypeInv, PiRetry PROVE TypeInv'
  OBVIOUS
<1> USE AgentAssumption
<1>0. TypeOK /\ Counted /\ n \in Counts /\ result \in Results
  BY DEF TypeInv, TypeOK
<1>1. /\ n.pi \in Nat /\ n.fatal \in Nat /\ n.crash \in 0 .. CrashMax
      /\ result.err \in Errors
  BY <1>0, FieldTypes
<1>2. CASE PiTop
  <2>1. n' \in Counts
    BY <1>2, <1>0, CountTypes, CountsTypes DEF PiTop
  <2>2. result' \in Results
    BY <1>2, <1>0, FirstTypes DEF PiTop
  <2>3. TypeOK'
    BY <1>2, <1>0, <2>1, <2>2, FirstTypes DEF TypeOK, PiTop, Go, Stay, call
  <2>4. at' = "spawn" => n'.key = 0 /\ n'.query = 0 /\ n'.crash = n.crash
    BY <1>2, <1>0 DEF PiTop, Go, Counts
  <2>5. Counted'
    BY <1>2, <1>0, <2>4 DEF Counted, PiTop, Go, InApiRetry, InPiRetry
  <2> QED
    BY <2>3, <2>5 DEF TypeInv
<1>3. CASE PiLayer
  <2>1. n' \in Counts
    <3>1. Next1(n.fatal, FatalMax) \in Nat
      BY <1>1, NextType
    <3> QED
      BY <3>1, <1>3, <1>0, CountTypes, CountsTypes DEF PiLayer
  <2>2. result' \in Results
    BY <1>3, <1>0, ResultTypes DEF PiLayer
  <2>3. TypeOK'
    BY <1>3, <1>0, <2>1, <2>2 DEF TypeOK, PiLayer, Go, Stay, Idle, call, proc
  <2>4. n'.crash = n.crash
    BY <1>3, <1>0 DEF PiLayer, Counts
  <2>5. at' \notin InApiRetry
    BY <1>3 DEF PiLayer, Go, InApiRetry
  <2>6. Counted'
    BY <1>3, <1>0, <2>4, <2>5 DEF Counted, PiLayer, InPiRetry
  <2> QED
    BY <2>3, <2>6 DEF TypeInv
<1>4. CASE PiCrash
  <2>0. n.crash < CrashMax
    BY <1>4, <1>0 DEF Counted, PiCrash, InPiRetry
  <2>1. n' \in Counts
    <3>1. CASE n' = n
      BY <3>1, <1>0
    <3>2. CASE \E recent \in 1 .. n.crash + 1 :
                 n' = [n EXCEPT !.pi = Next1(n.pi, PiMax), !.crash = recent]
      <4>1. PICK recent \in 1 .. n.crash + 1 :
              n' = [n EXCEPT !.pi = Next1(n.pi, PiMax), !.crash = recent]
        BY <3>2
      <4>3. PiMax \in Int
        BY AgentAssumption
      <4>4. Next1(n.pi, PiMax) \in Nat
        BY <1>1, <4>3, NextType
      <4>5. recent \in 0 .. CrashMax
        BY <1>1, <2>0, AgentAssumption
      <4>2. Next1(n.pi, PiMax) \in Nat /\ recent \in 0 .. CrashMax
        BY <4>4, <4>5
      <4> QED
        BY <4>1, <4>2, <1>0, CountTypes, CountsTypes
    <3> QED
      BY <3>1, <3>2, <1>4 DEF PiCrash
  <2>2. result' \in Results
    <3>1. (IF result.err = "none" THEN "other" ELSE result.err) \in Errors
      BY <1>1 DEF Errors
    <3>2. ASSUME NEW f \in BOOLEAN
          PROVE  [result EXCEPT !.fatal = f,
                    !.err = IF result.err = "none" THEN "other" ELSE result.err] \in Results
      BY <3>1, <1>0, ResultTypes
    <3>3. CASE cancel \/ ~Within(n.pi + 1, PiMax)
      BY <3>2, <3>3, <1>4 DEF PiCrash
    <3>4. CASE ~(cancel \/ ~Within(n.pi + 1, PiMax))
      <4>1. PICK recent \in 1 .. n.crash + 1 :
              result' = [result EXCEPT !.fatal = (recent >= CrashMax),
                           !.err = IF result.err = "none" THEN "other" ELSE result.err]
        BY <3>4, <1>4 DEF PiCrash
      <4>2. (recent >= CrashMax) \in BOOLEAN
        OBVIOUS
      <4> QED
        BY <4>1, <4>2, <3>2
    <3> QED
      BY <3>3, <3>4
  <2>3. TypeOK'
    <3>1. said' = Silent /\ at' \in {"answered", "pisleep"}
      BY <1>4 DEF PiCrash, Go
    <3>2. UNCHANGED <<session, big, cancel, verdict, group, registered, quiet, content, ask, late,
                      stray>>
      BY <1>4 DEF PiCrash, Stay, call
    <3> QED
      BY <1>0, <2>1, <2>2, <3>1, <3>2, FirstTypes DEF TypeOK
  <2>4. at' = "pisleep" => n'.crash < CrashMax
    <3>1. ASSUME NEW recent \in 1 .. n.crash + 1, NEW p \in Nat,
                 n' = [n EXCEPT !.pi = p, !.crash = recent], recent < CrashMax
          PROVE  n'.crash < CrashMax
      BY <3>1, <1>0 DEF Counts
    <3>2. Next1(n.pi, PiMax) \in Nat
      BY <1>1, NextType
    <3>3. ASSUME at' = "pisleep"
          PROVE  \E recent \in 1 .. n.crash + 1 :
                   /\ n' = [n EXCEPT !.pi = Next1(n.pi, PiMax), !.crash = recent]
                   /\ recent < CrashMax
      <4>1. ~(cancel \/ ~Within(n.pi + 1, PiMax))
        BY <3>3, <1>4 DEF PiCrash, Go
      <4>2. \E recent \in 1 .. n.crash + 1 :
              /\ n' = [n EXCEPT !.pi = Next1(n.pi, PiMax), !.crash = recent]
              /\ at' = IF recent >= CrashMax THEN "answered" ELSE "pisleep"
        BY <4>1, <1>4 DEF PiCrash, Go
      <4>3. PICK recent \in 1 .. n.crash + 1 :
              /\ n' = [n EXCEPT !.pi = Next1(n.pi, PiMax), !.crash = recent]
              /\ at' = IF recent >= CrashMax THEN "answered" ELSE "pisleep"
        BY <4>2
      <4>4. ~(recent >= CrashMax)
        BY <4>3, <3>3
      <4>5. recent < CrashMax
        BY <4>4, <1>1, AgentAssumption
      <4> QED
        BY <4>3, <4>5
    <3> QED
      BY <3>1, <3>2, <3>3
  <2>5. at' \in {"answered", "pisleep"}
    BY <1>4 DEF PiCrash, Go
  <2>6. Counted'
    BY <2>4, <2>5 DEF Counted, InApiRetry, InPiRetry
  <2> QED
    BY <2>3, <2>6 DEF TypeInv
<1>5. CASE PiSleep
  <2>1. TypeOK'
    BY <1>5, <1>0 DEF TypeOK, PiSleep, Go, Stay, Idle, call, proc
  <2>2. Counted'
    BY <1>5, <1>0 DEF Counted, PiSleep, Go, InApiRetry, InPiRetry
  <2> QED
    BY <2>1, <2>2 DEF TypeInv
<1> QED
  BY <1>2, <1>3, <1>4, <1>5 DEF PiRetry

LEMMA ApiRetryTypes == TypeInv /\ ApiRetry => TypeInv'
<1> SUFFICES ASSUME TypeInv, ApiRetry PROVE TypeInv'
  OBVIOUS
<1> USE AgentAssumption
<1>0. TypeOK /\ Counted /\ n \in Counts /\ result \in Results
  BY DEF TypeInv, TypeOK
<1>1. /\ n.key \in 0 .. KeyAuthMax + 1 /\ n.query \in 0 .. QueryMax + 1 /\ n.api \in Nat
      /\ n.acts \in 0 .. ActivationMax /\ result.err \in Errors /\ result.code \in {0, 1}
  BY <1>0, FieldTypes
<1>2. CASE Spawn
  <2>1. TypeOK'
    <3>1. said' = Silent /\ result' = Blank /\ quiet' = FALSE /\ ask' = ask /\ n' = n
      BY <1>2 DEF Spawn
    <3>2. at' \in {"running", "crashed", "returned"} /\ verdict' \in {verdict, "error"}
      BY <1>2 DEF Spawn, SetupFails, Go
    <3>3. group' \in {"none", "alive", "leaked"} /\ late' \in 0 .. 2
      BY <1>2, <1>0 DEF TypeOK, Spawn, Started, Starts, SetupFails
    <3>4. registered' \in {registered, session} /\ stray' \in {stray, TRUE}
      BY <1>2 DEF Spawn, Started, SetupFails
    <3>5. UNCHANGED <<session, big, cancel, content>>
      BY <1>2 DEF Spawn, call
    <3>6. registered' \in BOOLEAN /\ quiet' \in BOOLEAN /\ stray' \in BOOLEAN
      <4>1. TRUE \in BOOLEAN /\ FALSE \in BOOLEAN
        OBVIOUS
      <4> QED
        BY <1>0, <3>1, <3>4, <4>1 DEF TypeOK
    <3> QED
      BY <1>0, <3>1, <3>2, <3>3, <3>5, <3>6, FirstTypes DEF TypeOK
  <2>2. Counted'
    BY <1>2, <1>0 DEF Counted, Spawn, Started, Starts, SetupFails, Go, InApiRetry, InPiRetry
  <2> QED
    BY <2>1, <2>2 DEF TypeInv
<1>3. CASE Stop
  <2>1. TypeOK'
    BY <1>3, <1>0 DEF TypeOK, Stop, Go, Stay, Idle, call, proc
  <2>2. Counted'
    BY <1>3, <1>0 DEF Counted, Stop, Go, InApiRetry, InPiRetry
  <2> QED
    BY <2>1, <2>2 DEF TypeInv
<1>4. CASE Stuck
  <2>0. (IF n.acts < ActivationMax THEN n.acts + 1 ELSE 0) \in 0 .. ActivationMax
    BY <1>1
  <2>1. n' \in Counts
    BY <2>0, <1>4, <1>0, CountTypes, CountsTypes DEF Stuck
  <2>2. TypeOK'
    BY <1>4, <1>0, <2>1 DEF TypeOK, Stuck, Ended, Kills, Killed, Go, Stay, call
  <2>3. n'.key = n.key /\ n'.query = 0 /\ n'.crash = n.crash
    BY <1>4, <1>0 DEF Stuck, Counts
  <2>4. Counted'
    BY <1>4, <1>0, <2>3 DEF Counted, Stuck, Go, InApiRetry, InPiRetry
  <2> QED
    BY <2>2, <2>4 DEF TypeInv
<1>5. CASE ReadError
  <2>1. result' \in Results
    BY <1>5, <1>0, ResultTypes DEF ReadError, Errors
  <2>2. TypeOK'
    BY <1>5, <1>0, <2>1 DEF TypeOK, ReadError, Ended, Kills, Killed, Go, Stay, call
  <2>3. Counted'
    BY <1>5, <1>0 DEF Counted, ReadError, Go, InApiRetry, InPiRetry
  <2> QED
    BY <2>2, <2>3 DEF TypeInv
<1>6. CASE Reap
  <2>1. result' \in Results
    <3>1. PICK e \in Errors, c \in {0, 1} :
            result' = [result EXCEPT !.err = IF result.err = "none" THEN e ELSE result.err,
                                     !.code = IF group = "alive" THEN c ELSE result.code]
      BY <1>6 DEF Reap
    <3>2. /\ (IF result.err = "none" THEN e ELSE result.err) \in Errors
          /\ (IF group = "alive" THEN c ELSE result.code) \in {0, 1}
      BY <1>1
    <3> QED
      BY <3>1, <3>2, <1>0, ResultTypes
  <2>2. TypeOK'
    BY <1>6, <1>0, <2>1 DEF TypeOK, Reap, Ended, Kills, Killed, Go, Stay, call
  <2>3. Counted'
    BY <1>6, <1>0 DEF Counted, Reap, Go, InApiRetry, InPiRetry
  <2> QED
    BY <2>2, <2>3 DEF TypeInv
<1>7. CASE Classify
  <2>0. at = "classify" /\ n.key <= KeyAuthMax /\ n.query <= QueryMax /\ n.crash < CrashMax
    BY <1>7, <1>0 DEF Classify, Counted, InApiRetry, InPiRetry
  <2>1. /\ n.key + 1 \in 0 .. KeyAuthMax + 1 /\ n.query + 1 \in 0 .. QueryMax + 1
        /\ Next1(n.api, ApiMax) \in Nat
    <3>1. Next1(n.api, ApiMax) \in Nat
      BY <1>1, NextType
    <3> QED
      BY <1>1, <2>0, <3>1
  <2>2. n' \in {n, [n EXCEPT !.key = n.key + 1], [n EXCEPT !.query = n.query + 1],
                [n EXCEPT !.query = 0, !.api = Next1(n.api, ApiMax)],
                [n EXCEPT !.query = 0, !.api = n.api]}
    BY <1>7 DEF Classify
  <2>3. n' \in Counts
    <3>1. /\ [n EXCEPT !.key = n.key + 1] \in Counts
          /\ [n EXCEPT !.query = n.query + 1] \in Counts
      BY <2>1, <1>0, CountTypes
    <3>2. /\ [n EXCEPT !.query = 0, !.api = Next1(n.api, ApiMax)] \in Counts
          /\ [n EXCEPT !.query = 0, !.api = n.api] \in Counts
      BY <2>1, <1>0, <1>1, CountsTypes
    <3> QED
      BY <2>2, <3>1, <3>2, <1>0
  <2>4. result' \in Results
    BY <1>7, <1>0, ResultTypes DEF Classify
  <2>5. at' \in {"pi", "sleep"} /\ ask' \in {ask, "continue"}
    BY <1>7 DEF Classify, Go, Resume
  <2>6. TypeOK'
    BY <1>7, <1>0, <2>3, <2>4, <2>5 DEF TypeOK, Classify, Stay, Idle, call, proc
  <2>7. n'.crash = n.crash
    BY <2>2, <1>0 DEF Counts
  <2>8. at' = "sleep" => n'.key <= KeyAuthMax /\ n'.query <= QueryMax
    <3>1. n \in Counts
      BY <1>0
    <3>0. 0 <= QueryMax
      BY AgentAssumption
    <3>2. CASE n' = n \/ \E a \in Nat : n' = [n EXCEPT !.query = 0, !.api = a]
      <4>1. CASE n' = n
        BY <4>1, <2>0
      <4>2. ASSUME NEW a \in Nat, n' = [n EXCEPT !.query = 0, !.api = a]
            PROVE  n'.key = n.key /\ n'.query = 0
        BY <4>2, <3>1 DEF Counts
      <4> QED
        BY <4>1, <4>2, <3>2, <2>0, <3>0
    <3>3. CASE n' = [n EXCEPT !.key = n.key + 1] /\ (at' = "sleep" => KeyRetry)
      BY <3>1, <3>3, <2>0, AgentAssumption DEF Counts, KeyRetry
    <3>4. CASE n' = [n EXCEPT !.query = n.query + 1] /\ (at' = "sleep" => n.query + 1 <= QueryMax)
      BY <3>1, <3>4, <2>0, AgentAssumption DEF Counts
    <3> QED
      BY <3>2, <3>3, <3>4, <1>7, <1>1, <2>1 DEF Classify, Go
  <2>9. Counted'
    BY <2>0, <2>5, <2>7, <2>8 DEF Counted, InApiRetry, InPiRetry
  <2> QED
    BY <2>6, <2>9 DEF TypeInv
<1>8. CASE Sleep
  <2>1. TypeOK'
    BY <1>8, <1>0 DEF TypeOK, Sleep, Go, Stay, Idle, call, proc
  <2>2. Counted'
    BY <1>8, <1>0 DEF Counted, Sleep, Go, InApiRetry, InPiRetry
  <2> QED
    BY <2>1, <2>2 DEF TypeInv
<1> QED
  BY <1>2, <1>3, <1>4, <1>5, <1>6, <1>7, <1>8 DEF ApiRetry

LEMMA OutsideTypes == TypeInv /\ (Outside \/ CancelKill \/ UNCHANGED vars) => TypeInv'
<1> SUFFICES ASSUME TypeInv, Outside \/ CancelKill \/ UNCHANGED vars PROVE TypeInv'
  OBVIOUS
<1> USE AgentAssumption
<1>0. TypeOK /\ Counted /\ n \in Counts /\ result \in Results
  BY DEF TypeInv, TypeOK
<1>1. result.err \in Errors /\ result.code \in {0, 1}
  BY <1>0, FieldTypes
<1>2. (UNCHANGED <<at, n>> => Counted')
  BY <1>0 DEF Counted
<1>3. CASE Say
  <2>1. result' \in Results
    BY <1>3, <1>0, <1>1, ResultTypes DEF Say
  <2>2. TypeOK'
    BY <1>3, <1>0, <2>1 DEF TypeOK, Say, Stay, call
  <2> QED
    BY <2>2, <1>2, <1>3 DEF TypeInv, Say
<1>4. CASE Quiet
  BY <1>4, <1>0, <1>2 DEF TypeInv, TypeOK, Quiet, Stay, call
<1>5. CASE Exit
  <2>1. result' \in Results
    BY <1>5, <1>0, ResultTypes DEF Exit
  <2> QED
    BY <2>1, <1>5, <1>0, <1>2 DEF TypeInv, TypeOK, Exit, Stay, call
<1>6. CASE Cancel
  BY <1>6, <1>0, <1>2 DEF TypeInv, TypeOK, Cancel, call, proc
<1>7. CASE CancelKill
  <2>1. result' \in Results
    BY <1>7, <1>0, <1>1, ResultTypes DEF CancelKill
  <2> QED
    <3>1. /\ group' = "none" /\ stray' \in {stray, TRUE}
          /\ UNCHANGED <<session, big, cancel, verdict, at, registered, quiet, content, ask, said, n,
                         late>>
      BY <1>7 DEF CancelKill, Kills, Killed, Stay, call
    <3>2. stray' \in BOOLEAN
      BY <1>0, <3>1 DEF TypeOK
    <3>3. TypeOK'
      BY <2>1, <3>1, <3>2, <1>0 DEF TypeOK
    <3>4. Counted'
      BY <3>1, <1>2
    <3> QED
      BY <3>3, <3>4 DEF TypeInv
<1>8. CASE UNCHANGED vars
  BY <1>8, <1>0, <1>2 DEF TypeInv, TypeOK, vars, call, proc
<1> QED
  BY <1>3, <1>4, <1>5, <1>6, <1>7, <1>8 DEF Outside

LEMMA NextTypes == TypeInv /\ [Next]_vars => TypeInv'
BY RecoveryTypes, PiRetryTypes, ApiRetryTypes, OutsideTypes DEF Next, Returned

LEMMA TypesAlways == Spec => []TypeInv
BY InitTypes, NextTypes, PTL DEF Spec

\* Every variable of a call keeps its type, and its counters stay within their limits,
\* whatever pi says (run_agent and the loops it calls).
THEOREM TypesHold == Spec => []TypeOK
<1>1. TypeInv => TypeOK
  BY DEF TypeInv
<1> QED
  BY <1>1, TypesAlways, PTL

-----------------------------------------------------------------------------
(* The processes.                                                          *)

\* A loop is left only after its process was killed or reaped.
LEMMA ReapedAlways == Spec => []Reaped
<1>1. Init => Reaped
  BY DEF Init, Reaped
<1>2. Reaped /\ [Next]_vars => Reaped'
  <2> SUFFICES ASSUME Reaped, [Next]_vars PROVE Reaped'
    OBVIOUS
  <2> USE DEF Reaped, WithProcess
  <2>1. CASE Recovery
    <3>1. CASE Preflight
      BY <3>1 DEF Preflight, Go
    <3>2. CASE CompactStart
      BY <3>2 DEF CompactStart, CompactFails, Go, Started, Starts
    <3>3. CASE CompactEnd
      BY <3>3 DEF CompactEnd, CompactFails, Go, Ended, Kills, Killed
    <3>4. CASE Answer
      BY <3>4 DEF Answer, Go, proc
    <3> QED
      BY <3>1, <3>2, <3>3, <3>4, <2>1 DEF Recovery
  <2>2. CASE PiRetry
    <3>1. CASE PiTop
      BY <3>1 DEF PiTop, Go
    <3>2. CASE PiLayer
      BY <3>2 DEF PiLayer, Go, Idle, proc
    <3>3. CASE PiCrash
      BY <3>3 DEF PiCrash, Go
    <3>4. CASE PiSleep
      BY <3>4 DEF PiSleep, Go, Idle, proc
    <3> QED
      BY <3>1, <3>2, <3>3, <3>4, <2>2 DEF PiRetry
  <2>3. CASE ApiRetry
    <3>1. CASE Spawn
      BY <3>1 DEF Spawn, Started, Starts, SetupFails, Go
    <3>2. CASE Stop
      BY <3>2 DEF Stop, Go
    <3>3. CASE Stuck
      BY <3>3 DEF Stuck, Ended, Kills, Killed, Go
    <3>4. CASE ReadError
      BY <3>4 DEF ReadError, Ended, Kills, Killed, Go
    <3>5. CASE Reap
      BY <3>5 DEF Reap, Ended, Kills, Killed, Go
    <3>6. CASE Classify
      BY <3>6 DEF Classify, Go, Idle, proc
    <3>7. CASE Sleep
      BY <3>7 DEF Sleep, Go, Idle, proc
    <3> QED
      BY <3>1, <3>2, <3>3, <3>4, <3>5, <3>6, <3>7, <2>3 DEF ApiRetry
  <2>4. CASE CancelKill
    BY <2>4 DEF CancelKill
  <2>5. CASE Outside
    BY <2>5 DEF Outside, Say, Quiet, Exit, Cancel, Stay, proc
  <2>6. CASE UNCHANGED vars
    BY <2>6 DEF vars, proc
  <2> QED
    BY <2>1, <2>2, <2>3, <2>4, <2>5, <2>6 DEF Next, Returned
<1> QED
  BY <1>1, <1>2, PTL DEF Spec

\* However the call ends, no process of it is alive, nor is it listed as running
\* (the finally blocks of runner.py, terminate_tree).
THEOREM ReturnLeavesNothing == Spec => []NothingLeft
<1>1. Reaped => NothingLeft
  BY DEF Reaped, NothingLeft, WithProcess
<1> QED
  BY <1>1, ReapedAlways, PTL

\* A process starts only when nothing of the one before it is alive, so no two of them
\* write one session (Popen in _run_with_api_retry and in the compaction).
THEOREM OneProcessAtATime == Spec => NoTwoProcesses
<1>1. Reaped /\ [Next]_vars => [at' \in {"running", "compacting"} /\ at # at' => group = "none"]_vars
  <2> SUFFICES ASSUME Reaped, Next, at' \in {"running", "compacting"}, at # at'
               PROVE  group = "none"
    OBVIOUS
  <2>1. at \in {"compact", "spawn"}
    <3>1. CASE Recovery
      BY <3>1 DEF Recovery, Preflight, CompactStart, CompactEnd, CompactFails, Answer, Go
    <3>2. CASE PiRetry
      BY <3>2 DEF PiRetry, PiTop, PiLayer, PiCrash, PiSleep, Go
    <3>3. CASE ApiRetry
      BY <3>3 DEF ApiRetry, Spawn, Stop, Stuck, ReadError, Reap, Classify, Sleep, Go
    <3>4. CASE CancelKill \/ Outside \/ Returned
      BY <3>4 DEF CancelKill, Outside, Say, Quiet, Exit, Cancel, Returned, vars
    <3> QED
      BY <3>1, <3>2, <3>3, <3>4 DEF Next
  <2> QED
    BY <2>1 DEF Reaped, WithProcess
<1> QED
  BY <1>1, ReapedAlways, PTL DEF Spec, NoTwoProcesses

-----------------------------------------------------------------------------
(* The cancellation.                                                       *)

\* A process that starts after the cancellation is the last one.
LEMMA QuietedAlways == Spec => []Quieted
<1>1. Init => Quieted
  BY DEF Init, Quieted
<1>2. TypeOK /\ Quieted /\ [Next]_vars => Quieted'
  <2> SUFFICES ASSUME TypeOK, Quieted, [Next]_vars PROVE Quieted'
    OBVIOUS
  <2>0. late \in 0 .. 2
    BY DEF TypeOK
  <2> USE DEF Quieted
  <2>1. CASE Recovery
    <3>1. CASE Preflight
      BY <3>1 DEF Preflight, Go
    <3>2. CASE CompactStart
      BY <2>0, <3>2 DEF CompactStart, CompactFails, Go, Started, Starts
    <3>3. CASE CompactEnd
      BY <3>3 DEF CompactEnd, CompactFails, Go
    <3>4. CASE Answer
      BY <3>4 DEF Answer, Go
    <3> QED
      BY <3>1, <3>2, <3>3, <3>4, <2>1 DEF Recovery
  <2>2. CASE PiRetry
    <3>1. CASE PiTop
      BY <3>1 DEF PiTop, TopCancelled, Go, Stay
    <3>2. CASE PiLayer
      BY <3>2 DEF PiLayer, Go, Stay
    <3>3. CASE PiCrash
      BY <3>3 DEF PiCrash, Go, Stay
    <3>4. CASE PiSleep
      BY <3>4 DEF PiSleep, Go, Stay
    <3> QED
      BY <3>1, <3>2, <3>3, <3>4, <2>2 DEF PiRetry
  <2>3. CASE ApiRetry
    <3>1. CASE Spawn
      BY <2>0, <3>1 DEF Spawn, Started, Starts, SetupFails, Go, Stay
    <3>2. CASE Stop
      BY <3>2 DEF Stop, Go, Stay
    <3>3. CASE Stuck
      BY <3>3 DEF Stuck, Go, Stay
    <3>4. CASE ReadError
      BY <3>4 DEF ReadError, Go, Stay
    <3>5. CASE Reap
      BY <3>5 DEF Reap, Go, Stay
    <3>6. CASE Classify
      BY <3>6 DEF Classify, Cancelled, Go, Stay
    <3>7. CASE Sleep
      BY <3>7 DEF Sleep, Go, Stay
    <3> QED
      BY <3>1, <3>2, <3>3, <3>4, <3>5, <3>6, <3>7, <2>3 DEF ApiRetry
  <2>4. CASE CancelKill
    BY <2>4 DEF CancelKill, Stay
  <2>5. CASE Say
    BY <2>5 DEF Say, Stay
  <2>6. CASE Quiet \/ Exit \/ Cancel
    BY <2>6 DEF Quiet, Exit, Cancel, Stay, proc
  <2>7. CASE UNCHANGED vars
    BY <2>7 DEF vars, proc
  <2> QED
    BY <2>1, <2>2, <2>3, <2>4, <2>5, <2>6, <2>7 DEF Next, Outside, Returned
<1> QED
  BY <1>1, <1>2, TypesHold, PTL DEF Spec

\* The first late start is the only one.
LEMMA LateOnce == TypeOK /\ Quieted /\ OneLateProcess /\ [Next]_vars => OneLateProcess'
<1> SUFFICES ASSUME TypeOK, Quieted, OneLateProcess, [Next]_vars PROVE OneLateProcess'
  OBVIOUS
<1>0. late \in {0, 1}
  BY DEF TypeOK, OneLateProcess
<1>1. CASE CompactStart \/ Spawn
  <2>1. at \in {"compact", "spawn"}
    BY <1>1 DEF CompactStart, Spawn
  <2>2. late' \in {late, 0, 1} \/ (cancel /\ late = 1 /\ ~(at = "compact" /\ cancel) /\ at # "spawn")
    BY <1>0, <1>1 DEF CompactStart, Spawn, Started, Starts, SetupFails, Quieted
  <2> QED
    BY <1>0, <2>1, <2>2 DEF OneLateProcess
<1>2. CASE ~(CompactStart \/ Spawn)
  <2>1. late' = late
    BY <1>2 DEF Next, Recovery, PiRetry, ApiRetry, Outside, Returned, Preflight, CompactEnd,
                Answer, PiTop, PiLayer, PiCrash, PiSleep, Stop, Stuck, ReadError, Reap, Classify,
                Sleep, CancelKill, Say, Quiet, Exit, Cancel, vars
  <2> QED
    BY <1>0, <2>1 DEF OneLateProcess
<1> QED
  BY <1>1, <1>2

\* A cancellation that comes between two of the checks lets one more process start, and
\* not another one (the checks of cancel_event in the loops of runner.py).
THEOREM OneProcessAfterCancel == Spec => []OneLateProcess
<1>1. Init => OneLateProcess
  BY DEF Init, OneLateProcess
<1> QED
  BY <1>1, LateOnce, TypesHold, QuietedAlways, PTL DEF Spec
=============================================================================
