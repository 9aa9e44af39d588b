------------------------- MODULE FailureDebugProofs -------------------------
(***************************************************************************)
(* Proofs about FailureDebug, for any finite set of tasks and any numbers  *)
(* of failures, posts and faults.                                          *)
(***************************************************************************)
EXTENDS FailureDebug, FiniteSetTheorems, TLAPS

Post1 == 1 .. Tries

\* A notifier posts its requests one after the other, and one that has not been started has
\* posted none.
PostsCounted ==
  \A k \in Failure :
    /\ k > fails => notifier[k].at = "none" /\ notifier[k].posts = 0
    /\ notifier[k].at = "check" => notifier[k].posts = 0
    /\ notifier[k].at = "post" => notifier[k].posts < Tries
    /\ \A n \in Post1 : n > notifier[k].posts => request[<<k, n>>] = "none"

\* The thread runs only after the start.
RestsWhenDown == up # "up" => worker.at = "idle"

\* A request is about to queue the task.
OnItsWay(t) == \E k \in Failure, n \in Post1 : notifier[k].task = t /\ request[<<k, n>>] = "queue"

\* The worker has the task, and the row it holds is still the task's.
InHands(t) == worker.task = t /\ worker.at # "idle" /\ worker.holds = "row"

\* RunningIsWorked and PendingIsCarried, but for a worker that holds no row or one that is
\* gone: a row made meanwhile is not running, and the request that made it carries it.
Worked ==
  \A t \in Tasks : row[t] = "running" /\ up \in {"swept", "up"} => t \in stranded \/ InHands(t)
Carried ==
  \A t \in Tasks : row[t] = "pending" /\ up = "up" =>
    t \in ToSet(queue) \cup stranded \/ InHands(t) \/ OnItsWay(t)

DebugInv == TypeOK /\ PostsCounted /\ RestsWhenDown /\ Worked /\ Carried

\* What a step does to requests that are about to queue, if it queues none.
WayKept == \A t \in Tasks : OnItsWay(t) => OnItsWay(t)'

-----------------------------------------------------------------------------
(* Sequences of tasks.                                                     *)

LEMMA RestingType == Resting \in Hands /\ Resting.at = "idle"
BY DebugAssumption DEF Resting, Hands

\* The order in which the start queues the unfinished tasks leaves none out.
LEMMA AllAreQueued ==
  ASSUME NEW S \in SUBSET Tasks, NEW s \in SetToSeqs(S)
  PROVE  s \in Seq(Tasks) /\ ToSet(s) = S
<1>1. IsFiniteSet(S)
  BY DebugAssumption, FS_Subset
<1>2. Cardinality(S) \in Nat
  BY <1>1, FS_CardinalityType
<1> DEFINE D == 1 .. Cardinality(S)
<1>3. s \in [D -> S] /\ \A i, j \in D : i # j => s[i] # s[j]
  BY DEF SetToSeqs
<1>4. s \in Seq(Tasks)
  BY <1>2, <1>3
<1>5. s \in Injection(D, S)
  BY <1>3 DEF Injection, IsInjective
<1>6. IsFiniteSet(D) /\ Cardinality(D) = Cardinality(S)
  BY <1>2, FS_Interval
<1>7. s \in Surjection(D, S)
  BY <1>1, <1>5, <1>6, FS_Injection
<1>8. \A x \in S : \E i \in D : s[i] = x
  BY <1>7 DEF Surjection
<1>9. DOMAIN s = D
  BY <1>3
<1> QED
  BY <1>3, <1>4, <1>8, <1>9 DEF ToSet

LEMMA QueueSets ==
  ASSUME NEW q \in Seq(Tasks)
  PROVE  /\ \A t \in Tasks : /\ Append(q, t) \in Seq(Tasks)
                             /\ ToSet(Append(q, t)) = ToSet(q) \cup {t}
         /\ \A s \in Seq(Tasks) : /\ q \o s \in Seq(Tasks)
                                  /\ ToSet(q \o s) = ToSet(q) \cup ToSet(s)
         /\ q # <<>> => /\ Head(q) \in Tasks /\ Tail(q) \in Seq(Tasks)
                        /\ ToSet(q) = ToSet(Tail(q)) \cup {Head(q)}
<1>1. ASSUME NEW t \in Tasks
      PROVE  Append(q, t) \in Seq(Tasks) /\ ToSet(Append(q, t)) = ToSet(q) \cup {t}
  <2>1. /\ Append(q, t) \in Seq(Tasks) /\ DOMAIN Append(q, t) = 1 .. Len(q) + 1
        /\ \A i \in 1 .. Len(q) : Append(q, t)[i] = q[i]
        /\ Append(q, t)[Len(q) + 1] = t
        /\ DOMAIN q = 1 .. Len(q) /\ Len(q) \in Nat
    OBVIOUS
  <2>2. 1 .. Len(q) + 1 = (1 .. Len(q)) \cup {Len(q) + 1}
    BY <2>1
  <2> QED
    BY <2>1, <2>2 DEF ToSet
<1>2. ASSUME NEW s \in Seq(Tasks)
      PROVE  q \o s \in Seq(Tasks) /\ ToSet(q \o s) = ToSet(q) \cup ToSet(s)
  <2>1. /\ q \o s \in Seq(Tasks) /\ DOMAIN (q \o s) = 1 .. Len(q) + Len(s)
        /\ \A i \in 1 .. Len(q) : (q \o s)[i] = q[i]
        /\ \A i \in 1 .. Len(s) : (q \o s)[Len(q) + i] = s[i]
        /\ DOMAIN q = 1 .. Len(q) /\ DOMAIN s = 1 .. Len(s) /\ Len(q) \in Nat /\ Len(s) \in Nat
    OBVIOUS
  <2>2. ASSUME NEW i \in 1 .. Len(q) + Len(s)
        PROVE  i \in 1 .. Len(q) \/ \E j \in 1 .. Len(s) : i = Len(q) + j
    <3>1. CASE i > Len(q)
      <4>1. i - Len(q) \in 1 .. Len(s) /\ i = Len(q) + (i - Len(q))
        BY <2>1, <3>1
      <4> QED
        BY <4>1
    <3> QED
      BY <2>1, <3>1
  <2>3. ToSet(q \o s) \subseteq ToSet(q) \cup ToSet(s)
    BY <2>1, <2>2 DEF ToSet
  <2>4. /\ \A i \in 1 .. Len(q) : i \in 1 .. Len(q) + Len(s)
        /\ \A i \in 1 .. Len(s) : Len(q) + i \in 1 .. Len(q) + Len(s)
    BY <2>1
  <2>5. ToSet(q) \cup ToSet(s) \subseteq ToSet(q \o s)
    BY <2>1, <2>4 DEF ToSet
  <2> QED
    BY <2>1, <2>3, <2>5
<1>3. ASSUME q # <<>>
      PROVE  /\ Head(q) \in Tasks /\ Tail(q) \in Seq(Tasks)
             /\ ToSet(q) = ToSet(Tail(q)) \cup {Head(q)}
  <2>1. /\ Head(q) = q[1] /\ Tail(q) \in Seq(Tasks) /\ DOMAIN Tail(q) = 1 .. Len(q) - 1
        /\ \A i \in 1 .. Len(q) - 1 : Tail(q)[i] = q[i + 1]
        /\ DOMAIN q = 1 .. Len(q) /\ Len(q) \in Nat \ {0} /\ Head(q) \in Tasks
    BY <1>3
  <2>2. ASSUME NEW i \in 1 .. Len(q)
        PROVE  i = 1 \/ (i - 1 \in 1 .. Len(q) - 1 /\ i = (i - 1) + 1)
    BY <2>1
  <2>3. ToSet(q) \subseteq ToSet(Tail(q)) \cup {Head(q)}
    <3> SUFFICES ASSUME NEW i \in 1 .. Len(q) PROVE q[i] \in ToSet(Tail(q)) \cup {Head(q)}
      BY <2>1 DEF ToSet
    <3>1. CASE i = 1
      BY <2>1, <3>1
    <3>2. CASE i # 1
      <4>1. i - 1 \in 1 .. Len(q) - 1 /\ q[i] = Tail(q)[i - 1]
        BY <2>1, <2>2, <3>2
      <4> QED
        BY <2>1, <4>1 DEF ToSet
    <3> QED
      BY <3>1, <3>2
  <2>4. ToSet(Tail(q)) \cup {Head(q)} \subseteq ToSet(q)
    <3>1. \A i \in 1 .. Len(q) - 1 : i + 1 \in 1 .. Len(q)
      BY <2>1
    <3> QED
      BY <2>1, <3>1 DEF ToSet
  <2> QED
    BY <2>1, <2>3, <2>4
<1> QED
  BY <1>1, <1>2, <1>3
-----------------------------------------------------------------------------
(* Users and notifiers.                                                    *)

\* Steps that leave the debugger alone and the requests where they are, or posted anew.
LEMMA Outside ==
  ASSUME DebugInv, TypeOK', PostsCounted', UNCHANGED <<up, queue, stranded>>, WayKept,
         worker'.at = worker.at,
         \A t \in Tasks : row'[t] = "none" \/ (row'[t] = row[t] /\ (InHands(t) => InHands(t)'))
  PROVE  DebugInv'
<1>1. RestsWhenDown'
  BY DEF DebugInv, RestsWhenDown
<1>2. Worked'
  BY DEF DebugInv, Worked
<1>3. Carried'
  <2> SUFFICES ASSUME NEW t \in Tasks, row'[t] = "pending", up' = "up"
               PROVE  (t \in ToSet(queue) \cup stranded \/ InHands(t) \/ OnItsWay(t))'
    BY DEF Carried
  <2>1. row[t] = "pending" /\ up = "up" /\ (InHands(t) => InHands(t)')
    OBVIOUS
  <2>2. t \in ToSet(queue) \cup stranded \/ InHands(t) \/ OnItsWay(t)
    BY <2>1 DEF DebugInv, Carried
  <2> QED
    BY <2>1, <2>2 DEF WayKept
<1> QED
  BY <1>1, <1>2, <1>3 DEF DebugInv

\* The same, where the worker does not move at all.
LEMMA Aside ==
  ASSUME DebugInv, TypeOK', PostsCounted', UNCHANGED <<debugger, stranded>>, WayKept,
         \A t \in Tasks : row'[t] \in {row[t], "none"}
  PROVE  DebugInv'
<1>1. \A t \in Tasks : InHands(t) => InHands(t)'
  BY DEF InHands, debugger
<1> QED
  BY <1>1, Outside DEF debugger

LEMMA UserSteps == DebugInv /\ Users => DebugInv'
<1> SUFFICES ASSUME DebugInv, NEW t \in Tasks, Fails(t) \/ Restart(t) \/ DeleteReport(t)
             PROVE  DebugInv'
  BY DEF Users
<1>1. CASE Fails(t)
  <2> DEFINE k == fails + 1
  <2>1. /\ k \in Failure /\ fails' = k /\ fails \in Nat
        /\ notifier' = [notifier EXCEPT ![k] = [at |-> "check", task |-> t, posts |-> 0]]
        /\ UNCHANGED <<row, debugger, request, stranded, faults>> /\ failed' = failed \cup {t}
    BY <1>1, DebugAssumption DEF Fails, DebugInv, TypeOK, Failure
  <2>2. k > fails /\ notifier[k].posts = 0
    BY <2>1 DEF DebugInv, PostsCounted
  <2>3. \A n \in Post1 : request[<<k, n>>] = "none"
    BY <2>1, <2>2 DEF DebugInv, PostsCounted, Post1
  <2>4. TypeOK'
    BY <2>1, DebugAssumption DEF DebugInv, TypeOK, Notifiers, Failure, debugger
  <2>5. PostsCounted'
    <3> SUFFICES ASSUME NEW j \in Failure
                 PROVE  (/\ j > fails => notifier[j].at = "none" /\ notifier[j].posts = 0
                         /\ notifier[j].at = "check" => notifier[j].posts = 0
                         /\ notifier[j].at = "post" => notifier[j].posts < Tries
                         /\ \A n \in Post1 : n > notifier[j].posts => request[<<j, n>>] = "none")'
      BY DEF PostsCounted
    <3>1. CASE j = k
      BY <2>1, <2>3, <3>1 DEF DebugInv, TypeOK
    <3>2. CASE j # k
      <4>1. notifier'[j] = notifier[j] /\ (j > fails' => j > fails)
        BY <2>1, <3>2 DEF DebugInv, TypeOK, Failure
      <4> QED
        BY <2>1, <4>1 DEF DebugInv, PostsCounted
    <3> QED
      BY <3>1, <3>2
  <2>6. WayKept
    BY <2>1, <2>3 DEF WayKept, OnItsWay, DebugInv, TypeOK
  <2> QED
    BY <2>1, <2>4, <2>5, <2>6, Aside
<1>2. CASE Restart(t)
  <2>1. UNCHANGED <<fails, row, debugger, notices, stranded, faults>> /\ failed' = failed \ {t}
    BY <1>2 DEF Restart
  <2>2. TypeOK'
    BY <2>1 DEF DebugInv, TypeOK, notices, debugger
  <2>3. PostsCounted' /\ WayKept
    BY <2>1 DEF DebugInv, PostsCounted, WayKept, OnItsWay, notices
  <2> QED
    BY <2>1, <2>2, <2>3, Aside
<1>3. CASE DeleteReport(t)
  <2>1. /\ row' = [row EXCEPT ![t] = "none"] /\ UNCHANGED <<tasks, up, queue, notifier, stranded, faults>>
        /\ request' = [p \in DOMAIN request |->
                         IF request[p] = "reset" /\ notifier[p[1]].task = t THEN "late" ELSE request[p]]
        /\ \/ worker' = worker
           \/ worker.task = t /\ worker' = [worker EXCEPT !.holds = "gone"]
    BY <1>3 DEF DeleteReport
  <2>2. /\ request' \in [Failure \X Post1 -> Requests]
        /\ \A p \in Failure \X Post1 : request[p] \in {"none", "queue"} => request'[p] = request[p]
    BY <2>1 DEF DebugInv, TypeOK, Requests, Post1
  <2>3. /\ worker' \in Hands /\ worker'.at = worker.at /\ worker'.task = worker.task
        /\ worker.task # t => worker' = worker
    BY <2>1 DEF DebugInv, TypeOK, Hands
  <2>4. row' \in [Tasks -> Rows] /\ row'[t] = "none" /\ \A x \in Tasks : x # t => row'[x] = row[x]
    BY <2>1 DEF DebugInv, TypeOK, Rows
  <2>5. TypeOK'
    BY <2>1, <2>2, <2>3, <2>4 DEF DebugInv, TypeOK, tasks, Post1
  <2>6. PostsCounted' /\ WayKept
    BY <2>1, <2>2 DEF DebugInv, PostsCounted, WayKept, OnItsWay, tasks
  <2>7. \A x \in Tasks : x # t /\ InHands(x) => InHands(x)'
    BY <2>3 DEF InHands
  <2> QED
    BY <2>1, <2>3, <2>4, <2>5, <2>6, <2>7, Outside
<1> QED
  BY <1>1, <1>2, <1>3

\* A notifier goes on, and may post a request that was not there, or drop an answer.
LEMMA NotifierSteps ==
  ASSUME DebugInv, NEW k \in Failure, Notify(k) \/ NotifierDies(k)
  PROVE  DebugInv'
<1> DEFINE n == notifier[k].posts + 1
<1>0. /\ notifier[k] \in Notifiers /\ notifier[k].posts \in Nat
      /\ k > fails => notifier[k].at = "none" /\ notifier[k].posts = 0
      /\ \A m \in Post1 : m > notifier[k].posts => request[<<k, m>>] = "none"
      /\ notifier[k].at = "check" => notifier[k].posts = 0
      /\ notifier[k].at = "post" => notifier[k].posts < Tries
  BY DEF DebugInv, TypeOK, Notifiers, PostsCounted
\* What the step makes of this notifier and its requests.
<1> DEFINE Moves(at, posts) ==
      /\ notifier' \in [Failure -> Notifiers]
      /\ \A j \in Failure : notifier'[j].task = notifier[j].task
      /\ \A j \in Failure : j # k => notifier'[j] = notifier[j]
      /\ notifier'[k].at = at /\ notifier'[k].posts = posts
      /\ at \in {"post", "wait", "end"} /\ posts \in 0 .. Tries /\ posts >= notifier[k].posts
      /\ at = "post" => posts < Tries
      /\ \/ request' = request
         \/ posts = n /\ request' = [request EXCEPT ![<<k, n>>] = "read"]
         \/ \E m \in Post1 : /\ request[<<k, m>>] \in {"yes", "no"}
                             /\ request' = [request EXCEPT ![<<k, m>>] = "none"]
      /\ notifier[k].at # "none"
      /\ UNCHANGED <<tasks, row, debugger, stranded>> /\ faults' \in 0 .. MaxFaults
<1>1. ASSUME NEW at, NEW posts, Moves(at, posts) PROVE DebugInv'
  <2>1. /\ \A j \in Failure : notifier'[j].task = notifier[j].task
        /\ \A j \in Failure : j # k => notifier'[j] = notifier[j]
        /\ fails' = fails
    BY <1>1 DEF tasks
  <2>3. /\ request' \in [Failure \X Post1 -> Requests]
        /\ \A j \in Failure, m \in Post1 : request[<<j, m>>] = "queue" => request'[<<j, m>>] = "queue"
        /\ \A j \in Failure, m \in Post1 : j # k => request'[<<j, m>>] = request[<<j, m>>]
        /\ \A m \in Post1 : m > posts => request'[<<k, m>>] = "none"
    <3>1. CASE request' = request
      BY <1>0, <1>1, <3>1 DEF DebugInv, TypeOK, Post1
    <3>2. CASE posts = n /\ request' = [request EXCEPT ![<<k, n>>] = "read"]
      <4>1. n \in Post1 /\ request[<<k, n>>] = "none"
        BY <1>0, <1>1, <3>2 DEF Post1
      <4> QED
        BY <1>0, <1>1, <3>2, <4>1 DEF DebugInv, TypeOK, Requests, Post1
    <3>3. CASE \E m \in Post1 : /\ request[<<k, m>>] \in {"yes", "no"}
                                /\ request' = [request EXCEPT ![<<k, m>>] = "none"]
      <4>1. PICK m \in Post1 : /\ request[<<k, m>>] \in {"yes", "no"}
                              /\ request' = [request EXCEPT ![<<k, m>>] = "none"]
        BY <3>3
      <4>2. \A j \in Failure, x \in Post1 :
               request'[<<j, x>>] = IF j = k /\ x = m THEN "none" ELSE request[<<j, x>>]
        BY <4>1 DEF DebugInv, TypeOK, Post1
      <4>3. \A x \in Post1 : x > posts => x > notifier[k].posts
        BY <1>0, <1>1 DEF Post1
      <4>4. request' \in [Failure \X Post1 -> Requests]
        BY <4>1 DEF DebugInv, TypeOK, Requests, Post1
      <4> QED
        BY <1>0, <4>1, <4>2, <4>3, <4>4
    <3> QED
      BY <1>1, <3>1, <3>2, <3>3
  <2>4. TypeOK'
    BY <1>1, <2>3 DEF DebugInv, TypeOK, tasks, debugger, Post1
  <2>5. PostsCounted'
    <3> SUFFICES ASSUME NEW j \in Failure
                 PROVE  (/\ j > fails => notifier[j].at = "none" /\ notifier[j].posts = 0
                         /\ notifier[j].at = "check" => notifier[j].posts = 0
                         /\ notifier[j].at = "post" => notifier[j].posts < Tries
                         /\ \A m \in Post1 : m > notifier[j].posts => request[<<j, m>>] = "none")'
      BY DEF PostsCounted
    <3>1. CASE j = k
      BY <1>0, <1>1, <2>3, <3>1 DEF tasks
    <3>2. CASE j # k
      BY <2>1, <2>3, <3>2 DEF DebugInv, PostsCounted
    <3> QED
      BY <3>1, <3>2
  <2>6. WayKept
    BY <2>1, <2>3 DEF WayKept, OnItsWay
  <2> QED
    BY <1>1, <2>4, <2>5, <2>6, Aside
<1>2. ASSUME NEW at \in {"post", "wait", "end"}, NEW posts \in 0 .. Tries,
             \/ posts = notifier[k].posts /\ notifier' = [notifier EXCEPT ![k].at = at]
             \/ notifier' = [notifier EXCEPT ![k].at = at, ![k].posts = posts]
      PROVE  /\ notifier' \in [Failure -> Notifiers]
             /\ \A j \in Failure : notifier'[j].task = notifier[j].task
             /\ \A j \in Failure : j # k => notifier'[j] = notifier[j]
             /\ notifier'[k].at = at /\ notifier'[k].posts = posts
  <2>1. notifier \in [Failure -> Notifiers]
    BY DEF DebugInv, TypeOK
  <2> DEFINE h == [notifier EXCEPT ![k].at = at]
  <2>2. /\ h \in [Failure -> Notifiers] /\ h[k].at = at /\ h[k].posts = notifier[k].posts
        /\ h[k].task = notifier[k].task /\ \A j \in Failure : j # k => h[j] = notifier[j]
    BY <2>1 DEF Notifiers
  <2>3. (notifier' = h /\ posts = notifier[k].posts) \/ notifier' = [h EXCEPT ![k].posts = posts]
    BY <1>2
  <2> HIDE DEF h
  <2>4. CASE notifier' = h /\ posts = notifier[k].posts
    BY <2>2, <2>4
  <2>5. CASE notifier' = [h EXCEPT ![k].posts = posts]
    <3>1. /\ notifier' \in [Failure -> Notifiers]
          /\ notifier'[k].at = h[k].at /\ notifier'[k].posts = posts
          /\ notifier'[k].task = h[k].task /\ \A j \in Failure : j # k => notifier'[j] = h[j]
      BY <2>2, <2>5 DEF Notifiers
    <3> QED
      BY <2>2, <3>1
  <2> QED
    BY <2>3, <2>4, <2>5
<1> HIDE DEF n
<1>3. CASE Check(k)
  <2> DEFINE at == IF notifier[k].task \in failed THEN "post" ELSE "end"
  <2>1. /\ notifier' = [notifier EXCEPT ![k].at = at] /\ notifier[k].at = "check"
        /\ UNCHANGED <<tasks, row, debugger, request, stranded, faults>>
    BY <1>3 DEF Check, Went
  <2>2. at \in {"post", "end"} /\ notifier[k].posts \in 0 .. Tries /\ notifier[k].posts < Tries
    BY <1>0, <2>1, DebugAssumption
  <2> HIDE DEF at
  <2>3. Moves(at, notifier[k].posts)
    <3>1. /\ notifier' \in [Failure -> Notifiers]
          /\ \A j \in Failure : notifier'[j].task = notifier[j].task
          /\ \A j \in Failure : j # k => notifier'[j] = notifier[j]
          /\ notifier'[k].at = at /\ notifier'[k].posts = notifier[k].posts
      BY <1>2, <2>1, <2>2
    <3>2. faults' \in 0 .. MaxFaults
      BY <2>1 DEF DebugInv, TypeOK
    <3> QED
      BY <1>0, <2>1, <2>2, <3>1, <3>2
  <2> QED
    BY <1>1, <2>3
<1>4. CASE Post(k)
  <2>0. n \in 0 .. Tries /\ n \in Nat /\ n = notifier[k].posts + 1
    BY <1>0, <1>4, DebugAssumption DEF Post, n
  <2>1. /\ notifier[k].at = "post" /\ UNCHANGED <<tasks, row, debugger, stranded, faults>>
        /\ \/ /\ notifier' = [notifier EXCEPT ![k].at = "wait", ![k].posts = n]
              /\ request' = [request EXCEPT ![<<k, n>>] = "read"]
           \/ /\ notifier' = [notifier EXCEPT ![k].at = After(n), ![k].posts = n]
              /\ request' = request
    BY <1>4 DEF Post, n
  <2>2. After(n) \in {"post", "end"} /\ (After(n) = "post" => n < Tries)
    BY DEF After
  <2>3. \E at \in {"wait", "post", "end"} : Moves(at, n)
    <3>1. CASE /\ notifier' = [notifier EXCEPT ![k].at = "wait", ![k].posts = n]
               /\ request' = [request EXCEPT ![<<k, n>>] = "read"]
      <4>1. Moves("wait", n)
        <5>1. /\ notifier' \in [Failure -> Notifiers]
              /\ \A j \in Failure : notifier'[j].task = notifier[j].task
              /\ \A j \in Failure : j # k => notifier'[j] = notifier[j]
              /\ notifier'[k].at = "wait" /\ notifier'[k].posts = n
          BY <1>2, <2>0, <3>1
        <5>2. faults' \in 0 .. MaxFaults
          BY <2>1 DEF DebugInv, TypeOK
        <5> QED
          BY <1>0, <2>0, <2>1, <3>1, <5>1, <5>2
      <4> QED
        BY <4>1
    <3>2. CASE /\ notifier' = [notifier EXCEPT ![k].at = After(n), ![k].posts = n]
               /\ request' = request
      <4>1. Moves(After(n), n)
        <5>1. /\ notifier' \in [Failure -> Notifiers]
              /\ \A j \in Failure : notifier'[j].task = notifier[j].task
              /\ \A j \in Failure : j # k => notifier'[j] = notifier[j]
              /\ notifier'[k].at = After(n) /\ notifier'[k].posts = n
          BY <1>2, <2>0, <2>2, <3>2
        <5>2. faults' \in 0 .. MaxFaults
          BY <2>1 DEF DebugInv, TypeOK
        <5> QED
          BY <1>0, <2>0, <2>1, <2>2, <3>2, <5>1, <5>2
      <4> QED
        BY <2>2, <4>1
    <3> QED
      BY <2>1, <3>1, <3>2
  <2> QED
    BY <1>1, <2>3
<1>5. CASE Answer(k)
  <2> DEFINE m == notifier[k].posts
             at == IF request[<<k, m>>] = "yes" THEN "end" ELSE After(m)
  <2>1. /\ notifier' = [notifier EXCEPT ![k].at = at] /\ notifier[k].at = "wait"
        /\ UNCHANGED <<tasks, row, debugger, stranded, faults>>
        /\ request' = [request EXCEPT ![<<k, m>>] = IF @ \in {"yes", "no"} THEN "none" ELSE @]
    BY <1>5 DEF Answer, Went
  <2>2. at \in {"post", "end"} /\ m \in 0 .. Tries /\ (at = "post" => m < Tries)
    BY <1>0 DEF After, Notifiers
  <2>3. \/ request' = request
        \/ \E x \in Post1 : /\ request[<<k, x>>] \in {"yes", "no"}
                            /\ request' = [request EXCEPT ![<<k, x>>] = "none"]
    <3>1. CASE m \in Post1 /\ request[<<k, m>>] \in {"yes", "no"}
      BY <2>1, <3>1 DEF DebugInv, TypeOK, Post1
    <3>2. CASE ~(m \in Post1 /\ request[<<k, m>>] \in {"yes", "no"})
      <4>1. request' \in [Failure \X Post1 -> Requests]
        BY <2>1 DEF DebugInv, TypeOK, Post1, Requests
      <4>2. \A q \in Failure \X Post1 : request'[q] = request[q]
        <5> SUFFICES ASSUME NEW q \in Failure \X Post1 PROVE request'[q] = request[q]
          OBVIOUS
        <5>1. CASE q = <<k, m>>
          <6>1. m \in Post1
            BY <5>1
          <6> QED
            BY <2>1, <3>2, <5>1, <6>1 DEF DebugInv, TypeOK, Post1
        <5>2. CASE q # <<k, m>>
          BY <2>1, <5>2 DEF DebugInv, TypeOK, Post1
        <5> QED
          BY <5>1, <5>2
      <4> QED
        BY <4>1, <4>2 DEF DebugInv, TypeOK, Post1
    <3> QED
      BY <3>1, <3>2
  <2> HIDE DEF at, m
  <2>4. Moves(at, m)
    <3>1. m = notifier[k].posts
      BY DEF m
    <3> QED
      <4>1. /\ notifier' \in [Failure -> Notifiers]
            /\ \A j \in Failure : notifier'[j].task = notifier[j].task
            /\ \A j \in Failure : j # k => notifier'[j] = notifier[j]
            /\ notifier'[k].at = at /\ notifier'[k].posts = m
        BY <1>2, <2>1, <2>2, <3>1
      <4>2. faults' \in 0 .. MaxFaults
        BY <2>1 DEF DebugInv, TypeOK
      <4>3. /\ at \in {"post", "wait", "end"} /\ m \in 0 .. Tries /\ m >= notifier[k].posts
            /\ at = "post" => m < Tries
        BY <1>0, <2>2, <3>1
      <4> QED
        BY <2>1, <2>3, <4>1, <4>2, <4>3
  <2> QED
    BY <1>1, <2>4
<1>6. CASE NotifierDies(k)
  <2>1. /\ notifier' = [notifier EXCEPT ![k].at = "end"] /\ notifier[k].at # "none"
        /\ UNCHANGED <<tasks, row, debugger, request, stranded>> /\ faults' \in 0 .. MaxFaults
    BY <1>6, DebugAssumption DEF NotifierDies, Went, Fault, DebugInv, TypeOK
  <2>2. notifier[k].posts \in 0 .. Tries
    BY <1>0 DEF Notifiers
  <2>3. Moves("end", notifier[k].posts)
    BY <1>0, <1>2, <2>1, <2>2
  <2> QED
    BY <1>1, <2>3
<1> QED
  BY <1>3, <1>4, <1>5, <1>6 DEF Notify
-----------------------------------------------------------------------------
(* Requests.                                                               *)

\* A request goes on.
LEMMA RequestMoves ==
  ASSUME DebugInv, NEW k \in Failure, NEW n \in Post1, NEW v \in Requests,
         request[<<k, n>>] # "none", request' = [request EXCEPT ![<<k, n>>] = v],
         UNCHANGED <<tasks, notifier>>
  PROVE  /\ request' \in [Failure \X Post1 -> Requests]
         /\ PostsCounted'
         /\ \A t \in Tasks : OnItsWay(t) /\ (request[<<k, n>>] = "queue" => notifier[k].task # t)
              => OnItsWay(t)'
         /\ v = "queue" => OnItsWay(notifier[k].task)'
<1>1. /\ request' \in [Failure \X Post1 -> Requests]
      /\ \A j \in Failure, m \in Post1 :
           request'[<<j, m>>] = IF j = k /\ m = n THEN v ELSE request[<<j, m>>]
  BY DEF DebugInv, TypeOK, Post1
<1>2. ~(n > notifier[k].posts)
  BY DEF DebugInv, PostsCounted
<1>3. PostsCounted'
  <2>1. ASSUME NEW j \in Failure, NEW m \in Post1, m > notifier[j].posts
        PROVE  request'[<<j, m>>] = "none"
    BY <1>1, <1>2, <2>1 DEF DebugInv, PostsCounted
  <2> QED
    BY <2>1 DEF DebugInv, PostsCounted, tasks
<1>4. \A t \in Tasks : OnItsWay(t) /\ (request[<<k, n>>] = "queue" => notifier[k].task # t)
        => OnItsWay(t)'
  BY <1>1 DEF OnItsWay
<1>5. v = "queue" => OnItsWay(notifier[k].task)'
  BY <1>1 DEF OnItsWay
<1> QED
  BY <1>1, <1>3, <1>4, <1>5

LEMMA RequestSteps ==
  ASSUME DebugInv, NEW k \in Failure, NEW n \in Post1, Request(k, n)
  PROVE  DebugInv'
<1> DEFINE t == notifier[k].task
<1>0. t \in Tasks
  BY DEF DebugInv, TypeOK, Notifiers
<1>1. \A at \in Requests : Comes(k, n, at) =>
        \E v \in Requests : request' = [request EXCEPT ![<<k, n>>] = v]
  BY DEF Comes, Requests
<1>2. CASE SubmitReads(k, n) \/ SubmitFails(k, n)
  <2>1. /\ request[<<k, n>>] \in {"read", "insert", "reset", "late"}
        /\ UNCHANGED <<tasks, row, debugger, notifier, stranded>> /\ faults' \in 0 .. MaxFaults
    BY <1>2, DebugAssumption DEF SubmitReads, SubmitFails, Fault, DebugInv, TypeOK
  <2>2. \E at \in Requests : Comes(k, n, at)
    BY <1>2 DEF SubmitReads, SubmitFails, Seen, Requests
  <2>3. PICK v \in Requests : request' = [request EXCEPT ![<<k, n>>] = v]
    BY <1>1, <2>2
  <2>4. request' \in [Failure \X Post1 -> Requests] /\ PostsCounted' /\ WayKept
    BY <2>1, <2>3, RequestMoves DEF WayKept
  <2>5. TypeOK'
    BY <2>1, <2>4 DEF DebugInv, TypeOK, tasks, debugger, Post1
  <2> QED
    BY <2>1, <2>4, <2>5, Aside
<1>3. CASE SubmitWrites(k, n)
  <2>1. /\ request[<<k, n>>] \in {"insert", "reset"}
        /\ row' = [row EXCEPT ![t] = "pending"]
        /\ request' = [request EXCEPT ![<<k, n>>] = "queue"]
        /\ UNCHANGED <<tasks, debugger, notifier, stranded, faults>>
    BY <1>3 DEF SubmitWrites
  <2>2. /\ request' \in [Failure \X Post1 -> Requests] /\ PostsCounted' /\ OnItsWay(t)'
        /\ \A x \in Tasks : OnItsWay(x) => OnItsWay(x)'
    BY <2>1, RequestMoves DEF Requests
  <2>3. row' \in [Tasks -> Rows] /\ row'[t] = "pending" /\ \A x \in Tasks : x # t => row'[x] = row[x]
    BY <1>0, <2>1 DEF DebugInv, TypeOK, Rows
  <2>4. TypeOK'
    BY <2>1, <2>2, <2>3 DEF DebugInv, TypeOK, tasks, debugger, Post1
  <2>5. RestsWhenDown' /\ Worked'
    BY <2>1, <2>3 DEF DebugInv, RestsWhenDown, Worked, InHands, debugger
  <2>6. Carried'
    <3> SUFFICES ASSUME NEW x \in Tasks, row'[x] = "pending", up' = "up"
                 PROVE  (x \in ToSet(queue) \cup stranded \/ InHands(x) \/ OnItsWay(x))'
      BY DEF Carried
    <3>1. CASE x = t
      <4>1. request'[<<k, n>>] = "queue"
        BY <2>1 DEF DebugInv, TypeOK, Post1
      <4>2. notifier' = notifier
        BY <2>1
      <4>3. notifier'[k].task = x
        BY <4>2, <3>1
      <4> QED
        BY <4>1, <4>3 DEF OnItsWay
    <3>2. CASE x # t
      <4>1. x \in ToSet(queue) \cup stranded \/ InHands(x) \/ OnItsWay(x)
        BY <2>1, <2>3, <3>2 DEF DebugInv, Carried, debugger
      <4> QED
        BY <2>1, <2>2, <4>1 DEF InHands, debugger
    <3> QED
      BY <3>1, <3>2
  <2> QED
    BY <2>2, <2>4, <2>5, <2>6 DEF DebugInv
<1>4. CASE SubmitQueues(k, n)
  <2>1. /\ request[<<k, n>>] = "queue" /\ queue' = Append(queue, t)
        /\ UNCHANGED <<tasks, row, up, worker, notifier, stranded, faults>>
    BY <1>4 DEF SubmitQueues
  <2>2. \E at \in Requests : Comes(k, n, at)
    BY <1>4 DEF SubmitQueues, Requests
  <2>3. PICK v \in Requests : request' = [request EXCEPT ![<<k, n>>] = v]
    BY <1>1, <2>2
  <2>4. /\ request' \in [Failure \X Post1 -> Requests] /\ PostsCounted'
        /\ \A x \in Tasks : OnItsWay(x) /\ x # t => OnItsWay(x)'
    BY <2>1, <2>3, RequestMoves
  <2>5. queue' \in Seq(Tasks) /\ ToSet(queue') = ToSet(queue) \cup {t}
    BY <1>0, <2>1, QueueSets DEF DebugInv, TypeOK
  <2>6. TypeOK'
    BY <2>1, <2>4, <2>5 DEF DebugInv, TypeOK, tasks, Post1
  <2>7. RestsWhenDown' /\ Worked'
    BY <2>1 DEF DebugInv, RestsWhenDown, Worked, InHands
  <2>8. Carried'
    BY <2>1, <2>4, <2>5 DEF DebugInv, Carried, InHands
  <2> QED
    BY <2>4, <2>6, <2>7, <2>8 DEF DebugInv
<1> QED
  BY <1>2, <1>3, <1>4 DEF Request

-----------------------------------------------------------------------------
(* The debugger.                                                           *)

\* A step that changes neither notifiers nor requests.
LEMMA NoticesKept ==
  ASSUME DebugInv, UNCHANGED <<tasks, notices>>
  PROVE  /\ PostsCounted' /\ WayKept
         /\ notifier' \in [Failure -> Notifiers] /\ request' \in [Failure \X Post1 -> Requests]
BY DEF DebugInv, TypeOK, PostsCounted, WayKept, OnItsWay, tasks, notices, Post1

LEMMA StartSteps == DebugInv /\ Start => DebugInv'
<1> SUFFICES ASSUME DebugInv, Start PROVE DebugInv'
  OBVIOUS
<1>0. UNCHANGED <<tasks, notices, worker>> /\ up \in {"down", "boot", "swept"} /\ faults' \in 0 .. MaxFaults
  BY DebugAssumption DEF Start, Boot, Sweep, Enqueue, Fault, DebugInv, TypeOK
<1>1. worker.at = "idle" /\ RestsWhenDown' /\ \A t \in Tasks : ~InHands(t)
  BY <1>0 DEF DebugInv, RestsWhenDown, InHands
<1>2. CASE Boot \/ Sweep
  <2>1. /\ up' \in {"boot", "swept"} /\ row' \in [Tasks -> Rows] /\ queue' = queue
        /\ stranded' \in SUBSET Tasks
        /\ up' = "swept" => \A t \in Tasks : row'[t] = "running" => t \in stranded'
    BY <1>2 DEF Boot, Sweep, Swept, DebugInv, TypeOK, Rows
  <2>2. TypeOK'
    BY <1>0, <2>1, NoticesKept DEF DebugInv, TypeOK, tasks, Post1
  <2>3. Worked' /\ Carried'
    BY <2>1 DEF Worked, Carried
  <2> QED
    BY <1>0, <1>1, <2>2, <2>3, NoticesKept DEF DebugInv
<1>3. CASE Enqueue
  <2>1. /\ up = "swept" /\ up' = "up" /\ row' = row
        /\ \/ /\ \E s \in SetToSeqs(Unfinished) : queue' = queue \o s
              /\ stranded' = stranded \ Unfinished
           \/ queue' = queue /\ stranded' = stranded \cup Unfinished
    BY <1>3 DEF Enqueue
  <2>2. \A t \in Tasks : /\ row[t] = "running" => t \in stranded /\ t \notin Unfinished
                         /\ row[t] = "pending" => t \in Unfinished
    BY <1>1, <2>1 DEF DebugInv, Worked, Unfinished
  <2>3. /\ queue' \in Seq(Tasks) /\ stranded' \in SUBSET Tasks
        /\ Unfinished \subseteq ToSet(queue') \cup stranded'
    <3>1. CASE \E s \in SetToSeqs(Unfinished) : queue' = queue \o s /\ stranded' = stranded \ Unfinished
      <4>1. PICK s \in SetToSeqs(Unfinished) : queue' = queue \o s
        BY <3>1
      <4>2. s \in Seq(Tasks) /\ ToSet(s) = Unfinished
        BY <4>1, AllAreQueued DEF Unfinished
      <4> QED
        BY <3>1, <4>1, <4>2, QueueSets DEF DebugInv, TypeOK
    <3>2. CASE queue' = queue /\ stranded' = stranded \cup Unfinished
      BY <3>2 DEF DebugInv, TypeOK, Unfinished
    <3> QED
      BY <2>1, <3>1, <3>2
  <2>4. TypeOK'
    BY <1>0, <2>1, <2>3, NoticesKept DEF DebugInv, TypeOK, tasks, Post1
  <2>5. Worked' /\ Carried'
    BY <2>1, <2>2, <2>3 DEF Worked, Carried
  <2> QED
    BY <1>0, <1>1, <2>4, <2>5, NoticesKept DEF DebugInv
<1> QED
  BY <1>2, <1>3 DEF Start

LEMMA DiesStep == DebugInv /\ Dies => DebugInv'
<1> SUFFICES ASSUME DebugInv, Dies PROVE DebugInv'
  OBVIOUS
<1>1. /\ up' = "down" /\ queue' = <<>> /\ worker' = Resting /\ UNCHANGED <<tasks, row, notifier, stranded>>
      /\ faults' \in 0 .. MaxFaults
      /\ request' = [p \in DOMAIN request |->
                       IF request[p] \in {"read", "insert", "reset", "late", "queue"} THEN "no"
                       ELSE request[p]]
  BY DebugAssumption DEF Dies, Fault, DebugInv, TypeOK
<1>2. /\ request' \in [Failure \X Post1 -> Requests]
      /\ \A p \in Failure \X Post1 : request[p] = "none" => request'[p] = "none"
  BY <1>1 DEF DebugInv, TypeOK, Requests, Post1
<1>3. TypeOK'
  BY <1>1, <1>2, RestingType DEF DebugInv, TypeOK, tasks, Post1
<1>4. PostsCounted'
  BY <1>1, <1>2 DEF DebugInv, PostsCounted, tasks
<1>5. RestsWhenDown' /\ Worked' /\ Carried'
  BY <1>1, RestingType DEF RestsWhenDown, Worked, Carried
<1> QED
  BY <1>3, <1>4, <1>5 DEF DebugInv

\* What the thread does is known from the row of its task and from what it holds.
LEMMA ThreadStep ==
  ASSUME DebugInv, up = "up", UNCHANGED <<tasks, up, notices>>,
         row' \in [Tasks -> Rows], worker' \in Hands, queue' \in Seq(Tasks),
         stranded' \in SUBSET Tasks, faults' \in 0 .. MaxFaults,
         \A t \in Tasks : row'[t] = "running" => t \in stranded' \/ InHands(t)',
         \A t \in Tasks : row'[t] = "pending" =>
            \/ t \in ToSet(queue') \cup stranded' \/ InHands(t)'
            \/ row[t] = "pending" /\ OnItsWay(t)
  PROVE  DebugInv'
<1>1. TypeOK'
  BY NoticesKept DEF DebugInv, TypeOK, tasks, Post1
<1>2. RestsWhenDown' /\ Worked'
  BY DEF RestsWhenDown, Worked
<1>3. Carried'
  BY NoticesKept DEF Carried, WayKept
<1> QED
  BY <1>1, <1>2, <1>3, NoticesKept DEF DebugInv

LEMMA ThreadSteps == DebugInv /\ Thread => DebugInv'
<1> SUFFICES ASSUME DebugInv, Thread PROVE DebugInv'
  OBVIOUS
<1> DEFINE t == worker.task
<1>0. /\ t \in Tasks /\ worker \in Hands /\ row \in [Tasks -> Rows] /\ queue \in Seq(Tasks)
      /\ stranded \subseteq Tasks /\ faults \in 0 .. MaxFaults
  BY DEF DebugInv, TypeOK, Hands
<1>1. up = "up" /\ UNCHANGED <<tasks, up, notices>>
  <2>1. worker.at # "idle" => up = "up"
    BY DEF DebugInv, RestsWhenDown
  <2> QED
    BY <2>1 DEF Thread, Take, Begin, Refresh, Collect, Work, Store, Handle
<1>2. \A x \in Tasks : row[x] = "running" => x \in stranded \/ InHands(x)
  BY <1>1 DEF DebugInv, Worked
<1>3. \A x \in Tasks : row[x] = "pending" =>
        x \in ToSet(queue) \cup stranded \/ InHands(x) \/ OnItsWay(x)
  BY <1>1 DEF DebugInv, Carried
<1>4. CASE Take
  <2>1. /\ queue # <<>> /\ queue' = Tail(queue) /\ UNCHANGED <<row, faults>> /\ worker.at = "idle"
        /\ \/ /\ worker' = [at |-> "write", task |-> Head(queue),
                             holds |-> IF row[Head(queue)] = "none" THEN "none" ELSE "row"]
              /\ stranded' = stranded \ {Head(queue)}
           \/ worker' = worker /\ stranded' = stranded \cup {Head(queue)}
    BY <1>4 DEF Take
  <2>2. /\ Head(queue) \in Tasks /\ queue' \in Seq(Tasks)
        /\ ToSet(queue) = ToSet(queue') \cup {Head(queue)}
    BY <1>0, <2>1, QueueSets
  <2>3. \A x \in Tasks : ~InHands(x)
    BY <2>1 DEF InHands
  <2> DEFINE h == Head(queue)
  <2>4. CASE /\ worker' = [at |-> "write", task |-> h, holds |-> IF row[h] = "none" THEN "none" ELSE "row"]
             /\ stranded' = stranded \ {h}
    <3>1. worker' \in Hands /\ stranded' \in SUBSET Tasks
      BY <1>0, <2>2, <2>4 DEF Hands
    <3>2. \A x \in Tasks : x = h /\ row[x] # "none" => InHands(x)'
      BY <2>4 DEF InHands
    <3>3. \A x \in Tasks : row'[x] = "running" => x \in stranded' \/ InHands(x)'
      BY <1>2, <2>1, <2>3, <2>4, <3>2
    <3>4. \A x \in Tasks : row'[x] = "pending" =>
             \/ x \in ToSet(queue') \cup stranded' \/ InHands(x)'
             \/ row[x] = "pending" /\ OnItsWay(x)
      BY <1>3, <2>1, <2>2, <2>3, <2>4, <3>2
    <3> QED
      BY <1>0, <1>1, <2>1, <2>2, <3>1, <3>3, <3>4, ThreadStep
  <2>5. CASE worker' = worker /\ stranded' = stranded \cup {h}
    <3>1. worker' \in Hands /\ stranded' \in SUBSET Tasks
      BY <1>0, <2>2, <2>5
    <3>2. \A x \in Tasks : row'[x] = "running" => x \in stranded' \/ InHands(x)'
      BY <1>2, <2>1, <2>3, <2>5
    <3>3. \A x \in Tasks : row'[x] = "pending" =>
             \/ x \in ToSet(queue') \cup stranded' \/ InHands(x)'
             \/ row[x] = "pending" /\ OnItsWay(x)
      BY <1>3, <2>1, <2>2, <2>3, <2>5
    <3> QED
      BY <1>0, <1>1, <2>1, <2>2, <3>1, <3>2, <3>3, ThreadStep
  <2> QED
    BY <2>1, <2>4, <2>5
\* The worker lets go of a task whose row is as it was, and is left to somebody or stranded.
<1>5. ASSUME worker' = Resting, UNCHANGED <<row, queue>>, stranded' \in SUBSET Tasks,
             faults' \in 0 .. MaxFaults, stranded \subseteq stranded',
             t \in stranded' \/ ~InHands(t)
      PROVE  DebugInv'
  <2>1. \A x \in Tasks : InHands(x) => x = t
    BY DEF InHands
  <2> QED
    BY <1>0, <1>1, <1>2, <1>3, <1>5, <2>1, RestingType, ThreadStep
<1>6. ASSUME Drop, queue' = queue PROVE DebugInv'
  <2>1. faults' \in 0 .. MaxFaults /\ stranded' \in SUBSET Tasks /\ t \in stranded'
        /\ stranded \subseteq stranded'
    BY <1>0, <1>6, DebugAssumption DEF Drop, Fault
  <2> QED
    BY <1>5, <1>6, <2>1 DEF Drop
\* The work goes on.
<1>7. ASSUME NEW v \in {"collect", "work", "skipped", "done", "fail"}, Goes(v), worker.at # "idle",
             UNCHANGED <<row, queue, stranded>>, faults' \in 0 .. MaxFaults
      PROVE  DebugInv'
  <2>1. /\ worker' \in Hands /\ worker'.at = v /\ worker'.task = t
        /\ worker'.holds = worker.holds
    BY <1>0, <1>7 DEF Hands, Goes
  <2>2. \A x \in Tasks : InHands(x) => InHands(x)'
    BY <1>7, <2>1 DEF InHands
  <2> QED
    BY <1>0, <1>1, <1>2, <1>3, <1>7, <2>1, <2>2, ThreadStep
\* The work of the task ends, with that status in its row if there is one.
<1>8. ASSUME NEW v \in {"error", "skipped", "done"}, worker' = Resting,
             row' \in {row, [row EXCEPT ![t] = v]}, row'[t] \in {"none", v},
             UNCHANGED <<queue, stranded>>, faults' \in 0 .. MaxFaults
      PROVE  DebugInv'
  <2>1. /\ row' \in [Tasks -> Rows] /\ row'[t] \notin {"running", "pending"}
        /\ \A x \in Tasks : x # t => row'[x] = row[x] /\ ~InHands(x)
    BY <1>0, <1>8 DEF Rows, InHands
  <2> QED
    BY <1>0, <1>1, <1>2, <1>3, <1>8, <2>1, RestingType, ThreadStep
<1>9. CASE Begin
  <2>0. worker.at = "write" /\ queue' = queue
    BY <1>9 DEF Begin
  <2>1. CASE /\ row' = [row EXCEPT ![t] = "running"]
             /\ worker' = [worker EXCEPT !.at = "refresh", !.holds = "row"]
             /\ UNCHANGED <<stranded, faults>>
    <3>1. /\ row' \in [Tasks -> Rows] /\ row'[t] = "running"
          /\ \A x \in Tasks : x # t => row'[x] = row[x]
      BY <1>0, <2>1 DEF Rows
    <3>2. worker' \in Hands /\ InHands(t)'
      BY <1>0, <2>1 DEF Hands, InHands
    <3>3. \A x \in Tasks : InHands(x) => x = t
      BY DEF InHands
    <3> QED
      BY <1>0, <1>1, <1>2, <1>3, <2>0, <2>1, <3>1, <3>2, <3>3, ThreadStep
  <2>2. CASE worker.holds # "row" /\ worker' = Resting /\ UNCHANGED <<row, stranded, faults>>
    BY <1>0, <1>5, <2>0, <2>2 DEF InHands
  <2> QED
    BY <1>6, <1>9, <2>0, <2>1, <2>2 DEF Begin
<1>10. CASE Refresh
  <2>0. worker.at = "refresh" /\ queue' = queue
    BY <1>10 DEF Refresh
  <2>1. CASE worker.holds = "row" /\ Goes("collect") /\ UNCHANGED <<row, stranded, faults>>
    BY <1>0, <1>7, <2>0, <2>1
  <2>2. CASE worker.holds # "row" /\ worker' = Resting /\ UNCHANGED <<row, stranded, faults>>
    BY <1>0, <1>5, <2>0, <2>2 DEF InHands
  <2> QED
    BY <1>6, <1>10, <2>0, <2>1, <2>2 DEF Refresh, Goes
<1>11. CASE Collect \/ Work
  BY <1>0, <1>7, <1>11 DEF Collect, Work
<1>12. CASE Store
  <2>0. worker.at \in {"skipped", "done"} /\ UNCHANGED <<queue, stranded>> /\ faults' \in 0 .. MaxFaults
    BY <1>0, <1>12, DebugAssumption DEF Store, Fault
  <2>1. CASE worker' = Resting /\ row' = [row EXCEPT ![t] = worker.at]
    <3>1. row'[t] = worker.at
      BY <1>0, <2>1
    <3> QED
      BY <1>8, <2>0, <2>1, <3>1
  <2>2. CASE Goes("fail") /\ row' = row
    BY <1>7, <2>0, <2>2
  <2> QED
    BY <1>12, <2>1, <2>2 DEF Store
<1>13. CASE Handle
  <2>0. queue' = queue
    BY <1>13 DEF Handle
  <2>1. CASE /\ row' = [row EXCEPT ![t] = IF @ = "none" THEN @ ELSE "error"]
             /\ worker' = Resting /\ UNCHANGED <<stranded, faults>>
    <3>1. row'[t] \in {"none", "error"} /\ row' \in {row, [row EXCEPT ![t] = "error"]}
      <4>1. CASE row[t] = "none"
        BY <1>0, <2>1, <4>1
      <4>2. CASE row[t] # "none"
        BY <1>0, <2>1, <4>2
      <4> QED
        BY <4>1, <4>2
    <3> QED
      BY <1>0, <1>8, <2>0, <2>1, <3>1
  <2> QED
    BY <1>6, <1>13, <2>0, <2>1 DEF Handle, Failed
<1> QED
  BY <1>4, <1>9, <1>10, <1>11, <1>12, <1>13 DEF Thread

-----------------------------------------------------------------------------
(* Theorems.                                                               *)

LEMMA DebugInvAlways == Spec => []DebugInv
<1>1. Init => DebugInv
  <2> SUFFICES ASSUME Init PROVE DebugInv
    OBVIOUS
  <2>1. TypeOK
    BY RestingType, DebugAssumption DEF Init, TypeOK, Hands, Notifiers, Requests, Rows
  <2>2. PostsCounted
    BY DEF Init, PostsCounted, Post1
  <2>3. RestsWhenDown /\ Worked /\ Carried
    BY RestingType DEF Init, RestsWhenDown, Worked, Carried
  <2> QED
    BY <2>1, <2>2, <2>3 DEF DebugInv
<1>2. DebugInv /\ [Next]_vars => DebugInv'
  <2> SUFFICES ASSUME DebugInv, [Next]_vars PROVE DebugInv'
    OBVIOUS
  <2>1. CASE Users
    BY <2>1, UserSteps
  <2>2. CASE Start \/ Dies \/ Thread
    BY <2>2, StartSteps, DiesStep, ThreadSteps
  <2>3. ASSUME NEW k \in Failure, Notify(k) \/ NotifierDies(k) PROVE DebugInv'
    BY <2>3, NotifierSteps
  <2>4. ASSUME NEW k \in Failure, NEW n \in 1 .. Tries, Request(k, n) PROVE DebugInv'
    BY <2>4, RequestSteps DEF Post1
  <2>5. CASE UNCHANGED vars
    <3>1. UNCHANGED <<tasks, row, debugger, notices, stranded, faults>>
      BY <2>5 DEF vars
    <3>2. TypeOK'
      BY <3>1 DEF DebugInv, TypeOK, tasks, debugger, notices
    <3> QED
      BY <3>1, <3>2, NoticesKept, Aside
  <2> QED
    BY <2>1, <2>2, <2>3, <2>4, <2>5 DEF Next
<1> QED
  BY <1>1, <1>2, PTL DEF Spec

\* Rows, the queue, the worker, notifiers and requests keep their types, and no notifier
\* posts more often than it may.
THEOREM TypesHold == Spec => []TypeOK
<1>1. DebugInv => TypeOK
  BY DEF DebugInv
<1> QED
  BY <1>1, DebugInvAlways, PTL

\* After the sweep a row says running only while the worker has its task, but for a
\* transaction of the debugger's own that raised, or a service without a session.
THEOREM RunningRowsAreWorked == Spec => []RunningIsWorked
<1>1. DebugInv => RunningIsWorked
  BY DEF DebugInv, Worked, InHands, RunningIsWorked
<1> QED
  BY <1>1, DebugInvAlways, PTL

\* A pending row is never forgotten, in whatever order posts, deletions, the worker and
\* restarts of the debugger come.
THEOREM PendingRowsAreCarried == Spec => []PendingIsCarried
<1>1. DebugInv => PendingIsCarried
  BY DEF DebugInv, Carried, PendingIsCarried, InHands, OnItsWay, Post1
<1> QED
  BY <1>1, DebugInvAlways, PTL
=============================================================================
