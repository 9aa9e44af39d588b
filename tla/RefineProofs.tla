---------------------------- MODULE RefineProofs ----------------------------
(***************************************************************************)
(* Proofs about Refine, for any finite sets of modules and of workers, any *)
(* files, and any limits of the rounds and the plans.                      *)
(***************************************************************************)
EXTENDS Refine, FiniteSetTheorems, TLAPS

\* A thread that is not idle works on a module.
BusyWithModule ==
  /\ \A w \in Workers : worker[w].at \notin {"idle", "stopped"} => worker[w].mod \in Modules
  /\ committer.at \notin {"idle", "stopped"} => committer.mod \in Modules
  /\ committer.at = "write" => committer.job \in Jobs

\* The main thread has joined the workers.
Late == main \in {"commits", "check", "passed", "failed"}

\* The sentinel of the commit thread is the last item it gets, and comes when the workers
\* have ended; after it the thread is stopped.
StopIsLast ==
  /\ Late => \A w \in Workers : worker[w].at = "stopped"
  /\ \A i \in DOMAIN commits :
       commits[i] = Stop => i = Len(commits) /\ Late /\ committer.at # "stopped"
  /\ committer.at = "stopped" => commits = <<>> /\ Late
  /\ main \in {"check", "passed"} => committer.at = "stopped" /\ ~failed

\* TypeOK, variable by variable.
Item       == Modules \cup {Stop}
WorkerType == [at : {"idle", "read", "work", "judge", "requeue", "leave", "stopped"},
               mod : Item, round : 0 .. MaxRounds, seen : SUBSET Files]
CommitType == [at : {"idle", "drafts", "check", "deliver", "write", "parent", "clean",
                     "announce", "stopped"},
               mod : Item, base : SUBSET Files, out : SUBSET Files,
               kids : [Modules -> SUBSET Files], merges : [Modules -> SUBSET Files],
               todo : SUBSET Jobs, job : Jobs \cup {<<"none", Stop>>}, buf : SUBSET Files]
DiskTypes ==
  /\ list \in [Modules -> SUBSET Files] /\ snap \in [Modules -> SUBSET Files]
  /\ dropped \in [Modules -> SUBSET Files] /\ gone \subseteq Files
  /\ split \in [Modules -> [Modules -> SUBSET Files]]
  /\ into \in [Modules -> [Modules -> SUBSET Files]]
BookTypes ==
  /\ queue \in Seq(Item) /\ commits \in Seq(Item)
  /\ refined \subseteq Modules /\ inProgress \subseteq Modules /\ pending \subseteq Modules
  /\ failed \in BOOLEAN /\ plans \in 0 .. MaxPlans
  /\ lost \subseteq Files /\ torn \subseteq Files
ThreadTypes ==
  /\ worker \in [Workers -> WorkerType] /\ committer \in CommitType
  /\ main \in {"join", "stop", "workers", "commits", "check", "passed", "failed"}
Types == DiskTypes /\ BookTypes /\ ThreadTypes

RefineInv == Types /\ BusyWithModule /\ StopIsLast

-----------------------------------------------------------------------------
(* Sequences of modules.                                                   *)

LEMMA TypesAreTypeOK == TypeOK <=> Types
BY DEF TypeOK, Types, DiskTypes, BookTypes, ThreadTypes, WorkerType, CommitType, Item

LEMMA ModuleOrders ==
  ASSUME NEW S \in SUBSET Modules, NEW s \in SetToSeqs(S)
  PROVE  s \in Seq(Item)
<1>1. Cardinality(S) \in Nat
  BY RefineAssumption, FS_Subset, FS_CardinalityType
<1>2. s \in [1 .. Cardinality(S) -> Item]
  BY DEF SetToSeqs, Item
<1> QED
  BY <1>1, <1>2

LEMMA TailItems ==
  ASSUME NEW q \in Seq(Item), q # <<>>
  PROVE  /\ Head(q) \in Item /\ Tail(q) \in Seq(Item)
         /\ Head(q) = q[1] /\ Len(q) \in Nat \ {0} /\ DOMAIN q = 1 .. Len(q)
         /\ Len(Tail(q)) = Len(q) - 1 /\ DOMAIN Tail(q) = 1 .. Len(q) - 1
         /\ \A i \in 1 .. Len(q) - 1 : Tail(q)[i] = q[i + 1] /\ i + 1 \in 1 .. Len(q)
OBVIOUS

LEMMA AppendedItem ==
  ASSUME NEW q \in Seq(Item), NEW x \in Item
  PROVE  /\ Append(q, x) \in Seq(Item)
         /\ Len(q) \in Nat /\ DOMAIN q = 1 .. Len(q)
         /\ Len(Append(q, x)) = Len(q) + 1 /\ DOMAIN Append(q, x) = 1 .. Len(q) + 1
         /\ \A i \in 1 .. Len(q) : Append(q, x)[i] = q[i]
         /\ Append(q, x)[Len(q) + 1] = x
OBVIOUS

-----------------------------------------------------------------------------
(* Worker threads.                                                         *)

\* The steps of a worker that make no module ready to commit and raise no error.
LEMMA QuietWorkerStep ==
  ASSUME RefineInv, NEW w \in Workers, Types', UNCHANGED <<commits, failed, committer, main>>,
         worker[w].at # "stopped",
         \A v \in Workers \ {w} : worker'[v] = worker[v],
         worker'[w].at \notin {"idle", "stopped"} => worker'[w].mod \in Modules
  PROVE  RefineInv'
<1>1. BusyWithModule'
  BY DEF RefineInv, BusyWithModule
<1>2. StopIsLast'
  BY DEF RefineInv, StopIsLast, Late
<1> QED
  BY <1>1, <1>2 DEF RefineInv

LEMMA RemovedType ==
  ASSUME DiskTypes, NEW m \in Modules, Removed(m), UNCHANGED gone
  PROVE  DiskTypes'
<1>1. NoFiles \in [Modules -> SUBSET Files]
  BY DEF NoFiles
<1> QED
  BY <1>1 DEF Removed, DiskTypes

LEMMA TakeStep == ASSUME RefineInv, NEW w \in Workers, Take(w) PROVE RefineInv'
<1>1. /\ queue \in Seq(Item) /\ queue # <<>> /\ worker[w].at = "idle" /\ worker[w] \in WorkerType
      /\ Types
  BY DEF Take, RefineInv, Types, BookTypes, ThreadTypes
<1>2. Head(queue) \in Item /\ Tail(queue) \in Seq(Item)
  BY <1>1, TailItems
<1>3. UNCHANGED <<gone, commits, refined, pending, failed, committer, main, plans, lost>>
      /\ queue' = Tail(queue)
  BY DEF Take, disk
<1>5. CASE Head(queue) = Stop
  <2>1. /\ worker' = [worker EXCEPT ![w].at = "stopped"] /\ inProgress' = inProgress
        /\ UNCHANGED <<disk, torn>>
    BY <1>5 DEF Take
  <2>2. [worker[w] EXCEPT !.at = "stopped"] \in WorkerType
    BY <1>1 DEF WorkerType
  <2>3. DiskTypes'
    BY <1>1, <2>1 DEF Types, DiskTypes, disk
  <2>4. ThreadTypes' /\ BookTypes'
    BY <1>1, <1>2, <1>3, <2>1, <2>2 DEF Types, BookTypes, ThreadTypes
  <2>5. worker'[w].at = "stopped" /\ \A v \in Workers \ {w} : worker'[v] = worker[v]
    BY <1>1, <2>1 DEF Types, ThreadTypes, WorkerType
  <2> QED
    BY <1>1, <1>3, <2>3, <2>4, <2>5, QuietWorkerStep DEF Types
<1>6. CASE Head(queue) # Stop
  <2> DEFINE m == Head(queue)
             h == [at |-> IF m \in refined \/ list[m] = {} THEN "requeue" ELSE "read",
                   mod |-> m, round |-> 0, seen |-> {}]
  <2>1. worker' = [worker EXCEPT ![w] = h] /\ inProgress' = inProgress \cup {m}
    BY <1>6 DEF Take, Idle
  <2>2. m \in Modules /\ 0 \in 0 .. MaxRounds
    BY <1>2, <1>6, RefineAssumption DEF Item
  <2>3. h \in WorkerType /\ h.mod = m
    BY <2>2 DEF WorkerType, Item
  <2>4. \/ UNCHANGED <<list, snap, split, into, dropped, torn>>
        \/ Removed(m) /\ torn' = torn \cup dropped[m]
    BY <1>6 DEF Take
  <2> HIDE DEF h, m
  <2>5. DiskTypes'
    BY <1>1, <1>3, <2>2, <2>4, RemovedType DEF Types, DiskTypes
  <2>6. torn' \subseteq Files
    BY <1>1, <2>2, <2>4 DEF Types, BookTypes, DiskTypes
  <2>7. ThreadTypes' /\ BookTypes'
    BY <1>1, <1>2, <1>3, <2>1, <2>2, <2>3, <2>6 DEF Types, BookTypes, ThreadTypes
  <2>8. worker'[w] = h /\ \A v \in Workers \ {w} : worker'[v] = worker[v]
    BY <1>1, <2>1 DEF Types, ThreadTypes
  <2> QED
    BY <1>1, <1>3, <2>2, <2>3, <2>5, <2>7, <2>8, QuietWorkerStep DEF Types
<1> QED
  BY <1>5, <1>6

LEMMA SnapshotType ==
  ASSUME DiskTypes, NEW m \in Modules
  PROVE  Snapshotted(m) \in [Modules -> SUBSET Files]
BY DEF Snapshotted, DiskTypes

LEMMA PrepareStep == ASSUME RefineInv, NEW w \in Workers, Prepare(w) PROVE RefineInv'
<1> DEFINE m == worker[w].mod
           h == [worker[w] EXCEPT !.at = "work", !.round = 1, !.seen = list[m]]
<1>1. /\ worker[w].at = "read" /\ worker[w] \in WorkerType /\ Types /\ m \in Modules
      /\ snap' = Snapshotted(m) /\ worker' = [worker EXCEPT ![w] = h]
      /\ UNCHANGED <<list, split, into, dropped, gone, queue, commits, refined, inProgress,
                     pending, failed, committer, main, plans, history>>
  BY DEF Prepare, RefineInv, BusyWithModule, Types, ThreadTypes
<1>2. DiskTypes' /\ list[m] \in SUBSET Files
  BY <1>1, SnapshotType DEF Types, DiskTypes
<1>3. h \in WorkerType /\ h.mod = m
  <2>1. 1 \in 0 .. MaxRounds
    BY RefineAssumption
  <2> QED
    BY <1>1, <1>2, <2>1 DEF WorkerType
<1> HIDE DEF h
<1>4. ThreadTypes' /\ BookTypes'
  BY <1>1, <1>3 DEF Types, BookTypes, ThreadTypes, history
<1>5. worker'[w] = h /\ \A v \in Workers \ {w} : worker'[v] = worker[v]
  BY <1>1 DEF Types, ThreadTypes
<1> QED
  BY <1>1, <1>2, <1>3, <1>4, <1>5, QuietWorkerStep DEF Types

\* What a plan does with the files of its module.
LEMMA PlacedFiles ==
  ASSUME NEW m \in Modules, NEW seen \in SUBSET Files, NEW p \in [seen -> Homes(m)],
         NEW to, NEW x
  PROVE  Placed(p, to, x) \subseteq Files
BY DEF Placed

\* What Propose does, its abbreviations named.
Proposed(m, p, lose, left) ==
  /\ plans < MaxPlans /\ plans' = plans + 1
  /\ left = ((list[m] \cup dropped[m]) \ Placed(p, "delete", m)) \ lose
  /\ split' = [split EXCEPT ![m] = [c \in Modules |->
                 Placed(p, IF c = m THEN "retain" ELSE "split", c)]]
  /\ into' = [into EXCEPT ![m] = [t \in Modules |-> Placed(p, "merge", t)]]
  /\ dropped' = [dropped EXCEPT ![m] = Placed(p, "delete", m)]
  /\ list' = [list EXCEPT ![m] = left]
  /\ lost' = lost \cup lose
  /\ snap' = IF snap[m] = {} THEN [snap EXCEPT ![m] = left] ELSE snap

LEMMA ProposeCases ==
  ASSUME RefineInv, NEW w \in Workers, Propose(w)
  PROVE  /\ worker[w].at = "work" /\ worker[w] \in WorkerType /\ worker[w].mod \in Modules
         /\ worker' = [worker EXCEPT ![w].at = "judge"]
         /\ UNCHANGED <<gone, queue, commits, refined, inProgress, pending, failed, committer,
                        main, torn>>
         /\ \/ /\ UNCHANGED <<list, split, into, dropped, plans, lost>>
               /\ snap' = Snapshotted(worker[w].mod)
            \/ \E p \in [worker[w].seen -> Homes(worker[w].mod)], lose \in SUBSET Files, left \in SUBSET Files :
                 Proposed(worker[w].mod, p, lose, left)
<1> DEFINE m == worker[w].mod
<1>1. /\ worker[w].at = "work" /\ worker[w] \in WorkerType /\ Types /\ m \in Modules
      /\ worker' = [worker EXCEPT ![w].at = "judge"]
      /\ UNCHANGED <<gone, queue, commits, refined, inProgress, pending, failed, committer,
                     main, torn>>
  BY DEF Propose, RefineInv, BusyWithModule, Types, ThreadTypes
<1>2. CASE /\ UNCHANGED <<list, split, into, dropped, plans, lost>>
           /\ snap' = Snapshotted(m)
  BY <1>1, <1>2
<1>3. ASSUME plans < MaxPlans, plans' = plans + 1,
             NEW p \in [worker[w].seen -> Homes(m)], NEW anew \in BOOLEAN,
             LET new  == list[m] \ worker[w].seen
                 lose == Placed(p, "lose", m) \cup IF anew THEN new ELSE {}
                 left == ((list[m] \cup dropped[m]) \ Placed(p, "delete", m)) \ lose
             IN  /\ split' = [split EXCEPT ![m] = [c \in Modules |->
                                 Placed(p, IF c = m THEN "retain" ELSE "split", c)]]
                 /\ into' = [into EXCEPT ![m] = [t \in Modules |-> Placed(p, "merge", t)]]
                 /\ dropped' = [dropped EXCEPT ![m] = Placed(p, "delete", m)]
                 /\ list' = [list EXCEPT ![m] = left]
                 /\ lost' = lost \cup lose
                 /\ snap' = IF snap[m] = {} THEN [snap EXCEPT ![m] = left] ELSE snap
      PROVE  \E q \in [worker[w].seen -> Homes(m)], lose \in SUBSET Files, left \in SUBSET Files :
               Proposed(m, q, lose, left)
  <2> DEFINE lose == Placed(p, "lose", m) \cup IF anew THEN list[m] \ worker[w].seen ELSE {}
             left == ((list[m] \cup dropped[m]) \ Placed(p, "delete", m)) \ lose
  <2>1. Placed(p, "lose", m) \subseteq Files /\ list[m] \subseteq Files /\ dropped[m] \subseteq Files
    BY <1>1, PlacedFiles DEF WorkerType, Types, DiskTypes
  <2>2. lose \in SUBSET Files /\ left \in SUBSET Files
    BY <2>1
  <2>3. Proposed(m, p, lose, left)
    BY <1>3 DEF Proposed
  <2> QED
    BY <2>2, <2>3
<1>4. \/ /\ UNCHANGED <<list, split, into, dropped, plans, lost>>
         /\ snap' = Snapshotted(m)
      \/ \E p \in [worker[w].seen -> Homes(m)], lose \in SUBSET Files, left \in SUBSET Files :
           Proposed(m, p, lose, left)
  BY <1>1, <1>3 DEF Propose
<1> QED
  BY <1>1, <1>4

LEMMA ProposeStep == ASSUME RefineInv, NEW w \in Workers, Propose(w) PROVE RefineInv'
<1> DEFINE m == worker[w].mod
           h == [worker[w] EXCEPT !.at = "judge"]
<1>1. /\ worker[w].at = "work" /\ worker[w] \in WorkerType /\ Types /\ m \in Modules
      /\ worker' = [worker EXCEPT ![w] = h]
      /\ UNCHANGED <<gone, queue, commits, refined, inProgress, pending, failed, committer,
                     main, torn>>
  BY ProposeCases DEF RefineInv
<1>2. DiskTypes' /\ plans' \in 0 .. MaxPlans /\ lost' \subseteq Files
  <2>1. CASE /\ UNCHANGED <<list, split, into, dropped, plans, lost>>
             /\ snap' = Snapshotted(m)
    BY <1>1, <2>1, SnapshotType DEF Types, DiskTypes, BookTypes
  <2>2. ASSUME NEW p \in [worker[w].seen -> Homes(m)], NEW lose \in SUBSET Files,
               NEW left \in SUBSET Files,
               Proposed(m, p, lose, left)
        PROVE  DiskTypes' /\ plans' \in 0 .. MaxPlans /\ lost' \subseteq Files
    <3>1. worker[w].seen \in SUBSET Files
      BY <1>1 DEF WorkerType
    <3>2. \A to, x : Placed(p, to, x) \subseteq Files
      BY <1>1, <3>1, PlacedFiles
    <3>4. split' \in [Modules -> [Modules -> SUBSET Files]]
      BY <1>1, <2>2, <3>2 DEF Types, DiskTypes, Proposed
    <3>5. into' \in [Modules -> [Modules -> SUBSET Files]]
      BY <1>1, <2>2, <3>2 DEF Types, DiskTypes, Proposed
    <3>6. DiskTypes'
      BY <1>1, <2>2, <3>2, <3>4, <3>5 DEF Types, DiskTypes, Proposed
    <3>7. lost' \subseteq Files
      BY <1>1, <2>2 DEF Types, BookTypes, Proposed
    <3>8. plans' \in 0 .. MaxPlans
      BY <1>1, <2>2, RefineAssumption DEF Types, BookTypes, Proposed
    <3> QED
      BY <3>6, <3>7, <3>8
  <2> QED
    BY <2>1, <2>2, ProposeCases
<1>3. h \in WorkerType /\ h.mod = m
  BY <1>1 DEF WorkerType
<1> HIDE DEF h
<1>4. ThreadTypes' /\ BookTypes'
  BY <1>1, <1>2, <1>3 DEF Types, BookTypes, ThreadTypes, history
<1>5. worker'[w] = h /\ \A v \in Workers \ {w} : worker'[v] = worker[v]
  BY <1>1 DEF Types, ThreadTypes
<1> QED
  BY <1>1, <1>2, <1>3, <1>4, <1>5, QuietWorkerStep DEF Types

LEMMA RequeueStep == ASSUME RefineInv, NEW w \in Workers, Requeue(w) PROVE RefineInv'
<1> DEFINE m == worker[w].mod
           h == [worker[w] EXCEPT !.at = "leave"]
<1>1. /\ worker[w].at = "requeue" /\ worker[w] \in WorkerType /\ Types /\ m \in Modules
      /\ worker' = [worker EXCEPT ![w] = h] /\ pending' = pending \ {m}
      /\ queue' = IF m \in pending THEN Append(queue, m) ELSE queue
      /\ UNCHANGED <<disk, commits, refined, inProgress, failed, committer, main, plans, history>>
  BY DEF Requeue, RefineInv, BusyWithModule, Types, ThreadTypes
<1>2. DiskTypes' /\ queue' \in Seq(Item)
  BY <1>1, AppendedItem DEF Types, DiskTypes, disk, BookTypes, Item
<1>3. h \in WorkerType /\ h.mod = m
  BY <1>1 DEF WorkerType
<1> HIDE DEF h
<1>4. ThreadTypes' /\ BookTypes'
  BY <1>1, <1>2, <1>3 DEF Types, BookTypes, ThreadTypes, history
<1>5. worker'[w] = h /\ \A v \in Workers \ {w} : worker'[v] = worker[v]
  BY <1>1 DEF Types, ThreadTypes
<1> QED
  BY <1>1, <1>2, <1>3, <1>4, <1>5, QuietWorkerStep DEF Types

LEMMA IdleType == Idle \in WorkerType /\ Idle.at = "idle"
BY RefineAssumption DEF Idle, WorkerType, Item

LEMMA LeaveStep == ASSUME RefineInv, NEW w \in Workers, Leave(w) PROVE RefineInv'
<1>1. /\ worker[w].at = "leave" /\ Types
      /\ worker' = [worker EXCEPT ![w] = Idle] /\ inProgress' \subseteq inProgress
      /\ UNCHANGED <<disk, queue, commits, refined, pending, failed, committer, main, plans, history>>
  BY DEF Leave, RefineInv
<1>2. Types'
  BY <1>1, IdleType DEF Types, DiskTypes, BookTypes, ThreadTypes, disk, history
<1>3. worker'[w] = Idle /\ \A v \in Workers \ {w} : worker'[v] = worker[v]
  BY <1>1 DEF Types, ThreadTypes
<1> QED
  BY <1>1, <1>2, <1>3, IdleType, QuietWorkerStep

\* The steps of a worker that may send a module to the commit thread or raise an error:
\* the main thread still waits for the worker.
LEMMA LoudWorkerStep ==
  ASSUME RefineInv, NEW w \in Workers, NEW m \in Modules, Types', UNCHANGED <<committer, main>>,
         worker[w].at # "stopped",
         commits' = commits \/ commits' = Append(commits, m),
         \A v \in Workers \ {w} : worker'[v] = worker[v],
         worker'[w].mod = m
  PROVE  RefineInv'
<1>1. BusyWithModule'
  BY DEF RefineInv, BusyWithModule
<1>2. ~Late /\ ~Late' /\ committer.at # "stopped"
  BY DEF RefineInv, StopIsLast, Late
<1>3. \A i \in DOMAIN commits : commits[i] # Stop
  BY <1>2 DEF RefineInv, StopIsLast
<1>4. commits \in Seq(Item) /\ m \in Item /\ m # Stop
  BY RefineAssumption DEF RefineInv, Types, BookTypes, Item
<1>5. \A i \in DOMAIN commits' : commits'[i] # Stop
  <2>1. CASE commits' = commits
    BY <1>3, <2>1
  <2>2. CASE commits' = Append(commits, m)
    <3>1. DOMAIN commits' = 1 .. Len(commits) + 1 /\ Len(commits) \in Nat
      BY <1>4, <2>2, AppendedItem
    <3> SUFFICES ASSUME NEW i \in 1 .. Len(commits) + 1 PROVE commits'[i] # Stop
      BY <3>1
    <3>2. CASE i = Len(commits) + 1
      BY <1>4, <2>2, <3>2, AppendedItem
    <3>3. CASE i # Len(commits) + 1
      <4>1. i \in 1 .. Len(commits)
        BY <3>1, <3>3
      <4> QED
        BY <1>3, <1>4, <2>2, <4>1, AppendedItem
    <3> QED
      BY <3>2, <3>3
  <2> QED
    BY <2>1, <2>2
<1>6. StopIsLast'
  BY <1>2, <1>5 DEF StopIsLast, Late
<1> QED
  BY <1>1, <1>6 DEF RefineInv

LEMMA JudgeStep == ASSUME RefineInv, NEW w \in Workers, Judge(w) PROVE RefineInv'
<1> DEFINE m == worker[w].mod
           h == worker'[w]
<1>1. /\ worker[w].at = "judge" /\ worker[w] \in WorkerType /\ Types /\ m \in Modules
      /\ UNCHANGED <<snap, split, into, gone, queue, inProgress, pending, committer, main,
                     plans, history>>
  BY DEF Judge, RefineInv, BusyWithModule, Types, ThreadTypes
<1>2. /\ commits' = commits \/ commits' = Append(commits, m)
      /\ refined' = refined \/ refined' = refined \cup {m}
      /\ failed' \in BOOLEAN
  BY <1>1 DEF Judge, Types, BookTypes
<1>3. list' \in [Modules -> SUBSET Files] /\ dropped' \in [Modules -> SUBSET Files]
  <2>1. CASE UNCHANGED <<list, dropped>>
    BY <1>1, <2>1 DEF Types, DiskTypes
  <2>2. ASSUME NEW back \in SUBSET dropped[m],
               list' = [list EXCEPT ![m] = @ \cup back],
               dropped' = [dropped EXCEPT ![m] = @ \ back]
        PROVE  list' \in [Modules -> SUBSET Files] /\ dropped' \in [Modules -> SUBSET Files]
    BY <1>1, <2>2 DEF Types, DiskTypes
  <2>3. \/ UNCHANGED <<list, dropped>>
        \/ \E back \in SUBSET dropped[m] : /\ list' = [list EXCEPT ![m] = @ \cup back]
                                           /\ dropped' = [dropped EXCEPT ![m] = @ \ back]
    BY DEF Judge
  <2> QED
    BY <2>1, <2>2, <2>3
<1>4. h \in WorkerType /\ h.mod = m /\ worker' = [worker EXCEPT ![w] = h]
  <2>1. CASE worker' = [worker EXCEPT ![w].at = "requeue"]
    <3>1. [worker[w] EXCEPT !.at = "requeue"] \in WorkerType
      BY <1>1 DEF WorkerType
    <3> QED
      BY <1>1, <2>1, <3>1 DEF Types, ThreadTypes, WorkerType
  <2>2. CASE worker' = [worker EXCEPT ![w].at = IF LastRound(w) THEN "requeue" ELSE "work",
                                      ![w].round = IF LastRound(w) THEN @ ELSE @ + 1]
    <3> DEFINE r == worker[w].round
               at == IF LastRound(w) THEN "requeue" ELSE "work"
               n == IF LastRound(w) THEN r ELSE r + 1
    <3>1. r \in 0 .. MaxRounds
      BY <1>1 DEF WorkerType
    <3>2. n \in 0 .. MaxRounds
      BY <3>1, RefineAssumption DEF LastRound
    <3>3. at \in {"requeue", "work"} /\ worker' = [worker EXCEPT ![w].at = at, ![w].round = n]
      BY <2>2
    <3> HIDE DEF at, n, r
    <3>4. [worker[w] EXCEPT !.at = at, !.round = n] \in WorkerType
      BY <1>1, <3>2, <3>3 DEF WorkerType
    <3> QED
      BY <1>1, <3>3, <3>4 DEF Types, ThreadTypes, WorkerType
  <2> QED
    BY <2>1, <2>2 DEF Judge
<1>5. commits' \in Seq(Item)
  BY <1>1, <1>2, AppendedItem DEF Types, BookTypes, Item
<1>6. Types'
  <2> HIDE DEF h
  <2>1. DiskTypes'
    BY <1>1, <1>3 DEF Types, DiskTypes
  <2>2. BookTypes'
    BY <1>1, <1>2, <1>5 DEF Types, BookTypes, history
  <2>3. ThreadTypes'
    BY <1>1, <1>4 DEF Types, ThreadTypes
  <2> QED
    BY <2>1, <2>2, <2>3 DEF Types
<1>7. \A v \in Workers \ {w} : worker'[v] = worker[v]
  <2> HIDE DEF h
  <2> QED
    BY <1>1, <1>4 DEF Types, ThreadTypes
<1> QED
  BY <1>1, <1>2, <1>4, <1>6, <1>7, LoudWorkerStep

LEMMA AgentFailsStep == ASSUME RefineInv, NEW w \in Workers, AgentFails(w) PROVE RefineInv'
<1> DEFINE m == worker[w].mod
           h == [worker[w] EXCEPT !.at = "requeue"]
<1>1. /\ worker[w].at \in {"work", "judge"} /\ worker[w] \in WorkerType /\ Types /\ m \in Modules
      /\ worker' = [worker EXCEPT ![w] = h]
      /\ UNCHANGED <<disk, queue, commits, refined, inProgress, pending, committer, main, plans, history>>
  BY DEF AgentFails, RefineInv, BusyWithModule, Types, ThreadTypes
<1>0. failed' \in BOOLEAN
  BY <1>1 DEF AgentFails, Types, BookTypes
<1>2. h \in WorkerType /\ h.mod = m
  BY <1>1 DEF WorkerType
<1> HIDE DEF h
<1>3. Types'
  <2>1. DiskTypes' /\ ThreadTypes'
    BY <1>1, <1>2 DEF Types, DiskTypes, ThreadTypes, disk
  <2>2. BookTypes'
    BY <1>0, <1>1 DEF Types, BookTypes, history
  <2> QED
    BY <2>1, <2>2 DEF Types
<1>4. worker'[w] = h /\ \A v \in Workers \ {w} : worker'[v] = worker[v]
  BY <1>1 DEF Types, ThreadTypes
<1> QED
  BY <1>1, <1>2, <1>3, <1>4, LoudWorkerStep

LEMMA WorkerSteps == ASSUME RefineInv, NEW w \in Workers, WorkerStep(w) PROVE RefineInv'
BY TakeStep, PrepareStep, ProposeStep, JudgeStep, AgentFailsStep, RequeueStep, LeaveStep
   DEF WorkerStep

-----------------------------------------------------------------------------
(* The commit thread.                                                      *)

LEMMA RestingType == Resting \in CommitType /\ Resting.at = "idle"
BY DEF Resting, CommitType, Item, NoFiles

LEMMA FetchStep == RefineInv /\ Fetch => RefineInv'
<1> SUFFICES ASSUME RefineInv, Fetch PROVE RefineInv'
  OBVIOUS
<1> DEFINE x == Head(commits)
           h == committer'
<1>1. /\ Types /\ committer.at = "idle" /\ commits # <<>> /\ commits \in Seq(Item)
      /\ commits' = Tail(commits)
      /\ h = IF x = Stop THEN [Resting EXCEPT !.at = "stopped"]
             ELSE [Resting EXCEPT !.at = "drafts", !.mod = x, !.base = snap[x], !.out = dropped[x]]
      /\ UNCHANGED <<disk, queue, refined, inProgress, pending, failed, worker, main, plans, history>>
  BY DEF Fetch, RefineInv, Types, BookTypes, At, Apart, history
<1>2. /\ x \in Item /\ x = commits[1] /\ 1 \in DOMAIN commits /\ Tail(commits) \in Seq(Item)
      /\ Len(commits) \in Nat \ {0} /\ Len(Tail(commits)) = Len(commits) - 1
      /\ DOMAIN commits = 1 .. Len(commits) /\ DOMAIN Tail(commits) = 1 .. Len(commits) - 1
      /\ \A i \in 1 .. Len(commits) - 1 : Tail(commits)[i] = commits[i + 1]
                                          /\ i + 1 \in 1 .. Len(commits)
  BY <1>1, TailItems
<1>3. /\ h \in CommitType
      /\ x = Stop => h.at = "stopped"
      /\ x # Stop => h.at = "drafts" /\ h.mod = x /\ x \in Modules
  <2>1. CASE x = Stop
    BY <1>1, <2>1, RestingType DEF CommitType
  <2>2. CASE x # Stop
    <3>1. x \in Modules
      BY <1>2, <2>2 DEF Item
    <3>2. snap[x] \in SUBSET Files /\ dropped[x] \in SUBSET Files
      BY <1>1, <3>1 DEF Types, DiskTypes
    <3>3. h = [Resting EXCEPT !.at = "drafts", !.mod = x, !.base = snap[x], !.out = dropped[x]]
      BY <1>1, <2>2
    <3> HIDE DEF x, h
    <3> QED
      BY <2>2, <3>1, <3>2, <3>3, RestingType DEF CommitType, Item
  <2> QED
    BY <2>1, <2>2
<1> HIDE DEF h
<1>4. Types'
  <2>1. DiskTypes'
    BY <1>1 DEF Types, DiskTypes, disk
  <2>2. BookTypes'
    BY <1>1, <1>2 DEF Types, BookTypes, history
  <2>3. ThreadTypes'
    BY <1>1, <1>3 DEF Types, ThreadTypes, h
  <2> QED
    BY <2>1, <2>2, <2>3 DEF Types
<1>5. BusyWithModule'
  BY <1>1, <1>3 DEF RefineInv, BusyWithModule, h
<1>6. StopIsLast'
  <2>1. Late' <=> Late
    BY <1>1 DEF Late
  <2>2. Late' => \A w \in Workers : worker'[w].at = "stopped"
    BY <1>1, <2>1 DEF RefineInv, StopIsLast
  <2>3. main' \in {"check", "passed"} => committer'.at = "stopped" /\ ~failed'
    BY <1>1 DEF RefineInv, StopIsLast
  <2>4. CASE x = Stop
    <3>1. Len(commits) = 1 /\ Late
      BY <1>2, <2>4 DEF RefineInv, StopIsLast
    <3>2. commits' = <<>>
      BY <1>1, <1>2, <3>1
    <3> QED
      BY <1>3, <2>1, <2>2, <2>3, <2>4, <3>1, <3>2 DEF StopIsLast, h
  <2>5. CASE x # Stop
    <3>1. committer'.at = "drafts"
      BY <1>3, <2>5 DEF h
    <3>2. \A i \in DOMAIN commits' : commits'[i] = Stop => i = Len(commits') /\ Late'
      <4> SUFFICES ASSUME NEW i \in 1 .. Len(commits) - 1, commits[i + 1] = Stop
                   PROVE  i = Len(commits) - 1 /\ Late
        BY <1>1, <1>2, <2>1
      <4>1. i + 1 = Len(commits) /\ Late
        BY <1>2 DEF RefineInv, StopIsLast
      <4>2. i \in Int /\ Len(commits) \in Int
        BY <1>2
      <4> QED
        BY <4>1, <4>2
    <3> QED
      BY <2>2, <2>3, <3>1, <3>2 DEF StopIsLast
  <2> QED
    BY <2>4, <2>5
<1> QED
  BY <1>4, <1>5, <1>6 DEF RefineInv

\* The steps of the commit thread on the module it has fetched.
Busy == committer.at \notin {"idle", "stopped"}

LEMMA CommitterBusy ==
  ASSUME RefineInv, Types', UNCHANGED <<commits, worker, main>>, Busy,
         committer'.at # "stopped",
         committer'.at # "idle" => committer'.mod \in Modules,
         committer'.at = "write" => committer'.job \in Jobs
  PROVE  RefineInv'
<1>1. BusyWithModule'
  BY DEF RefineInv, BusyWithModule
<1>2. main \notin {"check", "passed"}
  BY DEF RefineInv, StopIsLast, Busy
<1>3. StopIsLast'
  BY <1>2 DEF RefineInv, StopIsLast, Late, Busy
<1> QED
  BY <1>1, <1>3 DEF RefineInv

\* What the steps of the commit thread have in common.
LEMMA BusyFacts ==
  ASSUME RefineInv, Busy
  PROVE  /\ Types /\ committer \in CommitType /\ committer.mod \in Modules
         /\ committer.at = "write" => committer.job \in Jobs
BY DEF RefineInv, Busy, BusyWithModule, Types, ThreadTypes

\* The steps that leave the books alone.
LEMMA BusyStep ==
  ASSUME RefineInv, Busy, UNCHANGED <<commits, Apart>>, committer' \in CommitType,
         DiskTypes', failed' \in BOOLEAN, torn' \subseteq Files,
         committer'.at # "stopped",
         committer'.at # "idle" => committer'.mod = committer.mod,
         committer'.at = "write" => committer'.job \in Jobs
  PROVE  RefineInv'
<1>1. Types /\ committer.mod \in Modules
  BY BusyFacts
<1>2. BookTypes'
  BY <1>1 DEF Types, BookTypes, Apart
<1>3. ThreadTypes'
  BY <1>1 DEF Types, ThreadTypes, Apart
<1>4. UNCHANGED <<worker, main>>
  BY DEF Apart
<1> QED
  BY <1>1, <1>2, <1>3, <1>4, CommitterBusy DEF Types

LEMMA DiskSame == ASSUME RefineInv, UNCHANGED disk PROVE DiskTypes'
BY DEF RefineInv, Types, DiskTypes, disk

LEMMA BooksSame == ASSUME RefineInv PROVE failed \in BOOLEAN /\ torn \subseteq Files
BY DEF RefineInv, Types, BookTypes

LEMMA ReadDraftsStep == RefineInv /\ ReadDrafts => RefineInv'
<1> SUFFICES ASSUME RefineInv, ReadDrafts PROVE RefineInv'
  OBVIOUS
<1> DEFINE m == committer.mod
           h == [committer EXCEPT !.at = "check", !.kids = split[m], !.merges = into[m]]
<1>1. /\ committer.at = "drafts" /\ committer' = h
      /\ UNCHANGED <<disk, commits, failed, torn, Apart>>
  BY DEF ReadDrafts, At
<1>2. Busy
  BY <1>1 DEF Busy
<1>3. committer \in CommitType /\ split[m] \in [Modules -> SUBSET Files] /\ into[m] \in [Modules -> SUBSET Files]
  BY <1>2, BusyFacts DEF Types, DiskTypes
<1>4. h \in CommitType /\ h.at = "check" /\ h.mod = m
  BY <1>3 DEF CommitType
<1> QED
  BY <1>1, <1>2, <1>4, BusyStep, DiskSame, BooksSame

LEMMA ValidateStep == RefineInv /\ Validate => RefineInv'
<1> SUFFICES ASSUME RefineInv, Validate PROVE RefineInv'
  OBVIOUS
<1>1. committer.at = "check" /\ UNCHANGED <<disk, commits, torn, Apart>>
  BY DEF Validate, At
<1>2. Busy
  BY <1>1 DEF Busy
<1>3. CASE Rejected
  BY <1>1, <1>2, <1>3, RestingType, BusyStep, DiskSame, BooksSame DEF Validate
<1>4. CASE ~Rejected
  <2> DEFINE J == {j \in Jobs : IF j[1] = "split" THEN committer.kids[j[2]] # {}
                                                   ELSE committer.merges[j[2]] # {}}
             h == [committer EXCEPT !.at = "deliver", !.todo = J]
  <2>1. committer' = h /\ failed' = failed
    BY <1>4 DEF Validate
  <2>2. J \in SUBSET Jobs
    OBVIOUS
  <2> HIDE DEF J
  <2>3. h \in CommitType /\ h.at = "deliver" /\ h.mod = committer.mod
    BY <1>2, <2>2, BusyFacts DEF CommitType
  <2> QED
    BY <1>1, <1>2, <2>1, <2>3, BusyStep, DiskSame, BooksSame
<1> QED
  BY <1>3, <1>4

LEMMA DeliverReadStep == RefineInv /\ DeliverRead => RefineInv'
<1> SUFFICES ASSUME RefineInv, DeliverRead PROVE RefineInv'
  OBVIOUS
<1>1. committer.at = "deliver" /\ UNCHANGED <<disk, commits, failed, torn, Apart>>
  BY DEF DeliverRead, At
<1>2. Busy
  BY <1>1 DEF Busy
<1>3. PICK j \in Jobs :
        committer' = [committer EXCEPT !.at = "write", !.job = j, !.buf = list[j[2]],
                                       !.todo = @ \ {j}]
  BY DEF DeliverRead
<1>4. j[2] \in Modules
  BY DEF Jobs
<1>5. list[j[2]] \in SUBSET Files
  BY <1>2, <1>4, BusyFacts DEF Types, DiskTypes
<1>6. committer' \in CommitType /\ committer'.mod = committer.mod /\ committer'.at = "write"
      /\ committer'.job = j
  BY <1>2, <1>3, <1>5, BusyFacts DEF CommitType
<1> QED
  BY <1>1, <1>2, <1>6, BusyStep, DiskSame, BooksSame

LEMMA JobFiles ==
  ASSUME committer \in CommitType, NEW j \in Jobs
  PROVE  FilesOf(j) \in SUBSET Files /\ j[2] \in Modules
<1>1. j[2] \in Modules
  BY DEF Jobs
<1> QED
  BY <1>1 DEF FilesOf, CommitType

LEMMA UnknownFiles ==
  ASSUME DiskTypes, NEW o \in Modules
  PROVE  Unknown(o) \subseteq list[o] /\ Unknown(o) \subseteq Files
BY DEF Unknown, DiskTypes

LEMMA DeliverWriteStep == RefineInv /\ DeliverWrite => RefineInv'
<1> SUFFICES ASSUME RefineInv, DeliverWrite PROVE RefineInv'
  OBVIOUS
<1> DEFINE o == committer.job[2]
           h == [committer EXCEPT !.at = "deliver"]
<1>1. /\ committer.at = "write" /\ committer' = h
      /\ list' = [list EXCEPT ![o] = Delivered] /\ torn' = torn \cup Unknown(o)
      /\ snap' = IF o # committer.mod /\ o \in inProgress /\ snap[o] # {}
                 THEN [snap EXCEPT ![o] = @ \cup FilesOf(committer.job)] ELSE snap
      /\ UNCHANGED <<split, into, dropped, gone, commits, failed, Apart>>
  BY DEF DeliverWrite, At
<1>2. Busy
  BY <1>1 DEF Busy
<1>3. /\ Types /\ committer \in CommitType /\ committer.job \in Jobs
      /\ FilesOf(committer.job) \in SUBSET Files /\ o \in Modules
  BY <1>1, <1>2, BusyFacts, JobFiles
<1>4. Delivered \in SUBSET Files
  BY <1>3 DEF Delivered, CommitType
<1>5. DiskTypes'
  <2>1. list' \in [Modules -> SUBSET Files]
    BY <1>1, <1>3, <1>4 DEF Types, DiskTypes
  <2>2. snap' \in [Modules -> SUBSET Files]
    BY <1>1, <1>3 DEF Types, DiskTypes
  <2> QED
    BY <1>1, <1>3, <2>1, <2>2 DEF Types, DiskTypes
<1>6. torn' \subseteq Files
  BY <1>1, <1>3, UnknownFiles DEF Types, BookTypes
<1>7. h \in CommitType /\ h.at = "deliver" /\ h.mod = committer.mod
  BY <1>3 DEF CommitType
<1> QED
  BY <1>1, <1>2, <1>5, <1>6, <1>7, BusyStep, BooksSame

LEMMA ReadParentStep == RefineInv /\ ReadParent => RefineInv'
<1> SUFFICES ASSUME RefineInv, ReadParent PROVE RefineInv'
  OBVIOUS
<1> DEFINE h == [committer EXCEPT !.at = "parent", !.buf = list[committer.mod]]
<1>1. /\ committer.at = "deliver" /\ committer' = h
      /\ UNCHANGED <<disk, commits, failed, torn, Apart>>
  BY DEF ReadParent, At
<1>2. Busy
  BY <1>1 DEF Busy
<1>3. list[committer.mod] \in SUBSET Files
  BY <1>2, BusyFacts DEF Types, DiskTypes
<1>4. h \in CommitType /\ h.at = "parent" /\ h.mod = committer.mod
  BY <1>2, <1>3, BusyFacts DEF CommitType
<1> QED
  BY <1>1, <1>2, <1>4, BusyStep, DiskSame, BooksSame

\* What the parent keeps.
Rest == IF committer.kids[committer.mod] # {} THEN committer.kids[committer.mod]
        ELSE committer.buf \ Moved

LEMMA WriteParentCases ==
  ASSUME WriteParent
  PROVE  /\ committer.at = "parent" /\ committer' = [committer EXCEPT !.at = "clean"]
         /\ gone' = gone \cup committer.out
         /\ UNCHANGED <<commits, failed, Apart>>
         /\ \/ /\ Rest = {} /\ committer.out = {} /\ Removed(committer.mod)
               /\ torn' = torn \cup Unknown(committer.mod) \cup dropped[committer.mod]
            \/ /\ list' = [list EXCEPT ![committer.mod] = Rest]
               /\ torn' = torn \cup Unknown(committer.mod)
               /\ UNCHANGED <<snap, split, into, dropped>>
BY DEF WriteParent, At, Rest

LEMMA WriteParentStep == RefineInv /\ WriteParent => RefineInv'
<1> SUFFICES ASSUME RefineInv, WriteParent PROVE RefineInv'
  OBVIOUS
<1> DEFINE m == committer.mod
           h == [committer EXCEPT !.at = "clean"]
<1>1. /\ committer.at = "parent" /\ committer' = h /\ gone' = gone \cup committer.out
      /\ UNCHANGED <<commits, failed, Apart>>
  BY WriteParentCases
<1>2. Busy
  BY <1>1 DEF Busy
<1>3. /\ Types /\ committer \in CommitType /\ m \in Modules
  BY <1>2, BusyFacts
<1>4. Rest \in SUBSET Files /\ committer.out \in SUBSET Files /\ gone' \subseteq Files
  BY <1>1, <1>3 DEF Rest, CommitType, Types, DiskTypes
<1>5. DiskTypes' /\ torn' \subseteq Files
  <2>1. CASE Removed(m) /\ torn' = torn \cup Unknown(m) \cup dropped[m]
    <3>1. DiskTypes'
      <4>1. NoFiles \in [Modules -> SUBSET Files]
        BY DEF NoFiles
      <4> QED
        BY <1>3, <1>4, <2>1, <4>1 DEF Removed, Types, DiskTypes
    <3>2. torn' \subseteq Files
      BY <1>3, <2>1, UnknownFiles DEF Types, BookTypes, DiskTypes
    <3> QED
      BY <3>1, <3>2
  <2>2. CASE /\ list' = [list EXCEPT ![m] = Rest] /\ torn' = torn \cup Unknown(m)
             /\ UNCHANGED <<snap, split, into, dropped>>
    <3>1. DiskTypes'
      BY <1>3, <1>4, <2>2 DEF Types, DiskTypes
    <3>2. torn' \subseteq Files
      BY <1>3, <2>2, UnknownFiles DEF Types, BookTypes
    <3> QED
      BY <3>1, <3>2
  <2> QED
    BY <2>1, <2>2, WriteParentCases
<1>6. h \in CommitType /\ h.at = "clean" /\ h.mod = m
  BY <1>3 DEF CommitType
<1> QED
  BY <1>1, <1>2, <1>5, <1>6, BusyStep, BooksSame

LEMMA CleanStep == RefineInv /\ Clean => RefineInv'
<1> SUFFICES ASSUME RefineInv, Clean PROVE RefineInv'
  OBVIOUS
<1> DEFINE m == committer.mod
           h == [committer EXCEPT !.at = "announce"]
<1>1. /\ committer.at = "clean" /\ committer' = h
      /\ snap' = [snap EXCEPT ![m] = {}] /\ dropped' = [dropped EXCEPT ![m] = {}]
      /\ split' = [split EXCEPT ![m] = NoFiles] /\ into' = [into EXCEPT ![m] = NoFiles]
      /\ torn' = torn \cup (dropped[m] \ committer.out)
      /\ UNCHANGED <<list, gone, commits, failed, Apart>>
  BY DEF Clean, At
<1>2. Busy
  BY <1>1 DEF Busy
<1>3. Types /\ committer \in CommitType /\ m \in Modules
  BY <1>2, BusyFacts
<1>4. DiskTypes'
  BY <1>1, <1>3 DEF Types, DiskTypes, NoFiles
<1>5. torn' \subseteq Files
  BY <1>1, <1>3 DEF Types, BookTypes, DiskTypes
<1>6. h \in CommitType /\ h.at = "announce" /\ h.mod = m
  BY <1>3 DEF CommitType
<1> QED
  BY <1>1, <1>2, <1>4, <1>5, <1>6, BusyStep, BooksSame

LEMMA AnnounceStep == RefineInv /\ Announce => RefineInv'
<1> SUFFICES ASSUME RefineInv, Announce PROVE RefineInv'
  OBVIOUS
<1> DEFINE merged  == {t \in Modules : committer.merges[t] # {}}
           targets == merged \ inProgress
           news    == {c \in Modules \ {committer.mod} : committer.kids[c] # {}}
                        \ (inProgress \cup targets)
<1>1. /\ committer.at = "announce"
      /\ pending' = pending \cup (merged \cap inProgress)
      /\ inProgress' = inProgress \cup targets \cup news
      /\ refined' = (refined \ (targets \cup news)) \cup {committer.mod}
      /\ committer' = Resting
      /\ UNCHANGED <<disk, commits, failed, worker, main, plans, history>>
  BY DEF Announce, At
<1>2. Busy
  BY <1>1 DEF Busy
<1>3. Types /\ committer.mod \in Modules /\ targets \subseteq Modules /\ news \subseteq Modules
  BY <1>2, BusyFacts
<1>4. PICK q \in SetToSeqs(targets), r \in SetToSeqs(news) : queue' = queue \o q \o r
  BY DEF Announce
<1>5. q \in Seq(Item) /\ r \in Seq(Item)
  BY <1>3, <1>4, ModuleOrders
<1>6. queue' \in Seq(Item)
  BY <1>3, <1>4, <1>5 DEF Types, BookTypes
<1>7. Types'
  <2>1. DiskTypes'
    BY <1>1, DiskSame
  <2>2. BookTypes'
    BY <1>1, <1>3, <1>6 DEF Types, BookTypes, history
  <2>3. ThreadTypes'
    BY <1>1, <1>3, RestingType DEF Types, ThreadTypes
  <2> QED
    BY <2>1, <2>2, <2>3 DEF Types
<1> QED
  BY <1>1, <1>2, <1>7, RestingType, CommitterBusy

LEMMA CommitSteps == RefineInv /\ CommitStep => RefineInv'
BY FetchStep, ReadDraftsStep, ValidateStep, DeliverReadStep, DeliverWriteStep, ReadParentStep,
   WriteParentStep, CleanStep, AnnounceStep DEF CommitStep

-----------------------------------------------------------------------------
(* The main thread.                                                        *)

LEMMA MainSteps == RefineInv /\ MainStep => RefineInv'
<1> SUFFICES ASSUME RefineInv, MainStep PROVE RefineInv'
  OBVIOUS
<1>0. Types
  BY DEF RefineInv
<1>1. CASE Join
  <2>1. /\ main = "join" /\ main' = "stop"
        /\ UNCHANGED <<disk, queue, commits, refined, inProgress, pending, failed, worker,
                       committer, plans, history>>
    BY <1>1 DEF Join
  <2>2. Types' /\ BusyWithModule'
    BY <1>0, <2>1 DEF Types, DiskTypes, BookTypes, ThreadTypes, disk, history, RefineInv,
           BusyWithModule
  <2>3. StopIsLast'
    BY <2>1 DEF RefineInv, StopIsLast, Late
  <2> QED
    BY <2>2, <2>3 DEF RefineInv
<1>2. CASE StopWorkers
  <2>1. /\ main = "stop" /\ main' = "workers"
        /\ UNCHANGED <<disk, commits, refined, inProgress, pending, failed, worker, committer,
                       plans, history>>
    BY <1>2 DEF StopWorkers
  <2>2. PICK q \in [1 .. Cardinality(Workers) -> {Stop}] : queue' = queue \o q
    BY <1>2 DEF StopWorkers
  <2>3. q \in Seq(Item)
    <3>1. Cardinality(Workers) \in Nat
      BY RefineAssumption, FS_CardinalityType
    <3>2. q \in [1 .. Cardinality(Workers) -> Item]
      BY DEF Item
    <3> QED
      BY <3>1, <3>2
  <2>4. queue' \in Seq(Item)
    BY <1>0, <2>2, <2>3 DEF Types, BookTypes
  <2>5. Types' /\ BusyWithModule'
    BY <1>0, <2>1, <2>4 DEF Types, DiskTypes, BookTypes, ThreadTypes, disk, history, RefineInv,
           BusyWithModule
  <2>6. StopIsLast'
    BY <2>1 DEF RefineInv, StopIsLast, Late
  <2> QED
    BY <2>5, <2>6 DEF RefineInv
<1>3. CASE StopCommitter
  <2>1. /\ main = "workers" /\ main' = "commits" /\ commits' = Append(commits, Stop)
        /\ \A w \in Workers : worker[w].at = "stopped"
        /\ UNCHANGED <<disk, queue, refined, inProgress, pending, failed, worker, committer,
                       plans, history>>
    BY <1>3 DEF StopCommitter, WorkersJoined
  <2>2. commits \in Seq(Item) /\ Stop \in Item
    BY <1>0 DEF Types, BookTypes, Item
  <2>3. Types' /\ BusyWithModule'
    BY <1>0, <2>1, <2>2, AppendedItem
       DEF Types, DiskTypes, BookTypes, ThreadTypes, disk, history, RefineInv,
           BusyWithModule
  <2>4. ~Late /\ Late' /\ committer.at # "stopped"
    BY <2>1 DEF RefineInv, StopIsLast, Late
  <2>5. ASSUME NEW i \in DOMAIN commits', commits'[i] = Stop PROVE i = Len(commits')
    <3>1. /\ DOMAIN commits' = 1 .. Len(commits) + 1 /\ Len(commits') = Len(commits) + 1
          /\ Len(commits) \in Nat /\ DOMAIN commits = 1 .. Len(commits)
      BY <2>1, <2>2, AppendedItem
    <3>2. ASSUME i # Len(commits') PROVE FALSE
      <4>1. i \in 1 .. Len(commits)
        BY <3>1, <3>2
      <4>2. commits[i] = Stop
        BY <2>1, <2>2, <2>5, <4>1, AppendedItem
      <4> QED
        BY <2>4, <3>1, <4>1, <4>2 DEF RefineInv, StopIsLast
    <3> QED
      BY <3>2
  <2>6. StopIsLast'
    BY <2>1, <2>4, <2>5 DEF StopIsLast
  <2> QED
    BY <2>3, <2>6 DEF RefineInv
<1>4. CASE Collect
  <2>1. /\ main = "commits" /\ committer.at = "stopped"
        /\ main' = IF failed THEN "failed" ELSE "check"
        /\ UNCHANGED <<disk, queue, commits, refined, inProgress, pending, failed, worker,
                       committer, plans, history>>
    BY <1>4 DEF Collect
  <2>2. Types' /\ BusyWithModule'
    BY <1>0, <2>1 DEF Types, DiskTypes, BookTypes, ThreadTypes, disk, history, RefineInv,
           BusyWithModule
  <2>3. StopIsLast'
    BY <2>1 DEF RefineInv, StopIsLast, Late
  <2> QED
    BY <2>2, <2>3 DEF RefineInv
<1>5. CASE CheckAll
  <2>1. /\ main = "check" /\ main' \in {"passed", "failed"}
        /\ UNCHANGED <<snap, split, into, dropped, gone, queue, commits, refined, inProgress,
                       pending, failed, worker, committer, plans, history>>
    BY <1>5 DEF CheckAll
  <2>2. list' \in [Modules -> SUBSET Files]
    <3>1. CASE UNCHANGED list
      BY <1>0, <3>1 DEF Types, DiskTypes
    <3>2. ASSUME NEW home,
                 list' = [n \in Modules |->
                            (list[n] \cup {f \in Unclassified : home[f] = n}) \cap Filtered]
          PROVE  list' \in [Modules -> SUBSET Files]
      BY <3>2, RefineAssumption
    <3> QED
      BY <1>5, <3>1, <3>2 DEF CheckAll
  <2>3. Types' /\ BusyWithModule'
    BY <1>0, <2>1, <2>2
       DEF Types, DiskTypes, BookTypes, ThreadTypes, history, RefineInv, BusyWithModule
  <2>4. StopIsLast'
    BY <2>1 DEF RefineInv, StopIsLast, Late
  <2> QED
    BY <2>3, <2>4 DEF RefineInv
<1> QED
  BY <1>1, <1>2, <1>3, <1>4, <1>5 DEF MainStep

-----------------------------------------------------------------------------
(* Theorems.                                                               *)

LEMMA RefineInit == Init => RefineInv
<1> SUFFICES ASSUME Init PROVE RefineInv
  OBVIOUS
<1>1. DiskTypes
  BY RefineAssumption DEF Init, DiskTypes, NoFiles
<1>2. queue \in Seq(Item)
  BY ModuleOrders DEF Init
<1>3. BookTypes
  <2>1. 0 \in 0 .. MaxPlans /\ commits = <<>> /\ <<>> \in Seq(Item)
    BY RefineAssumption DEF Init
  <2> QED
    BY <1>2, <2>1 DEF Init, BookTypes
<1>4. ThreadTypes
  BY IdleType, RestingType DEF Init, ThreadTypes
<1>5. BusyWithModule /\ StopIsLast
  BY IdleType, RestingType DEF Init, BusyWithModule, StopIsLast, Late
<1> QED
  BY <1>1, <1>3, <1>4, <1>5 DEF RefineInv, Types

LEMMA RefineStep == RefineInv /\ [Next]_vars => RefineInv'
<1> SUFFICES ASSUME RefineInv, [Next]_vars PROVE RefineInv'
  OBVIOUS
<1>1. ASSUME NEW w \in Workers, WorkerStep(w) PROVE RefineInv'
  BY <1>1, WorkerSteps
<1>2. CASE CommitStep
  BY <1>2, CommitSteps
<1>3. CASE MainStep
  BY <1>3, MainSteps
<1>4. CASE UNCHANGED vars
  BY <1>4 DEF vars, disk, threads, history, RefineInv, Types, DiskTypes, BookTypes, ThreadTypes,
              BusyWithModule, StopIsLast, Late
<1> QED
  BY <1>1, <1>2, <1>3, <1>4 DEF Next, Ended

LEMMA RefineInvAlways == Spec => []RefineInv
BY RefineInit, RefineStep, PTL DEF Spec

\* The files, the queues and the threads of stage 2 keep their types, and no module is
\* worked on for more rounds than the limit.
THEOREM TypesHold == Spec => []TypeOK
<1>1. RefineInv => TypeOK
  BY TypesAreTypeOK DEF RefineInv
<1> QED
  BY <1>1, RefineInvAlways, PTL

\* Stage 2 passes only after the commit thread has done its last item, and without any
\* error, however the threads are interleaved.
THEOREM PassesWhenCommitted == Spec => []PassedIsCommitted
<1>1. RefineInv => PassedIsCommitted
  BY DEF RefineInv, StopIsLast, PassedIsCommitted, At
<1> QED
  BY <1>1, RefineInvAlways, PTL

-----------------------------------------------------------------------------
(* Files.                                                                  *)

\* No draft merges a module into itself.
MergesAway ==
  /\ \A m \in Modules : into[m][m] = {}
  /\ committer.at \notin {"idle", "stopped", "drafts"} => committer.merges[committer.mod] = {}

\* Every job with files is to do, in hand, or done.
Delivering == committer.at \in {"deliver", "write", "parent"}
Done(j)    == j \notin committer.todo /\ ~(committer.at = "write" /\ j = committer.job)
Away(f)    == f \in gone \/ \E o \in Modules \ {committer.mod} : f \in list[o] \cup dropped[o]
Excused    == lost \cup torn

\* What was delivered to another module is not in the parent alone, and stays so.
DeliveredStays ==
  Delivering =>
    \A j \in Jobs : j[2] # committer.mod /\ Done(j) =>
      \A f \in FilesOf(j) \ Excused : Away(f)

\* A job has files, and what was deleted is recorded before the drafts are removed.
JobsHaveFiles ==
  /\ committer.at \in {"deliver", "write", "parent"} =>
       \A j \in committer.todo : FilesOf(j) # {}
  /\ committer.at = "parent" => committer.todo = {}
  /\ committer.at = "write" => FilesOf(committer.job) # {}
  /\ committer.at = "clean" => committer.out \subseteq gone

FilesInv == RefineInv /\ MergesAway /\ DeliveredStays /\ JobsHaveFiles /\ NothingLost

\* The files a step takes out of list[m] and dropped[m].
Taken(m) == (list[m] \cup dropped[m]) \ (list'[m] \cup dropped'[m])

\* A step that takes files only with an excuse keeps those away from the parent there.
LEMMA AwayKept ==
  ASSUME NEW f \in Files, f \notin Excused', Away(f), gone \subseteq gone',
         committer'.mod = committer.mod,
         \A o \in Modules \ {committer.mod} : Taken(o) \subseteq Excused'
  PROVE  Away(f)'
<1>1. CASE f \in gone
  BY <1>1 DEF Away
<1>2. ASSUME NEW o \in Modules \ {committer.mod}, f \in list[o] \cup dropped[o]
      PROVE  Away(f)'
  <2>1. f \in list'[o] \cup dropped'[o]
    BY <1>2 DEF Taken
  <2> QED
    BY <2>1 DEF Away
<1> QED
  BY <1>1, <1>2 DEF Away

\* The steps of the workers: the commit thread stands still.
LEMMA WorkerFiles ==
  ASSUME FilesInv, UNCHANGED <<gone, committer>>, Excused \subseteq Excused',
         main # "passed",
         \A m \in Modules : Taken(m) \subseteq Excused' /\ into'[m][m] = {}
  PROVE  MergesAway' /\ DeliveredStays' /\ JobsHaveFiles' /\ NothingLost'
<1>1. MergesAway' /\ JobsHaveFiles'
  BY DEF FilesInv, MergesAway, JobsHaveFiles, FilesOf
<1>2. DeliveredStays'
  <2> SUFFICES ASSUME Delivering, NEW j \in Jobs, j[2] # committer.mod, Done(j),
                      NEW f \in FilesOf(j), f \notin Excused'
               PROVE  Away(f)'
    BY DEF DeliveredStays, Delivering, Done, FilesOf, Excused
  <2>1. committer \in CommitType
    BY DEF FilesInv, RefineInv, Types, ThreadTypes
  <2>2. f \in Files /\ Away(f)
    BY <2>1, JobFiles DEF FilesInv, DeliveredStays
  <2> QED
    BY <2>2, AwayKept
<1>3. NothingLost'
  <2> SUFFICES ASSUME NEW f \in Files, f \notin Excused' PROVE Somewhere(f)'
    BY DEF NothingLost, Excused
  <2>1. Somewhere(f)
    BY DEF FilesInv, NothingLost, Excused
  <2>2. InHand' = InHand
    BY DEF InHand, At, FilesOf
  <2>3. ASSUME NEW m \in Modules, f \in list[m] \cup dropped[m]
        PROVE  f \in list'[m] \cup dropped'[m]
    BY <2>3 DEF Taken
  <2> QED
    BY <2>1, <2>2, <2>3 DEF Somewhere
<1> QED
  BY <1>1, <1>2, <1>3

LEMMA WorkerRuns ==
  ASSUME RefineInv, NEW w \in Workers, WorkerStep(w)
  PROVE  main # "passed" /\ UNCHANGED <<gone, committer, main>>
<1>1. worker[w].at # "stopped" /\ UNCHANGED <<gone, committer, main>>
  BY DEF WorkerStep, Take, Prepare, Propose, Judge, AgentFails, Requeue, Leave, disk
<1> QED
  BY <1>1 DEF RefineInv, StopIsLast, Late

LEMMA WorkersKeepFiles ==
  ASSUME FilesInv, NEW w \in Workers, WorkerStep(w)
  PROVE  MergesAway' /\ DeliveredStays' /\ JobsHaveFiles' /\ NothingLost'
<1> DEFINE m == worker[w].mod
<1>0. /\ main # "passed" /\ UNCHANGED <<gone, committer>> /\ Types
      /\ \A n \in Modules : into[n][n] = {}
  BY WorkerRuns DEF FilesInv, RefineInv, MergesAway
<1>1. CASE Take(w)
  <2>1. CASE UNCHANGED <<list, into, dropped, torn, lost>>
    BY <1>0, <2>1, WorkerFiles DEF Taken, Excused
  <2>2. ASSUME NEW n \in Modules, list[n] = {}, Removed(n), torn' = torn \cup dropped[n],
               lost' = lost
        PROVE  MergesAway' /\ DeliveredStays' /\ JobsHaveFiles' /\ NothingLost'
    <3>1. ASSUME NEW k \in Modules
          PROVE  Taken(k) \subseteq Excused' /\ into'[k][k] = {}
      <4>1. CASE k = n
        BY <1>0, <2>2, <4>1 DEF Taken, Excused, Removed, NoFiles, Types, DiskTypes
      <4>2. CASE k # n
        BY <1>0, <2>2, <4>2 DEF Taken, Excused, Removed, Types, DiskTypes
      <4> QED
        BY <4>1, <4>2
    <3>2. Excused \subseteq Excused'
      BY <2>2 DEF Excused
    <3> QED
      BY <1>0, <3>1, <3>2, WorkerFiles
  <2>3. queue # <<>> /\ queue \in Seq(Item) /\ Head(queue) \in Item
    BY <1>0, <1>1, TailItems DEF Take, Types, BookTypes
  <2>4. \/ UNCHANGED <<list, into, dropped, torn, lost>>
        \/ /\ Head(queue) # Stop /\ list[Head(queue)] = {} /\ Removed(Head(queue))
           /\ torn' = torn \cup dropped[Head(queue)] /\ lost' = lost
    BY <1>1 DEF Take, disk
  <2> QED
    BY <2>1, <2>2, <2>3, <2>4 DEF Item
<1>2. CASE Propose(w)
  <2>1. m \in Modules /\ torn' = torn
    BY <1>2, ProposeCases DEF FilesInv
  <2>2. CASE UNCHANGED <<list, split, into, dropped, plans, lost>>
    BY <1>0, <2>1, <2>2, WorkerFiles DEF Taken, Excused
  <2>3. ASSUME NEW p \in [worker[w].seen -> Homes(m)], NEW lose \in SUBSET Files,
               NEW left \in SUBSET Files, Proposed(m, p, lose, left)
        PROVE  MergesAway' /\ DeliveredStays' /\ JobsHaveFiles' /\ NothingLost'
    <3>1. Excused \subseteq Excused'
      BY <2>1, <2>3 DEF Excused, Proposed
    <3>2. ASSUME NEW k \in Modules, k # m
          PROVE  Taken(k) \subseteq Excused' /\ into'[k][k] = {}
      BY <1>0, <2>1, <2>3, <3>2 DEF Taken, Proposed, Types, DiskTypes
    <3>3. list'[m] = left /\ dropped'[m] = Placed(p, "delete", m)
      BY <1>0, <2>1, <2>3 DEF Proposed, Types, DiskTypes
    <3>4. Taken(m) \subseteq Excused'
      BY <2>3, <3>3 DEF Taken, Excused, Proposed
    <3>5. into'[m][m] = Placed(p, "merge", m)
      BY <1>0, <2>1, <2>3 DEF Proposed, Types, DiskTypes
    <3>6. \A f \in DOMAIN p : p[f] \in Homes(m)
      OBVIOUS
    <3>7. Placed(p, "merge", m) = {}
      BY <3>6 DEF Placed, Homes
    <3> QED
      BY <1>0, <3>1, <3>2, <3>4, <3>5, <3>7, WorkerFiles
  <2> QED
    BY <1>2, <2>2, <2>3, ProposeCases DEF FilesInv
<1>3. CASE Judge(w)
  <2>1. m \in Modules /\ UNCHANGED <<into, history>>
    BY <1>3 DEF Judge, FilesInv, RefineInv, BusyWithModule
  <2>2. CASE UNCHANGED <<list, dropped>>
    BY <1>0, <2>1, <2>2, WorkerFiles DEF Taken, Excused, history
  <2>3. ASSUME NEW back \in SUBSET dropped[m],
               list' = [list EXCEPT ![m] = @ \cup back],
               dropped' = [dropped EXCEPT ![m] = @ \ back]
        PROVE  MergesAway' /\ DeliveredStays' /\ JobsHaveFiles' /\ NothingLost'
    <3>1. \A n \in Modules : Taken(n) = {}
      BY <1>0, <2>1, <2>3 DEF Taken, Types, DiskTypes
    <3> QED
      BY <1>0, <2>1, <3>1, WorkerFiles DEF Excused, history
  <2>4. \/ UNCHANGED <<list, dropped>>
        \/ \E back \in SUBSET dropped[m] : /\ list' = [list EXCEPT ![m] = @ \cup back]
                                           /\ dropped' = [dropped EXCEPT ![m] = @ \ back]
    BY <1>3 DEF Judge
  <2> QED
    BY <2>2, <2>3, <2>4
<1>4. CASE Prepare(w) \/ AgentFails(w) \/ Requeue(w) \/ Leave(w)
  <2>1. UNCHANGED <<list, into, dropped, history>>
    BY <1>4 DEF Prepare, AgentFails, Requeue, Leave, disk
  <2> QED
    BY <1>0, <2>1, WorkerFiles DEF Taken, Excused, history
<1> QED
  BY <1>1, <1>2, <1>3, <1>4 DEF WorkerStep

\* The steps of the commit thread that write no list.
LEMMA QuietCommitFiles ==
  ASSUME FilesInv, UNCHANGED <<list, dropped, gone, lost, torn, main>>,
         InHand \subseteq InHand', MergesAway', DeliveredStays', JobsHaveFiles'
  PROVE  NothingLost'
<1> SUFFICES ASSUME NEW f \in Files, f \notin Excused
             PROVE  Somewhere(f)' \/ (main' = "passed" /\ f \notin Filtered)
  BY DEF NothingLost, Excused
<1>1. Somewhere(f) \/ (main = "passed" /\ f \notin Filtered)
  BY DEF FilesInv, NothingLost, Excused
<1> QED
  BY <1>1 DEF Somewhere

LEMMA FetchFiles ==
  ASSUME FilesInv, Fetch
  PROVE  MergesAway' /\ DeliveredStays' /\ JobsHaveFiles' /\ NothingLost'
<1>1. /\ committer.at = "idle" /\ committer'.at \in {"drafts", "stopped"}
      /\ UNCHANGED <<disk, lost, torn, main>>
  BY DEF Fetch, At, Apart, Resting
<1>2. MergesAway' /\ DeliveredStays' /\ JobsHaveFiles'
  BY <1>1 DEF FilesInv, MergesAway, DeliveredStays, Delivering, JobsHaveFiles, disk
<1>3. InHand \subseteq InHand'
  BY <1>1 DEF InHand, At
<1> QED
  BY <1>1, <1>2, <1>3, QuietCommitFiles DEF disk

LEMMA ReadDraftsFiles ==
  ASSUME FilesInv, ReadDrafts
  PROVE  MergesAway' /\ DeliveredStays' /\ JobsHaveFiles' /\ NothingLost'
<1> DEFINE m == committer.mod
           h == [committer EXCEPT !.at = "check", !.kids = split[m], !.merges = into[m]]
<1>1. /\ committer.at = "drafts" /\ committer' = h
      /\ UNCHANGED <<disk, lost, torn, main>>
  BY DEF ReadDrafts, At, Apart
<1>2. committer \in CommitType /\ m \in Modules
  BY <1>1, BusyFacts DEF FilesInv, Busy
<1>3. h.at = "check" /\ h.merges = into[m] /\ h.mod = m
  BY <1>2 DEF CommitType
<1>4. MergesAway'
  BY <1>1, <1>2, <1>3 DEF FilesInv, MergesAway, disk
<1>5. DeliveredStays' /\ JobsHaveFiles'
  BY <1>1, <1>3 DEF DeliveredStays, Delivering, JobsHaveFiles
<1>6. InHand \subseteq InHand'
  BY <1>1, <1>3 DEF InHand, At
<1> QED
  BY <1>1, <1>4, <1>5, <1>6, QuietCommitFiles DEF disk

LEMMA ValidateFiles ==
  ASSUME FilesInv, Validate
  PROVE  MergesAway' /\ DeliveredStays' /\ JobsHaveFiles' /\ NothingLost'
<1>1. committer.at = "check" /\ UNCHANGED <<disk, lost, torn, main>>
  BY DEF Validate, At, Apart
<1>2. CASE Rejected
  <2>1. committer' = Resting
    BY <1>2 DEF Validate
  <2>2. committer'.at = "idle"
    BY <2>1, RestingType
  <2>3. MergesAway' /\ DeliveredStays' /\ JobsHaveFiles'
    BY <1>1, <2>2 DEF FilesInv, MergesAway, DeliveredStays, Delivering, JobsHaveFiles, disk
  <2>4. InHand \subseteq InHand'
    BY <1>1, <2>2 DEF InHand, At
  <2> QED
    BY <1>1, <2>3, <2>4, QuietCommitFiles DEF disk
<1>3. CASE ~Rejected
  <2> DEFINE J == {j \in Jobs : IF j[1] = "split" THEN committer.kids[j[2]] # {}
                                                   ELSE committer.merges[j[2]] # {}}
             h == [committer EXCEPT !.at = "deliver", !.todo = J]
  <2>1. committer' = h
    BY <1>3 DEF Validate
  <2>2. committer \in CommitType
    BY <1>1, BusyFacts DEF FilesInv, Busy
  <2>3. \A j \in Jobs : j \in J <=> FilesOf(j) # {}
    BY DEF FilesOf
  <2>4. J \subseteq Jobs
    OBVIOUS
  <2> HIDE DEF J
  <2>5. /\ h.at = "deliver" /\ h.todo = J /\ h.mod = committer.mod
        /\ h.kids = committer.kids /\ h.merges = committer.merges
    BY <2>2 DEF CommitType
  <2> HIDE DEF h
  <2>6. \A j : FilesOf(j)' = FilesOf(j)
    BY <2>1, <2>5 DEF FilesOf
  <2>7. MergesAway'
    BY <1>1, <2>1, <2>5 DEF FilesInv, MergesAway, disk
  <2>8. DeliveredStays'
    BY <2>1, <2>3, <2>5, <2>6 DEF DeliveredStays, Done
  <2>9. JobsHaveFiles'
    BY <2>1, <2>3, <2>4, <2>5, <2>6 DEF JobsHaveFiles
  <2>10. InHand \subseteq InHand'
    BY <1>1 DEF InHand, At
  <2> QED
    BY <1>1, <2>7, <2>8, <2>9, <2>10, QuietCommitFiles DEF disk
<1> QED
  BY <1>2, <1>3

LEMMA DeliverReadFiles ==
  ASSUME FilesInv, DeliverRead
  PROVE  MergesAway' /\ DeliveredStays' /\ JobsHaveFiles' /\ NothingLost'
<1>1. committer.at = "deliver" /\ UNCHANGED <<disk, lost, torn, main>>
  BY DEF DeliverRead, At, Apart
<1>2. PICK j \in Jobs :
        /\ j \in committer.todo
        /\ committer' = [committer EXCEPT !.at = "write", !.job = j, !.buf = list[j[2]],
                                          !.todo = @ \ {j}]
  BY DEF DeliverRead, Due
<1>3. committer \in CommitType
  BY <1>1, BusyFacts DEF FilesInv, Busy
<1>4. /\ committer'.at = "write" /\ committer'.job = j /\ committer'.todo = committer.todo \ {j}
      /\ committer'.mod = committer.mod /\ committer'.kids = committer.kids
      /\ committer'.merges = committer.merges /\ committer'.out = committer.out
  BY <1>2, <1>3 DEF CommitType
<1>5. \A k : FilesOf(k)' = FilesOf(k)
  BY <1>4 DEF FilesOf
<1>6. MergesAway'
  BY <1>1, <1>4 DEF FilesInv, MergesAway, disk
<1>7. DeliveredStays'
  <2>1. \A k \in Jobs : Done(k)' => Done(k)
    BY <1>1, <1>4 DEF Done
  <2>2. \A f : Away(f) => Away(f)'
    BY <1>1, <1>4 DEF Away, disk
  <2> QED
    BY <1>1, <1>4, <1>5, <2>1, <2>2 DEF FilesInv, DeliveredStays, Delivering, Excused
<1>8. JobsHaveFiles'
  BY <1>1, <1>2, <1>4, <1>5 DEF FilesInv, JobsHaveFiles
<1>9. InHand \subseteq InHand'
  <2>1. InHand = committer.out \cup UNION {FilesOf(k) : k \in committer.todo}
    BY <1>1 DEF InHand, At
  <2>2. InHand' = committer.out \cup UNION {FilesOf(k) : k \in (committer.todo \ {j}) \cup {j}}
    BY <1>4, <1>5 DEF InHand, At
  <2> QED
    BY <2>1, <2>2
<1> QED
  BY <1>1, <1>6, <1>7, <1>8, <1>9, QuietCommitFiles DEF disk

LEMMA DeliverWriteFiles ==
  ASSUME FilesInv, DeliverWrite
  PROVE  MergesAway' /\ DeliveredStays' /\ JobsHaveFiles' /\ NothingLost'
<1> DEFINE o == committer.job[2]
           m == committer.mod
           job == committer.job
           h == [committer EXCEPT !.at = "deliver"]
<1>1. /\ committer.at = "write" /\ committer' = h /\ list' = [list EXCEPT ![o] = Delivered]
      /\ torn' = torn \cup Unknown(o)
      /\ UNCHANGED <<into, dropped, gone, main, lost>>
  BY DEF DeliverWrite, At, Apart
<1>2. /\ committer \in CommitType /\ job \in Jobs /\ o \in Modules /\ m \in Modules /\ Types
      /\ FilesOf(job) \in SUBSET Files
  BY <1>1, BusyFacts, JobFiles DEF FilesInv, Busy
<1>3. /\ committer'.at = "deliver" /\ committer'.mod = m /\ committer'.kids = committer.kids
      /\ committer'.merges = committer.merges /\ committer'.out = committer.out
      /\ committer'.todo = committer.todo
  BY <1>1, <1>2 DEF CommitType
<1> HIDE DEF h
<1>4. \A j : FilesOf(j)' = FilesOf(j)
  BY <1>3 DEF FilesOf
<1>5. list'[o] = Delivered /\ FilesOf(job) \subseteq list'[o]
      /\ \A k \in Modules \ {o} : list'[k] = list[k]
  BY <1>1, <1>2 DEF Delivered, Types, DiskTypes
<1>6. Excused' = Excused \cup Unknown(o)
  BY <1>1 DEF Excused
<1>7. \A k \in Modules \ {m} : Taken(k) \subseteq Excused'
  <2> SUFFICES ASSUME NEW k \in Modules, k # m PROVE Taken(k) \subseteq Excused'
    OBVIOUS
  <2>1. CASE k # o
    BY <1>1, <1>5, <2>1 DEF Taken
  <2>2. CASE k = o
    <3>1. Unknown(o) = list[o] \ committer.buf
      BY <2>2 DEF Unknown
    <3>2. committer.buf \subseteq list'[o]
      <4>1. job # <<"split", m>>
        BY <2>2
      <4> QED
        BY <1>5, <4>1 DEF Delivered
    <3> QED
      BY <1>1, <1>6, <2>2, <3>1, <3>2 DEF Taken
  <2> QED
    BY <2>1, <2>2
<1>8. ASSUME NEW j \in Jobs, j[2] # m, Done(j), NEW f \in FilesOf(j), f \notin Excused'
      PROVE  Away(f)'
  <2>1. f \in Files /\ f \notin Excused
    BY <1>2, <1>6, <1>8, JobFiles
  <2>2. Away(f)
    BY <1>1, <1>8, <2>1 DEF FilesInv, DeliveredStays, Delivering
  <2> QED
    BY <1>1, <1>3, <1>7, <1>8, <2>1, <2>2, AwayKept
<1>9. DeliveredStays'
  <2> SUFFICES ASSUME NEW j \in Jobs, j[2] # m, Done(j)', NEW f \in FilesOf(j), f \notin Excused'
               PROVE  Away(f)'
    BY <1>3, <1>4 DEF DeliveredStays
  <2>1. CASE j = job
    BY <1>2, <1>3, <1>5, <2>1 DEF Away
  <2>2. CASE j # job
    BY <1>3, <1>8, <2>2 DEF Done
  <2> QED
    BY <2>1, <2>2
<1>10. MergesAway' /\ JobsHaveFiles'
  BY <1>1, <1>3, <1>4 DEF FilesInv, MergesAway, JobsHaveFiles
<1>11. NothingLost'
  <2> SUFFICES ASSUME NEW f \in Files, f \notin Excused'
               PROVE  Somewhere(f)' \/ (main' = "passed" /\ f \notin Filtered)
    BY DEF NothingLost, Excused
  <2>1. Somewhere(f) \/ (main' = "passed" /\ f \notin Filtered)
    BY <1>1, <1>6 DEF FilesInv, NothingLost, Excused
  <2>2. InHand = committer.out \cup UNION {FilesOf(j) : j \in committer.todo \cup {job}}
    BY <1>1 DEF InHand, At
  <2>3. InHand' = committer.out \cup UNION {FilesOf(j) : j \in committer.todo}
    BY <1>3, <1>4 DEF InHand, At
  <2>4. CASE f \in gone \cup InHand
    BY <1>1, <1>2, <1>5, <2>2, <2>3, <2>4 DEF Somewhere
  <2>5. ASSUME NEW k \in Modules, f \in dropped[k] \/ (k # o /\ f \in list[k])
        PROVE  Somewhere(f)'
    BY <1>1, <1>5, <2>5 DEF Somewhere
  <2>6. CASE f \in list[o]
    <3>1. CASE f \in list'[o]
      BY <1>2, <3>1 DEF Somewhere
    <3>2. CASE f \notin list'[o] /\ job # <<"split", m>>
      \* What is not kept was not known.
      <4>1. f \notin committer.buf
        BY <1>5, <3>2 DEF Delivered
      <4>2. f \notin Unknown(o)
        BY <1>6
      <4>3. o = m /\ committer.kids[o] # {}
        BY <2>6, <4>1, <4>2 DEF Unknown
      <4>4. job[1] \in {"split", "merge"} /\ job = <<job[1], m>>
        BY <1>2, <4>3 DEF Jobs
      <4>5. job[1] = "merge"
        BY <3>2, <4>4
      <4>6. FilesOf(job) = {}
        BY <1>1, <4>3, <4>5 DEF FilesOf, FilesInv, MergesAway
      <4> QED
        BY <1>1, <4>6 DEF FilesInv, JobsHaveFiles
    <3>3. CASE f \notin list'[o] /\ job = <<"split", m>>
      \* The parent keeps what is listed for it; the rest was moved or deleted.
      <4>1. o = m /\ FilesOf(job) = committer.kids[m]
        BY <3>3 DEF FilesOf
      <4>2. committer.kids[m] # {}
        BY <1>1, <4>1 DEF FilesInv, JobsHaveFiles
      <4>3. f \in Moved \cup committer.out
        BY <1>6, <2>6, <4>1, <4>2 DEF Unknown
      <4>4. CASE f \in committer.out
        BY <2>3, <4>4 DEF Somewhere
      <4>5. CASE f \in Moved
        <5>1. PICK j \in Jobs : f \in FilesOf(j)
          <6>1. PICK c \in Modules : f \in committer.kids[c] \/ f \in committer.merges[c]
            BY <4>5 DEF Moved, SplitOut, MergedOut
          <6>2. <<"split", c>> \in Jobs /\ <<"merge", c>> \in Jobs
            BY DEF Jobs
          <6>3. FilesOf(<<"split", c>>) = committer.kids[c] /\ FilesOf(<<"merge", c>>) = committer.merges[c]
            BY DEF FilesOf
          <6> QED
            BY <6>1, <6>2, <6>3
        <5>2. j # job
          BY <1>5, <3>3, <5>1
        <5>3. j[2] # m
          <6>1. j[1] \in {"split", "merge"} /\ j = <<j[1], j[2]>>
            BY DEF Jobs
          <6>2. j # <<"split", m>>
            BY <3>3, <5>2
          <6>3. ASSUME j[2] = m PROVE FALSE
            <7>1. FilesOf(j) = committer.merges[m]
              BY <6>1, <6>2, <6>3 DEF FilesOf
            <7> QED
              BY <1>1, <5>1, <7>1 DEF FilesInv, MergesAway
          <6> QED
            BY <6>3
        <5>4. CASE j \in committer.todo
          BY <2>3, <5>1, <5>4 DEF Somewhere
        <5>5. CASE j \notin committer.todo
          <6>1. Away(f)'
            BY <1>8, <5>1, <5>2, <5>3, <5>5 DEF Done
          <6> QED
            BY <6>1 DEF Away, Somewhere
        <5> QED
          BY <5>4, <5>5
      <4> QED
        BY <4>3, <4>4, <4>5
    <3> QED
      BY <3>1, <3>2, <3>3
  <2> QED
    BY <2>1, <2>4, <2>5, <2>6 DEF Somewhere
<1> QED
  BY <1>9, <1>10, <1>11

LEMMA ReadParentFiles ==
  ASSUME FilesInv, ReadParent
  PROVE  MergesAway' /\ DeliveredStays' /\ JobsHaveFiles' /\ NothingLost'
<1> DEFINE h == [committer EXCEPT !.at = "parent", !.buf = list[committer.mod]]
<1>1. /\ committer.at = "deliver" /\ committer.todo = {} /\ committer' = h
      /\ UNCHANGED <<disk, lost, torn, main>>
  BY DEF ReadParent, At, Apart
<1>2. committer \in CommitType
  BY <1>1, BusyFacts DEF FilesInv, Busy
<1>3. /\ h.at = "parent" /\ h.mod = committer.mod /\ h.kids = committer.kids
      /\ h.merges = committer.merges /\ h.out = committer.out /\ h.todo = committer.todo
  BY <1>2 DEF CommitType
<1> HIDE DEF h
<1>4. \A j : FilesOf(j)' = FilesOf(j)
  BY <1>1, <1>3 DEF FilesOf
<1>5. MergesAway' /\ JobsHaveFiles'
  BY <1>1, <1>3, <1>4 DEF FilesInv, MergesAway, JobsHaveFiles, disk
<1>6. DeliveredStays'
  <2>1. \A j \in Jobs : Done(j)
    BY <1>1 DEF Done
  <2>2. \A f : Away(f) => Away(f)'
    BY <1>1, <1>3 DEF Away, disk
  <2> QED
    BY <1>1, <1>3, <1>4, <2>1, <2>2 DEF FilesInv, DeliveredStays, Delivering, Excused
<1>7. InHand \subseteq InHand'
  BY <1>1, <1>3 DEF InHand, At
<1> QED
  BY <1>1, <1>5, <1>6, <1>7, QuietCommitFiles DEF disk

\* What the parent no longer lists was moved and is with another module, or deleted.
LEMMA ParentFiles ==
  ASSUME FilesInv, committer.at = "parent", NEW f \in Files,
         f \in list[committer.mod], f \notin Excused, f \notin Unknown(committer.mod),
         f \notin Rest
  PROVE  f \in committer.out \/ Away(f)
<1> DEFINE m == committer.mod
<1>1. committer \in CommitType /\ m \in Modules
  BY BusyFacts DEF FilesInv, Busy
<1>2. f \in Moved \cup committer.out
  BY DEF Unknown, Rest
<1>3. ASSUME f \in Moved PROVE Away(f)
  <2>1. PICK c \in Modules : f \in committer.kids[c] \/ f \in committer.merges[c]
    BY <1>3 DEF Moved, SplitOut, MergedOut
  <2>2. c # m
    <3>1. f \notin committer.merges[m]
      BY DEF FilesInv, MergesAway
    <3>2. f \notin committer.kids[m]
      BY DEF Rest
    <3> QED
      BY <2>1, <3>1, <3>2
  <2>3. PICK j \in Jobs : f \in FilesOf(j) /\ j[2] = c
    <3>1. <<"split", c>> \in Jobs /\ <<"merge", c>> \in Jobs
      BY DEF Jobs
    <3>2. FilesOf(<<"split", c>>) = committer.kids[c] /\ FilesOf(<<"merge", c>>) = committer.merges[c]
      BY DEF FilesOf
    <3> QED
      BY <2>1, <3>1, <3>2
  <2>4. Done(j) /\ Delivering
    BY DEF Done, Delivering, FilesInv, JobsHaveFiles
  <2> QED
    BY <2>2, <2>3, <2>4 DEF FilesInv, DeliveredStays
<1> QED
  BY <1>2, <1>3

LEMMA WriteParentFiles ==
  ASSUME FilesInv, WriteParent
  PROVE  MergesAway' /\ DeliveredStays' /\ JobsHaveFiles' /\ NothingLost'
<1> DEFINE m == committer.mod
           h == [committer EXCEPT !.at = "clean"]
<1>1. /\ committer.at = "parent" /\ committer' = h /\ gone' = gone \cup committer.out
      /\ UNCHANGED <<main, lost>>
  BY WriteParentCases DEF Apart
<1>2. /\ Types /\ committer \in CommitType /\ m \in Modules
  BY <1>1, BusyFacts DEF FilesInv, Busy
<1>3. /\ h.at = "clean" /\ h.mod = m /\ h.merges = committer.merges /\ h.out = committer.out
      /\ h.todo = committer.todo
  BY <1>2 DEF CommitType
<1> HIDE DEF h
<1>4. /\ list'[m] = Rest /\ \A k \in Modules \ {m} : list'[k] = list[k] /\ dropped'[k] = dropped[k]
      /\ \A k \in Modules : into'[k][k] = {}
      /\ torn \cup Unknown(m) \subseteq torn'
      /\ \A f \in dropped[m] : f \in dropped'[m] \/ f \in torn'
  <2>1. CASE /\ Rest = {} /\ Removed(m) /\ torn' = torn \cup Unknown(m) \cup dropped[m]
    BY <1>2, <2>1 DEF Removed, NoFiles, Types, DiskTypes, FilesInv, MergesAway
  <2>2. CASE /\ list' = [list EXCEPT ![m] = Rest] /\ torn' = torn \cup Unknown(m)
             /\ UNCHANGED <<into, dropped>>
    BY <1>2, <2>2 DEF Types, DiskTypes, FilesInv, MergesAway
  <2> QED
    BY <2>1, <2>2, WriteParentCases
<1>5. MergesAway'
  BY <1>1, <1>3, <1>4 DEF FilesInv, MergesAway
<1>6. DeliveredStays' /\ JobsHaveFiles'
  BY <1>1, <1>3 DEF DeliveredStays, Delivering, JobsHaveFiles
<1>7. NothingLost'
  <2> SUFFICES ASSUME NEW f \in Files, f \notin Excused'
               PROVE  Somewhere(f)' \/ (main' = "passed" /\ f \notin Filtered)
    BY DEF NothingLost, Excused
  <2>1. f \notin Excused /\ f \notin Unknown(m) /\ f \notin torn'
    BY <1>1, <1>4 DEF Excused
  <2>2. Somewhere(f) \/ (main' = "passed" /\ f \notin Filtered)
    BY <1>1, <2>1 DEF FilesInv, NothingLost, Excused
  <2>3. InHand = committer.out
    BY <1>1 DEF InHand, At
  <2>4. CASE f \in gone \cup committer.out
    BY <1>1, <2>4 DEF Somewhere
  <2>5. ASSUME NEW k \in Modules, k # m, f \in list[k] \cup dropped[k] PROVE Somewhere(f)'
    BY <1>4, <2>5 DEF Somewhere
  <2>6. CASE f \in dropped[m]
    BY <1>2, <1>4, <2>1, <2>6 DEF Somewhere
  <2>7. CASE f \in list[m]
    <3>1. f \in Rest \/ f \in committer.out \/ Away(f)
      BY <1>1, <2>1, <2>7, ParentFiles
    <3> QED
      BY <1>2, <1>4, <2>4, <2>5, <3>1 DEF Away, Somewhere
  <2> QED
    BY <2>2, <2>3, <2>4, <2>5, <2>6, <2>7 DEF Somewhere
<1> QED
  BY <1>5, <1>6, <1>7

LEMMA CleanFiles ==
  ASSUME FilesInv, Clean
  PROVE  MergesAway' /\ DeliveredStays' /\ JobsHaveFiles' /\ NothingLost'
<1> DEFINE m == committer.mod
           h == [committer EXCEPT !.at = "announce"]
<1>1. /\ committer.at = "clean" /\ committer' = h
      /\ into' = [into EXCEPT ![m] = NoFiles] /\ dropped' = [dropped EXCEPT ![m] = {}]
      /\ torn' = torn \cup (dropped[m] \ committer.out)
      /\ UNCHANGED <<list, gone, lost, main>>
  BY DEF Clean, At, Apart
<1>2. Types /\ committer \in CommitType /\ m \in Modules
  BY <1>1, BusyFacts DEF FilesInv, Busy
<1>3. h.at = "announce" /\ h.mod = m /\ h.merges = committer.merges
  BY <1>2 DEF CommitType
<1> HIDE DEF h
<1>4. MergesAway'
  BY <1>1, <1>2, <1>3 DEF FilesInv, MergesAway, NoFiles, Types, DiskTypes
<1>5. DeliveredStays' /\ JobsHaveFiles'
  BY <1>1, <1>3 DEF DeliveredStays, Delivering, JobsHaveFiles
<1>6. NothingLost'
  <2> SUFFICES ASSUME NEW f \in Files, f \notin Excused'
               PROVE  Somewhere(f)' \/ (main' = "passed" /\ f \notin Filtered)
    BY DEF NothingLost, Excused
  <2>1. Somewhere(f) \/ (main' = "passed" /\ f \notin Filtered)
    BY <1>1 DEF FilesInv, NothingLost, Excused
  <2>2. InHand = {} /\ committer.out \subseteq gone
    BY <1>1 DEF InHand, At, FilesInv, JobsHaveFiles
  <2>3. CASE f \in dropped[m]
    BY <1>1, <2>2, <2>3 DEF Somewhere, Excused
  <2>4. \A k \in Modules \ {m} : dropped'[k] = dropped[k]
    BY <1>1, <1>2 DEF Types, DiskTypes
  <2> QED
    BY <1>1, <2>1, <2>2, <2>3, <2>4 DEF Somewhere
<1> QED
  BY <1>4, <1>5, <1>6

LEMMA AnnounceFiles ==
  ASSUME FilesInv, Announce
  PROVE  MergesAway' /\ DeliveredStays' /\ JobsHaveFiles' /\ NothingLost'
<1>1. committer.at = "announce" /\ committer' = Resting /\ UNCHANGED <<disk, lost, torn, main>>
  BY DEF Announce, At, history
<1>2. committer'.at = "idle"
  BY <1>1, RestingType
<1>3. MergesAway' /\ DeliveredStays' /\ JobsHaveFiles'
  BY <1>1, <1>2 DEF FilesInv, MergesAway, DeliveredStays, Delivering, JobsHaveFiles, disk
<1>4. InHand \subseteq InHand'
  BY <1>1 DEF InHand, At
<1> QED
  BY <1>1, <1>3, <1>4, QuietCommitFiles DEF disk

LEMMA CommitKeepsFiles ==
  FilesInv /\ CommitStep => MergesAway' /\ DeliveredStays' /\ JobsHaveFiles' /\ NothingLost'
BY FetchFiles, ReadDraftsFiles, ValidateFiles, DeliverReadFiles, DeliverWriteFiles,
   ReadParentFiles, WriteParentFiles, CleanFiles, AnnounceFiles DEF CommitStep

LEMMA MainKeepsFiles ==
  FilesInv /\ MainStep => MergesAway' /\ DeliveredStays' /\ JobsHaveFiles' /\ NothingLost'
<1> SUFFICES ASSUME FilesInv, MainStep
             PROVE  MergesAway' /\ DeliveredStays' /\ JobsHaveFiles' /\ NothingLost'
  OBVIOUS
<1>1. UNCHANGED <<into, dropped, gone, committer, history>> /\ main # "passed" /\ Types
  BY DEF MainStep, Join, StopWorkers, StopCommitter, Collect, CheckAll, disk, FilesInv, RefineInv
<1>2. CASE UNCHANGED list
  BY <1>1, <1>2, WorkerFiles DEF Taken, Excused, history, FilesInv, MergesAway
<1>3. CASE CheckAll /\ main' = "passed"
  <2>1. main = "check"
    BY <1>3 DEF CheckAll
  <2>2. committer.at = "stopped"
    BY <2>1 DEF FilesInv, RefineInv, StopIsLast
  <2>3. MergesAway' /\ DeliveredStays' /\ JobsHaveFiles'
    BY <1>1, <2>2 DEF FilesInv, MergesAway, DeliveredStays, Delivering, JobsHaveFiles
  <2>4. \A n \in Modules : list[n] \cap Filtered \subseteq list'[n]
    BY <1>1, <1>3 DEF CheckAll, Types, DiskTypes
  <2>5. NothingLost'
    <3> SUFFICES ASSUME NEW f \in Files, f \notin Excused, f \in Filtered
                 PROVE  Somewhere(f)'
      BY <1>1, <1>3 DEF NothingLost, Excused, history
    <3>1. Somewhere(f) /\ InHand = {}
      BY <1>1, <2>2 DEF FilesInv, NothingLost, Excused, InHand, At
    <3> QED
      BY <1>1, <2>4, <3>1 DEF Somewhere
  <2> QED
    BY <2>3, <2>5
<1>4. UNCHANGED list \/ (CheckAll /\ main' = "passed")
  BY DEF MainStep, Join, StopWorkers, StopCommitter, Collect, CheckAll, disk
<1> QED
  BY <1>2, <1>3, <1>4

LEMMA FilesInvAlways ==
  ASSUME Files = UNION {Start[m] : m \in Modules}
  PROVE  Spec => []FilesInv
<1>1. Init => FilesInv
  <2> SUFFICES ASSUME Init PROVE FilesInv
    OBVIOUS
  <2>1. committer.at = "idle"
    BY RestingType DEF Init
  <2>2. MergesAway /\ DeliveredStays /\ JobsHaveFiles
    BY <2>1 DEF Init, MergesAway, NoFiles, DeliveredStays, Delivering, JobsHaveFiles
  <2>3. NothingLost
    BY DEF Init, NothingLost, Somewhere
  <2> QED
    BY <2>2, <2>3, RefineInit DEF FilesInv
<1>2. FilesInv /\ [Next]_vars => FilesInv'
  <2> SUFFICES ASSUME FilesInv, [Next]_vars PROVE FilesInv'
    OBVIOUS
  <2>1. RefineInv'
    BY RefineStep DEF FilesInv
  <2>2. ASSUME UNCHANGED vars
        PROVE  MergesAway' /\ DeliveredStays' /\ JobsHaveFiles' /\ NothingLost'
    BY <2>2 DEF vars, disk, threads, history, FilesInv, MergesAway, DeliveredStays, Delivering, Done,
                Away, Excused, JobsHaveFiles, FilesOf, NothingLost, Somewhere, InHand, At
  <2>3. MergesAway' /\ DeliveredStays' /\ JobsHaveFiles' /\ NothingLost'
    BY <2>2, WorkersKeepFiles, CommitKeepsFiles, MainKeepsFiles DEF Next, Ended
  <2> QED
    BY <2>1, <2>3 DEF FilesInv
<1> QED
  BY <1>1, <1>2, PTL DEF Spec

\* If every file is in a module at the start, then whatever the agents plan and however
\* their work, the verdicts and the steps of the commits are interleaved, a file is in a
\* module, marked as deleted there, deleted, or on its way, unless an agent dropped it or
\* a write of the stage took it from its last place without knowing of it.
THEOREM FilesAreKept ==
  ASSUME Files = UNION {Start[m] : m \in Modules}
  PROVE  Spec => []NothingLost
<1>1. FilesInv => NothingLost
  BY DEF FilesInv
<1> QED
  BY <1>1, FilesInvAlways, PTL
=============================================================================
