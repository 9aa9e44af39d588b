------------------------- MODULE ControlPlaneProofs -------------------------
(***************************************************************************)
(* Proofs about ControlPlane, for any finite set of tasks, any runners and *)
(* any numbers of connections, claims, faults and API calls.               *)
(***************************************************************************)
EXTENDS ControlPlane, FiniteSetTheorems, SequenceTheorems, TLAPS

-----------------------------------------------------------------------------
(* Queues: sequences of tasks that hold each task once.                    *)

DistinctQueue == {q \in Seq(Tasks) : IsInjective(q)}

LEMMA Elements ==
  ASSUME NEW S, NEW q \in Seq(S)
  PROVE  /\ Len(q) \in Nat /\ DOMAIN q = 1 .. Len(q)
         /\ \A i \in 1 .. Len(q) : q[i] \in S
         /\ \A x : x \in ToSet(q) <=> \E i \in 1 .. Len(q) : q[i] = x
         /\ ToSet(q) \subseteq S
<1>1. Len(q) \in Nat /\ DOMAIN q = 1 .. Len(q) /\ \A i \in 1 .. Len(q) : q[i] \in S
  OBVIOUS
<1> QED
  BY <1>1 DEF ToSet

LEMMA EmptyDistinct == <<>> \in DistinctQueue /\ ToSet(<<>>) = {}
BY DEF DistinctQueue, IsInjective, ToSet

LEMMA OneDistinct ==
  ASSUME NEW t \in Tasks PROVE <<t>> \in DistinctQueue /\ ToSet(<<t>>) = {t}
<1>1. <<t>> \in Seq(Tasks) /\ DOMAIN <<t>> = {1} /\ <<t>>[1] = t
  OBVIOUS
<1> QED
  BY <1>1 DEF DistinctQueue, IsInjective, ToSet

LEMMA JoinDistinct ==
  ASSUME NEW q \in DistinctQueue, NEW s \in DistinctQueue, ToSet(q) \cap ToSet(s) = {}
  PROVE  q \o s \in DistinctQueue /\ ToSet(q \o s) = ToSet(q) \cup ToSet(s)
<1>1. /\ q \o s \in Seq(Tasks) /\ Len(q \o s) = Len(q) + Len(s)
      /\ \A i \in 1 .. Len(q) + Len(s) :
           (q \o s)[i] = IF i <= Len(q) THEN q[i] ELSE s[i - Len(q)]
  BY ConcatProperties DEF DistinctQueue
<1>2. /\ Len(q) \in Nat /\ DOMAIN q = 1 .. Len(q)
      /\ Len(s) \in Nat /\ DOMAIN s = 1 .. Len(s)
      /\ DOMAIN (q \o s) = 1 .. Len(q) + Len(s)
  BY <1>1, Elements DEF DistinctQueue
<1>3. \A i \in 1 .. Len(q) + Len(s) : i > Len(q) => i - Len(q) \in 1 .. Len(s)
  BY <1>2
<1>4. \A i \in 1 .. Len(q) + Len(s) : i <= Len(q) => i \in 1 .. Len(q)
  BY <1>2
<1>5. ASSUME NEW i \in 1 .. Len(q), NEW j \in 1 .. Len(s) PROVE q[i] # s[j]
  BY <1>2 DEF ToSet
<1>6. ASSUME NEW i \in 1 .. Len(q) + Len(s), NEW j \in 1 .. Len(q) + Len(s),
             (q \o s)[i] = (q \o s)[j]
      PROVE  i = j
  <2>1. CASE i <= Len(q) /\ j <= Len(q)
    BY <1>1, <1>2, <1>4, <1>6, <2>1 DEF DistinctQueue, IsInjective
  <2>2. CASE i > Len(q) /\ j > Len(q)
    <3>1. s[i - Len(q)] = s[j - Len(q)]
      BY <1>1, <1>2, <1>6, <2>2
    <3>2. i - Len(q) = j - Len(q)
      BY <1>2, <1>3, <2>2, <3>1 DEF DistinctQueue, IsInjective
    <3> QED
      BY <1>2, <3>2
  <2>3. CASE i <= Len(q) /\ j > Len(q)
    BY <1>1, <1>2, <1>3, <1>4, <1>5, <1>6, <2>3
  <2>4. CASE i > Len(q) /\ j <= Len(q)
    BY <1>1, <1>2, <1>3, <1>4, <1>5, <1>6, <2>4
  <2> QED
    BY <1>2, <2>1, <2>2, <2>3, <2>4
<1>7. ToSet(q \o s) \subseteq ToSet(q) \cup ToSet(s)
  <2> SUFFICES ASSUME NEW i \in 1 .. Len(q) + Len(s)
               PROVE  (q \o s)[i] \in ToSet(q) \cup ToSet(s)
    BY <1>2 DEF ToSet
  <2>1. CASE i <= Len(q)
    BY <1>1, <1>2, <1>4, <2>1 DEF ToSet
  <2>2. CASE i > Len(q)
    BY <1>1, <1>2, <1>3, <2>2 DEF ToSet
  <2> QED
    BY <1>2, <2>1, <2>2
<1>8. \A i \in 1 .. Len(q) : i \in 1 .. Len(q) + Len(s) /\ (q \o s)[i] = q[i]
  BY <1>1, <1>2
<1>9. \A i \in 1 .. Len(s) : /\ Len(q) + i \in 1 .. Len(q) + Len(s)
                             /\ (q \o s)[Len(q) + i] = s[i]
  BY <1>1, <1>2
<1>10. ToSet(q) \cup ToSet(s) \subseteq ToSet(q \o s)
  BY <1>2, <1>8, <1>9 DEF ToSet
<1> QED
  BY <1>1, <1>2, <1>6, <1>7, <1>10 DEF DistinctQueue, IsInjective

LEMMA AppendDistinct ==
  ASSUME NEW q \in DistinctQueue, NEW t \in Tasks, t \notin ToSet(q)
  PROVE  Append(q, t) \in DistinctQueue /\ ToSet(Append(q, t)) = ToSet(q) \cup {t}
<1>1. Append(q, t) = q \o <<t>>
  BY AppendIsConcat DEF DistinctQueue
<1> QED
  BY <1>1, OneDistinct, JoinDistinct

LEMMA SliceDistinct ==
  ASSUME NEW q \in DistinctQueue, NEW m \in Nat \ {0}, NEW n \in Nat, n <= Len(q)
  PROVE  /\ SubSeq(q, m, n) \in DistinctQueue
         /\ ToSet(SubSeq(q, m, n)) = {q[i] : i \in m .. n}
<1>1. /\ Len(q) \in Nat /\ DOMAIN q = 1 .. Len(q) /\ \A i \in 1 .. Len(q) : q[i] \in Tasks
      /\ \A i \in m .. n : i \in 1 .. Len(q)
  BY Elements DEF DistinctQueue
<1>2. /\ SubSeq(q, m, n) \in Seq(Tasks)
      /\ Len(SubSeq(q, m, n)) = IF m <= n THEN n - m + 1 ELSE 0
      /\ \A i \in 1 .. n - m + 1 : SubSeq(q, m, n)[i] = q[m + i - 1]
  BY <1>1, SubSeqProperties
<1>3. DOMAIN SubSeq(q, m, n) = 1 .. n - m + 1
  BY <1>2, Elements
<1>4. \A i \in 1 .. n - m + 1 : m + i - 1 \in m .. n
  OBVIOUS
<1>5. \A i, j \in DOMAIN SubSeq(q, m, n) : SubSeq(q, m, n)[i] = SubSeq(q, m, n)[j] => i = j
  <2> SUFFICES ASSUME NEW i \in 1 .. n - m + 1, NEW j \in 1 .. n - m + 1,
                      SubSeq(q, m, n)[i] = SubSeq(q, m, n)[j]
               PROVE  i = j
    BY <1>3
  <2>1. q[m + i - 1] = q[m + j - 1]
    BY <1>2
  <2>2. m + i - 1 = m + j - 1
    BY <1>1, <1>4, <2>1 DEF DistinctQueue, IsInjective
  <2> QED
    BY <2>2
<1>6. ToSet(SubSeq(q, m, n)) \subseteq {q[i] : i \in m .. n}
  BY <1>2, <1>3, <1>4 DEF ToSet
<1>7. \A i \in m .. n : i - m + 1 \in 1 .. n - m + 1 /\ m + (i - m + 1) - 1 = i
  OBVIOUS
<1>8. {q[i] : i \in m .. n} \subseteq ToSet(SubSeq(q, m, n))
  <2> SUFFICES ASSUME NEW i \in m .. n PROVE q[i] \in ToSet(SubSeq(q, m, n))
    OBVIOUS
  <2>1. SubSeq(q, m, n)[i - m + 1] = q[i]
    BY <1>2, <1>7
  <2> QED
    BY <1>3, <1>7, <2>1 DEF ToSet
<1> QED
  BY <1>2, <1>5, <1>6, <1>8 DEF DistinctQueue, IsInjective

\* What is left when the i-th task leaves the queue, in either order of the two parts.
LEMMA CutDistinct ==
  ASSUME NEW q \in DistinctQueue, NEW i \in DOMAIN q
  PROVE  LET a == SubSeq(q, 1, i - 1)
             b == SubSeq(q, i + 1, Len(q))
         IN  /\ a \o b \in DistinctQueue /\ ToSet(a \o b) = ToSet(q) \ {q[i]}
             /\ b \o a \in DistinctQueue /\ ToSet(b \o a) = ToSet(q) \ {q[i]}
<1> DEFINE a == SubSeq(q, 1, i - 1)
           b == SubSeq(q, i + 1, Len(q))
<1>1. Len(q) \in Nat /\ DOMAIN q = 1 .. Len(q) /\ i \in Nat \ {0} /\ i <= Len(q)
  BY Elements DEF DistinctQueue
<1>2. a \in DistinctQueue /\ ToSet(a) = {q[j] : j \in 1 .. i - 1}
  <2>1. 1 \in Nat \ {0} /\ i - 1 \in Nat /\ i - 1 <= Len(q)
    BY <1>1
  <2> HIDE DEF a
  <2> QED
    BY <2>1, SliceDistinct DEF a
<1>3. b \in DistinctQueue /\ ToSet(b) = {q[j] : j \in i + 1 .. Len(q)}
  <2>1. i + 1 \in Nat \ {0} /\ Len(q) \in Nat /\ Len(q) <= Len(q)
    BY <1>1
  <2> HIDE DEF b
  <2> QED
    BY <2>1, SliceDistinct DEF b
<1>4. \A j, k \in 1 .. Len(q) : q[j] = q[k] => j = k
  BY <1>1 DEF DistinctQueue, IsInjective
<1>5. \A j \in 1 .. i - 1 : j \in 1 .. Len(q) /\ j # i /\ j \notin i + 1 .. Len(q)
  BY <1>1
<1>6. \A j \in i + 1 .. Len(q) : j \in 1 .. Len(q) /\ j # i
  BY <1>1
<1>7. \A j \in 1 .. Len(q) : j = i \/ j \in 1 .. i - 1 \/ j \in i + 1 .. Len(q)
  BY <1>1
<1>8. ToSet(a) \cap ToSet(b) = {}
  BY <1>2, <1>3, <1>4, <1>5, <1>6
<1>9. ToSet(a) \cup ToSet(b) = ToSet(q) \ {q[i]}
  <2>1. ToSet(q) = {q[j] : j \in 1 .. Len(q)}
    BY <1>1 DEF ToSet
  <2>2. ASSUME NEW x \in ToSet(a) \cup ToSet(b) PROVE x \in ToSet(q) \ {q[i]}
    BY <1>1, <1>2, <1>3, <1>4, <1>5, <1>6, <2>1
  <2>3. ASSUME NEW x \in ToSet(q) \ {q[i]} PROVE x \in ToSet(a) \cup ToSet(b)
    <3>1. PICK j \in 1 .. Len(q) : x = q[j]
      BY <2>1
    <3> QED
      BY <1>2, <1>3, <1>7, <3>1
  <2> QED
    BY <2>2, <2>3
<1> HIDE DEF a, b
<1>10. a \o b \in DistinctQueue /\ ToSet(a \o b) = ToSet(q) \ {q[i]}
  BY <1>2, <1>3, <1>8, <1>9, JoinDistinct
<1>11. b \o a \in DistinctQueue /\ ToSet(b \o a) = ToSet(q) \ {q[i]}
  BY <1>2, <1>3, <1>8, <1>9, JoinDistinct
<1> QED
  BY <1>10, <1>11 DEF a, b

LEMMA FirstIsIn ==
  ASSUME NEW I \in SUBSET Nat, I # {}
  PROVE  First(I) \in I
<1> DEFINE less == {p \in Nat \X Nat : p[1] < p[2]}
<1>1. IsWellFoundedOn(less, Nat)
  BY NatLessThanWellFounded DEF OpToRel
<1>2. \E i \in I : \A j \in I : <<j, i>> \notin less
  <2> HIDE DEF less
  <2> QED
    BY <1>1, WFMin
<1>3. \E i \in I : \A j \in I : i <= j
  <2>1. PICK i \in I : \A j \in I : <<j, i>> \notin less
    BY <1>2
  <2>2. ASSUME NEW j \in I PROVE i <= j
    <3>1. i \in Nat /\ j \in Nat /\ ~ (j < i)
      BY <2>1
    <3> QED
      BY <3>1
  <2> QED
    BY <2>2
<1> QED
  BY <1>3 DEF First

LEMMA RemovedDistinct ==
  ASSUME queue \in DistinctQueue, NEW t
  PROVE  Removed(t) \in DistinctQueue /\ ToSet(Removed(t)) = ToSet(queue) \ {t}
<1>1. CASE ~ Queued(t)
  BY <1>1 DEF Removed, Queued
<1>2. CASE Queued(t)
  <2> DEFINE I == {j \in DOMAIN queue : queue[j] = t}
             i == First(I)
  <2>1. DOMAIN queue \subseteq Nat /\ I # {}
    BY <1>2, Elements DEF Queued, ToSet, DistinctQueue
  <2>2. i \in I
    BY <2>1, FirstIsIn
  <2>3. Removed(t) = SubSeq(queue, 1, i - 1) \o SubSeq(queue, i + 1, Len(queue))
    BY <1>2 DEF Removed, RemoveAt
  <2> HIDE DEF i
  <2> QED
    BY <2>2, <2>3, CutDistinct
<1> QED
  BY <1>1, <1>2

LEMMA OrderedDistinct ==
  ASSUME NEW S \in SUBSET Tasks
  PROVE  SetToSeq(S) \in DistinctQueue /\ ToSet(SetToSeq(S)) = S
<1> DEFINE D == 1 .. Cardinality(S)
           s == SetToSeq(S)
<1>1. IsFiniteSet(S)
  BY NetAssumption, FS_Subset
<1>2. Cardinality(S) \in Nat /\ ExistsBijection(D, S)
  BY <1>1, FS_CardinalityType
<1>3. \E f \in [D -> S] : IsInjective(f)
  BY <1>2 DEF ExistsBijection, Bijection, Injection
<1>4. s \in [D -> S] /\ IsInjective(s)
  BY <1>3 DEF SetToSeq
<1> HIDE DEF s
<1>5. s \in Injection(D, S)
  BY <1>4 DEF Injection
<1>6. IsFiniteSet(D) /\ Cardinality(D) = Cardinality(S)
  BY <1>2, FS_Interval
<1>7. s \in Surjection(D, S)
  BY <1>1, <1>5, <1>6, FS_Injection
<1>8. \A x \in S : \E i \in D : s[i] = x
  BY <1>7 DEF Surjection
<1>9. DOMAIN s = D /\ s \in Seq(Tasks)
  BY <1>2, <1>4
<1> QED
  BY <1>4, <1>8, <1>9 DEF ToSet, DistinctQueue, s

-----------------------------------------------------------------------------
(* The inductive invariant, one part for each group of variables: types,   *)
(* and that whoever is at work knows what it works on.                     *)

\* Claims are paid for by the budget, so epochs stay within their bound.
RowsOK ==
  /\ row \in [Tasks -> Row] /\ budget \in Budgets
  /\ \A t \in Tasks : row[t].epoch + budget.claim <= MaxClaims

ChanOK == chan \in [Conns -> Conn]

\* The queue in the state file may be loaded again.
QueueOK == queue \in DistinctQueue /\ saved \in [queue : DistinctQueue, run : [Tasks -> Record]]

TablesOK ==
  /\ run \in [Tasks -> Record] /\ slot \in [Workers -> Slot]
  /\ counts \in [Tasks -> Nat] /\ soft \in [Tasks -> Nat] /\ cooling \in [Tasks -> BOOLEAN]
  /\ refusals \in [Tasks -> Nat]

DispatchType == [pc : {"idle", "assign", "claim", "send", "undo"}, task : Tasks \cup {None},
                 worker : Workers \cup {None}, conn : 0 .. MaxConn, epoch : 0 .. MaxClaims]
DispatchOK ==
  /\ dispatch \in DispatchType
  /\ dispatch.pc # "idle" => dispatch.task \in Tasks /\ dispatch.worker \in Workers
  /\ dispatch.pc = "send" => dispatch.epoch \in 1 .. MaxClaims
  /\ given \subseteq (Tasks \X (1 .. MaxClaims) \X Workers)

LoopOK ==
  /\ loop \in [Loops -> Loop]
  /\ \A l \in Loops : loop[l].pc \in {"append", "cool", "fail"} => loop[l].task \in Tasks

ServeOK ==
  /\ serve \in [Conns -> Serve]
  /\ \A c \in Conns : serve[c].pc \notin {"new", "read", "ended"} => serve[c].task \in Tasks

ManagerOK == RowsOK /\ ChanOK /\ QueueOK /\ TablesOK /\ DispatchOK /\ LoopOK /\ ServeOK

ControlOK ==
  /\ wc \in [Workers -> Control]
  /\ \A w \in Workers : /\ wc[w].pc \in {"spawn", "kill"} => wc[w].task \in Tasks
                        /\ wc[w].pc = "spawn" => wc[w].epoch \in 1 .. MaxClaims

\* A task process is that of _current, and there is no other.
ProcessOK ==
  /\ procs \subseteq Process /\ begun \subseteq (Tasks \X (1 .. MaxClaims) \X Workers)
  /\ \A p \in procs : /\ wc[p.worker].pc # "spawn"
                      /\ wc[p.worker].task = p.task /\ wc[p.worker].epoch = p.epoch
  /\ OneProcess

ApiOK ==
  /\ api \in [pc : {"idle", "stop", "cancel", "finalize", "end", "reset", "requeue", "restart",
                    "drop", "delete", "kill"},
              task : Tasks \cup {None}, owned : BOOLEAN]
  /\ api.pc # "idle" => api.task \in Tasks

PlaneInv == ManagerOK /\ ControlOK /\ ProcessOK /\ ApiOK

-----------------------------------------------------------------------------
(* What the writers of rows and the senders of messages keep.              *)

Kinds == {"claim", "drop", "crash", "die", "refuse", "restart", "late", "slow", "db", "submit",
          "cancel", "rerun", "delete"}

LEMMA SpendOK ==
  ASSUME RowsOK, NEW k \in Kinds, Spend(k)
  PROVE  /\ budget' \in Budgets /\ budget'.claim <= budget.claim
         /\ k = "claim" => budget'.claim = budget.claim - 1
<1>1. /\ budget[k] > 0 /\ budget' = [budget EXCEPT ![k] = budget[k] - 1] /\ MaxClaims \in Nat
      /\ budget \in Budgets
  BY NetAssumption DEF Spend, RowsOK
<1> QED
  BY <1>1 DEF Budgets, Kinds

\* A row is written, the epoch kept, and claims are not given back.
LEMMA RowWritten ==
  ASSUME RowsOK, NEW t, NEW r, t \in Tasks => r \in Row /\ r.epoch = row[t].epoch,
         row' = [row EXCEPT ![t] = r],
         budget' \in Budgets, budget'.claim <= budget.claim
  PROVE  RowsOK'
<1>1. row' \in [Tasks -> Row] /\ \A x \in Tasks : row'[x].epoch = row[x].epoch
  BY DEF RowsOK
<1>2. \A x \in Tasks : row[x].epoch \in Nat /\ budget.claim \in Nat /\ budget'.claim \in Nat
  BY NetAssumption DEF RowsOK, Row, Budgets
<1> QED
  BY <1>1, <1>2, NetAssumption DEF RowsOK

LEMMA RowsKept ==
  ASSUME RowsOK, row' = row, budget' \in Budgets, budget'.claim <= budget.claim
  PROVE  RowsOK'
<1>1. \A x \in Tasks : row[x].epoch \in Nat /\ budget.claim \in Nat /\ budget'.claim \in Nat
  BY NetAssumption DEF RowsOK, Row, Budgets
<1> QED
  BY <1>1, NetAssumption DEF RowsOK

LEMMA SpentRows ==
  ASSUME RowsOK, NEW k \in Kinds, Spend(k), row' = row PROVE RowsOK'
BY SpendOK, RowsKept

LEMMA RequeuedRow ==
  ASSUME RowsOK, NEW t, RequeueRow(t) \/ RequeueFails PROVE RowsOK'
<1>1. CASE RequeueRow(t)
  <2>1. t \in Tasks => Requeued(row[t]) \in Row /\ Requeued(row[t]).epoch = row[t].epoch
    BY DEF RowsOK, Row, Requeued, Active, Terminal
  <2>2. budget' \in Budgets /\ budget'.claim <= budget.claim
    BY <1>1, NetAssumption DEF RequeueRow, RowsOK, Budgets
  <2>3. row' = [row EXCEPT ![t] = Requeued(row[t])]
    BY <1>1 DEF RequeueRow
  <2> QED
    BY <2>1, <2>2, <2>3, RowWritten
<1>2. CASE RequeueFails
  BY <1>2, SpentRows DEF RequeueFails, Kinds
<1> QED
  BY <1>1, <1>2

LEMMA FinalizedRow ==
  ASSUME RowsOK, NEW t, NEW s \in Reports, FinalizeRow(t, s) PROVE RowsOK'
<1>1. CASE row' = [row EXCEPT ![t].status = Outcome(s)] /\ UNCHANGED budget
  <2> DEFINE r == [row[t] EXCEPT !.status = Outcome(s)]
  <2>1. t \in Tasks => r \in Row /\ r.epoch = row[t].epoch
    BY DEF RowsOK, Row, Outcome, Active, Terminal, Reports
  <2>2. budget' \in Budgets /\ budget'.claim <= budget.claim
    BY <1>1, NetAssumption DEF RowsOK, Budgets
  <2>3. row' = [row EXCEPT ![t] = r]
    BY <1>1
  <2> HIDE DEF r
  <2> QED
    BY <2>1, <2>2, <2>3, RowWritten
<1>2. CASE Spend("db") /\ UNCHANGED row
  BY <1>2, SpentRows DEF Kinds
<1> QED
  BY <1>1, <1>2 DEF FinalizeRow

LEMMA ClearedCounts ==
  ASSUME TablesOK, NEW t, ClearCounts(t)
  PROVE  counts' \in [Tasks -> Nat] /\ soft' \in [Tasks -> Nat] /\ cooling' \in [Tasks -> BOOLEAN]
BY DEF TablesOK, ClearCounts

LEMMA MessageTypes ==
  /\ Hello \in UpMsg
  /\ \A t \in Tasks, s \in Reports : State(t, s) \in UpMsg
  /\ \A t \in Tasks, e \in 1 .. MaxClaims : RunCmd(t, e) \in DownMsg
  /\ \A t \in Tasks : CancelCmd(t) \in DownMsg
  /\ \A m \in UpMsg : m.type = "state" => m.task \in Tasks /\ m.state \in Reports
  /\ \A m \in DownMsg : /\ m.task \in Tasks
                        /\ m.type = "run" => m.epoch \in 1 .. MaxClaims /\ m = RunCmd(m.task, m.epoch)
                        /\ m.type # "run" => m = CancelCmd(m.task)
<1>1. Hello \in UpMsg /\ \A t \in Tasks, s \in Reports : State(t, s) \in UpMsg
  BY DEF UpMsg
<1>2. /\ \A t \in Tasks, e \in 1 .. MaxClaims : RunCmd(t, e) \in DownMsg
      /\ \A t \in Tasks : CancelCmd(t) \in DownMsg
  BY DEF DownMsg
<1>3. ASSUME NEW m \in UpMsg, m.type = "state" PROVE m.task \in Tasks /\ m.state \in Reports
  <2>1. m # Hello
    BY <1>3 DEF Hello
  <2>2. PICK t \in Tasks, s \in Reports : m = State(t, s)
    BY <2>1 DEF UpMsg
  <2> QED
    BY <2>2 DEF State
<1>4. ASSUME NEW m \in DownMsg
      PROVE  /\ m.task \in Tasks
             /\ m.type = "run" => m.epoch \in 1 .. MaxClaims /\ m = RunCmd(m.task, m.epoch)
             /\ m.type # "run" => m = CancelCmd(m.task)
  <2>1. CASE \E t \in Tasks, e \in 1 .. MaxClaims : m = RunCmd(t, e)
    <3>1. PICK t \in Tasks, e \in 1 .. MaxClaims : m = RunCmd(t, e)
      BY <2>1
    <3>2. m.task = t /\ m.epoch = e /\ m.type = "run"
      BY <3>1 DEF RunCmd
    <3> QED
      BY <3>1, <3>2
  <2>2. CASE \E t \in Tasks : m = CancelCmd(t)
    <3>1. PICK t \in Tasks : m = CancelCmd(t)
      BY <2>2
    <3>2. m.task = t /\ m.type = "cancel"
      BY <3>1 DEF CancelCmd
    <3> QED
      BY <3>1, <3>2
  <2> QED
    BY <2>1, <2>2 DEF DownMsg
<1> QED
  BY <1>1, <1>2, <1>3, <1>4

LEMMA SentDown ==
  ASSUME ChanOK, NEW c, NEW m \in DownMsg, PushDown(c, m) PROVE ChanOK'
<1> SUFFICES ASSUME NEW d \in Conns PROVE chan'[d] \in Conn
  BY DEF ChanOK, PushDown
<1>1. CASE d # c
  BY <1>1 DEF ChanOK, PushDown
<1>2. CASE d = c
  <2>1. chan[d] \in Conn /\ chan[d].down \in Seq(DownMsg)
    BY DEF ChanOK, Conn
  <2>2. chan'[d] = [chan[d] EXCEPT !.down = IF chan[d].open THEN Append(chan[d].down, m)
                                            ELSE chan[d].down]
    BY <1>2 DEF ChanOK, PushDown
  <2>3. Append(chan[d].down, m) \in Seq(DownMsg)
    BY <2>1
  <2> QED
    BY <2>1, <2>2, <2>3 DEF Conn
<1> QED
  BY <1>1, <1>2

LEMMA SentUp ==
  ASSUME ChanOK, NEW c, NEW m \in UpMsg, PushUp(c, m) PROVE ChanOK'
<1> SUFFICES ASSUME NEW d \in Conns PROVE chan'[d] \in Conn
  BY DEF ChanOK, PushUp
<1>1. CASE d # c
  BY <1>1 DEF ChanOK, PushUp
<1>2. CASE d = c
  <2>1. chan[d] \in Conn /\ chan[d].up \in Seq(UpMsg)
    BY DEF ChanOK, Conn
  <2>2. chan'[d] = [chan[d] EXCEPT !.up = IF chan[d].open THEN Append(chan[d].up, m)
                                          ELSE chan[d].up]
    BY <1>2 DEF ChanOK, PushUp
  <2>3. Append(chan[d].up, m) \in Seq(UpMsg)
    BY <2>1
  <2> QED
    BY <2>1, <2>2, <2>3 DEF Conn
<1> QED
  BY <1>1, <1>2

-----------------------------------------------------------------------------
(* The dispatch thread.                                                    *)

LEMMA RecordTypes ==
  /\ NoRecord \in Record /\ \A w \in Workers : [worker |-> w, old |-> FALSE] \in Record
  /\ NoSlot \in Slot /\ NoDispatch \in DispatchType /\ NoDispatch.pc = "idle"
  /\ IdleLoop \in Loop /\ IdleLoop.pc = "idle" /\ Reading \in Serve /\ Reading.pc = "read"
  /\ Fresh \in Serve /\ Fresh.pc = "new"
  /\ NoConn \in Conn
BY NetAssumption DEF NoRecord, Record, NoSlot, Slot, NoDispatch, DispatchType, IdleLoop, Loop,
                     Reading, Fresh, Serve, Reports, NoConn, Conn

LEMMA SlotTypes ==
  ASSUME NEW s \in Slot
  PROVE  /\ s.obj \in 0 .. MaxConn /\ s.current \in Tasks \cup {None}
         /\ \A t \in Tasks \cup {None} : [s EXCEPT !.current = t] \in Slot
         /\ \A t \in Tasks \cup {None} : [s EXCEPT !.current = t, !.late = 0] \in Slot
         /\ \A b \in BOOLEAN, t \in Tasks \cup {None} : [s EXCEPT !.online = b, !.current = t] \in Slot
         /\ [s EXCEPT !.online = FALSE, !.sock = FALSE] \in Slot
         /\ \A t : Vacated(s, t) \in Slot
<1>1. s.obj \in 0 .. MaxConn /\ s.current \in Tasks \cup {None}
  BY DEF Slot
<1>2. \A t \in Tasks \cup {None} : [s EXCEPT !.current = t] \in Slot
  BY DEF Slot
<1>3. \A t \in Tasks \cup {None} : [s EXCEPT !.current = t, !.late = 0] \in Slot
  BY DEF Slot
<1>4. [s EXCEPT !.online = FALSE, !.sock = FALSE] \in Slot
  BY DEF Slot
<1>5. \A b \in BOOLEAN, t \in Tasks \cup {None} : [s EXCEPT !.online = b, !.current = t] \in Slot
  BY DEF Slot
<1>6. \A t : Vacated(s, t) \in Slot
  BY <1>1, <1>2 DEF Vacated
<1> QED
  BY <1>1, <1>2, <1>3, <1>4, <1>5, <1>6

LEMMA PickKept == ManagerOK /\ DispatchPick => ManagerOK'
<1> SUFFICES ASSUME ManagerOK, DispatchPick PROVE ManagerOK'
  OBVIOUS
<1> DEFINE ready == {j \in DOMAIN queue : ~ cooling[queue[j]]}
           i == First(ready)
<1>1. /\ dispatch.pc = "idle" /\ ready # {}
      /\ queue' = SubSeq(queue, i + 1, Len(queue)) \o SubSeq(queue, 1, i - 1)
      /\ UNCHANGED <<shared, run, slot, counts, soft, cooling, loop, serve, saved, history>>
      /\ queue \in DistinctQueue /\ slot \in [Workers -> Slot]
  <2>1. /\ dispatch.pc = "idle" /\ ready # {}
        /\ queue' = SubSeq(queue, i + 1, Len(queue)) \o SubSeq(queue, 1, i - 1)
        /\ UNCHANGED <<shared, run, slot, counts, soft, cooling, loop, serve, saved, history>>
    BY Zenon DEF DispatchPick
  <2>2. queue \in DistinctQueue /\ slot \in [Workers -> Slot]
    BY DEF ManagerOK, QueueOK, TablesOK
  <2> HIDE DEF ready, i
  <2> QED
    BY <2>1, <2>2
<1>2. PICK w \in Workers :
        dispatch' = [NoDispatch EXCEPT !.pc = "assign", !.task = queue[i],
                                       !.worker = w, !.conn = slot[w].obj]
  BY Zenon DEF DispatchPick
<1>3. DOMAIN queue \subseteq Nat
  BY <1>1, Elements DEF DistinctQueue
<1>4. i \in DOMAIN queue
  BY <1>1, <1>3, FirstIsIn
<1> HIDE DEF i
<1>5. queue' \in DistinctQueue /\ queue[i] \in Tasks
  BY <1>1, <1>4, CutDistinct, Elements DEF DistinctQueue
<1>6. dispatch' \in DispatchType /\ dispatch'.task \in Tasks /\ dispatch'.worker = w
      /\ dispatch'.pc = "assign"
  <2>1. dispatch' = [pc |-> "assign", task |-> queue[i], worker |-> w, conn |-> slot[w].obj,
                     epoch |-> 0]
    BY <1>2 DEF NoDispatch
  <2>2. slot[w] \in Slot
    BY <1>1
  <2>3. slot[w].obj \in 0 .. MaxConn
    BY <2>2, SlotTypes
  <2>4. 0 \in 0 .. MaxClaims
    BY NetAssumption
  <2> QED
    BY <1>5, <2>1, <2>3, <2>4 DEF DispatchType
<1> QED
  BY <1>1, <1>5, <1>6 DEF ManagerOK, RowsOK, ChanOK, QueueOK, TablesOK, DispatchOK, LoopOK,
                          ServeOK, shared, history

LEMMA AssignKept == ManagerOK /\ DispatchAssign => ManagerOK'
<1> SUFFICES ASSUME ManagerOK, DispatchAssign PROVE ManagerOK'
  OBVIOUS
<1> DEFINE t == dispatch.task
           w == dispatch.worker
<1>1. /\ dispatch.pc = "assign" /\ dispatch \in DispatchType /\ t \in Tasks /\ w \in Workers
      /\ slot \in [Workers -> Slot] /\ run \in [Tasks -> Record]
      /\ UNCHANGED <<row, chan, queue, counts, soft, cooling, loop, serve, saved, history>>
  BY DEF DispatchAssign, ManagerOK, DispatchOK, TablesOK
<1>2. run' \in [Tasks -> Record]
  BY <1>1, RecordTypes DEF DispatchAssign
<1>3. slot' \in [Workers -> Slot]
  <2>1. CASE UNCHANGED slot
    BY <1>1, <2>1
  <2>2. CASE slot' = [slot EXCEPT ![w].current = t, ![w].late = 0]
    <3>1. [slot[w] EXCEPT !.current = t, !.late = 0] \in Slot
      BY <1>1, SlotTypes
    <3> QED
      BY <1>1, <2>2, <3>1
  <2> QED
    BY <2>1, <2>2 DEF DispatchAssign
<1>4. dispatch' \in DispatchType /\ dispatch'.pc # "send"
      /\ (dispatch'.pc # "idle" => dispatch'.task = t /\ dispatch'.worker = w)
  <2>1. CASE dispatch' = NoDispatch
    BY <2>1, RecordTypes
  <2>2. CASE \E c \in {dispatch.conn, 0} : dispatch' = [dispatch EXCEPT !.pc = "claim", !.conn = c]
    <3>1. PICK c \in {dispatch.conn, 0} : dispatch' = [dispatch EXCEPT !.pc = "claim", !.conn = c]
      BY <2>2
    <3>2. c \in 0 .. MaxConn
      BY <1>1, <3>1, NetAssumption DEF DispatchType
    <3> QED
      BY <1>1, <3>1, <3>2 DEF DispatchType
  <2> QED
    BY <2>1, <2>2 DEF DispatchAssign
<1>5. RowsOK'
  <2>1. CASE UNCHANGED budget
    BY <1>1, <2>1 DEF ManagerOK, RowsOK
  <2>2. CASE Spend("db")
    BY <1>1, <2>2, SpentRows DEF ManagerOK, Kinds
  <2> QED
    BY <2>1, <2>2 DEF DispatchAssign
<1> QED
  BY <1>1, <1>2, <1>3, <1>4, <1>5
     DEF ManagerOK, ChanOK, QueueOK, TablesOK, DispatchOK, LoopOK, ServeOK, history

LEMMA ClaimKept == ManagerOK /\ DispatchClaim => ManagerOK'
<1> SUFFICES ASSUME ManagerOK, DispatchClaim PROVE ManagerOK'
  OBVIOUS
<1> DEFINE t == dispatch.task
           e == row[t].epoch + 1
<1>1. /\ dispatch.pc = "claim" /\ dispatch \in DispatchType /\ t \in Tasks
      /\ dispatch.worker \in Workers /\ RowsOK
      /\ UNCHANGED <<chan, queue, run, slot, counts, soft, cooling, loop, serve, saved, refusals>>
  BY DEF DispatchClaim, ManagerOK, DispatchOK
<1>2. RowsOK' /\ DispatchOK'
  <2>1. CASE /\ Claimable(row[t])
             /\ row' = [row EXCEPT ![t] = Claimed(row[t], dispatch.worker)]
             /\ dispatch' = [dispatch EXCEPT !.pc = "send", !.epoch = e]
             /\ given' = given \cup {<<t, e, dispatch.worker>>}
             /\ Spend("claim")
    <3>1. /\ budget' \in Budgets /\ budget'.claim = budget.claim - 1 /\ budget.claim > 0
      BY <1>1, <2>1, SpendOK DEF Kinds, Spend
    <3>2. /\ row[t] \in Row /\ row[t].epoch \in Nat /\ budget.claim \in Nat
          /\ row[t].epoch + budget.claim <= MaxClaims /\ MaxClaims \in Nat
          /\ \A x \in Tasks : row[x].epoch \in Nat /\ row[x].epoch + budget.claim <= MaxClaims
      BY <1>1, NetAssumption DEF RowsOK, Row, Budgets
    <3>3. e \in 1 .. MaxClaims /\ e \in 0 .. MaxClaims /\ e + budget'.claim <= MaxClaims
      BY <3>1, <3>2
    <3>4. /\ Claimed(row[t], dispatch.worker) \in Row
          /\ Claimed(row[t], dispatch.worker).epoch = e
      BY <1>1, <3>2, <3>3 DEF Claimed, Row, Active
    <3> HIDE DEF e
    <3>5. row' \in [Tasks -> Row] /\ row'[t].epoch = e /\ \A x \in Tasks \ {t} : row'[x] = row[x]
      BY <1>1, <2>1, <3>4 DEF RowsOK
    <3>6. RowsOK'
      BY <1>1, <3>1, <3>2, <3>3, <3>5 DEF RowsOK
    <3>7. dispatch' \in DispatchType /\ dispatch'.pc = "send" /\ dispatch'.epoch = e
          /\ dispatch'.task = t /\ dispatch'.worker = dispatch.worker
      BY <1>1, <2>1, <3>3 DEF DispatchType
    <3>8. given' \subseteq (Tasks \X (1 .. MaxClaims) \X Workers)
      BY <1>1, <2>1, <3>3 DEF ManagerOK, DispatchOK
    <3> QED
      BY <1>1, <3>3, <3>6, <3>7, <3>8 DEF DispatchOK
  <2>2. CASE /\ UNCHANGED budget \/ Spend("db")
             /\ dispatch' = [dispatch EXCEPT !.pc = "undo"]
             /\ UNCHANGED <<row, given>>
    <3>1. RowsOK'
      <4>1. CASE UNCHANGED budget
        BY <1>1, <2>2, <4>1 DEF RowsOK
      <4>2. CASE Spend("db")
        BY <1>1, <2>2, <4>2, SpentRows DEF Kinds
      <4> QED
        BY <2>2, <4>1, <4>2
    <3>2. dispatch' \in DispatchType /\ dispatch'.pc = "undo"
          /\ dispatch'.task = t /\ dispatch'.worker = dispatch.worker
      BY <1>1, <2>2 DEF DispatchType
    <3> QED
      BY <1>1, <2>2, <3>1, <3>2 DEF ManagerOK, DispatchOK
  <2> QED
    BY <2>1, <2>2 DEF DispatchClaim
<1> QED
  BY <1>1, <1>2 DEF ManagerOK, ChanOK, QueueOK, TablesOK, LoopOK, ServeOK

LEMMA SendKept == ManagerOK /\ DispatchSend => ManagerOK'
<1> SUFFICES ASSUME ManagerOK, DispatchSend PROVE ManagerOK'
  OBVIOUS
<1> DEFINE t == dispatch.task
<1>1. /\ dispatch.pc = "send" /\ dispatch \in DispatchType /\ t \in Tasks
      /\ dispatch.worker \in Workers /\ dispatch.epoch \in 1 .. MaxClaims
      /\ UNCHANGED <<queue, run, slot, counts, soft, cooling, loop, serve, saved, history>>
      /\ RowsOK /\ ChanOK
  BY DEF DispatchSend, ManagerOK, DispatchOK
<1>2. CASE /\ PushDown(dispatch.conn, RunCmd(t, dispatch.epoch))
           /\ dispatch' = NoDispatch /\ UNCHANGED <<row, budget>>
  <2>1. ChanOK'
    BY <1>1, <1>2, MessageTypes, SentDown
  <2>2. DispatchOK'
    BY <1>1, <1>2, RecordTypes DEF ManagerOK, DispatchOK, history
  <2> QED
    BY <1>1, <1>2, <2>1, <2>2
       DEF ManagerOK, RowsOK, QueueOK, TablesOK, LoopOK, ServeOK, history
<1>3. CASE /\ RequeueRow(t) \/ RequeueFails
           /\ dispatch' = [dispatch EXCEPT !.pc = "undo"] /\ UNCHANGED chan
  <2>1. RowsOK'
    BY <1>1, <1>3, RequeuedRow
  <2>2. dispatch' \in DispatchType /\ dispatch'.pc = "undo"
        /\ dispatch'.task = t /\ dispatch'.worker = dispatch.worker
    BY <1>1, <1>3 DEF DispatchType
  <2>3. DispatchOK'
    BY <1>1, <2>2 DEF ManagerOK, DispatchOK, history
  <2> QED
    BY <1>1, <1>3, <2>1, <2>3
       DEF ManagerOK, ChanOK, QueueOK, TablesOK, LoopOK, ServeOK, history
<1> QED
  BY <1>2, <1>3 DEF DispatchSend

LEMMA EnqueuedDistinct ==
  ASSUME queue \in DistinctQueue, NEW t \in Tasks
  PROVE  /\ (IF Queued(t) THEN queue ELSE Append(queue, t)) \in DistinctQueue
         /\ (IF Queued(t) THEN queue ELSE <<t>> \o queue) \in DistinctQueue
         /\ ~ Tracked(t) => Append(queue, t) \in DistinctQueue
<1>1. ~ Queued(t) => Append(queue, t) \in DistinctQueue
  BY AppendDistinct DEF Queued
<1>2. ~ Queued(t) => <<t>> \o queue \in DistinctQueue
  <2> SUFFICES ASSUME ~ Queued(t) PROVE <<t>> \o queue \in DistinctQueue
    OBVIOUS
  <2>1. <<t>> \in DistinctQueue /\ ToSet(<<t>>) \cap ToSet(queue) = {}
    BY OneDistinct DEF Queued
  <2> QED
    BY <2>1, JoinDistinct
<1> QED
  BY <1>1, <1>2 DEF Tracked

LEMMA UndoKept == ManagerOK /\ DispatchUndo => ManagerOK'
<1> SUFFICES ASSUME ManagerOK, DispatchUndo PROVE ManagerOK'
  OBVIOUS
<1> DEFINE t == dispatch.task
           w == dispatch.worker
<1>1. /\ t \in Tasks /\ w \in Workers /\ queue \in DistinctQueue
      /\ slot \in [Workers -> Slot] /\ run \in [Tasks -> Record]
      /\ run' = [run EXCEPT ![t] = NoRecord]
      /\ slot' = [slot EXCEPT ![w] = Vacated(slot[w], t)]
      /\ EnqueueFirst(t) /\ dispatch' = NoDispatch
      /\ UNCHANGED <<shared, counts, soft, cooling, loop, serve, saved, history>>
  BY DEF DispatchUndo, ManagerOK, DispatchOK, TablesOK, QueueOK
<1>2. run' \in [Tasks -> Record] /\ slot' \in [Workers -> Slot]
  BY <1>1, RecordTypes, SlotTypes
<1>3. queue' \in DistinctQueue
  BY <1>1, EnqueuedDistinct DEF EnqueueFirst
<1> QED
  BY <1>1, <1>2, <1>3, RecordTypes
     DEF ManagerOK, RowsOK, ChanOK, QueueOK, TablesOK, DispatchOK, LoopOK, ServeOK, shared, history

-----------------------------------------------------------------------------
(* The reconcile threads.                                                  *)

LEMMA LoopMoves ==
  ASSUME LoopOK, NEW l \in Loops, NEW h \in Loop, h.pc \in {"append", "cool", "fail"} => h.task \in Tasks,
         loop' = [loop EXCEPT ![l] = h]
  PROVE  LoopOK'
<1>1. loop' \in [Loops -> Loop] /\ loop'[l] = h /\ \A k \in Loops \ {l} : loop'[k] = loop[k]
  BY DEF LoopOK
<1> QED
  BY <1>1 DEF LoopOK

\* The places of a reconcile thread that its steps lead to.
LEMMA LoopTypes ==
  ASSUME NEW h \in Loop, NEW t \in Tasks
  PROVE  /\ [h EXCEPT !.requeue = h.requeue \ {t}] \in Loop
         /\ [h EXCEPT !.fail = h.fail \ {t}] \in Loop
         /\ [h EXCEPT !.fail = h.fail \cup {t}] \in Loop
         /\ [h EXCEPT !.heal = h.heal \ {t}] \in Loop
         /\ [h EXCEPT !.pc = "append", !.task = t] \in Loop
         /\ [h EXCEPT !.pc = "fail", !.task = t] \in Loop
         /\ \A b \in BOOLEAN : [h EXCEPT !.pc = "cool", !.task = t, !.ok = b] \in Loop
         /\ [h EXCEPT !.pc = "work", !.task = None] \in Loop
         /\ [h EXCEPT !.pc = "work", !.task = None, !.ok = FALSE] \in Loop
BY DEF Loop

LEMMA LoopFields ==
  ASSUME NEW h \in Loop, NEW t
  PROVE  /\ [h EXCEPT !.requeue = h.requeue \ {t}].pc = h.pc
         /\ [h EXCEPT !.fail = h.fail \ {t}].pc = h.pc
         /\ [h EXCEPT !.fail = h.fail \cup {t}].pc = h.pc
         /\ [h EXCEPT !.pc = "append", !.task = t].task = t
         /\ [h EXCEPT !.pc = "fail", !.task = t].task = t
         /\ \A b : [h EXCEPT !.pc = "cool", !.task = t, !.ok = b].task = t
         /\ [h EXCEPT !.pc = "work", !.task = None, !.ok = FALSE].pc = "work"
BY DEF Loop

LEMMA ScanKept == ManagerOK /\ ReconcileScan => ManagerOK'
<1> SUFFICES ASSUME ManagerOK, ReconcileScan PROVE ManagerOK'
  OBVIOUS
<1> DEFINE lost == {t \in Tasks : Lost(t)}
           freed == [w \in Workers |-> IF \E t \in lost : run[t].worker = w /\ slot[w].current = t
                                       THEN None ELSE slot[w].current]
           gone(w) == ~ Online(w) /\ freed[w] = None /\ slot[w].late = 4
           failing == {t \in lost : counts[t] + 1 > MaxRequeue}
<1>1. /\ slot \in [Workers -> Slot] /\ run \in [Tasks -> Record] /\ counts \in [Tasks -> Nat]
      /\ slot' = [w \in Workers |-> IF gone(w) THEN NoSlot
                    ELSE [slot[w] EXCEPT !.online = Online(w), !.current = freed[w]]]
      /\ run' = [t \in Tasks |-> IF t \in lost THEN NoRecord ELSE run[t]]
      /\ counts' = [t \in Tasks |-> IF t \in lost THEN counts[t] + 1 ELSE counts[t]]
      /\ loop' = [loop EXCEPT !["memory"] =
           IF lost = {} THEN IdleLoop
           ELSE [IdleLoop EXCEPT !.pc = "work", !.requeue = lost \ failing, !.fail = failing]]
      /\ UNCHANGED <<shared, queue, soft, cooling, dispatch, serve, saved, history>>
  BY DEF ReconcileScan, ManagerOK, TablesOK
<1>2. lost \subseteq Tasks /\ failing \subseteq Tasks
  OBVIOUS
<1>3. \A w \in Workers : freed[w] \in Tasks \cup {None} /\ Online(w) \in BOOLEAN
  BY <1>1 DEF Slot, Online
<1> HIDE DEF lost, failing, freed, gone
<1>4. slot' \in [Workers -> Slot]
  <2>1. \A w \in Workers : [slot[w] EXCEPT !.online = Online(w), !.current = freed[w]] \in Slot
    BY <1>1, <1>3, SlotTypes
  <2> QED
    BY <1>1, <2>1, RecordTypes
<1>5. run' \in [Tasks -> Record] /\ counts' \in [Tasks -> Nat]
  <2>1. run' \in [Tasks -> Record]
    BY <1>1, RecordTypes
  <2>2. \A t \in Tasks : counts[t] \in Nat /\ counts[t] + 1 \in Nat
    <3>1. counts \in [Tasks -> Nat]
      BY <1>1
    <3> QED
      BY <3>1
  <2>3. counts' \in [Tasks -> Nat]
    BY <1>1, <2>2
  <2> QED
    BY <2>1, <2>3
<1>6. LoopOK'
  <2> DEFINE h == IF lost = {} THEN IdleLoop
                  ELSE [IdleLoop EXCEPT !.pc = "work", !.requeue = lost \ failing, !.fail = failing]
  <2>1. h \in Loop /\ h.pc \in {"idle", "work"}
    BY <1>2, RecordTypes DEF Loop, IdleLoop
  <2> HIDE DEF h
  <2> QED
    BY <1>1, <2>1, LoopMoves DEF ManagerOK, Loops, h
<1> QED
  BY <1>1, <1>4, <1>5, <1>6
     DEF ManagerOK, RowsOK, ChanOK, QueueOK, TablesOK, DispatchOK, ServeOK, shared, history

LEMMA LoopRequeueKept == ASSUME ManagerOK, NEW l \in Loops, LoopRequeue(l) PROVE ManagerOK'
<1>1. PICK t \in loop[l].requeue :
        LET left  == [loop[l] EXCEPT !.requeue = @ \ {t}]
            again == counts[t] + 1 <= MaxRequeue
        IN  /\ counts' = IF l = "db" THEN [counts EXCEPT ![t] = @ + 1] ELSE counts
            /\ \/ /\ l = "db" /\ ~ again
                  /\ loop' = [loop EXCEPT ![l] = [left EXCEPT !.fail = @ \cup {t}]]
                  /\ UNCHANGED <<row, budget>>
               \/ /\ l = "memory" \/ again
                  /\ RequeueRow(t)
                  /\ loop' = [loop EXCEPT ![l] = [left EXCEPT !.pc = "append", !.task = t]]
               \/ /\ l = "memory" \/ again
                  /\ RequeueFails
                  /\ loop' = [loop EXCEPT ![l] =
                       IF l = "memory" THEN [left EXCEPT !.fail = @ \cup {t}] ELSE left]
  BY DEF LoopRequeue
<1>2. /\ loop[l].pc = "work" /\ loop[l] \in Loop /\ t \in Tasks /\ LoopOK /\ RowsOK
      /\ UNCHANGED <<chan, queue, run, slot, soft, cooling, dispatch, serve, saved, history>>
  BY DEF LoopRequeue, ManagerOK, LoopOK, Loop
<1> DEFINE left == [loop[l] EXCEPT !.requeue = loop[l].requeue \ {t}]
<1>3. left \in Loop /\ left.pc = "work"
  <2>1. left \in Loop
    BY <1>2, LoopTypes
  <2>2. left.pc = "work"
    BY <1>2, LoopFields
  <2> HIDE DEF left
  <2> QED
    BY <2>1, <2>2, Zenon
<1>4. counts' \in [Tasks -> Nat]
  BY <1>1, <1>2 DEF ManagerOK, TablesOK
<1> HIDE DEF left
<1>5. RowsOK'
  <2>1. CASE UNCHANGED <<row, budget>>
    BY <1>2, <2>1 DEF RowsOK
  <2>2. CASE RequeueRow(t) \/ RequeueFails
    BY <1>2, <2>2, RequeuedRow
  <2> QED
    BY <1>1, <2>1, <2>2
<1>6. LoopOK'
  <2>1. \E h \in {[left EXCEPT !.fail = left.fail \cup {t}], left,
                  [left EXCEPT !.pc = "append", !.task = t]} : loop' = [loop EXCEPT ![l] = h]
    BY <1>1 DEF left
  <2>2. \A h \in {[left EXCEPT !.fail = left.fail \cup {t}], left,
                  [left EXCEPT !.pc = "append", !.task = t]} :
          h \in Loop /\ (h.pc \in {"append", "cool", "fail"} => h.task \in Tasks)
    <3>1. /\ [left EXCEPT !.fail = left.fail \cup {t}] \in Loop
          /\ [left EXCEPT !.pc = "append", !.task = t] \in Loop
      BY <1>2, <1>3, LoopTypes
    <3>2. /\ [left EXCEPT !.fail = left.fail \cup {t}].pc = "work"
          /\ [left EXCEPT !.pc = "append", !.task = t].task = t
      BY <1>3, LoopFields
    <3> QED
      BY <1>2, <1>3, <3>1, <3>2
  <2> QED
    BY <1>2, <2>1, <2>2, LoopMoves
<1> QED
  BY <1>2, <1>4, <1>5, <1>6
     DEF ManagerOK, ChanOK, QueueOK, TablesOK, DispatchOK, ServeOK, history

LEMMA LoopAppendKept == ASSUME ManagerOK, NEW l \in Loops, LoopAppend(l) PROVE ManagerOK'
<1> DEFINE t == loop[l].task
           h == [loop[l] EXCEPT !.pc = "work", !.task = None]
<1>1. /\ loop[l].pc = "append" /\ loop[l] \in Loop /\ t \in Tasks /\ LoopOK
      /\ queue \in DistinctQueue
      /\ queue' = IF Tracked(t) THEN queue ELSE Append(queue, t)
      /\ loop' = [loop EXCEPT ![l] = h]
      /\ UNCHANGED <<shared, run, slot, counts, soft, cooling, dispatch, serve, saved, history>>
  BY DEF LoopAppend, ManagerOK, LoopOK, QueueOK
<1>2. queue' \in DistinctQueue
  BY <1>1, EnqueuedDistinct
<1>3. h \in Loop /\ h.pc = "work"
  <2>1. h \in Loop
    BY <1>1, LoopTypes
  <2>2. h.pc = "work"
    BY <1>1 DEF Loop
  <2> QED
    BY <2>1, <2>2
<1>4. LoopOK'
  BY <1>1, <1>3, LoopMoves
<1> QED
  BY <1>1, <1>2, <1>4
     DEF ManagerOK, RowsOK, ChanOK, QueueOK, TablesOK, DispatchOK, ServeOK, shared, history

LEMMA LoopSoftKept == ASSUME ManagerOK, NEW l \in Loops, LoopSoft(l) PROVE ManagerOK'
<1>1. PICK t \in loop[l].fail :
        LET left == [loop[l] EXCEPT !.fail = @ \ {t}]
        IN  \/ /\ soft[t] >= MaxSoft
               /\ ClearCounts(t)
               /\ loop' = [loop EXCEPT ![l] =
                    IF Ended(t) THEN left ELSE [left EXCEPT !.pc = "fail", !.task = t]]
               /\ UNCHANGED <<row, budget>>
            \/ /\ soft[t] < MaxSoft
               /\ soft' = [soft EXCEPT ![t] = @ + 1]
               /\ \/ /\ RequeueRow(t)
                     /\ loop' = [loop EXCEPT ![l] = [left EXCEPT !.pc = "cool", !.task = t, !.ok = TRUE]]
                  \/ /\ RequeueFails
                     /\ loop' = [loop EXCEPT ![l] = [left EXCEPT !.pc = "cool", !.task = t, !.ok = FALSE]]
               /\ UNCHANGED <<counts, cooling>>
  BY DEF LoopSoft
<1>2. /\ loop[l].pc = "work" /\ loop[l] \in Loop /\ t \in Tasks /\ LoopOK /\ RowsOK /\ TablesOK
      /\ UNCHANGED <<chan, queue, run, slot, dispatch, serve, saved, history>>
  BY DEF LoopSoft, ManagerOK, LoopOK, Loop
<1> DEFINE left == [loop[l] EXCEPT !.fail = loop[l].fail \ {t}]
<1>3. left \in Loop /\ left.pc = "work"
  <2>1. left \in Loop
    BY <1>2, LoopTypes
  <2>2. left.pc = "work"
    BY <1>2, LoopFields
  <2> HIDE DEF left
  <2> QED
    BY <2>1, <2>2, Zenon
<1> HIDE DEF left
<1>4. /\ counts' \in [Tasks -> Nat] /\ soft' \in [Tasks -> Nat] /\ cooling' \in [Tasks -> BOOLEAN]
  <2>1. CASE ClearCounts(t)
    BY <1>2, <2>1, ClearedCounts
  <2>2. CASE soft' = [soft EXCEPT ![t] = @ + 1] /\ UNCHANGED <<counts, cooling>>
    BY <1>2, <2>2 DEF TablesOK
  <2> QED
    BY <1>1, <2>1, <2>2
<1>5. RowsOK'
  <2>1. CASE UNCHANGED <<row, budget>>
    BY <1>2, <2>1 DEF RowsOK
  <2>2. CASE RequeueRow(t) \/ RequeueFails
    BY <1>2, <2>2, RequeuedRow
  <2> QED
    BY <1>1, <2>1, <2>2
<1>6. LoopOK'
  <2>1. \/ loop' = [loop EXCEPT ![l] = left]
        \/ loop' = [loop EXCEPT ![l] = [left EXCEPT !.pc = "fail", !.task = t]]
        \/ \E b \in BOOLEAN :
             loop' = [loop EXCEPT ![l] = [left EXCEPT !.pc = "cool", !.task = t, !.ok = b]]
    BY <1>1 DEF left
  <2>2. \A b \in BOOLEAN : /\ [left EXCEPT !.pc = "cool", !.task = t, !.ok = b] \in Loop
                           /\ [left EXCEPT !.pc = "cool", !.task = t, !.ok = b].task = t
    <3> TAKE b \in BOOLEAN
    <3>1. [left EXCEPT !.pc = "cool", !.task = t, !.ok = b] \in Loop
      BY <1>2, <1>3, LoopTypes
    <3>2. [left EXCEPT !.pc = "cool", !.task = t, !.ok = b].task = t
      BY <1>3, LoopFields
    <3> QED
      BY <3>1, <3>2, Zenon
  <2>3. /\ [left EXCEPT !.pc = "fail", !.task = t] \in Loop
        /\ [left EXCEPT !.pc = "fail", !.task = t].task = t
    <3>1. [left EXCEPT !.pc = "fail", !.task = t] \in Loop
      BY <1>2, <1>3, LoopTypes
    <3>2. [left EXCEPT !.pc = "fail", !.task = t].task = t
      BY <1>3, LoopFields
    <3> QED
      BY <3>1, <3>2, Zenon
  <2> QED
    BY <1>2, <1>3, <2>1, <2>2, <2>3, LoopMoves
<1> QED
  BY <1>2, <1>4, <1>5, <1>6
     DEF ManagerOK, ChanOK, QueueOK, TablesOK, DispatchOK, ServeOK, history

LEMMA LoopFailKept == ASSUME ManagerOK, NEW l \in Loops, LoopFail(l) PROVE ManagerOK'
<1> DEFINE h == [loop[l] EXCEPT !.pc = "work", !.task = None]
<1>1. /\ loop[l] \in Loop /\ loop[l].task \in Tasks /\ LoopOK /\ RowsOK
      /\ loop' = [loop EXCEPT ![l] = h]
      /\ UNCHANGED <<chan, queue, run, slot, counts, soft, cooling, dispatch, serve, saved, history>>
  BY DEF LoopFail, ManagerOK, LoopOK
<1>2. RowsOK'
  BY <1>1, FinalizedRow DEF LoopFail, Reports
<1>3. h \in Loop /\ h.pc = "work"
  <2>1. h \in Loop
    BY <1>1, LoopTypes
  <2>2. h.pc = "work"
    BY <1>1 DEF Loop
  <2> QED
    BY <2>1, <2>2
<1>4. LoopOK'
  BY <1>1, <1>3, LoopMoves
<1> QED
  BY <1>1, <1>2, <1>4 DEF ManagerOK, ChanOK, QueueOK, TablesOK, DispatchOK, ServeOK, history

LEMMA LoopCoolKept == ASSUME ManagerOK, NEW l \in Loops, LoopCool(l) PROVE ManagerOK'
<1> DEFINE t == loop[l].task
           h == [loop[l] EXCEPT !.pc = "work", !.task = None, !.ok = FALSE]
<1>1. /\ loop[l].pc = "cool" /\ loop[l] \in Loop /\ t \in Tasks /\ LoopOK /\ TablesOK
      /\ queue \in DistinctQueue
      /\ counts' = [counts EXCEPT ![t] = 0] /\ cooling' = [cooling EXCEPT ![t] = TRUE]
      /\ queue' = IF loop[l].ok /\ ~ Tracked(t) THEN Append(queue, t) ELSE queue
      /\ loop' = [loop EXCEPT ![l] = h]
      /\ UNCHANGED <<shared, run, slot, soft, dispatch, serve, saved, history>>
  BY DEF LoopCool, ManagerOK, LoopOK, QueueOK
<1>2. queue' \in DistinctQueue
  BY <1>1, EnqueuedDistinct
<1>3. h \in Loop /\ h.pc = "work"
  <2>1. h \in Loop
    BY <1>1, LoopTypes
  <2>2. h.pc = "work"
    BY <1>1, LoopFields
  <2> HIDE DEF h
  <2> QED
    BY <2>1, <2>2, Zenon
<1>4. LoopOK'
  BY <1>1, <1>3, LoopMoves
<1>5. counts' \in [Tasks -> Nat] /\ cooling' \in [Tasks -> BOOLEAN]
  BY <1>1 DEF TablesOK
<1> QED
  BY <1>1, <1>2, <1>4, <1>5
     DEF ManagerOK, RowsOK, ChanOK, QueueOK, TablesOK, DispatchOK, ServeOK, shared, history

LEMMA SmallLoopSteps ==
  ASSUME ManagerOK, (\E t \in Tasks : CooldownEnds(t)) \/ MemoryLoopEnds PROVE ManagerOK'
<1>1. CASE \E t \in Tasks : CooldownEnds(t)
  BY <1>1 DEF CooldownEnds, ManagerOK, RowsOK, ChanOK, QueueOK, TablesOK, DispatchOK, LoopOK,
              ServeOK, shared, history
<1>2. CASE MemoryLoopEnds
  <2>1. LoopOK'
    BY <1>2, RecordTypes, LoopMoves DEF MemoryLoopEnds, ManagerOK, Loops
  <2> QED
    BY <1>2, <2>1 DEF MemoryLoopEnds, ManagerOK, RowsOK, ChanOK, QueueOK, TablesOK, DispatchOK,
                      ServeOK, shared, history
<1> QED
  BY <1>1, <1>2

\* The rounds of the database thread.
LEMMA QueryKept == ManagerOK /\ DbQuery => ManagerOK'
<1> SUFFICES ASSUME ManagerOK, DbQuery PROVE ManagerOK'
  OBVIOUS
<1> DEFINE running == {t \in Tasks : row[t].status = "running" /\ ~ row[t].deleted}
           old     == {t \in running : row[t].age # "fresh"}
           heal    == {t \in running : row[t].disp = None}
           pc      == IF running = {} THEN "work" ELSE "classify"
           h       == [IdleLoop EXCEPT !.pc = pc, !.fail = running, !.requeue = old, !.heal = heal]
<1>1. /\ loop' = [loop EXCEPT !["db"] = h]
      /\ UNCHANGED <<shared, queue, run, slot, counts, soft, cooling, dispatch, serve, saved, history>>
  BY DEF DbQuery
<1>2. running \subseteq Tasks /\ old \subseteq Tasks /\ heal \subseteq Tasks /\ pc \in {"work", "classify"}
  OBVIOUS
<1> HIDE DEF running, old, heal, pc
<1>3. h \in Loop /\ h.pc \in {"work", "classify"}
  BY <1>2 DEF Loop, IdleLoop
<1> HIDE DEF h
<1>4. LoopOK'
  BY <1>1, <1>3, LoopMoves DEF ManagerOK, Loops
<1> QED
  BY <1>1, <1>4 DEF ManagerOK, RowsOK, ChanOK, QueueOK, TablesOK, DispatchOK, ServeOK, shared, history

LEMMA ClassifyKept == ManagerOK /\ DbClassify => ManagerOK'
<1> SUFFICES ASSUME ManagerOK, DbClassify PROVE ManagerOK'
  OBVIOUS
<1> DEFINE rows     == loop["db"].fail
           inRun    == {t \in rows : run[t].worker # None}
           inQueue  == {t \in rows \ inRun : Queued(t)}
           free     == rows \ (inRun \cup inQueue)
           hosts(t) == {w \in Workers : slot[w].online /\ slot[w].reported = t}
           adopted  == {t \in free : hosts(t) # {}}
           stale    == (inRun \cap loop["db"].heal) \cup inQueue
           orphans  == (free \ adopted) \cap loop["db"].requeue
           h        == [IdleLoop EXCEPT !.pc = "work", !.requeue = orphans, !.heal = stale]
<1>1. /\ loop' = [loop EXCEPT !["db"] = h]
      /\ counts'  = [t \in Tasks |-> IF t \in adopted THEN 0 ELSE counts[t]]
      /\ soft'    = [t \in Tasks |-> IF t \in adopted THEN 0 ELSE soft[t]]
      /\ cooling' = [t \in Tasks |-> cooling[t] /\ t \notin adopted]
      /\ UNCHANGED <<shared, queue, dispatch, serve, saved, history>>
  BY DEF DbClassify
<1>2. PICK host \in {f \in [adopted -> Workers] : \A t \in adopted : f[t] \in hosts(t)} :
        /\ run' = [t \in Tasks |-> IF t \in adopted THEN [worker |-> host[t], old |-> FALSE] ELSE run[t]]
        /\ slot' = [w \in Workers |->
             LET mine == {t \in adopted : host[t] = w}
             IN  IF mine # {} /\ slot[w].current = None
                   THEN [slot[w] EXCEPT !.current = CHOOSE t \in mine : TRUE] ELSE slot[w]]
  BY DEF DbClassify
<1>3. TablesOK /\ loop["db"] \in Loop /\ rows \subseteq Tasks /\ loop["db"].heal \subseteq Tasks
  BY DEF ManagerOK, LoopOK, Loop, Loops
<1>4. adopted \subseteq Tasks /\ stale \subseteq Tasks /\ orphans \subseteq Tasks
  BY <1>3
<1>5. host \in [adopted -> Workers]
  BY <1>2
<1> HIDE DEF adopted, stale, orphans
<1>6. h \in Loop /\ h.pc = "work"
  BY <1>4 DEF Loop, IdleLoop
<1> HIDE DEF h
<1>7. LoopOK'
  BY <1>1, <1>6, LoopMoves DEF ManagerOK, Loops
<1>8. run' \in [Tasks -> Record]
  <2>1. \A t \in adopted : [worker |-> host[t], old |-> FALSE] \in Record
    BY <1>5, RecordTypes
  <2> QED
    BY <1>2, <1>3, <2>1 DEF TablesOK
<1>9. slot' \in [Workers -> Slot]
  <2>1. ASSUME NEW w \in Workers, {t \in adopted : host[t] = w} # {}
        PROVE  [slot[w] EXCEPT !.current = CHOOSE t \in {t \in adopted : host[t] = w} : TRUE] \in Slot
    <3>1. (CHOOSE t \in {t \in adopted : host[t] = w} : TRUE) \in Tasks
      BY <1>4, <2>1
    <3>2. slot[w] \in Slot
      BY <1>3 DEF TablesOK
    <3> QED
      BY <3>1, <3>2, SlotTypes
  <2>2. \A w \in Workers : slot[w] \in Slot
    BY <1>3 DEF TablesOK
  <2> QED
    BY <1>2, <2>1, <2>2
<1>10. counts' \in [Tasks -> Nat] /\ soft' \in [Tasks -> Nat] /\ cooling' \in [Tasks -> BOOLEAN]
  BY <1>1, <1>3 DEF TablesOK
<1>11. TablesOK'
  BY <1>1, <1>3, <1>8, <1>9, <1>10 DEF TablesOK, history
<1> QED
  BY <1>1, <1>7, <1>11 DEF ManagerOK, RowsOK, ChanOK, QueueOK, DispatchOK, ServeOK, shared, history

LEMMA HealKept == ManagerOK /\ DbHeal => ManagerOK'
<1> SUFFICES ASSUME ManagerOK, DbHeal PROVE ManagerOK'
  OBVIOUS
<1>1. PICK t \in loop["db"].heal : /\ RequeueRow(t) \/ RequeueFails
                                   /\ loop' = [loop EXCEPT !["db"].heal = @ \ {t}]
  BY DEF DbHeal
<1> DEFINE h == [loop["db"] EXCEPT !.heal = loop["db"].heal \ {t}]
<1>2. /\ loop["db"].pc = "work" /\ loop["db"] \in Loop /\ t \in Tasks /\ RowsOK /\ LoopOK
      /\ UNCHANGED <<chan, queue, run, slot, counts, soft, cooling, dispatch, serve, saved, history>>
  BY DEF DbHeal, ManagerOK, LoopOK, Loop, Loops
<1>3. h \in Loop
  BY <1>2, LoopTypes
<1>4. h.pc = "work" /\ loop' = [loop EXCEPT !["db"] = h]
  BY <1>1, <1>2 DEF Loop
<1>5. LoopOK'
  BY <1>2, <1>3, <1>4, LoopMoves DEF Loops
<1>6. RowsOK'
  BY <1>1, <1>2, RequeuedRow
<1> QED
  BY <1>2, <1>5, <1>6 DEF ManagerOK, ChanOK, QueueOK, TablesOK, DispatchOK, ServeOK, history

LEMMA RepairKept == ManagerOK /\ DbRepair => ManagerOK'
<1> SUFFICES ASSUME ManagerOK, DbRepair PROVE ManagerOK'
  OBVIOUS
<1> DEFINE h == IF Missing = {} THEN IdleLoop
                ELSE [IdleLoop EXCEPT !.pc = "enqueue", !.requeue = Missing]
<1>1. h \in Loop /\ h.pc \in {"idle", "enqueue"}
  <2>1. Missing \subseteq Tasks
    BY DEF Missing
  <2> QED
    BY <2>1 DEF Loop, IdleLoop
<1>2. /\ loop' = [loop EXCEPT !["db"] = h]
      /\ UNCHANGED <<shared, queue, run, slot, counts, soft, cooling, dispatch, serve, saved, history>>
  BY DEF DbRepair
<1> HIDE DEF h
<1>3. LoopOK'
  BY <1>1, <1>2, LoopMoves DEF ManagerOK, Loops
<1> QED
  BY <1>2, <1>3 DEF ManagerOK, RowsOK, ChanOK, QueueOK, TablesOK, DispatchOK, ServeOK, shared, history

\* The queue is looked at again under the lock: only tasks it does not hold join it.
LEMMA EnqueueKept == ManagerOK /\ DbEnqueue => ManagerOK'
<1> SUFFICES ASSUME ManagerOK, DbEnqueue PROVE ManagerOK'
  OBVIOUS
<1> DEFINE new == {t \in loop["db"].requeue : ~ Tracked(t)}
<1>1. /\ queue' = queue \o SetToSeq(new)
      /\ loop' = [loop EXCEPT !["db"] = IdleLoop]
      /\ UNCHANGED <<shared, run, slot, counts, soft, cooling, dispatch, serve, saved, history>>
  BY DEF DbEnqueue
<1>2. new \subseteq Tasks /\ new \cap ToSet(queue) = {} /\ queue \in DistinctQueue
  BY DEF ManagerOK, LoopOK, Loop, Loops, QueueOK, Tracked, Queued
<1> HIDE DEF new
<1>3. queue' \in DistinctQueue
  <2>1. SetToSeq(new) \in DistinctQueue /\ ToSet(SetToSeq(new)) = new
    BY <1>2, OrderedDistinct
  <2> QED
    BY <1>1, <1>2, <2>1, JoinDistinct
<1>4. LoopOK'
  BY <1>1, RecordTypes, LoopMoves DEF ManagerOK, Loops
<1> QED
  BY <1>1, <1>3, <1>4
     DEF ManagerOK, RowsOK, ChanOK, QueueOK, TablesOK, DispatchOK, ServeOK, shared, history

-----------------------------------------------------------------------------
(* The handlers of the connections.                                        *)

LEMMA ServeMoves ==
  ASSUME ServeOK, NEW c, NEW h \in Serve, h.pc \notin {"new", "read", "ended"} => h.task \in Tasks,
         serve' = [serve EXCEPT ![c] = h]
  PROVE  ServeOK'
<1>1. /\ serve' \in [Conns -> Serve]
      /\ \A d \in Conns : serve'[d] = IF d = c THEN h ELSE serve[d]
  BY DEF ServeOK
<1> QED
  BY <1>1 DEF ServeOK

\* The first message of a connection is taken.
LEMMA MessageTaken ==
  ASSUME ChanOK, NEW c \in Conns, chan[c].up # <<>>
  PROVE  /\ Head(chan[c].up) \in UpMsg /\ Popped(c) \in [Conns -> Conn]
         /\ \A d \in Conns : Popped(c)[d].worker = chan[d].worker
<1>1. chan[c] \in Conn /\ chan[c].up \in Seq(UpMsg) /\ chan[c].up # <<>>
  BY DEF ChanOK, Conn
<1>2. Head(chan[c].up) \in UpMsg /\ Tail(chan[c].up) \in Seq(UpMsg)
  BY <1>1
<1>3. [chan[c] EXCEPT !.up = Tail(chan[c].up)] \in Conn
  BY <1>1, <1>2 DEF Conn
<1>4. [chan[c] EXCEPT !.up = Tail(chan[c].up)].worker = chan[c].worker
  BY <1>1 DEF Conn
<1> QED
  BY <1>2, <1>3, <1>4 DEF ChanOK, Popped

LEMMA HelloKept == ASSUME ManagerOK, NEW c \in Conns, ServeHello(c) PROVE ManagerOK'
<1> DEFINE w    == chan[c].worker
           mine == {t \in Tasks : run[t].worker = w}
<1>1. PICK t \in (IF mine = {} THEN {None} ELSE mine) :
        slot' = [slot EXCEPT ![w] = [NoSlot EXCEPT !.obj = c, !.sock = TRUE,
                                                   !.online = TRUE, !.current = t]]
  BY DEF ServeHello
<1>2. /\ chan' = Popped(c) /\ chan[c].up # <<>> /\ serve' = [serve EXCEPT ![c] = Reading]
      /\ UNCHANGED <<row, budget, queue, run, counts, soft, cooling, dispatch, loop, saved, history>>
  BY DEF ServeHello
<1>3. ChanOK'
  BY <1>2, MessageTaken DEF ManagerOK, ChanOK
<1>4. slot' \in [Workers -> Slot]
  <2>1. t \in Tasks \cup {None} /\ c \in 0 .. MaxConn
    BY NetAssumption DEF Conns
  <2>2. [NoSlot EXCEPT !.obj = c, !.sock = TRUE, !.online = TRUE, !.current = t] \in Slot
    BY <2>1 DEF NoSlot, Slot
  <2> QED
    BY <1>1, <2>2 DEF ManagerOK, TablesOK
<1>5. ServeOK'
  BY <1>2, RecordTypes, ServeMoves DEF ManagerOK
<1> QED
  BY <1>2, <1>3, <1>4, <1>5
     DEF ManagerOK, RowsOK, QueueOK, TablesOK, DispatchOK, LoopOK, history

LEMMA StateKept == ASSUME ManagerOK, NEW c \in Conns, ServeState(c) PROVE ManagerOK'
<1> DEFINE m == Head(chan[c].up)
           w == chan[c].worker
           t == m.task
           h == IF ~ Recorded(t) THEN serve[c]
                ELSE [pc |-> IF m.state = "refused" THEN "requeue" ELSE "finalize",
                      task |-> t, state |-> m.state]
<1>1. /\ Received(c) /\ m.type = "state" /\ chan' = Popped(c)
      /\ slot' = [slot EXCEPT ![w] = Vacated(slot[w], t)]
      /\ ClearCounts(t)
      /\ serve' = [serve EXCEPT ![c] = h]
      /\ UNCHANGED <<row, budget, queue, run, dispatch, loop, saved, history>>
  BY DEF ServeState
<1>2. m \in UpMsg /\ ChanOK'
  BY <1>1, MessageTaken DEF ManagerOK, ChanOK, Received
<1>3. t \in Tasks /\ m.state \in Reports
  BY <1>1, <1>2, MessageTypes
<1> HIDE DEF m
<1>4. h \in Serve /\ (h.pc \notin {"new", "read", "ended"} => h.task \in Tasks)
  <2>1. [pc |-> IF m.state = "refused" THEN "requeue" ELSE "finalize",
         task |-> t, state |-> m.state] \in Serve
    BY <1>3 DEF Serve
  <2> QED
    BY <1>3, <2>1 DEF ManagerOK, ServeOK
<1> HIDE DEF h
<1>5. ServeOK'
  BY <1>1, <1>4, ServeMoves DEF ManagerOK
<1>6. slot' \in [Workers -> Slot]
  <2>1. \A x \in Workers : slot[x] \in Slot /\ Vacated(slot[x], t) \in Slot
    BY SlotTypes DEF ManagerOK, TablesOK
  <2> QED
    BY <1>1, <2>1 DEF ManagerOK, TablesOK
<1>7. counts' \in [Tasks -> Nat] /\ soft' \in [Tasks -> Nat] /\ cooling' \in [Tasks -> BOOLEAN]
  BY <1>1, ClearedCounts DEF ManagerOK
<1> QED
  BY <1>1, <1>2, <1>5, <1>6, <1>7
     DEF ManagerOK, RowsOK, QueueOK, TablesOK, DispatchOK, LoopOK, history

LEMMA ServeMoved ==
  ASSUME NEW h \in Serve
  PROVE  \A pc \in {"requeued", "finalize", "write", "finalized", "ended"} :
           [h EXCEPT !.pc = pc] \in Serve /\ [h EXCEPT !.pc = pc].task = h.task
BY DEF Serve

LEMMA ServeRequeueKept == ASSUME ManagerOK, NEW c \in Conns, ServeRequeue(c) PROVE ManagerOK'
<1> DEFINE t == serve[c].task
<1>1. /\ serve[c] \in Serve /\ t \in Tasks /\ RowsOK /\ counts \in [Tasks -> Nat]
      /\ UNCHANGED <<chan, queue, run, slot, soft, cooling, dispatch, loop, saved, history>>
  BY DEF ServeRequeue, ManagerOK, ServeOK, TablesOK
<1>2. \E pc \in {"requeued", "finalize"} : serve' = [serve EXCEPT ![c] = [serve[c] EXCEPT !.pc = pc]]
  BY DEF ServeRequeue
<1>3. ServeOK'
  BY <1>1, <1>2, ServeMoved, ServeMoves DEF ManagerOK
<1>4. counts' \in [Tasks -> Nat]
  <2>1. counts' = [counts EXCEPT ![t] = counts[t] + 1] \/ counts' = counts
    BY DEF ServeRequeue
  <2> QED
    BY <1>1, <2>1
<1>5. RowsOK'
  <2>1. CASE RequeueRow(t) \/ RequeueFails
    BY <1>1, <2>1, RequeuedRow
  <2>2. CASE UNCHANGED <<row, budget>>
    BY <1>1, <2>2 DEF RowsOK
  <2> QED
    BY <2>1, <2>2 DEF ServeRequeue
<1> QED
  BY <1>1, <1>3, <1>4, <1>5 DEF ManagerOK, ChanOK, QueueOK, TablesOK, DispatchOK, LoopOK, history

LEMMA ServeRequeuedKept == ASSUME ManagerOK, NEW c \in Conns, ServeRequeued(c) PROVE ManagerOK'
<1> DEFINE t == serve[c].task
<1>1. /\ t \in Tasks /\ TablesOK /\ queue \in DistinctQueue
      /\ run' = [run EXCEPT ![t] = NoRecord] /\ Enqueue(t)
      /\ serve' = [serve EXCEPT ![c] = Reading]
      /\ refusals' = [refusals EXCEPT ![t] = refusals[t] + 1]
      /\ UNCHANGED <<shared, slot, counts, soft, cooling, dispatch, loop, saved, given>>
  BY DEF ServeRequeued, ManagerOK, ServeOK, QueueOK
<1>2. queue' \in DistinctQueue
  BY <1>1, EnqueuedDistinct DEF Enqueue
<1>3. ServeOK'
  BY <1>1, RecordTypes, ServeMoves DEF ManagerOK
<1>4. run' \in [Tasks -> Record]
  BY <1>1, RecordTypes DEF TablesOK
<1>5. refusals' \in [Tasks -> Nat]
  BY <1>1 DEF TablesOK
<1> QED
  BY <1>1, <1>2, <1>3, <1>4, <1>5
     DEF ManagerOK, RowsOK, ChanOK, QueueOK, TablesOK, DispatchOK, LoopOK, shared

LEMMA ServeFinalizeKept == ASSUME ManagerOK, NEW c \in Conns, ServeFinalize(c) PROVE ManagerOK'
<1>1. /\ serve[c] \in Serve /\ serve[c].task \in Tasks
      /\ \E pc \in {"finalized", "write"} : serve' = [serve EXCEPT ![c] = [serve[c] EXCEPT !.pc = pc]]
      /\ UNCHANGED <<shared, queue, run, slot, counts, soft, cooling, dispatch, loop, saved, history>>
  BY DEF ServeFinalize, ManagerOK, ServeOK
<1>2. ServeOK'
  BY <1>1, ServeMoved, ServeMoves DEF ManagerOK
<1> QED
  BY <1>1, <1>2
     DEF ManagerOK, RowsOK, ChanOK, QueueOK, TablesOK, DispatchOK, LoopOK, shared, history

LEMMA ServeWriteKept == ASSUME ManagerOK, NEW c \in Conns, ServeWrite(c) PROVE ManagerOK'
<1>1. /\ serve[c] \in Serve /\ serve[c].task \in Tasks /\ RowsOK
      /\ serve' = [serve EXCEPT ![c] = [serve[c] EXCEPT !.pc = "finalized"]]
      /\ UNCHANGED <<chan, queue, run, slot, counts, soft, cooling, dispatch, loop, saved, history>>
  BY DEF ServeWrite, ManagerOK, ServeOK
<1>2. ServeOK'
  BY <1>1, ServeMoved, ServeMoves DEF ManagerOK
<1>3. RowsOK'
  <2>1. serve[c].state \in Reports
    BY <1>1 DEF Serve
  <2> QED
    BY <1>1, <2>1, FinalizedRow DEF ServeWrite
<1> QED
  BY <1>1, <1>2, <1>3 DEF ManagerOK, ChanOK, QueueOK, TablesOK, DispatchOK, LoopOK, history

LEMMA ServeFinalizedKept == ASSUME ManagerOK, NEW c \in Conns, ServeFinalized(c) PROVE ManagerOK'
<1>1. /\ TablesOK
      /\ run' = [run EXCEPT ![serve[c].task] = NoRecord]
      /\ counts' = [counts EXCEPT ![serve[c].task] = 0]
      /\ serve' = [serve EXCEPT ![c] = Reading]
      /\ refusals' = [refusals EXCEPT ![serve[c].task] = 0]
      /\ UNCHANGED <<shared, queue, slot, soft, cooling, dispatch, loop, saved, given>>
  BY DEF ServeFinalized, ManagerOK
<1>2. ServeOK'
  BY <1>1, RecordTypes, ServeMoves DEF ManagerOK
<1>3. run' \in [Tasks -> Record] /\ counts' \in [Tasks -> Nat] /\ refusals' \in [Tasks -> Nat]
  BY <1>1, RecordTypes DEF TablesOK
<1> QED
  BY <1>1, <1>2, <1>3
     DEF ManagerOK, RowsOK, ChanOK, QueueOK, TablesOK, DispatchOK, LoopOK, shared

LEMMA ServeEndKept == ASSUME ManagerOK, NEW c \in Conns, ServeEnd(c) PROVE ManagerOK'
<1> DEFINE w == chan[c].worker
           s == IF serve[c].pc = "new" \/ slot[w].obj = 0 THEN slot[w]
                ELSE [slot[w] EXCEPT !.online = FALSE, !.sock = FALSE]
<1>1. /\ serve[c] \in Serve /\ slot \in [Workers -> Slot]
      /\ serve' = [serve EXCEPT ![c] = [serve[c] EXCEPT !.pc = "ended"]]
      /\ slot' = [slot EXCEPT ![w] = s]
      /\ UNCHANGED <<shared, queue, run, counts, soft, cooling, dispatch, loop, saved, history>>
  BY DEF ServeEnd, ManagerOK, ServeOK, TablesOK
<1>2. ServeOK'
  <2>1. /\ [serve[c] EXCEPT !.pc = "ended"] \in Serve
        /\ [serve[c] EXCEPT !.pc = "ended"].pc = "ended"
    BY <1>1 DEF Serve
  <2> QED
    BY <1>1, <2>1, ServeMoves DEF ManagerOK
<1>3. w \in Workers => s \in Slot
  BY <1>1, SlotTypes
<1> HIDE DEF s
<1>4. slot' \in [Workers -> Slot]
  BY <1>1, <1>3
<1> QED
  BY <1>1, <1>2, <1>4
     DEF ManagerOK, RowsOK, ChanOK, QueueOK, TablesOK, DispatchOK, LoopOK, shared, history

-----------------------------------------------------------------------------
(* Time, the network and the calls of the API.                             *)

LEMMA HeartbeatKept == ASSUME ManagerOK, NEW w \in Workers, NEW t \in Tasks \cup {None}, OnHeartbeat(w, t)
                       PROVE  ManagerOK'
<1> DEFINE s == IF slot[w].obj = 0 THEN slot[w]
                ELSE [slot[w] EXCEPT !.late = 0, !.online = TRUE, !.reported = t]
<1>1. /\ slot' = [slot EXCEPT ![w] = s] /\ slot \in [Workers -> Slot]
      /\ ClearCounts(t) \/ UNCHANGED <<counts, soft, cooling>>
      /\ UNCHANGED <<shared, queue, run, dispatch, loop, serve, saved, history>>
  BY DEF OnHeartbeat, ManagerOK, TablesOK
<1>2. s \in Slot
  <2>1. slot[w] \in Slot
    BY <1>1
  <2> QED
    BY <2>1 DEF Slot
<1> HIDE DEF s
<1>3. slot' \in [Workers -> Slot]
  BY <1>1, <1>2
<1>4. counts' \in [Tasks -> Nat] /\ soft' \in [Tasks -> Nat] /\ cooling' \in [Tasks -> BOOLEAN]
  <2>1. CASE ClearCounts(t)
    BY <2>1, ClearedCounts DEF ManagerOK
  <2>2. CASE UNCHANGED <<counts, soft, cooling>>
    BY <2>2 DEF ManagerOK, TablesOK
  <2> QED
    BY <1>1, <2>1, <2>2
<1> QED
  BY <1>1, <1>3, <1>4
     DEF ManagerOK, RowsOK, ChanOK, QueueOK, TablesOK, DispatchOK, LoopOK, ServeOK, shared, history

LEMMA FaultRows == ASSUME RowsOK, NEW busy, NEW k \in Kinds, FaultIf(busy, k), row' = row PROVE RowsOK'
<1>1. CASE Spend(k)
  BY <1>1, SpentRows
<1>2. CASE UNCHANGED budget
  BY <1>2 DEF RowsOK
<1> QED
  BY <1>1, <1>2 DEF FaultIf

LEMMA LateKept == ASSUME ManagerOK, NEW w \in Workers, GetsLate(w) PROVE ManagerOK'
<1>1. /\ FaultIf(Connected(w), "late") /\ slot \in [Workers -> Slot] /\ RowsOK
      /\ slot' = [slot EXCEPT ![w].late = IF slot[w].late = 0 THEN 1 ELSE 4]
      /\ UNCHANGED <<row, chan, queue, run, counts, soft, cooling, dispatch, loop, serve, saved, history>>
  BY DEF GetsLate, ManagerOK, TablesOK
<1>2. RowsOK'
  BY <1>1, FaultRows DEF Kinds
<1>3. [slot[w] EXCEPT !.late = IF slot[w].late = 0 THEN 1 ELSE 4] \in Slot
  BY <1>1 DEF Slot
<1>4. slot' \in [Workers -> Slot]
  BY <1>1, <1>3
<1> QED
  BY <1>1, <1>2, <1>4 DEF ManagerOK, ChanOK, QueueOK, TablesOK, DispatchOK, LoopOK, ServeOK, history

LEMMA RecordAgesKept == ASSUME ManagerOK, NEW t \in Tasks, RunAges(t) PROVE ManagerOK'
<1>1. /\ FaultIf(InTransit(t), "slow") /\ run \in [Tasks -> Record] /\ RowsOK
      /\ run' = [run EXCEPT ![t].old = TRUE]
      /\ UNCHANGED <<row, chan, queue, slot, counts, soft, cooling, dispatch, loop, serve, saved, history>>
  BY DEF RunAges, RecordAges, ManagerOK, TablesOK
<1>2. RowsOK'
  BY <1>1, FaultRows DEF Kinds
<1>3. run' \in [Tasks -> Record]
  BY <1>1 DEF Record
<1> QED
  BY <1>1, <1>2, <1>3 DEF ManagerOK, ChanOK, QueueOK, TablesOK, DispatchOK, LoopOK, ServeOK, history

LEMMA RowAgesKept == ASSUME ManagerOK, NEW t \in Tasks, RowAges(t) PROVE ManagerOK'
<1> DEFINE busy == InTransit(t) \/ \E p \in procs : p.task = t /\ Fenced(p)
           r    == [row[t] EXCEPT !.age = "old"]
<1>1. /\ FaultIf(busy, "slow") /\ row' = [row EXCEPT ![t] = r] /\ RowsOK
      /\ UNCHANGED <<chan, queue, run, slot, counts, soft, cooling, dispatch, loop, serve, saved, history>>
  BY DEF RowAges, ManagerOK, manager
<1> HIDE DEF busy
<1>2. budget' \in Budgets /\ budget'.claim <= budget.claim
  <2>1. CASE Spend("slow")
    BY <1>1, <2>1, SpendOK DEF Kinds
  <2>2. CASE UNCHANGED budget
    BY <1>1, <2>2, NetAssumption DEF RowsOK, Budgets
  <2> QED
    BY <1>1, <2>1, <2>2 DEF FaultIf
<1>3. r \in Row /\ r.epoch = row[t].epoch
  BY <1>1 DEF RowsOK, Row
<1> HIDE DEF r
<1>4. RowsOK'
  BY <1>1, <1>2, <1>3, RowWritten
<1> QED
  BY <1>1, <1>4 DEF ManagerOK, ChanOK, QueueOK, TablesOK, DispatchOK, LoopOK, ServeOK, history

\* What is left of the messages of a connection that breaks.
LEMMA Prefix ==
  ASSUME NEW S, NEW q \in Seq(S), NEW n \in 0 .. Len(q) PROVE SubSeq(q, 1, n) \in Seq(S)
<1>1. \A i \in 1 .. n : q[i] \in S
  BY Elements
<1> QED
  BY <1>1, SubSeqProperties

LEMMA BreaksKept == ASSUME ManagerOK, NEW c \in Conns, Breaks(c) PROVE ManagerOK'
<1>1. /\ Spend("drop") /\ RowsOK /\ ChanOK
      /\ UNCHANGED <<row, queue, run, slot, counts, soft, cooling, dispatch, loop, serve, saved, history>>
  BY DEF Breaks, ManagerOK, manager
<1>2. RowsOK'
  BY <1>1, SpentRows DEF Kinds
<1>3. PICK i \in 0 .. Len(chan[c].up), j \in 0 .. Len(chan[c].down) :
        chan' = [chan EXCEPT ![c].open = FALSE, ![c].up   = SubSeq(@, 1, i),
                                                ![c].down = SubSeq(@, 1, j)]
  BY DEF Breaks
<1>4. chan[c] \in Conn /\ chan[c].up \in Seq(UpMsg) /\ chan[c].down \in Seq(DownMsg)
  BY <1>1 DEF ChanOK, Conn
<1>5. SubSeq(chan[c].up, 1, i) \in Seq(UpMsg) /\ SubSeq(chan[c].down, 1, j) \in Seq(DownMsg)
  BY <1>4, Prefix
<1>6. [chan[c] EXCEPT !.open = FALSE, !.up = SubSeq(chan[c].up, 1, i),
                      !.down = SubSeq(chan[c].down, 1, j)] \in Conn
  BY <1>4, <1>5 DEF Conn
<1>7. ChanOK'
  <2>1. /\ chan'[c] = [chan[c] EXCEPT !.open = FALSE, !.up = SubSeq(chan[c].up, 1, i),
                                      !.down = SubSeq(chan[c].down, 1, j)]
        /\ \A d \in Conns \ {c} : chan'[d] = chan[d]
        /\ DOMAIN chan' = Conns /\ chan' = [d \in Conns |-> chan'[d]]
    BY <1>1, <1>3, <1>4 DEF ChanOK, Conn
  <2> QED
    BY <1>1, <1>6, <2>1 DEF ChanOK
<1> QED
  BY <1>1, <1>2, <1>7 DEF ManagerOK, QueueOK, TablesOK, DispatchOK, LoopOK, ServeOK, history

LEMMA TellKept == ASSUME ChanOK, NEW t \in Tasks, TellWorker(t) PROVE ChanOK'
<1>1. CASE PushDown(slot[run[t].worker].obj, CancelCmd(t))
  BY <1>1, MessageTypes, SentDown
<1>2. CASE UNCHANGED chan
  BY <1>2 DEF ChanOK
<1> QED
  BY <1>1, <1>2 DEF TellWorker

LEMMA SubmitKept == ASSUME ManagerOK, NEW t \in Tasks, Submit(t) PROVE ManagerOK'
<1>1. /\ Spend("submit") /\ RowsOK /\ ~ Tracked(t) /\ queue' = Append(queue, t)
      /\ queue \in DistinctQueue
      /\ UNCHANGED <<row, chan, run, slot, counts, soft, cooling, dispatch, loop, serve, saved, history>>
  BY DEF Submit, ManagerOK, QueueOK
<1>2. RowsOK'
  BY <1>1, SpentRows DEF Kinds
<1>3. queue' \in DistinctQueue
  BY <1>1, EnqueuedDistinct
<1> QED
  BY <1>1, <1>2, <1>3 DEF ManagerOK, ChanOK, QueueOK, TablesOK, DispatchOK, LoopOK, ServeOK, history

LEMMA CancelKept ==
  ASSUME ManagerOK, NEW t \in Tasks, CancelQueued(t) \/ CancelRunning(t) PROVE ManagerOK'
<1>1. RowsOK /\ ChanOK /\ queue \in DistinctQueue
  BY DEF ManagerOK, QueueOK
<1>2. CASE CancelQueued(t)
  <2>1. queue' \in DistinctQueue
    BY <1>1, <1>2, RemovedDistinct DEF CancelQueued
  <2> QED
    BY <1>2, <2>1
       DEF CancelQueued, ManagerOK, RowsOK, ChanOK, QueueOK, TablesOK, DispatchOK, LoopOK, ServeOK,
           shared, history
<1>3. CASE CancelRunning(t)
  <2>1. ChanOK' /\ UNCHANGED <<row, budget, manager>>
    BY <1>1, <1>3, TellKept DEF CancelRunning
  <2> QED
    BY <2>1
       DEF ManagerOK, RowsOK, QueueOK, TablesOK, DispatchOK, LoopOK, ServeOK, manager, history
<1> QED
  BY <1>2, <1>3

\* The task leaves the queue before it joins its end.
LEMMA RestartKept == ASSUME ManagerOK, NEW t \in Tasks, Restart(t) PROVE ManagerOK'
<1>1. /\ RowsOK /\ ChanOK /\ queue \in DistinctQueue /\ TablesOK
      /\ queue' = IF t \in ToSet(Removed(t)) THEN Removed(t) ELSE Append(Removed(t), t)
      /\ run' = [run EXCEPT ![t] = NoRecord]
      /\ TellWorker(t)
      /\ refusals' = [refusals EXCEPT ![t] = 0]
      /\ UNCHANGED <<row, budget, slot, counts, soft, cooling, dispatch, loop, serve, saved, given>>
  BY DEF Restart, ManagerOK, QueueOK
<1>2. queue' \in DistinctQueue
  BY <1>1, RemovedDistinct, AppendDistinct
<1>3. ChanOK'
  BY <1>1, TellKept
<1>4. run' \in [Tasks -> Record] /\ refusals' \in [Tasks -> Nat]
  BY <1>1, RecordTypes DEF TablesOK
<1> QED
  BY <1>1, <1>2, <1>3, <1>4 DEF ManagerOK, RowsOK, QueueOK, TablesOK, DispatchOK, LoopOK, ServeOK

-----------------------------------------------------------------------------
(* The state file.                                                         *)

LEMMA PersistKept == ASSUME ManagerOK, Persist PROVE ManagerOK'
BY DEF Persist, ManagerOK, RowsOK, ChanOK, QueueOK, TablesOK, DispatchOK, LoopOK, ServeOK, shared, history

\* The queue of the file, the running rows it does not name, the pending rows
\* neither names: no task twice.
LEMMA ManagerRestartKept == ASSUME ManagerOK, ManagerRestart PROVE ManagerOK'
<1> DEFINE running == {t \in Tasks : row[t].status = "running" /\ ~ row[t].deleted}
           known   == saved.queue \o SetToSeq(running \ ToSet(saved.queue))
           records == IF running = {} THEN saved.run ELSE [t \in Tasks |-> NoRecord]
           pending == {t \in Tasks : /\ row[t].status = "pending" /\ ~ row[t].deleted
                                     /\ row[t].disp = None /\ row[t].age = "none"
                                     /\ t \notin ToSet(known) /\ records[t].worker = None}
<1>1. /\ Spend("restart") /\ RowsOK /\ ChanOK
      /\ row' = [t \in Tasks |-> IF t \in running THEN Requeued(row[t]) ELSE row[t]]
      /\ queue' = known \o SetToSeq(pending)
      /\ run' = records
      /\ slot' = [w \in Workers |-> NoSlot]
      /\ counts' = [t \in Tasks |-> 0] /\ soft' = [t \in Tasks |-> 0]
      /\ cooling' = [t \in Tasks |-> FALSE]
      /\ dispatch' = NoDispatch
      /\ loop' = [l \in Loops |-> IdleLoop]
      /\ serve' = [c \in Conns |-> IF chan[c].worker = None THEN Fresh
                                   ELSE [Reading EXCEPT !.pc = "ended"]]
      /\ chan' = [c \in Conns |-> [NoConn EXCEPT !.worker = chan[c].worker]]
      /\ UNCHANGED <<saved, history>>
  BY DEF ManagerRestart, ManagerOK
<1>2. saved.queue \in DistinctQueue /\ saved.run \in [Tasks -> Record]
  BY DEF ManagerOK, QueueOK
<1>3. known \in DistinctQueue
  <2>1. /\ SetToSeq(running \ ToSet(saved.queue)) \in DistinctQueue
        /\ ToSet(SetToSeq(running \ ToSet(saved.queue))) = running \ ToSet(saved.queue)
    <3>1. running \ ToSet(saved.queue) \in SUBSET Tasks
      OBVIOUS
    <3> QED
      BY <3>1, OrderedDistinct
  <2> QED
    BY <1>2, <2>1, JoinDistinct
<1>4. pending \subseteq Tasks /\ pending \cap ToSet(known) = {}
  OBVIOUS
<1> HIDE DEF known, pending
<1>5. queue' \in DistinctQueue
  <2>1. SetToSeq(pending) \in DistinctQueue /\ ToSet(SetToSeq(pending)) = pending
    BY <1>4, OrderedDistinct
  <2> QED
    BY <1>1, <1>3, <1>4, <2>1, JoinDistinct
<1>6. run' \in [Tasks -> Record]
  BY <1>1, <1>2, RecordTypes
<1> HIDE DEF records
<1>7. RowsOK'
  <2>1. \A t \in Tasks : Requeued(row[t]) \in Row /\ Requeued(row[t]).epoch = row[t].epoch
    BY <1>1 DEF RowsOK, Row, Requeued, Active, Terminal
  <2>2. row' \in [Tasks -> Row] /\ \A t \in Tasks : row'[t].epoch = row[t].epoch
    BY <1>1, <2>1 DEF RowsOK
  <2>3. budget' \in Budgets /\ budget'.claim <= budget.claim
    BY <1>1, SpendOK DEF Kinds
  <2>4. \A t \in Tasks : row[t].epoch \in Nat /\ budget.claim \in Nat /\ budget'.claim \in Nat
    BY <1>1, <2>3, NetAssumption DEF RowsOK, Row, Budgets
  <2> QED
    BY <1>1, <2>2, <2>3, <2>4, NetAssumption DEF RowsOK
<1>8. ChanOK'
  <2>1. \A w \in Workers \cup {None} : [NoConn EXCEPT !.worker = w] \in Conn
    BY RecordTypes DEF Conn
  <2>2. \A c \in Conns : chan[c].worker \in Workers \cup {None}
    BY <1>1 DEF ChanOK, Conn
  <2> QED
    BY <1>1, <2>1, <2>2 DEF ChanOK
<1>9. slot' \in [Workers -> Slot] /\ dispatch' \in DispatchType /\ dispatch'.pc = "idle"
  BY <1>1, RecordTypes
<1>10. loop' \in [Loops -> Loop] /\ \A l \in Loops : loop'[l].pc = "idle"
  BY <1>1, RecordTypes
<1>11. ServeOK'
  <2>1. [Reading EXCEPT !.pc = "ended"] \in Serve /\ [Reading EXCEPT !.pc = "ended"].pc = "ended"
    BY NetAssumption DEF Reading, Serve, Reports
  <2> QED
    BY <1>1, <2>1, RecordTypes DEF ServeOK
<1>12. counts' \in [Tasks -> Nat] /\ soft' \in [Tasks -> Nat] /\ cooling' \in [Tasks -> BOOLEAN]
  BY <1>1
<1> QED
  BY <1>1, <1>5, <1>6, <1>7, <1>8, <1>9, <1>10, <1>11, <1>12
     DEF ManagerOK, QueueOK, TablesOK, DispatchOK, LoopOK, history

LEMMA LoopStepKept ==
  ASSUME ManagerOK, NEW l \in Loops,
         LoopRequeue(l) \/ LoopAppend(l) \/ LoopSoft(l) \/ LoopFail(l) \/ LoopCool(l)
  PROVE  ManagerOK'
BY LoopRequeueKept, LoopAppendKept, LoopSoftKept, LoopFailKept, LoopCoolKept

\* Every step of the manager keeps the invariant of the manager.
LEMMA ManagerKept == ManagerOK /\ ManagerNext => ManagerOK'
<1> SUFFICES ASSUME ManagerOK, ManagerNext PROVE ManagerOK'
  OBVIOUS
<1>1. CASE DispatchPick \/ DispatchStep
  BY <1>1, PickKept, AssignKept, ClaimKept, SendKept, UndoKept DEF DispatchStep
<1>2. CASE ReconcileScan \/ MemoryStep
  <2>1. CASE ReconcileScan
    BY <2>1, ScanKept
  <2>2. CASE MemoryLoopEnds
    BY <2>2, SmallLoopSteps
  <2>3. CASE \/ LoopRequeue("memory") \/ LoopAppend("memory") \/ LoopSoft("memory")
             \/ LoopFail("memory") \/ LoopCool("memory")
    BY <2>3, LoopStepKept DEF Loops
  <2> QED
    BY <1>2, <2>1, <2>2, <2>3 DEF MemoryStep
<1>3. CASE DbStep
  <2>1. CASE \/ LoopRequeue("db") \/ LoopAppend("db") \/ LoopSoft("db")
             \/ LoopFail("db") \/ LoopCool("db")
    BY <2>1, LoopStepKept DEF Loops
  <2> QED
    BY <1>3, <2>1, QueryKept, ClassifyKept, HealKept, RepairKept, EnqueueKept DEF DbStep
<1>4. CASE \E c \in Conns : ServeStep(c)
  <2>1. PICK c \in Conns : ServeStep(c)
    BY <1>4
  <2>2. CASE ServeHello(c) \/ ServeState(c) \/ ServeEnd(c)
    BY <2>2, HelloKept, StateKept, ServeEndKept
  <2>3. CASE ServeRequeue(c) \/ ServeRequeued(c)
    BY <2>3, ServeRequeueKept, ServeRequeuedKept
  <2>4. CASE ServeFinalize(c) \/ ServeWrite(c) \/ ServeFinalized(c)
    BY <2>4, ServeFinalizeKept, ServeWriteKept, ServeFinalizedKept
  <2> QED
    BY <2>1, <2>2, <2>3, <2>4 DEF ServeStep
<1>5. CASE (\E t \in Tasks : CooldownEnds(t)) \/ Persist
  BY <1>5, SmallLoopSteps, PersistKept
<1> QED
  BY <1>1, <1>2, <1>3, <1>4, <1>5 DEF ManagerNext

-----------------------------------------------------------------------------
(* The runners.  Each step keeps the parts of the invariant about shared   *)
(* variables, control processes and task processes.                        *)

RunnerOK == RowsOK /\ ChanOK /\ ControlOK /\ ProcessOK

LEMMA ControlMoves ==
  ASSUME ControlOK, NEW w, NEW k \in Control,
         k.pc \in {"spawn", "kill"} => k.task \in Tasks,
         k.pc = "spawn" => k.epoch \in 1 .. MaxClaims,
         wc' = [wc EXCEPT ![w] = k]
  PROVE  ControlOK'
<1>1. /\ wc' \in [Workers -> Control]
      /\ \A v \in Workers : wc'[v] = IF v = w THEN k ELSE wc[v]
  BY DEF ControlOK
<1> QED
  BY <1>1 DEF ControlOK

\* A control process that stays with its task leaves its process as it is.
LEMMA SameTask ==
  ASSUME ControlOK, ProcessOK, NEW w, NEW k, k.pc = "spawn" => wc[w].pc = "spawn",
         k.task = wc[w].task, k.epoch = wc[w].epoch,
         wc' = [wc EXCEPT ![w] = k], UNCHANGED <<procs, begun>>
  PROVE  ProcessOK'
<1>1. \A v \in Workers : wc'[v] = IF v = w THEN k ELSE wc[v]
  BY DEF ControlOK
<1>2. \A p \in procs : p.worker \in Workers
  BY DEF ProcessOK, Process
<1> QED
  BY <1>1, <1>2 DEF ProcessOK, OneProcess

\* The processes of a worker that has given up its task are gone.
LEMMA NoTask ==
  ASSUME ControlOK, ProcessOK, NEW w, NEW k, wc' = [wc EXCEPT ![w] = k],
         procs' = {p \in procs : p.worker # w}, begun' = begun
  PROVE  ProcessOK'
<1>1. \A v \in Workers : v # w => wc'[v] = wc[v]
  BY DEF ControlOK
<1>2. \A p \in procs : p.worker \in Workers
  BY DEF ProcessOK, Process
<1> QED
  BY <1>1, <1>2 DEF ProcessOK, OneProcess

LEMMA ControlTypes ==
  ASSUME NEW k \in Control
  PROVE  /\ \A pc \in {"ready", "kill", "dead"} : /\ [k EXCEPT !.pc = pc] \in Control
                                                 /\ [k EXCEPT !.pc = pc].pc = pc
                                                 /\ [k EXCEPT !.pc = pc].task = k.task
                                                 /\ [k EXCEPT !.pc = pc].epoch = k.epoch
         /\ \A c \in 0 .. MaxConn : [k EXCEPT !.sock = c] \in Control
         /\ \A c \in 0 .. MaxConn, pc \in {"ready", "dead"} :
               /\ [NewControl EXCEPT !.sock = c, !.pc = pc] \in Control
               /\ [NewControl EXCEPT !.sock = c, !.pc = pc].pc = pc
<1>1. 0 \in 0 .. MaxClaims /\ 0 \in 0 .. MaxConn
  BY NetAssumption
<1> QED
  BY <1>1 DEF Control, NewControl

LEMMA HandledTypes == \A w : Handled(w) \subseteq {"ready", "dead"}
BY DEF Handled

\* The first command of a connection is taken.
LEMMA CommandTaken ==
  ASSUME ChanOK, ControlOK, NEW w \in Workers, Commanded(w)
  PROVE  /\ Command(w) \in DownMsg /\ wc[w].sock \in Conns /\ wc[w].pc = "ready"
         /\ chan[wc[w].sock] \in Conn /\ Tail(chan[wc[w].sock].down) \in Seq(DownMsg)
<1>1. wc[w] \in Control /\ wc[w].sock # 0 /\ wc[w].pc = "ready"
  BY DEF Commanded, ControlOK
<1>2. wc[w].sock \in Conns
  BY <1>1, NetAssumption DEF Control, Conns
<1>3. /\ chan[wc[w].sock] \in Conn /\ chan[wc[w].sock].down \in Seq(DownMsg)
      /\ chan[wc[w].sock].down # <<>>
  BY <1>2 DEF ChanOK, Conn, Commanded
<1>4. /\ Head(chan[wc[w].sock].down) \in DownMsg
      /\ Tail(chan[wc[w].sock].down) \in Seq(DownMsg)
  BY <1>3
<1> QED
  BY <1>1, <1>2, <1>3, <1>4 DEF Command

LEMMA TakenDown ==
  ASSUME ChanOK, NEW c \in Conns, NEW s \in Seq(DownMsg), chan' = [chan EXCEPT ![c].down = s]
  PROVE  ChanOK'
<1>1. chan[c] \in Conn
  BY DEF ChanOK
<1>2. [chan[c] EXCEPT !.down = s] \in Conn
  BY <1>1 DEF Conn
<1> QED
  BY <1>2 DEF ChanOK

LEMMA Answered ==
  ASSUME ChanOK, NEW c \in Conns, Tail(chan[c].down) \in Seq(DownMsg), NEW m \in UpMsg, Answer(c, m)
  PROVE  ChanOK'
<1> DEFINE up == IF chan[c].open THEN Append(chan[c].up, m) ELSE chan[c].up
           s  == Tail(chan[c].down)
<1>1. chan[c] \in Conn /\ chan[c].up \in Seq(UpMsg)
  BY DEF ChanOK, Conn
<1>2. up \in Seq(UpMsg) /\ s \in Seq(DownMsg)
  BY <1>1
<1>3. chan' = [chan EXCEPT ![c] = [chan[c] EXCEPT !.down = s, !.up = up]]
  BY <1>1 DEF Answer, ChanOK, Conn
<1> HIDE DEF up, s
<1>4. [chan[c] EXCEPT !.down = s, !.up = up] \in Conn
  BY <1>1, <1>2 DEF Conn
<1> QED
  BY <1>3, <1>4 DEF ChanOK

LEMMA ConnectKept == ASSUME RunnerOK, NEW w \in Workers, Connect(w) PROVE RunnerOK'
<1> DEFINE c == Cardinality(Opened) + 1
           n == [worker |-> w, open |-> TRUE, up |-> <<Hello>>, down |-> <<>>]
           k == [wc[w] EXCEPT !.sock = c]
<1>1. /\ c \in Conns /\ chan' = [chan EXCEPT ![c] = n] /\ wc' = [wc EXCEPT ![w] = k]
      /\ wc[w].pc = "ready" /\ wc[w] \in Control
      /\ UNCHANGED <<row, budget, procs, begun>>
  BY DEF Connect, RunnerOK, ControlOK
<1> HIDE DEF c
<1>2. n \in Conn
  <2>1. <<Hello>> \in Seq(UpMsg) /\ <<>> \in Seq(DownMsg)
    BY MessageTypes
  <2> QED
    BY <2>1 DEF Conn
<1> HIDE DEF n
<1>3. ChanOK'
  BY <1>1, <1>2 DEF RunnerOK, ChanOK
<1>4. k \in Control
  <2>1. c \in 0 .. MaxConn
    BY <1>1, NetAssumption DEF Conns
  <2> QED
    BY <1>1, <2>1, ControlTypes
<1>5. k.pc = "ready" /\ k.task = wc[w].task /\ k.epoch = wc[w].epoch
  BY <1>1 DEF Control
<1> HIDE DEF k
<1>6. ControlOK'
  BY <1>1, <1>4, <1>5, ControlMoves DEF RunnerOK
<1>7. ProcessOK'
  BY <1>1, <1>5, SameTask DEF RunnerOK
<1> QED
  BY <1>1, <1>3, <1>6, <1>7 DEF RunnerOK, RowsOK

LEMMA DisconnectKept == ASSUME RunnerOK, NEW w \in Workers, Disconnect(w) PROVE RunnerOK'
<1> DEFINE k == [wc[w] EXCEPT !.sock = 0]
<1>1. /\ wc' = [wc EXCEPT ![w] = k] /\ wc[w].pc = "ready" /\ wc[w] \in Control
      /\ UNCHANGED <<shared, procs, begun>>
  BY DEF Disconnect, RunnerOK, ControlOK
<1>2. k \in Control
  <2>1. 0 \in 0 .. MaxConn
    BY NetAssumption
  <2> QED
    BY <1>1, <2>1, ControlTypes
<1>3. k.pc = "ready" /\ k.task = wc[w].task /\ k.epoch = wc[w].epoch
  BY <1>1 DEF Control
<1> HIDE DEF k
<1>4. ControlOK'
  BY <1>1, <1>2, <1>3, ControlMoves DEF RunnerOK
<1>5. ProcessOK'
  BY <1>1, <1>3, SameTask DEF RunnerOK
<1> QED
  BY <1>1, <1>4, <1>5 DEF RunnerOK, RowsOK, ChanOK, shared

\* The control process answers a command that it does not act on.
LEMMA AnsweredKept ==
  ASSUME RunnerOK, NEW w \in Workers, Commanded(w), NEW s \in Reports,
         Answer(wc[w].sock, State(Command(w).task, s)),
         NEW pc \in {"ready", "dead"}, wc' = [wc EXCEPT ![w].pc = pc],
         UNCHANGED <<row, budget, procs, begun>>
  PROVE  RunnerOK'
<1> DEFINE k == [wc[w] EXCEPT !.pc = pc]
<1>1. wc[w] \in Control /\ wc' = [wc EXCEPT ![w] = k]
  BY DEF RunnerOK, ControlOK
<1>2. k \in Control /\ k.pc = pc /\ k.task = wc[w].task /\ k.epoch = wc[w].epoch
  <2>1. pc \in {"ready", "kill", "dead"}
    OBVIOUS
  <2>2. k \in Control
    BY <1>1, <2>1, ControlTypes
  <2> QED
    BY <1>1, <2>2 DEF Control
<1> HIDE DEF k
<1>3. ControlOK'
  BY <1>1, <1>2, ControlMoves DEF RunnerOK
<1>4. ProcessOK'
  BY <1>1, <1>2, SameTask DEF RunnerOK
<1>5. ChanOK'
  <2>1. /\ Command(w) \in DownMsg /\ wc[w].sock \in Conns
        /\ Tail(chan[wc[w].sock].down) \in Seq(DownMsg)
    BY CommandTaken DEF RunnerOK
  <2>2. State(Command(w).task, s) \in UpMsg
    BY <2>1, MessageTypes
  <2> QED
    BY <2>1, <2>2, Answered DEF RunnerOK
<1> QED
  BY <1>3, <1>4, <1>5 DEF RunnerOK, RowsOK

LEMMA OnRunKept == ASSUME RunnerOK, NEW w \in Workers, OnRun(w) PROVE RunnerOK'
<1> DEFINE m == Command(w)
           c == wc[w].sock
<1>1. /\ Commanded(w) /\ m.type = "run" /\ UNCHANGED <<row, budget, procs, begun>>
      /\ m \in DownMsg /\ c \in Conns /\ Tail(chan[c].down) \in Seq(DownMsg)
  BY CommandTaken DEF OnRun, RunnerOK
<1>2. CASE /\ Answer(c, State(m.task, "refused"))
           /\ \E pc \in Handled(w) : wc' = [wc EXCEPT ![w].pc = pc]
  <2>1. PICK pc \in Handled(w) : wc' = [wc EXCEPT ![w].pc = pc]
    BY <1>2
  <2>2. pc \in {"ready", "dead"} /\ "refused" \in Reports
    BY HandledTypes DEF Reports
  <2> QED
    BY <1>1, <1>2, <2>1, <2>2, AnsweredKept
<1>3. CASE /\ ~ Busy(w)
           /\ chan' = [chan EXCEPT ![c].down = Tail(@)]
           /\ wc' = [wc EXCEPT ![w].pc = "spawn", ![w].task = m.task, ![w].epoch = m.epoch]
  <2>1. ChanOK'
    BY <1>1, <1>3, TakenDown DEF RunnerOK
  <2> DEFINE k == [wc[w] EXCEPT !.pc = "spawn", !.task = m.task, !.epoch = m.epoch]
  <2>2. wc[w] \in Control /\ wc' = [wc EXCEPT ![w] = k]
    BY <1>3 DEF RunnerOK, ControlOK
  <2>3. m.task \in Tasks /\ m.epoch \in 1 .. MaxClaims /\ m.epoch \in 0 .. MaxClaims
    <3>1. m.task \in Tasks /\ m.epoch \in 1 .. MaxClaims
      BY <1>1, MessageTypes
    <3> QED
      BY <3>1, NetAssumption
  <2> HIDE DEF m
  <2>4. k \in Control /\ k.pc = "spawn" /\ k.task = m.task /\ k.epoch = m.epoch
    BY <2>2, <2>3 DEF Control
  <2> HIDE DEF k
  <2>5. ControlOK'
    BY <2>2, <2>3, <2>4, ControlMoves DEF RunnerOK
  <2>6. \A p \in procs : p.worker # w
    BY <1>3, NetAssumption DEF RunnerOK, ProcessOK, Process, Busy
  <2>7. procs' = {p \in procs : p.worker # w} /\ begun' = begun
    BY <1>1, <2>6
  <2>8. ProcessOK'
    BY <2>2, <2>7, NoTask DEF RunnerOK
  <2> QED
    BY <1>1, <2>1, <2>5, <2>8 DEF RunnerOK, RowsOK
<1> QED
  BY <1>2, <1>3 DEF OnRun

LEMMA OnCancelKept == ASSUME RunnerOK, NEW w \in Workers, OnCancel(w) PROVE RunnerOK'
<1> DEFINE m == Command(w)
           c == wc[w].sock
<1>1. /\ Commanded(w) /\ UNCHANGED <<row, budget, procs, begun>>
      /\ m \in DownMsg /\ c \in Conns /\ Tail(chan[c].down) \in Seq(DownMsg)
  BY CommandTaken DEF OnCancel, RunnerOK
<1>2. CASE /\ Answer(c, State(m.task, "cancelled"))
           /\ \E pc \in Handled(w) : wc' = [wc EXCEPT ![w].pc = pc]
  <2>1. PICK pc \in Handled(w) : wc' = [wc EXCEPT ![w].pc = pc]
    BY <1>2
  <2>2. pc \in {"ready", "dead"} /\ "cancelled" \in Reports
    BY HandledTypes DEF Reports
  <2> QED
    BY <1>1, <1>2, <2>1, <2>2, AnsweredKept
<1>3. CASE /\ wc[w].task = m.task
           /\ chan' = [chan EXCEPT ![c].down = Tail(@)]
           /\ wc' = [wc EXCEPT ![w].pc = "kill"]
  <2>1. ChanOK'
    BY <1>1, <1>3, TakenDown DEF RunnerOK
  <2> DEFINE k == [wc[w] EXCEPT !.pc = "kill"]
  <2>2. wc[w] \in Control /\ wc' = [wc EXCEPT ![w] = k]
    BY <1>3 DEF RunnerOK, ControlOK
  <2>3. k \in Control /\ k.pc = "kill" /\ k.task = wc[w].task /\ k.epoch = wc[w].epoch
    BY <2>2, ControlTypes
  <2>4. wc[w].task \in Tasks
    BY <1>1, <1>3, MessageTypes
  <2> HIDE DEF k
  <2>5. ControlOK'
    BY <2>2, <2>3, <2>4, ControlMoves DEF RunnerOK
  <2>6. ProcessOK'
    BY <1>1, <2>2, <2>3, SameTask DEF RunnerOK
  <2> QED
    BY <1>1, <2>1, <2>5, <2>6 DEF RunnerOK, RowsOK
<1> QED
  BY <1>2, <1>3 DEF OnCancel

LEMMA SpawnKept == ASSUME RunnerOK, NEW w \in Workers, Spawn(w) PROVE RunnerOK'
<1> DEFINE t == wc[w].task
           e == wc[w].epoch
           c == wc[w].sock
           p == [worker |-> w, task |-> t, epoch |-> e, pc |-> "start"]
<1>1. /\ wc[w].pc = "spawn" /\ wc[w] \in Control /\ t \in Tasks /\ e \in 1 .. MaxClaims
      /\ row' = row /\ c \in 0 .. MaxConn
  BY DEF Spawn, RunnerOK, ControlOK, Control
<1>2. \A q \in procs : q.worker # w
  BY <1>1 DEF RunnerOK, ProcessOK
<1>3. PICK pc \in Handled(w) :
           \/ /\ procs' = procs \cup {p}
              /\ begun' = begun \cup {<<t, e, w>>}
              /\ wc' = [wc EXCEPT ![w].pc = pc]
              /\ UNCHANGED <<chan, budget>>
           \/ /\ Spend("refuse")
              /\ PushUp(c, State(t, "refused"))
              /\ wc' = [wc EXCEPT ![w] = [NewControl EXCEPT !.sock = c, !.pc = pc]]
              /\ UNCHANGED <<procs, begun>>
  BY DEF Spawn
<1>4. pc \in {"ready", "dead"}
  BY HandledTypes
<1>5. CASE /\ procs' = procs \cup {p}
           /\ begun' = begun \cup {<<t, e, w>>}
           /\ wc' = [wc EXCEPT ![w].pc = pc]
           /\ UNCHANGED <<chan, budget>>
  <2> DEFINE k == [wc[w] EXCEPT !.pc = pc]
  <2>1. wc' = [wc EXCEPT ![w] = k] /\ k \in Control /\ k.pc = pc /\ k.task = t /\ k.epoch = e
    <3>1. pc \in {"ready", "kill", "dead"} /\ wc' = [wc EXCEPT ![w] = k]
      BY <1>4, <1>5
    <3>2. k \in Control
      BY <1>1, <3>1, ControlTypes
    <3> QED
      BY <1>1, <3>1, <3>2 DEF Control
  <2> HIDE DEF k
  <2>2. ControlOK'
    BY <1>4, <2>1, ControlMoves DEF RunnerOK
  <2>3. \A v \in Workers : wc'[v] = IF v = w THEN k ELSE wc[v]
    BY <2>1 DEF RunnerOK, ControlOK
  <2>4. p \in Process /\ p.worker = w /\ p.task = t /\ p.epoch = e
    BY <1>1 DEF Process
  <2> HIDE DEF p
  <2>5. \A q \in procs' : q = p \/ (q \in procs /\ q.worker \in Workers /\ q.worker # w)
    BY <1>2, <1>5 DEF RunnerOK, ProcessOK, Process
  <2>6. \A q \in procs' : /\ wc'[q.worker].pc # "spawn"
                          /\ wc'[q.worker].task = q.task /\ wc'[q.worker].epoch = q.epoch
    BY <1>4, <2>1, <2>3, <2>4, <2>5 DEF RunnerOK, ProcessOK
  <2>7. OneProcess'
    BY <2>4, <2>5 DEF RunnerOK, ProcessOK, OneProcess
  <2>8. procs' \subseteq Process /\ begun' \subseteq (Tasks \X (1 .. MaxClaims) \X Workers)
    BY <1>1, <1>5, <2>4 DEF RunnerOK, ProcessOK
  <2>9. ProcessOK'
    BY <2>6, <2>7, <2>8 DEF ProcessOK
  <2> QED
    BY <1>1, <1>5, <2>2, <2>9 DEF RunnerOK, RowsOK, ChanOK
<1>6. CASE /\ Spend("refuse")
           /\ PushUp(c, State(t, "refused"))
           /\ wc' = [wc EXCEPT ![w] = [NewControl EXCEPT !.sock = c, !.pc = pc]]
           /\ UNCHANGED <<procs, begun>>
  <2> DEFINE k == [NewControl EXCEPT !.sock = c, !.pc = pc]
  <2>1. k \in Control /\ k.pc = pc
    BY <1>1, <1>4, ControlTypes
  <2>2. wc' = [wc EXCEPT ![w] = k]
    BY <1>6
  <2> HIDE DEF k
  <2>3. ControlOK'
    BY <1>4, <2>1, <2>2, ControlMoves DEF RunnerOK
  <2>4. procs' = {q \in procs : q.worker # w} /\ begun' = begun
    BY <1>2, <1>6
  <2>5. ProcessOK'
    BY <2>2, <2>4, NoTask DEF RunnerOK
  <2>6. RowsOK'
    BY <1>1, <1>6, SpentRows DEF RunnerOK, Kinds
  <2>7. State(t, "refused") \in UpMsg
    BY <1>1, MessageTypes DEF Reports
  <2>8. ChanOK'
    BY <1>6, <2>7, SentUp DEF RunnerOK
  <2> QED
    BY <2>3, <2>5, <2>6, <2>8 DEF RunnerOK
<1> QED
  BY <1>3, <1>5, <1>6

LEMMA KillKept == ASSUME RunnerOK, NEW w \in Workers, Kill(w) PROVE RunnerOK'
<1> DEFINE c == wc[w].sock
           t == wc[w].task
<1>1. /\ wc[w].pc = "kill" /\ wc[w] \in Control /\ t \in Tasks /\ c \in 0 .. MaxConn
      /\ procs' = {p \in procs : ~ (p.worker = w /\ p.task = t /\ p.epoch = wc[w].epoch)}
      /\ PushUp(c, State(t, "cancelled"))
      /\ UNCHANGED <<row, budget, begun>>
  BY DEF Kill, RunnerOK, ControlOK, Control
<1>2. PICK pc \in Handled(w) : wc' = [wc EXCEPT ![w] = [NewControl EXCEPT !.sock = c, !.pc = pc]]
  BY DEF Kill
<1>3. pc \in {"ready", "dead"}
  BY HandledTypes
<1> DEFINE k == [NewControl EXCEPT !.sock = c, !.pc = pc]
<1>4. k \in Control /\ k.pc = pc /\ wc' = [wc EXCEPT ![w] = k]
  BY <1>1, <1>2, <1>3, ControlTypes
<1> HIDE DEF k
<1>5. ControlOK'
  BY <1>3, <1>4, ControlMoves DEF RunnerOK
<1>6. procs' = {p \in procs : p.worker # w}
  BY <1>1 DEF RunnerOK, ProcessOK
<1>7. ProcessOK'
  BY <1>1, <1>4, <1>6, NoTask DEF RunnerOK
<1>8. State(t, "cancelled") \in UpMsg
  BY <1>1, MessageTypes DEF Reports
<1>9. ChanOK'
  BY <1>1, <1>8, SentUp DEF RunnerOK
<1> QED
  BY <1>1, <1>5, <1>7, <1>9 DEF RunnerOK, RowsOK

LEMMA ReapKept == ASSUME RunnerOK, NEW w \in Workers, Reap(w) PROVE RunnerOK'
<1> DEFINE c == wc[w].sock
           k == [wc[w] EXCEPT !.task = None, !.epoch = 0]
<1>1. /\ Current(w) # None /\ wc[w] \in Control
      /\ wc' = [wc EXCEPT ![w] = k] /\ UNCHANGED <<row, budget, begun>>
  BY DEF Reap, RunnerOK, ControlOK
<1>2. PICK p \in procs :
        /\ p.worker = w
        /\ procs' = procs \ {p}
        /\ IF c = 0 THEN UNCHANGED chan
           ELSE PushUp(c, State(p.task, IF p.pc = "exit" THEN "finished" ELSE "failed"))
  BY DEF Reap
<1>3. k \in Control /\ k.pc \in {"ready", "dead"}
  <2>1. wc[w].pc \in {"ready", "dead"} /\ 0 \in 0 .. MaxClaims
    BY <1>1, NetAssumption DEF Current
  <2> QED
    BY <1>1, <2>1 DEF Control
<1> HIDE DEF k
<1>4. ControlOK'
  BY <1>1, <1>3, ControlMoves DEF RunnerOK
<1>5. procs' = {q \in procs : q.worker # w}
  BY <1>2 DEF RunnerOK, ProcessOK, OneProcess
<1>6. ProcessOK'
  BY <1>1, <1>5, NoTask DEF RunnerOK
<1>7. ChanOK'
  <2>1. p.task \in Tasks /\ "finished" \in Reports /\ "failed" \in Reports
    BY <1>2 DEF RunnerOK, ProcessOK, Process, Reports
  <2>2. State(p.task, IF p.pc = "exit" THEN "finished" ELSE "failed") \in UpMsg
    BY <2>1, MessageTypes
  <2>3. CASE UNCHANGED chan
    BY <2>3 DEF RunnerOK, ChanOK
  <2>4. CASE PushUp(c, State(p.task, IF p.pc = "exit" THEN "finished" ELSE "failed"))
    BY <2>2, <2>4, SentUp DEF RunnerOK
  <2> QED
    BY <1>2, <2>3, <2>4
<1> QED
  BY <1>1, <1>4, <1>6, <1>7 DEF RunnerOK, RowsOK

LEMMA CrashKept == ASSUME RunnerOK, NEW w \in Workers, WorkerCrash(w) PROVE RunnerOK'
<1> DEFINE c == wc[w].sock
<1>1. /\ Spend("crash") /\ wc' = [wc EXCEPT ![w] = NewControl]
      /\ procs' = {p \in procs : p.worker # w}
      /\ chan' = IF c = 0 THEN chan ELSE [chan EXCEPT ![c].open = FALSE, ![c].down = <<>>]
      /\ UNCHANGED <<row, begun>>
  BY DEF WorkerCrash
<1>2. NewControl \in Control /\ NewControl.pc = "ready"
  BY NetAssumption DEF NewControl, Control
<1>3. ControlOK'
  BY <1>1, <1>2, ControlMoves DEF RunnerOK
<1>4. ProcessOK'
  BY <1>1, NoTask DEF RunnerOK
<1>5. RowsOK'
  BY <1>1, SpentRows DEF RunnerOK, Kinds
<1>6. ChanOK'
  <2>1. CASE c = 0
    BY <1>1, <2>1 DEF RunnerOK, ChanOK
  <2>2. CASE c # 0
    <3>1. c \in Conns
      BY <2>2, NetAssumption DEF RunnerOK, ControlOK, Control, Conns
    <3>2. chan[c] \in Conn
      BY <3>1 DEF RunnerOK, ChanOK
    <3>3. [chan[c] EXCEPT !.open = FALSE, !.down = <<>>] \in Conn
      <4>1. <<>> \in Seq(DownMsg)
        OBVIOUS
      <4> QED
        BY <3>2, <4>1 DEF Conn
    <3>4. chan' = [chan EXCEPT ![c] = [chan[c] EXCEPT !.open = FALSE, !.down = <<>>]]
      BY <1>1, <2>2, <3>1, <3>2 DEF RunnerOK, ChanOK, Conn
    <3> QED
      BY <3>3, <3>4 DEF RunnerOK, ChanOK
  <2> QED
    BY <2>1, <2>2
<1> QED
  BY <1>3, <1>4, <1>5, <1>6 DEF RunnerOK

\* A task process moves; it stays the only one of its worker.
LEMMA Moved ==
  ASSUME ProcessOK, NEW p \in procs, NEW pc \in {"run", "persist", "raised", "error", "exit", "dead"},
         Becomes(p, pc), UNCHANGED <<wc, begun>>
  PROVE  ProcessOK'
<1> DEFINE n == [p EXCEPT !.pc = pc]
<1>1. n \in Process /\ n.worker = p.worker /\ n.task = p.task /\ n.epoch = p.epoch
  BY DEF ProcessOK, Process
<1>2. procs' = (procs \ {p}) \cup {n}
  BY DEF Becomes
<1> HIDE DEF n
<1> QED
  BY <1>1, <1>2 DEF ProcessOK, OneProcess

LEMMA SettledTypes ==
  ASSUME NEW r \in Row, NEW s \in Outcomes \cup {"error"}
  PROVE  Settled(r, s) \in Row /\ Settled(r, s).epoch = r.epoch
BY OutcomesAssumption DEF Row, Settled, Active, Terminal

LEMMA RowIs ==
  ASSUME RowsOK, NEW t \in Tasks, NEW r \in Row, r.epoch = row[t].epoch,
         row' = [row EXCEPT ![t] = r], UNCHANGED budget
  PROVE  RowsOK'
<1>1. budget' \in Budgets /\ budget'.claim <= budget.claim
  BY NetAssumption DEF RowsOK, Budgets
<1> QED
  BY <1>1, RowWritten

LEMMA ProcessStepKept ==
  ASSUME RunnerOK, NEW p \in procs, ProcStep(p) \/ ProcEnds(p) \/ ProcDies(p) PROVE RunnerOK'
<1>1. p.task \in Tasks /\ row[p.task] \in Row
  BY DEF RunnerOK, ProcessOK, Process, RowsOK
<1>2. UNCHANGED <<chan, wc, begun>>
  BY DEF ProcStep, ProcStart, ProcEnds, ProcPersist, ProcError, ProcWrite, ProcDies, shared
<1>3. \E pc \in {"run", "persist", "raised", "error", "exit", "dead"} : Becomes(p, pc)
  BY DEF ProcStep, ProcStart, ProcEnds, ProcPersist, ProcError, ProcWrite, ProcDies
<1>4. ProcessOK'
  BY <1>2, <1>3, Moved DEF RunnerOK
<1>5. CASE UNCHANGED <<row, budget>>
  BY <1>2, <1>4, <1>5 DEF RunnerOK, RowsOK, ChanOK, ControlOK
<1>6. CASE row' = row /\ (Spend("db") \/ Spend("die"))
  <2>1. RowsOK'
    BY <1>6, SpentRows DEF RunnerOK, Kinds
  <2> QED
    BY <1>2, <1>4, <2>1 DEF RunnerOK, ChanOK, ControlOK
<1>7. CASE budget' = budget /\ row' = [row EXCEPT ![p.task].age = "fresh"]
  <2> DEFINE r == [row[p.task] EXCEPT !.age = "fresh"]
  <2>1. r \in Row /\ r.epoch = row[p.task].epoch /\ row' = [row EXCEPT ![p.task] = r]
    BY <1>1, <1>7 DEF Row
  <2> HIDE DEF r
  <2>2. RowsOK'
    BY <1>1, <1>7, <2>1, RowIs DEF RunnerOK
  <2> QED
    BY <1>2, <1>4, <2>2 DEF RunnerOK, ChanOK, ControlOK
<1>8. CASE /\ budget' = budget
           /\ \E s \in Outcomes \cup {"error"} : row' = [row EXCEPT ![p.task] = Settled(row[p.task], s)]
  <2>1. PICK s \in Outcomes \cup {"error"} : row' = [row EXCEPT ![p.task] = Settled(row[p.task], s)]
    BY <1>8
  <2>2. RowsOK'
    BY <1>1, <1>8, <2>1, SettledTypes, RowIs DEF RunnerOK
  <2> QED
    BY <1>2, <1>4, <2>2 DEF RunnerOK, ChanOK, ControlOK
<1>9. CASE ProcStart(p) \/ ProcEnds(p) \/ ProcError(p) \/ ProcDies(p)
  BY <1>5, <1>6, <1>7, <1>9 DEF ProcStart, ProcEnds, ProcError, ProcDies, shared
<1>10. CASE ProcPersist(p)
  BY <1>5, <1>6, <1>8, <1>10 DEF ProcPersist
<1>11. CASE ProcWrite(p)
  BY <1>5, <1>6, <1>8, <1>11 DEF ProcWrite
<1> QED
  BY <1>9, <1>10, <1>11 DEF ProcStep

LEMMA RunnerKept == ASSUME RunnerOK, NEW w \in Workers, WorkerNext(w) PROVE RunnerOK'
<1>1. CASE Connect(w) \/ Disconnect(w)
  BY <1>1, ConnectKept, DisconnectKept
<1>2. CASE ControlStep(w)
  BY <1>2, OnRunKept, SpawnKept, OnCancelKept, KillKept DEF ControlStep
<1>3. CASE Reap(w) \/ WorkerCrash(w)
  BY <1>3, ReapKept, CrashKept
<1>4. CASE \E p \in procs : p.worker = w /\ (ProcStep(p) \/ ProcEnds(p) \/ ProcDies(p))
  BY <1>4, ProcessStepKept
<1> QED
  BY <1>1, <1>2, <1>3, <1>4 DEF WorkerNext

-----------------------------------------------------------------------------
(* The API handlers, and the whole.                                        *)

LEMMA ApiRows ==
  ASSUME NEW r \in Row
  PROVE  /\ Freed(r) \in Row /\ Freed(r).epoch = r.epoch
         /\ \A s \in {"cancelled", "pending"} :
              /\ [r EXCEPT !.status = s] \in Row /\ [r EXCEPT !.status = s].epoch = r.epoch
         /\ [r EXCEPT !.deleted = TRUE] \in Row /\ [r EXCEPT !.deleted = TRUE].epoch = r.epoch
BY DEF Row, Freed, Active, Terminal

\* A handler writes one row, whatever it pays for that.
LEMMA ApiWrites ==
  ASSUME ManagerOK, NEW t \in Tasks, NEW r \in Row, r.epoch = row[t].epoch, Writes(t, r),
         UNCHANGED budget \/ \E k \in Kinds : Spend(k), UNCHANGED <<chan, manager>>
  PROVE  ManagerOK'
<1>1. budget' \in Budgets /\ budget'.claim <= budget.claim
  <2>1. CASE UNCHANGED budget
    BY <2>1, NetAssumption DEF ManagerOK, RowsOK, Budgets
  <2> QED
    BY <2>1, SpendOK DEF ManagerOK
<1>2. RowsOK'
  BY <1>1, RowWritten DEF ManagerOK, Writes
<1> QED
  BY <1>2 DEF ManagerOK, ChanOK, QueueOK, TablesOK, DispatchOK, LoopOK, ServeOK, manager, history

LEMMA ApiMoves ==
  /\ \A t \in Tasks, pc \in {"stop", "end", "drop", "reset"} : Loads(pc, t) => ApiOK'
  /\ Answers => ApiOK'
  /\ ApiOK => \A pc \in {"cancel", "finalize", "delete", "requeue", "restart", "kill"} :
                api.pc # "idle" /\ Goes(pc) => ApiOK'
<1>1. \A t \in Tasks, pc \in {"stop", "end", "drop", "reset"} : Loads(pc, t) => ApiOK'
  BY DEF ApiOK, Loads
<1>2. Answers => ApiOK'
  BY DEF Answers, NoCall, ApiOK
<1>3. ApiOK => \A pc \in {"cancel", "finalize", "delete", "requeue", "restart", "kill"} :
                api.pc # "idle" /\ Goes(pc) => ApiOK'
  BY DEF Goes, ApiOK
<1> QED
  BY <1>1, <1>2, <1>3

RunnersRest == ControlOK /\ ProcessOK

LEMMA Resting ==
  /\ RunnersRest /\ UNCHANGED workers => RunnersRest'
  /\ ApiOK /\ UNCHANGED api => ApiOK'
BY DEF RunnersRest, ControlOK, ProcessOK, OneProcess, workers, ApiOK

\* The handlers load a row.
LEMMA ApiLoadSteps ==
  ASSUME ManagerOK, ApiOK, NEW t \in Tasks, ApiCancel(t) \/ ApiRestart(t) \/ ApiDelete(t)
  PROVE  ManagerOK' /\ ApiOK' /\ UNCHANGED workers
<1>1. ASSUME NEW k \in Kinds, Spend(k), UNCHANGED <<row, chan, manager>> PROVE ManagerOK'
  <2>1. RowsOK'
    BY <1>1, SpentRows DEF ManagerOK
  <2> QED
    BY <1>1, <2>1
       DEF ManagerOK, ChanOK, QueueOK, TablesOK, DispatchOK, LoopOK, ServeOK, manager, history
<1>2. CASE ApiCancel(t)
  <2>1. Spend("cancel") /\ UNCHANGED <<row, chan, manager, workers>> /\ Loads("stop", t)
    BY <1>2 DEF ApiCancel
  <2> QED
    BY <1>1, <2>1, ApiMoves DEF Kinds
<1>3. CASE ApiRestart(t)
  <2>1. /\ Spend("rerun") /\ UNCHANGED <<row, chan, manager, workers>>
        /\ Loads("reset", t) \/ Loads("end", t)
    BY <1>3 DEF ApiRestart
  <2> QED
    BY <1>1, <2>1, ApiMoves DEF Kinds
<1>4. CASE ApiDelete(t)
  <2>1. Spend("delete") /\ UNCHANGED <<chan, manager, workers>>
    BY <1>4 DEF ApiDelete
  <2>2. CASE Loads("drop", t) /\ UNCHANGED row
    BY <1>1, <2>1, <2>2, ApiMoves DEF Kinds
  <2>3. CASE Writes(t, [row[t] EXCEPT !.deleted = TRUE]) /\ UNCHANGED api
    <3> DEFINE r == [row[t] EXCEPT !.deleted = TRUE]
    <3>1. r \in Row /\ r.epoch = row[t].epoch
      BY ApiRows DEF ManagerOK, RowsOK
    <3> HIDE DEF r
    <3>2. Writes(t, r)
      BY <2>3 DEF r
    <3>3. ManagerOK'
      BY <2>1, <3>1, <3>2, ApiWrites DEF Kinds
    <3> QED
      BY <2>1, <2>3, <3>3, Resting
  <2> QED
    BY <1>4, <2>2, <2>3 DEF ApiDelete
<1> QED
  BY <1>2, <1>3, <1>4

\* The handlers write a row.
LEMMA ApiWriteSteps ==
  ASSUME ManagerOK, ApiOK, ApiStop \/ ApiReset \/ ApiMark
  PROVE  ManagerOK' /\ ApiOK' /\ UNCHANGED workers
<1> DEFINE t == api.task
<1>1. t \in Tasks /\ api.pc # "idle" /\ row[t] \in Row
  BY DEF ApiStop, ApiReset, ApiMark, ApiOK, ManagerOK, RowsOK
<1>2. ASSUME NEW r \in Row, r.epoch = row[t].epoch, Writes(t, r),
             UNCHANGED <<chan, budget, manager>>
      PROVE  ManagerOK'
  BY <1>1, <1>2, ApiWrites
<1>3. CASE ApiStop
  <2> DEFINE r == [row[t] EXCEPT !.status = "cancelled"]
  <2>1. /\ r \in Row /\ r.epoch = row[t].epoch
        /\ Freed(r) \in Row /\ Freed(r).epoch = row[t].epoch
    BY <1>1, ApiRows
  <2>2. /\ Writes(t, Freed(r)) \/ Writes(t, r)
        /\ Goes("cancel") \/ Goes("delete") \/ Loads("reset", t)
        /\ UNCHANGED <<chan, budget, manager, workers>>
    BY <1>3 DEF ApiStop
  <2> HIDE DEF r
  <2> QED
    BY <1>1, <1>2, <2>1, <2>2, ApiMoves
<1>4. CASE ApiReset
  <2> DEFINE r == Freed([row[t] EXCEPT !.status = "pending"])
  <2>1. r \in Row /\ r.epoch = row[t].epoch
    BY <1>1, ApiRows
  <2>2. Writes(t, r) /\ Goes("requeue") /\ UNCHANGED <<chan, budget, manager, workers>>
    BY <1>4 DEF ApiReset
  <2> HIDE DEF r
  <2> QED
    BY <1>1, <1>2, <2>1, <2>2, ApiMoves
<1>5. CASE ApiMark
  <2> DEFINE r == [row[t] EXCEPT !.deleted = TRUE]
  <2>1. r \in Row /\ r.epoch = row[t].epoch
    BY <1>1, ApiRows
  <2>2. Writes(t, r) /\ Goes("kill") /\ UNCHANGED <<chan, budget, manager, workers>>
    BY <1>5 DEF ApiMark
  <2> HIDE DEF r
  <2> QED
    BY <1>1, <1>2, <2>1, <2>2, ApiMoves
<1> QED
  BY <1>3, <1>4, <1>5

\* The handlers that tell the manager.
LEMMA ApiNotifySteps ==
  ASSUME ManagerOK, ApiOK,
         ApiNotifyCancel \/ ApiFinalize \/ ApiNotifyRequeue \/ ApiNotifyRestart
  PROVE  ManagerOK' /\ ApiOK' /\ UNCHANGED workers
<1>1. CASE ApiNotifyCancel
  <2>1. /\ api.task \in Tasks /\ api.pc # "idle" /\ UNCHANGED workers
        /\ CancelQueued(api.task) \/ CancelRunning(api.task)
        /\ Answers \/ Goes("finalize")
    BY <1>1 DEF ApiNotifyCancel, ApiOK
  <2> QED
    BY <2>1, CancelKept, ApiMoves
<1>2. CASE ApiNotifyRestart
  <2>1. api.task \in Tasks /\ Restart(api.task) /\ Answers /\ UNCHANGED workers
    BY <1>2 DEF ApiNotifyRestart, ApiOK
  <2> QED
    BY <2>1, RestartKept, ApiMoves
<1>3. CASE ApiNotifyRequeue
  <2>1. /\ api.pc # "idle"
        /\ RequeueRow(api.task) \/ RequeueFails
        /\ Goes("restart") /\ UNCHANGED <<chan, manager, workers>>
    BY <1>3 DEF ApiNotifyRequeue
  <2>2. RowsOK'
    BY <2>1, RequeuedRow DEF ManagerOK
  <2>3. ManagerOK'
    BY <2>1, <2>2
       DEF ManagerOK, ChanOK, QueueOK, TablesOK, DispatchOK, LoopOK, ServeOK, manager, history
  <2> QED
    BY <2>1, <2>3, ApiMoves
<1>4. CASE ApiFinalize
  <2>1. api.task \in Tasks /\ Answers /\ UNCHANGED <<chan, manager, workers>>
    BY <1>4 DEF ApiFinalize, Locked, ApiOK
  <2>2. RowsOK'
    BY <1>4, FinalizedRow DEF ApiFinalize, ManagerOK, Reports
  <2>3. ManagerOK'
    BY <2>1, <2>2
       DEF ManagerOK, ChanOK, QueueOK, TablesOK, DispatchOK, LoopOK, ServeOK, manager, history
  <2> QED
    BY <2>1, <2>3, ApiMoves
<1> QED
  BY <1>1, <1>2, <1>3, <1>4

LEMMA PlaneKept == PlaneInv /\ [Next]_vars => PlaneInv'
<1> SUFFICES ASSUME PlaneInv, [Next]_vars PROVE PlaneInv'
  OBVIOUS
<1>1. ManagerOK /\ RunnersRest /\ ApiOK /\ RunnerOK
  BY DEF PlaneInv, RunnersRest, RunnerOK, ManagerOK
<1> USE DEF RunnersRest
<1>2. CASE ByManager(ManagerNext)
  BY <1>1, <1>2, ManagerKept, Resting DEF ByManager, PlaneInv
<1>3. CASE \E w \in Workers : ByWorker(WorkerNext(w))
  <2>1. PICK w \in Workers : WorkerNext(w) /\ UNCHANGED <<manager, api>>
    BY <1>3 DEF ByWorker
  <2>2. RunnerOK'
    BY <1>1, <2>1, RunnerKept
  <2>3. ManagerOK' /\ ApiOK'
    BY <1>1, <2>1, <2>2, Resting
       DEF RunnerOK, ManagerOK, QueueOK, TablesOK, DispatchOK, LoopOK, ServeOK, manager, history
  <2> QED
    BY <2>2, <2>3 DEF PlaneInv, RunnerOK
<1>4. CASE \E w \in Workers : Heartbeat(w) \/ GetsLate(w)
  <2>1. PICK w \in Workers : Heartbeat(w) \/ GetsLate(w)
    BY <1>4
  <2>2. UNCHANGED <<workers, api>>
    BY <2>1 DEF Heartbeat, GetsLate
  <2>3. ManagerOK'
    <3>1. CASE Heartbeat(w)
      <4>1. Current(w) \in Tasks \cup {None} /\ OnHeartbeat(w, Current(w))
        BY <1>1, <3>1 DEF Heartbeat, Current, ControlOK, Control
      <4> QED
        BY <1>1, <4>1, HeartbeatKept
    <3>2. CASE GetsLate(w)
      BY <1>1, <3>2, LateKept
    <3> QED
      BY <2>1, <3>1, <3>2
  <2> QED
    BY <1>1, <2>2, <2>3, Resting DEF PlaneInv
<1>5. CASE \E t \in Tasks : RunAges(t) \/ RowAges(t) \/ ApiSubmit(t)
  <2>1. PICK t \in Tasks : RunAges(t) \/ RowAges(t) \/ ApiSubmit(t)
    BY <1>5
  <2>2. UNCHANGED <<workers, api>>
    BY <2>1 DEF RunAges, RowAges, ApiSubmit
  <2>3. ManagerOK'
    BY <1>1, <2>1, RecordAgesKept, RowAgesKept, SubmitKept DEF ApiSubmit
  <2> QED
    BY <1>1, <2>2, <2>3, Resting DEF PlaneInv
<1>6. CASE \E c \in Conns : Breaks(c)
  <2>1. PICK c \in Conns : Breaks(c)
    BY <1>6
  <2>2. ManagerOK' /\ UNCHANGED <<workers, api>>
    BY <1>1, <2>1, BreaksKept DEF Breaks
  <2> QED
    BY <1>1, <2>2, Resting DEF PlaneInv
<1>7. CASE \/ ApiStop \/ ApiReset \/ ApiMark
           \/ \E t \in Tasks : ApiCancel(t) \/ ApiRestart(t) \/ ApiDelete(t)
  BY <1>1, <1>7, ApiLoadSteps, ApiWriteSteps, Resting DEF PlaneInv
<1>8. CASE ApiNotifyCancel \/ ApiFinalize \/ ApiNotifyRequeue \/ ApiNotifyRestart
  BY <1>1, <1>8, ApiNotifySteps, Resting DEF PlaneInv
<1>9. CASE UNCHANGED vars
  BY <1>1, <1>9, Resting DEF PlaneInv, ManagerOK, RowsOK, ChanOK, QueueOK, TablesOK, DispatchOK,
                             LoopOK, ServeOK, vars, shared, manager, history
<1>10. CASE Restarts
  <2>1. ManagerOK' /\ UNCHANGED workers
    BY <1>1, <1>10, ManagerRestartKept DEF Restarts
  <2>2. ApiOK'
    <3>1. UNCHANGED api \/ Answers
      BY <1>10 DEF Restarts, Answers
    <3> QED
      BY <1>1, <3>1, ApiMoves, Resting
  <2> QED
    BY <1>1, <2>1, <2>2, Resting DEF PlaneInv
<1> QED
  BY <1>2, <1>3, <1>4, <1>5, <1>6, <1>7, <1>8, <1>9, <1>10 DEF Next, ApiStep

LEMMA InitPlane == Init => PlaneInv
<1> SUFFICES ASSUME Init PROVE PlaneInv
  OBVIOUS
<1> USE DEF Init, SharedInit, ManagerInit, WorkerInit
<1>1. RowsOK
  <2>1. NewRow \in Row /\ NewRow.epoch = 0 /\ CancelledRow \in Row /\ CancelledRow.epoch = 0
    <3>1. 0 \in 0 .. MaxClaims
      BY NetAssumption
    <3>2. NewRow \in Row /\ NewRow.epoch = 0
      BY <3>1 DEF NewRow, Row, Active
    <3> QED
      BY <3>2 DEF CancelledRow, Row, Terminal
  <2>2. budget \in Budgets /\ budget.claim \in 0 .. MaxClaims
    BY NetAssumption DEF Budgets
  <2>3. row \in [Tasks -> Row] /\ \A t \in Tasks : row[t].epoch = 0
    BY <2>1
  <2> QED
    BY <2>2, <2>3, NetAssumption DEF RowsOK
<1>2. ChanOK
  BY RecordTypes DEF ChanOK
<1>3. QueueOK
  BY RecordTypes, EmptyDistinct DEF QueueOK
<1>4. TablesOK
  BY RecordTypes DEF TablesOK
<1>5. DispatchOK /\ LoopOK
  BY RecordTypes DEF DispatchOK, LoopOK
<1>6. ServeOK
  BY RecordTypes DEF ServeOK
<1>7. ControlOK
  <2>1. NewControl \in Control /\ NewControl.pc = "ready"
    BY NetAssumption DEF NewControl, Control
  <2> QED
    BY <2>1 DEF ControlOK
<1>8. ProcessOK /\ ApiOK
  BY DEF ProcessOK, OneProcess, ApiOK, NoCall
<1> QED
  BY <1>1, <1>2, <1>3, <1>4, <1>5, <1>6, <1>7, <1>8 DEF PlaneInv, ManagerOK

THEOREM PlaneInvariant == Spec => []PlaneInv
BY InitPlane, PlaneKept, PTL DEF Spec

-----------------------------------------------------------------------------
\* Every variable of the manager, of the runners, of the connections and of the
\* API has its type, and no epoch exceeds the number of claims.
THEOREM TypesHold == Spec => []TypeOK
<1>1. PlaneInv => TypeOK
  <2> SUFFICES ASSUME PlaneInv PROVE TypeOK
    OBVIOUS
  <2>1. SharedTypeOK
    BY DEF PlaneInv, ManagerOK, RowsOK, ChanOK, SharedTypeOK
  <2>2. ManagerTypeOK
    <3>1. queue \in Seq(Tasks) /\ saved \in [queue : Seq(Tasks), run : [Tasks -> Record]]
      BY DEF PlaneInv, ManagerOK, QueueOK, DistinctQueue
    <3> QED
      BY <3>1 DEF PlaneInv, ManagerOK, TablesOK, DispatchOK, DispatchType, LoopOK, ServeOK,
                  ManagerTypeOK
  <2>3. WorkerTypeOK
    BY DEF PlaneInv, ControlOK, ProcessOK, WorkerTypeOK
  <2> QED
    BY <2>1, <2>2, <2>3 DEF TypeOK, PlaneInv, ApiOK
<1> QED
  BY <1>1, PlaneInvariant, PTL

\* The queue of the manager never holds a task twice, whatever the dispatch
\* thread, the reconcile threads, the handlers of the connections, the API and
\* the state file after a restart put into it, in whatever order.
THEOREM QueueHoldsOnce == Spec => []QueueDistinct
<1>1. PlaneInv => QueueDistinct
  BY DEF PlaneInv, ManagerOK, QueueOK, DistinctQueue, QueueDistinct
<1> QED
  BY <1>1, PlaneInvariant, PTL

\* A runner pod never has two task processes, whatever commands reach it in
\* whatever order, over whichever of its connections.
THEOREM OneProcessPerRunner == Spec => []OneProcess
<1>1. PlaneInv => OneProcess
  BY DEF PlaneInv, ProcessOK
<1> QED
  BY <1>1, PlaneInvariant, PTL
=============================================================================
