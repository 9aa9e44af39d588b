-------------------------- MODULE CeleryExecProofs --------------------------
(***************************************************************************)
(* Proofs about CeleryExec, for any number of tasks, pods, requests,       *)
(* messages and faults.                                                    *)
(***************************************************************************)
EXTENDS CeleryExec, TLAPS

\* What TypeOK leaves out and the types of the next state need: a busy child
\* has a task and a message, a result to persist is a status, and a busy
\* request or pump has its task.
GoodChild ==
  {c \in Child : /\ c.pc # "idle" => c.task \in Tasks /\ c.id \in 1 .. MaxPublish
                 /\ c.pc = "persist" => c.out \in {"passed", "failed", "error"}}

Busy ==
  /\ child \in [Workers -> GoodChild]
  /\ pump.pc = "record" => pump.task \in Tasks
  /\ \A r \in Requests : req[r].pc # "idle" => req[r].task \in Tasks

TypeInv == TypeOK /\ Busy

-----------------------------------------------------------------------------
(* The operators that build rows.                                          *)

\* A freshly inserted row is a row.
LEMMA NewRowType == NewRow \in Row
BY ConstantsAssumption DEF NewRow, Row, Statuses, Active

\* Flush of rows is a row.
LEMMA FlushType ==
  ASSUME NEW cur \in Row, NEW seen \in Row, NEW new \in Row
  PROVE  Flush(cur, seen, new) \in Row
BY DEF Flush, Row

\* An idle child is a child.
LEMMA IdleType == Idle \in Child
BY NewRowType, ConstantsAssumption DEF Idle, Child, Labels

\* A row with one column changed is a row.
LEMMA ColumnTypes ==
  ASSUME NEW r \in Row
  PROVE  /\ \A s \in Statuses : [r EXCEPT !.status = s] \in Row
         /\ [r EXCEPT !.deleted = TRUE] \in Row
         /\ \A c \in 0 .. MaxPublish : [r EXCEPT !.cid = c] \in Row
         /\ \A w \in Workers \cup {None} : [r EXCEPT !.owner = w] \in Row
         /\ \A n \in Nat : [r EXCEPT !.epoch = n] \in Row
         /\ \A n \in Nat : [r EXCEPT !.cv = n] \in Row
         /\ \A l \in {"none", "live", "expired"} : [r EXCEPT !.lease = l] \in Row
         /\ \A h \in {"none", "fresh", "stale"} : [r EXCEPT !.hb = h] \in Row
         /\ \A w \in Workers \cup {None} : [r EXCEPT !.disp = w] \in Row
         /\ \A n \in Nat : [r EXCEPT !.lepoch = n] \in Row
         /\ r.epoch + 1 \in Nat /\ r.cv + 1 \in Nat
<1>1. \A s \in Statuses : [r EXCEPT !.status = s] \in Row
  BY DEF Row
<1>2. [r EXCEPT !.deleted = TRUE] \in Row
  BY DEF Row
<1>3. \A c \in 0 .. MaxPublish : [r EXCEPT !.cid = c] \in Row
  BY DEF Row
<1>4. \A w \in Workers \cup {None} : [r EXCEPT !.owner = w] \in Row
  BY DEF Row
<1>5. \A n \in Nat : [r EXCEPT !.epoch = n] \in Row
  BY DEF Row
<1>6. \A n \in Nat : [r EXCEPT !.cv = n] \in Row
  BY DEF Row
<1>7. \A l \in {"none", "live", "expired"} : [r EXCEPT !.lease = l] \in Row
  BY DEF Row
<1>8. \A h \in {"none", "fresh", "stale"} : [r EXCEPT !.hb = h] \in Row
  BY DEF Row
<1>9. \A w \in Workers \cup {None} : [r EXCEPT !.disp = w] \in Row
  BY DEF Row
<1>10. \A n \in Nat : [r EXCEPT !.lepoch = n] \in Row
  BY DEF Row
<1>11. r.epoch + 1 \in Nat /\ r.cv + 1 \in Nat
  BY DEF Row
<1>. QED
  BY <1>1, <1>2, <1>3, <1>4, <1>5, <1>6, <1>7, <1>8, <1>9, <1>10, <1>11

\* Every writer's change of a row is a row.
LEMMA WriterTypes ==
  ASSUME NEW r \in Row
  PROVE  /\ Unowned(r) \in Row
         /\ Released(r) \in Row
         /\ Reset(r) \in Row
         /\ Cancelled(r) \in Row
         /\ Requeued(r) \in Row
         /\ Invalidated(r) \in Row
         /\ [Invalidated(r) EXCEPT !.status = "cancelled"] \in Row
         /\ [r EXCEPT !.deleted = TRUE] \in Row
         /\ \A s \in Statuses : Finished(r, s) \in Row /\ [Released(r) EXCEPT !.status = s] \in Row
<1>1. 0 \in 0 .. MaxPublish
  BY ConstantsAssumption
<1>2. "pending" \in Statuses /\ "cancelled" \in Statuses
  BY DEF Statuses, Active, Terminal
<1>3. Unowned(r) \in Row
  BY ColumnTypes DEF Unowned
<1>4. Released(r) \in Row
  BY <1>1, <1>3, ColumnTypes DEF Released
<1>5. Reset(r) \in Row
  BY <1>1, <1>2, <1>3, ColumnTypes DEF Reset
<1>6. Cancelled(r) \in Row /\ Requeued(r) \in Row
  BY <1>2, ColumnTypes DEF Cancelled, Requeued
<1>7. Invalidated(r) \in Row
  BY <1>4, ColumnTypes DEF Invalidated
<1>8. \A s \in Statuses : Finished(r, s) \in Row /\ [Released(r) EXCEPT !.status = s] \in Row
  BY <1>4, ColumnTypes DEF Finished
<1>. QED
  BY <1>2, <1>3, <1>4, <1>5, <1>6, <1>7, <1>8, ColumnTypes

\* The types hold when the system starts.
LEMMA InitTypeInv == Init => TypeInv
<1>1. Idle \in GoodChild
  BY IdleType DEF GoodChild, Idle
<1>. QED
  BY <1>1, NewRowType, IdleType, ConstantsAssumption
  DEF Init, TypeInv, TypeOK, Busy, Budgets, NoPump, NoScan, NoRequest, Request

-----------------------------------------------------------------------------
(* Every step preserves the types.                                         *)

\* A child record with one field changed is a child record.
LEMMA FieldTypes ==
  ASSUME NEW c \in Child
  PROVE  /\ \A l \in Labels : [c EXCEPT !.pc = l] \in Child
         /\ \A t \in Tasks : [c EXCEPT !.task = t] \in Child
         /\ \A i \in 0 .. MaxPublish : [c EXCEPT !.id = i] \in Child
         /\ \A n \in Nat : [c EXCEPT !.epoch = n] \in Child
         /\ \A n \in Nat : [c EXCEPT !.cv = n] \in Child
         /\ \A r \in Row : [c EXCEPT !.seen = r] \in Child
         /\ \A b \in BOOLEAN : [c EXCEPT !.beat = b] \in Child
         /\ \A b \in BOOLEAN : [c EXCEPT !.stop = b] \in Child
         /\ \A o \in Endings : [c EXCEPT !.out = o] \in Child
<1>1. \A l \in Labels : [c EXCEPT !.pc = l] \in Child
  BY DEF Child
<1>2. \A t \in Tasks : [c EXCEPT !.task = t] \in Child
  BY DEF Child
<1>3. \A i \in 0 .. MaxPublish : [c EXCEPT !.id = i] \in Child
  BY DEF Child
<1>4. \A n \in Nat : [c EXCEPT !.epoch = n] \in Child
  BY DEF Child
<1>5. \A n \in Nat : [c EXCEPT !.cv = n] \in Child
  BY DEF Child
<1>6. \A r \in Row : [c EXCEPT !.seen = r] \in Child
  BY DEF Child
<1>7. \A b \in BOOLEAN : [c EXCEPT !.beat = b] \in Child
  BY DEF Child
<1>8. \A b \in BOOLEAN : [c EXCEPT !.stop = b] \in Child
  BY DEF Child
<1>9. \A o \in Endings : [c EXCEPT !.out = o] \in Child
  BY DEF Child
<1>. QED
  BY <1>1, <1>2, <1>3, <1>4, <1>5, <1>6, <1>7, <1>8, <1>9

\* What a step of worker w may make of its child, its row and the budget.
LEMMA WorkerEffect ==
  ASSUME TypeInv, NEW w \in Workers, NEW c \in GoodChild, child' = [child EXCEPT ![w] = c],
         row' \in [Tasks -> Row], claimant' \in [Tasks -> Workers \cup {None}],
         artifacts' \in [Tasks -> Workers \cup {None}],
         queue' \subseteq Message, budget' \in Budgets,
         UNCHANGED <<published, revoked, dispatcher, req>>
  PROVE  TypeInv'
BY DEF TypeInv, TypeOK, Busy, GoodChild, dispatcher

\* Spending one unit of a budget leaves a budget.
LEMMA SpendType ==
  ASSUME TypeInv,
         NEW kind \in {"crash", "redeliver", "restart", "stall", "scan", "early",
                       "request", "db"},
         Spend(kind)
  PROVE  budget' \in Budgets
BY DEF TypeInv, TypeOK, Spend, Budgets

\* No step of run_sa_task, of its heartbeat or of a fault breaks the types.
LEMMA WorkerTypes ==
  ASSUME TypeInv, NEW w \in Workers, WorkerNext(w)
  PROVE  TypeInv'
<1>. DEFINE m == child[w]
<1>1. /\ m \in Child
      /\ m.pc # "idle" => m.task \in Tasks /\ m.id \in 1 .. MaxPublish /\ row[m.task] \in Row
      /\ m.pc = "persist" => m.out \in {"passed", "failed", "error"}
      /\ child = [child EXCEPT ![w] = m] /\ row \in [Tasks -> Row]
  BY DEF TypeInv, TypeOK, Busy, GoodChild
<1>2. Idle \in GoodChild
  BY IdleType DEF GoodChild, Idle
<1>3. ASSUME NEW l \in Labels \ {"idle", "persist"}, m.pc # "idle"
      PROVE  [m EXCEPT !.pc = l] \in GoodChild
  BY <1>1, <1>3, FieldTypes DEF GoodChild, Child
<1>4. ASSUME NEW r \in Row, m.pc # "idle"
      PROVE  [row EXCEPT ![m.task] = r] \in [Tasks -> Row]
  BY <1>1, <1>4
<1>. USE DEF Task, Goto
<1>5. ASSUME NEW out \in Endings, RunEnds(w, out)
      PROVE  TypeInv'
  <2>. DEFINE l == IF out = "raised" THEN "error" ELSE "persist"
              c == [[[m EXCEPT !.pc = l] EXCEPT !.out = out] EXCEPT !.stop = FALSE]
  <2>1. m.pc = "run" /\ child' = [child EXCEPT ![w] = c]
    BY <1>5 DEF RunEnds
  <2>2. c \in Child
    BY <1>1, FieldTypes DEF Labels
  <2>3. c \in GoodChild
    BY <1>1, <2>1, <2>2 DEF GoodChild, Child, Endings
  <2>4. UNCHANGED <<row, queue, published, revoked, artifacts, dispatcher, req, budget, claimant>>
    BY <1>5 DEF RunEnds
  <2>. HIDE DEF c
  <2>. QED
    BY <2>1, <2>3, <2>4, WorkerEffect DEF TypeInv, TypeOK
<1>11. CASE Receive(w)
  <2>1. PICK q \in queue : /\ queue' = queue \ {q}
                          /\ child' = [child EXCEPT ![w] = [Idle EXCEPT !.pc = "read",
                                            !.task = q.task, !.id = q.id]]
    BY <1>11 DEF Receive
  <2>2. q.task \in Tasks /\ q.id \in 1 .. MaxPublish /\ q.id \in 0 .. MaxPublish
    BY <2>1 DEF TypeInv, TypeOK, Message
  <2>. DEFINE c == [[[Idle EXCEPT !.pc = "read"] EXCEPT !.task = q.task] EXCEPT !.id = q.id]
  <2>3. c \in Child
    BY IdleType, FieldTypes, <2>2 DEF Labels
  <2>4. c \in GoodChild
    BY <2>2, <2>3 DEF GoodChild, Idle
  <2>. QED
    BY <1>11, <2>1, <2>4, WorkerEffect DEF Receive, TypeInv, TypeOK
<1>12. CASE DiscardRevoked(w)
  BY <1>12 DEF DiscardRevoked, TypeInv, TypeOK, Busy, dispatcher
<1>13. CASE ClaimRead(w)
  <2>. DEFINE r == row[m.task]
              d == [[NewRow EXCEPT !.status = r.status] EXCEPT !.epoch = r.epoch]
              c == [[m EXCEPT !.pc = "cas"] EXCEPT !.seen = d]
  <2>1. m.pc = "read"
    BY <1>13 DEF ClaimRead
  <2>2. d \in Row
    <3>1. r.status \in Statuses /\ r.epoch \in Nat
      BY <1>1, <2>1 DEF Row
    <3>. HIDE DEF r
    <3>. QED
      BY <3>1, NewRowType, ColumnTypes
  <2>3. c \in Child
    BY <1>1, <2>2, FieldTypes DEF Labels
  <2>4. c \in GoodChild
    BY <1>1, <2>1, <2>3 DEF GoodChild, Child
  <2>5. child' = [child EXCEPT ![w] = c] \/ child' = [child EXCEPT ![w] = Idle]
    BY <1>13 DEF ClaimRead
  <2>. QED
    BY <1>13, <1>2, <2>4, <2>5, WorkerEffect DEF ClaimRead, TypeInv, TypeOK
<1>14. CASE ClaimCas(w)
  <2>. DEFINE e == m.seen.epoch + 1
              r == [[[[[[[row[m.task] EXCEPT !.status = "pending"] EXCEPT !.owner = w]
                          EXCEPT !.epoch = e] EXCEPT !.lease = "live"] EXCEPT !.hb = "fresh"]
                          EXCEPT !.disp = w] EXCEPT !.lepoch = e]
              c == [[[m EXCEPT !.pc = "reload"] EXCEPT !.epoch = e] EXCEPT !.seen = NewRow]
  <2>1. m.pc = "cas"
    BY <1>14 DEF ClaimCas
  <2>2. e \in Nat
    BY <1>1, ColumnTypes DEF Child
  <2>3. r \in Row
    <3>1. "pending" \in Statuses /\ w \in Workers \cup {None}
      BY DEF Statuses, Active
    <3>. QED BY <1>1, <2>1, <2>2, <3>1, ColumnTypes
  <2>4. c \in Child
    BY <1>1, <2>2, NewRowType, FieldTypes DEF Labels
  <2>5. c \in GoodChild
    BY <1>1, <2>1, <2>4 DEF GoodChild, Child
  <2>6. \/ /\ row' = [row EXCEPT ![m.task] = r]
           /\ child' = [child EXCEPT ![w] = c]
           /\ claimant' = [claimant EXCEPT ![m.task] = w]
        \/ child' = [child EXCEPT ![w] = Idle] /\ UNCHANGED <<row, claimant>>
    BY <1>14 DEF ClaimCas
  <2>7. row' \in [Tasks -> Row] /\ claimant' \in [Tasks -> Workers \cup {None}]
    BY <1>4, <2>1, <2>3, <2>6 DEF TypeInv, TypeOK
  <2>. QED
    BY <1>14, <1>2, <2>5, <2>6, <2>7, WorkerEffect DEF ClaimCas, TypeInv, TypeOK
<1>15. CASE ClaimReload(w)
  <2>. DEFINE c == [[m EXCEPT !.pc = "clean"] EXCEPT !.cv = row[m.task].cv]
  <2>1. m.pc = "reload" /\ child' = [child EXCEPT ![w] = c]
    BY <1>15, <1>1 DEF ClaimReload
  <2>2. c \in Child
    BY <1>1, <2>1, FieldTypes DEF Labels, Row
  <2>3. c \in GoodChild
    BY <1>1, <2>1, <2>2 DEF GoodChild, Child
  <2>. QED
    BY <1>15, <2>1, <2>3, WorkerEffect DEF ClaimReload, TypeInv, TypeOK
<1>16. CASE CleanArtifacts(w)
  <2>. DEFINE c == [m EXCEPT !.pc = "setup"]
  <2>1. c \in GoodChild
    BY <1>16, <1>3 DEF CleanArtifacts, Labels
  <2>2. /\ child' = [child EXCEPT ![w] = c]
        /\ artifacts' \in [Tasks -> Workers \cup {None}]
        /\ UNCHANGED <<row, queue, published, revoked, dispatcher, req, budget, claimant>>
    BY <1>16 DEF CleanArtifacts, TypeInv, TypeOK
  <2>. HIDE DEF c
  <2>. QED
    BY <2>1, <2>2, WorkerEffect DEF TypeInv, TypeOK
<1>17. CASE SetupWorkspace(w)
  <2>. DEFINE c == [m EXCEPT !.pc = "begin"]
  <2>1. c \in GoodChild
    BY <1>17, <1>3 DEF SetupWorkspace, Labels
  <2>2. /\ child' = [child EXCEPT ![w] = c]
        /\ artifacts' \in [Tasks -> Workers \cup {None}]
        /\ UNCHANGED <<row, queue, published, revoked, dispatcher, req, budget, claimant>>
    BY <1>17 DEF SetupWorkspace, TypeInv, TypeOK
  <2>. HIDE DEF c
  <2>. QED
    BY <2>1, <2>2, WorkerEffect DEF TypeInv, TypeOK
<1>18. CASE Begin(w)
  <2>. DEFINE c == [[m EXCEPT !.pc = "prepare"] EXCEPT !.beat = TRUE]
  <2>1. m.pc = "begin" /\ child' = [child EXCEPT ![w] = c]
    BY <1>18 DEF Begin
  <2>2. c \in Child
    BY <1>1, FieldTypes DEF Labels
  <2>3. c \in GoodChild
    BY <1>1, <2>1, <2>2 DEF GoodChild, Child
  <2>4. row' \in [Tasks -> Row]
    <3>1. [row[m.task] EXCEPT !.status = "running"] \in Row
      BY <1>1, <2>1, ColumnTypes DEF Statuses, Active
    <3>2. \/ row' = [row EXCEPT ![m.task] = [row[m.task] EXCEPT !.status = "running"]]
          \/ row' = [row EXCEPT ![m.task] = [row[m.task] EXCEPT !.status = row[m.task].status]]
      BY <1>18, <1>1, <2>1 DEF Begin
    <3>3. [row[m.task] EXCEPT !.status = row[m.task].status] \in Row
      BY <1>1, <2>1, ColumnTypes DEF Row
    <3>. QED BY <1>1, <1>4, <2>1, <3>1, <3>2, <3>3
  <2>. QED
    BY <1>18, <2>1, <2>3, <2>4, WorkerEffect DEF Begin, TypeInv, TypeOK
<1>19. CASE Prepare(w)
  <2>1. /\ [m EXCEPT !.pc = "snapshot"] \in GoodChild
        /\ [m EXCEPT !.pc = "error"] \in GoodChild
    BY <1>19, <1>3 DEF Prepare, Labels
  <2>. QED
    BY <1>19, <2>1, WorkerEffect DEF Prepare, TypeInv, TypeOK
<1>20. CASE Snapshot(w)
  <2>1. /\ [m EXCEPT !.pc = "run"] \in GoodChild
        /\ [m EXCEPT !.pc = "error"] \in GoodChild
    BY <1>20, <1>3 DEF Snapshot, Labels
  <2>. QED
    BY <1>20, <2>1, WorkerEffect DEF Snapshot, TypeInv, TypeOK
<1>21. CASE PersistResult(w)
  <2>. DEFINE c1 == [[m EXCEPT !.pc = "archive"] EXCEPT !.beat = FALSE]
              c2 == [[m EXCEPT !.pc = "error"] EXCEPT !.out = "raised"]
  <2>1. /\ m.pc = "persist" /\ m.out \in Statuses
        /\ Finished(row[m.task], m.out) \in Row
    BY <1>21, <1>1, WriterTypes DEF PersistResult, Statuses, Terminal
  <2>2. c1 \in Child /\ c2 \in Child
    BY <1>1, FieldTypes DEF Labels, Endings
  <2>3. c1 \in GoodChild /\ c2 \in GoodChild
    BY <1>1, <2>1, <2>2 DEF GoodChild, Child
  <2>4. \/ /\ row' = row \/ row' = [row EXCEPT ![m.task] = Finished(row[m.task], m.out)]
           /\ child' = [child EXCEPT ![w] = c1]
           /\ UNCHANGED budget
        \/ Spend("db") /\ child' = [child EXCEPT ![w] = c2] /\ UNCHANGED row
    BY <1>21, <1>1 DEF PersistResult
  <2>5. row' \in [Tasks -> Row] /\ budget' \in Budgets
    BY <1>1, <1>4, <2>1, <2>4, SpendType DEF TypeInv, TypeOK
  <2>. QED
    BY <1>21, <2>3, <2>4, <2>5, WorkerEffect DEF PersistResult, TypeInv, TypeOK
<1>22. CASE ErrorRead(w)
  <2>. DEFINE c1 == [[[m EXCEPT !.pc = "write"] EXCEPT !.seen = row[m.task]] EXCEPT !.out = "raised"]
              c2 == [[[m EXCEPT !.pc = "archive"] EXCEPT !.beat = FALSE] EXCEPT !.out = "raised"]
  <2>1. m.pc = "error"
    BY <1>22 DEF ErrorRead
  <2>2. c1 \in Child /\ c2 \in Child
    BY <1>1, <2>1, FieldTypes DEF Labels, Endings
  <2>3. c1 \in GoodChild /\ c2 \in GoodChild
    BY <1>1, <2>1, <2>2 DEF GoodChild, Child
  <2>4. /\ child' = [child EXCEPT ![w] = c1] \/ child' = [child EXCEPT ![w] = c2]
        /\ Spend("db") \/ UNCHANGED budget
    BY <1>22 DEF ErrorRead
  <2>5. budget' \in Budgets
    BY <2>4, SpendType DEF TypeInv, TypeOK
  <2>. QED
    BY <1>22, <2>3, <2>4, <2>5, WorkerEffect DEF ErrorRead, TypeInv, TypeOK
<1>23. CASE ErrorWrite(w)
  <2>. DEFINE c == [[[m EXCEPT !.pc = "archive"] EXCEPT !.seen = NewRow] EXCEPT !.beat = FALSE]
              r == Flush(row[m.task], m.seen, Finished(m.seen, "error"))
  <2>1. m.pc = "write" /\ child' = [child EXCEPT ![w] = c]
    BY <1>23 DEF ErrorWrite
  <2>2. c \in Child
    BY <1>1, NewRowType, FieldTypes DEF Labels
  <2>3. c \in GoodChild
    BY <1>1, <2>1, <2>2 DEF GoodChild, Child
  <2>4. r \in Row
    <3>1. m.seen \in Row
      BY <1>1 DEF Child
    <3>2. Finished(m.seen, "error") \in Row
      BY <3>1, WriterTypes DEF Statuses, Terminal
    <3>. QED BY <1>1, <2>1, <3>1, <3>2, FlushType
  <2>5. \/ row' = [row EXCEPT ![m.task] = r] /\ UNCHANGED budget
        \/ Spend("db") /\ UNCHANGED row
    BY <1>23 DEF ErrorWrite
  <2>6. row' \in [Tasks -> Row] /\ budget' \in Budgets
    BY <1>1, <1>4, <2>1, <2>4, <2>5, SpendType DEF TypeInv, TypeOK
  <2>. QED
    BY <1>23, <2>1, <2>3, <2>6, WorkerEffect DEF ErrorWrite, TypeInv, TypeOK
<1>24. CASE Archive(w)
  <2>. DEFINE c == [m EXCEPT !.pc = "commit"]
  <2>1. c \in GoodChild
    BY <1>24, <1>3 DEF Archive, Labels
  <2>2. /\ child' = [child EXCEPT ![w] = c]
        /\ artifacts' \in [Tasks -> Workers \cup {None}]
        /\ UNCHANGED <<row, queue, published, revoked, dispatcher, req, budget, claimant>>
    BY <1>24 DEF Archive, TypeInv, TypeOK
  <2>. HIDE DEF c
  <2>. QED
    BY <2>1, <2>2, WorkerEffect DEF TypeInv, TypeOK
<1>25. CASE CommitTerminal(w)
  <2>1. m.pc = "commit" /\ [m EXCEPT !.pc = "recover"] \in GoodChild
    BY <1>25, <1>3 DEF CommitTerminal, Labels
  <2>2. \/ /\ \E s \in {"passed", "error"} :
                row' = [row EXCEPT ![m.task] = [Released(row[m.task]) EXCEPT !.status = s]]
           /\ child' = [child EXCEPT ![w] = Idle]
        \/ child' = [child EXCEPT ![w] = [m EXCEPT !.pc = "recover"]] /\ UNCHANGED row
    BY <1>25 DEF CommitTerminal
  <2>3. row' \in [Tasks -> Row]
    BY <1>1, <1>4, <2>1, <2>2, WriterTypes DEF Statuses, Terminal
  <2>. QED
    BY <1>25, <1>2, <2>1, <2>2, <2>3, WorkerEffect DEF CommitTerminal, TypeInv, TypeOK
<1>26. CASE Recover(w)
  <2>1. m.pc = "recover" /\ child' = [child EXCEPT ![w] = Idle]
    BY <1>26 DEF Recover
  <2>2. \/ row' = [row EXCEPT ![m.task] = [Released(row[m.task]) EXCEPT !.status = "pending"]]
        \/ row' = row
    BY <1>26, <1>1 DEF Recover
  <2>3. row' \in [Tasks -> Row]
    BY <1>1, <1>4, <2>1, <2>2, WriterTypes DEF Statuses, Active
  <2>. QED
    BY <1>26, <1>2, <2>1, <2>3, WorkerEffect DEF Recover, TypeInv, TypeOK
<1>27. CASE RenewLease(w)
  <2>1. PICK b \in BOOLEAN : child' = [child EXCEPT ![w] = [m EXCEPT !.beat = b]]
    BY <1>27 DEF RenewLease
  <2>2. [m EXCEPT !.beat = b] \in GoodChild
    BY <1>1, FieldTypes DEF GoodChild, Child
  <2>3. row' \in [Tasks -> Row]
    <3>1. CASE m.task \in Tasks
      <4>1. [[row[m.task] EXCEPT !.lease = "live"] EXCEPT !.hb = "fresh"] \in Row
        BY <1>1, <3>1, ColumnTypes
      <4>2. \/ row' = [row EXCEPT ![m.task] =
                          [[row[m.task] EXCEPT !.lease = "live"] EXCEPT !.hb = "fresh"]]
            \/ row' = row
        BY <1>27, <1>1 DEF RenewLease
      <4>. QED BY <1>1, <3>1, <4>1, <4>2
    <3>2. CASE m.task \notin Tasks
      BY <1>27, <1>1, <3>2 DEF RenewLease
    <3>. QED BY <3>1, <3>2
  <2>. QED
    BY <1>27, <2>1, <2>2, <2>3, WorkerEffect DEF RenewLease, TypeInv, TypeOK
<1>28. CASE Supervise(w)
  <2>1. [m EXCEPT !.stop = TRUE] \in GoodChild
    <3>1. [m EXCEPT !.stop = TRUE] \in Child
      BY <1>1, FieldTypes
    <3>. QED
      BY <1>1, <3>1 DEF GoodChild, Child
  <2>. QED
    BY <1>28, <2>1, WorkerEffect DEF Supervise, TypeInv, TypeOK
<1>29. CASE RunCompletes(w)
  <2>1. PICK out \in Endings : RunEnds(w, out)
    BY <1>29, ConstantsAssumption DEF RunCompletes
  <2>. QED BY <1>5, <2>1
<1>30. CASE RunStopped(w)
  <2>1. PICK out \in Endings : RunEnds(w, out)
    BY <1>30, ConstantsAssumption DEF RunStopped
  <2>. QED BY <1>5, <2>1
<1>31. CASE Crash(w)
  <2>1. budget' \in Budgets
    BY <1>31, SpendType DEF Crash
  <2>. QED
    BY <1>31, <1>2, <2>1, WorkerEffect DEF Crash, TypeInv, TypeOK
<1>34. CASE LastCommitFails(w)
  <2>1. budget' \in Budgets
    BY <1>34, SpendType DEF LastCommitFails
  <2>. QED
    BY <1>34, <1>2, <2>1, WorkerEffect DEF LastCommitFails, TypeInv, TypeOK
<1>32. CASE Terminate(w)
  BY <1>32, <1>2, WorkerEffect DEF Terminate, TypeInv, TypeOK
<1>33. CASE Redeliver(w)
  <2>1. budget' \in Budgets
    BY <1>33, SpendType DEF Redeliver
  <2>2. queue' \subseteq Message
    BY <1>33, <1>1 DEF Redeliver, Message, TypeInv, TypeOK
  <2>. QED
    BY <1>33, <1>1, <2>1, <2>2 DEF Redeliver, TypeInv, TypeOK, Busy, dispatcher
<1>. QED
  BY <1>11, <1>12, <1>13, <1>14, <1>15, <1>16, <1>17, <1>18, <1>19, <1>20, <1>21,
     <1>22, <1>23, <1>24, <1>25, <1>26, <1>27, <1>28, <1>29, <1>30, <1>31, <1>32, <1>33, <1>34
  DEF WorkerNext, WorkerStep

\* The ageing of a heartbeat or a lease does not break the types.
LEMMA ClockTypes ==
  ASSUME TypeInv, NEW t \in Tasks, ClockNext(t)
  PROVE  TypeInv'
<1>1. row \in [Tasks -> Row] /\ row[t] \in Row
  BY DEF TypeInv, TypeOK
<1>2. [row[t] EXCEPT !.hb = "stale"] \in Row /\ [row[t] EXCEPT !.lease = "expired"] \in Row
  BY <1>1, ColumnTypes
<1>3. row' \in [Tasks -> Row]
  BY <1>1, <1>2 DEF ClockNext, HeartbeatAges, LeaseExpires
<1>4. /\ UNCHANGED <<queue, published, revoked, child, artifacts, dispatcher, req, claimant>>
      /\ Spend("stall") \/ UNCHANGED budget
  BY DEF ClockNext, HeartbeatAges, LeaseExpires
<1>5. budget' \in Budgets
  BY <1>4, SpendType DEF TypeInv, TypeOK
<1>. QED
  BY <1>3, <1>4, <1>5 DEF TypeInv, TypeOK, Busy, dispatcher

\* No step of the pump, the stale scan or a dispatcher restart breaks the types.
LEMMA DispatcherTypes ==
  ASSUME TypeInv, DispatcherNext
  PROVE  TypeInv'
<1>1. row \in [Tasks -> Row] /\ \A t \in Tasks : row[t] \in Row
  BY DEF TypeInv, TypeOK
<1>2. CASE PumpQuery
  BY <1>2 DEF PumpQuery, TypeInv, TypeOK, Busy
<1>3. CASE PumpPublish
  <2>1. published' \in 0 .. MaxPublish /\ published + 1 \in 1 .. MaxPublish
    BY <1>3, ConstantsAssumption DEF PumpPublish, TypeInv, TypeOK
  <2>2. PICK t \in pump.batch :
          /\ queue' = queue \cup {[id |-> published + 1, task |-> t]}
          /\ pump' = [pc |-> "record", batch |-> pump.batch \ {t}, task |-> t]
    BY <1>3 DEF PumpPublish
  <2>3. t \in Tasks /\ pump.batch \ {t} \in SUBSET Tasks
    BY <2>2 DEF TypeInv, TypeOK
  <2>4. queue' \subseteq Message
    BY <2>1, <2>2, <2>3 DEF Message, TypeInv, TypeOK
  <2>. QED
    BY <1>3, <2>1, <2>2, <2>3, <2>4 DEF PumpPublish, TypeInv, TypeOK, Busy
<1>4. CASE PumpRecord
  <2>1. pump.task \in Tasks /\ published \in 0 .. MaxPublish
    BY <1>4 DEF PumpRecord, TypeInv, TypeOK, Busy
  <2>2. [row[pump.task] EXCEPT !.cid = published] \in Row
    BY <1>1, <2>1, ColumnTypes
  <2>3. row' \in [Tasks -> Row]
    BY <1>1, <1>4, <2>1, <2>2 DEF PumpRecord
  <2>. QED
    BY <1>4, <2>3 DEF PumpRecord, TypeInv, TypeOK, Busy
<1>5. CASE PumpAbort
  <2>1. budget' \in Budgets
    BY <1>5, SpendType DEF PumpAbort
  <2>. QED
    BY <1>5, <2>1 DEF PumpAbort, NoPump, TypeInv, TypeOK, Busy
<1>6. CASE ScanInspect
  <2>1. PICK pods \in SUBSET Workers :
          /\ \E late \in {0, 1}, early \in {0, 1} :
               /\ budget.scan > 0 /\ budget.stall >= late /\ budget.early >= early
               /\ budget' = [budget EXCEPT !.scan = @ - 1, !.stall = @ - late, !.early = @ - early]
          /\ scan' = [scan EXCEPT !.pc = "query", !.active = ActiveOn(pods)]
    BY <1>6 DEF ScanInspect
  <2>2. budget' \in Budgets
    <3>1. PICK late \in {0, 1}, early \in {0, 1} :
            /\ budget.scan > 0 /\ budget.stall >= late /\ budget.early >= early
            /\ budget' = [budget EXCEPT !.scan = @ - 1, !.stall = @ - late, !.early = @ - early]
      BY <2>1
    <3>2. budget.scan - 1 \in Nat /\ budget.stall - late \in Nat /\ budget.early - early \in Nat
      BY <3>1 DEF TypeInv, TypeOK, Budgets
    <3>3. \A i, j, k \in Nat :
            [budget EXCEPT !.scan = i, !.stall = j, !.early = k] \in Budgets
      BY DEF TypeInv, TypeOK, Budgets
    <3>. QED BY <3>1, <3>2, <3>3
  <2>3. ActiveOn(pods) \in SUBSET (1 .. MaxPublish)
    BY <2>1 DEF ActiveOn, TypeInv, TypeOK, Busy, GoodChild
  <2>. QED
    BY <1>6, <2>1, <2>2, <2>3 DEF ScanInspect, TypeInv, TypeOK, Busy
<1>7. CASE ScanQuery
  <2>. DEFINE lost == {t \in Tasks : Orphaned(row[t], scan.active)}
              seen == [t \in Tasks |-> IF t \in lost THEN row[t] ELSE NewRow]
  <2>1. seen \in [Tasks -> Row]
    BY <1>1, NewRowType
  <2>2. NoScan.seen \in [Tasks -> Row]
    BY NewRowType DEF NoScan
  <2>3. revoked' \subseteq 1 .. MaxPublish
    <3>1. \A t \in Tasks : row[t].cid \in 0 .. MaxPublish
      BY <1>1 DEF Row
    <3>2. \A c \in 0 .. MaxPublish : c # 0 => c \in 1 .. MaxPublish
      BY ConstantsAssumption
    <3>3. revoked' = revoked \cup ({row[t].cid : t \in lost} \ {0})
      BY <1>7 DEF ScanQuery
    <3>4. {row[t].cid : t \in lost} \ {0} \subseteq 1 .. MaxPublish
      BY <3>1, <3>2
    <3>5. revoked \subseteq 1 .. MaxPublish
      BY DEF TypeInv, TypeOK
    <3>. HIDE DEF lost
    <3>. QED BY <3>3, <3>4, <3>5
  <2>4. \/ scan' = NoScan
        \/ scan' = [pc |-> "flush", active |-> {}, victims |-> lost, seen |-> seen]
    BY <1>7 DEF ScanQuery
  <2>5. UNCHANGED <<row, queue, published, child, artifacts, pump, req, budget, claimant>>
    BY <1>7 DEF ScanQuery
  <2>6. lost \in SUBSET Tasks
    OBVIOUS
  <2>. HIDE DEF lost, seen
  <2>. QED
    BY <2>1, <2>2, <2>3, <2>4, <2>5, <2>6 DEF NoScan, TypeInv, TypeOK, Busy
<1>8. CASE ScanFlush
  <2>1. \A t \in Tasks : Flush(row[t], scan.seen[t], Reset(scan.seen[t])) \in Row
    <3>1. \A t \in Tasks : scan.seen[t] \in Row
      BY DEF TypeInv, TypeOK
    <3>. QED BY <1>1, <3>1, FlushType, WriterTypes
  <2>2. row' \in [Tasks -> Row]
    BY <1>1, <1>8, <2>1 DEF ScanFlush
  <2>3. scan' = NoScan /\ NoScan.seen \in [Tasks -> Row]
    BY <1>8, NewRowType DEF ScanFlush, NoScan
  <2>4. UNCHANGED <<queue, published, revoked, child, artifacts, pump, req, budget, claimant>>
    BY <1>8 DEF ScanFlush
  <2>. QED
    BY <2>2, <2>3, <2>4 DEF NoScan, TypeInv, TypeOK, Busy
<1>9. CASE DispatcherRestart
  <2>1. \A t \in Tasks : Reset(row[t]) \in Row
    BY <1>1, WriterTypes
  <2>2. row' \in [Tasks -> Row]
    BY <1>1, <1>9, <2>1 DEF DispatcherRestart
  <2>3. budget' \in Budgets
    BY <1>9, SpendType DEF DispatcherRestart
  <2>4. queue' \subseteq Message
    BY <1>9 DEF DispatcherRestart, TypeInv, TypeOK
  <2>5. /\ pump' = NoPump
        /\ scan' = NoScan /\ NoScan.seen \in [Tasks -> Row]
        /\ UNCHANGED <<published, revoked, child, artifacts, req, claimant>>
    BY <1>9, NewRowType DEF DispatcherRestart, NoScan
  <2>. QED
    BY <2>2, <2>3, <2>4, <2>5 DEF NoPump, NoScan, TypeInv, TypeOK, Busy
<1>. QED
  BY <1>2, <1>3, <1>4, <1>5, <1>6, <1>7, <1>8, <1>9
  DEF DispatcherNext, PumpNext, ScanNext

\* What a transaction of an API handler does to the types.
LEMMA SaveTypes ==
  ASSUME TypeInv, NEW r \in Requests, req[r].pc # "idle", NEW new \in Row,
         NEW label \in {"idle", "cancelled", "stopped", "requeued", "autoed"},
         Save(r, new, label), artifacts' \in [Tasks -> Workers \cup {None}],
         UNCHANGED <<queue, published, revoked, child, dispatcher, budget, claimant>>
  PROVE  TypeInv'
<1>1. /\ row \in [Tasks -> Row] /\ req \in [Requests -> Request]
      /\ req[r].task \in Tasks /\ row[req[r].task] \in Row /\ req[r].seen \in Row
  BY DEF TypeInv, TypeOK, Busy, Request
<1>2. Flush(row[req[r].task], req[r].seen, new) \in Row
  BY <1>1, FlushType
<1>3. row' \in [Tasks -> Row]
  BY <1>1, <1>2 DEF Save, Target
<1>4. NoRequest \in Request /\ [req[r] EXCEPT !.pc = label] \in Request
  BY <1>1, NewRowType DEF NoRequest, Request
<1>5. /\ req' \in [Requests -> Request]
      /\ \A q \in Requests : req'[q].pc # "idle" => req'[q].task \in Tasks
  BY <1>1, <1>4 DEF Save, NoRequest, Request, TypeInv, Busy
<1>. QED
  BY <1>3, <1>5 DEF TypeInv, TypeOK, Busy, dispatcher

\* No transaction of an API handler breaks the types.
LEMMA RequestTypes ==
  ASSUME TypeInv, NEW r \in Requests, RequestNext(r)
  PROVE  TypeInv'
<1>1. /\ req \in [Requests -> Request] /\ req[r] \in Request /\ req[r].seen \in Row
      /\ req[r].pc # "idle" => req[r].task \in Tasks
      /\ \A t \in Tasks : row[t] \in Row
      /\ artifacts \in [Tasks -> Workers \cup {None}]
  BY DEF TypeInv, TypeOK, Busy, Request
<1>2. NoRequest \in Request
  BY NewRowType DEF NoRequest, Request
<1>3. ASSUME NEW t \in Tasks, NEW label \in {"cancel", "stop", "clean", "auto", "mark"},
             NEW b \in BOOLEAN, Load(r, t, label, b)
      PROVE  TypeInv'
  <2>1. [pc |-> label, task |-> t, seen |-> row[t]] \in Request
    BY <1>1 DEF Request
  <2>2. /\ req' = [req EXCEPT ![r] = [pc |-> label, task |-> t, seen |-> row[t]]]
        /\ Spend("request")
        /\ revoked' = revoked \/ (row[t].cid # 0 /\ revoked' = revoked \cup {row[t].cid})
        /\ UNCHANGED <<row, queue, published, child, artifacts, dispatcher, claimant>>
    BY <1>3 DEF Load
  <2>3. budget' \in Budgets
    BY <2>2, SpendType
  <2>4. revoked' \subseteq 1 .. MaxPublish
    <3>1. row[t].cid \in 0 .. MaxPublish
      BY <1>1 DEF Row
    <3>2. row[t].cid # 0 => row[t].cid \in 1 .. MaxPublish
      BY <3>1, ConstantsAssumption
    <3>3. revoked \subseteq 1 .. MaxPublish
      BY DEF TypeInv, TypeOK
    <3>4. CASE revoked' = revoked
      BY <3>3, <3>4
    <3>5. CASE row[t].cid # 0 /\ revoked' = revoked \cup {row[t].cid}
      BY <3>2, <3>3, <3>5
    <3>. QED BY <2>2, <3>4, <3>5
  <2>5. /\ req' \in [Requests -> Request]
        /\ \A q \in Requests : req'[q].pc # "idle" => req'[q].task \in Tasks
    BY <1>1, <2>1, <2>2 DEF TypeInv, Busy
  <2>. QED
    BY <2>2, <2>3, <2>4, <2>5 DEF TypeInv, TypeOK, Busy, dispatcher
<1>4. CASE \E t \in Tasks : CancelLoad(r, t) \/ RestartLoad(r, t) \/ DeleteLoad(r, t)
  BY <1>3, <1>4 DEF CancelLoad, RestartLoad, DeleteLoad
<1>5. CASE Refresh(r)
  <2>. DEFINE l == NextLabel(req[r].pc)
              new == [[req[r] EXCEPT !.seen = row[req[r].task]] EXCEPT !.pc = l]
  <2>1. /\ req[r].pc \in {"cancelled", "stopped", "requeued", "autoed"}
        /\ req' = [req EXCEPT ![r] = new]
        /\ UNCHANGED <<row, queue, published, revoked, child, artifacts, dispatcher, budget, claimant>>
    BY <1>1, <1>5 DEF Refresh, Target, Request
  <2>2. l \in {"bump", "clean", "rebump", "mark"}
    BY <2>1 DEF NextLabel
  <2>3. new \in Request /\ new.task \in Tasks
    BY <1>1, <2>1, <2>2 DEF Request
  <2>4. /\ req' \in [Requests -> Request]
        /\ \A q \in Requests : req'[q].pc # "idle" => req'[q].task \in Tasks
    BY <1>1, <2>1, <2>3 DEF TypeInv, Busy
  <2>. QED
    BY <2>1, <2>4 DEF TypeInv, TypeOK, Busy, dispatcher
<1>6. CASE CancelSave(r)
  BY <1>1, <1>6, SaveTypes, WriterTypes DEF CancelSave
<1>7. CASE CancelInvalidate(r)
  BY <1>1, <1>7, SaveTypes, WriterTypes DEF CancelInvalidate
<1>8. CASE RestartStop(r)
  BY <1>1, <1>8, SaveTypes, WriterTypes DEF RestartStop
<1>9. CASE RestartClean(r)
  <2>1. artifacts' \in [Tasks -> Workers \cup {None}]
    BY <1>1, <1>9 DEF RestartClean
  <2>2. req[r].pc = "clean" /\ [req[r] EXCEPT !.pc = "requeue"] \in Request
    BY <1>1, <1>9 DEF RestartClean, Request
  <2>3. /\ req' = [req EXCEPT ![r] = NoRequest] \/ req' = [req EXCEPT ![r] = [req[r] EXCEPT !.pc = "requeue"]]
        /\ UNCHANGED <<row, queue, published, revoked, child, dispatcher, budget, claimant>>
    BY <1>9 DEF RestartClean, Proceed
  <2>4. /\ req' \in [Requests -> Request]
        /\ \A q \in Requests : req'[q].pc # "idle" => req'[q].task \in Tasks
    BY <1>1, <1>2, <2>2, <2>3 DEF TypeInv, Busy, NoRequest, Request
  <2>. QED
    BY <2>1, <2>3, <2>4 DEF TypeInv, TypeOK, Busy, dispatcher
<1>10. CASE RestartRequeue(r)
  BY <1>1, <1>10, SaveTypes, WriterTypes DEF RestartRequeue
<1>11. CASE RestartInvalidate(r)
  BY <1>1, <1>11, SaveTypes, WriterTypes DEF RestartInvalidate
<1>12. CASE DeleteCancel(r)
  BY <1>1, <1>12, SaveTypes, WriterTypes DEF DeleteCancel
<1>13. CASE DeleteMark(r)
  BY <1>1, <1>13, SaveTypes, WriterTypes DEF DeleteMark, Target
<1>. QED
  BY <1>4, <1>5, <1>6, <1>7, <1>8, <1>9, <1>10, <1>11, <1>12, <1>13
  DEF RequestNext, RequestStep

\* The types are an invariant: every step of every actor preserves them.
LEMMA TypeInvariant == Spec => []TypeInv
<1>1. TypeInv /\ [Next]_vars => TypeInv'
  <2>. SUFFICES ASSUME TypeInv, [Next]_vars PROVE TypeInv'
    OBVIOUS
  <2>1. CASE UNCHANGED vars
    BY <2>1 DEF vars, TypeInv, TypeOK, Busy
  <2>2. CASE Next
    BY <2>2, WorkerTypes, ClockTypes, DispatcherTypes, RequestTypes DEF Next
  <2>. QED BY <2>1, <2>2
<1>. QED
  BY <1>1, InitTypeInv, PTL DEF Spec

\* TypeOK holds throughout every behaviour: no row, message or child ever
\* leaves its type, whatever is flushed over whatever.
THEOREM TypesHold == Spec => []TypeOK
BY TypeInvariant, PTL DEF TypeInv

-----------------------------------------------------------------------------
(* What a step can do to status, owner and claimant.                       *)

\* The owner and the older dispatcher_instance_id are the last claimant or
\* nobody: the fences that compare them let nobody else through.
Ownership ==
  \A t \in Tasks : row[t].owner \in {None, claimant[t]} /\ row[t].disp \in {None, claimant[t]}

\* Nobody gets a task in this step.
OwnersKept ==
  /\ claimant' = claimant
  /\ \A t \in Tasks : /\ row'[t].owner \in {row[t].owner, None}
                      /\ row'[t].disp \in {row[t].disp, None}

OthersKept(t) == \A u \in Tasks \ {t} : row'[u] = row[u]

ClaimStep(t, w) ==
  /\ row[t].status \in Active
  /\ row[t].status = "running" => row[t].lease # "live"
  /\ row'[t].status = "pending" /\ row'[t].owner = w /\ row'[t].disp = w
  /\ claimant' = [claimant EXCEPT ![t] = w]
  /\ OthersKept(t)

BeginStep(t) ==
  /\ claimant[t] \in Workers
  /\ row[t].status \in Active /\ row'[t].status = "running"
  /\ OwnersKept /\ OthersKept(t)

FinishStep(t, w) ==
  /\ claimant[t] = w /\ child[w].task = t
  /\ child[w].pc \in {"persist", "commit"} /\ child'[w] # child[w]
  /\ row[t].status = "running" /\ row'[t].status \in {"passed", "failed", "error"}
  /\ OwnersKept /\ OthersKept(t)

ResetStep ==
  /\ OwnersKept
  /\ \A t \in Tasks : row'[t].status # row[t].status =>
       row[t].status \in Active /\ row'[t].status = "pending"

BlindStep ==
  /\ OwnersKept /\ BlindWrite
  /\ \E s \in {"pending", "error", "cancelled"} :
       \A t \in Tasks : row'[t].status \in {row[t].status, s}

Effect ==
  \/ \E t \in Tasks, w \in Workers : ClaimStep(t, w) \/ FinishStep(t, w)
  \/ \E t \in Tasks : BeginStep(t)
  \/ ResetStep
  \/ BlindStep

\* A step that changes neither a row nor a claimant has an effect of the listed
\* kinds: it resets nothing.
LEMMA QuietEffect ==
  ASSUME UNCHANGED <<row, claimant>>
  PROVE  Effect
BY DEF Effect, ResetStep, OwnersKept

\* A flush of an object on which the writer cleared the owner columns or left
\* them alone gives the task to nobody, and writes the writer's status or none.
LEMMA FlushEffect ==
  ASSUME NEW cur \in Row, NEW seen \in Row, NEW new \in Row,
         new.owner \in {seen.owner, None}, new.disp \in {seen.disp, None}
  PROVE  /\ Flush(cur, seen, new).owner \in {cur.owner, None}
         /\ Flush(cur, seen, new).disp \in {cur.disp, None}
         /\ Flush(cur, seen, new).status \in {cur.status, new.status}
         /\ new.status = seen.status => Flush(cur, seen, new).status = cur.status
BY DEF Flush

\* What each writer of a row does to its status and its two owner columns.
LEMMA WriterEffect ==
  ASSUME NEW r \in Row
  PROVE  /\ Reset(r).owner = None /\ Reset(r).disp = r.disp /\ Reset(r).status = "pending"
         /\ Released(r).owner = None /\ Released(r).disp = r.disp /\ Released(r).status = r.status
         /\ Cancelled(r).owner = r.owner /\ Cancelled(r).disp = None /\ Cancelled(r).status = "cancelled"
         /\ Requeued(r).owner = r.owner /\ Requeued(r).disp = None /\ Requeued(r).status = "pending"
         /\ Invalidated(r).owner = None /\ Invalidated(r).disp = r.disp /\ Invalidated(r).status = r.status
         /\ \A s \in Statuses : /\ Finished(r, s).owner = None /\ Finished(r, s).disp = None
                               /\ Finished(r, s).status = s
<1>0. Unowned(r) \in Row /\ Released(r) \in Row
  BY WriterTypes
<1>1. /\ Unowned(r).owner = None /\ Unowned(r).disp = r.disp /\ Unowned(r).status = r.status
  BY DEF Unowned, Row
<1>2. /\ Released(r).owner = None /\ Released(r).disp = r.disp /\ Released(r).status = r.status
  BY <1>0, <1>1 DEF Released, Row
<1>3. Reset(r).owner = None /\ Reset(r).disp = r.disp /\ Reset(r).status = "pending"
  BY <1>0, <1>1 DEF Reset, Row
<1>4. Cancelled(r).owner = r.owner /\ Cancelled(r).disp = None /\ Cancelled(r).status = "cancelled"
  BY DEF Cancelled, Row
<1>5. Requeued(r).owner = r.owner /\ Requeued(r).disp = None /\ Requeued(r).status = "pending"
  BY DEF Requeued, Row
<1>6. Invalidated(r).owner = None /\ Invalidated(r).disp = r.disp /\ Invalidated(r).status = r.status
  BY <1>0, <1>2 DEF Invalidated, Row
<1>7. \A s \in Statuses : /\ Finished(r, s).owner = None /\ Finished(r, s).disp = None
                         /\ Finished(r, s).status = s
  BY <1>0, <1>2 DEF Finished, Row
<1>. QED
  BY <1>2, <1>3, <1>4, <1>5, <1>6, <1>7

\* One row changes and nobody gets it.
LEMMA OneRow ==
  ASSUME row \in [Tasks -> Row], NEW t \in Tasks, NEW r,
         row' = [row EXCEPT ![t] = r], claimant' = claimant,
         r.owner \in {row[t].owner, None}, r.disp \in {row[t].disp, None}
  PROVE  OwnersKept /\ OthersKept(t) /\ row'[t] = r
BY DEF OwnersKept, OthersKept

\* Every step of a worker is a claim, a begin, a finish, a reset or a blind write.
LEMMA WorkerRowEffect ==
  ASSUME TypeInv, Ownership, NEW w \in Workers, WorkerNext(w)
  PROVE  Effect
<1>. DEFINE m == child[w]
            t == m.task
<1>1. /\ row \in [Tasks -> Row]
      /\ child \in [Workers -> Child]
      /\ m.pc # "idle" => t \in Tasks /\ row[t] \in Row
      /\ w # None
  BY ConstantsAssumption DEF TypeInv, TypeOK, Busy, GoodChild
<1>. USE DEF Task
<1>2. CASE \/ Receive(w) \/ DiscardRevoked(w) \/ ClaimRead(w) \/ ClaimReload(w)
           \/ CleanArtifacts(w) \/ SetupWorkspace(w) \/ Prepare(w) \/ Snapshot(w)
           \/ Supervise(w) \/ RunCompletes(w) \/ RunStopped(w) \/ ErrorRead(w)
           \/ Archive(w) \/ LastCommitFails(w) \/ Crash(w) \/ Terminate(w) \/ Redeliver(w)
  BY <1>2, QuietEffect
  DEF Receive, DiscardRevoked, ClaimRead, ClaimReload, CleanArtifacts, SetupWorkspace,
      Prepare, Snapshot, Supervise, RunCompletes, RunStopped, RunEnds, ErrorRead,
      Archive, LastCommitFails, Crash, Terminate, Redeliver
<1>3. CASE ClaimCas(w)
  <2>1. m.pc = "cas" /\ t \in Tasks
    BY <1>1, <1>3 DEF ClaimCas
  <2>2. CASE UNCHANGED <<row, claimant>>
    BY <2>2, QuietEffect
  <2>3. CASE ClaimMatches(w) /\ claimant' = [claimant EXCEPT ![t] = w]
             /\ row' = [row EXCEPT ![t] =
                  [@ EXCEPT !.status = "pending", !.owner = w, !.epoch = m.seen.epoch + 1,
                            !.lease = "live", !.hb = "fresh", !.disp = w,
                            !.lepoch = m.seen.epoch + 1]]
    <3>1. /\ row'[t].status = "pending" /\ row'[t].owner = w /\ row'[t].disp = w
          /\ OthersKept(t)
      BY <1>1, <2>1, <2>3 DEF Row, OthersKept
    <3>2. row[t].status \in Active /\ (row[t].status = "running" => row[t].lease # "live")
      BY <2>3 DEF ClaimMatches, Claimable, Active
    <3>3. ClaimStep(t, w)
      BY <2>3, <3>1, <3>2 DEF ClaimStep
    <3>. QED BY <2>1, <3>3 DEF Effect
  <2>. QED
    BY <1>3, <2>2, <2>3 DEF ClaimCas
<1>4. CASE Begin(w)
  <2>1. m.pc = "begin" /\ t \in Tasks
    BY <1>1, <1>4 DEF Begin
  <2>2. CASE OwnedBy(row[t], w) /\ row[t].cv = m.cv /\ row[t].status \in Active
    <3>1. row' = [row EXCEPT ![t] = [row[t] EXCEPT !.status = "running"]] /\ claimant' = claimant
      BY <1>4, <2>2 DEF Begin
    <3>2. OwnersKept /\ OthersKept(t) /\ row'[t].status = "running"
      BY <1>1, <2>1, <3>1, OneRow DEF Row
    <3>3. claimant[t] = w
      BY <1>1, <2>1, <2>2 DEF Ownership, OwnedBy
    <3>. QED BY <2>1, <2>2, <3>2, <3>3 DEF Effect, BeginStep
  <2>3. CASE ~ (OwnedBy(row[t], w) /\ row[t].cv = m.cv /\ row[t].status \in Active)
    <3>1. row' = [row EXCEPT ![t] = [row[t] EXCEPT !.status = row[t].status]] /\ claimant' = claimant
      BY <1>4, <2>3 DEF Begin
    <3>2. row' = row
      BY <1>1, <2>1, <3>1 DEF Row
    <3>. QED BY <3>1, <3>2, QuietEffect
  <2>. QED BY <2>2, <2>3
<1>5. CASE RenewLease(w)
  <2>1. claimant' = claimant
    BY <1>5 DEF RenewLease
  <2>2. row' = row \/ (/\ t \in Tasks
                      /\ row' = [row EXCEPT ![t] = [row[t] EXCEPT !.lease = "live", !.hb = "fresh"]])
    BY <1>1, <1>5 DEF RenewLease
  <2>3. \A u \in Tasks : /\ row'[u].status = row[u].status /\ row'[u].owner = row[u].owner
                         /\ row'[u].disp = row[u].disp
    <3>1. CASE row' = row
      BY <3>1
    <3>2. CASE t \in Tasks /\ row' = [row EXCEPT ![t] = [row[t] EXCEPT !.lease = "live", !.hb = "fresh"]]
      <4>. DEFINE r == [row[t] EXCEPT !.lease = "live", !.hb = "fresh"]
      <4>1. r.status = row[t].status /\ r.owner = row[t].owner /\ r.disp = row[t].disp
        BY <1>1, <3>2 DEF Row
      <4>. HIDE DEF r
      <4>2. row' = [row EXCEPT ![t] = r]
        BY <3>2 DEF r
      <4>. QED BY <1>1, <3>2, <4>1, <4>2
    <3>. QED BY <2>2, <3>1, <3>2
  <2>. QED BY <2>1, <2>3 DEF Effect, ResetStep, OwnersKept
<1>6. CASE PersistResult(w)
  <2>1. /\ m.pc = "persist" /\ t \in Tasks
        /\ m.out \in {"passed", "failed", "error"} /\ m.out \in Statuses
    BY <1>1, <1>6 DEF PersistResult, TypeInv, Busy, GoodChild, Statuses, Terminal
  <2>2. CASE row' = row
    BY <1>6, <2>2, QuietEffect DEF PersistResult
  <2>3. CASE Fenced(w) /\ row' = [row EXCEPT ![t] = Finished(row[t], m.out)]
             /\ child' = [child EXCEPT ![w].pc = "archive", ![w].beat = FALSE]
    <3>1. OwnersKept /\ OthersKept(t) /\ row'[t].status = m.out
      <4>. DEFINE r == Finished(row[t], m.out)
      <4>1. r.owner = None /\ r.disp = None /\ r.status = m.out
        BY <1>1, <2>1, WriterEffect
      <4>2. claimant' = claimant /\ row' = [row EXCEPT ![t] = r]
        BY <1>6, <2>3 DEF PersistResult
      <4>. HIDE DEF r
      <4>. QED BY <1>1, <2>1, <4>1, <4>2, OneRow
    <3>2. row[t].status = "running" /\ claimant[t] = w
      BY <1>1, <2>1, <2>3 DEF Fenced, LeasedBy, Ownership
    <3>3. child'[w] # child[w]
      BY <1>1, <2>1, <2>3 DEF Child
    <3>. QED BY <2>1, <3>1, <3>2, <3>3 DEF Effect, FinishStep
  <2>. QED
    BY <1>1, <1>6, <2>2, <2>3 DEF PersistResult
<1>7. CASE ErrorWrite(w)
  <2>1. m.pc = "write" /\ t \in Tasks /\ m.seen \in Row
    BY <1>1, <1>7 DEF ErrorWrite, Child
  <2>2. CASE row' = row
    BY <1>7, <2>2, QuietEffect DEF ErrorWrite
  <2>3. CASE row' = [row EXCEPT ![t] = Flush(row[t], m.seen, Finished(m.seen, "error"))]
    <3>. DEFINE new == Finished(m.seen, "error")
    <3>1. /\ new \in Row /\ new.owner = None /\ new.disp = None /\ new.status = "error"
      <4>1. "error" \in Statuses
        BY DEF Statuses, Terminal
      <4>. QED BY <2>1, <4>1, WriterTypes, WriterEffect
    <3>. HIDE DEF new
    <3>2. /\ Flush(row[t], m.seen, new).owner \in {row[t].owner, None}
          /\ Flush(row[t], m.seen, new).disp \in {row[t].disp, None}
          /\ Flush(row[t], m.seen, new).status \in {row[t].status, "error"}
      BY <1>1, <2>1, <3>1, FlushEffect
    <3>3. OwnersKept /\ OthersKept(t) /\ row'[t].status \in {row[t].status, "error"}
      <4>. DEFINE r == Flush(row[t], m.seen, new)
      <4>1. claimant' = claimant
        BY <1>7 DEF ErrorWrite
      <4>2. row' = [row EXCEPT ![t] = r]
        BY <2>3 DEF new
      <4>3. /\ r.owner \in {row[t].owner, None}
            /\ r.disp \in {row[t].disp, None}
            /\ r.status \in {row[t].status, "error"}
        BY <3>2
      <4>. HIDE DEF r
      <4>. QED BY <1>1, <2>1, <4>1, <4>2, <4>3, OneRow
    <3>4. child'[w] # child[w]
      BY <1>1, <1>7, <2>1 DEF ErrorWrite, Child
    <3>. QED BY <2>1, <3>3, <3>4 DEF Effect, BlindStep, BlindWrite, OthersKept
  <2>. QED
    BY <1>7, <2>2, <2>3 DEF ErrorWrite
<1>8. CASE CommitTerminal(w)
  <2>1. m.pc = "commit" /\ t \in Tasks /\ claimant' = claimant
    BY <1>1, <1>8 DEF CommitTerminal
  <2>2. CASE row' = row
    BY <2>1, <2>2, QuietEffect
  <2>3. CASE MayCommit(w) /\ child' = [child EXCEPT ![w] = Idle]
             /\ \E s \in {"passed", "error"} :
                  row' = [row EXCEPT ![t] = [Released(row[t]) EXCEPT !.status = s]]
    <3>1. PICK s \in {"passed", "error"} :
            row' = [row EXCEPT ![t] = [Released(row[t]) EXCEPT !.status = s]]
      BY <2>3
    <3>. DEFINE r == [Released(row[t]) EXCEPT !.status = s]
    <3>2. r.owner = None /\ r.disp = row[t].disp /\ r.status = s
      BY <1>1, <2>1, WriterTypes, WriterEffect DEF Row
    <3>. HIDE DEF r
    <3>3. OwnersKept /\ OthersKept(t) /\ row'[t].status = s
      BY <1>1, <2>1, <3>1, <3>2, OneRow DEF r
    <3>4. row[t].status = "running" /\ claimant[t] = w
      BY <1>1, <2>1, <2>3 DEF MayCommit, OwnedBy, Ownership
    <3>5. child'[w] # child[w]
      BY <1>1, <2>1, <2>3 DEF Idle
    <3>. QED BY <2>1, <3>3, <3>4, <3>5 DEF Effect, FinishStep
  <2>. QED
    BY <1>8, <2>2, <2>3 DEF CommitTerminal
<1>9. CASE Recover(w)
  <2>1. m.pc = "recover" /\ t \in Tasks /\ claimant' = claimant
    BY <1>1, <1>9 DEF Recover
  <2>2. CASE row' = row
    BY <2>1, <2>2, QuietEffect
  <2>3. CASE MayCommit(w) /\ row' = [row EXCEPT ![t] = [Released(row[t]) EXCEPT !.status = "pending"]]
    <3>. DEFINE r == [Released(row[t]) EXCEPT !.status = "pending"]
    <3>1. r.owner = None /\ r.disp = row[t].disp /\ r.status = "pending"
      BY <1>1, <2>1, WriterTypes, WriterEffect DEF Row
    <3>. HIDE DEF r
    <3>2. OwnersKept /\ OthersKept(t) /\ row'[t].status = "pending"
      BY <1>1, <2>1, <2>3, <3>1, OneRow DEF r
    <3>3. row[t].status \in Active
      BY <2>3 DEF MayCommit, Active
    <3>. QED BY <2>1, <3>2, <3>3 DEF Effect, ResetStep, OthersKept
  <2>. QED
    BY <1>1, <1>9, <2>1, <2>2, <2>3 DEF Recover
<1>. QED
  BY <1>2, <1>3, <1>4, <1>5, <1>6, <1>7, <1>8, <1>9 DEF WorkerNext, WorkerStep

\* The passing of time changes neither status nor owners.
LEMMA ClockEffect ==
  ASSUME TypeInv, NEW t \in Tasks, ClockNext(t)
  PROVE  Effect
<1>1. row \in [Tasks -> Row] /\ row[t] \in Row
  BY DEF TypeInv, TypeOK
<1>2. /\ claimant' = claimant
      /\ \/ row' = [row EXCEPT ![t] = [row[t] EXCEPT !.hb = "stale"]]
         \/ row' = [row EXCEPT ![t] = [row[t] EXCEPT !.lease = "expired"]]
  BY DEF ClockNext, HeartbeatAges, LeaseExpires
<1>3. \A u \in Tasks : /\ row'[u].status = row[u].status /\ row'[u].owner = row[u].owner
                       /\ row'[u].disp = row[u].disp
  BY <1>1, <1>2 DEF Row
<1>. QED
  BY <1>2, <1>3 DEF Effect, ResetStep, OwnersKept

\* A step of the dispatcher resets rows, or is the blind write of the stale scan.
LEMMA DispatcherEffect ==
  ASSUME TypeInv, DispatcherNext
  PROVE  Effect
<1>1. row \in [Tasks -> Row] /\ \A t \in Tasks : row[t] \in Row /\ scan.seen[t] \in Row
  BY DEF TypeInv, TypeOK
<1>2. CASE PumpQuery \/ PumpPublish \/ PumpAbort \/ ScanInspect \/ ScanQuery
  BY <1>2, QuietEffect DEF PumpQuery, PumpPublish, PumpAbort, ScanInspect, ScanQuery
<1>3. CASE PumpRecord
  <2>1. /\ claimant' = claimant /\ pump.task \in Tasks
        /\ row' = [row EXCEPT ![pump.task] = [row[pump.task] EXCEPT !.cid = published]]
    BY <1>3 DEF PumpRecord, TypeInv, Busy
  <2>2. \A u \in Tasks : /\ row'[u].status = row[u].status /\ row'[u].owner = row[u].owner
                         /\ row'[u].disp = row[u].disp
    BY <1>1, <2>1 DEF Row
  <2>. QED
    BY <2>1, <2>2 DEF Effect, ResetStep, OwnersKept
<1>4. CASE ScanFlush
  <2>1. \A t \in Tasks :
          LET new == Reset(scan.seen[t])
              out == Flush(row[t], scan.seen[t], new)
          IN  /\ out.owner \in {row[t].owner, None} /\ out.disp \in {row[t].disp, None}
              /\ out.status \in {row[t].status, "pending"}
    <3>. TAKE t \in Tasks
    <3>. DEFINE new == Reset(scan.seen[t])
    <3>1. /\ new \in Row /\ new.owner = None /\ new.disp = scan.seen[t].disp
          /\ new.status = "pending"
      BY <1>1, WriterTypes, WriterEffect
    <3>. HIDE DEF new
    <3>2. /\ Flush(row[t], scan.seen[t], new).owner \in {row[t].owner, None}
          /\ Flush(row[t], scan.seen[t], new).disp \in {row[t].disp, None}
          /\ Flush(row[t], scan.seen[t], new).status \in {row[t].status, "pending"}
      BY <1>1, <3>1, FlushEffect
    <3>. QED BY <3>2 DEF new
  <2>2. /\ \A t \in Tasks : \/ row'[t] = row[t]
                            \/ row'[t] = Flush(row[t], scan.seen[t], Reset(scan.seen[t]))
        /\ claimant' = claimant /\ scan.pc = "flush" /\ scan' # scan
    BY <1>4 DEF ScanFlush, NoScan
  <2>3. BlindWrite
    BY <2>2 DEF BlindWrite
  <2>. QED
    BY <2>1, <2>2, <2>3 DEF Effect, BlindStep, OwnersKept
<1>5. CASE DispatcherRestart
  <2>1. /\ claimant' = claimant
        /\ \A t \in Tasks : \/ row'[t] = row[t]
                            \/ row[t].status \in Active /\ row'[t] = Reset(row[t])
    BY <1>5 DEF DispatcherRestart, Active
  <2>2. \A t \in Tasks : /\ Reset(row[t]).owner = None /\ Reset(row[t]).disp = row[t].disp
                         /\ Reset(row[t]).status = "pending"
    BY <1>1, WriterEffect
  <2>. QED
    BY <2>1, <2>2 DEF Effect, ResetStep, OwnersKept
<1>. QED
  BY <1>2, <1>3, <1>4, <1>5 DEF DispatcherNext, PumpNext, ScanNext

\* A transaction of an API handler that leaves owner and disp alone or clears
\* them keeps the status or writes its own without a WHERE clause.
LEMMA SaveEffect ==
  ASSUME TypeInv, NEW r \in Requests, NEW new \in Row, NEW label, Save(r, new, label),
         req[r].pc # "idle", UNCHANGED claimant,
         new.owner \in {req[r].seen.owner, None}, new.disp \in {req[r].seen.disp, None},
         \/ new.status = req[r].seen.status
         \/ BlindWrite /\ new.status \in {"pending", "cancelled"}
  PROVE  Effect
<1>. DEFINE t == req[r].task
            out == Flush(row[t], req[r].seen, new)
<1>1. row \in [Tasks -> Row] /\ t \in Tasks /\ row[t] \in Row /\ req[r].seen \in Row
  BY DEF TypeInv, TypeOK, Busy, Request
<1>2. /\ out.owner \in {row[t].owner, None} /\ out.disp \in {row[t].disp, None}
      /\ out.status \in {row[t].status, new.status}
      /\ new.status = req[r].seen.status => out.status = row[t].status
  BY <1>1, FlushEffect
<1>3. row' = [row EXCEPT ![t] = out]
  BY DEF Save, Target
<1>. HIDE DEF out
<1>4. OwnersKept /\ OthersKept(t) /\ row'[t] = out
  BY <1>1, <1>2, <1>3, OneRow
<1>5. CASE new.status = req[r].seen.status
  BY <1>1, <1>2, <1>4, <1>5 DEF Effect, ResetStep, OthersKept
<1>6. CASE BlindWrite /\ new.status \in {"pending", "cancelled"}
  BY <1>1, <1>2, <1>4, <1>6 DEF Effect, BlindStep, OthersKept
<1>. QED
  BY <1>5, <1>6

\* A step of an API handler clears owners or leaves them, and its status is a
\* blind write.
LEMMA RequestEffect ==
  ASSUME TypeInv, NEW r \in Requests, RequestNext(r)
  PROVE  Effect
<1>. DEFINE seen == req[r].seen
<1>1. /\ req \in [Requests -> Request] /\ seen \in Row
  BY DEF TypeInv, TypeOK, Request
<1>2. CASE \/ \E t \in Tasks : CancelLoad(r, t) \/ RestartLoad(r, t) \/ DeleteLoad(r, t)
           \/ Refresh(r) \/ RestartClean(r)
  BY <1>2, QuietEffect DEF CancelLoad, RestartLoad, DeleteLoad, Load, Refresh, RestartClean
<1>3. ASSUME NEW new, NEW label, Save(r, new, label), label # req[r].pc, req[r].pc # "idle"
      PROVE  req'[r] # req[r]
  BY <1>1, <1>3 DEF Save, NoRequest, Request
<1>4. CASE CancelSave(r)
  <2>1. BlindWrite
    BY <1>3, <1>4 DEF CancelSave, BlindWrite
  <2>. QED
    BY <1>1, <1>4, <2>1, SaveEffect, WriterTypes, WriterEffect DEF CancelSave
<1>5. CASE CancelInvalidate(r)
  BY <1>1, <1>5, SaveEffect, WriterTypes, WriterEffect DEF CancelInvalidate
<1>6. CASE RestartStop(r)
  <2>1. BlindWrite
    BY <1>3, <1>6 DEF RestartStop, BlindWrite
  <2>. DEFINE new == [Invalidated(seen) EXCEPT !.status = "cancelled"]
  <2>2. new \in Row /\ Invalidated(seen) \in Row
    BY <1>1, WriterTypes
  <2>3. new.owner = None /\ new.disp = seen.disp /\ new.status = "cancelled"
    BY <1>1, <2>2, WriterEffect DEF Row
  <2>4. req[r].pc = "stop" /\ Save(r, new, "stopped") /\ UNCHANGED claimant
    BY <1>6 DEF RestartStop
  <2>. HIDE DEF new
  <2>. QED
    BY <2>1, <2>2, <2>3, <2>4, SaveEffect
<1>7. CASE RestartRequeue(r)
  <2>1. BlindWrite
    BY <1>3, <1>7 DEF RestartRequeue, BlindWrite
  <2>. QED
    BY <1>1, <1>7, <2>1, SaveEffect, WriterTypes, WriterEffect DEF RestartRequeue
<1>8. CASE RestartInvalidate(r)
  BY <1>1, <1>8, SaveEffect, WriterTypes, WriterEffect DEF RestartInvalidate
<1>9. CASE DeleteCancel(r)
  <2>1. BlindWrite
    BY <1>3, <1>9 DEF DeleteCancel, BlindWrite
  <2>. QED
    BY <1>1, <1>9, <2>1, SaveEffect, WriterTypes, WriterEffect DEF DeleteCancel
<1>10. CASE DeleteMark(r)
  <2>. DEFINE new == [seen EXCEPT !.deleted = TRUE]
  <2>3. new \in Row
    BY <1>1, WriterTypes
  <2>1. new.owner = seen.owner /\ new.disp = seen.disp /\ new.status = seen.status
    BY <1>1 DEF Row
  <2>2. req[r].pc = "mark" /\ Save(r, new, "idle") /\ UNCHANGED claimant
    BY <1>10 DEF DeleteMark
  <2>. HIDE DEF new
  <2>. QED
    BY <2>1, <2>2, <2>3, SaveEffect
<1>. QED
  BY <1>2, <1>4, <1>5, <1>6, <1>7, <1>8, <1>9, <1>10 DEF RequestNext, RequestStep

\* Every step of the system is one of the five effects.
LEMMA StepEffect ==
  ASSUME TypeInv, Ownership, [Next]_vars
  PROVE  Effect
<1>1. CASE UNCHANGED vars
  BY <1>1, QuietEffect DEF vars
<1>2. CASE Next
  BY <1>2, WorkerRowEffect, ClockEffect, DispatcherEffect, RequestEffect DEF Next
<1>. QED
  BY <1>1, <1>2

-----------------------------------------------------------------------------
(* The invariant and the properties.                                       *)

\* Every step keeps the owner columns on the last claimant or nobody.
LEMMA OwnershipStep ==
  ASSUME TypeInv, Ownership, Effect
  PROVE  Ownership'
<1>1. claimant \in [Tasks -> Workers \cup {None}]
  BY DEF TypeInv, TypeOK
<1>2. CASE OwnersKept
  BY <1>2 DEF OwnersKept, Ownership
<1>3. ASSUME NEW t \in Tasks, NEW w \in Workers, ClaimStep(t, w)
      PROVE  Ownership'
  BY <1>1, <1>3 DEF ClaimStep, OthersKept, Ownership
<1>. QED
  BY <1>2, <1>3 DEF Effect, BeginStep, FinishStep, ResetStep, BlindStep

\* Both owner columns name the pod of the last successful claim or nobody,
\* so a compare-and-swap on them never lets an older execution through.
THEOREM OwnerIsClaimant == Spec => [](TypeInv /\ Ownership)
<1>1. Init => Ownership
  BY DEF Init, Ownership, NewRow
<1>2. TypeInv /\ Ownership /\ [Next]_vars => Ownership'
  BY StepEffect, OwnershipStep
<1>. QED
  BY <1>1, <1>2, TypeInvariant, PTL DEF Spec

\* Only the last claimant records a result.
THEOREM ResultsAreByClaimant == Spec => ResultByClaimant
<1>. DEFINE P == \A t \in Tasks :
       LET s == row'[t].status
       IN  (s # row[t].status /\ s \in {"passed", "failed"}) =>
             \E w \in Workers :
               /\ claimant[t] = w /\ Task(w) = t
               /\ child[w].pc \in {"persist", "commit"}
               /\ child'[w] # child[w]
<1>1. Effect => P
  BY DEF Effect, ClaimStep, BeginStep, FinishStep, ResetStep, BlindStep, OthersKept, Task
<1>2. TypeInv /\ Ownership /\ [Next]_vars => [P]_vars
  BY <1>1, StepEffect
<1>. QED
  BY <1>2, OwnerIsClaimant, PTL DEF Spec, ResultByClaimant

\* Only a write without a WHERE clause takes a task out of a terminal status.
THEOREM TerminalIsKept == Spec => GuardedWritesKeepTerminal
<1>. DEFINE P == \A t \in Tasks :
       row[t].status \in Terminal /\ row'[t].status # row[t].status => BlindWrite
<1>1. Effect => P
  BY DEF Effect, ClaimStep, BeginStep, FinishStep, ResetStep, BlindStep, OthersKept,
         Active, Terminal
<1>2. TypeInv /\ Ownership /\ [Next]_vars => [P]_vars
  BY <1>1, StepEffect
<1>. QED
  BY <1>2, OwnerIsClaimant, PTL DEF Spec, GuardedWritesKeepTerminal

\* A live lease keeps every other pod away from a running task.
THEOREM LiveLeaseExcludes == Spec => NoLiveTakeover
<1>. DEFINE P == \A t \in Tasks :
       row[t].status = "running" /\ row[t].lease = "live" =>
         row'[t].owner \in {row[t].owner, None}
<1>1. Effect => P
  BY DEF Effect, ClaimStep, BeginStep, FinishStep, ResetStep, BlindStep, OthersKept,
         OwnersKept
<1>2. TypeInv /\ Ownership /\ [Next]_vars => [P]_vars
  BY <1>1, StepEffect
<1>. QED
  BY <1>2, OwnerIsClaimant, PTL DEF Spec, NoLiveTakeover

\* Every step is a step of TaskClaim or leaves the status and the holder alone.
LEMMA EffectRefines ==
  ASSUME TypeInv, Ownership, Effect
  PROVE  [Abstract!Next]_(Abstract!vars)
<1>. DEFINE st == [t \in Tasks |-> row[t].status]
<1>1. claimant \in [Tasks -> Workers \cup {None}] /\ claimant' \in [Tasks -> Workers \cup {None}]
  BY DEF TypeInv, TypeOK, Effect, ClaimStep, BeginStep, FinishStep, ResetStep, BlindStep, OwnersKept
<1>2. ASSUME NEW t \in Tasks, NEW w \in Workers, ClaimStep(t, w)
      PROVE  Abstract!Claim(t, w)
  <2>1. st' = [st EXCEPT ![t] = "pending"]
    BY <1>2 DEF ClaimStep, OthersKept
  <2>. QED BY <1>2, <2>1 DEF ClaimStep, Active, Abstract!Claim
<1>3. ASSUME NEW t \in Tasks, NEW w \in Workers, FinishStep(t, w)
      PROVE  Abstract!Finish(t)
  <2>1. st' = [st EXCEPT ![t] = row'[t].status]
    BY <1>3 DEF FinishStep, OthersKept
  <2>. QED BY <1>3, <2>1 DEF FinishStep, OwnersKept, Abstract!Finish
<1>4. ASSUME NEW t \in Tasks, BeginStep(t)
      PROVE  Abstract!Start(t) \/ UNCHANGED Abstract!vars
  <2>1. st' = [st EXCEPT ![t] = "running"]
    BY <1>4 DEF BeginStep, OthersKept
  <2>2. CASE row[t].status = "pending"
    BY <1>4, <2>1, <2>2 DEF BeginStep, OwnersKept, Abstract!Start
  <2>3. CASE row[t].status = "running"
    BY <1>4, <2>1, <2>3 DEF BeginStep, OwnersKept, Abstract!vars
  <2>. QED BY <1>4, <2>2, <2>3 DEF BeginStep, Active
<1>5. ASSUME OwnersKept, NEW s \in {"pending", "error", "cancelled"},
             \A t \in Tasks : row'[t].status \in {row[t].status, s}
      PROVE  \E T \in SUBSET Tasks : Abstract!Interrupt(T)
  <2>. DEFINE T == {t \in Tasks : row'[t].status # row[t].status}
  <2>1. st' = [t \in Tasks |-> IF t \in T THEN s ELSE st[t]] /\ T \in SUBSET Tasks
    BY <1>5
  <2>2. UNCHANGED claimant
    BY <1>5 DEF OwnersKept
  <2>. HIDE DEF T
  <2>. QED BY <2>1, <2>2 DEF Abstract!Interrupt
<1>. QED
  BY <1>2, <1>3, <1>4, <1>5 DEF Effect, ResetStep, BlindStep, Abstract!Next

\* The execution path implements TaskClaim.
THEOREM Implements == Spec => ImplementsTaskClaim
<1>1. Init => Abstract!Init
  BY DEF Init, NewRow, Abstract!Init
<1>2. TypeInv /\ Ownership /\ [Next]_vars => [Abstract!Next]_(Abstract!vars)
  BY StepEffect, EffectRefines
<1>. QED
  BY <1>1, <1>2, OwnerIsClaimant, PTL DEF Spec, ImplementsTaskClaim, Abstract!Spec
-----------------------------------------------------------------------------
(* Control versions.  Only an API handler writes one, and never 0, so the  *)
(* row of a task nobody has cancelled or restarted has the version every   *)
(* claim of it has read.                                                   *)

VersionsAgree ==
  \A w \in Workers : child[w].cv # 0 => child[w].task \in Tasks /\ row[child[w].task].cv # 0

RowVersions == \A t \in Tasks : row'[t].cv # row[t].cv => row'[t].cv # 0

\* Children keep version and task, start from 0, or read the row's version.
ChildVersions ==
  \A w \in Workers :
    LET c == child'[w]
    IN  c.cv # 0 =>
          /\ c.task = child[w].task
          /\ \/ c.cv = child[w].cv
             \/ c.task \in Tasks /\ c.cv = row[c.task].cv

\* What each writer of a row does to its version.
LEMMA WriterVersion ==
  ASSUME NEW r \in Row
  PROVE  /\ Reset(r).cv = r.cv /\ Released(r).cv = r.cv /\ Cancelled(r).cv = r.cv
         /\ Requeued(r).cv = r.cv /\ Invalidated(r).cv = r.cv + 1
         /\ \A s \in Statuses : Finished(r, s).cv = r.cv
<1>1. Unowned(r) \in Row /\ Released(r) \in Row
  BY WriterTypes
<1>2. Unowned(r).cv = r.cv
  BY DEF Unowned, Row
<1>3. Released(r).cv = r.cv
  BY <1>1, <1>2 DEF Released, Row
<1>4. Reset(r).cv = r.cv
  BY <1>1, <1>2 DEF Reset, Row
<1>5. Cancelled(r).cv = r.cv /\ Requeued(r).cv = r.cv
  BY DEF Cancelled, Requeued, Row
<1>6. Invalidated(r).cv = r.cv + 1
  BY <1>1, <1>3 DEF Invalidated, Row
<1>7. \A s \in Statuses : Finished(r, s).cv = r.cv
  BY <1>1, <1>3 DEF Finished, Row
<1>. QED
  BY <1>3, <1>4, <1>5, <1>6, <1>7

\* A flush writes the writer's version or leaves the row's.
LEMMA FlushVersion ==
  ASSUME NEW cur \in Row, NEW seen \in Row, NEW new \in Row, new.cv = seen.cv \/ new.cv # 0
  PROVE  Flush(cur, seen, new).cv = cur.cv \/ Flush(cur, seen, new).cv # 0
BY DEF Flush

LEMMA OneVersion ==
  ASSUME row \in [Tasks -> Row], NEW t \in Tasks, NEW r, row' = [row EXCEPT ![t] = r],
         r.cv = row[t].cv \/ r.cv # 0
  PROVE  RowVersions
BY DEF RowVersions

LEMMA ChildVersionsStay == ASSUME child' = child PROVE ChildVersions
BY DEF ChildVersions

LEMMA OneChildVersion ==
  ASSUME child \in [Workers -> Child], NEW w \in Workers, NEW c, child' = [child EXCEPT ![w] = c],
         c.cv = 0 \/ (c.cv = child[w].cv /\ c.task = child[w].task)
  PROVE  ChildVersions
BY DEF ChildVersions

\* Every step of a worker but the reload of its claim keeps its version or
\* drops it with the child.
LEMMA WorkerVersions ==
  ASSUME TypeInv, NEW w \in Workers, WorkerNext(w)
  PROVE  ChildVersions
<1>. DEFINE m == child[w]
<1>1. child \in [Workers -> Child] /\ m \in Child
  BY DEF TypeInv, TypeOK
<1>2. Idle.cv = 0
  BY DEF Idle
<1>. USE DEF Task, Goto
<1>3. CASE DiscardRevoked(w) \/ Redeliver(w)
  BY <1>3, ChildVersionsStay DEF DiscardRevoked, Redeliver
<1>4. CASE Receive(w)
  <2>1. PICK q : child' = [child EXCEPT ![w] = [Idle EXCEPT !.pc = "read", !.task = q.task, !.id = q.id]]
    BY <1>4 DEF Receive
  <2>. DEFINE c == [Idle EXCEPT !.pc = "read", !.task = q.task, !.id = q.id]
  <2>2. c.cv = 0
    BY DEF Idle
  <2>. HIDE DEF c
  <2>. QED
    BY <1>1, <2>1, <2>2, OneChildVersion DEF c
<1>5. CASE ClaimReload(w)
  <2>1. /\ m.pc # "idle" /\ m.task \in Tasks
        /\ child' = [child EXCEPT ![w] = [m EXCEPT !.pc = "clean", !.cv = row[m.task].cv]]
    BY <1>1, <1>5 DEF ClaimReload, TypeInv, Busy, GoodChild
  <2>. DEFINE c == [m EXCEPT !.pc = "clean", !.cv = row[m.task].cv]
  <2>2. c.cv = row[m.task].cv /\ c.task = m.task
    BY <1>1 DEF Child
  <2>. HIDE DEF c
  <2>. QED
    BY <1>1, <2>1, <2>2 DEF ChildVersions, c
<1>6. ASSUME NEW c, child' = [child EXCEPT ![w] = c],
             c = Idle \/ (c.cv = m.cv /\ c.task = m.task)
      PROVE  ChildVersions
  BY <1>1, <1>2, <1>6, OneChildVersion
<1>7. ASSUME NEW l, NEW x, child' = [child EXCEPT ![w] = [m EXCEPT !.pc = l, !.seen = x]]
      PROVE  ChildVersions
  <2>1. [m EXCEPT !.pc = l, !.seen = x].cv = m.cv /\ [m EXCEPT !.pc = l, !.seen = x].task = m.task
    BY <1>1 DEF Child
  <2>. QED
    BY <1>6, <1>7, <2>1
<1>14. CASE ClaimRead(w)
  <2>1. CASE child' = [child EXCEPT ![w] = Idle]
    BY <1>6, <2>1
  <2>2. CASE \E x : child' = [child EXCEPT ![w] = [m EXCEPT !.pc = "cas", !.seen = x]]
    BY <1>7, <2>2
  <2>. QED
    BY <1>14, <2>1, <2>2 DEF ClaimRead
<1>15. CASE ClaimCas(w)
  <2>1. CASE child' = [child EXCEPT ![w] = Idle]
    BY <1>6, <2>1
  <2>2. CASE \E e : child' = [child EXCEPT ![w] = [m EXCEPT !.pc = "reload", !.epoch = e, !.seen = NewRow]]
    <3>1. PICK e : child' = [child EXCEPT ![w] = [m EXCEPT !.pc = "reload", !.epoch = e, !.seen = NewRow]]
      BY <2>2
    <3>. DEFINE c == [m EXCEPT !.pc = "reload", !.epoch = e, !.seen = NewRow]
    <3>2. c.cv = m.cv /\ c.task = m.task
      BY <1>1 DEF Child
    <3>. HIDE DEF c
    <3>. QED
      BY <1>6, <3>1, <3>2 DEF c
  <2>. QED
    BY <1>15, <2>1, <2>2 DEF ClaimCas
<1>8. CASE CleanArtifacts(w) \/ SetupWorkspace(w) \/ Prepare(w) \/ Snapshot(w) \/ Archive(w)
  <2>1. PICK l : child' = [child EXCEPT ![w] = [m EXCEPT !.pc = l]]
    BY <1>8 DEF CleanArtifacts, SetupWorkspace, Prepare, Snapshot, Archive
  <2>2. [m EXCEPT !.pc = l].cv = m.cv /\ [m EXCEPT !.pc = l].task = m.task
    BY <1>1 DEF Child
  <2>. QED
    BY <1>6, <2>1, <2>2
<1>9. CASE Begin(w)
  <2>1. PICK b : child' = [child EXCEPT ![w] = [m EXCEPT !.pc = "prepare", !.beat = b]]
    BY <1>9 DEF Begin
  <2>2. [m EXCEPT !.pc = "prepare", !.beat = b].cv = m.cv /\ [m EXCEPT !.pc = "prepare", !.beat = b].task = m.task
    BY <1>1 DEF Child
  <2>. QED
    BY <1>6, <2>1, <2>2
<1>16. CASE RenewLease(w)
  <2>1. PICK b : child' = [child EXCEPT ![w] = [m EXCEPT !.beat = b]]
    BY <1>16 DEF RenewLease
  <2>2. [m EXCEPT !.beat = b].cv = m.cv /\ [m EXCEPT !.beat = b].task = m.task
    BY <1>1 DEF Child
  <2>. QED
    BY <1>6, <2>1, <2>2
<1>10. CASE Supervise(w)
  <2>1. PICK b : child' = [child EXCEPT ![w] = [m EXCEPT !.stop = b]]
    BY <1>10 DEF Supervise
  <2>2. [m EXCEPT !.stop = b].cv = m.cv /\ [m EXCEPT !.stop = b].task = m.task
    BY <1>1 DEF Child
  <2>. QED
    BY <1>6, <2>1, <2>2
<1>17. CASE RunCompletes(w) \/ RunStopped(w)
  <2>3. PICK o : RunEnds(w, o)
    BY <1>17 DEF RunCompletes, RunStopped
  <2>1. PICK l : child' = [child EXCEPT ![w] = [m EXCEPT !.pc = l, !.out = o, !.stop = FALSE]]
    BY <2>3 DEF RunEnds
  <2>2. [m EXCEPT !.pc = l, !.out = o, !.stop = FALSE].cv = m.cv /\ [m EXCEPT !.pc = l, !.out = o, !.stop = FALSE].task = m.task
    BY <1>1 DEF Child
  <2>. QED
    BY <1>6, <2>1, <2>2
<1>11. CASE PersistResult(w)
  <2>. DEFINE c == [m EXCEPT !.pc = "archive", !.beat = FALSE]
              d == [m EXCEPT !.pc = "error", !.out = "raised"]
  <2>1. child' = [child EXCEPT ![w] = c] \/ child' = [child EXCEPT ![w] = d]
    BY <1>11 DEF PersistResult
  <2>2. c.cv = m.cv /\ c.task = m.task /\ d.cv = m.cv /\ d.task = m.task
    BY <1>1 DEF Child
  <2>. HIDE DEF c, d
  <2>. QED
    BY <1>6, <2>1, <2>2
<1>12. CASE ErrorRead(w)
  <2>. DEFINE c == [m EXCEPT !.pc = "write", !.seen = row[m.task], !.out = "raised"]
              d == [m EXCEPT !.pc = "archive", !.beat = FALSE, !.out = "raised"]
  <2>1. child' = [child EXCEPT ![w] = c] \/ child' = [child EXCEPT ![w] = d]
    BY <1>12 DEF ErrorRead
  <2>2. c.cv = m.cv /\ c.task = m.task /\ d.cv = m.cv /\ d.task = m.task
    BY <1>1 DEF Child
  <2>. HIDE DEF c, d
  <2>. QED
    BY <1>6, <2>1, <2>2
<1>18. CASE ErrorWrite(w)
  <2>. DEFINE c == [m EXCEPT !.pc = "archive", !.seen = NewRow, !.beat = FALSE]
  <2>1. child' = [child EXCEPT ![w] = c]
    BY <1>18 DEF ErrorWrite
  <2>2. c.cv = m.cv /\ c.task = m.task
    BY <1>1 DEF Child
  <2>. HIDE DEF c
  <2>. QED
    BY <1>6, <2>1, <2>2
<1>13. CASE CommitTerminal(w) \/ Recover(w) \/ LastCommitFails(w) \/ Crash(w) \/ Terminate(w)
  <2>1. PICK l : \/ child' = [child EXCEPT ![w] = Idle]
                 \/ child' = [child EXCEPT ![w] = [m EXCEPT !.pc = l]]
    BY <1>13 DEF CommitTerminal, Recover, LastCommitFails, Crash, Terminate
  <2>2. [m EXCEPT !.pc = l].cv = m.cv /\ [m EXCEPT !.pc = l].task = m.task
    BY <1>1 DEF Child
  <2>. QED
    BY <1>6, <2>1, <2>2
<1>. QED
  BY <1>3, <1>4, <1>5, <1>8, <1>9, <1>10, <1>11, <1>12, <1>13, <1>14, <1>15, <1>16, <1>17,
     <1>18
  DEF WorkerNext, WorkerStep

\* No step of a worker writes a version.
LEMMA WorkerRowVersions ==
  ASSUME TypeInv, NEW w \in Workers, WorkerNext(w)
  PROVE  RowVersions
<1>. DEFINE m == child[w]
            t == m.task
<1>1. /\ row \in [Tasks -> Row] /\ m \in Child
      /\ m.pc # "idle" => t \in Tasks /\ row[t] \in Row
  BY DEF TypeInv, TypeOK, Busy, GoodChild
<1>. USE DEF Task
<1>2. CASE row' = row
  BY <1>2 DEF RowVersions
<1>3. ASSUME t \in Tasks, NEW r, row' = [row EXCEPT ![t] = r], r.cv = row[t].cv
      PROVE  RowVersions
  BY <1>1, <1>3, OneVersion
<1>4. CASE \/ Receive(w) \/ DiscardRevoked(w) \/ ClaimRead(w) \/ ClaimReload(w)
           \/ CleanArtifacts(w) \/ SetupWorkspace(w) \/ Prepare(w) \/ Snapshot(w)
           \/ Supervise(w) \/ RunCompletes(w) \/ RunStopped(w) \/ ErrorRead(w)
           \/ Archive(w) \/ LastCommitFails(w) \/ Crash(w) \/ Terminate(w) \/ Redeliver(w)
  BY <1>2, <1>4
  DEF Receive, DiscardRevoked, ClaimRead, ClaimReload, CleanArtifacts, SetupWorkspace,
      Prepare, Snapshot, Supervise, RunCompletes, RunStopped, RunEnds, ErrorRead,
      Archive, LastCommitFails, Crash, Terminate, Redeliver
<1>5. CASE ClaimCas(w)
  <2>. DEFINE e == m.seen.epoch + 1
              r == [row[t] EXCEPT !.status = "pending", !.owner = w, !.epoch = e,
                                  !.lease = "live", !.hb = "fresh", !.disp = w, !.lepoch = e]
  <2>1. t \in Tasks /\ (row' = row \/ row' = [row EXCEPT ![t] = r])
    BY <1>1, <1>5 DEF ClaimCas
  <2>2. r.cv = row[t].cv
    BY <1>1, <2>1 DEF Row
  <2>. HIDE DEF r
  <2>. QED
    BY <1>2, <1>3, <2>1, <2>2
<1>6. CASE Begin(w)
  <2>1. PICK s : t \in Tasks /\ row' = [row EXCEPT ![t] = [row[t] EXCEPT !.status = s]]
    BY <1>1, <1>6 DEF Begin
  <2>2. [row[t] EXCEPT !.status = s].cv = row[t].cv
    BY <1>1, <2>1 DEF Row
  <2>. QED
    BY <1>3, <2>1, <2>2
<1>7. CASE RenewLease(w)
  <2>. DEFINE r == [row[t] EXCEPT !.lease = "live", !.hb = "fresh"]
  <2>1. row' = row \/ (t \in Tasks /\ row' = [row EXCEPT ![t] = r])
    BY <1>1, <1>7 DEF RenewLease
  <2>2. t \in Tasks => r.cv = row[t].cv
    BY <1>1 DEF Row
  <2>. HIDE DEF r
  <2>. QED
    BY <1>2, <1>3, <2>1, <2>2
<1>8. CASE PersistResult(w)
  <2>1. t \in Tasks /\ m.out \in Statuses
    BY <1>1, <1>8 DEF PersistResult, TypeInv, Busy, GoodChild, Statuses, Terminal
  <2>2. row' = row \/ row' = [row EXCEPT ![t] = Finished(row[t], m.out)]
    BY <1>1, <1>8 DEF PersistResult
  <2>. QED
    BY <1>1, <1>2, <1>3, <2>1, <2>2, WriterVersion
<1>9. CASE ErrorWrite(w)
  <2>. DEFINE new == Finished(m.seen, "error")
              r   == Flush(row[t], m.seen, new)
  <2>1. t \in Tasks /\ row[t] \in Row /\ m.seen \in Row
    BY <1>1, <1>9 DEF ErrorWrite, Child
  <2>2. new \in Row /\ new.cv = m.seen.cv
    <3>1. "error" \in Statuses
      BY DEF Statuses, Terminal
    <3>. QED
      BY <2>1, <3>1, WriterTypes, WriterVersion
  <2>3. row' = row \/ row' = [row EXCEPT ![t] = r]
    BY <1>9 DEF ErrorWrite
  <2>. HIDE DEF new
  <2>4. r.cv = row[t].cv
    BY <2>1, <2>2 DEF Flush
  <2>. HIDE DEF r
  <2>. QED
    BY <1>2, <1>3, <2>1, <2>3, <2>4
<1>10. CASE CommitTerminal(w) \/ Recover(w)
  <2>1. t \in Tasks /\ row[t] \in Row /\ Released(row[t]) \in Row /\ Released(row[t]).cv = row[t].cv
    BY <1>1, <1>10, WriterTypes, WriterVersion DEF CommitTerminal, Recover
  <2>2. row' = row \/ \E s : row' = [row EXCEPT ![t] = [Released(row[t]) EXCEPT !.status = s]]
    BY <1>1, <1>10 DEF CommitTerminal, Recover
  <2>3. \A s : [Released(row[t]) EXCEPT !.status = s].cv = row[t].cv
    BY <2>1 DEF Row
  <2>. QED
    BY <1>2, <1>3, <2>1, <2>2, <2>3
<1>. QED
  BY <1>4, <1>5, <1>6, <1>7, <1>8, <1>9, <1>10 DEF WorkerNext, WorkerStep

\* Neither does the passing of time or the dispatcher.
LEMMA ServerVersions ==
  ASSUME TypeInv, (\E t \in Tasks : ClockNext(t)) \/ DispatcherNext
  PROVE  RowVersions
<1>1. row \in [Tasks -> Row] /\ \A t \in Tasks : row[t] \in Row /\ scan.seen[t] \in Row
  BY DEF TypeInv, TypeOK
<1>2. ASSUME NEW t \in Tasks, ClockNext(t) PROVE RowVersions
  <2>1. \/ row' = [row EXCEPT ![t] = [row[t] EXCEPT !.hb = "stale"]]
        \/ row' = [row EXCEPT ![t] = [row[t] EXCEPT !.lease = "expired"]]
    BY <1>2 DEF ClockNext, HeartbeatAges, LeaseExpires
  <2>2. /\ [row[t] EXCEPT !.hb = "stale"].cv = row[t].cv
        /\ [row[t] EXCEPT !.lease = "expired"].cv = row[t].cv
    BY <1>1 DEF Row
  <2>. QED
    BY <1>1, <2>1, <2>2, OneVersion
<1>3. CASE row' = row
  BY <1>3 DEF RowVersions
<1>4. CASE PumpRecord
  <2>1. /\ pump.task \in Tasks
        /\ row' = [row EXCEPT ![pump.task] = [row[pump.task] EXCEPT !.cid = published]]
    BY <1>4 DEF PumpRecord, TypeInv, Busy
  <2>2. [row[pump.task] EXCEPT !.cid = published].cv = row[pump.task].cv
    BY <1>1, <2>1 DEF Row
  <2>. QED
    BY <1>1, <2>1, <2>2, OneVersion
<1>5. CASE ScanFlush
  <2>1. \A t \in Tasks : \/ row'[t] = row[t]
                         \/ row'[t] = Flush(row[t], scan.seen[t], Reset(scan.seen[t]))
    BY <1>5 DEF ScanFlush
  <2>2. \A t \in Tasks : Flush(row[t], scan.seen[t], Reset(scan.seen[t])).cv = row[t].cv
    BY <1>1, WriterVersion DEF Flush
  <2>. QED
    BY <2>1, <2>2 DEF RowVersions
<1>6. CASE DispatcherRestart
  <2>1. \A t \in Tasks : row'[t] = row[t] \/ row'[t] = Reset(row[t])
    BY <1>6 DEF DispatcherRestart
  <2>. QED
    BY <1>1, <2>1, WriterVersion DEF RowVersions
<1>7. CASE PumpQuery \/ PumpPublish \/ PumpAbort \/ ScanInspect \/ ScanQuery
  BY <1>3, <1>7 DEF PumpQuery, PumpPublish, PumpAbort, ScanInspect, ScanQuery
<1>. QED
  BY <1>2, <1>4, <1>5, <1>6, <1>7 DEF DispatcherNext, PumpNext, ScanNext

\* An API handler writes a version above the one it read, or none.
LEMMA RequestVersions ==
  ASSUME TypeInv, NEW r \in Requests, RequestNext(r)
  PROVE  RowVersions
<1>. DEFINE seen == req[r].seen
<1>1. /\ row \in [Tasks -> Row] /\ seen \in Row /\ seen.cv \in Nat
      /\ req[r].pc # "idle" => req[r].task \in Tasks /\ row[req[r].task] \in Row
  BY DEF TypeInv, TypeOK, Busy, Request, Row
<1>2. CASE row' = row
  BY <1>2 DEF RowVersions
<1>3. ASSUME NEW new \in Row, NEW label, Save(r, new, label), req[r].pc # "idle",
             new.cv = seen.cv \/ new.cv = seen.cv + 1
      PROVE  RowVersions
  <2>. DEFINE out == Flush(row[req[r].task], seen, new)
  <2>1. row' = [row EXCEPT ![req[r].task] = out]
    BY <1>3 DEF Save, Target
  <2>2. out.cv = row[req[r].task].cv \/ out.cv # 0
    BY <1>1, <1>3 DEF Flush
  <2>. HIDE DEF out
  <2>. QED
    BY <1>1, <1>3, <2>1, <2>2, OneVersion
<1>4. CASE \/ \E t \in Tasks : CancelLoad(r, t) \/ RestartLoad(r, t) \/ DeleteLoad(r, t)
           \/ Refresh(r) \/ RestartClean(r)
  BY <1>2, <1>4 DEF CancelLoad, RestartLoad, DeleteLoad, Load, Refresh, RestartClean
<1>5. CASE CancelSave(r) \/ RestartRequeue(r) \/ DeleteCancel(r)
  BY <1>1, <1>3, <1>5, WriterTypes, WriterVersion DEF CancelSave, RestartRequeue, DeleteCancel
<1>6. CASE CancelInvalidate(r) \/ RestartInvalidate(r)
  BY <1>1, <1>3, <1>6, WriterTypes, WriterVersion DEF CancelInvalidate, RestartInvalidate
<1>7. CASE RestartStop(r)
  <2>. DEFINE new == [Invalidated(seen) EXCEPT !.status = "cancelled"]
  <2>1. new \in Row /\ Invalidated(seen) \in Row
    BY <1>1, WriterTypes
  <2>2. new.cv = seen.cv + 1
    BY <1>1, <2>1, WriterVersion DEF Row
  <2>3. req[r].pc = "stop" /\ Save(r, new, "stopped")
    BY <1>7 DEF RestartStop
  <2>. HIDE DEF new
  <2>. QED
    BY <1>3, <2>1, <2>2, <2>3
<1>8. CASE DeleteMark(r)
  <2>. DEFINE new == [seen EXCEPT !.deleted = TRUE]
  <2>1. new \in Row
    BY <1>1, WriterTypes
  <2>3. new.cv = seen.cv
    BY <1>1 DEF Row
  <2>2. req[r].pc = "mark" /\ Save(r, new, "idle")
    BY <1>8 DEF DeleteMark
  <2>. HIDE DEF new
  <2>. QED
    BY <1>3, <2>1, <2>2, <2>3
<1>. QED
  BY <1>4, <1>5, <1>6, <1>7, <1>8 DEF RequestNext, RequestStep

LEMMA VersionsStep ==
  ASSUME TypeInv, TypeInv', VersionsAgree, [Next]_vars
  PROVE  VersionsAgree'
<1>1. RowVersions /\ ChildVersions
  <2>1. CASE UNCHANGED vars
    BY <2>1, ChildVersionsStay DEF vars, RowVersions
  <2>2. ASSUME NEW w \in Workers, WorkerNext(w) PROVE RowVersions /\ ChildVersions
    BY <2>2, WorkerVersions, WorkerRowVersions
  <2>3. CASE (\E t \in Tasks : ClockNext(t)) \/ DispatcherNext
    <3>1. child' = child
      BY <2>3 DEF ClockNext, HeartbeatAges, LeaseExpires, DispatcherNext, PumpNext, ScanNext,
                  PumpQuery, PumpPublish, PumpRecord, PumpAbort, ScanInspect, ScanQuery,
                  ScanFlush, DispatcherRestart
    <3>. QED
      BY <2>3, <3>1, ServerVersions, ChildVersionsStay
  <2>4. ASSUME NEW r \in Requests, RequestNext(r) PROVE RowVersions /\ ChildVersions
    <3>1. child' = child
      BY <2>4 DEF RequestNext, RequestStep, CancelLoad, RestartLoad, DeleteLoad, Load, Refresh,
                  CancelSave, CancelInvalidate, RestartStop, RestartClean, RestartRequeue,
                  RestartInvalidate, DeleteCancel, DeleteMark
    <3>. QED
      BY <2>4, <3>1, RequestVersions, ChildVersionsStay
  <2>. QED
    BY <2>1, <2>2, <2>3, <2>4 DEF Next
<1>. QED
  BY <1>1 DEF VersionsAgree, RowVersions, ChildVersions

-----------------------------------------------------------------------------
(* Running rows and the children behind them.                              *)

\* What the scan and the error path write over was running when they read it.
ReadRunning ==
  /\ scan.pc = "flush" => \A t \in scan.victims : scan.seen[t].status = "running"
  /\ \A w \in Workers : child[w].pc = "write" => child[w].seen.status = "running"

Runs(r) == r.status = "running" /\ ~ r.deleted /\ r.cv = 0

\* A running row was running before, under the same claim.
RunKept(t) ==
  Runs(row'[t]) => Runs(row[t]) /\ row'[t].owner = row[t].owner /\ row'[t].epoch = row[t].epoch

\* The step is one that may leave a running row behind.
Leaves(w) == Crash(w) \/ Terminate(w) \/ LastCommitFails(w)

\* What a step of w makes of the child of w.
ChildKept(w) ==
  /\ child[w].pc \in Serving =>
       \/ child'[w].task = child[w].task /\ child'[w].epoch = child[w].epoch
          /\ child'[w].pc \in Serving
       \/ CommitTerminal(w) \/ Recover(w) \/ Leaves(w)
  /\ child'[w].pc = "write" =>
       \/ child[w].pc = "write" /\ child'[w].seen = child[w].seen
       \/ child'[w].seen.status = "running"

LEMMA RowSet ==
  ASSUME row \in [Tasks -> Row], NEW u \in Tasks, NEW r, row' = [row EXCEPT ![u] = r]
  PROVE  row'[u] = r /\ \A t \in Tasks \ {u} : RunKept(t)
BY DEF RunKept

\* The row that is written does not run, or keeps the columns of its claim.
LEMMA OneStopped ==
  ASSUME row \in [Tasks -> Row], NEW u \in Tasks, NEW r, row' = [row EXCEPT ![u] = r], ~ Runs(r)
  PROVE  \A t \in Tasks : RunKept(t)
<1>1. RunKept(u)
  BY RowSet DEF RunKept
<1>. QED
  BY <1>1, RowSet

LEMMA OneTouched ==
  ASSUME row \in [Tasks -> Row], NEW u \in Tasks, NEW r, row' = [row EXCEPT ![u] = r],
         r.cv = row[u].cv, r.status = "running" => row[u].status = "running",
         r.deleted \/ r.deleted = row[u].deleted,
         r.owner = row[u].owner, r.epoch = row[u].epoch
  PROVE  \A t \in Tasks : RunKept(t)
<1>1. RunKept(u)
  BY RowSet DEF RunKept, Runs
<1>. QED
  BY <1>1, RowSet

LEMMA RowsStay == ASSUME row' = row PROVE \A t \in Tasks : RunKept(t)
BY DEF RunKept

\* A row that has been ended or put back does not run.
LEMMA EndedRows ==
  ASSUME NEW r \in Row
  PROVE  /\ \A s \in Statuses \ {"running"} : ~ Runs(Finished(r, s)) /\ ~ Runs([Released(r) EXCEPT !.status = s])
         /\ Reset(r).status = "pending"
         /\ \A s \in Statuses : Finished(r, s).status = s /\ [Released(r) EXCEPT !.status = s].status = s
<1>1. Unowned(r) \in Row /\ Released(r) \in Row
  BY WriterTypes
<1>2. Reset(r).status = "pending"
  BY <1>1 DEF Reset, Row
<1>3. \A s \in Statuses : Finished(r, s).status = s
  BY <1>1 DEF Finished, Row
<1>4. \A s \in Statuses : [Released(r) EXCEPT !.status = s].status = s
  BY <1>1 DEF Row
<1>. QED
  BY <1>2, <1>3, <1>4 DEF Runs

\* The steps of a worker: only begin makes a row run.
LEMMA WorkerRuns ==
  ASSUME TypeInv, ReadRunning, NEW w \in Workers, WorkerNext(w), ~ Begin(w)
  PROVE  \A t \in Tasks : RunKept(t)
<1>. DEFINE m == child[w]
            u == m.task
<1>1. /\ row \in [Tasks -> Row] /\ m \in Child
      /\ m.pc # "idle" => u \in Tasks /\ row[u] \in Row
  BY DEF TypeInv, TypeOK, Busy, GoodChild
<1>. USE DEF Task
<1>2. CASE row' = row
  BY <1>2, RowsStay
<1>3. ASSUME u \in Tasks, NEW r, row' = [row EXCEPT ![u] = r], ~ Runs(r)
      PROVE  \A t \in Tasks : RunKept(t)
  BY <1>1, <1>3, OneStopped
<1>4. CASE \/ Receive(w) \/ DiscardRevoked(w) \/ ClaimRead(w) \/ ClaimReload(w)
           \/ CleanArtifacts(w) \/ SetupWorkspace(w) \/ Prepare(w) \/ Snapshot(w)
           \/ Supervise(w) \/ RunCompletes(w) \/ RunStopped(w) \/ ErrorRead(w)
           \/ Archive(w) \/ LastCommitFails(w) \/ Crash(w) \/ Terminate(w) \/ Redeliver(w)
  BY <1>2, <1>4
  DEF Receive, DiscardRevoked, ClaimRead, ClaimReload, CleanArtifacts, SetupWorkspace,
      Prepare, Snapshot, Supervise, RunCompletes, RunStopped, RunEnds, ErrorRead,
      Archive, LastCommitFails, Crash, Terminate, Redeliver
<1>5. CASE ClaimCas(w)
  <2>. DEFINE e == m.seen.epoch + 1
              r == [row[u] EXCEPT !.status = "pending", !.owner = w, !.epoch = e,
                                  !.lease = "live", !.hb = "fresh", !.disp = w, !.lepoch = e]
  <2>1. u \in Tasks /\ (row' = row \/ row' = [row EXCEPT ![u] = r])
    BY <1>1, <1>5 DEF ClaimCas
  <2>2. r.status = "pending"
    BY <1>1, <2>1 DEF Row
  <2>. HIDE DEF r
  <2>. QED
    BY <1>2, <1>3, <2>1, <2>2 DEF Runs
<1>6. CASE RenewLease(w)
  <2>. DEFINE r == [row[u] EXCEPT !.lease = "live", !.hb = "fresh"]
  <2>1. row' = row \/ (u \in Tasks /\ row' = [row EXCEPT ![u] = r])
    BY <1>1, <1>6 DEF RenewLease
  <2>2. u \in Tasks => /\ r.cv = row[u].cv /\ r.status = row[u].status /\ r.owner = row[u].owner
                       /\ r.epoch = row[u].epoch /\ r.deleted = row[u].deleted
    BY <1>1 DEF Row
  <2>. HIDE DEF r
  <2>. QED
    BY <1>1, <1>2, <2>1, <2>2, OneTouched
<1>7. CASE PersistResult(w)
  <2>1. u \in Tasks /\ m.out \in Statuses \ {"running"}
    BY <1>1, <1>7 DEF PersistResult, TypeInv, Busy, GoodChild, Statuses, Terminal
  <2>2. row' = row \/ row' = [row EXCEPT ![u] = Finished(row[u], m.out)]
    BY <1>1, <1>7 DEF PersistResult
  <2>. QED
    BY <1>1, <1>2, <1>3, <2>1, <2>2, EndedRows
<1>8. CASE ErrorWrite(w)
  <2>. DEFINE new == Finished(m.seen, "error")
              r   == Flush(row[u], m.seen, new)
  <2>1. u \in Tasks /\ m.seen \in Row /\ m.seen.status = "running"
    BY <1>1, <1>8 DEF ErrorWrite, Child, ReadRunning
  <2>2. new.status = "error"
    BY <2>1, EndedRows DEF Statuses, Terminal
  <2>3. row' = row \/ row' = [row EXCEPT ![u] = r]
    BY <1>8 DEF ErrorWrite
  <2>. HIDE DEF new
  <2>4. r.status = "error"
    BY <2>1, <2>2 DEF Flush
  <2>. HIDE DEF r
  <2>. QED
    BY <1>2, <1>3, <2>1, <2>3, <2>4 DEF Runs
<1>9. CASE CommitTerminal(w) \/ Recover(w)
  <2>1. u \in Tasks /\ row[u] \in Row
    BY <1>1, <1>9 DEF CommitTerminal, Recover
  <2>2. row' = row \/ \E s \in Statuses \ {"running"} : row' = [row EXCEPT ![u] = [Released(row[u]) EXCEPT !.status = s]]
    BY <1>1, <1>9 DEF CommitTerminal, Recover, Statuses, Terminal, Active
  <2>. QED
    BY <1>2, <1>3, <2>1, <2>2, EndedRows
<1>. QED
  BY <1>4, <1>5, <1>6, <1>7, <1>8, <1>9 DEF WorkerNext, WorkerStep

\* The clock and the dispatcher make no row run and change no running row's claim.
LEMMA ServerRuns ==
  ASSUME TypeInv, ReadRunning, (\E t \in Tasks : ClockNext(t)) \/ DispatcherNext
  PROVE  \A t \in Tasks : RunKept(t)
<1>1. row \in [Tasks -> Row] /\ \A t \in Tasks : row[t] \in Row /\ scan.seen[t] \in Row
  BY DEF TypeInv, TypeOK
<1>2. ASSUME NEW t \in Tasks, ClockNext(t) PROVE \A u \in Tasks : RunKept(u)
  <2>1. \/ row' = [row EXCEPT ![t] = [row[t] EXCEPT !.hb = "stale"]]
        \/ row' = [row EXCEPT ![t] = [row[t] EXCEPT !.lease = "expired"]]
    BY <1>2 DEF ClockNext, HeartbeatAges, LeaseExpires
  <2>2. \A r \in {[row[t] EXCEPT !.hb = "stale"], [row[t] EXCEPT !.lease = "expired"]} :
          /\ r.cv = row[t].cv /\ r.status = row[t].status /\ r.owner = row[t].owner
          /\ r.epoch = row[t].epoch /\ r.deleted = row[t].deleted
    BY <1>1 DEF Row
  <2>3. PICK r \in {[row[t] EXCEPT !.hb = "stale"], [row[t] EXCEPT !.lease = "expired"]} :
          row' = [row EXCEPT ![t] = r]
    BY <2>1
  <2>. QED
    BY <1>1, <2>2, <2>3, OneTouched
<1>3. CASE row' = row
  BY <1>3, RowsStay
<1>4. CASE PumpRecord
  <2>. DEFINE t == pump.task
              r == [row[t] EXCEPT !.cid = published]
  <2>1. t \in Tasks /\ row' = [row EXCEPT ![t] = r]
    BY <1>4 DEF PumpRecord, TypeInv, Busy
  <2>2. /\ r.cv = row[t].cv /\ r.status = row[t].status /\ r.owner = row[t].owner
        /\ r.epoch = row[t].epoch /\ r.deleted = row[t].deleted
    BY <1>1, <2>1 DEF Row
  <2>. HIDE DEF r, t
  <2>. QED
    BY <1>1, <2>1, <2>2, OneTouched
<1>5. CASE ScanFlush
  <2>1. ASSUME NEW t \in Tasks, t \in scan.victims PROVE RunKept(t)
    <3>. DEFINE new == Reset(scan.seen[t])
    <3>1. new.status = "pending" /\ scan.seen[t].status = "running"
      BY <1>1, <1>5, <2>1, EndedRows DEF ScanFlush, ReadRunning
    <3>2. row'[t] = Flush(row[t], scan.seen[t], new)
      BY <1>5, <2>1 DEF ScanFlush
    <3>. HIDE DEF new
    <3>3. row'[t].status = "pending"
      BY <3>1, <3>2 DEF Flush
    <3>. QED
      BY <3>3 DEF RunKept, Runs
  <2>2. ASSUME NEW t \in Tasks, t \notin scan.victims PROVE RunKept(t)
    BY <1>5, <2>2 DEF ScanFlush, RunKept
  <2>. QED
    BY <2>1, <2>2
<1>6. CASE DispatcherRestart
  <2>1. \A t \in Tasks : row'[t] = row[t] \/ row'[t] = Reset(row[t])
    BY <1>6 DEF DispatcherRestart
  <2>. QED
    BY <1>1, <2>1, EndedRows DEF RunKept, Runs
<1>7. CASE PumpQuery \/ PumpPublish \/ PumpAbort \/ ScanInspect \/ ScanQuery
  BY <1>3, <1>7 DEF PumpQuery, PumpPublish, PumpAbort, ScanInspect, ScanQuery
<1>. QED
  BY <1>2, <1>4, <1>5, <1>6, <1>7 DEF DispatcherNext, PumpNext, ScanNext

\* An API handler stops a row, invalidates its claim, or leaves the claim alone.
LEMMA RequestRuns ==
  ASSUME TypeInv, NEW r \in Requests, RequestNext(r)
  PROVE  \A t \in Tasks : RunKept(t)
<1>. DEFINE seen == req[r].seen
            u    == req[r].task
<1>1. /\ row \in [Tasks -> Row] /\ seen \in Row /\ seen.cv \in Nat
      /\ req[r].pc # "idle" => u \in Tasks /\ row[u] \in Row
  BY DEF TypeInv, TypeOK, Busy, Request, Row
<1>2. CASE \/ \E t \in Tasks : CancelLoad(r, t) \/ RestartLoad(r, t) \/ DeleteLoad(r, t)
           \/ Refresh(r) \/ RestartClean(r)
  BY <1>2, RowsStay DEF CancelLoad, RestartLoad, DeleteLoad, Load, Refresh, RestartClean
<1>3. ASSUME NEW new \in Row, NEW label, Save(r, new, label), req[r].pc # "idle",
             \/ new.cv = seen.cv + 1
             \/ /\ new.status # "running" \/ new.status = seen.status
                /\ new.owner = seen.owner /\ new.epoch = seen.epoch /\ new.cv = seen.cv
                /\ new.deleted = seen.deleted \/ new.deleted
      PROVE  \A t \in Tasks : RunKept(t)
  <2>. DEFINE out == Flush(row[u], seen, new)
  <2>1. row' = [row EXCEPT ![u] = out] /\ u \in Tasks
    BY <1>1, <1>3 DEF Save, Target
  <2>2. CASE new.cv = seen.cv + 1
    <3>1. out.cv # 0
      BY <1>1, <2>2 DEF Flush
    <3>. HIDE DEF out
    <3>2. ~ Runs(out)
      BY <3>1 DEF Runs
    <3>. QED
      BY <1>1, <2>1, <3>2, OneStopped
  <2>3. CASE ~ (new.cv = seen.cv + 1)
    <3>1. /\ out.owner = row[u].owner /\ out.epoch = row[u].epoch /\ out.cv = row[u].cv
          /\ out.status = "running" => row[u].status = "running"
          /\ out.deleted \/ out.deleted = row[u].deleted
      BY <1>3, <2>3 DEF Flush
    <3>. HIDE DEF out
    <3>. QED
      BY <1>1, <2>1, <3>1, OneTouched
  <2>. QED
    BY <2>2, <2>3
<1>4. CASE CancelSave(r) \/ RestartRequeue(r) \/ DeleteCancel(r)
  <2>1. \A new \in {Cancelled(seen), Requeued(seen)} :
          /\ new \in Row /\ new.status # "running" /\ new.owner = seen.owner
          /\ new.epoch = seen.epoch /\ new.cv = seen.cv /\ new.deleted = seen.deleted
    <3>1. Cancelled(seen) \in Row /\ Requeued(seen) \in Row
      BY <1>1, WriterTypes
    <3>2. \A new \in {Cancelled(seen), Requeued(seen)} :
            /\ new.status # "running" /\ new.owner = seen.owner
            /\ new.epoch = seen.epoch /\ new.cv = seen.cv /\ new.deleted = seen.deleted
      BY <1>1 DEF Cancelled, Requeued, Row
    <3>. QED
      BY <3>1, <3>2
  <2>2. \E new \in {Cancelled(seen), Requeued(seen)} : \E label : Save(r, new, label) /\ req[r].pc # "idle"
    BY <1>4 DEF CancelSave, RestartRequeue, DeleteCancel
  <2>. QED
    BY <1>3, <2>1, <2>2
<1>5. CASE CancelInvalidate(r) \/ RestartInvalidate(r)
  BY <1>1, <1>3, <1>5, WriterTypes, WriterVersion DEF CancelInvalidate, RestartInvalidate
<1>6. CASE RestartStop(r)
  <2>. DEFINE new == [Invalidated(seen) EXCEPT !.status = "cancelled"]
  <2>1. new \in Row /\ Invalidated(seen) \in Row
    BY <1>1, WriterTypes
  <2>2. new.cv = seen.cv + 1
    BY <1>1, <2>1, WriterVersion DEF Row
  <2>3. req[r].pc = "stop" /\ Save(r, new, "stopped")
    BY <1>6 DEF RestartStop
  <2>. HIDE DEF new
  <2>. QED
    BY <1>3, <2>1, <2>2, <2>3
<1>7. CASE DeleteMark(r)
  <2>. DEFINE new == [seen EXCEPT !.deleted = TRUE]
  <2>1. new \in Row
    BY <1>1, WriterTypes
  <2>2. /\ new.cv = seen.cv /\ new.status = seen.status /\ new.owner = seen.owner
        /\ new.epoch = seen.epoch /\ new.deleted
    BY <1>1 DEF Row
  <2>3. req[r].pc = "mark" /\ Save(r, new, "idle")
    BY <1>7 DEF DeleteMark
  <2>. HIDE DEF new
  <2>. QED
    BY <1>3, <2>1, <2>2, <2>3
<1>. QED
  BY <1>2, <1>4, <1>5, <1>6, <1>7 DEF RequestNext, RequestStep

\* A child that serves goes on with its claim, ends, or is lost.
LEMMA WorkerChildKept ==
  ASSUME TypeInv, NEW w \in Workers, WorkerNext(w)
  PROVE  ChildKept(w) /\ \A v \in Workers \ {w} : child'[v] = child[v]
<1>. DEFINE m == child[w]
            Others == \A v \in Workers \ {w} : child'[v] = child[v]
<1>1. child \in [Workers -> Child] /\ m \in Child
  BY DEF TypeInv, TypeOK
<1>. USE DEF Task, Goto
<1>2. ASSUME NEW c, child' = [child EXCEPT ![w] = c], m.pc \notin Serving, c.pc # "write"
      PROVE  ChildKept(w) /\ Others
  BY <1>1, <1>2 DEF ChildKept
<1>3. ASSUME NEW c, child' = [child EXCEPT ![w] = c], c.pc # "write",
             CommitTerminal(w) \/ Recover(w) \/ Leaves(w)
      PROVE  ChildKept(w) /\ Others
  BY <1>1, <1>3 DEF ChildKept
<1>4. ASSUME NEW c, child' = [child EXCEPT ![w] = c], c.task = m.task, c.epoch = m.epoch,
             m.pc \in Serving => c.pc \in Serving,
             c.pc = "write" => \/ m.pc = "write" /\ c.seen = m.seen
                               \/ c.seen.status = "running"
      PROVE  ChildKept(w) /\ Others
  BY <1>1, <1>4 DEF ChildKept
<1>5. ASSUME NEW l \in Serving \ {"write"}, child' = [child EXCEPT ![w] = [m EXCEPT !.pc = l]]
      PROVE  ChildKept(w) /\ Others
  <2>1. /\ [m EXCEPT !.pc = l].task = m.task /\ [m EXCEPT !.pc = l].epoch = m.epoch
        /\ [m EXCEPT !.pc = l].pc = l
    BY <1>1 DEF Child
  <2>. QED
    BY <1>4, <1>5, <2>1
<1>6. CASE DiscardRevoked(w) \/ Redeliver(w)
  BY <1>6 DEF DiscardRevoked, Redeliver, ChildKept
<1>7. CASE Receive(w)
  <2>1. PICK q : child' = [child EXCEPT ![w] = [Idle EXCEPT !.pc = "read", !.task = q.task, !.id = q.id]]
    BY <1>7 DEF Receive
  <2>2. [Idle EXCEPT !.pc = "read", !.task = q.task, !.id = q.id].pc = "read"
    BY DEF Idle
  <2>3. m.pc \notin Serving
    BY <1>7 DEF Receive, Serving
  <2>. QED
    BY <1>2, <2>1, <2>2, <2>3
<1>8. CASE ClaimRead(w)
  <2>1. m.pc \notin Serving
    BY <1>8 DEF ClaimRead, Serving
  <2>2. \E x : \/ child' = [child EXCEPT ![w] = Idle]
               \/ child' = [child EXCEPT ![w] = [m EXCEPT !.pc = "cas", !.seen = x]]
    BY <1>8 DEF ClaimRead
  <2>3. Idle.pc = "idle" /\ \A x : [m EXCEPT !.pc = "cas", !.seen = x].pc = "cas"
    BY <1>1 DEF Idle, Child
  <2>. QED
    BY <1>2, <2>1, <2>2, <2>3
<1>9. CASE ClaimCas(w)
  <2>1. m.pc \notin Serving
    BY <1>9 DEF ClaimCas, Serving
  <2>2. \E e : \/ child' = [child EXCEPT ![w] = Idle]
               \/ child' = [child EXCEPT ![w] = [m EXCEPT !.pc = "reload", !.epoch = e, !.seen = NewRow]]
    BY <1>9 DEF ClaimCas
  <2>3. /\ Idle.pc = "idle"
        /\ \A e : [m EXCEPT !.pc = "reload", !.epoch = e, !.seen = NewRow].pc = "reload"
    BY <1>1 DEF Idle, Child
  <2>. QED
    BY <1>2, <2>1, <2>2, <2>3
<1>10. CASE ClaimReload(w)
  <2>1. m.pc \notin Serving
    BY <1>10 DEF ClaimReload, Serving
  <2>2. \E x : child' = [child EXCEPT ![w] = [m EXCEPT !.pc = "clean", !.cv = x]]
    BY <1>10 DEF ClaimReload
  <2>3. \A x : [m EXCEPT !.pc = "clean", !.cv = x].pc = "clean"
    BY <1>1 DEF Child
  <2>. QED
    BY <1>2, <2>1, <2>2, <2>3
<1>11. CASE CleanArtifacts(w) \/ SetupWorkspace(w)
  <2>1. m.pc \notin Serving
    BY <1>11 DEF CleanArtifacts, SetupWorkspace, Serving
  <2>2. \E l \in {"setup", "begin"} : child' = [child EXCEPT ![w] = [m EXCEPT !.pc = l]]
    BY <1>11 DEF CleanArtifacts, SetupWorkspace
  <2>3. \A l : [m EXCEPT !.pc = l].pc = l
    BY <1>1 DEF Child
  <2>. QED
    BY <1>2, <2>1, <2>2, <2>3
<1>12. CASE Begin(w)
  <2>1. child' = [child EXCEPT ![w] = [m EXCEPT !.pc = "prepare", !.beat = TRUE]]
    BY <1>12 DEF Begin
  <2>2. m.pc \notin Serving /\ [m EXCEPT !.pc = "prepare", !.beat = TRUE].pc = "prepare"
    BY <1>1, <1>12 DEF Begin, Serving, Child
  <2>. QED
    BY <1>2, <2>1, <2>2
<1>13. CASE Prepare(w) \/ Snapshot(w) \/ Archive(w)
  <2>1. \E l \in {"snapshot", "run", "error", "commit"} : child' = [child EXCEPT ![w] = [m EXCEPT !.pc = l]]
    BY <1>13 DEF Prepare, Snapshot, Archive
  <2>2. {"snapshot", "run", "error", "commit"} \subseteq Serving \ {"write"}
    BY DEF Serving, Labels
  <2>. QED
    BY <1>5, <2>1, <2>2
<1>14. CASE RenewLease(w) \/ Supervise(w)
  <2>1. PICK b : \/ child' = [child EXCEPT ![w] = [m EXCEPT !.beat = b]]
                 \/ child' = [child EXCEPT ![w] = [m EXCEPT !.stop = b]]
    BY <1>14 DEF RenewLease, Supervise
  <2>2. \A c \in {[m EXCEPT !.beat = b], [m EXCEPT !.stop = b]} :
          c.task = m.task /\ c.epoch = m.epoch /\ c.pc = m.pc /\ c.seen = m.seen
    BY <1>1 DEF Child
  <2>. QED
    BY <1>4, <2>1, <2>2
<1>15. CASE RunCompletes(w) \/ RunStopped(w)
  <2>1. PICK o : RunEnds(w, o)
    BY <1>15 DEF RunCompletes, RunStopped
  <2>2. PICK l \in {"error", "persist"} :
          child' = [child EXCEPT ![w] = [m EXCEPT !.pc = l, !.out = o, !.stop = FALSE]]
    BY <2>1 DEF RunEnds
  <2>. DEFINE c == [m EXCEPT !.pc = l, !.out = o, !.stop = FALSE]
  <2>3. c.task = m.task /\ c.epoch = m.epoch /\ c.pc = l
    BY <1>1 DEF Child
  <2>4. l \in Serving /\ l # "write"
    BY DEF Serving, Labels
  <2>. HIDE DEF c
  <2>. QED
    BY <1>4, <2>2, <2>3, <2>4 DEF c
<1>16. CASE PersistResult(w)
  <2>1. \/ child' = [child EXCEPT ![w] = [m EXCEPT !.pc = "archive", !.beat = FALSE]]
        \/ child' = [child EXCEPT ![w] = [m EXCEPT !.pc = "error", !.out = "raised"]]
    BY <1>16 DEF PersistResult
  <2>2. \A c \in {[m EXCEPT !.pc = "archive", !.beat = FALSE], [m EXCEPT !.pc = "error", !.out = "raised"]} :
          c.task = m.task /\ c.epoch = m.epoch /\ c.pc \in {"archive", "error"}
    BY <1>1 DEF Child
  <2>3. {"archive", "error"} \subseteq Serving \ {"write"}
    BY DEF Serving, Labels
  <2>. QED
    BY <1>4, <2>1, <2>2, <2>3
<1>17. CASE ErrorRead(w)
  <2>. DEFINE c == [m EXCEPT !.pc = "write", !.seen = row[m.task], !.out = "raised"]
              d == [m EXCEPT !.pc = "archive", !.beat = FALSE, !.out = "raised"]
  <2>1. \/ child' = [child EXCEPT ![w] = c] /\ row[m.task].status = "running"
        \/ child' = [child EXCEPT ![w] = d]
    BY <1>17 DEF ErrorRead
  <2>2. /\ c.task = m.task /\ c.epoch = m.epoch /\ c.pc = "write" /\ c.seen = row[m.task]
        /\ d.task = m.task /\ d.epoch = m.epoch /\ d.pc = "archive"
    BY <1>1 DEF Child
  <2>3. {"archive", "write"} \subseteq Serving
    BY DEF Serving, Labels
  <2>. HIDE DEF c, d
  <2>. QED
    BY <1>4, <2>1, <2>2, <2>3
<1>18. CASE ErrorWrite(w)
  <2>. DEFINE c == [m EXCEPT !.pc = "archive", !.seen = NewRow, !.beat = FALSE]
  <2>1. child' = [child EXCEPT ![w] = c]
    BY <1>18 DEF ErrorWrite
  <2>2. c.task = m.task /\ c.epoch = m.epoch /\ c.pc = "archive"
    BY <1>1 DEF Child
  <2>3. "archive" \in Serving
    BY DEF Serving, Labels
  <2>. HIDE DEF c
  <2>. QED
    BY <1>4, <2>1, <2>2, <2>3
<1>19. CASE CommitTerminal(w) \/ Recover(w) \/ Leaves(w)
  <2>1. \/ child' = [child EXCEPT ![w] = Idle]
        \/ child' = [child EXCEPT ![w] = [m EXCEPT !.pc = "recover"]]
    BY <1>19 DEF CommitTerminal, Recover, Leaves, LastCommitFails, Crash, Terminate
  <2>2. Idle.pc = "idle" /\ [m EXCEPT !.pc = "recover"].pc = "recover"
    BY <1>1 DEF Idle, Child
  <2>. QED
    BY <1>3, <1>19, <2>1, <2>2
<1>. QED
  BY <1>6, <1>7, <1>8, <1>9, <1>10, <1>11, <1>12, <1>13, <1>14, <1>15, <1>16, <1>17, <1>18, <1>19
  DEF WorkerNext, WorkerStep, Leaves

\* Nobody but a worker changes a child, nobody but the dispatcher the scan.
LEMMA OthersKeepChildren ==
  ASSUME \/ (\E t \in Tasks : ClockNext(t)) \/ DispatcherNext
         \/ \E r \in Requests : RequestNext(r)
         \/ UNCHANGED vars
  PROVE  child' = child
BY DEF ClockNext, HeartbeatAges, LeaseExpires, DispatcherNext, PumpNext, ScanNext,
       PumpQuery, PumpPublish, PumpRecord, PumpAbort, ScanInspect, ScanQuery,
       ScanFlush, DispatcherRestart, RequestNext, RequestStep, CancelLoad, RestartLoad,
       DeleteLoad, Load, Refresh, CancelSave, CancelInvalidate, RestartStop, RestartClean,
       RestartRequeue, RestartInvalidate, DeleteCancel, DeleteMark, vars

LEMMA OthersKeepScan ==
  ASSUME \/ \E w \in Workers : WorkerNext(w)
         \/ \E t \in Tasks : ClockNext(t)
         \/ \E r \in Requests : RequestNext(r)
         \/ UNCHANGED vars
  PROVE  scan' = scan
<1>1. CASE \E w \in Workers : WorkerNext(w)
  BY <1>1 DEF WorkerNext, WorkerStep, Receive, DiscardRevoked, ClaimRead, ClaimCas, ClaimReload,
       CleanArtifacts, SetupWorkspace, Begin, Prepare, Snapshot, RenewLease, Supervise,
       RunCompletes, RunStopped, RunEnds, PersistResult, ErrorRead, ErrorWrite, Archive,
       CommitTerminal, Recover, LastCommitFails, Crash, Terminate, Redeliver, dispatcher
<1>2. CASE \/ \E t \in Tasks : ClockNext(t)
           \/ \E r \in Requests : RequestNext(r)
           \/ UNCHANGED vars
  BY <1>2 DEF ClockNext, HeartbeatAges, LeaseExpires, RequestNext, RequestStep, CancelLoad,
       RestartLoad, DeleteLoad, Load, Refresh, CancelSave, CancelInvalidate, RestartStop,
       RestartClean, RestartRequeue, RestartInvalidate, DeleteCancel, DeleteMark, dispatcher, vars
<1>. QED
  BY <1>1, <1>2

LEMMA ReadRunningStep ==
  ASSUME TypeInv, ReadRunning, [Next]_vars
  PROVE  ReadRunning'
<1>1. \A w \in Workers : child'[w].pc = "write" => child'[w].seen.status = "running"
  <2>1. CASE child' = child
    BY <2>1 DEF ReadRunning
  <2>2. CASE \E w \in Workers : WorkerNext(w)
    BY <2>2, WorkerChildKept DEF ChildKept, ReadRunning
  <2>. QED
    BY <2>1, <2>2, OthersKeepChildren DEF Next
<1>2. scan'.pc = "flush" => \A t \in scan'.victims : scan'.seen[t].status = "running"
  <2>1. CASE scan' = scan
    BY <2>1 DEF ReadRunning
  <2>2. CASE DispatcherNext
    <3>1. CASE ScanQuery
      <4>. DEFINE lost == {t \in Tasks : Orphaned(row[t], scan.active)}
      <4>1. CASE scan' = NoScan
        BY <4>1 DEF NoScan
      <4>2. CASE scan' = [pc |-> "flush", active |-> {}, victims |-> lost,
                          seen |-> [t \in Tasks |-> IF t \in lost THEN row[t] ELSE NewRow]]
        BY <4>2 DEF Orphaned
      <4>. QED
        BY <3>1, <4>1, <4>2 DEF ScanQuery
    <3>2. CASE ScanInspect
      <4>1. PICK a : scan' = [scan EXCEPT !.pc = "query", !.active = a]
        BY <3>2 DEF ScanInspect
      <4>2. scan'.pc = "query"
        BY <4>1 DEF TypeInv, TypeOK
      <4>. QED
        BY <4>2
    <3>3. CASE ScanFlush \/ DispatcherRestart
      BY <3>3 DEF ScanFlush, DispatcherRestart, NoScan
    <3>4. CASE PumpNext \/ PumpAbort
      BY <2>1, <3>4 DEF PumpNext, PumpAbort, PumpQuery, PumpPublish, PumpRecord
    <3>. QED
      BY <2>2, <3>1, <3>2, <3>3, <3>4 DEF DispatcherNext, ScanNext
  <2>. QED
    BY <2>1, <2>2, OthersKeepScan DEF Next
<1>. QED
  BY <1>1, <1>2 DEF ReadRunning

\* A row that runs on without a child was left by a kill or by a last transaction
\* that raised, in any task that no user has cancelled or restarted.
LEMMA OrphanStep ==
  ASSUME TypeInv, VersionsAgree, ReadRunning, Next, NEW t \in Tasks, Unserved(t)', ~ Unserved(t)
  PROVE  \E w \in Workers : Task(w) = t /\ Leaves(w)
<1>1. Runs(row'[t])
  BY DEF Unserved, Runs
<1>2. ASSUME RunKept(t), child' = child PROVE FALSE
  BY <1>1, <1>2 DEF RunKept, Runs, Unserved, Served, OwnedBy, Task
<1>3. CASE (\E u \in Tasks : ClockNext(u)) \/ DispatcherNext
  BY <1>2, <1>3, ServerRuns, OthersKeepChildren
<1>4. CASE \E r \in Requests : RequestNext(r)
  BY <1>2, <1>4, RequestRuns, OthersKeepChildren
<1>5. ASSUME NEW w \in Workers, Begin(w) PROVE FALSE
  <2>. DEFINE m == child[w]
              ok == OwnedBy(row[m.task], w) /\ row[m.task].cv = m.cv /\ row[m.task].status \in Active
  <2>1. /\ m.task \in Tasks /\ row \in [Tasks -> Row] /\ row[m.task] \in Row /\ m \in Child
        /\ child \in [Workers -> Child]
    BY <1>5 DEF Begin, TypeInv, TypeOK, Busy, GoodChild
  <2>2. /\ child' = [child EXCEPT ![w] = [m EXCEPT !.pc = "prepare", !.beat = TRUE]]
        /\ row' = [row EXCEPT ![m.task] = [row[m.task] EXCEPT !.status = IF ok THEN "running" ELSE @]]
    BY <1>5 DEF Begin, Task
  <2>3. /\ child'[w].pc = "prepare" /\ child'[w].task = m.task /\ child'[w].epoch = m.epoch
        /\ \A v \in Workers \ {w} : child'[v] = child[v]
    BY <2>1, <2>2 DEF Child
  <2>4. /\ \A u \in Tasks \ {m.task} : row'[u] = row[u]
        /\ row'[m.task].owner = row[m.task].owner /\ row'[m.task].epoch = row[m.task].epoch
        /\ row'[m.task].deleted = row[m.task].deleted /\ row'[m.task].cv = row[m.task].cv
        /\ ~ ok => row'[m.task].status = row[m.task].status
    BY <2>1, <2>2 DEF Row
  <2>5. m.pc \notin Serving /\ "prepare" \in Serving
    BY <1>5 DEF Begin, Serving, Labels
  <2>6. CASE t = m.task /\ ok
    BY <2>3, <2>4, <2>5, <2>6 DEF Unserved, Served, OwnedBy, Task
  <2>7. CASE ~ (t = m.task /\ ok)
    <3>1. RunKept(t)
      BY <2>4, <2>7 DEF RunKept, Runs
    <3>2. Served(t)
      BY <1>1, <3>1 DEF Unserved, RunKept, Runs
    <3>3. PICK v \in Workers : Task(v) = t /\ child[v].pc \in Serving /\ OwnedBy(row[t], v)
      BY <3>2 DEF Served
    <3>4. child'[v] = child[v]
      BY <2>3, <2>5, <3>3
    <3>. QED
      BY <1>1, <3>1, <3>3, <3>4 DEF Unserved, Served, OwnedBy, RunKept, Runs, Task
  <2>. QED
    BY <2>6, <2>7
<1>6. ASSUME NEW w \in Workers, WorkerNext(w), ~ Begin(w) PROVE Task(w) = t /\ Leaves(w)
  <2>1. RunKept(t)
    BY <1>6, WorkerRuns
  <2>2. Served(t) /\ Runs(row[t]) /\ row'[t].owner = row[t].owner /\ row'[t].epoch = row[t].epoch
    BY <1>1, <2>1 DEF Unserved, RunKept, Runs
  <2>3. PICK v \in Workers : Task(v) = t /\ child[v].pc \in Serving /\ OwnedBy(row[t], v)
    BY <2>2 DEF Served
  <2>4. ASSUME child'[v].task = child[v].task, child'[v].epoch = child[v].epoch, child'[v].pc \in Serving
        PROVE  FALSE
    BY <1>1, <2>2, <2>3, <2>4 DEF Unserved, Served, OwnedBy, Runs, Task
  <2>5. v = w /\ (CommitTerminal(w) \/ Recover(w) \/ Leaves(w))
    BY <1>6, <2>3, <2>4, WorkerChildKept DEF ChildKept
  <2>6. MayCommit(w)
    <3>1. child[w].cv = 0
      BY <2>2, <2>3, <2>5 DEF VersionsAgree, Runs, Task
    <3>. QED
      BY <2>2, <2>3, <2>5, <3>1 DEF MayCommit, Runs
  <2>7. ~ CommitTerminal(w) /\ ~ Recover(w)
    <3>1. t \in Tasks /\ row \in [Tasks -> Row] /\ row[t] \in Row
      BY DEF TypeInv, TypeOK
    <3>2. ASSUME CommitTerminal(w) \/ Recover(w) PROVE FALSE
      <4>1. \E s \in Statuses \ {"running"} : row' = [row EXCEPT ![t] = [Released(row[t]) EXCEPT !.status = s]]
        BY <2>3, <2>5, <2>6, <3>2 DEF CommitTerminal, Recover, Statuses, Terminal, Active
      <4>. QED
        BY <1>1, <3>1, <4>1, EndedRows
    <3>. QED
      BY <3>2
  <2>. QED
    BY <2>3, <2>5, <2>7
<1>. QED
  BY <1>3, <1>4, <1>5, <1>6 DEF Next

THEOREM OrphansAreLeft == Spec => OrphanedByKillOnly
<1>. DEFINE P == \A t \in Tasks :
       Unserved(t)' /\ ~ Unserved(t) =>
         \E w \in Workers :
           Task(w) = t /\ (Crash(w) \/ Terminate(w) \/ LastCommitFails(w))
<1>1. Init => VersionsAgree /\ ReadRunning
  BY DEF Init, VersionsAgree, ReadRunning, Idle, NoScan
<1>2. TypeInv /\ TypeInv' /\ VersionsAgree /\ ReadRunning /\ [Next]_vars
        => VersionsAgree' /\ ReadRunning'
  BY VersionsStep, ReadRunningStep
<1>3. TypeInv /\ VersionsAgree /\ ReadRunning /\ Next => P
  BY OrphanStep DEF Leaves
<1>4. UNCHANGED vars => P
  BY DEF vars, Unserved, Served, OwnedBy, Task
<1>5. TypeInv /\ VersionsAgree /\ ReadRunning /\ [Next]_vars => [P]_vars
  BY <1>3, <1>4
<1>. QED
  BY <1>1, <1>2, <1>5, TypeInvariant, PTL DEF Spec, OrphanedByKillOnly
=============================================================================
