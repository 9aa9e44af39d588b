---------------------------- MODULE LeasesProofs ----------------------------
(***************************************************************************)
(* Proofs about Leases, for any numbers of tasks, pods, slots, claims and  *)
(* faults.  Every step but Claim keeps the rows' epochs, every step but    *)
(* Poll keeps the executions: the invariants are proved from that.         *)
(***************************************************************************)
EXTENDS Leases, TLAPS

Slot == 1 .. Slots

\* Epochs count claims, and a running row has been claimed.
EpochsCounted ==
  \A t \in Tasks : /\ row[t].epoch <= claims
                   /\ row[t].status = "running" => row[t].epoch > 0

\* An execution has an entry in its pod's table.
Entered ==
  \A i \in Slot : Executing(i) => /\ exec[i].pod \in Pods /\ exec[i].task \in Tasks
                                  /\ entry[exec[i].pod][exec[i].task] # 0

\* The epoch of an execution was the row's, and while it still is the pod owns the row.
OfItsClaim ==
  \A i \in Slot : Executing(i) =>
    LET r == row[exec[i].task]
    IN  /\ exec[i].epoch <= r.epoch
        /\ r.status = "running" /\ r.epoch = exec[i].epoch => r.owner = exec[i].pod

LeaseInv == TypeOK /\ EpochsCounted /\ Entered /\ OnePerPod /\ OfItsClaim /\ FencedByEpoch

\* What a step other than Claim does to the rows.
RowsKept ==
  /\ row' \in [Tasks -> Rows]
  /\ claims' = claims
  /\ \A t \in Tasks : /\ row'[t].epoch = row[t].epoch
                      /\ row'[t].status = "running" <=> row'[t].owner # None
                      /\ row'[t].status = "running" =>
                           row[t].status = "running" /\ row'[t].owner = row[t].owner

\* What a step other than Poll does to the executions and the tables.
ExecsKept ==
  /\ exec' \in [Slot -> Execs]
  /\ entry' \in [Pods -> [Tasks -> Epochs]]
  /\ \A i \in Slot : exec'[i].pc \in Busy =>
       /\ exec[i].pc \in Busy /\ exec'[i].task = exec[i].task
       /\ exec'[i].pod = exec[i].pod /\ exec'[i].epoch = exec[i].epoch
       /\ entry'[exec[i].pod][exec[i].task] = entry[exec[i].pod][exec[i].task]

-----------------------------------------------------------------------------
(* The records.                                                            *)

\* A row that is released, or whose lease changes.
LEMMA RowTypes ==
  ASSUME NEW r \in Rows
  PROVE  /\ \A s \in {"pending", "passed", "failed", "error", "cancelled"} :
              /\ Released(r, s) \in Rows
              /\ Released(r, s).status = s /\ Released(r, s).owner = None
              /\ Released(r, s).epoch = r.epoch
         /\ \A l \in {"none", "live", "expired"} :
              /\ [r EXCEPT !.lease = l] \in Rows
              /\ [r EXCEPT !.lease = l].status = r.status
              /\ [r EXCEPT !.lease = l].owner = r.owner
              /\ [r EXCEPT !.lease = l].epoch = r.epoch
BY DEF Rows, Released

\* An execution that goes on, gets its lock, loses its supervisor or ends.
LEMMA ExecTypes ==
  ASSUME NEW e \in Execs
  PROVE  /\ \A pc \in Busy \cup {"free", "clear", "over"} :
              /\ [e EXCEPT !.pc = pc] \in Execs /\ [e EXCEPT !.pc = pc].pc = pc
              /\ [e EXCEPT !.pc = pc].task = e.task /\ [e EXCEPT !.pc = pc].pod = e.pod
              /\ [e EXCEPT !.pc = pc].epoch = e.epoch
         /\ LET w == [e EXCEPT !.pc = "work", !.locked = TRUE, !.sup = "on"]
            IN  w \in Execs /\ w.task = e.task /\ w.pod = e.pod /\ w.epoch = e.epoch
         /\ LET s == [e EXCEPT !.sup = "off", !.stop = TRUE]
            IN  /\ s \in Execs /\ s.pc = e.pc
                /\ s.task = e.task /\ s.pod = e.pod /\ s.epoch = e.epoch
<1>1. \A pc \in Busy \cup {"free", "clear", "over"} :
        /\ [e EXCEPT !.pc = pc] \in Execs /\ [e EXCEPT !.pc = pc].pc = pc
        /\ [e EXCEPT !.pc = pc].task = e.task /\ [e EXCEPT !.pc = pc].pod = e.pod
        /\ [e EXCEPT !.pc = pc].epoch = e.epoch
  BY DEF Execs
<1>2. LET w == [e EXCEPT !.pc = "work", !.locked = TRUE, !.sup = "on"]
      IN  w \in Execs /\ w.task = e.task /\ w.pod = e.pod /\ w.epoch = e.epoch
  BY DEF Execs, Busy
<1>3. LET s == [e EXCEPT !.sup = "off", !.stop = TRUE]
      IN  /\ s \in Execs /\ s.pc = e.pc
          /\ s.task = e.task /\ s.pod = e.pod /\ s.epoch = e.epoch
  BY DEF Execs
<1> QED
  BY <1>1, <1>2, <1>3

\* What is left of an execution when its thread has ended.
LEMMA EndTypes ==
  /\ Free \in Execs /\ Free.pc \notin Busy
  /\ \A e \in Execs : Ended(e) \in Execs /\ Ended(e).pc \notin Busy
<1>1. Free \in Execs /\ Free.pc \notin Busy
  BY LeasesAssumption DEF Free, Execs, Busy, Epochs
<1>2. ASSUME NEW e \in Execs PROVE Ended(e) \in Execs /\ Ended(e).pc \notin Busy
  BY <1>1 DEF Ended, Execs, Busy
<1> QED
  BY <1>1, <1>2

-----------------------------------------------------------------------------
(* What steps do.                                                          *)

\* One row is released or gets another lease.
LEMMA OneRow ==
  ASSUME TypeOK, claims' = claims, NEW t,
         \/ \E s \in {"pending", "passed", "failed", "error", "cancelled"} :
              row' = [row EXCEPT ![t] = Released(row[t], s)]
         \/ \E l \in {"live", "expired"} : row' = [row EXCEPT ![t] = [row[t] EXCEPT !.lease = l]]
         \/ row' = row
  PROVE  RowsKept
<1>0. /\ row \in [Tasks -> Rows]
      /\ \A u \in Tasks : row[u].status = "running" <=> row[u].owner # None
      /\ t \in Tasks => row[t] \in Rows
  BY DEF TypeOK
<1>1. CASE \E s \in {"pending", "passed", "failed", "error", "cancelled"} :
             row' = [row EXCEPT ![t] = Released(row[t], s)]
  <2>1. PICK s \in {"pending", "passed", "failed", "error", "cancelled"} :
          row' = [row EXCEPT ![t] = Released(row[t], s)]
    BY <1>1
  <2>2. t \in Tasks => /\ Released(row[t], s) \in Rows /\ Released(row[t], s).status = s
                       /\ Released(row[t], s).owner = None
                       /\ Released(row[t], s).epoch = row[t].epoch
    <3> SUFFICES ASSUME row[t] \in Rows
                 PROVE  /\ Released(row[t], s) \in Rows /\ Released(row[t], s).status = s
                        /\ Released(row[t], s).owner = None
                        /\ Released(row[t], s).epoch = row[t].epoch
      BY <1>0
    <3>1. s \in {"pending", "passed", "failed", "error", "cancelled"}
      BY <2>1
    <3>2. \A x \in {"pending", "passed", "failed", "error", "cancelled"} :
            /\ Released(row[t], x) \in Rows
            /\ Released(row[t], x).status = x /\ Released(row[t], x).owner = None
            /\ Released(row[t], x).epoch = row[t].epoch
      BY RowTypes
    <3> QED
      BY <3>1, <3>2
  <2> QED
    BY <1>0, <2>1, <2>2 DEF RowsKept
<1>2. CASE \E l \in {"live", "expired"} : row' = [row EXCEPT ![t] = [row[t] EXCEPT !.lease = l]]
  <2>1. PICK l \in {"live", "expired"} : row' = [row EXCEPT ![t] = [row[t] EXCEPT !.lease = l]]
    BY <1>2
  <2> DEFINE q == [row[t] EXCEPT !.lease = l]
  <2>2. t \in Tasks => /\ q \in Rows /\ q.status = row[t].status /\ q.owner = row[t].owner
                       /\ q.epoch = row[t].epoch
    <3> SUFFICES ASSUME row[t] \in Rows
                 PROVE  /\ q \in Rows /\ q.status = row[t].status /\ q.owner = row[t].owner
                        /\ q.epoch = row[t].epoch
      BY <1>0
    <3>1. l \in {"none", "live", "expired"}
      BY <2>1
    <3> QED
      BY <3>1, RowTypes
  <2>3. row' = [row EXCEPT ![t] = q]
    BY <2>1
  <2> HIDE DEF q
  <2> QED
    BY <1>0, <2>2, <2>3 DEF RowsKept
<1>3. CASE row' = row
  BY <1>0, <1>3 DEF RowsKept
<1> QED
  BY <1>1, <1>2, <1>3

\* One execution goes on, or stops executing.
LEMMA OneExec ==
  ASSUME TypeOK, NEW i \in Slot, NEW e \in Execs, exec' = [exec EXCEPT ![i] = e], entry' = entry,
         e.pc \in Busy => /\ exec[i].pc \in Busy /\ e.task = exec[i].task
                          /\ e.pod = exec[i].pod /\ e.epoch = exec[i].epoch
  PROVE  ExecsKept
BY DEF TypeOK, ExecsKept, Slot

\* Only a claim gives a row an epoch and an owner.
LEMMA RowSteps ==
  ASSUME TypeOK, [Next]_vars
  PROVE  RowsKept \/ \E t \in Tasks, p \in Pods : Claim(t, p)
<1>1. CASE SweepCommit
  <2>1. \A t \in Tasks : row[t] \in Rows /\ (row[t].status = "running" <=> row[t].owner # None)
    BY DEF TypeOK
  <2>2. \A t \in Tasks :
          LET q == Released(row[t], "pending")
          IN  q \in Rows /\ q.status = "pending" /\ q.owner = None /\ q.epoch = row[t].epoch
    <3> SUFFICES ASSUME NEW t \in Tasks
                 PROVE  LET q == Released(row[t], "pending")
                        IN  /\ q \in Rows /\ q.status = "pending"
                            /\ q.owner = None /\ q.epoch = row[t].epoch
      OBVIOUS
    <3>1. \A x \in {"pending", "passed", "failed", "error", "cancelled"} :
            /\ Released(row[t], x) \in Rows
            /\ Released(row[t], x).status = x /\ Released(row[t], x).owner = None
            /\ Released(row[t], x).epoch = row[t].epoch
      BY <2>1, RowTypes
    <3> QED
      BY <3>1
  <2>3. row' = [t \in Tasks |-> IF t \in stale THEN Released(row[t], "pending") ELSE row[t]]
        /\ claims' = claims
    BY <1>1 DEF SweepCommit
  <2> QED
    BY <2>1, <2>2, <2>3 DEF RowsKept
<1>2. ASSUME NEW t \in Tasks, Expire(t) \/ Cancel(t) \/ Restart(t) PROVE RowsKept
  <2>1. claims' = claims
    BY <1>2 DEF Expire, Cancel, Restart
  <2>2. \/ \E s \in {"pending", "passed", "failed", "error", "cancelled"} :
             row' = [row EXCEPT ![t] = Released(row[t], s)]
        \/ \E l \in {"live", "expired"} : row' = [row EXCEPT ![t] = [row[t] EXCEPT !.lease = l]]
    BY <1>2 DEF Expire, Cancel, Restart
  <2> QED
    BY <2>1, <2>2, OneRow
<1>3. ASSUME NEW i \in Slot, Thread(i) \/ Work(i) \/ Supervise(i) PROVE RowsKept
  <2>1. claims' = claims
    BY <1>3 DEF Thread, Check, Lock, Unlink, Save, Result, Error, ErrorCommit, Post, Clear, Work,
                Supervise
  <2>2. \/ \E s \in {"pending", "passed", "failed", "error", "cancelled"} :
             row' = [row EXCEPT ![exec[i].task] = Released(row[exec[i].task], s)]
        \/ \E l \in {"live", "expired"} :
             row' = [row EXCEPT ![exec[i].task] = [row[exec[i].task] EXCEPT !.lease = l]]
        \/ row' = row
    BY <1>3 DEF Thread, Check, Lock, Unlink, Save, Result, Error, ErrorCommit, Post, Clear, Work,
                Supervise
  <2> QED
    BY <2>1, <2>2, OneRow
<1>4. CASE row' = row /\ claims' = claims
  BY <1>4, OneRow
<1>5. SweepRead \/ SweepClean \/ SweepFails \/ (\E p \in Pods : Poll(p) \/ Crash(p))
        \/ UNCHANGED vars => row' = row /\ claims' = claims
  BY DEF SweepRead, SweepClean, SweepFails, Poll, Crash, vars
<1> QED
  BY <1>1, <1>2, <1>3, <1>4, <1>5 DEF Next, Manager, Slot

\* Only a poll starts an execution.
LEMMA ExecSteps ==
  ASSUME LeaseInv, [Next]_vars
  PROVE  ExecsKept \/ \E p \in Pods : Poll(p)
<1>0. TypeOK /\ OnePerPod /\ Entered
  BY DEF LeaseInv
<1>1. ASSUME NEW i \in Slot PROVE exec[i] \in Execs
  BY <1>0 DEF TypeOK, Slot
<1>2. ASSUME exec' = exec, entry' = entry PROVE ExecsKept
  BY <1>0, <1>2 DEF TypeOK, ExecsKept, Slot
<1>3. ASSUME NEW i \in Slot, entry' = entry, At(i, exec[i].pc), exec[i].pc \in Busy,
             \E pc \in Busy : GoTo(i, pc)
      PROVE  ExecsKept
  <2>1. PICK pc \in Busy : exec' = [exec EXCEPT ![i] = [exec[i] EXCEPT !.pc = pc]]
    BY <1>3 DEF GoTo
  <2> DEFINE e == [exec[i] EXCEPT !.pc = pc]
  <2>2. e \in Execs /\ e.task = exec[i].task /\ e.pod = exec[i].pod /\ e.epoch = exec[i].epoch
    BY <1>1, ExecTypes
  <2>3. exec' = [exec EXCEPT ![i] = e]
    BY <2>1
  <2> HIDE DEF e
  <2> QED
    BY <1>0, <1>3, <2>2, <2>3, OneExec
<1>4. ASSUME NEW i \in Slot, Check(i) \/ Lock(i) \/ Unlink(i) \/ Error(i) \/ ErrorCommit(i) \/ Work(i)
                              \/ Result(i)
      PROVE  ExecsKept
  <2>1. entry' = entry
    BY <1>4 DEF Check, Lock, Unlink, Error, ErrorCommit, Work, Result
  <2>2. exec[i].pc \in Busy
    BY <1>4 DEF Check, Lock, Unlink, Error, ErrorCommit, Work, Result, At, Busy
  <2>3. \E pc \in Busy : GoTo(i, pc)
    BY <1>4 DEF Check, Lock, Unlink, Error, ErrorCommit, Work, Result, Busy
  <2> QED
    BY <1>3, <2>1, <2>2, <2>3 DEF At
<1>5. ASSUME NEW i \in Slot, Save(i) PROVE ExecsKept
  <2>1. entry' = entry /\ exec[i].pc \in Busy
    BY <1>5 DEF Save, At, Busy
  <2>2. CASE GoTo(i, "error")
    BY <2>1, <2>2, <1>3 DEF At, Busy
  <2>3. CASE exec' = [exec EXCEPT ![i] = [exec[i] EXCEPT !.pc = "work", !.locked = TRUE, !.sup = "on"]]
    <3> DEFINE e == [exec[i] EXCEPT !.pc = "work", !.locked = TRUE, !.sup = "on"]
    <3>1. e \in Execs /\ e.task = exec[i].task /\ e.pod = exec[i].pod /\ e.epoch = exec[i].epoch
      BY <1>1, ExecTypes
    <3>2. exec' = [exec EXCEPT ![i] = e]
      BY <2>3
    <3> HIDE DEF e
    <3> QED
      BY <1>0, <2>1, <3>1, <3>2, OneExec
  <2> QED
    BY <1>5, <2>2, <2>3 DEF Save
<1>6. ASSUME NEW i \in Slot, Clear(i) PROVE ExecsKept
  <2>1. exec' = [exec EXCEPT ![i] = Ended(exec[i])] /\ entry' = entry
    BY <1>6 DEF Clear
  <2>2. Ended(exec[i]) \in Execs /\ Ended(exec[i]).pc \notin Busy
    BY <1>1, EndTypes
  <2> QED
    BY <1>0, <2>1, <2>2, OneExec
<1>7. ASSUME NEW i \in Slot, Post(i) PROVE ExecsKept
  <2>0. exec[i].pc = "post" /\ exec[i].pc \in Busy
    BY <1>7 DEF Post, At, Busy
  <2>1. CASE exec' = [exec EXCEPT ![i] = Ended(exec[i])] /\ entry' = entry
    <3>1. Ended(exec[i]) \in Execs /\ Ended(exec[i]).pc \notin Busy
      BY <1>1, EndTypes
    <3> QED
      BY <1>0, <2>1, <3>1, OneExec
  <2>2. CASE GoTo(i, "clear") /\ entry' = [entry EXCEPT ![exec[i].pod][exec[i].task] = 0]
    <3> DEFINE e == [exec[i] EXCEPT !.pc = "clear"]
    <3>1. e \in Execs /\ e.pc = "clear"
      BY <1>1, ExecTypes
    <3>2. exec' = [exec EXCEPT ![i] = e]
      BY <2>2 DEF GoTo
    <3>3. "clear" \notin Busy
      BY DEF Busy
    <3> HIDE DEF e
    <3>4. exec' \in [Slot -> Execs]
      BY <1>0, <3>1, <3>2 DEF TypeOK, Slot
    <3>5. entry' \in [Pods -> [Tasks -> Epochs]]
      <4>1. 0 \in Epochs
        BY LeasesAssumption DEF Epochs
      <4> QED
        BY <4>1, <2>2, <1>0 DEF TypeOK
    <3>6. ASSUME NEW j \in Slot, exec'[j].pc \in Busy
          PROVE  /\ j # i /\ exec'[j] = exec[j]
                 /\ entry'[exec[j].pod][exec[j].task] = entry[exec[j].pod][exec[j].task]
      <4>1. j # i /\ exec'[j] = exec[j]
        BY <3>1, <3>2, <3>3, <3>6, <1>0 DEF TypeOK, Slot
      <4>2. exec[j].pod # exec[i].pod
        BY <1>0, <2>0, <3>6, <4>1 DEF OnePerPod, Executing, Slot
      <4>3. exec[j].pod \in Pods
        BY <1>0, <3>6, <4>1 DEF Entered, Executing
      <4> QED
        BY <4>1, <4>2, <4>3, <2>2, <1>0 DEF TypeOK
    <3> QED
      BY <3>4, <3>5, <3>6 DEF ExecsKept
  <2> QED
    BY <1>7, <2>1, <2>2 DEF Post
<1>8. ASSUME NEW i \in Slot, Supervise(i) PROVE ExecsKept
  <2>1. entry' = entry
    BY <1>8 DEF Supervise
  <2>2. CASE exec' = exec
    BY <1>2, <2>1, <2>2
  <2>3. CASE exec' = [exec EXCEPT ![i] = IF exec[i].pc = "over" THEN Free
                                         ELSE [exec[i] EXCEPT !.sup = "off", !.stop = TRUE]]
    <3> DEFINE e == [exec[i] EXCEPT !.sup = "off", !.stop = TRUE]
    <3>1. /\ e \in Execs /\ e.pc = exec[i].pc
          /\ e.task = exec[i].task /\ e.pod = exec[i].pod /\ e.epoch = exec[i].epoch
      BY <1>1, ExecTypes
    <3>2. exec' = [exec EXCEPT ![i] = Free] \/ exec' = [exec EXCEPT ![i] = e]
      BY <2>3
    <3> HIDE DEF e
    <3> QED
      BY <1>0, <2>1, <3>1, <3>2, EndTypes, OneExec
  <2> QED
    BY <1>8, <2>2, <2>3 DEF Supervise
<1>9. ASSUME NEW p \in Pods, Crash(p) PROVE ExecsKept
  <2>1. /\ exec' = [i \in Slot |-> IF exec[i].pod = p THEN Free ELSE exec[i]]
        /\ entry' = [entry EXCEPT ![p] = [t \in Tasks |-> 0]]
    BY <1>9 DEF Crash, Slot
  <2>2. exec' \in [Slot -> Execs]
    BY <2>1, <1>1, EndTypes
  <2>3. entry' \in [Pods -> [Tasks -> Epochs]]
    <3>1. 0 \in Epochs
      BY LeasesAssumption DEF Epochs
    <3> QED
      BY <3>1, <2>1, <1>0 DEF TypeOK
  <2>4. ASSUME NEW j \in Slot, exec'[j].pc \in Busy
        PROVE  /\ exec'[j] = exec[j]
               /\ entry'[exec[j].pod][exec[j].task] = entry[exec[j].pod][exec[j].task]
    <3>1. exec'[j] = exec[j] /\ exec[j].pod # p
      BY <2>1, <2>4, EndTypes
    <3>2. exec[j].pod \in Pods
      BY <1>0, <2>4, <3>1 DEF Entered, Executing, Slot
    <3> QED
      BY <3>1, <3>2, <2>1, <1>0 DEF TypeOK
  <2> QED
    BY <2>2, <2>3, <2>4 DEF ExecsKept
<1>10. Manager \/ SweepFails
         \/ (\E t \in Tasks : Expire(t) \/ Cancel(t) \/ Restart(t) \/ \E p \in Pods : Claim(t, p))
         \/ UNCHANGED vars => exec' = exec /\ entry' = entry
  BY DEF Manager, SweepRead, SweepClean, SweepCommit, SweepFails, Expire, Cancel, Restart, Claim,
         vars
<1> QED
  BY <1>2, <1>4, <1>5, <1>6, <1>7, <1>8, <1>9, <1>10 DEF Next, Thread, Slot

-----------------------------------------------------------------------------
(* The invariant.                                                          *)

LEMMA InitLeases == Init => LeaseInv
<1> SUFFICES ASSUME Init PROVE LeaseInv
  OBVIOUS
<1> USE LeasesAssumption
<1>1. \A i \in Slot : exec[i] = Free /\ exec[i].pc \notin Busy
  BY EndTypes DEF Init, Slot
<1>2. TypeOK
  <2>1. 0 \in Epochs
    BY DEF Epochs
  <2>2. row \in [Tasks -> Rows] /\ lock \in [Tasks -> Locks]
    BY <2>1 DEF Init, Rows, Locks, NoLock
  <2>3. exec \in [1 .. Slots -> Execs]
    BY EndTypes DEF Init
  <2>4. entry \in [Pods -> [Tasks -> Epochs]]
    BY <2>1 DEF Init
  <2>5. \A t \in Tasks : row[t].status = "running" <=> row[t].owner # None
    BY DEF Init
  <2>6. /\ manager \in {"idle", "clean", "commit"} /\ stale \subseteq Tasks
        /\ claims \in 0 .. MaxClaims /\ faults \in 0 .. MaxFaults
    BY DEF Init
  <2> QED
    BY <2>2, <2>3, <2>4, <2>5, <2>6 DEF TypeOK
<1>3. EpochsCounted
  BY DEF Init, EpochsCounted
<1>4. Entered /\ OnePerPod /\ OfItsClaim /\ FencedByEpoch
  BY <1>1 DEF Entered, OnePerPod, OfItsClaim, FencedByEpoch, Executing, Slot
<1> QED
  BY <1>2, <1>3, <1>4 DEF LeaseInv

\* The parts of the state that neither lemma is about.
LEMMA RestTypes ==
  ASSUME TypeOK, [Next]_vars
  PROVE  /\ lock' \in [Tasks -> Locks]
         /\ manager' \in {"idle", "clean", "commit"} /\ stale' \subseteq Tasks
         /\ claims' \in 0 .. MaxClaims /\ faults' \in 0 .. MaxFaults
<1>1. manager' \in {"idle", "clean", "commit"} /\ stale' \subseteq Tasks
  BY DEF Next, Manager, SweepRead, SweepClean, SweepCommit, SweepFails, Expire, Cancel, Restart,
         Claim, Poll, Crash, Thread, Check, Lock, Unlink, Save, Result, Error, ErrorCommit, Post,
         Clear, Work, Supervise, Expired, Running, vars, TypeOK
<1>2. claims' \in 0 .. MaxClaims
  <2>1. claims' = claims \/ (claims < MaxClaims /\ claims' = claims + 1)
    BY DEF Next, Manager, SweepRead, SweepClean, SweepCommit, SweepFails, Expire, Cancel, Restart,
           Claim, Poll, Crash, Thread, Check, Lock, Unlink, Save, Result, Error, ErrorCommit, Post,
           Clear, Work, Supervise, vars
  <2> QED
    BY <2>1, LeasesAssumption DEF TypeOK
<1>3. faults' \in 0 .. MaxFaults
  <2>1. faults' = faults \/ (faults < MaxFaults /\ faults' = faults + 1)
    BY DEF Next, Manager, SweepRead, SweepClean, SweepCommit, SweepFails, Expire, Cancel, Restart,
           Claim, Poll, Crash, Thread, Check, Lock, Unlink, Save, Result, Error, ErrorCommit, Post,
           Clear, Work, Supervise, vars, Fault
  <2> QED
    BY <2>1, LeasesAssumption DEF TypeOK
<1>4. lock' \in [Tasks -> Locks]
  <2>1. NoLock \in Locks
    BY LeasesAssumption DEF NoLock, Locks, Epochs
  <2>2. ASSUME NEW i \in Slot PROVE Mine(i) \in Locks
    BY <2>2 DEF Mine, Locks, Execs, Slot, TypeOK
  <2>3. CASE SweepClean
    BY <2>1, <2>3 DEF SweepClean, TypeOK
  <2>4. ASSUME NEW t \in Tasks, Cancel(t) \/ Restart(t) PROVE lock' \in [Tasks -> Locks]
    BY <2>1, <2>4 DEF Cancel, Restart, TypeOK
  <2>5. ASSUME NEW i \in Slot, Lock(i) \/ Unlink(i) \/ Clear(i) PROVE lock' \in [Tasks -> Locks]
    <3>1. \/ lock' = lock \/ lock' = [lock EXCEPT ![exec[i].task] = Mine(i)]
          \/ lock' = [lock EXCEPT ![exec[i].task] = NoLock]
      BY <2>5 DEF Lock, Unlink, Clear
    <3> QED
      BY <2>1, <2>2, <3>1 DEF TypeOK
  <2>6. ASSUME NEW p \in Pods, Crash(p) PROVE lock' \in [Tasks -> Locks]
    <3>1. \A l \in Locks : [l EXCEPT !.current = FALSE] \in Locks
      BY DEF Locks
    <3> QED
      BY <3>1, <2>6 DEF Crash, TypeOK
  <2>7. CASE UNCHANGED lock
    BY <2>7 DEF TypeOK
  <2> QED
    BY <2>3, <2>4, <2>5, <2>6, <2>7
       DEF Next, Manager, SweepRead, SweepCommit, SweepFails, Expire, Claim, Poll, Thread, Check,
           Save, Result, Error, ErrorCommit, Post, Work, Supervise, vars, Slot
<1> QED
  BY <1>1, <1>2, <1>3, <1>4

\* Steps that claim nothing and start nothing.
LEMMA KeptStep ==
  ASSUME LeaseInv, [Next]_vars, RowsKept, ExecsKept
  PROVE  LeaseInv'
<1>0. /\ TypeOK /\ EpochsCounted /\ Entered /\ OnePerPod /\ OfItsClaim /\ FencedByEpoch
      /\ \A t \in Tasks : row[t] \in Rows /\ row[t].epoch \in Nat
  BY LeasesAssumption DEF LeaseInv, TypeOK, Rows, Epochs
<1>1. TypeOK'
  BY RestTypes, <1>0 DEF TypeOK, RowsKept, ExecsKept, Slot
<1>2. EpochsCounted'
  BY <1>0 DEF EpochsCounted, RowsKept
<1>3. Entered'
  BY <1>0 DEF Entered, ExecsKept, Executing
<1>4. OnePerPod'
  BY <1>0 DEF OnePerPod, ExecsKept, Executing, Slot
<1>5. OfItsClaim'
  BY <1>0 DEF OfItsClaim, Entered, ExecsKept, RowsKept, Executing
<1>6. FencedByEpoch'
  BY <1>0 DEF FencedByEpoch, ExecsKept, Executing, Slot
<1> QED
  BY <1>1, <1>2, <1>3, <1>4, <1>5, <1>6 DEF LeaseInv

\* A new epoch is above those of all executions.
LEMMA ClaimStep ==
  ASSUME LeaseInv, [Next]_vars, NEW t \in Tasks, NEW p \in Pods, Claim(t, p)
  PROVE  LeaseInv'
<1>0. /\ TypeOK /\ EpochsCounted /\ Entered /\ OnePerPod /\ OfItsClaim /\ FencedByEpoch
      /\ \A u \in Tasks : row[u] \in Rows /\ row[u].epoch \in Nat
      /\ \A i \in Slot : exec[i].epoch \in Nat
  BY LeasesAssumption DEF LeaseInv, TypeOK, Rows, Execs, Epochs, Slot
<1> DEFINE q == [status |-> "running", owner |-> p, epoch |-> row[t].epoch + 1, lease |-> "live"]
<1>1. /\ row' = [row EXCEPT ![t] = q] /\ claims' = claims + 1 /\ claims < MaxClaims
      /\ exec' = exec /\ entry' = entry
  BY DEF Claim, NextEpoch
<1>2. q \in Rows /\ q.status = "running" /\ q.owner = p /\ q.epoch = row[t].epoch + 1 /\ p # None
  <2>1. row[t].epoch + 1 \in Epochs
    BY <1>0, <1>1, LeasesAssumption DEF EpochsCounted, Epochs, TypeOK
  <2> QED
    BY <2>1, LeasesAssumption DEF Rows
<1> HIDE DEF q
<1>3. row' \in [Tasks -> Rows] /\ row'[t] = q /\ \A u \in Tasks \ {t} : row'[u] = row[u]
  BY <1>0, <1>1, <1>2 DEF TypeOK
<1>4. TypeOK'
  BY RestTypes, <1>0, <1>1, <1>2, <1>3 DEF TypeOK
<1>5. EpochsCounted'
  BY <1>0, <1>1, <1>2, <1>3 DEF EpochsCounted, TypeOK
<1>6. Entered' /\ OnePerPod' /\ FencedByEpoch'
  BY <1>0, <1>1 DEF Entered, OnePerPod, FencedByEpoch, Executing
<1>7. OfItsClaim'
  BY <1>0, <1>1, <1>2, <1>3 DEF OfItsClaim, Entered, Executing
<1> QED
  BY <1>4, <1>5, <1>6, <1>7 DEF LeaseInv

\* An execution starts on a pod that has none, with the row's epoch.
LEMMA PollStep ==
  ASSUME LeaseInv, [Next]_vars, NEW p \in Pods, Poll(p)
  PROVE  LeaseInv'
<1>0. /\ TypeOK /\ EpochsCounted /\ Entered /\ OnePerPod /\ OfItsClaim /\ FencedByEpoch
      /\ \A u \in Tasks : row[u] \in Rows /\ row[u].epoch \in Nat /\ row[u].epoch \in Epochs
  BY LeasesAssumption DEF LeaseInv, TypeOK, Rows, Epochs
<1>1. PICK t \in Running, i \in Slot : /\ row[t].owner = p
                                      /\ FreeSlot(i) /\ RunLocally(p, t, i)
  BY DEF Poll, Slot
<1> DEFINE e == [Free EXCEPT !.pc = "check", !.task = t, !.pod = p, !.epoch = row[t].epoch]
<1>2. t \in Tasks /\ row[t].status = "running" /\ row[t].epoch > 0 /\ row' = row /\ claims' = claims
  BY <1>0, <1>1 DEF Running, EpochsCounted, Poll
<1>3. exec' = [exec EXCEPT ![i] = e] /\ entry' = [entry EXCEPT ![p][t] = row[t].epoch]
  BY <1>1 DEF RunLocally
<1>4. e \in Execs /\ e.task = t /\ e.pod = p /\ e.epoch = row[t].epoch
  BY <1>0, <1>2 DEF Free, Execs, Busy
<1> HIDE DEF e
<1>5. /\ exec' \in [Slot -> Execs] /\ exec'[i] = e
      /\ \A j \in Slot \ {i} : exec'[j] = exec[j]
  BY <1>0, <1>3, <1>4 DEF TypeOK, Slot
<1>6. /\ entry' \in [Pods -> [Tasks -> Epochs]] /\ entry'[p][t] # 0
      /\ \A r \in Pods, u \in Tasks : <<r, u>> # <<p, t>> => entry'[r][u] = entry[r][u]
  BY <1>0, <1>2, <1>3 DEF TypeOK
<1>7. \A j \in Slot : exec[j].pc \in Busy => exec[j].pod # p /\ exec[j].pod \in Pods /\ exec[j].task \in Tasks
  BY <1>0 DEF Poll, HasSlot, Entered, Executing
<1>8. TypeOK'
  BY RestTypes, <1>0, <1>2, <1>5, <1>6 DEF TypeOK, Slot
<1>9. EpochsCounted'
  BY <1>0, <1>2 DEF EpochsCounted
<1>10. Entered'
  <2> SUFFICES ASSUME NEW j \in Slot, exec'[j].pc \in Busy
               PROVE  /\ exec'[j].pod \in Pods /\ exec'[j].task \in Tasks
                      /\ entry'[exec'[j].pod][exec'[j].task] # 0
    BY DEF Entered, Executing
  <2>1. CASE j = i
    BY <2>1, <1>2, <1>4, <1>5, <1>6
  <2>2. CASE j # i
    BY <2>2, <1>0, <1>5, <1>6, <1>7 DEF Entered, Executing
  <2> QED
    BY <2>1, <2>2
<1>11. OnePerPod'
  BY <1>0, <1>4, <1>5, <1>7 DEF OnePerPod, Executing, Slot
<1>12. OfItsClaim'
  BY <1>0, <1>1, <1>2, <1>4, <1>5 DEF OfItsClaim, Executing
<1>13. FencedByEpoch'
  <2>1. ASSUME NEW j \in Slot, j # i, exec[j].pc \in Busy, exec[j].task = t
        PROVE  exec[j].epoch # row[t].epoch
    BY <2>1, <1>0, <1>1, <1>2, <1>7 DEF OfItsClaim, Executing
  <2> QED
    BY <2>1, <1>0, <1>4, <1>5 DEF FencedByEpoch, Executing, Slot
<1> QED
  BY <1>8, <1>9, <1>10, <1>11, <1>12, <1>13 DEF LeaseInv

LEMMA LeaseInvAlways == Spec => []LeaseInv
<1>1. LeaseInv /\ [Next]_vars => LeaseInv'
  <2> SUFFICES ASSUME LeaseInv, [Next]_vars PROVE LeaseInv'
    OBVIOUS
  <2>1. TypeOK
    BY DEF LeaseInv
  <2>2. CASE \E t \in Tasks, p \in Pods : Claim(t, p)
    BY <2>2, ClaimStep
  <2>3. CASE \E p \in Pods : Poll(p)
    BY <2>3, PollStep
  <2>4. CASE RowsKept /\ ExecsKept
    BY <2>4, KeptStep
  <2> QED
    BY <2>1, <2>2, <2>3, <2>4, RowSteps, ExecSteps
<1> QED
  BY <1>1, InitLeases, PTL DEF Spec

-----------------------------------------------------------------------------
(* The theorems.                                                           *)

\* Rows, locks, tables and executions keep their types, and a row has an owner exactly
\* while it runs (task_repository.py).
THEOREM TypesHold == Spec => []TypeOK
<1>1. LeaseInv => TypeOK
  BY DEF LeaseInv
<1> QED
  BY <1>1, LeaseInvAlways, PTL

\* No two executions of a pod overlap, whatever restarts, claims and crashes came between:
\* the clean-up before a task kills every agent of the pod (_run_task_locally).
THEOREM OneExecutionPerPod == Spec => []OnePerPod
<1>1. LeaseInv => OnePerPod
  BY DEF LeaseInv
<1> QED
  BY <1>1, LeaseInvAlways, PTL

\* Executions of one task that overlap have different epochs, so that the guards of the
\* heartbeat and of the result tell them apart (claim_task_lease).
THEOREM EpochsFence == Spec => []FencedByEpoch
<1>1. LeaseInv => FencedByEpoch
  BY DEF LeaseInv
<1> QED
  BY <1>1, LeaseInvAlways, PTL
=============================================================================
