----------------------- MODULE ControlPlaneImplements -----------------------
(***************************************************************************)
(* The V3 control plane implements TaskDispatch: what is given is numbered *)
(* by the epochs of the row, and a command that is under way carries a     *)
(* claim that was given, was not begun, and is carried by nothing else.    *)
(***************************************************************************)
EXTENDS ControlPlaneProofs

-----------------------------------------------------------------------------
(* The invariant.                                                          *)

\* The epoch of a row counts the claims of its task.
CountOK ==
  /\ IsFiniteSet(given) /\ begun \subseteq given
  /\ \A t \in Tasks : Cardinality({d \in given : d[1] = t}) = row[t].epoch
  /\ \A d \in given : d[2] <= row[d[1]].epoch

\* Connections are numbered one after the other, and whoever knows the number
\* of one knows one of his own worker.
ConnOK ==
  /\ Opened = 1 .. Cardinality(Opened)
  /\ \A w \in Workers : slot[w].obj # 0 => chan[slot[w].obj].worker = w
  /\ \A w \in Workers : wc[w].sock # 0 => chan[wc[w].sock].worker = w
  /\ dispatch.pc # "idle" /\ dispatch.conn # 0 => chan[dispatch.conn].worker = dispatch.worker

\* Where a claim may be on its way: in a command, in on_run before the spawn,
\* and in the dispatch thread before the send.
Sent(c)       == {i \in DOMAIN chan[c].down : chan[c].down[i].type = "run"}
ClaimAt(c, i) == <<chan[c].down[i].task, chan[c].down[i].epoch, chan[c].worker>>
Spawning(w)   == <<wc[w].task, wc[w].epoch, w>>
Sending       == <<dispatch.task, dispatch.epoch, dispatch.worker>>

CommandsOK ==
  /\ \A c \in Conns : \A i \in Sent(c) : ClaimAt(c, i) \in given \ begun
  /\ \A c, d \in Conns : \A i \in Sent(c), j \in Sent(d) :
       ClaimAt(c, i) = ClaimAt(d, j) => c = d /\ i = j

SpawnOK ==
  \A w \in Workers : wc[w].pc = "spawn" =>
    /\ Spawning(w) \in given \ begun
    /\ \A c \in Conns : \A i \in Sent(c) : ClaimAt(c, i) # Spawning(w)

SendOK ==
  dispatch.pc = "send" =>
    /\ Sending \in given \ begun
    /\ \A c \in Conns : \A i \in Sent(c) : ClaimAt(c, i) # Sending
    /\ \A w \in Workers : wc[w].pc = "spawn" => Spawning(w) # Sending

ClaimInv == CountOK /\ ConnOK /\ CommandsOK /\ SpawnOK /\ SendOK

-----------------------------------------------------------------------------
(* Steps that give no claim and begin none, group of variables by group.   *)

\* The status of a task changes as TaskDispatch allows.
Stays(t)     == row'[t].status = row[t].status
EndsOnly(t)  == /\ row[t].status \in Active \/ t \in Writing
                /\ row'[t].status \in Terminal
                /\ \A x \in Tasks \ {t} : Stays(x)
RowsMove ==
  /\ DOMAIN row' = Tasks /\ \A t \in Tasks : row'[t].epoch = row[t].epoch
  /\ \/ \A t \in Tasks : Stays(t) \/ row'[t].status = "pending"
     \/ \E t \in Tasks : EndsOnly(t)

\* Of the commands some of the first are taken, some of the last are lost, and
\* none to run a task is added.
NetMoves ==
  /\ \A c \in Conns : chan'[c].worker = chan[c].worker
  /\ \A c \in Conns : \E k \in Nat : \A i \in DOMAIN chan'[c].down :
       chan'[c].down[i].type = "run" =>
         i + k \in DOMAIN chan[c].down /\ chan[c].down[i + k] = chan'[c].down[i]

SlotsMove ==
  \A w \in Workers : slot'[w].obj # 0 =>
    slot'[w].obj = slot[w].obj \/ chan[slot'[w].obj].worker = w

RunnersMove ==
  \A w \in Workers :
    /\ wc'[w].sock \in {0, wc[w].sock}
    /\ wc'[w].pc = "spawn" => wc[w].pc = "spawn" /\ wc'[w].task = wc[w].task /\ wc'[w].epoch = wc[w].epoch

DispatchConn ==
  dispatch'.pc # "idle" /\ dispatch'.conn # 0 => chan[dispatch'.conn].worker = dispatch'.worker
DispatchMoves == DispatchConn /\ (dispatch'.pc = "send" => dispatch' = dispatch)

Quiet ==
  /\ UNCHANGED <<given, begun>>
  /\ RowsMove /\ NetMoves /\ SlotsMove /\ RunnersMove /\ DispatchMoves

LEMMA ConnRange ==
  ASSUME PlaneInv
  PROVE  /\ \A w \in Workers : slot[w].obj # 0 => slot[w].obj \in Conns
         /\ \A w \in Workers : wc[w].sock # 0 => wc[w].sock \in Conns
         /\ dispatch.conn # 0 => dispatch.conn \in Conns
         /\ \A c \in Conns : chan[c] \in Conn /\ chan[c].down \in Seq(DownMsg)
<1>1. \A n \in 0 .. MaxConn : n # 0 => n \in Conns
  BY NetAssumption DEF Conns
<1>2. \A w \in Workers : slot[w].obj \in 0 .. MaxConn
  BY SlotTypes DEF PlaneInv, ManagerOK, TablesOK
<1>3. \A w \in Workers : wc[w].sock \in 0 .. MaxConn
  BY DEF PlaneInv, ControlOK, Control
<1>4. dispatch.conn \in 0 .. MaxConn
  BY DEF PlaneInv, ManagerOK, DispatchOK, DispatchType
<1>5. \A c \in Conns : chan[c] \in Conn /\ chan[c].down \in Seq(DownMsg)
  BY DEF PlaneInv, ManagerOK, ChanOK, Conn
<1> QED
  BY <1>1, <1>2, <1>3, <1>4, <1>5

LEMMA GivenTypes ==
  ASSUME PlaneInv
  PROVE  \A d \in given : /\ d[1] \in Tasks /\ d[2] \in 1 .. MaxClaims /\ d[3] \in Workers
                          /\ d = <<d[1], d[2], d[3]>>
BY DEF PlaneInv, ManagerOK, DispatchOK

\* Every claim that is still under way in a command was so before.
LEMMA SentBefore ==
  ASSUME PlaneInv, PlaneInv', NetMoves
  PROVE  \E k \in [Conns -> Nat] : \A c \in Conns : \A i \in Sent(c)' :
           /\ i \in Nat /\ i + k[c] \in Sent(c) /\ ClaimAt(c, i)' = ClaimAt(c, i + k[c])
<1> DEFINE R(c, k) == \A i \in DOMAIN chan'[c].down :
             chan'[c].down[i].type = "run" =>
               i + k \in DOMAIN chan[c].down /\ chan[c].down[i + k] = chan'[c].down[i]
           f == [c \in Conns |-> CHOOSE k \in Nat : R(c, k)]
<1>1. \A c \in Conns : f[c] \in Nat /\ R(c, f[c])
  BY DEF NetMoves
<1>2. f \in [Conns -> Nat]
  BY <1>1
<1>3. ASSUME NEW c \in Conns, NEW i \in Sent(c)'
      PROVE  i \in Nat /\ i + f[c] \in Sent(c) /\ ClaimAt(c, i)' = ClaimAt(c, i + f[c])
  <2>1. i \in DOMAIN chan'[c].down /\ chan'[c].down[i].type = "run"
    BY <1>3 DEF Sent
  <2>2. i + f[c] \in DOMAIN chan[c].down /\ chan[c].down[i + f[c]] = chan'[c].down[i]
    BY <1>1, <2>1
  <2>3. chan'[c].down \in Seq(DownMsg)
    BY ConnRange DEF PlaneInv, ManagerOK, ChanOK, Conn
  <2>4. i \in Nat
    BY <2>1, <2>3, Elements
  <2> HIDE DEF f
  <2> QED
    BY <2>1, <2>2, <2>4 DEF Sent, ClaimAt, NetMoves
<1> HIDE DEF f
<1> QED
  BY <1>2, <1>3

LEMMA QuietCount ==
  ASSUME PlaneInv, CountOK, UNCHANGED <<given, begun>>, \A t \in Tasks : row'[t].epoch = row[t].epoch
  PROVE  CountOK'
BY GivenTypes DEF CountOK

LEMMA QuietConn ==
  ASSUME PlaneInv, PlaneInv', ConnOK, \A c \in Conns : chan'[c].worker = chan[c].worker, SlotsMove,
         \A w \in Workers : wc'[w].sock \in {0, wc[w].sock}, DispatchConn
  PROVE  ConnOK'
<1>1. Opened' = Opened
  BY DEF Opened
<1>2. \A w \in Workers : slot'[w].obj # 0 => slot'[w].obj \in Conns
  <2>1. \A n \in 0 .. MaxConn : n # 0 => n \in Conns
    BY NetAssumption DEF Conns
  <2>2. slot' \in [Workers -> Slot]
    BY DEF PlaneInv, ManagerOK, TablesOK
  <2> QED
    BY <2>1, <2>2, SlotTypes
<1>3. dispatch'.conn # 0 => dispatch'.conn \in Conns
  BY NetAssumption DEF PlaneInv, ManagerOK, DispatchOK, DispatchType, Conns
<1>4. \A w \in Workers : wc[w].sock # 0 => wc[w].sock \in Conns
  BY ConnRange
<1>5. \A w \in Workers : slot'[w].obj # 0 => chan'[slot'[w].obj].worker = w
  BY <1>2 DEF SlotsMove, ConnOK
<1>6. \A w \in Workers : wc'[w].sock # 0 => chan'[wc'[w].sock].worker = w
  BY <1>4 DEF ConnOK
<1>7. dispatch'.pc # "idle" /\ dispatch'.conn # 0 => chan'[dispatch'.conn].worker = dispatch'.worker
  BY <1>3 DEF DispatchConn
<1> QED
  BY <1>1, <1>5, <1>6, <1>7 DEF ConnOK

\* What is under way stays good as long as nothing new is.
LEMMA QuietCommands ==
  ASSUME PlaneInv, PlaneInv', CommandsOK, NetMoves, given \subseteq given', begun' = begun
  PROVE  CommandsOK'
<1>1. PICK k \in [Conns -> Nat] : \A c \in Conns : \A i \in Sent(c)' :
        /\ i \in Nat /\ i + k[c] \in Sent(c) /\ ClaimAt(c, i)' = ClaimAt(c, i + k[c])
  BY SentBefore
<1>2. \A c \in Conns : \A i \in Sent(c)' : ClaimAt(c, i)' \in given' \ begun'
  BY <1>1 DEF CommandsOK
<1>3. ASSUME NEW c \in Conns, NEW d \in Conns, NEW i \in Sent(c)', NEW j \in Sent(d)',
             ClaimAt(c, i)' = ClaimAt(d, j)'
      PROVE  c = d /\ i = j
  <2>1. c = d /\ i + k[c] = j + k[d]
    BY <1>1, <1>3 DEF CommandsOK
  <2>2. i \in Nat /\ j \in Nat /\ k[c] \in Nat
    BY <1>1
  <2> QED
    BY <2>1, <2>2
<1> QED
  BY <1>2, <1>3 DEF CommandsOK

LEMMA QuietSpawn ==
  ASSUME PlaneInv, PlaneInv', SpawnOK, NetMoves, RunnersMove, given \subseteq given', begun' = begun
  PROVE  SpawnOK'
<1>1. PICK k \in [Conns -> Nat] : \A c \in Conns : \A i \in Sent(c)' :
        /\ i \in Nat /\ i + k[c] \in Sent(c) /\ ClaimAt(c, i)' = ClaimAt(c, i + k[c])
  BY SentBefore
<1> SUFFICES ASSUME NEW w \in Workers, wc'[w].pc = "spawn"
             PROVE  /\ Spawning(w)' \in given' \ begun'
                    /\ \A c \in Conns : \A i \in Sent(c)' : ClaimAt(c, i)' # Spawning(w)'
  BY DEF SpawnOK
<1>2. wc[w].pc = "spawn" /\ Spawning(w)' = Spawning(w)
  BY DEF RunnersMove, Spawning
<1> QED
  BY <1>1, <1>2 DEF SpawnOK

LEMMA QuietSend ==
  ASSUME PlaneInv, PlaneInv', SendOK, NetMoves, RunnersMove, DispatchMoves,
         given \subseteq given', begun' = begun
  PROVE  SendOK'
<1>1. PICK k \in [Conns -> Nat] : \A c \in Conns : \A i \in Sent(c)' :
        /\ i \in Nat /\ i + k[c] \in Sent(c) /\ ClaimAt(c, i)' = ClaimAt(c, i + k[c])
  BY SentBefore
<1> SUFFICES ASSUME dispatch'.pc = "send"
             PROVE  /\ Sending' \in given' \ begun'
                    /\ \A c \in Conns : \A i \in Sent(c)' : ClaimAt(c, i)' # Sending'
                    /\ \A w \in Workers : wc'[w].pc = "spawn" => Spawning(w)' # Sending'
  BY DEF SendOK
<1>2. dispatch.pc = "send" /\ Sending' = Sending
  BY DEF DispatchMoves, Sending
<1>3. \A w \in Workers : wc'[w].pc = "spawn" => wc[w].pc = "spawn" /\ Spawning(w)' = Spawning(w)
  BY DEF RunnersMove, Spawning
<1> QED
  BY <1>1, <1>2, <1>3 DEF SendOK

LEMMA QuietKept == ASSUME PlaneInv, PlaneInv', ClaimInv, Quiet PROVE ClaimInv'
BY QuietCount, QuietConn, QuietCommands, QuietSpawn, QuietSend 
   DEF ClaimInv, Quiet, RowsMove, NetMoves, RunnersMove, DispatchMoves

-----------------------------------------------------------------------------
(* The groups of variables, and the writes to them.                        *)

LEMMA RowsStay == ASSUME PlaneInv, row' = row PROVE RowsMove
BY DEF PlaneInv, ManagerOK, RowsOK, RowsMove, Stays

\* One row is written, by anyone but a claim.
LEMMA RowMoves ==
  ASSUME PlaneInv, NEW t, NEW r, row' = [row EXCEPT ![t] = r],
         t \in Tasks => /\ r.epoch = row[t].epoch
                        /\ \/ r.status \in {row[t].status, "pending"}
                           \/ (row[t].status \in Active \/ t \in Writing) /\ r.status \in Terminal
  PROVE  RowsMove
<1>1. /\ DOMAIN row' = Tasks /\ \A x \in Tasks : row'[x] = IF x = t THEN r ELSE row[x]
  BY DEF PlaneInv, ManagerOK, RowsOK
<1>2. CASE t \in Tasks /\ (row[t].status \in Active \/ t \in Writing) /\ r.status \in Terminal
  BY <1>1, <1>2 DEF RowsMove, EndsOnly, Stays
<1>3. CASE t \in Tasks => r.status \in {row[t].status, "pending"}
  BY <1>1, <1>3 DEF RowsMove, Stays
<1> QED
  BY <1>2, <1>3

LEMMA RequeueMoves == ASSUME PlaneInv, NEW t, RequeueRow(t) \/ RequeueFails PROVE RowsMove
<1>1. CASE RequeueRow(t)
  <2>1. t \in Tasks => Requeued(row[t]).epoch = row[t].epoch /\ Requeued(row[t]).status = "pending"
    BY DEF PlaneInv, ManagerOK, RowsOK, Row, Requeued
  <2>2. row' = [row EXCEPT ![t] = Requeued(row[t])]
    BY <1>1 DEF RequeueRow
  <2> QED
    BY <2>1, <2>2, RowMoves
<1>2. CASE RequeueFails
  BY <1>2, RowsStay DEF RequeueFails
<1> QED
  BY <1>1, <1>2

\* A row is finalized by a transaction that had read it.
LEMMA FinalizeMoves ==
  ASSUME PlaneInv, NEW t \in Writing, NEW s \in Reports, FinalizeRow(t, s) PROVE RowsMove
<1>1. CASE row' = [row EXCEPT ![t].status = Outcome(s)]
  <2> DEFINE r == [row[t] EXCEPT !.status = Outcome(s)]
  <2>1. t \in Tasks => r.epoch = row[t].epoch /\ r.status \in Terminal
    BY DEF PlaneInv, ManagerOK, RowsOK, Row, Outcome, Terminal, Reports
  <2>2. row' = [row EXCEPT ![t] = r]
    BY <1>1
  <2> HIDE DEF r
  <2> QED
    BY <2>1, <2>2, RowMoves
<1>2. CASE row' = row
  BY <1>2, RowsStay
<1> QED
  BY <1>1, <1>2 DEF FinalizeRow

LEMMA NetStays == ASSUME PlaneInv, chan' = chan PROVE NetMoves
<1>1. \A c \in Conns : \A i \in DOMAIN chan[c].down : i + 0 = i
  <2>1. \A c \in Conns : chan[c].down \in Seq(DownMsg)
    BY ConnRange
  <2> QED
    BY <2>1
<1> QED
  BY <1>1 DEF NetMoves

\* One connection is written.
LEMMA NetOne ==
  ASSUME PlaneInv, NEW c, NEW n, chan' = [chan EXCEPT ![c] = n],
         c \in Conns => n.worker = chan[c].worker,
         c \in Conns => \E k \in Nat : \A i \in DOMAIN n.down :
           n.down[i].type = "run" => i + k \in DOMAIN chan[c].down /\ chan[c].down[i + k] = n.down[i]
  PROVE  NetMoves
<1>1. \A d \in Conns : chan'[d] = IF d = c THEN n ELSE chan[d]
  BY DEF PlaneInv, ManagerOK, ChanOK
<1>2. \A d \in Conns : \A i \in DOMAIN chan[d].down : i + 0 = i
  <2>1. \A d \in Conns : chan[d].down \in Seq(DownMsg)
    BY ConnRange
  <2> QED
    BY <2>1
<1>3. \A d \in Conns : chan'[d].worker = chan[d].worker
  BY <1>1
<1>4. ASSUME NEW d \in Conns
      PROVE  \E k \in Nat : \A i \in DOMAIN chan'[d].down : chan'[d].down[i].type = "run" =>
               i + k \in DOMAIN chan[d].down /\ chan[d].down[i + k] = chan'[d].down[i]
  <2>1. CASE d = c
    BY <1>1, <2>1
  <2>2. CASE d # c
    BY <1>1, <1>2, <2>2
  <2> QED
    BY <2>1, <2>2
<1> QED
  BY <1>3, <1>4 DEF NetMoves

\* The messages to the manager change, or all commands are lost.
LEMMA NetUp ==
  ASSUME PlaneInv, NEW c, NEW n, chan' = [chan EXCEPT ![c] = n],
         c \in Conns => n.worker = chan[c].worker /\ n.down \in {chan[c].down, <<>>}
  PROVE  NetMoves
<1>1. ASSUME c \in Conns
      PROVE  \A i \in DOMAIN n.down : n.down[i].type = "run" =>
               i + 0 \in DOMAIN chan[c].down /\ chan[c].down[i + 0] = n.down[i]
  <2>1. chan[c].down \in Seq(DownMsg) /\ DOMAIN <<>> = {}
    BY <1>1, ConnRange
  <2>2. \A i \in DOMAIN chan[c].down : i + 0 = i
    BY <2>1
  <2> QED
    BY <1>1, <2>1, <2>2
<1> QED
  BY <1>1, NetOne

LEMMA UpMoves == ASSUME PlaneInv, NEW c, NEW m, PushUp(c, m) PROVE NetMoves
<1> DEFINE n == [chan[c] EXCEPT !.up = IF chan[c].open THEN Append(chan[c].up, m) ELSE chan[c].up]
<1>1. chan' = [chan EXCEPT ![c] = n]
  BY DEF PushUp
<1>2. c \in Conns => n.worker = chan[c].worker /\ n.down = chan[c].down
  BY ConnRange DEF Conn
<1> HIDE DEF n
<1> QED
  BY <1>1, <1>2, NetUp

LEMMA PopMoves == ASSUME PlaneInv, NEW c, chan' = Popped(c) PROVE NetMoves
<1> DEFINE n == [chan[c] EXCEPT !.up = Tail(chan[c].up)]
<1>1. chan' = [chan EXCEPT ![c] = n]
  BY DEF Popped
<1>2. c \in Conns => n.worker = chan[c].worker /\ n.down = chan[c].down
  BY ConnRange DEF Conn
<1> HIDE DEF n
<1> QED
  BY <1>1, <1>2, NetUp

LEMMA CancelMoves == ASSUME PlaneInv, NEW c, NEW t, PushDown(c, CancelCmd(t)) PROVE NetMoves
<1> DEFINE s == IF chan[c].open THEN Append(chan[c].down, CancelCmd(t)) ELSE chan[c].down
           n == [chan[c] EXCEPT !.down = s]
<1>1. chan' = [chan EXCEPT ![c] = n]
  BY DEF PushDown
<1>2. ASSUME c \in Conns
      PROVE  /\ n.worker = chan[c].worker
             /\ \A i \in DOMAIN n.down : n.down[i].type = "run" =>
                  i + 0 \in DOMAIN chan[c].down /\ chan[c].down[i + 0] = n.down[i]
  <2>1. chan[c] \in Conn /\ chan[c].down \in Seq(DownMsg)
    BY <1>2, ConnRange
  <2>2. n.worker = chan[c].worker /\ n.down = s
    BY <2>1 DEF Conn
  <2>3. \A i \in DOMAIN chan[c].down : i + 0 = i
    BY <2>1
  <2>4. CASE s = chan[c].down
    BY <2>2, <2>3, <2>4
  <2>5. CASE s = Append(chan[c].down, CancelCmd(t))
    <3>1. /\ DOMAIN s = 1 .. Len(chan[c].down) + 1 /\ s[Len(chan[c].down) + 1] = CancelCmd(t)
          /\ \A i \in 1 .. Len(chan[c].down) : s[i] = chan[c].down[i]
          /\ DOMAIN chan[c].down = 1 .. Len(chan[c].down) /\ Len(chan[c].down) \in Nat
      BY <2>1, <2>5
    <3>2. \A i \in 1 .. Len(chan[c].down) + 1 :
            i \in 1 .. Len(chan[c].down) \/ i = Len(chan[c].down) + 1
      BY <3>1
    <3>3. CancelCmd(t).type # "run"
      BY DEF CancelCmd
    <3> HIDE DEF s
    <3> QED
      BY <2>2, <2>3, <3>1, <3>2, <3>3
  <2> QED
    BY <2>4, <2>5
<1> HIDE DEF n
<1> QED
  BY <1>1, <1>2, NetOne

\* The first command is taken; the worker may answer.
LEMMA TakenMoves ==
  ASSUME PlaneInv, NEW w \in Workers, Commanded(w),
         NEW n, n.worker = chan[wc[w].sock].worker, n.down = Tail(chan[wc[w].sock].down),
         chan' = [chan EXCEPT ![wc[w].sock] = n]
  PROVE  NetMoves
<1> DEFINE q == chan[wc[w].sock].down
<1>1. q \in Seq(DownMsg) /\ q # <<>>
  BY CommandTaken, ConnRange DEF PlaneInv, ManagerOK, Commanded
<1>2. /\ Len(q) \in Nat /\ DOMAIN q = 1 .. Len(q) /\ DOMAIN Tail(q) = 1 .. Len(q) - 1
      /\ \A i \in 1 .. Len(q) - 1 : Tail(q)[i] = q[i + 1]
  BY <1>1
<1>3. \A i \in 1 .. Len(q) - 1 : i + 1 \in 1 .. Len(q)
  BY <1>2
<1>4. \A i \in DOMAIN n.down : n.down[i].type = "run" =>
        i + 1 \in DOMAIN q /\ q[i + 1] = n.down[i]
  BY <1>2, <1>3
<1>5. \E k \in Nat : \A i \in DOMAIN n.down : n.down[i].type = "run" =>
        i + k \in DOMAIN q /\ q[i + k] = n.down[i]
  <2>1. 1 \in Nat
    OBVIOUS
  <2> QED
    BY <1>4, <2>1, Zenon
<1> QED
  BY <1>5, NetOne

LEMMA SlotsStay == ASSUME slot' = slot PROVE SlotsMove
BY DEF SlotsMove

LEMMA SlotMoves == ASSUME \A w \in Workers : slot'[w].obj \in {0, slot[w].obj} PROVE SlotsMove
BY DEF SlotsMove

LEMMA RunnersStay == ASSUME wc' = wc PROVE RunnersMove
BY DEF RunnersMove

LEMMA RunnerMoves ==
  ASSUME NEW w \in Workers, \A v \in Workers \ {w} : wc'[v] = wc[v],
         wc'[w].sock \in {0, wc[w].sock}, wc'[w].pc # "spawn"
  PROVE  RunnersMove
BY DEF RunnersMove

LEMMA DispatchStays == ASSUME ConnOK, dispatch' = dispatch PROVE DispatchMoves
BY DEF DispatchMoves, DispatchConn, ConnOK

LEMMA DispatchEnds == ASSUME dispatch' = NoDispatch PROVE DispatchMoves
BY DEF DispatchMoves, DispatchConn, NoDispatch

\* Steps of the manager that change rows or messages only.
LEMMA RowStep ==
  ASSUME PlaneInv, ConnOK, RowsMove, UNCHANGED <<chan, slot, wc, dispatch, given, begun>>
  PROVE  Quiet
BY NetStays, SlotsStay, RunnersStay, DispatchStays DEF Quiet

LEMMA IdleStep ==
  ASSUME PlaneInv, ConnOK, UNCHANGED <<row, chan, slot, wc, dispatch, given, begun>> PROVE Quiet
BY RowStep, RowsStay

LEMMA SlotStep ==
  ASSUME PlaneInv, ConnOK, SlotsMove, UNCHANGED <<row, chan, wc, dispatch, given, begun>> PROVE Quiet
BY RowsStay, NetStays, RunnersStay, DispatchStays DEF Quiet

LEMMA NetStep ==
  ASSUME PlaneInv, ConnOK, NetMoves, RunnersMove, UNCHANGED <<row, slot, dispatch, given, begun>>
  PROVE  Quiet
BY RowsStay, SlotsStay, DispatchStays DEF Quiet

-----------------------------------------------------------------------------
(* The manager, without the claim and the send.                            *)

LEMMA QuietDispatch ==
  ASSUME PlaneInv, ConnOK, DispatchPick \/ DispatchAssign \/ DispatchUndo, UNCHANGED workers
  PROVE  Quiet
<1> DEFINE w == dispatch.worker
           t == dispatch.task
<1>1. UNCHANGED <<row, chan, wc, given, begun>>
  BY DEF DispatchPick, DispatchAssign, DispatchUndo, shared, history, workers
<1>2. slot \in [Workers -> Slot] /\ dispatch \in DispatchType
  BY DEF PlaneInv, ManagerOK, TablesOK, DispatchOK
<1>3. CASE DispatchPick
  <2>1. PICK v \in Workers : \E x :
          dispatch' = [NoDispatch EXCEPT !.pc = "assign", !.task = x, !.worker = v, !.conn = slot[v].obj]
    BY <1>3 DEF DispatchPick
  <2>2. dispatch'.pc = "assign" /\ dispatch'.worker = v /\ dispatch'.conn = slot[v].obj
    BY <2>1 DEF NoDispatch
  <2>3. DispatchMoves
    BY <2>2 DEF DispatchMoves, DispatchConn, ConnOK
  <2>4. slot' = slot
    BY <1>3 DEF DispatchPick
  <2> QED
    BY <1>1, <2>3, <2>4, RowsStay, NetStays, SlotsStay, RunnersStay DEF Quiet
<1>4. CASE DispatchAssign
  <2>1. w \in Workers /\ dispatch.pc = "assign"
    BY <1>4 DEF DispatchAssign, PlaneInv, ManagerOK, DispatchOK
  <2>2. \/ slot' = slot
        \/ slot' = [slot EXCEPT ![w] = [slot[w] EXCEPT !.current = t, !.late = 0]]
    BY <1>2, <1>4, <2>1 DEF DispatchAssign, Slot
  <2>3. \A v \in Workers : slot'[v].obj = slot[v].obj
    <3>1. CASE slot' = slot
      BY <3>1
    <3>2. CASE slot' = [slot EXCEPT ![w] = [slot[w] EXCEPT !.current = t, !.late = 0]]
      <4> DEFINE n == [slot[w] EXCEPT !.current = t, !.late = 0]
      <4>1. n.obj = slot[w].obj /\ slot' = [slot EXCEPT ![w] = n]
        BY <1>2, <2>1, <3>2 DEF Slot
      <4> HIDE DEF n
      <4> QED
        BY <1>2, <4>1
    <3> QED
      BY <2>2, <3>1, <3>2
  <2>4. SlotsMove
    BY <2>3, SlotMoves
  <2>5. \/ dispatch' = NoDispatch
        \/ \E k \in {0, dispatch.conn} : dispatch' = [dispatch EXCEPT !.pc = "claim", !.conn = k]
    BY <1>2, <1>4 DEF DispatchAssign, DispatchType
  <2>6. \A k \in {0, dispatch.conn} :
          LET d == [dispatch EXCEPT !.pc = "claim", !.conn = k]
          IN  d.pc = "claim" /\ d.conn = k /\ d.worker = w
    BY <1>2 DEF DispatchType
  <2>7. DispatchMoves
    BY <2>1, <2>5, <2>6, DispatchEnds DEF DispatchMoves, DispatchConn, ConnOK
  <2> QED
    BY <1>1, <2>4, <2>7, RowsStay, NetStays, RunnersStay DEF Quiet
<1>5. CASE DispatchUndo
  <2>1. slot' = [slot EXCEPT ![w] = Vacated(slot[w], t)] /\ dispatch' = NoDispatch
    BY <1>5 DEF DispatchUndo
  <2>2. \A v \in Workers : slot'[v].obj = slot[v].obj
    BY <1>2, <2>1 DEF Vacated, Slot
  <2>3. SlotsMove /\ DispatchMoves
    BY <2>1, <2>2, SlotMoves, DispatchEnds
  <2> QED
    BY <1>1, <2>3, RowsStay, NetStays, RunnersStay DEF Quiet
<1> QED
  BY <1>3, <1>4, <1>5

LEMMA QuietLoop ==
  ASSUME PlaneInv, ConnOK, UNCHANGED workers, NEW l \in Loops,
         LoopRequeue(l) \/ LoopAppend(l) \/ LoopSoft(l) \/ LoopFail(l) \/ LoopCool(l)
  PROVE  Quiet
<1>1. CASE LoopAppend(l) \/ LoopCool(l)
  BY <1>1, IdleStep DEF LoopAppend, LoopCool, shared, history, workers
<1>2. CASE LoopRequeue(l)
  <2>1. /\ UNCHANGED <<chan, slot, wc, dispatch, given, begun>>
        /\ row' = row \/ \E t \in Tasks : RequeueRow(t) \/ RequeueFails
    BY <1>2 DEF LoopRequeue, PlaneInv, ManagerOK, LoopOK, Loop, history, workers
  <2> QED
    BY <2>1, RowStep, RowsStay, RequeueMoves
<1>3. CASE LoopSoft(l)
  <2>1. /\ UNCHANGED <<chan, slot, wc, dispatch, given, begun>>
        /\ row' = row \/ \E t \in Tasks : RequeueRow(t) \/ RequeueFails
    BY <1>3 DEF LoopSoft, PlaneInv, ManagerOK, LoopOK, Loop, history, workers
  <2> QED
    BY <2>1, RowStep, RowsStay, RequeueMoves
<1>4. CASE LoopFail(l)
  <2>1. /\ UNCHANGED <<chan, slot, wc, dispatch, given, begun>>
        /\ FinalizeRow(loop[l].task, "failed")
    BY <1>4 DEF LoopFail, history, workers
  <2>2. "failed" \in Reports /\ loop[l].task \in Writing
    BY <1>4 DEF LoopFail, Reports, Writing
  <2> QED
    BY <2>1, <2>2, RowStep, FinalizeMoves
<1> QED
  BY <1>1, <1>2, <1>3, <1>4

LEMMA QuietScans ==
  ASSUME PlaneInv, ConnOK, UNCHANGED workers, ReconcileScan \/ DbClassify \/ DbHeal
  PROVE  Quiet
<1>1. slot \in [Workers -> Slot]
  BY DEF PlaneInv, ManagerOK, TablesOK
<1>2. CASE ReconcileScan
  <2>1. \A w \in Workers : \/ slot'[w] = NoSlot
                           \/ \E b, c : slot'[w] = [slot[w] EXCEPT !.online = b, !.current = c]
    BY <1>2 DEF ReconcileScan
  <2>2. \A w \in Workers : slot'[w].obj \in {0, slot[w].obj}
    <3> TAKE w \in Workers
    <3>1. CASE slot'[w] = NoSlot
      BY <3>1 DEF NoSlot
    <3>2. CASE slot'[w] # NoSlot
      BY <1>1, <2>1, <3>2 DEF Slot
    <3> QED
      BY <3>1, <3>2
  <2>3. SlotsMove
    BY <2>2, SlotMoves
  <2> QED
    BY <1>2, <2>3, SlotStep DEF ReconcileScan, shared, history, workers
<1>3. CASE DbClassify
  <2> DEFINE rows     == loop["db"].fail
             inRun    == {t \in rows : run[t].worker # None}
             inQueue  == {t \in rows \ inRun : Queued(t)}
             free     == rows \ (inRun \cup inQueue)
             hosts(t) == {w \in Workers : slot[w].online /\ slot[w].reported = t}
             adopted  == {t \in free : hosts(t) # {}}
  <2>1. PICK host \in {f \in [adopted -> Workers] : \A t \in adopted : f[t] \in hosts(t)} :
          slot' = [w \in Workers |->
            LET mine == {t \in adopted : host[t] = w}
            IN  IF mine # {} /\ slot[w].current = None
                  THEN [slot[w] EXCEPT !.current = CHOOSE t \in mine : TRUE] ELSE slot[w]]
    BY <1>3 DEF DbClassify
  <2> HIDE DEF adopted
  <2>2. \A w \in Workers : slot'[w].obj = slot[w].obj
    BY <1>1, <2>1 DEF Slot
  <2>3. SlotsMove
    BY <2>2, SlotMoves
  <2> QED
    BY <1>3, <2>3, SlotStep DEF DbClassify, shared, history, workers
<1>4. CASE DbHeal
  <2>1. /\ UNCHANGED <<chan, slot, wc, dispatch, given, begun>>
        /\ \E t : RequeueRow(t) \/ RequeueFails
    BY <1>4 DEF DbHeal, history, workers
  <2> QED
    BY <2>1, RowStep, RequeueMoves
<1> QED
  BY <1>2, <1>3, <1>4

LEMMA QuietServe ==
  ASSUME PlaneInv, ConnOK, UNCHANGED workers, NEW c \in Conns, ServeStep(c) PROVE Quiet
<1> DEFINE w == chan[c].worker
<1>1. slot \in [Workers -> Slot] /\ DOMAIN slot = Workers
  BY DEF PlaneInv, ManagerOK, TablesOK
<1>2. CASE ServeHello(c)
  <2>1. PICK x : slot' = [slot EXCEPT ![w] = [NoSlot EXCEPT !.obj = c, !.sock = TRUE,
                                                            !.online = TRUE, !.current = x]]
    BY <1>2 DEF ServeHello
  <2>2. \A v \in Workers : slot'[v].obj = IF v = w THEN c ELSE slot[v].obj
    BY <1>1, <2>1 DEF NoSlot
  <2>3. SlotsMove
    BY <2>2 DEF SlotsMove
  <2>4. NetMoves /\ UNCHANGED <<row, wc, dispatch, given, begun>>
    BY <1>2, PopMoves DEF ServeHello, history, workers
  <2> QED
    BY <2>3, <2>4, RowsStay, RunnersStay, DispatchStays DEF Quiet
<1>3. CASE ServeState(c)
  <2>1. PICK t : slot' = [slot EXCEPT ![w] = Vacated(slot[w], t)]
    BY <1>3 DEF ServeState
  <2>2. \A v \in Workers : slot'[v].obj = slot[v].obj
    BY <1>1, <2>1 DEF Vacated, Slot
  <2>3. SlotsMove
    BY <2>2 DEF SlotsMove
  <2>4. NetMoves /\ UNCHANGED <<row, wc, dispatch, given, begun>>
    BY <1>3, PopMoves DEF ServeState, history, workers
  <2> QED
    BY <2>3, <2>4, RowsStay, RunnersStay, DispatchStays DEF Quiet
<1>4. CASE ServeEnd(c)
  <2>1. slot' = [slot EXCEPT ![w] =
           IF serve[c].pc = "new" \/ slot[w].obj = 0 THEN slot[w]
           ELSE [slot[w] EXCEPT !.online = FALSE, !.sock = FALSE]]
    BY <1>4 DEF ServeEnd
  <2>2. \A v \in Workers : slot'[v].obj = slot[v].obj
    BY <1>1, <2>1 DEF Slot
  <2>3. SlotsMove
    BY <2>2 DEF SlotsMove
  <2> QED
    BY <1>4, <2>3, SlotStep DEF ServeEnd, shared, history, workers
<1>5. CASE ServeRequeue(c)
  <2>1. /\ UNCHANGED <<chan, slot, wc, dispatch, given, begun>>
        /\ row' = row \/ \E t : RequeueRow(t) \/ RequeueFails
    BY <1>5 DEF ServeRequeue, history, workers
  <2> QED
    BY <2>1, RowStep, RowsStay, RequeueMoves
<1>6. CASE ServeWrite(c)
  <2>1. serve[c].state \in Reports /\ serve[c].task \in Writing
    BY <1>6 DEF ServeWrite, PlaneInv, ManagerOK, ServeOK, Serve, Writing
  <2>2. /\ UNCHANGED <<chan, slot, wc, dispatch, given, begun>>
        /\ FinalizeRow(serve[c].task, serve[c].state)
    BY <1>6 DEF ServeWrite, history, workers
  <2> QED
    BY <2>1, <2>2, RowStep, FinalizeMoves
<1>7. CASE ServeRequeued(c) \/ ServeFinalize(c) \/ ServeFinalized(c)
  BY <1>7, IdleStep DEF ServeRequeued, ServeFinalize, ServeFinalized, shared, history, workers
<1> QED
  BY <1>2, <1>3, <1>4, <1>5, <1>6, <1>7 DEF ServeStep

LEMMA QuietRestart == ASSUME PlaneInv, ConnOK, UNCHANGED workers, ManagerRestart PROVE Quiet
<1>1. \A t \in Tasks : row'[t] \in {row[t], Requeued(row[t])}
  BY DEF ManagerRestart
<1>2. DOMAIN row' = Tasks
  BY DEF ManagerRestart
<1>3. \A t \in Tasks : /\ Requeued(row[t]).epoch = row[t].epoch
                       /\ Requeued(row[t]).status = "pending"
  BY DEF PlaneInv, ManagerOK, RowsOK, Row, Requeued
<1>4. RowsMove
  BY <1>1, <1>2, <1>3 DEF RowsMove, Stays
<1>5. \A c \in Conns : chan'[c].worker = chan[c].worker /\ chan'[c].down = <<>>
  BY DEF ManagerRestart, NoConn
<1>6. 0 \in Nat /\ DOMAIN <<>> = {}
  OBVIOUS
<1>7. NetMoves
  BY <1>5, <1>6 DEF NetMoves
<1>8. SlotsMove
  BY DEF ManagerRestart, SlotsMove, NoSlot
<1> QED
  BY <1>4, <1>7, <1>8, RunnersStay, DispatchEnds DEF Quiet, ManagerRestart, history, workers

LEMMA QuietManager ==
  ASSUME PlaneInv, ConnOK, UNCHANGED workers, ManagerNext
  PROVE  Quiet \/ DispatchClaim \/ DispatchSend
<1>1. CASE DispatchPick \/ DispatchStep
  BY <1>1, QuietDispatch DEF DispatchStep
<1>2. CASE MemoryStep
  <2>1. "memory" \in Loops
    BY DEF Loops
  <2>2. CASE MemoryLoopEnds
    BY <2>2, IdleStep DEF MemoryLoopEnds, shared, history, workers
  <2> QED
    BY <1>2, <2>1, <2>2, QuietLoop DEF MemoryStep
<1>3. CASE DbStep
  <2>1. "db" \in Loops
    BY DEF Loops
  <2>2. CASE DbQuery \/ DbRepair \/ DbEnqueue
    BY <2>2, IdleStep DEF DbQuery, DbRepair, DbEnqueue, shared, history, workers
  <2> QED
    BY <1>3, <2>1, <2>2, QuietLoop, QuietScans DEF DbStep
<1>4. CASE ReconcileScan
  BY <1>4, QuietScans
<1>5. CASE \E c \in Conns : ServeStep(c)
  BY <1>5, QuietServe
<1>6. CASE Persist \/ \E t \in Tasks : CooldownEnds(t)
  BY <1>6, IdleStep DEF Persist, CooldownEnds, shared, history, workers
<1> QED
  BY <1>1, <1>2, <1>3, <1>4, <1>5, <1>6 DEF ManagerNext

-----------------------------------------------------------------------------
(* The runners, without the connect, the commands to run and the spawn.    *)

\* A runner loses its connection or its task, or says something.
LEMMA RunnerStep ==
  ASSUME PlaneInv, ConnOK, NetMoves, RunnersMove, UNCHANGED <<row, begun, manager>>
  PROVE  Quiet
BY NetStep DEF manager, history

\* The first command is answered.
LEMMA AnswerMoves ==
  ASSUME PlaneInv, NEW w \in Workers, Commanded(w), NEW m, Answer(wc[w].sock, m) PROVE NetMoves
<1> DEFINE c == wc[w].sock
           up == IF chan[c].open THEN Append(chan[c].up, m) ELSE chan[c].up
           n == [chan[c] EXCEPT !.down = Tail(chan[c].down), !.up = up]
<1>1. c \in Conns /\ chan[c] \in Conn
  BY CommandTaken DEF PlaneInv, ManagerOK
<1>2. chan' = [chan EXCEPT ![c] = n]
  BY <1>1 DEF Answer, Conn, PlaneInv, ManagerOK, ChanOK
<1>3. n.worker = chan[c].worker /\ n.down = Tail(chan[c].down)
  BY <1>1 DEF Conn
<1> HIDE DEF n
<1> QED
  BY <1>2, <1>3, TakenMoves

\* The first command is taken.
LEMMA SilentMoves ==
  ASSUME PlaneInv, NEW w \in Workers, Commanded(w),
         chan' = [chan EXCEPT ![wc[w].sock].down = Tail(@)]
  PROVE  NetMoves
<1> DEFINE c == wc[w].sock
           n == [chan[c] EXCEPT !.down = Tail(chan[c].down)]
<1>1. c \in Conns /\ chan[c] \in Conn
  BY CommandTaken DEF PlaneInv, ManagerOK
<1>2. chan' = [chan EXCEPT ![c] = n]
  OBVIOUS
<1>3. n.worker = chan[c].worker /\ n.down = Tail(chan[c].down)
  BY <1>1 DEF Conn
<1> HIDE DEF n
<1> QED
  BY <1>2, <1>3, TakenMoves

LEMMA PcMoves ==
  ASSUME PlaneInv, NEW w \in Workers, NEW pc \in {"ready", "kill", "dead"},
         wc' = [wc EXCEPT ![w].pc = pc]
  PROVE  RunnersMove
<1>1. wc[w] \in Control
  BY DEF PlaneInv, ControlOK
<1> DEFINE k == [wc[w] EXCEPT !.pc = pc]
<1>2. k.sock = wc[w].sock /\ k.pc # "spawn"
  BY <1>1 DEF Control
<1>3. wc'[w] = k /\ \A v \in Workers \ {w} : wc'[v] = wc[v]
  BY DEF PlaneInv, ControlOK
<1> HIDE DEF k
<1> QED
  BY <1>2, <1>3, RunnerMoves

LEMMA QuietControl ==
  ASSUME PlaneInv, ConnOK, NEW w \in Workers, UNCHANGED manager,
         Disconnect(w) \/ OnCancel(w) \/ Kill(w) \/ Reap(w) \/ WorkerCrash(w)
  PROVE  Quiet
<1> DEFINE c == wc[w].sock
<1>1. wc[w] \in Control
  BY DEF PlaneInv, ControlOK
<1>2. CASE Disconnect(w)
  <2> DEFINE k == [wc[w] EXCEPT !.sock = 0]
  <2>1. k.sock = 0 /\ k.pc # "spawn"
    BY <1>1, <1>2 DEF Disconnect, Control
  <2>2. wc' = [wc EXCEPT ![w] = k] /\ UNCHANGED <<row, chan, begun>>
    BY <1>2 DEF Disconnect, shared
  <2> HIDE DEF k
  <2>3. wc'[w] = k /\ \A v \in Workers \ {w} : wc'[v] = wc[v]
    BY <2>2 DEF PlaneInv, ControlOK
  <2>4. RunnersMove
    BY <2>1, <2>3, RunnerMoves
  <2> QED
    BY <2>2, <2>4, NetStays, RunnerStep
<1>3. CASE OnCancel(w)
  <2>1. Commanded(w) /\ UNCHANGED <<row, begun>>
    BY <1>3 DEF OnCancel
  <2>2. CASE Answer(c, State(Command(w).task, "cancelled"))
             /\ \E pc \in Handled(w) : wc' = [wc EXCEPT ![w].pc = pc]
    BY <2>1, <2>2, AnswerMoves, PcMoves, HandledTypes, RunnerStep
  <2>3. CASE chan' = [chan EXCEPT ![c].down = Tail(@)] /\ wc' = [wc EXCEPT ![w].pc = "kill"]
    BY <2>1, <2>3, SilentMoves, PcMoves, RunnerStep
  <2> QED
    BY <1>3, <2>2, <2>3 DEF OnCancel
<1>4. CASE Kill(w)
  <2>1. PICK pc \in Handled(w) : wc' = [wc EXCEPT ![w] = [NewControl EXCEPT !.sock = c, !.pc = pc]]
    BY <1>4 DEF Kill
  <2>2. pc # "spawn"
    BY HandledTypes
  <2> DEFINE k == [NewControl EXCEPT !.sock = c, !.pc = pc]
  <2>3. k.sock = c /\ k.pc = pc /\ wc' = [wc EXCEPT ![w] = k]
    BY <2>1 DEF NewControl
  <2> HIDE DEF k
  <2>6. wc'[w] = k /\ \A v \in Workers \ {w} : wc'[v] = wc[v]
    BY <2>3 DEF PlaneInv, ControlOK
  <2>4. RunnersMove
    BY <2>2, <2>3, <2>6, RunnerMoves
  <2>5. NetMoves /\ UNCHANGED <<row, begun>>
    BY <1>4, UpMoves DEF Kill
  <2> QED
    BY <2>4, <2>5, RunnerStep
<1>5. CASE Reap(w)
  <2> DEFINE k == [wc[w] EXCEPT !.task = None, !.epoch = 0]
  <2>1. wc' = [wc EXCEPT ![w] = k] /\ k.sock = c /\ k.pc = wc[w].pc
    BY <1>1, <1>5 DEF Reap, Control, PlaneInv, ControlOK
  <2>2. wc[w].pc # "spawn"
    <3>1. Current(w) # None
      BY <1>5 DEF Reap
    <3> QED
      BY <3>1 DEF Current
  <2> HIDE DEF k, c
  <2>5. wc'[w] = k /\ \A v \in Workers \ {w} : wc'[v] = wc[v]
    BY <2>1 DEF PlaneInv, ControlOK
  <2>3. RunnersMove
    BY <2>1, <2>2, <2>5, RunnerMoves DEF c
  <2>4. NetMoves /\ UNCHANGED <<row, begun>>
    BY <1>5, UpMoves, NetStays DEF Reap
  <2> QED
    BY <2>3, <2>4, RunnerStep
<1>6. CASE WorkerCrash(w)
  <2>1. NewControl.sock = 0 /\ NewControl.pc # "spawn"
    BY DEF NewControl
  <2>2. wc' = [wc EXCEPT ![w] = NewControl] /\ UNCHANGED <<row, begun>>
    BY <1>6 DEF WorkerCrash
  <2>5. wc'[w] = NewControl /\ \A v \in Workers \ {w} : wc'[v] = wc[v]
    BY <2>2 DEF PlaneInv, ControlOK
  <2>4. RunnersMove
    BY <2>1, <2>5, RunnerMoves
  <2>3. NetMoves
    <3> DEFINE n == [chan[c] EXCEPT !.open = FALSE, !.down = <<>>]
    <3>1. CASE chan' = chan
      BY <3>1, NetStays
    <3>2. CASE chan' = [chan EXCEPT ![c].open = FALSE, ![c].down = <<>>]
      <4>1. chan' = [chan EXCEPT ![c] = n]
        BY <3>2 DEF PlaneInv, ManagerOK, ChanOK, Conn
      <4>2. c \in Conns => n.worker = chan[c].worker /\ n.down = <<>>
        BY ConnRange DEF Conn
      <4> HIDE DEF n
      <4> QED
        BY <4>1, <4>2, NetUp
    <3> QED
      BY <1>6, <3>1, <3>2 DEF WorkerCrash
  <2> QED
    BY <2>2, <2>3, <2>4, RunnerStep
<1> QED
  BY <1>2, <1>3, <1>4, <1>5, <1>6

LEMMA QuietProcess ==
  ASSUME PlaneInv, ConnOK, UNCHANGED manager, NEW p \in procs,
         ProcStep(p) \/ ProcEnds(p) \/ ProcDies(p)
  PROVE  Quiet
<1> DEFINE t == p.task
<1>1. t \in Tasks /\ row[t] \in Row
  BY DEF PlaneInv, ManagerOK, RowsOK, ProcessOK, Process
<1>2. UNCHANGED <<chan, slot, wc, dispatch, given, begun>>
  BY DEF ProcStep, ProcStart, ProcPersist, ProcError, ProcWrite, ProcEnds, ProcDies,
         shared, manager, history
<1>3. \A s \in Terminal :
        /\ Settled(row[t], s).epoch = row[t].epoch /\ Settled(row[t], s).status = s
  BY <1>1 DEF Settled, Row
<1>4. [row[t] EXCEPT !.age = "fresh"].epoch = row[t].epoch
      /\ [row[t] EXCEPT !.age = "fresh"].status = row[t].status
  BY <1>1 DEF Row
<1>5. \/ row' = row
      \/ row' = [row EXCEPT ![t] = [row[t] EXCEPT !.age = "fresh"]]
      \/ /\ row[t].status \in Active \/ t \in Writing
         /\ \E s \in Terminal : row' = [row EXCEPT ![t] = Settled(row[t], s)]
  <2>1. CASE ProcWrite(p)
    <3>1. t \in Writing /\ "error" \in Terminal
      BY <2>1 DEF ProcWrite, Writing, Terminal
    <3> QED
      BY <2>1, <3>1 DEF ProcWrite
  <2>2. CASE ProcPersist(p)
    BY <2>2, OutcomesAssumption DEF ProcPersist, Active, Terminal
  <2>3. CASE ProcStart(p) \/ ProcError(p) \/ ProcEnds(p) \/ ProcDies(p)
    BY <2>3 DEF ProcStart, ProcError, ProcEnds, ProcDies, shared
  <2> QED
    BY <2>1, <2>2, <2>3 DEF ProcStep
<1>6. RowsMove
  <2>1. CASE row' = row
    BY <2>1, RowsStay
  <2>2. CASE row' = [row EXCEPT ![t] = [row[t] EXCEPT !.age = "fresh"]]
    BY <1>4, <2>2, RowMoves
  <2>3. CASE /\ row[t].status \in Active \/ t \in Writing
             /\ \E s \in Terminal : row' = [row EXCEPT ![t] = Settled(row[t], s)]
    BY <1>3, <2>3, RowMoves
  <2> QED
    BY <1>5, <2>1, <2>2, <2>3
<1> QED
  BY <1>2, <1>6, RowStep

LEMMA QuietRunner ==
  ASSUME PlaneInv, ConnOK, UNCHANGED manager, NEW w \in Workers, WorkerNext(w)
  PROVE  Quiet \/ Connect(w) \/ OnRun(w) \/ Spawn(w)
BY QuietControl, QuietProcess DEF WorkerNext, ControlStep

-----------------------------------------------------------------------------
(* Time, the network and the API.                                          *)

LEMMA QuietTime ==
  ASSUME PlaneInv, ConnOK,
         \/ \E w \in Workers : Heartbeat(w) \/ GetsLate(w)
         \/ \E t \in Tasks : RunAges(t) \/ RowAges(t) \/ ApiSubmit(t)
  PROVE  Quiet
<1>1. slot \in [Workers -> Slot]
  BY DEF PlaneInv, ManagerOK, TablesOK
<1>2. ASSUME NEW w \in Workers, Heartbeat(w) PROVE Quiet
  <2>1. PICK x : slot' = [slot EXCEPT ![w] =
          IF slot[w].obj = 0 THEN slot[w]
          ELSE [slot[w] EXCEPT !.late = 0, !.online = TRUE, !.reported = x]]
    BY <1>2 DEF Heartbeat, OnHeartbeat
  <2>2. \A v \in Workers : slot'[v].obj = slot[v].obj
    BY <1>1, <2>1 DEF Slot
  <2>3. SlotsMove
    BY <2>2 DEF SlotsMove
  <2> QED
    BY <1>2, <2>3, SlotStep DEF Heartbeat, OnHeartbeat, shared, history, workers
<1>3. ASSUME NEW w \in Workers, GetsLate(w) PROVE Quiet
  <2>1. PICK x : slot' = [slot EXCEPT ![w] = [slot[w] EXCEPT !.late = x]]
    BY <1>3 DEF GetsLate
  <2>2. \A v \in Workers : slot'[v].obj = slot[v].obj
    BY <1>1, <2>1 DEF Slot
  <2>3. SlotsMove
    BY <2>2 DEF SlotsMove
  <2> QED
    BY <1>3, <2>3, SlotStep DEF GetsLate, history, workers
<1>4. ASSUME NEW t \in Tasks, RunAges(t) \/ ApiSubmit(t) PROVE Quiet
  BY <1>4, IdleStep DEF RunAges, RecordAges, ApiSubmit, Submit, history, workers
<1>5. ASSUME NEW t \in Tasks, RowAges(t) PROVE Quiet
  <2> DEFINE r == [row[t] EXCEPT !.age = "old"]
  <2>1. row' = [row EXCEPT ![t] = r] /\ r.epoch = row[t].epoch /\ r.status = row[t].status
    BY <1>5 DEF RowAges, PlaneInv, ManagerOK, RowsOK, Row
  <2> HIDE DEF r
  <2> QED
    BY <1>5, <2>1, RowMoves, RowStep DEF RowAges, manager, history, workers
<1> QED
  BY <1>2, <1>3, <1>4, <1>5

LEMMA QuietBreaks == ASSUME PlaneInv, ConnOK, NEW c \in Conns, Breaks(c) PROVE Quiet
<1>1. PICK i \in 0 .. Len(chan[c].up), j \in 0 .. Len(chan[c].down) :
        chan' = [chan EXCEPT ![c].open = FALSE, ![c].up   = SubSeq(@, 1, i),
                                                ![c].down = SubSeq(@, 1, j)]
  BY DEF Breaks
<1> DEFINE u == SubSeq(chan[c].up, 1, i)
           q == SubSeq(chan[c].down, 1, j)
           n == [chan[c] EXCEPT !.open = FALSE, !.up = u, !.down = q]
<1>2. chan[c] \in Conn /\ chan[c].down \in Seq(DownMsg)
  BY ConnRange
<1>3. chan' = [chan EXCEPT ![c] = n] /\ n.worker = chan[c].worker /\ n.down = q
  BY <1>1, <1>2 DEF Conn, PlaneInv, ManagerOK, ChanOK
<1>4. \A k \in DOMAIN q : k + 0 \in DOMAIN chan[c].down /\ chan[c].down[k + 0] = q[k]
  <2>1. Len(chan[c].down) \in Nat /\ DOMAIN chan[c].down = 1 .. Len(chan[c].down)
    BY <1>2
  <2>2. DOMAIN q = 1 .. j /\ \A k \in 1 .. j : q[k] = chan[c].down[k]
    BY <1>2, <2>1
  <2>3. \A k \in 1 .. j : k + 0 = k /\ k \in 1 .. Len(chan[c].down)
    BY <2>1
  <2> HIDE DEF q
  <2> QED
    BY <2>1, <2>2, <2>3
<1> HIDE DEF q, n
<1>5. NetMoves
  BY <1>3, <1>4, NetOne
<1> QED
  BY <1>5, RunnersStay, NetStep DEF Breaks, manager, history, workers

LEMMA QuietLoads ==
  ASSUME PlaneInv, ConnOK, NEW t \in Tasks, ApiCancel(t) \/ ApiRestart(t) \/ ApiDelete(t)
  PROVE  Quiet
<1>1. UNCHANGED <<chan, slot, wc, dispatch, given, begun>>
  BY DEF ApiCancel, ApiRestart, ApiDelete, manager, history, workers
<1>2. CASE row' = row
  BY <1>1, <1>2, RowStep, RowsStay
<1>3. CASE row' # row
  <2> DEFINE r == [row[t] EXCEPT !.deleted = TRUE]
  <2>1. row' = [row EXCEPT ![t] = r]
    BY <1>3 DEF ApiCancel, ApiRestart, ApiDelete, Writes
  <2>2. r.epoch = row[t].epoch /\ r.status = row[t].status
    BY DEF PlaneInv, ManagerOK, RowsOK, Row
  <2> HIDE DEF r
  <2> QED
    BY <1>1, <2>1, <2>2, RowMoves, RowStep
<1> QED
  BY <1>2, <1>3

LEMMA QuietWrites ==
  ASSUME PlaneInv, ConnOK, ApiStop \/ ApiFinalize \/ ApiReset \/ ApiMark PROVE Quiet
<1> DEFINE t == api.task
<1>1. /\ UNCHANGED <<chan, slot, wc, dispatch, given, begun>>
      /\ t \in Tasks /\ row[t] \in Row
  BY DEF ApiStop, ApiFinalize, ApiReset, ApiMark, Locked, manager, history, workers,
         PlaneInv, ApiOK, ManagerOK, RowsOK
<1>2. \A r \in Row : Freed(r).epoch = r.epoch /\ Freed(r).status = r.status
  BY DEF Freed, Row
<1>3. \A s \in {"cancelled", "pending"} :
        /\ [row[t] EXCEPT !.status = s] \in Row
        /\ [row[t] EXCEPT !.status = s].epoch = row[t].epoch
        /\ [row[t] EXCEPT !.status = s].status = s
  BY <1>1 DEF Row, Active, Terminal
<1>4. "cancelled" \in Terminal /\ "cancelled" \in Reports
  BY DEF Terminal, Reports
<1>5. CASE ApiStop
  <2> DEFINE r == [row[t] EXCEPT !.status = "cancelled"]
  <2>1. t \in Writing
    BY <1>5 DEF ApiStop, Writing
  <2>2. r \in Row /\ r.epoch = row[t].epoch /\ r.status = "cancelled"
    BY <1>3
  <2>3. row' = [row EXCEPT ![t] = r] \/ row' = [row EXCEPT ![t] = Freed(r)]
    BY <1>5 DEF ApiStop, Writes
  <2> HIDE DEF r, t
  <2>4. RowsMove
    BY <1>2, <1>4, <2>1, <2>2, <2>3, RowMoves
  <2> QED
    BY <1>1, <2>4, RowStep
<1>6. CASE ApiFinalize
  <2>1. t \in Writing
    BY <1>6 DEF ApiFinalize, Locked, Writing
  <2> QED
    BY <1>1, <1>4, <1>6, <2>1, FinalizeMoves, RowStep DEF ApiFinalize
<1>7. CASE ApiReset
  <2> DEFINE r == [row[t] EXCEPT !.status = "pending"]
  <2>1. r \in Row /\ r.epoch = row[t].epoch /\ r.status = "pending"
    BY <1>3
  <2>2. row' = [row EXCEPT ![t] = Freed(r)]
    BY <1>7 DEF ApiReset, Writes
  <2> HIDE DEF r, t
  <2>3. RowsMove
    BY <1>2, <2>1, <2>2, RowMoves
  <2> QED
    BY <1>1, <2>3, RowStep
<1>8. CASE ApiMark
  <2> DEFINE r == [row[t] EXCEPT !.deleted = TRUE]
  <2>1. r.epoch = row[t].epoch /\ r.status = row[t].status
    BY <1>1 DEF Row
  <2>2. row' = [row EXCEPT ![t] = r]
    BY <1>8 DEF ApiMark, Writes
  <2> HIDE DEF r, t
  <2>3. RowsMove
    BY <2>1, <2>2, RowMoves
  <2> QED
    BY <1>1, <2>3, RowStep
<1> QED
  BY <1>5, <1>6, <1>7, <1>8

LEMMA QuietNotify ==
  ASSUME PlaneInv, ConnOK, ApiNotifyCancel \/ ApiNotifyRequeue \/ ApiNotifyRestart PROVE Quiet
<1>1. CASE ApiNotifyRequeue
  BY <1>1, RequeueMoves, RowStep DEF ApiNotifyRequeue, manager, history, workers
<1>2. ASSUME NEW t, TellWorker(t) PROVE NetMoves
  BY <1>2, NetStays, CancelMoves DEF TellWorker
<1>3. CASE ApiNotifyRestart
  <2>1. TellWorker(api.task) /\ UNCHANGED <<row, slot, wc, dispatch, given, begun>>
    BY <1>3 DEF ApiNotifyRestart, Restart, workers
  <2> QED
    BY <1>2, <2>1, RunnersStay, NetStep
<1>4. CASE ApiNotifyCancel
  <2>1. /\ UNCHANGED <<row, slot, wc, dispatch, given, begun>>
        /\ TellWorker(api.task) \/ chan' = chan
    BY <1>4 DEF ApiNotifyCancel, CancelQueued, CancelRunning, shared, manager, history, workers
  <2> QED
    BY <1>2, <2>1, RunnersStay, NetStays, NetStep
<1> QED
  BY <1>1, <1>3, <1>4

\* The steps that are not quiet.
LEMMA QuietOr ==
  ASSUME PlaneInv, ConnOK, [Next]_vars
  PROVE  \/ Quiet
         \/ ByManager(DispatchClaim) \/ ByManager(DispatchSend)
         \/ \E w \in Workers : ByWorker(Connect(w)) \/ ByWorker(OnRun(w)) \/ ByWorker(Spawn(w))
<1>1. CASE ByManager(ManagerNext)
  BY <1>1, QuietManager DEF ByManager
<1>2. CASE \E w \in Workers : ByWorker(WorkerNext(w))
  BY <1>2, QuietRunner DEF ByWorker
<1>3. CASE \/ \E w \in Workers : Heartbeat(w) \/ GetsLate(w)
           \/ \E t \in Tasks : RunAges(t) \/ RowAges(t) \/ ApiSubmit(t)
  BY <1>3, QuietTime
<1>4. CASE \E c \in Conns : Breaks(c)
  BY <1>4, QuietBreaks
<1>5. CASE \/ ApiStop \/ ApiFinalize \/ ApiReset \/ ApiMark
           \/ \E t \in Tasks : ApiCancel(t) \/ ApiRestart(t) \/ ApiDelete(t)
  BY <1>5, QuietLoads, QuietWrites
<1>6. CASE ApiNotifyCancel \/ ApiNotifyRequeue \/ ApiNotifyRestart
  BY <1>6, QuietNotify
<1>7. CASE UNCHANGED vars
  BY <1>7, IdleStep DEF vars, shared, manager, history, workers
<1>8. CASE Restarts
  BY <1>8, QuietRestart DEF Restarts
<1> QED
  BY <1>1, <1>2, <1>3, <1>4, <1>5, <1>6, <1>7, <1>8 DEF Next, ApiStep

-----------------------------------------------------------------------------
(* Who has read a row that he is about to write.                           *)

\* Whoever is about to write has been so before, or has read a task of S.
ProcsKnow(S)  == \A p \in procs' : p.pc = "error" => p \in procs \/ p.task \in S
LoopsKnow(S)  == \A l \in Loops : loop'[l].pc = "fail" =>
                   (loop[l].pc = "fail" /\ loop'[l].task = loop[l].task) \/ loop'[l].task \in S
ServesKnow(S) == \A c \in Conns : serve'[c].pc = "write" =>
                   (serve[c].pc = "write" /\ serve'[c].task = serve[c].task) \/ serve'[c].task \in S
ApiPlaces     == {"stop", "end", "drop", "finalize"}
ApiKnows(S)   == api'.pc \in ApiPlaces =>
                   (api.pc \in ApiPlaces /\ api'.task = api.task) \/ api'.task \in S
Know(S) == ProcsKnow(S) /\ LoopsKnow(S) /\ ServesKnow(S) /\ ApiKnows(S)

SeenMoves ==
  \/ Know({})
  \/ UNCHANGED row /\ \E t \in Tasks : row[t].status \in Active /\ Know({t})

LEMMA KnownWriting == ASSUME NEW S, Know(S) PROVE Writing' \subseteq Writing \cup S
BY DEF Know, ProcsKnow, LoopsKnow, ServesKnow, ApiKnows, ApiPlaces, Writing

LEMMA Rest ==
  ASSUME NEW S
  PROVE  /\ procs' = procs => ProcsKnow(S)
         /\ loop' = loop => LoopsKnow(S)
         /\ serve' = serve => ServesKnow(S)
         /\ api' = api => ApiKnows(S)
BY DEF ProcsKnow, LoopsKnow, ServesKnow, ApiKnows

LEMMA LoopKnows ==
  ASSUME PlaneInv, NEW S, NEW l, NEW h, loop' = [loop EXCEPT ![l] = h], h.pc # "fail" \/ h.task \in S
  PROVE  LoopsKnow(S)
<1>1. \A k \in Loops : loop'[k] = h \/ loop'[k] = loop[k]
  BY DEF PlaneInv, ManagerOK, LoopOK
<1> QED
  BY <1>1 DEF LoopsKnow

LEMMA ServeKnows ==
  ASSUME PlaneInv, NEW S, NEW c, NEW h, serve' = [serve EXCEPT ![c] = h], h.pc # "write" \/ h.task \in S
  PROVE  ServesKnow(S)
<1>1. \A d \in Conns : serve'[d] = h \/ serve'[d] = serve[d]
  BY DEF PlaneInv, ManagerOK, ServeOK
<1> QED
  BY <1>1 DEF ServesKnow

LEMMA SeenDispatch ==
  ASSUME PlaneInv, DispatchPick \/ DispatchStep \/ Persist \/ \E t \in Tasks : CooldownEnds(t)
  PROVE  UNCHANGED <<loop, serve>>
BY DEF DispatchPick, DispatchStep, DispatchAssign, DispatchClaim, DispatchSend, DispatchUndo,
       Persist, CooldownEnds

LEMMA SeenLoop ==
  ASSUME PlaneInv, NEW l \in Loops,
         LoopRequeue(l) \/ LoopAppend(l) \/ LoopSoft(l) \/ LoopFail(l) \/ LoopCool(l)
  PROVE  /\ serve' = serve
         /\ LoopsKnow({}) \/ (row' = row /\ \E t \in Tasks : row[t].status \in Active /\ LoopsKnow({t}))
<1>1. serve' = serve
  BY DEF LoopRequeue, LoopAppend, LoopSoft, LoopFail, LoopCool
<1>2. loop[l] \in Loop /\ loop[l].fail \subseteq Tasks /\ row \in [Tasks -> Row]
  BY DEF PlaneInv, ManagerOK, LoopOK, Loop, RowsOK
<1>3. CASE LoopAppend(l)
  <2> DEFINE h == [loop[l] EXCEPT !.pc = "work", !.task = None]
  <2>1. loop' = [loop EXCEPT ![l] = h] /\ h.pc = "work"
    BY <1>2, <1>3 DEF LoopAppend, Loop, PlaneInv, ManagerOK, LoopOK
  <2> HIDE DEF h
  <2> QED
    BY <1>1, <2>1, LoopKnows
<1>4. CASE LoopFail(l)
  <2> DEFINE h == [loop[l] EXCEPT !.pc = "work", !.task = None]
  <2>1. loop' = [loop EXCEPT ![l] = h] /\ h.pc = "work"
    BY <1>2, <1>4 DEF LoopFail, Loop, PlaneInv, ManagerOK, LoopOK
  <2> HIDE DEF h
  <2> QED
    BY <1>1, <2>1, LoopKnows
<1>5. CASE LoopCool(l)
  <2> DEFINE h == [loop[l] EXCEPT !.pc = "work", !.task = None, !.ok = FALSE]
  <2>1. loop' = [loop EXCEPT ![l] = h] /\ h.pc = "work"
    BY <1>2, <1>5 DEF LoopCool, Loop, PlaneInv, ManagerOK, LoopOK
  <2> HIDE DEF h
  <2> QED
    BY <1>1, <2>1, LoopKnows
<1>6. CASE LoopRequeue(l)
  <2>1. PICK t \in loop[l].requeue :
          \E left \in {[loop[l] EXCEPT !.requeue = loop[l].requeue \ {t}]} :
            \/ loop' = [loop EXCEPT ![l] = left]
            \/ loop' = [loop EXCEPT ![l] = [left EXCEPT !.fail = left.fail \cup {t}]]
            \/ loop' = [loop EXCEPT ![l] = [left EXCEPT !.pc = "append", !.task = t]]
    BY <1>6 DEF LoopRequeue
  <2> DEFINE left == [loop[l] EXCEPT !.requeue = loop[l].requeue \ {t}]
  <2>2. /\ left.pc = "work" /\ [left EXCEPT !.fail = left.fail \cup {t}].pc = "work"
        /\ [left EXCEPT !.pc = "append", !.task = t].pc = "append"
    BY <1>2, <1>6 DEF LoopRequeue, Loop
  <2>3. \/ loop' = [loop EXCEPT ![l] = left]
        \/ loop' = [loop EXCEPT ![l] = [left EXCEPT !.fail = left.fail \cup {t}]]
        \/ loop' = [loop EXCEPT ![l] = [left EXCEPT !.pc = "append", !.task = t]]
    BY <2>1
  <2> HIDE DEF left
  <2> QED
    BY <1>1, <2>2, <2>3, LoopKnows
<1>7. CASE LoopSoft(l)
  <2>1. PICK t \in loop[l].fail :
          \E left \in {[loop[l] EXCEPT !.fail = loop[l].fail \ {t}]} :
            \/ loop' = [loop EXCEPT ![l] = left]
            \/ /\ row' = row /\ ~ Ended(t)
               /\ loop' = [loop EXCEPT ![l] = [left EXCEPT !.pc = "fail", !.task = t]]
            \/ \E b \in BOOLEAN : loop' = [loop EXCEPT ![l] = [left EXCEPT !.pc = "cool", !.task = t, !.ok = b]]
    BY <1>7 DEF LoopSoft
  <2> DEFINE left == [loop[l] EXCEPT !.fail = loop[l].fail \ {t}]
  <2>2. /\ left.pc = "work" /\ [left EXCEPT !.pc = "fail", !.task = t].task = t
        /\ \A b \in BOOLEAN : [left EXCEPT !.pc = "cool", !.task = t, !.ok = b].pc = "cool"
    BY <1>2, <1>7 DEF LoopSoft, Loop
  <2>3. t \in Tasks /\ (~ Ended(t) => row[t].status \in Active)
    BY <1>2 DEF Ended, Row
  <2>7. \/ loop' = [loop EXCEPT ![l] = left]
        \/ /\ row' = row /\ ~ Ended(t)
           /\ loop' = [loop EXCEPT ![l] = [left EXCEPT !.pc = "fail", !.task = t]]
        \/ \E b \in BOOLEAN : loop' = [loop EXCEPT ![l] = [left EXCEPT !.pc = "cool", !.task = t, !.ok = b]]
    BY <2>1
  <2> HIDE DEF left
  <2>4. CASE loop' = [loop EXCEPT ![l] = left]
    BY <1>1, <2>2, <2>4, LoopKnows
  <2>5. CASE /\ row' = row /\ ~ Ended(t)
             /\ loop' = [loop EXCEPT ![l] = [left EXCEPT !.pc = "fail", !.task = t]]
    <3>1. LoopsKnow({t})
      BY <2>2, <2>5, LoopKnows
    <3> QED
      BY <1>1, <2>3, <2>5, <3>1
  <2>6. CASE \E b \in BOOLEAN : loop' = [loop EXCEPT ![l] = [left EXCEPT !.pc = "cool", !.task = t, !.ok = b]]
    BY <1>1, <2>2, <2>6, LoopKnows
  <2> QED
    BY <2>4, <2>5, <2>6, <2>7
<1> QED
  BY <1>3, <1>4, <1>5, <1>6, <1>7

LEMMA SeenScans ==
  ASSUME PlaneInv,
         ReconcileScan \/ MemoryLoopEnds \/ DbQuery \/ DbClassify \/ DbHeal \/ DbRepair \/ DbEnqueue
  PROVE  serve' = serve /\ LoopsKnow({})
<1>1. serve' = serve
  BY DEF ReconcileScan, MemoryLoopEnds, DbQuery, DbClassify, DbHeal, DbRepair, DbEnqueue
<1>2. \E l, h : loop' = [loop EXCEPT ![l] = h] /\ h.pc # "fail"
  <2>1. IdleLoop.pc = "idle"
    BY DEF IdleLoop
  <2>3. CASE ReconcileScan
    <3>1. \/ loop' = [loop EXCEPT !["memory"] = IdleLoop]
          \/ \E q, f : loop' = [loop EXCEPT !["memory"] = [IdleLoop EXCEPT !.pc = "work", !.requeue = q, !.fail = f]]
      BY <2>3 DEF ReconcileScan
    <3>2. CASE loop' = [loop EXCEPT !["memory"] = IdleLoop]
      BY <2>1, <3>2
    <3>3. ASSUME NEW q, NEW f, loop' = [loop EXCEPT !["memory"] = [IdleLoop EXCEPT !.pc = "work", !.requeue = q, !.fail = f]]
          PROVE  \E k, h : loop' = [loop EXCEPT ![k] = h] /\ h.pc # "fail"
      <4> DEFINE h == [IdleLoop EXCEPT !.pc = "work", !.requeue = q, !.fail = f]
      <4>1. h.pc = "work" /\ loop' = [loop EXCEPT !["memory"] = h]
        BY <3>3 DEF IdleLoop
      <4> HIDE DEF h
      <4> QED
        BY <4>1
    <3> QED
      BY <3>1, <3>2, <3>3
  <2>4. CASE MemoryLoopEnds \/ DbEnqueue
    BY <2>1, <2>4 DEF MemoryLoopEnds, DbEnqueue
  <2>5. CASE DbQuery
    <3>1. PICK q, f, g : \E pc \in {"work", "classify"} : loop' = [loop EXCEPT !["db"] =
            [IdleLoop EXCEPT !.pc = pc, !.fail = f, !.requeue = q, !.heal = g]]
      BY <2>5 DEF DbQuery
    <3>2. PICK pc \in {"work", "classify"} : loop' = [loop EXCEPT !["db"] =
            [IdleLoop EXCEPT !.pc = pc, !.fail = f, !.requeue = q, !.heal = g]]
      BY <3>1
    <3> DEFINE h == [IdleLoop EXCEPT !.pc = pc, !.fail = f, !.requeue = q, !.heal = g]
    <3>3. h.pc = pc /\ loop' = [loop EXCEPT !["db"] = h]
      BY <3>2 DEF IdleLoop
    <3> HIDE DEF h
    <3> QED
      BY <3>3
  <2>6. CASE DbClassify
    <3>1. \/ loop' = [loop EXCEPT !["db"] = IdleLoop]
          \/ \E q, g : loop' = [loop EXCEPT !["db"] = [IdleLoop EXCEPT !.pc = "work", !.requeue = q, !.heal = g]]
      BY <2>6 DEF DbClassify
    <3>2. CASE loop' = [loop EXCEPT !["db"] = IdleLoop]
      BY <2>1, <3>2
    <3>3. ASSUME NEW q, NEW g, loop' = [loop EXCEPT !["db"] = [IdleLoop EXCEPT !.pc = "work", !.requeue = q, !.heal = g]]
          PROVE  \E k, h : loop' = [loop EXCEPT ![k] = h] /\ h.pc # "fail"
      <4> DEFINE h == [IdleLoop EXCEPT !.pc = "work", !.requeue = q, !.heal = g]
      <4>1. h.pc = "work" /\ loop' = [loop EXCEPT !["db"] = h]
        BY <3>3 DEF IdleLoop
      <4> HIDE DEF h
      <4> QED
        BY <4>1
    <3> QED
      BY <3>1, <3>2, <3>3
  <2>7. CASE DbHeal
    <3>1. PICK t : loop' = [loop EXCEPT !["db"].heal = @ \ {t}]
      BY <2>7 DEF DbHeal
    <3> DEFINE h == [loop["db"] EXCEPT !.heal = loop["db"].heal \ {t}]
    <3>2. loop' = [loop EXCEPT !["db"] = h] /\ h.pc = "work"
      BY <2>7, <3>1 DEF DbHeal, Loop, Loops, PlaneInv, ManagerOK, LoopOK
    <3> HIDE DEF h
    <3> QED
      BY <3>2
  <2>8. CASE DbRepair
    <3>1. \/ loop' = [loop EXCEPT !["db"] = IdleLoop]
          \/ \E q : loop' = [loop EXCEPT !["db"] = [IdleLoop EXCEPT !.pc = "enqueue", !.requeue = q]]
      BY <2>8 DEF DbRepair
    <3>2. CASE loop' = [loop EXCEPT !["db"] = IdleLoop]
      BY <2>1, <3>2
    <3>3. ASSUME NEW q, loop' = [loop EXCEPT !["db"] = [IdleLoop EXCEPT !.pc = "enqueue", !.requeue = q]]
          PROVE  \E k, h : loop' = [loop EXCEPT ![k] = h] /\ h.pc # "fail"
      <4> DEFINE h == [IdleLoop EXCEPT !.pc = "enqueue", !.requeue = q]
      <4>1. h.pc = "enqueue" /\ loop' = [loop EXCEPT !["db"] = h]
        BY <3>3 DEF IdleLoop
      <4> HIDE DEF h
      <4> QED
        BY <4>1
    <3> QED
      BY <3>1, <3>2, <3>3
  <2> QED
    BY <2>3, <2>4, <2>5, <2>6, <2>7, <2>8
<1> QED
  BY <1>1, <1>2, LoopKnows

LEMMA SeenServe ==
  ASSUME PlaneInv, NEW c \in Conns, ServeStep(c)
  PROVE  /\ loop' = loop
         /\ ServesKnow({}) \/ (row' = row /\ \E t \in Tasks : row[t].status \in Active /\ ServesKnow({t}))
<1>1. loop' = loop
  BY DEF ServeStep, ServeHello, ServeState, ServeRequeue, ServeRequeued, ServeFinalize, ServeWrite,
         ServeFinalized, ServeEnd
<1>2. /\ serve[c] \in Serve /\ row \in [Tasks -> Row]
      /\ serve[c].pc \notin {"new", "read", "ended"} => serve[c].task \in Tasks
  BY DEF PlaneInv, ManagerOK, ServeOK, RowsOK
<1>3. Reading.pc = "read"
  BY DEF Reading
<1>4. CASE ServeHello(c) \/ ServeRequeued(c) \/ ServeFinalized(c)
  BY <1>1, <1>3, <1>4, ServeKnows DEF ServeHello, ServeRequeued, ServeFinalized
<1>5. CASE ServeState(c)
  <2> DEFINE m == Head(chan[c].up)
             pc == IF m.state = "refused" THEN "requeue" ELSE "finalize"
             h == [pc |-> pc, task |-> m.task, state |-> m.state]
  <2>1. serve' = [serve EXCEPT ![c] = serve[c]] \/ serve' = [serve EXCEPT ![c] = h]
    BY <1>5 DEF ServeState
  <2>2. h.pc # "write" /\ serve[c].pc = "read"
    BY <1>5 DEF ServeState, Received
  <2> HIDE DEF h
  <2> QED
    BY <1>1, <2>1, <2>2, ServeKnows
<1>6. ASSUME NEW pc \in {"requeued", "finalize", "finalized", "ended"},
             serve' = [serve EXCEPT ![c].pc = pc]
      PROVE  ServesKnow({})
  <2> DEFINE h == [serve[c] EXCEPT !.pc = pc]
  <2>1. serve' = [serve EXCEPT ![c] = h] /\ h.pc = pc
    BY <1>2, <1>6 DEF Serve
  <2> HIDE DEF h
  <2> QED
    BY <2>1, ServeKnows
<1>7. CASE ServeRequeue(c) \/ ServeWrite(c) \/ ServeEnd(c)
  BY <1>1, <1>6, <1>7 DEF ServeRequeue, ServeWrite, ServeEnd
<1>8. CASE ServeFinalize(c)
  <2> DEFINE t == serve[c].task
             h == [serve[c] EXCEPT !.pc = "write"]
  <2>1. t \in Tasks /\ row' = row
    BY <1>2, <1>8 DEF ServeFinalize, shared
  <2>2. CASE Ended(t)
    BY <1>1, <1>6, <1>8, <2>2 DEF ServeFinalize
  <2>3. CASE ~ Ended(t)
    <3>1. row[t].status \in Active
      BY <1>2, <2>1, <2>3 DEF Ended, Row
    <3>2. serve' = [serve EXCEPT ![c] = h] /\ h.task \in {t}
      BY <1>2, <1>8, <2>3 DEF ServeFinalize, Serve
    <3> HIDE DEF h
    <3>3. ServesKnow({t})
      BY <3>2, ServeKnows
    <3> QED
      BY <1>1, <2>1, <3>1, <3>3
  <2> QED
    BY <2>2, <2>3
<1> QED
  BY <1>4, <1>5, <1>7, <1>8 DEF ServeStep

LEMMA SeenManager ==
  ASSUME PlaneInv, ManagerNext, UNCHANGED <<workers, api>> PROVE SeenMoves
<1>1. \A S : ProcsKnow(S) /\ ApiKnows(S)
  BY Rest DEF workers
<1>2. \A S : (loop' = loop => LoopsKnow(S)) /\ (serve' = serve => ServesKnow(S))
  BY Rest
<1>3. \/ LoopsKnow({}) /\ ServesKnow({})
      \/ row' = row /\ \E t \in Tasks : row[t].status \in Active /\ LoopsKnow({t}) /\ ServesKnow({t})
  <2>1. CASE DispatchPick \/ DispatchStep \/ Persist \/ \E t \in Tasks : CooldownEnds(t)
    BY <1>2, <2>1, SeenDispatch
  <2>2. CASE MemoryStep \/ DbStep \/ ReconcileScan
    <3>1. "memory" \in Loops /\ "db" \in Loops
      BY DEF Loops
    <3> QED
      BY <1>2, <2>2, <3>1, SeenLoop, SeenScans DEF MemoryStep, DbStep
  <2>3. CASE \E c \in Conns : ServeStep(c)
    BY <1>2, <2>3, SeenServe
  <2> QED
    BY <2>1, <2>2, <2>3 DEF ManagerNext
<1> QED
  BY <1>1, <1>3 DEF SeenMoves, Know

LEMMA SeenRunner ==
  ASSUME PlaneInv, NEW w \in Workers, WorkerNext(w), UNCHANGED <<manager, api>> PROVE SeenMoves
<1>1. \A S : LoopsKnow(S) /\ ServesKnow(S) /\ ApiKnows(S)
  BY Rest DEF manager
<1>2. CASE Connect(w) \/ Disconnect(w) \/ ControlStep(w) \/ Reap(w) \/ WorkerCrash(w)
  <2>1. CASE Spawn(w)
    <3> DEFINE p == [worker |-> w, task |-> wc[w].task, epoch |-> wc[w].epoch, pc |-> "start"]
    <3>1. procs' \subseteq procs \cup {p} /\ p.pc = "start"
      BY <2>1 DEF Spawn
    <3> HIDE DEF p
    <3> QED
      BY <1>1, <3>1 DEF SeenMoves, Know, ProcsKnow
  <2>2. CASE Connect(w) \/ Disconnect(w) \/ OnRun(w) \/ OnCancel(w) \/ Kill(w) \/ Reap(w) \/ WorkerCrash(w)
    <3>1. procs' \subseteq procs
      BY <2>2 DEF Connect, Disconnect, OnRun, OnCancel, Kill, Reap, WorkerCrash
    <3> QED
      BY <1>1, <3>1 DEF SeenMoves, Know, ProcsKnow
  <2> QED
    BY <1>2, <2>1, <2>2 DEF ControlStep
<1>3. ASSUME NEW p \in procs, ProcStep(p) \/ ProcEnds(p) \/ ProcDies(p) PROVE SeenMoves
  <2>1. p \in Process /\ p.task \in Tasks
    BY DEF PlaneInv, ProcessOK, Process
  <2>2. ASSUME NEW pc \in {"run", "persist", "raised", "error", "exit", "dead"}, Becomes(p, pc)
        PROVE  /\ ProcsKnow({p.task})
               /\ pc # "error" => ProcsKnow({})
    <3> DEFINE n == [p EXCEPT !.pc = pc]
    <3>1. procs' = (procs \ {p}) \cup {n} /\ n.pc = pc /\ n.task = p.task
      BY <2>1, <2>2 DEF Becomes, Process
    <3> HIDE DEF n
    <3> QED
      BY <3>1 DEF ProcsKnow
  <2>3. CASE ProcError(p) /\ row[p.task].status = "running"
    <3>1. row' = row /\ row[p.task].status \in Active /\ Becomes(p, "error")
      BY <2>3 DEF ProcError, shared, Active
    <3>2. ProcsKnow({p.task})
      BY <2>2, <3>1
    <3> QED
      BY <1>1, <2>1, <3>1, <3>2 DEF SeenMoves, Know
  <2>4. CASE ~ (ProcError(p) /\ row[p.task].status = "running")
    <3>1. \E pc \in {"run", "persist", "raised", "exit", "dead"} : Becomes(p, pc)
      BY <1>3, <2>4 DEF ProcStep, ProcStart, ProcPersist, ProcError, ProcWrite, ProcEnds, ProcDies
    <3>2. ProcsKnow({})
      BY <2>2, <3>1
    <3> QED
      BY <1>1, <3>2 DEF SeenMoves, Know
  <2> QED
    BY <2>3, <2>4
<1> QED
  BY <1>2, <1>3 DEF WorkerNext

LEMMA SeenApi ==
  ASSUME PlaneInv, ApiStep \/ \E t \in Tasks : ApiCancel(t) \/ ApiRestart(t) \/ ApiDelete(t)
  PROVE  SeenMoves
<1>1. UNCHANGED <<procs, loop, serve>>
  BY DEF ApiStep, ApiStop, ApiFinalize, ApiReset, ApiMark, ApiNotifyCancel, ApiNotifyRequeue,
         ApiNotifyRestart, ApiCancel, ApiRestart, ApiDelete, CancelQueued, CancelRunning, Restart,
         manager, workers
<1>2. \A S : ProcsKnow(S) /\ LoopsKnow(S) /\ ServesKnow(S)
  BY <1>1, Rest
<1>3. row \in [Tasks -> Row] /\ (api.pc # "idle" => api.task \in Tasks)
  BY DEF PlaneInv, ManagerOK, RowsOK, ApiOK
<1>4. \A t \in Tasks : ~ Ended(t) => row[t].status \in Active
  BY <1>3 DEF Ended, Row
<1>5. \A pc, t : Loads(pc, t) => api'.pc = pc /\ api'.task = t
  BY DEF Loads
<1>6. \A pc : Goes(pc) => api'.pc = pc /\ api'.task = api.task
  BY DEF Goes, PlaneInv, ApiOK
<1>7. Answers => api'.pc = "idle"
  BY DEF Answers, NoCall
<1>8. ASSUME NEW t \in Tasks, ApiCancel(t) \/ ApiRestart(t) \/ ApiDelete(t)
      PROVE  ApiKnows({}) \/ (row' = row /\ row[t].status \in Active /\ ApiKnows({t}))
  <2>1. CASE ApiCancel(t)
    BY <1>5, <2>1 DEF ApiCancel, ApiKnows
  <2>2. CASE ApiRestart(t)
    <3>1. CASE Ended(t)
      BY <1>5, <2>2, <3>1 DEF ApiRestart, ApiKnows, ApiPlaces
    <3>2. CASE ~ Ended(t)
      BY <1>4, <1>5, <2>2, <3>2 DEF ApiRestart, ApiKnows
    <3> QED
      BY <3>1, <3>2
  <2>3. CASE ApiDelete(t)
    BY <1>4, <1>5, <2>3, Rest DEF ApiDelete, ApiKnows
  <2> QED
    BY <1>8, <2>1, <2>2, <2>3
<1>9. ASSUME ApiStep
      PROVE  \/ ApiKnows({})
             \/ /\ api.task \in Tasks /\ row' = row /\ row[api.task].status \in Active
                /\ ApiKnows({api.task})
  <2>1. CASE ApiNotifyCancel
    <3>1. CASE Answers \/ Ended(api.task)
      BY <1>7, <2>1, <3>1 DEF ApiNotifyCancel, ApiKnows, ApiPlaces
    <3>2. CASE ~ Ended(api.task) /\ Goes("finalize")
      <4>1. api.task \in Tasks /\ row' = row
        BY <1>3, <2>1 DEF ApiNotifyCancel, CancelQueued, CancelRunning, shared
      <4> QED
        BY <1>4, <1>6, <3>2, <4>1 DEF ApiKnows
    <3> QED
      BY <2>1, <3>1, <3>2 DEF ApiNotifyCancel
  <2>2. CASE ApiStop \/ ApiFinalize \/ ApiReset \/ ApiNotifyRequeue \/ ApiNotifyRestart \/ ApiMark
    BY <1>5, <1>6, <1>7, <2>2 DEF ApiStop, ApiFinalize, ApiReset, ApiNotifyRequeue, ApiNotifyRestart,
                                  ApiMark, ApiKnows, ApiPlaces
  <2> QED
    BY <1>9, <2>1, <2>2 DEF ApiStep
<1> QED
  BY <1>2, <1>8, <1>9 DEF SeenMoves, Know

LEMMA SeenOr == ASSUME PlaneInv, [Next]_vars PROVE SeenMoves
<1>1. CASE ByManager(ManagerNext)
  BY <1>1, SeenManager DEF ByManager
<1>2. CASE \E w \in Workers : ByWorker(WorkerNext(w))
  BY <1>2, SeenRunner DEF ByWorker
<1>3. CASE ApiStep \/ \E t \in Tasks : ApiCancel(t) \/ ApiRestart(t) \/ ApiDelete(t)
  BY <1>3, SeenApi
<1>4. CASE Restarts
  <2>1. /\ \A l \in Loops : loop'[l].pc = "idle"
        /\ \A c \in Conns : serve'[c].pc # "write"
        /\ procs' = procs
        /\ api' = api \/ api'.pc = "idle"
    BY <1>4 DEF Restarts, ManagerRestart, IdleLoop, Fresh, Reading, workers, NoCall
  <2> QED
    BY <2>1, Rest DEF SeenMoves, Know, LoopsKnow, ServesKnow, ApiKnows, ApiPlaces
<1>5. CASE \/ \E w \in Workers : Heartbeat(w) \/ GetsLate(w)
           \/ \E t \in Tasks : RunAges(t) \/ RowAges(t) \/ ApiSubmit(t)
           \/ \E c \in Conns : Breaks(c)
           \/ UNCHANGED vars
  <2>1. UNCHANGED <<procs, loop, serve, api>>
    BY <1>5 DEF Heartbeat, OnHeartbeat, GetsLate, RunAges, RecordAges, RowAges, ApiSubmit, Submit, Breaks,
                vars, manager, workers
  <2> QED
    BY <2>1, Rest DEF SeenMoves, Know
<1> QED
  BY <1>1, <1>2, <1>3, <1>4, <1>5 DEF Next

-----------------------------------------------------------------------------
(* The steps that give a claim, send it, take it and begin it.             *)

Status == [t \in Tasks |-> row[t].status]

LEMMA SameWriting ==
  ASSUME UNCHANGED <<loop, serve, api>>, \A p : p.pc = "error" => (p \in procs' <=> p \in procs)
  PROVE  Writing' = Writing
BY DEF Writing

\* The instance has a copy of Cardinality of its own.
LEMMA SameCardinality == \A S : Abstract!Cardinality(S) = Cardinality(S)
BY DEF Cardinality, Abstract!Cardinality

LEMMA DispatchRefines ==
  ASSUME NEW t \in Tasks, NEW w \in Workers,
         row[t].status = "pending",
         \A x \in Tasks : row'[x].status = IF x = t THEN "running" ELSE row[x].status,
         given' = given \cup {<<t, Cardinality({d \in given : d[1] = t}) + 1, w>>},
         begun' = begun, Writing' = Writing
  PROVE  Abstract!Next
<1> DEFINE st == [x \in Tasks |-> row[x].status]
<1>1. st[t] = "pending" /\ st' = [st EXCEPT ![t] = "running"]
  OBVIOUS
<1>2. Abstract!Dispatch(t, w)
  BY <1>1, SameCardinality DEF Abstract!Dispatch
<1> HIDE DEF st
<1>3. \E x \in Tasks : \E v \in Workers : Abstract!Dispatch(x, v)
  BY <1>2
<1> QED
  BY <1>3 DEF Abstract!Next

\* A claim is given: it has a number of its own.
LEMMA ClaimGiven ==
  ASSUME PlaneInv, PlaneInv', ClaimInv, ByManager(DispatchClaim)
  PROVE  Quiet \/ (ClaimInv' /\ Abstract!Next)
<1> DEFINE t == dispatch.task
           w == dispatch.worker
           e == row[t].epoch + 1
           d == <<t, e, w>>
<1>1. /\ t \in Tasks /\ w \in Workers /\ dispatch \in DispatchType /\ dispatch.pc = "claim"
      /\ UNCHANGED <<chan, slot, wc, begun>>
  BY DEF ByManager, DispatchClaim, PlaneInv, ManagerOK, DispatchOK, workers
<1>2. /\ row \in [Tasks -> Row] /\ \A x \in Tasks : row[x].epoch \in Nat
      /\ \A x \in Tasks : row[x].epoch \in 0 .. MaxClaims
  BY NetAssumption DEF PlaneInv, ManagerOK, RowsOK, Row
<1>3. NetMoves /\ SlotsMove /\ RunnersMove
  BY <1>1, NetStays, SlotsStay, RunnersStay
<1>4. CASE dispatch' = [dispatch EXCEPT !.pc = "undo"] /\ UNCHANGED <<row, given>>
  <2>1. DispatchMoves
    BY <1>1, <1>4 DEF DispatchMoves, DispatchConn, DispatchType, ClaimInv, ConnOK
  <2> QED
    BY <1>1, <1>3, <1>4, <2>1, RowsStay DEF Quiet
<1>5. CASE /\ Claimable(row[t]) /\ row' = [row EXCEPT ![t] = Claimed(@, w)]
           /\ dispatch' = [dispatch EXCEPT !.pc = "send", !.epoch = e]
           /\ given' = given \cup {d}
  <2>1. /\ Claimed(row[t], w).status = "running" /\ Claimed(row[t], w).epoch = e
        /\ row[t].status = "pending"
    BY <1>1, <1>2, <1>5 DEF Claimed, Claimable, Row
  <2>2. \A x \in Tasks : row'[x] = IF x = t THEN Claimed(row[t], w) ELSE row[x]
    BY <1>1, <1>2, <1>5
  <2>3. d \notin given /\ d[1] = t /\ d[2] = e
    BY <1>1, <1>2 DEF ClaimInv, CountOK
  <2>4. \A x \in given : x[1] \in Tasks /\ x[2] \in Nat
    BY GivenTypes, NetAssumption
  <2>5. CountOK'
    <3>1. IsFiniteSet(given') /\ begun' \subseteq given'
      BY <1>1, <1>5, FS_AddElement DEF ClaimInv, CountOK
    <3>2. ASSUME NEW x \in Tasks PROVE Cardinality({y \in given' : y[1] = x}) = row'[x].epoch
      <4> DEFINE S == {y \in given : y[1] = x}
      <4>1. IsFiniteSet(S) /\ Cardinality(S) = row[x].epoch
        BY FS_Subset DEF ClaimInv, CountOK
      <4>2. CASE x = t
        <5>1. {y \in given' : y[1] = x} = S \cup {d} /\ d \notin S
          BY <1>5, <2>3, <4>2
        <5> HIDE DEF S
        <5>2. Cardinality(S \cup {d}) = row[x].epoch + 1
          BY <4>1, <5>1, FS_AddElement
        <5> QED
          BY <2>1, <2>2, <4>2, <5>1, <5>2
      <4>3. CASE x # t
        <5>1. {y \in given' : y[1] = x} = S
          BY <1>5, <2>3, <4>3
        <5> QED
          BY <2>2, <4>1, <4>3, <5>1
      <4> QED
        BY <4>2, <4>3
    <3>3. ASSUME NEW y \in given' PROVE y[2] <= row'[y[1]].epoch
      <4>1. CASE y = d
        BY <1>1, <1>2, <2>1, <2>2, <2>3, <4>1
      <4>2. CASE y \in given
        <5>1. y[1] \in Tasks /\ y[2] \in Nat /\ y[2] <= row[y[1]].epoch
          BY <2>4, <4>2 DEF ClaimInv, CountOK
        <5> QED
          BY <1>1, <1>2, <2>1, <2>2, <5>1
      <4> QED
        BY <1>5, <4>1, <4>2
    <3> QED
      BY <3>1, <3>2, <3>3 DEF CountOK
  <2>6. /\ dispatch'.pc = "send" /\ dispatch'.task = t /\ dispatch'.worker = w
        /\ dispatch'.epoch = e /\ dispatch'.conn = dispatch.conn
    BY <1>1, <1>5 DEF DispatchType
  <2>7. ConnOK'
    <3>1. DispatchConn
      BY <1>1, <2>6 DEF DispatchConn, ClaimInv, ConnOK
    <3> QED
      BY <1>1, <1>3, <3>1, QuietConn DEF ClaimInv
  <2>8. CommandsOK' /\ SpawnOK'
    BY <1>1, <1>3, <1>5, QuietCommands, QuietSpawn DEF ClaimInv
  <2>9. SendOK'
    <3>1. Sending' = d
      BY <2>6 DEF Sending
    <3>2. d \in given' \ begun'
      BY <1>1, <1>5, <2>3 DEF ClaimInv, CountOK
    <3>3. \A c \in Conns : \A i \in Sent(c)' : ClaimAt(c, i)' # d
      <4>1. \A c \in Conns : Sent(c)' = Sent(c) /\ \A i : ClaimAt(c, i)' = ClaimAt(c, i)
        BY <1>1 DEF Sent, ClaimAt
      <4> QED
        BY <2>3, <4>1 DEF ClaimInv, CommandsOK
    <3>4. \A v \in Workers : wc'[v].pc = "spawn" => Spawning(v)' # d
      <4>1. \A v \in Workers : Spawning(v)' = Spawning(v)
        BY <1>1 DEF Spawning
      <4> QED
        BY <1>1, <2>3, <4>1 DEF ClaimInv, SpawnOK
    <3> QED
      BY <3>1, <3>2, <3>3, <3>4 DEF SendOK
  <2>11. Abstract!Next
    <3>1. \A x \in Tasks : row'[x].status = IF x = t THEN "running" ELSE row[x].status
      BY <2>1, <2>2
    <3>3. Writing' = Writing
      BY SameWriting DEF ByManager, DispatchClaim, workers
    <3>2. given' = given \cup {<<t, Cardinality({x \in given : x[1] = t}) + 1, w>>}
      BY <1>1, <1>5 DEF ClaimInv, CountOK
    <3> HIDE DEF t, w
    <3> QED
      BY <1>1, <2>1, <3>1, <3>2, <3>3, DispatchRefines
  <2> QED
    BY <2>5, <2>7, <2>8, <2>9, <2>11 DEF ClaimInv
<1> QED
  BY <1>4, <1>5 DEF ByManager, DispatchClaim

\* The command is sent: what the thread had in hand is now under way.
LEMMA ClaimSent ==
  ASSUME PlaneInv, PlaneInv', ClaimInv, ByManager(DispatchSend)
  PROVE  Quiet \/ (ClaimInv' /\ UNCHANGED Abstract!vars)
<1> DEFINE t == dispatch.task
           c == dispatch.conn
           m == RunCmd(t, dispatch.epoch)
<1>1. /\ dispatch \in DispatchType /\ dispatch.pc = "send" /\ t \in Tasks
      /\ UNCHANGED <<slot, wc, given, begun>>
  BY DEF ByManager, DispatchSend, PlaneInv, ManagerOK, DispatchOK, history, workers
<1>4. Writing' = Writing
  BY SameWriting DEF ByManager, DispatchSend, workers
<1>2. CASE dispatch' = [dispatch EXCEPT !.pc = "undo"] /\ UNCHANGED chan
           /\ (RequeueRow(t) \/ RequeueFails)
  <2>1. DispatchMoves
    BY <1>1, <1>2 DEF DispatchMoves, DispatchConn, DispatchType, ClaimInv, ConnOK
  <2> QED
    BY <1>1, <1>2, <2>1, RequeueMoves, NetStays, SlotsStay, RunnersStay DEF Quiet
<1>3. CASE /\ c # 0 /\ PushDown(c, m)
           /\ dispatch' = NoDispatch /\ UNCHANGED row
  <2>1. c \in Conns /\ chan[c] \in Conn /\ chan[c].down \in Seq(DownMsg) /\ chan[c].worker = dispatch.worker
    BY <1>1, <1>3, ConnRange DEF ClaimInv, ConnOK
  <2>2. CASE ~ chan[c].open
    <3>1. chan' = [chan EXCEPT ![c].down = chan[c].down]
      BY <1>3, <2>2 DEF PushDown
    <3>2. chan' = chan
      BY <2>1, <3>1 DEF PlaneInv, ManagerOK, ChanOK, Conn
    <3> QED
      BY <1>1, <1>3, <3>2, RowsStay, NetStays, SlotsStay, RunnersStay, DispatchEnds DEF Quiet
  <2>3. CASE chan[c].open
    <3> DEFINE q == chan[c].down
               n == Len(q) + 1
    <3>1. /\ chan'[c].down = Append(q, m) /\ chan'[c].worker = chan[c].worker
          /\ \A x \in Conns \ {c} : chan'[x] = chan[x]
      BY <1>3, <2>1, <2>3 DEF PushDown, PlaneInv, ManagerOK, ChanOK, Conn
    <3>2. /\ DOMAIN Append(q, m) = 1 .. n /\ Append(q, m)[n] = m
          /\ \A i \in 1 .. Len(q) : Append(q, m)[i] = q[i]
          /\ DOMAIN q = 1 .. Len(q) /\ Len(q) \in Nat
      BY <2>1
    <3>3. m.task = t /\ m.epoch = dispatch.epoch
      BY DEF RunCmd
    <3>4. ASSUME NEW x \in Conns, NEW i \in Sent(x)'
          PROVE  \/ i \in Sent(x) /\ ClaimAt(x, i)' = ClaimAt(x, i)
                 \/ x = c /\ i = n /\ ClaimAt(x, i)' = Sending
      <4>1. CASE x # c
        BY <3>1, <3>4, <4>1 DEF Sent, ClaimAt
      <4>2. CASE x = c /\ i = n
        BY <2>1, <3>1, <3>2, <3>3, <4>2 DEF ClaimAt, Sending
      <4>3. CASE x = c /\ i # n
        <5>1. i \in 1 .. Len(q) /\ chan'[c].down[i] = q[i] /\ q[i].type = "run"
          BY <3>1, <3>2, <3>4, <4>3 DEF Sent
        <5> QED
          BY <3>1, <3>2, <4>3, <5>1 DEF Sent, ClaimAt
      <4> QED
        BY <4>1, <4>2, <4>3
    <3> HIDE DEF n
    <3>5. CommandsOK'
      BY <1>1, <3>4 DEF ClaimInv, CommandsOK, SendOK
    <3>6. SpawnOK'
      <4>1. \A w \in Workers : Spawning(w)' = Spawning(w)
        BY <1>1 DEF Spawning
      <4> QED
        BY <1>1, <3>4, <4>1 DEF ClaimInv, SpawnOK, SendOK
    <3>7. SendOK'
      BY <1>3 DEF SendOK, NoDispatch
    <3>8. CountOK'
      BY <1>1, <1>3, QuietCount DEF ClaimInv
    <3>9. ConnOK'
      <4>1. \A x \in Conns : chan'[x].worker = chan[x].worker
        BY <3>1
      <4>2. SlotsMove /\ DispatchConn /\ \A w \in Workers : wc'[w].sock \in {0, wc[w].sock}
        BY <1>1, <1>3, SlotsStay, DispatchEnds DEF DispatchMoves
      <4> QED
        BY <4>1, <4>2, QuietConn DEF ClaimInv
    <3> QED
      BY <1>1, <1>3, <1>4, <3>5, <3>6, <3>7, <3>8, <3>9 DEF ClaimInv, Abstract!vars
  <2> QED
    BY <2>2, <2>3
<1> QED
  BY <1>2, <1>3 DEF ByManager, DispatchSend

\* A connection is opened, on which nothing was sent.
LEMMA ConnOpened ==
  ASSUME PlaneInv, PlaneInv', ClaimInv, NEW w \in Workers, ByWorker(Connect(w))
  PROVE  ClaimInv' /\ UNCHANGED Abstract!vars
<1> DEFINE c == Cardinality(Opened) + 1
<1>1. /\ c \in Conns /\ wc[w].pc = "ready"
      /\ chan' = [chan EXCEPT ![c] = [worker |-> w, open |-> TRUE, up |-> <<Hello>>, down |-> <<>>]]
      /\ wc' = [wc EXCEPT ![w].sock = c]
      /\ UNCHANGED <<row, slot, dispatch, given, begun>>
  BY DEF ByWorker, Connect, manager, history
<1>2. Opened = 1 .. Cardinality(Opened) /\ c \in Nat /\ c # 0
  BY <1>1, NetAssumption DEF ClaimInv, ConnOK, Conns
<1>3. Cardinality(Opened) \in Nat /\ c \notin Opened
  <2>1. IsFiniteSet(Conns) /\ Opened \subseteq Conns
    BY FS_Interval, NetAssumption DEF Conns, Opened
  <2>2. Cardinality(Opened) \in Nat
    BY <2>1, FS_Subset, FS_CardinalityType
  <2> HIDE DEF c
  <2>3. \A k \in Nat : k + 1 \notin 1 .. k
    OBVIOUS
  <2> QED
    BY <1>2, <2>2, <2>3 DEF c
<1> HIDE DEF c
<1>4. /\ chan'[c].worker = w /\ chan'[c].down = <<>>
      /\ \A x \in Conns \ {c} : chan'[x] = chan[x]
  BY <1>1 DEF PlaneInv, ManagerOK, ChanOK
<1>5. /\ wc'[w].sock = c /\ wc'[w].pc = "ready"
      /\ \A v \in Workers \ {w} : wc'[v] = wc[v]
  BY <1>1 DEF PlaneInv, ControlOK, Control
<1>6. \A x \in Conns : chan[x].worker \in Workers => x # c
  BY <1>3, NetAssumption DEF Opened
<1>7. ConnOK'
  <2>1. Opened' = 1 .. c
    <3>1. Opened' = Opened \cup {c}
      BY <1>1, <1>4, NetAssumption DEF Opened
    <3>2. \A k \in Nat : (1 .. k) \cup {k + 1} = 1 .. k + 1
      OBVIOUS
    <3> QED
      BY <1>2, <1>3, <3>1, <3>2 DEF c
  <2>2. Cardinality(1 .. c) = c
    BY <1>2, FS_Interval
  <2>3. \A v \in Workers : slot[v].obj # 0 => chan'[slot[v].obj].worker = v
    BY <1>4, <1>6, ConnRange DEF ClaimInv, ConnOK
  <2>4. \A v \in Workers : wc'[v].sock # 0 => chan'[wc'[v].sock].worker = v
    BY <1>4, <1>5, <1>6, ConnRange DEF ClaimInv, ConnOK
  <2>5. dispatch.pc # "idle" /\ dispatch.conn # 0 => chan'[dispatch.conn].worker = dispatch.worker
    <3>1. dispatch.pc # "idle" => dispatch.worker \in Workers
      BY DEF PlaneInv, ManagerOK, DispatchOK
    <3> QED
      BY <1>4, <1>6, <3>1, ConnRange DEF ClaimInv, ConnOK
  <2> QED
    BY <1>1, <2>1, <2>2, <2>3, <2>4, <2>5 DEF ConnOK
<1>8. \A x \in Conns : \A i \in Sent(x)' : i \in Sent(x) /\ ClaimAt(x, i)' = ClaimAt(x, i)
  <2>1. \A i : i \notin DOMAIN <<>>
    OBVIOUS
  <2>2. ASSUME NEW x \in Conns, x # c, NEW i \in Sent(x)'
        PROVE  i \in Sent(x) /\ ClaimAt(x, i)' = ClaimAt(x, i)
    BY <1>4, <2>2 DEF Sent, ClaimAt
  <2>3. \A x \in Conns : x = c => \A i : i \notin Sent(x)'
    BY <1>4, <2>1 DEF Sent
  <2> QED
    BY <2>2, <2>3
<1>9. \A v \in Workers : wc'[v].pc = "spawn" => wc[v].pc = "spawn" /\ Spawning(v)' = Spawning(v)
  BY <1>5 DEF Spawning
<1>10. CommandsOK' /\ SpawnOK'
  BY <1>1, <1>8, <1>9 DEF ClaimInv, CommandsOK, SpawnOK
<1>11. SendOK'
  <2>1. Sending' = Sending
    BY <1>1 DEF Sending
  <2> QED
    BY <1>1, <1>8, <1>9, <2>1 DEF ClaimInv, SendOK
<1>12. CountOK'
  BY <1>1, QuietCount DEF ClaimInv
<1>13. Writing' = Writing
  BY SameWriting DEF ByWorker, Connect, manager
<1> QED
  BY <1>1, <1>7, <1>10, <1>11, <1>12, <1>13 DEF ClaimInv, Abstract!vars

\* A command is taken by a worker that is free for it.
LEMMA ClaimTaken ==
  ASSUME PlaneInv, PlaneInv', ClaimInv, NEW w \in Workers, ByWorker(OnRun(w))
  PROVE  Quiet \/ (ClaimInv' /\ UNCHANGED Abstract!vars)
<1> DEFINE m == Command(w)
           c == wc[w].sock
           q == chan[c].down
<1>1. /\ Commanded(w) /\ m.type = "run" /\ wc[w] \in Control
      /\ UNCHANGED <<row, slot, dispatch, given, begun, manager>>
  BY DEF ByWorker, OnRun, PlaneInv, ControlOK, manager, history
<1>2. CASE Answer(c, State(m.task, "refused")) /\ \E pc \in Handled(w) : wc' = [wc EXCEPT ![w].pc = pc]
  BY <1>1, <1>2, AnswerMoves, PcMoves, HandledTypes, RunnerStep DEF ClaimInv
<1>3. CASE /\ chan' = [chan EXCEPT ![c].down = Tail(@)]
           /\ wc' = [wc EXCEPT ![w].pc = "spawn", ![w].task = m.task, ![w].epoch = m.epoch]
  <2>1. c \in Conns /\ c # 0 /\ chan[c] \in Conn /\ q \in Seq(DownMsg) /\ q # <<>> /\ chan[c].worker = w
    BY <1>1, CommandTaken, ConnRange DEF Commanded, ClaimInv, ConnOK, PlaneInv, ManagerOK
  <2>2. /\ 1 \in DOMAIN q /\ q[1] = m
        /\ DOMAIN q = 1 .. Len(q) /\ DOMAIN Tail(q) = 1 .. Len(q) - 1 /\ Len(q) \in Nat
        /\ \A i \in 1 .. Len(q) - 1 : Tail(q)[i] = q[i + 1]
    BY <2>1 DEF Command
  <2>3. /\ chan'[c].down = Tail(q) /\ chan'[c].worker = chan[c].worker
        /\ \A x \in Conns \ {c} : chan'[x] = chan[x]
    BY <1>3, <2>1 DEF PlaneInv, ManagerOK, ChanOK, Conn
  <2>4. /\ wc'[w].pc = "spawn" /\ wc'[w].task = m.task /\ wc'[w].epoch = m.epoch
        /\ wc'[w].sock = wc[w].sock
        /\ \A v \in Workers \ {w} : wc'[v] = wc[v]
    BY <1>1, <1>3 DEF PlaneInv, ControlOK, Control
  <2>5. 1 \in Sent(c) /\ Spawning(w)' = ClaimAt(c, 1)
    BY <1>1, <2>1, <2>2, <2>4 DEF Sent, ClaimAt, Spawning
  <2>6. ASSUME NEW x \in Conns, NEW i \in Sent(x)'
        PROVE  \E j \in Sent(x) : ClaimAt(x, i)' = ClaimAt(x, j) /\ ~ (x = c /\ j = 1)
    <3>1. CASE x # c
      BY <2>3, <2>6, <3>1 DEF Sent, ClaimAt
    <3>2. CASE x = c
      <4>1. i \in 1 .. Len(q) - 1 /\ Tail(q)[i].type = "run"
        BY <2>2, <2>3, <2>6, <3>2 DEF Sent
      <4>2. i + 1 \in 1 .. Len(q) /\ i + 1 # 1 /\ Tail(q)[i] = q[i + 1]
        BY <2>2, <4>1
      <4> QED
        BY <2>2, <2>3, <3>2, <4>1, <4>2 DEF Sent, ClaimAt
    <3> QED
      BY <3>1, <3>2
  <2>7. NetMoves
    BY <1>1, <1>3, SilentMoves
  <2>8. CommandsOK' /\ CountOK'
    BY <1>1, <2>7, QuietCommands, QuietCount DEF ClaimInv
  <2>9. ClaimAt(c, 1) \in given \ begun
    BY <2>1, <2>5 DEF ClaimInv, CommandsOK
  <2>10. \A x \in Conns : \A i \in Sent(x)' : ClaimAt(x, i)' # ClaimAt(c, 1)
    BY <2>1, <2>5, <2>6 DEF ClaimInv, CommandsOK
  <2>11. \A v \in Workers \ {w} : Spawning(v)' = Spawning(v)
    BY <2>4 DEF Spawning
  <2>12. SpawnOK'
    <3>1. ASSUME NEW v \in Workers, v # w, wc'[v].pc = "spawn"
          PROVE  /\ Spawning(v)' \in given' \ begun'
                 /\ \A x \in Conns : \A i \in Sent(x)' : ClaimAt(x, i)' # Spawning(v)'
      BY <1>1, <2>4, <2>6, <2>11, <3>1 DEF ClaimInv, SpawnOK
    <3> QED
      BY <1>1, <2>5, <2>9, <2>10, <3>1 DEF SpawnOK
  <2>13. SendOK'
    <3>1. Sending' = Sending
      BY <1>1 DEF Sending
    <3> SUFFICES ASSUME dispatch.pc = "send" PROVE SendOK'
      BY <1>1 DEF SendOK
    <3>2. Sending \in given \ begun /\ \A x \in Conns : \A i \in Sent(x) : ClaimAt(x, i) # Sending
      BY DEF ClaimInv, SendOK
    <3>3. \A v \in Workers : wc'[v].pc = "spawn" => Spawning(v)' # Sending
      BY <2>1, <2>4, <2>5, <2>11, <3>2 DEF ClaimInv, SendOK
    <3> QED
      BY <1>1, <2>6, <3>1, <3>2, <3>3 DEF SendOK
  <2>14. ConnOK'
    <3>1. \A x \in Conns : chan'[x].worker = chan[x].worker
      BY <2>3
    <3>2. DispatchConn
      BY <1>1, DispatchStays DEF ClaimInv, DispatchMoves
    <3>3. \A v \in Workers : wc'[v].sock \in {0, wc[v].sock}
      BY <2>4
    <3> QED
      BY <1>1, <3>1, <3>2, <3>3, SlotsStay, QuietConn DEF ClaimInv
  <2>15. Writing' = Writing
    BY SameWriting DEF ByWorker, OnRun, manager
  <2> QED
    BY <1>1, <2>8, <2>12, <2>13, <2>14, <2>15 DEF ClaimInv, Abstract!vars
<1> QED
  BY <1>2, <1>3 DEF ByWorker, OnRun

\* A claim is begun.
LEMMA ClaimBegun ==
  ASSUME PlaneInv, PlaneInv', ClaimInv, NEW w \in Workers, ByWorker(Spawn(w))
  PROVE  Quiet \/ (ClaimInv' /\ Abstract!Next)
<1> DEFINE c == wc[w].sock
<1>1. /\ wc[w].pc = "spawn" /\ wc[w] \in Control
      /\ UNCHANGED <<row, slot, dispatch, given, manager>>
  BY DEF ByWorker, Spawn, PlaneInv, ControlOK, manager, history
<1>2. PICK pc \in Handled(w) :
        \/ /\ begun' = begun \cup {<<wc[w].task, wc[w].epoch, w>>}
           /\ procs' = procs \cup {[worker |-> w, task |-> wc[w].task, epoch |-> wc[w].epoch, pc |-> "start"]}
           /\ wc' = [wc EXCEPT ![w].pc = pc]
           /\ UNCHANGED chan
        \/ /\ PushUp(c, State(wc[w].task, "refused"))
           /\ wc' = [wc EXCEPT ![w] = [NewControl EXCEPT !.sock = c, !.pc = pc]]
           /\ UNCHANGED begun
  BY DEF ByWorker, Spawn
<1>3. pc \in {"ready", "dead"}
  BY HandledTypes
<1>4. CASE /\ PushUp(c, State(wc[w].task, "refused"))
           /\ wc' = [wc EXCEPT ![w] = [NewControl EXCEPT !.sock = c, !.pc = pc]]
           /\ UNCHANGED begun
  <2> DEFINE k == [NewControl EXCEPT !.sock = c, !.pc = pc]
  <2>1. k.sock = c /\ k.pc # "spawn" /\ wc' = [wc EXCEPT ![w] = k]
    BY <1>3, <1>4 DEF NewControl
  <2> HIDE DEF k
  <2>3. wc'[w] = k /\ \A v \in Workers \ {w} : wc'[v] = wc[v]
    BY <2>1 DEF PlaneInv, ControlOK
  <2>2. RunnersMove
    BY <2>1, <2>3, RunnerMoves
  <2> QED
    BY <1>1, <1>4, <2>2, UpMoves, RunnerStep DEF ClaimInv
<1>5. CASE /\ begun' = begun \cup {<<wc[w].task, wc[w].epoch, w>>}
           /\ procs' = procs \cup {[worker |-> w, task |-> wc[w].task, epoch |-> wc[w].epoch, pc |-> "start"]}
           /\ wc' = [wc EXCEPT ![w].pc = pc]
           /\ UNCHANGED chan
  <2> DEFINE d == Spawning(w)
  <2>1. begun' = begun \cup {d}
    BY <1>5 DEF Spawning
  <2>2. d \in given \ begun /\ \A x \in Conns : \A i \in Sent(x) : ClaimAt(x, i) # d
    BY <1>1 DEF ClaimInv, SpawnOK
  <2>3. /\ wc'[w].pc = pc /\ wc'[w].sock = wc[w].sock
        /\ \A v \in Workers \ {w} : wc'[v] = wc[v]
    BY <1>1, <1>5 DEF PlaneInv, ControlOK, Control
  <2>4. \A x \in Conns : Sent(x)' = Sent(x) /\ \A i : ClaimAt(x, i)' = ClaimAt(x, i)
    BY <1>5 DEF Sent, ClaimAt
  <2>5. \A v \in Workers : wc'[v].pc = "spawn" =>
          wc[v].pc = "spawn" /\ Spawning(v)' = Spawning(v) /\ Spawning(v) # d
    BY <1>3, <2>3 DEF Spawning
  <2> HIDE DEF d
  <2>6. CountOK'
    BY <1>1, <2>1, <2>2 DEF ClaimInv, CountOK
  <2>7. CommandsOK'
    BY <1>1, <2>1, <2>2, <2>4 DEF ClaimInv, CommandsOK
  <2>8. SpawnOK'
    BY <1>1, <2>1, <2>4, <2>5 DEF ClaimInv, SpawnOK
  <2>9. SendOK'
    <3>1. Sending' = Sending
      BY <1>1 DEF Sending
    <3>2. dispatch.pc = "send" => Sending # d
      BY <1>1 DEF ClaimInv, SendOK, d
    <3> QED
      BY <1>1, <2>1, <2>4, <2>5, <3>1, <3>2 DEF ClaimInv, SendOK
  <2>10. ConnOK'
    <3>1. DispatchConn
      BY <1>1, DispatchStays DEF ClaimInv, DispatchMoves
    <3>2. \A v \in Workers : wc'[v].sock \in {0, wc[v].sock}
      BY <2>3
    <3> QED
      BY <1>1, <1>5, <3>1, <3>2, SlotsStay, QuietConn DEF ClaimInv
  <2>12. Writing' = Writing
    BY <1>5, SameWriting DEF ByWorker, manager
  <2>11. Abstract!Begin(d)
    BY <1>1, <2>1, <2>2, <2>12 DEF Abstract!Begin
  <2> QED
    BY <2>2, <2>6, <2>7, <2>8, <2>9, <2>10, <2>11 DEF ClaimInv, Abstract!Next
<1> QED
  BY <1>2, <1>4, <1>5

-----------------------------------------------------------------------------
(* The refinement.                                                         *)

\* What a quiet step does to the statuses, TaskDispatch does too.
LEMMA QuietRefines == ASSUME PlaneInv, Quiet, SeenMoves PROVE Abstract!Next
<1>1. UNCHANGED <<given, begun>>
  BY DEF Quiet
<1>2. CASE Writing' \subseteq Writing /\ \A t \in Tasks : Stays(t) \/ row'[t].status = "pending"
  <2>1. PICK T \in SUBSET Tasks : T = {t \in Tasks : ~ Stays(t)}
    OBVIOUS
  <2>2. Status' = [t \in Tasks |-> IF t \in T THEN "pending" ELSE Status[t]]
    BY <1>2, <2>1 DEF Status, Stays
  <2>3. Abstract!PutBack(T)
    BY <1>1, <1>2, <2>2 DEF Abstract!PutBack, Status
  <2> QED
    BY <2>3 DEF Abstract!Next
<1>3. ASSUME NEW t \in Tasks, EndsOnly(t), Writing' \subseteq Writing PROVE Abstract!Next
  <2>1. /\ row[t].status \in {"pending", "running"} \/ t \in Writing
        /\ row'[t].status \in {"passed", "failed", "error", "cancelled"}
    BY <1>3 DEF EndsOnly, Active, Terminal
  <2>2. Status' = [Status EXCEPT ![t] = row'[t].status]
    BY <1>3 DEF EndsOnly, Stays, Status
  <2>3. Abstract!End(t)
    BY <1>1, <1>3, <2>1, <2>2 DEF Abstract!End, Status
  <2> QED
    BY <2>3 DEF Abstract!Next
<1>4. ASSUME NEW t \in Tasks, row[t].status \in Active, Know({t}), row' = row PROVE Abstract!Next
  <2>1. Writing' \subseteq Writing \cup {t} /\ row[t].status \in {"pending", "running"}
    BY <1>4, KnownWriting DEF Active
  <2>2. Status' = Status
    BY <1>4 DEF Status
  <2>3. Abstract!Look(t)
    BY <1>1, <2>1, <2>2 DEF Abstract!Look, Status
  <2> QED
    BY <2>3 DEF Abstract!Next
<1>5. Know({}) => Writing' \subseteq Writing
  BY KnownWriting
<1> QED
  BY <1>2, <1>3, <1>4, <1>5 DEF Quiet, RowsMove, SeenMoves

LEMMA ClaimStep ==
  ASSUME PlaneInv, PlaneInv', ClaimInv, [Next]_vars
  PROVE  ClaimInv' /\ [Abstract!Next]_(Abstract!vars)
<1>1. CASE Quiet
  BY <1>1, QuietKept, SeenOr, QuietRefines
<1>2. CASE ByManager(DispatchClaim)
  BY <1>1, <1>2, ClaimGiven
<1>3. CASE ByManager(DispatchSend)
  BY <1>1, <1>3, ClaimSent
<1>4. CASE \E w \in Workers : ByWorker(Connect(w)) \/ ByWorker(OnRun(w)) \/ ByWorker(Spawn(w))
  BY <1>1, <1>4, ConnOpened, ClaimTaken, ClaimBegun
<1> QED
  BY <1>1, <1>2, <1>3, <1>4, QuietOr DEF ClaimInv

LEMMA ClaimInit == Init => ClaimInv /\ Abstract!Init
<1> SUFFICES ASSUME Init PROVE ClaimInv /\ Abstract!Init
  OBVIOUS
<1> USE DEF Init, SharedInit, ManagerInit, WorkerInit
<1>1. \A t \in Tasks : row[t].epoch = 0 /\ row[t].status \in {"pending", "cancelled"}
  BY DEF NewRow, CancelledRow
<1>2. Cardinality({}) = 0 /\ IsFiniteSet({})
  BY FS_EmptySet
<1>3. CountOK
  <2>1. \A t \in Tasks : {d \in given : d[1] = t} = {}
    OBVIOUS
  <2> QED
    BY <1>1, <1>2, <2>1 DEF CountOK
<1>4. ConnOK
  <2>1. Opened = {} /\ 1 .. 0 = {}
    BY DEF Opened, NoConn
  <2> QED
    BY <1>2, <2>1 DEF ConnOK, NoSlot, NewControl, NoDispatch
<1>5. CommandsOK /\ SpawnOK /\ SendOK
  <2>1. \A c \in Conns : Sent(c) = {}
    BY DEF Sent, NoConn
  <2> QED
    BY <2>1 DEF CommandsOK, SpawnOK, SendOK, NewControl, NoDispatch
<1>6. Abstract!Init
  <2>1. Writing = {}
    BY DEF Writing, IdleLoop, Fresh, NoCall
  <2> QED
    BY <1>1, <2>1 DEF Abstract!Init
<1> QED
  BY <1>3, <1>4, <1>5, <1>6 DEF ClaimInv

\* Every dispatch that was given and not begun is carried by one command on one
\* connection of its runner, by that runner's on_run, by the dispatch thread, or
\* by nobody any more; and the epoch of a row counts its dispatches.
THEOREM ClaimsAreCarriedOnce == Spec => []ClaimInv
<1>1. PlaneInv /\ PlaneInv' /\ ClaimInv /\ [Next]_vars => ClaimInv'
  BY ClaimStep
<1> QED
  BY <1>1, ClaimInit, PlaneInvariant, PTL DEF Spec

\* The V3 control plane implements TaskDispatch: a command that was lost, that
\* is late or that comes twice over an old and a new connection is begun at most
\* once and by the runner it was given to, and however rows are reset, healed,
\* finalized or restarted in between, only a pending task is claimed.
THEOREM Implements == Spec => ImplementsTaskDispatch
<1>1. PlaneInv /\ PlaneInv' /\ ClaimInv /\ [Next]_vars => [Abstract!Next]_(Abstract!vars)
  BY ClaimStep
<1> QED
  BY <1>1, ClaimInit, ClaimsAreCarriedOnce, PlaneInvariant, PTL
  DEF Spec, ImplementsTaskDispatch, Abstract!Spec
=============================================================================
