--------------------------- MODULE MvccTrxProofs ---------------------------
(***************************************************************************)
(* Proofs about MvccTrx, for any number of sessions and rows, any length   *)
(* of transaction and any bounds.                                          *)
(*                                                                         *)
(* One inductive invariant, IInv, gives the safety properties.  Beside     *)
(* them it says what they rest on: where a thread can be in its calls      *)
(* (Control), that numbers come from the counter (Numbers), the order of a *)
(* transaction's operations on one row (Ordered, Twice), and what the      *)
(* stamps of a row are while its delete is unfinished (DeleteStamp).       *)
(***************************************************************************)
EXTENDS MvccTrx, TLAPS

Numbers ==
  \A s \in Sessions :
    /\ trx_id[s] = -1 \/ trx_id[s] \in 1..current_trx_id
    /\ commit_xid[s] \in 0..current_trx_id

Control ==
  \A s \in Sessions :
    /\ s \in started => trx_id[s] > 0 /\ phase[s] \in {"ready", "log_insert", "log_delete"}
    /\ phase[s] \in {"log_insert", "log_delete"} => s \in started /\ work[s] \in Rids
    /\ phase[s] = "ready" /\ s \notin started => operations[s] = <<>>
    /\ operations[s] # <<>> => trx_id[s] > 0
    /\ phase[s] = "commit" => cursor[s] > 0 /\ commit_xid[s] > 0
    /\ phase[s] = "rollback" => cursor[s] <= Len(operations[s])

(* A transaction inserts into a slot once, and before it deletes the row.  *)
OrderedBy(s) ==
  /\ \A i, j \in Pending(s) :
       i # j /\ operations[s][i].type = "INSERT" /\ operations[s][j].rid = operations[s][i].rid
         => i < j /\ operations[s][j].type = "DELETE"
  /\ phase[s] = "log_insert" => \A i \in Pending(s) : operations[s][i].rid # work[s]

Ordered == \A s \in Sessions : OrderedBy(s)

(* A transaction deletes a row twice only if the row is its own insert.    *)
OwnRow(s, r) == \/ begin_xid[r] = -trx_id[s]
                \/ phase[s] = "commit" /\ begin_xid[r] = commit_xid[s]

TwiceBy(s) ==
  /\ \A i, j \in Pending(s) :
       /\ i # j
       /\ operations[s][i].type = "DELETE" /\ operations[s][j].type = "DELETE"
       /\ operations[s][j].rid = operations[s][i].rid
       => OwnRow(s, operations[s][i].rid)
  /\ phase[s] = "log_delete" =>
       \A i \in Pending(s) :
         operations[s][i].type = "DELETE" /\ operations[s][i].rid = work[s] => OwnRow(s, work[s])

Twice == \A s \in Sessions : TwiceBy(s)

(* While a delete is unfinished the row has its end stamp, unless the      *)
(* transaction deleted its own insert twice and has ended one of the two.  *)
StampOf(s, r) ==
  \/ end_xid[r] = -trx_id[s]
  \/ phase[s] = "commit" /\ begin_xid[r] = commit_xid[s] /\ end_xid[r] = commit_xid[s]
  \/ phase[s] = "rollback" /\ begin_xid[r] = -trx_id[s] /\ end_xid[r] = MAX_TRX_ID

DeleteStamp == \A s \in Sessions, r \in Rids : Deleting(s, r) => StampOf(s, r)

(* The first part is inductive by itself.                                  *)
BInv == TypeOK /\ Numbers /\ Control /\ IdsDistinct
RInv == /\ StampOwned /\ PendingRowsIntact /\ FirstDeleterWins
        /\ Ordered /\ Twice /\ DeleteStamp
IInv == BInv /\ RInv

-----------------------------------------------------------------------------
(* What is pending in each phase.                                          *)
LEMMA PendingIs ==
  ASSUME TypeOK, NEW s \in Sessions
  PROVE  /\ phase[s] = "commit" => Pending(s) = cursor[s]..Len(operations[s])
         /\ phase[s] = "rollback" => Pending(s) = 1..cursor[s]
         /\ phase[s] = "commit_wait" => Pending(s) = {}
         /\ phase[s] \in {"ready", "log_insert", "log_delete"} => Pending(s) = 1..Len(operations[s])
  BY DEF TypeOK, Phases, Pending

(* The pending operations are operations, and their transaction is         *)
(* numbered.                                                               *)
LEMMA PendingTyped ==
  ASSUME TypeOK, Control, NEW s \in Sessions, NEW i \in Pending(s)
  PROVE  /\ i \in 1..Len(operations[s])
         /\ operations[s][i] \in Operation
         /\ operations[s] # <<>>
         /\ trx_id[s] > 0
<1>2. operations[s] \in Seq(Operation) /\ phase[s] \in Phases /\ cursor[s] \in Nat
  BY DEF TypeOK
<1>1. i \in 1..Len(operations[s])
  <2>1. CASE phase[s] = "commit"
    <3>1. i \in cursor[s]..Len(operations[s]) /\ cursor[s] > 0
      BY <2>1, PendingIs DEF Control
    <3> QED BY <3>1, <1>2
  <2>2. CASE phase[s] = "rollback"
    <3>1. i \in 1..cursor[s] /\ cursor[s] <= Len(operations[s])
      BY <2>2, PendingIs DEF Control
    <3> QED BY <3>1, <1>2
  <2>3. CASE phase[s] \in {"ready", "log_insert", "log_delete", "commit_wait"}
    BY <2>3, PendingIs
  <2> QED BY <1>2, <2>1, <2>2, <2>3 DEF Phases
<1>3. operations[s][i] \in Operation
  BY <1>1, <1>2
<1>4. operations[s] # <<>>
  BY <1>1, <1>2
<1> QED BY <1>1, <1>3, <1>4 DEF Control

(* A session whose variables do not change has the same pending operations *)
(* and the same unfinished inserts and deletes.                            *)
LEMMA Frame ==
  ASSUME NEW t \in Sessions,
         phase'[t] = phase[t], cursor'[t] = cursor[t],
         operations'[t] = operations[t], work'[t] = work[t]
  PROVE  /\ Pending(t)' = Pending(t)
         /\ \A r \in Rids : /\ Inserting(t, r)' <=> Inserting(t, r)
                            /\ Deleting(t, r)' <=> Deleting(t, r)
<1>1. Pending(t)' = Pending(t)
  BY DEF Pending
<1>2. \A r \in Rids : /\ Unfinished(t, "INSERT", r)' <=> Unfinished(t, "INSERT", r)
                      /\ Unfinished(t, "DELETE", r)' <=> Unfinished(t, "DELETE", r)
  BY <1>1 DEF Unfinished
<1> QED BY <1>1, <1>2 DEF Inserting, Deleting

(* The invariant holds when the server starts with empty tables.           *)
LEMMA InitIInv == Init => IInv
<1> SUFFICES ASSUME Init PROVE IInv
  OBVIOUS
<1>1. TypeOK /\ Numbers /\ Control
  BY BoundsAssumption DEF Init, TypeOK, Phases, Numbers, Control
<1>2. \A s \in Sessions : Pending(s) = {}
  <2> TAKE s \in Sessions
  <2>1. phase[s] = "ready" /\ operations[s] = <<>>
    BY DEF Init
  <2>2. Pending(s) = 1..Len(operations[s])
    BY <1>1, <2>1, PendingIs
  <2> QED BY <2>1, <2>2
<1>3. \A s \in Sessions, r \in Rids : ~ Inserting(s, r) /\ ~ Deleting(s, r)
  BY <1>2 DEF Init, Inserting, Deleting, Unfinished
<1>4. IdsDistinct /\ StampOwned /\ PendingRowsIntact /\ FirstDeleterWins
  BY <1>3 DEF Init, IdsDistinct, StampOwned, PendingRowsIntact, FirstDeleterWins
<1>5. Ordered /\ Twice /\ DeleteStamp
  BY <1>2, <1>3 DEF Init, Ordered, OrderedBy, Twice, TwiceBy, DeleteStamp
<1> QED BY <1>1, <1>4, <1>5 DEF IInv, BInv, RInv

-----------------------------------------------------------------------------
(* Types, numbers and control are inductive by themselves.                 *)
LEMMA BNext ==
  ASSUME BInv, [Next]_vars
  PROVE  BInv'
<1> USE BoundsAssumption DEF BInv
<1>1. ASSUME NEW s \in Sessions, StartIfNeed(s)
      PROVE  BInv'
  <2> USE <1>1 DEF StartIfNeed, MayIssue, heap, thread
  <2>1. TypeOK' BY DEF TypeOK
  <2>2. Numbers' BY DEF TypeOK, Numbers
  <2>3. Control' BY DEF TypeOK, Numbers, Control
  <2>4. IdsDistinct'
    <3>1. \A t \in Sessions : trx_id[t] \in Int /\ trx_id[t] <= current_trx_id
                              /\ commit_xid[t] \in Int /\ commit_xid[t] <= current_trx_id
      BY DEF TypeOK, Numbers
    <3>2. \A t \in Sessions : trx_id'[t] = IF t = s THEN current_trx_id + 1 ELSE trx_id[t]
      BY DEF TypeOK
    <3>3. commit_xid' = commit_xid /\ current_trx_id \in Nat
      BY DEF TypeOK
    <3> QED BY ONLY <3>1, <3>2, <3>3, IdsDistinct, s \in Sessions DEF IdsDistinct
  <2> QED BY <2>1, <2>2, <2>3, <2>4
<1>2. ASSUME NEW s \in Sessions, NEW r \in Rids, InsertRecord(s, r)
      PROVE  BInv'
  <2> USE <1>2 DEF InsertRecord, MayIssue, WriteRow, AppendLog
  <2>1. TypeOK' BY DEF TypeOK, Phases
  <2>2. Numbers' BY DEF TypeOK, Numbers
  <2>3. Control' BY DEF TypeOK, Numbers, Control
  <2>4. IdsDistinct' BY DEF TypeOK, Numbers, IdsDistinct
  <2> QED BY <2>1, <2>2, <2>3, <2>4
<1>3. ASSUME NEW s \in Sessions, NEW r \in Rids, DeleteRecord(s, r)
      PROVE  BInv'
  <2> USE <1>3 DEF DeleteRecord, MayIssue, WriteRow, AppendLog
  <2>1. TypeOK' BY DEF TypeOK, Phases
  <2>2. Numbers' BY DEF TypeOK, Numbers
  <2>3. Control' BY DEF TypeOK, Numbers, Control
  <2>4. IdsDistinct' BY DEF TypeOK, Numbers, IdsDistinct
  <2> QED BY <2>1, <2>2, <2>3, <2>4
<1>4. ASSUME NEW s \in Sessions, LogOperation(s)
      PROVE  BInv'
  <2> DEFINE op == [type |-> IF phase[s] = "log_insert" THEN "INSERT" ELSE "DELETE", rid |-> work[s]]
  <2>0. /\ operations' = [operations EXCEPT ![s] = Append(operations[s], op)]
        /\ op \in Operation /\ operations[s] \in Seq(Operation)
        /\ s \in started /\ trx_id[s] > 0
    BY <1>4 DEF LogOperation, Operation, Control, TypeOK
  <2>a. Append(operations[s], op) \in Seq(Operation)
    BY <2>0
  <2> HIDE DEF op
  <2>1. TypeOK'
    BY <1>4, <2>0, <2>a DEF LogOperation, AppendLog, heap, TypeOK, Phases
  <2>2. Numbers' BY <1>4 DEF LogOperation, heap, TypeOK, Numbers
  <2>3. Control'
    BY <1>4, <2>0 DEF LogOperation, heap, TypeOK, Numbers, Control
  <2>4. IdsDistinct' BY <1>4 DEF LogOperation, heap, TypeOK, Numbers, IdsDistinct
  <2> QED BY <2>1, <2>2, <2>3, <2>4
<1>5. ASSUME NEW s \in Sessions, Commit(s)
      PROVE  BInv'
  <2> USE <1>5 DEF Commit, MayIssue, heap
  <2>1. TypeOK' BY DEF TypeOK, Phases
  <2>2. Numbers' BY DEF TypeOK, Numbers
  <2>3. Control' BY DEF TypeOK, Numbers, Control
  <2>4. IdsDistinct' BY DEF TypeOK, Numbers, IdsDistinct
  <2> QED BY <2>1, <2>2, <2>3, <2>4
<1>6. ASSUME NEW s \in Sessions, CommitOperation(s)
      PROVE  BInv'
  <2> DEFINE op == operations[s][cursor[s]]
  <2>a. /\ op.rid \in used /\ used' = used \cup {op.rid}
        /\ cursor' = [cursor EXCEPT ![s] = cursor[s] + 1] /\ lsn' = lsn + 1
        /\ phase[s] = "commit"
        /\ UNCHANGED <<current_trx_id, trx_id, started, operations, phase, commit_xid, work,
                       wait_lsn, flushed>>
    BY <1>6 DEF CommitOperation, WriteRow, AppendLog
  <2>b. \E b, e \in Int : /\ begin_xid' = [begin_xid EXCEPT ![op.rid] = b]
                          /\ end_xid' = [end_xid EXCEPT ![op.rid] = e]
    <3>1. commit_xid[s] \in Int /\ begin_xid[op.rid] \in Int /\ end_xid[op.rid] \in Int
      BY <2>a DEF TypeOK
    <3> QED BY <1>6, <3>1 DEF CommitOperation, WriteRow
  <2> HIDE DEF op
  <2>c. begin_xid' \in [Rids -> Int] /\ end_xid' \in [Rids -> Int]
    <3>1. begin_xid \in [Rids -> Int] /\ end_xid \in [Rids -> Int]
      BY DEF TypeOK
    <3> QED BY ONLY <3>1, <2>b
  <2>d. used' \subseteq Rids /\ lsn' \in Nat /\ cursor' \in [Sessions -> Nat]
    <3>1. used \subseteq Rids /\ lsn \in Nat /\ cursor \in [Sessions -> Nat]
      BY DEF TypeOK
    <3> QED BY ONLY <3>1, <2>a
  <2>1. TypeOK'
    BY ONLY <2>a, <2>c, <2>d, TypeOK DEF TypeOK
  <2>2. Numbers' BY <2>a DEF TypeOK, Numbers
  <2>3. Control' BY <2>a DEF TypeOK, Numbers, Control
  <2>4. IdsDistinct' BY <2>a DEF TypeOK, Numbers, IdsDistinct
  <2> QED BY <2>1, <2>2, <2>3, <2>4
<1>7. ASSUME NEW s \in Sessions, AppendCommit(s)
      PROVE  BInv'
  <2> USE <1>7 DEF AppendCommit, AppendLog, heap
  <2>1. TypeOK' BY DEF TypeOK, Phases
  <2>2. Numbers' BY DEF TypeOK, Numbers
  <2>3. Control' BY DEF TypeOK, Numbers, Control
  <2>4. IdsDistinct' BY DEF TypeOK, Numbers, IdsDistinct
  <2> QED BY <2>1, <2>2, <2>3, <2>4
<1>8. ASSUME NEW s \in Sessions, CommitDone(s) \/ RollbackDone(s)
      PROVE  BInv'
  <2>0. <<>> \in Seq(Operation)
    OBVIOUS
  <2> USE <1>8 DEF CommitDone, RollbackDone, AppendLog, heap
  <2>1. TypeOK'
    <3>1. CASE CommitDone(s) BY <2>0, <3>1 DEF TypeOK, Phases
    <3>2. CASE RollbackDone(s) BY <2>0, <3>2 DEF TypeOK, Phases
    <3> QED BY <1>8, <3>1, <3>2
  <2>2. Numbers' BY DEF TypeOK, Numbers
  <2>3. Control' BY DEF TypeOK, Numbers, Control
  <2>4. IdsDistinct' BY DEF TypeOK, Numbers, IdsDistinct
  <2> QED BY <2>1, <2>2, <2>3, <2>4
<1>9. ASSUME NEW s \in Sessions, Rollback(s)
      PROVE  BInv'
  <2>0. Len(operations[s]) \in Nat
    BY DEF TypeOK
  <2> USE <1>9 DEF Rollback, MayIssue, heap
  <2>1. TypeOK' BY <2>0 DEF TypeOK, Phases
  <2>2. Numbers' BY DEF TypeOK, Numbers
  <2>3. Control' BY <2>0 DEF TypeOK, Numbers, Control
  <2>4. IdsDistinct' BY DEF TypeOK, Numbers, IdsDistinct
  <2> QED BY <2>1, <2>2, <2>3, <2>4
<1>10. ASSUME NEW s \in Sessions, RollbackOperation(s)
       PROVE  BInv'
  <2> USE <1>10 DEF RollbackOperation, WriteRow, AppendLog
  <2>1. TypeOK'
    <3>1. cursor[s] - 1 \in Nat
      BY DEF TypeOK
    <3>2. used' \subseteq Rids /\ begin_xid' \in [Rids -> Int] /\ end_xid' \in [Rids -> Int]
      <4> DEFINE rid == operations[s][cursor[s]].rid
      <4>1. /\ rid \in Rids /\ used \subseteq Rids
            /\ begin_xid \in [Rids -> Int] /\ end_xid \in [Rids -> Int] /\ MAX_TRX_ID \in Int
        BY DEF TypeOK
      <4>2. \/ /\ used' = used \ {rid}
               /\ begin_xid' = [begin_xid EXCEPT ![rid] = 0]
               /\ end_xid' = [end_xid EXCEPT ![rid] = 0]
            \/ /\ used' = used \cup {rid}
               /\ begin_xid' = [begin_xid EXCEPT ![rid] = begin_xid[rid]]
               /\ end_xid' = [end_xid EXCEPT ![rid] = MAX_TRX_ID]
        OBVIOUS
      <4> HIDE DEF rid
      <4> QED BY ONLY <4>1, <4>2
    <3>3. lsn' \in Nat /\ cursor' \in [Sessions -> Nat]
      BY <3>1 DEF TypeOK
    <3> QED BY <3>2, <3>3 DEF TypeOK
  <2>2. Numbers' BY DEF TypeOK, Numbers
  <2>3. Control'
    <3>1. /\ phase[s] = "rollback" /\ cursor[s] > 0
          /\ cursor' = [cursor EXCEPT ![s] = cursor[s] - 1]
          /\ UNCHANGED <<trx_id, started, operations, phase, commit_xid, work>>
      OBVIOUS
    <3>2. /\ cursor \in [Sessions -> Nat] /\ \A t \in Sessions : Len(operations[t]) \in Nat
      BY DEF TypeOK
    <3> QED BY ONLY <3>1, <3>2, Control, s \in Sessions DEF Control
  <2>4. IdsDistinct' BY DEF TypeOK, Numbers, IdsDistinct
  <2> QED BY <2>1, <2>2, <2>3, <2>4
<1>11. CASE FlushLog \/ UNCHANGED vars
  <2>0. /\ UNCHANGED <<current_trx_id, used, begin_xid, end_xid, trx_id, started, operations,
                       phase, cursor, commit_xid, work, wait_lsn, lsn>>
        /\ flushed' \in {flushed, flushed + 1}
    BY <1>11 DEF FlushLog, vars, heap, thread
  <2>a. flushed' \in Nat
    BY <2>0 DEF TypeOK
  <2>1. TypeOK' BY ONLY TypeOK, <2>0, <2>a DEF TypeOK
  <2>2. Numbers' BY ONLY Numbers, <2>0 DEF Numbers
  <2>3. Control' BY ONLY Control, <2>0 DEF Control
  <2>4. IdsDistinct' BY ONLY IdsDistinct, <2>0 DEF IdsDistinct
  <2> QED BY <2>1, <2>2, <2>3, <2>4
<1> QED
  BY <1>1, <1>2, <1>3, <1>4, <1>5, <1>6, <1>7, <1>8, <1>9, <1>10, <1>11
     DEF Next, Statement, Proceed

-----------------------------------------------------------------------------
(* A step of s that touches no row and leaves its pending operations as    *)
(* they are preserves what is said about the rows.                         *)
LEMMA Quiet ==
  ASSUME IInv, UNCHANGED heap,
         NEW s \in Sessions,
         \A t \in Sessions \ {s} :
           /\ phase'[t] = phase[t] /\ cursor'[t] = cursor[t] /\ operations'[t] = operations[t]
           /\ trx_id'[t] = trx_id[t] /\ commit_xid'[t] = commit_xid[t] /\ work'[t] = work[t],
         phase[s] \notin {"log_insert", "log_delete"},
         phase'[s] \notin {"log_insert", "log_delete"},
         Pending(s)' = Pending(s),
         Pending(s) # {} => /\ phase[s] = "ready"
                            /\ trx_id'[s] = trx_id[s]
                            /\ operations'[s] = operations[s]
  PROVE  RInv'
<1> USE DEF heap
<1>1. \A t \in Sessions :
        /\ Pending(t)' = Pending(t)
        /\ Pending(t) # {} => operations'[t] = operations[t]
  BY Frame
<1>2. \A t \in Sessions, r \in Rids : /\ Unfinished(t, "INSERT", r)' <=> Unfinished(t, "INSERT", r)
                                      /\ Unfinished(t, "DELETE", r)' <=> Unfinished(t, "DELETE", r)
  BY <1>1 DEF Unfinished
<1>3. \A t \in Sessions, r \in Rids : /\ Inserting(t, r)' <=> Inserting(t, r)
                                      /\ Deleting(t, r)' <=> Deleting(t, r)
  BY <1>2 DEF Inserting, Deleting
<1>4. \A t \in Sessions : Pending(t) # {} \/ t # s => trx_id'[t] = trx_id[t]
  OBVIOUS
<1>5. \A t \in Sessions, r \in Rids :
        Inserting(t, r) \/ Deleting(t, r) => trx_id'[t] = trx_id[t]
  BY <1>4 DEF Inserting, Deleting, Unfinished
<1>a. used \subseteq Rids
  BY DEF IInv, BInv, TypeOK
<1>6. StampOwned'
  <2>1. StampOwned
    BY DEF IInv, RInv
  <2> QED BY <2>1, <1>a, <1>3, <1>5 DEF StampOwned
<1>7. PendingRowsIntact'
  BY <1>3, <1>5 DEF IInv, RInv, PendingRowsIntact
<1>8. FirstDeleterWins'
  BY <1>3 DEF IInv, RInv, FirstDeleterWins
<1>9. Ordered'
  BY <1>1 DEF IInv, RInv, Ordered, OrderedBy
<1>10. Twice'
  BY <1>1, <1>4 DEF IInv, RInv, Twice, TwiceBy, OwnRow
<1>11. DeleteStamp'
  <2> SUFFICES ASSUME NEW t \in Sessions, NEW r \in Rids, Deleting(t, r)'
               PROVE  StampOf(t, r)'
    BY DEF DeleteStamp
  <2>1. Deleting(t, r)
    BY <1>3
  <2>2. t = s => phase[t] = "ready"
    BY <2>1 DEF Deleting, Unfinished
  <2> QED BY <2>1, <2>2, <1>5 DEF IInv, RInv, DeleteStamp, StampOf
<1> QED BY <1>6, <1>7, <1>8, <1>9, <1>10, <1>11 DEF RInv

(* start_if_need, the entry into commit and rollback, and what commit and  *)
(* rollback do after their loops are such steps.                           *)
LEMMA QuietSteps ==
  ASSUME IInv, NEW s \in Sessions,
         \/ StartIfNeed(s) \/ Commit(s) \/ Rollback(s)
         \/ AppendCommit(s) \/ CommitDone(s) \/ RollbackDone(s)
  PROVE  RInv'
<1>0. TypeOK /\ Control /\ operations[s] \in Seq(Operation) /\ Len(operations[s]) \in Nat
  BY DEF IInv, BInv, TypeOK
<1>b. TypeOK'
  <2>1. Next
    BY DEF Next, Statement, Proceed
  <2>2. BInv'
    BY <2>1, BNext DEF IInv
  <2> QED BY <2>2 DEF BInv
<1>1. CASE StartIfNeed(s)
  <2>1. operations[s] = <<>> /\ phase[s] = "ready" /\ phase'[s] = "ready" /\ operations' = operations
    BY <1>0, <1>1 DEF StartIfNeed, MayIssue, Control, thread
  <2>2. Pending(s) = {} /\ Pending(s)' = {}
    BY <2>1, <1>0, <1>b, PendingIs, Frame, <1>1 DEF StartIfNeed, thread
  <2> QED BY <2>1, <2>2, <1>1, Quiet DEF StartIfNeed, thread, IInv, BInv, TypeOK
<1>2. CASE Commit(s)
  <2>1. /\ phase[s] = "ready" /\ phase'[s] = "commit" /\ cursor'[s] = 1 /\ operations' = operations
    BY <1>2, <1>0 DEF Commit, MayIssue, TypeOK
  <2>2. Pending(s) = 1..Len(operations[s]) /\ Pending(s)' = 1..Len(operations[s])
    BY <2>1, <1>0 DEF Pending
  <2> QED BY <2>1, <2>2, <1>2, Quiet DEF Commit, IInv, BInv, TypeOK
<1>3. CASE Rollback(s)
  <2>1. /\ phase[s] = "ready" /\ phase'[s] = "rollback" /\ cursor'[s] = Len(operations[s])
        /\ operations' = operations
    BY <1>3, <1>0 DEF Rollback, MayIssue, TypeOK
  <2>2. Pending(s) = 1..Len(operations[s]) /\ Pending(s)' = 1..Len(operations[s])
    BY <2>1, <1>0 DEF Pending
  <2> QED BY <2>1, <2>2, <1>3, Quiet DEF Rollback, IInv, BInv, TypeOK
<1>4. CASE AppendCommit(s)
  <2>1. /\ phase[s] = "commit" /\ cursor[s] > Len(operations[s]) /\ phase'[s] = "commit_wait"
    BY <1>4, <1>0 DEF AppendCommit, TypeOK
  <2>2. Pending(s) = {} /\ Pending(s)' = {}
    BY <2>1, <1>0 DEF Pending, TypeOK
  <2> QED BY <2>1, <2>2, <1>4, Quiet DEF AppendCommit, IInv, BInv, TypeOK
<1>5. CASE CommitDone(s)
  <2>1. phase[s] = "commit_wait" /\ phase'[s] = "ready" /\ operations'[s] = <<>>
    BY <1>5, <1>0 DEF CommitDone, TypeOK
  <2>2. Pending(s) = {} /\ Pending(s)' = {}
    BY <2>1, <1>0 DEF Pending
  <2> QED BY <2>1, <2>2, <1>5, Quiet DEF CommitDone, IInv, BInv, TypeOK
<1>6. CASE RollbackDone(s)
  <2>1. phase[s] = "rollback" /\ cursor[s] = 0 /\ phase'[s] = "ready" /\ operations'[s] = <<>>
    BY <1>6, <1>0 DEF RollbackDone, TypeOK
  <2>2. Pending(s) = {} /\ Pending(s)' = {}
    BY <2>1, <1>0 DEF Pending
  <2> QED BY <2>1, <2>2, <1>6, Quiet DEF RollbackDone, IInv, BInv, TypeOK
<1> QED BY <1>1, <1>2, <1>3, <1>4, <1>5, <1>6

-----------------------------------------------------------------------------
(* The steps that touch a row.  insert_record takes a slot that nobody has *)
(* unfinished business with.                                               *)
LEMMA InsertStep ==
  ASSUME IInv, NEW s \in Sessions, NEW r \in Rids, InsertRecord(s, r)
  PROVE  RInv'
<1>0. TypeOK /\ Control /\ Numbers
  BY DEF IInv, BInv
<1>1. /\ s \in started /\ phase[s] = "ready" /\ trx_id[s] \in Nat \ {0} /\ r \notin used
      /\ phase'[s] = "log_insert" /\ work'[s] = r
      /\ UNCHANGED <<trx_id, commit_xid, operations, cursor>>
  BY <1>0 DEF InsertRecord, MayIssue, TypeOK, Control, Numbers
<1>2. \A t \in Sessions \ {s} : phase'[t] = phase[t] /\ work'[t] = work[t]
  BY <1>0 DEF InsertRecord, TypeOK
<1>3. /\ used' = used \cup {r} /\ begin_xid'[r] = -trx_id[s] /\ end_xid'[r] = MAX_TRX_ID
      /\ \A x \in Rids \ {r} : begin_xid'[x] = begin_xid[x] /\ end_xid'[x] = end_xid[x]
  BY <1>0 DEF InsertRecord, WriteRow, TypeOK
<1>4. \A t \in Sessions : Pending(t)' = Pending(t)
  <2>1. Pending(s)' = Pending(s)
    BY <1>1 DEF Pending
  <2> QED BY <1>1, <1>2, <2>1, Frame
<1>5. \A t \in Sessions, x \in Rids :
        /\ Unfinished(t, "INSERT", x)' <=> Unfinished(t, "INSERT", x)
        /\ Unfinished(t, "DELETE", x)' <=> Unfinished(t, "DELETE", x)
  BY <1>1, <1>4 DEF Unfinished
<1>6. \A t \in Sessions, x \in Rids :
        /\ Deleting(t, x)' <=> Deleting(t, x)
        /\ Inserting(t, x)' <=> Inserting(t, x) \/ (t = s /\ x = r)
  BY <1>1, <1>2, <1>5 DEF Inserting, Deleting
<1>7. \A t \in Sessions : ~ Inserting(t, r) /\ ~ Deleting(t, r)
  BY <1>1 DEF IInv, RInv, PendingRowsIntact
<1>8. \A t \in Sessions : \A i \in Pending(t) : operations[t][i].rid # r
  <2> SUFFICES ASSUME NEW t \in Sessions, NEW i \in Pending(t), operations[t][i].rid = r
               PROVE  FALSE
    OBVIOUS
  <2>1. operations[t][i] \in Operation
    BY <1>0, PendingTyped
  <2>2. \/ operations[t][i] = [type |-> "INSERT", rid |-> r]
        \/ operations[t][i] = [type |-> "DELETE", rid |-> r]
    BY <2>1 DEF Operation
  <2> QED BY <2>2, <1>7 DEF Inserting, Deleting, Unfinished
<1>9. MAX_TRX_ID > 0 /\ MAX_TRX_ID \in Nat
  BY <1>0, BoundsAssumption
<1>10. StampOwned'
  <2>1. StampOwned /\ used \subseteq Rids
    BY <1>0 DEF IInv, RInv, TypeOK
  <2> QED BY <2>1, <1>1, <1>3, <1>6, <1>9 DEF StampOwned
<1>11. PendingRowsIntact'
  BY <1>1, <1>3, <1>6, <1>7 DEF IInv, RInv, PendingRowsIntact
<1>12. FirstDeleterWins'
  BY <1>6, <1>7 DEF IInv, RInv, FirstDeleterWins
<1>13. Ordered'
  BY <1>1, <1>2, <1>4, <1>8 DEF IInv, RInv, Ordered, OrderedBy
<1>14. Twice'
  <2> SUFFICES ASSUME NEW t \in Sessions
               PROVE  TwiceBy(t)'
    BY DEF Twice
  <2>1. \A x \in Rids \ {r} : OwnRow(t, x) => OwnRow(t, x)'
    BY <1>1, <1>2, <1>3 DEF OwnRow
  <2>2. \A i \in Pending(t) : operations[t][i].rid \in Rids \ {r}
    BY <1>0, <1>8, PendingTyped DEF Operation
  <2>3. Twice
    BY DEF IInv, RInv
  <2>4. phase'[t] = "log_delete" => phase[t] = "log_delete" /\ work'[t] = work[t]
    BY <1>1, <1>2
  <2>5. operations' = operations /\ Pending(t)' = Pending(t)
    BY <1>1, <1>4
  <2> QED BY <2>1, <2>2, <2>3, <2>4, <2>5 DEF Twice, TwiceBy
<1>15. DeleteStamp'
  <2> SUFFICES ASSUME NEW t \in Sessions, NEW x \in Rids, Deleting(t, x)'
               PROVE  StampOf(t, x)'
    BY DEF DeleteStamp
  <2>1. Deleting(t, x) /\ x # r
    BY <1>6, <1>7
  <2>2. t = s => phase[t] = "ready"
    BY <1>1
  <2> QED BY <2>1, <2>2, <1>1, <1>2, <1>3 DEF IInv, RInv, DeleteStamp, StampOf
<1> QED BY <1>10, <1>11, <1>12, <1>13, <1>14, <1>15 DEF RInv

(* delete_record: visit_record has turned away every row that another      *)
(* transaction is inserting or deleting.                                   *)
LEMMA DeleteStep ==
  ASSUME IInv, NEW s \in Sessions, NEW r \in Rids, DeleteRecord(s, r)
  PROVE  RInv'
<1>0. TypeOK /\ Control /\ Numbers /\ IdsDistinct
  BY DEF IInv, BInv
<1>1. /\ s \in started /\ phase[s] = "ready" /\ trx_id[s] \in Nat \ {0} /\ r \in used
      /\ phase'[s] = "log_delete" /\ work'[s] = r
      /\ UNCHANGED <<trx_id, commit_xid, operations, cursor>>
  BY <1>0 DEF DeleteRecord, MayIssue, TypeOK, Control, Numbers
<1>2. \A t \in Sessions \ {s} : phase'[t] = phase[t] /\ work'[t] = work[t]
  BY <1>0 DEF DeleteRecord, TypeOK
<1>3. /\ used' = used /\ begin_xid' = begin_xid /\ end_xid'[r] = -trx_id[s]
      /\ \A x \in Rids \ {r} : end_xid'[x] = end_xid[x]
  BY <1>0, <1>1 DEF DeleteRecord, WriteRow, TypeOK
<1>4. \A t \in Sessions : Pending(t)' = Pending(t)
  <2>1. Pending(s)' = Pending(s)
    BY <1>1 DEF Pending
  <2> QED BY <1>1, <1>2, <2>1, Frame
<1>5. \A t \in Sessions, x \in Rids :
        /\ Unfinished(t, "INSERT", x)' <=> Unfinished(t, "INSERT", x)
        /\ Unfinished(t, "DELETE", x)' <=> Unfinished(t, "DELETE", x)
  BY <1>1, <1>4 DEF Unfinished
<1>6. \A t \in Sessions, x \in Rids :
        /\ Inserting(t, x)' <=> Inserting(t, x)
        /\ Deleting(t, x)' <=> Deleting(t, x) \/ (t = s /\ x = r)
  BY <1>1, <1>2, <1>5 DEF Inserting, Deleting
(* What visit_record lets through.                                         *)
<1>7. \/ begin_xid[r] = -trx_id[s]
      \/ begin_xid[r] >= 0 /\ end_xid[r] >= 0
         /\ (begin_xid[r] > 0 /\ end_xid[r] > 0 => begin_xid[r] <= trx_id[s] /\ trx_id[s] <= end_xid[r])
  <2>1. begin_xid[r] \in Int /\ end_xid[r] \in Int
    BY <1>0 DEF TypeOK
  <2> QED BY <1>1, <2>1 DEF DeleteRecord, Visit, VisitRecord
<1>8. \A t \in Sessions : Inserting(t, r) \/ Deleting(t, r) => trx_id[t] \in Nat \ {0}
  <2> SUFFICES ASSUME NEW t \in Sessions, Inserting(t, r) \/ Deleting(t, r)
               PROVE  trx_id[t] \in Nat \ {0}
    OBVIOUS
  <2>1. trx_id[t] > 0
    BY <1>0, PendingTyped DEF Inserting, Deleting, Unfinished, Control
  <2> QED BY <2>1, <1>0 DEF TypeOK
<1>9. \A t \in Sessions : Inserting(t, r) => t = s
  <2> SUFFICES ASSUME NEW t \in Sessions, Inserting(t, r) PROVE t = s
    OBVIOUS
  <2>1. begin_xid[r] = -trx_id[t]
    BY DEF IInv, RInv, PendingRowsIntact
  <2>2. trx_id[t] = trx_id[s]
    BY <2>1, <1>1, <1>7, <1>8
  <2> QED BY <2>2, <1>0, <1>1 DEF IdsDistinct
<1>10. begin_xid[r] = -trx_id[s] => Inserting(s, r)
  <2> SUFFICES ASSUME begin_xid[r] = -trx_id[s] PROVE Inserting(s, r)
    OBVIOUS
  <2>1. begin_xid[r] < 0
    BY <1>1
  <2>2. PICK u \in Sessions : Inserting(u, r)
    BY <1>1, <2>1 DEF IInv, RInv, StampOwned
  <2> QED BY <2>2, <1>9
<1>11. \A t \in Sessions : Deleting(t, r) => t = s
  <2> SUFFICES ASSUME NEW t \in Sessions, Deleting(t, r), t # s PROVE FALSE
    OBVIOUS
  <2>1. StampOf(t, r) /\ ~ Inserting(s, r)
    BY DEF IInv, RInv, DeleteStamp, FirstDeleterWins
  <2>2. begin_xid[r] # -trx_id[s]
    BY <2>1, <1>10
  <2>3. trx_id[t] \in Nat \ {0}
    BY <1>8
  <2>4. /\ phase[t] = "commit" /\ begin_xid[r] = commit_xid[t] /\ end_xid[r] = commit_xid[t]
        /\ commit_xid[t] \in Nat \ {0}
    <3>1. commit_xid[t] \in Int /\ (phase[t] = "commit" => commit_xid[t] > 0)
      BY <1>0 DEF Control, TypeOK
    <3> QED BY <3>1, <1>7, <2>1, <2>2, <2>3 DEF StampOf
  <2>5. trx_id[s] = commit_xid[t]
    BY <1>1, <1>7, <2>2, <2>4
  <2> QED BY <2>5, <1>0, <1>1 DEF IdsDistinct
<1>12. Deleting(s, r) => OwnRow(s, r)
  <2> SUFFICES ASSUME Deleting(s, r) PROVE OwnRow(s, r)
    OBVIOUS
  <2>1. end_xid[r] = -trx_id[s]
    BY <1>1 DEF IInv, RInv, DeleteStamp, StampOf
  <2> QED BY <2>1, <1>1, <1>7 DEF OwnRow
<1>13. StampOwned'
  <2>1. StampOwned /\ used \subseteq Rids
    BY <1>0 DEF IInv, RInv, TypeOK
  <2>2. \A x \in used : begin_xid'[x] < 0 => \E t \in Sessions : trx_id'[t] = -begin_xid'[x] /\ Inserting(t, x)'
    BY <2>1, <1>1, <1>3, <1>6 DEF StampOwned
  <2>3. \A x \in used : end_xid'[x] < 0 => \E t \in Sessions : trx_id'[t] = -end_xid'[x] /\ Deleting(t, x)'
    BY <2>1, <1>1, <1>3, <1>6 DEF StampOwned
  <2> QED BY <2>2, <2>3, <1>3 DEF StampOwned
<1>14. PendingRowsIntact'
  BY <1>1, <1>3, <1>6 DEF IInv, RInv, PendingRowsIntact
<1>15. FirstDeleterWins'
  BY <1>6, <1>9, <1>11 DEF IInv, RInv, FirstDeleterWins
<1>16. Ordered'
  BY <1>1, <1>2, <1>4 DEF IInv, RInv, Ordered, OrderedBy
<1>17. Twice'
  <2> SUFFICES ASSUME NEW t \in Sessions PROVE TwiceBy(t)'
    BY DEF Twice
  <2>1. \A x \in Rids : OwnRow(t, x) => OwnRow(t, x)'
    BY <1>1, <1>2, <1>3 DEF OwnRow
  <2>2. \A i \in Pending(t) : operations[t][i] \in Operation
    BY <1>0, PendingTyped
  <2>3. TwiceBy(t)
    BY DEF IInv, RInv, Twice
  <2>4. operations' = operations /\ Pending(t)' = Pending(t)
    BY <1>1, <1>4
  <2>5. CASE t = s
    <3>1. ASSUME NEW i \in Pending(s), operations[s][i].type = "DELETE", operations[s][i].rid = r
          PROVE  Deleting(s, r)
      BY <2>2, <2>5, <3>1 DEF Operation, Deleting, Unfinished
    <3> QED BY <2>1, <2>2, <2>3, <2>4, <2>5, <3>1, <1>1, <1>12 DEF TwiceBy, Operation
  <2>6. CASE t # s
    <3>1. phase'[t] = phase[t] /\ work'[t] = work[t] /\ (phase[t] = "log_delete" => work[t] \in Rids)
      BY <2>6, <1>2, <1>0 DEF Control
    <3> QED BY <2>1, <2>2, <2>3, <2>4, <3>1 DEF TwiceBy, Operation
  <2> QED BY <2>5, <2>6
<1>18. DeleteStamp'
  <2> SUFFICES ASSUME NEW t \in Sessions, NEW x \in Rids, Deleting(t, x)' PROVE StampOf(t, x)'
    BY DEF DeleteStamp
  <2>1. CASE x = r
    BY <2>1, <1>1, <1>3, <1>6, <1>11 DEF StampOf
  <2>2. CASE x # r
    <3>1. Deleting(t, x)
      BY <2>2, <1>6
    <3>2. t = s => phase[t] = "ready"
      BY <1>1
    <3> QED BY <2>2, <3>1, <3>2, <1>1, <1>2, <1>3 DEF IInv, RInv, DeleteStamp, StampOf
  <2> QED BY <2>1, <2>2
<1> QED BY <1>13, <1>14, <1>15, <1>16, <1>17, <1>18 DEF RInv

(* The operation whose row has been written moves from the thread's hands  *)
(* to the list of operations.                                              *)
LEMMA LogStep ==
  ASSUME IInv, NEW s \in Sessions, LogOperation(s)
  PROVE  RInv'
<1> DEFINE op == [type |-> IF phase[s] = "log_insert" THEN "INSERT" ELSE "DELETE", rid |-> work[s]]
           n  == Len(operations[s])
<1>0. TypeOK /\ Control
  BY DEF IInv, BInv
<1>1. /\ phase[s] \in {"log_insert", "log_delete"} /\ work[s] \in Rids
      /\ phase'[s] = "ready" /\ op \in Operation
      /\ UNCHANGED <<trx_id, commit_xid, cursor, used, begin_xid, end_xid>>
  BY <1>0 DEF LogOperation, heap, TypeOK, Control, Operation
<1>2. \A t \in Sessions \ {s} : /\ phase'[t] = phase[t] /\ work'[t] = work[t]
                                /\ operations'[t] = operations[t]
  BY <1>0 DEF LogOperation, TypeOK
<1>3. operations[s] \in Seq(Operation) /\ n \in Nat /\ operations'[s] = Append(operations[s], op)
  BY <1>0 DEF LogOperation, TypeOK
<1>a. /\ op.rid = work[s]
      /\ op.type = IF phase[s] = "log_insert" THEN "INSERT" ELSE "DELETE"
      /\ \A x : /\ op = [type |-> "INSERT", rid |-> x] <=> phase[s] = "log_insert" /\ work[s] = x
                /\ op = [type |-> "DELETE", rid |-> x] <=> phase[s] = "log_delete" /\ work[s] = x
  BY <1>1
<1> HIDE DEF op
<1>4. /\ Len(operations'[s]) = n + 1
      /\ operations'[s][n + 1] = op
      /\ \A i \in 1..n : operations'[s][i] = operations[s][i]
  BY <1>1, <1>3
<1>5. Pending(s) = 1..n /\ Pending(s)' = 1..(n + 1)
  BY <1>1, <1>4 DEF Pending
<1> HIDE DEF n
<1>6. \A x \in Rids : /\ Inserting(s, x)' <=> Inserting(s, x)
                      /\ Deleting(s, x)' <=> Deleting(s, x)
  <2> TAKE x \in Rids
  <2>1. \A type \in {"INSERT", "DELETE"} :
          Unfinished(s, type, x)' <=> Unfinished(s, type, x) \/ op = [type |-> type, rid |-> x]
    BY <1>3, <1>4, <1>5 DEF Unfinished
  <2> QED BY <1>a, <1>1, <2>1 DEF Inserting, Deleting
<1>7. \A t \in Sessions, x \in Rids : /\ Inserting(t, x)' <=> Inserting(t, x)
                                      /\ Deleting(t, x)' <=> Deleting(t, x)
  BY <1>1, <1>2, <1>6, Frame
<1>8. \A t \in Sessions \ {s} : Pending(t)' = Pending(t)
  BY <1>1, <1>2, Frame
<1>9. StampOwned'
  <2>1. StampOwned /\ used \subseteq Rids
    BY <1>0 DEF IInv, RInv, TypeOK
  <2> QED BY <2>1, <1>1, <1>7 DEF StampOwned
<1>10. PendingRowsIntact'
  BY <1>1, <1>7 DEF IInv, RInv, PendingRowsIntact
<1>11. FirstDeleterWins'
  BY <1>7 DEF IInv, RInv, FirstDeleterWins
<1>12. Ordered'
  <2>1. Ordered
    BY DEF IInv, RInv
  <2>2. ASSUME NEW i \in 1..(n + 1), NEW j \in 1..(n + 1), i # j,
               operations'[s][i].type = "INSERT", operations'[s][j].rid = operations'[s][i].rid
        PROVE  i < j /\ operations'[s][j].type = "DELETE"
    <3>1. CASE i <= n /\ j <= n
      <4>1. /\ i \in 1..n /\ j \in 1..n
            /\ operations'[s][i] = operations[s][i] /\ operations'[s][j] = operations[s][j]
        BY <3>1, <1>3, <1>4
      <4>2. OrderedBy(s) /\ i \in Pending(s) /\ j \in Pending(s)
        BY <4>1, <2>1, <1>5 DEF Ordered
      <4> QED BY ONLY <4>1, <4>2, <2>2 DEF OrderedBy
    <3>2. CASE i = n + 1
      <4>1. j \in 1..n /\ phase[s] = "log_insert" /\ operations[s][j].rid = work[s]
        BY <2>2, <3>2, <1>a, <1>1, <1>3, <1>4
      <4> QED BY <4>1, <2>1, <1>5 DEF Ordered, OrderedBy
    <3>3. CASE j = n + 1
      <4>1. i \in 1..n /\ operations[s][i].rid = work[s]
        BY <2>2, <3>3, <1>a, <1>3, <1>4
      <4>2. phase[s] # "log_insert"
        BY <4>1, <2>1, <1>5 DEF Ordered, OrderedBy
      <4> QED BY <3>3, <4>1, <4>2, <1>a, <1>3, <1>4
    <3>4. i = n + 1 \/ j = n + 1 \/ (i <= n /\ j <= n)
      BY <1>3
    <3> QED BY <3>1, <3>2, <3>3, <3>4
  <2>3. phase'[s] # "log_insert"
    BY <1>1
  <2>4. OrderedBy(s)'
    BY <2>2, <2>3, <1>5 DEF OrderedBy
  <2>5. \A t \in Sessions \ {s} : OrderedBy(t)'
    BY <2>1, <1>2, <1>8 DEF Ordered, OrderedBy
  <2> QED BY <2>4, <2>5 DEF Ordered
<1>13. Twice'
  <2> SUFFICES ASSUME NEW t \in Sessions PROVE TwiceBy(t)'
    BY DEF Twice
  <2>1. TwiceBy(t)
    BY DEF IInv, RInv, Twice
  <2>2. CASE t # s
    BY <2>1, <2>2, <1>1, <1>2, <1>8 DEF TwiceBy, OwnRow
  <2>3. CASE t = s
    <3>1. ASSUME NEW i \in 1..(n + 1), NEW j \in 1..(n + 1), i # j,
                 operations'[s][i].type = "DELETE", operations'[s][j].type = "DELETE",
                 operations'[s][j].rid = operations'[s][i].rid
          PROVE  OwnRow(s, operations'[s][i].rid)
      <4>1. CASE i <= n /\ j <= n
        <5>1. /\ i \in 1..n /\ j \in 1..n
              /\ operations'[s][i] = operations[s][i] /\ operations'[s][j] = operations[s][j]
          BY <4>1, <1>3, <1>4
        <5>2. TwiceBy(s) /\ i \in Pending(s) /\ j \in Pending(s)
          BY <5>1, <2>1, <2>3, <1>5
        <5> QED BY ONLY <5>1, <5>2, <3>1 DEF TwiceBy
      <4>2. CASE i = n + 1
        <5>1. j \in 1..n /\ phase[s] = "log_delete" /\ operations[s][j].rid = work[s]
              /\ operations[s][j].type = "DELETE" /\ operations'[s][i].rid = work[s]
          BY <3>1, <4>2, <1>a, <1>1, <1>3, <1>4
        <5> QED BY <5>1, <2>1, <2>3, <1>5 DEF TwiceBy
      <4>3. CASE j = n + 1
        <5>1. i \in 1..n /\ phase[s] = "log_delete" /\ operations[s][i].rid = work[s]
              /\ operations[s][i].type = "DELETE" /\ operations'[s][i].rid = work[s]
          BY <3>1, <4>3, <1>a, <1>1, <1>3, <1>4
        <5> QED BY <5>1, <2>1, <2>3, <1>5 DEF TwiceBy
      <4>4. i = n + 1 \/ j = n + 1 \/ (i <= n /\ j <= n)
        BY <1>3
      <4> QED BY <4>1, <4>2, <4>3, <4>4
    <3>2. \A x : OwnRow(s, x) => OwnRow(s, x)'
      BY <1>1 DEF OwnRow
    <3> QED BY <2>3, <3>1, <3>2, <1>1, <1>5 DEF TwiceBy
  <2> QED BY <2>2, <2>3
<1>14. DeleteStamp'
  <2> SUFFICES ASSUME NEW t \in Sessions, NEW x \in Rids, Deleting(t, x)' PROVE StampOf(t, x)'
    BY DEF DeleteStamp
  <2>1. StampOf(t, x)
    BY <1>7 DEF IInv, RInv, DeleteStamp
  <2>2. t = s => phase[t] \in {"log_insert", "log_delete"}
    BY <1>1
  <2> QED BY <2>1, <2>2, <1>1, <1>2 DEF StampOf
<1> QED BY <1>9, <1>10, <1>11, <1>12, <1>13, <1>14 DEF RInv

(* A step of commit's or rollback's loop ends one pending operation, c.    *)
LEMMA EndsOne ==
  ASSUME IInv, NEW s \in Sessions, NEW c \in Pending(s),
         operations' = operations, phase' = phase, work' = work,
         phase[s] \in {"commit", "rollback"},
         Pending(s)' = Pending(s) \ {c},
         \A t \in Sessions \ {s} : cursor'[t] = cursor[t],
         NEW r, r = operations[s][c].rid
  PROVE  /\ \A t \in Sessions : Pending(t)' \subseteq Pending(t)
         /\ \A t \in Sessions, x \in Rids :
              /\ Inserting(t, x)' => Inserting(t, x)
              /\ Deleting(t, x)' => Deleting(t, x)
         /\ \A t \in Sessions, x \in Rids :
              t # s \/ x # r \/ operations[s][c].type # "INSERT" => (Inserting(t, x) => Inserting(t, x)')
         /\ \A t \in Sessions, x \in Rids :
              t # s \/ x # r \/ operations[s][c].type # "DELETE" => (Deleting(t, x) => Deleting(t, x)')
         /\ FirstDeleterWins'
         /\ Ordered'
<1>1. \A t \in Sessions \ {s} : /\ Pending(t)' = Pending(t)
                                /\ \A x \in Rids : /\ Inserting(t, x)' <=> Inserting(t, x)
                                                   /\ Deleting(t, x)' <=> Deleting(t, x)
  BY Frame
<1>2. \A x \in Rids : /\ Inserting(s, x) <=> Unfinished(s, "INSERT", x)
                      /\ Deleting(s, x) <=> Unfinished(s, "DELETE", x)
                      /\ Inserting(s, x)' <=> Unfinished(s, "INSERT", x)'
                      /\ Deleting(s, x)' <=> Unfinished(s, "DELETE", x)'
  BY DEF Inserting, Deleting
<1>3. \A type, x : /\ Unfinished(s, type, x)' => Unfinished(s, type, x)
                   /\ x # r \/ operations[s][c].type # type
                      => (Unfinished(s, type, x) => Unfinished(s, type, x)')
  BY DEF Unfinished
<1>4. \A t \in Sessions, x \in Rids :
        /\ Inserting(t, x)' => Inserting(t, x)
        /\ Deleting(t, x)' => Deleting(t, x)
  BY <1>1, <1>2, <1>3
<1>5. \A t \in Sessions, x \in Rids :
        t # s \/ x # r \/ operations[s][c].type # "INSERT" => (Inserting(t, x) => Inserting(t, x)')
  BY <1>1, <1>2, <1>3
<1>6. \A t \in Sessions, x \in Rids :
        t # s \/ x # r \/ operations[s][c].type # "DELETE" => (Deleting(t, x) => Deleting(t, x)')
  BY <1>1, <1>2, <1>3
<1>7. \A t \in Sessions : Pending(t)' \subseteq Pending(t)
  BY <1>1
<1>8. FirstDeleterWins'
  BY <1>4 DEF IInv, RInv, FirstDeleterWins
<1>9. Ordered'
  <2> SUFFICES ASSUME NEW t \in Sessions PROVE OrderedBy(t)'
    BY DEF Ordered
  <2>1. OrderedBy(t) /\ Pending(t)' \subseteq Pending(t)
    BY <1>7 DEF IInv, RInv, Ordered
  <2> QED BY <2>1 DEF OrderedBy
<1> QED BY <1>4, <1>5, <1>6, <1>7, <1>8, <1>9

(* What is known of the operation that commit or rollback handles.         *)
LEMMA AtCursor ==
  ASSUME IInv, NEW s \in Sessions, NEW c \in Pending(s), phase[s] \in {"commit", "rollback"},
         NEW r, r = operations[s][c].rid
  PROVE  /\ r \in Rids /\ trx_id[s] \in Nat \ {0} /\ r \in used
         /\ operations[s][c].type = "INSERT" =>
              /\ Inserting(s, r) /\ begin_xid[r] = -trx_id[s]
              /\ \A t \in Sessions \ {s} : ~ Inserting(t, r) /\ ~ Deleting(t, r)
              /\ \A i \in Pending(s) \ {c} :
                   operations[s][i].rid = r => c < i /\ operations[s][i].type = "DELETE"
         /\ operations[s][c].type = "DELETE" =>
              /\ Deleting(s, r)
              /\ \A t \in Sessions \ {s} : ~ Inserting(t, r) /\ ~ Deleting(t, r)
              /\ \A i \in Pending(s) \ {c} : operations[s][i].type = "DELETE" /\ operations[s][i].rid = r
                   => OwnRow(s, r)
         /\ operations[s][c].type \in {"INSERT", "DELETE"}
<1>0. TypeOK /\ Control /\ IdsDistinct
  BY DEF IInv, BInv
<1>1. operations[s][c] \in Operation /\ trx_id[s] > 0 /\ c \in Nat
  BY <1>0, PendingTyped
<1>2. /\ r \in Rids /\ trx_id[s] \in Nat \ {0} /\ operations[s][c].type \in {"INSERT", "DELETE"}
      /\ operations[s][c] = [type |-> operations[s][c].type, rid |-> r]
  BY <1>0, <1>1 DEF Operation, TypeOK
<1>3. ASSUME operations[s][c].type = "INSERT"
      PROVE  /\ Inserting(s, r) /\ begin_xid[r] = -trx_id[s] /\ r \in used
             /\ \A t \in Sessions \ {s} : ~ Inserting(t, r) /\ ~ Deleting(t, r)
             /\ \A i \in Pending(s) \ {c} :
                  operations[s][i].rid = r => c < i /\ operations[s][i].type = "DELETE"
  <2>1. Inserting(s, r)
    BY <1>2, <1>3 DEF Inserting, Unfinished
  <2>2. r \in used /\ begin_xid[r] = -trx_id[s]
    BY <1>2, <2>1 DEF IInv, RInv, PendingRowsIntact
  <2>3. \A t \in Sessions \ {s} : ~ Deleting(t, r)
    BY <1>2, <2>1 DEF IInv, RInv, FirstDeleterWins
  <2>4. ASSUME NEW t \in Sessions \ {s}, Inserting(t, r) PROVE FALSE
    <3>1. begin_xid[r] = -trx_id[t] /\ trx_id[t] \in Int
      BY <1>0, <1>2, <2>4 DEF IInv, RInv, PendingRowsIntact, TypeOK
    <3>2. trx_id[t] = trx_id[s]
      BY <1>2, <2>2, <3>1
    <3> QED BY <1>0, <1>2, <3>2 DEF IdsDistinct
  <2>5. OrderedBy(s)
    BY DEF IInv, RInv, Ordered
  <2> QED BY <1>3, <2>1, <2>2, <2>3, <2>4, <2>5 DEF OrderedBy
<1>4. ASSUME operations[s][c].type = "DELETE"
      PROVE  /\ Deleting(s, r) /\ r \in used
             /\ \A t \in Sessions \ {s} : ~ Inserting(t, r) /\ ~ Deleting(t, r)
             /\ \A i \in Pending(s) \ {c} : operations[s][i].type = "DELETE" /\ operations[s][i].rid = r
                  => OwnRow(s, r)
  <2>1. Deleting(s, r)
    BY <1>2, <1>4 DEF Deleting, Unfinished
  <2>2. r \in used
    BY <1>2, <2>1 DEF IInv, RInv, PendingRowsIntact
  <2>3. \A t \in Sessions \ {s} : ~ Deleting(t, r) /\ ~ Inserting(t, r)
    BY <1>2, <2>1 DEF IInv, RInv, FirstDeleterWins
  <2>4. TwiceBy(s)
    BY DEF IInv, RInv, Twice
  <2> QED BY <1>4, <2>1, <2>2, <2>3, <2>4 DEF TwiceBy
<1> QED BY <1>2, <1>3, <1>4

(* One turn of commit_with_trx_id's loop.                                  *)
LEMMA CommitStep ==
  ASSUME IInv, NEW s \in Sessions, CommitOperation(s)
  PROVE  RInv'
<1> SUFFICES ASSUME NEW c, c = cursor[s], NEW op, op = operations[s][c], NEW r, r = op.rid
             PROVE  RInv'
  OBVIOUS
<1>0. TypeOK /\ Control /\ IdsDistinct
  BY DEF IInv, BInv
<1>1. /\ phase[s] = "commit" /\ c \in Nat \ {0} /\ c <= Len(operations[s]) /\ commit_xid[s] \in Nat \ {0}
      /\ Len(operations[s]) \in Nat /\ cursor'[s] = c + 1 /\ r \in used
      /\ UNCHANGED <<operations, phase, work, trx_id, commit_xid>>
  BY <1>0 DEF CommitOperation, TypeOK, Control
<1>2. \A t \in Sessions \ {s} : cursor'[t] = cursor[t]
  BY <1>0 DEF CommitOperation, TypeOK
<1>3. c \in Pending(s) /\ Pending(s)' = Pending(s) \ {c}
  BY <1>1 DEF Pending
<1>4. /\ r \in Rids /\ used' = used
      /\ op.type = "INSERT" => begin_xid'[r] = commit_xid[s] /\ end_xid'[r] = end_xid[r]
      /\ op.type # "INSERT" => end_xid'[r] = commit_xid[s] /\ begin_xid'[r] = begin_xid[r]
      /\ \A x \in Rids \ {r} : begin_xid'[x] = begin_xid[x] /\ end_xid'[x] = end_xid[x]
  <2>1. /\ r \in Rids /\ used \cup {r} = used
        /\ begin_xid \in [Rids -> Int] /\ end_xid \in [Rids -> Int]
    BY <1>0, <1>1 DEF TypeOK
  <2>2. used' = used \cup {r}
        /\ begin_xid' = [begin_xid EXCEPT ![r] = IF op.type = "INSERT" THEN commit_xid[s] ELSE begin_xid[r]]
        /\ end_xid' = [end_xid EXCEPT ![r] = IF op.type = "INSERT" THEN end_xid[r] ELSE commit_xid[s]]
    BY DEF CommitOperation, WriteRow
  <2> QED BY <2>1, <2>2
<1>5. op.type \in {"INSERT", "DELETE"} /\ trx_id[s] \in Nat \ {0}
  BY <1>1, <1>3, AtCursor
<1>6. /\ \A t \in Sessions : Pending(t)' \subseteq Pending(t)
      /\ \A t \in Sessions, x \in Rids :
           /\ Inserting(t, x)' => Inserting(t, x)
           /\ Deleting(t, x)' => Deleting(t, x)
      /\ \A t \in Sessions, x \in Rids :
           t # s \/ x # r \/ op.type # "INSERT" => (Inserting(t, x) => Inserting(t, x)')
      /\ \A t \in Sessions, x \in Rids :
           t # s \/ x # r \/ op.type # "DELETE" => (Deleting(t, x) => Deleting(t, x)')
  BY <1>1, <1>2, <1>3, EndsOne
<1>7. FirstDeleterWins' /\ Ordered'
  BY <1>1, <1>2, <1>3, EndsOne
<1>8. op.type = "INSERT" =>
        /\ begin_xid[r] = -trx_id[s]
        /\ \A t \in Sessions \ {s} : ~ Inserting(t, r) /\ ~ Deleting(t, r)
        /\ \A i \in Pending(s) \ {c} :
             operations[s][i].rid = r => c < i /\ operations[s][i].type = "DELETE"
  BY <1>1, <1>3, AtCursor
<1>9. op.type = "DELETE" =>
        /\ \A t \in Sessions \ {s} : ~ Inserting(t, r) /\ ~ Deleting(t, r)
        /\ \A i \in Pending(s) \ {c} : operations[s][i].type = "DELETE" /\ operations[s][i].rid = r
             => OwnRow(s, r)
  BY <1>1, <1>3, AtCursor
<1>10. op.type = "INSERT" => \A t \in Sessions : ~ Inserting(t, r)'
  <2> SUFFICES ASSUME op.type = "INSERT", Inserting(s, r)' PROVE FALSE
    BY <1>4, <1>6, <1>8
  <2>1. PICK i \in Pending(s)' : operations[s][i] = [type |-> "INSERT", rid |-> r]
    BY <1>1 DEF Inserting, Unfinished
  <2> QED BY <2>1, <1>3, <1>8
(* The insert comes first: when a delete is committed, the row has its     *)
(* begin stamp.                                                            *)
<1>11. op.type = "DELETE" => begin_xid[r] # -trx_id[s]
  <2> SUFFICES ASSUME op.type = "DELETE", begin_xid[r] = -trx_id[s] PROVE FALSE
    OBVIOUS
  <2>1. begin_xid[r] < 0
    BY <1>5
  <2>2. PICK u \in Sessions : Inserting(u, r)
    BY <1>1, <2>1 DEF IInv, RInv, StampOwned
  <2>3. u = s
    BY <2>2, <1>9
  <2>4. PICK i \in Pending(s) : operations[s][i] = [type |-> "INSERT", rid |-> r]
    BY <2>2, <2>3, <1>1 DEF Inserting, Unfinished
  <2>5. i # c /\ operations[s][i].type = "INSERT" /\ operations[s][c].rid = operations[s][i].rid
    BY <2>4
  <2>6. i < c
    BY <1>3, <2>5 DEF IInv, RInv, Ordered, OrderedBy
  <2>7. i \in c..Len(operations[s])
    BY <1>1 DEF Pending
  <2> QED BY <1>1, <2>6, <2>7
<1>12. StampOwned'
  <2>1. StampOwned /\ used \subseteq Rids
    BY <1>0 DEF IInv, RInv, TypeOK
  <2>2. \A x \in used : begin_xid'[x] < 0 => \E t \in Sessions : trx_id'[t] = -begin_xid'[x] /\ Inserting(t, x)'
    BY <2>1, <1>1, <1>4, <1>5, <1>6 DEF StampOwned
  <2>3. ASSUME NEW x \in used, end_xid'[x] < 0
        PROVE  \E t \in Sessions : trx_id'[t] = -end_xid'[x] /\ Deleting(t, x)'
    <3>a. x = r => op.type = "INSERT"
      BY <2>3, <1>1, <1>4, <1>5
    <3>1. x \in Rids /\ end_xid'[x] = end_xid[x] /\ (x # r \/ op.type # "DELETE")
      BY <3>a, <2>1, <2>3, <1>4
    <3>2. PICK t \in Sessions : trx_id[t] = -end_xid[x] /\ Deleting(t, x)
      BY <2>1, <2>3, <3>1 DEF StampOwned
    <3>3. Deleting(t, x)' /\ trx_id' = trx_id
      BY <3>1, <3>2, <1>1, <1>6
    <3> QED BY <3>1, <3>2, <3>3
  <2> QED BY <2>2, <2>3, <1>4 DEF StampOwned
<1>13. PendingRowsIntact'
  BY <1>1, <1>4, <1>6, <1>10 DEF IInv, RInv, PendingRowsIntact
<1>14. Twice'
  <2> SUFFICES ASSUME NEW t \in Sessions PROVE TwiceBy(t)'
    BY DEF Twice
  <2>1. TwiceBy(t) /\ Pending(t)' \subseteq Pending(t)
    BY <1>6 DEF IInv, RInv, Twice
  <2>2. \A x \in Rids : Deleting(t, x) /\ OwnRow(t, x) => OwnRow(t, x)'
    BY <1>1, <1>4, <1>8 DEF OwnRow
  <2>3. \A i \in Pending(t) : /\ operations[t][i].rid \in Rids
                              /\ operations[t][i].type = "DELETE" => Deleting(t, operations[t][i].rid)
    <3> TAKE i \in Pending(t)
    <3>1. operations[t][i] \in Operation
      BY <1>0, PendingTyped
    <3> QED BY <3>1 DEF Operation, Deleting, Unfinished
  <2>4. phase[t] = "log_delete" => work[t] \in Rids /\ Deleting(t, work[t])
    BY <1>0 DEF Control, Deleting
  <2> QED BY <2>1, <2>2, <2>3, <2>4, <1>1 DEF TwiceBy
<1>15. DeleteStamp'
  <2> SUFFICES ASSUME NEW t \in Sessions, NEW x \in Rids, Deleting(t, x)' PROVE StampOf(t, x)'
    BY DEF DeleteStamp
  <2>1. Deleting(t, x) /\ StampOf(t, x)
    BY <1>6 DEF IInv, RInv, DeleteStamp
  <2>2. CASE x # r
    BY <2>1, <2>2, <1>1, <1>4 DEF StampOf
  <2>3. CASE x = r /\ op.type = "INSERT"
    <3>1. t = s
      BY <2>1, <2>3, <1>8
    <3>2. end_xid[x] = -trx_id[s]
      BY <2>1, <2>3, <3>1, <1>1, <1>5, <1>8 DEF StampOf
    <3> QED BY <2>3, <3>1, <3>2, <1>1, <1>4 DEF StampOf
  <2>4. CASE x = r /\ op.type = "DELETE"
    <3>1. t = s
      BY <2>1, <2>4, <1>9
    <3>2. PICK i \in Pending(s)' : operations[s][i] = [type |-> "DELETE", rid |-> r]
      BY <2>4, <3>1, <1>1 DEF Deleting, Unfinished
    <3>3. OwnRow(s, r)
      BY <2>4, <3>2, <1>3, <1>9
    <3>4. begin_xid[r] = commit_xid[s]
      BY <2>4, <3>3, <1>11 DEF OwnRow
    <3> QED BY <2>4, <3>1, <3>4, <1>1, <1>4 DEF StampOf
  <2> QED BY <2>2, <2>3, <2>4, <1>5
<1> QED BY <1>7, <1>12, <1>13, <1>14, <1>15 DEF RInv

(* One turn of rollback's loop.                                            *)
LEMMA RollbackStep ==
  ASSUME IInv, NEW s \in Sessions, RollbackOperation(s)
  PROVE  RInv'
<1> SUFFICES ASSUME NEW c, c = cursor[s], NEW op, op = operations[s][c], NEW r, r = op.rid
             PROVE  RInv'
  OBVIOUS
<1>0. TypeOK /\ Control /\ IdsDistinct
  BY DEF IInv, BInv
<1>1. /\ phase[s] = "rollback" /\ c \in Nat \ {0} /\ c <= Len(operations[s])
      /\ Len(operations[s]) \in Nat /\ cursor'[s] = c - 1 /\ r \in used
      /\ UNCHANGED <<operations, phase, work, trx_id, commit_xid>>
  BY <1>0 DEF RollbackOperation, TypeOK, Control
<1>2. \A t \in Sessions \ {s} : cursor'[t] = cursor[t]
  BY <1>0 DEF RollbackOperation, TypeOK
<1>3. c \in Pending(s) /\ Pending(s)' = Pending(s) \ {c}
  BY <1>1 DEF Pending
<1>4. /\ r \in Rids /\ MAX_TRX_ID \in Nat
      /\ op.type = "INSERT" => used' = used \ {r}
      /\ op.type = "DELETE" => /\ used' = used
                               /\ end_xid'[r] = MAX_TRX_ID /\ begin_xid'[r] = begin_xid[r]
      /\ \A x \in Rids \ {r} : begin_xid'[x] = begin_xid[x] /\ end_xid'[x] = end_xid[x]
  <2>1. /\ r \in Rids /\ used \cup {r} = used /\ MAX_TRX_ID \in Nat
        /\ begin_xid \in [Rids -> Int] /\ end_xid \in [Rids -> Int]
    BY SMTT(30), <1>0, <1>1, BoundsAssumption DEF TypeOK
  <2>2. \/ /\ op.type = "INSERT" /\ used' = used \ {r}
           /\ begin_xid' = [begin_xid EXCEPT ![r] = 0]
           /\ end_xid' = [end_xid EXCEPT ![r] = 0]
        \/ /\ op.type = "DELETE" /\ used' = used \cup {r}
           /\ begin_xid' = [begin_xid EXCEPT ![r] = begin_xid[r]]
           /\ end_xid' = [end_xid EXCEPT ![r] = MAX_TRX_ID]
    BY DEF RollbackOperation, WriteRow
  <2> QED BY <2>1, <2>2
<1>5. op.type \in {"INSERT", "DELETE"} /\ trx_id[s] \in Nat \ {0}
  BY <1>1, <1>3, AtCursor
<1>6. /\ \A t \in Sessions : Pending(t)' \subseteq Pending(t)
      /\ \A t \in Sessions, x \in Rids :
           /\ Inserting(t, x)' => Inserting(t, x)
           /\ Deleting(t, x)' => Deleting(t, x)
      /\ \A t \in Sessions, x \in Rids :
           t # s \/ x # r \/ op.type # "INSERT" => (Inserting(t, x) => Inserting(t, x)')
      /\ \A t \in Sessions, x \in Rids :
           t # s \/ x # r \/ op.type # "DELETE" => (Deleting(t, x) => Deleting(t, x)')
  BY <1>1, <1>2, <1>3, EndsOne
<1>7. FirstDeleterWins' /\ Ordered'
  BY <1>1, <1>2, <1>3, EndsOne
<1>8. op.type = "INSERT" =>
        /\ \A t \in Sessions \ {s} : ~ Inserting(t, r) /\ ~ Deleting(t, r)
        /\ \A i \in Pending(s) \ {c} : operations[s][i].rid = r => c < i
  BY <1>1, <1>3, AtCursor
<1>9. op.type = "DELETE" =>
        /\ \A t \in Sessions \ {s} : ~ Inserting(t, r) /\ ~ Deleting(t, r)
        /\ \A i \in Pending(s) \ {c} : operations[s][i].type = "DELETE" /\ operations[s][i].rid = r
             => OwnRow(s, r)
  BY <1>1, <1>3, AtCursor
(* The insert comes first, so it is undone last: nothing is left to undo   *)
(* on a row that is removed.                                               *)
<1>10. op.type = "INSERT" => \A t \in Sessions : ~ Inserting(t, r)' /\ ~ Deleting(t, r)'
  <2> SUFFICES ASSUME op.type = "INSERT", Inserting(s, r)' \/ Deleting(s, r)' PROVE FALSE
    BY <1>4, <1>6, <1>8
  <2>1. PICK i \in Pending(s)' : operations[s][i].rid = r
    BY <1>1 DEF Inserting, Deleting, Unfinished
  <2>2. c < i
    BY <2>1, <1>3, <1>8
  <2>3. i \in 1..c
    BY <2>1, <1>1, <1>3 DEF Pending
  <2> QED BY <1>1, <2>2, <2>3
<1>12. StampOwned'
  <2>1. StampOwned /\ used \subseteq Rids
    BY <1>0 DEF IInv, RInv, TypeOK
  <2>2. \A x \in used' : begin_xid'[x] < 0 => \E t \in Sessions : trx_id'[t] = -begin_xid'[x] /\ Inserting(t, x)'
    BY <2>1, <1>1, <1>4, <1>5, <1>6 DEF StampOwned
  <2>3. \A x \in used' : end_xid'[x] < 0 => \E t \in Sessions : trx_id'[t] = -end_xid'[x] /\ Deleting(t, x)'
    BY <2>1, <1>1, <1>4, <1>5, <1>6 DEF StampOwned
  <2> QED BY <2>2, <2>3 DEF StampOwned
<1>13. PendingRowsIntact'
  BY <1>1, <1>4, <1>5, <1>6, <1>10 DEF IInv, RInv, PendingRowsIntact
<1>14. Twice'
  <2> SUFFICES ASSUME NEW t \in Sessions PROVE TwiceBy(t)'
    BY DEF Twice
  <2>1. TwiceBy(t) /\ Pending(t)' \subseteq Pending(t)
    BY <1>6 DEF IInv, RInv, Twice
  <2>2. \A x \in Rids : Deleting(t, x)' /\ OwnRow(t, x) => OwnRow(t, x)'
    BY <1>1, <1>4, <1>5, <1>10 DEF OwnRow
  <2>3. \A i \in Pending(t)' : /\ operations[t][i].rid \in Rids
                               /\ operations[t][i].type = "DELETE" => Deleting(t, operations[t][i].rid)'
    <3> TAKE i \in Pending(t)'
    <3>1. operations[t][i] \in Operation
      BY <1>0, <2>1, PendingTyped
    <3> QED BY <3>1, <1>1 DEF Operation, Deleting, Unfinished
  <2>4. phase[t] = "log_delete" => work[t] \in Rids /\ Deleting(t, work[t])'
    BY <1>0, <1>1 DEF Control, Deleting
  <2> QED BY <2>1, <2>2, <2>3, <2>4, <1>1 DEF TwiceBy
<1>15. DeleteStamp'
  <2> SUFFICES ASSUME NEW t \in Sessions, NEW x \in Rids, Deleting(t, x)' PROVE StampOf(t, x)'
    BY DEF DeleteStamp
  <2>1. Deleting(t, x) /\ StampOf(t, x)
    BY <1>6 DEF IInv, RInv, DeleteStamp
  <2>2. CASE x # r
    BY <2>1, <2>2, <1>1, <1>4 DEF StampOf
  <2>3. CASE x = r /\ op.type = "DELETE"
    <3>1. t = s
      BY <2>1, <2>3, <1>9
    <3>2. PICK i \in Pending(s)' : operations[s][i] = [type |-> "DELETE", rid |-> r]
      BY <2>3, <3>1, <1>1 DEF Deleting, Unfinished
    <3>3. OwnRow(s, r)
      BY <2>3, <3>2, <1>3, <1>9
    <3>4. begin_xid[r] = -trx_id[s]
      BY <3>3, <1>1 DEF OwnRow
    <3> QED BY <2>3, <3>1, <3>4, <1>1, <1>4 DEF StampOf
  <2> QED BY <2>2, <2>3, <1>5, <1>10
<1> QED BY <1>7, <1>12, <1>13, <1>14, <1>15 DEF RInv

(* Every step preserves the invariant.                                     *)
LEMMA IInvNext ==
  ASSUME IInv, [Next]_vars
  PROVE  IInv'
<1>1. BInv'
  BY BNext DEF IInv
<1>2. ASSUME NEW s \in Sessions, Statement(s) \/ Proceed(s)
      PROVE  RInv'
  BY <1>2, QuietSteps, InsertStep, DeleteStep, LogStep, CommitStep, RollbackStep
     DEF Statement, Proceed
<1>3. CASE FlushLog \/ UNCHANGED vars
  <2>1. UNCHANGED <<used, begin_xid, end_xid, trx_id, commit_xid, operations, phase, cursor, work>>
    BY <1>3 DEF FlushLog, vars, heap, thread
  <2>2. \A t \in Sessions : Pending(t)' = Pending(t)
    BY <2>1, Frame
  <2>3. \A t \in Sessions, r \in Rids : /\ Inserting(t, r)' <=> Inserting(t, r)
                                        /\ Deleting(t, r)' <=> Deleting(t, r)
    BY <2>1, Frame
  <2>4. used \subseteq Rids /\ StampOwned
    BY DEF IInv, BInv, RInv, TypeOK
  <2>5. StampOwned'
    BY <2>1, <2>3, <2>4 DEF StampOwned
  <2>6. PendingRowsIntact' /\ FirstDeleterWins'
    BY <2>1, <2>3 DEF IInv, RInv, PendingRowsIntact, FirstDeleterWins
  <2>7. Ordered' /\ Twice' /\ DeleteStamp'
    BY <2>1, <2>2, <2>3 DEF IInv, RInv, Ordered, OrderedBy, Twice, TwiceBy, OwnRow, DeleteStamp, StampOf
  <2> QED BY <1>1, <2>5, <2>6, <2>7 DEF RInv, IInv
<1> QED BY <1>1, <1>2, <1>3 DEF Next, IInv

-----------------------------------------------------------------------------
(* The invariant holds in every reachable state.                           *)
THEOREM Invariant == Spec => []IInv
<1>1. Init => IInv
  BY InitIInv
<1>2. IInv /\ [Next]_vars => IInv'
  BY IInvNext
<1> QED BY <1>1, <1>2, PTL DEF Spec

(* Every variable keeps its type.                                          *)
THEOREM TypeCorrect == Spec => []TypeOK
<1>1. IInv => TypeOK
  BY DEF IInv, BInv
<1> QED BY <1>1, Invariant, PTL

(* Transaction numbers and commit numbers never coincide (next_trx_id).    *)
THEOREM NumbersNeverCoincide == Spec => []IdsDistinct
<1>1. IInv => IdsDistinct
  BY DEF IInv, BInv
<1> QED BY <1>1, Invariant, PTL

(* No row stays locked by a transaction that cannot end the lock any more  *)
(* (visit_record, commit_with_trx_id, rollback).                           *)
THEOREM StampsAreOwned == Spec => []StampOwned
<1>1. IInv => StampOwned
  BY DEF IInv, RInv
<1> QED BY <1>1, Invariant, PTL

(* Two transactions never hold unfinished deletes of one row               *)
(* (delete_record).                                                        *)
THEOREM DeleteExcludes == Spec => []FirstDeleterWins
<1>1. IInv => FirstDeleterWins
  BY DEF IInv, RInv
<1> QED BY <1>1, Invariant, PTL

(* commit and rollback find the rows of all their operations.              *)
THEOREM RowsAreFound == Spec => []PendingRowsIntact
<1>1. IInv => PendingRowsIntact
  BY DEF IInv, RInv
<1> QED BY <1>1, Invariant, PTL

(* What a step of commit or rollback does to a row.                        *)
LEMMA LoopStep ==
  ASSUME IInv, NEW s \in Sessions, NEW r \in Rids, r \in used, begin_xid[r] > 0,
         CommitOperation(s) \/ RollbackOperation(s)
  PROVE  /\ r \in used' /\ begin_xid'[r] = begin_xid[r]
         /\ \/ end_xid'[r] = end_xid[r]
            \/ phase[s] = "commit" /\ Deleting(s, r) /\ end_xid'[r] = commit_xid[s]
            \/ phase[s] = "rollback" /\ end_xid'[r] = MAX_TRX_ID
<1> SUFFICES ASSUME NEW c, c = cursor[s], NEW op, op = operations[s][c], NEW x, x = op.rid
             PROVE  /\ r \in used' /\ begin_xid'[r] = begin_xid[r]
                    /\ \/ end_xid'[r] = end_xid[r]
                       \/ phase[s] = "commit" /\ Deleting(s, r) /\ end_xid'[r] = commit_xid[s]
                       \/ phase[s] = "rollback" /\ end_xid'[r] = MAX_TRX_ID
  OBVIOUS
<1>0. TypeOK /\ Control
  BY DEF IInv, BInv
<1>1. c \in Pending(s) /\ phase[s] \in {"commit", "rollback"}
  BY <1>0 DEF CommitOperation, RollbackOperation, Pending, Control, TypeOK
<1>2. /\ x \in Rids /\ op.type \in {"INSERT", "DELETE"} /\ trx_id[s] \in Nat \ {0}
      /\ op.type = "INSERT" => begin_xid[x] = -trx_id[s]
      /\ op.type = "DELETE" => Deleting(s, x)
  BY <1>1, AtCursor
<1>3. begin_xid \in [Rids -> Int] /\ end_xid \in [Rids -> Int]
  BY <1>0 DEF TypeOK
<1>4. CASE x = r
  <2>1. op.type = "DELETE"
    BY <1>2, <1>4
  <2>2. CASE CommitOperation(s)
    BY <2>1, <2>2, <1>2, <1>3, <1>4 DEF CommitOperation, WriteRow
  <2>3. CASE RollbackOperation(s)
    BY SMTT(30), <2>1, <2>3, <1>2, <1>3, <1>4 DEF RollbackOperation, WriteRow
  <2> QED BY <2>2, <2>3
<1>5. CASE x # r
  <2>1. CASE CommitOperation(s)
    BY SMTT(30), <2>1, <1>2, <1>3, <1>5 DEF CommitOperation, WriteRow
  <2>2. CASE RollbackOperation(s)
    BY <2>2, <1>2, <1>3, <1>5 DEF RollbackOperation, WriteRow
  <2> QED BY <2>1, <2>2
<1> QED BY <1>4, <1>5

(* The other steps leave a committed row alone, or stamp its end.          *)
LEMMA OtherStep ==
  ASSUME IInv, [Next]_vars, NEW r \in Rids, r \in used,
         \A s \in Sessions : ~ CommitOperation(s) /\ ~ RollbackOperation(s)
  PROVE  /\ r \in used' /\ begin_xid'[r] = begin_xid[r]
         /\ \/ end_xid'[r] = end_xid[r]
            \/ \E s \in Sessions : s \in started /\ end_xid'[r] = -trx_id[s]
<1>0. begin_xid \in [Rids -> Int] /\ end_xid \in [Rids -> Int]
  BY DEF IInv, BInv, TypeOK
<1>1. ASSUME NEW s \in Sessions, NEW x \in Rids, InsertRecord(s, x)
      PROVE  r \in used' /\ begin_xid'[r] = begin_xid[r] /\ end_xid'[r] = end_xid[r]
  BY <1>0, <1>1 DEF InsertRecord, WriteRow
<1>2. ASSUME NEW s \in Sessions, NEW x \in Rids, DeleteRecord(s, x)
      PROVE  /\ r \in used' /\ begin_xid'[r] = begin_xid[r]
             /\ end_xid'[r] = end_xid[r] \/ (s \in started /\ end_xid'[r] = -trx_id[s])
  BY <1>0, <1>2 DEF DeleteRecord, WriteRow
<1>3. ASSUME NEW s \in Sessions,
             \/ StartIfNeed(s) \/ Commit(s) \/ Rollback(s) \/ LogOperation(s)
             \/ AppendCommit(s) \/ CommitDone(s) \/ RollbackDone(s)
      PROVE  UNCHANGED heap
  BY <1>3 DEF StartIfNeed, Commit, Rollback, LogOperation, AppendCommit, CommitDone, RollbackDone
<1>4. FlushLog \/ UNCHANGED vars => UNCHANGED heap
  BY DEF FlushLog, vars
<1> QED BY <1>1, <1>2, <1>3, <1>4 DEF Next, Statement, Proceed, heap

(* A committed insert is permanent: no later step, and no rollback,        *)
(* removes it or changes its begin stamp.                                  *)
THEOREM InsertsStay == Spec => CommittedInsertStays
<1>1. ASSUME IInv, [Next]_vars
      PROVE  [\A r \in used : begin_xid[r] > 0 => r \in used' /\ begin_xid'[r] = begin_xid[r]]_vars
  <2> SUFFICES ASSUME NEW r \in used, begin_xid[r] > 0
               PROVE  r \in used' /\ begin_xid'[r] = begin_xid[r]
    OBVIOUS
  <2>1. r \in Rids
    BY <1>1 DEF IInv, BInv, TypeOK
  <2>2. CASE \E s \in Sessions : CommitOperation(s) \/ RollbackOperation(s)
    BY <1>1, <2>1, <2>2, LoopStep
  <2>3. CASE \A s \in Sessions : ~ CommitOperation(s) /\ ~ RollbackOperation(s)
    BY <1>1, <2>1, <2>3, OtherStep
  <2> QED BY <2>2, <2>3
<1>2. IInv /\ [Next]_vars =>
        [\A r \in used : begin_xid[r] > 0 => r \in used' /\ begin_xid'[r] = begin_xid[r]]_vars
  BY <1>1
<1> QED BY <1>2, Invariant, PTL DEF Spec, CommittedInsertStays

(* One step of what ReadsRepeat says.                                      *)
LEMMA ReadStep ==
  ASSUME IInv, [Next]_vars, NEW s \in Sessions, NEW r \in Rids,
         InSnapshot(s, r), s \in started', trx_id'[s] = trx_id[s]
  PROVE  \/ VisitRecord(trx_id[s], begin_xid'[r], end_xid'[r], "READ_ONLY") = "SUCCESS"
         \/ end_xid'[r] = -trx_id[s]
         \/ \E t \in Sessions : /\ phase[t] = "commit" /\ Deleting(t, r)
                                /\ commit_xid[t] < trx_id[s]
                                /\ end_xid'[r] = commit_xid[t]
<1>0. TypeOK /\ Control /\ Numbers /\ IdsDistinct
  BY DEF IInv, BInv
<1>1. /\ r \in used /\ s \in started
      /\ begin_xid[r] \in Nat \ {0} /\ end_xid[r] \in Int /\ begin_xid[r] <= trx_id[s]
      /\ trx_id[s] \in Nat \ {0} /\ trx_id[s] <= MAX_TRX_ID /\ MAX_TRX_ID \in Nat
      /\ VisitRecord(trx_id[s], begin_xid[r], end_xid[r], "READ_ONLY") = "SUCCESS"
  <2>1. /\ r \in used /\ s \in started /\ begin_xid[r] > 0 /\ begin_xid[r] <= trx_id[s]
        /\ VisitRecord(trx_id[s], begin_xid[r], end_xid[r], "READ_ONLY") = "SUCCESS"
    BY DEF InSnapshot, Visit
  <2>2. begin_xid[r] \in Int /\ end_xid[r] \in Int /\ trx_id[s] \in Int
    BY <1>0 DEF TypeOK
  <2>3. trx_id[s] > 0
    BY <1>0, <2>1 DEF Control
  <2>4. trx_id[s] <= MAX_TRX_ID /\ MAX_TRX_ID \in Nat
    <3>1. trx_id[s] \in 1..current_trx_id
      BY <1>0, <2>3 DEF Numbers
    <3>2. current_trx_id \in 0..IdBound
      BY <1>0 DEF TypeOK
    <3> QED BY <3>1, <3>2, <2>2, BoundsAssumption
  <2> QED BY <2>1, <2>2, <2>3, <2>4
<1>2. CASE end_xid'[r] = end_xid[r] /\ begin_xid'[r] = begin_xid[r]
  BY <1>1, <1>2
<1>3. ASSUME NEW t \in Sessions, CommitOperation(t) \/ RollbackOperation(t)
      PROVE  /\ begin_xid'[r] = begin_xid[r]
             /\ \/ end_xid'[r] = end_xid[r]
                \/ phase[t] = "commit" /\ Deleting(t, r) /\ end_xid'[r] = commit_xid[t]
                \/ end_xid'[r] = MAX_TRX_ID
  BY <1>1, <1>3, LoopStep
<1>4. ASSUME NEW t \in Sessions, phase[t] = "commit", Deleting(t, r), end_xid'[r] = commit_xid[t],
             begin_xid'[r] = begin_xid[r], ~ (commit_xid[t] < trx_id[s])
      PROVE  VisitRecord(trx_id[s], begin_xid'[r], end_xid'[r], "READ_ONLY") = "SUCCESS"
  <2>1. commit_xid[t] \in Nat
    BY <1>0 DEF Numbers, TypeOK
  <2> QED BY <1>1, <1>4, <2>1 DEF VisitRecord
<1>5. ASSUME end_xid'[r] = MAX_TRX_ID, begin_xid'[r] = begin_xid[r]
      PROVE  VisitRecord(trx_id[s], begin_xid'[r], end_xid'[r], "READ_ONLY") = "SUCCESS"
  BY <1>1, <1>5 DEF VisitRecord
<1>6. ASSUME NEW t \in Sessions, t \in started, end_xid'[r] = -trx_id[t], begin_xid'[r] = begin_xid[r], t # s
      PROVE  VisitRecord(trx_id[s], begin_xid'[r], end_xid'[r], "READ_ONLY") = "SUCCESS"
  <2>1. trx_id[t] \in Nat \ {0} /\ trx_id[t] # trx_id[s]
    <3>1. trx_id[t] > 0 /\ trx_id[t] \in Int
      BY <1>0, <1>6 DEF Control, TypeOK
    <3> QED BY <3>1, <1>0, <1>6 DEF IdsDistinct
  <2>2. begin_xid[r] >= 0 /\ ~ (begin_xid[r] > 0 /\ -trx_id[t] > 0) /\ ~ (begin_xid[r] < 0)
        /\ -trx_id[t] < 0 /\ -(-trx_id[t]) # trx_id[s]
    BY <1>1, <2>1
  <2> QED BY ONLY <1>6, <2>2 DEF VisitRecord
<1>7. CASE \E t \in Sessions : CommitOperation(t) \/ RollbackOperation(t)
  BY <1>2, <1>3, <1>4, <1>5, <1>7
<1>8. CASE \A t \in Sessions : ~ CommitOperation(t) /\ ~ RollbackOperation(t)
  <2>1. /\ begin_xid'[r] = begin_xid[r]
        /\ \/ end_xid'[r] = end_xid[r]
           \/ \E t \in Sessions : t \in started /\ end_xid'[r] = -trx_id[t]
    BY <1>1, <1>8, OtherStep
  <2> QED BY <2>1, <1>2, <1>6
<1> QED BY <1>7, <1>8

(* Reads repeat: a running transaction loses a committed row of its range  *)
(* only to its own delete or to a commit numbered before it that stamps    *)
(* the row late (visit_record, commit_with_trx_id).                        *)
THEOREM ReadsAreRepeatable == Spec => ReadsRepeat
<1> DEFINE Repeats ==
      \A s \in Sessions, r \in Rids :
        InSnapshot(s, r) /\ s \in started' /\ trx_id'[s] = trx_id[s]
          => \/ VisitRecord(trx_id[s], begin_xid'[r], end_xid'[r], "READ_ONLY") = "SUCCESS"
             \/ end_xid'[r] = -trx_id[s]
             \/ \E t \in Sessions : /\ phase[t] = "commit" /\ Deleting(t, r)
                                    /\ commit_xid[t] < trx_id[s]
                                    /\ end_xid'[r] = commit_xid[t]
<1>1. IInv /\ [Next]_vars => Repeats
  BY ReadStep
<1>2. IInv /\ [Next]_vars => [Repeats]_vars
  BY <1>1
<1>3. Spec => [][Repeats]_vars
  BY <1>2, Invariant, PTL DEF Spec
<1> QED BY <1>3 DEF ReadsRepeat
=============================================================================
