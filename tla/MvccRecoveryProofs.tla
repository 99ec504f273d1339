------------------------ MODULE MvccRecoveryProofs ------------------------
(***************************************************************************)
(* Proofs about MvccRecovery: a committed insert survives any sequence of  *)
(* crashes, and commit returns when all it stamped is on disk, for any     *)
(* number of sessions, rows, log entries and crashes.                      *)
(*                                                                         *)
(* The invariant of MvccTrxProofs does not survive a crash: rows keep the  *)
(* stamps of transactions that are gone, and numbers are handed out again. *)
(* The invariant here does without numbers.  It says which rows are        *)
(* settled: no transaction has an insert into them to commit or to undo,   *)
(* and from some entry on all their images in the log have the commit      *)
(* number.                                                                 *)
(***************************************************************************)
EXTENDS MvccRecovery, MvccTrxProofs, WellFoundedInduction

TrxEntryTypes == {"INSERT_RECORD", "DELETE_RECORD", "COMMIT", "ROLLBACK"}

Entry ==
  [module : {"RECORD_MANAGER"}, rid : Rids, set : BOOLEAN, begin : Int, end : Int]
    \cup [module : {"TRANSACTION"}, type : TrxEntryTypes, trx_id : Int, rid : Rids \cup {NoRid}, commit : Int]

IsImage(k, r) == clog[k].module = "RECORD_MANAGER" /\ clog[k].rid = r

(* Entry k is an image of row r with begin stamp c.                        *)
BeginsAt(k, r, c) == IsImage(k, r) /\ clog[k].set /\ clog[k].begin = c
EndsAt(k, r, c)   == IsImage(k, r) /\ clog[k].end = c

(* The row has begin stamp c for good, and that is in the log's first n    *)
(* entries.                                                                *)
Settled(r, c, n) ==
  /\ r \in used /\ begin_xid[r] = c
  /\ \A s \in Sessions : ~ Inserting(s, r)
  /\ \E k \in 1..n : /\ BeginsAt(k, r, c)
                     /\ \A j \in k..lsn : IsImage(j, r) => BeginsAt(j, r, c)

(* The operations that commit has stamped, and how far in the log they are. *)
Stamped(s) == CASE phase[s] = "commit"      -> 1..(cursor[s] - 1)
                [] phase[s] = "commit_wait" -> 1..Len(operations[s])
                [] OTHER                    -> {}
LogEnd(s)  == IF phase[s] = "commit_wait" THEN wait_lsn[s] ELSE lsn

LogOK ==
  /\ clog \in Seq(Entry) /\ Len(clog) = lsn /\ flushed <= lsn
  /\ restarts \in Nat
  /\ \A s \in Sessions : trx_id[s] <= IdBound /\ (phase[s] = "commit_wait" => wait_lsn[s] <= lsn)
  /\ \A k \in 1..lsn : clog[k].module = "TRANSACTION" => clog[k].trx_id <= IdBound

(* Where a thread can be in its loops, after crashes too.                   *)
Loops ==
  \A s \in Sessions :
    /\ phase[s] \in {"log_insert", "log_delete"} => work[s] \in Rids
    /\ phase[s] = "commit" => cursor[s] \in 1..(Len(operations[s]) + 1)
    /\ phase[s] = "rollback" => cursor[s] <= Len(operations[s])

(* A slot has at most one unfinished insert.                                *)
OneInsert ==
  /\ \A s \in Sessions, r \in Rids : Inserting(s, r) => r \in used
  /\ \A s, t \in Sessions, r \in Rids : Inserting(s, r) /\ Inserting(t, r) => s = t
  /\ \A s \in Sessions : \A i, j \in Pending(s) :
       /\ operations[s][i].type = "INSERT" /\ operations[s][j].type = "INSERT"
       /\ operations[s][i].rid = operations[s][j].rid
       => i = j
  /\ \A s \in Sessions : phase[s] = "log_insert" =>
       \A i \in Pending(s) : operations[s][i].type = "INSERT" => operations[s][i].rid # work[s]

InsertDone(s, r) == \E i \in Stamped(s) : operations[s][i] = [type |-> "INSERT", rid |-> r]
DeleteDone(s, r) == \E i \in Stamped(s) : operations[s][i] = [type |-> "DELETE", rid |-> r]

StampedLogged ==
  \A s \in Sessions, r \in Rids :
    \A c \in {commit_xid[s]}, n \in {LogEnd(s)} :
      /\ InsertDone(s, r) => Settled(r, c, n)
      /\ DeleteDone(s, r) => \E k \in 1..n : EndsAt(k, r, c)

AckedSettled ==
  \A a \in acked : \E r \in Rids, c \in Int : a = <<r, c>> /\ \A n \in {flushed} : Settled(r, c, n)

RecInv == TypeOK /\ LogOK /\ Loops /\ OneInsert /\ StampedLogged /\ AckedSettled

-----------------------------------------------------------------------------
(* A non-empty set of integers with an upper bound has a maximum.          *)
LEMMA MaxExists ==
  ASSUME NEW S, S \subseteq Int, S # {}, NEW b \in Int, \A x \in S : x <= b
  PROVE  Max(S) \in S /\ \A y \in S : y <= Max(S)
<1> DEFINE T == {n \in Nat : \E x \in S : n = b - x}
           P(x) == \A y \in S : x >= y
<1>1. T \subseteq Nat /\ T # {}
  <2>1. PICK x \in S : TRUE
    OBVIOUS
  <2>2. b - x \in T
    BY <2>1
  <2> QED BY <2>2
<1>2. PICK n \in T : \A y \in T : ~ (<<y, n>> \in OpToRel(<, Nat))
  <2> HIDE DEF T
  <2> QED BY <1>1, WFMin, NatLessThanWellFounded
<1>3. \A y \in T : ~ (y < n)
  <2> SUFFICES ASSUME NEW y \in T, y < n PROVE FALSE
    OBVIOUS
  <2>1. <<y, n>> \in OpToRel(<, Nat)
    BY DEF OpToRel
  <2> QED BY <2>1, <1>2
<1>4. PICK x \in S : n = b - x
  OBVIOUS
<1>5. P(x)
  <2> SUFFICES ASSUME NEW y \in S PROVE x >= y
    OBVIOUS
  <2>1. b - y \in T
    OBVIOUS
  <2>2. ~ (b - y < b - x)
    BY <2>1, <1>3, <1>4
  <2>3. x \in Int /\ y \in Int
    OBVIOUS
  <2> QED BY ONLY <2>2, <2>3, b \in Int
<1>6. Max(S) \in S /\ P(Max(S))
  <2>1. Max(S) = CHOOSE z \in S : P(z)
    BY DEF Max
  <2> HIDE DEF P
  <2> QED BY <1>5, <2>1
<1> QED BY <1>6

LEMMA EntryTyped ==
  /\ \A r \in Rids, b, e \in Int, set \in BOOLEAN : RowEntry(r, b, e, set) \in Entry
  /\ \A type \in TrxEntryTypes, id \in Int, r \in Rids \cup {NoRid}, c \in Int : TrxEntry(type, id, r, c) \in Entry
  /\ \A e \in Entry : e.module = "RECORD_MANAGER" => e.rid \in Rids /\ e.set \in BOOLEAN /\ e.begin \in Int /\ e.end \in Int
  /\ \A e \in Entry : e.module = "TRANSACTION" => e.trx_id \in Int
  /\ \A e \in Entry : e.module \in {"RECORD_MANAGER", "TRANSACTION"}
BY DEF Entry, RowEntry, TrxEntry

(* The log grows at its end.                                                *)
LEMMA Grows ==
  ASSUME LogOK, lsn \in Nat, NEW e \in Entry, clog' = Append(clog, e), lsn' = lsn + 1
  PROVE  /\ clog' \in Seq(Entry) /\ Len(clog') = lsn'
         /\ clog'[lsn + 1] = e /\ \A k \in 1..lsn : clog'[k] = clog[k]
BY DEF LogOK

LEMMA StampedIs ==
  ASSUME TypeOK, NEW s \in Sessions
  PROVE  /\ phase[s] = "commit" => Stamped(s) = 1..(cursor[s] - 1)
         /\ phase[s] = "commit_wait" => Stamped(s) = 1..Len(operations[s])
         /\ phase[s] \notin {"commit", "commit_wait"} => Stamped(s) = {}
BY DEF TypeOK, Phases, Stamped

LEMMA InitRec == RecoveryInit => RecInv
<1> SUFFICES ASSUME RecoveryInit PROVE RecInv
  OBVIOUS
<1> USE DEF RecoveryInit, Init
<1>1. TypeOK
  BY BoundsAssumption DEF TypeOK, Phases
<1>2. \A s \in Sessions : phase[s] = "ready" /\ operations[s] = <<>> /\ Len(operations[s]) = 0
  OBVIOUS
<1>3. \A s \in Sessions : Pending(s) = {} /\ Stamped(s) = {}
  <2> SUFFICES ASSUME NEW s \in Sessions PROVE Pending(s) = {} /\ Stamped(s) = {}
    OBVIOUS
  <2>1. phase[s] = "ready" /\ Len(operations[s]) = 0
    BY <1>2
  <2>2. Pending(s) = 1..Len(operations[s]) /\ Stamped(s) = {}
    BY ONLY <1>1, <2>1, PendingIs, StampedIs
  <2> QED BY <2>1, <2>2
<1>4. \A s \in Sessions, r \in Rids : ~ Inserting(s, r)
  BY <1>2, <1>3 DEF Inserting, Unfinished
<1>5. LogOK
  BY BoundsAssumption DEF LogOK
<1>6. Loops /\ OneInsert
  BY <1>2, <1>3, <1>4 DEF Loops, OneInsert
<1>7. StampedLogged /\ AckedSettled
  BY <1>3 DEF StampedLogged, AckedSettled, InsertDone, DeleteDone
<1> QED BY <1>1, <1>5, <1>6, <1>7 DEF RecInv

-----------------------------------------------------------------------------
Acts(s) == \/ StartIfNeed(s) \/ Commit(s) \/ Rollback(s) \/ LogOperation(s) \/ AppendCommit(s)
           \/ CommitDone(s) \/ RollbackDone(s) \/ CommitOperation(s) \/ RollbackOperation(s)
           \/ \E r \in Rids : InsertRecord(s, r) \/ DeleteRecord(s, r)

(* A step of one session leaves the others where they are.                  *)
LEMMA Others ==
  ASSUME TypeOK, NEW s \in Sessions, Acts(s), NEW t \in Sessions, t # s
  PROVE  /\ phase'[t] = phase[t] /\ cursor'[t] = cursor[t] /\ operations'[t] = operations[t]
         /\ work'[t] = work[t] /\ commit_xid'[t] = commit_xid[t] /\ wait_lsn'[t] = wait_lsn[t]
BY DEF TypeOK, Acts, StartIfNeed, Commit, Rollback, LogOperation, AppendCommit, CommitDone, RollbackDone,
       CommitOperation, RollbackOperation, InsertRecord, DeleteRecord, thread

(* The step's own session.                                                  *)
LEMMA TypeStep ==
  ASSUME TypeOK, LogOK, Loops, NEW s \in Sessions, Acts(s)
  PROVE  TypeOK' /\ trx_id'[s] <= IdBound /\ \A t \in Sessions \ {s} : trx_id'[t] = trx_id[t]
<1> USE BoundsAssumption DEF heap, thread, Phases
<1>1. CASE StartIfNeed(s)
  BY SMTT(20), <1>1 DEF TypeOK, LogOK, StartIfNeed, MayIssue
<1>2. CASE Commit(s) \/ Rollback(s)
  <2>1. Len(operations[s]) \in Nat
    BY DEF TypeOK
  <2>2. CASE Commit(s)
    BY <2>1, <2>2 DEF TypeOK, LogOK, Commit
  <2>3. CASE Rollback(s)
    BY <2>1, <2>3 DEF TypeOK, LogOK, Rollback
  <2> QED BY <1>2, <2>2, <2>3
<1>3. CASE AppendCommit(s) \/ CommitDone(s) \/ RollbackDone(s)
  <2>1. CASE AppendCommit(s)
    BY <2>1 DEF TypeOK, LogOK, AppendCommit, AppendLog
  <2>2. CASE CommitDone(s)
    BY <2>2 DEF TypeOK, LogOK, CommitDone
  <2>3. CASE RollbackDone(s)
    BY <2>3 DEF TypeOK, LogOK, RollbackDone, AppendLog
  <2> QED BY <1>3, <2>1, <2>2, <2>3
<1>4. CASE LogOperation(s)
  <2> DEFINE op == [type |-> IF phase[s] = "log_insert" THEN "INSERT" ELSE "DELETE", rid |-> work[s]]
  <2>1. op \in Operation
    BY <1>4 DEF Loops, LogOperation, Operation
  <2>2. operations' = [operations EXCEPT ![s] = Append(@, op)]
    BY <1>4 DEF LogOperation
  <2> HIDE DEF op
  <2>3. operations' \in [Sessions -> Seq(Operation)]
    BY <2>1, <2>2 DEF TypeOK
  <2> QED BY <1>4, <2>3 DEF TypeOK, LogOK, LogOperation, AppendLog
<1>5. CASE \E r \in Rids : InsertRecord(s, r) \/ DeleteRecord(s, r)
  <2>1. PICK r \in Rids : InsertRecord(s, r) \/ DeleteRecord(s, r)
    BY <1>5
  <2>2. CASE InsertRecord(s, r)
    BY SMTT(30), <2>2 DEF TypeOK, LogOK, InsertRecord, WriteRow, AppendLog
  <2>3. CASE DeleteRecord(s, r)
    BY SMTT(30), <2>3 DEF TypeOK, LogOK, DeleteRecord, WriteRow, AppendLog
  <2> QED BY <2>1, <2>2, <2>3
<1>6. CASE CommitOperation(s) \/ RollbackOperation(s)
  <2>1. cursor[s] \in 1..Len(operations[s])
    BY <1>6 DEF TypeOK, Loops, CommitOperation, RollbackOperation
  <2>2. operations[s][cursor[s]] \in Operation
    BY <2>1 DEF TypeOK
  <2>3. operations[s][cursor[s]].rid \in Rids
    BY <2>2 DEF Operation
  <2> DEFINE q == operations[s][cursor[s]].rid
  <2>4. used' \subseteq Rids /\ begin_xid' \in [Rids -> Int] /\ end_xid' \in [Rids -> Int] /\ lsn' \in Nat
    <3>1. /\ used' \subseteq used \cup {q} /\ lsn' = lsn + 1
          /\ \E b, e \in Int : begin_xid' = [begin_xid EXCEPT ![q] = b] /\ end_xid' = [end_xid EXCEPT ![q] = e]
      <4>1. 0 \in Int /\ MAX_TRX_ID \in Int /\ commit_xid[s] \in Int /\ begin_xid[q] \in Int /\ end_xid[q] \in Int
        BY <2>3 DEF TypeOK
      <4>2. CASE CommitOperation(s)
        <5>1. \/ WriteRow(q, commit_xid[s], end_xid[q]) \/ WriteRow(q, begin_xid[q], commit_xid[s])
          BY <4>2 DEF CommitOperation
        <5> HIDE DEF q
        <5> QED BY <4>1, <5>1 DEF WriteRow, AppendLog
      <4>3. CASE RollbackOperation(s)
        <5>1. \/ WriteRow(q, begin_xid[q], MAX_TRX_ID)
              \/ used' = used \ {q} /\ begin_xid' = [begin_xid EXCEPT ![q] = 0]
                 /\ end_xid' = [end_xid EXCEPT ![q] = 0] /\ AppendLog
          BY <4>3 DEF RollbackOperation
        <5> HIDE DEF q
        <5> QED BY <4>1, <5>1 DEF WriteRow, AppendLog
      <4> QED BY <1>6, <4>2, <4>3
    <3> HIDE DEF q
    <3> QED BY <2>3, <3>1 DEF TypeOK, q
  <2>5. cursor' \in [Sessions -> Nat]
    <3>1. cursor' = [cursor EXCEPT ![s] = @ + 1] \/ cursor' = [cursor EXCEPT ![s] = @ - 1]
      BY <1>6 DEF CommitOperation, RollbackOperation
    <3>2. cursor \in [Sessions -> Nat] /\ cursor[s] + 1 \in Nat /\ cursor[s] - 1 \in Nat
      BY <2>1 DEF TypeOK
    <3> QED BY <3>1, <3>2
  <2> QED BY <1>6, <2>4, <2>5 DEF TypeOK, LogOK, CommitOperation, RollbackOperation
<1> QED BY <1>1, <1>2, <1>3, <1>4, <1>5, <1>6 DEF Acts

LEMMA LoopsStep ==
  ASSUME TypeOK, Loops, NEW s \in Sessions, Acts(s), TypeOK'
  PROVE  Loops'
<1>1. ASSUME NEW t \in Sessions, t # s
      PROVE  /\ phase'[t] \in {"log_insert", "log_delete"} => work'[t] \in Rids
             /\ phase'[t] = "commit" => cursor'[t] \in 1..(Len(operations'[t]) + 1)
             /\ phase'[t] = "rollback" => cursor'[t] <= Len(operations'[t])
  <2>1. phase'[t] = phase[t] /\ cursor'[t] = cursor[t] /\ operations'[t] = operations[t] /\ work'[t] = work[t]
    BY <1>1, Others
  <2> QED BY <2>1 DEF Loops
<1>2. /\ phase'[s] \in {"log_insert", "log_delete"} => work'[s] \in Rids
      /\ phase'[s] = "commit" => cursor'[s] \in 1..(Len(operations'[s]) + 1)
      /\ phase'[s] = "rollback" => cursor'[s] <= Len(operations'[s])
  <2>0. Len(operations[s]) \in Nat /\ cursor[s] \in Nat /\ phase[s] \in Phases
    BY DEF TypeOK
  <2>1. CASE StartIfNeed(s) \/ LogOperation(s) \/ AppendCommit(s) \/ CommitDone(s) \/ RollbackDone(s)
    BY <2>1 DEF TypeOK, StartIfNeed, MayIssue, LogOperation, AppendCommit, CommitDone, RollbackDone, thread
  <2>2. CASE Commit(s) \/ Rollback(s)
    BY <2>0, <2>2 DEF TypeOK, Commit, Rollback
  <2>3. CASE \E r \in Rids : InsertRecord(s, r) \/ DeleteRecord(s, r)
    BY <2>3 DEF TypeOK, InsertRecord, DeleteRecord
  <2>4. CASE CommitOperation(s)
    BY <2>0, <2>4 DEF TypeOK, Loops, CommitOperation
  <2>5. CASE RollbackOperation(s)
    BY <2>0, <2>5 DEF TypeOK, Loops, RollbackOperation
  <2> QED BY <2>1, <2>2, <2>3, <2>4, <2>5 DEF Acts
<1> QED BY <1>1, <1>2 DEF Loops

-----------------------------------------------------------------------------
LEMMA PendingIsPrime ==
  ASSUME TypeOK', NEW s \in Sessions
  PROVE  /\ phase'[s] = "commit" => Pending(s)' = cursor'[s]..Len(operations'[s])
         /\ phase'[s] = "rollback" => Pending(s)' = 1..cursor'[s]
         /\ phase'[s] = "commit_wait" => Pending(s)' = {}
         /\ phase'[s] \in {"ready", "log_insert", "log_delete"} => Pending(s)' = 1..Len(operations'[s])
  BY DEF TypeOK, Phases, Pending

LEMMA StampedIsPrime ==
  ASSUME TypeOK', NEW s \in Sessions
  PROVE  /\ phase'[s] = "commit" => Stamped(s)' = 1..(cursor'[s] - 1)
         /\ phase'[s] = "commit_wait" => Stamped(s)' = 1..Len(operations'[s])
         /\ phase'[s] \notin {"commit", "commit_wait"} => Stamped(s)' = {}
BY DEF TypeOK, Phases, Stamped

LEMMA PendingRange ==
  ASSUME TypeOK, Loops, NEW s \in Sessions
  PROVE  Pending(s) \subseteq 1..Len(operations[s]) /\ Len(operations[s]) \in Nat
<1>1. phase[s] \in Phases /\ cursor[s] \in Nat /\ Len(operations[s]) \in Nat
  BY DEF TypeOK
<1>2. phase[s] = "commit" => cursor[s] >= 1
  BY <1>1 DEF Loops
<1>3. phase[s] = "rollback" => cursor[s] <= Len(operations[s])
  BY DEF Loops
<1> QED BY <1>1, <1>2, <1>3, PendingIs DEF Phases

(* The operation that LogOperation remembers.                               *)
NewOp(s) == [type |-> IF phase[s] = "log_insert" THEN "INSERT" ELSE "DELETE", rid |-> work[s]]

(* What a session has pending after its step it had before, but for the     *)
(* operation that LogOperation adds; the loops take theirs out.             *)
LEMMA PendingStep ==
  ASSUME TypeOK, Loops, NEW s \in Sessions, Acts(s), TypeOK'
  PROVE  /\ \A i \in Pending(s)' :
              \/ i \in Pending(s) /\ operations'[s][i] = operations[s][i]
              \/ LogOperation(s) /\ i = Len(operations[s]) + 1 /\ operations'[s][i] = NewOp(s)
         /\ CommitOperation(s) \/ RollbackOperation(s) =>
              /\ cursor[s] \in Pending(s) /\ cursor[s] \notin Pending(s)'
              /\ operations' = operations /\ phase' = phase /\ work' = work
<1>0. /\ Pending(s) \subseteq 1..Len(operations[s]) /\ Len(operations[s]) \in Nat
      /\ cursor[s] \in Nat /\ operations[s] \in Seq(Operation)
  BY PendingRange DEF TypeOK
<1>1. CASE StartIfNeed(s)
  <2>1. phase'[s] = phase[s] /\ cursor'[s] = cursor[s] /\ operations'[s] = operations[s] /\ work'[s] = work[s]
        /\ phase[s] = "ready"
    BY <1>1 DEF StartIfNeed, thread, MayIssue
  <2>2. Pending(s)' = Pending(s)
    BY <2>1, Frame
  <2> QED BY <2>1, <2>2 DEF CommitOperation, RollbackOperation
<1>2. CASE Commit(s) \/ Rollback(s) \/ \E r \in Rids : InsertRecord(s, r) \/ DeleteRecord(s, r)
  <2>1. /\ phase[s] = "ready" /\ operations' = operations
        /\ \/ phase'[s] = "commit" /\ cursor'[s] = 1
           \/ phase'[s] = "rollback" /\ cursor'[s] = Len(operations[s])
           \/ phase'[s] \in {"log_insert", "log_delete"}
    BY <1>2 DEF TypeOK, Commit, Rollback, InsertRecord, DeleteRecord, MayIssue
  <2>2. Pending(s) = 1..Len(operations[s]) /\ Pending(s)' = 1..Len(operations[s])
    BY <2>1, PendingIs, PendingIsPrime
  <2> QED BY <2>1, <2>2 DEF CommitOperation, RollbackOperation
<1>3. CASE AppendCommit(s) \/ CommitDone(s) \/ RollbackDone(s)
  <2>1. /\ phase'[s] = "commit_wait" \/ (phase'[s] = "ready" /\ operations'[s] = <<>> /\ Len(operations'[s]) = 0)
        /\ ~ CommitOperation(s) /\ ~ RollbackOperation(s)
    BY SMTT(30), <1>0, <1>3 DEF TypeOK, AppendCommit, CommitDone, RollbackDone, CommitOperation, RollbackOperation
  <2>2. Pending(s)' = {}
    <3>1. CASE phase'[s] = "commit_wait"
      BY <3>1, PendingIsPrime
    <3>2. CASE phase'[s] = "ready" /\ Len(operations'[s]) = 0
      <4>1. Pending(s)' = 1..Len(operations'[s])
        BY <3>2, PendingIsPrime
      <4> QED BY <3>2, <4>1
    <3> QED BY <2>1, <3>1, <3>2
  <2> QED BY <2>1, <2>2
<1>4. CASE LogOperation(s)
  <2> DEFINE n == Len(operations[s])
  <2>1. /\ phase[s] \in {"log_insert", "log_delete"} /\ phase'[s] = "ready"
        /\ operations'[s] = Append(operations[s], NewOp(s))
    BY <1>4 DEF TypeOK, LogOperation, NewOp
  <2>2. NewOp(s) \in Operation
    BY <2>1 DEF NewOp, Operation, Loops
  <2>3. Len(operations'[s]) = n + 1 /\ operations'[s][n + 1] = NewOp(s)
        /\ \A i \in 1..n : operations'[s][i] = operations[s][i]
    BY <1>0, <2>1, <2>2
  <2>4. Pending(s) = 1..n /\ Pending(s)' = 1..(n + 1)
    BY <2>1, <2>3, PendingIs, PendingIsPrime
  <2> QED BY <1>0, <1>4, <2>1, <2>3, <2>4 DEF CommitOperation, RollbackOperation
<1>5. CASE CommitOperation(s)
  <2>1. /\ phase[s] = "commit" /\ cursor[s] <= Len(operations[s]) /\ cursor'[s] = cursor[s] + 1 /\ phase' = phase
        /\ operations' = operations /\ work' = work
    BY <1>5 DEF TypeOK, CommitOperation
  <2>2. Pending(s) = cursor[s]..Len(operations[s]) /\ Pending(s)' = (cursor[s] + 1)..Len(operations[s])
    BY <2>1, PendingIs, PendingIsPrime
  <2> QED BY <1>0, <2>1, <2>2
<1>6. CASE RollbackOperation(s)
  <2>1. /\ phase[s] = "rollback" /\ cursor[s] > 0 /\ cursor'[s] = cursor[s] - 1 /\ phase' = phase
        /\ operations' = operations /\ work' = work
    BY <1>6 DEF TypeOK, RollbackOperation
  <2>2. Pending(s) = 1..cursor[s] /\ Pending(s)' = 1..(cursor[s] - 1)
    BY <2>1, PendingIs, PendingIsPrime
  <2> QED BY <1>0, <2>1, <2>2
<1> QED BY <1>1, <1>2, <1>3, <1>4, <1>5, <1>6 DEF Acts

(* The only new unfinished insert is the one of InsertRecord.               *)
LEMMA InsertingStep ==
  ASSUME TypeOK, Loops, NEW s \in Sessions, Acts(s), TypeOK', NEW t \in Sessions, NEW q \in Rids, Inserting(t, q)'
  PROVE  Inserting(t, q) \/ (t = s /\ InsertRecord(s, q))
<1>1. CASE t # s
  BY <1>1, Others, Frame
<1>2. CASE t = s
  <2>1. CASE phase'[s] = "log_insert" /\ work'[s] = q
    <3>1. CASE \E r \in Rids : InsertRecord(s, r)
      <4>1. PICK r \in Rids : InsertRecord(s, r)
        BY <3>1
      <4>2. work'[s] = r
        BY <4>1 DEF InsertRecord, TypeOK
      <4> QED BY <1>2, <2>1, <4>1, <4>2
    <3>2. CASE ~ \E r \in Rids : InsertRecord(s, r)
      <4>1. phase[s] = "log_insert" /\ work[s] = q
        BY <2>1, <3>2 DEF TypeOK, Acts, StartIfNeed, Commit, Rollback, LogOperation, AppendCommit, CommitDone,
             RollbackDone, CommitOperation, RollbackOperation, DeleteRecord, thread
      <4> QED BY <1>2, <4>1 DEF Inserting
    <3> QED BY <3>1, <3>2
  <2>2. CASE Unfinished(s, "INSERT", q)'
    <3>1. PICK i \in Pending(s)' : operations'[s][i] = [type |-> "INSERT", rid |-> q]
      BY <2>2 DEF Unfinished
    <3>2. CASE i \in Pending(s) /\ operations'[s][i] = operations[s][i]
      BY <1>2, <3>1, <3>2 DEF Inserting, Unfinished
    <3>3. CASE LogOperation(s) /\ operations'[s][i] = NewOp(s)
      <4>1. NewOp(s).type = "INSERT" /\ NewOp(s).rid = q
        BY <3>1, <3>3
      <4>2. phase[s] = "log_insert" /\ work[s] = q
        BY <4>1 DEF NewOp
      <4> QED BY <1>2, <4>2 DEF Inserting
    <3> QED BY <3>1, <3>2, <3>3, PendingStep
  <2> QED BY <1>2, <2>1, <2>2 DEF Inserting
<1> QED BY <1>1, <1>2

(* The operation at the cursor of a loop.                                   *)
LEMMA LoopOp ==
  ASSUME RecInv, NEW s \in Sessions, CommitOperation(s) \/ RollbackOperation(s), TypeOK',
         NEW op, op = operations[s][cursor[s]]
  PROVE  /\ op \in Operation /\ op.rid \in Rids /\ cursor[s] \in Pending(s)
         /\ op.type = "INSERT" => Inserting(s, op.rid) /\ \A t \in Sessions : ~ Inserting(t, op.rid)'
<1>0. TypeOK /\ Loops /\ OneInsert /\ Acts(s)
  BY DEF RecInv, Acts
<1>1. /\ cursor[s] \in Pending(s) /\ cursor[s] \notin Pending(s)'
      /\ operations' = operations /\ phase' = phase /\ work' = work
      /\ \A i \in Pending(s)' : i \in Pending(s) \/ LogOperation(s)
  BY <1>0, PendingStep
<1>2. ~ LogOperation(s) /\ phase[s] \in {"commit", "rollback"}
  BY DEF LogOperation, CommitOperation, RollbackOperation
<1>3. cursor[s] \in 1..Len(operations[s])
  BY <1>0, <1>1, PendingRange
<1>4. op \in Operation
  BY <1>0, <1>3 DEF TypeOK
<1>5. op.rid \in Rids /\ op = [type |-> op.type, rid |-> op.rid]
  BY <1>4 DEF Operation
<1>6. ASSUME op.type = "INSERT" PROVE Inserting(s, op.rid)
  BY <1>1, <1>5, <1>6 DEF Inserting, Unfinished
<1>7. ASSUME op.type = "INSERT", NEW t \in Sessions, NEW q, q = op.rid, Inserting(t, q)'
      PROVE  FALSE
  <2>0. q \in Rids
    BY <1>5, <1>7
  <2>1. Inserting(t, q)
    <3>1. ~ InsertRecord(s, q)
      BY <1>2 DEF InsertRecord, MayIssue
    <3> QED BY <1>0, <1>7, <2>0, <3>1, InsertingStep
  <2>2. t = s
    BY <1>0, <1>6, <1>7, <2>0, <2>1 DEF OneInsert
  <2>3. Unfinished(s, "INSERT", q)'
    BY <1>1, <1>2, <1>7, <2>2 DEF Inserting
  <2>4. PICK i \in Pending(s)' : operations'[s][i] = [type |-> "INSERT", rid |-> q]
    BY <2>3 DEF Unfinished
  <2>5. i \in Pending(s) /\ operations[s][i].type = "INSERT" /\ operations[s][i].rid = q
    BY <1>1, <1>2, <2>4
  <2>6. i = cursor[s]
    BY <1>0, <1>1, <1>7, <2>5 DEF OneInsert
  <2> QED BY <1>1, <2>6
<1>8. ASSUME op.type = "INSERT", NEW t \in Sessions PROVE ~ Inserting(t, op.rid)'
  <2> SUFFICES ASSUME NEW q, q = op.rid PROVE ~ Inserting(t, q)'
    OBVIOUS
  <2> QED BY <1>7, <1>8
<1> QED BY <1>1, <1>4, <1>5, <1>6, <1>8

LEMMA OneInsertStep ==
  ASSUME RecInv, NEW s \in Sessions, Acts(s), TypeOK'
  PROVE  OneInsert'
<1>0. TypeOK /\ Loops /\ OneInsert
  BY DEF RecInv
<1>1. ASSUME NEW t \in Sessions, NEW q \in Rids, Inserting(t, q)' PROVE q \in used'
  <2>1. CASE InsertRecord(s, q)
    BY <2>1 DEF InsertRecord, WriteRow
  <2>2. CASE Inserting(t, q) /\ ~ (CommitOperation(s) \/ RollbackOperation(s))
    <3>1. q \in used
      BY <1>0, <2>2 DEF OneInsert
    <3>2. used' = used \/ \E r \in Rids : used' = used \cup {r}
      BY <2>2 DEF Acts, StartIfNeed, Commit, Rollback, LogOperation, AppendCommit, CommitDone,
             RollbackDone, InsertRecord, DeleteRecord, WriteRow, heap
    <3> QED BY <3>1, <3>2
  <2>3. CASE Inserting(t, q) /\ (CommitOperation(s) \/ RollbackOperation(s))
    <3>1. q \in used
      BY <1>0, <2>3 DEF OneInsert
    <3> SUFFICES ASSUME NEW op, op = operations[s][cursor[s]] PROVE q \in used'
      OBVIOUS
    <3>2. /\ op.type = "INSERT" => q # op.rid
          /\ op.type \in {"INSERT", "DELETE"}
      BY SMTT(30), <1>1, <2>3, LoopOp DEF Operation
    <3>3. used' = used \cup {op.rid} \/ (op.type = "INSERT" /\ used' = used \ {op.rid})
      BY <2>3, <3>2 DEF CommitOperation, RollbackOperation, WriteRow
    <3> QED BY <3>1, <3>2, <3>3
  <2> QED BY <1>0, <1>1, <2>1, <2>2, <2>3, InsertingStep
<1>2. ASSUME NEW t \in Sessions, NEW u \in Sessions, NEW q \in Rids, Inserting(t, q)', Inserting(u, q)'
      PROVE  t = u
  <2>1. CASE InsertRecord(s, q)
    <3>1. \A v \in Sessions : ~ Inserting(v, q)
      BY <1>0, <2>1 DEF OneInsert, InsertRecord
    <3> QED BY <1>0, <1>2, <3>1, InsertingStep
  <2>2. CASE ~ InsertRecord(s, q)
    <3>1. Inserting(t, q) /\ Inserting(u, q)
      BY <1>0, <1>2, <2>2, InsertingStep
    <3> QED BY <1>0, <3>1 DEF OneInsert
  <2> QED BY <2>1, <2>2
<1>3. ASSUME NEW t \in Sessions, NEW i \in Pending(t)', NEW j \in Pending(t)',
             operations'[t][i].type = "INSERT", operations'[t][j].type = "INSERT",
             operations'[t][i].rid = operations'[t][j].rid
      PROVE  i = j
  <2>1. CASE t # s
    <3>1. operations'[t] = operations[t] /\ Pending(t)' = Pending(t)
      BY <1>0, <2>1, Others, Frame
    <3> QED BY <1>0, <1>3, <3>1 DEF OneInsert
  <2>2. CASE t = s
    <3>1. /\ \/ i \in Pending(s) /\ operations'[s][i] = operations[s][i]
             \/ LogOperation(s) /\ i = Len(operations[s]) + 1 /\ operations'[s][i] = NewOp(s)
          /\ \/ j \in Pending(s) /\ operations'[s][j] = operations[s][j]
             \/ LogOperation(s) /\ j = Len(operations[s]) + 1 /\ operations'[s][j] = NewOp(s)
      BY <1>0, <1>3, <2>2, PendingStep
    <3>2. ASSUME NEW k \in Pending(s), operations[s][k].type = "INSERT", LogOperation(s),
                 NewOp(s).type = "INSERT", operations[s][k].rid = NewOp(s).rid
          PROVE  FALSE
      <4>1. phase[s] = "log_insert" /\ NewOp(s).rid = work[s]
        BY <3>2 DEF NewOp
      <4> QED BY <1>0, <3>2, <4>1 DEF OneInsert
    <3> QED BY <1>0, <1>3, <2>2, <3>1, <3>2 DEF OneInsert
  <2> QED BY <2>1, <2>2
<1>4. ASSUME NEW t \in Sessions, phase'[t] = "log_insert", NEW i \in Pending(t)', operations'[t][i].type = "INSERT"
      PROVE  operations'[t][i].rid # work'[t]
  <2>1. CASE t # s
    <3>1. operations'[t] = operations[t] /\ Pending(t)' = Pending(t) /\ phase'[t] = phase[t] /\ work'[t] = work[t]
      BY <1>0, <2>1, Others, Frame
    <3> QED BY <1>0, <1>4, <3>1 DEF OneInsert
  <2>2. CASE t = s
    <3>1. PICK r \in Rids : InsertRecord(s, r)
      BY <1>0, <1>4, <2>2 DEF TypeOK, Acts, StartIfNeed, Commit, Rollback, LogOperation, AppendCommit, CommitDone,
             RollbackDone, CommitOperation, RollbackOperation, DeleteRecord, thread, MayIssue
    <3>2. work'[s] = r /\ r \notin used /\ ~ LogOperation(s)
      BY <1>0, <3>1 DEF InsertRecord, TypeOK, MayIssue, LogOperation
    <3>3. i \in Pending(s) /\ operations'[s][i] = operations[s][i]
      BY <1>0, <1>4, <2>2, <3>2, PendingStep
    <3>4. operations[s][i] \in Operation
      <4>1. operations[s] \in Seq(Operation) /\ i \in 1..Len(operations[s])
        BY <1>0, <3>3, PendingRange DEF TypeOK
      <4> QED BY <4>1
    <3>5. ASSUME operations[s][i].rid = r PROVE FALSE
      <4>1. operations[s][i] = [type |-> "INSERT", rid |-> r]
        BY <1>4, <2>2, <3>3, <3>4, <3>5 DEF Operation
      <4>2. Inserting(s, r)
        BY <3>3, <4>1 DEF Inserting, Unfinished
      <4> QED BY <1>0, <3>2, <4>2 DEF OneInsert
    <3> QED BY <2>2, <3>2, <3>3, <3>5
  <2> QED BY <2>1, <2>2
<1> QED BY <1>1, <1>2, <1>3, <1>4 DEF OneInsert

-----------------------------------------------------------------------------
(* A step of a session with what it appends to the log.                     *)
SessionStep(s) == \/ RowSteps(s) \/ TrxSteps(s)
                  \/ (StartIfNeed(s) \/ Commit(s) \/ Rollback(s) \/ CommitDone(s)) /\ UNCHANGED clog

LEMMA SessionActs ==
  ASSUME NEW s \in Sessions, SessionStep(s)
  PROVE  Acts(s)
BY DEF SessionStep, RowSteps, TrxSteps, Acts

(* A row whose insert is not unfinished keeps its begin stamp.              *)
LEMMA RowKept ==
  ASSUME RecInv, NEW s \in Sessions, Acts(s), TypeOK', NEW q \in Rids, q \in used,
         \A t \in Sessions : ~ Inserting(t, q)
  PROVE  q \in used' /\ begin_xid'[q] = begin_xid[q]
<1>0. begin_xid \in [Rids -> Int] /\ end_xid \in [Rids -> Int]
  BY DEF RecInv, TypeOK
<1>1. CASE CommitOperation(s) \/ RollbackOperation(s)
  <2> SUFFICES ASSUME NEW op, op = operations[s][cursor[s]] PROVE q \in used' /\ begin_xid'[q] = begin_xid[q]
    OBVIOUS
  <2>1. op.rid \in Rids /\ op.type \in {"INSERT", "DELETE"} /\ (op.type = "INSERT" => op.rid # q)
    BY <1>1, LoopOp DEF Operation
  <2>2. CASE CommitOperation(s)
    BY <1>0, <2>1, <2>2 DEF CommitOperation, WriteRow
  <2>3. CASE RollbackOperation(s)
    BY <1>0, <2>1, <2>3 DEF RollbackOperation, WriteRow
  <2> QED BY <1>1, <2>2, <2>3
<1>2. CASE \E r \in Rids : InsertRecord(s, r) \/ DeleteRecord(s, r)
  BY <1>0, <1>2 DEF InsertRecord, DeleteRecord, WriteRow
<1>3. CASE ~ CommitOperation(s) /\ ~ RollbackOperation(s) /\ ~ \E r \in Rids : InsertRecord(s, r) \/ DeleteRecord(s, r)
  BY <1>3 DEF Acts, StartIfNeed, Commit, Rollback, LogOperation, AppendCommit, CommitDone, RollbackDone, heap
<1> QED BY <1>1, <1>2, <1>3

(* What a step appends, if it appends: the image of the row it wrote, or an *)
(* entry of the transaction.                                                *)
LEMMA Appended ==
  ASSUME RecInv, NEW s \in Sessions, SessionStep(s), TypeOK'
  PROVE  /\ flushed' = flushed
         /\ \/ clog' = clog /\ lsn' = lsn
            \/ /\ lsn' = lsn + 1
               /\ \E e \in Entry :
                    /\ clog' = Append(clog, e)
                    /\ \/ \E r \in Rids : e = RowEntry(r, begin_xid'[r], end_xid'[r], r \in used')
                       \/ e.module = "TRANSACTION" /\ e.trx_id <= IdBound
<1>0. TypeOK /\ LogOK /\ Loops /\ begin_xid' \in [Rids -> Int] /\ end_xid' \in [Rids -> Int]
  BY DEF RecInv, TypeOK
<1>1. ASSUME NEW r \in Rids, LogRow(r), lsn' = lsn + 1, flushed' = flushed
      PROVE  /\ lsn' = lsn + 1 /\ flushed' = flushed
             /\ \E e \in Entry :
                  /\ clog' = Append(clog, e)
                  /\ e = RowEntry(r, begin_xid'[r], end_xid'[r], r \in used')
  <2>1. begin_xid'[r] \in Int /\ end_xid'[r] \in Int /\ (r \in used') \in BOOLEAN
    BY <1>0
  <2>2. RowEntry(r, begin_xid'[r], end_xid'[r], r \in used') \in Entry
    BY <2>1, EntryTyped
  <2> QED BY <1>1, <2>2 DEF LogRow
<1>2. ASSUME NEW type \in TrxEntryTypes, NEW r \in Rids \cup {NoRid}, NEW c \in Int, LogTrx(type, s, r, c)
      PROVE  \E e \in Entry :
                  /\ clog' = Append(clog, e)
                  /\ e.module = "TRANSACTION" /\ e.trx_id <= IdBound
  <2>1. trx_id[s] \in Int /\ trx_id[s] <= IdBound
    BY <1>0 DEF TypeOK, LogOK
  <2>2. TrxEntry(type, trx_id[s], r, c) \in Entry
    BY <2>1, EntryTyped
  <2>3. TrxEntry(type, trx_id[s], r, c).module = "TRANSACTION" /\ TrxEntry(type, trx_id[s], r, c).trx_id = trx_id[s]
    BY DEF TrxEntry
  <2> QED BY <1>2, <2>1, <2>2, <2>3 DEF LogTrx
<1>3. CASE RowSteps(s)
  <2>1. CASE \E r \in Rids : (InsertRecord(s, r) \/ DeleteRecord(s, r)) /\ LogRow(r)
    <3>1. PICK r \in Rids : (InsertRecord(s, r) \/ DeleteRecord(s, r)) /\ LogRow(r)
      BY <2>1
    <3>2. lsn' = lsn + 1 /\ flushed' = flushed
      BY <3>1 DEF InsertRecord, DeleteRecord, WriteRow, AppendLog
    <3> QED BY <1>1, <3>1, <3>2
  <2>2. CASE (CommitOperation(s) \/ RollbackOperation(s)) /\ LogRow(operations[s][cursor[s]].rid)
    <3>1. operations[s][cursor[s]].rid \in Rids
      BY SMTT(30), <2>2, LoopOp
    <3>2. lsn' = lsn + 1 /\ flushed' = flushed
      BY <2>2 DEF CommitOperation, RollbackOperation, WriteRow, AppendLog
    <3>3. PICK r \in Rids : r = operations[s][cursor[s]].rid
      BY <3>1
    <3>4. LogRow(r)
      BY <2>2, <3>3 DEF LogRow
    <3> QED BY <1>1, <3>2, <3>4
  <2> QED BY <1>3, <2>1, <2>2 DEF RowSteps
<1>4. CASE TrxSteps(s)
  <2>1. lsn' = lsn + 1 /\ flushed' = flushed
    BY <1>4 DEF TrxSteps, LogOperation, AppendCommit, RollbackDone, AppendLog
  <2>2. work[s] \in Rids \cup {NoRid} /\ commit_xid[s] \in Int /\ NoRid \in Rids \cup {NoRid}
    BY <1>0 DEF TypeOK
  <2>3. PICK type \in TrxEntryTypes, r \in Rids \cup {NoRid}, c \in Int : LogTrx(type, s, r, c)
    <3>1. CASE LogTrx(IF phase[s] = "log_insert" THEN "INSERT_RECORD" ELSE "DELETE_RECORD", s, work[s], 0)
      <4>1. (IF phase[s] = "log_insert" THEN "INSERT_RECORD" ELSE "DELETE_RECORD") \in TrxEntryTypes /\ 0 \in Int
        BY DEF TrxEntryTypes
      <4> QED BY <2>2, <3>1, <4>1
    <3>2. CASE LogTrx("COMMIT", s, NoRid, commit_xid[s])
      <4>1. "COMMIT" \in TrxEntryTypes
        BY DEF TrxEntryTypes
      <4> QED BY <2>2, <3>2, <4>1
    <3>3. CASE LogTrx("ROLLBACK", s, NoRid, 0)
      <4>1. "ROLLBACK" \in TrxEntryTypes /\ 0 \in Int
        BY DEF TrxEntryTypes
      <4> QED BY <2>2, <3>3, <4>1
    <3> QED BY <1>4, <3>1, <3>2, <3>3 DEF TrxSteps
  <2> QED BY <1>2, <2>1, <2>3
<1>5. CASE (StartIfNeed(s) \/ Commit(s) \/ Rollback(s) \/ CommitDone(s)) /\ UNCHANGED clog
  BY <1>5 DEF StartIfNeed, Commit, Rollback, CommitDone
<1> QED BY <1>3, <1>4, <1>5 DEF SessionStep

LEMMA LogOKStep ==
  ASSUME RecInv, NEW s \in Sessions, SessionStep(s), TypeOK', restarts' = restarts
  PROVE  LogOK' /\ \A k \in 1..lsn : clog'[k] = clog[k]
<1>0. LogOK /\ TypeOK /\ Loops /\ lsn \in Nat /\ Acts(s) /\ flushed \in Nat
  BY SessionActs DEF RecInv, TypeOK
<1>1. flushed' = flushed
  BY Appended
<1>2. /\ clog' \in Seq(Entry) /\ Len(clog') = lsn' /\ lsn' \in {lsn, lsn + 1}
      /\ \A k \in 1..lsn : clog'[k] = clog[k]
      /\ \A k \in 1..lsn' : clog'[k].module = "TRANSACTION" => clog'[k].trx_id <= IdBound
  <2>1. CASE clog' = clog /\ lsn' = lsn
    BY <1>0, <2>1 DEF LogOK
  <2>2. CASE lsn' = lsn + 1
    <3>1. PICK e \in Entry :
            /\ clog' = Append(clog, e)
            /\ \/ \E r \in Rids : e = RowEntry(r, begin_xid'[r], end_xid'[r], r \in used')
               \/ e.module = "TRANSACTION" /\ e.trx_id <= IdBound
      BY <1>0, <2>2, Appended
    <3>2. e.module = "TRANSACTION" => e.trx_id <= IdBound
      BY <3>1 DEF RowEntry
    <3>3. /\ clog' \in Seq(Entry) /\ Len(clog') = lsn'
          /\ clog'[lsn + 1] = e /\ \A k \in 1..lsn : clog'[k] = clog[k]
      BY <1>0, <2>2, <3>1, Grows
    <3>4. \A k \in 1..lsn' : k \in 1..lsn \/ k = lsn + 1
      BY <1>0, <2>2
    <3> QED BY <1>0, <2>2, <3>2, <3>3, <3>4 DEF LogOK
  <2> QED BY <2>1, <2>2, Appended
<1>3. \A t \in Sessions : trx_id'[t] <= IdBound
  BY <1>0, TypeStep DEF LogOK
<1>4. ASSUME NEW t \in Sessions, phase'[t] = "commit_wait" PROVE wait_lsn'[t] <= lsn'
  <2>1. CASE t # s
    <3>1. wait_lsn'[t] = wait_lsn[t] /\ phase[t] = "commit_wait" /\ wait_lsn[t] \in Nat
      BY <1>0, <1>4, <2>1, Others DEF TypeOK
    <3> QED BY <1>0, <1>2, <3>1 DEF LogOK
  <2>2. CASE t = s /\ AppendCommit(s)
    BY <1>0, <2>2 DEF AppendCommit, AppendLog, TypeOK
  <2>3. CASE t = s /\ ~ AppendCommit(s)
    BY <1>0, <1>4, <2>3 DEF Acts, TypeOK, StartIfNeed, MayIssue, Commit, Rollback, LogOperation, CommitDone,
       RollbackDone, CommitOperation, RollbackOperation, InsertRecord, DeleteRecord, thread
  <2> QED BY <2>1, <2>2, <2>3
<1> QED BY <1>0, <1>1, <1>2, <1>3, <1>4 DEF LogOK

(* What is settled stays settled.                                           *)
LEMMA SettledStep ==
  ASSUME RecInv, NEW s \in Sessions, SessionStep(s), TypeOK', restarts' = restarts,
         NEW r \in Rids, NEW c \in Int, NEW n \in Nat, n <= lsn, Settled(r, c, n), NEW m \in Nat, n <= m
  PROVE  Settled(r, c, m)'
<1>0. LogOK /\ TypeOK /\ Loops /\ lsn \in Nat /\ Acts(s)
  BY SessionActs DEF RecInv, TypeOK
<1>1. r \in used /\ begin_xid[r] = c /\ \A t \in Sessions : ~ Inserting(t, r)
  BY DEF Settled
<1>2. r \in used' /\ begin_xid'[r] = c
  BY <1>0, <1>1, RowKept
<1>3. \A t \in Sessions : ~ Inserting(t, r)'
  <2>1. ~ InsertRecord(s, r)
    BY <1>1 DEF InsertRecord
  <2> QED BY <1>0, <1>1, <2>1, InsertingStep
<1>4. PICK k \in 1..n : BeginsAt(k, r, c) /\ \A j \in k..lsn : IsImage(j, r) => BeginsAt(j, r, c)
  BY DEF Settled
<1>5. \A j \in 1..lsn : clog'[j] = clog[j]
  BY LogOKStep
<1>6. k \in 1..m /\ k \in 1..lsn
  BY <1>0
<1>7. BeginsAt(k, r, c)'
  BY <1>4, <1>5, <1>6 DEF BeginsAt, IsImage
<1>8. ASSUME NEW j \in k..lsn', IsImage(j, r)' PROVE BeginsAt(j, r, c)'
  <2>1. CASE j \in k..lsn
    BY <1>4, <1>5, <1>6, <1>8, <2>1 DEF BeginsAt, IsImage
  <2>2. CASE lsn' = lsn + 1 /\ j = lsn + 1
    <3>1. PICK e \in Entry :
            /\ clog' = Append(clog, e)
            /\ \/ \E q \in Rids : e = RowEntry(q, begin_xid'[q], end_xid'[q], q \in used')
               \/ e.module = "TRANSACTION" /\ e.trx_id <= IdBound
      BY <1>0, <2>2, Appended
    <3>2. clog'[j] = e
      BY <1>0, <2>2, <3>1, Grows
    <3>3. e.module = "RECORD_MANAGER" /\ e.rid = r
      BY <1>8, <3>2 DEF IsImage
    <3>4. PICK q \in Rids : e = RowEntry(q, begin_xid'[q], end_xid'[q], q \in used')
      BY <3>1, <3>3
    <3>5. e.rid = q /\ e.set = (q \in used') /\ e.begin = begin_xid'[q]
      BY <3>4 DEF RowEntry
    <3> QED BY <1>2, <1>8, <3>2, <3>3, <3>5 DEF BeginsAt
  <2> QED BY <1>0, <1>8, <2>1, <2>2, Appended
<1> QED BY <1>2, <1>3, <1>6, <1>7, <1>8 DEF Settled

LEMMA LogEndOK ==
  ASSUME RecInv, NEW s \in Sessions
  PROVE  LogEnd(s) \in Nat /\ LogEnd(s) <= lsn
BY DEF RecInv, TypeOK, LogOK, LogEnd

(* Only commit stamps.                                                      *)
LEMMA StampedStep ==
  ASSUME RecInv, NEW s \in Sessions, SessionStep(s), TypeOK', NEW i \in Stamped(s)'
  PROVE  /\ operations' = operations /\ commit_xid' = commit_xid
         /\ LogEnd(s) = lsn /\ LogEnd(s)' = lsn + 1
         /\ i \in Stamped(s) \/ (CommitOperation(s) /\ i = cursor[s])
<1>0. TypeOK /\ Loops /\ Acts(s)
  BY SessionActs DEF RecInv
<1>1. phase'[s] \in {"commit", "commit_wait"}
  BY StampedIsPrime
<1>2. CASE CommitOperation(s)
  <2>1. /\ phase[s] = "commit" /\ phase'[s] = "commit" /\ cursor'[s] = cursor[s] + 1 /\ lsn' = lsn + 1
        /\ operations' = operations /\ commit_xid' = commit_xid /\ cursor[s] \in Nat
    BY <1>0, <1>2 DEF CommitOperation, WriteRow, AppendLog, TypeOK
  <2>2. Stamped(s) = 1..(cursor[s] - 1) /\ Stamped(s)' = 1..cursor[s]
    BY <1>0, <2>1, StampedIs, StampedIsPrime
  <2> QED BY <1>2, <2>1, <2>2 DEF LogEnd
<1>3. CASE AppendCommit(s)
  <2>1. /\ phase[s] = "commit" /\ phase'[s] = "commit_wait" /\ cursor[s] > Len(operations[s])
        /\ wait_lsn'[s] = lsn + 1 /\ cursor[s] \in Nat /\ Len(operations[s]) \in Nat
        /\ operations' = operations /\ commit_xid' = commit_xid
    BY <1>0, <1>3 DEF AppendCommit, TypeOK
  <2>2. Stamped(s) = 1..(cursor[s] - 1) /\ Stamped(s)' = 1..Len(operations[s])
    BY <1>0, <2>1, StampedIs, StampedIsPrime
  <2> QED BY <2>1, <2>2 DEF LogEnd
<1>4. CASE Commit(s)
  <2>1. phase'[s] = "commit" /\ cursor'[s] = 1
    BY <1>0, <1>4 DEF Commit, TypeOK
  <2>2. Stamped(s)' = 1..(cursor'[s] - 1)
    BY <2>1, StampedIsPrime
  <2>3. 1..(cursor'[s] - 1) = {}
    BY <2>1
  <2> QED BY <2>2, <2>3
<1>5. CASE ~ CommitOperation(s) /\ ~ AppendCommit(s) /\ ~ Commit(s)
  <2>1. phase'[s] \notin {"commit", "commit_wait"}
    BY <1>0, <1>5 DEF Acts, TypeOK, StartIfNeed, MayIssue, Rollback, LogOperation, CommitDone,
       RollbackDone, RollbackOperation, InsertRecord, DeleteRecord, thread
  <2> QED BY <1>1, <2>1
<1> QED BY <1>2, <1>3, <1>4, <1>5

LEMMA StampedLoggedStep ==
  ASSUME RecInv, NEW s \in Sessions, SessionStep(s), TypeOK', restarts' = restarts
  PROVE  StampedLogged'
<1>0. TypeOK /\ LogOK /\ Loops /\ Acts(s) /\ lsn \in Nat /\ StampedLogged
  BY SessionActs DEF RecInv, TypeOK
<1> SUFFICES ASSUME NEW t \in Sessions, NEW r \in Rids,
                    NEW c, c = commit_xid'[t], NEW m, m = LogEnd(t)'
             PROVE  /\ InsertDone(t, r)' => Settled(r, c, m)'
                    /\ DeleteDone(t, r)' => \E k \in 1..m : EndsAt(k, r, c)'
  BY DEF StampedLogged
<1>1. lsn' \in {lsn, lsn + 1} /\ \A k \in 1..lsn : clog'[k] = clog[k]
  BY LogOKStep, Appended
<1>2. ASSUME c = commit_xid[t], c \in Int, m \in Nat, LogEnd(t) <= m
      PROVE  /\ InsertDone(t, r) => Settled(r, c, m)'
             /\ DeleteDone(t, r) => \E k \in 1..m : EndsAt(k, r, c)'
  <2> SUFFICES ASSUME NEW n, n = LogEnd(t)
               PROVE  /\ InsertDone(t, r) => Settled(r, c, m)'
                      /\ DeleteDone(t, r) => \E k \in 1..m : EndsAt(k, r, c)'
    OBVIOUS
  <2>1. n \in Nat /\ n <= lsn /\ n <= m
    BY <1>2, LogEndOK
  <2>2. /\ InsertDone(t, r) => Settled(r, c, n)
        /\ DeleteDone(t, r) => \E k \in 1..n : EndsAt(k, r, c)
    BY <1>0, <1>2 DEF StampedLogged
  <2>3. InsertDone(t, r) => Settled(r, c, m)'
    BY <1>2, <2>1, <2>2, SettledStep
  <2>4. ASSUME NEW k \in 1..n, EndsAt(k, r, c) PROVE k \in 1..m /\ EndsAt(k, r, c)'
    <3>1. k \in 1..lsn /\ k \in 1..m
      BY <1>0, <1>2, <2>1
    <3> QED BY <1>1, <2>4, <3>1 DEF EndsAt, IsImage
  <2> QED BY <2>2, <2>3, <2>4
<1>3. CASE t # s
  <2>1. /\ phase'[t] = phase[t] /\ cursor'[t] = cursor[t] /\ operations'[t] = operations[t]
        /\ commit_xid'[t] = commit_xid[t] /\ wait_lsn'[t] = wait_lsn[t]
    BY <1>0, <1>3, Others
  <2>2. /\ InsertDone(t, r)' <=> InsertDone(t, r)
        /\ DeleteDone(t, r)' <=> DeleteDone(t, r)
    BY <2>1 DEF InsertDone, DeleteDone, Stamped
  <2>3. c = commit_xid[t] /\ c \in Int /\ m \in Nat /\ LogEnd(t) <= m
    <3>1. commit_xid[t] \in Int /\ wait_lsn[t] \in Nat
      BY <1>0 DEF TypeOK
    <3>2. m = IF phase[t] = "commit_wait" THEN wait_lsn[t] ELSE lsn'
      BY <2>1 DEF LogEnd
    <3> QED BY <1>0, <1>1, <2>1, <3>1, <3>2 DEF LogEnd
  <2> QED BY <1>2, <2>2, <2>3
<1>4. CASE t = s /\ (InsertDone(s, r)' \/ DeleteDone(s, r)')
  <2>1. PICK i \in Stamped(s)' : \/ operations'[s][i] = [type |-> "INSERT", rid |-> r]
                                 \/ operations'[s][i] = [type |-> "DELETE", rid |-> r]
    BY <1>4 DEF InsertDone, DeleteDone
  <2>2. operations' = operations /\ commit_xid' = commit_xid /\ LogEnd(s) = lsn /\ m = lsn + 1
    BY <1>4, <2>1, StampedStep
  <2>3. c = commit_xid[t] /\ c \in Int /\ m \in Nat /\ LogEnd(t) <= m
    BY <1>0, <1>4, <2>2 DEF TypeOK
  <2>4. ASSUME NEW j \in Stamped(s)'
        PROVE  j \in Stamped(s) \/ (CommitOperation(s) /\ j = cursor[s])
    BY <2>4, StampedStep
  <2>5. ASSUME CommitOperation(s), NEW type \in {"INSERT", "DELETE"},
               operations[s][cursor[s]] = [type |-> type, rid |-> r]
        PROVE  /\ type = "INSERT" => Settled(r, c, m)'
               /\ type = "DELETE" => \E k \in 1..m : EndsAt(k, r, c)'
    <3>0. begin_xid \in [Rids -> Int] /\ end_xid \in [Rids -> Int] /\ used \subseteq Rids
      BY <1>0 DEF TypeOK
    <3>1. /\ operations[s][cursor[s]].rid = r /\ operations[s][cursor[s]].type = type
      BY <2>5
    <3>2. /\ r \in used' /\ lsn' = lsn + 1
          /\ type = "INSERT" => begin_xid'[r] = c
          /\ type = "DELETE" => end_xid'[r] = c
      BY <1>4, <2>3, <2>5, <3>0, <3>1 DEF CommitOperation, WriteRow, AppendLog
    <3>3. clog' = Append(clog, RowEntry(r, begin_xid'[r], end_xid'[r], r \in used'))
      <4>1. RowSteps(s) /\ ~ \E q \in Rids : InsertRecord(s, q) \/ DeleteRecord(s, q)
        <5>1. phase[s] = "commit" /\ ~ (cursor[s] > Len(operations[s]))
          <6>1. cursor[s] \in Nat /\ Len(operations[s]) \in Nat
            BY <1>0 DEF TypeOK
          <6> QED BY <2>5, <6>1 DEF CommitOperation
        <5>2. ~ TrxSteps(s)
          BY <5>1 DEF TrxSteps, LogOperation, AppendCommit, RollbackDone
        <5>3. ~ (StartIfNeed(s) \/ Commit(s) \/ Rollback(s) \/ CommitDone(s))
          BY <5>1 DEF StartIfNeed, Commit, Rollback, CommitDone, MayIssue
        <5>4. ~ \E q \in Rids : InsertRecord(s, q) \/ DeleteRecord(s, q)
          BY <5>1 DEF InsertRecord, DeleteRecord, MayIssue
        <5> QED BY <5>2, <5>3, <5>4 DEF SessionStep
      <4>2. LogRow(operations[s][cursor[s]].rid)
        BY <4>1 DEF RowSteps
      <4> QED BY <3>1, <4>2 DEF LogRow
    <3>4. begin_xid'[r] \in Int /\ end_xid'[r] \in Int /\ (r \in used') \in BOOLEAN
      BY DEF TypeOK
    <3>5. RowEntry(r, begin_xid'[r], end_xid'[r], r \in used') \in Entry
      BY <3>4, EntryTyped
    <3>6. clog'[lsn + 1] = RowEntry(r, begin_xid'[r], end_xid'[r], r \in used')
      BY <1>0, <3>2, <3>3, <3>5, Grows
    <3>7. /\ type = "INSERT" => BeginsAt(m, r, c)'
          /\ type = "DELETE" => EndsAt(m, r, c)'
      <4> SUFFICES ASSUME NEW e, e = RowEntry(r, begin_xid'[r], end_xid'[r], r \in used')
                   PROVE  /\ type = "INSERT" => BeginsAt(m, r, c)'
                          /\ type = "DELETE" => EndsAt(m, r, c)'
        OBVIOUS
      <4>1. /\ e.module = "RECORD_MANAGER" /\ e.rid = r /\ e.set = (r \in used')
            /\ e.begin = begin_xid'[r] /\ e.end = end_xid'[r]
        BY DEF RowEntry
      <4>2. clog'[m] = e
        BY <2>2, <3>6
      <4> QED BY <3>2, <4>1, <4>2 DEF IsImage, BeginsAt, EndsAt
    <3>8. type = "INSERT" => \A u \in Sessions : ~ Inserting(u, r)'
      <4> SUFFICES ASSUME NEW op, op = operations[s][cursor[s]], type = "INSERT", NEW u \in Sessions
                   PROVE  ~ Inserting(u, r)'
        OBVIOUS
      <4>1. op.rid = r /\ op.type = "INSERT"
        BY <3>1
      <4>2. ~ Inserting(u, op.rid)'
        BY <2>5, <4>1, LoopOp
      <4> QED BY <4>1, <4>2
    <3>9. m \in 1..m /\ \A j \in m..lsn' : j = m
      BY <1>0, <2>2, <3>2
    <3> QED BY <3>2, <3>7, <3>8, <3>9 DEF Settled
  <2>6. InsertDone(s, r)' => InsertDone(s, r) \/ (CommitOperation(s) /\ operations[s][cursor[s]] = [type |-> "INSERT", rid |-> r])
    BY <2>2, <2>4 DEF InsertDone
  <2>7. DeleteDone(s, r)' => DeleteDone(s, r) \/ (CommitOperation(s) /\ operations[s][cursor[s]] = [type |-> "DELETE", rid |-> r])
    BY <2>2, <2>4 DEF DeleteDone
  <2>8. InsertDone(t, r)' => Settled(r, c, m)'
    BY <1>2, <1>4, <2>3, <2>5, <2>6
  <2>9. DeleteDone(t, r)' => \E k \in 1..m : EndsAt(k, r, c)'
    BY <1>2, <1>4, <2>3, <2>5, <2>7
  <2> QED BY <2>8, <2>9
<1> QED BY <1>3, <1>4

LEMMA SessionRec ==
  ASSUME RecInv, NEW s \in Sessions, SessionStep(s), restarts' = restarts,
         \/ acked' = acked
         \/ CommitDone(s) /\ acked' = acked \cup (InsertedRows(s) \X {commit_xid[s]})
  PROVE  RecInv'
<1>0. TypeOK /\ LogOK /\ Loops /\ Acts(s) /\ lsn \in Nat /\ flushed \in Nat /\ flushed <= lsn
  BY SessionActs DEF RecInv, TypeOK, LogOK
<1>1. TypeOK'
  BY <1>0, TypeStep
<1>2. Loops' /\ OneInsert' /\ LogOK' /\ StampedLogged' /\ flushed' = flushed
  BY <1>0, <1>1, LoopsStep, OneInsertStep, LogOKStep, StampedLoggedStep, Appended
<1>3. ASSUME NEW r \in Rids, NEW c \in Int, NEW n \in Nat, n <= flushed, Settled(r, c, n)
      PROVE  \A m \in {flushed'} : Settled(r, c, m)'
  <2> SUFFICES ASSUME NEW m, m = flushed PROVE Settled(r, c, m)'
    BY <1>2
  <2>1. m \in Nat /\ n <= m /\ n <= lsn
    BY <1>0, <1>3
  <2> QED BY <1>1, <1>3, <2>1, SettledStep
<1>4. ASSUME NEW a \in acked
      PROVE  \E r \in Rids, c \in Int : a = <<r, c>> /\ \A m \in {flushed'} : Settled(r, c, m)'
  <2>1. PICK r \in Rids, c \in Int : a = <<r, c>> /\ \A n \in {flushed} : Settled(r, c, n)
    BY DEF RecInv, AckedSettled
  <2>2. PICK n \in Nat : n = flushed
    BY <1>0
  <2>3. Settled(r, c, n) /\ n <= flushed
    BY <1>0, <2>1, <2>2
  <2> QED BY <1>3, <2>1, <2>3
<1>5. ASSUME CommitDone(s), NEW r \in InsertedRows(s)
      PROVE  /\ r \in Rids /\ commit_xid[s] \in Int
             /\ \A c \in {commit_xid[s]} : \A m \in {flushed'} : Settled(r, c, m)'
  <2>1. phase[s] = "commit_wait" /\ wait_lsn[s] <= flushed /\ commit_xid[s] \in Int
        /\ operations[s] \in Seq(Operation) /\ Stamped(s) = 1..Len(operations[s]) /\ wait_lsn[s] \in Nat
    BY <1>0, <1>5, StampedIs DEF CommitDone, TypeOK
  <2>2. PICK i \in 1..Len(operations[s]) : operations[s][i].type = "INSERT" /\ operations[s][i].rid = r
    BY DEF InsertedRows
  <2>3. operations[s][i] \in Operation
    BY <2>1
  <2>4. r \in Rids /\ operations[s][i] = [type |-> "INSERT", rid |-> r]
    BY <2>2, <2>3 DEF Operation
  <2>5. InsertDone(s, r)
    BY <2>1, <2>2, <2>4 DEF InsertDone
  <2> SUFFICES ASSUME NEW c, c = commit_xid[s], NEW n, n = LogEnd(s)
               PROVE  \A m \in {flushed'} : Settled(r, c, m)'
    BY <2>1, <2>4
  <2>6. Settled(r, c, n)
    BY <2>4, <2>5 DEF RecInv, StampedLogged
  <2>7. n \in Nat /\ n <= flushed /\ c \in Int
    BY <2>1 DEF LogEnd
  <2> QED BY <1>3, <2>4, <2>6, <2>7
<1>6. AckedSettled'
  <2> SUFFICES ASSUME NEW a \in acked'
               PROVE  \E r \in Rids, c \in Int : a = <<r, c>> /\ \A m \in {flushed'} : Settled(r, c, m)'
    BY DEF AckedSettled
  <2>1. CASE a \in acked
    BY <1>4, <2>1
  <2>2. CASE CommitDone(s) /\ a \in InsertedRows(s) \X {commit_xid[s]}
    <3>1. PICK r \in InsertedRows(s), c \in {commit_xid[s]} : a = <<r, c>>
      BY <2>2
    <3>2. r \in Rids /\ c \in Int /\ \A m \in {flushed'} : Settled(r, c, m)'
      BY <1>5, <2>2, <3>1
    <3> QED BY <3>1, <3>2
  <2> QED BY <2>1, <2>2
<1> QED BY <1>1, <1>2, <1>6 DEF RecInv

(* Steps of the log thread and of Db::sync, which move only the mark of     *)
(* what is on disk.                                                         *)
LEMMA FlushRec ==
  ASSUME RecInv, UNCHANGED <<current_trx_id, heap, trx_id, started, operations, thread, lsn, clog, restarts, acked>>,
         flushed' \in Nat, flushed <= flushed', flushed' <= lsn
  PROVE  RecInv'
<1>0. TypeOK /\ LogOK /\ flushed \in Nat /\ lsn \in Nat
  BY DEF RecInv, TypeOK
<1>1. TypeOK' /\ LogOK' /\ Loops'
  BY <1>0 DEF RecInv, TypeOK, LogOK, Loops, heap, thread
<1>2. \A t \in Sessions : /\ Pending(t)' = Pending(t)
                          /\ \A r \in Rids : Inserting(t, r)' <=> Inserting(t, r)
  BY Frame DEF thread
<1>3. OneInsert'
  BY <1>2 DEF RecInv, OneInsert, heap, thread
<1>4. ASSUME NEW r \in Rids, NEW c \in Int, NEW n \in Nat, Settled(r, c, n), NEW m \in Nat, n <= m
      PROVE  Settled(r, c, m)'
  <2>1. r \in used' /\ begin_xid'[r] = c /\ \A t \in Sessions : ~ Inserting(t, r)'
    BY <1>2, <1>4 DEF Settled, heap
  <2>2. PICK k \in 1..n : BeginsAt(k, r, c) /\ \A j \in k..lsn : IsImage(j, r) => BeginsAt(j, r, c)
    BY <1>4 DEF Settled
  <2>3. k \in 1..m
    BY <1>4
  <2>4. BeginsAt(k, r, c)' /\ \A j \in k..lsn' : IsImage(j, r)' => BeginsAt(j, r, c)'
    BY <2>2 DEF BeginsAt, IsImage
  <2> QED BY <2>1, <2>3, <2>4 DEF Settled
<1>5. StampedLogged'
  <2> SUFFICES ASSUME NEW t \in Sessions, NEW r \in Rids,
                      NEW c, c = commit_xid'[t], NEW m, m = LogEnd(t)'
               PROVE  /\ InsertDone(t, r)' => Settled(r, c, m)'
                      /\ DeleteDone(t, r)' => \E k \in 1..m : EndsAt(k, r, c)'
    BY DEF StampedLogged
  <2>1. c = commit_xid[t] /\ m = LogEnd(t) /\ c \in Int /\ m \in Nat
    BY <1>0, LogEndOK DEF thread, LogEnd, TypeOK
  <2>2. (InsertDone(t, r)' <=> InsertDone(t, r)) /\ (DeleteDone(t, r)' <=> DeleteDone(t, r))
    BY DEF InsertDone, DeleteDone, Stamped, thread
  <2>3. /\ InsertDone(t, r) => Settled(r, c, m)
        /\ DeleteDone(t, r) => \E k \in 1..m : EndsAt(k, r, c)
    BY <2>1 DEF RecInv, StampedLogged
  <2>4. \A k \in 1..m : EndsAt(k, r, c) => EndsAt(k, r, c)'
    BY DEF EndsAt, IsImage
  <2> QED BY <1>4, <2>1, <2>2, <2>3, <2>4
<1>6. AckedSettled'
  <2> SUFFICES ASSUME NEW a \in acked
               PROVE  \E r \in Rids, c \in Int : a = <<r, c>> /\ \A m \in {flushed'} : Settled(r, c, m)'
    BY DEF AckedSettled
  <2>1. PICK r \in Rids, c \in Int : a = <<r, c>> /\ \A n \in {flushed} : Settled(r, c, n)
    BY DEF RecInv, AckedSettled
  <2>2. PICK n \in Nat : n = flushed
    BY <1>0
  <2>3. PICK m \in Nat : m = flushed'
    OBVIOUS
  <2>4. Settled(r, c, n) /\ n <= m
    BY <2>1, <2>2, <2>3
  <2>5. Settled(r, c, m)'
    BY <1>4, <2>4
  <2> QED BY <2>1, <2>3, <2>5
<1> QED BY <1>1, <1>3, <1>5, <1>6 DEF RecInv

-----------------------------------------------------------------------------
(* A restart takes the last durable image of each row.                      *)
LEMMA RedoneOK ==
  ASSUME RecInv, NEW r \in Rids
  PROVE  /\ RolledBack(Redone(r)) = Redone(r)
         /\ Redone(r).set \in BOOLEAN /\ Redone(r).begin \in Int /\ Redone(r).end \in Int
         /\ \A k \in 1..flushed, c \in Int :
              BeginsAt(k, r, c) /\ (\A j \in k..lsn : IsImage(j, r) => BeginsAt(j, r, c))
                => Redone(r).set /\ Redone(r).begin = c
<1>0. LogOK /\ flushed \in Nat /\ lsn \in Nat /\ flushed <= lsn
  BY DEF RecInv, TypeOK, LogOK
<1>1. RolledBack(Redone(r)) = Redone(r)
  BY DEF RolledBack, TrxMapAtDone
<1>2. Images(r) # {} => Max(Images(r)) \in Images(r) /\ \A k \in Images(r) : k <= Max(Images(r))
  <2>1. Images(r) \subseteq Int /\ \A k \in Images(r) : k <= flushed
    BY <1>0 DEF Images
  <2> QED BY <1>0, <2>1, MaxExists
<1>3. CASE Images(r) = {}
  <2>1. Redone(r) = RowEntry(r, 0, 0, FALSE)
    BY <1>3 DEF Redone
  <2>2. Redone(r).set = FALSE /\ Redone(r).begin = 0 /\ Redone(r).end = 0
    BY <2>1 DEF RowEntry
  <2>3. ASSUME NEW k \in 1..flushed, NEW c \in Int, BeginsAt(k, r, c) PROVE FALSE
    BY <1>3, <2>3 DEF Images, BeginsAt, IsImage
  <2>4. Redone(r).begin \in Int /\ Redone(r).end \in Int
    BY <2>2
  <2>5. Redone(r).set \in BOOLEAN
    BY <2>2, Zenon
  <2> QED BY <1>1, <2>3, <2>4, <2>5
<1>4. CASE Images(r) # {}
  <2> DEFINE x == Max(Images(r))
  <2>1. Redone(r) = clog[x] /\ x \in Images(r) /\ \A k \in Images(r) : k <= x
    BY <1>2, <1>4 DEF Redone
  <2> HIDE DEF x
  <2>2. x \in 1..flushed /\ clog[x].module = "RECORD_MANAGER" /\ clog[x].rid = r
    BY <2>1 DEF Images
  <2>3. clog[x] \in Entry
    BY <1>0, <2>2 DEF LogOK
  <2>4. clog[x].set \in BOOLEAN /\ clog[x].begin \in Int /\ clog[x].end \in Int
    BY <2>2, <2>3, EntryTyped
  <2>5. ASSUME NEW k \in 1..flushed, NEW c \in Int, BeginsAt(k, r, c),
               \A j \in k..lsn : IsImage(j, r) => BeginsAt(j, r, c)
        PROVE  clog[x].set /\ clog[x].begin = c
    <3>1. k <= x
      BY <2>1, <2>5 DEF Images, BeginsAt, IsImage
    <3>2. x \in k..lsn
      BY <1>0, <2>2, <3>1
    <3> QED BY <2>2, <2>5, <3>2 DEF BeginsAt, IsImage
  <2> QED BY <1>1, <2>1, <2>4, <2>5
<1> QED BY <1>3, <1>4

LEMMA CrashRec ==
  ASSUME RecInv, CrashRestart
  PROVE  RecInv'
<1>0. TypeOK /\ LogOK /\ flushed \in Nat /\ lsn \in Nat /\ flushed <= lsn /\ clog \in Seq(Entry) /\ Len(clog) = lsn
      /\ IdBound \in Nat
  BY BoundsAssumption DEF RecInv, TypeOK, LogOK
<1>1. /\ used' = {r \in Rids : Redone(r).set}
      /\ begin_xid' = [r \in Rids |-> Redone(r).begin]
      /\ end_xid' = [r \in Rids |-> Redone(r).end]
  BY RedoneOK DEF CrashRestart
<1>2. current_trx_id' \in 0..IdBound
  <2> DEFINE S == ReplayedIds \cup {0}
  <2>1. S \subseteq Int /\ \A x \in S : x <= IdBound
    <3> SUFFICES ASSUME NEW k \in 1..flushed, clog[k].module = "TRANSACTION"
                 PROVE  clog[k].trx_id \in Int /\ clog[k].trx_id <= IdBound
      BY <1>0 DEF ReplayedIds
    <3>1. k \in 1..lsn /\ clog[k] \in Entry
      BY <1>0
    <3> QED BY <1>0, <3>1, EntryTyped DEF LogOK
  <2>2. 0 \in S
    OBVIOUS
  <2>3. current_trx_id' = Max(S)
    BY DEF CrashRestart
  <2> HIDE DEF S
  <2>4. S # {} /\ IdBound \in Int
    BY <1>0, <2>2
  <2>5. Max(S) \in S /\ \A y \in S : y <= Max(S)
    BY ONLY <2>1, <2>4, MaxExists
  <2>6. Max(S) \in Int /\ 0 <= Max(S) /\ Max(S) <= IdBound
    BY <2>1, <2>2, <2>5
  <2> QED BY <1>0, <2>3, <2>6
<1>3. /\ trx_id' = [s \in Sessions |-> -1] /\ started' = {} /\ operations' = [s \in Sessions |-> <<>>]
      /\ phase' = [s \in Sessions |-> "ready"] /\ cursor' = [s \in Sessions |-> 0]
      /\ commit_xid' = [s \in Sessions |-> 0] /\ work' = [s \in Sessions |-> NoRid]
      /\ wait_lsn' = [s \in Sessions |-> 0] /\ lsn' = flushed /\ flushed' = flushed
      /\ clog' = SubSeq(clog, 1, flushed) /\ restarts' = restarts + 1 /\ acked' = acked
  BY DEF CrashRestart
<1>4. TypeOK'
  <2>1. begin_xid' \in [Rids -> Int] /\ end_xid' \in [Rids -> Int] /\ used' \subseteq Rids
    BY <1>1, RedoneOK
  <2>2. <<>> \in Seq(Operation)
    OBVIOUS
  <2> QED BY <1>0, <1>2, <1>3, <2>1, <2>2 DEF TypeOK, Phases
<1>5. /\ clog' \in Seq(Entry) /\ Len(clog') = flushed /\ \A k \in 1..flushed : clog'[k] = clog[k]
  BY <1>0, <1>3
<1>6. LogOK'
  <2>1. restarts' \in Nat
    BY <1>0, <1>3 DEF LogOK
  <2>2. \A k \in 1..flushed : k \in 1..lsn
    BY <1>0
  <2>3. -1 <= IdBound
    BY <1>0
  <2> QED BY <1>0, <1>3, <1>5, <2>1, <2>2, <2>3 DEF LogOK
<1>7. \A s \in Sessions : phase'[s] = "ready" /\ Len(operations'[s]) = 0
  BY <1>3
<1>8. \A s \in Sessions : Pending(s)' = {} /\ Stamped(s)' = {}
  <2> SUFFICES ASSUME NEW s \in Sessions PROVE Pending(s)' = {} /\ Stamped(s)' = {}
    OBVIOUS
  <2>1. Pending(s)' = 1..Len(operations'[s]) /\ Stamped(s)' = {}
    BY <1>4, <1>7, PendingIsPrime, StampedIsPrime
  <2> QED BY <1>7, <2>1
<1>9. \A s \in Sessions, r \in Rids : ~ Inserting(s, r)'
  BY <1>7, <1>8 DEF Inserting, Unfinished
<1>10. Loops' /\ OneInsert' /\ StampedLogged'
  BY <1>7, <1>8, <1>9 DEF Loops, OneInsert, StampedLogged, InsertDone, DeleteDone
<1>11. AckedSettled'
  <2> SUFFICES ASSUME NEW a \in acked
               PROVE  \E r \in Rids, c \in Int : a = <<r, c>> /\ \A m \in {flushed'} : Settled(r, c, m)'
    BY <1>3 DEF AckedSettled
  <2>1. PICK r \in Rids, c \in Int : a = <<r, c>> /\ \A n \in {flushed} : Settled(r, c, n)
    BY DEF RecInv, AckedSettled
  <2>2. PICK n \in Nat : n = flushed
    BY <1>0
  <2>3. PICK k \in 1..n : BeginsAt(k, r, c) /\ \A j \in k..lsn : IsImage(j, r) => BeginsAt(j, r, c)
    BY <2>1, <2>2 DEF Settled
  <2>4. r \in used' /\ begin_xid'[r] = c
    BY <1>1, <2>2, <2>3, RedoneOK
  <2>5. BeginsAt(k, r, c)' /\ \A j \in k..n : IsImage(j, r)' => BeginsAt(j, r, c)'
    <3>1. \A j \in k..n : j \in 1..flushed /\ j \in k..lsn
      BY <1>0, <2>2
    <3>2. k \in 1..flushed
      BY <2>2
    <3> QED BY <1>5, <2>3, <3>1, <3>2 DEF BeginsAt, IsImage
  <2>6. Settled(r, c, n)'
    BY <1>3, <1>9, <2>2, <2>4, <2>5 DEF Settled
  <2> QED BY <1>3, <2>1, <2>2, <2>6
<1> QED BY <1>4, <1>6, <1>10, <1>11 DEF RecInv

LEMMA StepRec == RecInv /\ [RecoveryNext]_all_vars => RecInv'
<1> SUFFICES ASSUME RecInv, [RecoveryNext]_all_vars PROVE RecInv'
  OBVIOUS
<1>0. flushed \in Nat /\ lsn \in Nat /\ flushed <= lsn
  BY DEF RecInv, TypeOK, LogOK
<1>1. CASE UNCHANGED all_vars
  BY <1>0, <1>1, FlushRec DEF all_vars, vars, recovery_vars
<1>2. CASE RunningStep /\ UNCHANGED <<check_point_lsn, restarts>>
  <2>1. CASE FlushLog /\ UNCHANGED <<clog, acked>>
    BY <1>0, <1>2, <2>1, FlushRec DEF FlushLog
  <2>2. ASSUME NEW s \in Sessions,
               \/ (RowSteps(s) \/ TrxSteps(s)) /\ UNCHANGED acked
               \/ (StartIfNeed(s) \/ Commit(s) \/ Rollback(s)) /\ UNCHANGED <<clog, acked>>
               \/ /\ CommitDone(s)
                  /\ acked' = acked \cup (InsertedRows(s) \X {commit_xid[s]})
                  /\ UNCHANGED clog
        PROVE  RecInv'
    <3>1. SessionStep(s)
      BY <2>2 DEF SessionStep
    <3>2. \/ acked' = acked
          \/ CommitDone(s) /\ acked' = acked \cup (InsertedRows(s) \X {commit_xid[s]})
      BY <2>2
    <3> QED BY <1>2, <3>1, <3>2, SessionRec
  <2> QED BY <1>2, <2>1, <2>2 DEF RunningStep
<1>3. CASE Sync
  BY <1>0, <1>3, FlushRec DEF Sync
<1>4. CASE CrashRestart
  BY <1>4, CrashRec
<1> QED BY <1>1, <1>2, <1>3, <1>4 DEF RecoveryNext

(* The invariant of transactions over crashes holds.                        *)
THEOREM RecoveryInvariant == RecoverySpec => []RecInv
<1> QED BY InitRec, StepRec, PTL DEF RecoverySpec

(* An insert whose commit has returned is never lost, over any sequence of  *)
(* crashes (commit_with_trx_id, the log and the redo of row images).        *)
THEOREM AckedInsertsSurvive == RecoverySpec => []AckedInsertSurvives
<1>1. RecInv => AckedInsertSurvives
  <2> SUFFICES ASSUME RecInv, NEW a \in acked PROVE a[1] \in used /\ begin_xid[a[1]] = a[2]
    BY DEF AckedInsertSurvives
  <2>1. PICK r \in Rids, c \in Int : a = <<r, c>> /\ \A n \in {flushed} : Settled(r, c, n)
    BY DEF RecInv, AckedSettled
  <2>2. r \in used /\ begin_xid[r] = c
    BY <2>1 DEF Settled
  <2> QED BY <2>1, <2>2
<1> QED BY <1>1, RecoveryInvariant, PTL

(* When commit returns, the images of all rows it stamped are on disk:      *)
(* waiting for the COMMIT entry covers them (MvccTrxLogHandler::commit).    *)
THEOREM CommitsAreDurable == RecoverySpec => CommitIsDurable
<1> DEFINE D == \A s \in Sessions : CommitDone(s) =>
                  \A i \in 1..Len(operations[s]) : \E k \in Images(operations[s][i].rid) :
                    IF operations[s][i].type = "INSERT" THEN clog[k].begin = commit_xid[s]
                                                        ELSE clog[k].end = commit_xid[s]
<1>1. RecInv => D
  <2> SUFFICES ASSUME RecInv, NEW s \in Sessions, CommitDone(s), NEW i \in 1..Len(operations[s])
               PROVE  \E k \in Images(operations[s][i].rid) :
                        IF operations[s][i].type = "INSERT" THEN clog[k].begin = commit_xid[s]
                                                            ELSE clog[k].end = commit_xid[s]
    OBVIOUS
  <2>1. phase[s] = "commit_wait" /\ wait_lsn[s] <= flushed /\ wait_lsn[s] \in Nat /\ flushed \in Nat
        /\ Stamped(s) = 1..Len(operations[s]) /\ operations[s] \in Seq(Operation)
    BY StampedIs DEF CommitDone, RecInv, TypeOK
  <2>2. operations[s][i] \in Operation
    BY <2>1
  <2>3. PICK r \in Rids, type \in {"INSERT", "DELETE"} : operations[s][i] = [type |-> type, rid |-> r]
    BY <2>2 DEF Operation
  <2>4. PICK k \in 1..wait_lsn[s] : IsImage(k, r) /\ IF type = "INSERT" THEN clog[k].begin = commit_xid[s]
                                                                  ELSE clog[k].end = commit_xid[s]
    <3> SUFFICES ASSUME NEW c, c = commit_xid[s], NEW n, n = LogEnd(s)
                 PROVE  \E k \in 1..n : IsImage(k, r) /\ IF type = "INSERT" THEN clog[k].begin = c ELSE clog[k].end = c
      BY <2>1 DEF LogEnd
    <3>1. CASE type = "INSERT"
      <4>1. InsertDone(s, r)
        BY <2>1, <2>3, <3>1 DEF InsertDone
      <4>2. Settled(r, c, n)
        BY <4>1 DEF RecInv, StampedLogged
      <4> QED BY <3>1, <4>2 DEF Settled, BeginsAt
    <3>2. CASE type = "DELETE"
      <4>1. DeleteDone(s, r)
        BY <2>1, <2>3, <3>2 DEF DeleteDone
      <4>2. \E k \in 1..n : EndsAt(k, r, c)
        BY <4>1 DEF RecInv, StampedLogged
      <4> QED BY <3>2, <4>2 DEF EndsAt
    <3> QED BY <3>1, <3>2
  <2>5. k \in 1..flushed
    BY <2>1
  <2>6. k \in Images(r)
    BY <2>4, <2>5 DEF Images, IsImage
  <2>7. operations[s][i].type = type /\ operations[s][i].rid = r
    BY <2>3
  <2> QED BY <2>4, <2>6, <2>7
<1>2. RecInv => [D]_all_vars
  BY <1>1
<1>3. RecoverySpec => [][D]_all_vars
  BY <1>2, RecoveryInvariant, PTL DEF RecoverySpec
<1> QED BY <1>3 DEF CommitIsDurable
=============================================================================
