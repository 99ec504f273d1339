---------------------------- MODULE MvccRecovery ----------------------------
(***************************************************************************)
(* Transactions over crashes: MvccTrx composed with the content of the     *)
(* commit log, Db::sync, and the restart that Db::recover performs with    *)
(* MvccTrxLogReplayer (src/observer/storage/trx/mvcc_trx_log.cpp).         *)
(*                                                                         *)
(* Pages reach the disk no earlier than the log entries that changed them, *)
(* and redo is idempotent, so after a restart the rows are what the        *)
(* durable prefix of the log makes of them, whichever pages had been       *)
(* written.  Redo of the pages themselves belongs to the page modules.     *)
(***************************************************************************)
EXTENDS MvccTrx, FiniteSetsExt

CONSTANT RestartBound   \* bound: crashes of the server
ASSUME RestartAssumption == RestartBound \in Nat

VARIABLES
  clog,             \* the entries of the log; those up to flushed are on disk
  check_point_lsn,  \* Db::check_point_lsn_, kept in the db meta file
  restarts,         \* crashes so far
  acked             \* <<row, commit number>> of inserts whose commit returned

recovery_vars == <<clog, check_point_lsn, restarts, acked>>
all_vars      == <<vars, recovery_vars>>

(* An entry of the record manager holds the whole row image, one of the    *)
(* transaction layer only names the operation.                             *)
RowEntry(r, b, e, set) == [module |-> "RECORD_MANAGER", rid |-> r, set |-> set, begin |-> b, end |-> e]
TrxEntry(type, id, r, c) == [module |-> "TRANSACTION", type |-> type, trx_id |-> id, rid |-> r, commit |-> c]

RecoveryInit == /\ Init
                /\ clog = <<>>
                /\ check_point_lsn = 0
                /\ restarts = 0
                /\ acked = {}

-----------------------------------------------------------------------------
LogRow(r) == clog' = Append(clog, RowEntry(r, begin_xid'[r], end_xid'[r], r \in used'))
LogTrx(type, s, r, c) == clog' = Append(clog, TrxEntry(type, trx_id[s], r, c))

(* What each step of MvccTrx appends.                                      *)
RowSteps(s) ==
  \/ \E r \in Rids : (InsertRecord(s, r) \/ DeleteRecord(s, r)) /\ LogRow(r)
  \/ (CommitOperation(s) \/ RollbackOperation(s)) /\ LogRow(operations[s][cursor[s]].rid)

TrxSteps(s) ==
  \/ LogOperation(s) /\ LogTrx(IF phase[s] = "log_insert" THEN "INSERT_RECORD" ELSE "DELETE_RECORD",
                               s, work[s], 0)
  \/ AppendCommit(s) /\ LogTrx("COMMIT", s, NoRid, commit_xid[s])
  \/ RollbackDone(s) /\ LogTrx("ROLLBACK", s, NoRid, 0)

InsertedRows(s) == {operations[s][i].rid :
                     i \in {j \in 1..Len(operations[s]) : operations[s][j].type = "INSERT"}}

RunningStep ==
  \/ \E s \in Sessions :
       \/ (RowSteps(s) \/ TrxSteps(s)) /\ UNCHANGED acked
       \/ (StartIfNeed(s) \/ Commit(s) \/ Rollback(s)) /\ UNCHANGED <<clog, acked>>
       \/ /\ CommitDone(s)
          /\ acked' = acked \cup (InsertedRows(s) \X {commit_xid[s]})
          /\ UNCHANGED clog
  \/ FlushLog /\ UNCHANGED <<clog, acked>>

(* Db::sync after a DDL statement.  No transaction may be open: the code    *)
(* leaves that to its users (db.cpp:268).  All pages and the whole log are  *)
(* written, then the LSN goes to the meta file.                             *)
Sync ==
  /\ \A s \in Sessions : phase[s] = "ready" /\ s \notin started
  /\ check_point_lsn # lsn
  /\ check_point_lsn' = lsn
  /\ flushed' = lsn
  /\ UNCHANGED <<current_trx_id, heap, trx_id, started, operations, thread, lsn, clog, restarts, acked>>

-----------------------------------------------------------------------------
(* Redo: the last durable image of each row.                               *)
Images(r) == {k \in 1..flushed : clog[k].module = "RECORD_MANAGER" /\ clog[k].rid = r}
RedoneFirst(r) == IF Images(r) = {} THEN RowEntry(r, 0, 0, FALSE) ELSE clog[Min(Images(r))]  \* plausible bug: redo stops at the first image
Redone(r) == IF Images(r) = {} THEN RowEntry(r, 0, 0, FALSE) ELSE clog[Max(Images(r))]

(* Replay starts at the checkpoint, and create_trx raises the counter to    *)
(* the transaction numbers it meets.                                        *)
ReplayedIds == {clog[k].trx_id :
                 k \in {j \in 1..flushed : j >= check_point_lsn /\ clog[j].module = "TRANSACTION"}}

(* The transactions that on_done rolls back.  replay looks each entry's     *)
(* transaction up in trx_map_, but a transaction it creates is never put    *)
(* there; COMMIT and ROLLBACK only erase.  So the map is always empty.      *)
TrxMapAtDone == {}

(* on_done rolls back what is in the map: a row that still bears the        *)
(* transaction's stamp is removed or gets its end stamp back.               *)
RolledBack(row) ==
  CASE row.set /\ -row.begin \in TrxMapAtDone -> RowEntry(row.rid, 0, 0, FALSE)
    [] row.set /\ -row.end \in TrxMapAtDone   -> [row EXCEPT !.end = MAX_TRX_ID]
    [] OTHER                                  -> row

(* The server crashes at any point and restarts.                           *)
CrashRestart ==
  LET row(r) == RolledBack(Redone(r)) IN
  /\ restarts < RestartBound
  /\ restarts' = restarts + 1
  /\ clog' = SubSeq(clog, 1, flushed)
  /\ lsn' = flushed
  /\ used' = {r \in Rids : row(r).set}
  /\ begin_xid' = [r \in Rids |-> row(r).begin]
  /\ end_xid' = [r \in Rids |-> row(r).end]
  /\ current_trx_id' = Max(ReplayedIds \cup {0})
  /\ trx_id' = [s \in Sessions |-> -1]
  /\ started' = {}
  /\ operations' = [s \in Sessions |-> <<>>]
  /\ phase' = [s \in Sessions |-> "ready"]
  /\ cursor' = [s \in Sessions |-> 0]
  /\ commit_xid' = [s \in Sessions |-> 0]
  /\ work' = [s \in Sessions |-> NoRid]
  /\ wait_lsn' = [s \in Sessions |-> 0]
  /\ UNCHANGED <<flushed, check_point_lsn, acked>>

RecoveryNext == \/ RunningStep /\ UNCHANGED <<check_point_lsn, restarts>>
                \/ Sync
                \/ CrashRestart

RecoverySpec == RecoveryInit /\ [][RecoveryNext]_all_vars

-----------------------------------------------------------------------------
(* An insert whose commit has returned to the client is never lost: over    *)
(* any sequence of crashes the row is there with its commit number.         *)
AckedInsertSurvives == \A a \in acked : a[1] \in used /\ begin_xid[a[1]] = a[2]

(* When commit returns, every row image it stamped, deletes included, is on *)
(* disk: waiting for the COMMIT entry covers the earlier ones.              *)
CommitIsDurable ==
  [][\A s \in Sessions : CommitDone(s) =>
       \A i \in 1..Len(operations[s]) : \E k \in Images(operations[s][i].rid) :
         IF operations[s][i].type = "INSERT" THEN clog[k].begin = commit_xid[s]
                                             ELSE clog[k].end = commit_xid[s]]_all_vars

(* Transactions with an operation in the durable log and no end.           *)
Ended(id) == \E k \in 1..flushed : /\ clog[k].module = "TRANSACTION" /\ clog[k].trx_id = id
                                  /\ clog[k].type \in {"COMMIT", "ROLLBACK"}
Interrupted == {id \in ReplayedIds : ~ Ended(id)}

(* mvcc_trx_log.cpp:180: when replay is done, the transactions met in the   *)
(* log that did not end have been rolled back, so no row bears their stamp. *)
UncommittedRolledBack ==
  [][restarts' # restarts =>
       \A r \in used' : \A id \in Interrupted : begin_xid'[r] # -id /\ end_xid'[r] # -id]_all_vars

=============================================================================
