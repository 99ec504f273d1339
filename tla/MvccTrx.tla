------------------------------ MODULE MvccTrx ------------------------------
(***************************************************************************)
(* Multi-version transactions of MiniOB                                    *)
(* (src/observer/storage/trx/mvcc_trx.cpp and mvcc_trx_log.cpp).           *)
(*                                                                         *)
(* Every row carries two version fields, __trx_xid_begin and               *)
(* __trx_xid_end.  A transaction stamps them with minus its own number     *)
(* while it runs, and with its commit number, row by row, when it commits. *)
(* Each session's worker thread runs one transaction object; a step of     *)
(* this module is what one thread does between two points at which another *)
(* thread can be seen: a row is read and written under the write latch of  *)
(* its page, so testing and stamping one row is one step, while the append *)
(* of the transaction's own log entry, and the stamping of the next row,   *)
(* are separate steps.                                                     *)
(*                                                                         *)
(* Of the commit log this module keeps only how long it is (the LSN of the *)
(* last entry appended) and how much of it is on disk: that is all a       *)
(* running transaction depends on.  Every step that appends an entry says  *)
(* so with AppendLog; module MvccRecovery adds what the entries hold, and  *)
(* module DiskLog models the handler and its thread.                       *)
(* ASSERT is compiled to nothing in the release build: the model goes on   *)
(* after a failed one, and the assertions are stated as properties.        *)
(***************************************************************************)
EXTENDS Integers, Sequences

CONSTANTS
  Sessions,     \* client sessions, each with its own MvccTrx object
  Rids,         \* record slots of the tables
  MAX_TRX_ID,   \* MvccTrxKit::max_trx_id(), the end stamp of a live row
  IdBound,      \* bound: transaction numbers handed out
  OpBound,      \* bound: operations of one transaction
  LogBound,     \* bound: log entries after which clients issue nothing more
  NoRid         \* not a record slot

ASSUME BoundsAssumption ==
  /\ MAX_TRX_ID \in Nat /\ IdBound \in Nat
  /\ IdBound < MAX_TRX_ID     \* int32_t numbers do not wrap
  /\ OpBound \in Nat /\ LogBound \in Nat
ASSUME NoRidAssumption == NoRid \notin Rids

VARIABLES
  current_trx_id,  \* MvccTrxKit::current_trx_id_
  used,            \* the slots whose bit is set in their page's bitmap
  begin_xid,       \* field __trx_xid_begin of each slot, 0 when unused
  end_xid,         \* field __trx_xid_end of each slot, 0 when unused
  trx_id,          \* MvccTrx::trx_id_ of each session's transaction
  started,         \* the sessions whose MvccTrx::started_ is set
  operations,      \* MvccTrx::operations_
  phase,           \* what the session's thread is executing
  cursor,          \* the operation that commit or rollback handles next
  commit_xid,      \* the argument of commit_with_trx_id
  work,            \* the slot just written, whose log entry is still due
  wait_lsn,        \* the LSN commit waits for
  lsn,             \* the LSN of the last entry appended to the log
  flushed          \* the LSN up to which the log is on disk

heap   == <<used, begin_xid, end_xid>>
thread == <<phase, cursor, commit_xid, work, wait_lsn>>
vars   == <<current_trx_id, heap, trx_id, started, operations, thread, lsn, flushed>>

Phases == {"ready", "log_insert", "log_delete", "commit", "commit_wait", "rollback"}

Operation == [type : {"INSERT", "DELETE"}, rid : Rids]

TypeOK ==
  /\ current_trx_id \in 0..IdBound
  /\ used \subseteq Rids
  /\ begin_xid \in [Rids -> Int]
  /\ end_xid \in [Rids -> Int]
  /\ trx_id \in [Sessions -> Int]
  /\ started \subseteq Sessions
  /\ operations \in [Sessions -> Seq(Operation)]
  /\ phase \in [Sessions -> Phases]
  /\ cursor \in [Sessions -> Nat]
  /\ commit_xid \in [Sessions -> Int]
  /\ work \in [Sessions -> Rids \cup {NoRid}]
  /\ wait_lsn \in [Sessions -> Nat]
  /\ lsn \in Nat
  /\ flushed \in Nat

Init ==
  /\ current_trx_id = 0
  /\ used = {}
  /\ begin_xid = [r \in Rids |-> 0]
  /\ end_xid = [r \in Rids |-> 0]
  /\ trx_id = [s \in Sessions |-> -1]
  /\ started = {}
  /\ operations = [s \in Sessions |-> <<>>]
  /\ phase = [s \in Sessions |-> "ready"]
  /\ cursor = [s \in Sessions |-> 0]
  /\ commit_xid = [s \in Sessions |-> 0]
  /\ work = [s \in Sessions |-> NoRid]
  /\ wait_lsn = [s \in Sessions |-> 0]
  /\ lsn = 0
  /\ flushed = 0

-----------------------------------------------------------------------------
(* Plausible bugs: a writer does not respect another's delete stamp, and a  *)
(* reader is kept from a row that another transaction is deleting.          *)
VisitRecordNoLock(id, b, e, mode) ==
  CASE b > 0 /\ e > 0 -> IF id >= b /\ id <= e THEN "SUCCESS" ELSE "RECORD_INVISIBLE"
    [] b < 0 -> IF -b = id THEN "SUCCESS" ELSE "RECORD_INVISIBLE"
    [] b >= 0 /\ e < 0 -> IF -e = id THEN "RECORD_INVISIBLE" ELSE "SUCCESS"
    [] OTHER -> "SUCCESS"

VisitRecordReadLocked(id, b, e, mode) ==
  CASE b > 0 /\ e > 0 -> IF id >= b /\ id <= e THEN "SUCCESS" ELSE "RECORD_INVISIBLE"
    [] b < 0 -> IF -b = id THEN "SUCCESS" ELSE "RECORD_INVISIBLE"
    [] b >= 0 /\ e < 0 -> IF -e = id THEN "RECORD_INVISIBLE" ELSE "LOCKED_CONCURRENCY_CONFLICT"
    [] OTHER -> "SUCCESS"

(* visit_record: may transaction id see a row stamped (b, e)?  A row whose  *)
(* begin is negative is being inserted, one whose end is negative is being  *)
(* deleted.                                                                 *)
VisitRecord(id, b, e, mode) ==
  CASE b > 0 /\ e > 0 -> IF id >= b /\ id <= e THEN "SUCCESS" ELSE "RECORD_INVISIBLE"
    [] b < 0          -> IF -b = id THEN "SUCCESS" ELSE "RECORD_INVISIBLE"
    [] b >= 0 /\ e < 0 -> IF -e = id THEN "RECORD_INVISIBLE"
                         ELSE IF mode = "READ_ONLY" THEN "SUCCESS" ELSE "LOCKED_CONCURRENCY_CONFLICT"
    [] OTHER          -> "SUCCESS"

Visit(s, r, mode) == VisitRecord(trx_id[s], begin_xid[r], end_xid[r], mode)

AppendLog == lsn' = lsn + 1

(* The row update that the page's log entry describes.                     *)
WriteRow(r, b, e) ==
  /\ used' = used \cup {r}
  /\ begin_xid' = [begin_xid EXCEPT ![r] = b]
  /\ end_xid' = [end_xid EXCEPT ![r] = e]
  /\ AppendLog

-----------------------------------------------------------------------------
(* Clients issue statements while the log has room in the model.           *)
MayIssue(s) == phase[s] = "ready" /\ lsn < LogBound

(* A statement is about to run: start_if_need takes the next number.       *)
StartIfNeed(s) ==
  /\ MayIssue(s) /\ s \notin started
  /\ current_trx_id < IdBound
  /\ current_trx_id' = current_trx_id + 1
  /\ trx_id' = [trx_id EXCEPT ![s] = current_trx_id + 1]
  /\ started' = started \cup {s}
  /\ UNCHANGED <<heap, operations, thread, lsn, flushed>>

(* Plausible bug: the slot is not checked to be free.                       *)
InsertRecordOverwrite(s, r) ==
  /\ MayIssue(s) /\ s \in started /\ Len(operations[s]) < OpBound
  /\ WriteRow(r, -trx_id[s], MAX_TRX_ID)
  /\ phase' = [phase EXCEPT ![s] = "log_insert"]
  /\ work' = [work EXCEPT ![s] = r]
  /\ UNCHANGED <<current_trx_id, trx_id, started, operations, cursor, commit_xid, wait_lsn, flushed>>

(* insert_record, up to the return of Table::insert_record.                *)
InsertRecord(s, r) ==
  /\ MayIssue(s) /\ s \in started
  /\ Len(operations[s]) < OpBound
  /\ r \notin used
  /\ WriteRow(r, -trx_id[s], MAX_TRX_ID)
  /\ phase' = [phase EXCEPT ![s] = "log_insert"]
  /\ work' = [work EXCEPT ![s] = r]
  /\ UNCHANGED <<current_trx_id, trx_id, started, operations, cursor, commit_xid, wait_lsn, flushed>>

(* delete_record, the visit of the row under its page latch.  A row that    *)
(* is not visible or is locked is left alone and the error returned.        *)
DeleteRecord(s, r) ==
  /\ MayIssue(s) /\ s \in started
  /\ Len(operations[s]) < OpBound
  /\ r \in used
  /\ Visit(s, r, "READ_WRITE") = "SUCCESS"
  /\ WriteRow(r, begin_xid[r], -trx_id[s])
  /\ phase' = [phase EXCEPT ![s] = "log_delete"]
  /\ work' = [work EXCEPT ![s] = r]
  /\ UNCHANGED <<current_trx_id, trx_id, started, operations, cursor, commit_xid, wait_lsn, flushed>>

(* The rest of insert_record and delete_record: append the transaction's    *)
(* entry and remember the operation.                                        *)
LogOperation(s) ==
  LET type == IF phase[s] = "log_insert" THEN "INSERT" ELSE "DELETE"
  IN /\ phase[s] \in {"log_insert", "log_delete"}
     /\ AppendLog
     /\ operations' = [operations EXCEPT ![s] = Append(@, [type |-> type, rid |-> work[s]])]
     /\ phase' = [phase EXCEPT ![s] = "ready"]
     /\ work' = [work EXCEPT ![s] = NoRid]
     /\ UNCHANGED <<current_trx_id, heap, trx_id, started, cursor, commit_xid, wait_lsn, flushed>>

-----------------------------------------------------------------------------
(* commit takes the commit number; nothing checks that a transaction has    *)
(* been started.                                                            *)
Commit(s) ==
  /\ MayIssue(s)
  /\ current_trx_id < IdBound
  /\ current_trx_id' = current_trx_id + 1
  /\ commit_xid' = [commit_xid EXCEPT ![s] = current_trx_id + 1]
  /\ started' = started \ {s}
  /\ phase' = [phase EXCEPT ![s] = "commit"]
  /\ cursor' = [cursor EXCEPT ![s] = 1]
  /\ UNCHANGED <<heap, trx_id, operations, work, wait_lsn, lsn, flushed>>

(* Plausible bug: the commit of a DELETE frees the slot.                    *)
CommitOperationFrees(s) ==
  LET op == operations[s][cursor[s]]
  IN /\ phase[s] = "commit" /\ cursor[s] <= Len(operations[s])
     /\ op.rid \in used
     /\ IF op.type = "INSERT"
        THEN WriteRow(op.rid, commit_xid[s], end_xid[op.rid])
        ELSE /\ used' = used \ {op.rid}
             /\ begin_xid' = [begin_xid EXCEPT ![op.rid] = 0]
             /\ end_xid' = [end_xid EXCEPT ![op.rid] = 0]
             /\ AppendLog
     /\ cursor' = [cursor EXCEPT ![s] = @ + 1]
     /\ UNCHANGED <<current_trx_id, trx_id, started, operations, phase, commit_xid, work, wait_lsn, flushed>>

(* One turn of commit_with_trx_id's loop: stamp one row.                   *)
CommitOperation(s) ==
  LET op == operations[s][cursor[s]]
  IN /\ phase[s] = "commit" /\ cursor[s] <= Len(operations[s])
     /\ op.rid \in used
     /\ IF op.type = "INSERT"
        THEN WriteRow(op.rid, commit_xid[s], end_xid[op.rid])
        ELSE WriteRow(op.rid, begin_xid[op.rid], commit_xid[s])
     /\ cursor' = [cursor EXCEPT ![s] = @ + 1]
     /\ UNCHANGED <<current_trx_id, trx_id, started, operations, phase, commit_xid, work, wait_lsn, flushed>>

(* MvccTrxLogHandler::commit appends the COMMIT entry ...                   *)
AppendCommit(s) ==
  /\ phase[s] = "commit" /\ cursor[s] > Len(operations[s])
  /\ AppendLog
  /\ wait_lsn' = [wait_lsn EXCEPT ![s] = lsn + 1]
  /\ phase' = [phase EXCEPT ![s] = "commit_wait"]
  /\ UNCHANGED <<current_trx_id, heap, trx_id, started, operations, cursor, commit_xid, work, flushed>>

(* Plausible bug: commit does not wait.                                     *)
CommitDoneNoWait(s) ==
  /\ phase[s] = "commit_wait"
  /\ operations' = [operations EXCEPT ![s] = <<>>]
  /\ phase' = [phase EXCEPT ![s] = "ready"]
  /\ UNCHANGED <<current_trx_id, heap, trx_id, started, cursor, commit_xid, work, wait_lsn, lsn, flushed>>

(* ... and waits until it is on disk; then the operations are cleared.      *)
CommitDone(s) ==
  /\ phase[s] = "commit_wait" /\ flushed >= wait_lsn[s]
  /\ operations' = [operations EXCEPT ![s] = <<>>]
  /\ phase' = [phase EXCEPT ![s] = "ready"]
  /\ UNCHANGED <<current_trx_id, heap, trx_id, started, cursor, commit_xid, work, wait_lsn, lsn, flushed>>

-----------------------------------------------------------------------------
Rollback(s) ==
  /\ MayIssue(s)
  /\ started' = started \ {s}
  /\ phase' = [phase EXCEPT ![s] = "rollback"]
  /\ cursor' = [cursor EXCEPT ![s] = Len(operations[s])]
  /\ UNCHANGED <<current_trx_id, heap, trx_id, operations, commit_xid, work, wait_lsn, lsn, flushed>>

(* One turn of rollback's loop, from the last operation to the first: an    *)
(* inserted row is removed, a deleted one gets its end stamp back.          *)
RollbackOperation(s) ==
  LET op == operations[s][cursor[s]]
  IN /\ phase[s] = "rollback" /\ cursor[s] > 0
     /\ op.rid \in used
     /\ \/ /\ op.type = "INSERT"
           /\ used' = used \ {op.rid}
           /\ begin_xid' = [begin_xid EXCEPT ![op.rid] = 0]
           /\ end_xid' = [end_xid EXCEPT ![op.rid] = 0]
           /\ AppendLog
        \/ /\ op.type = "DELETE"
           /\ WriteRow(op.rid, begin_xid[op.rid], MAX_TRX_ID)
     /\ cursor' = [cursor EXCEPT ![s] = @ - 1]
     /\ UNCHANGED <<current_trx_id, trx_id, started, operations, phase, commit_xid, work, wait_lsn, flushed>>

(* Plausible bug: the loop ends before the first operation.                 *)
RollbackDoneEarly(s) ==
  /\ phase[s] = "rollback" /\ cursor[s] <= 1
  /\ AppendLog
  /\ operations' = [operations EXCEPT ![s] = <<>>]
  /\ phase' = [phase EXCEPT ![s] = "ready"]
  /\ UNCHANGED <<current_trx_id, heap, trx_id, started, cursor, commit_xid, work, wait_lsn, flushed>>

(* The operations are cleared and ROLLBACK is appended, without a wait.     *)
RollbackDone(s) ==
  /\ phase[s] = "rollback" /\ cursor[s] = 0
  /\ AppendLog
  /\ operations' = [operations EXCEPT ![s] = <<>>]
  /\ phase' = [phase EXCEPT ![s] = "ready"]
  /\ UNCHANGED <<current_trx_id, heap, trx_id, started, cursor, commit_xid, work, wait_lsn, flushed>>

-----------------------------------------------------------------------------
(* The log thread writes the oldest unwritten entry (module DiskLog).       *)
FlushLog ==
  /\ flushed < lsn
  /\ flushed' = flushed + 1
  /\ UNCHANGED <<current_trx_id, heap, trx_id, started, operations, thread, lsn>>

Statement(s) == \/ StartIfNeed(s)
                \/ \E r \in Rids : InsertRecord(s, r) \/ DeleteRecord(s, r)
                \/ Commit(s)
                \/ Rollback(s)

(* What the thread does by itself once a call has been entered.             *)
Proceed(s) == \/ LogOperation(s)
              \/ CommitOperation(s) \/ AppendCommit(s) \/ CommitDone(s)
              \/ RollbackOperation(s) \/ RollbackDone(s)

Next == \/ \E s \in Sessions : Statement(s) \/ Proceed(s)
        \/ FlushLog

Spec == Init /\ [][Next]_vars

-----------------------------------------------------------------------------
(* The operations whose row still carries the transaction's own stamp.      *)
Pending(s) == CASE phase[s] = "commit"      -> cursor[s]..Len(operations[s])
                [] phase[s] = "rollback"    -> 1..cursor[s]
                [] phase[s] = "commit_wait" -> {}
                [] OTHER                    -> 1..Len(operations[s])

Unfinished(s, type, r) ==
  \E i \in Pending(s) : operations[s][i] = [type |-> type, rid |-> r]

Inserting(s, r) == (phase[s] = "log_insert" /\ work[s] = r) \/ Unfinished(s, "INSERT", r)
Deleting(s, r)  == (phase[s] = "log_delete" /\ work[s] = r) \/ Unfinished(s, "DELETE", r)

(* Every negative stamp on a row has a live owner: a transaction with that  *)
(* number that still has the operation to commit or to undo.  Otherwise the *)
(* row would be locked for ever (visit_record tests nothing but the sign).  *)
StampOwned ==
  \A r \in used :
    /\ begin_xid[r] < 0 => \E s \in Sessions : trx_id[s] = -begin_xid[r] /\ Inserting(s, r)
    /\ end_xid[r] < 0   => \E s \in Sessions : trx_id[s] = -end_xid[r] /\ Deleting(s, r)

(* The write lock that delete_record takes by stamping the row excludes:    *)
(* two transactions never both hold an unfinished delete of one row, nor    *)
(* does one delete a row that another is still inserting.                   *)
FirstDeleterWins ==
  \A r \in Rids : \A s, t \in Sessions :
    s # t /\ Deleting(s, r) => ~ Deleting(t, r) /\ ~ Inserting(t, r)

(* Transaction numbers and commit numbers come from one counter and never   *)
(* coincide: visibility compares them with each other.                      *)
IdsDistinct ==
  \A s, t \in Sessions :
    /\ s # t /\ trx_id[s] = trx_id[t] => trx_id[s] = -1
    /\ trx_id[s] > 0 => trx_id[s] # commit_xid[t]

(* commit and rollback find every row they have to stamp, with the insert's *)
(* own stamp still on it (the ASSERTs of mvcc_trx.cpp:300, 309, 331, 383).  *)
PendingRowsIntact ==
  \A s \in Sessions, r \in Rids :
    /\ Inserting(s, r) => r \in used /\ begin_xid[r] = -trx_id[s]
    /\ Deleting(s, r) => r \in used

(* A committed row version is permanent: once a row has a commit number as  *)
(* its begin stamp, no step of any transaction changes it or removes it,    *)
(* and in particular no rollback does (delete is only a stamp; there is no  *)
(* garbage collection).                                                     *)
CommittedInsertStays ==
  [][\A r \in used : begin_xid[r] > 0 => r \in used' /\ begin_xid'[r] = begin_xid[r]]_vars

InSnapshot(s, r) == /\ r \in used /\ s \in started
                    /\ begin_xid[r] > 0 /\ begin_xid[r] <= trx_id[s]
                    /\ Visit(s, r, "READ_ONLY") = "SUCCESS"

(* Reads repeat: a committed row in a running transaction's range stays     *)
(* visible to it until it ends or deletes the row itself.  The one way to   *)
(* lose the row is a commit that had its number before this transaction     *)
(* started and stamps the row only now (the non-atomic commit that          *)
(* mvcc_trx.cpp:285 notes).                                                 *)
ReadsRepeat ==
  [][\A s \in Sessions, r \in Rids :
       InSnapshot(s, r) /\ s \in started' /\ trx_id'[s] = trx_id[s]
         => \/ VisitRecord(trx_id[s], begin_xid'[r], end_xid'[r], "READ_ONLY") = "SUCCESS"
            \/ end_xid'[r] = -trx_id[s]
            \/ \E t \in Sessions : /\ phase[t] = "commit" /\ Deleting(t, r)
                                   /\ commit_xid[t] < trx_id[s]
                                   /\ end_xid'[r] = commit_xid[t]]_vars

=============================================================================
