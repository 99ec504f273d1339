------------------------------ MODULE Session -------------------------------
(***************************************************************************)
(* Sessions: how a statement meets its transaction.                        *)
(*                                                                         *)
(* A request is planned, its operator is opened (a DML statement does all  *)
(* its work in open), drained and closed, and SqlResult::close ends the    *)
(* transaction unless the session is between BEGIN and COMMIT.  The plain  *)
(* and the MySQL communicators drive the same result differently when      *)
(* open fails.  Rows carry the two stamps of MvccTrx: a negative stamp     *)
(* names the transaction that is inserting or deleting the row.            *)
(*                                                                         *)
(* Reading the rows a statement is about is one step here; every insert    *)
(* and every delete is one of its own, so sessions interleave between      *)
(* them.  That a commit's stamping is not atomic is the matter of MvccTrx. *)
(***************************************************************************)
EXTENDS Integers, Sequences, FiniteSets, SequencesExt

CONSTANTS
  Sessions,   \* the connected sessions
  Protocol,   \* [Sessions -> {"plain", "mysql"}]
  Keys,       \* what identifies a row to its users; an UPDATE keeps it
  Stored,     \* the keys of the rows in the table at the start
  Wheres,     \* the conditions of DELETE and UPDATE: sets of keys
  StmtBound,  \* bound: statements each session sends
  RowBound,   \* bound: row slots
  MAX_ID      \* MvccTrxKit::max_trx_id()

ASSUME SessionAssumption ==
  /\ Protocol \in [Sessions -> {"plain", "mysql"}]
  /\ Stored \subseteq Keys /\ IsFiniteSet(Stored) /\ Cardinality(Stored) <= RowBound
  /\ StmtBound \in [Sessions -> Nat] /\ RowBound \in Nat /\ MAX_ID \in Nat
  /\ \A w \in Wheres : w \subseteq Keys

VARIABLES
  rows,     \* slot -> [begin, end, key], for the slots in use
  nextId,   \* MvccTrxKit::current_trx_id_
  multi,    \* Session::trx_multi_operation_mode_
  trx,      \* Session::trx_: [started, id, ops]
  stmt,     \* the statement in execution, see NoStmt
  last,     \* the answer to the last statement with an operator: see NoAnswer
  sent,     \* statements sent (bound)
  open      \* sessions that are connected

vars == <<rows, nextId, multi, trx, stmt, last, sent, open>>

Slots == 1 .. RowBound
Used == DOMAIN rows
Free == Slots \ Used
Op == [type : {"INSERT", "DELETE"}, rid : Slots]

\* A statement: the rows it found, those it has still to delete and the keys
\* it has still to insert; cut: its row source failed before it had given all
\* it found; did: what it deleted; made: rows it inserted; rc: how open() stands.
NoStmt == [kind |-> "none", found |-> {}, todo |-> <<>>, adds |-> <<>>, cut |-> FALSE,
           did |-> {}, made |-> 0, rc |-> "SUCCESS"]
\* An answer, and whether the statement did all it had to do.
NoAnswer == [answer |-> "none", kind |-> "none", cut |-> FALSE, whole |-> TRUE]
Busy(s) == stmt[s].kind # "none"

TypeOK ==
  /\ Used \subseteq Slots
  /\ \A i \in Used : rows[i].begin \in Int /\ rows[i].end \in Int /\ rows[i].key \in Keys
  /\ nextId \in Nat
  /\ multi \in [Sessions -> BOOLEAN] /\ sent \in [Sessions -> Nat] /\ open \subseteq Sessions
  /\ DOMAIN trx = Sessions /\ DOMAIN stmt = Sessions /\ DOMAIN last = Sessions
  /\ \A s \in Sessions :
       /\ trx[s].started \in BOOLEAN /\ trx[s].id \in Nat /\ trx[s].ops \in Seq(Op)
       /\ stmt[s].found \subseteq Slots /\ stmt[s].did \subseteq Slots /\ stmt[s].made \in Nat
       /\ stmt[s].todo \in Seq(Slots) /\ stmt[s].adds \in Seq(Keys)

Init ==
  /\ rows = [i \in 1 .. Cardinality(Stored) |->
                [begin |-> 1, end |-> MAX_ID, key |-> SetToSeq(Stored)[i]]]
  /\ nextId = 1
  /\ multi = [s \in Sessions |-> FALSE]
  /\ trx = [s \in Sessions |-> [started |-> FALSE, id |-> 0, ops |-> <<>>]]
  /\ stmt = [s \in Sessions |-> NoStmt]
  /\ last = [s \in Sessions |-> NoAnswer]
  /\ sent = [s \in Sessions |-> 0]
  /\ open = Sessions

-----------------------------------------------------------------------------
(***************************************************************************)
(* MvccTrx as the statements use it.                                       *)
(***************************************************************************)
Visit(r, id, readOnly) ==
  CASE r.begin > 0 /\ r.end > 0 -> IF r.begin <= id /\ id <= r.end THEN "SUCCESS" ELSE "INVISIBLE"
    [] r.begin < 0              -> IF -r.begin = id THEN "SUCCESS" ELSE "INVISIBLE"
    [] OTHER -> IF -r.end = id THEN "INVISIBLE"
                ELSE IF readOnly THEN "SUCCESS" ELSE "CONFLICT"

\* start_if_need: the transaction after it, given the next number.
Started(t) == IF t.started THEN t ELSE [t EXCEPT !.started = TRUE, !.id = nextId + 1]
NextIdAfterStart(t) == IF t.started THEN nextId ELSE nextId + 1

OpsOn(t, type) == {t.ops[i].rid : i \in {j \in DOMAIN t.ops : t.ops[j].type = type}}

\* Plausible bug: commit stamps the inserts only.
CommittedForgetsDeletes(t, c) ==
  [i \in Used |-> [rows[i] EXCEPT !.begin = IF i \in OpsOn(t, "INSERT") THEN c ELSE @]]

\* commit: every row the transaction inserted or deleted gets the commit number.
Committed(t, c) ==
  [i \in Used |->
     [rows[i] EXCEPT !.begin = IF i \in OpsOn(t, "INSERT") THEN c ELSE @,
                     !.end   = IF i \in OpsOn(t, "DELETE") THEN c ELSE @]]

\* rollback: inserted rows go, deleted ones are whole again.
RolledBack(t) ==
  [i \in Used \ OpsOn(t, "INSERT") |->
     [rows[i] EXCEPT !.end = IF i \in OpsOn(t, "DELETE") THEN MAX_ID ELSE @]]

Ended(t) == [t EXCEPT !.started = FALSE, !.ops = <<>>]

Send(s) ==
  /\ s \in open /\ ~Busy(s) /\ sent[s] < StmtBound[s]
  /\ sent' = [sent EXCEPT ![s] = @ + 1]

\* All that was found is deleted, an UPDATE put as many rows in their place and
\* an INSERT put in one.
Whole(st) ==
  CASE st.kind = "DELETE" -> st.did = st.found
    [] st.kind = "UPDATE" -> st.did = st.found /\ st.made = Cardinality(st.found)
    [] st.kind = "INSERT" -> st.made = 1
    [] OTHER              -> TRUE

Answer(s, st, answer) ==
  /\ last' = [last EXCEPT ![s] = [answer |-> answer, kind |-> st.kind, cut |-> st.cut, whole |-> Whole(st)]]
  /\ stmt' = [stmt EXCEPT ![s] = NoStmt]

\* The answer to BEGIN, COMMIT and ROLLBACK, which have no operator.
AnswerState(s) == last' = [last EXCEPT ![s] = NoAnswer] /\ UNCHANGED stmt

-----------------------------------------------------------------------------
(***************************************************************************)
(* Statements without an operator.                                         *)
(***************************************************************************)
\* (A BEGIN inside a transaction changes nothing; BEGIN is not counted.)
Begin(s) ==
  /\ s \in open /\ ~Busy(s) /\ ~multi[s]
  /\ multi' = [multi EXCEPT ![s] = TRUE]
  /\ trx' = [trx EXCEPT ![s] = Started(@)]
  /\ nextId' = NextIdAfterStart(trx[s])
  /\ AnswerState(s)
  /\ UNCHANGED <<rows, sent, open>>

Commit(s) ==
  /\ Send(s)
  /\ multi' = [multi EXCEPT ![s] = FALSE]
  /\ nextId' = nextId + 1
  /\ rows' = Committed(trx[s], nextId + 1)
  /\ trx' = [trx EXCEPT ![s] = Ended(@)]
  /\ AnswerState(s)
  /\ UNCHANGED open

Rollback(s) ==
  /\ Send(s)
  /\ multi' = [multi EXCEPT ![s] = FALSE]
  /\ rows' = RolledBack(trx[s])
  /\ trx' = [trx EXCEPT ![s] = Ended(@)]
  /\ AnswerState(s)
  /\ UNCHANGED <<nextId, open>>

\* Parsing, resolving or optimizing fails: nothing is opened and nothing closed.
PlanFails(s) ==
  /\ Send(s)
  /\ UNCHANGED <<rows, nextId, multi, trx, stmt, last, open>>

-----------------------------------------------------------------------------
(***************************************************************************)
(* SqlResult::open: start the transaction, find the rows.                  *)
(***************************************************************************)
OpenTrx(s) ==
  /\ Send(s)
  /\ trx' = [trx EXCEPT ![s] = Started(@)]
  /\ nextId' = NextIdAfterStart(trx[s])

OpenInsert(s, k) ==
  /\ OpenTrx(s)
  /\ stmt' = [stmt EXCEPT ![s] = [NoStmt EXCEPT !.kind = "INSERT", !.adds = <<k>>]]
  /\ UNCHANGED <<rows, multi, last, open>>

\* The rows a DELETE or UPDATE with a condition on keys finds, in slot order.
\* A table scan hands out a row somebody else is deleting, too: the result of
\* visit_record is shadowed.
Found(where, id) ==
  {i \in Used : rows[i].key \in where /\ Visit(rows[i], id, FALSE) # "INVISIBLE"}
InOrder(set) == CHOOSE q \in SetToSeqs(set) : \A i, j \in DOMAIN q : i < j => q[i] < q[j]

\* A DELETE collects rows until its source ends or fails, and goes on with the
\* n rows it has: only the loop's condition sees the error.
OpenDelete(s, where) ==
  LET found == Found(where, Started(trx[s]).id)
      given == InOrder(found)
  IN
  /\ OpenTrx(s)
  /\ \E n \in 0 .. Len(given) :
       stmt' = [stmt EXCEPT ![s] =
         [NoStmt EXCEPT !.kind = "DELETE", !.found = found, !.todo = SubSeq(given, 1, n),
                        !.cut = n < Len(given)]]
  /\ UNCHANGED <<rows, multi, last, open>>

OpenUpdate(s, where) ==
  LET found == Found(where, Started(trx[s]).id)
      given == InOrder(found)
  IN
  /\ OpenTrx(s)
  /\ stmt' = [stmt EXCEPT ![s] =
       [NoStmt EXCEPT !.kind = "UPDATE", !.found = found, !.todo = given,
                      !.adds = [i \in DOMAIN given |-> rows[given[i]].key]]]
  /\ UNCHANGED <<rows, multi, last, open>>

\* open() returns an error before it changed anything: the operator below
\* cannot be opened, make_record refuses the values of an INSERT, or the rows of
\* an UPDATE end in an error (one is that an index scan met a row another
\* session is deleting).
OpenFails(s, kind) ==
  /\ OpenTrx(s)
  /\ stmt' = [stmt EXCEPT ![s] = [NoStmt EXCEPT !.kind = kind, !.rc = "FAILED"]]
  /\ UNCHANGED <<rows, multi, last, open>>

OpenSelect(s) ==
  /\ OpenTrx(s)
  /\ stmt' = [stmt EXCEPT ![s] =
       [NoStmt EXCEPT !.kind = "SELECT",
          !.found = {i \in Used : Visit(rows[i], Started(trx[s]).id, TRUE) = "SUCCESS"}]]
  /\ UNCHANGED <<rows, multi, last, open>>

-----------------------------------------------------------------------------
(***************************************************************************)
(* The rest of open(): delete what was found, then insert.                 *)
(***************************************************************************)
\* Plausible bug: a row that cannot be deleted is passed over.
DeleteNextSkips(s) ==
  LET i == Head(stmt[s].todo)
      id == trx[s].id
      visit == IF i \in Used THEN Visit(rows[i], id, FALSE) ELSE "GONE"
  IN
  /\ stmt[s].todo # <<>> /\ stmt[s].rc = "SUCCESS"
  /\ IF visit = "SUCCESS"
     THEN /\ rows' = [rows EXCEPT ![i].end = -id]
          /\ trx' = [trx EXCEPT ![s].ops = Append(@, [type |-> "DELETE", rid |-> i])]
          /\ stmt' = [stmt EXCEPT ![s].todo = Tail(@), ![s].did = @ \cup {i}]
     ELSE /\ stmt' = [stmt EXCEPT ![s].todo = Tail(@)]
          /\ UNCHANGED <<rows, trx>>
  /\ UNCHANGED <<nextId, multi, last, sent, open>>

DeleteNext(s) ==
  LET i == Head(stmt[s].todo)
      id == trx[s].id
      visit == IF i \in Used THEN Visit(rows[i], id, FALSE) ELSE "GONE"
  IN
  /\ stmt[s].todo # <<>> /\ stmt[s].rc = "SUCCESS"
  /\ IF visit = "SUCCESS"
     THEN /\ rows' = [rows EXCEPT ![i].end = -id]
          /\ trx' = [trx EXCEPT ![s].ops = Append(@, [type |-> "DELETE", rid |-> i])]
          /\ stmt' = [stmt EXCEPT ![s].todo = Tail(@), ![s].did = @ \cup {i}]
     ELSE /\ stmt' = [stmt EXCEPT ![s].rc = visit]
          /\ UNCHANGED <<rows, trx>>
  /\ UNCHANGED <<nextId, multi, last, sent, open>>

\* insert_record may fail; open() returns and the rest is not inserted.
InsertFails(s) ==
  /\ stmt[s].todo = <<>> /\ stmt[s].adds # <<>> /\ stmt[s].rc = "SUCCESS"
  /\ stmt' = [stmt EXCEPT ![s].rc = "FAILED"]
  /\ UNCHANGED <<rows, nextId, multi, trx, last, sent, open>>

InsertNext(s) ==
  LET i == CHOOSE i \in Free : \A j \in Free : i <= j
      id == trx[s].id
      row == [begin |-> -id, end |-> MAX_ID, key |-> Head(stmt[s].adds)]
  IN
  /\ stmt[s].todo = <<>> /\ stmt[s].adds # <<>> /\ stmt[s].rc = "SUCCESS"
  /\ Free # {}
  /\ rows' = [j \in Used \cup {i} |-> IF j = i THEN row ELSE rows[j]]
  /\ trx' = [trx EXCEPT ![s].ops = Append(@, [type |-> "INSERT", rid |-> i])]
  /\ stmt' = [stmt EXCEPT ![s].adds = Tail(@), ![s].made = @ + 1]
  /\ UNCHANGED <<nextId, multi, last, sent, open>>

-----------------------------------------------------------------------------
(***************************************************************************)
(* SqlResult::close and the answer.                                        *)
(***************************************************************************)
Opened(s) == Busy(s) /\ (stmt[s].rc # "SUCCESS" \/ (stmt[s].todo = <<>> /\ stmt[s].adds = <<>>))

\* The operator's close() always succeeds, so outside BEGIN the transaction is
\* committed, whatever open() or next() returned.
Close(s) ==
  IF multi[s]
  THEN UNCHANGED <<rows, nextId, trx>>
  ELSE /\ nextId' = nextId + 1
       /\ rows' = Committed(trx[s], nextId + 1)
       /\ trx' = [trx EXCEPT ![s] = Ended(@)]

Finish(s) ==
  /\ Opened(s) /\ stmt[s].rc = "SUCCESS"
  /\ Close(s)
  /\ Answer(s, stmt[s], "SUCCESS")
  /\ UNCHANGED <<multi, sent, open>>

\* next() fails on some row of a SELECT: the rows before it are the answer and
\* nothing tells them from a whole one.
SelectFails(s) ==
  /\ Opened(s) /\ stmt[s].kind = "SELECT" /\ stmt[s].rc = "SUCCESS" /\ stmt[s].found # {}
  /\ Close(s)
  /\ Answer(s, stmt[s], "SUCCESS")
  /\ UNCHANGED <<multi, sent, open>>

\* The plain communicator cannot write a delimiter of a SELECT's header: it
\* returns without closing the result.  The client is gone, and so is the
\* session at its next read, with its transaction.
HeaderFails(s) ==
  /\ Opened(s) /\ stmt[s].kind = "SELECT" /\ stmt[s].rc = "SUCCESS" /\ Protocol[s] = "plain"
  /\ stmt' = [stmt EXCEPT ![s] = NoStmt]
  /\ open' = open \ {s}
  /\ UNCHANGED <<rows, nextId, multi, trx, last, sent>>

\* Plausible bug: a statement that cannot be opened is not closed.
PlainOpenFailedNoClose(s) ==
  /\ Opened(s) /\ stmt[s].rc # "SUCCESS" /\ Protocol[s] = "plain"
  /\ Answer(s, stmt[s], "FAILURE")
  /\ UNCHANGED <<rows, nextId, trx, multi, sent, open>>

\* PlainCommunicator closes the result when open fails.
PlainOpenFailed(s) ==
  /\ Opened(s) /\ stmt[s].rc # "SUCCESS" /\ Protocol[s] = "plain"
  /\ Close(s)
  /\ Answer(s, stmt[s], "FAILURE")
  /\ UNCHANGED <<multi, sent, open>>

\* MysqlCommunicator does not: the transaction stays as it is.
MysqlOpenFailed(s) ==
  /\ Opened(s) /\ stmt[s].rc # "SUCCESS" /\ Protocol[s] = "mysql"
  /\ Answer(s, stmt[s], "FAILURE")
  /\ UNCHANGED <<rows, nextId, trx, multi, sent, open>>

\* The connection ends between two statements: the session is deleted and its
\* transaction with it, without a rollback.  (One that has no transaction and
\* leaves is one that sends nothing more.)
Disconnect(s) ==
  /\ s \in open /\ ~Busy(s) /\ trx[s].started
  /\ open' = open \ {s}
  /\ UNCHANGED <<rows, nextId, multi, trx, stmt, last, sent>>

Next ==
  \E s \in Sessions :
    \/ Begin(s) \/ Commit(s) \/ Rollback(s) \/ PlanFails(s) \/ OpenSelect(s)
    \/ \E k \in Keys \ Stored : OpenInsert(s, k)
    \/ \E where \in Wheres : OpenDelete(s, where) \/ OpenUpdate(s, where)
    \/ \E kind \in {"INSERT", "DELETE", "UPDATE", "SELECT"} : OpenFails(s, kind)
    \/ DeleteNext(s) \/ InsertNext(s) \/ InsertFails(s)
    \/ Finish(s) \/ SelectFails(s) \/ HeaderFails(s) \/ PlainOpenFailed(s) \/ MysqlOpenFailed(s)
    \/ Disconnect(s)

Spec == Init /\ [][Next]_vars

-----------------------------------------------------------------------------
(***************************************************************************)
(* Properties.                                                             *)
(***************************************************************************)

\* Outside BEGIN ... COMMIT an idle session holds no transaction open and no
\* row stamped, unless the MySQL communicator answered its last statement
\* with a failure of open(): it leaves the transaction as it is.
IdleHoldsNothing ==
  \A s \in open :
    ~Busy(s) /\ ~multi[s] /\ (trx[s].started \/ trx[s].ops # <<>>) =>
      Protocol[s] = "mysql" /\ last[s].answer = "FAILURE"

\* The stamps on the rows and the operations of the transactions say the same:
\* a row carries -id exactly when the transaction that has the number id, alive
\* or lost with its session, has an operation on it.
StampsMatchOps ==
  \A s \in Sessions :
    LET id == trx[s].id IN
    id # 0 =>
      /\ {i \in Used : rows[i].begin = -id} = OpsOn(trx[s], "INSERT")
      /\ {i \in Used : rows[i].end = -id} = OpsOn(trx[s], "DELETE")

\* A change answered SUCCESS did all of its work, whatever other sessions did
\* to its rows between the scan and the changes: it deleted every row it found
\* and inserted as many as it had to.  Exempt is a DELETE whose row source
\* failed: it deletes what it was given and answers SUCCESS.
SuccessIsComplete ==
  \A s \in Sessions : last[s].answer = "SUCCESS" /\ ~last[s].cut => last[s].whole
=============================================================================
