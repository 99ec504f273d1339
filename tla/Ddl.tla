-------------------------------- MODULE Ddl ---------------------------------
(***************************************************************************)
(* The schema of a MiniOB database and its files: Db, Table, TableMeta,    *)
(* BplusTreeIndex and the statements that create and drop them.            *)
(*                                                                         *)
(* A table is a meta file, a data file and one file per index; nothing     *)
(* ties their changes together but the order of the steps and the          *)
(* checkpoint that CommandExecutor takes after every DDL statement.  The   *)
(* process may crash between any two steps.  Db::init then opens every     *)
(* meta file it finds and replays the log from the checkpoint.             *)
(*                                                                         *)
(* One session runs here, so a DML statement is one step.  A file is a set *)
(* of rows, those of them with an end stamp (dead), and the LSN of the     *)
(* last entry it contains; an index is a sequence of trees, of which its   *)
(* header names one by its position (0: none).  Log entries are durable at once: *)
(* DiskLog is about when they are.  birth is history: it tells a file from *)
(* an earlier one of the same name or pool id.                             *)
(***************************************************************************)
EXTENDS Integers, FiniteSets, FiniteSetsExt, SequencesExt

CONSTANTS
  Tables,        \* names of tables
  Indexes,       \* names of indexes
  Rows,          \* rows, all different
  TrxKits,       \* the transaction models to choose from: "mvcc", "vacuous"
  StmtBound,     \* bound: statements
  RestartBound,  \* bound: starts after the first
  FaultBound     \* bound: failed system calls and index insertions

ASSUME DdlAssumption ==
  /\ TrxKits \subseteq {"mvcc", "vacuous"} /\ TrxKits # {}
  /\ StmtBound \in Nat /\ RestartBound \in Nat /\ FaultBound \in Nat

Data == "data"
Files == Tables \X ({Data} \cup Indexes)
NoFile == <<>>
NotOpen == <<>>
EmptyMeta == [id |-> -1, indexes |-> <<>>]

VARIABLES
  metaFile,   \* the .table files: NoFile, EmptyMeta or [id, indexes]
  disk,       \* the .data and .index files
  ckpt,       \* the .db file: check_point_lsn_
  clog,       \* the log
  kit,        \* trx_kit_
  up,         \* the process runs
  opened,     \* opened_tables_: NotOpen or [id, indexes, meta, birth]; meta: table_meta_.indexes_
  mem,        \* the buffer pools: the content of the open files
  hroot,      \* file_header_.root_page of each BplusTreeHandler
  nextTable,  \* next_table_id_
  nextPool,   \* next_buffer_pool_id_
  stmt,       \* the DDL statement in execution
  births, acked, stmts, restarts, faults,
  torn,       \* why files may disagree: DDL that was cut off or failed
  staled,     \* indexes whose handler redo has left with an old root
  failed,     \* Db::init has failed
  misapplied  \* redo has applied an entry to another file than it is about

store == <<metaFile, disk, ckpt, clog>>
memory == <<opened, mem, hroot, nextTable, nextPool>>
history == <<births, acked, torn, staled, failed, misapplied>>
bounds == <<stmts, restarts, faults>>
vars == <<store, memory, kit, up, stmt, history, bounds>>

Idle == [kind |-> "none", t |-> NoFile, i |-> NoFile, id |-> 0, step |-> "none"]
NewFile(pool, b) ==
  [pool |-> pool, birth |-> b, rows |-> {}, dead |-> {}, trees |-> <<>>, root |-> 0, lsn |-> 0]

Init ==
  /\ metaFile = [t \in Tables |-> NoFile] /\ disk = [f \in Files |-> NoFile]
  /\ ckpt = 0 /\ clog = <<>> /\ kit \in TrxKits
  /\ up = TRUE
  /\ opened = [t \in Tables |-> NotOpen] /\ mem = [f \in Files |-> NotOpen]
  /\ hroot = [f \in Files |-> 0] /\ nextTable = 0 /\ nextPool = 1
  /\ stmt = Idle
  /\ births = 0 /\ acked = [t \in Tables |-> NoFile]
  /\ stmts = 0 /\ restarts = 0 /\ faults = 0
  /\ torn = {} /\ staled = {} /\ failed = FALSE /\ misapplied = FALSE

Ready == up /\ stmt = Idle /\ stmts < StmtBound
Running(kind, step) == up /\ stmt.kind = kind /\ stmt.step = step
GoTo(step) == stmt' = [stmt EXCEPT !.step = step]
Fault == faults < FaultBound /\ faults' = faults + 1
Start(kind, t, i, id, step) ==
  stmts' = stmts + 1 /\ stmt' = [kind |-> kind, t |-> t, i |-> i, id |-> id, step |-> step]
\* The statement fails: its rc is returned, and no checkpoint is taken.
Fail(why) == stmt' = Idle /\ torn' = torn \cup why

-----------------------------------------------------------------------------
(* Log entries, and what they do to a file (replayed or first applied).     *)
Entry(f, file, op, tree, r) ==
  [kind |-> "page", file |-> f, pool |-> file.pool, birth |-> file.birth, op |-> op, tree |-> tree, row |-> r]
TrxEntry(t) == [kind |-> "trx", id |-> opened[t].id, birth |-> opened[t].birth]
CommitEntry == [kind |-> "commit"]

ApplyEntry(file, e, lsn) ==
  CASE e.op = "put"    -> [file EXCEPT !.rows = @ \cup {e.row}, !.lsn = lsn]
    [] e.op = "remove" -> [file EXCEPT !.rows = @ \ {e.row}, !.lsn = lsn]
    [] e.op \in {"allocate", "begin stamp"} -> [file EXCEPT !.lsn = lsn]
    [] e.op = "end stamp" -> [file EXCEPT !.dead = @ \cup {e.row}, !.lsn = lsn]
    [] e.op = "new tree" -> [file EXCEPT !.trees = Append(@, {e.row}), !.root = e.tree, !.lsn = lsn]
    [] e.op = "insert" -> [file EXCEPT !.trees[e.tree] = @ \cup {e.row}, !.lsn = lsn]
    [] e.op = "delete" ->
         [file EXCEPT !.trees[e.tree] = @ \ {e.row}, !.lsn = lsn,
                      !.root = IF file.trees[e.tree] = {e.row} THEN 0 ELSE @]

(* A statement works on s = [mem, log, hroot, rc].                          *)
Logged(s, e) == [s EXCEPT !.log = Append(@, e)]
Write(s, f, op, tree, r) ==
  LET e == Entry(f, s.mem[f], op, tree, r)
  IN [Logged(s, e) EXCEPT !.mem[f] = ApplyEntry(@, e, Len(s.log) + 1)]

(* BplusTreeHandler::insert_entry, delete_entry, through the handler's own  *)
(* copy of the root.                                                        *)
IndexInsert(s, f, r) ==
  IF s.hroot[f] = 0
  THEN LET n == Len(s.mem[f].trees) + 1
       IN [Write(s, f, "new tree", n, r) EXCEPT !.hroot[f] = n]
  ELSE Write(s, f, "insert", s.hroot[f], r)
IndexHas(s, f, r) == s.hroot[f] # 0 /\ r \in s.mem[f].trees[s.hroot[f]]
IndexDelete(s, f, r) ==
  IF ~ IndexHas(s, f, r) THEN [s EXCEPT !.rc = "RECORD_NOT_EXIST"]
  ELSE [Write(s, f, "delete", s.hroot[f], r)
          EXCEPT !.hroot[f] = IF s.mem[f].trees[s.hroot[f]] = {r} THEN 0 ELSE @]

(* Table::insert_entry_of_indexes stops at the first error; the insertion   *)
(* into the index that bad names fails.                                     *)
InsertEntries(s, t, r, bad) ==
  FoldLeft(LAMBDA a, i : CASE a.rc # "SUCCESS" -> a
                           [] a.rc = "SUCCESS" /\ i = bad -> [a EXCEPT !.rc = "FULL"]
                           [] OTHER -> IndexInsert(a, <<t, i>>, r),
           s, opened[t].indexes)

(* Table::delete_entry_of_indexes, not minding absent entries ... which     *)
(* ends at the first one, whatever its rc.                                  *)
DeleteEntries(s, t, r) ==
  FoldLeft(LAMBDA a, i : IF a.rc = "SUCCESS" THEN IndexDelete(a, <<t, i>>, r) ELSE a,
           [s EXCEPT !.rc = "SUCCESS"], opened[t].indexes)

(* Plausible bug: the record is not removed when an index refuses it.       *)
InsertRecordNoUndo(s, t, r, bad) == InsertEntries(Write(s, <<t, Data>>, "put", 0, r), t, r, bad)

(* Table::insert_record; Table::delete_record, which only asserts that the  *)
(* indexes have the row.                                                    *)
InsertRecord(s, t, r, bad) ==
  LET put  == Write(s, <<t, Data>>, "put", 0, r)
      done == InsertEntries(put, t, r, bad)
  IN IF done.rc = "SUCCESS" THEN done
     ELSE [Write(DeleteEntries(done, t, r), <<t, Data>>, "remove", 0, r) EXCEPT !.rc = done.rc]
DeleteRecord(s, t, r) ==
  LET entries == FoldLeft(LAMBDA a, i : IndexDelete(a, <<t, i>>, r), s, opened[t].indexes)
  IN Write(entries, <<t, Data>>, "remove", 0, r)

(* A statement is a transaction.  MvccTrx writes its own entry after the    *)
(* record's; its commit stamps the row again and writes one more.           *)
MvccTail(s, t, r, stamp) ==
  Logged(Write(Logged(s, TrxEntry(t)), <<t, Data>>, stamp, 0, r), CommitEntry)

InsertAs(s, t, r) ==
  IF kit = "vacuous" \/ s.rc # "SUCCESS" THEN s ELSE MvccTail(s, t, r, "begin stamp")

(* VacuousTrx deletes the record and its index entries, MvccTrx only sets   *)
(* the end stamp.                                                           *)
DeleteAs(s, t, r) ==
  IF kit = "vacuous" THEN DeleteRecord(s, t, r)
  ELSE MvccTail(Write(s, <<t, Data>>, "end stamp", 0, r), t, r, "end stamp")

FindTable(t) == opened[t] # NotOpen
Current == [mem |-> mem, log |-> clog, hroot |-> hroot, rc |-> "SUCCESS"]
(* What has been promised about a table whose CREATE TABLE was answered:    *)
(* its rows and end stamps as the statements that succeeded left them.      *)
Ack(s, t) ==
  IF acked[t] = NoFile THEN acked
  ELSE [acked EXCEPT ![t].rows = s.mem[<<t, Data>>].rows, ![t].dead = s.mem[<<t, Data>>].dead]
Done(s) == mem' = s.mem /\ hroot' = s.hroot /\ clog' = s.log

-----------------------------------------------------------------------------
(* A row goes into a table, or an index has no room for it; "told" says     *)
(* whether a transaction is told, and stamps and logs it.                   *)
InsertRow(t, r, told) ==
  /\ Ready /\ FindTable(t) /\ r \notin mem[<<t, Data>>].rows
  /\ \E bad \in {NoFile} \cup Range(opened[t].indexes) :
       LET s == InsertRecord(Current, t, r, bad)
       IN /\ IF bad = NoFile THEN UNCHANGED faults ELSE Fault
          /\ Done(IF told THEN InsertAs(s, t, r) ELSE s)
          /\ acked' = IF s.rc = "SUCCESS" THEN Ack(s, t) ELSE acked
  /\ stmts' = stmts + 1
  /\ UNCHANGED <<metaFile, disk, ckpt, kit, up, opened, nextTable, nextPool, stmt, births, torn, staled,
                 failed, misapplied, restarts>>

Insert(t, r) == InsertRow(t, r, TRUE)

(* LOAD DATA calls Table::insert_record itself: no transaction is told, and *)
(* under MVCC the stamps are what make_record's malloc returned, so that a  *)
(* DELETE may find the row or not.                                          *)
LoadData(t, r) == InsertRow(t, r, FALSE)

(* DELETE of a row that is found.                                           *)
Delete(t, r) ==
  LET s == DeleteAs(Current, t, r)
  IN /\ Ready /\ FindTable(t) /\ r \in mem[<<t, Data>>].rows \ mem[<<t, Data>>].dead
     /\ Done(s)
     /\ acked' = Ack(s, t)
     /\ stmts' = stmts + 1
     /\ UNCHANGED <<metaFile, disk, ckpt, kit, up, opened, nextTable, nextPool, stmt, births, torn, staled,
                    failed, misapplied, restarts, faults>>

(* A page is evicted, or written for another reason.                        *)
FlushFile(f) ==
  /\ up /\ mem[f] # NotOpen /\ disk[f] # NoFile /\ disk[f] # mem[f]
  /\ disk' = [disk EXCEPT ![f] = mem[f]]
  /\ UNCHANGED <<metaFile, ckpt, clog, memory, kit, up, stmt, history, bounds>>

-----------------------------------------------------------------------------
(* CREATE TABLE: Db::create_table and Table::create.  The meta file must    *)
(* not exist; it is created empty ...                                       *)
CreateTable(t) ==
  /\ Ready /\ opened[t] = NotOpen
  /\ nextTable' = nextTable + 1
  /\ IF metaFile[t] = NoFile
     THEN /\ metaFile' = [metaFile EXCEPT ![t] = EmptyMeta]
          /\ Start("create table", t, NoFile, nextTable, "init")
     ELSE stmts' = stmts + 1 /\ UNCHANGED <<metaFile, stmt>>
  /\ UNCHANGED <<disk, ckpt, clog, kit, up, opened, mem, hroot, nextPool, history, restarts, faults>>

(* ... TableMeta::init refuses a column without a length, and the file is   *)
(* left behind ...                                                          *)
RefuseColumns ==
  /\ Running("create table", "init") /\ Fail({"columns"})
  /\ UNCHANGED <<store, memory, kit, up, births, acked, staled, failed, misapplied, bounds>>

(* ... or the meta data is written (TableMeta::serialize) ...               *)
WriteMeta ==
  /\ Running("create table", "init") /\ GoTo("data")
  /\ metaFile' = [metaFile EXCEPT ![stmt.t] = [id |-> stmt.id, indexes |-> <<>>]]
  /\ UNCHANGED <<disk, ckpt, clog, memory, kit, up, history, bounds>>

(* ... then the data file is created, or cannot be ...                      *)
CreateData ==
  LET f == <<stmt.t, Data>>
  IN /\ Running("create table", "data")
     /\ \/ /\ Fault /\ Fail({"files"})
           /\ UNCHANGED <<disk, nextPool, births>>
        \/ /\ disk[f] = NoFile /\ disk' = [disk EXCEPT ![f] = NewFile(nextPool, births + 1)]
           /\ nextPool' = nextPool + 1 /\ births' = births + 1
           /\ GoTo("open") /\ UNCHANGED <<torn, faults>>
     /\ UNCHANGED <<metaFile, ckpt, clog, opened, mem, hroot, nextTable, kit, up, acked, staled, failed,
                    misapplied, stmts, restarts>>

(* ... and opened (Table::init_record_handler); the table is known.         *)
OpenData ==
  LET f == <<stmt.t, Data>>
  IN /\ Running("create table", "open") /\ GoTo("sync")
     /\ mem' = [mem EXCEPT ![f] = disk[f]]
     /\ opened' = [opened EXCEPT ![stmt.t] = [id |-> stmt.id, indexes |-> <<>>, meta |-> <<>>, birth |-> births]]
     /\ UNCHANGED <<store, hroot, nextTable, nextPool, kit, up, history, bounds>>

-----------------------------------------------------------------------------
(* DROP TABLE: Table::drop removes the data file, the meta file and the     *)
(* files of the indexes; an error ends it there.                            *)
DropTable(t) ==
  /\ Ready /\ FindTable(t)
  /\ Start("drop table", t, NoFile, opened[t].id, "data")
  /\ UNCHANGED <<store, memory, kit, up, history, restarts, faults>>

DropData ==
  LET f == <<stmt.t, Data>>
  IN /\ Running("drop table", "data")
     /\ \/ /\ disk[f] = NoFile /\ Fail({"files"})
           /\ UNCHANGED <<disk, faults>>
        \/ /\ disk[f] # NoFile /\ Fault /\ Fail({"files"})
           /\ UNCHANGED disk
        \/ /\ disk[f] # NoFile /\ disk' = [disk EXCEPT ![f] = NoFile] /\ GoTo("meta")
           /\ UNCHANGED <<torn, faults>>
     /\ UNCHANGED <<metaFile, ckpt, clog, memory, kit, up, births, acked, staled, failed, misapplied,
                    stmts, restarts>>

DropMeta ==
  /\ Running("drop table", "meta")
  /\ \/ Fault /\ Fail({"files"}) /\ UNCHANGED metaFile
     \/ /\ metaFile' = [metaFile EXCEPT ![stmt.t] = NoFile] /\ GoTo("indexes")
        /\ UNCHANGED <<torn, faults>>
  /\ UNCHANGED <<disk, ckpt, clog, memory, kit, up, births, acked, staled, failed, misapplied,
                 stmts, restarts>>

IndexFilesLeft(t) == {i \in Range(opened[t].indexes) : disk[<<t, i>>] # NoFile}

DropIndexFile ==
  /\ Running("drop table", "indexes")
  /\ \E i \in IndexFilesLeft(stmt.t) :
       \/ Fault /\ Fail({"files"}) /\ UNCHANGED disk
       \/ /\ disk' = [disk EXCEPT ![<<stmt.t, i>>] = NoFile]
          /\ UNCHANGED <<stmt, torn, faults>>
  /\ UNCHANGED <<metaFile, ckpt, clog, memory, kit, up, births, acked, staled, failed, misapplied,
                 stmts, restarts>>

(* The files Table works with.  An index that CREATE INDEX failed to fill   *)
(* is leaked: its pool stays open, and nobody writes or closes it.          *)
FilesOf(t) == IF opened[t] = NotOpen THEN {} ELSE {t} \X ({Data} \cup Range(opened[t].indexes))

(* DiskBufferPool::close_file of every file of the table.                   *)
ClosedFiles(t) == [f \in Files |-> IF f \in FilesOf(t) THEN NotOpen ELSE mem[f]]

(* The table is forgotten, and ~Table closes its files without writing.     *)
CloseDropped ==
  /\ Running("drop table", "indexes") /\ IndexFilesLeft(stmt.t) = {}
  /\ opened' = [opened EXCEPT ![stmt.t] = NotOpen]
  /\ mem' = ClosedFiles(stmt.t)
  /\ GoTo("sync")
  /\ UNCHANGED <<store, hroot, nextTable, nextPool, kit, up, history, bounds>>

-----------------------------------------------------------------------------
(* CREATE INDEX is refused for an unknown table and for a known index.      *)
CreateIndexStmt(t, i) == FindTable(t) /\ i \notin Range(opened[t].indexes)

(* Table::create_index: the file is created, and BplusTreeHandler::create   *)
(* allocates its header page and writes it ...                              *)
CreateIndex(t, i) ==
  LET f == <<t, i>>
      s == Write([Current EXCEPT !.mem[f] = NewFile(nextPool, births + 1), !.hroot[f] = 0], f, "allocate", 0, NoFile)
  IN /\ Ready /\ CreateIndexStmt(t, i)
     /\ IF disk[f] # NoFile
        THEN stmts' = stmts + 1 /\ UNCHANGED <<disk, clog, mem, hroot, nextPool, births, stmt>>
        ELSE /\ Done(s)
             /\ disk' = [disk EXCEPT ![f] = s.mem[f]]
             /\ nextPool' = nextPool + 1 /\ births' = births + 1
             /\ Start("create index", t, i, 0, "fill")
     /\ UNCHANGED <<metaFile, ckpt, opened, nextTable, kit, up, acked, torn, staled, failed, misapplied,
                    restarts, faults>>

(* ... every row is inserted, in the order of the scan, which minds no      *)
(* stamps; or the scan or an insertion fails, and the index is left there   *)
(* ...                                                                      *)
Filled(rows) == FoldLeft(LAMBDA a, r : IndexInsert(a, <<stmt.t, stmt.i>>, r), Current, rows)

FillIndex ==
  /\ Running("create index", "fill")
  /\ \E rows \in SetToSeqs(mem[<<stmt.t, Data>>].rows) :
       \/ Done(Filled(rows)) /\ GoTo("meta") /\ UNCHANGED <<torn, faults>>
       \/ \E n \in 0 .. Len(rows) : Done(Filled(SubSeq(rows, 1, n))) /\ Fault /\ Fail({"files"})
  /\ UNCHANGED <<metaFile, disk, ckpt, opened, nextTable, nextPool, kit, up, births, acked, staled, failed,
                 misapplied, stmts, restarts>>

(* ... the index joins indexes_, and a new meta file replaces the old one   *)
(* in one rename and table_meta_ with it, or fails to.                      *)
IndexMeta ==
  LET t == stmt.t
      joined == Append(opened[t].indexes, stmt.i)
      meta == Append(opened[t].meta, stmt.i)
  IN /\ Running("create index", "meta")
     /\ \/ /\ Fault /\ Fail({"files"})
           /\ opened' = [opened EXCEPT ![t].indexes = joined]
           /\ UNCHANGED metaFile
        \/ /\ opened' = [opened EXCEPT ![t].indexes = joined, ![t].meta = meta]
           /\ metaFile' = [metaFile EXCEPT ![t] = [id |-> opened[t].id, indexes |-> meta]]
           /\ GoTo("sync") /\ UNCHANGED <<torn, faults>>
     /\ UNCHANGED <<disk, ckpt, clog, mem, hroot, nextTable, nextPool, kit, up, births, acked, staled, failed,
                    misapplied, stmts, restarts>>

-----------------------------------------------------------------------------
(* Db::sync: every file of an open table is written, then the checkpoint.   *)
(* A file that DROP TABLE failed to close has no name to be found by.       *)
Written ==
  [f \in Files |-> IF f \in FilesOf(f[1]) /\ disk[f] # NoFile THEN mem[f] ELSE disk[f]]

SyncFiles ==
  /\ up /\ stmt.step = "sync" /\ GoTo("checkpoint")
  /\ disk' = Written
  /\ UNCHANGED <<metaFile, ckpt, clog, memory, kit, up, history, bounds>>

(* What the statement promised, once it has answered.                       *)
AckedAfter ==
  [acked EXCEPT ![stmt.t] = CASE stmt.kind = "create table" -> [rows |-> {}, dead |-> {}, indexes |-> {}]
                              [] stmt.kind = "drop table" -> NoFile
                              [] stmt.kind = "create index" /\ @ # NoFile -> [@ EXCEPT !.indexes = @ \cup {stmt.i}]
                              [] OTHER -> @]

(* Plausible bug: DDL ends without flush_meta.                              *)
CheckpointNotWritten ==
  /\ up /\ stmt.step = "checkpoint" /\ stmt' = Idle
  /\ acked' = AckedAfter
  /\ UNCHANGED <<store, memory, kit, up, births, torn, staled, failed, misapplied, bounds>>

Checkpoint ==
  /\ up /\ stmt.step = "checkpoint" /\ stmt' = Idle
  /\ ckpt' = Len(clog)
  /\ acked' = AckedAfter
  /\ UNCHANGED <<metaFile, disk, clog, memory, kit, up, births, torn, staled, failed, misapplied, bounds>>

-----------------------------------------------------------------------------
Stopped ==
  /\ up' = FALSE /\ stmt' = Idle
  /\ opened' = [t \in Tables |-> NotOpen] /\ mem' = [f \in Files |-> NotOpen]
  /\ hroot' = [f \in Files |-> 0] /\ nextTable' = 0 /\ nextPool' = 1

Crash ==
  /\ up /\ restarts < RestartBound /\ Stopped
  /\ torn' = IF stmt = Idle THEN torn ELSE torn \cup {"crash"}
  /\ UNCHANGED <<store, kit, births, acked, staled, failed, misapplied, bounds>>

(* DefaultHandler::destroy: sync, then the databases are deleted.           *)
Shutdown ==
  /\ up /\ stmt = Idle /\ restarts < RestartBound /\ Stopped
  /\ disk' = Written /\ ckpt' = Len(clog)
  /\ UNCHANGED <<metaFile, clog, kit, history, bounds>>

(* Db::open_all_tables and Table::open: every meta file must be readable,   *)
(* and the files it names must be there.                                    *)
MetaFiles == {t \in Tables : metaFile[t] # NoFile}
MetaReadable(t) == metaFile[t] # EmptyMeta
FileOpens(f) == disk[f] # NoFile
Opens(t) == MetaReadable(t) /\ \A i \in {Data} \cup Range(metaFile[t].indexes) : FileOpens(<<t, i>>)
OpenedFiles == {f \in Files : f[1] \in MetaFiles /\ f[2] \in {Data} \cup Range(metaFile[f[1]].indexes)}

(* Plausible bugs: the ids start again after a restart.                     *)
NextPoolReset == 1
NextTableReset == 0

NextPoolAtOpen == Max({0} \cup {disk[f].pool : f \in OpenedFiles}) + 1
NextTableAtOpen == Max({-1} \cup {metaFile[t].id : t \in MetaFiles}) + 1

(* Plausible bug: the entries of an index are not redone.                   *)
RedoneRecords(file, e, lsn) == IF e.tree = 0 /\ file.lsn < lsn THEN ApplyEntry(file, e, lsn) ELSE file

(* A file that contains the entry is left alone.                            *)
Redone(file, e, lsn) == IF file.lsn < lsn THEN ApplyEntry(file, e, lsn) ELSE file

(* IntegratedLogReplayer::replay: the entry goes to the pool with its id,   *)
(* or to the table with its id; it is an error if there is none.            *)
ReplayPage(a, e, lsn) ==
  LET found == {f \in OpenedFiles : disk[f].pool = e.pool}
  IN IF found = {} THEN [a EXCEPT !.failed = TRUE]
     ELSE LET f == CHOOSE g \in found : TRUE
              own == a.mem[f].birth = e.birth
          IN [a EXCEPT !.misapplied = @ \/ ~ own,
                       !.mem[f] = IF own THEN Redone(@, e, lsn) ELSE @]

ReplayTrx(a, e) ==
  LET found == {t \in MetaFiles : metaFile[t].id = e.id}
  IN IF found = {} THEN [a EXCEPT !.failed = TRUE]
     ELSE [a EXCEPT !.misapplied = @ \/ disk[<<CHOOSE t \in found : TRUE, Data>>].birth # e.birth]

Replay(a, lsn) ==
  LET e == clog[lsn]
  IN CASE a.failed -> a
       [] ~ a.failed /\ e.kind = "page" -> ReplayPage(a, e, lsn)
       [] ~ a.failed /\ e.kind = "trx" -> ReplayTrx(a, e)
       [] OTHER -> a

(* DiskLogHandler::replay starts at the entry whose LSN is the checkpoint:  *)
(* LogFileReader::skip_to looks for the first that is not smaller.          *)
FirstReplayed == Max({1, ckpt})

(* Db::recover *)
Recovered(mem0) ==
  FoldLeft(Replay, [mem |-> mem0, failed |-> FALSE, misapplied |-> misapplied],
           [k \in 1 .. (Len(clog) - FirstReplayed + 1) |-> FirstReplayed + k - 1])

(* Db::init: tables and indexes are opened, the handlers copying the roots  *)
(* from the files, and then the log is replayed.                            *)
DbInit ==
  LET mem0 == [f \in Files |-> IF f \in OpenedFiles THEN disk[f] ELSE NotOpen]
      a == Recovered(mem0)
  IN /\ ~ up /\ ~ failed
     /\ restarts' = restarts + 1
     /\ \/ /\ ~ \A t \in MetaFiles : Opens(t)
           /\ failed' = TRUE /\ UNCHANGED <<up, memory, staled, misapplied>>
        \/ /\ \A t \in MetaFiles : Opens(t)
           /\ failed' = a.failed /\ up' = ~ a.failed
           /\ misapplied' = a.misapplied
           /\ mem' = a.mem
           /\ opened' = [t \in Tables |->
                           IF t \notin MetaFiles THEN NotOpen
                           ELSE [id |-> metaFile[t].id, indexes |-> metaFile[t].indexes, meta |-> metaFile[t].indexes,
                                 birth |-> disk[<<t, Data>>].birth]]
           /\ hroot' = [f \in Files |-> IF f \in OpenedFiles THEN disk[f].root ELSE 0]
           /\ nextPool' = NextPoolAtOpen /\ nextTable' = NextTableAtOpen
           /\ staled' = staled \cup {f \in OpenedFiles : a.mem[f].root # disk[f].root}
     /\ UNCHANGED <<store, kit, stmt, births, acked, torn, stmts, faults>>

-----------------------------------------------------------------------------
Next ==
  \/ \E t \in Tables :
       \/ CreateTable(t) \/ DropTable(t)
       \/ \E i \in Indexes : CreateIndex(t, i)
       \/ \E r \in Rows : Delete(t, r) \/ Insert(t, r) \/ LoadData(t, r)
  \/ \E f \in Files : FlushFile(f)
  \/ RefuseColumns \/ WriteMeta \/ CreateData \/ OpenData
  \/ DropData \/ DropMeta \/ DropIndexFile \/ CloseDropped
  \/ FillIndex \/ IndexMeta \/ SyncFiles \/ Checkpoint
  \/ Crash \/ Shutdown \/ DbInit

Spec == Init /\ [][Next]_vars

-----------------------------------------------------------------------------
CheckpointEntryDropped ==
  /\ ckpt \in DOMAIN clog /\ clog[ckpt].kind = "page"
  /\ \A f \in Files : disk[f] = NoFile \/ disk[f].birth # clog[ckpt].birth

(* As long as no DDL statement was cut off or failed half way, the database *)
(* opens, and its tables, their indexes, rows and end stamps are those of   *)
(* the statements that succeeded, through any number of crashes and         *)
(* restarts.  It does not open if the entry at the checkpoint, which is     *)
(* replayed once more, is about a file that has been dropped.               *)
RestartKeepsTables ==
  torn = {} =>
    /\ failed => CheckpointEntryDropped
    /\ up /\ stmt = Idle =>
         \A t \in Tables :
           IF acked[t] = NoFile THEN opened[t] = NotOpen
           ELSE /\ opened[t] # NotOpen /\ Range(opened[t].indexes) = acked[t].indexes
                /\ mem[<<t, Data>>].rows = acked[t].rows /\ mem[<<t, Data>>].dead = acked[t].dead

(* Redo applies every entry to the very file, and table, that it was        *)
(* written for, although ids are given out again after a restart.           *)
ReplayHitsOwnFile == ~ misapplied

(* The tree that an index handler reads has the records of the table, also  *)
(* those with an end stamp, after an insertion that one of several indexes  *)
(* refused, and after redo.  Not so if redo changed the root: the handler   *)
(* keeps the one it read before (see staled).                               *)
IndexesAgree ==
  up /\ stmt = Idle =>
    \A t \in Tables : opened[t] # NotOpen =>
      \A i \in Range(opened[t].indexes) : <<t, i>> \notin staled /\ mem[<<t, i>>] # NotOpen =>
        (IF hroot[<<t, i>>] = 0 THEN {} ELSE mem[<<t, i>>].trees[hroot[<<t, i>>]]) = mem[<<t, Data>>].rows
=============================================================================
