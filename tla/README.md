# MiniOB in TLA+

A verification development for MiniOB, a small relational database server. It
models the server from the socket to the files: connections and threads, the way of a
statement through binding, planning, execution and the reply, sessions and
their transactions, multi-version rows, record pages, B+ trees, buffer pools, the
double write buffer, the commit log, the schema files, crashes and recovery. TLC
checks the models on small instances; TLAPS proves, for every size, the safety of
transactions, their recovery, the commit log, the double write buffer, the buffer pools,
record files, the sessions and the server. Paths below are relative to
`src/src/observer/storage` unless they begin with `src/`; `observer/` stands for
`src/src/observer/`.

## The system and its parts

| Part | State | Operations | What is hard |
|---|---|---|---|
| MVCC transactions (`trx/mvcc_trx.cpp`) | number counter, per session `trx_id_`, `started_`, `operations_`; two stamps on every row | start, insert, delete, visit, commit, rollback | commit and rollback stamp row by row while others read, delete and start |
| MVCC log and replay (`trx/mvcc_trx_log.cpp`) | entries, `trx_map_` | append at each operation, replay, `on_done` | crash between two entries; undo of open transactions |
| Commit log (`clog/`) | buffer, LSNs, files, a thread | append, wait, flush, roll over, stop, replay | the thread writes without the lock; failing opens and writes; crashes |
| Double write buffer (`buffer/double_write_buffer.cpp`) | pages in memory, a shared file with a header and slots | add, flush, clear, load | torn writes; memory and file out of step |
| Buffer pools and frames (`buffer/`) | frames with pins, page bitmap of each file, three kinds of lock | get, allocate, dispose, flush, evict, create, redo | two threads wanting one page; write-ahead order; locks taken during eviction |
| Record manager (`record/`) | slotted pages, set of free pages | insert, delete, visit, scan, redo | latch order; redo must find the same slot |
| B+ tree (`index/`) | pages of the tree, latches, mini transactions | insert, delete, scan, redo | crabbing, splits and merges under other threads; the LSN of a page |
| Table and database (`table/`, `db/`) | meta, data and index files, checkpoint | create, open, drop, create index, insert, delete, sync, recover | crash or error between two files; ids given out again |
| Sessions and results (`observer/session`, `observer/sql/executor`) | a transaction per session, multi-statement mode | begin, commit, rollback, open, rows, close | failed statements and disconnects inside a transaction |
| SQL layer (`observer/sql`) | the statement's plans and operators | bind, rewrite, plan, open, next, close | rules and operators that are right alone and wrong together |
| Communicators (`observer/net/*communicator.cpp`) | packet number, ring buffer | read, write state, write result | a full buffer or a broken socket in the middle of a reply |
| Server and thread pool (`observer/net`, `src/deps/common/thread`) | connections, events, queue, threads | accept, handle, close, stop | a connection in several hands; stop while requests run |
| Parser, common library, tools | none of their own | | |

How they interact. The main thread accepts connections and gives each to a thread of its
own, or to an event loop whose tasks run on a pool of threads. A thread reads
one message, runs it through the stages, and writes the reply while it pulls the
rows out of the plan's operators. The statement works on rows through its
session's transaction, which uses table, record manager and indexes. A row is read and written
under the write latch of its page; the record manager appends a log entry with the
row's image, then the transaction appends its own entry. The log thread writes the
entries in order, and `commit` waits until its COMMIT entry is on disk. Pages
go through the buffer pool to the double write buffer, and from there to their
file. `Db::sync` (after DDL) writes all pages and stores the LSN from which
`Db::recover` replays after a restart; the replayed entries are dispatched to buffer
pools, record pages, indexes and transactions.

## Modules

| Module | Models | Uses |
|---|---|---|
| `MvccTrx` | transactions of concurrent sessions, one step per row | |
| `MvccTrxProofs` | theorems about `MvccTrx` | `MvccTrx` |
| `MvccRecovery` | `MvccTrx` with what each step logs, the checkpoint, crash and replay | extends `MvccTrx` |
| `MvccRecoveryProofs` | theorems about `MvccRecovery` | `MvccTrxProofs` |
| `DurableLog` | abstract: what the log promises its users | |
| `DiskLog` | buffer, log thread, files, clients, stop, crash, replay | refines `DurableLog` |
| `DiskLogProofs` | theorems about `DiskLog`, the refinement among them | `DiskLog` |
| `DoubleWriteBuffer` | the shared file, flush, dropped pools, crash with torn writes | |
| `DoubleWriteBufferProofs` | theorems about `DoubleWriteBuffer` | `DoubleWriteBuffer` |
| `BufferPool` | frames, pins, locks, page allocation and its log, eviction, crash, redo | |
| `BufferPoolProofs` | theorems about `BufferPool` | `BufferPool` |
| `RecordFile` | record pages, free pages, latches, scan, log, crash, redo | |
| `RecordFileProofs` | theorems about `RecordFile` | `RecordFile` |
| `BplusTree` | nodes, crabbing, rebalancing, mini transactions and their log, scan | |
| `Ddl` | tables, indexes and their files, the checkpoint, crash, replay dispatch | |
| `Session` | statements and the transaction of their session, both protocols | |
| `SessionProofs` | theorems about `Session` | `Session` |
| `Communicator` | replies of both protocols, buffered writer, ring buffer, socket | |
| `Query` | one statement from the syntax tree to the client | extends `Communicator` |
| `Server` | main thread, both thread handlers, thread pool, clients, shutdown | |
| `ServerProofs` | theorems about `Server` | `Server` |
| `MC...` | small instances: symmetry, initial trees, statements, table contents | |

Definitions whose comment begins with "Plausible bug" are variants of an action
or operator that are used in no specification. They are there to test the
properties: replacing the definition by its variant must violate the property.

Each layer takes the one below as that layer's own module shows it to be: `BufferPool` uses
a log with a durable prefix (`DurableLog`) and a store that keeps pages
(`DoubleWriteBuffer`), `RecordFile` and `BplusTree` pages that stay while they are
pinned and reach the disk after their log (`BufferPool`), `MvccRecovery` row images
that redo reproduces (`RecordFile`), `Session` rows with the stamps of `MvccTrx`.

### `MvccTrx`

`begin_xid` and `end_xid` are the fields `__trx_xid_begin` and `__trx_xid_end` of
each record slot, `used` the page's bitmap. The other variables are named after
the members of `MvccTrxKit` and `MvccTrx`. `phase` and `cursor` say where a
session's thread is: `InsertRecord` and `DeleteRecord` are the part of a call up to
the return from the table, `LogOperation` the rest; `Commit` draws the commit number
and `CommitOperation` stamps one row per step, `AppendCommit` and `CommitDone` are
the two halves of `MvccTrxLogHandler::commit`; `Rollback`, `RollbackOperation` and
`RollbackDone` likewise. `VisitRecord` is `visit_record`, branch by branch.
`ASSERT` is compiled to nothing in the release build, so the model goes on after a
failed one. Statements are called in any order, as nothing in the transaction layer
forbids it: also COMMIT and ROLLBACK without a started transaction. Not in the
model: failing inserts and page reads, and the contents of a row besides its stamps.

### `MvccRecovery`

`clog` is the sequence of entries: row images of the record manager and operations
of the transaction layer. A crash keeps the first `flushed` of them. The rows
are then what the last durable image of each says. `ReplayedIds` and `TrxMapAtDone` are what
`MvccTrxLogReplayer` makes of the transaction entries from the checkpoint on. `Sync`
is enabled only when no transaction is open; `db.cpp:268` leaves that to its callers.

### `DiskLog` and `DurableLog`

An entry is its LSN. The buffer (`entries`, `bytes`), the LSNs and the thread's
local variables are those of the code; `thread` is the thread's place in
`thread_func` and in `LogEntryBuffer::flush`, which takes an entry under the lock
(`TakeEntry`), writes it without (`WriteEntry`, `WriteRefused`, `WriteFailed`) and
puts it back on failure. `append` tests the buffer's size before it takes the lock
(`AppendCheck`, `AppendLocked`). A failed or interrupted write may leave a part
of an entry; that such a remnant in the middle of a file makes replay fail, rather
than be read as an entry, is an assumption.

`DurableLog` has six variables: the last entry, the durable prefix, the reported
prefix, the largest number confirmed to a caller, the checkpoint, and the entries that
the last replay handed out. `RestartFails` lets a log that cannot be read keep the
database down, without handing anything out. `ImplementsDurableLog` maps the
buffer, the thread and the files to these; it covers numbering, order on disk,
what a caller of `wait_lsn` may rely on, and the choice of files and entries at replay.

### `DoubleWriteBuffer`

Pages have versions. `page_index` and `page_data` are `dblwr_pages_`; `page_cnt` and
`file_cnt` the header in memory and in the file. `AddPage`, `WriteSlot` and
`WriteHeader` are `add_page`; `FlushPage` and `FlushDone` are `flush_page`; `DropPool`,
`ClearPage` and `DropPoolDone` are `Table::drop` with `clear_pages`, which works outside
the lock. A crash may tear the page being written. `latest` and `checkpoint` are
history variables: the newest content of each page, and that at the last `Db::sync`.
Not in the model: failing writes, and a sync that runs while others are active.

### `BufferPool`

`frames` is the frame manager's map with pins and dirty flags, `header` the bitmap page
of each file, `th` what each thread is doing. A call is cut where it could wait
for a second lock: `get_this_page` is the lookup, the miss under the pool's lock,
the allocation of a frame, the choice of a victim (`Purge`), the write of the victim and
the load. The content of a page is the LSN of the entry that changed it last; `newest` is
history. `LogFlush` is the log thread. `Crash` keeps the files and the durable log and opens
the files; `RedoHeader` and `RedoChange` then apply one log entry each, `RedoEvict` writes and drops a
page when redo needs its frame, and `RedoDone` lets the threads in again. The system may crash
at any of these steps. A change is an insert, update or delete on the page; the initialization of a
page, which does not mark the frame dirty, is in `RecordFile`. Any number of threads may want one
page. When a thread meets another one that is still getting the page (`Meets`), `newest` becomes `Lost` for that page,
and stays so (`Raced`): the code gives no guarantee of what is in it then, see "What the code does not keep". `RecordFile` and
`BplusTree` build on pages that were not raced for. Only `dispose_page` is taken to have no competitor (`MayUse`). `purge_frames` writes a victim through the pool that owns it,
which takes the buffer pool manager's lock and that pool's lock.

### `RecordFile`

`pages` has the slots of each page with the LSN of what they hold, `disk` what was
written, `free_pages` and `lock` those of `RecordFileHandler`, `latch` the page
latches. `ThreadStep` runs insert (search of the free pages, latch, a new
page), delete, visit and the scan, each cut where it waits with a lock held. `PageFlush`
writes a page whose entries are durable, `PageEvict` drops a clean one, `Crash`, `Redo`
and `RedoDone` go through the log entry by entry. `stale` marks pages that redo changed after
`init_free_pages` had looked at them. A record is a token; that updates write through a visit is
how transactions and tables change rows. `NestedModes` adds a second
visit of the table inside a scan (a statement that reads the table it scans): it is empty in the
run, see below. `RedoEvicts`, evictions while the log is applied, is off there too.

### `BplusTree`

A change of a page is a log entry applied to it (`Apply`), as in the code. `FindRoot` and
`Descend` take one latch per step and release the ancestors when the node is safe;
`InsertLeaf` and `DeleteLeaf` do what is done with all latches held, up to the
root, in one step; `LatchNeighbor` is the wait for a sibling before merge or
redistribution. `CommitLog` appends the entries of the mini transaction as one record,
`Release` puts its LSN on the pages and gives up pins and latches. A scan is
`ScanLeaf`, `ScanOpenNext` (waits for the next leaf), `ScanNext` (only tries) and
`ScanClose`. `content` and `must` are history: the keys that ought to be there, and
those a scan has to give out. `clashed` are the pages that a thread changed while
another had changes of them that were not in the log yet, `early` those of them that the other had
just made. The log is written and not replayed here: `LogReproduces` compares what its records, in their order, make
of each page with what the page is. Crashes of the tree are in `Ddl`, where an index is a set of
entries and a root.

### `Ddl`

`metaFile`, `disk` and `ckpt` are the files; `mem`, `opened` and the id counters are the
process's. `CREATE TABLE` makes the meta file, writes it, makes the data file and opens
it, one step each, and then checkpoints; `DROP TABLE` and `CREATE INDEX` likewise; any of
the file operations may fail while `FaultBound` allows. A crash is possible between any
two steps. `DbInit` opens each meta file that is there, reads the free pool ids, replays
the log from the checkpoint and dispatches each entry by its pool id. `torn` collects
the tables whose DDL was cut off or failed half way; `acked` what succeeded. `birth`
tells a file from an earlier one of the same name. Both transaction kits are chosen from: with
the vacuous one DELETE removes the row and its index entries at once, with MVCC it sets the end stamp (`dead`)
and logs the row's image and the transaction's entries. INSERT undoes the record and the entries
made so far when an index refuses its entry; LOAD DATA inserts without a transaction. CREATE INDEX fills the index in a scan that
minds no stamps, and may fail at any row. The pages of an index are its trees, one after the other
(`trees`), and the root its header page names; `hroot` is the handler's own copy of the root. `staled` are the indexes whose
root redo has changed after the handler had read it.

### `Session`

The steps of a statement are those of `SqlResult`: plan, `open` (a change does its work
there, one row per step), rows, `close`, which commits or rolls back unless
`trx_multi_operation_mode_` is set. The plain communicator closes the result when `open`
fails, the MySQL one does not. A DELETE collects its rows first and may get only a part of them because its
row source failed (`OpenDelete`, `cut`); an UPDATE then fails (`OpenFails`). `DeleteNext` meets rows that other sessions are deleting,
`InsertFails` is an insert that is refused after rows have been deleted, `HeaderFails` a header that cannot be written. A
disconnect destroys the transaction.

### `Query` and `Communicator`

`Resolve` is `SelectStmt::create` and its siblings, with the expression resolver, aliases
and aggregates; `CreateLogicalPlan` and `RewritePass` are the logical plan and its
rules, pass after pass; `GeneratePhysicalPlan` chooses scans and joins; `OpenSelect`,
`FetchRow` and `CloseResult` pull rows through the operators, each of which is a record with the
operator's members. `OpenChange` and `OpenInsert` are DELETE, UPDATE and INSERT with
their conversions. `Connect` and `Authenticate` are the MySQL handshake, `ReadEvent` the
numbering of packets, `SendHeader` and `FinishReply` the two ends of a reply. What
is written goes through `RingWrite` and `FlushInternal`, byte groups standing
for bytes, into a socket that takes `chunk` units at a time and breaks after `breaks`.
`conn.sent` is what the client has.

The reference (`Ref...`) evaluates a statement directly: cross product, filter,
projection or aggregation, for a change the rows it describes, and the units that
each protocol ought to send. `KnownWrong` names the statements for which the code is known
to differ (listed below); they are executed too but not compared.

### `Server`

`main` is the main thread from `serve` to the deletion of the databases. With one thread per
connection, `Worker` threads poll, read and run; with the pool, `event_loop_thread`
dispatches a ready connection to the queue, and a task runs it and adds the event
again. The pool starts core threads, grows to its maximum, lets extra threads expire,
and `shutdown` and `await_termination` end it. `frees` counts deletions of a
communicator. Clients send, stop in the middle of a message and go on, leave their answers unread until the socket
is full (`Fill`) and read on (`Drain`), and leave. `Shutdown` may come at any time, also before `start()` sets `started_`
(`Listen`), which makes it void; an error of `poll` on the listening socket ends `serve` as well (`PollFails`). A message that came in
behind another one in the same read is discarded (`dropped`), as `read_event` does.

## Runs

Bounds are constants named `...Bound`. They cap numbers, entries, versions, statements,
faults and restarts; sessions, threads, rows, clients, keys and pages are small sets.
Where a bound ends a run nothing more is issued, so `CHECK_DEADLOCK FALSE` is set
everywhere; calls under way still finish. That threads do not wait for each other is a
property of its own in the modules with locks.

| Run | Instance | Shows |
|---|---|---|
| `mvcc` | 2 sessions, 2 rows, 5 numbers, 2 operations, 8 entries | every stamp has an owner (`StampOwned`), deletes exclude each other (`FirstDeleterWins`), commit and rollback find their rows (`PendingRowsIntact`), committed inserts stay (`CommittedInsertStays`), reads repeat (`ReadsRepeat`) |
| `recovery` | 2 sessions, 2 rows, 3 numbers, 5 entries, 1 crash | what commit acknowledged is in the durable log and there after the restart (`CommitIsDurable`, `AckedInsertSurvives`) |
| `disk_log` | 2 clients, 2 entries per file, 3 entries, 1 fault, 1 restart | the log implements `DurableLog` (`ImplementsDurableLog`), stop loses nothing (`StopDrains`), waits return and the thread ends (`WaitReturns`, `StopEnds`) |
| `dwb` | 2 pools of 2 pages, 3 slots, 2 versions, 1 drop, 1 restart | reads give the newest page (`ReadsLatest`), no page stays torn (`NoTornPage`), nothing before the checkpoint is lost in the first crash (`FirstCrashCovered`) |
| `buffer_pool` | 2 threads, 2 pools (one created late), 2 pages each, 3 frames, 4 entries, 1 restart | who holds a page that was not raced for sees its newest content (`HoldersSeeNewest`), and redo then fails for no page (`RedoSucceeds`); no page is on disk before its log (`WriteAhead`), the bitmap agrees with the log (`HeaderMatchesLog`), only evictions into another pool deadlock (`DeadlocksAreEvictions`) |
| `record_file` | 2 threads, 2 pages of 2 slots, 6 entries, 1 restart | `NoDeadlock`; a page with room is known or about to be (`FreePagesComplete`); scans are complete (`ScanMissesNothing`); redo puts every record where it was (`PagesMatchLog`) |
| `bplus_tree` | 2 threads, 2 operations, nodes of 4, 10 pages, 7 keys, 8 trees of none to three levels | `TreeValid`; changes are latched to the end (`ChangesLatched`); the log gives the same pages, although mini transactions that change one page are logged in another order than they began (`LogReproduces`); scans are complete (`ScanMissesNothing`); only the opening of a scan deadlocks (`DeadlocksAreScans`) |
| `server` | 2 clients (2 messages and none), 3 pool threads, core size 2, both thread models | `NoUseAfterFree`; no request runs when the databases go (`NoRequestAfterDb`); unless clients go on stalling, stop ends (`ShutdownCompletes`) and messages are answered (`EveryMessageAnswered`) |
| `session` | a plain and a MySQL session, 3 keys (2 stored), 1 and 2 statements, 6 row slots | an idle session holds nothing, but for a MySQL session whose last statement failed (`IdleHoldsNothing`), stamps and operations agree (`StampsMatchOps`), a success is complete, but for a DELETE whose row source failed (`SuccessIsComplete`) |
| `ddl` | 2 tables, 2 indexes each, 2 rows, both kits, 5 statements, 2 restarts, 1 fault | only torn DDL keeps a database from opening, and otherwise tables, indexes, rows and end stamps survive (`RestartKeepsTables`); redo hits the file it was written for (`ReplayHitsOwnFile`); indexes agree with tables, after a refused entry and after redo (`IndexesAgree`) |
| `query` | some 90 statements on 280 contents of two tables, both protocols, ring buffer of 3 units, 2 sockets | the client receives exactly the answer (`AnswerExact`), tables change exactly as described (`ChangeExact`) |
| `mvcc_undo` | 2 sessions, 1 row, 4 numbers, 6 entries, 1 restart | violation: uncommitted rows are not rolled back (`UncommittedRolledBack`) |

Why the bounds are enough to be interesting. Five numbers allow two transactions
to commit and a third to start, so that commits overlap transactions started
before and after them. Two operations allow insert and delete of one row and
operations on two rows, so a commit can be half done. Three log entries with two
per file fill the first file (it holds LSN 1 only), roll over and fill the second. Three slots
with four pages fill the double write buffer and leave a page outside it; two versions tell stale
from new. Three frames for two pools whose header pages stay pinned leave one frame over
which the threads compete, so that every other access evicts. Four entries make two pages with a
change each, so that redo has to evict the one for the other, or let a page be allocated, disposed of, allocated again and
changed; more pages in a file, and longer logs, are covered by the proofs. Two record pages of two
slots let a page become full, be left by the free set, get room again, and a second page be
allocated. The initial trees are chosen so that one operation splits a leaf, splits up to
the root, merges, redistributes, or removes the root, while the other thread inserts, deletes or
scans next to it. Two connections and three pool threads let a task run, another wait in the
queue, and an extra thread expire; either client may stall the thread that serves it. Two rows let redo
add to an index whose root stays as it was; two indexes let the second refuse a row that the first has. Five statements allow a table to be created, indexed,
filled, dropped and created again, over two restarts. The ring buffer is smaller than any reply, so it wraps and
flushes in the middle of one; one socket breaks after five units.

Fairness. `DiskLog` assumes it of the log thread (`ThreadStep`) and of a client inside a call
(`ClientStep`), `Server` of the main thread and of each handler or pool thread: they
are operating system threads that poll or are woken. For `Server` this includes that a statement comes to its end
(`RunSql`); its locks and waits are the subject of the other modules. A thread whose client sent half a message, or does not read its
answer, takes no step: the two liveness properties are stated for behaviours in which, from some time
on, nobody stalls. Nothing is assumed of users: none need
issue a statement, commit, call stop, finish a message or read an answer. Faults are bounded, so that
opens and writes succeed in the end; with a disk that fails for ever `wait_lsn` indeed
never returns. Runs with temporal properties use no symmetry.

Conditions that the properties carry, where the code does not keep the plain statement, are
named in their definitions and explained next.

### What the code does not keep

`mvcc_undo` states what the comment at `trx/mvcc_trx_log.cpp:180` says, and finds it violated:
`trx_map_` is never filled, so `on_done` rolls nothing back; rows of interrupted
transactions keep their stamps. A row being deleted then can be deleted by nobody.

The following disagreements were met while modelling. The models contain the behaviour; the
properties are stated so that they hold beside it.

Transactions and recovery:
- `mvcc_trx.cpp:209`: for a row being inserted `visit_record` tests only whose insert it is, so a
  transaction can delete its own insert twice, and the assertion at `mvcc_trx.cpp:322`
  fails at the second.
- `mvcc_trx.cpp:202`: an older transaction that still sees a row whose delete is committed may
  delete it again; its rollback (`:405`) sets the end stamp to the maximum and so undoes
  the committed delete.
- `mvcc_trx.cpp:218`: a row that somebody is deleting is visible to all readers, also to
  those older than the row (`src/docs/docs/design/miniob-transaction.md:80` says a
  transaction sees a row when its number is in the row's range). `ReadsRepeat` is stated for
  rows in the range.
- `mvcc_trx.cpp:289`: commit stamps its rows one by one. A transaction that starts meanwhile gets a number above the
  commit's, and sees the rows that are stamped and not the others; what it did not see it may see later, as these were
  not in its range before.
- `mvcc_trx.cpp:69`: after a restart the counter is below commit numbers that are already on
  rows, so new transactions do not see committed rows.
- `mvcc_trx_log.cpp:104`: a COMMIT without a started transaction fails the assertion
  `trx_id > 0`.

Log, pages and files:
- `clog/log_buffer.cpp:59`: `bytes_` grows by the header only and shrinks by the whole entry; an
  entry that is put back lowers it further with every retry, so the limit on the
  buffer does not hold.
- `clog/log_file.cpp:197`: an entry whose write was broken off is written again behind its remains. Reading stops with an error
  at the remains, so the database does not open, though the entries behind them were reported durable
  (`RestartFails`; that the remains are not read as an entry is the assumption named above).
- `buffer/double_write_buffer.cpp:95`: `flush_page` resets the page count only in memory. Two
  crashes later an outdated slot overwrites a page newer than the checkpoint;
  `FirstCrashCovered` is about the first.
- `buffer/double_write_buffer.cpp:112`: after `clear_pages` the size of the map may be the slot of a
  page that is still buffered, and the two overwrite each other's slot. `NoTornPage` is
  stated for databases in which no table has been dropped.
- `buffer/double_write_buffer.cpp:170`: a slot with a page of a dropped table is loaded at the next
  start, and its pool is not found; `write_page` uses the null pointer. The model
  stops there (step "dead").
- `buffer/disk_buffer_pool.cpp:317`: `get_this_page` looks the page up without the pool's lock and does not look
  again with it. A frame is in the map before its page has been read, so a second thread that wants
  the page can be given it unread; and a thread that has missed as well loads the page from the disk over
  what the first one has changed in the meantime. The comment at `buffer/disk_buffer_pool.h:206` says that the given page is
  got into the buffer. With `Meets` set to FALSE, so that no page is taken as lost, TLC finds `HoldersSeeNewest` violated. With it the
  property says that this race is the only way to an outdated page.
- `buffer/disk_buffer_pool.cpp:704`: with every frame pinned the search for a victim never
  ends, with the pool's lock held. `:695`: the write of another pool's page waits for that
  pool's lock with the frame manager's lock held; its owner may wait for the
  frame manager (`DeadlocksAreEvictions`).
- `record/record_manager.cpp:624`: a statement that reads a table inside a scan of it, which holds the
  latch of its page, can wait for itself or for a writer that waits for it (`NestedModes`).
- `record/record_manager.cpp:157`: `init_empty_page` does not mark the frame dirty. When redo has initialized a
  page and the frame is evicted before the next entry of the page is applied, the initialization is lost,
  and the insert finds no room (`RedoEvicts`: the run and the theorem have frames enough for the redo).
- `index/bplus_tree.cpp:1524`: `create_new_tree` makes the first leaf without a latch, and `root_lock_` is given up
  before the mini transaction is appended. Another thread can change the leaf and append its record first, and the log then tells of
  the two in the wrong order (`LogReproduces` leaves the leaf out, `early`). The new root that a split makes (`:1335`) is not latched either, but
  `root_lock_` stays in the latch memo up to the release, so nobody reaches it.
- `index/bplus_tree_log.cpp:128`: the LSN is put on the pages of a mini transaction after its record was appended. The parent
  pointer of a child is set under the parent's latch alone, so a thread that changes the child at the same time and
  appends later may put its LSN on first, and the page's LSN goes back (`clashed`).
- `index/bplus_tree_log_entry.cpp:273`, `index/bplus_tree_log.cpp:227`: redo of tree entries sets the LSN of the frames and marks none dirty, so
  a frame that is evicted during redo loses what was redone; without an eviction `flush_all_pages` writes it all the same.
  `index/bplus_tree_log.cpp:234`: `__redo` returns SUCCESS also when an entry could not be applied, and leaves the frames pinned.
  Neither is in a model: in `Ddl` redo has frames enough and its entries can be applied.
- `index/bplus_tree.cpp:2032`: `open` of a scan waits for the next leaf
  with the first latched, where `next_entry` only tries (`DeadlocksAreScans`).
- `index/bplus_tree_log.cpp:169`: redo works with a tree handler of its own; the index's handler keeps the root that it read when the index was opened, before the replay.
  When redo has changed the root, searches start at the old one and inserts may make a second tree (`staled` in `Ddl`).
- `index/bplus_tree_log_entry.cpp:327`: undo of a mini transaction goes through the base class of the node
  handlers, whose item function returns null; the model stops there (`dead`).
- `db/db.cpp:279` and `clog/log_file.cpp:118`: the entry at the checkpoint is replayed once more. If
  it is about a file that was dropped since, the database does not open
  (`CheckpointEntryDropped`).
- `table/table.cpp:137`: a crash or an error inside CREATE TABLE leaves an empty meta file or one without its data file, inside DROP TABLE
  a meta file without data; the next start fails at it. A failed CREATE INDEX leaves the index file, and its pool open, so that
  the index cannot be created again (`torn`).
- `observer/sql/executor/load_data_executor.cpp:107`: LOAD DATA inserts without the transaction. Under MVCC the stamps of the row are what
  `malloc` left there (`table/table.cpp:323`), so who sees it is a matter of chance.
- `table/table.cpp:433`: CREATE INDEX fills the index in a scan that looks at no stamps, so rows that are deleted or not yet committed get entries
  too; a session that inserts meanwhile misses the
  new index. `db/db.cpp:180`: DROP TABLE deletes the `Table` while other sessions may
  use it. `Ddl` has one session, so neither is in a run.

Sessions and server:
- `observer/net/mysql_communicator.cpp:765`: when `open` fails, the result is not closed and the
  transaction stays open up to the next statement that closes it (`IdleHoldsNothing` leaves out just this).
- `observer/session/session.cpp:31`: a disconnect destroys the transaction without rollback; its rows keep
  their stamps.
- `observer/sql/operator/delete_physical_operator.cpp:36`: a DELETE whose row source fails, in a predicate or at a record that
  cannot be read, deletes what it had been given and answers SUCCESS (`SuccessIsComplete` and `ChangeExact` leave out just this).
- `observer/sql/operator/update_physical_operator.cpp:62`: an UPDATE whose insert fails has deleted its rows; the plain
  communicator's `close` then commits that (`observer/net/plain_communicator.cpp`, `InsertFails`), and the client is told FAILURE.
- A statement that fails inside BEGIN ... COMMIT leaves its effects in the transaction.
- `src/deps/common/thread/thread_pool_executor.cpp:61`: the state becomes RUNNING after the core threads were
  started; a core thread that looks before that ends (`CoreLost`).
- `observer/net/java_thread_pool_thread_handler.cpp:172`: when `event_add` fails the communicator stays in the map and is deleted
  by the caller too (`lost`).
- `observer/net/plain_communicator.cpp:48`: half a message keeps its thread in a loop of reads, also
  when the server wants to stop. `observer/net/buffered_writer.cpp:119`: `flush_internal` repeats a write that returns EAGAIN, so
  a client that does not read its answers keeps its thread, for good and at shutdown too. A connection that
  waits in the queue can be held up by another client's stall: `execute` reads `active_count_` before a thread that has popped a task
  has counted itself, and then starts no further thread. The liveness properties suppose that nobody stalls for ever.
- `observer/net/plain_communicator.cpp:45`: what came in with a read behind the end of a message is discarded, so a client that
  does not wait for its answers may have a message ignored (`dropped`).
- `observer/net/server.cpp:197` and `:240`: `start` sets `started_` whatever it was, so a shutdown that came before has no effect.
- `observer/net/one_thread_per_connection_thread_handler.cpp:146` and `:170`: the worker leaves `thread_map_` before its communicator and session are deleted,
  and `await_stop` waits for the map only; the session may be deleted after the databases are gone (`NoRequestAfterDb` allows the step "free" in that model).

Statements (`KnownWrong` and `DeleteCutShort` in `Query`):
- a WHERE that is a constant other than true: `observer/sql/optimizer/predicate_rewrite.cpp:59` removes the
  child of the projection, which then fails or answers without rows;
- an equality of two columns as the whole ON condition (`observer/sql/expr/tuple.h:655`, `CacheTuple::find_cell`
  compares the alias of what is looked for with the aliases of the cells, empty or not), against
  `src/test/case/result/primary-join-tables.result:17`;
- a table joined with itself: columns are looked up by the table's name;
- an alias of a selected column that is the name of a column in WHERE
  (`observer/sql/expr/expression_resolver.cpp:109`);
- an indexed column compared with a float, whose bits become the key, or with 0, where NULLs
  are (`observer/sql/operator/index_scan_physical_operator.cpp:41`);
- SET with columns in another order than the table's (`observer/sql/operator/update_record_maker.cpp:52`);
- GROUP BY: not implemented, answered SUCCESS (`observer/sql/parser/resolve_stage.cpp:50`);
- `*` beside an aggregate: accepted, and its cells fail in the middle of the reply.

Replies: an error of `next_tuple` after the first row is not told to the client
(`observer/net/plain_communicator.cpp:310`, `observer/net/mysql_communicator.cpp:994`). NULL is
sent as the text NULL, while the comment at `observer/net/mysql_communicator.cpp:964` says 0xFB. A failed
write of a delimiter in the header leaves the result open
(`observer/net/plain_communicator.cpp:230`). `observer/net/communicator.cpp:35` closes the socket before the
writer's destructor flushes.

## Proofs

Each theorem holds for all values of the constants that satisfy the named assumption of
the module; these say that bounds and sizes are naturals, and what is quoted below.
None of the properties is inductive by itself. Every proof module states an inductive
invariant as a conjunction of named parts, checked with TLC on small instances before it
was proved, shows that each action keeps it (one lemma per action), and derives the properties.

| Module | Inductive invariant | Properties that follow |
|---|---|---|
| `MvccTrxProofs` | `IInv` | `TypeOK`, `IdsDistinct`, `StampOwned`, `FirstDeleterWins`, `PendingRowsIntact`, `CommittedInsertStays`, `ReadsRepeat` |
| `MvccRecoveryProofs` | `RecInv` | `AckedInsertSurvives`, `CommitIsDurable` |
| `DiskLogProofs` | `LogInv` | `ImplementsDurableLog`, `StopDrains` |
| `DoubleWriteBufferProofs` | `DwbInv` | `ReadsLatest`, `NoTornPage`, `FirstCrashCovered` |
| `BufferPoolProofs` | `Base`, and with it `PageInv` | `WriteAhead`, `HeaderMatchesLog`, `DeadlocksAreEvictions`; `HoldersSeeNewest`, `RedoSucceeds` |
| `RecordFileProofs` | `FileInv`; with it `OneLatch`, `MatchInv` | `FreePagesComplete`, `ScanMissesNothing`; `NoDeadlock`; `PagesMatchLog` |
| `SessionProofs` | `SessionInv` | `StampsMatchOps`, `IdleHoldsNothing`, `SuccessIsComplete` |
| `ServerProofs` | `ServerInv` | `NoUseAfterFree`, `NoRequestAfterDb` |

### Transactions

`MvccTrxProofs` proves, for any sets of sessions and rows and all bounds, that
`Spec` implies `TypeOK`, `IdsDistinct`, `StampOwned`, `FirstDeleterWins` and
`PendingRowsIntact` always, and the action properties `CommittedInsertStays` and `ReadsRepeat`.
The first two are in no run: the proof covers them.
Its assumptions are `BoundsAssumption` (bounds are naturals, numbers stay below
`MAX_TRX_ID`, so that the counter does not wrap) and `NoRidAssumption`.

The inductive invariant `IInv` has two parts:

- `BInv`: types; all numbers come from the counter (`Numbers`); where a thread can be
  in its calls (`Control`: a transaction that is not started and not in a call has no
  operations, the cursor lies within them); distinct numbers. It is inductive
  alone (`BNext`).
- `RInv`: the three properties of rows, and what they rest on. To know that a
  stamp is still owned after one operation is finished, one must know that no other
  pending operation of the transaction concerns the same row in a way that breaks
  it: `Ordered` says that an insert into a slot comes once and before the deletes of it;
  `Twice` that a row is deleted twice by one transaction only if it is its own
  insert; `DeleteStamp` which stamps a row can have while its delete is unfinished. The
  last two are needed because of the double delete above: without it the end stamp
  would simply be the transaction's own.

`IInvNext` goes through the actions: `Quiet` covers those that touch no row,
`InsertStep`, `DeleteStep`, `LogStep`, `CommitStep` and `RollbackStep` the others; `EndsOne` and
`AtCursor` say what ending the operation at the cursor does to the set of pending ones.
`ReadsRepeat` follows from `IInv` by `ReadStep`: the only steps that change a row in the
range of a reader are a delete (the reader still sees the row), the rollback of a
delete, and the commit of a delete, whose number is above the reader's unless it was
drawn before the reader started. `IInv` was checked with TLC on small instances first.

### Recovery

The invariant above does not survive a crash: rows keep the stamps of transactions that
are gone, and numbers are handed out again. `RecInv` does without numbers. Its centre is
`Settled(r, c, n)`: the row is there with begin stamp `c`, no transaction has an unfinished insert
into its slot, and among the first `n` entries of the log is an image with that stamp after
which every image of the row has it. `StampedLogged` says that a commit settles
the rows it has stamped up to where it is, within what it has logged; `AckedSettled` that what
commit has returned is settled within the durable part. That another transaction cannot
unsettle a row needs `OneInsert` (a slot has at most one unfinished insert) and `Loops`
(where a thread can be in its loops). A crash keeps settled rows since their last
durable image has the stamp. `CommitIsDurable` follows from `StampedLogged` and what
`CommitDone` waits for. `RestartAssumption` is the only one added.

### Commit log

`Gapless`: the whole entries in the files are 1, 2, ... up to `Durable`. `InOrder`: the rest stand in
the thread's hand and in the buffer without a gap, also while an entry that could
not be written is put back. `FilesInOrder` and `PiecesInOrder`: a file is entered into the
map when all before its range is durable, and holds entries of its range, in order;
that is what `Recover` needs in order to hand out each entry from the checkpoint once (`ReplayReads`).
`Counted`: no number that is reported, confirmed or stored runs ahead of the files. `StepRefines` goes through
the actions: each is a step of `DurableLog` or changes none of its variables. The fairness of
`DurableLog` is not part of the theorem.

### Double write buffer

`Newest` gives `ReadsLatest`; it needs that a dropped pool's pages are out of the map
(`Closers`) and that `flush_page` has left to do only what is in the map (`Pending`). `Whole`,
stated for databases without a dropped table, says that buffered pages have slots of their own under the
header's count and that only a page which is being flushed, and has a slot, can be torn;
`Sizes` keeps the next slot number next to the counted ones. `FirstLife` says of the time before the
first crash that no slot under the header's count holds an old version of a page, and
`FirstCrash` what the crash may make of that. Both conditions are the ones under "What
the code does not keep".

### Buffer pools

`Base` holds for all values of the constants, also when threads want the same page. Its parts:

- `Typed` and `ThreadInv`: what a thread's step says of its page, its reason and its victim (`Job1`), and
  exactly which locks it holds (`Owner`); headers of open files stay in pinned frames (`HeaderFrames`).
  `DeadlocksAreEvictions` follows: apart from the two steps it names, the holder of the frame manager's lock
  waits for nobody, and the holder of a pool's lock for the frame manager's lock at most.
- `WalInv`: nothing in memory has an LSN that the log does not have, and during redo the whole log is durable. It
  gives `WriteAhead` with what a write waits for.
- `HeaderInv`: each entry of the log was possible after the ones before it (`LogSane`); the header in
  memory is as of the end of the log (`Running`), but for the page that a thread has logged and not yet
  entered (`Whole`); the header on disk is as of some durable entry (`OnDisk`), and during redo the
  header in memory is as of an entry that redo has reached, or of a later one (`Redone`). The difficulty is
  that redo of an allocation inside the file sets the bit and leaves the header's LSN as it was, so the LSN does not tell how far a header has come.
  `Good` says what is enough: the entries that a header has and whose LSN it has not are allocations
  of pages that are still allocated. Applying those again changes nothing.

`PageInv` is about the pages that were not raced for (`newest[k] # Lost`), with any number of threads on a page. `Orderly`: one thread at a time is
getting the page, nobody uses it meanwhile, who uses it has a frame, and no thread takes a frame away that another uses. `Framed`: the pin
count is the number of its users (holders, the one that loads it, the one that evicts it), and a clean frame equals the
disk. `Newest` says where the newest content is: in the frame, or on disk, or during redo in an
entry still to come, after which no entry of the page follows. Every page with a change in the log is in
the file (`PageOk`), since a new page is written before it is handed out, and that is why redo
misses none (`RedoSucceeds`, kept along with it). A lookup that meets another thread on the way ends the claim for its page and for no other;
that a raced frame disturbs no other page needs only `Base`. No assumption excludes the race: the theorems hold for the code as it is,
and say that the race is all that can go wrong here. Assumed of the constants (`BufferPoolAssumption`) is that the pools are finite in number, that the
ones open at the start have a frame each, and that the value for "nobody" is no thread.

### Record file

`FileInv` holds for all values of the constants, nested visits and evictions during redo included. `Places`,
`LockOwner` and `Exclusive` say what a thread holds at each of its steps; `Fresh` that a page which
is being allocated is known to one thread only, up to the moment it is put into the set; `LogInv` and `Images` that pages are
allocated and initialized in the log before they are used, and that an image on disk is backed
by durable entries. With these `FreeInv` is kept: between the latch and the set a page with room
always has a thread that is about to register it.

`NoDeadlock` is proved for `NestedModes = {}`, the instance of the run: with nested visits it is false, see "What
the code does not keep". `OneLatch` says that a thread then holds at most one latch, and
that while it holds one it waits for the lock of the free pages at most, and not as its owner. Every thread gets
a rank (`Rank`), each waits only for threads of a lower one (`WaitsForLower`), and in any set of threads one
has the least rank.

`PagesMatchLog` is proved for `~ RedoEvicts`, for the same reason. `MatchInv` has `LogSane` (each entry
was possible after the ones before it: an insert took the first free slot of an initialized page, so that redo, which
looks for the slot itself, finds the same one), the disk images as of their LSN (`AsOf`), the pages
that redo works on as of the entry before the next or as of their own newer LSN (`Replaying`), and the
pages of a running system as of the end of the log (`Current`), but for a page that redo initialized and that was
dropped clean. `ReplayMatches` is the step of redo. Of the constants `RecordFileAssumption` asks, besides naturals, only that the
value for "no thread" is none.

### Sessions

`Stamps`, `Numbers` and `StampsMatchOps` are kept together: that a new transaction's number is on
no row needs that stamps are below the counter; that a commit or rollback of one session
disturbs no other needs distinct numbers and that a row which is being inserted is deleted by its
own transaction at most. `Control` ties statement, transaction and mode; `Work` says that a change has found exactly
what it has deleted and has still to delete, and that an UPDATE has made or has still to make as
many rows; of a DELETE whose source failed (`cut`) nothing is claimed. `InOrderIs` is the fact about the order in which rows are visited: every set
of slots can be put in increasing order, so the choice in `InOrder` is a permutation of it
(proved by the least counterexample, since induction with a predicate is out of reach).
The stored rows are finite in number and have slots (`SessionAssumption`).

### Server

`OnePlace`: a connection is armed, or queued once, or held by one thread. `Freed`: a deleted one is in none
of these places, and in no map except after a failed `event_add` (`lost`). `OneModel` and `PoolModel` say
for each thread model where its threads can be, and that `await_stop` returns when no connection
or pool thread is left; for the latter `PoolCounts` relates `threads_` and `active_count_` to the
threads. Connections and pool threads are different things, and there is a finite number of pool threads
(`ServerAssumption`).

### What is only model-checked

Liveness (`WaitReturns`, `StopEnds`, `ShutdownCompletes`, `EveryMessageAnswered`): fairness and ENABLED are outside
the prover's reach. The properties of `BplusTree`, whose inserts go up the tree recursively and whose changes are
folds over sequences of log entries, and of `Ddl`, whose start is a fold over the log: both need
induction over these sequences. `TypeOK` of `BufferPool` was checked on the instance of `buffer_pool`; proved is
`Typed`, without the bounds of pins, counters and frames. Of
`RecordFile` with nested visits or evictions during redo what is left of them by the findings above.
Those of `Query` and `Communicator`: what their recursive operators compute can only be compared
with the reference by TLC, as induction over data is out of reach too.

## Not modelled

- The SQL parser and scanner: generated, a function of the text; `Query` starts from
  the syntax tree.
- Of the SQL layer: LIKE, CAST, dates, strings, scalar functions, subqueries, the checks of DDL
  statements, EXPLAIN and the commands that only print. They are data to the plans, or
  keep no state.
- The communicator of the command line, debug output, MySQL commands other than a query, and the
  lengths of strings on the wire.
- TEXT fields, field layout of records, and attribute comparison in indexes: a key is a number.
- Plan and query cache (empty stages), configuration, metrics, logging and the common
  library besides the thread pool; benchmarks, tests and client.

## Plan

Done: all modules above, and the proofs for `MvccTrx`, `MvccRecovery`, `DiskLog`,
`DoubleWriteBuffer`, `BufferPool`, `RecordFile`, `Session` and `Server`. Next, in this order:

1. `BplusTree` with a crash and redo through frames, in which a frame that redo changed can be evicted clean.
2. `Ddl`: `ReplayHitsOwnFile`, from the way ids are given out, with the start as one step per log
   entry, as in `BufferPool`.
3. `BplusTree`: `ChangesLatched`, with the work at a leaf cut into one step per level.
