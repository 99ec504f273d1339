----------------------------- MODULE BufferPool -----------------------------
(***************************************************************************)
(* The buffer pools of MiniOB (src/observer/storage/buffer): files of      *)
(* pages, a fixed number of frames shared by all of them, and the log of   *)
(* page allocations.                                                       *)
(*                                                                         *)
(* Threads look pages up, load them into frames, change them, allocate and *)
(* dispose of pages, write everything out (Db::sync) and create files.     *)
(* Three kinds of lock matter: the frame manager's, the buffer pool        *)
(* manager's and one per pool; an operation is split where it could wait   *)
(* for a second lock.  A page is <<pool, number>>, and number 0 is the     *)
(* header with the bitmap.  The content of a page is the LSN of the log    *)
(* entry that last changed it: 0 for a cleared page, -1 for none at all.   *)
(*                                                                         *)
(* The double write buffer is a store that keeps what it is given (see     *)
(* DoubleWriteBuffer), the log a sequence with a durable prefix (see       *)
(* DurableLog).                                                            *)
(***************************************************************************)
EXTENDS Integers, FiniteSetsExt, SequencesExt

CONSTANTS
  Threads,
  Pools,          \* the files
  LatePools,      \* those of them that are created while the system runs
  MAX_PAGE_NUM,   \* pages that the bitmap of a file has room for
  FRAME_NUM,      \* frames of the allocator
  LsnBound,       \* bound: log entries
  LateLsnBound,   \* bound: log entries from the first restart on
  RestartBound    \* bound: restarts

ASSUME BufferPoolAssumption ==
  /\ IsFiniteSet(Pools) /\ LatePools \subseteq Pools
  /\ Cardinality(Pools \ LatePools) <= FRAME_NUM   \* every open file has a frame for its header
  /\ <<>> \notin Threads
  /\ MAX_PAGE_NUM \in Nat \ {0} /\ FRAME_NUM \in Nat \ {0}
  /\ LsnBound \in Nat /\ LateLsnBound \in Nat /\ RestartBound \in Nat

None     == <<>>
PageNums == 0..(MAX_PAGE_NUM - 1)
Pages    == Pools \X PageNums
Header(p) == <<p, 0>>
Unwritten == -1                 \* beyond the end of the file, or not loaded
Lost      == -2                 \* no telling: two threads were getting the page at once

VARIABLES
  frames,      \* frames_ of the frame manager: page -> its frame
  fm_lock,     \* who holds the lock of the frame manager
  bpm_lock,    \* ... of the buffer pool manager
  pool_lock,   \* ... of each pool
  opened,      \* the pools in id_to_buffer_pools_
  header,      \* file_header_ of each pool, in its header frame
  disk,        \* the pages as the double write buffer and the files have them
  disk_header,
  clog,        \* the log: allocations, deallocations, changes of pages
  flushed,     \* how many entries are durable
  th,          \* what each thread is doing
  newest,      \* the content each page should have (history)
  restarts,
  redo,        \* the log entry that redo has come to; 0 when the system is up
  failed       \* redo returned an error

locks == <<fm_lock, bpm_lock, pool_lock>>
files == <<disk, disk_header>>
logs  == <<clog, flushed>>
runs  == <<restarts, redo, failed>>
vars  == <<frames, locks, opened, header, files, logs, th, newest, runs>>

Frame == [pin : Nat, dirty : BOOLEAN, lsn : Int]
BPFileHeader == [bits : SUBSET PageNums, page_count : 0..MAX_PAGE_NUM,
                 allocated_pages : 0..MAX_PAGE_NUM, lsn : Nat]
BufferPoolLogEntry == [page : Pages, op : {"allocate", "deallocate", "change"}]

Idle  == [pc |-> "idle", page |-> None, why |-> "none", victim |-> None]
Steps == {"idle", "lookup", "miss", "alloc", "purge", "evict", "manager", "other",
          "load", "hold", "dispose", "free", "sync"}
Reasons == {"none", "get", "extend", "open"}
Owners == Threads \cup {None}

TypeOK ==
  /\ DOMAIN frames \subseteq Pages /\ Cardinality(DOMAIN frames) <= FRAME_NUM
  /\ \A k \in DOMAIN frames : frames[k] \in Frame
  /\ fm_lock \in Owners /\ bpm_lock \in Owners /\ pool_lock \in [Pools -> Owners]
  /\ opened \subseteq Pools
  /\ header \in [Pools -> BPFileHeader] /\ disk_header \in [Pools -> BPFileHeader]
  /\ disk \in [Pages -> Int] /\ newest \in [Pages -> Int]
  /\ \A i \in DOMAIN clog : clog[i] \in BufferPoolLogEntry
  /\ flushed \in 0..Len(clog)
  /\ th \in [Threads -> [pc : Steps, page : Pages \cup {None}, why : Reasons, victim : Pages \cup {None}]]
  /\ restarts \in Nat /\ redo \in 0..(Len(clog) + 1) /\ failed \in BOOLEAN

-----------------------------------------------------------------------------
NoHeader  == [bits |-> {}, page_count |-> 0, allocated_pages |-> 0, lsn |-> 0]
(* BufferPoolManager::create_file: a file of one page, its header.          *)
NewHeader == [bits |-> {0}, page_count |-> 1, allocated_pages |-> 1, lsn |-> 0]
HeaderFrame == [pin |-> 1, dirty |-> FALSE, lsn |-> 0]

(* The database is open; LatePools have no file yet.                        *)
Init ==
  /\ opened = Pools \ LatePools
  /\ frames = [k \in {Header(p) : p \in opened} |-> HeaderFrame]
  /\ fm_lock = None /\ bpm_lock = None /\ pool_lock = [p \in Pools |-> None]
  /\ header = [p \in Pools |-> IF p \in opened THEN NewHeader ELSE NoHeader]
  /\ disk_header = header
  /\ disk = [k \in Pages |-> Unwritten]
  /\ clog = <<>> /\ flushed = 0
  /\ th = [t \in Threads |-> Idle]
  /\ newest = [k \in Pages |-> Unwritten]
  /\ restarts = 0 /\ redo = 0 /\ failed = FALSE

(* Db::sync: nobody else may be active (db.cpp:268).                        *)
Alone(t) == \A u \in Threads \ {t} : th[u].pc = "idle"
NoSync   == \A u \in Threads : th[u].pc # "sync"
WantedBy(k) == {t \in Threads : th[t].page = k}
MayUse(k) == \A t \in WantedBy(k) : th[t].pc \notin {"dispose", "free"}

(* Another thread is in get_this_page: it has missed the page, and has not  *)
(* loaded it yet.                                                           *)
Getting == {"miss", "alloc", "purge", "manager", "other", "evict", "load"}
Meets(t, k) == \E u \in Threads \ {t} : th[u].page = k /\ th[u].pc \in Getting
(* A page that is lost remains so.                                          *)
Raced == {k \in Pages : newest[k] = Lost}
Known(f) == [k \in Pages |-> IF k \in Raced THEN Lost ELSE f[k]]

To(t, pc)    == th' = [th EXCEPT ![t].pc = pc]
Victim(t, pc, v) == th' = [th EXCEPT ![t].pc = pc, ![t].victim = v]
Begin(t, pc, k, why) == th' = [th EXCEPT ![t] = [Idle EXCEPT !.pc = pc, !.page = k, !.why = why]]
End(t)       == th' = [th EXCEPT ![t] = Idle]
PoolOf(t)    == th[t].page[1]
Pinned(k, n) == [frames EXCEPT ![k].pin = @ + n]
Without(k)   == [j \in (DOMAIN frames) \ {k} |-> frames[j]]
With(k, f)   == [j \in DOMAIN frames \cup {k} |-> IF j = k THEN f ELSE frames[j]]
Lock(p, t)   == [pool_lock EXCEPT ![p] = t]

(* BufferPoolLogHandler::append_log and the logs of the pages' users.       *)
NextLsn == Len(clog) + 1
AppendLog(k, op) == /\ Len(clog) < IF restarts = 0 THEN LsnBound ELSE LateLsnBound
                    /\ clog' = Append(clog, [page |-> k, op |-> op])

-----------------------------------------------------------------------------
(* Plausible bug: get() leaves the frame manager's lock taken on a miss.    *)
LookupKeepsLock(t, k) ==
  /\ fm_lock = None
  /\ \/ /\ th[t].pc = "idle" /\ NoSync /\ MayUse(k)
        /\ k[1] \in opened /\ k[2] \in header[k[1]].bits \ {0}
     \/ th[t].pc = "lookup" /\ th[t].page = k
  /\ \/ /\ k \in DOMAIN frames
        /\ frames' = Pinned(k, 1) /\ UNCHANGED fm_lock
        /\ Begin(t, "hold", k, "none")
     \/ /\ k \notin DOMAIN frames /\ fm_lock' = t
        /\ Begin(t, "miss", k, "get")
        /\ UNCHANGED frames
  /\ newest' = IF Meets(t, k) THEN [newest EXCEPT ![k] = Lost] ELSE newest
  /\ UNCHANGED <<bpm_lock, pool_lock, opened, header, files, logs, runs>>

(* get_this_page: the look-up, without the pool's lock.                     *)
Lookup(t, k) ==
  /\ fm_lock = None
  /\ \/ /\ th[t].pc = "idle" /\ NoSync /\ MayUse(k)
        /\ k[1] \in opened /\ k[2] \in header[k[1]].bits \ {0}
     \/ th[t].pc = "lookup" /\ th[t].page = k
  /\ \/ /\ k \in DOMAIN frames
        /\ frames' = Pinned(k, 1)
        /\ Begin(t, "hold", k, "none")
     \/ /\ k \notin DOMAIN frames
        /\ Begin(t, "miss", k, "get")
        /\ UNCHANGED frames
  /\ newest' = IF Meets(t, k) THEN [newest EXCEPT ![k] = Lost] ELSE newest
  /\ UNCHANGED <<locks, opened, header, files, logs, runs>>

(* The page is not there: take the pool's lock.                             *)
LockPool(t) ==
  /\ th[t].pc = "miss" /\ pool_lock[PoolOf(t)] = None
  /\ pool_lock' = Lock(PoolOf(t), t)
  /\ To(t, "alloc")
  /\ UNCHANGED <<frames, fm_lock, bpm_lock, opened, header, files, logs, newest, runs>>

(* BPFrameManager::alloc, in the loop of allocate_frame.  A frame that is   *)
(* there already is returned; a new one holds no page yet.                  *)
Alloc(t) ==
  LET k == th[t].page
  IN /\ th[t].pc = "alloc" /\ fm_lock = None
     /\ \/ k \in DOMAIN frames /\ frames' = Pinned(k, 1) /\ To(t, "load")
        \/ /\ k \notin DOMAIN frames /\ Cardinality(DOMAIN frames) < FRAME_NUM
           /\ frames' = With(k, [pin |-> 1, dirty |-> FALSE, lsn |-> Unwritten])
           /\ To(t, "load")
        \/ /\ k \notin DOMAIN frames /\ Cardinality(DOMAIN frames) >= FRAME_NUM
           /\ UNCHANGED frames /\ To(t, "purge")
     /\ UNCHANGED <<locks, opened, header, files, logs, newest, runs>>

(* Plausible bug: a frame is freed without a look at its dirty flag.        *)
PurgeDirty(t) ==
  /\ th[t].pc = "purge" /\ fm_lock = None
  /\ \E k \in DOMAIN frames : frames[k].pin = 0 /\ frames' = Without(k)
  /\ To(t, "alloc")
  /\ UNCHANGED <<locks, opened, header, files, logs, newest, runs>>

(* purge_frames: an unpinned frame, the least recently used one (here any,  *)
(* as the order of the accesses is not kept).  A clean one is freed at      *)
(* once; a dirty one must be written, with the frame manager's lock held.   *)
Purge(t) ==
  /\ th[t].pc = "purge" /\ fm_lock = None
  /\ \/ /\ \A k \in DOMAIN frames : frames[k].pin > 0
        /\ To(t, "alloc") /\ UNCHANGED <<frames, fm_lock>>
     \/ \E k \in DOMAIN frames :
          /\ frames[k].pin = 0
          /\ \/ /\ ~ frames[k].dirty
                /\ frames' = Without(k) /\ To(t, "alloc") /\ UNCHANGED fm_lock
             \/ /\ frames[k].dirty
                /\ frames' = Pinned(k, 1) /\ fm_lock' = t
                /\ Victim(t, IF k[1] = PoolOf(t) THEN "evict" ELSE "manager", k)
  /\ UNCHANGED <<bpm_lock, pool_lock, opened, header, files, logs, newest, runs>>

(* BufferPoolManager::flush_page, for a page of another pool: the manager's *)
(* lock, then that pool's.                                                  *)
EvictManager(t) ==
  /\ th[t].pc = "manager" /\ bpm_lock = None
  /\ bpm_lock' = t /\ To(t, "other")
  /\ UNCHANGED <<frames, fm_lock, pool_lock, opened, header, files, logs, newest, runs>>

EvictOther(t) ==
  LET q == th[t].victim[1]
  IN /\ th[t].pc = "other" /\ pool_lock[q] = None
     /\ pool_lock' = Lock(q, t) /\ To(t, "evict")
     /\ UNCHANGED <<frames, fm_lock, bpm_lock, opened, header, files, logs, newest, runs>>

(* Plausible bug: flush_page_internal does not wait for the log.            *)
EvictFlushNoWait(t) ==
  LET v == th[t].victim
  IN /\ th[t].pc = "evict"
     /\ disk' = [disk EXCEPT ![v] = frames[v].lsn]
     /\ frames' = Without(v)
     /\ fm_lock' = None
     /\ IF v[1] = PoolOf(t) THEN UNCHANGED <<bpm_lock, pool_lock>>
        ELSE bpm_lock' = None /\ pool_lock' = Lock(v[1], None)
     /\ Victim(t, "alloc", None)
     /\ UNCHANGED <<opened, header, disk_header, logs, newest, runs>>

(* flush_page_internal waits for the log and hands the page to the double   *)
(* write buffer; then the frame is freed and the locks are given up.        *)
EvictFlush(t) ==
  LET v == th[t].victim
  IN /\ th[t].pc = "evict" /\ flushed >= frames[v].lsn
     /\ disk' = [disk EXCEPT ![v] = frames[v].lsn]
     /\ frames' = Without(v)
     /\ fm_lock' = None
     /\ IF v[1] = PoolOf(t) THEN UNCHANGED <<bpm_lock, pool_lock>>
        ELSE bpm_lock' = None /\ pool_lock' = Lock(v[1], None)
     /\ Victim(t, "alloc", None)
     /\ UNCHANGED <<opened, header, disk_header, logs, newest, runs>>

(* load_page: the page's content replaces that of the frame.  A page beyond *)
(* the end of the file is an error, and the frame is freed (purge_frame).   *)
Load(t) ==
  LET k == th[t].page
  IN /\ th[t].pc = "load" /\ th[t].why = "get"
     /\ pool_lock' = Lock(k[1], None)
     /\ \/ /\ disk[k] # Unwritten
           /\ frames' = [frames EXCEPT ![k].lsn = disk[k]] /\ To(t, "hold")
        \/ /\ disk[k] = Unwritten /\ fm_lock = None
           /\ frames' = IF frames[k].pin = 1 THEN Without(k) ELSE frames
           /\ End(t)
     /\ UNCHANGED <<fm_lock, bpm_lock, opened, header, files, logs, newest, runs>>

-----------------------------------------------------------------------------
(* The users of a page, with its latch: RecordLogHandler, BplusTreeLogger.  *)
Change(t) ==
  LET k == th[t].page
  IN /\ th[t].pc = "hold"
     /\ AppendLog(k, "change")
     /\ frames' = [frames EXCEPT ![k].lsn = NextLsn, ![k].dirty = TRUE]
     /\ newest' = Known([newest EXCEPT ![k] = NextLsn])
     /\ UNCHANGED <<locks, opened, header, files, flushed, th, runs>>

(* unpin_page *)
Unpin(t) ==
  /\ th[t].pc = "hold"
  /\ frames' = Pinned(th[t].page, -1)
  /\ End(t)
  /\ UNCHANGED <<locks, opened, header, files, logs, newest, runs>>

-----------------------------------------------------------------------------
(* allocate_page, when a page of the file is free: it is marked and logged, *)
(* and then got like any other page.                                        *)
AllocateFree(t, p) ==
  LET h == header[p]
      n == Min((0..(h.page_count - 1)) \ h.bits)
  IN /\ th[t].pc = "idle" /\ NoSync /\ p \in opened /\ pool_lock[p] = None
     /\ h.allocated_pages < h.page_count
     /\ AppendLog(<<p, n>>, "allocate")
     /\ header' = [header EXCEPT ![p] = [h EXCEPT !.allocated_pages = @ + 1,
                                                  !.bits = @ \cup {n}, !.lsn = NextLsn]]
     /\ frames' = [frames EXCEPT ![Header(p)].dirty = TRUE]
     /\ Begin(t, "lookup", <<p, n>>, "none")
     /\ UNCHANGED <<locks, opened, files, flushed, newest, runs>>

(* allocate_page, when the file must grow: the log entry first, then a      *)
(* frame (Alloc) ...                                                        *)
AllocateNew(t, p) ==
  LET k == <<p, header[p].page_count>>
  IN /\ th[t].pc = "idle" /\ NoSync /\ p \in opened /\ pool_lock[p] = None
     /\ header[p].allocated_pages >= header[p].page_count
     /\ header[p].page_count < MAX_PAGE_NUM
     /\ pool_lock' = Lock(p, t)
     /\ AppendLog(k, "allocate")
     /\ header' = [header EXCEPT ![p].lsn = NextLsn]
     /\ Begin(t, "alloc", k, "extend")
     /\ UNCHANGED <<frames, fm_lock, bpm_lock, opened, files, flushed, newest, runs>>

(* ... then the bitmap, and the cleared page is written to extend the file. *)
(* What the file did not have before the page reads as zero from then on.   *)
WithHoles(f, k) ==
  [j \in Pages |-> IF j = k \/ (j[1] = k[1] /\ j[2] \in 1..k[2] /\ f[j] = Unwritten) THEN 0 ELSE f[j]]

(* Plausible bug: the cleared page is not written.                          *)
AllocateNewUnwritten(t) ==
  LET k == th[t].page
      p == k[1]
      h == header[p]
  IN /\ th[t].pc = "load" /\ th[t].why = "extend"
     /\ header' = [header EXCEPT ![p] = [h EXCEPT !.allocated_pages = @ + 1, !.page_count = @ + 1,
                                                  !.bits = @ \cup {k[2]}]]
     /\ frames' = [frames EXCEPT ![k] = [frames[k] EXCEPT !.lsn = 0, !.dirty = FALSE],
                                 ![Header(p)].dirty = TRUE]
     /\ newest' = Known(WithHoles(newest, k))
     /\ pool_lock' = Lock(p, None)
     /\ To(t, "hold")
     /\ UNCHANGED <<fm_lock, bpm_lock, opened, files, logs, runs>>

AllocateNewDone(t) ==
  LET k == th[t].page
      p == k[1]
      h == header[p]
  IN /\ th[t].pc = "load" /\ th[t].why = "extend"
     /\ header' = [header EXCEPT ![p] = [h EXCEPT !.allocated_pages = @ + 1, !.page_count = @ + 1,
                                                  !.bits = @ \cup {k[2]}]]
     /\ frames' = [frames EXCEPT ![k] = [frames[k] EXCEPT !.lsn = 0, !.dirty = FALSE],
                                 ![Header(p)].dirty = TRUE]
     /\ disk' = WithHoles(disk, k)
     /\ newest' = Known(WithHoles(newest, k))
     /\ pool_lock' = Lock(p, None)
     /\ To(t, "hold")
     /\ UNCHANGED <<fm_lock, bpm_lock, opened, disk_header, logs, runs>>

(* dispose_page, called when the disposer has given up its pin              *)
(* (LatchMemo::release_to); no other thread wants the page.  The lock ...   *)
DisposeUnpin(t) ==
  /\ th[t].pc = "hold" /\ WantedBy(th[t].page) = {t}
  /\ frames' = Pinned(th[t].page, -1)
  /\ To(t, "dispose")
  /\ UNCHANGED <<locks, opened, header, files, logs, newest, runs>>

DisposeLock(t) ==
  /\ th[t].pc = "dispose" /\ pool_lock[PoolOf(t)] = None
  /\ pool_lock' = Lock(PoolOf(t), t)
  /\ To(t, "free")
  /\ UNCHANGED <<frames, fm_lock, bpm_lock, opened, header, files, logs, newest, runs>>

(* ... the frame, unless it has been evicted, the log and the bitmap.  The  *)
(* page's content is what the file has, from now on.                        *)
Dispose(t) ==
  LET k == th[t].page
      p == k[1]
      h == header[p]
      f == Without(k)
  IN /\ th[t].pc = "free" /\ fm_lock = None
     /\ AppendLog(k, "deallocate")
     /\ frames' = [f EXCEPT ![Header(p)].dirty = TRUE]
     /\ header' = [header EXCEPT ![p] = [h EXCEPT !.allocated_pages = @ - 1, !.bits = @ \ {k[2]},
                                                  !.lsn = NextLsn]]
     /\ newest' = Known([newest EXCEPT ![k] = disk[k]])
     /\ pool_lock' = Lock(p, None)
     /\ End(t)
     /\ UNCHANGED <<fm_lock, bpm_lock, opened, files, flushed, runs>>

-----------------------------------------------------------------------------
(* BufferPoolManager::create_file and open_file: the manager's lock is held *)
(* while the header gets its frame (Alloc) ...                              *)
OpenFile(t, p) ==
  /\ th[t].pc = "idle" /\ NoSync /\ p \notin opened /\ bpm_lock = None
  /\ bpm_lock' = t
  /\ disk_header' = [disk_header EXCEPT ![p] = NewHeader]
  /\ Begin(t, "alloc", Header(p), "open")
  /\ UNCHANGED <<frames, fm_lock, pool_lock, opened, header, disk, logs, newest, runs>>

(* ... and is loaded.                                                       *)
OpenFileDone(t) ==
  LET p == PoolOf(t)
  IN /\ th[t].pc = "load" /\ th[t].why = "open"
     /\ header' = [header EXCEPT ![p] = disk_header[p]]
     /\ frames' = [frames EXCEPT ![Header(p)].lsn = 0]
     /\ opened' = opened \cup {p}
     /\ bpm_lock' = None
     /\ End(t)
     /\ UNCHANGED <<fm_lock, pool_lock, files, logs, newest, runs>>

-----------------------------------------------------------------------------
(* Db::sync and flush_all_pages: every frame is written.  Rewriting a clean *)
(* one changes nothing and is left out.                                     *)
Sync(t) ==
  /\ th[t].pc = "idle" /\ Alone(t)
  /\ \E k \in DOMAIN frames : frames[k].dirty
  /\ To(t, "sync")
  /\ UNCHANGED <<frames, locks, opened, header, files, logs, newest, runs>>

LsnOf(k) == IF k[2] = 0 THEN header[k[1]].lsn ELSE frames[k].lsn

SyncFlush(t, k) ==
  /\ th[t].pc = "sync" /\ k \in DOMAIN frames /\ frames[k].dirty /\ flushed >= LsnOf(k)
  /\ frames' = [frames EXCEPT ![k].dirty = FALSE]
  /\ IF k[2] = 0 THEN disk_header' = [disk_header EXCEPT ![k[1]] = header[k[1]]] /\ UNCHANGED disk
     ELSE disk' = [disk EXCEPT ![k] = frames[k].lsn] /\ UNCHANGED disk_header
  /\ UNCHANGED <<locks, opened, header, logs, th, newest, runs>>

SyncDone(t) ==
  /\ th[t].pc = "sync" /\ \A k \in DOMAIN frames : ~ frames[k].dirty
  /\ End(t)
  /\ UNCHANGED <<frames, locks, opened, header, files, logs, newest, runs>>

(* The log's thread.                                                        *)
LogFlush ==
  /\ flushed < Len(clog)
  /\ flushed' = flushed + 1
  /\ UNCHANGED <<frames, locks, opened, header, files, clog, th, newest, runs>>

-----------------------------------------------------------------------------
(* Plausible bug: redo_allocate_page does not check the LSN.                *)
RedoAllocateNoLsn(h, lsn, n) ==
  IF n < h.page_count
  THEN IF n \in h.bits THEN h ELSE [h EXCEPT !.bits = @ \cup {n}, !.allocated_pages = @ + 1]
  ELSE [bits |-> h.bits \cup {n}, page_count |-> n + 1,
        allocated_pages |-> h.allocated_pages + 1, lsn |-> lsn]

(* redo_allocate_page and redo_deallocate_page: nothing if the header knows *)
(* of the entry; a page that is free is marked, without a new LSN; one that *)
(* extends the file must be the next.                                       *)
RedoAllocate(h, lsn, n) ==
  CASE h.lsn >= lsn                                -> h
    [] h.lsn < lsn /\ n < h.page_count /\ n \in h.bits -> h
    [] h.lsn < lsn /\ n < h.page_count /\ n \notin h.bits ->
         [h EXCEPT !.bits = @ \cup {n}, !.allocated_pages = @ + 1]
    [] OTHER -> [bits |-> h.bits \cup {n}, page_count |-> n + 1,
                 allocated_pages |-> h.allocated_pages + 1, lsn |-> lsn]
RedoAllocateFails(h, lsn, n) ==
  h.lsn < lsn /\ (n > h.page_count \/ (n = h.page_count /\ n >= MAX_PAGE_NUM))

RedoDeallocate(h, lsn, n) ==
  IF h.lsn >= lsn THEN h
  ELSE [h EXCEPT !.bits = @ \ {n}, !.allocated_pages = @ - 1, !.lsn = lsn]
RedoDeallocateFails(h, lsn, n) == h.lsn < lsn /\ n \notin h.bits

(* The content of a page is the last durable change of it.                  *)
LastChange(k) ==
  LET changes == {i \in 1..flushed : clog[i].page = k /\ clog[i].op = "change"}
  IN IF changes = {} THEN disk[k] ELSE Max(changes)

(* A crash keeps the files and the durable log.  Db::init opens every file; *)
(* each header takes a frame.                                               *)
Crash ==
  LET exist == {p \in Pools : disk_header[p].page_count > 0}
  IN /\ restarts < RestartBound /\ restarts' = restarts + 1
     /\ Cardinality(exist) <= FRAME_NUM
     /\ frames' = [k \in {Header(p) : p \in exist} |-> HeaderFrame]
     /\ fm_lock' = None /\ bpm_lock' = None /\ pool_lock' = [p \in Pools |-> None]
     /\ opened' = exist /\ header' = disk_header
     /\ clog' = SubSeq(clog, 1, flushed)
     /\ th' = [t \in Threads |-> Idle]
     /\ newest' = Known([k \in Pages |-> LastChange(k)])
     /\ redo' = 1 /\ failed' = FALSE
     /\ UNCHANGED <<files, flushed>>

(* Db::recover goes through the log.  BufferPoolLogReplayer::replay ...     *)
Redoing(ops) == redo \in DOMAIN clog /\ ~ failed /\ clog[redo].op \in ops

RedoHeader ==
  LET e == clog[redo]
      p == e.page[1]
      n == e.page[2]
      h == header[p]
      fails == \/ p \notin opened
               \/ e.op = "allocate" /\ RedoAllocateFails(h, redo, n)
               \/ e.op = "deallocate" /\ RedoDeallocateFails(h, redo, n)
      new == IF e.op = "allocate" THEN RedoAllocate(h, redo, n) ELSE RedoDeallocate(h, redo, n)
  IN /\ Redoing({"allocate", "deallocate"})
     /\ \/ fails /\ failed' = TRUE /\ UNCHANGED <<header, frames>>
        \/ /\ ~ fails /\ UNCHANGED failed
           /\ header' = [header EXCEPT ![p] = new]
           /\ frames' = [frames EXCEPT ![Header(p)].dirty = @ \/ new # h]
     /\ redo' = redo + 1
     /\ UNCHANGED <<locks, opened, files, logs, th, newest, restarts>>

(* ... and the replay of the pages' users, which gets the page: one that    *)
(* knows of the entry is left alone, and one that is not in the file cannot *)
(* be loaded.                                                               *)
RedoChange ==
  LET k   == clog[redo].page
      old == IF k \in DOMAIN frames THEN frames[k] ELSE [pin |-> 0, dirty |-> FALSE, lsn |-> disk[k]]
      new == IF old.lsn >= redo THEN old ELSE [old EXCEPT !.dirty = TRUE, !.lsn = redo]
      fails == k[1] \notin opened \/ (k \notin DOMAIN frames /\ disk[k] = Unwritten)
  IN /\ Redoing({"change"})
     /\ \/ fails /\ failed' = TRUE /\ UNCHANGED frames
        \/ /\ ~ fails /\ UNCHANGED failed
           /\ k \in DOMAIN frames \/ Cardinality(DOMAIN frames) < FRAME_NUM
           /\ frames' = With(k, new)
     /\ redo' = redo + 1
     /\ UNCHANGED <<locks, opened, header, files, logs, th, newest, restarts>>

(* purge_frames for it, when there is no frame left; nobody else holds a    *)
(* lock, and the entries have been read from the log's files.               *)
RedoEvict(v) ==
  /\ Redoing({"change"}) /\ clog[redo].page \notin DOMAIN frames
  /\ Cardinality(DOMAIN frames) >= FRAME_NUM
  /\ v \in DOMAIN frames /\ frames[v].pin = 0
  /\ disk' = IF frames[v].dirty THEN [disk EXCEPT ![v] = frames[v].lsn] ELSE disk
  /\ frames' = Without(v)
  /\ UNCHANGED <<locks, opened, header, disk_header, logs, th, newest, runs>>

RedoDone ==
  /\ redo = Len(clog) + 1 /\ ~ failed /\ redo' = 0
  /\ UNCHANGED <<frames, locks, opened, header, files, logs, th, newest, restarts, failed>>

-----------------------------------------------------------------------------
ThreadStep(t) ==
  \/ \E k \in Pages : Lookup(t, k) \/ SyncFlush(t, k)
  \/ LockPool(t) \/ Alloc(t) \/ Purge(t)
  \/ EvictManager(t) \/ EvictOther(t) \/ EvictFlush(t) \/ Load(t)
  \/ Change(t) \/ Unpin(t)
  \/ \E p \in Pools : AllocateFree(t, p) \/ AllocateNew(t, p) \/ OpenFile(t, p)
  \/ AllocateNewDone(t) \/ OpenFileDone(t)
  \/ DisposeUnpin(t) \/ DisposeLock(t) \/ Dispose(t)
  \/ Sync(t) \/ SyncDone(t)

Next ==
  \/ LogFlush
  \/ redo = 0 /\ \E t \in Threads : ThreadStep(t)
  \/ Crash \/ RedoHeader \/ RedoChange \/ RedoDone
  \/ \E v \in Pages : RedoEvict(v)

Spec == Init /\ [][Next]_vars

-----------------------------------------------------------------------------
(* disk_buffer_pool.h:206 "get the specified page into the buffer": who has *)
(* got a page sees its newest content, however often the page has been      *)
(* evicted, written, redone and loaded in between, and however many others  *)
(* hold it.  Only a page that two threads were getting at the same time may *)
(* be lost: get_this_page looks for the frame before it takes the lock, and *)
(* not again after (disk_buffer_pool.cpp:317).                              *)
HoldersSeeNewest ==
  \A t \in Threads : th[t].pc = "hold" /\ th[t].page \notin Raced =>
    th[t].page \in DOMAIN frames /\ frames[th[t].page].lsn = newest[th[t].page]

(* A page reaches the disk only after the log entry that changed it         *)
(* (BufferPoolLogHandler::flush_page).                                      *)
WriteAhead ==
  /\ \A k \in Pages : disk[k] <= flushed
  /\ \A p \in Pools : disk_header[p].lsn <= flushed

InLog(p, n) ==
  LET about == {i \in DOMAIN clog : clog[i].page = <<p, n>> /\ clog[i].op # "change"}
  IN about # {} /\ clog[Max(about)].op = "allocate"

(* The bitmap, its counters and the log agree whenever the pool's lock is   *)
(* free, also after a crash and a redo from an older header: no page is     *)
(* given out twice, none is forgotten.                                      *)
HeaderMatchesLog ==
  \A p \in opened : redo = 0 /\ pool_lock[p] = None =>
    /\ header[p].bits = {0} \cup {n \in PageNums : InLog(p, n)}
    /\ header[p].allocated_pages = Cardinality(header[p].bits)

(* Whatever part of the pages reached the disk before a crash, redo of the  *)
(* durable log does not fail: every entry finds its page in the file, and   *)
(* none is refused by redo_allocate_page or redo_deallocate_page; unless    *)
(* two threads had been getting a page at the same time.                    *)
RedoSucceeds == failed => Raced # {}

(* The thread whose lock a thread waits for.                                *)
WaitsFor(t) ==
  CASE th[t].pc \in {"miss", "dispose"} -> pool_lock[PoolOf(t)]
    [] th[t].pc \in {"alloc", "purge", "lookup", "free"} -> fm_lock
    [] th[t].pc = "manager" -> bpm_lock
    [] th[t].pc = "other" -> pool_lock[th[t].victim[1]]
    [] OTHER -> None

(* If threads wait for each other, or one for itself, then one of them is   *)
(* evicting a dirty page of another pool.                                   *)
DeadlocksAreEvictions ==
  \A D \in (SUBSET Threads) \ {{}} :
    (\A t \in D : WaitsFor(t) \in D) => \E t \in D : th[t].pc \in {"manager", "other"}
=============================================================================
