----------------------------- MODULE RecordFile -----------------------------
(***************************************************************************)
(* The record file of a table (src/observer/storage/record): pages of      *)
(* slots, the set of pages that may have room, the scanner, the log of the *)
(* records and its redo.                                                   *)
(*                                                                         *)
(* Two kinds of lock meet: lock_, which guards free_pages_, and the latch  *)
(* of each page.  insert_record takes the latch with lock_ held, but lock_ *)
(* with the latch of a new page held; delete_record gives the latch up     *)
(* first; a scanner keeps the latch of its page between two calls of       *)
(* next().  An operation is one action unless it waits with a lock held.   *)
(*                                                                         *)
(* What a slot holds is the LSN of the entry that wrote it (0: empty), so  *)
(* two images of a page can be compared record by record.                  *)
(***************************************************************************)
EXTENDS Integers, FiniteSetsExt, SequencesExt

CONSTANTS
  Threads,
  PageBound,      \* bound: record pages of the file
  Capacity,       \* record_capacity of a page
  LogBound,       \* bound: log entries
  RestartBound,   \* bound: restarts
  NestedModes,    \* scans ("r", "w") during which the statement reads the table again
  RedoEvicts      \* frames are evicted during redo

ASSUME RecordFileAssumption ==
  /\ PageBound \in Nat \ {0} /\ Capacity \in Nat \ {0}
  /\ LogBound \in Nat /\ RestartBound \in Nat
  /\ NestedModes \subseteq {"r", "w"} /\ RedoEvicts \in BOOLEAN
  /\ <<>> \notin Threads

PageNums == 1..PageBound
SlotNums == 1..Capacity
RIDs     == PageNums \X SlotNums
None     == <<>>
NoPage   == 0

VARIABLES
  pages,       \* the pages as memory has them
  dirty,       \* the dirty flags of their frames
  disk,        \* ... and as the disk has them
  page_count,  \* pages of the file that are allocated
  free_pages,
  lock,        \* who holds lock_
  latch,       \* the latch of each page: readers and writer
  clog,        \* the log: allocations of pages and RecordLogHandler's entries
  flushed,     \* how many entries are durable
  th,          \* what each thread is doing
  redo,        \* the entry to replay next; 0 when the system is up
  stale,       \* pages that redo added or changed, unknown to init_free_pages
  restarts,
  failed       \* redo returned an error

store == <<pages, dirty, disk, page_count>>
sync  == <<lock, latch>>
logs  == <<clog, flushed>>
up    == <<redo, stale, restarts, failed>>
vars  == <<store, free_pages, sync, logs, th, up>>

(* A page that was allocated but never initialized has no capacity at all.  *)
NoSlots   == [s \in SlotNums |-> 0]
ZeroPage  == [init |-> FALSE, slots |-> NoSlots, lsn |-> 0]
Idle      == [pc |-> "idle", page |-> NoPage, last |-> 0, must |-> {}, mode |-> "r", outer |-> NoPage]
Unlatched == [readers |-> {}, writer |-> None]
RecordOperation == {"allocate", "init", "insert", "delete", "update"}
Entry     == [op : {"allocate", "init"}, page : PageNums, slot : {0}]
               \cup [op : RecordOperation \ {"allocate", "init"}, page : PageNums, slot : SlotNums]
Steps == {"idle", "pick", "latch", "alloc", "init", "register", "put", "free", "enter", "scan"}

IsPage(pg) == pg.init \in BOOLEAN /\ pg.slots \in [SlotNums -> Nat] /\ pg.lsn \in Nat
TypeOK ==
  /\ DOMAIN pages = PageNums /\ DOMAIN disk = PageNums /\ DOMAIN latch = PageNums /\ DOMAIN th = Threads
  /\ \A p \in PageNums : IsPage(pages[p]) /\ IsPage(disk[p])
  /\ dirty \subseteq PageNums /\ page_count \in 0..PageBound /\ free_pages \subseteq 1..page_count
  /\ lock \in Threads \cup {None}
  /\ \A p \in PageNums : latch[p].readers \subseteq Threads /\ latch[p].writer \in Threads \cup {None}
  /\ clog \in Seq(Entry) /\ flushed \in 0..Len(clog) /\ redo \in 0..(Len(clog) + 1) /\ failed \in BOOLEAN
  /\ \A t \in Threads : /\ th[t].pc \in Steps /\ th[t].mode \in {"r", "w"} /\ th[t].must \subseteq RIDs
                         /\ th[t].page \in 0..PageBound /\ th[t].last \in 0..PageBound

Init ==
  /\ pages = [p \in PageNums |-> ZeroPage] /\ disk = pages
  /\ dirty = {} /\ page_count = 0 /\ free_pages = {}
  /\ lock = None /\ latch = [p \in PageNums |-> Unlatched]
  /\ clog = <<>> /\ flushed = 0
  /\ th = [t \in Threads |-> Idle]
  /\ redo = 0 /\ stale = {} /\ restarts = 0 /\ failed = FALSE

-----------------------------------------------------------------------------
Used(pg)   == {s \in SlotNums : pg.slots[s] # 0}
(* record_num >= record_capacity; both are 0 in a page without a header.    *)
IsFull(pg) == ~ pg.init \/ Used(pg) = SlotNums
FirstFree(pg) == Min(SlotNums \ Used(pg))
Records    == {r \in RIDs : pages[r[1]].slots[r[2]] # 0}

To(t, pc) == th' = [th EXCEPT ![t].pc = pc]
Busy(t)   == th[t].pc # "idle"

(* Frame::write_latch, read_latch.                                          *)
WriteFree(p)   == latch[p] = Unlatched
ReadFree(p)    == latch[p].writer = None
WriteLatched(t, p) == [latch EXCEPT ![p].writer = t]
Latched(t, p, mode) ==
  IF mode = "r" THEN [latch EXCEPT ![p].readers = @ \cup {t}] ELSE WriteLatched(t, p)
(* RecordPageHandler::cleanup.  A page that the outer scan of the same      *)
(* statement has latched as well stays latched.                             *)
Unlatch(t, p) ==
  IF p = NoPage \/ p = th[t].outer THEN latch
  ELSE [latch EXCEPT ![p].readers = @ \ {t}, ![p].writer = IF @ = t THEN None ELSE @]

(* RecordLogHandler: append, and the frame gets the LSN.                    *)
NextLsn == Len(clog) + 1
AppendLog(op, p, s) ==
  Len(clog) < LogBound /\ clog' = Append(clog, [op |-> op, page |-> p, slot |-> s])

-----------------------------------------------------------------------------
(* RecordFileHandler::insert_record: lock_, to look for a page with room.   *)
InsertLock(t) ==
  /\ redo = 0 /\ ~ failed /\ ~ Busy(t) /\ lock = None
  /\ lock' = t /\ To(t, "pick")
  /\ UNCHANGED <<store, free_pages, latch, logs, up>>

(* The first page of the (unordered) set is tried.                          *)
InsertPick(t) ==
  /\ th[t].pc = "pick"
  /\ \/ /\ free_pages = {}
        /\ lock' = None /\ To(t, "alloc")
     \/ \E p \in free_pages : th' = [th EXCEPT ![t].pc = "latch", ![t].page = p] /\ UNCHANGED lock
  /\ UNCHANGED <<store, free_pages, latch, logs, up>>

(* Its latch is awaited with lock_ held; a full page leaves the set.        *)
InsertLatch(t) ==
  LET p == th[t].page
  IN /\ th[t].pc = "latch" /\ WriteFree(p)
     /\ \/ /\ IsFull(pages[p])
           /\ free_pages' = free_pages \ {p} /\ To(t, "pick") /\ UNCHANGED sync
        \/ /\ ~ IsFull(pages[p])
           /\ lock' = None /\ latch' = WriteLatched(t, p)
           /\ To(t, "put") /\ UNCHANGED free_pages
     /\ UNCHANGED <<store, logs, up>>

(* No page has room: allocate_page, which logs the page and extends the     *)
(* file (see BufferPool).                                                   *)
InsertAlloc(t) ==
  LET p == page_count + 1
  IN /\ th[t].pc = "alloc" /\ page_count < PageBound
     /\ AppendLog("allocate", p, 0)
     /\ page_count' = p
     /\ th' = [th EXCEPT ![t].pc = "init", ![t].page = p]
     /\ UNCHANGED <<pages, dirty, disk, free_pages, sync, flushed, up>>

(* RecordPageHandler::init_empty_page.  The frame is not marked dirty.      *)
InsertInit(t) ==
  LET p == th[t].page
  IN /\ th[t].pc = "init" /\ WriteFree(p)
     /\ AppendLog("init", p, 0)
     /\ pages' = [pages EXCEPT ![p] = [init |-> TRUE, slots |-> NoSlots, lsn |-> NextLsn]]
     /\ latch' = WriteLatched(t, p)
     /\ To(t, "register")
     /\ UNCHANGED <<dirty, disk, page_count, free_pages, lock, flushed, up>>

(* The new page joins free_pages_: lock_ is awaited with the latch held.    *)
InsertRegister(t) ==
  /\ th[t].pc = "register" /\ lock = None
  /\ free_pages' = free_pages \cup {th[t].page}
  /\ To(t, "put")
  /\ UNCHANGED <<store, sync, logs, up>>

(* Plausible bug: the slot is found by counting the records.                *)
InsertPutCounted(t) ==
  LET p == th[t].page
      s == Cardinality(Used(pages[p])) + 1
  IN /\ th[t].pc = "put"
     /\ AppendLog("insert", p, s)
     /\ pages' = [pages EXCEPT ![p].slots[s] = NextLsn, ![p].lsn = NextLsn]
     /\ dirty' = dirty \cup {p}
     /\ latch' = Unlatch(t, p)
     /\ th' = [th EXCEPT ![t] = Idle]
     /\ UNCHANGED <<disk, page_count, free_pages, lock, flushed, up>>

(* RecordPageHandler::insert_record: the first free slot.                   *)
InsertPut(t) ==
  LET p == th[t].page
      s == FirstFree(pages[p])
  IN /\ th[t].pc = "put"
     /\ AppendLog("insert", p, s)
     /\ pages' = [pages EXCEPT ![p].slots[s] = NextLsn, ![p].lsn = NextLsn]
     /\ dirty' = dirty \cup {p}
     /\ latch' = Unlatch(t, p)
     /\ th' = [th EXCEPT ![t] = Idle]
     /\ UNCHANGED <<disk, page_count, free_pages, lock, flushed, up>>

-----------------------------------------------------------------------------
(* Plausible bug: the latch is kept until the page is registered.           *)
DeleteKeepsLatch(t, r) ==
  LET p == r[1]
  IN /\ redo = 0 /\ ~ failed /\ ~ Busy(t) /\ WriteFree(p) /\ r \in Records
     /\ AppendLog("delete", p, r[2])
     /\ pages' = [pages EXCEPT ![p].slots[r[2]] = 0, ![p].lsn = NextLsn]
     /\ dirty' = dirty \cup {p}
     /\ latch' = WriteLatched(t, p)
     /\ th' = [u \in Threads |->
                 IF u = t THEN [Idle EXCEPT !.pc = "free", !.page = p]
                 ELSE [th[u] EXCEPT !.must = @ \ {r}]]
     /\ UNCHANGED <<disk, page_count, free_pages, lock, flushed, up>>

(* RecordFileHandler::delete_record: under the latch, which is given up     *)
(* before lock_ is taken.  A slot that is empty is an error.                *)
Delete(t, r) ==
  LET p == r[1]
  IN /\ redo = 0 /\ ~ failed /\ ~ Busy(t) /\ WriteFree(p) /\ r \in Records
     /\ AppendLog("delete", p, r[2])
     /\ pages' = [pages EXCEPT ![p].slots[r[2]] = 0, ![p].lsn = NextLsn]
     /\ dirty' = dirty \cup {p}
     /\ th' = [u \in Threads |->
                 IF u = t THEN [Idle EXCEPT !.pc = "free", !.page = p]
                 ELSE [th[u] EXCEPT !.must = @ \ {r}]]
     /\ UNCHANGED <<disk, page_count, free_pages, sync, flushed, up>>

(* Plausible bug: the page is not returned to the set.                      *)
DeleteForgetsPage(t) ==
  /\ th[t].pc = "free" /\ lock = None
  /\ latch' = Unlatch(t, th[t].page)
  /\ th' = [th EXCEPT ![t] = Idle]
  /\ UNCHANGED <<store, free_pages, lock, logs, up>>

DeleteRegister(t) ==
  /\ th[t].pc = "free" /\ lock = None
  /\ free_pages' = free_pages \cup {th[t].page}
  /\ latch' = Unlatch(t, th[t].page)
  /\ th' = [th EXCEPT ![t] = Idle]
  /\ UNCHANGED <<store, lock, logs, up>>

(* visit_record with an updater that changes the record, and update_record. *)
Update(t, r) ==
  LET p == r[1]
  IN /\ redo = 0 /\ ~ failed /\ ~ Busy(t) /\ WriteFree(p) /\ r \in Records
     /\ AppendLog("update", p, r[2])
     /\ pages' = [pages EXCEPT ![p].slots[r[2]] = NextLsn, ![p].lsn = NextLsn]
     /\ dirty' = dirty \cup {p}
     /\ UNCHANGED <<disk, page_count, free_pages, sync, flushed, th, up>>

-----------------------------------------------------------------------------
(* RecordFileScanner::open_scan: the iterator keeps the number of pages.    *)
(* A join or a subquery on the same table opens a second scan while the     *)
(* first one has its page latched.  must: the records that are there from   *)
(* now on (history).                                                        *)
ScanOpen(t, mode) ==
  /\ redo = 0 /\ ~ failed /\ page_count > 0
  /\ \/ ~ Busy(t)
     \/ th[t].pc = "scan" /\ th[t].outer = NoPage /\ th[t].mode \in NestedModes /\ mode = "r"
  /\ th' = [th EXCEPT ![t] = [pc |-> "enter", page |-> 1, last |-> page_count, must |-> Records,
                              mode |-> mode, outer |-> th[t].page]]
  /\ UNCHANGED <<store, free_pages, sync, logs, up>>

(* Plausible bug: the page is left out if a writer has it.                  *)
ScanEnterTry(t) ==
  LET p == th[t].page
  IN /\ th[t].pc = "enter"
     /\ IF ReadFree(p)
        THEN /\ latch' = Latched(t, p, "r")
             /\ th' = [th EXCEPT ![t].pc = "scan", ![t].must = {r \in @ : r[1] # p}]
        ELSE th' = [th EXCEPT ![t].pc = "scan"] /\ UNCHANGED latch
     /\ UNCHANGED <<store, free_pages, lock, logs, up>>

(* fetch_next_record: the next page is latched, and its records are given   *)
(* out one by one; nobody can change them meanwhile.                        *)
ScanEnter(t) ==
  LET p == th[t].page
  IN /\ th[t].pc = "enter"
     /\ IF th[t].mode = "r" THEN ReadFree(p) ELSE WriteFree(p)
     /\ latch' = Latched(t, p, th[t].mode)
     /\ th' = [th EXCEPT ![t].pc = "scan", ![t].must = {r \in @ : r[1] # p}]
     /\ UNCHANGED <<store, free_pages, lock, logs, up>>

(* The page is done: cleanup, then the next one.                            *)
ScanNextPage(t) ==
  /\ th[t].pc = "scan" /\ th[t].page < th[t].last
  /\ latch' = Unlatch(t, th[t].page)
  /\ th' = [th EXCEPT ![t].pc = "enter", ![t].page = @ + 1]
  /\ UNCHANGED <<store, free_pages, lock, logs, up>>

(* close_scan, at the end or before it (an error, a client that is gone).   *)
ScanClose(t) ==
  /\ th[t].pc = "scan"
  /\ latch' = [p \in PageNums |-> [readers |-> latch[p].readers \ {t},
                                   writer |-> IF latch[p].writer = t THEN None ELSE latch[p].writer]]
  /\ th' = [th EXCEPT ![t] = Idle]
  /\ UNCHANGED <<store, free_pages, lock, logs, up>>

-----------------------------------------------------------------------------
(* The log's thread, and the frames that the buffer pool writes, after the  *)
(* log, or drops.                                                           *)
LogFlush ==
  /\ flushed < Len(clog) /\ flushed' = flushed + 1
  /\ UNCHANGED <<store, free_pages, sync, clog, th, up>>

PageFlush(p) ==
  /\ p \in dirty /\ flushed >= pages[p].lsn /\ (RedoEvicts \/ redo = 0)
  /\ disk' = [disk EXCEPT ![p] = pages[p]] /\ dirty' = dirty \ {p}
  /\ UNCHANGED <<pages, page_count, free_pages, sync, logs, th, up>>

PageEvict(p) ==
  /\ p \notin dirty /\ WriteFree(p) /\ pages[p] # disk[p] /\ (RedoEvicts \/ redo = 0)
  /\ pages' = [pages EXCEPT ![p] = disk[p]]
  /\ UNCHANGED <<dirty, disk, page_count, free_pages, sync, logs, th, up>>

(* A crash.  Table::open runs init_free_pages on the pages as the disk has  *)
(* them and as many as the header on disk counts, before the redo.          *)
Crash ==
  /\ restarts < RestartBound /\ restarts' = restarts + 1
  /\ pages' = disk /\ dirty' = {}
  /\ clog' = SubSeq(clog, 1, flushed)
  /\ \E n \in {0} \cup {clog[i].page : i \in {j \in 1..flushed : clog[j].op = "allocate"}} :
       /\ page_count' = n
       /\ free_pages' = {p \in 1..n : ~ IsFull(disk[p])}
  /\ lock' = None /\ latch' = [p \in PageNums |-> Unlatched]
  /\ th' = [t \in Threads |-> Idle]
  /\ redo' = 1 /\ stale' = {} /\ failed' = FALSE
  /\ UNCHANGED <<disk, flushed>>

(* RecordLogReplayer::replay leaves a page alone that knows of the entry.   *)
Skipped(pg, lsn) == pg.lsn >= lsn

(* replay_init_page, replay_insert (into the first free slot, whatever the  *)
(* entry says), replay_delete, replay_update.                               *)
Written(pg, s, v, lsn) == [init |-> pg.init, slots |-> [pg.slots EXCEPT ![s] = v], lsn |-> lsn]
Replayed(pg, e, lsn) ==
  CASE e.op = "init"   -> [init |-> TRUE, slots |-> NoSlots, lsn |-> lsn]
    [] e.op = "insert" -> Written(pg, FirstFree(pg), lsn, lsn)
    [] e.op = "delete" -> Written(pg, e.slot, 0, lsn)
    [] e.op = "update" -> Written(pg, e.slot, lsn, lsn)
ReplayFails(pg, e) ==
  CASE e.op = "init"   -> FALSE
    [] e.op = "insert" -> IsFull(pg)
    [] OTHER           -> pg.slots[e.slot] = 0

Redo ==
  LET e  == clog[redo]
      p  == e.page
      pg == pages[p]
  IN /\ redo > 0 /\ redo <= Len(clog) /\ ~ failed
     /\ \/ /\ e.op = "allocate"
           /\ page_count' = Max({page_count, p})
           /\ stale' = IF p > page_count THEN stale \cup {p} ELSE stale
           /\ UNCHANGED <<pages, dirty, failed>>
        \/ /\ e.op # "allocate" /\ Skipped(pg, redo)
           /\ UNCHANGED <<pages, dirty, page_count, stale, failed>>
        \/ /\ e.op # "allocate" /\ ~ Skipped(pg, redo)
           /\ \/ ReplayFails(pg, e) /\ failed' = TRUE /\ UNCHANGED <<pages, dirty, stale>>
              \/ /\ ~ ReplayFails(pg, e)
                 /\ pages' = [pages EXCEPT ![p] = Replayed(pg, e, redo)]
                 /\ dirty' = IF e.op = "init" THEN dirty ELSE dirty \cup {p}
                 /\ stale' = stale \cup {p} /\ UNCHANGED failed
           /\ UNCHANGED page_count
     /\ redo' = redo + 1
     /\ UNCHANGED <<disk, free_pages, sync, logs, th, restarts>>

RedoDone ==
  /\ redo > Len(clog) /\ redo' = 0
  /\ UNCHANGED <<store, free_pages, sync, logs, th, stale, restarts, failed>>

-----------------------------------------------------------------------------
ThreadStep(t) ==
  \/ InsertLock(t) \/ InsertPick(t) \/ InsertLatch(t) \/ InsertAlloc(t)
  \/ InsertInit(t) \/ InsertRegister(t) \/ InsertPut(t)
  \/ \E r \in RIDs : Delete(t, r) \/ Update(t, r)
  \/ DeleteRegister(t)
  \/ \E mode \in {"r", "w"} : ScanOpen(t, mode)
  \/ ScanEnter(t) \/ ScanNextPage(t) \/ ScanClose(t)

Next ==
  \/ \E t \in Threads : ThreadStep(t)
  \/ LogFlush \/ Crash \/ Redo \/ RedoDone
  \/ \E p \in PageNums : PageFlush(p) \/ PageEvict(p)

Spec == Init /\ [][Next]_vars

-----------------------------------------------------------------------------
WaitsFor(t) ==
  LET p == th[t].page
      of(owner) == {owner} \ {None}
  IN CASE th[t].pc \in {"latch", "init"}     -> latch[p].readers \cup of(latch[p].writer)
       [] th[t].pc = "enter"                 ->
            of(latch[p].writer) \cup (IF th[t].mode = "w" THEN latch[p].readers ELSE {})
       [] th[t].pc \in {"register", "free"}  -> of(lock)
       [] OTHER                              -> {}

(* record_manager.cpp:472: "the order of the locks looks like the reverse   *)
(* of the above, but there is no deadlock".  No threads wait for each       *)
(* other, and none for itself.                                              *)
NoDeadlock ==
  \A D \in (SUBSET Threads) \ {{}} : \E t \in D : WaitsFor(t) \cap D = {}

(* record_manager.h:315: free_pages_ is the set of the pages that are not   *)
(* full.  A page with room is in the set, or a thread is about to put it    *)
(* there; only what redo changed after a restart is forgotten.              *)
FreePagesComplete ==
  redo = 0 /\ ~ failed =>
    \A p \in 1..page_count : ~ IsFull(pages[p]) =>
      \/ p \in free_pages \cup stale
      \/ \E t \in Threads : th[t].page = p /\ th[t].pc \in {"register", "free"}

(* A scan gives out every record that is there from its beginning to its    *)
(* end: those it has not come to yet are in pages ahead.                    *)
ScanMissesNothing ==
  \A t \in Threads : \A r \in th[t].must :
    IF th[t].pc = "enter" THEN r[1] >= th[t].page ELSE r[1] > th[t].page

LastWrite(p, s) ==
  LET about == {i \in DOMAIN clog : clog[i].page = p /\ clog[i].slot = s}
      last  == Max(about)
  IN IF about = {} \/ clog[last].op = "delete" THEN 0 ELSE last

(* The pages are what their log entries say, each record at the position    *)
(* that was logged and given to the indexes: also when redo starts from     *)
(* older or newer images on disk and looks for the slots itself.            *)
PagesMatchLog ==
  redo = 0 => /\ ~ failed
              /\ \A r \in RIDs : pages[r[1]].slots[r[2]] = LastWrite(r[1], r[2])
=============================================================================
