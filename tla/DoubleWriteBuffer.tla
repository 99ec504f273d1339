------------------------- MODULE DoubleWriteBuffer -------------------------
(***************************************************************************)
(* The double write buffer of MiniOB                                       *)
(* (src/observer/storage/buffer/double_write_buffer.cpp): a page on its    *)
(* way to the file of its buffer pool is first kept in memory and written  *)
(* to a slot of one shared file; when MAX_PAGES pages have gathered, they  *)
(* are all written to their own files.  After a crash the slots are loaded *)
(* and written out, so that a page torn in its own file is repaired.       *)
(*                                                                         *)
(* A page is <<pool, number>>, and its content a version.  Each write to a *)
(* file is one step, and a crash can leave the page being written torn.    *)
(* add_page runs under the buffer's lock; clear_pages gives the lock up    *)
(* after it has taken a pool's pages out, so its writes interleave with    *)
(* the additions of other pools.                                           *)
(***************************************************************************)
EXTENDS Integers, FiniteSets

CONSTANTS
  Pools,        \* buffer pools (files) of the database
  PageNums,     \* page numbers of each pool, numbered from 0
  MAX_PAGES,    \* max_pages_ (16 in the code)
  VersionBound, \* bound: versions of one page
  DropBound,    \* bound: tables dropped
  RestartBound  \* bound: restarts

ASSUME DwbAssumption ==
  /\ PageNums \subseteq Nat
  /\ MAX_PAGES \in Nat \ {0}
  /\ VersionBound \in Nat /\ DropBound \in Nat /\ RestartBound \in Nat

Pages == Pools \X PageNums
Slots == 0..(MAX_PAGES - 1)
Copy  == [page : Pages, version : Nat, whole : BOOLEAN]
NoCopy == [page |-> <<>>, version |-> 0, whole |-> FALSE]

VARIABLES
  page_index,  \* slot of each page in dblwr_pages_, -1 when it is not there
  page_data,   \* its content in dblwr_pages_
  page_cnt,    \* header_.page_cnt in memory
  file_cnt,    \* header_.page_cnt in the shared file
  slots,       \* the slots of the shared file
  pool_file,   \* each page in the file of its pool
  opened,      \* the pools in BufferPoolManager::id_to_buffer_pools_
  step,        \* what the thread that holds the lock is doing
  target,      \* the page it is adding
  todo,        \* the pages flush_page has still to write
  syncing,     \* flush_page was called by Db::sync
  closing,     \* the pool that clear_pages is working for, or {}
  cleared,     \* its pages taken out and not yet written
  dropped,     \* the pools whose files have been removed
  latest,      \* the newest content given to add_page (history)
  checkpoint,  \* the content when Db::sync last returned (history)
  restarts

memory  == <<page_index, page_data, page_cnt>>
files   == <<file_cnt, slots, pool_file>>
writing == <<step, target, todo, syncing>>
closers == <<closing, cleared, dropped>>
vars    == <<memory, files, opened, writing, closers, latest, checkpoint, restarts>>

Steps == {"idle", "slot", "new_slot", "header", "flush", "dead"}

TypeOK ==
  /\ page_index \in [Pages -> Slots \cup {-1}]
  /\ page_data \in [Pages -> Nat]
  /\ page_cnt \in 0..MAX_PAGES /\ file_cnt \in 0..MAX_PAGES
  /\ slots \in [Slots -> Copy \cup {NoCopy}]
  /\ pool_file \in [Pages -> [version : Nat, whole : BOOLEAN]]
  /\ opened \subseteq Pools
  /\ step \in Steps
  /\ target \in Pages \cup {<<>>}
  /\ todo \subseteq Pages
  /\ syncing \in BOOLEAN
  /\ closing \subseteq Pools
  /\ cleared \subseteq Pages
  /\ dropped \subseteq Pools
  /\ latest \in [Pages -> Nat] /\ checkpoint \in [Pages -> Nat]
  /\ restarts \in Nat

Init ==
  /\ page_index = [k \in Pages |-> -1]
  /\ page_data = [k \in Pages |-> 0]
  /\ page_cnt = 0 /\ file_cnt = 0
  /\ slots = [i \in Slots |-> NoCopy]
  /\ pool_file = [k \in Pages |-> [version |-> 0, whole |-> TRUE]]
  /\ opened = Pools
  /\ step = "idle" /\ target = <<>> /\ todo = {} /\ syncing = FALSE
  /\ closing = {} /\ cleared = {} /\ dropped = {}
  /\ latest = [k \in Pages |-> 0] /\ checkpoint = [k \in Pages |-> 0]
  /\ restarts = 0

Buffered == {k \in Pages : page_index[k] # -1}
PagesOf(p) == {k \in Pages : k[1] = p}

-----------------------------------------------------------------------------
(* Plausible bug: a page that is buffered already is not updated in memory. *)
AddPageKeepsOld(k) ==
  /\ step = "idle" /\ k[1] \in opened \ closing /\ latest[k] < VersionBound
  /\ latest' = [latest EXCEPT ![k] = @ + 1]
  /\ target' = k /\ step' = IF k \in Buffered THEN "slot" ELSE "new_slot"
  /\ IF k \in Buffered THEN UNCHANGED <<page_index, page_data>>
     ELSE /\ page_index' = [page_index EXCEPT ![k] = Cardinality(Buffered)]
          /\ page_data' = [page_data EXCEPT ![k] = latest[k] + 1]
  /\ UNCHANGED <<page_cnt, files, opened, todo, syncing, closers, checkpoint, restarts>>

(* add_page: a page that is there already is updated in its slot; a new one *)
(* gets the slot numbered like the size of the map.                         *)
AddPage(k) ==
  /\ step = "idle"
  /\ k[1] \in opened \ closing
  /\ latest[k] < VersionBound
  /\ latest' = [latest EXCEPT ![k] = @ + 1]
  /\ page_data' = [page_data EXCEPT ![k] = latest[k] + 1]
  /\ target' = k
  /\ \/ /\ k \in Buffered /\ step' = "slot"
        /\ UNCHANGED page_index
     \/ /\ k \notin Buffered /\ step' = "new_slot"
        /\ page_index' = [page_index EXCEPT ![k] = Cardinality(Buffered)]
  /\ UNCHANGED <<page_cnt, files, opened, todo, syncing, closers, checkpoint, restarts>>

(* write_page_internal *)
CopyOf(k, whole) == [page |-> k, version |-> page_data[k], whole |-> whole]
WithSlot(whole) == [slots EXCEPT ![page_index[target]] = CopyOf(target, whole)]

WriteSlot ==
  /\ step \in {"slot", "new_slot"}
  /\ slots' = WithSlot(TRUE)
  /\ step' = IF step = "slot" THEN "idle" ELSE "header"
  /\ UNCHANGED <<memory, file_cnt, pool_file, opened, target, todo, syncing, closers,
                 latest, checkpoint, restarts>>

(* Plausible bug: the count is kept in memory only.                         *)
WriteHeaderMemoryOnly ==
  LET cnt == IF page_index[target] + 1 > page_cnt THEN page_index[target] + 1 ELSE page_cnt
  IN /\ step = "header"
     /\ page_cnt' = cnt
     /\ IF Cardinality(Buffered) >= MAX_PAGES
        THEN step' = "flush" /\ todo' = Buffered
        ELSE step' = "idle" /\ UNCHANGED todo
     /\ UNCHANGED <<page_index, page_data, files, opened, target, syncing, closers,
                    latest, checkpoint, restarts>>

(* The header is written when the count grows, and a full buffer is flushed. *)
WriteHeader ==
  LET cnt == IF page_index[target] + 1 > page_cnt THEN page_index[target] + 1 ELSE page_cnt
  IN /\ step = "header"
     /\ page_cnt' = cnt
     /\ file_cnt' = IF cnt > page_cnt THEN cnt ELSE file_cnt
     /\ IF Cardinality(Buffered) >= MAX_PAGES
        THEN step' = "flush" /\ todo' = Buffered
        ELSE step' = "idle" /\ UNCHANGED todo
     /\ UNCHANGED <<page_index, page_data, slots, pool_file, opened, target, syncing, closers,
                    latest, checkpoint, restarts>>

-----------------------------------------------------------------------------
(* flush_page, one page at a time.  A page whose pool is not open has no    *)
(* file to go to: write_page uses the null pointer it was given.            *)
InPoolFile(k, whole) == [pool_file EXCEPT ![k] = [version |-> page_data[k], whole |-> whole]]

FlushPage(k) ==
  /\ step = "flush" /\ k \in todo
  /\ \/ /\ k[1] \in opened
        /\ pool_file' = InPoolFile(k, TRUE)
        /\ todo' = todo \ {k}
        /\ UNCHANGED step
     \/ /\ k[1] \notin opened
        /\ step' = "dead"
        /\ UNCHANGED <<pool_file, todo>>
  /\ UNCHANGED <<memory, file_cnt, slots, opened, target, syncing, closers, latest, checkpoint, restarts>>

(* The map is emptied and the count reset, in memory only.  If Db::sync     *)
(* asked for it, it can now store its checkpoint.                           *)
FlushDone ==
  /\ step = "flush" /\ todo = {}
  /\ page_index' = [k \in Pages |-> -1]
  /\ page_cnt' = 0
  /\ step' = "idle" /\ syncing' = FALSE
  /\ checkpoint' = IF syncing THEN latest ELSE checkpoint
  /\ UNCHANGED <<page_data, files, opened, target, todo, closers, latest, restarts>>

(* Plausible bug: Db::sync stores the checkpoint without flushing.          *)
SyncNoFlush ==
  /\ step = "idle" /\ closing = {}
  /\ checkpoint' = latest
  /\ UNCHANGED <<memory, files, opened, writing, closers, latest, restarts>>

(* Db::sync, and the destructor of the buffer, with nobody else active.     *)
Sync ==
  /\ step = "idle" /\ closing = {}
  /\ \E k \in Pages : checkpoint[k] # latest[k]
  /\ step' = "flush" /\ todo' = Buffered /\ syncing' = TRUE
  /\ UNCHANGED <<memory, files, opened, target, closers, latest, checkpoint, restarts>>

-----------------------------------------------------------------------------
(* Table::drop and DiskBufferPool::close_file: the file has been removed    *)
(* (it stays readable through its descriptor), clear_pages takes the pool's *)
(* pages out of the map ...                                                 *)
DropPool(p) ==
  /\ step = "idle" /\ closing = {} /\ p \in opened
  /\ closing' = {p}
  /\ cleared' = PagesOf(p) \cap Buffered
  /\ page_index' = [k \in Pages |-> IF k[1] = p THEN -1 ELSE page_index[k]]
  /\ Cardinality(dropped) < DropBound /\ dropped' = dropped \cup {p}
  /\ UNCHANGED <<page_data, page_cnt, files, opened, writing, latest, checkpoint, restarts>>

(* ... writes them in the order of their numbers, without the lock, ...     *)
ClearPage(k) ==
  /\ step # "dead" /\ k \in cleared /\ \A j \in cleared : k[2] <= j[2]
  /\ pool_file' = InPoolFile(k, TRUE)
  /\ cleared' = cleared \ {k}
  /\ UNCHANGED <<memory, file_cnt, slots, opened, writing, closing, dropped,
                 latest, checkpoint, restarts>>

(* ... and the manager forgets the pool.                                    *)
DropPoolDone ==
  /\ step # "dead" /\ closing # {} /\ cleared = {}
  /\ opened' = opened \ closing
  /\ closing' = {}
  /\ UNCHANGED <<memory, files, writing, cleared, dropped, latest, checkpoint, restarts>>

-----------------------------------------------------------------------------
(* load_pages: of the slots that the header covers and whose checksum is    *)
(* right, the first one of each page.                                       *)
SlotsOf(k, s) == {i \in 0..(file_cnt - 1) : s[i].whole /\ s[i].page = k}
First(I) == CHOOSE i \in I : \A j \in I : i <= j

(* Db::init: load the slots, open the tables that still exist, and start to *)
(* write the loaded pages out (DiskDoubleWriteBuffer::recover).             *)
Restart(s, f) ==
  LET loaded == {k \in Pages : SlotsOf(k, s) # {}}
      data   == [k \in Pages |-> IF k \in loaded THEN s[First(SlotsOf(k, s))].version ELSE 0]
  IN /\ restarts < RestartBound /\ restarts' = restarts + 1
     /\ slots' = s /\ pool_file' = f
     /\ page_index' = [k \in Pages |-> IF k \in loaded THEN First(SlotsOf(k, s)) ELSE -1]
     /\ page_data' = data
     /\ page_cnt' = file_cnt
     /\ opened' = Pools \ dropped
     /\ step' = "flush" /\ target' = <<>> /\ todo' = loaded /\ syncing' = FALSE
     /\ closing' = {} /\ cleared' = {}
     /\ latest' = [k \in Pages |-> IF k \in loaded THEN data[k] ELSE f[k].version]
     /\ UNCHANGED <<file_cnt, dropped, checkpoint>>

(* A crash at any point; the page being written may be torn.  A shutdown    *)
(* ends with Db::sync and leaves the same files as a crash right after it.  *)
CrashRestart ==
  \/ Restart(slots, pool_file)
  \/ step \in {"slot", "new_slot"} /\ Restart(WithSlot(FALSE), pool_file)
  \/ \E k \in todo \cup cleared : k[1] \in opened /\ Restart(slots, InPoolFile(k, FALSE))

-----------------------------------------------------------------------------
Next ==
  \/ \E k \in Pages : AddPage(k) \/ FlushPage(k) \/ ClearPage(k)
  \/ WriteSlot \/ WriteHeader \/ FlushDone \/ Sync
  \/ \E p \in Pools : DropPool(p)
  \/ DropPoolDone \/ CrashRestart

Spec == Init /\ [][Next]_vars

-----------------------------------------------------------------------------
(* What DiskBufferPool::load_page reads: the buffer first, then the file.   *)
LoadPage(k) == IF k \in Buffered THEN [version |-> page_data[k], whole |-> TRUE] ELSE pool_file[k]

(* Every read of a page of an open pool gives the newest content, wherever  *)
(* the page is between the buffer and its file.                             *)
ReadsLatest ==
  \A k \in Pages : k[1] \in opened \ closing => LoadPage(k).version = latest[k]

(* No read ever gives a page torn by a crash: the slot repairs it first.    *)
(* Once a table has been dropped, add_page can give a page the slot of one  *)
(* that is still buffered (the size of the map is no longer a free slot),   *)
(* so the promise ends there.                                               *)
NoTornPage ==
  \A k \in Pages : dropped = {} /\ k[1] \in opened \ closing => LoadPage(k).whole

(* double_write_buffer.h:84: what the buffer writes out is never older than *)
(* what is in the pool's file.  So a crash, even in the middle of a write,  *)
(* never takes a page back before the last checkpoint, where the redo of    *)
(* the log starts (Db::recover).                                            *)
CheckpointCovered ==
  \A k \in Pages : k[1] \notin dropped => latest[k] >= checkpoint[k]

(* The code keeps this over one crash.  Over two it does not (see the       *)
(* findings in README.md).                                                  *)
FirstCrashCovered == restarts <= 1 => CheckpointCovered
=============================================================================
