-------------------------- MODULE RecordFileProofs --------------------------
(***************************************************************************)
(* Proofs about the record file, for any threads, pages, slots, log length *)
(* and number of crashes: the threads never wait for each other, a page    *)
(* with room is never forgotten, scans miss nothing, and redo puts every   *)
(* record where it was.                                                    *)
(***************************************************************************)
EXTENDS RecordFile, TLAPS, NaturalsInduction, WellFoundedInduction

\* Thread t is at one of the steps pcs.
At(t, pcs) == th[t].pc \in pcs

\* What the steps say about the thread's page.
Places ==
  \A t \in Threads :
    /\ At(t, {"idle"}) => th[t].page = NoPage
    /\ At(t, {"latch", "init", "register", "put", "free", "enter", "scan"}) => th[t].page \in PageNums
    /\ At(t, {"init", "register", "free"}) => th[t].page <= page_count
    /\ ~ At(t, {"enter", "scan"}) => th[t].outer = NoPage /\ th[t].must = {}
    /\ redo > 0 \/ failed => At(t, {"idle"})

\* lock_ is held from its taking to the latch; the page whose latch is awaited
\* stays in the set meanwhile.
LockOwner ==
  /\ lock # None => At(lock, {"pick", "latch"})
  /\ \A t \in Threads : /\ At(t, {"pick", "latch"}) => lock = t
                        /\ At(t, {"latch"}) => th[t].page \in free_pages

\* An insert has its page latched for writing, and there is room.
Exclusive ==
  \A t \in Threads : At(t, {"register", "put"}) =>
    latch[th[t].page].writer = t /\ ~ IsFull(pages[th[t].page])

\* A new page is known to nobody else until it is in the set.
Fresh ==
  /\ \A t \in Threads : At(t, {"init", "register"}) =>
       /\ th[t].page \notin free_pages
       /\ \A u \in Threads \ {t} : At(u, {"init", "register", "free"}) => th[u].page # th[t].page
  /\ \A t \in Threads : At(t, {"init"}) =>
       \A i \in 1..Len(clog) : clog[i].page = th[t].page => clog[i].op = "allocate"

ThreadInv == Places /\ LockOwner /\ Exclusive /\ Fresh

\* The log: each page is allocated before anything is said about it, pages are
\* allocated in order, and a page is initialized once, before it is used; the
\* count of pages is that of the entries that redo has come to, or more.
Known == IF redo = 0 THEN Len(clog) ELSE redo - 1
AllocFirst ==
  \A i \in 1..Len(clog) : \E j \in 1..i : clog[j].op = "allocate" /\ clog[j].page = clog[i].page
AllocInOrder ==
  \A i \in 1..Len(clog) : clog[i].op = "allocate" =>
    \A q \in 1..(clog[i].page - 1) : \E j \in 1..(i - 1) : clog[j].op = "allocate" /\ clog[j].page = q
InitFirst ==
  \A i, j \in 1..Len(clog) :
    clog[i].op = "init" /\ clog[j].op # "allocate" /\ clog[j].page = clog[i].page => i <= j
AllCounted == \A i \in 1..Known : clog[i].page <= page_count
AllLogged ==
  \A q \in 1..page_count : \E j \in 1..Len(clog) : clog[j].op = "allocate" /\ clog[j].page = q
LogInv == AllocFirst /\ AllocInOrder /\ InitFirst /\ AllCounted /\ AllLogged

\* An image of page p that goes back to the entries up to its LSN.
Image(pg, p) ==
  /\ pg.init => \E i \in 1..pg.lsn : clog[i].op = "init" /\ clog[i].page = p
  /\ ~ pg.init => pg.slots = NoSlots /\ pg.lsn = 0
PageInv(p) ==
  /\ Image(pages[p], p) /\ Image(disk[p], p)
  /\ disk[p].lsn <= flushed /\ disk[p].lsn <= pages[p].lsn /\ pages[p].lsn <= Len(clog)
  /\ p \notin dirty => pages[p] = disk[p] \/ (~ disk[p].init /\ pages[p].slots = NoSlots)
Images == \A p \in PageNums : PageInv(p)
StoreInv == LogInv /\ Images

FreeInv ==
  \A p \in 1..page_count : ~ IsFull(pages[p]) =>
    p \in free_pages \cup stale \/ \E t \in Threads : At(t, {"register", "free"}) /\ th[t].page = p

FileInv == TypeOK /\ ThreadInv /\ StoreInv /\ FreeInv /\ ScanMissesNothing

\* Without nested visits a thread holds at most one latch, and when it holds one
\* it waits for lock_ at most.
OneLatch ==
  /\ \A t \in Threads : th[t].outer = NoPage
  /\ \A p \in PageNums : \A t \in latch[p].readers \cup ({latch[p].writer} \ {None}) :
       At(t, {"register", "put", "scan"}) /\ th[t].page = p

-----------------------------------------------------------------------------
\* After the first n entries of log L slot s of page p holds v.
About(L, i, p, s) == L[i].page = p /\ L[i].slot = s
Untouched(L, p, s, m, n) == \A i \in (m + 1)..n : ~ About(L, i, p, s)
Entered(L, k) == IF L[k].op = "delete" THEN 0 ELSE k
Holds(L, v, p, s, n) ==
  \/ v = 0 /\ Untouched(L, p, s, 0, n)
  \/ \E k \in 1..n : About(L, k, p, s) /\ Untouched(L, p, s, k, n) /\ v = Entered(L, k)
Inited(L, p, n) == \E i \in 1..n : L[i].op = "init" /\ L[i].page = p
\* Between entries m and n page p is allocated at most.
Quiet(L, p, m, n) == \A i \in (m + 1)..n : L[i].page = p => L[i].op = "allocate"

\* Every entry was possible after the ones before it: this is what replay needs.
Possible(L, i, p, s) ==
  /\ L[i].op = "insert" =>
       /\ Inited(L, p, i - 1) /\ Holds(L, 0, p, s, i - 1)
       /\ \A z \in 1..(s - 1) : ~ Holds(L, 0, p, z, i - 1)
  /\ L[i].op \in {"delete", "update"} => ~ Holds(L, 0, p, s, i - 1)
LogSane(L) == \A i \in 1..Len(L) : Possible(L, i, L[i].page, L[i].slot)

\* Page image pg is page p as the first n entries made it.
AsOf(L, pg, p, n) ==
  /\ \A s \in SlotNums : Holds(L, pg.slots[s], p, s, n)
  /\ pg.init <=> Inited(L, p, n)
  /\ pg.lsn <= n /\ Quiet(L, p, pg.lsn, n)

\* The disk has each page as of its LSN.  Redo has brought it to the entry it
\* has come to, or it was newer; when the system is up it is as of the end of
\* the log, but for a page whose initialization was redone and dropped again.
Replaying(L, pg, p, k) ==
  \/ AsOf(L, pg, p, k - 1)
  \/ pg.lsn >= k /\ AsOf(L, pg, p, pg.lsn)
Dropped(L, pg, p) == ~ pg.init /\ \A s \in SlotNums : Holds(L, 0, p, s, Len(L))
Current(p) == AsOf(clog, pages[p], p, Len(clog)) \/ (p \notin dirty /\ Dropped(clog, pages[p], p))
MatchInv ==
  /\ LogSane(clog)
  /\ \A p \in PageNums : AsOf(clog, disk[p], p, disk[p].lsn)
  /\ \A p \in PageNums : IF redo > 0 THEN Replaying(clog, pages[p], p, redo) ELSE Current(p)
  /\ ~ failed

-----------------------------------------------------------------------------
(* The types of the pages and the log, and of the threads.                  *)
StoreTyped ==
  /\ DOMAIN pages = PageNums /\ DOMAIN disk = PageNums
  /\ \A p \in PageNums : IsPage(pages[p]) /\ IsPage(disk[p])
  /\ dirty \subseteq PageNums /\ page_count \in 0..PageBound
  /\ clog \in Seq(Entry) /\ flushed \in 0..Len(clog) /\ redo \in 0..(Len(clog) + 1) /\ failed \in BOOLEAN

ThreadTyped ==
  /\ DOMAIN latch = PageNums /\ DOMAIN th = Threads
  /\ free_pages \subseteq 1..page_count /\ lock \in Threads \cup {None}
  /\ \A p \in PageNums : latch[p].readers \subseteq Threads /\ latch[p].writer \in Threads \cup {None}
  /\ \A t \in Threads : /\ th[t].pc \in Steps /\ th[t].mode \in {"r", "w"} /\ th[t].must \subseteq RIDs
                         /\ th[t].page \in 0..PageBound /\ th[t].last \in 0..PageBound

LEMMA Typed == /\ TypeOK <=> StoreTyped /\ ThreadTyped
               /\ TypeOK' <=> StoreTyped' /\ ThreadTyped'
BY DEF TypeOK, StoreTyped, ThreadTyped

Stored == StoreTyped /\ StoreInv
Moving == ThreadTyped /\ ThreadInv /\ ScanMissesNothing

LEMMA Parts == /\ FileInv <=> Stored /\ Moving /\ FreeInv
               /\ FileInv' <=> Stored' /\ Moving' /\ FreeInv'
BY Typed DEF FileInv, Stored, Moving

-----------------------------------------------------------------------------
(* Steps that touch neither pages nor log.                                  *)
LEMMA SameStore ==
  ASSUME Stored, UNCHANGED <<store, logs, redo, failed>>
  PROVE  Stored'
<1>1. /\ pages' = pages /\ dirty' = dirty /\ disk' = disk /\ page_count' = page_count
      /\ clog' = clog /\ flushed' = flushed /\ redo' = redo /\ failed' = failed
  BY DEF store, logs
<1>2. StoreTyped'
  BY <1>1 DEF Stored, StoreTyped
<1>3. LogInv'
  BY <1>1 DEF Stored, StoreInv, LogInv, AllocFirst, AllocInOrder, InitFirst, AllCounted,
                AllLogged, Known
<1>4. Images'
  BY <1>1 DEF Stored, StoreInv, Images, PageInv, Image
<1> QED BY <1>2, <1>3, <1>4 DEF Stored, StoreInv

\* The facts about one thread that the others do not disturb.
Threaded(t) ==
  /\ th[t].pc \in Steps /\ th[t].mode \in {"r", "w"} /\ th[t].must \subseteq RIDs
  /\ th[t].page \in 0..PageBound /\ th[t].last \in 0..PageBound
  /\ At(t, {"idle"}) => th[t].page = NoPage
  /\ At(t, {"latch", "init", "register", "put", "free", "enter", "scan"}) => th[t].page \in PageNums
  /\ At(t, {"init", "register", "free"}) => th[t].page <= page_count
  /\ ~ At(t, {"enter", "scan"}) => th[t].outer = NoPage /\ th[t].must = {}
  /\ \A r \in th[t].must : IF th[t].pc = "enter" THEN r[1] >= th[t].page ELSE r[1] > th[t].page

LEMMA ThreadFacts ==
  ASSUME Moving, NEW t \in Threads
  PROVE  Threaded(t)
BY DEF Moving, ThreadTyped, ThreadInv, Places, ScanMissesNothing, Threaded

\* A thread that stands still; a record it had to see may go.
Unmoved(u) ==
  /\ th'[u].pc = th[u].pc /\ th'[u].page = th[u].page /\ th'[u].last = th[u].last
  /\ th'[u].mode = th[u].mode /\ th'[u].outer = th[u].outer /\ th'[u].must \subseteq th[u].must

\* The set of free pages, lock_ and the latches.
SyncTyped ==
  /\ DOMAIN latch = PageNums
  /\ free_pages \subseteq 1..page_count /\ lock \in Threads \cup {None}
  /\ \A p \in PageNums : latch[p].readers \subseteq Threads /\ latch[p].writer \in Threads \cup {None}

\* A step of thread t, and one that leaves pages and log alone.
LEMMA WriteStep ==
  ASSUME Moving, NEW t \in Threads, redo = 0, ~ failed, redo' = redo, failed' = failed,
         DOMAIN th' = Threads, \A u \in Threads \ {t} : Unmoved(u),
         page_count \in Nat, page_count' \in Nat, page_count' >= page_count, Threaded(t)',
         Stored', SyncTyped', LockOwner', Exclusive', Fresh', FreeInv'
  PROVE  FileInv'
<1>1. ASSUME NEW u \in Threads PROVE Threaded(u)'
  <2>1. CASE u = t
    BY <2>1
  <2>2. CASE u # t
    <3>1. Threaded(u) /\ Unmoved(u)
      BY <2>2, ThreadFacts
    <3> QED BY <3>1 DEF Threaded, Unmoved, At
  <2> QED BY <2>1, <2>2
<1>2. Places'
  BY <1>1 DEF Places, Threaded
<1>3. ScanMissesNothing'
  BY <1>1 DEF ScanMissesNothing, Threaded
<1>4. ThreadTyped'
  BY <1>1 DEF ThreadTyped, SyncTyped, Threaded
<1> QED BY <1>2, <1>3, <1>4, Parts DEF Moving, ThreadInv

LEMMA QuietStep ==
  ASSUME FileInv, NEW t \in Threads, redo = 0, ~ failed, UNCHANGED <<store, logs, up>>,
         DOMAIN th' = Threads, \A u \in Threads \ {t} : th'[u] = th[u], Threaded(t)',
         SyncTyped', LockOwner', Exclusive', Fresh', FreeInv'
  PROVE  FileInv'
<1>1. Stored /\ Moving
  BY Parts
<1>2. Stored'
  BY <1>1, SameStore DEF up
<1>3. page_count \in Nat /\ page_count' = page_count /\ redo' = redo /\ failed' = failed
  BY <1>1 DEF Stored, StoreTyped, store, up
<1>4. \A u \in Threads \ {t} : Unmoved(u)
  BY DEF Unmoved
<1> QED BY <1>1, <1>2, <1>3, <1>4, WriteStep

\* What a step of a thread may rely on.
LEMMA Now ==
  ASSUME FileInv
  PROVE  /\ Stored /\ Moving /\ FreeInv /\ Places /\ LockOwner /\ Exclusive /\ Fresh /\ SyncTyped
         /\ DOMAIN th = Threads /\ page_count \in Nat /\ page_count <= PageBound /\ PageBound \in Nat
         /\ None \notin Threads /\ free_pages \subseteq PageNums
         /\ \A t \in Threads : th[t].pc # "idle" => redo = 0 /\ ~ failed
<1>1. Stored /\ Moving /\ FreeInv
  BY Parts
<1>2. redo \in Nat /\ page_count \in Nat /\ page_count <= PageBound /\ PageBound \in Nat
  BY <1>1, RecordFileAssumption DEF Stored, StoreTyped
<1>3. Places /\ LockOwner /\ Exclusive /\ Fresh /\ SyncTyped /\ DOMAIN th = Threads
  BY <1>1 DEF Moving, ThreadTyped, ThreadInv, SyncTyped
<1>4. \A t \in Threads : th[t].pc # "idle" => redo = 0 /\ ~ failed
  BY <1>2, <1>3 DEF Places, At
<1>5. free_pages \subseteq PageNums
  BY <1>2, <1>3 DEF SyncTyped, PageNums
<1> QED BY <1>1, <1>2, <1>3, <1>4, <1>5, RecordFileAssumption DEF None

LEMMA Given ==
  ASSUME FileInv, UNCHANGED <<store, logs, up>>
  PROVE  /\ Stored /\ Moving /\ FreeInv /\ Places /\ LockOwner /\ Exclusive /\ Fresh /\ SyncTyped
         /\ DOMAIN th = Threads /\ page_count \in Nat /\ page_count <= PageBound /\ PageBound \in Nat
         /\ None \notin Threads /\ free_pages \subseteq PageNums
         /\ \A t \in Threads : th[t].pc # "idle" => redo = 0 /\ ~ failed
         /\ redo' = redo /\ failed' = failed /\ page_count' = page_count /\ pages' = pages
         /\ clog' = clog /\ stale' = stale
BY Now DEF store, logs, up

\* Thread t gives up latches, or takes one.
Releases(t) ==
  /\ DOMAIN latch' = PageNums
  /\ \A q \in PageNums :
       /\ latch'[q].readers \subseteq latch[q].readers /\ latch[q].readers \ {t} \subseteq latch'[q].readers
       /\ latch'[q].writer = latch[q].writer \/ (latch[q].writer = t /\ latch'[q].writer = None)
Takes(t, p) ==
  /\ DOMAIN latch' = PageNums /\ \A q \in PageNums \ {p} : latch'[q] = latch[q]
  /\ latch[p].writer = None
  /\ \/ latch'[p].writer = t /\ latch'[p].readers = latch[p].readers /\ latch[p].readers = {}
     \/ latch'[p].writer = None /\ latch'[p].readers = latch[p].readers \cup {t}

LEMMA UnlatchIs ==
  ASSUME SyncTyped, NEW t \in Threads, NEW p, latch' = Unlatch(t, p)
  PROVE  /\ Releases(t)
         /\ p \in PageNums /\ p # th[t].outer => t \notin latch'[p].readers /\ latch'[p].writer # t
<1>1. CASE p = NoPage \/ p = th[t].outer
  BY <1>1, RecordFileAssumption DEF Unlatch, Releases, SyncTyped, PageNums, NoPage
<1>2. CASE ~ (p = NoPage \/ p = th[t].outer)
  <2> DEFINE w == IF latch[p].writer = t THEN None ELSE latch[p].writer
  <2>1. latch' = [latch EXCEPT ![p].readers = @ \ {t}, ![p].writer = w]
    BY <1>2 DEF Unlatch
  <2>2. w # t
    BY RecordFileAssumption DEF None
  <2>3. DOMAIN latch' = PageNums /\ \A q \in PageNums \ {p} : latch'[q] = latch[q]
    BY <2>1 DEF SyncTyped
  <2>4. p \in PageNums => latch'[p].readers = latch[p].readers \ {t} /\ latch'[p].writer = w
    <3> HIDE DEF w
    <3> QED BY <2>1 DEF SyncTyped
  <2>5. \A q \in PageNums :
          /\ latch'[q].readers \subseteq latch[q].readers /\ latch[q].readers \ {t} \subseteq latch'[q].readers
          /\ latch'[q].writer = latch[q].writer \/ (latch[q].writer = t /\ latch'[q].writer = None)
    BY <2>3, <2>4
  <2> QED BY <2>2, <2>3, <2>4, <2>5 DEF Releases
<1> QED BY <1>1, <1>2

LEMMA WriteLatchIs ==
  ASSUME SyncTyped, NEW t \in Threads, NEW p \in PageNums, WriteFree(p), latch' = WriteLatched(t, p)
  PROVE  Takes(t, p) /\ latch'[p].writer = t
<1>1. latch[p].readers = {} /\ latch[p].writer = None
  BY DEF WriteFree, Unlatched
<1> QED BY <1>1 DEF SyncTyped, Takes, WriteLatched

LEMMA LatchTyped ==
  ASSUME SyncTyped, NEW t \in Threads, Releases(t) \/ \E p \in PageNums : Takes(t, p)
  PROVE  /\ DOMAIN latch' = PageNums
         /\ \A p \in PageNums : latch'[p].readers \subseteq Threads /\ latch'[p].writer \in Threads \cup {None}
<1>1. CASE Releases(t)
  BY <1>1 DEF Releases, SyncTyped
<1>2. ASSUME NEW p \in PageNums, Takes(t, p)
      PROVE  /\ DOMAIN latch' = PageNums
             /\ \A q \in PageNums : latch'[q].readers \subseteq Threads /\ latch'[q].writer \in Threads \cup {None}
  BY <1>2 DEF Takes, SyncTyped
<1> QED BY <1>1, <1>2

\* Latches that t takes or gives up take none from the others.
LEMMA OthersKeep ==
  ASSUME SyncTyped, NEW t \in Threads, Releases(t) \/ \E p \in PageNums : Takes(t, p),
         NEW u \in Threads, u # t, NEW q \in PageNums, latch[q].writer = u
  PROVE  latch'[q].writer = u
<1>0. u # None
  BY RecordFileAssumption DEF None
<1>1. CASE Releases(t)
  BY <1>1 DEF Releases
<1>2. CASE \E p \in PageNums : Takes(t, p)
  BY <1>0, <1>2 DEF Takes
<1> QED BY <1>1, <1>2

LEMMA InsertLockKeeps ==
  ASSUME FileInv, NEW t \in Threads, InsertLock(t)
  PROVE  FileInv'
<1>1. UNCHANGED <<store, logs, up>>
  BY DEF InsertLock
<1>2. /\ redo = 0 /\ ~ failed /\ th[t].pc = "idle" /\ latch' = latch /\ free_pages' = free_pages
      /\ lock = None /\ lock' = t
  BY <1>1, Given DEF InsertLock, Busy
<1>3. redo = 0 /\ ~ failed
  BY <1>1, <1>2, Given
<1>4. DOMAIN th' = Threads /\ \A u \in Threads \ {t} : th'[u] = th[u]
  BY <1>1, Given DEF InsertLock, To
<1>5. /\ th'[t].pc = "pick" /\ th'[t].page = th[t].page /\ th'[t].last = th[t].last /\ th'[t].must = th[t].must
      /\ th'[t].mode = th[t].mode /\ th'[t].outer = th[t].outer
  <2>1. th' = [th EXCEPT ![t].pc = "pick"]
    BY <1>2 DEF InsertLock, To
  <2> QED BY <2>1, <1>1, Given
<1>6. Threaded(t)'
  BY <1>1, <1>2, <1>5, Given, ThreadFacts DEF Threaded, At, Steps, NoPage
<1>7. SyncTyped'
  BY <1>1, <1>2, Given, ThreadFacts DEF SyncTyped, Threaded, At
<1>8. LockOwner'
  BY <1>1, <1>2, <1>4, <1>5, Given DEF LockOwner, At
<1>9. Exclusive'
  BY <1>1, <1>2, <1>4, <1>5, Given DEF Exclusive, At
<1>10. Fresh'
  BY <1>1, <1>2, <1>4, <1>5, Given DEF Fresh, At
<1>11. FreeInv'
  BY <1>1, <1>2, <1>4, <1>5, Given DEF FreeInv, At
<1> QED BY <1>1, <1>3, <1>4, <1>6, <1>7, <1>8, <1>9, <1>10, <1>11, QuietStep

LEMMA InsertNoneKeeps ==
  ASSUME FileInv, NEW t \in Threads, InsertPick(t), lock' = None, To(t, "alloc")
  PROVE  FileInv'
<1>1. UNCHANGED <<store, logs, up>>
  BY DEF InsertPick
<1>2. /\ th[t].pc = "pick" /\ latch' = latch /\ free_pages' = free_pages
  BY <1>1, Given DEF InsertPick, Busy
<1>3. redo = 0 /\ ~ failed
  BY <1>1, <1>2, Given
<1>4. DOMAIN th' = Threads /\ \A u \in Threads \ {t} : th'[u] = th[u]
  BY <1>1, Given DEF InsertPick, To
<1>5. /\ th'[t].pc = "alloc" /\ th'[t].page = th[t].page /\ th'[t].last = th[t].last /\ th'[t].must = th[t].must
      /\ th'[t].mode = th[t].mode /\ th'[t].outer = th[t].outer
  <2>1. th' = [th EXCEPT ![t].pc = "alloc"]
    BY <1>2 DEF InsertPick, To
  <2> QED BY <2>1, <1>1, Given
<1>6. Threaded(t)'
  BY <1>1, <1>2, <1>5, Given, ThreadFacts DEF Threaded, At, Steps, NoPage
<1>7. SyncTyped'
  BY <1>1, <1>2, Given, ThreadFacts DEF SyncTyped, Threaded, At
<1>8. LockOwner'
  BY <1>1, <1>2, <1>4, <1>5, Given DEF LockOwner, At
<1>9. Exclusive'
  BY <1>1, <1>2, <1>4, <1>5, Given DEF Exclusive, At
<1>10. Fresh'
  BY <1>1, <1>2, <1>4, <1>5, Given DEF Fresh, At
<1>11. FreeInv'
  BY <1>1, <1>2, <1>4, <1>5, Given DEF FreeInv, At
<1> QED BY <1>1, <1>3, <1>4, <1>6, <1>7, <1>8, <1>9, <1>10, <1>11, QuietStep

LEMMA InsertTryKeeps ==
  ASSUME FileInv, NEW t \in Threads, NEW p \in free_pages, InsertPick(t),
         lock' = lock, th' = [th EXCEPT ![t].pc = "latch", ![t].page = p]
  PROVE  FileInv'
<1>1. UNCHANGED <<store, logs, up>>
  BY DEF InsertPick
<1>2. /\ th[t].pc = "pick" /\ latch' = latch /\ free_pages' = free_pages /\ p \in PageNums
  BY <1>1, Given DEF InsertPick, Busy
<1>3. redo = 0 /\ ~ failed
  BY <1>1, <1>2, Given
<1>4. DOMAIN th' = Threads /\ \A u \in Threads \ {t} : th'[u] = th[u]
  BY <1>1, Given DEF InsertPick, To
<1>5. /\ th'[t].pc = "latch" /\ th'[t].page = p
      /\ th'[t].last = th[t].last /\ th'[t].must = th[t].must /\ th'[t].mode = th[t].mode
      /\ th'[t].outer = th[t].outer
  <2>1. th' = [th EXCEPT ![t].pc = "latch", ![t].page = p]
    BY <1>2 DEF InsertPick, To
  <2> QED BY <2>1, <1>1, Given
<1>P. p \in 0..PageBound
  BY <1>1, <1>2, Given DEF PageNums
<1>6. Threaded(t)'
  BY <1>1, <1>2, <1>5, Given, ThreadFacts, <1>P DEF Threaded, At, Steps, NoPage
<1>7. SyncTyped'
  BY <1>1, <1>2, Given, ThreadFacts DEF SyncTyped, Threaded, At
<1>8. LockOwner'
  BY <1>1, <1>2, <1>4, <1>5, Given DEF LockOwner, At
<1>9. Exclusive'
  BY <1>1, <1>2, <1>4, <1>5, Given DEF Exclusive, At
<1>10. Fresh'
  BY <1>1, <1>2, <1>4, <1>5, Given DEF Fresh, At
<1>11. FreeInv'
  BY <1>1, <1>2, <1>4, <1>5, Given DEF FreeInv, At
<1> QED BY <1>1, <1>3, <1>4, <1>6, <1>7, <1>8, <1>9, <1>10, <1>11, QuietStep

LEMMA InsertFullKeeps ==
  ASSUME FileInv, NEW t \in Threads, InsertLatch(t), IsFull(pages[th[t].page])
  PROVE  FileInv'
<1>1. UNCHANGED <<store, logs, up>>
  BY DEF InsertLatch
<1>2. /\ th[t].pc = "latch"  /\ latch' = latch /\ lock' = lock
      /\ free_pages' = free_pages \ {th[t].page}
  BY <1>1, Given DEF InsertLatch, Busy, sync
<1>3. redo = 0 /\ ~ failed
  BY <1>1, <1>2, Given
<1>4. DOMAIN th' = Threads /\ \A u \in Threads \ {t} : th'[u] = th[u]
  BY <1>1, Given DEF InsertLatch, To
<1>5. /\ th'[t].pc = "pick" /\ th'[t].page = th[t].page /\ th'[t].last = th[t].last /\ th'[t].must = th[t].must
      /\ th'[t].mode = th[t].mode /\ th'[t].outer = th[t].outer
  <2>1. th' = [th EXCEPT ![t].pc = "pick"]
    BY <1>2 DEF InsertLatch, To
  <2> QED BY <2>1, <1>1, Given
<1>6. Threaded(t)'
  BY <1>1, <1>2, <1>5, Given, ThreadFacts DEF Threaded, At, Steps, NoPage
<1>7. SyncTyped'
  BY <1>1, <1>2, Given, ThreadFacts DEF SyncTyped, Threaded, At
<1>8. LockOwner'
  BY <1>1, <1>2, <1>4, <1>5, Given DEF LockOwner, At
<1>9. Exclusive'
  BY <1>1, <1>2, <1>4, <1>5, Given DEF Exclusive, At
<1>10. Fresh'
  BY <1>1, <1>2, <1>4, <1>5, Given DEF Fresh, At
<1>11. FreeInv'
  BY <1>1, <1>2, <1>4, <1>5, Given DEF FreeInv, At
<1> QED BY <1>1, <1>3, <1>4, <1>6, <1>7, <1>8, <1>9, <1>10, <1>11, QuietStep

LEMMA InsertRoomKeeps ==
  ASSUME FileInv, NEW t \in Threads, InsertLatch(t), ~ IsFull(pages[th[t].page])
  PROVE  FileInv'
<1>1. UNCHANGED <<store, logs, up>>
  BY DEF InsertLatch
<1>2. /\ th[t].pc = "latch" /\ WriteFree(th[t].page) /\ latch' = WriteLatched(t, th[t].page)
      /\ free_pages' = free_pages /\ lock' = None
  BY <1>1, Given DEF InsertLatch, Busy
<1>3. redo = 0 /\ ~ failed
  BY <1>1, <1>2, Given
<1>4. DOMAIN th' = Threads /\ \A u \in Threads \ {t} : th'[u] = th[u]
  BY <1>1, Given DEF InsertLatch, To
<1>5. /\ th'[t].pc = "put" /\ th'[t].page = th[t].page /\ th'[t].last = th[t].last /\ th'[t].must = th[t].must
      /\ th'[t].mode = th[t].mode /\ th'[t].outer = th[t].outer
  <2>1. th' = [th EXCEPT ![t].pc = "put"]
    BY <1>2 DEF InsertLatch, To
  <2> QED BY <2>1, <1>1, Given
<1>L. Takes(t, th[t].page) /\ latch'[th[t].page].writer = t /\ th[t].page \in PageNums
  BY <1>1, <1>2, Given, WriteLatchIs DEF Places, At
<1>6. Threaded(t)'
  BY <1>1, <1>2, <1>5, Given, ThreadFacts DEF Threaded, At, Steps, NoPage
<1>7. SyncTyped'
  BY <1>1, <1>2, <1>L, Given, LatchTyped, ThreadFacts DEF SyncTyped, Threaded, At
<1>8. LockOwner'
  BY <1>1, <1>2, <1>4, <1>5, Given DEF LockOwner, At
<1>9. Exclusive'
  <2> SUFFICES ASSUME NEW u \in Threads, (th'[u]).pc \in {"register", "put"}
               PROVE  latch'[th'[u].page].writer = u /\ ~ IsFull(pages[th'[u].page])
    BY <1>1, Given DEF Exclusive, At, IsFull, Used
  <2>1. CASE u = t
    BY <1>1, <1>2, <1>5, <2>1, Given, <1>L DEF Exclusive, At
  <2>2. CASE u # t
    <3>1. th'[u] = th[u] /\ latch[th[u].page].writer = u /\ ~ IsFull(pages[th[u].page]) /\ th[u].page \in PageNums
      BY <1>1, <1>4, <2>2, Given DEF Exclusive, Places, At
    <3> QED BY <1>1, <1>L, <2>2, <3>1, Given, OthersKeep
  <2> QED BY <2>1, <2>2
<1>10. Fresh'
  BY <1>1, <1>2, <1>4, <1>5, Given DEF Fresh, At
<1>11. FreeInv'
  BY <1>1, <1>2, <1>4, <1>5, Given DEF FreeInv, At
<1> QED BY <1>1, <1>3, <1>4, <1>6, <1>7, <1>8, <1>9, <1>10, <1>11, QuietStep

LEMMA InsertRegisterKeeps ==
  ASSUME FileInv, NEW t \in Threads, InsertRegister(t)
  PROVE  FileInv'
<1>1. UNCHANGED <<store, logs, up>>
  BY DEF InsertRegister
<1>2. /\ th[t].pc = "register" /\ free_pages' = free_pages \cup {th[t].page}
      /\ lock = None /\ lock' = lock /\ latch' = latch
  BY <1>1, Given DEF InsertRegister, Busy, sync
<1>3. redo = 0 /\ ~ failed
  BY <1>1, <1>2, Given
<1>4. DOMAIN th' = Threads /\ \A u \in Threads \ {t} : th'[u] = th[u]
  BY <1>1, Given DEF InsertRegister, To
<1>5. /\ th'[t].pc = "put" /\ th'[t].page = th[t].page /\ th'[t].last = th[t].last /\ th'[t].must = th[t].must
      /\ th'[t].mode = th[t].mode /\ th'[t].outer = th[t].outer
  <2>1. th' = [th EXCEPT ![t].pc = "put"]
    BY <1>2 DEF InsertRegister, To
  <2> QED BY <2>1, <1>1, Given
<1>P. th[t].page \in 1..page_count
  BY <1>1, <1>2, Given, ThreadFacts DEF Threaded, At, PageNums
<1>6. Threaded(t)'
  BY <1>1, <1>2, <1>5, Given, ThreadFacts DEF Threaded, At, Steps, NoPage
<1>7. SyncTyped'
  BY <1>1, <1>2, Given, ThreadFacts, <1>P DEF SyncTyped, Threaded, At
<1>8. LockOwner'
  BY <1>1, <1>2, <1>4, <1>5, Given DEF LockOwner, At
<1>9. Exclusive'
  BY <1>1, <1>2, <1>4, <1>5, Given DEF Exclusive, At
<1>10. Fresh'
  BY <1>1, <1>2, <1>4, <1>5, Given DEF Fresh, At
<1>11. FreeInv'
  BY <1>1, <1>2, <1>4, <1>5, Given DEF FreeInv, At
<1> QED BY <1>1, <1>3, <1>4, <1>6, <1>7, <1>8, <1>9, <1>10, <1>11, QuietStep

LEMMA DeleteRegisterKeeps ==
  ASSUME FileInv, NEW t \in Threads, DeleteRegister(t)
  PROVE  FileInv'
<1>1. UNCHANGED <<store, logs, up>>
  BY DEF DeleteRegister
<1>2. /\ th[t].pc = "free" /\ free_pages' = free_pages \cup {th[t].page}
      /\ lock = None /\ lock' = lock /\ latch' = Unlatch(t, th[t].page)
  BY <1>1, Given DEF DeleteRegister, Busy
<1>3. redo = 0 /\ ~ failed
  BY <1>1, <1>2, Given
<1>4. DOMAIN th' = Threads /\ \A u \in Threads \ {t} : th'[u] = th[u]
  BY <1>1, Given DEF DeleteRegister, To
<1>5. /\ th'[t].pc = "idle" /\ th'[t].page = NoPage /\ th'[t].last = 0 /\ th'[t].must = {}
      /\ th'[t].mode = "r" /\ th'[t].outer = NoPage
  <2>1. th' = [th EXCEPT ![t] = Idle]
    BY <1>2 DEF DeleteRegister, To
  <2> QED BY <2>1, <1>1, Given DEF Idle
<1>P. th[t].page \in 1..page_count
  BY <1>1, <1>2, Given, ThreadFacts DEF Threaded, At, PageNums
<1>L. Releases(t)
  BY <1>1, <1>2, Given, UnlatchIs
<1>6. Threaded(t)'
  BY <1>1, <1>2, <1>5, Given, ThreadFacts DEF Threaded, At, Steps, NoPage
<1>7. SyncTyped'
  BY <1>1, <1>2, <1>L, Given, LatchTyped, ThreadFacts, <1>P DEF SyncTyped, Threaded, At
<1>8. LockOwner'
  BY <1>1, <1>2, <1>4, <1>5, Given DEF LockOwner, At
<1>9. Exclusive'
  <2> SUFFICES ASSUME NEW u \in Threads, (th'[u]).pc \in {"register", "put"}
               PROVE  latch'[th'[u].page].writer = u /\ ~ IsFull(pages[th'[u].page])
    BY <1>1, Given DEF Exclusive, At, IsFull, Used
  <2>1. CASE u = t
    BY <1>1, <1>2, <1>5, <2>1, Given DEF Exclusive, At
  <2>2. CASE u # t
    <3>1. th'[u] = th[u] /\ latch[th[u].page].writer = u /\ ~ IsFull(pages[th[u].page]) /\ th[u].page \in PageNums
      BY <1>1, <1>4, <2>2, Given DEF Exclusive, Places, At
    <3> QED BY <1>1, <1>L, <2>2, <3>1, Given, OthersKeep
  <2> QED BY <2>1, <2>2
<1>10. Fresh'
  BY <1>1, <1>2, <1>4, <1>5, Given DEF Fresh, At
<1>11. FreeInv'
  BY <1>1, <1>2, <1>4, <1>5, Given DEF FreeInv, At
<1> QED BY <1>1, <1>3, <1>4, <1>6, <1>7, <1>8, <1>9, <1>10, <1>11, QuietStep

LEMMA LatchedIs ==
  ASSUME SyncTyped, NEW t \in Threads, NEW p \in PageNums, NEW mode \in {"r", "w"},
         IF mode = "r" THEN ReadFree(p) ELSE WriteFree(p), latch' = Latched(t, p, mode)
  PROVE  Takes(t, p)
<1>1. CASE mode = "r"
  <2>1. latch' = [latch EXCEPT ![p].readers = @ \cup {t}] /\ latch[p].writer = None
    BY <1>1 DEF Latched, ReadFree
  <2> QED BY <2>1 DEF SyncTyped, Takes
<1>2. CASE mode = "w"
  <2>1. WriteFree(p) /\ latch' = WriteLatched(t, p)
    BY <1>2 DEF Latched
  <2> QED BY <2>1, WriteLatchIs
<1> QED BY <1>1, <1>2

LEMMA ScanOpenKeeps ==
  ASSUME FileInv, NEW t \in Threads, NEW mode \in {"r", "w"}, ScanOpen(t, mode)
  PROVE  FileInv'
<1>1. UNCHANGED <<store, logs, up>>
  BY DEF ScanOpen
<1>2. /\ redo = 0 /\ ~ failed /\ latch' = latch /\ free_pages' = free_pages /\ lock' = lock
      /\ th[t].pc \in {"idle", "scan"} /\ page_count > 0
  BY <1>1, Given DEF ScanOpen, Busy, sync
<1>3. redo = 0 /\ ~ failed
  BY <1>1, <1>2, Given
<1>4. DOMAIN th' = Threads /\ \A u \in Threads \ {t} : th'[u] = th[u]
  BY <1>1, Given DEF ScanOpen, To
<1>5. /\ th'[t].pc = "enter" /\ th'[t].page = 1 /\ th'[t].last = page_count
      /\ th'[t].must = Records /\ th'[t].mode = mode
  <2>1. th' = [th EXCEPT ![t] = [pc |-> "enter", page |-> 1, last |-> page_count,
                                     must |-> Records, mode |-> mode, outer |-> th[t].page]]
    BY <1>2 DEF ScanOpen, To
  <2> QED BY <2>1, <1>1, Given
<1>P. /\ 1 \in PageNums /\ 1 \in 0..PageBound /\ page_count \in 0..PageBound /\ Records \subseteq RIDs
      /\ \A r \in Records : r[1] >= 1
  BY <1>1, <1>2, Given DEF PageNums, Records, RIDs
<1>6. Threaded(t)'
  BY <1>1, <1>2, <1>5, Given, ThreadFacts, <1>P DEF Threaded, At, Steps, NoPage
<1>7. SyncTyped'
  BY <1>1, <1>2, Given, ThreadFacts DEF SyncTyped, Threaded, At
<1>8. LockOwner'
  BY <1>1, <1>2, <1>4, <1>5, Given DEF LockOwner, SyncTyped, At
<1>9. Exclusive'
  BY <1>1, <1>2, <1>4, <1>5, Given DEF Exclusive, At
<1>10. Fresh'
  BY <1>1, <1>2, <1>4, <1>5, Given DEF Fresh, At
<1>11. FreeInv'
  BY <1>1, <1>2, <1>4, <1>5, Given DEF FreeInv, At
<1> QED BY <1>1, <1>3, <1>4, <1>6, <1>7, <1>8, <1>9, <1>10, <1>11, QuietStep

LEMMA ScanEnterKeeps ==
  ASSUME FileInv, NEW t \in Threads, ScanEnter(t)
  PROVE  FileInv'
<1>1. UNCHANGED <<store, logs, up>>
  BY DEF ScanEnter
<1>2. /\ th[t].pc = "enter" /\ free_pages' = free_pages /\ lock' = lock
      /\ IF th[t].mode = "r" THEN ReadFree(th[t].page) ELSE WriteFree(th[t].page)
      /\ latch' = Latched(t, th[t].page, th[t].mode)
  BY <1>1, Given DEF ScanEnter, Busy
<1>3. redo = 0 /\ ~ failed
  BY <1>1, <1>2, Given
<1>4. DOMAIN th' = Threads /\ \A u \in Threads \ {t} : th'[u] = th[u]
  BY <1>1, Given DEF ScanEnter, To
<1>5. /\ th'[t].pc = "scan" /\ th'[t].must = {r \in th[t].must : r[1] # th[t].page}
      /\ th'[t].page = th[t].page /\ th'[t].last = th[t].last /\ th'[t].mode = th[t].mode
  <2>1. th' = [th EXCEPT ![t].pc = "scan", ![t].must = {r \in @ : r[1] # th[t].page}]
    BY <1>2 DEF ScanEnter, To
  <2> QED BY <2>1, <1>1, Given
<1>P. \A r \in th[t].must : r[1] \in Nat /\ r[1] >= th[t].page /\ th[t].page \in Nat
  BY <1>1, <1>2, Given, ThreadFacts DEF Threaded, RIDs, PageNums
<1>L. th[t].page \in PageNums /\ Takes(t, th[t].page)
  <2>1. th[t].page \in PageNums /\ th[t].mode \in {"r", "w"}
    BY <1>1, <1>2, Given, ThreadFacts DEF Threaded, At
  <2> QED BY <1>1, <1>2, <2>1, Given, LatchedIs
<1>6. Threaded(t)'
  BY <1>1, <1>2, <1>5, Given, ThreadFacts, <1>P DEF Threaded, At, Steps, NoPage
<1>7. SyncTyped'
  BY <1>1, <1>2, <1>L, Given, LatchTyped, ThreadFacts DEF SyncTyped, Threaded, At
<1>8. LockOwner'
  BY <1>1, <1>2, <1>4, <1>5, Given DEF LockOwner, SyncTyped, At
<1>9. Exclusive'
  <2> SUFFICES ASSUME NEW u \in Threads, (th'[u]).pc \in {"register", "put"}
               PROVE  latch'[th'[u].page].writer = u /\ ~ IsFull(pages[th'[u].page])
    BY <1>1, Given DEF Exclusive, At, IsFull, Used
  <2>1. CASE u = t
    BY <1>1, <1>2, <1>5, <2>1, Given DEF Exclusive, At
  <2>2. CASE u # t
    <3>1. th'[u] = th[u] /\ latch[th[u].page].writer = u /\ ~ IsFull(pages[th[u].page]) /\ th[u].page \in PageNums
      BY <1>1, <1>4, <2>2, Given DEF Exclusive, Places, At
    <3> QED BY <1>1, <1>L, <2>2, <3>1, Given, OthersKeep
  <2> QED BY <2>1, <2>2
<1>10. Fresh'
  BY <1>1, <1>2, <1>4, <1>5, Given DEF Fresh, At
<1>11. FreeInv'
  BY <1>1, <1>2, <1>4, <1>5, Given DEF FreeInv, At
<1> QED BY <1>1, <1>3, <1>4, <1>6, <1>7, <1>8, <1>9, <1>10, <1>11, QuietStep

LEMMA ScanNextPageKeeps ==
  ASSUME FileInv, NEW t \in Threads, ScanNextPage(t)
  PROVE  FileInv'
<1>1. UNCHANGED <<store, logs, up>>
  BY DEF ScanNextPage
<1>2. /\ th[t].pc = "scan" /\ free_pages' = free_pages /\ lock' = lock
      /\ th[t].page < th[t].last /\ latch' = Unlatch(t, th[t].page)
  BY <1>1, Given DEF ScanNextPage, Busy
<1>3. redo = 0 /\ ~ failed
  BY <1>1, <1>2, Given
<1>4. DOMAIN th' = Threads /\ \A u \in Threads \ {t} : th'[u] = th[u]
  BY <1>1, Given DEF ScanNextPage, To
<1>5. /\ th'[t].pc = "enter" /\ th'[t].page = th[t].page + 1
      /\ th'[t].last = th[t].last /\ th'[t].must = th[t].must /\ th'[t].mode = th[t].mode
  <2>1. th' = [th EXCEPT ![t].pc = "enter", ![t].page = @ + 1]
    BY <1>2 DEF ScanNextPage, To
  <2> QED BY <2>1, <1>1, Given
<1>P. /\ th[t].page + 1 \in PageNums /\ th[t].page + 1 \in 0..PageBound
      /\ \A r \in th[t].must : r[1] >= th[t].page + 1
  <2>1. th[t].page \in PageNums /\ th[t].last \in 0..PageBound
    BY <1>1, <1>2, Given, ThreadFacts DEF Threaded, At
  <2>2. \A r \in th[t].must : r[1] \in Nat /\ r[1] > th[t].page
    BY <1>1, <1>2, Given, ThreadFacts DEF Threaded, RIDs, PageNums
  <2> QED BY <1>1, <1>2, <2>1, <2>2, Given DEF PageNums
<1>L. Releases(t)
  BY <1>1, <1>2, Given, UnlatchIs
<1>6. Threaded(t)'
  BY <1>1, <1>2, <1>5, Given, ThreadFacts, <1>P DEF Threaded, At, Steps, NoPage
<1>7. SyncTyped'
  BY <1>1, <1>2, <1>L, Given, LatchTyped, ThreadFacts DEF SyncTyped, Threaded, At
<1>8. LockOwner'
  BY <1>1, <1>2, <1>4, <1>5, Given DEF LockOwner, SyncTyped, At
<1>9. Exclusive'
  <2> SUFFICES ASSUME NEW u \in Threads, (th'[u]).pc \in {"register", "put"}
               PROVE  latch'[th'[u].page].writer = u /\ ~ IsFull(pages[th'[u].page])
    BY <1>1, Given DEF Exclusive, At, IsFull, Used
  <2>1. CASE u = t
    BY <1>1, <1>2, <1>5, <2>1, Given DEF Exclusive, At
  <2>2. CASE u # t
    <3>1. th'[u] = th[u] /\ latch[th[u].page].writer = u /\ ~ IsFull(pages[th[u].page]) /\ th[u].page \in PageNums
      BY <1>1, <1>4, <2>2, Given DEF Exclusive, Places, At
    <3> QED BY <1>1, <1>L, <2>2, <3>1, Given, OthersKeep
  <2> QED BY <2>1, <2>2
<1>10. Fresh'
  BY <1>1, <1>2, <1>4, <1>5, Given DEF Fresh, At
<1>11. FreeInv'
  BY <1>1, <1>2, <1>4, <1>5, Given DEF FreeInv, At
<1> QED BY <1>1, <1>3, <1>4, <1>6, <1>7, <1>8, <1>9, <1>10, <1>11, QuietStep

LEMMA ScanCloseKeeps ==
  ASSUME FileInv, NEW t \in Threads, ScanClose(t)
  PROVE  FileInv'
<1>1. UNCHANGED <<store, logs, up>>
  BY DEF ScanClose
<1>2. /\ th[t].pc = "scan" /\ free_pages' = free_pages /\ lock' = lock
  BY <1>1, Given DEF ScanClose, Busy
<1>3. redo = 0 /\ ~ failed
  BY <1>1, <1>2, Given
<1>4. DOMAIN th' = Threads /\ \A u \in Threads \ {t} : th'[u] = th[u]
  BY <1>1, Given DEF ScanClose, To
<1>5. /\ th'[t].pc = "idle" /\ th'[t].page = NoPage /\ th'[t].last = 0 /\ th'[t].must = {}
      /\ th'[t].mode = "r" /\ th'[t].outer = NoPage
  <2>1. th' = [th EXCEPT ![t] = Idle]
    BY <1>2 DEF ScanClose, To
  <2> QED BY <2>1, <1>1, Given DEF Idle
<1>L. Releases(t)
  <2> DEFINE w(p) == IF latch[p].writer = t THEN None ELSE latch[p].writer
  <2>1. latch' = [p \in PageNums |-> [readers |-> latch[p].readers \ {t}, writer |-> w(p)]]
    BY DEF ScanClose
  <2>2. \A p \in PageNums : latch'[p].readers = latch[p].readers \ {t} /\ latch'[p].writer = w(p)
    BY <2>1
  <2> QED BY <2>1, <2>2 DEF Releases
<1>6. Threaded(t)'
  BY <1>1, <1>2, <1>5, Given, ThreadFacts DEF Threaded, At, Steps, NoPage
<1>7. SyncTyped'
  BY <1>1, <1>2, <1>L, Given, LatchTyped, ThreadFacts DEF SyncTyped, Threaded, At
<1>8. LockOwner'
  BY <1>1, <1>2, <1>4, <1>5, Given DEF LockOwner, SyncTyped, At
<1>9. Exclusive'
  <2> SUFFICES ASSUME NEW u \in Threads, (th'[u]).pc \in {"register", "put"}
               PROVE  latch'[th'[u].page].writer = u /\ ~ IsFull(pages[th'[u].page])
    BY <1>1, Given DEF Exclusive, At, IsFull, Used
  <2>1. CASE u = t
    BY <1>1, <1>2, <1>5, <2>1, Given DEF Exclusive, At
  <2>2. CASE u # t
    <3>1. th'[u] = th[u] /\ latch[th[u].page].writer = u /\ ~ IsFull(pages[th[u].page]) /\ th[u].page \in PageNums
      BY <1>1, <1>4, <2>2, Given DEF Exclusive, Places, At
    <3> QED BY <1>1, <1>L, <2>2, <3>1, Given, OthersKeep
  <2> QED BY <2>1, <2>2
<1>10. Fresh'
  BY <1>1, <1>2, <1>4, <1>5, Given DEF Fresh, At
<1>11. FreeInv'
  BY <1>1, <1>2, <1>4, <1>5, Given DEF FreeInv, At
<1> QED BY <1>1, <1>3, <1>4, <1>6, <1>7, <1>8, <1>9, <1>10, <1>11, QuietStep

-----------------------------------------------------------------------------
(* Steps that append to the log.                                            *)
LEMMA Appended ==
  ASSUME clog \in Seq(Entry), NEW e \in Entry, clog' = Append(clog, e)
  PROVE  /\ clog' \in Seq(Entry) /\ Len(clog) \in Nat /\ Len(clog)' = Len(clog) + 1
         /\ clog'[Len(clog) + 1] = e /\ \A i \in 1..Len(clog) : clog'[i] = clog[i]
OBVIOUS

\* A new entry is about a page that exists, unless it makes the next one exist;
\* the initialization comes first.
LEMMA LogGrows ==
  ASSUME Stored, NEW e \in Entry, clog' = Append(clog, e), redo = 0, redo' = 0,
         \/ e.op # "allocate" /\ e.page <= page_count /\ page_count' = page_count
         \/ e.op = "allocate" /\ e.page = page_count + 1 /\ page_count' = page_count + 1,
         e.op = "init" => \A i \in 1..Len(clog) : clog[i].page = e.page => clog[i].op = "allocate"
  PROVE  LogInv'
<1> DEFINE n == Len(clog)
<1>0. clog \in Seq(Entry) /\ e.page \in PageNums /\ page_count \in 0..PageBound /\ PageBound \in Nat
  BY RecordFileAssumption DEF Stored, StoreTyped, Entry
<1>1. /\ n \in Nat /\ Len(clog)' = n + 1 /\ clog'[n + 1] = e /\ \A i \in 1..n : clog'[i] = clog[i]
      /\ page_count \in Nat /\ e.page \in Nat /\ e.page >= 1
      /\ \A i \in 1..n : clog[i] \in Entry
  BY <1>0, Appended DEF PageNums
<1>2. AllocFirst /\ AllocInOrder /\ InitFirst /\ AllCounted /\ AllLogged /\ Known = n
  BY DEF Stored, StoreInv, LogInv, Known
<1>2a. e.op # "allocate" => e.page \in 1..page_count
  BY <1>1
<1> HIDE DEF n
<1>3. \A i \in 1..(n + 1) : \E j \in 1..i : clog'[j].op = "allocate" /\ clog'[j].page = clog'[i].page
  <2> SUFFICES ASSUME NEW i \in 1..(n + 1)
               PROVE  \E j \in 1..i : clog'[j].op = "allocate" /\ clog'[j].page = clog'[i].page
    OBVIOUS
  <2>1. CASE i \in 1..n
    <3>1. PICK j \in 1..i : clog[j].op = "allocate" /\ clog[j].page = clog[i].page
      BY <1>2, <2>1 DEF AllocFirst, n
    <3>2. j \in 1..n
      BY <1>1, <2>1
    <3> QED BY <1>1, <2>1, <3>1, <3>2
  <2>2. CASE i = n + 1 /\ e.op # "allocate"
    <3>1. PICK j \in 1..n : clog[j].op = "allocate" /\ clog[j].page = e.page
      BY <1>2, <1>2a, <2>2 DEF AllLogged, n
    <3>2. j \in 1..i
      BY <1>1, <2>2
    <3> QED BY <1>1, <2>2, <3>1, <3>2
  <2>3. CASE i = n + 1 /\ e.op = "allocate"
    BY <1>1, <2>3
  <2> QED BY <1>1, <2>1, <2>2, <2>3
<1>4. \A i \in 1..(n + 1) : clog'[i].op = "allocate" =>
        \A q \in 1..(clog'[i].page - 1) : \E j \in 1..(i - 1) : clog'[j].op = "allocate" /\ clog'[j].page = q
  <2> SUFFICES ASSUME NEW i \in 1..(n + 1), clog'[i].op = "allocate", NEW q \in 1..(clog'[i].page - 1)
               PROVE  \E j \in 1..(i - 1) : clog'[j].op = "allocate" /\ clog'[j].page = q
    OBVIOUS
  <2>1. CASE i \in 1..n
    <3>1. PICK j \in 1..(i - 1) : clog[j].op = "allocate" /\ clog[j].page = q
      BY <1>1, <1>2, <2>1 DEF AllocInOrder, n
    <3>2. j \in 1..n
      BY <1>1, <2>1
    <3> QED BY <1>1, <3>1, <3>2
  <2>2. CASE i = n + 1
    <3>1. PICK j \in 1..n : clog[j].op = "allocate" /\ clog[j].page = q
      BY <1>1, <1>2, <2>2 DEF AllLogged, n
    <3>2. j \in 1..(i - 1)
      BY <1>1, <2>2
    <3> QED BY <1>1, <3>1, <3>2
  <2>3. i \in 1..n \/ i = n + 1
    BY <1>1
  <2> QED BY <2>1, <2>2, <2>3
<1>5. \A i, j \in 1..(n + 1) :
        clog'[i].op = "init" /\ clog'[j].op # "allocate" /\ clog'[j].page = clog'[i].page => i <= j
  <2> SUFFICES ASSUME NEW i \in 1..(n + 1), NEW j \in 1..(n + 1), clog'[i].op = "init",
                      clog'[j].op # "allocate", clog'[j].page = clog'[i].page
               PROVE  i <= j
    OBVIOUS
  <2>1. CASE i \in 1..n /\ j \in 1..n
    BY <1>1, <1>2, <2>1 DEF InitFirst, n
  <2>2. CASE i = n + 1 /\ j \in 1..n
    BY <1>1, <2>2
  <2>3. CASE j = n + 1
    BY <1>1, <2>3
  <2> QED BY <1>1, <2>1, <2>2, <2>3
<1>6. \A i \in 1..(n + 1) : clog'[i].page <= page_count'
  <2> SUFFICES ASSUME NEW i \in 1..(n + 1) PROVE clog'[i].page <= page_count'
    OBVIOUS
  <2>1. CASE i \in 1..n
    <3>1. clog'[i].page = clog[i].page /\ clog[i].page <= page_count /\ clog[i].page \in Nat
      BY <1>1, <1>2, <2>1 DEF AllCounted, Entry, PageNums
    <3> QED BY <1>1, <3>1
  <2>2. CASE i = n + 1
    BY <1>1, <2>2
  <2> QED BY <1>1, <2>1, <2>2
<1>7. \A q \in 1..page_count' : \E j \in 1..(n + 1) : clog'[j].op = "allocate" /\ clog'[j].page = q
  <2> SUFFICES ASSUME NEW q \in 1..page_count'
               PROVE  \E j \in 1..(n + 1) : clog'[j].op = "allocate" /\ clog'[j].page = q
    OBVIOUS
  <2>1. CASE q \in 1..page_count
    <3>1. PICK j \in 1..n : clog[j].op = "allocate" /\ clog[j].page = q
      BY <1>2, <2>1 DEF AllLogged, n
    <3> QED BY <1>1, <3>1
  <2>2. CASE q \notin 1..page_count
    BY <1>1, <2>2
  <2> QED BY <2>1, <2>2
<1>8. Known' = n + 1
  BY <1>1 DEF Known
<1>9. AllocFirst' /\ AllocInOrder'
  BY <1>1, <1>3, <1>4 DEF AllocFirst, AllocInOrder
<1>10. InitFirst'
  <2>1. Len(clog') = n + 1
    BY <1>1
  <2> QED BY ONLY <1>5, <2>1 DEF InitFirst
<1>11. AllCounted' /\ AllLogged'
  BY <1>1, <1>6, <1>7, <1>8 DEF AllCounted, AllLogged
<1> QED BY <1>9, <1>10, <1>11 DEF LogInv

\* An image is an image still when the log grows, or is cut behind its LSN.
LEMMA ImageStays ==
  ASSUME NEW pg, NEW p, Image(pg, p), NEW n \in Nat, pg.lsn \in Nat, pg.lsn <= n,
         \A i \in 1..n : clog'[i] = clog[i]
  PROVE  /\ pg.init => \E i \in 1..pg.lsn : clog'[i].op = "init" /\ clog'[i].page = p
         /\ ~ pg.init => pg.slots = NoSlots /\ pg.lsn = 0
<1>1. ASSUME pg.init PROVE \E i \in 1..pg.lsn : clog'[i].op = "init" /\ clog'[i].page = p
  <2>1. PICK i \in 1..pg.lsn : clog[i].op = "init" /\ clog[i].page = p
    BY <1>1 DEF Image
  <2> QED BY <2>1
<1> QED BY <1>1 DEF Image

\* What was initialized exists, and has its entry.
LEMMA InitedExists ==
  ASSUME Stored, redo = 0, NEW p \in PageNums, pages[p].init
  PROVE  p <= page_count /\ \E i \in 1..Len(clog) : clog[i].op = "init" /\ clog[i].page = p
<1>1. Image(pages[p], p) /\ pages[p].lsn <= Len(clog) /\ pages[p].lsn \in Nat /\ Len(clog) \in Nat
  BY DEF Stored, StoreInv, Images, PageInv, StoreTyped, IsPage
<1>2. PICK i \in 1..pages[p].lsn : clog[i].op = "init" /\ clog[i].page = p
  BY <1>1 DEF Image
<1>3. i \in 1..Len(clog)
  BY <1>1
<1>4. clog[i].page <= page_count
  BY <1>3 DEF Stored, StoreInv, LogInv, AllCounted, Known
<1> QED BY <1>2, <1>3, <1>4

\* Slot s of page p is written.
Writes(p, s, v) ==
  /\ pages' = [pages EXCEPT ![p].slots[s] = v, ![p].lsn = NextLsn]
  /\ dirty' = dirty \cup {p} /\ UNCHANGED <<disk, page_count, flushed>>

LEMMA WritesIs ==
  ASSUME Stored, NEW p \in PageNums, NEW s \in SlotNums, NEW v \in Nat, Writes(p, s, v)
  PROVE  /\ DOMAIN pages' = PageNums /\ \A q \in PageNums \ {p} : pages'[q] = pages[q]
         /\ pages'[p].init = pages[p].init /\ pages'[p].lsn = Len(clog) + 1
         /\ pages'[p].slots = [pages[p].slots EXCEPT ![s] = v]
         /\ IsPage(pages'[p])
<1>1. pages' = [pages EXCEPT ![p].slots[s] = v, ![p].lsn = Len(clog) + 1] /\ DOMAIN pages = PageNums
  BY DEF Stored, StoreTyped, Writes, NextLsn
<1>2. /\ DOMAIN pages' = PageNums /\ \A q \in PageNums \ {p} : pages'[q] = pages[q]
      /\ pages'[p].init = pages[p].init /\ pages'[p].lsn = Len(clog) + 1
      /\ pages'[p].slots = [pages[p].slots EXCEPT ![s] = v]
  BY <1>1
<1>3. IsPage(pages[p]) /\ Len(clog) \in Nat
  BY DEF Stored, StoreTyped
<1>4. pages'[p].init \in BOOLEAN
  BY <1>2, <1>3 DEF IsPage
<1>5. pages'[p].slots \in [SlotNums -> Nat] /\ pages'[p].lsn \in Nat
  BY <1>2, <1>3 DEF IsPage
<1> QED BY <1>2, <1>4, <1>5 DEF IsPage

LEMMA WriteStores ==
  ASSUME Stored, NEW p \in PageNums, NEW s \in SlotNums, NEW v \in Nat, Writes(p, s, v), pages[p].init,
         NEW op \in {"insert", "delete", "update"}, AppendLog(op, p, s),
         redo = 0, redo' = redo, failed' = failed
  PROVE  Stored'
<1> DEFINE e == [op |-> op, page |-> p, slot |-> s]
           n == Len(clog)
<1>1. e \in Entry /\ clog' = Append(clog, e) /\ e.op = op /\ e.page = p
  BY DEF Entry, RecordOperation, AppendLog
<1> HIDE DEF e
<1>2. /\ clog' \in Seq(Entry) /\ n \in Nat /\ Len(clog)' = n + 1
      /\ \A i \in 1..n : clog'[i] = clog[i]
  BY <1>1, Appended DEF Stored, StoreTyped
<1>3. /\ DOMAIN pages' = PageNums /\ \A q \in PageNums \ {p} : pages'[q] = pages[q]
      /\ pages'[p].init = pages[p].init /\ pages'[p].lsn = n + 1 /\ IsPage(pages'[p])
  BY WritesIs
<1>4. dirty' = dirty \cup {p} /\ disk' = disk /\ page_count' = page_count /\ flushed' = flushed
  BY DEF Writes
<1>5. StoreTyped'
  <2>1. \A q \in PageNums : IsPage(pages'[q]) /\ IsPage(disk'[q])
    BY <1>3, <1>4 DEF Stored, StoreTyped
  <2>2. flushed' \in 0..Len(clog)' /\ redo' \in 0..(Len(clog)' + 1)
    BY <1>2, <1>4 DEF Stored, StoreTyped
  <2> QED BY <1>2, <1>3, <1>4, <2>1, <2>2 DEF Stored, StoreTyped, IsPage
<1>6. LogInv'
  <2>1. p <= page_count
    BY InitedExists
  <2> QED BY <1>1, <1>4, <2>1, LogGrows
<1>7. Images'
  <2> SUFFICES ASSUME NEW q \in PageNums PROVE PageInv(q)'
    BY DEF Images
  <2>1. /\ Image(pages[q], q) /\ Image(disk[q], q)
        /\ disk[q].lsn <= flushed /\ disk[q].lsn <= pages[q].lsn /\ pages[q].lsn <= n
        /\ q \notin dirty => pages[q] = disk[q] \/ (~ disk[q].init /\ pages[q].slots = NoSlots)
        /\ pages[q].lsn \in Nat /\ disk[q].lsn \in Nat /\ flushed \in 0..n
    BY DEF Stored, StoreInv, Images, PageInv, StoreTyped, IsPage
  <2>2. Image(disk[q], q)'
    <3>1. disk[q].lsn <= n
      BY <1>2, <2>1
    <3> QED BY <1>2, <1>4, <2>1, <3>1, ImageStays DEF Image
  <2>3. CASE q # p
    <3>1. pages'[q] = pages[q]
      BY <1>3, <2>3
    <3>2. Image(pages[q], q)'
      BY <1>2, <2>1, <3>1, ImageStays DEF Image
    <3> QED BY <1>2, <1>4, <2>1, <2>2, <2>3, <3>1, <3>2 DEF PageInv
  <2>4. CASE q = p
    <3>1. PICK i \in 1..pages[p].lsn : clog[i].op = "init" /\ clog[i].page = p
      BY <2>1, <2>4 DEF Image
    <3>2. i \in 1..n /\ i \in 1..(n + 1)
      BY <1>2, <2>1, <2>4
    <3>3. Image(pages[q], q)'
      BY <1>2, <1>3, <2>4, <3>1, <3>2 DEF Image
    <3> QED BY <1>2, <1>3, <1>4, <2>1, <2>2, <2>4, <3>3 DEF PageInv
  <2> QED BY <2>3, <2>4
<1> QED BY <1>5, <1>6, <1>7 DEF Stored, StoreInv

LEMMA Least ==
  ASSUME NEW S, S \subseteq Nat, S # {}
  PROVE  \E m \in S : \A y \in S : m <= y
<1>1. PICK m \in S : \A y \in S : ~ (<<y, m>> \in OpToRel(<, Nat))
  BY WFMin, NatLessThanWellFounded
<1>2. ASSUME NEW y \in S, y < m PROVE FALSE
  <2>1. <<y, m>> \in OpToRel(<, Nat)
    BY <1>2 DEF OpToRel
  <2> QED BY <1>1, <2>1
<1> QED BY <1>2

\* The slot that insert_record chooses.
LEMMA FirstFreeIs ==
  ASSUME NEW pg, pg.slots \in [SlotNums -> Nat], ~ IsFull(pg)
  PROVE  /\ FirstFree(pg) \in SlotNums /\ pg.slots[FirstFree(pg)] = 0 /\ pg.init
         /\ \A z \in 1..(FirstFree(pg) - 1) : pg.slots[z] # 0
<1> DEFINE S == SlotNums \ Used(pg)
<1>1. pg.init /\ S # {} /\ S \subseteq Nat /\ Capacity \in Nat
  BY RecordFileAssumption DEF IsFull, Used, SlotNums
<1>2. \E m \in S : \A y \in S : m <= y
  <2> HIDE DEF S
  <2> QED BY <1>1, Least
<1>3. FirstFree(pg) \in S /\ \A y \in S : FirstFree(pg) <= y
  <2> HIDE DEF S
  <2>1. FirstFree(pg) = CHOOSE x \in S : \A y \in S : x <= y
    BY DEF FirstFree, Min, S
  <2> QED BY <1>2, <2>1
<1>4. ASSUME NEW z \in 1..(FirstFree(pg) - 1) PROVE pg.slots[z] # 0
  <2>1. z \in SlotNums /\ ~ (FirstFree(pg) <= z)
    BY <1>1, <1>3 DEF SlotNums
  <2> QED BY <1>3, <2>1 DEF Used
<1> QED BY <1>1, <1>3, <1>4 DEF Used

\* A thread that has page p to itself writes to it.
LEMMA PageWritten ==
  ASSUME FileInv, NEW t \in Threads, NEW p \in PageNums, NEW s \in SlotNums, NEW v \in Nat,
         Writes(p, s, v), NEW op \in {"insert", "delete", "update"}, AppendLog(op, p, s), pages[p].init,
         redo = 0, ~ failed, redo' = redo, failed' = failed, lock' = lock, free_pages' = free_pages,
         latch[p].writer \in {None, t}, Releases(t), th[t].pc \in {"put", "idle"},
         DOMAIN th' = Threads, \A u \in Threads \ {t} : Unmoved(u), Threaded(t)',
         th'[t].pc = "idle" \/ (th'[t].pc = "free" /\ th'[t].page = p), FreeInv'
  PROVE  FileInv'
<1>1. Stored'
  BY Now, WriteStores
<1>2. page_count' = page_count
  BY DEF Writes
<1>3. \A q \in PageNums \ {p} : pages'[q] = pages[q]
  BY Now, WritesIs
<1>4. /\ \A i \in 1..Len(clog) : clog'[i] = clog[i] /\ clog[i] \in Entry
      /\ Len(clog)' = Len(clog) + 1 /\ Len(clog) \in Nat /\ clog'[Len(clog) + 1].page = p
  BY Now DEF AppendLog, Stored, StoreTyped
<1>5. SyncTyped'
  BY <1>2, Now, LatchTyped DEF SyncTyped
<1>6. LockOwner'
  BY Now DEF LockOwner, SyncTyped, At, Unmoved
<1>7. Exclusive'
  <2> SUFFICES ASSUME NEW u \in Threads, (th'[u]).pc \in {"register", "put"}
               PROVE  latch'[th'[u].page].writer = u /\ ~ IsFull(pages'[th'[u].page])
    BY DEF Exclusive, At, IsFull, Used
  <2>1. /\ u # t /\ th'[u].page = th[u].page /\ latch[th[u].page].writer = u
        /\ ~ IsFull(pages[th[u].page]) /\ th[u].page \in PageNums
    BY Now DEF Exclusive, Places, At, Unmoved
  <2>2. th[u].page # p
    BY <2>1, Now
  <2> QED BY <1>3, <2>1, <2>2, Now, OthersKeep
<1>8. \A u \in Threads \ {t} : At(u, {"init", "register"}) => th[u].page # p
  <2> SUFFICES ASSUME NEW u \in Threads \ {t}, At(u, {"init", "register"}), th[u].page = p PROVE FALSE
    OBVIOUS
  <2>1. CASE At(u, {"register"})
    BY <2>1, Now DEF Exclusive, At
  <2>2. CASE At(u, {"init"})
    <3>1. PICK i \in 1..Len(clog) : clog[i].op = "init" /\ clog[i].page = p
      BY Now, InitedExists
    <3> QED BY <2>2, <3>1, Now DEF Fresh, At
  <2> QED BY <2>1, <2>2 DEF At
<1>9. Fresh'
  <2>1. ASSUME NEW u \in Threads, At(u, {"init", "register"})'
        PROVE  /\ th'[u].page \notin free_pages'
               /\ \A w \in Threads \ {u} : At(w, {"init", "register", "free"})' => th'[w].page # th'[u].page
    <3>1. u # t /\ At(u, {"init", "register"}) /\ th'[u].page = th[u].page /\ th[u].page # p
      BY <1>8, <2>1 DEF At, Unmoved
    <3>2. th'[u].page \notin free_pages'
      BY <3>1, Now DEF Fresh
    <3>3. ASSUME NEW w \in Threads \ {u}, At(w, {"init", "register", "free"})'
          PROVE  th'[w].page # th'[u].page
      <4>1. CASE w = t
        BY <3>1, <3>3, <4>1 DEF At
      <4>2. CASE w # t
        BY <3>1, <3>3, <4>2, Now DEF Fresh, At, Unmoved
      <4> QED BY <4>1, <4>2
    <3> QED BY <3>2, <3>3
  <2>2. ASSUME NEW u \in Threads, At(u, {"init"})', NEW i \in 1..(Len(clog) + 1), clog'[i].page = th'[u].page
        PROVE  clog'[i].op = "allocate"
    <3>1. u # t /\ At(u, {"init"}) /\ th'[u].page = th[u].page /\ th[u].page # p
      BY <1>8, <2>2 DEF At, Unmoved
    <3>2. i \in 1..Len(clog) /\ clog'[i] = clog[i]
      BY <1>4, <2>2, <3>1
    <3> QED BY <2>2, <3>1, <3>2, Now DEF Fresh
  <2> QED BY <1>4, <2>1, <2>2 DEF Fresh
<1> QED BY <1>1, <1>2, <1>5, <1>6, <1>7, <1>9, Now, WriteStep

LEMMA InsertPutKeeps ==
  ASSUME FileInv, NEW t \in Threads, InsertPut(t)
  PROVE  FileInv'
<1> DEFINE p == th[t].page
           s == FirstFree(pages[p])
<1>1. th[t].pc = "put" /\ redo = 0 /\ ~ failed
  BY Now DEF InsertPut
<1>2. p \in PageNums /\ latch[p].writer = t /\ ~ IsFull(pages[p]) /\ IsPage(pages[p])
  BY <1>1, Now DEF Places, Exclusive, At, Stored, StoreTyped
<1>3. s \in SlotNums /\ pages[p].init
  BY <1>2, FirstFreeIs DEF IsPage
<1>4. NextLsn \in Nat
  BY Now DEF Stored, StoreTyped, NextLsn
<1>5. /\ AppendLog("insert", p, s) /\ Writes(p, s, NextLsn) /\ latch' = Unlatch(t, p)
      /\ redo' = redo /\ failed' = failed /\ lock' = lock /\ free_pages' = free_pages /\ stale' = stale
  BY DEF InsertPut, Writes, up
<1>6. th' = [th EXCEPT ![t] = Idle]
  BY DEF InsertPut
<1> HIDE DEF p, s
<1>7. DOMAIN th' = Threads /\ th'[t] = Idle /\ \A u \in Threads \ {t} : th'[u] = th[u] /\ Unmoved(u)
  BY <1>6, Now DEF Unmoved
<1>8. Threaded(t)' /\ th'[t].pc = "idle"
  BY <1>7, Now DEF Threaded, At, Idle, Steps, NoPage
<1>9. Releases(t)
  BY <1>5, Now, UnlatchIs
<1>10. FreeInv'
  <2> SUFFICES ASSUME NEW q \in 1..page_count, ~ IsFull(pages'[q])
               PROVE  \/ q \in free_pages \cup stale
                      \/ \E u \in Threads : th'[u].pc \in {"register", "free"} /\ th'[u].page = q
    BY <1>5, Now DEF FreeInv, At, Writes, IsFull, Used
  <2>1. ~ IsFull(pages[q])
    <3>1. CASE q = p
      BY <1>2, <3>1
    <3>2. CASE q # p
      <4>1. q \in PageNums
        BY Now DEF PageNums
      <4> QED BY <1>2, <1>3, <1>4, <1>5, <3>2, <4>1, Now, WritesIs
    <3> QED BY <3>1, <3>2
  <2>2. CASE q \in free_pages \cup stale
    BY <2>2
  <2>3. CASE \E u \in Threads : At(u, {"register", "free"}) /\ th[u].page = q
    BY <1>1, <1>7, <2>3 DEF At
  <2> QED BY <2>1, <2>2, <2>3, Now DEF FreeInv
<1> QED BY <1>1, <1>2, <1>3, <1>4, <1>5, <1>7, <1>8, <1>9, <1>10, PageWritten

LEMMA DeleteKeeps ==
  ASSUME FileInv, NEW t \in Threads, NEW r \in RIDs, Delete(t, r)
  PROVE  FileInv'
<1> DEFINE p == r[1]
           s == r[2]
<1>1. th[t].pc = "idle" /\ redo = 0 /\ ~ failed /\ WriteFree(p)
  BY DEF Delete, Busy
<1>2. p \in PageNums /\ s \in SlotNums /\ pages[p].slots[s] # 0
  BY DEF RIDs, Delete, Records
<1>3. pages[p].init /\ p <= page_count
  <2>1. Image(pages[p], p) /\ pages[p].init \in BOOLEAN
    BY <1>2, Now DEF Stored, StoreInv, StoreTyped, IsPage, Images, PageInv
  <2>2. pages[p].init
    BY <1>2, <2>1 DEF Image, NoSlots
  <2> QED BY <1>1, <1>2, <2>2, Now, InitedExists
<1>4. /\ AppendLog("delete", p, s) /\ Writes(p, s, 0) /\ latch' = latch
      /\ redo' = redo /\ failed' = failed /\ lock' = lock /\ free_pages' = free_pages /\ stale' = stale
  BY DEF Delete, Writes, up, sync
<1>5. th' = [u \in Threads |-> IF u = t THEN [Idle EXCEPT !.pc = "free", !.page = p]
                               ELSE [th[u] EXCEPT !.must = @ \ {r}]]
  BY DEF Delete
<1> HIDE DEF p, s
<1>6. DOMAIN th' = Threads /\ \A u \in Threads \ {t} : Unmoved(u)
  <2>1. DOMAIN th' = Threads
    BY <1>5
  <2>2. ASSUME NEW u \in Threads \ {t} PROVE Unmoved(u)
    <3>1. th'[u] = [th[u] EXCEPT !.must = th[u].must \ {r}]
      BY <1>5
    <3>2. th'[u].must = th[u].must \ {r} \/ th'[u].must = th[u].must
      BY ONLY <3>1
    <3> QED BY ONLY <3>1, <3>2 DEF Unmoved
  <2> QED BY <2>1, <2>2
<1>7. /\ th'[t].pc = "free" /\ th'[t].page = p /\ th'[t].last = 0 /\ th'[t].must = {}
      /\ th'[t].mode = "r" /\ th'[t].outer = NoPage
  <2>1. th'[t] = [Idle EXCEPT !.pc = "free", !.page = p]
    BY <1>5
  <2> QED BY <2>1 DEF Idle
<1>8. Threaded(t)'
  BY <1>2, <1>3, <1>4, <1>7, Now DEF Threaded, At, Steps, PageNums, Writes
<1>9. Releases(t) /\ latch[p].writer = None
  BY <1>1, <1>2, <1>4, Now DEF Releases, SyncTyped, WriteFree, Unlatched
<1>10. FreeInv'
  <2> SUFFICES ASSUME NEW q \in 1..page_count, ~ IsFull(pages'[q]), q # p
               PROVE  \/ q \in free_pages \cup stale
                      \/ \E u \in Threads : th'[u].pc \in {"register", "free"} /\ th'[u].page = q
    BY <1>4, <1>7, Now DEF FreeInv, At, Writes, IsFull, Used
  <2>1. ~ IsFull(pages[q])
    <3>1. q \in PageNums
      BY Now DEF PageNums
    <3> QED BY <1>2, <1>4, <3>1, Now, WritesIs
  <2>2. CASE q \in free_pages \cup stale
    BY <2>2
  <2>3. CASE \E u \in Threads : At(u, {"register", "free"}) /\ th[u].page = q
    BY <1>1, <1>6, <2>3 DEF At, Unmoved
  <2> QED BY <2>1, <2>2, <2>3, Now DEF FreeInv
<1> QED BY <1>1, <1>2, <1>3, <1>4, <1>6, <1>7, <1>8, <1>9, <1>10, PageWritten

LEMMA UpdateKeeps ==
  ASSUME FileInv, NEW t \in Threads, NEW r \in RIDs, Update(t, r)
  PROVE  FileInv'
<1> DEFINE p == r[1]
           s == r[2]
<1>1. th[t].pc = "idle" /\ redo = 0 /\ ~ failed /\ WriteFree(p)
  BY DEF Update, Busy
<1>2. p \in PageNums /\ s \in SlotNums /\ pages[p].slots[s] # 0
  BY DEF RIDs, Update, Records
<1>3. pages[p].init /\ IsPage(pages[p])
  <2>1. Image(pages[p], p) /\ pages[p].init \in BOOLEAN /\ IsPage(pages[p])
    BY <1>2, Now DEF Stored, StoreInv, StoreTyped, IsPage, Images, PageInv
  <2> QED BY <1>2, <2>1 DEF Image, NoSlots
<1>4. /\ AppendLog("update", p, s) /\ Writes(p, s, NextLsn) /\ latch' = latch /\ th' = th
      /\ redo' = redo /\ failed' = failed /\ lock' = lock /\ free_pages' = free_pages /\ stale' = stale
  BY DEF Update, Writes, up, sync
<1>5. NextLsn \in Nat /\ NextLsn # 0
  BY Now DEF Stored, StoreTyped, NextLsn
<1> HIDE DEF p, s
<1>6. DOMAIN th' = Threads /\ \A u \in Threads : Unmoved(u)
  BY <1>4, Now DEF Unmoved
<1>7. Threaded(t)'
  BY <1>4, Now, ThreadFacts DEF Threaded, At, Writes
<1>8. Releases(t) /\ latch[p].writer = None
  BY <1>1, <1>2, <1>4, Now DEF Releases, SyncTyped, WriteFree, Unlatched
<1>9. ASSUME NEW q \in PageNums PROVE IsFull(pages'[q]) <=> IsFull(pages[q])
  <2>1. CASE q = p
    <3>1. pages'[p].init = pages[p].init /\ pages'[p].slots = [pages[p].slots EXCEPT ![s] = NextLsn]
      BY <1>2, <1>4, <1>5, Now, WritesIs
    <3>2. Used(pages'[p]) = Used(pages[p])
      BY <1>2, <1>3, <1>5, <3>1 DEF Used, IsPage
    <3> QED BY <2>1, <3>1, <3>2 DEF IsFull
  <2>2. CASE q # p
    BY <1>2, <1>4, <1>5, <2>2, Now, WritesIs
  <2> QED BY <2>1, <2>2
<1>10. FreeInv'
  <2>1. page_count' = page_count /\ \A q \in 1..page_count : q \in PageNums
    BY <1>4, Now DEF Writes, PageNums
  <2>2. \A q \in 1..page_count : ~ IsFull(pages'[q]) =>
          \/ q \in free_pages \cup stale
          \/ \E u \in Threads : th[u].pc \in {"register", "free"} /\ th[u].page = q
    BY <1>9, <2>1, Now DEF FreeInv, At
  <2> QED BY <1>4, <2>1, <2>2 DEF FreeInv, At, IsFull, Used
<1> QED BY <1>1, <1>2, <1>3, <1>4, <1>5, <1>6, <1>7, <1>8, <1>10, PageWritten

-----------------------------------------------------------------------------
(* A new page: allocate_page, then init_empty_page.                         *)
LEMMA SameImage ==
  ASSUME Stored, NEW q \in PageNums, pages'[q] = pages[q], disk'[q] = disk[q], q \in dirty => q \in dirty',
         disk[q].lsn <= flushed', pages[q].lsn <= Len(clog'),
         NEW n \in Nat, pages[q].lsn <= n, \A i \in 1..n : clog'[i] = clog[i]
  PROVE  PageInv(q)'
<1>1. /\ Image(pages[q], q) /\ Image(disk[q], q) /\ disk[q].lsn <= pages[q].lsn
      /\ q \notin dirty => pages[q] = disk[q] \/ (~ disk[q].init /\ pages[q].slots = NoSlots)
      /\ pages[q].lsn \in Nat /\ disk[q].lsn \in Nat
  BY DEF Stored, StoreInv, Images, PageInv, StoreTyped, IsPage
<1>2. Image(pages[q], q)'
  BY <1>1, ImageStays DEF Image
<1>3. disk[q].lsn <= n
  BY <1>1
<1>4. Image(disk[q], q)'
  BY <1>1, <1>3, ImageStays DEF Image
<1> QED BY <1>1, <1>2, <1>4 DEF PageInv

LEMMA InsertAllocKeeps ==
  ASSUME FileInv, NEW t \in Threads, InsertAlloc(t)
  PROVE  FileInv'
<1> DEFINE p == page_count + 1
           e == [op |-> "allocate", page |-> p, slot |-> 0]
           n == Len(clog)
<1>1. /\ th[t].pc = "alloc" /\ redo = 0 /\ ~ failed /\ p \in PageNums /\ page_count' = p
      /\ p \in 0..PageBound
  BY Now DEF InsertAlloc, PageNums
<1>2. /\ pages' = pages /\ dirty' = dirty /\ disk' = disk /\ free_pages' = free_pages /\ lock' = lock
      /\ latch' = latch /\ flushed' = flushed /\ redo' = redo /\ failed' = failed /\ stale' = stale
  BY DEF InsertAlloc, sync, up
<1>3. e \in Entry /\ clog' = Append(clog, e) /\ e.op = "allocate" /\ e.page = p
  BY <1>1 DEF Entry, RecordOperation, InsertAlloc, AppendLog
<1>4. th' = [th EXCEPT ![t].pc = "init", ![t].page = p]
  BY DEF InsertAlloc
<1> HIDE DEF e
<1>5. /\ clog' \in Seq(Entry) /\ n \in Nat /\ Len(clog') = n + 1 /\ clog'[n + 1] = e
      /\ \A i \in 1..n : clog'[i] = clog[i] /\ clog[i].page <= page_count /\ clog[i].page \in Nat
  <2>1. clog \in Seq(Entry) /\ \A i \in 1..n : clog[i] \in Entry
    BY Now DEF Stored, StoreTyped
  <2>2. \A i \in 1..n : clog[i].page <= page_count /\ clog[i].page \in Nat
    BY <1>1, <2>1, Now DEF Stored, StoreInv, LogInv, AllCounted, Known, Entry, PageNums
  <2> QED BY <1>3, <2>1, <2>2, Appended
<1>6. /\ DOMAIN th' = Threads /\ \A u \in Threads \ {t} : th'[u] = th[u] /\ Unmoved(u)
      /\ th'[t].pc = "init" /\ th'[t].page = p /\ th'[t].last = th[t].last /\ th'[t].must = th[t].must
      /\ th'[t].mode = th[t].mode /\ th'[t].outer = th[t].outer
  BY <1>4, Now DEF Unmoved
<1>7. Stored'
  <2>1. LogInv'
    BY <1>1, <1>2, <1>3, Now, LogGrows
  <2>2. StoreTyped'
    BY <1>1, <1>2, <1>5, Now DEF Stored, StoreTyped, IsPage
  <2>3. ASSUME NEW q \in PageNums PROVE PageInv(q)'
    <3>1. disk[q].lsn <= flushed /\ pages[q].lsn <= n /\ pages[q].lsn \in Nat
      BY Now DEF Stored, StoreInv, Images, PageInv, StoreTyped, IsPage
    <3>2. pages[q].lsn <= Len(clog')
      BY <1>5, <3>1
    <3> QED BY <1>2, <1>5, <3>1, <3>2, Now, SameImage
  <2> QED BY <2>1, <2>2, <2>3 DEF Stored, StoreInv, Images
<1>8. Threaded(t)'
  BY <1>1, <1>6, Now, ThreadFacts DEF Threaded, At, Steps
<1>9. SyncTyped'
  BY <1>1, <1>2, Now DEF SyncTyped
<1>10. LockOwner'
  BY <1>1, <1>2, <1>6, Now DEF LockOwner, SyncTyped, At
<1>11. Exclusive'
  BY <1>1, <1>2, <1>6, Now DEF Exclusive, At
<1>12. Fresh'
  <2>1. p \notin free_pages /\ \A u \in Threads \ {t} : At(u, {"init", "register", "free"}) => th[u].page # p
    BY Now DEF SyncTyped, Places
  <2>2. ASSUME NEW u \in Threads, At(u, {"init", "register"})'
        PROVE  /\ th'[u].page \notin free_pages'
               /\ \A w \in Threads \ {u} : At(w, {"init", "register", "free"})' => th'[w].page # th'[u].page
    <3>1. CASE u = t
      BY <1>2, <1>6, <2>1, <3>1 DEF At
    <3>2. CASE u # t
      <4>1. At(u, {"init", "register"}) /\ th'[u].page = th[u].page /\ th[u].page \notin free_pages /\ th[u].page # p
        BY <1>6, <2>1, <2>2, <3>2, Now DEF Fresh, At
      <4>2. ASSUME NEW w \in Threads \ {u}, At(w, {"init", "register", "free"})' PROVE th'[w].page # th[u].page
        <5>1. CASE w = t
          BY <1>6, <4>1, <5>1
        <5>2. CASE w # t
          BY <1>6, <4>1, <4>2, <5>2, Now DEF Fresh, At
        <5> QED BY <5>1, <5>2
      <4> QED BY <1>2, <4>1, <4>2
    <3> QED BY <3>1, <3>2
  <2>3. ASSUME NEW u \in Threads, At(u, {"init"})', NEW i \in 1..(n + 1), clog'[i].page = th'[u].page
        PROVE  clog'[i].op = "allocate"
    <3>1. CASE i = n + 1
      BY <1>3, <1>5, <3>1
    <3>2. CASE i \in 1..n /\ u = t
      BY <1>5, <1>6, <2>3, <3>2, Now
    <3>3. CASE i \in 1..n /\ u # t
      <4>1. At(u, {"init"}) /\ clog[i].page = th[u].page /\ clog'[i] = clog[i]
        BY <1>5, <1>6, <2>3, <3>3 DEF At
      <4> QED BY <3>3, <4>1, Now DEF Fresh
    <3> QED BY <1>5, <3>1, <3>2, <3>3
  <2> QED BY <1>5, <2>2, <2>3 DEF Fresh
<1>13. FreeInv'
  <2> SUFFICES ASSUME NEW q \in 1..p, ~ IsFull(pages[q])
               PROVE  \/ q \in free_pages \cup stale
                      \/ \E u \in Threads : th'[u].pc \in {"register", "free"} /\ th'[u].page = q
    BY <1>1, <1>2, Now DEF FreeInv, At, IsFull, Used
  <2>1. q \in PageNums
    BY <1>1, Now DEF PageNums
  <2>2. q \in 1..page_count
    BY <1>1, <2>1, Now, InitedExists DEF IsFull
  <2>3. CASE q \in free_pages \cup stale
    BY <2>3
  <2>4. CASE \E u \in Threads : At(u, {"register", "free"}) /\ th[u].page = q
    BY <1>1, <1>6, <2>4 DEF At
  <2> QED BY <2>2, <2>3, <2>4, Now DEF FreeInv
<1> QED BY <1>1, <1>2, <1>6, <1>7, <1>8, <1>9, <1>10, <1>11, <1>12, <1>13, Now, WriteStep

LEMMA InsertInitKeeps ==
  ASSUME FileInv, NEW t \in Threads, InsertInit(t)
  PROVE  FileInv'
<1> DEFINE p == th[t].page
           e == [op |-> "init", page |-> p, slot |-> 0]
           n == Len(clog)
<1>1. th[t].pc = "init" /\ redo = 0 /\ ~ failed /\ p \in PageNums /\ p <= page_count /\ WriteFree(p)
  BY Now DEF InsertInit, Places, At
<1>2. /\ dirty' = dirty /\ disk' = disk /\ page_count' = page_count /\ free_pages' = free_pages /\ lock' = lock
      /\ latch' = WriteLatched(t, p) /\ flushed' = flushed /\ redo' = redo /\ failed' = failed /\ stale' = stale
  BY DEF InsertInit, up
<1>3. e \in Entry /\ clog' = Append(clog, e) /\ e.op = "init" /\ e.page = p
  BY <1>1 DEF Entry, RecordOperation, InsertInit, AppendLog
<1>4. th' = [th EXCEPT ![t].pc = "register"]
  BY DEF InsertInit, To
<1>5. pages' = [pages EXCEPT ![p] = [init |-> TRUE, slots |-> NoSlots, lsn |-> n + 1]]
  BY DEF InsertInit, NextLsn
<1>N. \A i \in 1..n : clog[i].page = p => clog[i].op = "allocate"
  BY <1>1, Now DEF Fresh, At
<1> HIDE DEF e, p
<1>6. /\ clog' \in Seq(Entry) /\ n \in Nat /\ Len(clog') = n + 1 /\ clog'[n + 1] = e
      /\ \A i \in 1..n : clog'[i] = clog[i]
  BY <1>3, Now, Appended DEF Stored, StoreTyped
<1>7. /\ DOMAIN th' = Threads /\ \A u \in Threads \ {t} : th'[u] = th[u] /\ Unmoved(u)
      /\ th'[t].pc = "register" /\ th'[t].page = p /\ th'[t].last = th[t].last /\ th'[t].must = th[t].must
      /\ th'[t].mode = th[t].mode /\ th'[t].outer = th[t].outer
  BY <1>4, Now DEF Unmoved, p
<1>8. /\ DOMAIN pages' = PageNums /\ \A q \in PageNums \ {p} : pages'[q] = pages[q]
      /\ pages'[p].init = TRUE /\ pages'[p].slots = NoSlots /\ pages'[p].lsn = n + 1
  BY <1>1, <1>5, Now DEF Stored, StoreTyped
<1>9. Stored'
  <2>1. LogInv'
    BY <1>1, <1>2, <1>3, <1>N, Now, LogGrows
  <2>2. \A q \in PageNums : IsPage(pages'[q])
    <3>1. IsPage(pages'[p])
      <4>1. pages'[p].init \in BOOLEAN
        BY <1>8
      <4>2. pages'[p].slots \in [SlotNums -> Nat] /\ pages'[p].lsn \in Nat
        BY <1>6, <1>8 DEF NoSlots
      <4> QED BY <4>1, <4>2 DEF IsPage
    <3> QED BY <1>8, <3>1, Now DEF Stored, StoreTyped
  <2>3. StoreTyped'
    BY <1>2, <1>6, <1>8, <2>2, Now DEF Stored, StoreTyped, IsPage
  <2>4. ASSUME NEW q \in PageNums PROVE PageInv(q)'
    <3>1. disk[q].lsn <= flushed /\ pages[q].lsn <= n /\ pages[q].lsn \in Nat /\ disk[q].lsn <= pages[q].lsn
          /\ disk[q].lsn \in Nat /\ Image(disk[q], q) /\ IsPage(disk[q])
      BY Now DEF Stored, StoreInv, Images, PageInv, StoreTyped, IsPage
    <3>2. CASE q # p
      <4>1. pages[q].lsn <= Len(clog')
        BY <1>6, <3>1
      <4> QED BY <1>2, <1>6, <1>8, <3>1, <3>2, <4>1, Now, SameImage
    <3>3. CASE q = p
      <4>1. ~ disk[p].init
        <5> SUFFICES ASSUME disk[p].init PROVE FALSE
          OBVIOUS
        <5>1. PICK i \in 1..disk[p].lsn : clog[i].op = "init" /\ clog[i].page = p
          BY <3>1, <3>3 DEF Image
        <5>2. i \in 1..n
          BY <1>6, <3>1, <3>3
        <5> QED BY <1>N, <5>1, <5>2
      <4>2. Image(disk[q], q)'
        BY <1>2, <3>1, <3>3, <4>1 DEF Image
      <4>3. Image(pages[q], q)'
        <5>1. n + 1 \in 1..(n + 1)
          BY <1>6
        <5> QED BY <1>3, <1>6, <1>8, <3>3, <5>1 DEF Image
      <4>4. pages'[p].lsn <= Len(clog') /\ disk'[p].lsn <= pages'[p].lsn /\ disk'[p].lsn <= flushed'
        BY <1>2, <1>6, <1>8, <3>1, <3>3
      <4> QED BY <1>2, <1>8, <3>3, <4>1, <4>2, <4>3, <4>4 DEF PageInv
    <3> QED BY <3>2, <3>3
  <2> QED BY <2>1, <2>3, <2>4 DEF Stored, StoreInv, Images
<1>10. Takes(t, p) /\ latch'[p].writer = t
  BY <1>1, <1>2, Now, WriteLatchIs
<1>11. Threaded(t)'
  BY <1>1, <1>2, <1>7, Now, ThreadFacts DEF Threaded, At, Steps, p
<1>12. SyncTyped'
  BY <1>1, <1>2, <1>10, Now, LatchTyped DEF SyncTyped
<1>13. LockOwner'
  BY <1>1, <1>2, <1>7, Now DEF LockOwner, SyncTyped, At
<1>14. Exclusive'
  <2> SUFFICES ASSUME NEW u \in Threads, (th'[u]).pc \in {"register", "put"}
               PROVE  latch'[th'[u].page].writer = u /\ ~ IsFull(pages'[th'[u].page])
    BY DEF Exclusive, At, IsFull, Used
  <2>1. CASE u = t
    <3>1. 1 \in SlotNums /\ Used(pages'[p]) = {}
      BY <1>8, RecordFileAssumption DEF Used, NoSlots, SlotNums
    <3> QED BY <1>7, <1>8, <1>10, <2>1, <3>1 DEF IsFull
  <2>2. CASE u # t
    <3>1. th'[u] = th[u] /\ latch[th[u].page].writer = u /\ ~ IsFull(pages[th[u].page]) /\ th[u].page \in PageNums
      BY <1>7, <2>2, Now DEF Exclusive, Places, At
    <3>2. th[u].page # p
      BY <1>1, <3>1, Now DEF WriteFree, Unlatched
    <3> QED BY <1>1, <1>8, <1>10, <2>2, <3>1, <3>2, Now, OthersKeep
  <2> QED BY <2>1, <2>2
<1>15. Fresh'
  <2>1. p \notin free_pages /\ \A u \in Threads \ {t} : At(u, {"init", "register", "free"}) => th[u].page # p
    BY <1>1, Now DEF Fresh, At, p
  <2>2. ASSUME NEW u \in Threads, At(u, {"init", "register"})'
        PROVE  /\ th'[u].page \notin free_pages'
               /\ \A w \in Threads \ {u} : At(w, {"init", "register", "free"})' => th'[w].page # th'[u].page
    <3>1. CASE u = t
      BY <1>2, <1>7, <2>1, <3>1 DEF At
    <3>2. CASE u # t
      <4>1. At(u, {"init", "register"}) /\ th'[u].page = th[u].page /\ th[u].page \notin free_pages /\ th[u].page # p
        BY <1>7, <2>1, <2>2, <3>2, Now DEF Fresh, At
      <4>2. ASSUME NEW w \in Threads \ {u}, At(w, {"init", "register", "free"})' PROVE th'[w].page # th[u].page
        <5>1. CASE w = t
          BY <1>7, <4>1, <5>1
        <5>2. CASE w # t
          BY <1>7, <4>1, <4>2, <5>2, Now DEF Fresh, At
        <5> QED BY <5>1, <5>2
      <4> QED BY <1>2, <4>1, <4>2
    <3> QED BY <3>1, <3>2
  <2>3. ASSUME NEW u \in Threads, At(u, {"init"})', NEW i \in 1..(n + 1), clog'[i].page = th'[u].page
        PROVE  clog'[i].op = "allocate"
    <3>1. u # t /\ At(u, {"init"}) /\ th'[u] = th[u] /\ th[u].page # p
      BY <1>7, <2>1, <2>3 DEF At
    <3>2. i \in 1..n /\ clog'[i] = clog[i]
      BY <1>3, <1>6, <2>3, <3>1
    <3> QED BY <2>3, <3>1, <3>2, Now DEF Fresh
  <2> QED BY <1>6, <2>2, <2>3 DEF Fresh
<1>16. FreeInv'
  <2> SUFFICES ASSUME NEW q \in 1..page_count, ~ IsFull(pages'[q]), q # p
               PROVE  \/ q \in free_pages \cup stale
                      \/ \E u \in Threads : th'[u].pc \in {"register", "free"} /\ th'[u].page = q
    BY <1>2, <1>7, Now DEF FreeInv, At, IsFull, Used
  <2>1. ~ IsFull(pages[q])
    <3>1. q \in PageNums
      BY Now DEF PageNums
    <3> QED BY <1>8, <3>1
  <2>2. CASE q \in free_pages \cup stale
    BY <2>2
  <2>3. CASE \E u \in Threads : At(u, {"register", "free"}) /\ th[u].page = q
    BY <1>1, <1>7, <2>3 DEF At
  <2> QED BY <2>1, <2>2, <2>3, Now DEF FreeInv
<1> QED BY <1>1, <1>2, <1>7, <1>9, <1>11, <1>12, <1>13, <1>14, <1>15, <1>16, Now, WriteStep

-----------------------------------------------------------------------------
(* Steps of the log's thread and of the buffer pool: no thread moves.       *)
LEMMA StillStep ==
  ASSUME FileInv, UNCHANGED <<th, lock, latch, free_pages>>, page_count' \in Nat, page_count' >= page_count,
         redo' > 0 \/ failed' => redo > 0 \/ failed, Exclusive', Fresh'
  PROVE  Moving'
<1>1. th' = th /\ lock' = lock /\ latch' = latch /\ free_pages' = free_pages
  OBVIOUS
<1>2. ASSUME NEW t \in Threads PROVE Threaded(t)'
  BY <1>1, <1>2, Now, ThreadFacts DEF Threaded, At
<1>3. Places'
  <2>1. ASSUME NEW t \in Threads, redo' > 0 \/ failed' PROVE At(t, {"idle"})'
    BY <1>1, <2>1, Now DEF Places, At
  <2> QED BY <1>2, <2>1 DEF Places, Threaded
<1>4. LockOwner'
  BY <1>1, Now DEF LockOwner, At
<1>5. ScanMissesNothing'
  BY <1>2 DEF ScanMissesNothing, Threaded
<1>6. ThreadTyped'
  BY <1>1, <1>2, Now DEF ThreadTyped, SyncTyped, Threaded
<1> QED BY <1>3, <1>4, <1>5, <1>6 DEF Moving, ThreadInv

\* What a step may rely on about the log, and about one page.
LEMMA LogFacts ==
  ASSUME Stored
  PROVE  /\ clog \in Seq(Entry) /\ Len(clog) \in Nat /\ flushed \in Nat /\ flushed <= Len(clog)
         /\ redo \in Nat /\ redo <= Len(clog) + 1 /\ DOMAIN pages = PageNums /\ DOMAIN disk = PageNums
         /\ dirty \subseteq PageNums /\ page_count \in Nat /\ page_count <= PageBound /\ failed \in BOOLEAN
         /\ \A i \in 1..Len(clog) : clog[i] \in Entry /\ clog[i].page \in PageNums /\ clog[i].page \in Nat
         /\ AllocFirst /\ AllocInOrder /\ InitFirst /\ AllCounted /\ AllLogged
<1>1. clog \in Seq(Entry) /\ Len(clog) \in Nat /\ \A i \in 1..Len(clog) : clog[i] \in Entry
  BY DEF Stored, StoreTyped
<1>2. \A i \in 1..Len(clog) : clog[i].page \in PageNums /\ clog[i].page \in Nat
  BY <1>1 DEF Entry, PageNums
<1> QED BY <1>1, <1>2, RecordFileAssumption DEF Stored, StoreTyped, StoreInv, LogInv

LEMMA PageFacts ==
  ASSUME Stored, NEW q \in PageNums
  PROVE  /\ PageInv(q) /\ IsPage(pages[q]) /\ IsPage(disk[q]) /\ pages[q].lsn \in Nat /\ disk[q].lsn \in Nat
         /\ disk[q].lsn <= flushed /\ disk[q].lsn <= pages[q].lsn /\ pages[q].lsn <= Len(clog)
         /\ Image(pages[q], q) /\ Image(disk[q], q)
BY DEF Stored, StoreInv, Images, PageInv, StoreTyped, IsPage

LEMMA SameLog ==
  ASSUME LogInv, clog' = clog, page_count' = page_count, redo' = redo
  PROVE  LogInv'
<1>1. Known' = Known
  BY DEF Known
<1>2. AllocFirst' /\ AllocInOrder' /\ InitFirst'
  BY DEF LogInv, AllocFirst, AllocInOrder, InitFirst
<1>3. AllCounted' /\ AllLogged'
  BY <1>1 DEF LogInv, AllCounted, AllLogged
<1> QED BY <1>2, <1>3 DEF LogInv

LEMMA LogFlushKeeps ==
  ASSUME FileInv, LogFlush
  PROVE  FileInv'
<1>1. /\ pages' = pages /\ dirty' = dirty /\ disk' = disk /\ page_count' = page_count /\ clog' = clog
      /\ free_pages' = free_pages /\ lock' = lock /\ latch' = latch /\ th' = th /\ redo' = redo
      /\ failed' = failed /\ stale' = stale /\ flushed < Len(clog) /\ flushed' = flushed + 1
  BY DEF LogFlush, store, sync, up
<1>2. Stored'
  <2>1. StoreTyped'
    BY <1>1, Now, LogFacts DEF Stored, StoreTyped, IsPage
  <2>2. LogInv'
    BY <1>1, Now, SameLog DEF Stored, StoreInv
  <2>3. ASSUME NEW q \in PageNums PROVE PageInv(q)'
    <3>1. disk[q].lsn <= flushed' /\ pages[q].lsn <= Len(clog')
      BY <1>1, Now, LogFacts, PageFacts
    <3> QED BY <1>1, <3>1, Now, LogFacts, PageFacts, SameImage
  <2> QED BY <2>1, <2>2, <2>3 DEF Stored, StoreInv, Images
<1>3. Exclusive' /\ Fresh'
  BY <1>1, Now DEF Exclusive, Fresh, At
<1>4. FreeInv'
  BY <1>1, Now DEF FreeInv, At
<1>5. Moving'
  BY <1>1, <1>3, Now, StillStep
<1> QED BY <1>2, <1>4, <1>5, Parts

LEMMA PageFlushKeeps ==
  ASSUME FileInv, NEW p \in PageNums, PageFlush(p)
  PROVE  FileInv'
<1>1. /\ pages' = pages /\ page_count' = page_count /\ clog' = clog /\ flushed' = flushed
      /\ free_pages' = free_pages /\ lock' = lock /\ latch' = latch /\ th' = th /\ redo' = redo
      /\ failed' = failed /\ stale' = stale /\ dirty' = dirty \ {p} /\ flushed >= pages[p].lsn
      /\ disk' = [disk EXCEPT ![p] = pages[p]]
  BY DEF PageFlush, sync, logs, up
<1>2. DOMAIN disk' = PageNums /\ disk'[p] = pages[p] /\ \A q \in PageNums \ {p} : disk'[q] = disk[q]
  BY <1>1, Now, LogFacts
<1>3. Stored'
  <2>1. \A q \in PageNums : IsPage(disk'[q])
    BY <1>2, Now, PageFacts
  <2>2. StoreTyped'
    BY <1>1, <1>2, <2>1, Now DEF Stored, StoreTyped, IsPage
  <2>3. LogInv'
    BY <1>1, Now, SameLog DEF Stored, StoreInv
  <2>4. ASSUME NEW q \in PageNums PROVE PageInv(q)'
    <3>1. CASE q = p
      BY <1>1, <1>2, <3>1, Now, PageFacts DEF PageInv, Image
    <3>2. CASE q # p
      BY <1>1, <1>2, <3>2, Now, LogFacts, PageFacts, SameImage
    <3> QED BY <3>1, <3>2
  <2> QED BY <2>2, <2>3, <2>4 DEF Stored, StoreInv, Images
<1>4. Exclusive' /\ Fresh'
  BY <1>1, Now DEF Exclusive, Fresh, At
<1>5. FreeInv'
  BY <1>1, Now DEF FreeInv, At
<1>6. Moving'
  BY <1>1, <1>4, Now, StillStep
<1> QED BY <1>3, <1>5, <1>6, Parts

LEMMA PageEvictKeeps ==
  ASSUME FileInv, NEW p \in PageNums, PageEvict(p)
  PROVE  FileInv'
<1>1. /\ page_count' = page_count /\ clog' = clog /\ flushed' = flushed /\ disk' = disk /\ dirty' = dirty
      /\ free_pages' = free_pages /\ lock' = lock /\ latch' = latch /\ th' = th /\ redo' = redo
      /\ failed' = failed /\ stale' = stale /\ p \notin dirty /\ WriteFree(p) /\ pages[p] # disk[p]
      /\ pages' = [pages EXCEPT ![p] = disk[p]]
  BY DEF PageEvict, sync, logs, up
<1>2. DOMAIN pages' = PageNums /\ pages'[p] = disk[p] /\ \A q \in PageNums \ {p} : pages'[q] = pages[q]
  BY <1>1, Now, LogFacts
<1>3. ~ disk[p].init /\ IsFull(disk[p])
  BY <1>1, Now, PageFacts DEF PageInv, IsFull
<1>4. Stored'
  <2>1. \A q \in PageNums : IsPage(pages'[q])
    BY <1>2, Now, PageFacts
  <2>2. StoreTyped'
    BY <1>1, <1>2, <2>1, Now DEF Stored, StoreTyped, IsPage
  <2>3. LogInv'
    BY <1>1, Now, SameLog DEF Stored, StoreInv
  <2>4. ASSUME NEW q \in PageNums PROVE PageInv(q)'
    <3>1. CASE q = p
      <4>1. disk[p].lsn <= Len(clog)
        BY Now, LogFacts, PageFacts
      <4> QED BY <1>1, <1>2, <3>1, <4>1, Now, PageFacts DEF PageInv, Image
    <3>2. CASE q # p
      BY <1>1, <1>2, <3>2, Now, LogFacts, PageFacts, SameImage
    <3> QED BY <3>1, <3>2
  <2> QED BY <2>2, <2>3, <2>4 DEF Stored, StoreInv, Images
<1>5. Exclusive'
  <2> SUFFICES ASSUME NEW u \in Threads, At(u, {"register", "put"})
               PROVE  latch[th[u].page].writer = u /\ ~ IsFull(pages'[th[u].page])
    BY <1>1 DEF Exclusive, At, IsFull, Used
  <2>1. latch[th[u].page].writer = u /\ ~ IsFull(pages[th[u].page]) /\ th[u].page \in PageNums
    BY Now DEF Exclusive, Places, At
  <2>2. th[u].page # p
    BY <1>1, <2>1, Now DEF WriteFree, Unlatched
  <2> QED BY <1>2, <2>1, <2>2
<1>6. Fresh'
  BY <1>1, Now DEF Fresh, At
<1>7. FreeInv'
  <2> SUFFICES ASSUME NEW q \in 1..page_count, ~ IsFull(pages'[q])
               PROVE  q \in free_pages \cup stale \/ \E t \in Threads : At(t, {"register", "free"}) /\ th[t].page = q
    BY <1>1 DEF FreeInv, At, IsFull, Used
  <2>1. q \in PageNums
    BY Now DEF PageNums
  <2>2. pages'[q] = pages[q]
    BY <1>2, <1>3, <2>1
  <2> QED BY <2>2, Now DEF FreeInv
<1>8. Moving'
  BY <1>1, <1>5, <1>6, Now, StillStep
<1> QED BY <1>4, <1>7, <1>8, Parts

-----------------------------------------------------------------------------
(* A crash, and redo.                                                       *)
LEMMA CrashKeeps ==
  ASSUME FileInv, Crash
  PROVE  FileInv'
<1>1. PICK n \in {0} \cup {clog[i].page : i \in {j \in 1..flushed : clog[j].op = "allocate"}} :
        page_count' = n /\ free_pages' = {p \in 1..n : ~ IsFull(disk[p])}
  BY DEF Crash
<1>2. /\ pages' = disk /\ disk' = disk /\ dirty' = {} /\ clog' = SubSeq(clog, 1, flushed) /\ flushed' = flushed
      /\ lock' = None /\ latch' = [p \in PageNums |-> Unlatched] /\ th' = [t \in Threads |-> Idle]
      /\ redo' = 1 /\ stale' = {} /\ failed' = FALSE
  BY DEF Crash
<1>3. Stored
  BY Now
<1>4. /\ clog' \in Seq(Entry) /\ Len(clog') = flushed
      /\ \A i \in 1..flushed : clog'[i] = clog[i] /\ i \in 1..Len(clog)
  BY <1>2, <1>3, LogFacts
<1>5. n = 0 \/ \E i \in 1..flushed : clog[i].op = "allocate" /\ clog[i].page = n /\ n \in PageNums
  <2>1. CASE n # 0
    <3>1. PICK i \in {j \in 1..flushed : clog[j].op = "allocate"} : n = clog[i].page
      BY <1>1, <2>1
    <3> QED BY <1>3, <1>4, <3>1, LogFacts
  <2> QED BY <2>1
<1>6. n \in 0..PageBound /\ n \in Nat
  BY <1>5, RecordFileAssumption DEF PageNums
<1>7. Stored'
  <2>1. StoreTyped'
    <3>1. flushed' \in 0..Len(clog') /\ redo' \in 0..(Len(clog') + 1)
      BY <1>2, <1>3, <1>4, LogFacts
    <3>2. \A q \in PageNums : IsPage(pages'[q]) /\ IsPage(disk'[q])
      BY <1>2, <1>3 DEF Stored, StoreTyped
    <3>3. DOMAIN pages' = PageNums /\ DOMAIN disk' = PageNums /\ dirty' \subseteq PageNums /\ failed' \in BOOLEAN
      BY <1>2, <1>3, LogFacts
    <3> QED BY <1>1, <1>4, <1>6, <3>1, <3>2, <3>3 DEF StoreTyped, IsPage
  <2>2. AllocFirst'
    <3> SUFFICES ASSUME NEW i \in 1..flushed
                 PROVE  \E j \in 1..i : clog'[j].op = "allocate" /\ clog'[j].page = clog'[i].page
      BY <1>4 DEF AllocFirst
    <3>1. PICK j \in 1..i : clog[j].op = "allocate" /\ clog[j].page = clog[i].page
      BY <1>3, <1>4, LogFacts DEF AllocFirst
    <3>2. j \in 1..flushed
      BY <1>3, LogFacts
    <3> QED BY <1>4, <3>1, <3>2
  <2>3. AllocInOrder'
    <3> SUFFICES ASSUME NEW i \in 1..flushed, clog[i].op = "allocate", NEW q \in 1..(clog[i].page - 1)
                 PROVE  \E j \in 1..(i - 1) : clog'[j].op = "allocate" /\ clog'[j].page = q
      BY <1>4 DEF AllocInOrder
    <3>1. PICK j \in 1..(i - 1) : clog[j].op = "allocate" /\ clog[j].page = q
      BY <1>3, <1>4, LogFacts DEF AllocInOrder
    <3>2. j \in 1..flushed
      BY <1>3, LogFacts
    <3> QED BY <1>4, <3>1, <3>2
  <2>4. InitFirst'
    BY <1>3, <1>4, LogFacts DEF InitFirst
  <2>5. AllCounted'
    BY <1>2 DEF AllCounted, Known
  <2>6. AllLogged'
    <3> SUFFICES ASSUME NEW q \in 1..n
                 PROVE  \E j \in 1..flushed : clog'[j].op = "allocate" /\ clog'[j].page = q
      BY <1>1, <1>4 DEF AllLogged
    <3>1. PICK i \in 1..flushed : clog[i].op = "allocate" /\ clog[i].page = n
      BY <1>5, <1>6
    <3>2. CASE q = n
      BY <1>4, <3>1, <3>2
    <3>3. CASE q # n
      <4>1. q \in 1..(clog[i].page - 1)
        BY <1>6, <3>1, <3>3
      <4>2. PICK j \in 1..(i - 1) : clog[j].op = "allocate" /\ clog[j].page = q
        BY <1>3, <1>4, <3>1, <4>1, LogFacts DEF AllocInOrder
      <4>3. j \in 1..flushed
        BY <1>3, LogFacts
      <4> QED BY <1>4, <4>2, <4>3
    <3> QED BY <3>2, <3>3
  <2>7. ASSUME NEW q \in PageNums PROVE PageInv(q)'
    <3>1. Image(disk[q], q) /\ disk[q].lsn <= flushed /\ disk[q].lsn \in Nat /\ flushed \in Nat
      BY <1>3, LogFacts, PageFacts
    <3>2. Image(disk[q], q)'
      BY <1>2, <1>4, <3>1, ImageStays DEF Image
    <3> QED BY <1>2, <1>4, <3>1, <3>2 DEF PageInv, Image
  <2> QED BY <2>1, <2>2, <2>3, <2>4, <2>5, <2>6, <2>7 DEF Stored, StoreInv, LogInv, Images
<1>8. FreeInv'
  BY <1>1, <1>2 DEF FreeInv, IsFull, Used
<1>9. \A t \in Threads : th'[t] = Idle
  BY <1>2
<1>10. Places' /\ LockOwner' /\ Exclusive' /\ Fresh' /\ ScanMissesNothing'
  BY <1>2, <1>9 DEF Places, LockOwner, Exclusive, Fresh, ScanMissesNothing, At, Idle, NoPage
<1>11. ThreadTyped'
  BY <1>1, <1>2, <1>6, <1>9, RecordFileAssumption DEF ThreadTyped, Idle, Unlatched, Steps, NoPage
<1> QED BY <1>7, <1>8, <1>10, <1>11, Parts DEF Moving, ThreadInv

LEMMA RedoDoneKeeps ==
  ASSUME FileInv, RedoDone
  PROVE  FileInv'
<1>1. /\ pages' = pages /\ dirty' = dirty /\ disk' = disk /\ page_count' = page_count /\ clog' = clog
      /\ free_pages' = free_pages /\ lock' = lock /\ latch' = latch /\ th' = th /\ redo' = 0
      /\ failed' = failed /\ stale' = stale /\ flushed' = flushed /\ redo > Len(clog)
  BY DEF RedoDone, store, sync, logs
<1>2. Known' = Known
  BY <1>1, Now, LogFacts DEF Known
<1>3. Stored'
  <2>1. StoreTyped'
    BY <1>1, Now, LogFacts DEF Stored, StoreTyped, IsPage
  <2>2. AllocFirst' /\ AllocInOrder' /\ InitFirst'
    BY <1>1, Now, LogFacts DEF AllocFirst, AllocInOrder, InitFirst
  <2>3. AllCounted' /\ AllLogged'
    BY <1>1, <1>2, Now, LogFacts DEF AllCounted, AllLogged
  <2>4. ASSUME NEW q \in PageNums PROVE PageInv(q)'
    BY <1>1, Now, LogFacts, PageFacts, SameImage
  <2> QED BY <2>1, <2>2, <2>3, <2>4 DEF Stored, StoreInv, LogInv, Images
<1>4. Exclusive' /\ Fresh'
  BY <1>1, Now DEF Exclusive, Fresh, At
<1>5. FreeInv'
  BY <1>1, Now DEF FreeInv, At
<1>6. Moving'
  BY <1>1, <1>4, Now, LogFacts, StillStep
<1> QED BY <1>3, <1>5, <1>6, Parts

\* Replay of one entry: the counted pages grow one by one, and a page that is
\* changed is one that redo knows about.
LEMMA RedoStep ==
  ASSUME FileInv, redo \in 1..Len(clog), redo' = redo + 1, ~ failed,
         UNCHANGED <<disk, free_pages, lock, latch, clog, flushed, th>>,
         page_count' \in Nat, page_count' >= page_count, page_count' <= PageBound,
         clog[redo].page <= page_count', stale \subseteq stale', dirty' \subseteq PageNums, failed' \in BOOLEAN,
         \A q \in 1..page_count' : q \in 1..page_count \/ (q \in stale' /\ q = clog[redo].page),
         \A q \in PageNums : IsPage(pages'[q]) /\ PageInv(q)', DOMAIN pages' = PageNums,
         \A q \in PageNums : pages'[q] = pages[q] \/ q \in stale'
  PROVE  FileInv'
<1>1. Stored
  BY Now
<1>2. Stored'
  <2>1. StoreTyped'
    BY <1>1, LogFacts DEF Stored, StoreTyped, IsPage
  <2>2. AllocFirst' /\ AllocInOrder' /\ InitFirst'
    BY <1>1, LogFacts DEF AllocFirst, AllocInOrder, InitFirst
  <2>3. AllCounted'
    <3>1. Known = redo - 1 /\ Known' = redo
      BY <1>1, LogFacts DEF Known
    <3>2. ASSUME NEW i \in 1..redo PROVE clog[i].page <= page_count'
      <4>1. CASE i = redo
        BY <4>1
      <4>2. CASE i \in 1..(redo - 1)
        <5>1. clog[i].page <= page_count /\ i \in 1..Len(clog)
          BY <1>1, <3>1, <4>2, LogFacts DEF AllCounted
        <5> QED BY <1>1, <5>1, LogFacts
      <4> QED BY <4>1, <4>2
    <3> QED BY <3>1, <3>2 DEF AllCounted
  <2>4. AllLogged'
    <3> SUFFICES ASSUME NEW q \in 1..page_count'
                 PROVE  \E j \in 1..Len(clog) : clog[j].op = "allocate" /\ clog[j].page = q
      BY DEF AllLogged
    <3>1. CASE q \in 1..page_count
      BY <1>1, <3>1, LogFacts DEF AllLogged
    <3>2. CASE q = clog[redo].page
      <4>1. PICK j \in 1..redo : clog[j].op = "allocate" /\ clog[j].page = q
        BY <1>1, <3>2, LogFacts DEF AllocFirst
      <4>2. j \in 1..Len(clog)
        BY <1>1, LogFacts
      <4> QED BY <4>1, <4>2
    <3> QED BY <3>1, <3>2
  <2> QED BY <2>1, <2>2, <2>3, <2>4 DEF Stored, StoreInv, LogInv, Images
<1>3. \A t \in Threads : th[t].pc = "idle"
  BY <1>1, Now, LogFacts
<1>4. Exclusive' /\ Fresh'
  BY <1>3 DEF Exclusive, Fresh, At
<1>5. FreeInv'
  <2> SUFFICES ASSUME NEW q \in 1..page_count', ~ IsFull(pages'[q])
               PROVE  q \in free_pages \cup stale'
    BY DEF FreeInv, At, IsFull, Used
  <2>1. CASE q \in stale'
    BY <2>1
  <2>2. CASE q \notin stale'
    <3>1. q \in 1..page_count /\ q \in PageNums
      BY <2>2, Now DEF PageNums
    <3>2. pages'[q] = pages[q]
      BY <2>2, <3>1
    <3> QED BY <1>3, <2>2, <3>1, <3>2, Now DEF FreeInv, At
  <2> QED BY <2>1, <2>2
<1>6. Moving'
  BY <1>1, <1>4, LogFacts, StillStep
<1> QED BY <1>2, <1>5, <1>6, Parts

LEMMA MaxTwo ==
  ASSUME NEW a \in Nat, NEW b \in Nat
  PROVE  Max({a, b}) \in {a, b} /\ Max({a, b}) >= a /\ Max({a, b}) >= b
<1>1. \E x \in {a, b} : \A y \in {a, b} : x >= y
  OBVIOUS
<1> QED BY <1>1 DEF Max

\* The page of an entry is counted when redo comes to it, unless the entry is
\* the allocation of the next page.
LEMMA RedoPage ==
  ASSUME FileInv, redo \in 1..Len(clog)
  PROVE  /\ clog[redo].page \in PageNums /\ clog[redo].page \in Nat /\ clog[redo].page <= page_count + 1
         /\ clog[redo].op # "allocate" => clog[redo].page <= page_count
<1> DEFINE p == clog[redo].page
<1>1. /\ Stored /\ p \in PageNums /\ p \in Nat /\ page_count \in Nat /\ redo \in Nat /\ Len(clog) \in Nat
      /\ \A j \in 1..(redo - 1) : clog[j].page <= page_count
  BY Now, LogFacts DEF AllCounted, Known
<1>2. ASSUME clog[redo].op # "allocate" PROVE p <= page_count
  <2>1. PICK j \in 1..redo : clog[j].op = "allocate" /\ clog[j].page = p
    BY <1>1, LogFacts DEF AllocFirst
  <2>2. j \in 1..(redo - 1)
    BY <1>1, <1>2, <2>1
  <2> QED BY <1>1, <2>1, <2>2
<1>3. ASSUME clog[redo].op = "allocate", p > page_count + 1 PROVE FALSE
  <2>1. p - 1 \in 1..(p - 1) /\ ~ (p - 1 <= page_count)
    BY <1>1, <1>3
  <2>2. PICK j \in 1..(redo - 1) : clog[j].page = p - 1
    BY <1>1, <1>3, <2>1, LogFacts DEF AllocInOrder
  <2> QED BY <1>1, <2>1, <2>2
<1> QED BY <1>1, <1>2, <1>3

\* What the replay of an entry does to its page.
LEMMA ReplayedIs ==
  ASSUME NEW pg, IsPage(pg), NEW e \in Entry, e.op # "allocate",
         NEW lsn \in Nat, ~ ReplayFails(pg, e), ~ pg.init => pg.slots = NoSlots
  PROVE  /\ IsPage(Replayed(pg, e, lsn)) /\ Replayed(pg, e, lsn).init /\ Replayed(pg, e, lsn).lsn = lsn
         /\ e.op = "init" => Replayed(pg, e, lsn).slots = NoSlots
         /\ e.op # "init" => pg.init
<1>1. e.op \in {"init", "insert", "delete", "update"}
  BY DEF Entry, RecordOperation
<1>2. e.op # "init" => e.slot \in SlotNums
  BY DEF Entry, RecordOperation
<1>3. pg.slots \in [SlotNums -> Nat]
  BY DEF IsPage
<1>4. ASSUME NEW s \in SlotNums, NEW v \in Nat, NEW R, R = Written(pg, s, v, lsn), pg.init
      PROVE  IsPage(R) /\ R.init /\ R.lsn = lsn
  <2>1. R.init = pg.init /\ R.lsn = lsn /\ R.slots = [pg.slots EXCEPT ![s] = v]
    BY <1>4 DEF Written
  <2>2. R.init \in BOOLEAN /\ R.init
    BY <1>4, <2>1 DEF IsPage
  <2>3. R.slots \in [SlotNums -> Nat] /\ R.lsn \in Nat
    BY <1>3, <2>1
  <2> QED BY <2>1, <2>2, <2>3 DEF IsPage
<1>5. CASE e.op = "init"
  <2>1. Replayed(pg, e, lsn) = [init |-> TRUE, slots |-> NoSlots, lsn |-> lsn]
    BY <1>5 DEF Replayed
  <2>2. NoSlots \in [SlotNums -> Nat]
    BY DEF NoSlots
  <2> QED BY <1>5, <2>1, <2>2 DEF IsPage
<1>6. CASE e.op = "insert"
  <2>1. ~ IsFull(pg)
    BY <1>6 DEF ReplayFails
  <2>2. FirstFree(pg) \in SlotNums /\ pg.init
    BY <1>3, <2>1, FirstFreeIs
  <2>3. Replayed(pg, e, lsn) = Written(pg, FirstFree(pg), lsn, lsn)
    BY <1>6 DEF Replayed
  <2> QED BY <1>4, <1>6, <2>2, <2>3
<1>7. CASE e.op \in {"delete", "update"}
  <2>1. pg.slots[e.slot] # 0
    BY <1>7 DEF ReplayFails
  <2>2. e.slot \in SlotNums
    BY <1>2, <1>7
  <2>3. pg.init
    BY <2>1, <2>2 DEF NoSlots
  <2>4. \E v \in Nat : Replayed(pg, e, lsn) = Written(pg, e.slot, v, lsn)
    <3>1. CASE e.op = "delete"
      BY <3>1 DEF Replayed
    <3>2. CASE e.op = "update"
      BY <3>2 DEF Replayed
    <3> QED BY <1>7, <3>1, <3>2
  <2>5. PICK v \in Nat : Replayed(pg, e, lsn) = Written(pg, e.slot, v, lsn)
    BY <2>4
  <2> QED BY <1>4, <1>7, <2>2, <2>3, <2>5
<1> QED BY <1>1, <1>5, <1>6, <1>7

LEMMA RedoAllocateKeeps ==
  ASSUME FileInv, Redo, clog[redo].op = "allocate"
  PROVE  FileInv'
<1> DEFINE p == clog[redo].page
<1>1. /\ redo \in 1..Len(clog) /\ redo' = redo + 1 /\ ~ failed
      /\ disk' = disk /\ free_pages' = free_pages /\ lock' = lock /\ latch' = latch /\ th' = th
      /\ clog' = clog /\ flushed' = flushed /\ pages' = pages /\ dirty' = dirty /\ failed' = failed
      /\ page_count' = Max({page_count, p}) /\ stale' = IF p > page_count THEN stale \cup {p} ELSE stale
  BY Now, LogFacts DEF Redo, sync, logs
<1>2. p \in PageNums /\ p \in Nat /\ p <= page_count + 1 /\ page_count \in Nat /\ page_count <= PageBound
  BY <1>1, Now, RedoPage
<1> HIDE DEF p
<1>3. /\ page_count' \in {page_count, p} /\ page_count' >= page_count /\ page_count' >= p
      /\ page_count' \in Nat /\ page_count' <= PageBound
  BY <1>1, <1>2, MaxTwo DEF PageNums
<1>4. \A q \in 1..page_count' : q \in 1..page_count \/ (q \in stale' /\ q = p)
  BY <1>1, <1>2, <1>3
<1>5. stale \subseteq stale'
  BY <1>1
<1>6. ASSUME NEW q \in PageNums PROVE IsPage(pages'[q]) /\ PageInv(q)'
  BY <1>1, Now, LogFacts, PageFacts, SameImage
<1>7. DOMAIN pages' = PageNums /\ dirty' \subseteq PageNums /\ failed' \in BOOLEAN
  BY <1>1, Now, LogFacts
<1> QED BY <1>1, <1>3, <1>4, <1>5, <1>6, <1>7, RedoStep DEF p

LEMMA RedoOtherKeeps ==
  ASSUME FileInv, Redo, clog[redo].op # "allocate"
  PROVE  FileInv'
<1> DEFINE p == clog[redo].page
           R == Replayed(pages[p], clog[redo], redo)
<1>1. /\ redo \in 1..Len(clog) /\ redo' = redo + 1 /\ ~ failed
      /\ disk' = disk /\ free_pages' = free_pages /\ lock' = lock /\ latch' = latch /\ th' = th
      /\ clog' = clog /\ flushed' = flushed /\ page_count' = page_count
  BY Now, LogFacts DEF Redo, sync, logs
<1>2. \/ pages' = pages /\ dirty' = dirty /\ stale' = stale /\ failed' \in {failed, TRUE}
      \/ /\ ~ Skipped(pages[p], redo) /\ ~ ReplayFails(pages[p], clog[redo])
         /\ pages' = [pages EXCEPT ![p] = R]
         /\ dirty' = IF clog[redo].op = "init" THEN dirty ELSE dirty \cup {p}
         /\ stale' = stale \cup {p} /\ failed' = failed
  BY DEF Redo
<1>3. p \in PageNums /\ p <= page_count /\ page_count \in Nat /\ page_count <= PageBound
  BY <1>1, Now, RedoPage
<1>4. \A q \in 1..page_count' : q \in 1..page_count
  BY <1>1
<1>5. CASE pages' = pages /\ dirty' = dirty /\ stale' = stale /\ failed' \in {failed, TRUE}
  <2>1. ASSUME NEW q \in PageNums PROVE IsPage(pages'[q]) /\ PageInv(q)'
    BY <1>1, <1>5, Now, LogFacts, PageFacts, SameImage
  <2>2. DOMAIN pages' = PageNums /\ dirty' \subseteq PageNums
    BY <1>5, Now, LogFacts
  <2>3. failed' \in BOOLEAN
    BY <1>5, Now, LogFacts
  <2> QED BY <1>1, <1>3, <1>4, <1>5, <2>1, <2>2, <2>3, RedoStep
<1>6. CASE /\ ~ Skipped(pages[p], redo) /\ ~ ReplayFails(pages[p], clog[redo])
           /\ pages' = [pages EXCEPT ![p] = R]
           /\ dirty' = IF clog[redo].op = "init" THEN dirty ELSE dirty \cup {p}
           /\ stale' = stale \cup {p} /\ failed' = failed
  <2>1. clog[redo] \in Entry /\ redo \in Nat /\ Len(clog) \in Nat
    BY <1>1, Now, LogFacts
  <2>2. /\ IsPage(pages[p]) /\ pages[p].lsn \in Nat /\ disk[p].lsn \in Nat /\ disk[p].lsn <= flushed
        /\ disk[p].lsn <= pages[p].lsn /\ pages[p].lsn <= Len(clog)
        /\ Image(pages[p], p) /\ Image(disk[p], p)
    <3> HIDE DEF p
    <3> QED BY <1>3, Now, PageFacts
  <2>3. ~ pages[p].init => pages[p].slots = NoSlots
    BY <2>2 DEF Image
  <2>4. pages[p].lsn < redo
    BY <1>6, <2>1, <2>2 DEF Skipped
  <2>5. /\ IsPage(R) /\ R.init /\ R.lsn = redo
        /\ clog[redo].op = "init" => R.slots = NoSlots
        /\ clog[redo].op # "init" => pages[p].init
    <3> DEFINE e == clog[redo]
    <3>1. e \in Entry /\ e.op # "allocate" /\ ~ ReplayFails(pages[p], e)
      BY <1>6, <2>1
    <3> HIDE DEF e
    <3>2. /\ IsPage(Replayed(pages[p], e, redo)) /\ Replayed(pages[p], e, redo).init
          /\ Replayed(pages[p], e, redo).lsn = redo
          /\ e.op = "init" => Replayed(pages[p], e, redo).slots = NoSlots
          /\ e.op # "init" => pages[p].init
      BY <2>1, <2>2, <2>3, <3>1, ReplayedIs
    <3> QED BY <3>2 DEF e
  <2> HIDE DEF R
  <2>6. DOMAIN pages' = PageNums /\ pages'[p] = R /\ \A q \in PageNums \ {p} : pages'[q] = pages[q]
    BY <1>3, <1>6, Now, LogFacts
  <2>7. dirty \subseteq dirty' /\ dirty' \subseteq PageNums /\ failed' \in BOOLEAN
    BY <1>3, <1>6, Now, LogFacts
  <2>8. clog[redo].op = "init" => ~ disk[p].init
    <3> SUFFICES ASSUME clog[redo].op = "init", disk[p].init PROVE FALSE
      OBVIOUS
    <3>1. PICK i \in 1..disk[p].lsn : clog[i].op = "init" /\ clog[i].page = p
      BY <2>1, <2>2, <2>4 DEF Image
    <3>2. i \in 1..Len(clog) /\ i < redo
      BY <2>1, <2>2, <2>4
    <3> QED BY <1>1, <3>1, <3>2, Now, LogFacts DEF InitFirst
  <2>9. \E i \in 1..redo : clog[i].op = "init" /\ clog[i].page = p
    <3>1. CASE clog[redo].op = "init"
      BY <1>1, <3>1
    <3>2. CASE clog[redo].op # "init"
      <4>1. PICK i \in 1..pages[p].lsn : clog[i].op = "init" /\ clog[i].page = p
        BY <2>1, <2>2, <2>4, <2>5, <3>2 DEF Image
      <4>2. i \in 1..redo
        BY <2>1, <2>2, <2>4
      <4> QED BY <4>1, <4>2
    <3> QED BY <3>1, <3>2
  <2>10. ASSUME NEW q \in PageNums PROVE IsPage(pages'[q]) /\ PageInv(q)'
    <3>1. CASE q # p
      <4>1. pages'[q] = pages[q]
        BY <2>6, <3>1
      <4> QED BY <1>1, <2>7, <4>1, Now, LogFacts, PageFacts, SameImage
    <3>2. CASE q = p
      <4>1. Image(pages[q], q)'
        BY <1>1, <2>5, <2>6, <2>9, <3>2 DEF Image
      <4>2. Image(disk[q], q)'
        BY <1>1, <2>1, <2>2, <2>4, <3>2 DEF Image
      <4>3. disk'[q].lsn <= flushed' /\ disk'[q].lsn <= pages'[q].lsn /\ pages'[q].lsn <= Len(clog')
        BY <1>1, <2>1, <2>2, <2>4, <2>5, <2>6, <3>2
      <4>4. q \notin dirty' => ~ disk'[q].init /\ pages'[q].slots = NoSlots
        BY <1>1, <1>6, <2>5, <2>6, <2>8, <3>2
      <4> QED BY <2>5, <2>6, <3>2, <4>1, <4>2, <4>3, <4>4 DEF PageInv
    <3> QED BY <3>1, <3>2
  <2>11. stale \subseteq stale' /\ \A q \in PageNums : pages'[q] = pages[q] \/ q \in stale'
    BY <1>6, <2>6
  <2> QED BY <1>1, <1>3, <1>4, <2>6, <2>7, <2>10, <2>11, RedoStep
<1> QED BY <1>2, <1>5, <1>6

LEMMA InitKeeps ==
  ASSUME Init
  PROVE  FileInv
<1>1. /\ pages = [p \in PageNums |-> ZeroPage] /\ disk = pages /\ dirty = {} /\ page_count = 0 /\ free_pages = {}
      /\ lock = None /\ latch = [p \in PageNums |-> Unlatched] /\ clog = <<>> /\ flushed = 0
      /\ th = [t \in Threads |-> Idle] /\ redo = 0 /\ failed = FALSE /\ PageBound \in Nat
  BY RecordFileAssumption DEF Init
<1>2. Len(clog) = 0 /\ clog \in Seq(Entry)
  BY <1>1
<1>3. \A p \in PageNums : pages[p] = ZeroPage /\ disk[p] = ZeroPage
  BY <1>1
<1>4. StoreTyped
  <2>1. ZeroPage.init \in BOOLEAN
    BY DEF ZeroPage
  <2>2. ZeroPage.slots \in [SlotNums -> Nat] /\ ZeroPage.lsn \in Nat
    BY DEF ZeroPage, NoSlots
  <2>3. IsPage(ZeroPage)
    BY <2>1, <2>2 DEF IsPage
  <2>4. DOMAIN pages = PageNums /\ DOMAIN disk = PageNums
    BY <1>1
  <2>5. failed \in BOOLEAN
    BY <1>1
  <2>6. \A p \in PageNums : IsPage(pages[p]) /\ IsPage(disk[p])
    BY <1>3, <2>3
  <2> QED BY <1>1, <1>2, <2>4, <2>5, <2>6 DEF StoreTyped
<1>5. LogInv
  BY <1>1, <1>2 DEF LogInv, AllocFirst, AllocInOrder, InitFirst, AllCounted, AllLogged, Known
<1>6. Images
  <2>1. ~ ZeroPage.init /\ ZeroPage.slots = NoSlots /\ ZeroPage.lsn = 0
    BY DEF ZeroPage
  <2> QED BY <1>1, <1>2, <1>3, <2>1 DEF Images, PageInv, Image
<1>7. ThreadInv /\ ScanMissesNothing
  BY <1>1 DEF ThreadInv, Places, LockOwner, Exclusive, Fresh, ScanMissesNothing, At, Idle, NoPage
<1>8. ThreadTyped
  BY <1>1 DEF ThreadTyped, Idle, Unlatched, Steps, NoPage
<1>9. FreeInv
  BY <1>1 DEF FreeInv
<1> QED BY <1>4, <1>5, <1>6, <1>7, <1>8, <1>9, Parts DEF Stored, Moving, StoreInv

-----------------------------------------------------------------------------
(* The invariant of the record file.                                        *)
LEMMA ThreadStepKeeps ==
  ASSUME FileInv, NEW t \in Threads, ThreadStep(t)
  PROVE  FileInv'
<1>1. CASE InsertLock(t)
  BY <1>1, InsertLockKeeps
<1>2. CASE InsertPick(t)
  <2>1. CASE lock' = None /\ To(t, "alloc")
    BY <1>2, <2>1, InsertNoneKeeps
  <2>2. CASE \E p \in free_pages : th' = [th EXCEPT ![t].pc = "latch", ![t].page = p] /\ UNCHANGED lock
    BY <1>2, <2>2, InsertTryKeeps
  <2> QED BY <1>2, <2>1, <2>2 DEF InsertPick
<1>3. CASE InsertLatch(t)
  BY <1>3, InsertFullKeeps, InsertRoomKeeps
<1>4. CASE InsertAlloc(t)
  BY <1>4, InsertAllocKeeps
<1>5. CASE InsertInit(t)
  BY <1>5, InsertInitKeeps
<1>6. CASE InsertRegister(t)
  BY <1>6, InsertRegisterKeeps
<1>7. CASE InsertPut(t)
  BY <1>7, InsertPutKeeps
<1>8. ASSUME NEW r \in RIDs, Delete(t, r) PROVE FileInv'
  BY <1>8, DeleteKeeps
<1>9. ASSUME NEW r \in RIDs, Update(t, r) PROVE FileInv'
  BY <1>9, UpdateKeeps
<1>10. CASE DeleteRegister(t)
  BY <1>10, DeleteRegisterKeeps
<1>11. ASSUME NEW mode \in {"r", "w"}, ScanOpen(t, mode) PROVE FileInv'
  BY <1>11, ScanOpenKeeps
<1>12. CASE ScanEnter(t)
  BY <1>12, ScanEnterKeeps
<1>13. CASE ScanNextPage(t)
  BY <1>13, ScanNextPageKeeps
<1>14. CASE ScanClose(t)
  BY <1>14, ScanCloseKeeps
<1> QED BY <1>1, <1>2, <1>3, <1>4, <1>5, <1>6, <1>7, <1>8, <1>9, <1>10, <1>11, <1>12, <1>13, <1>14
        DEF ThreadStep

LEMMA StutterKeeps ==
  ASSUME FileInv, UNCHANGED vars
  PROVE  FileInv'
<1>1. /\ pages' = pages /\ dirty' = dirty /\ disk' = disk /\ page_count' = page_count /\ clog' = clog
      /\ flushed' = flushed /\ free_pages' = free_pages /\ lock' = lock /\ latch' = latch /\ th' = th
      /\ redo' = redo /\ failed' = failed /\ stale' = stale
  BY DEF vars, store, sync, logs, up
<1>2. Stored'
  BY <1>1, Now, SameStore DEF store, logs
<1>3. Exclusive' /\ Fresh'
  BY <1>1, Now DEF Exclusive, Fresh, At
<1>4. FreeInv'
  BY <1>1, Now DEF FreeInv, At
<1>5. Moving'
  BY <1>1, <1>3, Now, StillStep
<1> QED BY <1>2, <1>4, <1>5, Parts

LEMMA StepKeeps ==
  ASSUME FileInv, [Next]_vars
  PROVE  FileInv'
<1>1. ASSUME NEW t \in Threads, ThreadStep(t) PROVE FileInv'
  BY <1>1, ThreadStepKeeps
<1>2. CASE LogFlush
  BY <1>2, LogFlushKeeps
<1>3. CASE Crash
  BY <1>3, CrashKeeps
<1>4. CASE Redo
  BY <1>4, RedoAllocateKeeps, RedoOtherKeeps
<1>5. CASE RedoDone
  BY <1>5, RedoDoneKeeps
<1>6. ASSUME NEW p \in PageNums, PageFlush(p) PROVE FileInv'
  BY <1>6, PageFlushKeeps
<1>7. ASSUME NEW p \in PageNums, PageEvict(p) PROVE FileInv'
  BY <1>7, PageEvictKeeps
<1>8. CASE UNCHANGED vars
  BY <1>8, StutterKeeps
<1> QED BY <1>1, <1>2, <1>3, <1>4, <1>5, <1>6, <1>7, <1>8 DEF Next

(* The inductive invariant: types, what each step of a thread has locked    *)
(* and may assume, what the log says about the pages, and which pages the   *)
(* set of free pages, or a thread, has to remember.                         *)
THEOREM FileInvariant == Spec => []FileInv
<1>1. Init => FileInv
  BY InitKeeps
<1>2. FileInv /\ [Next]_vars => FileInv'
  BY StepKeeps
<1> QED BY <1>1, <1>2, PTL DEF Spec

(* free_pages_ forgets no page with room, but for what redo changed after a *)
(* restart: whatever the threads, crashes and evictions.                    *)
THEOREM NoPageForgotten == Spec => []FreePagesComplete
<1>1. FileInv => FreePagesComplete
  <2> SUFFICES ASSUME FileInv, NEW p \in 1..page_count, ~ IsFull(pages[p])
               PROVE  \/ p \in free_pages \cup stale
                      \/ \E t \in Threads : th[t].page = p /\ th[t].pc \in {"register", "free"}
    BY DEF FreePagesComplete
  <2> QED BY DEF FileInv, FreeInv, At
<1> QED BY <1>1, FileInvariant, PTL

(* A scan still has in front of it every record that was there when it      *)
(* began and has been there since, and that it has not given out.           *)
THEOREM ScansComplete == Spec => []ScanMissesNothing
<1>1. FileInv => ScanMissesNothing
  BY DEF FileInv
<1> QED BY <1>1, FileInvariant, PTL

-----------------------------------------------------------------------------
(* Without visits within a visit: the locks in their order.                 *)
Holders(p) == latch[p].readers \cup ({latch[p].writer} \ {None})

LEMMA HoldersAre ==
  OneLatch <=> /\ \A t \in Threads : th[t].outer = NoPage
               /\ \A p \in PageNums : \A t \in Holders(p) : th[t].pc \in {"register", "put", "scan"} /\ th[t].page = p
BY DEF OneLatch, Holders, At

\* Thread t moves, and has a latch afterwards only where it may.
LEMMA LatchStep ==
  ASSUME SyncTyped, OneLatch, NEW t \in Threads, \A u \in Threads \ {t} : Unmoved(u), th'[t].outer = NoPage,
         Releases(t) \/ \E p \in PageNums : Takes(t, p),
         \A q \in PageNums : t \in Holders(q)' => th'[t].pc \in {"register", "put", "scan"} /\ th'[t].page = q
  PROVE  OneLatch'
<1>1. \A u \in Threads : th'[u].outer = NoPage
  BY HoldersAre DEF Unmoved
<1>2. ASSUME NEW q \in PageNums, NEW u \in Holders(q)', u # t
      PROVE  th'[u].pc \in {"register", "put", "scan"} /\ th'[u].page = q
  <2>1. u \in Holders(q)
    <3>1. CASE Releases(t)
      BY <1>2, <3>1 DEF Holders, Releases
    <3>2. ASSUME NEW p \in PageNums, Takes(t, p) PROVE u \in Holders(q)
      BY <1>2, <3>2 DEF Holders, Takes
    <3> QED BY <3>1, <3>2
  <2>2. u \in Threads
    BY <2>1 DEF Holders, SyncTyped
  <2>3. th[u].pc \in {"register", "put", "scan"} /\ th[u].page = q
    BY <2>1, HoldersAre
  <2> QED BY <1>2, <2>2, <2>3 DEF Unmoved
<1>3. \A q \in PageNums : \A u \in Holders(q)' : th'[u].pc \in {"register", "put", "scan"} /\ th'[u].page = q
  BY <1>2
<1> QED BY <1>1, <1>3 DEF OneLatch, Holders, At

\* A thread that has no latch and takes none.
LEMMA NoLatchStep ==
  ASSUME SyncTyped, OneLatch, NEW t \in Threads, \A u \in Threads \ {t} : Unmoved(u), th'[t].outer = NoPage,
         Releases(t), th[t].pc \notin {"register", "put", "scan"}
  PROVE  OneLatch'
<1>1. ASSUME NEW q \in PageNums, t \in Holders(q)' PROVE FALSE
  <2>1. t \in Holders(q)
    BY <1>1 DEF Holders, Releases
  <2> QED BY <2>1, HoldersAre
<1> QED BY <1>1, LatchStep

\* A thread that gives up the latch of its page.
LEMMA UnlatchStep ==
  ASSUME SyncTyped, OneLatch, NEW t \in Threads, \A u \in Threads \ {t} : Unmoved(u), th'[t].outer = NoPage,
         th[t].page \in PageNums, latch' = Unlatch(t, th[t].page)
  PROVE  OneLatch'
<1>1. th[t].outer = NoPage /\ th[t].page # NoPage
  BY HoldersAre, RecordFileAssumption DEF NoPage, PageNums
<1>2. Releases(t) /\ t \notin latch'[th[t].page].readers /\ latch'[th[t].page].writer # t
  BY <1>1, UnlatchIs
<1>3. ASSUME NEW q \in PageNums, t \in Holders(q)' PROVE FALSE
  <2>1. t \in Holders(q)
    BY <1>2, <1>3 DEF Holders, Releases
  <2>2. q = th[t].page
    BY <2>1, HoldersAre
  <2> QED BY <1>2, <1>3, <2>2 DEF Holders
<1> QED BY <1>2, <1>3, LatchStep

\* A thread without a latch that takes the one of its page.
LEMMA TakeStep ==
  ASSUME SyncTyped, OneLatch, NEW t \in Threads, \A u \in Threads \ {t} : Unmoved(u), th'[t].outer = NoPage,
         NEW p \in PageNums, Takes(t, p), th[t].pc \notin {"register", "put", "scan"},
         th'[t].pc \in {"register", "put", "scan"}, th'[t].page = p
  PROVE  OneLatch'
<1>1. ASSUME NEW q \in PageNums, t \in Holders(q)', q # p PROVE FALSE
  <2>1. t \in Holders(q)
    BY <1>1 DEF Holders, Takes
  <2> QED BY <2>1, HoldersAre
<1> QED BY <1>1, LatchStep

LEMMA SameLatch ==
  ASSUME SyncTyped, latch' = latch, NEW t
  PROVE  Releases(t)
BY DEF SyncTyped, Releases

LEMMA OneLatchThread ==
  ASSUME FileInv, OneLatch, NestedModes = {}, NEW t \in Threads, ThreadStep(t)
  PROVE  OneLatch'
<1>0. SyncTyped /\ DOMAIN th = Threads /\ th[t].outer = NoPage
  BY Now, HoldersAre
<1>P. th[t].pc \in {"latch", "init", "register", "put", "free", "enter", "scan"} => th[t].page \in PageNums
  BY Now DEF Places, At
<1>1. CASE InsertLock(t)
  <2>1. th[t].pc = "idle" /\ th' = [th EXCEPT ![t].pc = "pick"] /\ latch' = latch
    BY <1>1 DEF InsertLock, To, Busy
  <2>M. (\A u \in Threads \ {t} : Unmoved(u)) /\ th'[t].outer = NoPage
    BY <1>0, <2>1 DEF Unmoved, Idle
  <2> QED BY <1>0, <2>1, <2>M, SameLatch, NoLatchStep
<1>2. CASE InsertPick(t)
  <2>1. th[t].pc = "pick" /\ latch' = latch
    BY <1>2 DEF InsertPick
  <2>2. \/ th' = [th EXCEPT ![t].pc = "alloc"]
        \/ \E p : th' = [th EXCEPT ![t].pc = "latch", ![t].page = p]
    BY <1>2 DEF InsertPick, To
  <2>3. (\A u \in Threads \ {t} : Unmoved(u)) /\ th'[t].outer = NoPage
    <3>1. CASE th' = [th EXCEPT ![t].pc = "alloc"]
      BY <1>0, <3>1 DEF Unmoved
    <3>2. ASSUME NEW p, th' = [th EXCEPT ![t].pc = "latch", ![t].page = p]
          PROVE  (\A u \in Threads \ {t} : Unmoved(u)) /\ th'[t].outer = NoPage
      BY <1>0, <3>2 DEF Unmoved
    <3> QED BY <2>2, <3>1, <3>2
  <2> QED BY <1>0, <2>1, <2>3, SameLatch, NoLatchStep
<1>3. CASE InsertLatch(t)
  <2>1. th[t].pc = "latch" /\ WriteFree(th[t].page)
    BY <1>3 DEF InsertLatch
  <2>2. CASE IsFull(pages[th[t].page])
    <3>1. th' = [th EXCEPT ![t].pc = "pick"] /\ latch' = latch
      BY <1>3, <2>2 DEF InsertLatch, To, sync
    <3>M. (\A u \in Threads \ {t} : Unmoved(u)) /\ th'[t].outer = NoPage
      BY <1>0, <3>1 DEF Unmoved, Idle
    <3> QED BY <1>0, <2>1, <3>1, <3>M, SameLatch, NoLatchStep
  <2>3. CASE ~ IsFull(pages[th[t].page])
    <3>1. th' = [th EXCEPT ![t].pc = "put"] /\ latch' = WriteLatched(t, th[t].page)
      BY <1>3, <2>3 DEF InsertLatch, To
    <3>2. th'[t].pc = "put" /\ th'[t].page = th[t].page
      BY <1>0, <3>1
    <3>3. Takes(t, th[t].page)
      BY <1>0, <1>P, <2>1, <3>1, WriteLatchIs
    <3>M. (\A u \in Threads \ {t} : Unmoved(u)) /\ th'[t].outer = NoPage
      BY <1>0, <3>1 DEF Unmoved, Idle
    <3> QED BY <1>0, <1>P, <2>1, <3>1, <3>2, <3>3, <3>M, TakeStep
  <2> QED BY <2>2, <2>3
<1>4. CASE InsertAlloc(t)
  <2>1. /\ th[t].pc = "alloc" /\ th' = [th EXCEPT ![t].pc = "init", ![t].page = page_count + 1]
        /\ latch' = latch
    BY <1>4 DEF InsertAlloc, sync
  <2>M. (\A u \in Threads \ {t} : Unmoved(u)) /\ th'[t].outer = NoPage
    BY <1>0, <2>1 DEF Unmoved, Idle
  <2> QED BY <1>0, <2>1, <2>M, SameLatch, NoLatchStep
<1>5. CASE InsertInit(t)
  <2>1. /\ th[t].pc = "init" /\ WriteFree(th[t].page) /\ th' = [th EXCEPT ![t].pc = "register"]
        /\ latch' = WriteLatched(t, th[t].page)
    BY <1>5 DEF InsertInit, To
  <2>2. th'[t].pc = "register" /\ th'[t].page = th[t].page
    BY <1>0, <2>1
  <2>3. Takes(t, th[t].page)
    BY <1>0, <1>P, <2>1, WriteLatchIs
  <2>M. (\A u \in Threads \ {t} : Unmoved(u)) /\ th'[t].outer = NoPage
    BY <1>0, <2>1 DEF Unmoved, Idle
  <2> QED BY <1>0, <1>P, <2>1, <2>2, <2>3, <2>M, TakeStep
<1>6. CASE InsertRegister(t)
  <2>1. th[t].pc = "register" /\ th' = [th EXCEPT ![t].pc = "put"] /\ latch' = latch
    BY <1>6 DEF InsertRegister, To, sync
  <2>2. th'[t].pc = "put" /\ th'[t].page = th[t].page
    BY <1>0, <2>1
  <2>3. \A q \in PageNums : t \in Holders(q)' => th'[t].pc \in {"register", "put", "scan"} /\ th'[t].page = q
    BY <2>1, <2>2, HoldersAre DEF Holders
  <2>4. (\A u \in Threads \ {t} : Unmoved(u)) /\ th'[t].outer = NoPage
    BY <1>0, <2>1 DEF Unmoved, Idle
  <2> QED BY <1>0, <2>1, <2>3, <2>4, SameLatch, LatchStep
<1>7. CASE InsertPut(t)
  <2>1. th[t].pc = "put" /\ th' = [th EXCEPT ![t] = Idle] /\ latch' = Unlatch(t, th[t].page)
    BY <1>7 DEF InsertPut
  <2>M. (\A u \in Threads \ {t} : Unmoved(u)) /\ th'[t].outer = NoPage
    BY <1>0, <2>1 DEF Unmoved, Idle
  <2> QED BY <1>0, <1>P, <2>1, <2>M, UnlatchStep
<1>8. ASSUME NEW r \in RIDs, Delete(t, r) PROVE OneLatch'
  <2>1. /\ th[t].pc = "idle" /\ latch' = latch
        /\ th' = [u \in Threads |-> IF u = t THEN [Idle EXCEPT !.pc = "free", !.page = r[1]]
                                    ELSE [th[u] EXCEPT !.must = @ \ {r}]]
    BY <1>8 DEF Delete, Busy, sync
  <2>2. ASSUME NEW u \in Threads \ {t} PROVE Unmoved(u)
    <3>1. th'[u] = [th[u] EXCEPT !.must = th[u].must \ {r}]
      BY <2>1
    <3>2. th'[u].must = th[u].must \ {r} \/ th'[u].must = th[u].must
      BY ONLY <3>1
    <3> QED BY ONLY <3>1, <3>2 DEF Unmoved
  <2>3. th'[t].outer = NoPage
    <3>1. th'[t] = [Idle EXCEPT !.pc = "free", !.page = r[1]]
      BY <2>1
    <3> QED BY <3>1 DEF Idle
  <2> QED BY <1>0, <2>1, <2>2, <2>3, SameLatch, NoLatchStep
<1>9. ASSUME NEW r \in RIDs, Update(t, r) PROVE OneLatch'
  <2>1. th' = th /\ latch' = latch
    BY <1>9 DEF Update, sync
  <2> QED BY <2>1 DEF OneLatch, At
<1>10. CASE DeleteRegister(t)
  <2>1. th[t].pc = "free" /\ th' = [th EXCEPT ![t] = Idle] /\ latch' = Unlatch(t, th[t].page)
    BY <1>10 DEF DeleteRegister
  <2>M. (\A u \in Threads \ {t} : Unmoved(u)) /\ th'[t].outer = NoPage
    BY <1>0, <2>1 DEF Unmoved, Idle
  <2> QED BY <1>0, <1>P, <2>1, <2>M, UnlatchStep
<1>11. ASSUME NEW mode \in {"r", "w"}, ScanOpen(t, mode) PROVE OneLatch'
  <2>1. th[t].pc = "idle" /\ latch' = latch
    BY <1>11 DEF ScanOpen, Busy, sync
  <2>2. th' = [th EXCEPT ![t] = [pc |-> "enter", page |-> 1, last |-> page_count, must |-> Records,
                                 mode |-> mode, outer |-> th[t].page]]
    BY <1>11 DEF ScanOpen
  <2>3. th'[t].outer = NoPage
    BY <1>0, <2>1, <2>2, Now DEF Places, At
  <2>4. \A u \in Threads \ {t} : Unmoved(u)
    BY <2>2 DEF Unmoved
  <2> QED BY <1>0, <2>1, <2>3, <2>4, SameLatch, NoLatchStep
<1>12. CASE ScanEnter(t)
  <2>1. /\ th[t].pc = "enter" /\ latch' = Latched(t, th[t].page, th[t].mode)
        /\ IF th[t].mode = "r" THEN ReadFree(th[t].page) ELSE WriteFree(th[t].page)
    BY <1>12 DEF ScanEnter
  <2>2. PICK m : th' = [th EXCEPT ![t].pc = "scan", ![t].must = m]
    BY <1>12 DEF ScanEnter
  <2>3. th'[t].pc = "scan" /\ th'[t].page = th[t].page
    BY <1>0, <2>2
  <2>4. th[t].mode \in {"r", "w"}
    BY Now DEF Moving, ThreadTyped
  <2>5. Takes(t, th[t].page)
    BY <1>0, <1>P, <2>1, <2>4, LatchedIs
  <2>6. (\A u \in Threads \ {t} : Unmoved(u)) /\ th'[t].outer = NoPage
    BY <1>0, <2>2 DEF Unmoved, Idle
  <2> QED BY <1>0, <1>P, <2>1, <2>3, <2>5, <2>6, TakeStep
<1>13. CASE ScanNextPage(t)
  <2>1. /\ th[t].pc = "scan" /\ latch' = Unlatch(t, th[t].page)
        /\ th' = [th EXCEPT ![t].pc = "enter", ![t].page = th[t].page + 1]
    BY <1>0, <1>13 DEF ScanNextPage
  <2>M. (\A u \in Threads \ {t} : Unmoved(u)) /\ th'[t].outer = NoPage
    BY <1>0, <2>1 DEF Unmoved, Idle
  <2> QED BY <1>0, <1>P, <2>1, <2>M, UnlatchStep
<1>14. CASE ScanClose(t)
  <2>1. /\ th' = [th EXCEPT ![t] = Idle]
        /\ latch' = [p \in PageNums |-> [readers |-> latch[p].readers \ {t},
                                         writer |-> IF latch[p].writer = t THEN None ELSE latch[p].writer]]
    BY <1>14 DEF ScanClose
  <2>2. (\A u \in Threads \ {t} : Unmoved(u)) /\ th'[t].outer = NoPage
    BY <1>0, <2>1 DEF Unmoved, Idle
  <2>3. /\ DOMAIN latch' = PageNums
        /\ \A p \in PageNums : /\ latch'[p].readers = latch[p].readers \ {t}
                               /\ latch'[p].writer = IF latch[p].writer = t THEN None ELSE latch[p].writer
    BY <2>1
  <2>4. Releases(t)
    BY <2>3 DEF Releases
  <2>5. \A q \in PageNums : t \notin Holders(q)'
    BY <2>3, Now DEF Holders
  <2> QED BY <1>0, <2>2, <2>4, <2>5, LatchStep
<1> QED BY <1>1, <1>2, <1>3, <1>4, <1>5, <1>6, <1>7, <1>8, <1>9, <1>10, <1>11, <1>12, <1>13, <1>14
        DEF ThreadStep

LEMMA OneLatchStep ==
  ASSUME FileInv, OneLatch, NestedModes = {}, [Next]_vars
  PROVE  OneLatch'
<1>1. ASSUME NEW t \in Threads, ThreadStep(t) PROVE OneLatch'
  BY <1>1, OneLatchThread
<1>2. CASE Crash
  <2>1. latch' = [p \in PageNums |-> Unlatched] /\ th' = [t \in Threads |-> Idle]
    BY <1>2 DEF Crash
  <2> QED BY <2>1 DEF OneLatch, Unlatched, Idle
<1>3. CASE UNCHANGED <<th, latch>>
  BY <1>3 DEF OneLatch, At
<1>4. LogFlush \/ Redo \/ RedoDone \/ UNCHANGED vars => UNCHANGED <<th, latch>>
  BY DEF LogFlush, Redo, RedoDone, vars, sync
<1>5. ASSUME NEW p \in PageNums, PageFlush(p) \/ PageEvict(p) PROVE UNCHANGED <<th, latch>>
  BY <1>5 DEF PageFlush, PageEvict, sync
<1> QED BY <1>1, <1>2, <1>3, <1>4, <1>5 DEF Next

LEMMA OneLatchInvariant == NestedModes = {} => (Spec => []OneLatch)
<1> SUFFICES ASSUME NestedModes = {} PROVE Spec => []OneLatch
  OBVIOUS
<1>1. Init => OneLatch
  BY DEF Init, OneLatch, Unlatched, Idle
<1>2. FileInv /\ OneLatch /\ [Next]_vars => OneLatch'
  BY OneLatchStep
<1> QED BY <1>1, <1>2, FileInvariant, PTL DEF Spec

\* The order in which threads wait: for a thread of a lower rank only.
Rank(t) ==
  CASE At(t, {"latch"})            -> 1
    [] At(t, {"register", "free"}) -> 2
    [] At(t, {"init", "enter"})    -> 3
    [] OTHER                       -> 0

LEMMA RankIs ==
  ASSUME NEW t
  PROVE  /\ Rank(t) \in Nat
         /\ At(t, {"latch"}) => Rank(t) = 1
         /\ At(t, {"register", "free"}) => Rank(t) = 2
         /\ At(t, {"init", "enter"}) => Rank(t) = 3
         /\ At(t, {"idle", "pick", "alloc", "put", "scan"}) => Rank(t) = 0
<1>1. CASE At(t, {"latch"})
  BY <1>1 DEF Rank, At
<1>2. CASE At(t, {"register", "free"})
  BY <1>2 DEF Rank, At
<1>3. CASE At(t, {"init", "enter"})
  BY <1>3 DEF Rank, At
<1>4. CASE ~ At(t, {"latch", "register", "free", "init", "enter"})
  BY <1>4 DEF Rank, At
<1> QED BY <1>1, <1>2, <1>3, <1>4 DEF At

LEMMA WaitsForLower ==
  ASSUME FileInv, OneLatch, NEW t \in Threads, NEW u \in WaitsFor(t)
  PROVE  u \in Threads /\ Rank(u) < Rank(t)
<1> DEFINE p == th[t].page
<1>0. th[t].pc \in {"latch", "init", "register", "free", "enter"}
  BY DEF WaitsFor
<1>1. CASE th[t].pc \in {"latch", "init", "enter"}
  <2>1. p \in PageNums
    BY <1>1, Now DEF Places, At
  <2>2. u \in Holders(p)
    <3>1. CASE th[t].pc \in {"latch", "init"}
      BY <3>1 DEF WaitsFor, Holders
    <3>2. CASE th[t].pc = "enter"
      BY <3>2 DEF WaitsFor, Holders
    <3> QED BY <1>1, <3>1, <3>2
  <2>3. th[u].pc \in {"register", "put", "scan"} /\ th[u].page = p
    BY <2>1, <2>2, HoldersAre
  <2>4. u \in Threads
    BY <2>1, <2>2, Now DEF Holders, SyncTyped
  <2>5. th[t].pc = "latch" => th[u].pc # "register"
    BY <2>3, <2>4, Now DEF LockOwner, Fresh, At
  <2>6. CASE th[t].pc = "latch"
    <3>1. Rank(t) = 1 /\ Rank(u) = 0
      BY <2>3, <2>5, <2>6, RankIs DEF At
    <3> QED BY <2>4, <3>1
  <2>7. CASE th[t].pc \in {"init", "enter"}
    <3>1. Rank(t) = 3 /\ Rank(u) \in {0, 2}
      BY <2>3, <2>7, RankIs DEF At
    <3> QED BY <2>4, <3>1
  <2> QED BY <1>1, <2>6, <2>7
<1>2. CASE th[t].pc \in {"register", "free"}
  <2>1. u = lock /\ lock # None
    BY <1>2 DEF WaitsFor
  <2>2. u \in Threads /\ At(u, {"pick", "latch"})
    BY <2>1, Now DEF LockOwner, SyncTyped
  <2>3. Rank(t) = 2 /\ Rank(u) \in {0, 1}
    BY <1>2, <2>2, RankIs DEF At
  <2> QED BY <2>2, <2>3
<1> QED BY <1>0, <1>1, <1>2

(* record_manager.cpp:472: "the order of the locks looks like the reverse   *)
(* of the above, but there is no deadlock".  It is so, for any number of    *)
(* threads and pages, as long as no statement reads a table within a scan   *)
(* of the same table: a page whose latch is awaited with lock_ held is in   *)
(* the set, and the new page whose inserter awaits lock_ is not.            *)
THEOREM LocksInOrder == NestedModes = {} => (Spec => []NoDeadlock)
<1> SUFFICES ASSUME NestedModes = {} PROVE Spec => []NoDeadlock
  OBVIOUS
<1>1. FileInv /\ OneLatch => NoDeadlock
  <2> SUFFICES ASSUME FileInv, OneLatch, NEW D \in (SUBSET Threads) \ {{}}
               PROVE  \E t \in D : WaitsFor(t) \cap D = {}
    BY DEF NoDeadlock
  <2> DEFINE S == {Rank(t) : t \in D}
  <2>1. S \subseteq Nat /\ S # {}
    <3>1. S \subseteq Nat
      BY RankIs
    <3>2. \E t : t \in D
      <4>1. D # {}
        OBVIOUS
      <4> QED BY <4>1
    <3> QED BY <3>1, <3>2
  <2>2. PICK m \in S : \A y \in S : m <= y
    <3> HIDE DEF S
    <3> QED BY <2>1, Least
  <2>3. PICK t \in D : Rank(t) = m
    BY <2>2
  <2>4. ASSUME NEW u \in WaitsFor(t) \cap D PROVE FALSE
    <3>1. Rank(u) \in S /\ Rank(u) < Rank(t) /\ Rank(u) \in Nat /\ Rank(t) \in Nat
      BY <2>4, WaitsForLower, RankIs
    <3> QED BY <2>2, <2>3, <3>1
  <2> QED BY <2>4
<1> QED BY <1>1, FileInvariant, OneLatchInvariant, PTL

-----------------------------------------------------------------------------
(* What the log says about a slot, and about a page.                        *)
LEMMA Entries ==
  ASSUME NEW L \in Seq(Entry), NEW i \in 1..Len(L)
  PROVE  /\ L[i] \in Entry /\ L[i].page \in PageNums
         /\ L[i].op \in {"allocate", "init"} => L[i].slot \notin SlotNums
         /\ L[i].op \notin {"allocate", "init"} => L[i].slot \in SlotNums /\ L[i].op \in {"insert", "delete", "update"}
<1>1. L[i] \in Entry
  OBVIOUS
<1>2. 0 \notin SlotNums
  BY RecordFileAssumption DEF SlotNums
<1> QED BY <1>1, <1>2 DEF Entry, RecordOperation

LEMMA HoldsOne ==
  ASSUME NEW L, NEW n \in Nat, NEW p, NEW s, NEW v, NEW w, Holds(L, v, p, s, n), Holds(L, w, p, s, n)
  PROVE  v = w
<1>1. CASE \A i \in 1..n : ~ About(L, i, p, s)
  BY <1>1 DEF Holds
<1>2. CASE \E i \in 1..n : About(L, i, p, s)
  <2>0. PICK i \in 1..n : About(L, i, p, s)
    BY <1>2
  <2>U. ~ Untouched(L, p, s, 0, n)
    BY <2>0 DEF Untouched
  <2>1. PICK k \in 1..n : About(L, k, p, s) /\ Untouched(L, p, s, k, n) /\ v = Entered(L, k)
    BY <2>U DEF Holds
  <2>2. PICK j \in 1..n : About(L, j, p, s) /\ Untouched(L, p, s, j, n) /\ w = Entered(L, j)
    BY <2>U DEF Holds
  <2>3. ~ (j \in (k + 1)..n) /\ ~ (k \in (j + 1)..n)
    BY <2>1, <2>2 DEF Untouched
  <2>4. j = k
    BY <2>3
  <2> QED BY <2>1, <2>2, <2>4
<1> QED BY <1>1, <1>2

\* Entries that are not about the slot change nothing, forward and back.
LEMMA HoldsOn ==
  ASSUME NEW L, NEW m \in Nat, NEW n \in Nat, m <= n, NEW p, NEW s, NEW v, Untouched(L, p, s, m, n)
  PROVE  Holds(L, v, p, s, m) <=> Holds(L, v, p, s, n)
<1>1. Untouched(L, p, s, 0, m) <=> Untouched(L, p, s, 0, n)
  BY DEF Untouched
<1>2. \A k \in 1..m : Untouched(L, p, s, k, m) <=> Untouched(L, p, s, k, n)
  BY DEF Untouched
<1>3. ASSUME Holds(L, v, p, s, m) PROVE Holds(L, v, p, s, n)
  <2>1. CASE v = 0 /\ Untouched(L, p, s, 0, m)
    BY <1>1, <2>1 DEF Holds
  <2>2. ASSUME NEW k \in 1..m, About(L, k, p, s) /\ Untouched(L, p, s, k, m) /\ v = Entered(L, k)
        PROVE  Holds(L, v, p, s, n)
    <3>1. k \in 1..n
      OBVIOUS
    <3> QED BY <1>2, <2>2, <3>1 DEF Holds
  <2> QED BY <1>3, <2>1, <2>2 DEF Holds
<1>4. ASSUME Holds(L, v, p, s, n) PROVE Holds(L, v, p, s, m)
  <2>1. CASE v = 0 /\ Untouched(L, p, s, 0, n)
    BY <1>1, <2>1 DEF Holds
  <2>2. ASSUME NEW k \in 1..n, About(L, k, p, s) /\ Untouched(L, p, s, k, n) /\ v = Entered(L, k)
        PROVE  Holds(L, v, p, s, m)
    <3>1. k \in 1..m
      BY <2>2 DEF Untouched
    <3> QED BY <1>2, <2>2, <3>1 DEF Holds
  <2> QED BY <1>4, <2>1, <2>2 DEF Holds
<1> QED BY <1>3, <1>4

\* The same log up to n says the same.
LEMMA HoldsSame ==
  ASSUME NEW L, NEW M, NEW n \in Nat, \A i \in 1..n : M[i] = L[i], NEW p, NEW s, NEW v
  PROVE  Holds(M, v, p, s, n) <=> Holds(L, v, p, s, n)
<1>1. \A i \in 1..n : (About(M, i, p, s) <=> About(L, i, p, s)) /\ Entered(M, i) = Entered(L, i)
  BY DEF About, Entered
<1>2. \A k \in 0..n : Untouched(M, p, s, k, n) <=> Untouched(L, p, s, k, n)
  BY <1>1 DEF Untouched
<1> QED BY <1>1, <1>2 DEF Holds

\* A page image through entries that do not concern it, and back to its LSN.
LEMMA Untouching ==
  ASSUME NEW L \in Seq(Entry), NEW m \in Nat, NEW n \in Nat, n <= Len(L), NEW p, NEW s \in SlotNums,
         Quiet(L, p, m, n)
  PROVE  Untouched(L, p, s, m, n)
<1> SUFFICES ASSUME NEW i \in (m + 1)..n, About(L, i, p, s) PROVE FALSE
  BY DEF Untouched
<1>1. L[i].page = p /\ L[i].slot = s /\ L[i].op = "allocate"
  BY DEF About, Quiet
<1>2. i \in 1..Len(L)
  OBVIOUS
<1> QED BY <1>1, <1>2, Entries

LEMMA InitedOn ==
  ASSUME NEW L, NEW m \in Nat, NEW n \in Nat, m <= n, NEW p, Quiet(L, p, m, n)
  PROVE  Inited(L, p, m) <=> Inited(L, p, n)
<1>1. ASSUME NEW i \in 1..m, L[i].op = "init", L[i].page = p PROVE Inited(L, p, n)
  <2>1. i \in 1..n
    OBVIOUS
  <2> QED BY <1>1, <2>1 DEF Inited
<1>2. ASSUME NEW i \in 1..n, L[i].op = "init", L[i].page = p PROVE Inited(L, p, m)
  <2>1. i \in 1..m
    BY <1>2 DEF Quiet
  <2> QED BY <1>2, <2>1 DEF Inited
<1> QED BY <1>1, <1>2 DEF Inited

LEMMA AsOfOn ==
  ASSUME NEW L \in Seq(Entry), NEW m \in Nat, NEW n \in Nat, m <= n, n <= Len(L), NEW p, NEW pg, pg.lsn \in Nat,
         AsOf(L, pg, p, m), Quiet(L, p, m, n)
  PROVE  AsOf(L, pg, p, n)
<1>1. ASSUME NEW s \in SlotNums PROVE Holds(L, pg.slots[s], p, s, n)
  BY HoldsOn, Untouching DEF AsOf
<1>2. pg.init <=> Inited(L, p, n)
  BY InitedOn DEF AsOf
<1>3. pg.lsn <= n /\ Quiet(L, p, pg.lsn, n)
  BY DEF AsOf, Quiet
<1> QED BY <1>1, <1>2, <1>3 DEF AsOf

LEMMA AsOfBack ==
  ASSUME NEW L \in Seq(Entry), NEW n \in Nat, n <= Len(L), NEW p, NEW pg, pg.lsn \in Nat, AsOf(L, pg, p, n)
  PROVE  AsOf(L, pg, p, pg.lsn)
<1>1. pg.lsn <= n /\ Quiet(L, p, pg.lsn, n)
  BY DEF AsOf
<1>2. ASSUME NEW s \in SlotNums PROVE Holds(L, pg.slots[s], p, s, pg.lsn)
  BY <1>1, HoldsOn, Untouching DEF AsOf
<1>3. pg.init <=> Inited(L, p, pg.lsn)
  BY <1>1, InitedOn DEF AsOf
<1>4. Quiet(L, p, pg.lsn, pg.lsn)
  BY DEF Quiet
<1> QED BY <1>2, <1>3, <1>4 DEF AsOf

LEMMA AsOfSame ==
  ASSUME NEW L, NEW M, NEW n \in Nat, \A i \in 1..n : M[i] = L[i], NEW p, NEW pg, pg.lsn \in Nat, AsOf(L, pg, p, n)
  PROVE  AsOf(M, pg, p, n)
<1>1. \A s \in SlotNums : Holds(M, pg.slots[s], p, s, n)
  BY HoldsSame DEF AsOf
<1>2. Inited(M, p, n) <=> Inited(L, p, n)
  BY DEF Inited
<1>3. pg.lsn <= n /\ Quiet(M, p, pg.lsn, n)
  BY DEF AsOf, Quiet
<1> QED BY <1>1, <1>2, <1>3 DEF AsOf

\* An entry writes a slot of the page, or initializes it.
LEMMA AsOfWrite ==
  ASSUME NEW L \in Seq(Entry), NEW n \in Nat, n + 1 <= Len(L), NEW p, NEW s \in SlotNums,
         NEW pg, pg.slots \in [SlotNums -> Nat], pg.init, AsOf(L, pg, p, n),
         L[n + 1].page = p, L[n + 1].slot = s,
         NEW pg2, pg2.init = pg.init, pg2.slots = [pg.slots EXCEPT ![s] = Entered(L, n + 1)], pg2.lsn = n + 1
  PROVE  AsOf(L, pg2, p, n + 1)
<1>1. ASSUME NEW z \in SlotNums PROVE Holds(L, pg2.slots[z], p, z, n + 1)
  <2>1. CASE z = s
    <3>1. pg2.slots[z] = Entered(L, n + 1) /\ About(L, n + 1, p, z) /\ n + 1 \in 1..(n + 1)
      BY <2>1 DEF About
    <3>2. Untouched(L, p, z, n + 1, n + 1)
      BY DEF Untouched
    <3> QED BY <3>1, <3>2 DEF Holds
  <2>2. CASE z # s
    <3>1. pg2.slots[z] = pg.slots[z]
      BY <2>2
    <3>2. Untouched(L, p, z, n, n + 1)
      BY <2>2 DEF Untouched, About
    <3>3. Holds(L, pg.slots[z], p, z, n)
      BY DEF AsOf
    <3> QED BY <3>1, <3>2, <3>3, HoldsOn
  <2> QED BY <2>1, <2>2
<1>2. pg2.init /\ Inited(L, p, n + 1)
  BY DEF AsOf, Inited
<1>3. Quiet(L, p, pg2.lsn, n + 1)
  BY DEF Quiet
<1> QED BY <1>1, <1>2, <1>3 DEF AsOf

LEMMA AsOfInit ==
  ASSUME NEW L \in Seq(Entry), NEW n \in Nat, n + 1 <= Len(L), NEW p, L[n + 1].op = "init", L[n + 1].page = p,
         Quiet(L, p, 0, n), NEW pg, pg.init, pg.slots = NoSlots, pg.lsn = n + 1
  PROVE  AsOf(L, pg, p, n + 1)
<1>1. ASSUME NEW s \in SlotNums PROVE Holds(L, pg.slots[s], p, s, n + 1)
  <2>1. Untouched(L, p, s, 0, n)
    BY Untouching
  <2>2. ~ About(L, n + 1, p, s)
    BY Entries DEF About
  <2>3. Untouched(L, p, s, 0, n + 1)
    BY <2>1, <2>2 DEF Untouched
  <2>4. pg.slots[s] = 0
    BY DEF NoSlots
  <2> QED BY <2>3, <2>4 DEF Holds
<1>2. pg.init /\ Inited(L, p, n + 1)
  BY DEF Inited
<1>3. Quiet(L, p, pg.lsn, n + 1)
  BY DEF Quiet
<1> QED BY <1>1, <1>2, <1>3 DEF AsOf

-----------------------------------------------------------------------------
(* The pages match the log, as long as redo evicts no frames.               *)
LEMMA PossibleSame ==
  ASSUME NEW L, NEW M, NEW i \in Nat, i >= 1, \A j \in 1..i : M[j] = L[j], NEW p, NEW s, Possible(L, i, p, s)
  PROVE  Possible(M, i, p, s)
<1>1. i - 1 \in Nat /\ \A j \in 1..(i - 1) : M[j] = L[j]
  OBVIOUS
<1>2. M[i].op = L[i].op
  OBVIOUS
<1>3. Inited(L, p, i - 1) => Inited(M, p, i - 1)
  BY <1>1 DEF Inited
<1>4. \A z : Holds(M, 0, p, z, i - 1) <=> Holds(L, 0, p, z, i - 1)
  BY <1>1, HoldsSame
<1> QED BY <1>2, <1>3, <1>4 DEF Possible

LEMMA SaneStays ==
  ASSUME NEW L, NEW M, NEW n \in Nat, n <= Len(L), Len(L) \in Nat, \A i \in 1..n : M[i] = L[i], LogSane(L)
  PROVE  \A i \in 1..n : Possible(M, i, M[i].page, M[i].slot)
<1> SUFFICES ASSUME NEW i \in 1..n PROVE Possible(M, i, M[i].page, M[i].slot)
  OBVIOUS
<1>1. i \in 1..Len(L) /\ i \in Nat /\ i >= 1 /\ M[i] = L[i] /\ \A j \in 1..i : M[j] = L[j]
  OBVIOUS
<1>2. Possible(L, i, M[i].page, M[i].slot)
  BY <1>1 DEF LogSane
<1> QED BY <1>1, <1>2, PossibleSame

\* What a step may rely on while the system is up.
LEMMA UpFacts ==
  ASSUME FileInv, MatchInv, NEW q \in PageNums
  PROVE  /\ LogSane(clog) /\ AsOf(clog, disk[q], q, disk[q].lsn) /\ ~ failed
         /\ redo = 0 => Current(q)
         /\ redo > 0 => Replaying(clog, pages[q], q, redo)
         /\ pages[q].slots \in [SlotNums -> Nat] /\ disk[q].lsn \in Nat /\ pages[q].lsn \in Nat
         /\ ~ pages[q].init => pages[q].slots = NoSlots
         /\ redo = 0 /\ pages[q].init => AsOf(clog, pages[q], q, Len(clog))
<1>1. Stored /\ redo \in Nat
  BY Now, LogFacts
<1>2. IsPage(pages[q]) /\ disk[q].lsn \in Nat /\ Image(pages[q], q)
  BY <1>1, PageFacts
<1>3. ~ pages[q].init => pages[q].slots = NoSlots
  BY <1>2 DEF Image
<1>4. redo = 0 => Current(q)
  BY DEF MatchInv
<1>5. redo > 0 => Replaying(clog, pages[q], q, redo)
  BY DEF MatchInv
<1>6. redo = 0 /\ pages[q].init => AsOf(clog, pages[q], q, Len(clog))
  BY <1>4 DEF Current, Dropped
<1> QED BY <1>2, <1>3, <1>4, <1>5, <1>6 DEF MatchInv, IsPage

LEMMA CurrentStays ==
  ASSUME Stored, NEW q \in PageNums, Current(q), NEW e \in Entry, clog' = Append(clog, e),
         pages'[q] = pages[q], q \notin dirty => q \notin dirty', e.page # q \/ e.op = "allocate"
  PROVE  Current(q)'
<1> DEFINE n == Len(clog)
<1>1. /\ clog' \in Seq(Entry) /\ n \in Nat /\ n + 1 \in Nat /\ Len(clog') = n + 1 /\ clog'[n + 1] = e
      /\ \A i \in 1..n : clog'[i] = clog[i]
  BY LogFacts, Appended
<1>B. n <= n + 1 /\ n + 1 <= Len(clog')
  BY <1>1
<1>2. Quiet(clog', q, n, n + 1) /\ pages[q].lsn \in Nat
  BY <1>1, PageFacts DEF Quiet
<1>3. CASE AsOf(clog, pages[q], q, n)
  <2>1. AsOf(clog', pages[q], q, n)
    BY <1>1, <1>2, <1>3, AsOfSame
  <2>2. AsOf(clog', pages[q], q, n + 1)
    BY <1>1, <1>B, <1>2, <2>1, AsOfOn
  <2> QED BY <1>1, <2>2 DEF Current
<1>4. CASE q \notin dirty /\ Dropped(clog, pages[q], q)
  <2>1. ASSUME NEW s \in SlotNums PROVE Holds(clog', 0, q, s, n + 1)
    <3>1. Holds(clog, 0, q, s, n)
      BY <1>4 DEF Dropped
    <3>2. Holds(clog', 0, q, s, n)
      BY <1>1, <3>1, HoldsSame
    <3>3. Untouched(clog', q, s, n, n + 1)
      BY <1>1, <1>B, <1>2, Untouching
    <3> QED BY <1>1, <3>2, <3>3, HoldsOn
  <2> QED BY <1>1, <1>4, <2>1 DEF Current, Dropped
<1> QED BY <1>3, <1>4 DEF Current

\* An entry is appended and its page changed accordingly.
LEMMA MatchGrows ==
  ASSUME FileInv, MatchInv, NEW e \in Entry, clog' = Append(clog, e), disk' = disk,
         redo = 0, redo' = 0, failed' = failed, NEW p, p = e.page,
         Possible(clog', Len(clog) + 1, e.page, e.slot),
         \A q \in PageNums \ {p} : pages'[q] = pages[q] /\ (q \notin dirty => q \notin dirty'),
         AsOf(clog', pages'[p], p, Len(clog) + 1) \/ (e.op = "allocate" /\ pages'[p] = pages[p] /\ dirty' = dirty)
  PROVE  MatchInv'
<1> DEFINE n == Len(clog)
<1>0. Stored
  BY Now
<1>1. /\ clog' \in Seq(Entry) /\ n \in Nat /\ Len(clog') = n + 1 /\ clog'[n + 1] = e
      /\ \A i \in 1..n : clog'[i] = clog[i]
  BY <1>0, LogFacts, Appended
<1>2. LogSane(clog')
  <2>1. \A i \in 1..n : Possible(clog', i, clog'[i].page, clog'[i].slot)
    <3>1. LogSane(clog)
      BY DEF MatchInv
    <3>2. n <= Len(clog)
      BY <1>1
    <3> QED BY <1>1, <3>1, <3>2, SaneStays
  <2>2. \A i \in 1..(n + 1) : i \in 1..n \/ i = n + 1
    BY <1>1
  <2> QED BY <1>1, <2>1, <2>2 DEF LogSane
<1>3. ASSUME NEW q \in PageNums PROVE AsOf(clog', disk[q], q, disk[q].lsn)
  <2>1. AsOf(clog, disk[q], q, disk[q].lsn) /\ disk[q].lsn \in Nat
    BY UpFacts
  <2>2. disk[q].lsn <= n
    BY <1>0, LogFacts, PageFacts
  <2>3. \A i \in 1..disk[q].lsn : clog'[i] = clog[i]
    BY <1>1, <2>1, <2>2
  <2> QED BY <2>1, <2>3, AsOfSame
<1>4. ASSUME NEW q \in PageNums PROVE Current(q)'
  <2>1. Current(q)
    BY UpFacts
  <2>2. CASE q # p
    BY <1>0, <2>1, <2>2, CurrentStays
  <2>3. CASE q = p /\ AsOf(clog', pages'[p], p, Len(clog) + 1)
    BY <1>1, <2>3 DEF Current
  <2>4. CASE q = p /\ e.op = "allocate" /\ pages'[p] = pages[p] /\ dirty' = dirty
    BY <1>0, <2>1, <2>4, CurrentStays
  <2> QED BY <2>2, <2>3, <2>4
<1>5. ~ failed'
  BY DEF MatchInv
<1> QED BY <1>2, <1>3, <1>4, <1>5 DEF MatchInv

LEMMA MatchAlloc ==
  ASSUME FileInv, MatchInv, NEW t \in Threads, InsertAlloc(t)
  PROVE  MatchInv'
<1> DEFINE p == page_count + 1
           e == [op |-> "allocate", page |-> p, slot |-> 0]
<1>1. redo = 0 /\ redo' = 0 /\ failed' = failed /\ pages' = pages /\ dirty' = dirty /\ disk' = disk
  BY Now DEF InsertAlloc, up
<1>2. e \in Entry /\ clog' = Append(clog, e) /\ e.op = "allocate" /\ e.page = p
  BY Now DEF Entry, RecordOperation, InsertAlloc, AppendLog, PageNums
<1> HIDE DEF e
<1>3. clog'[Len(clog) + 1] = e
  BY <1>2, Now, LogFacts, Appended
<1>4. Possible(clog', Len(clog) + 1, e.page, e.slot)
  BY <1>2, <1>3 DEF Possible
<1> QED BY <1>1, <1>2, <1>4, MatchGrows

LEMMA MatchInit ==
  ASSUME FileInv, MatchInv, NEW t \in Threads, InsertInit(t)
  PROVE  MatchInv'
<1> DEFINE p == th[t].page
           e == [op |-> "init", page |-> p, slot |-> 0]
           n == Len(clog)
<1>1. th[t].pc = "init" /\ redo = 0 /\ redo' = 0 /\ failed' = failed /\ dirty' = dirty /\ disk' = disk
  BY Now DEF InsertInit, up
<1>2. p \in PageNums /\ \A i \in 1..n : clog[i].page = p => clog[i].op = "allocate"
  BY <1>1, Now DEF Places, Fresh, At
<1>3. e \in Entry /\ clog' = Append(clog, e) /\ e.op = "init" /\ e.page = p
  BY <1>2 DEF Entry, RecordOperation, InsertInit, AppendLog
<1>4. pages' = [pages EXCEPT ![p] = [init |-> TRUE, slots |-> NoSlots, lsn |-> n + 1]]
  BY DEF InsertInit, NextLsn
<1> HIDE DEF e, p
<1>5. /\ clog' \in Seq(Entry) /\ n \in Nat /\ n + 1 <= Len(clog') /\ clog'[n + 1] = e
      /\ \A i \in 1..n : clog'[i] = clog[i]
  BY <1>3, Now, LogFacts, Appended
<1>6. /\ \A q \in PageNums \ {p} : pages'[q] = pages[q]
      /\ pages'[p].init /\ pages'[p].slots = NoSlots /\ pages'[p].lsn = n + 1
  BY <1>2, <1>4, Now, LogFacts
<1>7. Possible(clog', n + 1, e.page, e.slot)
  BY <1>3, <1>5 DEF Possible
<1>8. AsOf(clog', pages'[p], p, n + 1)
  <2>1. Quiet(clog', p, 0, n)
    BY <1>2, <1>5 DEF Quiet
  <2> QED BY <1>3, <1>5, <1>6, <2>1, AsOfInit
<1> QED BY <1>1, <1>3, <1>6, <1>7, <1>8, MatchGrows

\* Writing a slot, when the entry was possible.
LEMMA MatchWrite ==
  ASSUME FileInv, MatchInv, NEW p \in PageNums, NEW s \in SlotNums, NEW v \in Nat, Writes(p, s, v), pages[p].init,
         NEW op \in {"insert", "delete", "update"}, AppendLog(op, p, s),
         redo = 0, redo' = redo, failed' = failed,
         op = "delete" => v = 0, op # "delete" => v = Len(clog) + 1,
         op = "insert" => pages[p].slots[s] = 0 /\ \A z \in 1..(s - 1) : pages[p].slots[z] # 0,
         op # "insert" => pages[p].slots[s] # 0
  PROVE  MatchInv'
<1> DEFINE e == [op |-> op, page |-> p, slot |-> s]
           n == Len(clog)
<1>1. e \in Entry /\ clog' = Append(clog, e) /\ e.op = op /\ e.page = p /\ e.slot = s
  BY DEF Entry, RecordOperation, AppendLog
<1> HIDE DEF e
<1>2. /\ clog' \in Seq(Entry) /\ n \in Nat /\ n + 1 <= Len(clog') /\ clog'[n + 1] = e
      /\ \A i \in 1..n : clog'[i] = clog[i]
  BY <1>1, Now, LogFacts, Appended
<1>3. /\ \A q \in PageNums \ {p} : pages'[q] = pages[q]
      /\ pages'[p].init = pages[p].init /\ pages'[p].lsn = n + 1
      /\ pages'[p].slots = [pages[p].slots EXCEPT ![s] = v]
  <2>1. Stored /\ p \in PageNums /\ s \in SlotNums /\ v \in Nat /\ Writes(p, s, v)
    BY Now
  <2> QED BY ONLY <2>1, WritesIs
<1>4. dirty' = dirty \cup {p} /\ disk' = disk
  BY DEF Writes
<1>5. /\ AsOf(clog, pages[p], p, n) /\ pages[p].slots \in [SlotNums -> Nat] /\ pages[p].lsn \in Nat
  BY UpFacts
<1>6. AsOf(clog', pages[p], p, n)
  BY <1>2, <1>5, AsOfSame
<1>7. v = Entered(clog', n + 1)
  BY <1>1, <1>2 DEF Entered
<1>8. AsOf(clog', pages'[p], p, n + 1)
  <2> DEFINE L == clog'
             pg == pages[p]
             pg2 == pages'[p]
  <2>1. /\ L \in Seq(Entry) /\ n + 1 <= Len(L) /\ L[n + 1].page = p /\ L[n + 1].slot = s
        /\ pg.slots \in [SlotNums -> Nat] /\ pg.init /\ AsOf(L, pg, p, n)
        /\ pg2.init = pg.init /\ pg2.slots = [pg.slots EXCEPT ![s] = Entered(L, n + 1)] /\ pg2.lsn = n + 1
    BY <1>1, <1>2, <1>3, <1>5, <1>6, <1>7
  <2> HIDE DEF L, pg, pg2
  <2>2. AsOf(L, pg2, p, n + 1)
    BY <1>2, <2>1, AsOfWrite
  <2> QED BY <2>2 DEF L, pg2
<1>9. \A z \in SlotNums : pages[p].slots[z] # 0 => ~ Holds(clog', 0, p, z, n)
  BY <1>2, <1>6, HoldsOne DEF AsOf
<1>10. Possible(clog', n + 1, p, s)
  <2>1. clog'[n + 1].op = op /\ (n + 1) - 1 = n
    BY <1>1, <1>2
  <2>2. CASE op = "insert"
    <3>1. Inited(clog', p, n)
      BY <1>6 DEF AsOf
    <3>2. Holds(clog', 0, p, s, n)
      BY <1>6, <2>2 DEF AsOf
    <3>3. ASSUME NEW z \in 1..(s - 1) PROVE ~ Holds(clog', 0, p, z, n)
      <4>1. z \in SlotNums
        BY RecordFileAssumption DEF SlotNums
      <4> QED BY <1>9, <2>2, <4>1
    <3> QED BY <2>1, <2>2, <3>1, <3>2, <3>3 DEF Possible
  <2>3. CASE op # "insert"
    BY <1>9, <2>1, <2>3 DEF Possible
  <2> QED BY <2>2, <2>3
<1>11. \A q \in PageNums \ {p} : q \notin dirty => q \notin dirty'
  BY <1>4
<1> QED BY <1>1, <1>3, <1>4, <1>8, <1>10, <1>11, MatchGrows

LEMMA MatchPut ==
  ASSUME FileInv, MatchInv, NEW t \in Threads, InsertPut(t)
  PROVE  MatchInv'
<1> DEFINE p == th[t].page
           s == FirstFree(pages[p])
<1>1. th[t].pc = "put" /\ redo = 0
  BY Now DEF InsertPut
<1>2. p \in PageNums /\ ~ IsFull(pages[p]) /\ pages[p].slots \in [SlotNums -> Nat]
  BY <1>1, Now, UpFacts DEF Places, Exclusive, At
<1>3. s \in SlotNums /\ pages[p].slots[s] = 0 /\ pages[p].init /\ \A z \in 1..(s - 1) : pages[p].slots[z] # 0
  BY <1>2, FirstFreeIs
<1>4. NextLsn \in Nat /\ NextLsn = Len(clog) + 1
  BY Now, LogFacts DEF NextLsn
<1>5. AppendLog("insert", p, s) /\ Writes(p, s, NextLsn) /\ redo' = redo /\ failed' = failed
  BY DEF InsertPut, Writes, up
<1> HIDE DEF p, s
<1> QED BY <1>1, <1>2, <1>3, <1>4, <1>5, MatchWrite

LEMMA MatchChange ==
  ASSUME FileInv, MatchInv, NEW t \in Threads, NEW r \in RIDs, Delete(t, r) \/ Update(t, r)
  PROVE  MatchInv'
<1> DEFINE p == r[1]
           s == r[2]
<1>1. redo = 0 /\ redo' = redo /\ failed' = failed /\ r \in Records
  BY DEF Delete, Update, up
<1>2. p \in PageNums /\ s \in SlotNums /\ pages[p].slots[s] # 0
  BY <1>1 DEF RIDs, Records
<1>3. \/ AppendLog("delete", p, s) /\ Writes(p, s, 0)
      \/ AppendLog("update", p, s) /\ Writes(p, s, NextLsn)
  BY DEF Delete, Update, Writes
<1>4. NextLsn \in Nat /\ NextLsn = Len(clog) + 1
  BY Now, LogFacts DEF NextLsn
<1> HIDE DEF p, s
<1>5. pages[p].init
  BY <1>2, UpFacts DEF NoSlots
<1>6. CASE AppendLog("delete", p, s) /\ Writes(p, s, 0)
  BY <1>1, <1>2, <1>5, <1>6, MatchWrite
<1>7. CASE AppendLog("update", p, s) /\ Writes(p, s, NextLsn)
  BY <1>1, <1>2, <1>4, <1>5, <1>7, MatchWrite
<1> QED BY <1>3, <1>6, <1>7

LEMMA MatchSame ==
  ASSUME MatchInv, UNCHANGED <<pages, dirty, disk, clog, redo, failed>>
  PROVE  MatchInv'
<1>1. pages' = pages /\ dirty' = dirty /\ disk' = disk /\ clog' = clog /\ redo' = redo /\ failed' = failed
  OBVIOUS
<1> QED BY <1>1 DEF MatchInv, Current

LEMMA MatchFlush ==
  ASSUME FileInv, MatchInv, ~ RedoEvicts, NEW p \in PageNums, PageFlush(p)
  PROVE  MatchInv'
<1>1. /\ pages' = pages /\ clog' = clog /\ redo' = redo /\ failed' = failed /\ dirty' = dirty \ {p}
      /\ redo = 0 /\ p \in dirty /\ disk' = [disk EXCEPT ![p] = pages[p]]
  BY DEF PageFlush, logs, up
<1>2. disk'[p] = pages[p] /\ \A q \in PageNums \ {p} : disk'[q] = disk[q]
  BY <1>1, Now, LogFacts
<1>3. AsOf(clog, pages[p], p, pages[p].lsn)
  <2>1. AsOf(clog, pages[p], p, Len(clog)) /\ pages[p].lsn \in Nat
    BY <1>1, UpFacts DEF Current
  <2>2. clog \in Seq(Entry) /\ Len(clog) \in Nat /\ Len(clog) <= Len(clog)
    BY Now, LogFacts
  <2> QED BY <2>1, <2>2, AsOfBack
<1>4. ASSUME NEW q \in PageNums PROVE AsOf(clog', disk'[q], q, disk'[q].lsn) /\ Current(q)'
  <2>1. Current(q)'
    <3>1. Current(q)
      BY <1>1, UpFacts
    <3> QED BY <1>1, <3>1 DEF Current
  <2>2. CASE q = p
    BY <1>1, <1>2, <1>3, <2>1, <2>2
  <2>3. CASE q # p
    BY <1>1, <1>2, <2>1, <2>3, UpFacts
  <2> QED BY <2>2, <2>3
<1> QED BY <1>1, <1>4 DEF MatchInv

LEMMA MatchEvict ==
  ASSUME FileInv, MatchInv, ~ RedoEvicts, NEW p \in PageNums, PageEvict(p)
  PROVE  MatchInv'
<1>1. /\ disk' = disk /\ clog' = clog /\ redo' = redo /\ failed' = failed /\ dirty' = dirty
      /\ redo = 0 /\ p \notin dirty /\ pages[p] # disk[p] /\ pages' = [pages EXCEPT ![p] = disk[p]]
  BY DEF PageEvict, logs, up
<1>2. pages'[p] = disk[p] /\ \A q \in PageNums \ {p} : pages'[q] = pages[q]
  BY <1>1, Now, LogFacts
<1>3. ~ disk[p].init /\ pages[p].slots = NoSlots
  BY <1>1, Now, PageFacts DEF PageInv
<1>4. Current(p)'
  <2>1. \A s \in SlotNums : pages[p].slots[s] = 0
    BY <1>3 DEF NoSlots
  <2>2. Current(p)
    BY <1>1, UpFacts
  <2>3. ASSUME NEW s \in SlotNums PROVE Holds(clog, 0, p, s, Len(clog))
    BY <2>1, <2>2 DEF Current, AsOf, Dropped
  <2> QED BY <1>1, <1>2, <1>3, <2>3 DEF Current, Dropped
<1>5. ASSUME NEW q \in PageNums PROVE AsOf(clog', disk'[q], q, disk'[q].lsn) /\ Current(q)'
  <2>1. AsOf(clog', disk'[q], q, disk'[q].lsn) /\ Current(q)
    BY <1>1, UpFacts
  <2>2. CASE q = p
    BY <1>4, <2>1, <2>2
  <2>3. CASE q # p
    <3>1. pages'[q] = pages[q]
      BY <1>2, <2>3
    <3> QED BY <1>1, <2>1, <3>1 DEF Current
  <2> QED BY <2>2, <2>3
<1> QED BY <1>1, <1>5 DEF MatchInv

LEMMA MatchCrash ==
  ASSUME FileInv, MatchInv, Crash
  PROVE  MatchInv'
<1>1. pages' = disk /\ disk' = disk /\ clog' = SubSeq(clog, 1, flushed) /\ redo' = 1 /\ failed' = FALSE
  BY DEF Crash
<1>2. /\ Stored /\ flushed \in Nat /\ flushed <= Len(clog) /\ Len(clog) \in Nat
      /\ Len(clog') = flushed /\ \A i \in 1..flushed : clog'[i] = clog[i]
  BY <1>1, Now, LogFacts
<1>3. LogSane(clog')
  <2>1. LogSane(clog)
    BY DEF MatchInv
  <2>2. \A i \in 1..flushed : Possible(clog', i, clog'[i].page, clog'[i].slot)
    BY <1>2, <2>1, SaneStays
  <2> QED BY <1>2, <2>2 DEF LogSane
<1>4. ASSUME NEW q \in PageNums
      PROVE  AsOf(clog', disk[q], q, disk[q].lsn) /\ Replaying(clog', disk[q], q, 1)
  <2>1. AsOf(clog, disk[q], q, disk[q].lsn) /\ disk[q].lsn \in Nat
    BY UpFacts
  <2>2. disk[q].lsn <= flushed
    BY <1>2, PageFacts
  <2>3. \A i \in 1..disk[q].lsn : clog'[i] = clog[i]
    BY <1>2, <2>1, <2>2
  <2>4. AsOf(clog', disk[q], q, disk[q].lsn)
    BY <2>1, <2>3, AsOfSame
  <2>5. CASE disk[q].lsn = 0
    <3>1. disk[q].lsn = 1 - 1
      BY <2>5
    <3> QED BY <2>4, <3>1 DEF Replaying
  <2>6. CASE disk[q].lsn # 0
    <3>1. disk[q].lsn >= 1
      BY <2>1, <2>6
    <3> QED BY <2>4, <3>1 DEF Replaying
  <2> QED BY <2>4, <2>5, <2>6
<1> QED BY <1>1, <1>3, <1>4 DEF MatchInv

LEMMA MatchDone ==
  ASSUME FileInv, MatchInv, RedoDone
  PROVE  MatchInv'
<1>1. pages' = pages /\ dirty' = dirty /\ disk' = disk /\ clog' = clog /\ redo' = 0 /\ failed' = failed
  BY DEF RedoDone, store, logs
<1>2. redo = Len(clog) + 1 /\ redo > 0 /\ redo - 1 = Len(clog)
  BY Now, LogFacts DEF RedoDone
<1>3. ASSUME NEW q \in PageNums PROVE Current(q)'
  <2>1. Replaying(clog, pages[q], q, redo) /\ pages[q].lsn \in Nat
    BY <1>2, UpFacts
  <2>2. pages[q].lsn <= Len(clog) /\ Len(clog) \in Nat
    BY Now, LogFacts, PageFacts
  <2>3. ~ (pages[q].lsn >= redo)
    BY <1>2, <2>1, <2>2
  <2>4. AsOf(clog, pages[q], q, Len(clog))
    BY <1>2, <2>1, <2>3 DEF Replaying
  <2> QED BY <1>1, <2>4 DEF Current
<1>4. \A q \in PageNums : AsOf(clog', disk'[q], q, disk'[q].lsn)
  BY <1>1, UpFacts
<1> QED BY <1>1, <1>3, <1>4 DEF MatchInv

\* Redo comes to an entry that does not concern the page, or that it knows of.
LEMMA ReplayOn ==
  ASSUME NEW L \in Seq(Entry), NEW k \in 1..Len(L), NEW pg, NEW q, pg.lsn \in Nat, Replaying(L, pg, q, k),
         Quiet(L, q, k - 1, k) \/ pg.lsn >= k
  PROVE  Replaying(L, pg, q, k + 1)
<1>0. k \in Nat /\ k - 1 \in Nat /\ k - 1 <= k /\ k <= Len(L) /\ (k + 1) - 1 = k
  OBVIOUS
<1>1. CASE AsOf(L, pg, q, k - 1)
  <2>1. ~ (pg.lsn >= k)
    BY <1>0, <1>1 DEF AsOf
  <2>2. AsOf(L, pg, q, k)
    BY <1>0, <1>1, <2>1, AsOfOn
  <2> QED BY <1>0, <2>2 DEF Replaying
<1>2. CASE pg.lsn >= k /\ AsOf(L, pg, q, pg.lsn)
  <2>1. CASE pg.lsn = k
    BY <1>0, <1>2, <2>1 DEF Replaying
  <2>2. CASE pg.lsn >= k + 1
    BY <1>2, <2>2 DEF Replaying
  <2> QED BY <1>0, <1>2, <2>1, <2>2
<1> QED BY <1>1, <1>2 DEF Replaying

\* The first free slot, when it is known which one it is.
LEMMA FirstFreeAt ==
  ASSUME NEW pg, pg.slots \in [SlotNums -> Nat], ~ IsFull(pg), NEW s \in SlotNums, pg.slots[s] = 0,
         \A z \in 1..(s - 1) : pg.slots[z] # 0
  PROVE  FirstFree(pg) = s
<1>1. /\ FirstFree(pg) \in SlotNums /\ pg.slots[FirstFree(pg)] = 0
      /\ \A z \in 1..(FirstFree(pg) - 1) : pg.slots[z] # 0
  BY FirstFreeIs
<1>2. FirstFree(pg) \in Nat /\ s \in Nat /\ FirstFree(pg) >= 1 /\ s >= 1
  BY <1>1, RecordFileAssumption DEF SlotNums
<1>3. ~ (FirstFree(pg) < s)
  BY <1>1, <1>2
<1>4. ~ (s < FirstFree(pg))
  BY <1>1, <1>2
<1> QED BY <1>2, <1>3, <1>4

\* Replay of a possible entry, on the page as the entries before it made it:
\* it does not fail, and a record comes to the slot it had.
LEMMA ReplayMatches ==
  ASSUME NEW L \in Seq(Entry), NEW k \in 1..Len(L), NEW pg, IsPage(pg), NEW p, p = L[k].page,
         ~ pg.init => pg.slots = NoSlots,
         AsOf(L, pg, p, k - 1), Possible(L, k, p, L[k].slot), L[k].op # "allocate",
         L[k].op = "init" => Quiet(L, p, 0, k - 1)
  PROVE  ~ ReplayFails(pg, L[k]) /\ AsOf(L, Replayed(pg, L[k], k), p, k)
<1> DEFINE s == L[k].slot
           n == k - 1
           v == Entered(L, k)
           R == Written(pg, s, v, k)
<1>1. n \in Nat /\ n + 1 = k /\ n + 1 <= Len(L) /\ pg.slots \in [SlotNums -> Nat]
  BY DEF IsPage
<1>2. /\ L[k].op \in {"init", "insert", "delete", "update"}
      /\ L[k].op # "init" => s \in SlotNums
  BY Entries
<1> HIDE DEF n
<1>N. AsOf(L, pg, p, n) /\ (L[k].op = "init" => Quiet(L, p, 0, n))
  BY DEF n
<1>3. CASE L[k].op = "init"
  <2>1. Replayed(pg, L[k], k) = [init |-> TRUE, slots |-> NoSlots, lsn |-> k]
    BY <1>3 DEF Replayed
  <2>2. ~ ReplayFails(pg, L[k])
    BY <1>3 DEF ReplayFails
  <2>3. ASSUME NEW pg2, pg2 = [init |-> TRUE, slots |-> NoSlots, lsn |-> k]
        PROVE  AsOf(L, pg2, p, n + 1)
    <3>1. pg2.init /\ pg2.slots = NoSlots /\ pg2.lsn = n + 1
      BY <1>1, <2>3
    <3> QED BY <1>1, <1>3, <1>N, <3>1, AsOfInit
  <2> QED BY <1>1, <2>1, <2>2, <2>3
<1>4. CASE L[k].op # "init"
  <2>1. s \in SlotNums /\ Holds(L, pg.slots[s], p, s, n)
    BY <1>2, <1>4, <1>N DEF AsOf
  <2>2. /\ L[k].op = "insert" => /\ Inited(L, p, n) /\ Holds(L, 0, p, s, n)
                                 /\ \A z \in 1..(s - 1) : ~ Holds(L, 0, p, z, n)
        /\ L[k].op \in {"delete", "update"} => ~ Holds(L, 0, p, s, n)
    BY DEF Possible, n
  <2> HIDE DEF s
  <2>3. /\ ~ ReplayFails(pg, L[k]) /\ pg.init /\ Replayed(pg, L[k], k) = R
    <3>1. CASE L[k].op = "insert"
      <4>1. pg.init
        BY <1>N, <2>2, <3>1 DEF AsOf
      <4>2. pg.slots[s] = 0
        BY <1>1, <2>1, <2>2, <3>1, HoldsOne
      <4>3. ~ IsFull(pg)
        BY <2>1, <4>1, <4>2 DEF IsFull, Used
      <4>4. ASSUME NEW z \in 1..(s - 1) PROVE pg.slots[z] # 0
        <5>1. z \in SlotNums
          BY <2>1, RecordFileAssumption DEF SlotNums
        <5>2. Holds(L, pg.slots[z], p, z, n)
          BY <1>N, <5>1 DEF AsOf
        <5> QED BY <2>2, <3>1, <5>2
      <4>5. FirstFree(pg) = s
        BY <1>1, <2>1, <4>2, <4>3, <4>4, FirstFreeAt
      <4>6. Replayed(pg, L[k], k) = Written(pg, FirstFree(pg), k, k) /\ v = k
        BY <3>1 DEF Replayed, Entered
      <4>7. ~ ReplayFails(pg, L[k])
        BY <3>1, <4>3 DEF ReplayFails
      <4> QED BY <4>1, <4>5, <4>6, <4>7
    <3>2. CASE L[k].op \in {"delete", "update"}
      <4>1. pg.slots[s] # 0
        BY <2>1, <2>2, <3>2
      <4>2. pg.init
        BY <2>1, <4>1 DEF NoSlots
      <4>3. ~ ReplayFails(pg, L[k])
        BY <3>2, <4>1 DEF ReplayFails, s
      <4>4. Replayed(pg, L[k], k) = Written(pg, L[k].slot, v, k)
        <5>1. CASE L[k].op = "delete"
          BY <5>1 DEF Replayed, Entered
        <5>2. CASE L[k].op = "update"
          BY <5>2 DEF Replayed, Entered
        <5> QED BY <3>2, <5>1, <5>2
      <4> QED BY <4>2, <4>3, <4>4 DEF s
    <3> QED BY <1>2, <1>4, <3>1, <3>2
  <2>4. R.init = pg.init /\ R.slots = [pg.slots EXCEPT ![s] = v] /\ R.lsn = n + 1
    BY <1>1 DEF Written
  <2> HIDE DEF R
  <2>5. AsOf(L, R, p, n + 1)
    <3>1. L[n + 1].page = p /\ L[n + 1].slot = s /\ v = Entered(L, n + 1)
      BY <1>1 DEF s
    <3> HIDE DEF v
    <3> QED BY <1>1, <1>N, <2>1, <2>3, <2>4, <3>1, AsOfWrite
  <2> QED BY <1>1, <2>3, <2>5
<1> QED BY <1>3, <1>4

LEMMA MatchRedo ==
  ASSUME FileInv, MatchInv, Redo
  PROVE  MatchInv'
<1> DEFINE k == redo
           p == clog[k].page
           R == Replayed(pages[p], clog[k], k)
<1>1. /\ k \in 1..Len(clog) /\ redo' = k + 1 /\ disk' = disk /\ clog' = clog /\ k > 0 /\ redo' > 0
      /\ clog \in Seq(Entry) /\ Stored
  BY Now, LogFacts DEF Redo, logs
<1>2. p \in PageNums
  BY <1>1, RedoPage
<1>3. \/ pages' = pages /\ failed' = failed /\ (clog[k].op = "allocate" \/ Skipped(pages[p], k))
      \/ /\ clog[k].op # "allocate" /\ ~ Skipped(pages[p], k)
         /\ \/ ReplayFails(pages[p], clog[k])
            \/ pages' = [pages EXCEPT ![p] = R] /\ failed' = failed
  BY DEF Redo
<1> HIDE DEF k, p, R
<1>4. ASSUME NEW q \in PageNums, q # p, pages'[q] = pages[q] PROVE Replaying(clog, pages'[q], q, k + 1)
  <2>1. Replaying(clog, pages[q], q, k) /\ pages[q].lsn \in Nat
    BY <1>1, UpFacts DEF k
  <2>2. Quiet(clog, q, k - 1, k)
    BY <1>1, <1>4 DEF Quiet, p
  <2> QED BY <1>1, <1>4, <2>1, <2>2, ReplayOn
<1>5. Replaying(clog, pages[p], p, k) /\ pages[p].lsn \in Nat /\ IsPage(pages[p])
  BY <1>1, <1>2, UpFacts, PageFacts DEF k
<1>6. /\ failed' = failed /\ Replaying(clog, pages'[p], p, k + 1)
      /\ \A q \in PageNums \ {p} : pages'[q] = pages[q]
  <2>1. CASE pages' = pages /\ failed' = failed /\ (clog[k].op = "allocate" \/ Skipped(pages[p], k))
    <3>1. Quiet(clog, p, k - 1, k) \/ pages[p].lsn >= k
      BY <1>1, <2>1 DEF Quiet, Skipped
    <3> QED BY <1>1, <1>5, <2>1, <3>1, ReplayOn
  <2>2. CASE /\ clog[k].op # "allocate" /\ ~ Skipped(pages[p], k)
             /\ \/ ReplayFails(pages[p], clog[k])
                \/ pages' = [pages EXCEPT ![p] = R] /\ failed' = failed
    <3>1. AsOf(clog, pages[p], p, k - 1)
      BY <1>5, <2>2 DEF Replaying, Skipped
    <3>2. Possible(clog, k, p, clog[k].slot)
      BY <1>1 DEF MatchInv, LogSane, p
    <3>3. ~ pages[p].init => pages[p].slots = NoSlots
      BY <1>2, UpFacts
    <3>4. clog[k].op = "init" => Quiet(clog, p, 0, k - 1)
      <4> SUFFICES ASSUME clog[k].op = "init", NEW i \in 1..(k - 1), clog[i].page = p, clog[i].op # "allocate"
                   PROVE  FALSE
        BY DEF Quiet
      <4>1. i \in 1..Len(clog) /\ ~ (k <= i)
        BY <1>1
      <4> QED BY <1>1, <4>1, LogFacts DEF InitFirst, p
    <3>5. ~ ReplayFails(pages[p], clog[k]) /\ AsOf(clog, R, p, k)
      BY <1>1, <1>5, <2>2, <3>1, <3>2, <3>3, <3>4, ReplayMatches DEF p, R
    <3>6. pages' = [pages EXCEPT ![p] = R] /\ failed' = failed
      BY <2>2, <3>5
    <3>7. pages'[p] = R /\ \A q \in PageNums \ {p} : pages'[q] = pages[q]
      BY <1>1, <1>2, <3>6, LogFacts
    <3>8. (k + 1) - 1 = k
      BY <1>1
    <3>9. Replaying(clog, R, p, k + 1)
      BY <3>5, <3>8 DEF Replaying
    <3> QED BY <3>6, <3>7, <3>9
  <2> QED BY <1>3, <2>1, <2>2
<1>7. \A q \in PageNums : Replaying(clog', pages'[q], q, redo')
  BY <1>1, <1>4, <1>6
<1>8. LogSane(clog') /\ ~ failed'
  BY <1>1, <1>6 DEF MatchInv
<1>9. \A q \in PageNums : AsOf(clog', disk'[q], q, disk'[q].lsn)
  BY <1>1 DEF MatchInv
<1> QED BY <1>1, <1>7, <1>8, <1>9 DEF MatchInv

LEMMA MatchStep ==
  ASSUME FileInv, MatchInv, ~ RedoEvicts, [Next]_vars
  PROVE  MatchInv'
<1>1. ASSUME NEW t \in Threads, ThreadStep(t) PROVE MatchInv'
  <2>1. CASE InsertAlloc(t)
    BY <2>1, MatchAlloc
  <2>2. CASE InsertInit(t)
    BY <2>2, MatchInit
  <2>3. CASE InsertPut(t)
    BY <2>3, MatchPut
  <2>4. ASSUME NEW r \in RIDs, Delete(t, r) \/ Update(t, r) PROVE MatchInv'
    BY <2>4, MatchChange
  <2>5. CASE UNCHANGED <<store, logs, up>>
    <3>1. UNCHANGED <<pages, dirty, disk, clog, redo, failed>>
      BY <2>5 DEF store, logs, up
    <3> QED BY <3>1, MatchSame
  <2>6. InsertLock(t) \/ InsertPick(t) \/ InsertLatch(t) \/ InsertRegister(t) => UNCHANGED <<store, logs, up>>
    BY DEF InsertLock, InsertPick, InsertLatch, InsertRegister
  <2>7. DeleteRegister(t) \/ ScanEnter(t) \/ ScanNextPage(t) \/ ScanClose(t) => UNCHANGED <<store, logs, up>>
    BY DEF DeleteRegister, ScanEnter, ScanNextPage, ScanClose
  <2>8. ASSUME NEW mode \in {"r", "w"}, ScanOpen(t, mode) PROVE UNCHANGED <<store, logs, up>>
    BY <2>8 DEF ScanOpen
  <2> QED BY <1>1, <2>1, <2>2, <2>3, <2>4, <2>5, <2>6, <2>7, <2>8 DEF ThreadStep
<1>2. CASE LogFlush
  <2>1. UNCHANGED <<pages, dirty, disk, clog, redo, failed>>
    BY <1>2 DEF LogFlush, store, up
  <2> QED BY <2>1, MatchSame
<1>3. CASE Crash
  BY <1>3, MatchCrash
<1>4. CASE Redo
  BY <1>4, MatchRedo
<1>5. CASE RedoDone
  BY <1>5, MatchDone
<1>6. ASSUME NEW p \in PageNums, PageFlush(p) PROVE MatchInv'
  BY <1>6, MatchFlush
<1>7. ASSUME NEW p \in PageNums, PageEvict(p) PROVE MatchInv'
  BY <1>7, MatchEvict
<1>8. CASE UNCHANGED vars
  <2>1. UNCHANGED <<pages, dirty, disk, clog, redo, failed>>
    BY <1>8 DEF vars, store, logs, up
  <2> QED BY <2>1, MatchSame
<1> QED BY <1>1, <1>2, <1>3, <1>4, <1>5, <1>6, <1>7, <1>8 DEF Next

LEMMA MatchInitially ==
  ASSUME Init
  PROVE  MatchInv
<1>1. /\ pages = [p \in PageNums |-> ZeroPage] /\ disk = pages /\ clog = <<>> /\ redo = 0 /\ failed = FALSE
      /\ Len(clog) = 0
  BY DEF Init
<1>2. ASSUME NEW p \in PageNums PROVE AsOf(clog, ZeroPage, p, 0)
  <2>1. ZeroPage.lsn = 0 /\ ~ ZeroPage.init /\ \A s \in SlotNums : ZeroPage.slots[s] = 0
    BY DEF ZeroPage, NoSlots
  <2>2. \A s \in SlotNums : Holds(clog, 0, p, s, 0)
    BY DEF Holds, Untouched
  <2>3. ~ Inited(clog, p, 0) /\ Quiet(clog, p, 0, 0)
    BY DEF Inited, Quiet
  <2> QED BY <2>1, <2>2, <2>3 DEF AsOf
<1>3. ASSUME NEW p \in PageNums PROVE pages[p] = ZeroPage /\ disk[p] = ZeroPage /\ ZeroPage.lsn = 0
  BY <1>1 DEF ZeroPage
<1>4. LogSane(clog)
  BY <1>1 DEF LogSane
<1>5. \A p \in PageNums : AsOf(clog, disk[p], p, disk[p].lsn)
  BY <1>2, <1>3
<1>6. \A p \in PageNums : Current(p)
  BY <1>1, <1>2, <1>3 DEF Current
<1> QED BY <1>1, <1>4, <1>5, <1>6 DEF MatchInv

(* What LastWrite takes from the log is what the slot holds at its end.     *)
LEMMA LastIs ==
  ASSUME Stored, NEW p, NEW s, NEW v, Holds(clog, v, p, s, Len(clog))
  PROVE  v = LastWrite(p, s)
<1> DEFINE about == {i \in DOMAIN clog : clog[i].page = p /\ clog[i].slot = s}
<1>1. Len(clog) \in Nat /\ DOMAIN clog = 1..Len(clog)
  BY LogFacts
<1>2. LastWrite(p, s) = IF about = {} \/ clog[Max(about)].op = "delete" THEN 0 ELSE Max(about)
  BY DEF LastWrite
<1>3. CASE v = 0 /\ Untouched(clog, p, s, 0, Len(clog))
  <2>1. about = {}
    BY <1>1, <1>3 DEF Untouched, About
  <2> QED BY <1>2, <1>3, <2>1
<1>4. ASSUME NEW k \in 1..Len(clog), About(clog, k, p, s), Untouched(clog, p, s, k, Len(clog)), v = Entered(clog, k)
      PROVE  v = LastWrite(p, s)
  <2>1. k \in about /\ \A y \in about : y \in Nat /\ y <= k
    BY <1>1, <1>4 DEF Untouched, About
  <2> HIDE DEF about
  <2>2. Max(about) = k
    <3>1. Max(about) = CHOOSE x \in about : \A y \in about : x >= y
      BY DEF Max
    <3>2. \A y \in about : k >= y
      BY <2>1
    <3>3. Max(about) \in about /\ \A y \in about : Max(about) >= y
      BY <2>1, <3>1, <3>2
    <3>4. Max(about) \in Nat /\ Max(about) <= k /\ Max(about) >= k /\ k \in Nat
      BY <2>1, <3>3
    <3> HIDE DEF about
    <3> QED BY <3>4
  <2> QED BY <1>2, <1>4, <2>1, <2>2 DEF Entered
<1> QED BY <1>3, <1>4 DEF Holds

(* While the system is up the pages hold what the log says, record by       *)
(* record, whatever was flushed, evicted or lost in crashes before: redo    *)
(* never fails and each record comes back to the slot it was given, though  *)
(* replay_insert looks for the slot itself.  Redo must not evict frames.    *)
THEOREM RedoRestores == ~ RedoEvicts => (Spec => []PagesMatchLog)
<1> SUFFICES ASSUME ~ RedoEvicts PROVE Spec => []PagesMatchLog
  OBVIOUS
<1>1. Init => MatchInv
  BY MatchInitially
<1>2. FileInv /\ MatchInv /\ [Next]_vars => MatchInv'
  BY MatchStep
<1>3. FileInv /\ MatchInv => PagesMatchLog
  <2> SUFFICES ASSUME FileInv, MatchInv, redo = 0
               PROVE  ~ failed /\ \A r \in RIDs : pages[r[1]].slots[r[2]] = LastWrite(r[1], r[2])
    BY DEF PagesMatchLog
  <2>1. ASSUME NEW p \in PageNums, NEW s \in SlotNums PROVE pages[p].slots[s] = LastWrite(p, s)
    <3>1. Holds(clog, pages[p].slots[s], p, s, Len(clog))
      <4>1. Current(p) /\ (~ pages[p].init => pages[p].slots = NoSlots)
        BY UpFacts
      <4>2. CASE AsOf(clog, pages[p], p, Len(clog))
        BY <4>2 DEF AsOf
      <4>3. CASE Dropped(clog, pages[p], p)
        <5>1. pages[p].slots[s] = 0
          BY <4>1, <4>3 DEF Dropped, NoSlots
        <5> QED BY <4>3, <5>1 DEF Dropped
      <4> QED BY <4>1, <4>2, <4>3 DEF Current
    <3> QED BY <3>1, Now, LastIs
  <2>2. \A r \in RIDs : r[1] \in PageNums /\ r[2] \in SlotNums
    BY DEF RIDs
  <2> QED BY <2>1, <2>2 DEF MatchInv
<1> QED BY <1>1, <1>2, <1>3, FileInvariant, PTL DEF Spec
=============================================================================
