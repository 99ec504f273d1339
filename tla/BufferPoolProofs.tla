-------------------------- MODULE BufferPoolProofs --------------------------
(***************************************************************************)
(* Proofs about the buffer pools, for any threads, files, numbers of pages *)
(* and frames, log length and number of crashes: no page runs ahead of the *)
(* log, the bitmaps agree with the log, which threads can block each other *)
(* and, unless two threads were once getting a page at the same time, who  *)
(* gets a page gets its newest content.                                    *)
(***************************************************************************)
EXTENDS BufferPool, TLAPS, FiniteSetTheorems, WellFoundedInduction

\* The steps of a thread that fetches a page into a frame, and of one that writes
\* a dirty page for it.
Fetching == {"alloc", "purge", "manager", "other", "evict", "load"}
Evicting == {"manager", "other", "evict"}
At(t, pcs) == th[t].pc \in pcs

-----------------------------------------------------------------------------
(* Types.                                                                   *)
FrameT == [pin : Int, dirty : BOOLEAN, lsn : Int]
HeaderT == [bits : SUBSET PageNums, page_count : Int, allocated_pages : Int, lsn : Nat]
Job == [pc : Steps, page : Pages \cup {None}, why : Reasons, victim : Pages \cup {None}]

Typed ==
  /\ DOMAIN frames \subseteq Pages /\ \A k \in DOMAIN frames : frames[k] \in FrameT
  /\ fm_lock \in Owners /\ bpm_lock \in Owners /\ pool_lock \in [Pools -> Owners]
  /\ opened \subseteq Pools
  /\ header \in [Pools -> HeaderT] /\ disk_header \in [Pools -> HeaderT]
  /\ disk \in [Pages -> Int] /\ newest \in [Pages -> Int]
  /\ clog \in Seq(BufferPoolLogEntry) /\ flushed \in 0..Len(clog)
  /\ th \in [Threads -> Job]
  /\ restarts \in Nat /\ redo \in 0..(Len(clog) + 1) /\ failed \in BOOLEAN

-----------------------------------------------------------------------------
(* What the steps of a thread say about its page and its locks.             *)
Job1(t) ==
  LET j == th[t]
  IN /\ At(t, {"idle", "sync"}) <=> j.page = None
     /\ At(t, Fetching) => j.why # "none"
     /\ At(t, {"miss"}) => j.why = "get"
     /\ j.page = None => j.why = "none"
     /\ j.why = "open" => At(t, {"alloc", "purge", "manager", "load"})
     /\ j.page # None => (j.page[2] = 0 <=> j.why = "open")
     /\ j.page # None => (j.page[1] \in opened <=> j.why # "open")
     /\ At(t, Evicting) => j.victim \in DOMAIN frames /\ j.victim[2] # 0
     /\ At(t, {"manager", "other"}) => j.victim[1] # j.page[1]
     /\ At(t, {"load"}) /\ j.why = "open" => j.page \in DOMAIN frames
     /\ redo > 0 => At(t, {"idle"})
Owner(t) ==
  /\ fm_lock = t <=> At(t, Evicting)
  /\ th[t].why = "open" \/ At(t, {"other"}) \/ (At(t, {"evict"}) /\ th[t].victim[1] # th[t].page[1]) =>
       bpm_lock = t
  /\ At(t, Fetching \cup {"free"}) /\ th[t].why # "open" => pool_lock[th[t].page[1]] = t
  /\ At(t, {"evict"}) => pool_lock[th[t].victim[1]] = t
  /\ \A p \in Pools : pool_lock[p] = t =>
       /\ At(t, Fetching \cup {"free"}) /\ th[t].why # "open"
       /\ p = th[t].page[1] \/ (At(t, {"evict"}) /\ p = th[t].victim[1])
Sound(t) == Job1(t) /\ Owner(t)
SyncAlone == \A t, u \in Threads : t # u /\ At(t, {"sync"}) => At(u, {"idle"})

HeaderFrames ==
  /\ \A p \in opened : Header(p) \in DOMAIN frames
  /\ \A k \in DOMAIN frames :
       IF k[2] = 0 THEN /\ frames[k].pin >= 1
                        /\ k[1] \in opened \/ \E t \in Threads : At(t, {"load"}) /\ th[t].page = k
       ELSE k[1] \in opened

ThreadInv == (\A t \in Threads : Sound(t)) /\ SyncAlone /\ HeaderFrames

WalInv ==
  /\ \A k \in DOMAIN frames : frames[k].lsn <= Len(clog)
  /\ \A p \in Pools : header[p].lsn <= Len(clog)
  /\ redo > 0 => flushed = Len(clog)
  /\ WriteAhead

-----------------------------------------------------------------------------
(* The allocations that the first m entries of log L tell of.               *)
About(L, i, p, n) == L[i].page = <<p, n>> /\ L[i].op # "change"
Allocates(L, i, p, n) == L[i].page = <<p, n>> /\ L[i].op = "allocate"
Allocated(L, p, n, m) == \E i \in 1..m : Allocates(L, i, p, n) /\ \A j \in (i + 1)..m : ~ About(L, j, p, n)
Extended(L, p, n, m) == \E i \in 1..m : Allocates(L, i, p, n)

\* Header h of pool p is as the first m entries made it.
AsOf(L, h, p, m) ==
  /\ h.bits = {0} \cup {n \in PageNums : Allocated(L, p, n, m)}
  /\ h.page_count \in 1..MAX_PAGE_NUM
  /\ \A n \in PageNums : n < h.page_count <=> n = 0 \/ Extended(L, p, n, m)
  /\ h.allocated_pages = Cardinality(h.bits)
\* The entries that it has and whose LSN it has not are allocations that hold.
Good(L, h, p, m) ==
  /\ AsOf(L, h, p, m) /\ h.lsn <= m
  /\ \A i \in (h.lsn + 1)..m : L[i].page[1] = p /\ L[i].op # "change" =>
       L[i].op = "allocate" /\ L[i].page[2] \in h.bits

\* Every entry was possible after the ones before it.
Possible(L, i, p, n) ==
  /\ n # 0
  /\ L[i].op = "allocate" => ~ Allocated(L, p, n, i - 1) /\ \A q \in 1..(n - 1) : Extended(L, p, q, i - 1)
  /\ L[i].op = "deallocate" => Allocated(L, p, n, i - 1)
  /\ L[i].op = "change" => Extended(L, p, n, i - 1)
LogSane(L) == \A i \in 1..Len(L) : Possible(L, i, L[i].page[1], L[i].page[2])

\* A header that a thread is about to extend by a page, which is logged already.
Extends(t) == th[t].why = "extend" /\ At(t, Fetching)
Grows(p) == \E t \in Threads : Extends(t) /\ th[t].page[1] = p
Larger(h) == [bits |-> h.bits \cup {h.page_count}, page_count |-> h.page_count + 1,
              allocated_pages |-> h.allocated_pages + 1, lsn |-> h.lsn]
Whole(p) == IF Grows(p) THEN Larger(header[p]) ELSE header[p]

WantedPages ==
  \A t \in Threads : th[t].page # None /\ th[t].why # "open" =>
    IF Extends(t) THEN th[t].page[2] = header[th[t].page[1]].page_count
    ELSE th[t].page[2] \in header[th[t].page[1]].bits
Disposers ==
  \A t, u \in Threads : t # u /\ At(t, {"dispose", "free"}) => th[u].page # th[t].page
Openers == \A t \in Threads : th[t].why = "open" => disk_header[th[t].page[1]] = NewHeader

\* A pool that has a file: its header on disk, and in memory.
FileThere(p) == disk_header[p].page_count > 0
OnDisk(p) == \E m \in 0..flushed : Good(clog, disk_header[p], p, m)
Running(p) == /\ Good(clog, Whole(p), p, Len(clog))
              /\ \A i \in (flushed + 1)..Len(clog) :
                   clog[i].page[1] = p /\ clog[i].op # "change" => i <= header[p].lsn
Redone(p) == \E m \in (redo - 1)..Len(clog) : Good(clog, header[p], p, m)

HeaderInv ==
  /\ LogSane(clog)
  /\ \A i \in 1..Len(clog) : clog[i].page[1] \in opened
  /\ \A p \in opened : FileThere(p)
  /\ \A p \in Pools : FileThere(p) => OnDisk(p)
  /\ IF redo = 0 THEN \A p \in opened : Running(p)
     ELSE (\A p \in Pools : FileThere(p) => p \in opened) /\ (failed \/ \A p \in opened : Redone(p))
  /\ WantedPages /\ Disposers /\ Openers

Base == Typed /\ ThreadInv /\ WalInv /\ HeaderInv

-----------------------------------------------------------------------------
(* The content of the pages, except of those that two threads were getting  *)
(* at the same time.  How thread t stands to page k.                        *)
Seeks(t, k) == th[t].page = k /\ At(t, {"miss", "alloc", "purge"} \cup Evicting)
Loads(t, k) == th[t].page = k /\ At(t, {"load"})
Uses(t, k)  == th[t].page = k /\ At(t, {"load", "hold"})
Takes(t, k) == th[t].victim = k /\ At(t, Evicting)
Users(k)    == {t \in Threads : Uses(t, k) \/ Takes(t, k)}
Loading(k)  == \E t \in Threads : Loads(t, k)

\* One thread at a time gets the page, and nobody uses it meanwhile; who uses it has a
\* frame for it, who is still looking for one has not, and nobody takes it away.
Orderly(k) ==
  /\ \A t, u \in Threads : t # u => ~ (Seeks(t, k) /\ Seeks(u, k)) /\ ~ (Loads(t, k) /\ Uses(u, k))
  /\ \A t \in Threads : (Uses(t, k) => k \in DOMAIN frames) /\ (Seeks(t, k) => k \notin DOMAIN frames)
  /\ \A t, u \in Threads : Uses(t, k) => ~ Takes(u, k)

\* A page that is in the file, or about to extend it.
Grown(k) == k[2] < header[k[1]].page_count \/ \E t \in Threads : Extends(t) /\ Uses(t, k)
ChangeOf(k, i) == i \in 1..Len(clog) /\ clog[i].page = k /\ clog[i].op = "change"
Framed(k) ==
  /\ IsFiniteSet(Users(k)) /\ frames[k].pin = Cardinality(Users(k))
  /\ Grown(k)
  /\ frames[k].lsn > 0 => ChangeOf(k, frames[k].lsn)
  /\ ~ Loading(k) => /\ frames[k].lsn # Unwritten /\ disk[k] # Unwritten
                     /\ ~ frames[k].dirty => disk[k] = frames[k].lsn

\* The page's content is in its frame, or on disk.  It is the newest one, or redo is
\* still to come to the entry that makes it.
Content(k) == IF k \in DOMAIN frames /\ ~ Loading(k) THEN frames[k].lsn ELSE disk[k]
Newest(k) ==
  \/ /\ newest[k] = Content(k)
     /\ redo > 0 => \A i \in redo..Len(clog) : ChangeOf(k, i) => i <= Content(k)
  \/ /\ redo > 0 /\ newest[k] >= redo /\ Content(k) < newest[k] /\ ChangeOf(k, newest[k])
     /\ \A i \in redo..Len(clog) : ChangeOf(k, i) => i <= newest[k]
PageOk(k) ==
  /\ Orderly(k)
  /\ k \in DOMAIN frames => Framed(k)
  /\ disk[k] > 0 => ChangeOf(k, disk[k])
  /\ \A i \in 1..Len(clog) : ChangeOf(k, i) => disk[k] # Unwritten
  /\ Newest(k)

PageInv ==
  /\ \A k \in Pages : k[2] # 0 /\ newest[k] # Lost => PageOk(k)
  /\ RedoSucceeds

-----------------------------------------------------------------------------
(* Pages, and what a step makes of a thread.                                *)
LEMMA PageIs ==
  /\ \A k \in Pages : k[1] \in Pools /\ k[2] \in PageNums /\ k = <<k[1], k[2]>> /\ k # None
  /\ \A p \in Pools, n \in PageNums : <<p, n>> \in Pages /\ <<p, n>>[1] = p /\ <<p, n>>[2] = n
  /\ \A p \in Pools : Header(p) \in Pages /\ Header(p)[1] = p /\ Header(p)[2] = 0
  /\ 0 \in PageNums /\ PageNums \subseteq Nat /\ None \notin Threads
BY BufferPoolAssumption DEF Pages, PageNums, Header, None

LEMMA IdleIs == Idle \in Job /\ Idle.pc = "idle" /\ Idle.page = None /\ Idle.why = "none" /\ Idle.victim = None
BY DEF Idle, Job, Steps, Reasons

LEMMA ToIs ==
  ASSUME th \in [Threads -> Job], NEW t \in Threads, NEW pc \in Steps, To(t, pc)
  PROVE  /\ th' \in [Threads -> Job] /\ \A u \in Threads \ {t} : th'[u] = th[u]
         /\ th'[t].pc = pc /\ th'[t].page = th[t].page /\ th'[t].why = th[t].why /\ th'[t].victim = th[t].victim
BY DEF To, Job

LEMMA BeginIs ==
  ASSUME th \in [Threads -> Job], NEW t \in Threads, NEW pc \in Steps, NEW k \in Pages, NEW why \in Reasons,
         Begin(t, pc, k, why)
  PROVE  /\ th' \in [Threads -> Job] /\ \A u \in Threads \ {t} : th'[u] = th[u]
         /\ th'[t].pc = pc /\ th'[t].page = k /\ th'[t].why = why /\ th'[t].victim = None
<1>1. LET j == [Idle EXCEPT !.pc = pc, !.page = k, !.why = why]
      IN j \in Job /\ j.pc = pc /\ j.page = k /\ j.why = why /\ j.victim = None
  BY IdleIs DEF Job
<1> QED
  BY <1>1 DEF Begin

LEMMA EndIs ==
  ASSUME th \in [Threads -> Job], NEW t \in Threads, End(t)
  PROVE  /\ th' \in [Threads -> Job] /\ \A u \in Threads \ {t} : th'[u] = th[u]
         /\ th'[t].pc = "idle" /\ th'[t].page = None /\ th'[t].why = "none" /\ th'[t].victim = None
BY IdleIs DEF End

LEMMA VictimIs ==
  ASSUME th \in [Threads -> Job], NEW t \in Threads, NEW pc \in Steps, NEW v \in Pages \cup {None},
         Victim(t, pc, v)
  PROVE  /\ th' \in [Threads -> Job] /\ \A u \in Threads \ {t} : th'[u] = th[u]
         /\ th'[t].pc = pc /\ th'[t].page = th[t].page /\ th'[t].why = th[t].why /\ th'[t].victim = v
BY DEF Job, Victim

(* What a step makes of the frames.                                         *)
LEMMA PinnedIs ==
  ASSUME Typed, NEW k, NEW n \in Int, frames' = Pinned(k, n)
  PROVE  /\ DOMAIN frames' = DOMAIN frames /\ \A j \in DOMAIN frames : j # k => frames'[j] = frames[j]
         /\ k \in DOMAIN frames => /\ frames'[k].pin = frames[k].pin + n /\ frames'[k].lsn = frames[k].lsn
                                   /\ frames'[k].dirty = frames[k].dirty /\ frames'[k] \in FrameT
<1>1. DOMAIN frames' = DOMAIN frames /\ \A j \in DOMAIN frames : j # k => frames'[j] = frames[j]
  BY DEF Pinned
<1>2. ASSUME k \in DOMAIN frames
      PROVE  frames'[k] = [frames[k] EXCEPT !.pin = frames[k].pin + n] /\ frames[k] \in FrameT
  BY <1>2 DEF Typed, Pinned
<1>3. QED
  BY <1>1, <1>2 DEF FrameT

LEMMA WithoutIs ==
  ASSUME NEW k, frames' = Without(k)
  PROVE  DOMAIN frames' = DOMAIN frames \ {k} /\ \A j \in DOMAIN frames' : frames'[j] = frames[j]
BY DEF Without

LEMMA WithIs ==
  ASSUME NEW k, NEW f, frames' = With(k, f)
  PROVE  DOMAIN frames' = DOMAIN frames \cup {k} /\ frames'[k] = f
         /\ \A j \in DOMAIN frames : j # k => frames'[j] = frames[j]
BY DEF With

-----------------------------------------------------------------------------
(* Each step keeps the types and the threads' part of the invariant.        *)
Steady == Typed /\ ThreadInv

\* A lock that thread t leaves alone, takes or gives up.
Passes(old, new, t) == new = old \/ (old \in {t, None} /\ new \in {t, None})

LEMMA Has ==
  ASSUME Steady, NEW t \in Threads, th[t].pc \notin {"idle", "sync"}
  PROVE  /\ th[t].page \in Pages /\ th[t].page[1] \in Pools /\ th[t].page[2] \in PageNums /\ th[t].page # None
         /\ Job1(t) /\ Owner(t) /\ th \in [Threads -> Job] /\ NoSync /\ None \notin Threads
         /\ At(t, Evicting) => th[t].victim \in Pages /\ th[t].victim[1] \in Pools
<1>1. /\ th \in [Threads -> Job] /\ Sound(t) /\ NoSync /\ DOMAIN frames \subseteq Pages
  BY DEF Steady, Typed, ThreadInv, SyncAlone, NoSync, At
<1>2. Job1(t) /\ Owner(t)
  BY <1>1 DEF Sound
<1>3. th[t].page \in Pages \cup {None} /\ th[t].page # None
  BY <1>1, <1>2 DEF Job1, Job, At
<1>4. At(t, Evicting) => th[t].victim \in Pages
  BY <1>1, <1>2 DEF Job1
<1> QED
  BY <1>1, <1>2, <1>3, <1>4, PageIs

LEMMA OthersSound ==
  ASSUME Steady, NEW t \in Threads, NEW u \in Threads \ {t}, th'[u] = th[u], redo' = redo, opened' = opened,
         Passes(fm_lock, fm_lock', t), Passes(bpm_lock, bpm_lock', t),
         \A p \in Pools : Passes(pool_lock[p], pool_lock'[p], t),
         At(u, Evicting) => th[u].victim \in DOMAIN frames',
         \A k \in DOMAIN frames : k[2] = 0 => k \in DOMAIN frames'
  PROVE  Sound(u)'
<1>1. Sound(u) /\ th[u] \in Job /\ None \notin Threads
  BY PageIs DEF Steady, ThreadInv, Typed
<1>2. Job1(u)'
  BY <1>1 DEF Sound, Job1, At
<1>3. ASSUME th[u].page # None PROVE th[u].page[1] \in Pools
  BY <1>1, <1>3, PageIs DEF Job
<1>4. ASSUME At(u, {"evict"}) PROVE th[u].victim[1] \in Pools
  BY <1>1, <1>4, PageIs DEF Sound, Job1, Evicting, At, Steady, Typed
<1>5. At(u, Fetching \cup {"free"}) => th[u].page # None
  BY <1>1 DEF Sound, Job1, At, Fetching
<1>6. Owner(u)'
  BY <1>1, <1>3, <1>4, <1>5 DEF Sound, Owner, At, Passes
<1> QED
  BY <1>2, <1>6 DEF Sound

LEMMA SteadyStep ==
  ASSUME Steady, NEW t \in Threads, redo' = redo, opened' = opened,
         Passes(fm_lock, fm_lock', t), Passes(bpm_lock, bpm_lock', t),
         \A p \in Pools : Passes(pool_lock[p], pool_lock'[p], t),
         \A u \in Threads \ {t} : th'[u] = th[u] /\ (At(u, Evicting) => th[u].victim \in DOMAIN frames'),
         Sound(t)', SyncAlone' \/ (NoSync /\ th'[t].pc # "sync"),
         \A k \in DOMAIN frames : k[2] = 0 =>
           /\ k \in DOMAIN frames' /\ frames'[k].pin >= frames[k].pin /\ frames'[k].pin \in Int
           /\ ~ (At(t, {"load"}) /\ th[t].page = k /\ th'[t] # th[t]),
         \A k \in DOMAIN frames' \ DOMAIN frames :
           \/ k[2] # 0 /\ k[1] \in opened
           \/ k[2] = 0 /\ frames'[k].pin >= 1 /\ th'[t].pc = "load" /\ th'[t].page = k
  PROVE  ThreadInv'
<1>1. \A u \in Threads : Sound(u)'
  BY OthersSound
<1>2. SyncAlone'
  BY DEF NoSync, SyncAlone, At
<1>3. HeaderFrames'
  <2>1. \A p \in opened : Header(p) \in DOMAIN frames'
    BY PageIs DEF Steady, ThreadInv, HeaderFrames, Typed
  <2>2. ASSUME NEW k \in DOMAIN frames', k[2] = 0
        PROVE  frames'[k].pin >= 1 /\ (k[1] \in opened \/ \E u \in Threads : At(u, {"load"})' /\ th'[u].page = k)
    <3>1. CASE k \in DOMAIN frames
      <4>1. frames[k].pin >= 1 /\ frames[k].pin \in Int
        BY <3>1, <2>2 DEF Steady, ThreadInv, HeaderFrames, Typed, FrameT
      <4>2. k[1] \in opened \/ \E u \in Threads : At(u, {"load"}) /\ th[u].page = k
        BY <3>1, <2>2 DEF Steady, ThreadInv, HeaderFrames
      <4> QED
        BY <2>2, <3>1, <4>1, <4>2 DEF At
    <3> QED
      BY <2>2, <3>1 DEF At
  <2>3. ASSUME NEW k \in DOMAIN frames', k[2] # 0 PROVE k[1] \in opened
    BY <2>3 DEF Steady, ThreadInv, HeaderFrames
  <2> QED
    BY <2>1, <2>2, <2>3 DEF HeaderFrames, At
<1> QED
  BY <1>1, <1>2, <1>3 DEF ThreadInv

\* For a step that leaves the locks of the others and the headers' frames alone.
LEMMA QuietStep ==
  ASSUME Steady, NEW t \in Threads, redo' = redo, opened' = opened,
         Passes(fm_lock, fm_lock', t), Passes(bpm_lock, bpm_lock', t),
         \A p \in Pools : Passes(pool_lock[p], pool_lock'[p], t),
         \A u \in Threads \ {t} : th'[u] = th[u],
         Sound(t)', NoSync, th'[t].pc # "sync", DOMAIN frames' = DOMAIN frames,
         ~ (At(t, {"load"}) /\ th[t].why = "open"), Typed',
         \A k \in DOMAIN frames : k[2] = 0 => frames'[k].pin >= frames[k].pin
  PROVE  ThreadInv'
<1>1. \A u \in Threads : At(u, Evicting) => th[u].victim \in DOMAIN frames'
  BY DEF Steady, ThreadInv, Sound, Job1
<1>2. \A k \in DOMAIN frames : k[2] = 0 => frames'[k].pin \in Int /\ ~ (At(t, {"load"}) /\ th[t].page = k)
  <2>1. Job1(t) /\ th[t] \in Job
    BY DEF Steady, ThreadInv, Typed, Sound
  <2>2. \A k \in DOMAIN frames : frames'[k].pin \in Int /\ k # None
    BY PageIs DEF Typed, FrameT, Steady
  <2> QED
    BY <2>1, <2>2 DEF Job1, At
<1> QED
  BY <1>1, <1>2, SteadyStep

LEMMA KnownIs ==
  ASSUME NEW f \in [Pages -> Int]
  PROVE  Known(f) \in [Pages -> Int]
BY DEF Known, Lost

LEMMA LookupSteady ==
  ASSUME Steady, redo = 0, NEW t \in Threads, NEW k \in Pages, Lookup(t, k)
  PROVE  Steady'
<1>0. /\ k[1] \in Pools /\ k[2] \in PageNums /\ k # None /\ None \notin Threads
      /\ th \in [Threads -> Job] /\ Sound(t)
  BY PageIs DEF Steady, Typed, ThreadInv
<1>1. k[1] \in opened /\ k[2] # 0 /\ th[t].pc \in {"idle", "lookup"} /\ th[t].why # "open" /\ NoSync
  BY <1>0, Has DEF Lookup, Sound, Job1, At
<1>2. /\ th' \in [Threads -> Job] /\ \A u \in Threads \ {t} : th'[u] = th[u]
      /\ th'[t].page = k /\ th'[t].why # "open" /\ (th'[t].pc = "hold" \/ (th'[t].pc = "miss" /\ th'[t].why = "get"))
  <2>1. Begin(t, "hold", k, "none") \/ Begin(t, "miss", k, "get")
    BY DEF Lookup
  <2> QED
    BY <1>0, <2>1, BeginIs DEF Steps, Reasons
<1>3. /\ DOMAIN frames' = DOMAIN frames
      /\ \A j \in DOMAIN frames : frames'[j] \in FrameT /\ (j[2] = 0 => frames'[j] = frames[j])
  BY <1>1, PinnedIs DEF Lookup, Steady, Typed
<1>4. Typed'
  <2>1. newest' \in [Pages -> Int]
    BY DEF Lookup, Steady, Typed, Lost
  <2> QED
    BY <1>2, <1>3, <2>1 DEF Lookup, Steady, Typed, locks, files, logs, runs
<1>5. UNCHANGED <<locks, opened, redo>>
  BY DEF Lookup, runs
<1>6. Sound(t)'
  <2>1. Job1(t)'
    BY <1>0, <1>1, <1>2, <1>5 DEF Job1, At, Fetching, Evicting
  <2>2. Owner(t)'
    BY <1>0, <1>1, <1>2, <1>5 DEF Sound, Owner, At, Fetching, Evicting, locks
  <2> QED
    BY <2>1, <2>2 DEF Sound
<1>7. ThreadInv'
  <2>1. \A j \in DOMAIN frames : j[2] = 0 => frames'[j].pin >= frames[j].pin
    BY <1>3 DEF FrameT
  <2> QED
    BY <1>1, <1>2, <1>3, <1>4, <1>5, <1>6, <2>1, QuietStep DEF Passes, locks, At
<1> QED
  BY <1>4, <1>7 DEF Steady

LEMMA LockPoolSteady ==
  ASSUME Steady, redo = 0, NEW t \in Threads, LockPool(t)
  PROVE  Steady'
<1>1. /\ th[t].page[1] \in Pools /\ Job1(t) /\ Owner(t) /\ NoSync /\ None \notin Threads /\ th[t].pc = "miss"
      /\ pool_lock \in [Pools -> Owners]
  BY Has DEF LockPool, Steady, Typed
<1>2. /\ th' \in [Threads -> Job] /\ \A u \in Threads \ {t} : th'[u] = th[u]
      /\ th'[t].pc = "alloc" /\ th'[t].page = th[t].page /\ th'[t].why = th[t].why
  BY Has, ToIs DEF LockPool, Steps
<1>3. UNCHANGED <<frames, fm_lock, bpm_lock, opened, redo>>
  BY DEF LockPool, runs
<1>4. /\ pool_lock' \in [Pools -> Owners] /\ pool_lock[th[t].page[1]] = None /\ pool_lock'[th[t].page[1]] = t
      /\ \A p \in Pools : p # th[t].page[1] => pool_lock'[p] = pool_lock[p]
  BY <1>1 DEF LockPool, Lock, PoolOf, Owners
<1>5. Typed'
  BY <1>2, <1>4 DEF LockPool, Steady, Typed, files, logs, runs
<1>6. Sound(t)'
  <2>1. Job1(t)'
    BY <1>1, <1>2, <1>3 DEF Job1, At, Fetching, Evicting
  <2>2. Owner(t)'
    BY <1>1, <1>2, <1>3, <1>4 DEF Owner, Job1, At, Fetching, Evicting
  <2> QED
    BY <2>1, <2>2 DEF Sound
<1>7. ThreadInv'
  <2>1. \A j \in DOMAIN frames : j[2] = 0 => frames'[j].pin >= frames[j].pin
    BY <1>3 DEF FrameT, Steady, Typed
  <2> QED
    BY <1>1, <1>2, <1>3, <1>4, <1>5, <1>6, <2>1, QuietStep DEF Passes, At
<1> QED
  BY <1>5, <1>7 DEF Steady

LEMMA LockIs ==
  ASSUME Typed, NEW p \in Pools, NEW x \in Owners, pool_lock' = Lock(p, x)
  PROVE  /\ pool_lock' \in [Pools -> Owners] /\ pool_lock'[p] = x
         /\ \A q \in Pools : q # p => pool_lock'[q] = pool_lock[q]
BY DEF Lock, Typed

\* Only who holds the frame manager's lock evicts.
LEMMA NoVictims ==
  ASSUME Steady, NEW t \in Threads, fm_lock \in {None, t}
  PROVE  \A u \in Threads \ {t} : ~ At(u, Evicting)
BY PageIs DEF Steady, ThreadInv, Sound, Owner

LEMMA HeaderPinned ==
  ASSUME Steady, NEW k \in DOMAIN frames
  PROVE  /\ k \in Pages /\ k[1] \in Pools /\ k[2] \in PageNums /\ frames[k] \in FrameT
         /\ k[2] = 0 => frames[k].pin >= 1
         /\ k[2] # 0 => k[1] \in opened
BY PageIs DEF Steady, ThreadInv, HeaderFrames, Typed

LEMMA AllocSteady ==
  ASSUME Steady, redo = 0, NEW t \in Threads, Alloc(t)
  PROVE  Steady'
<1> DEFINE k == th[t].page
<1>1. /\ k \in Pages /\ k # None /\ Job1(t) /\ Owner(t) /\ NoSync /\ None \notin Threads /\ th[t].pc = "alloc"
      /\ th \in [Threads -> Job] /\ fm_lock = None
  BY Has DEF Alloc
<1>2. /\ th' \in [Threads -> Job] /\ \A u \in Threads \ {t} : th'[u] = th[u]
      /\ th'[t].page = k /\ th'[t].why = th[t].why
      /\ \/ th'[t].pc = "load" /\ k \in DOMAIN frames'
         \/ th'[t].pc = "purge" /\ UNCHANGED frames
  <2>1. \/ To(t, "load") /\ k \in DOMAIN frames'
        \/ To(t, "purge") /\ UNCHANGED frames
    BY DEF Alloc, Pinned, With
  <2> QED
    BY <1>1, <2>1, ToIs DEF Steps
<1>3. UNCHANGED <<locks, opened, redo>>
  BY DEF Alloc, runs
<1>4. /\ \A j \in DOMAIN frames : j \in DOMAIN frames' /\ frames'[j] \in FrameT /\ frames'[j].pin >= frames[j].pin
      /\ \A j \in DOMAIN frames' : j \in DOMAIN frames \/ (j = k /\ frames'[j] \in FrameT /\ frames'[j].pin = 1 /\ th'[t].pc = "load")
  <2>0. \A j \in DOMAIN frames : frames[j] \in FrameT
    BY DEF Steady, Typed
  <2>1. CASE k \in DOMAIN frames /\ frames' = Pinned(k, 1)
    <3>1. /\ DOMAIN frames' = DOMAIN frames /\ \A j \in DOMAIN frames : j # k => frames'[j] = frames[j]
          /\ frames'[k].pin = frames[k].pin + 1 /\ frames'[k] \in FrameT
      BY <2>1, PinnedIs DEF Steady
    <3>2. \A j \in DOMAIN frames : frames[j].pin \in Int
      BY <2>0 DEF FrameT
    <3> QED
      BY <2>0, <2>1, <3>1, <3>2
  <2>2. CASE frames' = With(k, [pin |-> 1, dirty |-> FALSE, lsn |-> Unwritten]) /\ To(t, "load") /\ k \notin DOMAIN frames
    <3>1. [pin |-> 1, dirty |-> FALSE, lsn |-> Unwritten] \in FrameT
      BY DEF FrameT, Unwritten
    <3>2. th'[t].pc = "load"
      BY <1>1, <2>2, ToIs DEF Steps
    <3>3. /\ DOMAIN frames' = DOMAIN frames \cup {k} /\ frames'[k] = [pin |-> 1, dirty |-> FALSE, lsn |-> Unwritten]
          /\ \A j \in DOMAIN frames : j # k => frames'[j] = frames[j]
      BY <2>2, WithIs
    <3>4. frames'[k] \in FrameT /\ frames'[k].pin = 1
      BY <3>1, <3>3
    <3>5. \A j \in DOMAIN frames : frames'[j] = frames[j] /\ frames[j].pin \in Int
      BY <2>0, <2>2, <3>3 DEF FrameT
    <3>6. DOMAIN frames' = DOMAIN frames \cup {k}
      BY <3>3
    <3> QED
      BY <2>0, <3>2, <3>4, <3>5, <3>6
  <2>3. CASE UNCHANGED frames
    BY <2>0, <2>3 DEF FrameT
  <2>4. \/ k \in DOMAIN frames /\ frames' = Pinned(k, 1)
        \/ frames' = With(k, [pin |-> 1, dirty |-> FALSE, lsn |-> Unwritten]) /\ To(t, "load") /\ k \notin DOMAIN frames
        \/ UNCHANGED frames
    BY DEF Alloc
  <2> QED
    BY <2>1, <2>2, <2>3, <2>4
<1>5. Typed'
  BY <1>1, <1>2, <1>4 DEF Alloc, Steady, Typed, locks, files, logs, runs
<1>6. Sound(t)'
  <2>1. Job1(t)'
    BY <1>1, <1>2, <1>3 DEF Job1, At, Fetching, Evicting
  <2>2. Owner(t)'
    BY <1>1, <1>2, <1>3 DEF Owner, At, Fetching, Evicting, locks
  <2> QED
    BY <2>1, <2>2 DEF Sound
<1>7. ThreadInv'
  <2>1. \A j \in DOMAIN frames' \ DOMAIN frames :
          (j[2] # 0 /\ j[1] \in opened) \/ (j[2] = 0 /\ frames'[j].pin >= 1 /\ th'[t].pc = "load" /\ th'[t].page = j)
    BY <1>1, <1>2, <1>4 DEF Job1
  <2>2. \A j \in DOMAIN frames : frames'[j].pin \in Int
    BY <1>4 DEF FrameT
  <2>3. \A u \in Threads \ {t} : ~ At(u, Evicting)
    BY <1>1, NoVictims
  <2> QED
    BY <1>1, <1>2, <1>3, <1>4, <1>6, <2>1, <2>2, <2>3, SteadyStep DEF Passes, locks, At
<1> QED
  BY <1>5, <1>7 DEF Steady

LEMMA PurgeSteady ==
  ASSUME Steady, redo = 0, NEW t \in Threads, Purge(t)
  PROVE  Steady'
<1> DEFINE k == th[t].page
<1>1. /\ k \in Pages /\ k # None /\ Job1(t) /\ Owner(t) /\ NoSync /\ None \notin Threads /\ th[t].pc = "purge"
      /\ th \in [Threads -> Job] /\ fm_lock = None
  BY Has DEF Purge
<1>2. UNCHANGED <<bpm_lock, pool_lock, opened, redo>>
  BY DEF Purge, runs
<1>3. CASE To(t, "alloc") /\ UNCHANGED <<frames, fm_lock>>
  <2>1. /\ th' \in [Threads -> Job] /\ \A u \in Threads \ {t} : th'[u] = th[u]
        /\ th'[t].page = k /\ th'[t].why = th[t].why /\ th'[t].pc = "alloc"
    BY <1>1, <1>3, ToIs DEF Steps
  <2>2. Typed'
    BY <1>3, <2>1 DEF Purge, Steady, Typed, files, logs, runs
  <2>3. Job1(t)'
    BY <1>1, <1>2, <2>1 DEF Job1, At, Fetching, Evicting
  <2>4. Owner(t)'
    BY <1>1, <1>2, <1>3, <2>1 DEF Owner, At, Fetching, Evicting
  <2>5. \A j \in DOMAIN frames : j[2] = 0 => frames'[j].pin >= frames[j].pin
    BY <1>3 DEF FrameT, Steady, Typed
  <2>6. ThreadInv'
    BY <1>1, <1>2, <1>3, <2>1, <2>2, <2>3, <2>4, <2>5, QuietStep DEF Passes, At, Sound
  <2> QED
    BY <2>2, <2>6 DEF Steady
<1>4. ASSUME NEW v \in DOMAIN frames, frames[v].pin = 0, frames' = Without(v), To(t, "alloc"), UNCHANGED fm_lock
      PROVE  Steady'
  <2>1. /\ th' \in [Threads -> Job] /\ \A u \in Threads \ {t} : th'[u] = th[u]
        /\ th'[t].page = k /\ th'[t].why = th[t].why /\ th'[t].pc = "alloc"
    BY <1>1, <1>4, ToIs DEF Steps
  <2>2. v[2] # 0
    BY <1>4, HeaderPinned
  <2>3. DOMAIN frames' = DOMAIN frames \ {v} /\ \A j \in DOMAIN frames' : frames'[j] = frames[j]
    BY <1>4, WithoutIs
  <2>4. Typed'
    BY <1>4, <2>1, <2>3 DEF Purge, Steady, Typed, files, logs, runs
  <2>5. Job1(t)'
    BY <1>1, <1>2, <2>1 DEF Job1, At, Fetching, Evicting
  <2>6. Owner(t)'
    BY <1>1, <1>2, <1>4, <2>1 DEF Owner, At, Fetching, Evicting
  <2>7. \A j \in DOMAIN frames : j[2] = 0 => j \in DOMAIN frames' /\ frames'[j].pin >= frames[j].pin /\ frames'[j].pin \in Int
    BY <2>2, <2>3 DEF FrameT, Steady, Typed
  <2>8. \A u \in Threads \ {t} : ~ At(u, Evicting)
    BY <1>1, NoVictims
  <2>9. ThreadInv'
    BY <1>1, <1>2, <1>4, <2>1, <2>3, <2>5, <2>6, <2>7, <2>8, SteadyStep DEF Passes, At, Sound
  <2> QED
    BY <2>4, <2>9 DEF Steady
<1>5. ASSUME NEW v \in DOMAIN frames, frames[v].pin = 0, frames' = Pinned(v, 1), fm_lock' = t,
             Victim(t, IF v[1] = PoolOf(t) THEN "evict" ELSE "manager", v)
      PROVE  Steady'
  <2>0. v \in Pages /\ v[1] \in Pools /\ v[2] # 0 /\ v[1] \in opened
    BY <1>5, HeaderPinned
  <2>1. /\ th' \in [Threads -> Job] /\ \A u \in Threads \ {t} : th'[u] = th[u]
        /\ th'[t].page = k /\ th'[t].why = th[t].why /\ th'[t].victim = v
        /\ th'[t].pc = IF v[1] = k[1] THEN "evict" ELSE "manager"
    <3>1. PICK pc \in Steps : /\ pc = IF v[1] = PoolOf(t) THEN "evict" ELSE "manager"
                              /\ Victim(t, pc, v)
      BY <1>5 DEF Steps
    <3> QED
      BY <1>1, <2>0, <3>1, VictimIs DEF PoolOf
  <2>2. DOMAIN frames' = DOMAIN frames /\ \A j \in DOMAIN frames : frames'[j] \in FrameT /\ (j[2] = 0 => frames'[j] = frames[j])
    BY <1>5, <2>0, PinnedIs DEF Steady, Typed
  <2>3. Typed'
    BY <1>5, <2>1, <2>2 DEF Purge, Steady, Typed, files, logs, runs, Owners
  <2>4. Job1(t)'
    BY <1>1, <1>2, <1>5, <2>0, <2>1, <2>2 DEF Job1, At, Fetching, Evicting
  <2>5. Owner(t)'
    BY <1>1, <1>2, <1>5, <2>0, <2>1 DEF Owner, Job1, At, Fetching, Evicting
  <2>6. \A j \in DOMAIN frames : j[2] = 0 => frames'[j].pin >= frames[j].pin
    BY <2>2 DEF FrameT
  <2>7. ThreadInv'
    BY <1>1, <1>2, <1>5, <2>1, <2>2, <2>3, <2>4, <2>5, <2>6, QuietStep DEF Passes, At, Sound
  <2> QED
    BY <2>3, <2>7 DEF Steady
<1> QED
  BY <1>3, <1>4, <1>5 DEF Purge

LEMMA EvictManagerSteady ==
  ASSUME Steady, redo = 0, NEW t \in Threads, EvictManager(t)
  PROVE  Steady'
<1>1. /\ Job1(t) /\ Owner(t) /\ NoSync /\ None \notin Threads /\ th[t].pc = "manager" /\ th \in [Threads -> Job]
      /\ bpm_lock = None /\ bpm_lock' = t
  BY Has DEF EvictManager
<1>2. /\ th' \in [Threads -> Job] /\ \A u \in Threads \ {t} : th'[u] = th[u]
      /\ th'[t].pc = "other" /\ th'[t].page = th[t].page /\ th'[t].why = th[t].why /\ th'[t].victim = th[t].victim
  BY <1>1, ToIs DEF EvictManager, Steps
<1>3. UNCHANGED <<frames, fm_lock, pool_lock, opened, redo>>
  BY DEF EvictManager, runs
<1>4. Typed'
  BY <1>1, <1>2 DEF EvictManager, Steady, Typed, files, logs, runs, Owners
<1>5. Job1(t)'
  BY <1>1, <1>2, <1>3 DEF Job1, Owner, At, Fetching, Evicting
<1>6. Owner(t)'
  BY <1>1, <1>2, <1>3 DEF Owner, At, Fetching, Evicting
<1>7. \A j \in DOMAIN frames : j[2] = 0 => frames'[j].pin >= frames[j].pin
  BY <1>3 DEF FrameT, Steady, Typed
<1>8. ThreadInv'
  BY <1>1, <1>2, <1>3, <1>4, <1>5, <1>6, <1>7, QuietStep DEF Passes, At, Sound
<1> QED
  BY <1>4, <1>8 DEF Steady

LEMMA EvictOtherSteady ==
  ASSUME Steady, redo = 0, NEW t \in Threads, EvictOther(t)
  PROVE  Steady'
<1> DEFINE q == th[t].victim[1]
<1>1. /\ Job1(t) /\ Owner(t) /\ NoSync /\ None \notin Threads /\ th[t].pc = "other" /\ th \in [Threads -> Job]
      /\ q \in Pools /\ pool_lock[q] = None /\ q # th[t].page[1]
  BY Has DEF EvictOther, At, Evicting, Job1
<1>2. /\ th' \in [Threads -> Job] /\ \A u \in Threads \ {t} : th'[u] = th[u]
      /\ th'[t].pc = "evict" /\ th'[t].page = th[t].page /\ th'[t].why = th[t].why /\ th'[t].victim = th[t].victim
  BY <1>1, ToIs DEF EvictOther, Steps
<1>3. UNCHANGED <<frames, fm_lock, bpm_lock, opened, redo>>
  BY DEF EvictOther, runs
<1>4. /\ pool_lock' \in [Pools -> Owners] /\ pool_lock'[q] = t
      /\ \A p \in Pools : p # q => pool_lock'[p] = pool_lock[p]
  BY <1>1, LockIs DEF EvictOther, Steady, Owners
<1>5. Typed'
  BY <1>2, <1>4 DEF EvictOther, Steady, Typed, files, logs, runs
<1>6. Job1(t)'
  BY <1>1, <1>2, <1>3 DEF Job1, At, Fetching, Evicting
<1>7. Owner(t)'
  <2>1. th[t].page[1] \in Pools /\ th[t].why # "open"
    BY <1>1, Has DEF Job1, At
  <2> QED
    BY <1>1, <1>2, <1>3, <1>4, <2>1 DEF Owner, At, Fetching, Evicting
<1>8. \A j \in DOMAIN frames : j[2] = 0 => frames'[j].pin >= frames[j].pin
  BY <1>3 DEF FrameT, Steady, Typed
<1>9. ThreadInv'
  BY <1>1, <1>2, <1>3, <1>4, <1>5, <1>6, <1>7, <1>8, QuietStep DEF Passes, At, Sound
<1> QED
  BY <1>5, <1>9 DEF Steady

LEMMA EvictFlushSteady ==
  ASSUME Steady, redo = 0, NEW t \in Threads, EvictFlush(t)
  PROVE  Steady'
<1> DEFINE v == th[t].victim
           k == th[t].page
<1>1. /\ Job1(t) /\ Owner(t) /\ NoSync /\ None \notin Threads /\ th[t].pc = "evict" /\ th \in [Threads -> Job]
      /\ v \in Pages /\ v[1] \in Pools /\ v \in DOMAIN frames /\ v[2] # 0 /\ k[1] \in Pools
      /\ fm_lock = t /\ pool_lock[k[1]] = t /\ pool_lock[v[1]] = t /\ th[t].why # "open"
      /\ v[1] # k[1] => bpm_lock = t
  <2>1. /\ Job1(t) /\ Owner(t) /\ NoSync /\ None \notin Threads /\ th[t].pc = "evict" /\ th \in [Threads -> Job]
        /\ v \in Pages /\ v[1] \in Pools /\ k[1] \in Pools
    BY Has DEF EvictFlush, At, Evicting
  <2> QED
    BY <2>1 DEF Job1, Owner, At, Evicting, Fetching
<1>2. /\ th' \in [Threads -> Job] /\ \A u \in Threads \ {t} : th'[u] = th[u]
      /\ th'[t].pc = "alloc" /\ th'[t].page = th[t].page /\ th'[t].why = th[t].why
  <2>1. "alloc" \in Steps /\ None \in Pages \cup {None}
    BY DEF Steps
  <2> QED
    BY <1>1, <2>1, VictimIs DEF EvictFlush
<1>3. DOMAIN frames' = DOMAIN frames \ {v} /\ \A j \in DOMAIN frames' : frames'[j] = frames[j]
  BY WithoutIs DEF EvictFlush
<1>4. UNCHANGED <<opened, redo>> /\ fm_lock' = None
  BY DEF EvictFlush, runs
<1>5. /\ bpm_lock' \in Owners /\ pool_lock' \in [Pools -> Owners] /\ pool_lock'[k[1]] = t
      /\ v[1] # k[1] => pool_lock'[v[1]] = None
      /\ \A p \in Pools : p # v[1] => pool_lock'[p] = pool_lock[p]
      /\ Passes(bpm_lock, bpm_lock', t)
  <2>1. CASE v[1] = PoolOf(t)
    BY <1>1, <2>1 DEF EvictFlush, PoolOf, Steady, Typed, Passes
  <2>2. CASE v[1] # PoolOf(t)
    <3>1. pool_lock' = Lock(v[1], None) /\ bpm_lock' = None /\ None \in Owners
      BY <2>2 DEF EvictFlush, Owners
    <3> QED
      BY <1>1, <2>2, <3>1, LockIs DEF PoolOf, Steady, Passes
  <2> QED
    BY <2>1, <2>2
<1>6. Typed'
  <2>1. frames[v].lsn \in Int
    BY <1>1 DEF Steady, Typed, FrameT
  <2>2. disk' \in [Pages -> Int]
    BY <1>1, <2>1 DEF EvictFlush, Steady, Typed
  <2> QED
    BY <1>1, <1>2, <1>3, <1>5, <2>2 DEF EvictFlush, Steady, Typed, logs, runs, Owners
<1>7. Job1(t)'
  BY <1>1, <1>2, <1>4 DEF Job1, At, Fetching, Evicting
<1>8. Owner(t)'
  BY <1>1, <1>2, <1>4, <1>5 DEF Owner, At, Fetching, Evicting
<1>9. ThreadInv'
  <2>1. \A j \in DOMAIN frames : j[2] = 0 => j \in DOMAIN frames' /\ frames'[j].pin >= frames[j].pin /\ frames'[j].pin \in Int
    <3>1. v[2] # 0
      BY <1>1
    <3>2. \A j \in DOMAIN frames : frames[j].pin \in Int
      BY DEF FrameT, Steady, Typed
    <3> QED
      BY <1>3, <3>1, <3>2
  <2>2. \A u \in Threads \ {t} : ~ At(u, Evicting)
    BY <1>1, NoVictims
  <2>3. \A p \in Pools : Passes(pool_lock[p], pool_lock'[p], t)
    BY <1>1, <1>5 DEF Passes
  <2> QED
    BY <1>1, <1>2, <1>3, <1>4, <1>5, <1>7, <1>8, <2>1, <2>2, <2>3, SteadyStep DEF Passes, At, Sound
<1> QED
  BY <1>6, <1>9 DEF Steady

LEMMA LoadSteady ==
  ASSUME Steady, redo = 0, NEW t \in Threads, Load(t)
  PROVE  Steady'
<1> DEFINE k == th[t].page
<1>1. /\ Job1(t) /\ Owner(t) /\ NoSync /\ None \notin Threads /\ th[t].pc = "load" /\ th[t].why = "get"
      /\ th \in [Threads -> Job] /\ k \in Pages /\ k[1] \in Pools /\ k # None
  BY Has DEF Load
<1>2. k[2] # 0 /\ k[1] \in opened /\ pool_lock[k[1]] = t /\ fm_lock # t
  BY <1>1 DEF Job1, Owner, At, Fetching, Evicting
<1>3. /\ pool_lock' \in [Pools -> Owners] /\ pool_lock'[k[1]] = None
      /\ \A q \in Pools : q # k[1] => pool_lock'[q] = pool_lock[q]
  BY <1>1, LockIs DEF Load, Steady, Owners
<1>4. UNCHANGED <<fm_lock, bpm_lock, opened, redo>>
  BY DEF Load, runs
<1>5. CASE frames' = [frames EXCEPT ![k].lsn = disk[k]] /\ To(t, "hold")
  <2>1. /\ th' \in [Threads -> Job] /\ \A u \in Threads \ {t} : th'[u] = th[u]
        /\ th'[t].pc = "hold" /\ th'[t].page = k /\ th'[t].why = "get"
    BY <1>1, <1>5, ToIs DEF Steps
  <2>2. /\ DOMAIN frames' = DOMAIN frames
        /\ \A j \in DOMAIN frames : frames'[j] \in FrameT /\ frames'[j].pin = frames[j].pin /\ frames[j].pin \in Int
    BY <1>1, <1>5 DEF Steady, Typed, FrameT
  <2>3. Typed'
    BY <1>3, <2>1, <2>2 DEF Load, Steady, Typed, files, logs, runs
  <2>4. Job1(t)'
    BY <1>1, <1>2, <1>4, <2>1 DEF Job1, At, Fetching, Evicting
  <2>5. Owner(t)'
    BY <1>1, <1>2, <1>3, <1>4, <2>1 DEF Owner, At, Fetching, Evicting
  <2>6. ThreadInv'
    BY <1>1, <1>2, <1>3, <1>4, <2>1, <2>2, <2>3, <2>4, <2>5, QuietStep DEF Passes, At, Sound
  <2> QED
    BY <2>3, <2>6 DEF Steady
<1>6. CASE fm_lock = None /\ frames' = (IF frames[k].pin = 1 THEN Without(k) ELSE frames) /\ End(t)
  <2>1. /\ th' \in [Threads -> Job] /\ \A u \in Threads \ {t} : th'[u] = th[u]
        /\ th'[t].pc = "idle" /\ th'[t].page = None /\ th'[t].why = "none"
    BY <1>1, <1>6, EndIs
  <2>2. DOMAIN frames' \subseteq DOMAIN frames /\ \A j \in DOMAIN frames : j # k => j \in DOMAIN frames'
    BY <1>6, WithoutIs
  <2>3. \A j \in DOMAIN frames' : frames'[j] = frames[j]
    BY <1>6, WithoutIs
  <2>4. Typed'
    BY <1>3, <2>1, <2>2, <2>3 DEF Load, Steady, Typed, files, logs, runs
  <2>5. Job1(t)'
    BY <1>1, <1>2, <1>4, <2>1 DEF Job1, At, Fetching, Evicting
  <2>6. Owner(t)'
    BY <1>1, <1>2, <1>3, <1>4, <2>1 DEF Owner, At, Fetching, Evicting
  <2>7. \A j \in DOMAIN frames : j[2] = 0 => j \in DOMAIN frames' /\ frames'[j].pin >= frames[j].pin /\ frames'[j].pin \in Int
    <3>1. \A j \in DOMAIN frames : frames[j].pin \in Int
      BY DEF FrameT, Steady, Typed
    <3> QED
      BY <1>2, <2>2, <2>3, <3>1
  <2>8. \A u \in Threads \ {t} : ~ At(u, Evicting)
    BY <1>6, NoVictims
  <2>9. ThreadInv'
    BY <1>1, <1>2, <1>3, <1>4, <2>1, <2>2, <2>5, <2>6, <2>7, <2>8, SteadyStep DEF Passes, At, Sound
  <2> QED
    BY <2>4, <2>9 DEF Steady
<1> QED
  BY <1>5, <1>6 DEF Load

\* The log grows by an entry.
LEMMA AppendIs ==
  ASSUME Typed, NEW k \in Pages, NEW op \in {"allocate", "deallocate", "change"}, AppendLog(k, op)
  PROVE  /\ clog' \in Seq(BufferPoolLogEntry) /\ Len(clog') = Len(clog) + 1 /\ Len(clog) \in Nat
         /\ \A i \in 1..Len(clog) : clog'[i] = clog[i]
         /\ clog'[Len(clog) + 1].page = k /\ clog'[Len(clog) + 1].op = op
         /\ NextLsn = Len(clog) + 1 /\ flushed \in 0..Len(clog') /\ redo \in 0..(Len(clog') + 1)
<1>1. [page |-> k, op |-> op] \in BufferPoolLogEntry
  BY DEF BufferPoolLogEntry
<1>2. clog \in Seq(BufferPoolLogEntry) /\ Len(clog) \in Nat /\ flushed \in 0..Len(clog) /\ redo \in 0..(Len(clog) + 1)
  BY DEF Typed
<1>3. clog' = Append(clog, [page |-> k, op |-> op])
  BY DEF AppendLog
<1> QED
  BY <1>1, <1>2, <1>3 DEF NextLsn

LEMMA ChangeSteady ==
  ASSUME Steady, redo = 0, NEW t \in Threads, Change(t)
  PROVE  Steady'
<1> DEFINE k == th[t].page
<1>1. Sound(t) /\ NoSync /\ th[t].pc = "hold" /\ th \in [Threads -> Job] /\ k \in Pages
  BY Has DEF Change, Sound
<1>2. /\ clog' \in Seq(BufferPoolLogEntry) /\ flushed \in 0..Len(clog') /\ redo \in 0..(Len(clog') + 1) /\ NextLsn \in Int
  BY <1>1, AppendIs DEF Change, Steady
<1>3. /\ DOMAIN frames' = DOMAIN frames
      /\ \A j \in DOMAIN frames : frames'[j] \in FrameT /\ frames'[j].pin = frames[j].pin /\ frames[j].pin \in Int
  <2>1. \A j \in DOMAIN frames : frames[j] \in FrameT
    BY DEF Steady, Typed
  <2>2. frames' = [frames EXCEPT ![k].lsn = NextLsn, ![k].dirty = TRUE]
    BY DEF Change
  <2> QED
    BY <1>2, <2>1, <2>2 DEF FrameT
<1>4. newest' \in [Pages -> Int]
  <2>1. [newest EXCEPT ![k] = NextLsn] \in [Pages -> Int]
    BY <1>1, <1>2 DEF Steady, Typed
  <2> QED
    BY <2>1, KnownIs DEF Change
<1>5. Typed'
  BY <1>2, <1>3, <1>4 DEF Change, Steady, Typed, locks, files, runs
<1>6. UNCHANGED <<locks, opened, redo, th>>
  BY DEF Change, runs
<1>7. Sound(t)'
  BY <1>1, <1>3, <1>6 DEF Sound, Job1, Owner, At, locks
<1>8. ThreadInv'
  BY <1>1, <1>3, <1>5, <1>6, <1>7, QuietStep DEF Passes, locks, At
<1> QED
  BY <1>5, <1>8 DEF Steady

\* Unpin and DisposeUnpin.
LEMMA UnpinSteady ==
  ASSUME Steady, redo = 0, NEW t \in Threads, Unpin(t) \/ DisposeUnpin(t)
  PROVE  Steady'
<1> DEFINE k == th[t].page
<1>1. /\ Job1(t) /\ Owner(t) /\ NoSync /\ None \notin Threads /\ th[t].pc = "hold" /\ th \in [Threads -> Job]
      /\ k \in Pages /\ k # None
  BY Has DEF Unpin, DisposeUnpin
<1>2. k[2] # 0 /\ th[t].why # "open"
  BY <1>1 DEF Job1, At
<1>3. /\ th' \in [Threads -> Job] /\ \A u \in Threads \ {t} : th'[u] = th[u]
      /\ \/ th'[t].pc = "idle" /\ th'[t].page = None /\ th'[t].why = "none"
         \/ th'[t].pc = "dispose" /\ th'[t].page = k /\ th'[t].why = th[t].why
  <2>1. End(t) \/ To(t, "dispose")
    BY DEF Unpin, DisposeUnpin
  <2> QED
    BY <1>1, <2>1, EndIs, ToIs DEF Steps
<1>4. frames' = Pinned(k, -1) /\ UNCHANGED <<locks, opened, redo>>
  BY DEF Unpin, DisposeUnpin, runs
<1>5. DOMAIN frames' = DOMAIN frames /\ \A j \in DOMAIN frames : frames'[j] \in FrameT /\ (j[2] = 0 => frames'[j] = frames[j])
  BY <1>2, <1>4, PinnedIs DEF Steady, Typed
<1>6. Typed'
  BY <1>3, <1>5 DEF Unpin, DisposeUnpin, Steady, Typed, locks, files, logs, runs
<1>7. Job1(t)'
  BY <1>1, <1>2, <1>3, <1>4 DEF Job1, At, Fetching, Evicting
<1>8. Owner(t)'
  BY <1>1, <1>2, <1>3, <1>4 DEF Owner, At, Fetching, Evicting, locks
<1>9. ThreadInv'
  <2>1. \A j \in DOMAIN frames : j[2] = 0 => frames'[j].pin >= frames[j].pin
    BY <1>5 DEF FrameT
  <2> QED
    BY <1>1, <1>3, <1>4, <1>5, <1>6, <1>7, <1>8, <2>1, QuietStep DEF Passes, locks, At, Sound
<1> QED
  BY <1>6, <1>9 DEF Steady

LEMMA DisposeLockSteady ==
  ASSUME Steady, redo = 0, NEW t \in Threads, DisposeLock(t)
  PROVE  Steady'
<1>1. /\ th[t].page[1] \in Pools /\ Job1(t) /\ Owner(t) /\ NoSync /\ None \notin Threads /\ th[t].pc = "dispose"
  BY Has DEF DisposeLock
<1>2. /\ th' \in [Threads -> Job] /\ \A u \in Threads \ {t} : th'[u] = th[u]
      /\ th'[t].pc = "free" /\ th'[t].page = th[t].page /\ th'[t].why = th[t].why
  BY Has, ToIs DEF DisposeLock, Steps
<1>3. UNCHANGED <<frames, fm_lock, bpm_lock, opened, redo>>
  BY DEF DisposeLock, runs
<1>4. /\ pool_lock' \in [Pools -> Owners] /\ pool_lock[th[t].page[1]] = None /\ pool_lock'[th[t].page[1]] = t
      /\ \A p \in Pools : p # th[t].page[1] => pool_lock'[p] = pool_lock[p]
  BY <1>1, LockIs DEF DisposeLock, PoolOf, Owners, Steady
<1>5. Typed'
  BY <1>2, <1>4 DEF DisposeLock, Steady, Typed, files, logs, runs
<1>6. Job1(t)'
  BY <1>1, <1>2, <1>3 DEF Job1, At, Fetching, Evicting
<1>7. Owner(t)'
  BY <1>1, <1>2, <1>3, <1>4 DEF Owner, Job1, At, Fetching, Evicting
<1>8. ThreadInv'
  <2>1. \A j \in DOMAIN frames : j[2] = 0 => frames'[j].pin >= frames[j].pin
    BY <1>3 DEF FrameT, Steady, Typed
  <2> QED
    BY <1>1, <1>2, <1>3, <1>4, <1>5, <1>6, <1>7, <2>1, QuietStep DEF Passes, At, Sound
<1> QED
  BY <1>5, <1>8 DEF Steady

LEMMA DisposeSteady ==
  ASSUME Steady, redo = 0, NEW t \in Threads, Dispose(t)
  PROVE  Steady'
<1> DEFINE k == th[t].page
           p == k[1]
<1>1. /\ Job1(t) /\ Owner(t) /\ NoSync /\ None \notin Threads /\ th[t].pc = "free" /\ th \in [Threads -> Job]
      /\ k \in Pages /\ p \in Pools /\ k # None /\ k[2] \in PageNums /\ fm_lock = None
  BY Has DEF Dispose
<1>2. k[2] # 0 /\ th[t].why # "open" /\ pool_lock[p] = t
  BY <1>1 DEF Job1, Owner, At, Fetching
<1>3. /\ th' \in [Threads -> Job] /\ \A u \in Threads \ {t} : th'[u] = th[u]
      /\ th'[t].pc = "idle" /\ th'[t].page = None /\ th'[t].why = "none"
  BY <1>1, EndIs DEF Dispose
<1>4. /\ DOMAIN frames' = DOMAIN frames \ {k}
      /\ \A j \in DOMAIN frames' : frames'[j] \in FrameT /\ frames'[j].pin = frames[j].pin /\ frames[j].pin \in Int
  <2>1. frames' = [Without(k) EXCEPT ![Header(p)].dirty = TRUE] /\ DOMAIN Without(k) = DOMAIN frames \ {k}
    BY DEF Dispose, Without
  <2>2. \A j \in DOMAIN Without(k) : Without(k)[j] \in FrameT /\ Without(k)[j] = frames[j]
    BY DEF Steady, Typed, Without
  <2> QED
    BY <2>1, <2>2 DEF FrameT
<1>5. /\ pool_lock' \in [Pools -> Owners] /\ pool_lock'[p] = None
      /\ \A q \in Pools : q # p => pool_lock'[q] = pool_lock[q]
  BY <1>1, LockIs DEF Dispose, Steady, Owners
<1>6. UNCHANGED <<fm_lock, bpm_lock, opened, redo>>
  BY DEF Dispose, runs
<1>7. Typed'
  <2>1. /\ clog' \in Seq(BufferPoolLogEntry) /\ flushed \in 0..Len(clog') /\ redo \in 0..(Len(clog') + 1) /\ NextLsn \in Nat
    BY <1>1, AppendIs DEF Dispose, Steady
  <2>2. header' \in [Pools -> HeaderT]
    <3>1. header \in [Pools -> HeaderT]
      BY DEF Steady, Typed
    <3>3. [header[p] EXCEPT !.allocated_pages = @ - 1, !.bits = @ \ {k[2]}, !.lsn = NextLsn] \in HeaderT
      <4>1. header[p] \in HeaderT
        BY <1>1, <3>1
      <4>2. header[p].allocated_pages - 1 \in Int /\ header[p].bits \ {k[2]} \in SUBSET PageNums
        BY <4>1 DEF HeaderT
      <4> QED
        BY <2>1, <4>1, <4>2 DEF HeaderT
    <3>4. header' = [header EXCEPT ![p] = [header[p] EXCEPT !.allocated_pages = @ - 1, !.bits = @ \ {k[2]}, !.lsn = NextLsn]]
      BY DEF Dispose
    <3> QED
      BY <1>1, <3>1, <3>3, <3>4
  <2>3. newest' \in [Pages -> Int]
    <3>1. [newest EXCEPT ![k] = disk[k]] \in [Pages -> Int]
      BY <1>1 DEF Steady, Typed
    <3> QED
      BY <3>1, KnownIs DEF Dispose
  <2> QED
    BY <1>3, <1>4, <1>5, <2>1, <2>2, <2>3 DEF Dispose, Steady, Typed, files, runs
<1>8. Job1(t)'
  BY <1>1, <1>2, <1>3, <1>6 DEF Job1, At, Fetching, Evicting
<1>9. Owner(t)'
  BY <1>1, <1>2, <1>3, <1>5, <1>6 DEF Owner, At, Fetching, Evicting
<1>10. ThreadInv'
  <2>1. \A j \in DOMAIN frames : j[2] = 0 => j \in DOMAIN frames' /\ frames'[j].pin >= frames[j].pin /\ frames'[j].pin \in Int
    BY <1>2, <1>4
  <2>2. \A u \in Threads \ {t} : ~ At(u, Evicting)
    BY <1>1, NoVictims
  <2> QED
    BY <1>1, <1>2, <1>3, <1>4, <1>5, <1>6, <1>8, <1>9, <2>1, <2>2, SteadyStep DEF Passes, At, Sound
<1> QED
  BY <1>7, <1>10 DEF Steady

LEMMA NewHeaderIs ==
  /\ NewHeader \in HeaderT /\ NoHeader \in HeaderT /\ HeaderFrame \in FrameT /\ HeaderFrame.pin = 1 /\ HeaderFrame.lsn = 0
  /\ NewHeader.page_count = 1 /\ NoHeader.page_count = 0 /\ NewHeader.lsn = 0 /\ NoHeader.lsn = 0
  /\ NewHeader.bits = {0} /\ NewHeader.allocated_pages = 1 /\ ~ HeaderFrame.dirty
BY PageIs DEF NewHeader, NoHeader, HeaderT, HeaderFrame, FrameT

\* The page that allocate_page chooses is one.
ChosenOk(p) == Min((0..(header[p].page_count - 1)) \ header[p].bits) \in PageNums \ {0}

LEMMA AllocateFreeSteady ==
  ASSUME Steady, redo = 0, NEW t \in Threads, NEW p \in Pools, AllocateFree(t, p), ChosenOk(p)
  PROVE  Steady'
<1> DEFINE h == header[p]
           n == Min((0..(h.page_count - 1)) \ h.bits)
           k == <<p, n>>
           nh == [h EXCEPT !.allocated_pages = @ + 1, !.bits = @ \cup {n}, !.lsn = NextLsn]
<1>1. n \in PageNums /\ n # 0
  BY DEF ChosenOk
<1> HIDE DEF n
<1>2. /\ th[t].pc = "idle" /\ NoSync /\ p \in opened /\ pool_lock[p] = None
      /\ AppendLog(k, "allocate") /\ header' = [header EXCEPT ![p] = nh]
      /\ frames' = [frames EXCEPT ![Header(p)].dirty = TRUE]
      /\ Begin(t, "lookup", k, "none")
      /\ UNCHANGED <<locks, opened, files, flushed, newest, runs>>
  BY DEF AllocateFree, n
<1>3. k \in Pages /\ k # None /\ k[1] = p /\ k[2] = n /\ None \notin Threads
  BY <1>1, PageIs
<1> HIDE DEF k
<1>4. /\ th \in [Threads -> Job] /\ Sound(t) /\ header \in [Pools -> HeaderT] /\ h \in HeaderT
  BY DEF Steady, ThreadInv, Typed
<1>5. /\ th' \in [Threads -> Job] /\ \A u \in Threads \ {t} : th'[u] = th[u]
      /\ th'[t].pc = "lookup" /\ th'[t].page = k /\ th'[t].why = "none"
  BY <1>2, <1>3, <1>4, BeginIs DEF Steps, Reasons
<1>6. /\ clog' \in Seq(BufferPoolLogEntry) /\ flushed \in 0..Len(clog') /\ redo \in 0..(Len(clog') + 1) /\ NextLsn \in Nat
  BY <1>2, <1>3, AppendIs DEF Steady
<1>7. nh \in HeaderT
  <2>1. h.allocated_pages + 1 \in Int /\ h.bits \cup {n} \in SUBSET PageNums
    BY <1>1, <1>4 DEF HeaderT
  <2> QED
    BY <1>4, <1>6, <2>1 DEF HeaderT
<1>8. /\ DOMAIN frames' = DOMAIN frames
      /\ \A j \in DOMAIN frames : frames'[j] \in FrameT /\ frames'[j].pin = frames[j].pin /\ frames[j].pin \in Int
  BY <1>2 DEF Steady, Typed, FrameT
<1>9. Typed'
  <2>1. header' \in [Pools -> HeaderT]
    BY <1>2, <1>4, <1>7
  <2> QED
    BY <1>2, <1>5, <1>6, <1>8, <2>1 DEF Steady, Typed, locks, files, runs
<1>10. Job1(t)'
  BY <1>1, <1>2, <1>3, <1>5 DEF Job1, At, Fetching, Evicting, runs
<1>11. Owner(t)'
  BY <1>2, <1>3, <1>4, <1>5 DEF Sound, Owner, At, Fetching, Evicting, locks
<1>12. ThreadInv'
  BY <1>2, <1>5, <1>8, <1>9, <1>10, <1>11, QuietStep DEF Passes, At, Sound, locks, runs
<1> QED
  BY <1>9, <1>12 DEF Steady

LEMMA AllocateNewSteady ==
  ASSUME Steady, redo = 0, NEW t \in Threads, NEW p \in Pools, AllocateNew(t, p), header[p].page_count >= 1
  PROVE  Steady'
<1> DEFINE k == <<p, header[p].page_count>>
           nh == [header[p] EXCEPT !.lsn = NextLsn]
<1>1. header[p] \in HeaderT /\ header \in [Pools -> HeaderT]
  BY DEF Steady, Typed
<1>2. k \in Pages /\ k # None /\ k[1] = p /\ k[2] # 0 /\ None \notin Threads
  <2>1. header[p].page_count \in PageNums /\ header[p].page_count # 0
    BY <1>1, BufferPoolAssumption DEF AllocateNew, HeaderT, PageNums
  <2> QED
    BY <2>1, PageIs
<1>3. /\ th[t].pc = "idle" /\ NoSync /\ p \in opened /\ pool_lock[p] = None /\ pool_lock' = Lock(p, t)
      /\ AppendLog(k, "allocate") /\ header' = [header EXCEPT ![p].lsn = NextLsn]
      /\ Begin(t, "alloc", k, "extend")
      /\ UNCHANGED <<frames, fm_lock, bpm_lock, opened, files, flushed, newest, runs>>
  BY DEF AllocateNew
<1> HIDE DEF k
<1>4. /\ th \in [Threads -> Job] /\ Sound(t)
  BY DEF Steady, ThreadInv, Typed
<1>5. /\ th' \in [Threads -> Job] /\ \A u \in Threads \ {t} : th'[u] = th[u]
      /\ th'[t].pc = "alloc" /\ th'[t].page = k /\ th'[t].why = "extend"
  BY <1>2, <1>3, <1>4, BeginIs DEF Steps, Reasons
<1>6. /\ clog' \in Seq(BufferPoolLogEntry) /\ flushed \in 0..Len(clog') /\ redo \in 0..(Len(clog') + 1) /\ NextLsn \in Nat
  BY <1>2, <1>3, AppendIs DEF Steady
<1>7. header' \in [Pools -> HeaderT]
  <2>1. header' = [header EXCEPT ![p] = nh]
    BY <1>3
  <2>2. nh \in HeaderT
    BY <1>1, <1>6 DEF HeaderT
  <2> QED
    BY <1>1, <2>1, <2>2
<1>8. /\ pool_lock' \in [Pools -> Owners] /\ pool_lock'[p] = t
      /\ \A q \in Pools : q # p => pool_lock'[q] = pool_lock[q]
  BY <1>3, LockIs DEF Steady, Owners
<1>9. Typed'
  BY <1>3, <1>5, <1>6, <1>7, <1>8 DEF Steady, Typed, files, runs
<1>10. Job1(t)'
  BY <1>2, <1>3, <1>5 DEF Job1, At, Fetching, Evicting, runs
<1>11. Owner(t)'
  BY <1>2, <1>3, <1>4, <1>5, <1>8 DEF Sound, Owner, At, Fetching, Evicting
<1>12. ThreadInv'
  <2>1. \A j \in DOMAIN frames : j[2] = 0 => frames'[j].pin >= frames[j].pin
    BY <1>3 DEF FrameT, Steady, Typed
  <2> QED
    BY <1>3, <1>5, <1>8, <1>9, <1>10, <1>11, <2>1, QuietStep DEF Passes, At, Sound, runs
<1> QED
  BY <1>9, <1>12 DEF Steady

\* What AllocateNewDone makes of the header.
LEMMA LargerIs ==
  ASSUME Typed, NEW t \in Threads, AllocateNewDone(t), th[t].page \in Pages
  PROVE  LET p == th[t].page[1]
             h == header[p]
             nh == [h EXCEPT !.allocated_pages = @ + 1, !.page_count = @ + 1, !.bits = @ \cup {th[t].page[2]}]
         IN header' = [header EXCEPT ![p] = nh] /\ nh \in HeaderT /\ h \in HeaderT
<1> DEFINE p == th[t].page[1]
           h == header[p]
           n == th[t].page[2]
           nh == [h EXCEPT !.allocated_pages = @ + 1, !.page_count = @ + 1, !.bits = @ \cup {n}]
<1>1. p \in Pools /\ n \in PageNums /\ header \in [Pools -> HeaderT] /\ h \in HeaderT
  BY PageIs DEF Typed
<1>3. header' = [header EXCEPT ![p] = nh]
  BY DEF AllocateNewDone
<1>4. nh \in HeaderT
  <2>1. h.allocated_pages + 1 \in Int /\ h.page_count + 1 \in Int /\ h.bits \cup {n} \in SUBSET PageNums
    BY <1>1 DEF HeaderT
  <2> QED
    BY <1>1, <2>1 DEF HeaderT
<1> QED
  BY <1>1, <1>3, <1>4

LEMMA WithHolesIs ==
  ASSUME NEW f \in [Pages -> Int], NEW k PROVE WithHoles(f, k) \in [Pages -> Int]
BY DEF WithHoles

LEMMA DoneFrames ==
  ASSUME Typed, NEW t \in Threads, AllocateNewDone(t), th[t].page \in Pages, th[t].page[2] # 0
  PROVE  LET k == th[t].page
             p == k[1]
         IN /\ DOMAIN frames' = DOMAIN frames /\ k # Header(p)
            /\ \A j \in DOMAIN frames : /\ frames'[j] \in FrameT /\ frames'[j].pin = frames[j].pin
                                        /\ j \notin {k, Header(p)} => frames'[j] = frames[j]
                                        /\ j = k => frames'[j].lsn = 0 /\ ~ frames'[j].dirty
                                        /\ j = Header(p) => frames'[j].lsn = frames[j].lsn /\ frames'[j].dirty
<1> DEFINE k == th[t].page
           p == k[1]
<1>1. frames' = [frames EXCEPT ![k].lsn = 0, ![k].dirty = FALSE, ![Header(p)].dirty = TRUE]
  BY DEF AllocateNewDone
<1>2. k # Header(p)
  BY PageIs
<1>3. /\ DOMAIN frames' = DOMAIN frames
      /\ \A j \in DOMAIN frames :
           frames'[j] = IF j = k THEN [frames[j] EXCEPT !.lsn = 0, !.dirty = FALSE]
                        ELSE IF j = Header(p) THEN [frames[j] EXCEPT !.dirty = TRUE] ELSE frames[j]
  BY <1>1, <1>2
<1>4. ASSUME NEW j \in DOMAIN frames
      PROVE  /\ frames'[j] \in FrameT /\ frames'[j].pin = frames[j].pin
             /\ j \notin {k, Header(p)} => frames'[j] = frames[j]
             /\ j = k => frames'[j].lsn = 0 /\ ~ frames'[j].dirty
             /\ j = Header(p) => frames'[j].lsn = frames[j].lsn /\ frames'[j].dirty
  <2>1. frames[j] \in FrameT
    BY DEF Typed
  <2>2. CASE j = k
    <3>1. frames'[j] = [pin |-> frames[j].pin, dirty |-> FALSE, lsn |-> 0] /\ frames[j].pin \in Int
      BY <1>3, <2>1, <2>2 DEF FrameT
    <3> QED
      BY <1>2, <2>2, <3>1 DEF FrameT
  <2>3. CASE j = Header(p)
    <3>1. frames'[j] = [pin |-> frames[j].pin, dirty |-> TRUE, lsn |-> frames[j].lsn] /\ frames[j].pin \in Int /\ frames[j].lsn \in Int
      BY <1>2, <1>3, <2>1, <2>3 DEF FrameT
    <3> QED
      BY <1>2, <2>3, <3>1 DEF FrameT
  <2>4. CASE j \notin {k, Header(p)}
    BY <1>3, <2>1, <2>4
  <2> QED
    BY <2>2, <2>3, <2>4
<1> QED
  BY <1>2, <1>3, <1>4

LEMMA AllocateNewDoneSteady ==
  ASSUME Steady, redo = 0, NEW t \in Threads, AllocateNewDone(t)
  PROVE  Steady'
<1> DEFINE k == th[t].page
           p == k[1]
<1>1. /\ Job1(t) /\ Owner(t) /\ NoSync /\ None \notin Threads /\ th[t].pc = "load" /\ th[t].why = "extend"
      /\ th \in [Threads -> Job] /\ k \in Pages /\ p \in Pools /\ k # None
  BY Has DEF AllocateNewDone
<1>2. k[2] # 0 /\ p \in opened /\ pool_lock[p] = t /\ fm_lock # t
  BY <1>1 DEF Job1, Owner, At, Fetching, Evicting
<1>3. /\ pool_lock' \in [Pools -> Owners] /\ pool_lock'[p] = None
      /\ \A q \in Pools : q # p => pool_lock'[q] = pool_lock[q]
  BY <1>1, LockIs DEF AllocateNewDone, Steady, Owners
<1>4. UNCHANGED <<fm_lock, bpm_lock, opened, redo>>
  BY DEF AllocateNewDone, runs
<1>5. /\ th' \in [Threads -> Job] /\ \A u \in Threads \ {t} : th'[u] = th[u]
      /\ th'[t].pc = "hold" /\ th'[t].page = k /\ th'[t].why = "extend"
  BY <1>1, ToIs DEF AllocateNewDone, Steps
<1>6. /\ DOMAIN frames' = DOMAIN frames
      /\ \A j \in DOMAIN frames : frames'[j] \in FrameT /\ frames'[j].pin = frames[j].pin /\ frames[j].pin \in Int
  BY <1>1, <1>2, DoneFrames DEF Steady, Typed, FrameT
<1>7. Typed'
  <2>1. header' \in [Pools -> HeaderT]
    BY <1>1, LargerIs DEF Steady, Typed
  <2>2. disk' \in [Pages -> Int] /\ newest' \in [Pages -> Int]
    BY WithHolesIs, KnownIs DEF AllocateNewDone, Steady, Typed
  <2> QED
    BY <1>3, <1>5, <1>6, <2>1, <2>2 DEF AllocateNewDone, Steady, Typed, logs, runs
<1>8. Job1(t)'
  BY <1>1, <1>2, <1>4, <1>5 DEF Job1, At, Fetching, Evicting
<1>9. Owner(t)'
  BY <1>1, <1>2, <1>3, <1>4, <1>5 DEF Owner, At, Fetching, Evicting
<1>10. ThreadInv'
  BY <1>1, <1>2, <1>3, <1>4, <1>5, <1>6, <1>7, <1>8, <1>9, QuietStep DEF Passes, At, Sound
<1> QED
  BY <1>7, <1>10 DEF Steady

LEMMA OpenFileSteady ==
  ASSUME Steady, redo = 0, NEW t \in Threads, NEW p \in Pools, OpenFile(t, p)
  PROVE  Steady'
<1>1. Header(p) \in Pages /\ Header(p) # None /\ Header(p)[1] = p /\ Header(p)[2] = 0 /\ None \notin Threads
  BY PageIs
<1>2. /\ th[t].pc = "idle" /\ NoSync /\ p \notin opened /\ bpm_lock = None /\ bpm_lock' = t
      /\ Begin(t, "alloc", Header(p), "open")
      /\ UNCHANGED <<frames, fm_lock, pool_lock, opened, header, disk, logs, newest, runs>>
  BY DEF OpenFile
<1>3. /\ th \in [Threads -> Job] /\ Sound(t)
  BY DEF Steady, ThreadInv, Typed
<1>4. /\ th' \in [Threads -> Job] /\ \A u \in Threads \ {t} : th'[u] = th[u]
      /\ th'[t].pc = "alloc" /\ th'[t].page = Header(p) /\ th'[t].why = "open"
  BY <1>1, <1>2, <1>3, BeginIs DEF Steps, Reasons
<1>5. Typed'
  <2>1. disk_header' \in [Pools -> HeaderT]
    BY NewHeaderIs DEF OpenFile, Steady, Typed
  <2> QED
    BY <1>2, <1>4, <2>1 DEF Steady, Typed, Owners, logs, runs
<1>6. Job1(t)'
  BY <1>1, <1>2, <1>4 DEF Job1, At, Fetching, Evicting, runs
<1>7. Owner(t)'
  BY <1>1, <1>2, <1>3, <1>4 DEF Sound, Owner, At, Fetching, Evicting
<1>8. ThreadInv'
  <2>1. \A j \in DOMAIN frames : j[2] = 0 => frames'[j].pin >= frames[j].pin
    BY <1>2 DEF FrameT, Steady, Typed
  <2> QED
    BY <1>1, <1>2, <1>4, <1>5, <1>6, <1>7, <2>1, QuietStep DEF Passes, At, Sound, runs
<1> QED
  BY <1>5, <1>8 DEF Steady

LEMMA OpenFileDoneSteady ==
  ASSUME Steady, redo = 0, NEW t \in Threads, OpenFileDone(t)
  PROVE  Steady'
<1> DEFINE k == th[t].page
           p == k[1]
<1>1. /\ Job1(t) /\ Owner(t) /\ NoSync /\ None \notin Threads /\ th[t].pc = "load" /\ th[t].why = "open"
      /\ th \in [Threads -> Job] /\ k \in Pages /\ p \in Pools /\ k # None
  BY Has DEF OpenFileDone
<1>2. k[2] = 0 /\ p \notin opened /\ bpm_lock = t /\ k \in DOMAIN frames /\ k = Header(p)
  <2>1. k[2] = 0 /\ p \notin opened /\ bpm_lock = t /\ k \in DOMAIN frames
    BY <1>1 DEF Job1, Owner, At
  <2> QED
    BY <1>1, <2>1, PageIs DEF Header
<1>3. /\ th' \in [Threads -> Job] /\ \A u \in Threads \ {t} : th'[u] = th[u]
      /\ th'[t].pc = "idle" /\ th'[t].page = None /\ th'[t].why = "none"
  BY <1>1, EndIs DEF OpenFileDone
<1>4. /\ DOMAIN frames' = DOMAIN frames
      /\ \A j \in DOMAIN frames : frames'[j] \in FrameT /\ frames'[j].pin = frames[j].pin /\ frames[j].pin \in Int
  <2>1. frames' = [frames EXCEPT ![Header(p)].lsn = 0]
    BY DEF OpenFileDone, PoolOf
  <2>2. \A j \in DOMAIN frames : frames[j] \in FrameT
    BY DEF Steady, Typed
  <2>3. DOMAIN frames' = DOMAIN frames /\ \A j \in DOMAIN frames : frames'[j] = frames[j] \/ frames'[j] = [frames[j] EXCEPT !.lsn = 0]
    BY <2>1
  <2> QED
    BY <2>2, <2>3 DEF FrameT
<1>5. opened' = opened \cup {p} /\ bpm_lock' = None /\ UNCHANGED <<fm_lock, pool_lock, redo>>
  BY DEF OpenFileDone, PoolOf, runs
<1>6. Typed'
  <2>1. header' \in [Pools -> HeaderT]
    BY <1>1 DEF OpenFileDone, PoolOf, Steady, Typed
  <2> QED
    BY <1>1, <1>3, <1>4, <1>5, <2>1 DEF OpenFileDone, Steady, Typed, Owners, files, logs, runs
<1>7. ASSUME NEW u \in Threads PROVE Sound(u)'
  <2>1. CASE u = t
    <3>1. Job1(t)'
      BY <1>1, <1>3, <1>5 DEF Job1, At, Fetching, Evicting
    <3>2. Owner(t)'
      BY <1>1, <1>2, <1>3, <1>5 DEF Owner, At, Fetching, Evicting
    <3> QED
      BY <2>1, <3>1, <3>2 DEF Sound
  <2>2. CASE u # t
    <3>1. Sound(u) /\ th[u] \in Job /\ th'[u] = th[u]
      BY <1>1, <1>3, <2>2 DEF Steady, ThreadInv
    <3>2. th[u].why # "open"
      BY <1>2, <2>2, <3>1 DEF Sound, Owner
    <3>3. Job1(u)'
      BY <1>4, <1>5, <3>1, <3>2 DEF Sound, Job1, At
    <3>4. Owner(u)'
      BY <1>1, <1>2, <1>5, <2>2, <3>1, <3>2 DEF Sound, Owner, At
    <3> QED
      BY <3>3, <3>4 DEF Sound
  <2> QED
    BY <2>1, <2>2
<1>8. SyncAlone'
  BY <1>1, <1>3 DEF SyncAlone, NoSync, At
<1>9. HeaderFrames'
  <2>1. \A q \in opened' : Header(q) \in DOMAIN frames'
    BY <1>2, <1>4, <1>5 DEF Steady, ThreadInv, HeaderFrames
  <2>2. ASSUME NEW j \in DOMAIN frames'
        PROVE  IF j[2] = 0 THEN /\ frames'[j].pin >= 1
                                /\ j[1] \in opened' \/ \E u \in Threads : At(u, {"load"})' /\ th'[u].page = j
               ELSE j[1] \in opened'
    <3>1. j \in DOMAIN frames /\ frames'[j].pin = frames[j].pin
      BY <1>4
    <3>2. IF j[2] = 0 THEN /\ frames[j].pin >= 1
                           /\ j[1] \in opened \/ \E u \in Threads : At(u, {"load"}) /\ th[u].page = j
          ELSE j[1] \in opened
      BY <3>1 DEF Steady, ThreadInv, HeaderFrames
    <3>3. \A u \in Threads : At(u, {"load"}) /\ th[u].page = j => u = t \/ (At(u, {"load"})' /\ th'[u].page = j)
      BY <1>3 DEF At
    <3>4. At(t, {"load"}) /\ th[t].page = j => j[1] \in opened'
      BY <1>5
    <3> QED
      BY <1>5, <3>1, <3>2, <3>3, <3>4
  <2> QED
    BY <2>1, <2>2 DEF HeaderFrames
<1> QED
  BY <1>6, <1>7, <1>8, <1>9 DEF Steady, ThreadInv

\* Sync and SyncDone.
LEMMA SyncSteady ==
  ASSUME Steady, redo = 0, NEW t \in Threads, Sync(t) \/ SyncDone(t)
  PROVE  Steady'
<1>1. /\ th[t].pc \in {"idle", "sync"} /\ th \in [Threads -> Job] /\ Sound(t) /\ None \notin Threads
      /\ \A u \in Threads \ {t} : th[u].pc = "idle"
  BY PageIs DEF Sync, SyncDone, Steady, Typed, ThreadInv, Alone, SyncAlone, At
<1>2. th[t].page = None /\ th[t].why = "none"
  BY <1>1 DEF Sound, Job1, At
<1>3. /\ th' \in [Threads -> Job] /\ \A u \in Threads \ {t} : th'[u] = th[u]
      /\ th'[t].pc \in {"idle", "sync"} /\ th'[t].page = None /\ th'[t].why = "none"
  <2>1. To(t, "sync") \/ End(t)
    BY DEF Sync, SyncDone
  <2> QED
    BY <1>1, <1>2, <2>1, ToIs, EndIs DEF Steps
<1>4. UNCHANGED <<frames, locks, opened, redo>>
  BY DEF Sync, SyncDone, runs
<1>5. Typed'
  BY <1>3 DEF Sync, SyncDone, Steady, Typed, locks, files, logs, runs
<1>6. Sound(t)'
  <2>1. Job1(t)'
    BY <1>2, <1>3, <1>4 DEF Job1, At, Fetching, Evicting
  <2>2. Owner(t)'
    BY <1>1, <1>2, <1>3, <1>4 DEF Sound, Owner, At, Fetching, Evicting, locks
  <2> QED
    BY <2>1, <2>2 DEF Sound
<1>7. SyncAlone'
  BY <1>1, <1>3 DEF SyncAlone, At
<1>8. ThreadInv'
  <2>1. \A j \in DOMAIN frames : frames'[j].pin \in Int /\ frames'[j].pin >= frames[j].pin
    BY <1>4 DEF Steady, Typed, FrameT
  <2> QED
    BY <1>1, <1>3, <1>4, <1>6, <1>7, <2>1, SteadyStep DEF Passes, At, locks, Evicting
<1> QED
  BY <1>5, <1>8 DEF Steady

LEMMA SyncFlushSteady ==
  ASSUME Steady, redo = 0, NEW t \in Threads, NEW k \in Pages, SyncFlush(t, k)
  PROVE  Steady'
<1>1. UNCHANGED <<locks, opened, redo, th>> /\ k \in DOMAIN frames
  BY DEF SyncFlush, runs
<1>2. /\ DOMAIN frames' = DOMAIN frames
      /\ \A j \in DOMAIN frames : frames'[j] \in FrameT /\ frames'[j].pin = frames[j].pin /\ frames[j].pin \in Int
  <2>1. frames' = [frames EXCEPT ![k].dirty = FALSE]
    BY DEF SyncFlush
  <2>2. \A j \in DOMAIN frames : frames[j] \in FrameT
    BY DEF Steady, Typed
  <2> QED
    BY <2>1, <2>2 DEF FrameT
<1>3. Typed'
  <2>1. disk' \in [Pages -> Int] /\ disk_header' \in [Pools -> HeaderT]
    <3>1. k[1] \in Pools /\ frames[k].lsn \in Int /\ disk \in [Pages -> Int] /\ disk_header \in [Pools -> HeaderT]
          /\ header[k[1]] \in HeaderT
      BY <1>1, PageIs DEF Steady, Typed, FrameT
    <3> QED
      BY <3>1 DEF SyncFlush
  <2> QED
    BY <1>2, <2>1 DEF SyncFlush, Steady, Typed, locks, logs, runs
<1>4. \A u \in Threads : Sound(u)'
  BY <1>1, <1>2 DEF Steady, ThreadInv, Sound, Job1, Owner, At, locks
<1>5. SyncAlone'
  BY <1>1 DEF SyncAlone, At, Steady, ThreadInv
<1>6. HeaderFrames'
  BY <1>1, <1>2 DEF HeaderFrames, At, Steady, ThreadInv
<1> QED
  BY <1>3, <1>4, <1>5, <1>6 DEF Steady, ThreadInv

\* A step that leaves the threads, the locks and the frames alone.
LEMMA StillSteady ==
  ASSUME Steady, Typed', UNCHANGED <<frames, locks, opened, th>>, redo' > 0 => redo > 0
  PROVE  Steady'
<1>1. \A u \in Threads : Sound(u)'
  BY DEF Steady, ThreadInv, Sound, Job1, Owner, At, locks
<1>2. SyncAlone' /\ HeaderFrames'
  BY DEF SyncAlone, HeaderFrames, At, Steady, ThreadInv
<1> QED
  BY <1>1, <1>2 DEF Steady, ThreadInv

LEMMA LogFlushSteady ==
  ASSUME Steady, LogFlush
  PROVE  Steady'
<1>1. Typed'
  BY DEF LogFlush, Steady, Typed, locks, files, runs
<1> QED
  BY <1>1, StillSteady DEF LogFlush, locks, runs

LEMMA RedoDoneSteady ==
  ASSUME Steady, RedoDone
  PROVE  Steady'
<1>1. Typed'
  BY DEF RedoDone, Steady, Typed, locks, files, logs
<1> QED
  BY <1>1, StillSteady DEF RedoDone, locks

LEMMA StutterSteady ==
  ASSUME Steady, UNCHANGED vars
  PROVE  Steady'
<1>1. Typed'
  BY DEF vars, Steady, Typed, locks, files, logs, runs
<1> QED
  BY <1>1, StillSteady DEF vars, locks, runs

\* Everybody is idle, no lock is taken and the frames are right.
LEMMA IdleSteady ==
  ASSUME Typed', HeaderFrames', \A t \in Threads : th'[t] = Idle,
         fm_lock' = None, \A p \in Pools : pool_lock'[p] = None
  PROVE  Steady'
<1>1. \A t \in Threads : Job1(t)'
  BY IdleIs DEF Job1, At, Fetching, Evicting
<1>2. \A t \in Threads : Owner(t)'
  BY IdleIs, PageIs DEF Owner, At, Fetching, Evicting
<1>3. SyncAlone'
  BY IdleIs DEF SyncAlone, At
<1> QED
  BY <1>1, <1>2, <1>3 DEF Steady, ThreadInv, Sound

LEMMA Least ==
  ASSUME NEW S, S \subseteq Nat, S # {}
  PROVE  Min(S) \in S /\ \A y \in S : Min(S) <= y
<1> DEFINE P(x) == \A y \in S : x <= y
<1>1. PICK m \in S : \A y \in S : ~ (<<y, m>> \in OpToRel(<, Nat))
  BY WFMin, NatLessThanWellFounded
<1>2. ASSUME NEW y \in S PROVE m <= y
  <2>0. y \in Nat /\ m \in Nat
    OBVIOUS
  <2>1. y < m => <<y, m>> \in OpToRel(<, Nat)
    BY <2>0 DEF OpToRel
  <2>2. ~ (y < m)
    BY <1>1, <2>1
  <2> QED
    BY <2>0, <2>2
<1>3. Min(S) = CHOOSE x \in S : P(x)
  BY DEF Min
<1>4. P(m)
  BY <1>2
<1> HIDE DEF P
<1>5. Min(S) \in S /\ P(Min(S))
  BY <1>3, <1>4
<1> QED
  BY <1>5 DEF P

LEMMA Greatest ==
  ASSUME NEW n \in Nat, NEW S, S \subseteq 1..n, S # {}
  PROVE  Max(S) \in S /\ \A y \in S : y <= Max(S)
<1> DEFINE P(x) == \A y \in S : x >= y
           T == {i \in Nat : \E x \in S : i = n - x}
<1>0. S \subseteq Int
  OBVIOUS
<1>1. PICK x \in S : TRUE
  OBVIOUS
<1>2. n - x \in T
  BY <1>1
<1>3. Min(T) \in T /\ \A y \in T : Min(T) <= y
  <2>1. T \subseteq Nat /\ T # {}
    BY <1>2
  <2> HIDE DEF T
  <2> QED
    BY <2>1, Least
<1>4. PICK m \in S : Min(T) = n - m
  BY <1>3
<1>5. ASSUME NEW y \in S PROVE m >= y
  <2>1. n - y \in T /\ y \in Nat /\ m \in Nat
    OBVIOUS
  <2>2. n - m <= n - y
    BY <1>3, <1>4, <2>1
  <2> QED
    BY <2>1, <2>2
<1>6. Max(S) = CHOOSE z \in S : P(z)
  BY DEF Max
<1>7. P(m)
  BY <1>5
<1> HIDE DEF P
<1>8. Max(S) \in S /\ P(Max(S))
  BY <1>6, <1>7
<1>9. ASSUME NEW y \in S PROVE y <= Max(S)
  <2>1. y \in Int /\ Max(S) \in Int
    BY <1>0, <1>8
  <2>2. Max(S) >= y
    BY <1>8 DEF P
  <2> QED
    BY <2>1, <2>2
<1> QED
  BY <1>8, <1>9

\* The last change of a page that is durable.
LEMMA LastChangeIs ==
  ASSUME Typed, NEW k \in Pages
  PROVE  /\ LastChange(k) \in Int
         /\ \/ LastChange(k) = disk[k] /\ \A i \in 1..flushed : ~ (clog[i].page = k /\ clog[i].op = "change")
            \/ /\ LastChange(k) \in 1..flushed /\ clog[LastChange(k)].page = k /\ clog[LastChange(k)].op = "change"
               /\ \A i \in 1..flushed : clog[i].page = k /\ clog[i].op = "change" => i <= LastChange(k)
<1> DEFINE C == {i \in 1..flushed : clog[i].page = k /\ clog[i].op = "change"}
<1>1. flushed \in Nat /\ disk[k] \in Int
  BY DEF Typed
<1>2. LastChange(k) = IF C = {} THEN disk[k] ELSE Max(C)
  BY DEF LastChange
<1>3. CASE C = {}
  BY <1>1, <1>2, <1>3
<1>4. CASE C # {}
  <2>1. LastChange(k) \in C /\ \A y \in C : y <= LastChange(k)
    <3>1. C \subseteq 1..flushed
      OBVIOUS
    <3> HIDE DEF C
    <3> QED
      BY <1>1, <1>2, <1>4, <3>1, Greatest
  <2> QED
    BY <1>1, <2>1
<1> QED
  BY <1>3, <1>4

LEMMA CrashSteady ==
  ASSUME Steady, Crash
  PROVE  Steady'
<1> DEFINE exist == {p \in Pools : disk_header[p].page_count > 0}
<1>1. /\ frames' = [k \in {Header(p) : p \in exist} |-> HeaderFrame]
      /\ fm_lock' = None /\ bpm_lock' = None /\ pool_lock' = [p \in Pools |-> None]
      /\ opened' = exist /\ header' = disk_header /\ clog' = SubSeq(clog, 1, flushed)
      /\ th' = [t \in Threads |-> Idle] /\ newest' = Known([k \in Pages |-> LastChange(k)])
      /\ redo' = 1 /\ failed' = FALSE /\ restarts' = restarts + 1 /\ UNCHANGED <<files, flushed>>
  BY DEF Crash
<1>2. \A k \in DOMAIN frames' : frames'[k] = HeaderFrame /\ \E p \in exist : k = Header(p)
  BY <1>1
<1>3. Typed'
  <2>1. DOMAIN frames' \subseteq Pages /\ \A k \in DOMAIN frames' : frames'[k] \in FrameT
    BY <1>2, PageIs, NewHeaderIs
  <2>2. newest' \in [Pages -> Int]
    <3>1. [k \in Pages |-> LastChange(k)] \in [Pages -> Int]
      BY LastChangeIs DEF Steady
    <3> QED
      BY <1>1, <3>1, KnownIs
  <2>3. clog' \in Seq(BufferPoolLogEntry) /\ Len(clog') = flushed
    BY <1>1 DEF Steady, Typed
  <2>4. th' \in [Threads -> Job]
    BY <1>1, IdleIs
  <2>5. fm_lock' \in Owners /\ bpm_lock' \in Owners /\ pool_lock' \in [Pools -> Owners]
    BY <1>1 DEF Owners
  <2>6. opened' \subseteq Pools /\ header' \in [Pools -> HeaderT] /\ disk_header' \in [Pools -> HeaderT] /\ disk' \in [Pages -> Int]
    BY <1>1 DEF Steady, Typed, files
  <2>7. flushed' \in 0..Len(clog') /\ restarts' \in Nat /\ redo' \in 0..(Len(clog') + 1)
    BY <1>1, <2>3 DEF Steady, Typed
  <2>8. failed' \in BOOLEAN
    BY <1>1
  <2> QED
    BY <2>1, <2>2, <2>3, <2>4, <2>5, <2>6, <2>7, <2>8 DEF Typed
<1>4. HeaderFrames'
  <2>1. \A p \in opened' : Header(p) \in DOMAIN frames'
    BY <1>1
  <2>2. \A k \in DOMAIN frames' : k[2] = 0 /\ frames'[k].pin >= 1 /\ k[1] \in opened'
    BY <1>1, <1>2, PageIs, NewHeaderIs
  <2> QED
    BY <2>1, <2>2 DEF HeaderFrames
<1> QED
  BY <1>1, <1>3, <1>4, IdleSteady

LEMMA Redoes ==
  ASSUME Steady, NEW ops, Redoing(ops)
  PROVE  /\ redo \in 1..Len(clog) /\ redo > 0 /\ redo + 1 \in 0..(Len(clog) + 1) /\ ~ failed /\ Len(clog) \in Nat
         /\ clog[redo].page \in Pages /\ clog[redo].page[1] \in Pools /\ clog[redo].page[2] \in PageNums
         /\ clog[redo].op \in ops
         /\ \A t \in Threads : th[t].pc = "idle" /\ th[t].page = None
         /\ fm_lock \notin Threads /\ \A p \in Pools : pool_lock[p] = None
<1>1. redo \in 1..Len(clog) /\ redo > 0 /\ redo + 1 \in 0..(Len(clog) + 1) /\ Len(clog) \in Nat
  BY DEF Redoing, Steady, Typed
<1>2. clog[redo].page \in Pages
  <2>1. clog \in Seq(BufferPoolLogEntry)
    BY DEF Steady, Typed
  <2>2. clog[redo] \in BufferPoolLogEntry
    BY <1>1, <2>1
  <2> QED
    BY <2>2 DEF BufferPoolLogEntry
<1>3. \A t \in Threads : th[t].pc = "idle" /\ th[t].page = None /\ fm_lock # t /\ \A p \in Pools : pool_lock[p] # t
  BY <1>1 DEF Steady, ThreadInv, Sound, Job1, Owner, At, Evicting, Fetching
<1> QED
  BY <1>1, <1>2, <1>3, PageIs DEF Redoing, Steady, Typed, Owners

\* What redo makes of a header.
LEMMA RedoHeaderTyped ==
  ASSUME NEW h \in HeaderT, NEW lsn \in Nat, NEW n \in PageNums
  PROVE  RedoAllocate(h, lsn, n) \in HeaderT /\ RedoDeallocate(h, lsn, n) \in HeaderT
<1>1. /\ h.bits \cup {n} \in SUBSET PageNums /\ h.bits \ {n} \in SUBSET PageNums /\ n + 1 \in Int
      /\ h.allocated_pages + 1 \in Int /\ h.allocated_pages - 1 \in Int
  BY PageIs DEF HeaderT
<1>2. RedoAllocate(h, lsn, n) \in HeaderT
  <2>1. [h EXCEPT !.bits = @ \cup {n}, !.allocated_pages = @ + 1] \in HeaderT
    BY <1>1 DEF HeaderT
  <2>2. [bits |-> h.bits \cup {n}, page_count |-> n + 1, allocated_pages |-> h.allocated_pages + 1, lsn |-> lsn] \in HeaderT
    BY <1>1 DEF HeaderT
  <2> QED
    BY <2>1, <2>2 DEF RedoAllocate
<1>3. RedoDeallocate(h, lsn, n) \in HeaderT
  <2>1. [h EXCEPT !.bits = @ \ {n}, !.allocated_pages = @ - 1, !.lsn = lsn] \in HeaderT
    BY <1>1 DEF HeaderT
  <2> QED
    BY <2>1 DEF RedoDeallocate
<1> QED
  BY <1>2, <1>3

LEMMA RedoHeaderDoes ==
  ASSUME RedoHeader
  PROVE  LET p == clog[redo].page[1]
             n == clog[redo].page[2]
         IN /\ Redoing({"allocate", "deallocate"}) /\ redo' = redo + 1
            /\ UNCHANGED <<locks, opened, files, logs, th, newest, restarts>>
            /\ failed \in BOOLEAN => failed' \in BOOLEAN
            /\ \E d \in BOOLEAN : frames' = frames \/ frames' = [frames EXCEPT ![Header(p)].dirty = @ \/ d]
            /\ \/ header' = header \/ header' = [header EXCEPT ![p] = RedoAllocate(header[p], redo, n)]
               \/ header' = [header EXCEPT ![p] = RedoDeallocate(header[p], redo, n)]
<1> DEFINE p == clog[redo].page[1]
           n == clog[redo].page[2]
<1>1. /\ Redoing({"allocate", "deallocate"}) /\ redo' = redo + 1
      /\ UNCHANGED <<locks, opened, files, logs, th, newest, restarts>>
  BY DEF RedoHeader
<1>2. failed \in BOOLEAN => failed' \in BOOLEAN
  BY DEF RedoHeader
<1>3. \E d \in BOOLEAN : frames' = frames \/ frames' = [frames EXCEPT ![Header(p)].dirty = @ \/ d]
  BY DEF RedoHeader
<1>4. \/ header' = header \/ header' = [header EXCEPT ![p] = RedoAllocate(header[p], redo, n)]
      \/ header' = [header EXCEPT ![p] = RedoDeallocate(header[p], redo, n)]
  BY DEF RedoHeader
<1> QED
  BY <1>1, <1>2, <1>3, <1>4

LEMMA RedoHeaderSteady ==
  ASSUME Steady, RedoHeader
  PROVE  Steady'
<1> DEFINE p == clog[redo].page[1]
           n == clog[redo].page[2]
<1>1. /\ redo \in 1..Len(clog) /\ redo + 1 \in 0..(Len(clog) + 1) /\ redo > 0 /\ p \in Pools /\ n \in PageNums
      /\ \A t \in Threads : th[t].pc = "idle"
  BY Redoes, RedoHeaderDoes
<1>2. /\ DOMAIN frames' = DOMAIN frames
      /\ \A j \in DOMAIN frames : frames'[j] \in FrameT /\ frames'[j].pin = frames[j].pin
  <2>1. \A j \in DOMAIN frames : frames[j] \in FrameT
    BY DEF Steady, Typed
  <2>2. PICK d \in BOOLEAN : frames' = frames \/ frames' = [frames EXCEPT ![Header(p)].dirty = @ \/ d]
    BY RedoHeaderDoes
  <2> QED
    BY <2>1, <2>2 DEF FrameT
<1>3. header' \in [Pools -> HeaderT] /\ failed' \in BOOLEAN
  <2>1. header \in [Pools -> HeaderT] /\ header[p] \in HeaderT /\ redo \in Nat /\ failed \in BOOLEAN
    BY <1>1 DEF Steady, Typed
  <2>2. \/ header' = header \/ header' = [header EXCEPT ![p] = RedoAllocate(header[p], redo, n)]
        \/ header' = [header EXCEPT ![p] = RedoDeallocate(header[p], redo, n)]
    BY RedoHeaderDoes
  <2>3. failed' \in BOOLEAN
    BY <2>1, RedoHeaderDoes
  <2> QED
    BY <1>1, <2>1, <2>2, <2>3, RedoHeaderTyped
<1>4. Typed'
  BY <1>1, <1>2, <1>3, RedoHeaderDoes DEF Steady, Typed, locks, files, logs
<1>5. UNCHANGED <<locks, opened, th>> /\ redo' = redo + 1
  BY RedoHeaderDoes
<1>6. \A u \in Threads : Sound(u)'
  BY <1>1, <1>2, <1>5 DEF Steady, ThreadInv, Sound, Job1, Owner, At, locks
<1>7. SyncAlone' /\ HeaderFrames'
  BY <1>2, <1>5 DEF SyncAlone, HeaderFrames, At, Steady, ThreadInv
<1> QED
  BY <1>4, <1>6, <1>7 DEF Steady, ThreadInv

LEMMA RedoChangeSteady ==
  ASSUME Steady, RedoChange
  PROVE  Steady'
<1> DEFINE k == clog[redo].page
           old == IF k \in DOMAIN frames THEN frames[k] ELSE [pin |-> 0, dirty |-> FALSE, lsn |-> disk[k]]
           new == IF old.lsn >= redo THEN old ELSE [old EXCEPT !.dirty = TRUE, !.lsn = redo]
<1>1. /\ redo \in 1..Len(clog) /\ redo + 1 \in 0..(Len(clog) + 1) /\ redo > 0 /\ k \in Pages /\ k[1] \in Pools
      /\ \A t \in Threads : th[t].pc = "idle"
  BY Redoes DEF RedoChange
<1>2. UNCHANGED <<locks, opened, th>> /\ redo' = redo + 1
  BY DEF RedoChange
<1>3. old \in FrameT /\ new \in FrameT /\ new.pin = old.pin /\ old.pin \in Int
  <2>1. frames[k] \in FrameT \/ k \notin DOMAIN frames
    BY DEF Steady, Typed
  <2>2. [pin |-> 0, dirty |-> FALSE, lsn |-> disk[k]] \in FrameT
    BY <1>1 DEF Steady, Typed, FrameT
  <2>3. old \in FrameT
    BY <2>1, <2>2
  <2>4. redo \in Int
    BY <1>1
  <2> HIDE DEF old
  <2> QED
    BY <2>3, <2>4 DEF FrameT
<1>4. \/ UNCHANGED frames
      \/ k[1] \in opened /\ frames' = With(k, new)
  BY DEF RedoChange
<1>5. /\ \A j \in DOMAIN frames : j \in DOMAIN frames' /\ frames'[j].pin = frames[j].pin
      /\ \A j \in DOMAIN frames' : frames'[j] \in FrameT /\ (j \in DOMAIN frames \/ (j = k /\ k[1] \in opened))
  <2>1. \A j \in DOMAIN frames : frames[j] \in FrameT
    BY DEF Steady, Typed
  <2>2. CASE UNCHANGED frames
    BY <2>1, <2>2
  <2>3. CASE k[1] \in opened /\ frames' = With(k, new)
    <3>1. k \in DOMAIN frames => new.pin = frames[k].pin
      BY <1>3
    <3> HIDE DEF new
    <3>2. /\ DOMAIN frames' = DOMAIN frames \cup {k} /\ frames'[k] = new
          /\ \A j \in DOMAIN frames : j # k => frames'[j] = frames[j]
      BY <2>3, WithIs
    <3> QED
      BY <1>3, <2>1, <2>3, <3>1, <3>2
  <2> QED
    BY <1>4, <2>2, <2>3
<1>6. Typed'
  BY <1>1, <1>5 DEF RedoChange, Steady, Typed, locks, files, logs
<1>7. \A u \in Threads : Sound(u)'
  BY <1>1, <1>2 DEF Steady, ThreadInv, Sound, Job1, Owner, At, locks, Evicting
<1>8. SyncAlone'
  BY <1>2 DEF SyncAlone, At, Steady, ThreadInv
<1>9. HeaderFrames'
  <2>1. \A p \in opened : Header(p) \in DOMAIN frames
    BY DEF Steady, ThreadInv, HeaderFrames
  <2>2. \A j \in DOMAIN frames' : j \in DOMAIN frames \/ (j[1] \in opened /\ j[2] # 0)
    <3>1. k[1] \in opened /\ k[2] = 0 => k \in DOMAIN frames
      BY <1>1, <2>1, PageIs DEF Header
    <3> QED
      BY <1>5, <3>1
  <2> QED
    BY <1>2, <1>5, <2>2 DEF Steady, ThreadInv, HeaderFrames, At
<1> QED
  BY <1>6, <1>7, <1>8, <1>9 DEF Steady, ThreadInv

LEMMA RedoEvictSteady ==
  ASSUME Steady, NEW v \in Pages, RedoEvict(v)
  PROVE  Steady'
<1>1. /\ redo > 0 /\ \A t \in Threads : th[t].pc = "idle"
  BY Redoes DEF RedoEvict
<1>2. UNCHANGED <<locks, opened, th, redo>> /\ v \in DOMAIN frames /\ v[2] # 0
  BY HeaderPinned DEF RedoEvict, runs
<1>3. DOMAIN frames' = DOMAIN frames \ {v} /\ \A j \in DOMAIN frames' : frames'[j] = frames[j]
  BY WithoutIs DEF RedoEvict
<1>4. Typed'
  <2>1. disk' \in [Pages -> Int]
    BY <1>2 DEF RedoEvict, Steady, Typed, FrameT
  <2> QED
    BY <1>3, <2>1 DEF RedoEvict, Steady, Typed, locks, logs, runs
<1>5. \A u \in Threads : Sound(u)'
  BY <1>1, <1>2 DEF Steady, ThreadInv, Sound, Job1, Owner, At, locks, Evicting
<1>6. SyncAlone'
  BY <1>2 DEF SyncAlone, At, Steady, ThreadInv
<1>7. HeaderFrames'
  BY <1>2, <1>3, PageIs DEF HeaderFrames, At, Steady, ThreadInv, Typed
<1> QED
  BY <1>4, <1>5, <1>6, <1>7 DEF Steady, ThreadInv

LEMMA InitSteady ==
  ASSUME Init
  PROVE  Steady
<1>1. \A k \in DOMAIN frames : frames[k] = HeaderFrame /\ \E p \in opened : k = Header(p)
  BY DEF Init
<1>2. opened \subseteq Pools
  BY BufferPoolAssumption DEF Init
<1>3. Typed
  <2>1. DOMAIN frames \subseteq Pages /\ \A k \in DOMAIN frames : frames[k] \in FrameT
    BY <1>1, <1>2, PageIs, NewHeaderIs
  <2>2. header \in [Pools -> HeaderT]
    BY NewHeaderIs DEF Init
  <2>3. clog \in Seq(BufferPoolLogEntry) /\ Len(clog) = 0
    BY DEF Init
  <2>4. th \in [Threads -> Job]
    BY IdleIs DEF Init
  <2>5. fm_lock \in Owners /\ bpm_lock \in Owners /\ pool_lock \in [Pools -> Owners]
    BY DEF Init, Owners
  <2>6. disk \in [Pages -> Int] /\ newest \in [Pages -> Int] /\ disk_header \in [Pools -> HeaderT]
    BY <2>2 DEF Init, Unwritten
  <2>7. flushed \in 0..Len(clog) /\ restarts \in Nat /\ redo \in 0..(Len(clog) + 1)
    BY <2>3 DEF Init
  <2>8. failed \in BOOLEAN
    BY DEF Init
  <2> QED
    BY <1>2, <2>1, <2>2, <2>3, <2>4, <2>5, <2>6, <2>7, <2>8 DEF Typed
<1>4. HeaderFrames
  <2>1. \A p \in opened : Header(p) \in DOMAIN frames
    BY DEF Init
  <2>2. \A k \in DOMAIN frames : k[2] = 0 /\ frames[k].pin >= 1 /\ k[1] \in opened
    BY <1>1, <1>2, PageIs, NewHeaderIs
  <2> QED
    BY <2>1, <2>2 DEF HeaderFrames
<1>5. \A t \in Threads : th[t] = Idle /\ fm_lock = None /\ \A p \in Pools : pool_lock[p] = None
  BY DEF Init
<1>6. \A t \in Threads : Job1(t)
  BY <1>5, IdleIs DEF Job1, At, Fetching, Evicting, Init
<1>7. \A t \in Threads : Owner(t)
  BY <1>5, IdleIs, PageIs DEF Owner, At, Fetching, Evicting
<1>8. SyncAlone
  BY <1>5, IdleIs DEF SyncAlone, At
<1> QED
  BY <1>3, <1>4, <1>6, <1>7, <1>8 DEF Steady, ThreadInv, Sound

-----------------------------------------------------------------------------
(* No page and no header runs ahead of the log.                             *)
LEMMA WalStep ==
  ASSUME Steady, WalInv, Steady', flushed' >= flushed, Len(clog') >= Len(clog), redo' > 0 => flushed' = Len(clog'),
         \A k \in DOMAIN frames' : (k \in DOMAIN frames /\ frames'[k].lsn = frames[k].lsn) \/ frames'[k].lsn <= Len(clog'),
         \A p \in Pools : header'[p].lsn = header[p].lsn \/ header'[p].lsn <= Len(clog'),
         \A k \in Pages : disk'[k] = disk[k] \/ disk'[k] <= flushed',
         \A p \in Pools : disk_header'[p].lsn = disk_header[p].lsn \/ disk_header'[p].lsn <= flushed'
  PROVE  WalInv'
<1>0. Typed /\ Typed'
  BY DEF Steady
<1>1. /\ flushed \in Int /\ flushed' \in Int /\ Len(clog) \in Int /\ Len(clog') \in Int
      /\ \A k \in DOMAIN frames : frames[k].lsn \in Int
      /\ \A p \in Pools : header[p].lsn \in Int /\ disk_header[p].lsn \in Int
      /\ \A k \in Pages : disk[k] \in Int
  <2>1. flushed' \in Int /\ Len(clog') \in Int
    BY <1>0 DEF Typed
  <2>2. /\ flushed \in Int /\ Len(clog) \in Int /\ \A k \in Pages : disk[k] \in Int
    BY <1>0 DEF Typed
  <2>3. \A k \in DOMAIN frames : frames[k].lsn \in Int
    <3>1. \A k \in DOMAIN frames : frames[k] \in FrameT
      BY <1>0 DEF Typed
    <3> QED
      BY <3>1 DEF FrameT
  <2>4. \A p \in Pools : header[p].lsn \in Int /\ disk_header[p].lsn \in Int
    <3>1. \A p \in Pools : header[p] \in HeaderT /\ disk_header[p] \in HeaderT
      BY <1>0 DEF Typed
    <3> QED
      BY <3>1 DEF HeaderT
  <2> QED
    BY <2>1, <2>2, <2>3, <2>4
<1>2. \A k \in DOMAIN frames' : frames'[k].lsn <= Len(clog')
  BY <1>1 DEF WalInv
<1>3. \A p \in Pools : header'[p].lsn <= Len(clog')
  BY <1>1 DEF WalInv
<1>4. (\A k \in Pages : disk'[k] <= flushed') /\ \A p \in Pools : disk_header'[p].lsn <= flushed'
  BY <1>1 DEF WalInv, WriteAhead
<1> QED
  BY <1>2, <1>3, <1>4 DEF WalInv, WriteAhead

\* A step that writes nothing and logs nothing.
LEMMA WalFrames ==
  ASSUME Steady, WalInv, Steady', redo' = redo, UNCHANGED <<header, files, logs>>,
         \A k \in DOMAIN frames' : (k \in DOMAIN frames /\ frames'[k].lsn = frames[k].lsn) \/ frames'[k].lsn <= Len(clog')
  PROVE  WalInv'
<1>1. flushed' >= flushed /\ Len(clog') >= Len(clog) /\ (redo' > 0 => flushed' = Len(clog'))
  BY DEF logs, Steady, Typed, WalInv
<1> QED
  BY <1>1, WalStep DEF files

LEMMA WalThread ==
  ASSUME Steady, WalInv, Steady', redo = 0, NEW t \in Threads, ThreadStep(t)
  PROVE  WalInv'
<1> DEFINE SameLsn == \A k \in DOMAIN frames' : k \in DOMAIN frames /\ frames'[k].lsn = frames[k].lsn
<1>1. /\ flushed \in Int /\ Len(clog) \in Nat /\ flushed <= Len(clog) /\ NextLsn = Len(clog) + 1
      /\ \A k \in DOMAIN frames : frames[k] \in FrameT /\ frames[k].lsn \in Int /\ frames[k].lsn <= Len(clog)
  BY DEF Steady, Typed, FrameT, WalInv, NextLsn
<1>2. CASE \E k \in Pages : Lookup(t, k)
  <2>1. PICK k \in Pages : Lookup(t, k)
    BY <1>2
  <2>2. SameLsn /\ UNCHANGED <<header, files, logs, redo>>
    BY <2>1, PinnedIs DEF Lookup, Steady, runs
  <2> QED
    BY <2>2, WalFrames
<1>3. CASE \E k \in Pages : SyncFlush(t, k)
  <2>1. PICK k \in Pages : SyncFlush(t, k)
    BY <1>3
  <2>2. SameLsn /\ UNCHANGED <<header, logs, redo>> /\ k \in DOMAIN frames /\ flushed >= LsnOf(k)
    BY <2>1, <1>1 DEF SyncFlush, FrameT, runs
  <2>3. \A j \in Pages : disk'[j] = disk[j] \/ disk'[j] <= flushed'
    BY <1>1, <2>1, <2>2 DEF SyncFlush, LsnOf, Steady, Typed, logs
  <2>4. \A p \in Pools : disk_header'[p].lsn = disk_header[p].lsn \/ disk_header'[p].lsn <= flushed'
    BY <1>1, <2>1, <2>2, PageIs DEF SyncFlush, LsnOf, Steady, Typed, HeaderT, logs
  <2> QED
    BY <1>1, <2>2, <2>3, <2>4, WalStep DEF logs
<1>4. CASE LockPool(t) \/ EvictManager(t) \/ EvictOther(t) \/ DisposeLock(t) \/ Sync(t) \/ SyncDone(t)
  <2>1. UNCHANGED <<frames, header, files, logs, redo>>
    BY <1>4 DEF LockPool, EvictManager, EvictOther, DisposeLock, Sync, SyncDone, runs
  <2> QED
    BY <2>1, WalFrames
<1>5. CASE Alloc(t)
  <2>0. UNCHANGED <<header, files, logs, redo>>
    BY <1>5 DEF Alloc, runs
  <2>1. CASE frames' = Pinned(th[t].page, 1)
    BY <2>0, <2>1, PinnedIs, WalFrames DEF Steady
  <2>2. CASE frames' = With(th[t].page, [pin |-> 1, dirty |-> FALSE, lsn |-> Unwritten])
    <3>1. \A k \in DOMAIN frames' : (k \in DOMAIN frames /\ frames'[k].lsn = frames[k].lsn) \/ frames'[k].lsn = Unwritten
      BY <2>2 DEF With
    <3> QED
      BY <1>1, <2>0, <3>1, WalFrames DEF Unwritten, logs
  <2>3. CASE UNCHANGED frames
    BY <2>0, <2>3, WalFrames
  <2> QED
    BY <1>5, <2>1, <2>2, <2>3 DEF Alloc
<1>6. CASE Purge(t)
  <2>1. UNCHANGED <<header, files, logs, redo>>
    BY <1>6 DEF Purge, runs
  <2>2. frames' = frames \/ \E k \in DOMAIN frames : frames' = Without(k) \/ frames' = Pinned(k, 1)
    BY <1>6 DEF Purge
  <2>3. SameLsn
    <3>1. CASE frames' = frames
      BY <3>1
    <3>2. ASSUME NEW k \in DOMAIN frames, frames' = Without(k) PROVE SameLsn
      BY <3>2, WithoutIs
    <3>3. ASSUME NEW k \in DOMAIN frames, frames' = Pinned(k, 1) PROVE SameLsn
      BY <3>3, PinnedIs DEF Steady
    <3> QED
      BY <2>2, <3>1, <3>2, <3>3
  <2> QED
    BY <2>1, <2>3, WalFrames
<1>7. CASE EvictFlush(t)
  <2>1. th[t].victim \in DOMAIN frames
    BY <1>7, Has DEF EvictFlush, At, Evicting, Job1
  <2>2. SameLsn /\ UNCHANGED <<header, disk_header, logs, redo>>
    BY <1>7, WithoutIs DEF EvictFlush, runs
  <2>3. \A j \in Pages : disk'[j] = disk[j] \/ disk'[j] <= flushed'
    BY <1>1, <1>7, <2>1, <2>2 DEF EvictFlush, Steady, Typed, logs
  <2> QED
    BY <1>1, <2>2, <2>3, WalStep DEF logs
<1>8. CASE Load(t)
  <2>0. th[t].page \in Pages
    BY <1>8, Has DEF Load
  <2>1. UNCHANGED <<header, files, logs, redo>>
    BY <1>8 DEF Load, runs
  <2>2. CASE frames' = [frames EXCEPT ![th[t].page].lsn = disk[th[t].page]]
    <3>1. disk[th[t].page] <= flushed /\ disk[th[t].page] \in Int
      BY <2>0 DEF WalInv, WriteAhead, Steady, Typed
    <3>2. \A k \in DOMAIN frames' : k \in DOMAIN frames /\ (frames'[k].lsn = frames[k].lsn \/ frames'[k].lsn = disk[th[t].page])
      BY <1>1, <2>2 DEF FrameT
    <3> QED
      BY <1>1, <2>1, <3>1, <3>2, WalFrames DEF logs
  <2>3. CASE frames' = frames \/ frames' = Without(th[t].page)
    BY <2>1, <2>3, WithoutIs, WalFrames
  <2> QED
    BY <1>8, <2>2, <2>3 DEF Load
<1>9. CASE Change(t)
  <2>0. th[t].page \in Pages
    BY <1>9, Has DEF Change
  <2>1. Len(clog') = Len(clog) + 1
    BY <1>9, <2>0, AppendIs DEF Change, Steady
  <2>2. UNCHANGED <<header, files, flushed, redo>>
    BY <1>9 DEF Change, runs
  <2>3. \A k \in DOMAIN frames' : k \in DOMAIN frames /\ (frames'[k].lsn = frames[k].lsn \/ frames'[k].lsn = NextLsn)
    <3>1. frames' = [frames EXCEPT ![th[t].page].lsn = NextLsn, ![th[t].page].dirty = TRUE]
      BY <1>9 DEF Change
    <3> QED
      BY <1>1, <3>1 DEF FrameT
  <2> QED
    BY <1>1, <2>1, <2>2, <2>3, WalStep DEF files
<1>10. CASE Unpin(t) \/ DisposeUnpin(t)
  <2>1. UNCHANGED <<header, files, logs, redo>> /\ frames' = Pinned(th[t].page, -1)
    BY <1>10 DEF Unpin, DisposeUnpin, runs
  <2>2. SameLsn
    BY <2>1, PinnedIs DEF Steady
  <2> QED
    BY <2>1, <2>2, WalFrames
<1>11. CASE \E p \in Pools : AllocateFree(t, p)
  <2>1. PICK p \in Pools : AllocateFree(t, p)
    BY <1>11
  <2>2. /\ UNCHANGED <<files, flushed, redo>> /\ Len(clog') = Len(clog) + 1
    BY <1>1, <2>1 DEF AllocateFree, AppendLog, runs, Steady, Typed
  <2>3. SameLsn
    BY <1>1, <2>1 DEF AllocateFree, FrameT
  <2>4. \A q \in Pools : header'[q].lsn = header[q].lsn \/ header'[q].lsn = NextLsn
    BY <2>1 DEF AllocateFree, Steady, Typed, HeaderT
  <2> QED
    BY <1>1, <2>2, <2>3, <2>4, WalStep DEF files
<1>12. CASE \E p \in Pools : AllocateNew(t, p)
  <2>1. PICK p \in Pools : AllocateNew(t, p)
    BY <1>12
  <2>2. /\ UNCHANGED <<frames, files, flushed, redo>> /\ Len(clog') = Len(clog) + 1
    BY <1>1, <2>1 DEF AllocateNew, AppendLog, runs, Steady, Typed
  <2>3. \A q \in Pools : header'[q].lsn = header[q].lsn \/ header'[q].lsn = NextLsn
    BY <2>1 DEF AllocateNew, Steady, Typed, HeaderT
  <2> QED
    BY <1>1, <2>2, <2>3, WalStep DEF files
<1>13. CASE \E p \in Pools : OpenFile(t, p)
  <2>1. PICK p \in Pools : OpenFile(t, p)
    BY <1>13
  <2>2. UNCHANGED <<frames, header, disk, logs, redo>>
    BY <2>1 DEF OpenFile, runs
  <2>3. \A q \in Pools : disk_header'[q].lsn = disk_header[q].lsn \/ disk_header'[q].lsn = 0
    BY <2>1, NewHeaderIs DEF OpenFile, Steady, Typed
  <2>4. 0 <= flushed
    BY DEF Steady, Typed
  <2> QED
    BY <1>1, <2>2, <2>3, <2>4, WalStep DEF logs
<1>14. CASE AllocateNewDone(t)
  <2>0. th[t].page \in Pages /\ th[t].page[2] # 0
    BY <1>14, Has DEF AllocateNewDone, Job1
  <2>1. UNCHANGED <<disk_header, logs, redo>>
    BY <1>14 DEF AllocateNewDone, runs
  <2>2. \A k \in DOMAIN frames' : k \in DOMAIN frames /\ (frames'[k].lsn = frames[k].lsn \/ frames'[k].lsn = 0)
    BY <1>14, <2>0, DoneFrames DEF Steady
  <2>3. \A q \in Pools : header'[q].lsn = header[q].lsn
    <3> DEFINE p == th[t].page[1]
               nh == [header[p] EXCEPT !.allocated_pages = @ + 1, !.page_count = @ + 1, !.bits = @ \cup {th[t].page[2]}]
    <3>1. header' = [header EXCEPT ![p] = nh] /\ header[p] \in HeaderT /\ header \in [Pools -> HeaderT]
      BY <1>14, <2>0, LargerIs DEF Steady, Typed
    <3>2. nh.lsn = header[p].lsn
      BY <3>1 DEF HeaderT
    <3> HIDE DEF nh
    <3> QED
      BY <3>1, <3>2
  <2>4. \A j \in Pages : disk'[j] = disk[j] \/ disk'[j] = 0
    BY <1>14 DEF AllocateNewDone, WithHoles
  <2>5. 0 <= flushed
    BY DEF Steady, Typed
  <2> QED
    BY <1>1, <2>1, <2>2, <2>3, <2>4, <2>5, WalStep DEF logs
<1>15. CASE OpenFileDone(t)
  <2>0. th[t].page \in Pages /\ PoolOf(t) \in Pools
    BY <1>15, Has DEF OpenFileDone, PoolOf
  <2>1. UNCHANGED <<files, logs, redo>>
    BY <1>15 DEF OpenFileDone, runs
  <2>2. \A k \in DOMAIN frames' : k \in DOMAIN frames /\ (frames'[k].lsn = frames[k].lsn \/ frames'[k].lsn = 0)
    BY <1>1, <1>15 DEF OpenFileDone, FrameT
  <2>3. \A q \in Pools : header'[q].lsn = header[q].lsn \/ header'[q].lsn <= Len(clog')
    <3>1. disk_header[PoolOf(t)].lsn <= flushed /\ disk_header[PoolOf(t)].lsn \in Int
      BY <2>0 DEF WalInv, WriteAhead, Steady, Typed, HeaderT
    <3>2. \A q \in Pools : header'[q] = header[q] \/ header'[q] = disk_header[PoolOf(t)]
      BY <1>15 DEF OpenFileDone, Steady, Typed
    <3> QED
      BY <1>1, <2>1, <3>1, <3>2 DEF logs
  <2> QED
    BY <1>1, <2>1, <2>2, <2>3, WalStep DEF files, logs
<1>16. CASE Dispose(t)
  <2>0. th[t].page \in Pages /\ th[t].page[1] \in Pools
    BY <1>16, Has DEF Dispose
  <2>1. UNCHANGED <<files, flushed, redo>> /\ Len(clog') = Len(clog) + 1
    BY <1>16, <2>0, AppendIs DEF Dispose, runs, Steady
  <2>2. SameLsn
    <3>1. frames' = [Without(th[t].page) EXCEPT ![Header(th[t].page[1])].dirty = TRUE]
      BY <1>16 DEF Dispose
    <3>2. \A j \in DOMAIN Without(th[t].page) : j \in DOMAIN frames /\ Without(th[t].page)[j] \in FrameT /\ Without(th[t].page)[j] = frames[j]
      BY <1>1 DEF Without
    <3> QED
      BY <3>1, <3>2 DEF FrameT
  <2>3. \A q \in Pools : header'[q].lsn = header[q].lsn \/ header'[q].lsn = NextLsn
    <3>1. header' = [header EXCEPT ![th[t].page[1]] = [header[th[t].page[1]] EXCEPT
                                     !.allocated_pages = @ - 1, !.bits = @ \ {th[t].page[2]}, !.lsn = NextLsn]]
      BY <1>16 DEF Dispose
    <3>2. header \in [Pools -> HeaderT]
      BY DEF Steady, Typed
    <3>3. \A q \in Pools : q # th[t].page[1] => header'[q] = header[q]
      BY <3>1, <3>2
    <3>4. header'[th[t].page[1]] = [header[th[t].page[1]] EXCEPT !.allocated_pages = @ - 1, !.bits = @ \ {th[t].page[2]}, !.lsn = NextLsn]
      BY <2>0, <3>1, <3>2
    <3>5. header[th[t].page[1]] \in HeaderT
      BY <2>0, <3>2
    <3>6. header'[th[t].page[1]].lsn = NextLsn
      BY <3>4, <3>5 DEF HeaderT
    <3> QED
      BY <3>3, <3>6
  <2> QED
    BY <1>1, <2>1, <2>2, <2>3, WalStep DEF files
<1> QED
  BY <1>2, <1>3, <1>4, <1>5, <1>6, <1>7, <1>8, <1>9, <1>10, <1>11, <1>12, <1>13, <1>14, <1>15, <1>16 DEF ThreadStep

LEMMA WalOther ==
  ASSUME Steady, WalInv, Steady',
         LogFlush \/ Crash \/ RedoHeader \/ RedoChange \/ RedoDone \/ (\E v \in Pages : RedoEvict(v)) \/ UNCHANGED vars
  PROVE  WalInv'
<1>1. /\ flushed \in Nat /\ Len(clog) \in Nat /\ flushed <= Len(clog) /\ redo \in Nat
      /\ \A k \in DOMAIN frames : frames[k] \in FrameT /\ frames[k].lsn \in Int /\ frames[k].lsn <= Len(clog)
      /\ redo > 0 => flushed = Len(clog)
  <2>1. flushed \in Nat /\ Len(clog) \in Nat /\ flushed <= Len(clog) /\ redo \in Nat
    BY DEF Steady, Typed
  <2>2. \A k \in DOMAIN frames : frames[k] \in FrameT
    BY DEF Steady, Typed
  <2> QED
    BY <2>1, <2>2 DEF FrameT, WalInv
<1>2. CASE LogFlush
  <2>1. UNCHANGED <<frames, header, files, clog, redo>> /\ flushed' = flushed + 1 /\ flushed < Len(clog)
    BY <1>2 DEF LogFlush, runs
  <2> QED
    BY <1>1, <2>1, WalStep DEF files
<1>3. CASE Crash
  <2>1. /\ redo' = 1 /\ clog' = SubSeq(clog, 1, flushed) /\ header' = disk_header /\ UNCHANGED <<files, flushed>>
        /\ \A k \in DOMAIN frames' : frames'[k] = HeaderFrame
    BY <1>3 DEF Crash
  <2>2. Len(clog') = flushed
    BY <1>1, <2>1 DEF Steady, Typed
  <2> QED
    BY <1>1, <2>1, <2>2, NewHeaderIs DEF WalInv, WriteAhead, files
<1>4. CASE RedoHeader
  <2> DEFINE p == clog[redo].page[1]
             n == clog[redo].page[2]
  <2>0. redo \in 1..Len(clog) /\ p \in Pools /\ n \in PageNums
    BY <1>4, Redoes, RedoHeaderDoes
  <2>1. UNCHANGED <<files, logs>> /\ flushed = Len(clog)
    BY <1>1, <1>4, <2>0, RedoHeaderDoes
  <2>2. \A k \in DOMAIN frames' : k \in DOMAIN frames /\ frames'[k].lsn = frames[k].lsn
    <3>1. PICK d \in BOOLEAN : frames' = frames \/ frames' = [frames EXCEPT ![Header(p)].dirty = @ \/ d]
      BY <1>4, RedoHeaderDoes
    <3> QED
      BY <1>1, <3>1 DEF FrameT
  <2>3. \A q \in Pools : header'[q].lsn = header[q].lsn \/ header'[q].lsn <= Len(clog')
    <3>1. header \in [Pools -> HeaderT] /\ header[p] \in HeaderT
      BY <2>0 DEF Steady, Typed
    <3>2. RedoAllocate(header[p], redo, n).lsn \in {header[p].lsn, redo} /\ RedoDeallocate(header[p], redo, n).lsn \in {header[p].lsn, redo}
      BY <3>1 DEF RedoAllocate, RedoDeallocate, HeaderT
    <3>3. \/ header' = header \/ header' = [header EXCEPT ![p] = RedoAllocate(header[p], redo, n)]
          \/ header' = [header EXCEPT ![p] = RedoDeallocate(header[p], redo, n)]
      BY <1>4, RedoHeaderDoes
    <3> QED
      BY <2>0, <2>1, <3>1, <3>2, <3>3 DEF logs
  <2> QED
    BY <1>1, <2>1, <2>2, <2>3, WalStep DEF files, logs
<1>5. CASE RedoChange
  <2> DEFINE k == clog[redo].page
             old == IF k \in DOMAIN frames THEN frames[k] ELSE [pin |-> 0, dirty |-> FALSE, lsn |-> disk[k]]
             new == IF old.lsn >= redo THEN old ELSE [old EXCEPT !.dirty = TRUE, !.lsn = redo]
  <2>0. redo \in 1..Len(clog) /\ k \in Pages
    BY <1>5, Redoes DEF RedoChange
  <2>1. UNCHANGED <<header, files, logs>> /\ flushed = Len(clog)
    BY <1>1, <1>5, <2>0 DEF RedoChange
  <2>2. old.lsn <= Len(clog) /\ old.lsn \in Int /\ old \in FrameT
    <3>1. disk[k] <= flushed /\ disk[k] \in Int
      BY <2>0 DEF WalInv, WriteAhead, Steady, Typed
    <3>2. CASE k \in DOMAIN frames
      BY <1>1, <3>2
    <3>3. CASE k \notin DOMAIN frames
      BY <1>1, <2>1, <3>1, <3>3 DEF FrameT
    <3> QED
      BY <3>2, <3>3
  <2>3. new.lsn <= Len(clog)
    <3> HIDE DEF old
    <3> QED
      BY <1>1, <2>0, <2>2 DEF FrameT
  <2>4. frames' = frames \/ frames' = With(k, new)
    BY <1>5 DEF RedoChange
  <2> HIDE DEF new, k
  <2>5. \A j \in DOMAIN frames' : (j \in DOMAIN frames /\ frames'[j].lsn = frames[j].lsn) \/ frames'[j].lsn <= Len(clog')
    BY <2>1, <2>3, <2>4, WithIs DEF logs
  <2> QED
    BY <1>1, <2>1, <2>5, WalStep DEF files, logs
<1>6. CASE RedoDone
  <2>1. UNCHANGED <<frames, header, files, logs>> /\ redo' = 0
    BY <1>6 DEF RedoDone
  <2> QED
    BY <1>1, <2>1, WalStep DEF files, logs
<1>7. ASSUME NEW v \in Pages, RedoEvict(v) PROVE WalInv'
  <2>0. redo > 0 /\ v \in DOMAIN frames
    BY <1>7, Redoes DEF RedoEvict
  <2>1. UNCHANGED <<header, disk_header, logs, redo>> /\ frames' = Without(v) /\ flushed = Len(clog)
    BY <1>1, <1>7, <2>0 DEF RedoEvict, runs
  <2>2. \A j \in Pages : disk'[j] = disk[j] \/ disk'[j] <= flushed'
    BY <1>1, <1>7, <2>0, <2>1 DEF RedoEvict, Steady, Typed, logs
  <2>3. \A j \in DOMAIN frames' : j \in DOMAIN frames /\ frames'[j].lsn = frames[j].lsn
    BY <2>1, WithoutIs
  <2> QED
    BY <1>1, <2>0, <2>1, <2>2, <2>3, WalStep DEF logs
<1>8. CASE UNCHANGED vars
  BY <1>8, WalFrames DEF vars, runs
<1> QED
  BY <1>2, <1>3, <1>4, <1>5, <1>6, <1>7, <1>8

LEMMA InitWal ==
  ASSUME Init PROVE WalInv
<1>1. \A k \in DOMAIN frames : frames[k] = HeaderFrame
  BY DEF Init
<1>2. \A p \in Pools : header[p].lsn = 0 /\ disk_header[p].lsn = 0
  BY NewHeaderIs DEF Init
<1>3. Len(clog) = 0 /\ flushed = 0 /\ redo = 0 /\ \A k \in Pages : disk[k] = -1
  BY DEF Init, Unwritten
<1> QED
  BY <1>1, <1>2, <1>3, NewHeaderIs DEF WalInv, WriteAhead

-----------------------------------------------------------------------------
(* What an entry adds to the allocations that a log tells of.               *)
LEMMA SamePrefix ==
  ASSUME NEW L, NEW K, NEW m \in Nat, \A i \in 1..m : L[i] = K[i], NEW p, NEW n
  PROVE  /\ Allocated(L, p, n, m) <=> Allocated(K, p, n, m)
         /\ Extended(L, p, n, m) <=> Extended(K, p, n, m)
<1>1. \A i \in 1..m : /\ Allocates(L, i, p, n) <=> Allocates(K, i, p, n)
                      /\ \A j \in (i + 1)..m : About(L, j, p, n) <=> About(K, j, p, n)
  BY DEF Allocates, About
<1> QED
  BY <1>1 DEF Allocated, Extended

LEMMA SameGood ==
  ASSUME NEW L, NEW K, NEW m \in Nat, \A i \in 1..m : L[i] = K[i], NEW p, NEW h, h.lsn \in Nat, Good(L, h, p, m)
  PROVE  Good(K, h, p, m)
<1>1. \A n \in PageNums : /\ Allocated(L, p, n, m) <=> Allocated(K, p, n, m)
                          /\ Extended(L, p, n, m) <=> Extended(K, p, n, m)
  BY SamePrefix
<1>2. AsOf(K, h, p, m)
  BY <1>1 DEF Good, AsOf
<1>3. \A i \in (h.lsn + 1)..m : L[i] = K[i]
  OBVIOUS
<1> QED
  BY <1>2, <1>3 DEF Good

LEMMA SamePossible ==
  ASSUME NEW L, NEW K, NEW i \in Nat \ {0}, \A j \in 1..i : L[j] = K[j], NEW p, NEW n \in Nat, Possible(L, i, p, n)
  PROVE  Possible(K, i, p, n)
<1>1. L[i] = K[i] /\ i - 1 \in Nat /\ \A j \in 1..(i - 1) : L[j] = K[j]
  OBVIOUS
<1>2. \A q : /\ Allocated(L, p, q, i - 1) <=> Allocated(K, p, q, i - 1)
             /\ Extended(L, p, q, i - 1) <=> Extended(K, p, q, i - 1)
  BY <1>1, SamePrefix
<1> QED
  BY <1>1, <1>2 DEF Possible

\* Nothing about page n of pool p between entries a and b.
LEMMA SameBetween ==
  ASSUME NEW L, NEW a \in Nat, NEW b \in Nat, a <= b, NEW p, NEW n,
         \A i \in (a + 1)..b : ~ About(L, i, p, n)
  PROVE  /\ Allocated(L, p, n, a) <=> Allocated(L, p, n, b)
         /\ Extended(L, p, n, a) <=> Extended(L, p, n, b)
<1>1. \A i \in 1..b : Allocates(L, i, p, n) => i \in 1..a
  BY DEF Allocates, About
<1>2. Extended(L, p, n, a) <=> Extended(L, p, n, b)
  BY <1>1 DEF Extended
<1>3. ASSUME Allocated(L, p, n, a) PROVE Allocated(L, p, n, b)
  <2>1. PICK i \in 1..a : Allocates(L, i, p, n) /\ \A j \in (i + 1)..a : ~ About(L, j, p, n)
    BY <1>3 DEF Allocated
  <2>2. i \in 1..b /\ \A j \in (i + 1)..b : ~ About(L, j, p, n)
    BY <2>1
  <2> QED
    BY <2>1, <2>2 DEF Allocated
<1>4. ASSUME Allocated(L, p, n, b) PROVE Allocated(L, p, n, a)
  <2>1. PICK i \in 1..b : Allocates(L, i, p, n) /\ \A j \in (i + 1)..b : ~ About(L, j, p, n)
    BY <1>4 DEF Allocated
  <2>2. i \in 1..a /\ \A j \in (i + 1)..a : ~ About(L, j, p, n)
    BY <1>1, <2>1
  <2> QED
    BY <2>1, <2>2 DEF Allocated
<1> QED
  BY <1>2, <1>3, <1>4

\* No entry about the allocations of pool p.
Silent(L, a, b, p) == \A i \in (a + 1)..b : L[i].page[1] = p => L[i].op = "change"

LEMMA SilentPage ==
  ASSUME NEW L, NEW a \in Nat, NEW b \in Nat, a <= b, NEW p \in Pools, Silent(L, a, b, p), NEW n \in PageNums
  PROVE  /\ Allocated(L, p, n, a) <=> Allocated(L, p, n, b)
         /\ Extended(L, p, n, a) <=> Extended(L, p, n, b)
<1>1. <<p, n>>[1] = p
  OBVIOUS
<1>2. \A i \in (a + 1)..b : ~ About(L, i, p, n)
  BY <1>1 DEF Silent, About
<1> QED
  BY <1>2, SameBetween

LEMMA SilentAsOf ==
  ASSUME NEW L, NEW a \in Nat, NEW b \in Nat, a <= b, NEW p \in Pools, Silent(L, a, b, p), NEW h
  PROVE  AsOf(L, h, p, a) <=> AsOf(L, h, p, b)
<1>1. \A n \in PageNums : /\ Allocated(L, p, n, a) <=> Allocated(L, p, n, b)
                          /\ Extended(L, p, n, a) <=> Extended(L, p, n, b)
  BY SilentPage
<1>2. {n \in PageNums : Allocated(L, p, n, a)} = {n \in PageNums : Allocated(L, p, n, b)}
  BY <1>1
<1> QED
  BY <1>1, <1>2 DEF AsOf

LEMMA SilentGood ==
  ASSUME NEW L, NEW a \in Nat, NEW b \in Nat, a <= b, NEW p \in Pools, Silent(L, a, b, p), NEW h, h.lsn \in Nat
  PROVE  /\ Good(L, h, p, a) => Good(L, h, p, b)
         /\ Good(L, h, p, b) /\ h.lsn <= a => Good(L, h, p, a)
<1>1. AsOf(L, h, p, a) <=> AsOf(L, h, p, b)
  BY SilentAsOf
<1>2. ASSUME Good(L, h, p, a), NEW i \in (h.lsn + 1)..b, L[i].page[1] = p, L[i].op # "change"
      PROVE  i \in (h.lsn + 1)..a
  BY <1>2 DEF Silent
<1>3. Good(L, h, p, a) => Good(L, h, p, b)
  BY <1>1, <1>2 DEF Good
<1>4. Good(L, h, p, b) /\ h.lsn <= a => Good(L, h, p, a)
  BY <1>1 DEF Good
<1> QED
  BY <1>3, <1>4

\* An entry of its own changes only its page.
LEMMA EntryOther ==
  ASSUME NEW L, NEW m \in Nat, NEW p, NEW n, ~ About(L, m + 1, p, n)
  PROVE  /\ Allocated(L, p, n, m + 1) <=> Allocated(L, p, n, m)
         /\ Extended(L, p, n, m + 1) <=> Extended(L, p, n, m)
<1>1. \A i \in (m + 1)..(m + 1) : ~ About(L, i, p, n)
  OBVIOUS
<1> QED
  BY <1>1, SameBetween

LEMMA EntryOwn ==
  ASSUME NEW L, NEW m \in Nat, NEW p, NEW n, L[m + 1].page = <<p, n>>
  PROVE  /\ L[m + 1].op = "allocate" => Allocated(L, p, n, m + 1) /\ Extended(L, p, n, m + 1)
         /\ L[m + 1].op = "deallocate" => /\ ~ Allocated(L, p, n, m + 1)
                                          /\ Extended(L, p, n, m + 1) <=> Extended(L, p, n, m)
<1>1. m + 1 \in 1..(m + 1) /\ \A j \in (m + 2)..(m + 1) : FALSE
  OBVIOUS
<1>2. ASSUME L[m + 1].op = "allocate" PROVE Allocated(L, p, n, m + 1) /\ Extended(L, p, n, m + 1)
  BY <1>1, <1>2 DEF Allocated, Extended, Allocates
<1>3. ASSUME L[m + 1].op = "deallocate"
      PROVE  ~ Allocated(L, p, n, m + 1) /\ (Extended(L, p, n, m + 1) <=> Extended(L, p, n, m))
  <2>1. ~ Allocates(L, m + 1, p, n) /\ About(L, m + 1, p, n)
    BY <1>3 DEF Allocates, About
  <2>2. \A i \in 1..(m + 1) : i \in 1..m \/ i = m + 1
    OBVIOUS
  <2>3. \A i \in 1..m : m + 1 \in (i + 1)..(m + 1)
    OBVIOUS
  <2> QED
    BY <2>1, <2>2, <2>3 DEF Allocated, Extended
<1> QED
  BY <1>2, <1>3

LEMMA AllocatedExtended ==
  ASSUME NEW L, NEW m \in Nat, NEW p, NEW n, Allocated(L, p, n, m)
  PROVE  Extended(L, p, n, m)
BY DEF Allocated, Extended

-----------------------------------------------------------------------------
(* The header follows the entries.                                          *)
\* The bits are those of pages of the file.
LEMMA BitsInFile ==
  ASSUME NEW L, NEW m \in Nat, NEW p, NEW h, h.bits \subseteq PageNums, AsOf(L, h, p, m)
  PROVE  /\ \A n \in h.bits : n < h.page_count
         /\ h.page_count \in Nat /\ h.page_count >= 1 /\ h.page_count <= MAX_PAGE_NUM
         /\ \A n \in PageNums : n # 0 => (n \in h.bits <=> Allocated(L, p, n, m))
         /\ IsFiniteSet(h.bits) /\ h.allocated_pages = Cardinality(h.bits) /\ h.allocated_pages \in Nat
<1>1. ASSUME NEW n \in h.bits PROVE n < h.page_count
  <2>1. n \in PageNums /\ (n = 0 \/ Allocated(L, p, n, m))
    BY DEF AsOf
  <2> QED
    BY <2>1, AllocatedExtended DEF AsOf
<1>2. MAX_PAGE_NUM \in Nat /\ IsFiniteSet(PageNums)
  BY BufferPoolAssumption, FS_Interval DEF PageNums
<1>3. IsFiniteSet(h.bits) /\ Cardinality(h.bits) \in Nat
  BY <1>2, FS_Subset, FS_CardinalityType
<1> QED
  BY <1>1, <1>2, <1>3 DEF AsOf

\* A page of the file that is free is marked.
LEMMA MarkGood ==
  ASSUME NEW L, NEW m \in Nat, NEW p \in Pools, NEW n \in PageNums, n # 0, NEW h \in HeaderT, Good(L, h, p, m),
         L[m + 1].page = <<p, n>>, L[m + 1].op = "allocate", n < h.page_count, n \notin h.bits, NEW g \in HeaderT,
         g.bits = h.bits \cup {n}, g.page_count = h.page_count, g.allocated_pages = h.allocated_pages + 1,
         g.lsn \in {h.lsn, m + 1}
  PROVE  Good(L, g, p, m + 1)
<1>1. h.bits \subseteq PageNums /\ AsOf(L, h, p, m) /\ h.lsn \in Nat /\ h.lsn <= m
  BY DEF HeaderT, Good
<1>2. /\ h.page_count \in Nat /\ h.page_count >= 1 /\ h.page_count <= MAX_PAGE_NUM
      /\ \A q \in PageNums : q # 0 => (q \in h.bits <=> Allocated(L, p, q, m))
      /\ IsFiniteSet(h.bits) /\ h.allocated_pages = Cardinality(h.bits)
  BY <1>1, BitsInFile
<1>3. \A q \in PageNums : q # n => ~ About(L, m + 1, p, q)
  BY DEF About
<1>4. \A q \in PageNums : /\ Allocated(L, p, q, m + 1) <=> q = n \/ Allocated(L, p, q, m)
                          /\ Extended(L, p, q, m + 1) <=> q = n \/ Extended(L, p, q, m)
  BY <1>3, EntryOther, EntryOwn
<1>5. g.bits = {0} \cup {q \in PageNums : Allocated(L, p, q, m + 1)}
  <2>1. h.bits = {0} \cup {q \in PageNums : Allocated(L, p, q, m)}
    BY <1>1 DEF AsOf
  <2> QED
    BY <1>4, <2>1
<1>6. \A q \in PageNums : q < g.page_count <=> q = 0 \/ Extended(L, p, q, m + 1)
  BY <1>1, <1>4 DEF AsOf
<1>7. g.allocated_pages = Cardinality(g.bits)
  <2>1. Cardinality(h.bits \cup {n}) = Cardinality(h.bits) + 1
    BY <1>2, FS_AddElement
  <2> QED
    BY <1>2, <2>1
<1>8. AsOf(L, g, p, m + 1)
  BY <1>1, <1>5, <1>6, <1>7 DEF AsOf
<1>9. ASSUME NEW i \in (g.lsn + 1)..(m + 1), L[i].page[1] = p, L[i].op # "change"
      PROVE  L[i].op = "allocate" /\ L[i].page[2] \in g.bits
  <2>1. CASE i = m + 1
    BY <2>1
  <2>2. CASE i # m + 1
    <3>1. i \in (h.lsn + 1)..m
      BY <1>1, <2>2
    <3> QED
      BY <1>9, <3>1 DEF Good
  <2> QED
    BY <2>1, <2>2
<1> QED
  BY <1>1, <1>8, <1>9 DEF Good

\* The file is extended by its next page.
LEMMA ExtendGood ==
  ASSUME NEW L, NEW m \in Nat, NEW p \in Pools, NEW h \in HeaderT, Good(L, h, p, m), h.page_count < MAX_PAGE_NUM,
         L[m + 1].page = <<p, h.page_count>>, L[m + 1].op = "allocate", NEW g \in HeaderT,
         g.bits = h.bits \cup {h.page_count}, g.page_count = h.page_count + 1,
         g.allocated_pages = h.allocated_pages + 1, g.lsn = m + 1
  PROVE  Good(L, g, p, m + 1)
<1> DEFINE n == h.page_count
<1>1. h.bits \subseteq PageNums /\ AsOf(L, h, p, m)
  BY DEF HeaderT, Good
<1>2. /\ n \in Nat /\ n >= 1 /\ n \notin h.bits /\ n \in PageNums
      /\ \A q \in PageNums : q # 0 => (q \in h.bits <=> Allocated(L, p, q, m))
      /\ IsFiniteSet(h.bits) /\ h.allocated_pages = Cardinality(h.bits)
  <2>1. /\ n \in Nat /\ n >= 1 /\ (\A q \in h.bits : q < n)
        /\ \A q \in PageNums : q # 0 => (q \in h.bits <=> Allocated(L, p, q, m))
        /\ IsFiniteSet(h.bits) /\ h.allocated_pages = Cardinality(h.bits)
    BY <1>1, BitsInFile
  <2>2. n \in PageNums
    BY <2>1, BufferPoolAssumption DEF PageNums
  <2> QED
    BY <2>1, <2>2
<1>3. \A q \in PageNums : q # n => ~ About(L, m + 1, p, q)
  BY DEF About
<1>4. \A q \in PageNums : /\ Allocated(L, p, q, m + 1) <=> q = n \/ Allocated(L, p, q, m)
                          /\ Extended(L, p, q, m + 1) <=> q = n \/ Extended(L, p, q, m)
  BY <1>2, <1>3, EntryOther, EntryOwn
<1>5. g.bits = {0} \cup {q \in PageNums : Allocated(L, p, q, m + 1)}
  <2>1. h.bits = {0} \cup {q \in PageNums : Allocated(L, p, q, m)}
    BY <1>1 DEF AsOf
  <2> QED
    BY <1>2, <1>4, <2>1
<1>6. \A q \in PageNums : q < g.page_count <=> q = 0 \/ Extended(L, p, q, m + 1)
  <2>1. \A q \in PageNums : q < n <=> q = 0 \/ Extended(L, p, q, m)
    BY <1>1 DEF AsOf
  <2>2. \A q \in PageNums : q < n + 1 <=> q < n \/ q = n
    BY <1>2, PageIs
  <2> QED
    BY <1>4, <2>1, <2>2
<1>7. g.allocated_pages = Cardinality(g.bits)
  <2>1. Cardinality(h.bits \cup {n}) = Cardinality(h.bits) + 1
    <3> HIDE DEF n
    <3> QED
      BY <1>2, FS_AddElement
  <2> QED
    BY <1>2, <2>1
<1>8. AsOf(L, g, p, m + 1)
  BY <1>2, <1>5, <1>6, <1>7, BufferPoolAssumption DEF AsOf
<1>9. \A i \in (g.lsn + 1)..(m + 1) : FALSE
  OBVIOUS
<1> QED
  BY <1>8, <1>9 DEF Good

\* A page is given back.
LEMMA FreeGood ==
  ASSUME NEW L, NEW m \in Nat, NEW p \in Pools, NEW n \in PageNums, n # 0, NEW h \in HeaderT, Good(L, h, p, m),
         L[m + 1].page = <<p, n>>, L[m + 1].op = "deallocate", n \in h.bits, NEW g \in HeaderT,
         g.bits = h.bits \ {n}, g.page_count = h.page_count, g.allocated_pages = h.allocated_pages - 1, g.lsn = m + 1
  PROVE  Good(L, g, p, m + 1)
<1>1. h.bits \subseteq PageNums /\ AsOf(L, h, p, m)
  BY DEF HeaderT, Good
<1>2. IsFiniteSet(h.bits) /\ h.allocated_pages = Cardinality(h.bits)
  BY <1>1, BitsInFile
<1>3. \A q \in PageNums : q # n => ~ About(L, m + 1, p, q)
  BY DEF About
<1>4. \A q \in PageNums : /\ Allocated(L, p, q, m + 1) <=> q # n /\ Allocated(L, p, q, m)
                          /\ Extended(L, p, q, m + 1) <=> Extended(L, p, q, m)
  BY <1>3, EntryOther, EntryOwn
<1>5. g.bits = {0} \cup {q \in PageNums : Allocated(L, p, q, m + 1)}
  <2>1. h.bits = {0} \cup {q \in PageNums : Allocated(L, p, q, m)}
    BY <1>1 DEF AsOf
  <2> QED
    BY <1>4, <2>1
<1>6. \A q \in PageNums : q < g.page_count <=> q = 0 \/ Extended(L, p, q, m + 1)
  BY <1>1, <1>4 DEF AsOf
<1>7. g.allocated_pages = Cardinality(g.bits)
  <2>1. Cardinality(h.bits \ {n}) = Cardinality(h.bits) - 1
    BY <1>2, FS_RemoveElement
  <2> QED
    BY <1>2, <2>1
<1>8. AsOf(L, g, p, m + 1)
  BY <1>1, <1>5, <1>6, <1>7 DEF AsOf
<1>9. \A i \in (g.lsn + 1)..(m + 1) : FALSE
  OBVIOUS
<1> QED
  BY <1>8, <1>9 DEF Good

\* A new file's header, as long as the log says nothing of it.
LEMMA NewGood ==
  ASSUME NEW L, NEW m \in Nat, NEW p \in Pools, Silent(L, 0, m, p)
  PROVE  Good(L, NewHeader, p, m)
<1>1. \A n \in PageNums : ~ Allocated(L, p, n, 0) /\ ~ Extended(L, p, n, 0)
  BY DEF Allocated, Extended
<1>2. AsOf(L, NewHeader, p, 0)
  <2>1. Cardinality({0}) = 1
    BY FS_Singleton
  <2>2. 1 \in 1..MAX_PAGE_NUM
    BY BufferPoolAssumption
  <2>3. \A n \in PageNums : n < 1 <=> n = 0
    BY PageIs
  <2> QED
    BY <1>1, <2>1, <2>2, <2>3, NewHeaderIs DEF AsOf
<1>3. Good(L, NewHeader, p, 0)
  BY <1>2, NewHeaderIs DEF Good
<1> QED
  BY <1>3, SilentGood, NewHeaderIs

-----------------------------------------------------------------------------
(* The headers and the log, step by step.                                   *)
LEMMA NoGrows ==
  ASSUME Steady, NEW p \in Pools, \A u \in Threads : pool_lock[p] = u => ~ Extends(u)
  PROVE  ~ Grows(p) /\ Whole(p) = header[p]
<1>1. ASSUME NEW u \in Threads, Extends(u), th[u].page[1] = p PROVE FALSE
  <2>1. pool_lock[p] = u
    BY <1>1 DEF Steady, ThreadInv, Sound, Owner, Extends, At
  <2> QED
    BY <1>1, <2>1
<1>2. ~ Grows(p)
  BY <1>1 DEF Grows
<1> QED
  BY <1>2 DEF Whole

LEMMA WholeIs ==
  ASSUME Steady, HeaderInv, redo = 0, NEW p \in opened
  PROVE  /\ p \in Pools /\ Good(clog, Whole(p), p, Len(clog)) /\ Whole(p) \in HeaderT /\ Whole(p).lsn = header[p].lsn
         /\ header[p].bits \subseteq Whole(p).bits /\ header[p] \in HeaderT /\ header[p].lsn \in Nat
         /\ Len(clog) \in Nat /\ Running(p)
<1>1. p \in Pools /\ header[p] \in HeaderT /\ Running(p) /\ Len(clog) \in Nat
  BY DEF Steady, Typed, HeaderInv
<1>2. CASE ~ Grows(p)
  BY <1>1, <1>2 DEF Whole, Running, HeaderT
<1>3. CASE Grows(p)
  <2>1. PICK u \in Threads : Extends(u) /\ th[u].page[1] = p
    BY <1>3 DEF Grows
  <2>2. th[u].page \in Pages /\ th[u].page # None /\ th[u].why # "open" /\ th[u].page[2] \in PageNums
    BY <2>1, Has DEF Extends, At, Fetching
  <2>3. header[p].page_count \in PageNums
    BY <2>1, <2>2 DEF HeaderInv, WantedPages
  <2>4. Whole(p) = Larger(header[p])
    BY <1>3 DEF Whole
  <2>5. header[p].bits \cup {header[p].page_count} \in SUBSET PageNums /\ header[p].page_count + 1 \in Int
        /\ header[p].allocated_pages + 1 \in Int /\ header[p].lsn \in Nat
    BY <1>1, <2>3 DEF HeaderT
  <2> QED
    BY <1>1, <2>4, <2>5 DEF Larger, HeaderT, Running
<1> QED
  BY <1>2, <1>3

\* A step that leaves the headers and the log alone.
LEMMA HeaderQuiet ==
  ASSUME Steady, HeaderInv, redo = 0, UNCHANGED <<clog, flushed, header, disk_header, opened, redo>>,
         \A u \in Threads : (Extends(u)' <=> Extends(u)) /\ (Extends(u) => th'[u].page = th[u].page),
         WantedPages', Disposers', Openers'
  PROVE  HeaderInv'
<1>1. \A p : Grows(p)' <=> Grows(p)
  BY DEF Grows
<1>2. \A p : Whole(p)' = Whole(p)
  BY <1>1 DEF Whole
<1>3. \A p \in Pools : (FileThere(p)' <=> FileThere(p)) /\ (OnDisk(p)' <=> OnDisk(p))
  BY DEF FileThere, OnDisk
<1>4. \A p \in opened : Running(p)'
  BY <1>2 DEF Running, HeaderInv
<1> QED
  BY <1>3, <1>4 DEF HeaderInv, Steady, Typed

\* No thread changes its page.
LEMMA HeaderSame ==
  ASSUME Steady, HeaderInv, redo = 0, UNCHANGED <<clog, flushed, header, disk_header, opened, redo>>,
         \A u \in Threads : /\ th'[u].page = th[u].page /\ th'[u].why = th[u].why
                            /\ Extends(u)' <=> Extends(u)
                            /\ At(u, {"dispose", "free"})' => At(u, {"dispose", "free"})
  PROVE  HeaderInv'
<1>1. WantedPages'
  BY DEF HeaderInv, WantedPages
<1>2. Disposers'
  BY DEF HeaderInv, Disposers
<1>3. Openers'
  BY DEF HeaderInv, Openers
<1> QED
  BY <1>1, <1>2, <1>3, HeaderQuiet

\* A thread is done with its page.
LEMMA HeaderEnd ==
  ASSUME Steady, HeaderInv, redo = 0, UNCHANGED <<clog, flushed, header, disk_header, opened, redo>>,
         NEW t \in Threads, ~ Extends(t), \A u \in Threads \ {t} : th'[u] = th[u],
         th'[t].pc = "idle", th'[t].page = None, th'[t].why = "none"
  PROVE  HeaderInv'
<1>1. \A u \in Threads : (Extends(u)' <=> Extends(u)) /\ (Extends(u) => th'[u].page = th[u].page)
  BY DEF Extends, At
<1>2. WantedPages'
  BY <1>1 DEF HeaderInv, WantedPages
<1>3. Disposers'
  <2>1. \A u \in Threads : At(u, {"dispose", "free"}) => th[u].page # None
    BY Has DEF At
  <2> QED
    BY <2>1 DEF HeaderInv, Disposers, At
<1>4. Openers'
  BY DEF HeaderInv, Openers
<1> QED
  BY <1>1, <1>2, <1>3, <1>4, HeaderQuiet

\* The log grows by an entry about page k.
LEMMA HeaderAppend ==
  ASSUME Steady, HeaderInv, redo = 0, redo' = 0, NEW k \in Pages, NEW op \in {"allocate", "deallocate", "change"},
         AppendLog(k, op), k[1] \in opened, UNCHANGED <<opened, disk_header, flushed>>,
         Possible(clog', Len(clog) + 1, k[1], k[2]), Running(k[1])',
         \A q \in opened \ {k[1]} : Whole(q)' = Whole(q) /\ header'[q] = header[q],
         WantedPages', Disposers', Openers'
  PROVE  HeaderInv'
<1> DEFINE N == Len(clog)
<1>1. /\ N \in Nat /\ Len(clog') = N + 1 /\ (\A i \in 1..N : clog'[i] = clog[i]) /\ clog'[N + 1].page = k
      /\ clog'[N + 1].op = op /\ flushed \in Nat /\ flushed <= N
  BY AppendIs DEF Steady, Typed
<1>2. LogSane(clog')
  <2>1. ASSUME NEW i \in 1..N PROVE Possible(clog', i, clog'[i].page[1], clog'[i].page[2])
    <3>1. Possible(clog, i, clog[i].page[1], clog[i].page[2]) /\ clog[i].page[2] \in Nat
      <4>1. clog[i] \in BufferPoolLogEntry
        BY DEF Steady, Typed
      <4> QED
        BY <4>1, PageIs DEF HeaderInv, LogSane, BufferPoolLogEntry
    <3>2. i \in Nat \ {0} /\ clog'[i] = clog[i] /\ \A j \in 1..i : clog[j] = clog'[j]
      BY <1>1
    <3> QED
      BY <3>1, <3>2, SamePossible
  <2> QED
    BY <1>1, <2>1 DEF LogSane
<1>3. \A i \in 1..Len(clog') : clog'[i].page[1] \in opened
  BY <1>1 DEF HeaderInv
<1>4. \A p \in Pools : FileThere(p)' => OnDisk(p)'
  <2>1. ASSUME NEW p \in Pools, FileThere(p)' PROVE OnDisk(p)'
    <3>1. PICK m \in 0..flushed : Good(clog, disk_header[p], p, m)
      BY <2>1 DEF HeaderInv, FileThere, OnDisk
    <3>2. Good(clog', disk_header[p], p, m)
      <4>1. disk_header[p].lsn \in Nat
        BY DEF Steady, Typed, HeaderT
      <4>2. m \in Nat /\ \A i \in 1..m : clog[i] = clog'[i]
        BY <1>1
      <4> QED
        BY <3>1, <4>1, <4>2, SameGood
    <3> QED
      BY <3>2 DEF OnDisk
  <2> QED
    BY <2>1
<1>5. ASSUME NEW q \in opened PROVE Running(q)'
  <2>1. CASE q = k[1]
    BY <2>1
  <2>2. CASE q # k[1]
    <3>1. /\ q \in Pools /\ Good(clog, Whole(q), q, N) /\ Whole(q).lsn \in Nat /\ Running(q)
      BY WholeIs
    <3>2. Good(clog', Whole(q), q, N)
      BY <1>1, <3>1, SameGood
    <3>3. Silent(clog', N, N + 1, q)
      BY <1>1, <2>2 DEF Silent
    <3>4. Good(clog', Whole(q), q, N + 1)
      BY <1>1, <3>1, <3>2, <3>3, SilentGood
    <3>5. \A i \in (flushed + 1)..(N + 1) : clog'[i].page[1] = q /\ clog'[i].op # "change" => i <= header[q].lsn
      BY <1>1, <2>2, <3>1 DEF Running
    <3> QED
      BY <1>1, <2>2, <3>4, <3>5 DEF Running
  <2> QED
    BY <2>1, <2>2
<1>6. \A p \in opened : FileThere(p)'
  BY DEF HeaderInv, FileThere
<1> QED
  BY <1>2, <1>3, <1>4, <1>5, <1>6 DEF HeaderInv

LEMMA HeaderSteps ==
  ASSUME Steady, HeaderInv, redo = 0, NEW t \in Threads,
         \/ LockPool(t) \/ Alloc(t) \/ Purge(t) \/ EvictManager(t) \/ EvictOther(t) \/ EvictFlush(t)
         \/ DisposeLock(t) \/ Sync(t)
  PROVE  HeaderInv'
<1>0. th \in [Threads -> Job]
  BY DEF Steady, Typed
<1>1. UNCHANGED <<clog, flushed, header, disk_header, opened, redo>>
  BY DEF LockPool, Alloc, Purge, EvictManager, EvictOther, EvictFlush, DisposeLock, Sync, files, logs, runs
<1>2. ASSUME NEW pc \in Steps, To(t, pc) \/ (\E v \in Pages \cup {None} : Victim(t, pc, v)),
             \/ th[t].pc \in Fetching /\ pc \in Fetching
             \/ th[t].pc = "miss"
             \/ th[t].pc = "dispose" /\ pc = "free"
             \/ th[t].pc = "idle" /\ pc = "sync",
             pc \in {"dispose", "free"} => th[t].pc = "dispose"
      PROVE  HeaderInv'
  <2>1. /\ \A u \in Threads \ {t} : th'[u] = th[u]
        /\ th'[t].pc = pc /\ th'[t].page = th[t].page /\ th'[t].why = th[t].why
    BY <1>0, <1>2, ToIs, VictimIs
  <2>2. Extends(t)' <=> Extends(t)
    <3>1. th[t].pc = "miss" => th[t].why = "get"
      BY DEF Steady, ThreadInv, Sound, Job1, At
    <3> QED
      BY <1>2, <2>1, <3>1 DEF Extends, At, Fetching
  <2>3. \A u \in Threads : /\ th'[u].page = th[u].page /\ th'[u].why = th[u].why
                           /\ Extends(u)' <=> Extends(u)
                           /\ At(u, {"dispose", "free"})' => At(u, {"dispose", "free"})
    BY <1>2, <2>1, <2>2 DEF Extends, At
  <2> QED
    BY <1>1, <2>3, HeaderSame
<1>3. CASE LockPool(t)
  BY <1>2, <1>3 DEF LockPool, Steps
<1>4. CASE Alloc(t)
  <2>1. th[t].pc = "alloc" /\ (To(t, "load") \/ To(t, "purge"))
    BY <1>4 DEF Alloc
  <2> QED
    BY <1>2, <2>1 DEF Fetching, Steps
<1>5. CASE Purge(t)
  <2>1. /\ th[t].pc = "purge"
        /\ \/ To(t, "alloc")
           \/ \E k \in DOMAIN frames : Victim(t, IF k[1] = PoolOf(t) THEN "evict" ELSE "manager", k)
    BY <1>5 DEF Purge
  <2>2. \/ To(t, "alloc")
        \/ \E k \in Pages : Victim(t, "evict", k) \/ Victim(t, "manager", k)
    BY <2>1 DEF Steady, Typed
  <2> QED
    BY <1>2, <2>1, <2>2 DEF Fetching, Steps
<1>6. CASE EvictManager(t)
  BY <1>2, <1>6 DEF EvictManager, Fetching, Steps
<1>7. CASE EvictOther(t)
  BY <1>2, <1>7 DEF EvictOther, Fetching, Steps
<1>8. CASE EvictFlush(t)
  <2>1. th[t].pc = "evict" /\ Victim(t, "alloc", None)
    BY <1>8 DEF EvictFlush
  <2> QED
    BY <1>2, <2>1 DEF Fetching, Steps
<1>9. CASE DisposeLock(t)
  BY <1>2, <1>9 DEF DisposeLock, Steps
<1>10. CASE Sync(t)
  BY <1>2, <1>10 DEF Sync, Steps
<1> QED
  BY <1>3, <1>4, <1>5, <1>6, <1>7, <1>8, <1>9, <1>10

LEMMA HeaderLoad ==
  ASSUME Steady, HeaderInv, redo = 0, NEW t \in Threads, Load(t) \/ Unpin(t) \/ SyncDone(t)
  PROVE  HeaderInv'
<1>0. th \in [Threads -> Job]
  BY DEF Steady, Typed
<1>1. UNCHANGED <<clog, flushed, header, disk_header, opened, redo>>
  BY DEF Load, Unpin, SyncDone, files, logs, runs
<1>2. ~ Extends(t)
  BY DEF Load, Unpin, SyncDone, Extends, At, Fetching
<1>3. CASE End(t)
  BY <1>0, <1>1, <1>2, <1>3, EndIs, HeaderEnd
<1>4. CASE To(t, "hold")
  <2>1. /\ \A u \in Threads \ {t} : th'[u] = th[u]
        /\ th'[t].pc = "hold" /\ th'[t].page = th[t].page /\ th'[t].why = th[t].why
    BY <1>0, <1>4, ToIs DEF Steps
  <2>2. \A u \in Threads : /\ th'[u].page = th[u].page /\ th'[u].why = th[u].why
                           /\ Extends(u)' <=> Extends(u)
                           /\ At(u, {"dispose", "free"})' => At(u, {"dispose", "free"})
    BY <1>2, <2>1 DEF Extends, At, Fetching
  <2> QED
    BY <1>1, <2>2, HeaderSame
<1> QED
  BY <1>3, <1>4 DEF Load, Unpin, SyncDone

LEMMA HeaderLookup ==
  ASSUME Steady, HeaderInv, redo = 0, NEW t \in Threads, NEW k \in Pages, Lookup(t, k)
  PROVE  HeaderInv'
<1>0. th \in [Threads -> Job] /\ k # None /\ Sound(t)
  BY PageIs DEF Steady, Typed, ThreadInv
<1>1. UNCHANGED <<clog, flushed, header, disk_header, opened, redo>>
  BY DEF Lookup, files, logs, runs
<1>2. /\ \A u \in Threads \ {t} : th'[u] = th[u]
      /\ th'[t].page = k /\ th'[t].why # "open" /\ th'[t].pc \in {"hold", "miss"}
  <2>1. Begin(t, "hold", k, "none") \/ Begin(t, "miss", k, "get")
    BY DEF Lookup
  <2> QED
    BY <1>0, <2>1, BeginIs DEF Steps, Reasons
<1>3. ~ Extends(t) /\ ~ Extends(t)' /\ ~ At(t, {"dispose", "free"})'
  BY <1>2 DEF Lookup, Extends, At, Fetching
<1>4. k[2] \in header[k[1]].bits
  <2>1. CASE th[t].pc = "lookup" /\ th[t].page = k
    <3>1. th[t].why # "open"
      BY <1>0, <2>1 DEF Sound, Job1, At
    <3> QED
      BY <1>0, <1>3, <2>1, <3>1 DEF HeaderInv, WantedPages
  <2> QED
    BY <2>1 DEF Lookup
<1>5. \A u \in Threads \ {t} : At(u, {"dispose", "free"}) => th[u].page # k
  <2>1. CASE th[t].pc = "lookup" /\ th[t].page = k
    BY <2>1 DEF HeaderInv, Disposers
  <2>2. CASE MayUse(k)
    BY <2>2 DEF MayUse, WantedBy, At
  <2> QED
    BY <2>1, <2>2 DEF Lookup
<1>6. WantedPages'
  BY <1>1, <1>2, <1>3, <1>4 DEF HeaderInv, WantedPages, Extends, At
<1>7. Disposers'
  BY <1>2, <1>3, <1>5 DEF HeaderInv, Disposers, At
<1>8. Openers'
  BY <1>1, <1>2 DEF HeaderInv, Openers
<1>9. \A u \in Threads : (Extends(u)' <=> Extends(u)) /\ (Extends(u) => th'[u].page = th[u].page)
  BY <1>2, <1>3 DEF Extends, At
<1> QED
  BY <1>1, <1>6, <1>7, <1>8, <1>9, HeaderQuiet

LEMMA HeaderDisposeUnpin ==
  ASSUME Steady, HeaderInv, redo = 0, NEW t \in Threads, DisposeUnpin(t)
  PROVE  HeaderInv'
<1>0. th \in [Threads -> Job]
  BY DEF Steady, Typed
<1>1. UNCHANGED <<clog, flushed, header, disk_header, opened, redo>>
  BY DEF DisposeUnpin, files, logs, runs
<1>2. /\ \A u \in Threads \ {t} : th'[u] = th[u]
      /\ th'[t].pc = "dispose" /\ th'[t].page = th[t].page /\ th'[t].why = th[t].why
  BY <1>0, ToIs DEF DisposeUnpin, Steps
<1>3. ~ Extends(t) /\ ~ Extends(t)'
  BY <1>2 DEF DisposeUnpin, Extends, At, Fetching
<1>4. \A u \in Threads \ {t} : th[u].page # th[t].page
  BY DEF DisposeUnpin, WantedBy
<1>5. WantedPages'
  BY <1>1, <1>2, <1>3 DEF HeaderInv, WantedPages, Extends, At
<1>6. Disposers'
  BY <1>2, <1>4 DEF HeaderInv, Disposers, At
<1>7. Openers'
  BY <1>1, <1>2 DEF HeaderInv, Openers
<1>8. \A u \in Threads : (Extends(u)' <=> Extends(u)) /\ (Extends(u) => th'[u].page = th[u].page)
  BY <1>2, <1>3 DEF Extends, At
<1> QED
  BY <1>1, <1>5, <1>6, <1>7, <1>8, HeaderQuiet

\* What the invariant says of a pool whose lock is free, or is held by a
\* thread that is not extending the file.
LEMMA FreeHeader ==
  ASSUME Steady, HeaderInv, redo = 0, NEW p \in opened, \A u \in Threads : pool_lock[p] = u => ~ Extends(u)
  PROVE  /\ p \in Pools /\ Len(clog) \in Nat /\ ~ Grows(p) /\ Whole(p) = header[p] /\ header[p] \in HeaderT
         /\ Good(clog, header[p], p, Len(clog)) /\ AsOf(clog, header[p], p, Len(clog))
         /\ header[p].page_count \in Nat /\ header[p].page_count >= 1 /\ header[p].page_count <= MAX_PAGE_NUM
         /\ \A n \in header[p].bits : n \in PageNums /\ n < header[p].page_count
         /\ \A n \in PageNums : n # 0 => (n \in header[p].bits <=> Allocated(clog, p, n, Len(clog)))
         /\ \A n \in PageNums : n < header[p].page_count => n = 0 \/ Extended(clog, p, n, Len(clog))
         /\ IsFiniteSet(header[p].bits) /\ header[p].allocated_pages = Cardinality(header[p].bits)
         /\ header[p].allocated_pages \in Nat
<1>1. p \in Pools /\ Good(clog, Whole(p), p, Len(clog)) /\ header[p] \in HeaderT /\ Len(clog) \in Nat
  BY WholeIs
<1>2. ~ Grows(p) /\ Whole(p) = header[p]
  BY <1>1, NoGrows
<1>3. AsOf(clog, header[p], p, Len(clog)) /\ header[p].bits \subseteq PageNums
  BY <1>1, <1>2 DEF Good, HeaderT
<1> QED
  BY <1>1, <1>2, <1>3, BitsInFile DEF AsOf

LEMMA ChosenIs ==
  ASSUME Steady, HeaderInv, redo = 0, NEW p \in opened, pool_lock[p] = None,
         header[p].allocated_pages < header[p].page_count
  PROVE  LET n == Min((0..(header[p].page_count - 1)) \ header[p].bits)
         IN ChosenOk(p) /\ n \in PageNums /\ n # 0 /\ n \notin header[p].bits /\ n < header[p].page_count
<1> DEFINE h == header[p]
           S == (0..(h.page_count - 1)) \ h.bits
<1>0. \A u \in Threads : pool_lock[p] = u => ~ Extends(u)
  BY PageIs
<1>1. /\ h.page_count \in Nat /\ h.page_count >= 1 /\ h.page_count <= MAX_PAGE_NUM
      /\ \A n \in h.bits : n \in PageNums /\ n < h.page_count
      /\ IsFiniteSet(h.bits) /\ h.allocated_pages = Cardinality(h.bits) /\ h.allocated_pages \in Nat
      /\ AsOf(clog, h, p, Len(clog))
  BY <1>0, FreeHeader
<1>2. S # {}
  <2>1. SUFFICES ASSUME 0..(h.page_count - 1) \subseteq h.bits PROVE FALSE
    OBVIOUS
  <2>2. IsFiniteSet(0..(h.page_count - 1)) /\ Cardinality(0..(h.page_count - 1)) = h.page_count
    <3>1. h.page_count - 1 \in Int /\ ~ (0 > h.page_count - 1) /\ h.page_count - 1 - 0 + 1 = h.page_count
      BY <1>1
    <3>2. 0 \in Int
      OBVIOUS
    <3>3. /\ IsFiniteSet(0..(h.page_count - 1))
          /\ Cardinality(0..(h.page_count - 1)) = IF 0 > h.page_count - 1 THEN 0 ELSE h.page_count - 1 - 0 + 1
      BY <3>1, <3>2, FS_Interval
    <3> QED
      BY <3>1, <3>3
  <2>3. Cardinality(0..(h.page_count - 1)) <= Cardinality(h.bits)
    BY <1>1, <2>1, FS_Subset
  <2> QED
    BY <1>1, <2>2, <2>3
<1>3. S \subseteq Nat
  OBVIOUS
<1>4. Min(S) \in S
  <2> HIDE DEF S
  <2> QED
    BY <1>2, <1>3, Least
<1>5. 0 \in h.bits
  BY <1>1 DEF AsOf
<1>6. Min(S) \in PageNums
  BY <1>1, <1>4, BufferPoolAssumption DEF PageNums
<1> QED
  BY <1>1, <1>4, <1>5, <1>6 DEF ChosenOk

\* The entries that are not durable yet are older than the header's new LSN.
LEMMA RunningAppend ==
  ASSUME Steady, HeaderInv, redo = 0, NEW k \in Pages, NEW op \in {"allocate", "deallocate", "change"},
         AppendLog(k, op), k[1] \in opened, UNCHANGED flushed,
         header'[k[1]].lsn = Len(clog) + 1 \/ (op = "change" /\ header'[k[1]].lsn = header[k[1]].lsn),
         Good(clog', Whole(k[1])', k[1], Len(clog) + 1)
  PROVE  Running(k[1])'
<1> DEFINE N == Len(clog)
<1>1. /\ N \in Nat /\ Len(clog') = N + 1 /\ (\A i \in 1..N : clog'[i] = clog[i])
      /\ clog'[N + 1].op = op /\ flushed \in Nat
  BY AppendIs DEF Steady, Typed
<1>2. Running(k[1]) /\ header[k[1]].lsn \in Nat
  BY WholeIs
<1>3. \A i \in (flushed + 1)..(N + 1) : clog'[i].page[1] = k[1] /\ clog'[i].op # "change" => i <= header'[k[1]].lsn
  BY <1>1, <1>2 DEF Running
<1> QED
  BY <1>1, <1>3 DEF Running

LEMMA HeaderChange ==
  ASSUME Steady, HeaderInv, redo = 0, NEW t \in Threads, Change(t)
  PROVE  HeaderInv'
<1> DEFINE k == th[t].page
           p == k[1]
           N == Len(clog)
<1>1. k \in Pages /\ k # None /\ Job1(t) /\ th[t].pc = "hold" /\ k[2] \in PageNums /\ p \in Pools /\ k = <<p, k[2]>>
  BY Has, PageIs DEF Change
<1>2. k[2] # 0 /\ p \in opened /\ th[t].why # "open"
  BY <1>1 DEF Job1, At
<1>3. /\ N \in Nat /\ Len(clog') = N + 1 /\ (\A i \in 1..N : clog'[i] = clog[i]) /\ clog'[N + 1].page = k
      /\ clog'[N + 1].op = "change"
  BY <1>1, AppendIs DEF Change, Steady
<1>4. UNCHANGED <<header, th, flushed, opened, disk_header, redo>> /\ AppendLog(k, "change")
  BY DEF Change, files, runs
<1>5. /\ Good(clog, Whole(p), p, N) /\ Whole(p) \in HeaderT /\ header[p].bits \subseteq Whole(p).bits /\ Whole(p).lsn \in Nat
  BY <1>2, WholeIs
<1>6. \A q : Whole(q)' = Whole(q)
  BY <1>4 DEF Whole, Grows, Extends, At
<1>7. Possible(clog', N + 1, p, k[2])
  <2>1. k[2] \in header[p].bits
    BY <1>1, <1>2 DEF HeaderInv, WantedPages, Extends, At, Fetching
  <2>2. Extended(clog, p, k[2], N)
    <3>1. Whole(p).bits \subseteq PageNums /\ AsOf(clog, Whole(p), p, N)
      BY <1>5 DEF Good, HeaderT
    <3>2. Allocated(clog, p, k[2], N)
      <4> HIDE DEF k, N
      <4>1. \A n \in PageNums : n # 0 => (n \in Whole(p).bits <=> Allocated(clog, p, n, N))
        BY <1>3, <3>1, BitsInFile
      <4> QED
        BY <1>1, <1>2, <1>5, <2>1, <4>1
    <3> QED
      BY <1>3, <3>2, AllocatedExtended
  <2>3. Extended(clog', p, k[2], N)
    BY <1>3, <2>2, SamePrefix
  <2>4. N + 1 - 1 = N
    BY <1>3
  <2> QED
    BY <1>2, <1>3, <2>3, <2>4 DEF Possible
<1>8. Running(p)'
  <2>1. Good(clog', Whole(p), p, N)
    <3> HIDE DEF k, N
    <3>1. \A i \in 1..N : clog[i] = clog'[i]
      BY <1>3
    <3>2. N \in Nat /\ Whole(p).lsn \in Nat /\ Good(clog, Whole(p), p, N)
      BY <1>3, <1>5
    <3> QED
      BY <3>1, <3>2, SameGood
  <2>2. Silent(clog', N, N + 1, p)
    BY <1>3 DEF Silent
  <2>3. Good(clog', Whole(p), p, N + 1)
    BY <1>1, <1>3, <1>5, <2>1, <2>2, SilentGood
  <2> QED
    BY <1>1, <1>2, <1>4, <1>6, <2>3, RunningAppend
<1>9. WantedPages' /\ Disposers' /\ Openers'
  BY <1>4 DEF HeaderInv, WantedPages, Disposers, Openers, Extends, At
<1> QED
  BY <1>1, <1>2, <1>4, <1>6, <1>7, <1>8, <1>9, HeaderAppend

LEMMA HeaderAllocateFree ==
  ASSUME Steady, HeaderInv, redo = 0, NEW t \in Threads, NEW p \in Pools, AllocateFree(t, p), Steady'
  PROVE  HeaderInv'
<1> DEFINE h == header[p]
           n == Min((0..(h.page_count - 1)) \ h.bits)
           k == <<p, n>>
           N == Len(clog)
           nh == [h EXCEPT !.allocated_pages = @ + 1, !.bits = @ \cup {n}, !.lsn = NextLsn]
<1>1. th[t].pc = "idle" /\ p \in opened /\ pool_lock[p] = None /\ h.allocated_pages < h.page_count
  BY DEF AllocateFree
<1>2. n \in PageNums /\ n # 0 /\ n \notin h.bits /\ n < h.page_count
  BY <1>1, ChosenIs
<1>3. /\ AppendLog(k, "allocate") /\ header' = [header EXCEPT ![p] = nh]
      /\ Begin(t, "lookup", k, "none")
      /\ UNCHANGED <<opened, disk_header, flushed, redo>>
  BY DEF AllocateFree, files, runs
<1> HIDE DEF n
<1>4. k \in Pages /\ k # None /\ k[1] = p /\ k[2] = n
  BY <1>2, PageIs
<1>5. /\ N \in Nat /\ Len(clog') = N + 1 /\ (\A i \in 1..N : clog'[i] = clog[i]) /\ clog'[N + 1].page = k
      /\ clog'[N + 1].op = "allocate" /\ NextLsn = N + 1
  BY <1>3, <1>4, AppendIs DEF Steady
<1>6. /\ ~ Grows(p) /\ h \in HeaderT /\ Good(clog, h, p, N)
      /\ h.page_count \in Nat /\ h.page_count <= MAX_PAGE_NUM
      /\ (n \in h.bits <=> Allocated(clog, p, n, N))
      /\ \A q \in PageNums : q < h.page_count => q = 0 \/ Extended(clog, p, q, N)
  <2>1. \A u \in Threads : pool_lock[p] = u => ~ Extends(u)
    BY <1>1, PageIs
  <2> QED
    BY <1>1, <1>2, <2>1, FreeHeader
<1>7. /\ \A u \in Threads \ {t} : th'[u] = th[u]
      /\ th'[t].pc = "lookup" /\ th'[t].page = k /\ th'[t].why = "none"
  <2>1. th \in [Threads -> Job] /\ "lookup" \in Steps /\ "none" \in Reasons
    BY DEF Steady, Typed, Steps, Reasons
  <2> QED
    BY <1>3, <1>4, <2>1, BeginIs
<1>8. \A u \in Threads : (Extends(u)' <=> Extends(u)) /\ (Extends(u) => th'[u].page = th[u].page)
  BY <1>1, <1>7 DEF Extends, At, Fetching
<1>9. /\ header'[p] = nh /\ nh.bits = h.bits \cup {n} /\ nh.page_count = h.page_count /\ nh.lsn = N + 1
      /\ nh.allocated_pages = h.allocated_pages + 1 /\ nh \in HeaderT
      /\ \A q \in Pools : q # p => header'[q] = header[q]
  <2>1. header \in [Pools -> HeaderT] /\ header' \in [Pools -> HeaderT]
    BY DEF Steady, Typed
  <2>2. header'[p] = nh /\ \A q \in Pools : q # p => header'[q] = header[q]
    BY <1>3, <2>1
  <2> QED
    BY <1>5, <1>6, <2>1, <2>2 DEF HeaderT
<1> HIDE DEF nh, k
<1>10. \A q \in Pools : (Grows(q)' <=> Grows(q)) /\ (q # p => Whole(q)' = Whole(q))
  BY <1>8, <1>9 DEF Grows, Whole
<1>11. Possible(clog', N + 1, p, n)
  <2>1. ~ Allocated(clog', p, n, N)
    BY <1>2, <1>5, <1>6, SamePrefix
  <2>2. ASSUME NEW q \in 1..(n - 1) PROVE Extended(clog', p, q, N)
    <3>1. q \in PageNums /\ q < h.page_count /\ q # 0
      BY <1>2, <1>6, BufferPoolAssumption DEF PageNums
    <3>2. Extended(clog, p, q, N)
      BY <1>6, <3>1
    <3> QED
      BY <1>5, <3>2, SamePrefix
  <2>3. N + 1 - 1 = N
    BY <1>5
  <2> QED
    BY <1>2, <1>5, <2>1, <2>2, <2>3 DEF Possible
<1>12. Running(p)'
  <2>1. Good(clog', h, p, N)
    <3>1. h.lsn \in Nat
      BY <1>6 DEF HeaderT
    <3> QED
      BY <1>5, <1>6, <3>1, SameGood
  <2>2. clog'[N + 1].page = <<p, n>>
    BY <1>5 DEF k
  <2>3. Good(clog', nh, p, N + 1)
    BY <1>2, <1>5, <1>6, <1>9, <2>1, <2>2, MarkGood
  <2>4. Whole(p)' = nh
    BY <1>6, <1>9, <1>10 DEF Whole
  <2> QED
    BY <1>1, <1>3, <1>4, <1>9, <2>3, <2>4, RunningAppend
<1>13. WantedPages'
  <2>1. ASSUME NEW u \in Threads, th'[u].page # None, th'[u].why # "open"
        PROVE  IF Extends(u)' THEN th'[u].page[2] = header'[th'[u].page[1]].page_count
               ELSE th'[u].page[2] \in header'[th'[u].page[1]].bits
    <3>1. CASE u = t
      BY <1>4, <1>7, <1>9, <3>1 DEF Extends, At, Fetching
    <3>2. CASE u # t
      <4>1. /\ th'[u] = th[u] /\ (Extends(u)' <=> Extends(u))
            /\ IF Extends(u) THEN th[u].page[2] = header[th[u].page[1]].page_count
               ELSE th[u].page[2] \in header[th[u].page[1]].bits
        BY <1>7, <1>8, <2>1, <3>2 DEF HeaderInv, WantedPages
      <4>2. th[u].page[1] \in Pools
        BY <2>1, <4>1, PageIs DEF Steady, Typed, Job
      <4> QED
        BY <1>9, <4>1, <4>2
    <3> QED
      BY <3>1, <3>2
  <2> QED
    BY <2>1 DEF WantedPages
<1>14. Disposers'
  <2>1. ASSUME NEW u \in Threads, u # t, At(u, {"dispose", "free"}) PROVE th[u].page # k
    <3>1. th[u].page # None /\ Job1(u) /\ th[u].page[1] \in Pools
      BY <2>1, Has DEF At
    <3>2. th[u].why # "open" /\ ~ Extends(u)
      BY <2>1, <3>1 DEF Job1, At, Extends, Fetching
    <3>3. th[u].page[2] \in header[th[u].page[1]].bits
      BY <3>1, <3>2 DEF HeaderInv, WantedPages
    <3> QED
      BY <1>2, <1>4, <3>3
  <2> QED
    BY <1>7, <2>1 DEF HeaderInv, Disposers, At
<1>15. Openers'
  BY <1>3, <1>7 DEF HeaderInv, Openers
<1> QED
  <2>1. redo' = 0 /\ \A q \in opened \ {k[1]} : Whole(q)' = Whole(q) /\ header'[q] = header[q]
    BY <1>3, <1>4, <1>9, <1>10 DEF Steady, Typed
  <2> QED
    BY <1>1, <1>3, <1>4, <1>11, <1>12, <1>13, <1>14, <1>15, <2>1, HeaderAppend

LEMMA HeaderAllocateNew ==
  ASSUME Steady, HeaderInv, redo = 0, NEW t \in Threads, NEW p \in Pools, AllocateNew(t, p), Steady'
  PROVE  HeaderInv'
<1> DEFINE h == header[p]
           n == h.page_count
           k == <<p, n>>
           N == Len(clog)
<1>1. th[t].pc = "idle" /\ p \in opened /\ pool_lock[p] = None /\ n < MAX_PAGE_NUM
  BY DEF AllocateNew
<1>2. /\ AppendLog(k, "allocate") /\ header' = [header EXCEPT ![p].lsn = NextLsn]
      /\ Begin(t, "alloc", k, "extend")
      /\ UNCHANGED <<opened, disk_header, flushed, redo>>
  BY DEF AllocateNew, files, runs
<1>3. /\ ~ Grows(p) /\ h \in HeaderT /\ Good(clog, h, p, N) /\ n \in PageNums /\ n # 0 /\ n \notin h.bits
      /\ ~ Allocated(clog, p, n, N) /\ N \in Nat
      /\ \A q \in PageNums : q < n => q = 0 \/ Extended(clog, p, q, N)
  <2>1. \A u \in Threads : pool_lock[p] = u => ~ Extends(u)
    BY <1>1, PageIs
  <2>2. /\ ~ Grows(p) /\ h \in HeaderT /\ Good(clog, h, p, N) /\ N \in Nat
        /\ n \in Nat /\ n >= 1
        /\ (\A q \in h.bits : q \in PageNums /\ q < n)
        /\ (\A q \in PageNums : q # 0 => (q \in h.bits <=> Allocated(clog, p, q, N)))
        /\ \A q \in PageNums : q < n => q = 0 \/ Extended(clog, p, q, N)
    BY <1>1, <2>1, FreeHeader
  <2>3. n \in PageNums /\ n # 0 /\ n \notin h.bits
    BY <1>1, <2>2, BufferPoolAssumption DEF PageNums
  <2> QED
    BY <2>2, <2>3
<1>4. k \in Pages /\ k # None /\ k[1] = p /\ k[2] = n
  BY <1>3, PageIs
<1>5. /\ N \in Nat /\ Len(clog') = N + 1 /\ (\A i \in 1..N : clog'[i] = clog[i]) /\ clog'[N + 1].page = k
      /\ clog'[N + 1].op = "allocate" /\ NextLsn = N + 1
  BY <1>2, <1>4, AppendIs DEF Steady
<1>7. /\ \A u \in Threads \ {t} : th'[u] = th[u]
      /\ th'[t].pc = "alloc" /\ th'[t].page = k /\ th'[t].why = "extend"
  <2>1. th \in [Threads -> Job] /\ "alloc" \in Steps /\ "extend" \in Reasons
    BY DEF Steady, Typed, Steps, Reasons
  <2> QED
    BY <1>2, <1>4, <2>1, BeginIs
<1>8. /\ Extends(t)' /\ ~ Extends(t)
      /\ \A u \in Threads \ {t} : (Extends(u)' <=> Extends(u)) /\ th'[u] = th[u]
  BY <1>1, <1>7 DEF Extends, At, Fetching
<1>9. /\ header'[p].bits = h.bits /\ header'[p].page_count = n /\ header'[p].lsn = N + 1
      /\ header'[p].allocated_pages = h.allocated_pages /\ header'[p] \in HeaderT
      /\ \A q \in Pools : q # p => header'[q] = header[q]
  <2>1. header \in [Pools -> HeaderT] /\ header' \in [Pools -> HeaderT]
    BY DEF Steady, Typed
  <2>2. header'[p] = [h EXCEPT !.lsn = NextLsn] /\ \A q \in Pools : q # p => header'[q] = header[q]
    BY <1>2, <2>1
  <2> QED
    BY <1>5, <1>3, <2>1, <2>2 DEF HeaderT
<1> DEFINE g == Larger(header'[p])
<1>10. Grows(p)' /\ Whole(p)' = g
  <2>1. th'[t].page[1] = p
    BY <1>4, <1>7
  <2>2. Grows(p)'
    BY <1>8, <2>1 DEF Grows
  <2> QED
    BY <2>2 DEF Whole
<1>11. \A q \in Pools : q # p => Whole(q)' = Whole(q)
  <2>1. ASSUME NEW q \in Pools, q # p PROVE Grows(q)' <=> Grows(q)
    BY <1>4, <1>7, <1>8, <2>1 DEF Grows
  <2> QED
    BY <1>9, <2>1 DEF Whole
<1>12. /\ g \in HeaderT /\ g.bits = h.bits \cup {n} /\ g.page_count = n + 1 /\ g.lsn = N + 1
       /\ g.allocated_pages = h.allocated_pages + 1
  BY <1>3, <1>5, <1>9 DEF Larger, HeaderT
<1>13. Possible(clog', N + 1, p, n)
  <2> HIDE DEF N, n
  <2>1. ~ Allocated(clog', p, n, N)
    BY <1>3, <1>5, SamePrefix
  <2>2. ASSUME NEW q \in 1..(n - 1) PROVE Extended(clog', p, q, N)
    <3>1. q \in PageNums /\ q < n /\ q # 0
      BY <1>3, BufferPoolAssumption DEF PageNums
    <3>2. Extended(clog, p, q, N)
      BY <1>3, <3>1
    <3> QED
      BY <1>5, <3>2, SamePrefix
  <2>3. N + 1 - 1 = N
    BY <1>5
  <2> QED
    BY <1>3, <1>5, <2>1, <2>2, <2>3 DEF Possible
<1>14. Running(p)'
  <2> HIDE DEF g
  <2>1. Good(clog', h, p, N)
    <3> HIDE DEF N, h
    <3>1. h.lsn \in Nat
      BY <1>3 DEF HeaderT
    <3>2. \A i \in 1..N : clog[i] = clog'[i]
      BY <1>5
    <3> QED
      BY <1>3, <3>1, <3>2, SameGood
  <2>2. clog'[N + 1].page = <<p, h.page_count>>
    BY <1>5
  <2>3. Good(clog', g, p, N + 1)
    BY <1>1, <1>3, <1>5, <1>12, <2>1, <2>2, ExtendGood
  <2>4. PICK j \in Pages : j = k /\ j[1] = p
    BY <1>4
  <2>5. /\ AppendLog(j, "allocate") /\ Good(clog', Whole(j[1])', j[1], Len(clog) + 1) /\ j[1] \in opened
        /\ header'[j[1]].lsn = Len(clog) + 1
    BY <1>1, <1>2, <1>9, <1>10, <2>3, <2>4
  <2>6. Running(j[1])'
    BY <1>2, <2>5, RunningAppend
  <2> QED
    BY <2>4, <2>6
<1>15. WantedPages'
  <2>1. ASSUME NEW u \in Threads, th'[u].page # None, th'[u].why # "open"
        PROVE  IF Extends(u)' THEN th'[u].page[2] = header'[th'[u].page[1]].page_count
               ELSE th'[u].page[2] \in header'[th'[u].page[1]].bits
    <3>1. CASE u = t
      BY <1>4, <1>7, <1>8, <1>9, <3>1
    <3>2. CASE u # t
      <4>1. /\ th'[u] = th[u] /\ (Extends(u)' <=> Extends(u))
            /\ IF Extends(u) THEN th[u].page[2] = header[th[u].page[1]].page_count
               ELSE th[u].page[2] \in header[th[u].page[1]].bits
        BY <1>7, <1>8, <2>1, <3>2 DEF HeaderInv, WantedPages
      <4>2. th[u].page[1] \in Pools
        BY <2>1, <4>1, PageIs DEF Steady, Typed, Job
      <4> QED
        BY <1>9, <4>1, <4>2
    <3> QED
      BY <3>1, <3>2
  <2> QED
    BY <2>1 DEF WantedPages
<1>16. Disposers'
  <2>1. ASSUME NEW u \in Threads, u # t, At(u, {"dispose", "free"}) PROVE th[u].page # k
    <3>1. th[u].page # None /\ Job1(u) /\ th[u].page[1] \in Pools
      BY <2>1, Has DEF At
    <3>2. th[u].why # "open" /\ ~ Extends(u)
      BY <2>1, <3>1 DEF Job1, At, Extends, Fetching
    <3>3. th[u].page[2] \in header[th[u].page[1]].bits
      BY <3>1, <3>2 DEF HeaderInv, WantedPages
    <3> QED
      BY <1>3, <1>4, <3>3
  <2> QED
    BY <1>7, <2>1 DEF HeaderInv, Disposers, At
<1>17. Openers'
  BY <1>2, <1>7 DEF HeaderInv, Openers
<1> QED
  <2>1. redo' = 0 /\ \A q \in opened \ {p} : Whole(q)' = Whole(q) /\ header'[q] = header[q]
    BY <1>2, <1>9, <1>11 DEF Steady, Typed
  <2>2. PICK j \in Pages : j = k /\ j[1] = p /\ j[2] = n
    BY <1>4
  <2>3. /\ UNCHANGED <<opened, disk_header, flushed>> /\ j[1] \in opened /\ Running(j[1])'
        /\ Possible(clog', Len(clog) + 1, j[1], j[2]) /\ AppendLog(j, "allocate")
        /\ \A q \in opened \ {j[1]} : Whole(q)' = Whole(q) /\ header'[q] = header[q]
    BY <1>1, <1>2, <1>13, <1>14, <2>1, <2>2
  <2> QED
    BY <1>15, <1>16, <1>17, <2>1, <2>3, HeaderAppend

\* A step that leaves the log alone, and makes of a header what the log has.
LEMMA HeaderKept ==
  ASSUME Steady, HeaderInv, redo = 0, UNCHANGED <<clog, flushed, disk_header, opened, redo>>,
         \A q \in opened : Whole(q)' = Whole(q) /\ header'[q].lsn = header[q].lsn,
         WantedPages', Disposers', Openers'
  PROVE  HeaderInv'
<1>1. \A p \in Pools : (FileThere(p)' <=> FileThere(p)) /\ (OnDisk(p)' <=> OnDisk(p))
  BY DEF FileThere, OnDisk
<1>2. \A p \in opened : Running(p)'
  BY DEF Running, HeaderInv
<1> QED
  BY <1>1, <1>2 DEF HeaderInv, Steady, Typed

LEMMA HeaderAllocateNewDone ==
  ASSUME Steady, HeaderInv, redo = 0, NEW t \in Threads, AllocateNewDone(t)
  PROVE  HeaderInv'
<1>1. /\ Job1(t) /\ Owner(t) /\ None \notin Threads /\ th[t].pc = "load" /\ th[t].why = "extend"
      /\ th \in [Threads -> Job] /\ th[t].page \in Pages
  BY Has DEF AllocateNewDone
<1>2. PICK p \in Pools, n \in PageNums : th[t].page = <<p, n>> /\ th[t].page[1] = p /\ th[t].page[2] = n
  BY <1>1, PageIs
<1> DEFINE h == header[p]
<1>3. p \in opened /\ pool_lock[p] = t /\ Extends(t) /\ Grows(p) /\ n = h.page_count
  <2>1. p \in opened /\ pool_lock[p] = t /\ Extends(t) /\ th[t].page # None
    BY <1>1, <1>2, PageIs DEF Job1, Owner, At, Fetching, Extends
  <2> QED
    BY <1>1, <1>2, <2>1 DEF Grows, HeaderInv, WantedPages
<1>4. UNCHANGED <<clog, flushed, disk_header, opened, redo>>
  BY DEF AllocateNewDone, runs, logs
<1>5. /\ th' \in [Threads -> Job] /\ \A u \in Threads \ {t} : th'[u] = th[u]
      /\ th'[t].pc = "hold" /\ th'[t].page = th[t].page /\ th'[t].why = "extend"
  BY <1>1, ToIs DEF AllocateNewDone, Steps
<1>6. /\ header'[p] = Larger(h) /\ \A q \in Pools : q # p => header'[q] = header[q]
  <2>1. header \in [Pools -> HeaderT] /\ h \in HeaderT
    BY DEF Steady, Typed
  <2>2. header' = [header EXCEPT ![p] = [header[p] EXCEPT !.allocated_pages = @ + 1, !.page_count = @ + 1, !.bits = @ \cup {n}]]
    BY <1>2 DEF AllocateNewDone
  <2>3. /\ header'[p] = [h EXCEPT !.allocated_pages = @ + 1, !.page_count = @ + 1, !.bits = @ \cup {n}]
        /\ \A q \in Pools : q # p => header'[q] = header[q]
    BY <2>1, <2>2
  <2>4. h = [bits |-> h.bits, page_count |-> h.page_count, allocated_pages |-> h.allocated_pages, lsn |-> h.lsn]
    BY <2>1 DEF HeaderT
  <2>5. header'[p] = [bits |-> h.bits \cup {n}, page_count |-> h.page_count + 1,
                      allocated_pages |-> h.allocated_pages + 1, lsn |-> h.lsn]
    BY <2>3, <2>4
  <2> QED
    BY <1>3, <2>3, <2>5 DEF Larger
<1>7. ASSUME NEW u \in Threads \ {t} PROVE (Extends(u)' <=> Extends(u)) /\ (Extends(u) => th[u].page[1] # p)
  <2>1. Extends(u)' <=> Extends(u)
    BY <1>5 DEF Extends, At
  <2>2. ASSUME Extends(u), th[u].page[1] = p PROVE FALSE
    <3>1. pool_lock[p] = u
      BY <2>2 DEF Steady, ThreadInv, Sound, Owner, Extends, At
    <3> QED
      BY <1>3, <3>1
  <2> QED
    BY <2>1, <2>2
<1>8. ~ Extends(t)'
  BY <1>5 DEF Extends, At, Fetching
<1>9. ASSUME NEW q \in opened PROVE Whole(q)' = Whole(q) /\ header'[q].lsn = header[q].lsn
  <2>0. q \in Pools
    BY DEF Steady, Typed
  <2>1. CASE q = p
    <3>1. ~ Grows(p)'
      BY <1>5, <1>7, <1>8 DEF Grows
    <3>2. Whole(p)' = Larger(h) /\ Whole(p) = Larger(h) /\ Larger(h).lsn = h.lsn
      BY <1>3, <1>6, <3>1 DEF Whole, Larger
    <3> QED
      BY <1>6, <2>1, <3>2
  <2>2. CASE q # p
    <3>1. Grows(q)' <=> Grows(q)
      BY <1>2, <1>5, <1>7, <1>8, <2>2 DEF Grows
    <3> QED
      BY <1>6, <2>0, <2>2, <3>1 DEF Whole
  <2> QED
    BY <2>1, <2>2
<1>10. WantedPages'
  <2>1. ASSUME NEW u \in Threads, th'[u].page # None, th'[u].why # "open"
        PROVE  IF Extends(u)' THEN th'[u].page[2] = header'[th'[u].page[1]].page_count
               ELSE th'[u].page[2] \in header'[th'[u].page[1]].bits
    <3>0. n \in Larger(h).bits /\ h.bits \subseteq Larger(h).bits
      BY <1>3 DEF Larger
    <3>1. CASE u = t
      BY <1>2, <1>5, <1>6, <1>8, <3>0, <3>1
    <3>2. CASE u # t
      <4>1. /\ th'[u] = th[u] /\ (Extends(u)' <=> Extends(u)) /\ (Extends(u) => th[u].page[1] # p)
            /\ IF Extends(u) THEN th[u].page[2] = header[th[u].page[1]].page_count
               ELSE th[u].page[2] \in header[th[u].page[1]].bits
        BY <1>5, <1>7, <2>1, <3>2 DEF HeaderInv, WantedPages
      <4>2. th[u].page[1] \in Pools
        BY <2>1, <4>1, PageIs DEF Steady, Typed, Job
      <4> QED
        BY <1>6, <3>0, <4>1, <4>2
    <3> QED
      BY <3>1, <3>2
  <2> QED
    BY <2>1 DEF WantedPages
<1>11. Disposers'
  BY <1>5 DEF HeaderInv, Disposers, At
<1>12. Openers'
  BY <1>4, <1>5 DEF HeaderInv, Openers
<1> QED
  BY <1>4, <1>9, <1>10, <1>11, <1>12, HeaderKept

LEMMA HeaderDispose ==
  ASSUME Steady, HeaderInv, redo = 0, NEW t \in Threads, Dispose(t), Steady'
  PROVE  HeaderInv'
<1>1. /\ Job1(t) /\ Owner(t) /\ None \notin Threads /\ th[t].pc = "free" /\ th \in [Threads -> Job]
      /\ th[t].page \in Pages /\ th[t].page # None
  BY Has DEF Dispose
<1>2. PICK k \in Pages : k = th[t].page
  BY <1>1
<1>3. PICK p \in Pools, n \in PageNums : k = <<p, n>> /\ k[1] = p /\ k[2] = n
  BY PageIs
<1> DEFINE h == header[p]
           N == Len(clog)
<1>4. n # 0 /\ th[t].why # "open" /\ pool_lock[p] = t /\ p \in opened /\ ~ Extends(t)
  BY <1>1, <1>2, <1>3 DEF Job1, Owner, At, Fetching, Extends
<1>5. /\ ~ Grows(p) /\ h \in HeaderT /\ Good(clog, h, p, N) /\ N \in Nat /\ n \in h.bits /\ Allocated(clog, p, n, N)
  <2>1. \A u \in Threads : pool_lock[p] = u => ~ Extends(u)
    BY <1>4
  <2>2. /\ ~ Grows(p) /\ h \in HeaderT /\ Good(clog, h, p, N) /\ N \in Nat
        /\ \A q \in PageNums : q # 0 => (q \in h.bits <=> Allocated(clog, p, q, N))
    BY <1>4, <2>1, FreeHeader
  <2>3. n \in h.bits
    BY <1>1, <1>2, <1>3, <1>4 DEF HeaderInv, WantedPages
  <2> QED
    BY <1>4, <2>2, <2>3
<1>6. /\ AppendLog(k, "deallocate") /\ End(t)
      /\ header' = [header EXCEPT ![p] = [header[p] EXCEPT !.allocated_pages = @ - 1, !.bits = @ \ {n}, !.lsn = NextLsn]]
      /\ UNCHANGED <<opened, disk_header, flushed, redo>>
  BY <1>2, <1>3 DEF Dispose, files, runs
<1>7. /\ Len(clog') = N + 1 /\ (\A i \in 1..N : clog'[i] = clog[i]) /\ clog'[N + 1].page = k
      /\ clog'[N + 1].op = "deallocate" /\ NextLsn = N + 1
  BY <1>6, AppendIs DEF Steady
<1>8. /\ \A u \in Threads \ {t} : th'[u] = th[u]
      /\ th'[t].pc = "idle" /\ th'[t].page = None /\ th'[t].why = "none"
  BY <1>1, <1>6, EndIs
<1>9. /\ header'[p].bits = h.bits \ {n} /\ header'[p].page_count = h.page_count /\ header'[p].lsn = N + 1
      /\ header'[p].allocated_pages = h.allocated_pages - 1 /\ header'[p] \in HeaderT
      /\ \A q \in Pools : q # p => header'[q] = header[q]
  <2>1. header \in [Pools -> HeaderT] /\ header' \in [Pools -> HeaderT]
    BY DEF Steady, Typed
  <2>2. /\ header'[p] = [h EXCEPT !.allocated_pages = @ - 1, !.bits = @ \ {n}, !.lsn = NextLsn]
        /\ \A q \in Pools : q # p => header'[q] = header[q]
    BY <1>6, <2>1
  <2> QED
    BY <1>5, <1>7, <2>1, <2>2 DEF HeaderT
<1>10. \A u \in Threads : (Extends(u)' <=> Extends(u)) /\ (Extends(u) => th'[u].page = th[u].page)
  BY <1>4, <1>8 DEF Extends, At, Fetching
<1>11. \A q \in Pools : (Grows(q)' <=> Grows(q)) /\ (q # p => Whole(q)' = Whole(q))
  BY <1>9, <1>10 DEF Grows, Whole
<1>12. Possible(clog', N + 1, p, n)
  <2> HIDE DEF N
  <2>1. Allocated(clog', p, n, N)
    BY <1>5, <1>7, SamePrefix
  <2>2. N + 1 - 1 = N
    BY <1>5
  <2>3. clog'[N + 1].op = "deallocate"
    BY <1>7
  <2> QED
    BY <1>4, <1>5, <2>1, <2>2, <2>3 DEF Possible
<1>13. Running(p)'
  <2> DEFINE g == header'[p]
  <2>1. Good(clog', h, p, N)
    <3> HIDE DEF N, h
    <3>1. h.lsn \in Nat
      BY <1>5 DEF HeaderT
    <3>2. \A i \in 1..N : clog[i] = clog'[i]
      BY <1>7
    <3> QED
      BY <1>5, <3>1, <3>2, SameGood
  <2>2. Good(clog', g, p, N + 1)
    <3>1. clog'[N + 1].page = <<p, n>>
      BY <1>3, <1>7
    <3> HIDE DEF g
    <3> QED
      BY <1>4, <1>5, <1>7, <1>9, <2>1, <3>1, FreeGood DEF g
  <2>3. Whole(p)' = g
    BY <1>5, <1>11 DEF Whole
  <2>4. Good(clog', Whole(k[1])', k[1], Len(clog) + 1) /\ k[1] \in opened /\ header'[k[1]].lsn = Len(clog) + 1
    BY <1>3, <1>4, <1>9, <2>2, <2>3
  <2>5. Running(k[1])'
    BY <1>6, <2>4, RunningAppend
  <2> QED
    BY <1>3, <2>5
<1>14. WantedPages'
  <2>1. ASSUME NEW u \in Threads, th'[u].page # None, th'[u].why # "open"
        PROVE  IF Extends(u)' THEN th'[u].page[2] = header'[th'[u].page[1]].page_count
               ELSE th'[u].page[2] \in header'[th'[u].page[1]].bits
    <3>1. u # t
      BY <1>8, <2>1
    <3>2. /\ th'[u] = th[u] /\ (Extends(u)' <=> Extends(u))
          /\ IF Extends(u) THEN th[u].page[2] = header[th[u].page[1]].page_count
             ELSE th[u].page[2] \in header[th[u].page[1]].bits
      BY <1>8, <1>10, <2>1, <3>1 DEF HeaderInv, WantedPages
    <3>3. th[u].page[1] \in Pools /\ th[u].page = <<th[u].page[1], th[u].page[2]>>
      <4>1. th[u].page \in Pages
        BY <2>1, <3>2 DEF Steady, Typed, Job
      <4> QED
        BY <4>1, PageIs
    <3>4. th[u].page # k
      BY <1>1, <1>2, <3>1 DEF HeaderInv, Disposers, At
    <3>5. th[u].page[1] = p => th[u].page[2] # n
      BY <1>3, <3>3, <3>4
    <3> QED
      BY <1>9, <3>2, <3>3, <3>5
  <2> QED
    BY <2>1 DEF WantedPages
<1>15. Disposers'
  <2>1. \A u \in Threads : At(u, {"dispose", "free"}) => th[u].page # None
    BY Has DEF At
  <2> QED
    BY <1>8, <2>1 DEF HeaderInv, Disposers, At
<1>16. Openers'
  BY <1>6, <1>8 DEF HeaderInv, Openers
<1> QED
  <2>1. redo' = 0 /\ \A q \in opened \ {k[1]} : Whole(q)' = Whole(q) /\ header'[q] = header[q]
    BY <1>3, <1>6, <1>9, <1>11 DEF Steady, Typed
  <2>2. /\ UNCHANGED <<opened, disk_header, flushed>> /\ k[1] \in opened /\ Running(k[1])'
        /\ Possible(clog', Len(clog) + 1, k[1], k[2])
    BY <1>3, <1>4, <1>6, <1>12, <1>13
  <2> QED
    BY <1>6, <1>14, <1>15, <1>16, <2>1, <2>2, HeaderAppend

LEMMA HeaderOpenFile ==
  ASSUME Steady, HeaderInv, redo = 0, NEW t \in Threads, NEW p \in Pools, OpenFile(t, p)
  PROVE  HeaderInv'
<1>1. Header(p) \in Pages /\ Header(p) # None /\ Header(p)[1] = p /\ Header(p)[2] = 0 /\ None \notin Threads
  BY PageIs
<1>2. /\ th[t].pc = "idle" /\ p \notin opened /\ bpm_lock = None /\ Begin(t, "alloc", Header(p), "open")
      /\ disk_header' = [disk_header EXCEPT ![p] = NewHeader]
      /\ UNCHANGED <<opened, header, clog, flushed, redo>>
  BY DEF OpenFile, logs, runs
<1>3. th \in [Threads -> Job] /\ disk_header \in [Pools -> HeaderT] /\ flushed \in Nat /\ opened \subseteq Pools
  BY DEF Steady, Typed
<1>4. /\ \A u \in Threads \ {t} : th'[u] = th[u]
      /\ th'[t].pc = "alloc" /\ th'[t].page = Header(p) /\ th'[t].why = "open"
  BY <1>1, <1>2, <1>3, BeginIs DEF Steps, Reasons
<1>5. disk_header'[p] = NewHeader /\ \A q \in Pools : q # p => disk_header'[q] = disk_header[q]
  BY <1>2, <1>3
<1>6. \A u \in Threads : (Extends(u)' <=> Extends(u)) /\ (Extends(u) => th'[u] = th[u])
  BY <1>2, <1>4 DEF Extends, At, Fetching
<1>7. \A q : Whole(q)' = Whole(q)
  BY <1>2, <1>6 DEF Whole, Grows
<1>8. \A q \in opened : Running(q)' /\ FileThere(q)'
  BY <1>2, <1>3, <1>5, <1>7 DEF HeaderInv, Running, FileThere
<1>9. ASSUME NEW q \in Pools, FileThere(q)' PROVE OnDisk(q)'
  <2>1. CASE q = p
    <3>1. Silent(clog, 0, 0, p) /\ 0 \in 0..flushed
      BY <1>3 DEF Silent
    <3>2. Good(clog, NewHeader, p, 0)
      BY <3>1, NewGood
    <3> QED
      BY <1>2, <1>5, <2>1, <3>1, <3>2 DEF OnDisk
  <2>2. CASE q # p
    BY <1>2, <1>5, <1>9, <2>2 DEF HeaderInv, OnDisk, FileThere
  <2> QED
    BY <2>1, <2>2
<1>10. WantedPages'
  BY <1>2, <1>4, <1>6 DEF HeaderInv, WantedPages
<1>11. Disposers'
  <2>1. ASSUME NEW u \in Threads, At(u, {"dispose", "free"}) PROVE th[u].page[2] # 0
    <3>1. Job1(u) /\ th[u].page # None
      BY <2>1, Has DEF At
    <3> QED
      BY <2>1, <3>1 DEF Job1, At
  <2>2. \A u \in Threads : At(u, {"dispose", "free"}) => th[u].page # Header(p)
    BY <1>1, <2>1
  <2> QED
    BY <1>4, <2>2 DEF HeaderInv, Disposers, At
<1>12. Openers'
  <2>1. \A u \in Threads \ {t} : th[u].why # "open"
    BY <1>1, <1>2 DEF Steady, ThreadInv, Sound, Owner
  <2> QED
    BY <1>1, <1>4, <1>5, <2>1 DEF Openers
<1> QED
  BY <1>2, <1>8, <1>9, <1>10, <1>11, <1>12 DEF HeaderInv

LEMMA HeaderOpenFileDone ==
  ASSUME Steady, HeaderInv, redo = 0, NEW t \in Threads, OpenFileDone(t)
  PROVE  HeaderInv'
<1>1. /\ Job1(t) /\ None \notin Threads /\ th[t].pc = "load" /\ th[t].why = "open"
      /\ th \in [Threads -> Job] /\ th[t].page \in Pages /\ th[t].page # None /\ th[t].page[1] \in Pools
  BY Has DEF OpenFileDone
<1>2. PICK p \in Pools : p = th[t].page[1]
  BY <1>1
<1>3. p \notin opened /\ disk_header[p] = NewHeader
  BY <1>1, <1>2 DEF Job1, HeaderInv, Openers
<1>4. /\ header' = [header EXCEPT ![p] = disk_header[p]] /\ opened' = opened \cup {p} /\ End(t)
      /\ UNCHANGED <<disk_header, clog, flushed, redo>>
  BY <1>2 DEF OpenFileDone, PoolOf, files, logs, runs
<1>5. /\ \A u \in Threads \ {t} : th'[u] = th[u]
      /\ th'[t].pc = "idle" /\ th'[t].page = None /\ th'[t].why = "none"
  BY <1>1, <1>4, EndIs
<1>6. /\ header'[p] = NewHeader /\ \A q \in Pools : q # p => header'[q] = header[q]
  BY <1>3, <1>4 DEF Steady, Typed
<1>7. ASSUME NEW u \in Threads
      PROVE  /\ (Extends(u)' <=> Extends(u)) /\ (Extends(u) => th'[u] = th[u])
             /\ th'[u].page # None /\ th'[u].why # "open" => th[u].page[1] \in opened /\ th'[u] = th[u]
  <2>1. Job1(u)
    BY DEF Steady, ThreadInv, Sound
  <2>2. CASE u = t
    BY <1>1, <1>5, <2>2 DEF Extends, At
  <2>3. CASE u # t
    BY <1>5, <2>1, <2>3 DEF Extends, At, Job1
  <2> QED
    BY <2>2, <2>3
<1>8. \A q : Grows(q)' <=> Grows(q)
  BY <1>7 DEF Grows
<1>9. ~ Grows(p)
  <2>1. ASSUME NEW u \in Threads, Extends(u) PROVE th[u].page[1] \in opened
    <3>1. Job1(u) /\ th[u].page # None
      BY <2>1, Has DEF Extends, At, Fetching
    <3> QED
      BY <2>1, <3>1 DEF Job1, Extends
  <2> QED
    BY <1>3, <2>1 DEF Grows
<1>10. ASSUME NEW q \in opened' PROVE Running(q)' /\ FileThere(q)'
  <2>1. CASE q = p
    <3>1. Len(clog) \in Nat /\ Silent(clog, 0, Len(clog), p) /\ \A i \in (flushed + 1)..Len(clog) : clog[i].page[1] # p
      <4>1. Len(clog) \in Nat /\ flushed \in Nat /\ \A i \in 1..Len(clog) : clog[i].page[1] # p
        BY <1>3 DEF Steady, Typed, HeaderInv
      <4> QED
        BY <4>1 DEF Silent
    <3>2. Good(clog, NewHeader, p, Len(clog))
      BY <3>1, NewGood
    <3>3. Whole(p)' = NewHeader
      BY <1>6, <1>8, <1>9 DEF Whole
    <3> QED
      BY <1>3, <1>4, <2>1, <3>1, <3>2, <3>3, NewHeaderIs DEF Running, FileThere
  <2>2. CASE q # p
    <3>1. q \in Pools /\ q \in opened
      BY <1>4, <2>2 DEF Steady, Typed
    <3>2. Whole(q)' = Whole(q) /\ header'[q] = header[q]
      BY <1>6, <1>8, <2>2, <3>1 DEF Whole
    <3> QED
      BY <1>4, <3>1, <3>2 DEF HeaderInv, Running, FileThere
  <2> QED
    BY <2>1, <2>2
<1>11. \A q \in Pools : FileThere(q)' => OnDisk(q)'
  BY <1>4 DEF HeaderInv, FileThere, OnDisk
<1>12. WantedPages'
  <2>1. ASSUME NEW u \in Threads, th'[u].page # None, th'[u].why # "open"
        PROVE  IF Extends(u)' THEN th'[u].page[2] = header'[th'[u].page[1]].page_count
               ELSE th'[u].page[2] \in header'[th'[u].page[1]].bits
    <3>1. th'[u] = th[u] /\ th[u].page[1] \in opened /\ (Extends(u)' <=> Extends(u))
      BY <1>7, <2>1
    <3>2. header'[th[u].page[1]] = header[th[u].page[1]]
      BY <1>3, <1>6, <3>1 DEF Steady, Typed
    <3> QED
      BY <2>1, <3>1, <3>2 DEF HeaderInv, WantedPages
  <2> QED
    BY <2>1 DEF WantedPages
<1>13. Disposers'
  <2>1. \A u \in Threads : At(u, {"dispose", "free"}) => th[u].page # None
    BY Has DEF At
  <2> QED
    BY <1>5, <2>1 DEF HeaderInv, Disposers, At
<1>14. Openers'
  BY <1>4, <1>5 DEF HeaderInv, Openers
<1>15. LogSane(clog') /\ \A i \in 1..Len(clog') : clog'[i].page[1] \in opened'
  BY <1>4 DEF HeaderInv
<1> QED
  BY <1>4, <1>10, <1>11, <1>12, <1>13, <1>14, <1>15 DEF HeaderInv

LEMMA HeaderSyncFlush ==
  ASSUME Steady, HeaderInv, redo = 0, NEW t \in Threads, NEW k \in Pages, SyncFlush(t, k)
  PROVE  HeaderInv'
<1>1. /\ th[t].pc = "sync" /\ k \in DOMAIN frames /\ flushed >= LsnOf(k) /\ k[1] \in Pools
      /\ UNCHANGED <<opened, header, clog, flushed, th, redo>>
  BY PageIs DEF SyncFlush, logs, runs
<1>2. /\ \A u \in Threads : At(u, {"idle", "sync"}) /\ th[u].page = None /\ th[u].why = "none" /\ ~ Extends(u)
  <2>1. ASSUME NEW u \in Threads PROVE At(u, {"idle", "sync"}) /\ Job1(u)
    BY <1>1 DEF Steady, ThreadInv, SyncAlone, Sound, At
  <2>2. \A u \in Threads : th[u].page = None /\ th[u].why = "none"
    BY <2>1 DEF Job1
  <2> QED
    BY <2>1, <2>2 DEF Extends
<1>3. CASE k[2] # 0
  <2>1. UNCHANGED disk_header
    BY <1>3 DEF SyncFlush
  <2>2. \A u \in Threads : Extends(u)' <=> Extends(u)
    BY <1>1 DEF Extends, At
  <2>3. \A u \in Threads : At(u, {"dispose", "free"})' <=> At(u, {"dispose", "free"})
    BY <1>1 DEF At
  <2> QED
    BY <1>1, <2>1, <2>2, <2>3, HeaderSame
<1>4. CASE k[2] = 0
  <2>1. PICK p \in Pools : p = k[1]
    BY <1>1
  <2>2. /\ disk_header' = [disk_header EXCEPT ![p] = header[p]] /\ flushed >= header[p].lsn
    BY <1>1, <1>4, <2>1 DEF SyncFlush, LsnOf
  <2>3. p \in opened
    BY <1>1, <1>2, <1>4, <2>1 DEF Steady, ThreadInv, HeaderFrames, At
  <2>4. disk_header'[p] = header[p] /\ \A q \in Pools : q # p => disk_header'[q] = disk_header[q]
    BY <2>2 DEF Steady, Typed
  <2>5. ~ Grows(p) /\ Whole(p) = header[p] /\ Good(clog, header[p], p, Len(clog)) /\ header[p].page_count >= 1
        /\ header[p].page_count \in Nat
    BY <1>2, <2>3, FreeHeader
  <2>6. Good(clog, header[p], p, flushed)
    <3>1. /\ flushed \in Nat /\ Len(clog) \in Nat /\ flushed <= Len(clog) /\ header[p].lsn \in Nat /\ Running(p)
      BY <2>3, WholeIs DEF Steady, Typed
    <3>2. Silent(clog, flushed, Len(clog), p)
      <4>1. \A i \in (flushed + 1)..Len(clog) : ~ (clog[i].page[1] = p /\ clog[i].op # "change")
        BY <2>2, <3>1 DEF Running
      <4> QED
        BY <4>1 DEF Silent
    <3> QED
      BY <2>2, <2>5, <3>1, <3>2, SilentGood
  <2>7. ASSUME NEW q \in Pools, FileThere(q)' PROVE OnDisk(q)'
    <3>1. CASE q = p
      <4>1. flushed \in 0..flushed
        BY DEF Steady, Typed
      <4> QED
        BY <1>1, <2>4, <2>6, <3>1, <4>1 DEF OnDisk
    <3>2. CASE q # p
      BY <1>1, <2>4, <2>7, <3>2 DEF HeaderInv, FileThere, OnDisk
    <3> QED
      BY <3>1, <3>2
  <2>8. \A q \in opened : FileThere(q)'
    <3>1. opened \subseteq Pools
      BY DEF Steady, Typed
    <3> QED
      BY <2>4, <2>5, <3>1 DEF HeaderInv, FileThere
  <2>9. \A q \in opened : Running(q)'
    <3>1. \A q : Whole(q)' = Whole(q)
      BY <1>1 DEF Whole, Grows, Extends, At
    <3> QED
      BY <1>1, <3>1 DEF HeaderInv, Running
  <2>10. WantedPages' /\ Disposers' /\ Openers'
    BY <1>1, <1>2 DEF WantedPages, Disposers, Openers, At
  <2> QED
    BY <1>1, <2>7, <2>8, <2>9, <2>10 DEF HeaderInv
<1> QED
  BY <1>3, <1>4

LEMMA HeaderLogFlush ==
  ASSUME Steady, HeaderInv, LogFlush
  PROVE  HeaderInv'
<1>1. /\ flushed' = flushed + 1 /\ flushed \in Nat
      /\ UNCHANGED <<opened, header, disk_header, clog, th, redo, failed>>
  BY DEF LogFlush, files, runs, Steady, Typed
<1>2. \A p \in Pools : FileThere(p)' => OnDisk(p)'
  BY <1>1 DEF HeaderInv, FileThere, OnDisk
<1>3. \A p : Whole(p)' = Whole(p)
  BY <1>1 DEF Whole, Grows, Extends, At
<1>4. redo = 0 => \A p \in opened : Running(p)'
  BY <1>1, <1>3 DEF HeaderInv, Running
<1>5. \A p \in opened : (Redone(p)' <=> Redone(p)) /\ FileThere(p)'
  BY <1>1 DEF HeaderInv, FileThere, Redone
<1>6. WantedPages' /\ Disposers' /\ Openers'
  BY <1>1 DEF HeaderInv, WantedPages, Disposers, Openers, At, Extends
<1>7. \A p \in Pools : FileThere(p)' <=> FileThere(p)
  BY <1>1 DEF FileThere
<1> QED
  BY <1>1, <1>2, <1>4, <1>5, <1>6, <1>7 DEF HeaderInv

\* Nobody does anything.
LEMMA IdleHeader ==
  ASSUME \A t \in Threads : th'[t].pc = "idle" /\ th'[t].page = None /\ th'[t].why = "none"
  PROVE  WantedPages' /\ Disposers' /\ Openers' /\ \A p : Whole(p)' = header'[p]
BY DEF WantedPages, Disposers, Openers, Whole, Grows, Extends, At

LEMMA HeaderCrash ==
  ASSUME Steady, HeaderInv, Crash
  PROVE  HeaderInv'
<1> DEFINE exist == {p \in Pools : disk_header[p].page_count > 0}
<1>1. /\ opened' = exist /\ header' = disk_header /\ clog' = SubSeq(clog, 1, flushed)
      /\ th' = [t \in Threads |-> Idle] /\ redo' = 1 /\ UNCHANGED <<disk_header, flushed>>
  BY DEF Crash, files
<1>2. Len(clog') = flushed /\ flushed \in Nat /\ (\A i \in 1..flushed : clog'[i] = clog[i] /\ i \in 1..Len(clog))
  BY <1>1 DEF Steady, Typed
<1>3. LogSane(clog')
  <2>1. ASSUME NEW i \in 1..flushed PROVE Possible(clog', i, clog'[i].page[1], clog'[i].page[2])
    <3>1. Possible(clog, i, clog[i].page[1], clog[i].page[2]) /\ clog[i].page[2] \in Nat
      <4>1. clog[i] \in BufferPoolLogEntry /\ i \in 1..Len(clog)
        BY <1>2 DEF Steady, Typed
      <4> QED
        BY <4>1, PageIs DEF HeaderInv, LogSane, BufferPoolLogEntry
    <3>2. i \in Nat \ {0} /\ clog'[i] = clog[i] /\ \A j \in 1..i : clog[j] = clog'[j]
      BY <1>2
    <3> QED
      BY <3>1, <3>2, SamePossible
  <2> QED
    BY <1>2, <2>1 DEF LogSane
<1>4. \A i \in 1..Len(clog') : clog'[i].page[1] \in opened'
  <2>1. \A p \in opened : p \in exist
    BY DEF HeaderInv, FileThere, Steady, Typed
  <2> QED
    BY <1>1, <1>2, <2>1 DEF HeaderInv
<1>5. \A p \in Pools : FileThere(p)' <=> p \in opened'
  BY <1>1 DEF FileThere
<1>6. ASSUME NEW p \in Pools, FileThere(p)' PROVE OnDisk(p)' /\ Redone(p)'
  <2>1. PICK m \in 0..flushed : Good(clog, disk_header[p], p, m)
    BY <1>1, <1>6 DEF HeaderInv, FileThere, OnDisk
  <2>2. Good(clog', disk_header[p], p, m)
    <3>1. disk_header[p].lsn \in Nat
      BY DEF Steady, Typed, HeaderT
    <3>2. m \in Nat /\ \A i \in 1..m : clog[i] = clog'[i]
      BY <1>2
    <3> QED
      BY <2>1, <3>1, <3>2, SameGood
  <2> QED
    BY <1>1, <1>2, <2>2 DEF OnDisk, Redone
<1>7. WantedPages' /\ Disposers' /\ Openers'
  BY <1>1, IdleIs, IdleHeader
<1> QED
  <2>1. opened' \subseteq Pools
    BY <1>1
  <2>2. /\ \A p \in opened' : FileThere(p)' /\ Redone(p)'
        /\ \A p \in Pools : FileThere(p)' => OnDisk(p)' /\ p \in opened'
    BY <1>5, <1>6, <2>1
  <2>3. redo' # 0
    BY <1>1
  <2> QED
    BY <1>3, <1>4, <1>7, <2>2, <2>3 DEF HeaderInv

\* Redo of an entry brings the header to it, and never fails.
LEMMA RedoAllocateGood ==
  ASSUME NEW L, NEW m \in Nat, NEW i \in Nat \ {0}, m >= i - 1, NEW p \in Pools, NEW n \in PageNums,
         NEW h \in HeaderT, Good(L, h, p, m), L[i].page = <<p, n>>, L[i].op = "allocate", Possible(L, i, p, n)
  PROVE  ~ RedoAllocateFails(h, i, n) /\ \E r \in {m, i} : r >= i /\ Good(L, RedoAllocate(h, i, n), p, r)
<1>1. h.bits \subseteq PageNums /\ AsOf(L, h, p, m) /\ h.lsn \in Nat /\ h.lsn <= m
  BY DEF HeaderT, Good
<1>2. /\ \A q \in h.bits : q < h.page_count
      /\ h.page_count \in Nat /\ h.page_count >= 1 /\ h.page_count <= MAX_PAGE_NUM
      /\ \A q \in PageNums : q # 0 => (q \in h.bits <=> Allocated(L, p, q, m))
  BY <1>1, BitsInFile
<1>3. CASE h.lsn >= i
  <2>1. ~ (h.lsn < i) /\ m >= i
    BY <1>1, <1>3
  <2> QED
    BY <1>3, <2>1 DEF RedoAllocateFails, RedoAllocate
<1>4. CASE h.lsn < i /\ m >= i
  <2>1. n \in h.bits
    <3>1. i \in (h.lsn + 1)..m
      BY <1>1, <1>4
    <3> QED
      BY <3>1 DEF Good
  <2>2. n < h.page_count /\ n \in Nat
    BY <1>2, <2>1, PageIs
  <2>3. ~ RedoAllocateFails(h, i, n)
    BY <1>2, <1>4, <2>2 DEF RedoAllocateFails
  <2>4. RedoAllocate(h, i, n) = h
    BY <1>1, <1>4, <2>1, <2>2 DEF RedoAllocate
  <2> QED
    BY <1>4, <2>3, <2>4
<1>5. CASE h.lsn < i /\ m < i
  <2>1. m = i - 1 /\ i = m + 1 /\ ~ (h.lsn >= i)
    BY <1>1, <1>5
  <2>2. n \in Nat /\ n # 0 /\ n \notin h.bits /\ \A q \in 1..(n - 1) : Extended(L, p, q, m)
    BY <1>2, <2>1, PageIs DEF Possible
  <2>3. n <= h.page_count
    <3>1. CASE n = 1
      BY <1>2, <3>1
    <3>2. CASE n # 1
      <4>1. n - 1 \in PageNums /\ n - 1 \in 1..(n - 1)
        BY <2>2, <3>2, BufferPoolAssumption DEF PageNums
      <4>2. n - 1 < h.page_count
        BY <1>1, <2>2, <4>1 DEF AsOf
      <4> QED
        BY <1>2, <2>2, <4>2
    <3> QED
      BY <3>1, <3>2
  <2>4. ~ RedoAllocateFails(h, i, n)
    <3>1. n < MAX_PAGE_NUM /\ MAX_PAGE_NUM \in Nat
      BY BufferPoolAssumption DEF PageNums
    <3> QED
      BY <1>2, <2>2, <2>3, <3>1 DEF RedoAllocateFails
  <2> DEFINE g == RedoAllocate(h, i, n)
  <2>5. g \in HeaderT
    BY RedoHeaderTyped
  <2>6. CASE n < h.page_count
    <3>1. g = [h EXCEPT !.bits = @ \cup {n}, !.allocated_pages = @ + 1]
      BY <1>5, <2>1, <2>2, <2>6 DEF RedoAllocate
    <3>2. g.bits = h.bits \cup {n} /\ g.page_count = h.page_count /\ g.allocated_pages = h.allocated_pages + 1
          /\ g.lsn = h.lsn
      BY <3>1 DEF HeaderT
    <3>3. Good(L, g, p, m + 1)
      <4> HIDE DEF g
      <4> QED
        BY <2>1, <2>2, <2>5, <2>6, <3>2, MarkGood
    <3> QED
      BY <2>1, <2>4, <3>3
  <2>7. CASE ~ (n < h.page_count)
    <3>0. n = h.page_count /\ n < MAX_PAGE_NUM
      BY <1>2, <2>2, <2>3, <2>7, BufferPoolAssumption DEF PageNums
    <3>1. g = [bits |-> h.bits \cup {n}, page_count |-> n + 1, allocated_pages |-> h.allocated_pages + 1, lsn |-> i]
      BY <1>5, <2>1, <2>2, <2>7 DEF RedoAllocate
    <3>2. g.bits = h.bits \cup {n} /\ g.page_count = n + 1 /\ g.allocated_pages = h.allocated_pages + 1
          /\ g.lsn = m + 1
      BY <2>1, <3>1
    <3>3. Good(L, g, p, m + 1)
      <4> HIDE DEF g
      <4> QED
        BY <2>1, <2>5, <3>0, <3>2, ExtendGood
    <3> QED
      BY <2>1, <2>4, <3>3
  <2> QED
    BY <2>6, <2>7
<1> QED
  BY <1>1, <1>3, <1>4, <1>5

LEMMA RedoDeallocateGood ==
  ASSUME NEW L, NEW m \in Nat, NEW i \in Nat \ {0}, m >= i - 1, NEW p \in Pools, NEW n \in PageNums,
         NEW h \in HeaderT, Good(L, h, p, m), L[i].page = <<p, n>>, L[i].op = "deallocate", Possible(L, i, p, n)
  PROVE  ~ RedoDeallocateFails(h, i, n) /\ \E r \in {m, i} : r >= i /\ Good(L, RedoDeallocate(h, i, n), p, r)
<1>1. h.bits \subseteq PageNums /\ AsOf(L, h, p, m) /\ h.lsn \in Nat /\ h.lsn <= m
  BY DEF HeaderT, Good
<1>2. \A q \in PageNums : q # 0 => (q \in h.bits <=> Allocated(L, p, q, m))
  BY <1>1, BitsInFile
<1>3. CASE h.lsn >= i
  <2>1. ~ (h.lsn < i) /\ m >= i
    BY <1>1, <1>3
  <2> QED
    BY <1>3, <2>1 DEF RedoDeallocateFails, RedoDeallocate
<1>4. ~ (h.lsn < i /\ m >= i)
  <2>1. SUFFICES ASSUME h.lsn < i, m >= i PROVE FALSE
    OBVIOUS
  <2>2. i \in (h.lsn + 1)..m
    BY <1>1, <2>1
  <2>3. L[i].page[1] = p /\ L[i].op # "change" /\ L[i].op # "allocate"
    OBVIOUS
  <2> QED
    BY <2>2, <2>3 DEF Good
<1>5. CASE h.lsn < i /\ m < i
  <2>1. m = i - 1 /\ i = m + 1 /\ ~ (h.lsn >= i)
    BY <1>1, <1>5
  <2>2. n # 0 /\ n \in h.bits
    BY <1>2, <2>1 DEF Possible
  <2>3. ~ RedoDeallocateFails(h, i, n)
    BY <2>2 DEF RedoDeallocateFails
  <2> DEFINE g == RedoDeallocate(h, i, n)
  <2>4. g \in HeaderT
    BY RedoHeaderTyped
  <2>5. g = [h EXCEPT !.bits = @ \ {n}, !.allocated_pages = @ - 1, !.lsn = i]
    BY <2>1 DEF RedoDeallocate
  <2>6. g.bits = h.bits \ {n} /\ g.page_count = h.page_count /\ g.allocated_pages = h.allocated_pages - 1
        /\ g.lsn = m + 1
    BY <2>1, <2>5 DEF HeaderT
  <2>7. Good(L, g, p, m + 1)
    <3> HIDE DEF g
    <3> QED
      BY <2>1, <2>2, <2>4, <2>6, FreeGood
  <2> QED
    BY <2>1, <2>3, <2>7
<1> QED
  BY <1>1, <1>3, <1>4, <1>5

\* Redo comes to an entry: the headers of the other pools are as good after it.
LEMMA RedonePast ==
  ASSUME Steady, HeaderInv, redo \in 1..Len(clog), ~ failed, NEW q \in opened,
         clog[redo].page[1] # q \/ clog[redo].op = "change"
  PROVE  \E m \in redo..Len(clog) : Good(clog, header[q], q, m)
<1>1. q \in Pools /\ Len(clog) \in Nat /\ redo \in Nat /\ header[q].lsn \in Nat
  BY DEF Steady, Typed, HeaderT
<1>2. PICK m \in (redo - 1)..Len(clog) : Good(clog, header[q], q, m)
  BY DEF HeaderInv, Redone
<1>3. CASE m >= redo
  BY <1>1, <1>2, <1>3
<1>4. CASE m < redo
  <2>1. m \in Nat /\ redo = m + 1 /\ m <= redo
    BY <1>1, <1>2, <1>4
  <2>2. Silent(clog, m, redo, q)
    BY <1>1, <2>1 DEF Silent
  <2>3. Good(clog, header[q], q, redo)
    BY <1>1, <1>2, <2>1, <2>2, SilentGood
  <2> QED
    BY <1>1, <2>3
<1> QED
  BY <1>1, <1>2, <1>3, <1>4

\* While redo runs: what a step needs to keep.
LEMMA HeaderRedo ==
  ASSUME Steady, HeaderInv, redo > 0, redo' > 0, UNCHANGED <<opened, disk_header, clog, flushed, th>>,
         failed' \/ \A q \in opened : Redone(q)'
  PROVE  HeaderInv'
<1>1. redo # 0 /\ redo' # 0
  BY DEF Steady, Typed
<1>2. \A t \in Threads : th[t].pc = "idle" /\ th[t].page = None /\ th[t].why = "none"
  BY DEF Steady, ThreadInv, Sound, Job1, At
<1>3. WantedPages' /\ Disposers' /\ Openers'
  BY <1>2, IdleHeader
<1>4. \A p \in Pools : (FileThere(p)' <=> FileThere(p)) /\ (OnDisk(p)' <=> OnDisk(p))
  BY DEF FileThere, OnDisk
<1>5. opened \subseteq Pools
  BY DEF Steady, Typed
<1> QED
  BY <1>1, <1>3, <1>4, <1>5 DEF HeaderInv

\* The log has only entries that redo_allocate_page and redo_deallocate_page accept.
LEMMA RedoHeaderIs ==
  ASSUME Steady, HeaderInv, RedoHeader
  PROVE  /\ failed' = failed /\ \A q \in opened : Redone(q)'
         /\ redo \in 1..Len(clog) /\ redo' = redo + 1 /\ UNCHANGED <<opened, disk_header, clog, flushed, th>>
<1> DEFINE p == clog[redo].page[1]
           n == clog[redo].page[2]
           h == header[p]
           new == IF clog[redo].op = "allocate" THEN RedoAllocate(h, redo, n) ELSE RedoDeallocate(h, redo, n)
<1>1. /\ redo \in 1..Len(clog) /\ redo > 0 /\ p \in Pools /\ n \in PageNums /\ ~ failed /\ Len(clog) \in Nat
      /\ clog[redo].op \in {"allocate", "deallocate"} /\ clog[redo].page \in Pages
  BY Redoes, RedoHeaderDoes
<1>2. redo' = redo + 1 /\ UNCHANGED <<opened, disk_header, clog, flushed, th>>
  BY RedoHeaderDoes DEF files, logs
<1>3. /\ p \in opened /\ Possible(clog, redo, p, n) /\ clog[redo].page = <<p, n>>
      /\ h \in HeaderT /\ redo \in Nat \ {0} /\ header \in [Pools -> HeaderT]
  BY <1>1, PageIs DEF HeaderInv, LogSane, Steady, Typed
<1>4. PICK m \in (redo - 1)..Len(clog) : Good(clog, h, p, m)
  <2>1. Redone(p)
    BY <1>1, <1>3 DEF HeaderInv
  <2> QED
    BY <2>1 DEF Redone
<1>5. m \in Nat /\ m >= redo - 1 /\ m <= Len(clog)
  BY <1>1, <1>3
<1>6. /\ clog[redo].op = "allocate" => ~ RedoAllocateFails(h, redo, n)
      /\ clog[redo].op = "deallocate" => ~ RedoDeallocateFails(h, redo, n)
      /\ \E r \in redo..Len(clog) : Good(clog, new, p, r)
  <2>1. CASE clog[redo].op = "allocate"
    <3>1. ~ RedoAllocateFails(h, redo, n) /\ \E r \in {m, redo} : r >= redo /\ Good(clog, RedoAllocate(h, redo, n), p, r)
      <4> HIDE DEF h, n, p
      <4> QED
        BY <1>1, <1>3, <1>4, <1>5, <2>1, RedoAllocateGood
    <3> QED
      BY <1>1, <1>5, <2>1, <3>1
  <2>2. CASE clog[redo].op = "deallocate"
    <3>1. ~ RedoDeallocateFails(h, redo, n) /\ \E r \in {m, redo} : r >= redo /\ Good(clog, RedoDeallocate(h, redo, n), p, r)
      <4> HIDE DEF h, n, p
      <4> QED
        BY <1>1, <1>3, <1>4, <1>5, <2>2, RedoDeallocateGood
    <3> QED
      BY <1>1, <1>5, <2>2, <3>1
  <2> QED
    BY <1>1, <2>1, <2>2
<1>7. UNCHANGED failed /\ header' = [header EXCEPT ![p] = new]
  <2> HIDE DEF new
  <2> QED
    BY <1>3, <1>6 DEF RedoHeader, new
<1> HIDE DEF new
<1>8. header'[p] = new /\ \A q \in Pools : q # p => header'[q] = header[q]
  BY <1>1, <1>3, <1>7
<1>9. ASSUME NEW q \in opened PROVE Redone(q)'
  <2>1. \E r \in redo..Len(clog) : Good(clog, header'[q], q, r)
    <3>1. CASE q = p
      BY <1>6, <1>8, <3>1
    <3>2. CASE q # p
      <4>1. header'[q] = header[q]
        BY <1>8, <3>2 DEF Steady, Typed
      <4> QED
        BY <1>1, <3>2, <4>1, RedonePast
    <3> QED
      BY <3>1, <3>2
  <2>2. redo' - 1 = redo
    BY <1>1, <1>2
  <2> QED
    BY <1>2, <2>1, <2>2 DEF Redone
<1> QED
  BY <1>1, <1>2, <1>7, <1>9

LEMMA HeaderOther ==
  ASSUME Steady, WalInv, HeaderInv,
         LogFlush \/ Crash \/ RedoHeader \/ RedoChange \/ RedoDone \/ (\E v \in Pages : RedoEvict(v)) \/ UNCHANGED vars
  PROVE  HeaderInv'
<1>1. CASE LogFlush
  BY <1>1, HeaderLogFlush
<1>2. CASE Crash
  BY <1>2, HeaderCrash
<1>3. CASE RedoHeader
  <2>1. /\ redo \in 1..Len(clog) /\ redo' = redo + 1 /\ UNCHANGED <<opened, disk_header, clog, flushed, th>>
        /\ \A q \in opened : Redone(q)'
    BY <1>3, RedoHeaderIs
  <2>2. redo > 0 /\ redo' > 0
    BY <2>1
  <2> QED
    BY <2>1, <2>2, HeaderRedo
<1>4. CASE RedoChange
  <2>1. /\ redo \in 1..Len(clog) /\ redo > 0 /\ ~ failed /\ clog[redo].op = "change"
    BY <1>4, Redoes DEF RedoChange
  <2>2. redo' = redo + 1 /\ UNCHANGED <<opened, header, disk_header, clog, flushed, th>>
    BY <1>4 DEF RedoChange, files, logs
  <2>3. redo' > 0 /\ redo' - 1 = redo
    BY <2>1, <2>2
  <2>4. ASSUME NEW q \in opened PROVE Redone(q)'
    <3>1. \E r \in redo..Len(clog) : Good(clog, header[q], q, r)
      BY <2>1, RedonePast
    <3> QED
      BY <2>2, <2>3, <3>1 DEF Redone
  <2> QED
    BY <2>1, <2>2, <2>3, <2>4, HeaderRedo
<1>5. CASE RedoDone
  <2>1. redo = Len(clog) + 1 /\ ~ failed /\ redo' = 0 /\ UNCHANGED <<opened, header, disk_header, clog, flushed, th>>
    BY <1>5 DEF RedoDone, files, logs
  <2>2. Len(clog) \in Nat /\ redo > 0 /\ redo # 0 /\ flushed = Len(clog) /\ redo - 1 = Len(clog)
    BY <2>1 DEF Steady, Typed, WalInv
  <2>3. \A t \in Threads : th[t].pc = "idle" /\ th[t].page = None /\ th[t].why = "none"
    BY <2>2 DEF Steady, ThreadInv, Sound, Job1, At
  <2>4. WantedPages' /\ Disposers' /\ Openers' /\ \A p : Whole(p)' = header'[p]
    BY <2>1, <2>3, IdleHeader
  <2>5. ASSUME NEW q \in opened PROVE Running(q)'
    <3>1. PICK m \in (redo - 1)..Len(clog) : Good(clog, header[q], q, m)
      BY <2>1, <2>2 DEF HeaderInv, Redone
    <3>2. m = Len(clog)
      BY <2>2, <3>1
    <3>3. Good(clog', Whole(q)', q, Len(clog'))
      BY <2>1, <2>4, <3>1, <3>2
    <3>4. \A i \in (flushed' + 1)..Len(clog') : FALSE
      BY <2>1, <2>2
    <3> QED
      BY <3>3, <3>4 DEF Running
  <2>6. \A p \in Pools : (FileThere(p)' <=> FileThere(p)) /\ (OnDisk(p)' <=> OnDisk(p))
    BY <2>1 DEF FileThere, OnDisk
  <2>7. opened \subseteq Pools
    BY DEF Steady, Typed
  <2> QED
    BY <2>1, <2>4, <2>5, <2>6, <2>7 DEF HeaderInv
<1>6. ASSUME NEW v \in Pages, RedoEvict(v) PROVE HeaderInv'
  <2>1. redo > 0 /\ redo # 0 /\ ~ failed
    BY <1>6, Redoes DEF RedoEvict
  <2>2. UNCHANGED <<opened, header, disk_header, clog, flushed, th, redo, failed>>
    BY <1>6 DEF RedoEvict, logs, runs
  <2>3. \A q \in opened : Redone(q)'
    BY <2>1, <2>2 DEF HeaderInv, Redone
  <2> QED
    BY <2>1, <2>2, <2>3, HeaderRedo
<1>7. CASE UNCHANGED vars
  <2>1. UNCHANGED <<opened, header, disk_header, clog, flushed, th, redo, failed>>
    BY <1>7 DEF vars, files, logs, runs
  <2>2. CASE redo > 0
    BY <2>1, <2>2, HeaderRedo DEF HeaderInv, Redone, Steady, Typed
  <2>3. CASE redo = 0
    <3>1. \A q : Whole(q)' = Whole(q)
      BY <2>1 DEF Whole, Grows, Extends, At
    <3>2. WantedPages' /\ Disposers' /\ Openers'
      BY <2>1 DEF HeaderInv, WantedPages, Disposers, Openers, At, Extends
    <3> QED
      BY <2>1, <2>3, <3>1, <3>2, HeaderKept
  <2> QED
    BY <2>2, <2>3 DEF Steady, Typed
<1> QED
  BY <1>1, <1>2, <1>3, <1>4, <1>5, <1>6, <1>7

LEMMA InitHeader ==
  ASSUME Init PROVE HeaderInv
<1>1. /\ opened = Pools \ LatePools /\ clog = <<>> /\ flushed = 0 /\ redo = 0 /\ disk_header = header
      /\ th = [t \in Threads |-> Idle]
      /\ header = [p \in Pools |-> IF p \in opened THEN NewHeader ELSE NoHeader]
  BY DEF Init
<1>2. Len(clog) = 0 /\ \A i \in 1..Len(clog) : FALSE
  BY <1>1
<1>3. \A p \in Pools : Good(clog, NewHeader, p, 0)
  <2>1. \A p \in Pools : Silent(clog, 0, 0, p)
    BY DEF Silent
  <2> QED
    BY <2>1, NewGood
<1>4. WantedPages /\ Disposers /\ Openers /\ \A p : Whole(p) = header[p]
  BY <1>1, IdleIs DEF WantedPages, Disposers, Openers, Whole, Grows, Extends, At
<1>5. \A p \in Pools : (FileThere(p) <=> p \in opened) /\ (FileThere(p) => header[p] = NewHeader /\ disk_header[p] = NewHeader)
  BY <1>1, NewHeaderIs DEF FileThere
<1>6. \A p \in opened : Running(p)
  <2>1. \A p \in opened : p \in Pools /\ header[p] = NewHeader
    BY <1>1
  <2>2. \A p \in opened : Good(clog, Whole(p), p, Len(clog))
    BY <1>2, <1>3, <1>4, <2>1
  <2>3. \A i \in (flushed + 1)..Len(clog) : FALSE
    BY <1>1, <1>2
  <2> QED
    BY <2>2, <2>3 DEF Running
<1>7. \A p \in Pools : FileThere(p) => OnDisk(p)
  BY <1>1, <1>3, <1>5 DEF OnDisk
<1>8. LogSane(clog)
  BY <1>2 DEF LogSane
<1> QED
  BY <1>1, <1>2, <1>4, <1>5, <1>6, <1>7, <1>8 DEF HeaderInv

-----------------------------------------------------------------------------
(* The invariant of the log and of the headers, which needs no assumption   *)
(* about the callers.                                                       *)
LEMMA ThreadSteady ==
  ASSUME Steady, HeaderInv, redo = 0, NEW t \in Threads, ThreadStep(t)
  PROVE  Steady'
<1>1. ASSUME NEW p \in Pools, AllocateFree(t, p) PROVE Steady'
  <2>1. p \in opened /\ pool_lock[p] = None /\ header[p].allocated_pages < header[p].page_count
    BY <1>1 DEF AllocateFree
  <2>2. ChosenOk(p)
    BY <2>1, ChosenIs
  <2> QED
    BY <1>1, <2>2, AllocateFreeSteady
<1>2. ASSUME NEW p \in Pools, AllocateNew(t, p) PROVE Steady'
  <2>1. p \in opened /\ \A u \in Threads : pool_lock[p] = u => ~ Extends(u)
    BY <1>2, PageIs DEF AllocateNew
  <2>2. header[p].page_count >= 1
    BY <2>1, FreeHeader
  <2> QED
    BY <1>2, <2>2, AllocateNewSteady
<1> QED
  BY <1>1, <1>2, LookupSteady, SyncFlushSteady, LockPoolSteady, AllocSteady, PurgeSteady, EvictManagerSteady,
     EvictOtherSteady, EvictFlushSteady, LoadSteady, ChangeSteady, UnpinSteady, OpenFileSteady,
     AllocateNewDoneSteady, OpenFileDoneSteady, DisposeLockSteady, DisposeSteady, SyncSteady
  DEF ThreadStep

LEMMA ThreadHeader ==
  ASSUME Steady, HeaderInv, redo = 0, NEW t \in Threads, ThreadStep(t), Steady'
  PROVE  HeaderInv'
BY HeaderLookup, HeaderSyncFlush, HeaderSteps, HeaderLoad, HeaderChange, HeaderAllocateFree, HeaderAllocateNew,
   HeaderOpenFile, HeaderAllocateNewDone, HeaderOpenFileDone, HeaderDisposeUnpin, HeaderDispose DEF ThreadStep

LEMMA BaseStep ==
  ASSUME Base, [Next]_vars
  PROVE  Base'
<1>1. Steady /\ WalInv /\ HeaderInv
  BY DEF Base, Steady
<1>2. Steady' /\ WalInv' /\ HeaderInv'
  <2>1. ASSUME redo = 0, NEW t \in Threads, ThreadStep(t) PROVE Steady' /\ WalInv' /\ HeaderInv'
    <3>1. Steady'
      BY <1>1, <2>1, ThreadSteady
    <3> QED
      BY <1>1, <2>1, <3>1, WalThread, ThreadHeader
  <2>2. ASSUME \/ LogFlush \/ Crash \/ RedoHeader \/ RedoChange \/ RedoDone
               \/ (\E v \in Pages : RedoEvict(v)) \/ UNCHANGED vars
        PROVE  Steady' /\ WalInv' /\ HeaderInv'
    <3>1. Steady'
      BY <1>1, <2>2, LogFlushSteady, CrashSteady, RedoHeaderSteady, RedoChangeSteady, RedoDoneSteady, RedoEvictSteady,
         StutterSteady
    <3> QED
      BY <1>1, <2>2, <3>1, WalOther, HeaderOther
  <2> QED
    BY <2>1, <2>2 DEF Next
<1> QED
  BY <1>2 DEF Base, Steady

(* The inductive invariant: what the threads hold and wait for, how far the *)
(* frames and the files are behind the log, and that every header, in       *)
(* memory, on disk and while redo works on it, is as some prefix of the log *)
(* makes it.                                                                *)
THEOREM BaseInvariant == Spec => []Base
<1>1. Init => Base
  BY InitSteady, InitWal, InitHeader DEF Base, Steady
<1>2. Base /\ [Next]_vars => Base'
  BY BaseStep
<1> QED
  BY <1>1, <1>2, PTL DEF Spec

(* No page and no header is written before the log entries that changed it *)
(* (flush_page_internal waits for the log), by evictions, by sync and while *)
(* redo runs.                                                               *)
THEOREM WriteAheadHolds == Spec => []WriteAhead
<1>1. Base => WriteAhead
  BY DEF Base, WalInv
<1> QED
  BY <1>1, BaseInvariant, PTL

(* A set of threads that wait for each other has one in it that evicts a    *)
(* dirty page of another pool: BufferPoolManager::flush_page takes the      *)
(* manager's lock and the other pool's while it holds those of the frame    *)
(* manager and of its own pool.                                             *)
THEOREM DeadlocksHold == Spec => []DeadlocksAreEvictions
<1>1. ASSUME Base PROVE DeadlocksAreEvictions
  <2>1. SUFFICES ASSUME NEW D \in (SUBSET Threads) \ {{}}, \A t \in D : WaitsFor(t) \in D,
                        \A t \in D : th[t].pc \notin {"manager", "other"}
                 PROVE  FALSE
    BY DEF DeadlocksAreEvictions
  <2>2. Steady /\ None \notin D /\ D \subseteq Threads
    BY <1>1, PageIs DEF Base, Steady
  <2>3. ASSUME NEW t \in D PROVE fm_lock \notin D
    <3>1. SUFFICES ASSUME fm_lock \in D PROVE FALSE
      OBVIOUS
    <3>2. Owner(fm_lock)
      BY <2>2, <3>1 DEF Steady, ThreadInv, Sound
    <3>3. th[fm_lock].pc = "evict"
      BY <2>1, <3>1, <3>2 DEF Owner, At, Evicting
    <3>4. WaitsFor(fm_lock) = None
      BY <3>3 DEF WaitsFor
    <3> QED
      BY <2>1, <2>2, <3>1, <3>4
  <2>4. ASSUME NEW t \in D PROVE th[t].pc \in {"miss", "dispose"} /\ pool_lock[th[t].page[1]] \in D
    <3>1. th[t].pc \in {"miss", "dispose"} => WaitsFor(t) = pool_lock[th[t].page[1]]
      BY DEF WaitsFor, PoolOf
    <3>2. th[t].pc \in {"alloc", "purge", "lookup", "free"} => WaitsFor(t) = fm_lock
      BY DEF WaitsFor
    <3>3. th[t].pc \notin {"miss", "dispose", "alloc", "purge", "lookup", "free", "manager", "other"} => WaitsFor(t) = None
      BY DEF WaitsFor
    <3> QED
      BY <2>1, <2>2, <2>3, <3>1, <3>2, <3>3
  <2>5. PICK t \in D : TRUE
    BY <2>1
  <2>6. PICK u \in D : pool_lock[th[t].page[1]] = u
    BY <2>4
  <2>7. th[t].page[1] \in Pools
    <3>1. t \in Threads /\ th[t].pc \notin {"idle", "sync"}
      BY <2>2, <2>4
    <3> QED
      BY <2>2, <3>1, Has
  <2>8. th[u].pc \in Fetching \cup {"free"}
    BY <2>2, <2>6, <2>7 DEF Steady, ThreadInv, Sound, Owner, At
  <2> QED
    BY <2>4, <2>8 DEF Fetching
<1> QED
  BY <1>1, BaseInvariant, PTL

-----------------------------------------------------------------------------
(* Whenever a pool's lock is free, its bitmap has exactly the pages that    *)
(* the log says are allocated, and the counter their number, also after     *)
(* redo from an older header, and however callers use the pages.            *)
THEOREM HeadersHold == Spec => []HeaderMatchesLog
<1>1. ASSUME Base PROVE HeaderMatchesLog
  <2>1. SUFFICES ASSUME NEW p \in opened, redo = 0, pool_lock[p] = None
                 PROVE  /\ header[p].bits = {0} \cup {n \in PageNums : InLog(p, n)}
                        /\ header[p].allocated_pages = Cardinality(header[p].bits)
    BY DEF HeaderMatchesLog
  <2>2. Steady /\ HeaderInv /\ \A u \in Threads : pool_lock[p] = u => ~ Extends(u)
    BY <1>1, <2>1, PageIs DEF Base, Steady
  <2>3. /\ Len(clog) \in Nat /\ AsOf(clog, header[p], p, Len(clog))
    BY <2>1, <2>2, FreeHeader
  <2>4. ASSUME NEW n \in PageNums PROVE InLog(p, n) <=> Allocated(clog, p, n, Len(clog))
    <3> DEFINE about == {i \in DOMAIN clog : clog[i].page = <<p, n>> /\ clog[i].op # "change"}
    <3>1. DOMAIN clog = 1..Len(clog) /\ about \subseteq 1..Len(clog)
      BY <2>2 DEF Steady, Typed
    <3>2. \A i : i \in about <=> i \in 1..Len(clog) /\ About(clog, i, p, n)
      BY <3>1 DEF About
    <3>3. InLog(p, n) <=> about # {} /\ clog[Max(about)].op = "allocate"
      BY DEF InLog
    <3> HIDE DEF about
    <3>4. about # {} => Max(about) \in about /\ \A i \in about : i <= Max(about)
      BY <2>3, <3>1, Greatest
    <3>5. ASSUME InLog(p, n) PROVE Allocated(clog, p, n, Len(clog))
      <4>1. PICK m \in 1..Len(clog) : /\ About(clog, m, p, n) /\ clog[m].op = "allocate"
                                      /\ \A i \in 1..Len(clog) : About(clog, i, p, n) => i <= m
        BY <3>2, <3>3, <3>4, <3>5
      <4>2. Allocates(clog, m, p, n)
        BY <4>1 DEF Allocates, About
      <4>3. \A j \in (m + 1)..Len(clog) : ~ About(clog, j, p, n)
        BY <2>3, <4>1
      <4> QED
        BY <4>2, <4>3 DEF Allocated
    <3>6. ASSUME Allocated(clog, p, n, Len(clog)) PROVE InLog(p, n)
      <4>1. PICK i \in 1..Len(clog) : Allocates(clog, i, p, n) /\ \A j \in (i + 1)..Len(clog) : ~ About(clog, j, p, n)
        BY <3>6 DEF Allocated
      <4>2. i \in about /\ clog[i].op = "allocate"
        BY <3>2, <4>1 DEF Allocates, About
      <4>3. PICK m \in 1..Len(clog) : m = Max(about) /\ About(clog, m, p, n) /\ i <= m
        BY <3>2, <3>4, <4>2
      <4>4. m = i
        BY <2>3, <4>1, <4>3
      <4> QED
        BY <3>3, <4>2, <4>3, <4>4
    <3> QED
      BY <3>5, <3>6
  <2>5. {n \in PageNums : InLog(p, n)} = {n \in PageNums : Allocated(clog, p, n, Len(clog))}
    BY <2>4
  <2> QED
    BY <2>3, <2>5 DEF AsOf
<1> QED
  BY <1>1, BaseInvariant, PTL

-----------------------------------------------------------------------------
(* The content of the pages.  What a step of thread t leaves alone.         *)
LEMMA SameChange ==
  ASSUME NEW k, clog' = clog
  PROVE  \A i : ChangeOf(k, i)' <=> ChangeOf(k, i)
BY DEF ChangeOf

LEMMA MoreChange ==
  ASSUME Typed, NEW k \in Pages, NEW op \in {"allocate", "deallocate", "change"}, AppendLog(k, op), NEW j
  PROVE  /\ \A i : ChangeOf(j, i) => ChangeOf(j, i)'
         /\ j # k \/ op # "change" => \A i : ChangeOf(j, i)' => ChangeOf(j, i)
         /\ op = "change" => \A i : i = Len(clog) + 1 => ChangeOf(k, i)'
<1>1. /\ Len(clog) \in Nat /\ Len(clog') = Len(clog) + 1 /\ \A i \in 1..Len(clog) : clog'[i] = clog[i]
      /\ clog'[Len(clog) + 1].page = k /\ clog'[Len(clog) + 1].op = op
  BY AppendIs
<1>2. \A i \in 1..Len(clog') : i \in 1..Len(clog) \/ i = Len(clog) + 1
  BY <1>1
<1>3. \A i \in 1..Len(clog) : i \in 1..Len(clog')
  BY <1>1
<1>4. Len(clog) + 1 \in 1..Len(clog')
  BY <1>1
<1>5. ASSUME NEW i, ChangeOf(j, i) PROVE ChangeOf(j, i)'
  BY <1>1, <1>3, <1>5 DEF ChangeOf
<1>6. ASSUME NEW i, ChangeOf(j, i)', j # k \/ op # "change" PROVE ChangeOf(j, i)
  BY <1>1, <1>2, <1>6 DEF ChangeOf
<1>7. op = "change" => \A i : i = Len(clog) + 1 => ChangeOf(k, i)'
  BY <1>1, <1>4 DEF ChangeOf
<1> QED
  BY <1>5, <1>6, <1>7

\* The pages one by one.  A page that two threads were getting is left out for good.
LEMMA PageAll ==
  ASSUME PageInv, failed' => failed, \A k \in Pages : newest[k] = Lost => newest'[k] = Lost,
         \A j \in Pages : j[2] # 0 /\ newest[j] # Lost /\ newest'[j] # Lost /\ PageOk(j) => PageOk(j)'
  PROVE  PageInv'
<1>1. RedoSucceeds'
  BY DEF PageInv, RedoSucceeds, Raced
<1>2. ASSUME NEW k \in Pages, k[2] # 0, newest'[k] # Lost PROVE PageOk(k)'
  BY <1>2 DEF PageInv
<1> QED
  BY <1>1, <1>2 DEF PageInv

LEMMA SameThreads ==
  ASSUME NEW t \in Threads, \A u \in Threads \ {t} : th'[u] = th[u], NEW j
  PROVE  \A u \in Threads \ {t} : /\ Uses(u, j)' <=> Uses(u, j)
                                  /\ Takes(u, j)' <=> Takes(u, j)
                                  /\ Loads(u, j)' <=> Loads(u, j)
                                  /\ Seeks(u, j)' <=> Seeks(u, j)
                                  /\ Extends(u)' <=> Extends(u)
BY DEF Uses, Takes, Loads, Seeks, Extends, At

LEMMA SameUse ==
  ASSUME NEW t \in Threads, \A u \in Threads \ {t} : th'[u] = th[u], NEW j,
         Uses(t, j)' <=> Uses(t, j), Takes(t, j)' <=> Takes(t, j), Loads(t, j)' <=> Loads(t, j)
  PROVE  Users(j)' = Users(j) /\ (Loading(j)' <=> Loading(j))
<1>1. \A u \in Threads : (Uses(u, j)' <=> Uses(u, j)) /\ (Takes(u, j)' <=> Takes(u, j)) /\ (Loads(u, j)' <=> Loads(u, j))
  BY SameThreads
<1>2. Users(j)' = Users(j)
  BY <1>1 DEF Users
<1>3. Loading(j)' <=> Loading(j)
  BY <1>1 DEF Loading
<1> QED
  BY <1>2, <1>3

\* One user more, one user less.
LEMMA MoreUsers ==
  ASSUME NEW t \in Threads, \A u \in Threads \ {t} : th'[u] = th[u], NEW j, IsFiniteSet(Users(j)),
         ~ Uses(t, j), ~ Takes(t, j), Uses(t, j)' \/ Takes(t, j)'
  PROVE  IsFiniteSet(Users(j)') /\ Cardinality(Users(j)') = Cardinality(Users(j)) + 1
<1>1. Users(j)' = Users(j) \cup {t} /\ t \notin Users(j)
  BY SameThreads DEF Users
<1> QED
  BY <1>1, FS_AddElement

LEMMA LessUsers ==
  ASSUME NEW t \in Threads, \A u \in Threads \ {t} : th'[u] = th[u], NEW j, IsFiniteSet(Users(j)),
         Uses(t, j), ~ Uses(t, j)', ~ Takes(t, j)'
  PROVE  IsFiniteSet(Users(j)') /\ Cardinality(Users(j)') = Cardinality(Users(j)) - 1
<1>1. Users(j)' = Users(j) \ {t} /\ t \in Users(j)
  BY SameThreads DEF Users
<1> QED
  BY <1>1, FS_RemoveElement

LEMMA NoUsers ==
  ASSUME NEW j, \A u \in Threads : ~ Uses(u, j) /\ ~ Takes(u, j)
  PROVE  IsFiniteSet(Users(j)) /\ Cardinality(Users(j)) = 0
<1>1. Users(j) = {}
  BY DEF Users
<1> QED
  BY <1>1, FS_EmptySet

\* A page whose frame, file and users are as they were.
LEMMA SamePage ==
  ASSUME redo = 0, redo' = 0, NEW j, PageOk(j), Orderly(j)', j \in DOMAIN frames' <=> j \in DOMAIN frames,
         j \in DOMAIN frames => frames'[j] = frames[j], disk'[j] = disk[j], newest'[j] = newest[j],
         Users(j)' = Users(j), Loading(j)' <=> Loading(j), j \in DOMAIN frames /\ Grown(j) => Grown(j)',
         \A i : ChangeOf(j, i)' <=> ChangeOf(j, i)
  PROVE  PageOk(j)'
<1>1. j \in DOMAIN frames' => Framed(j)'
  BY DEF PageOk, Framed
<1>2. newest'[j] = Content(j)' /\ ~ (redo' > 0)
  BY DEF PageOk, Newest, Content
<1>3. Newest(j)'
  BY <1>2 DEF Newest
<1>4. \A i \in 1..Len(clog') : ChangeOf(j, i)' => disk'[j] # Unwritten
  BY DEF PageOk, ChangeOf
<1>5. (disk[j] > 0 => ChangeOf(j, disk[j]))'
  BY DEF PageOk, ChangeOf
<1> QED
  BY <1>1, <1>3, <1>4, <1>5 DEF PageOk

LEMMA OrderlyElse ==
  ASSUME NEW j, Orderly(j), NEW t \in Threads, \A u \in Threads \ {t} : th'[u] = th[u],
         Uses(t, j)' => Uses(t, j), Takes(t, j)' => Takes(t, j), Loads(t, j)' => Loads(t, j),
         Seeks(t, j)' => Seeks(t, j) \/ (j \notin DOMAIN frames /\ \A u \in Threads \ {t} : ~ Seeks(u, j)),
         j \in DOMAIN frames' <=> j \in DOMAIN frames
  PROVE  Orderly(j)'
<1>1. \A u \in Threads : /\ (Uses(u, j)' => Uses(u, j)) /\ (Takes(u, j)' => Takes(u, j)) /\ (Loads(u, j)' => Loads(u, j))
                         /\ u # t => (Seeks(u, j)' => Seeks(u, j))
  BY SameThreads
<1>2. \A u, v \in Threads : u # v => ~ (Seeks(u, j)' /\ Seeks(v, j)') /\ ~ (Loads(u, j)' /\ Uses(v, j)')
  BY <1>1 DEF Orderly
<1>3. \A u \in Threads : (Uses(u, j)' => j \in DOMAIN frames') /\ (Seeks(u, j)' => j \notin DOMAIN frames')
  BY <1>1 DEF Orderly
<1>4. \A u, v \in Threads : Uses(u, j)' => ~ Takes(v, j)'
  BY <1>1 DEF Orderly
<1> QED
  BY <1>2, <1>3, <1>4 DEF Orderly

LEMMA PageElse ==
  ASSUME redo = 0, redo' = 0, NEW t \in Threads, \A u \in Threads \ {t} : th'[u] = th[u], NEW j, PageOk(j),
         Uses(t, j)' <=> Uses(t, j), Takes(t, j)' <=> Takes(t, j), Loads(t, j)' <=> Loads(t, j),
         Seeks(t, j)' => Seeks(t, j) \/ (j \notin DOMAIN frames /\ \A u \in Threads \ {t} : ~ Seeks(u, j)),
         Extends(t) /\ Uses(t, j) => Extends(t)' /\ Uses(t, j)',
         j \in DOMAIN frames /\ j[2] < header[j[1]].page_count => j[2] < header'[j[1]].page_count,
         j \in DOMAIN frames' <=> j \in DOMAIN frames, j \in DOMAIN frames => frames'[j] = frames[j],
         disk'[j] = disk[j], newest'[j] = newest[j], \A i : ChangeOf(j, i)' <=> ChangeOf(j, i)
  PROVE  PageOk(j)'
<1>1. Users(j)' = Users(j) /\ (Loading(j)' <=> Loading(j))
  BY SameUse
<1>2. j \in DOMAIN frames /\ Grown(j) => Grown(j)'
  BY SameThreads DEF Grown
<1>3. Orderly(j)'
  BY OrderlyElse DEF PageOk
<1> QED
  BY <1>1, <1>2, <1>3, SamePage

\* Nobody is evicting.
LEMMA NoTakers ==
  ASSUME Steady, fm_lock = None
  PROVE  \A u \in Threads : ~ At(u, Evicting) /\ \A j : ~ Takes(u, j)
BY PageIs DEF Steady, ThreadInv, Sound, Owner, Takes

\* A step that only moves thread t, and not to or from a page that it uses or evicts.
LEMMA PageQuiet ==
  ASSUME Steady, PageInv, redo = 0, redo' = 0, NEW t \in Threads, \A u \in Threads \ {t} : th'[u] = th[u],
         DOMAIN frames' = DOMAIN frames, \A k \in DOMAIN frames : k[2] # 0 => frames'[k] = frames[k],
         UNCHANGED <<disk, failed>>, \A k \in Pages : newest'[k] \in {newest[k], Lost},
         ~ At(t, {"load", "hold"}) \/ (At(t, {"load"}) /\ th[t].why = "open"), ~ At(t, {"load", "hold"})',
         At(t, Evicting) \/ At(t, Evicting)' => At(t, Evicting) /\ At(t, Evicting)' /\ th'[t].victim = th[t].victim,
         \A k \in Pages : k \in DOMAIN frames /\ k[2] # 0 /\ k[2] < header[k[1]].page_count => k[2] < header'[k[1]].page_count,
         \A k, i : ChangeOf(k, i)' <=> ChangeOf(k, i),
         \A k \in Pages : k[2] # 0 /\ newest[k] # Lost /\ newest'[k] # Lost /\ PageOk(k) /\ Seeks(t, k)' =>
           Seeks(t, k) \/ (k \notin DOMAIN frames /\ \A u \in Threads \ {t} : ~ Seeks(u, k))
  PROVE  PageInv'
<1>1. ASSUME NEW k \in Pages, k[2] # 0, newest[k] # Lost, newest'[k] # Lost, PageOk(k) PROVE PageOk(k)'
  <2>1. ~ Uses(t, k) /\ ~ Uses(t, k)' /\ ~ Loads(t, k) /\ ~ Loads(t, k)'
    <3>1. ~ Uses(t, k)' /\ ~ Loads(t, k)'
      BY DEF Uses, Loads, At
    <3>2. At(t, {"load"}) /\ th[t].why = "open" => th[t].page[2] = 0
      <4>1. ASSUME At(t, {"load"}) PROVE Job1(t) /\ th[t].page # None
        BY <4>1, Has DEF At
      <4> QED
        BY <4>1 DEF Job1
    <3> QED
      BY <1>1, <3>1, <3>2 DEF Uses, Loads, At
  <2>2. Takes(t, k)' <=> Takes(t, k)
    BY DEF Takes
  <2>3. newest'[k] = newest[k] /\ disk'[k] = disk[k] /\ (k \in DOMAIN frames => frames'[k] = frames[k])
    BY <1>1
  <2> QED
    BY <1>1, <2>1, <2>2, <2>3, PageElse
<1> QED
  BY <1>1, PageAll

LEMMA PageSteps ==
  ASSUME Steady, PageInv, redo = 0, NEW t \in Threads,
         LockPool(t) \/ EvictManager(t) \/ EvictOther(t) \/ DisposeLock(t) \/ Sync(t) \/ SyncDone(t)
  PROVE  PageInv'
<1>1. UNCHANGED <<frames, header, disk, newest, clog, redo, failed>>
  BY DEF LockPool, EvictManager, EvictOther, DisposeLock, Sync, SyncDone, files, logs, runs
<1>2. th \in [Threads -> Job] /\ th[t] \in Job
  BY DEF Steady, Typed
<1>3. /\ \A u \in Threads \ {t} : th'[u] = th[u]
      /\ \/ th[t].pc = "miss" /\ th'[t].pc = "alloc" /\ th'[t].page = th[t].page
         \/ /\ th[t].pc \in Evicting /\ th'[t].pc \in Evicting /\ th'[t].victim = th[t].victim /\ th'[t].page = th[t].page
         \/ th[t].pc \in {"idle", "sync", "dispose"} /\ th'[t].pc \in {"idle", "sync", "free"}
  <2>1. CASE LockPool(t)
    BY <1>2, <2>1, ToIs DEF LockPool, Steps
  <2>2. CASE EvictManager(t) \/ EvictOther(t)
    BY <1>2, <2>2, ToIs DEF EvictManager, EvictOther, Steps, Evicting
  <2>3. CASE DisposeLock(t)
    BY <1>2, <2>3, ToIs DEF DisposeLock, Steps
  <2>4. CASE Sync(t)
    BY <1>2, <2>4, ToIs DEF Sync, Steps
  <2>5. CASE SyncDone(t)
    BY <1>2, <2>5, EndIs DEF SyncDone
  <2> QED
    BY <2>1, <2>2, <2>3, <2>4, <2>5
<1>4. \A k : Seeks(t, k)' => Seeks(t, k)
  BY <1>3 DEF Seeks, At, Evicting
<1>5. \A k, i : ChangeOf(k, i)' <=> ChangeOf(k, i)
  BY <1>1, SameChange
<1>6. /\ ~ At(t, {"load", "hold"}) /\ ~ At(t, {"load", "hold"})'
      /\ At(t, Evicting) \/ At(t, Evicting)' => At(t, Evicting) /\ At(t, Evicting)' /\ th'[t].victim = th[t].victim
  BY <1>3 DEF At, Evicting
<1> QED
  BY <1>1, <1>3, <1>4, <1>5, <1>6, PageQuiet

LEMMA PageLookup ==
  ASSUME Steady, PageInv, redo = 0, NEW t \in Threads, NEW k \in Pages, Lookup(t, k)
  PROVE  PageInv'
<1>1. UNCHANGED <<header, disk, clog, redo, failed>> /\ fm_lock = None
  BY DEF Lookup, files, logs, runs
<1>2. k # None /\ th \in [Threads -> Job] /\ th[t].pc \in {"idle", "lookup"}
  BY PageIs DEF Steady, Typed, Lookup
<1>3. /\ \A j \in Pages : newest'[j] \in {newest[j], Lost}
      /\ \A j \in Pages : j # k => newest'[j] = newest[j]
      /\ newest'[k] # Lost => ~ Meets(t, k)
  BY DEF Lookup, Steady, Typed
<1>4. newest'[k] # Lost => \A u \in Threads \ {t} : ~ Seeks(u, k) /\ ~ Loads(u, k)
  BY <1>3 DEF Meets, Getting, Seeks, Loads, At, Evicting
<1>5. /\ ~ At(t, {"load", "hold"}) /\ ~ At(t, Evicting) /\ \A j : ~ Uses(t, j) /\ ~ Takes(t, j) /\ ~ Loads(t, j)
      /\ \A u \in Threads : ~ Takes(u, k)
  BY <1>1, <1>2, NoTakers DEF At, Evicting, Uses, Takes, Loads
<1>6. \A j, i : ChangeOf(j, i)' <=> ChangeOf(j, i)
  BY <1>1, SameChange
<1>7. CASE k \notin DOMAIN frames
  <2>1. frames' = frames /\ Begin(t, "miss", k, "get")
    BY <1>7 DEF Lookup
  <2>2. /\ \A u \in Threads \ {t} : th'[u] = th[u]
        /\ th'[t].pc = "miss" /\ th'[t].page = k
    BY <1>2, <2>1, BeginIs DEF Steps, Reasons
  <2>3. ~ At(t, {"load", "hold"})' /\ ~ At(t, Evicting)' /\ \A j : Seeks(t, j)' => j = k
    BY <2>2 DEF At, Evicting, Seeks
  <2> QED
    BY <1>1, <1>3, <1>4, <1>5, <1>6, <1>7, <2>1, <2>2, <2>3, PageQuiet
<1>8. CASE k \in DOMAIN frames
  <2>1. frames' = Pinned(k, 1) /\ Begin(t, "hold", k, "none")
    BY <1>8 DEF Lookup
  <2>2. /\ \A u \in Threads \ {t} : th'[u] = th[u]
        /\ th'[t].pc = "hold" /\ th'[t].page = k /\ th'[t].why = "none"
    BY <1>2, <2>1, BeginIs DEF Steps, Reasons
  <2>3. /\ DOMAIN frames' = DOMAIN frames /\ \A j \in DOMAIN frames : j # k => frames'[j] = frames[j]
        /\ frames'[k].pin = frames[k].pin + 1 /\ frames'[k].lsn = frames[k].lsn /\ frames'[k].dirty = frames[k].dirty
    BY <1>8, <2>1, PinnedIs DEF Steady
  <2>4. \A j : ~ Takes(t, j)' /\ ~ Loads(t, j)' /\ ~ Seeks(t, j)' /\ (Uses(t, j)' <=> j = k)
    BY <2>2 DEF Uses, Takes, Loads, Seeks, At, Evicting
  <2>5. ASSUME NEW j \in Pages, j # k, PageOk(j) PROVE PageOk(j)'
    BY <1>1, <1>3, <1>5, <1>6, <2>2, <2>3, <2>4, <2>5, PageElse
  <2>6. ASSUME newest[k] # Lost, newest'[k] # Lost, PageOk(k) PROVE PageOk(k)'
    <3>1. Framed(k) /\ newest'[k] = newest[k]
      BY <1>3, <1>8, <2>6 DEF PageOk
    <3>2. \A u \in Threads : ~ Takes(u, k)' /\ ~ Loads(u, k)' /\ ~ Seeks(u, k)' /\ ~ Loads(u, k)
      BY <1>4, <1>5, <2>2, <2>4, <2>6, SameThreads
    <3>3. ~ Loading(k) /\ ~ Loading(k)'
      BY <3>2 DEF Loading
    <3>4. Orderly(k)'
      BY <1>8, <2>3, <3>2 DEF Orderly
    <3>5. Grown(k)'
      <4>1. \A u \in Threads : ~ (Extends(u) /\ Uses(u, k))
        BY <3>2 DEF Extends, Uses, Loads, At, Fetching
      <4> QED
        BY <1>1, <3>1, <4>1 DEF Framed, Grown
    <3>6. IsFiniteSet(Users(k)') /\ frames'[k].pin = Cardinality(Users(k)')
      BY <1>5, <2>2, <2>3, <2>4, <3>1, MoreUsers DEF Framed
    <3>7. Framed(k)'
      BY <1>1, <1>6, <2>3, <3>1, <3>3, <3>5, <3>6 DEF Framed
    <3>8. newest'[k] = Content(k)' /\ ~ (redo' > 0)
      BY <1>1, <2>3, <2>6, <3>1, <3>3 DEF PageOk, Newest, Content
    <3> QED
      BY <1>1, <1>6, <2>6, <3>4, <3>7, <3>8 DEF PageOk, Newest
  <2> QED
    BY <1>1, <1>3, <2>5, <2>6, PageAll
<1> QED
  BY <1>7, <1>8

\* The page of a thread that fetches it is in the file, unless it extends it.
LEMMA InFile ==
  ASSUME Steady, HeaderInv, redo = 0, NEW t \in Threads, At(t, Fetching), th[t].why = "get"
  PROVE  th[t].page[2] < header[th[t].page[1]].page_count
<1>1. /\ Job1(t) /\ Owner(t) /\ th[t].page # None /\ th[t].page[1] \in Pools
  BY Has DEF At, Fetching
<1>2. PICK p \in Pools : p = th[t].page[1]
  BY <1>1
<1>3. p \in opened /\ pool_lock[p] = t /\ ~ Extends(t) /\ th[t].page[2] \in header[p].bits
  BY <1>1, <1>2 DEF Job1, Owner, Extends, HeaderInv, WantedPages, At
<1>4. \A u \in Threads : pool_lock[p] = u => ~ Extends(u)
  BY <1>3
<1> QED
  BY <1>2, <1>3, <1>4, FreeHeader

LEMMA PageAlloc ==
  ASSUME Steady, HeaderInv, PageInv, redo = 0, NEW t \in Threads, Alloc(t)
  PROVE  PageInv'
<1>1. UNCHANGED <<header, disk, newest, clog, redo, failed>> /\ fm_lock = None
  BY DEF Alloc, files, logs, runs
<1>2. /\ th[t].page \in Pages /\ th[t].page # None /\ Job1(t) /\ th \in [Threads -> Job] /\ th[t].pc = "alloc"
  BY Has DEF Alloc
<1>3. PICK k \in Pages : k = th[t].page
  BY <1>2
<1>4. /\ ~ At(t, {"load", "hold"}) /\ ~ At(t, Evicting) /\ Seeks(t, k)
      /\ \A j : ~ Uses(t, j) /\ ~ Takes(t, j) /\ ~ Loads(t, j)
      /\ \A u \in Threads : ~ Takes(u, k)
  BY <1>1, <1>2, <1>3, NoTakers DEF At, Evicting, Uses, Takes, Loads, Seeks
<1>5. \A j, i : ChangeOf(j, i)' <=> ChangeOf(j, i)
  BY <1>1, SameChange
<1>6. CASE frames' = frames /\ To(t, "purge")
  <2>1. /\ \A u \in Threads \ {t} : th'[u] = th[u]
        /\ th'[t].pc = "purge" /\ th'[t].page = k
    BY <1>2, <1>3, <1>6, ToIs DEF Steps
  <2>2. ~ At(t, {"load", "hold"})' /\ ~ At(t, Evicting)' /\ \A j : Seeks(t, j)' => Seeks(t, j)
    BY <1>3, <1>4, <2>1 DEF At, Evicting, Seeks
  <2> QED
    BY <1>1, <1>4, <1>5, <1>6, <2>1, <2>2, PageQuiet
<1>7. CASE /\ To(t, "load")
           /\ \/ k \in DOMAIN frames /\ frames' = Pinned(k, 1)
              \/ frames' = With(k, [pin |-> 1, dirty |-> FALSE, lsn |-> Unwritten])
  <2>1. /\ \A u \in Threads \ {t} : th'[u] = th[u]
        /\ th'[t].pc = "load" /\ th'[t].page = k /\ th'[t].why = th[t].why
    BY <1>2, <1>3, <1>7, ToIs DEF Steps
  <2>2. /\ DOMAIN frames' = DOMAIN frames \cup {k} /\ (\A j \in DOMAIN frames : j # k => frames'[j] = frames[j])
        /\ k \notin DOMAIN frames => frames'[k].pin = 1 /\ frames'[k].lsn = Unwritten
    <3>1. CASE k \in DOMAIN frames /\ frames' = Pinned(k, 1)
      BY <3>1, PinnedIs DEF Steady
    <3>2. CASE frames' = With(k, [pin |-> 1, dirty |-> FALSE, lsn |-> Unwritten])
      <4>1. PICK f : f = [pin |-> 1, dirty |-> FALSE, lsn |-> Unwritten]
        OBVIOUS
      <4>2. frames' = With(k, f) /\ f.pin = 1 /\ f.lsn = Unwritten
        BY <3>2, <4>1
      <4> QED
        BY <4>2, WithIs
    <3> QED
      BY <1>7, <3>1, <3>2
  <2>3. \A j : ~ Takes(t, j)' /\ ~ Seeks(t, j)' /\ (Uses(t, j)' <=> j = k) /\ (Loads(t, j)' <=> j = k)
    BY <2>1 DEF Uses, Takes, Loads, Seeks, At, Evicting
  <2>4. ASSUME NEW j \in Pages, j # k, PageOk(j) PROVE PageOk(j)'
    BY <1>1, <1>4, <1>5, <2>1, <2>2, <2>3, <2>4, PageElse
  <2>5. ASSUME k[2] # 0, PageOk(k) PROVE PageOk(k)'
    <3>1. k \notin DOMAIN frames /\ \A u \in Threads : ~ Uses(u, k) /\ ~ Takes(u, k)
      BY <1>4, <2>5 DEF PageOk, Orderly
    <3>2. \A u \in Threads \ {t} : ~ Uses(u, k)' /\ ~ Takes(u, k)' /\ ~ Seeks(u, k)'
      BY <1>4, <2>1, <2>5, <3>1, SameThreads DEF PageOk, Orderly
    <3>3. Loading(k)'
      BY <2>3 DEF Loading
    <3>4. Orderly(k)'
      <4>1. \A u \in Threads \ {t} : ~ Loads(u, k)'
        BY <3>2 DEF Loads, Uses, At
      <4> QED
        BY <2>2, <2>3, <3>2, <4>1 DEF Orderly
    <3>5. Grown(k)'
      <4>1. th[t].why \in {"get", "extend"}
        BY <1>2, <1>3, <2>5 DEF Job1, At, Fetching, Steady, Typed, Job, Reasons
      <4>2. CASE th[t].why = "get"
        BY <1>1, <1>2, <1>3, <4>2, InFile DEF Grown, At, Fetching
      <4>3. CASE th[t].why = "extend"
        BY <2>1, <4>3 DEF Grown, Extends, Uses, At, Fetching
      <4> QED
        BY <4>1, <4>2, <4>3
    <3>6. IsFiniteSet(Users(k)') /\ frames'[k].pin = Cardinality(Users(k)')
      <4>1. IsFiniteSet(Users(k)) /\ Cardinality(Users(k)) = 0
        BY <3>1, NoUsers
      <4> QED
        BY <1>4, <2>1, <2>2, <2>3, <3>1, <4>1, MoreUsers
    <3>7. Framed(k)'
      BY <2>2, <3>1, <3>3, <3>5, <3>6 DEF Framed, Unwritten
    <3>8. newest'[k] = Content(k)' /\ ~ (redo' > 0)
      BY <1>1, <2>5, <3>1, <3>3 DEF PageOk, Newest, Content
    <3> QED
      BY <1>1, <1>5, <2>5, <3>4, <3>7, <3>8 DEF PageOk, Newest
  <2> QED
    BY <1>1, <2>4, <2>5, PageAll
<1> QED
  BY <1>3, <1>6, <1>7 DEF Alloc

LEMMA PagePurge ==
  ASSUME Steady, PageInv, redo = 0, NEW t \in Threads, Purge(t)
  PROVE  PageInv'
<1>1. UNCHANGED <<header, disk, newest, clog, redo, failed>> /\ fm_lock = None /\ th[t].pc = "purge"
  BY DEF Purge, files, logs, runs
<1>2. th[t].page \in Pages /\ th \in [Threads -> Job]
  BY <1>1, Has
<1>3. /\ ~ At(t, {"load", "hold"}) /\ ~ At(t, Evicting) /\ Seeks(t, th[t].page)
      /\ \A j : ~ Uses(t, j) /\ ~ Takes(t, j) /\ ~ Loads(t, j)
  BY <1>1 DEF At, Evicting, Uses, Takes, Loads, Seeks
<1>4. \A j, i : ChangeOf(j, i)' <=> ChangeOf(j, i)
  BY <1>1, SameChange
<1>5. CASE frames' = frames /\ To(t, "alloc")
  <2>1. /\ \A u \in Threads \ {t} : th'[u] = th[u]
        /\ th'[t].pc = "alloc" /\ th'[t].page = th[t].page
    BY <1>2, <1>5, ToIs DEF Steps
  <2>2. ~ At(t, {"load", "hold"})' /\ ~ At(t, Evicting)' /\ \A j : Seeks(t, j)' => Seeks(t, j)
    BY <1>3, <2>1 DEF At, Evicting, Seeks
  <2> QED
    BY <1>1, <1>3, <1>4, <1>5, <2>1, <2>2, PageQuiet
<1>6. ASSUME NEW v \in DOMAIN frames, frames[v].pin = 0, PageOk(v)
      PROVE  Framed(v) /\ ~ Loading(v) /\ \A u \in Threads : ~ Uses(u, v) /\ ~ Takes(u, v) /\ ~ Loads(u, v)
  <2>1. Framed(v) /\ Users(v) = {}
    BY <1>6, FS_EmptySet DEF PageOk, Framed
  <2>2. \A u \in Threads : ~ Uses(u, v) /\ ~ Takes(u, v)
    BY <2>1 DEF Users
  <2>3. \A u \in Threads : ~ Loads(u, v)
    BY <2>2 DEF Loads, Uses, At
  <2> QED
    BY <2>1, <2>2, <2>3 DEF Loading
<1>7. ASSUME NEW v \in DOMAIN frames, frames[v].pin = 0, ~ frames[v].dirty, frames' = Without(v), To(t, "alloc")
      PROVE  PageInv'
  <2>1. /\ \A u \in Threads \ {t} : th'[u] = th[u]
        /\ th'[t].pc = "alloc" /\ th'[t].page = th[t].page
    BY <1>2, <1>7, ToIs DEF Steps
  <2>2. DOMAIN frames' = DOMAIN frames \ {v} /\ \A j \in DOMAIN frames' : frames'[j] = frames[j]
    BY <1>7, WithoutIs
  <2>3. \A j : ~ Uses(t, j)' /\ ~ Takes(t, j)' /\ ~ Loads(t, j)' /\ (Seeks(t, j)' => Seeks(t, j))
    BY <1>3, <2>1 DEF Uses, Takes, Loads, Seeks, At, Evicting
  <2>4. ASSUME NEW j \in Pages, j # v, PageOk(j) PROVE PageOk(j)'
    BY <1>1, <1>3, <1>4, <2>1, <2>2, <2>3, <2>4, PageElse
  <2>5. ASSUME PageOk(v) PROVE PageOk(v)'
    <3>1. Framed(v) /\ ~ Loading(v) /\ v \notin DOMAIN frames' /\ \A u \in Threads : ~ Uses(u, v) /\ ~ Takes(u, v)
      BY <1>6, <1>7, <2>2, <2>5
    <3>2. disk[v] = frames[v].lsn
      BY <1>7, <3>1 DEF Framed
    <3>3. \A u \in Threads : ~ Uses(u, v)' /\ ~ Loads(u, v)' /\ (Seeks(u, v)' => Seeks(u, v))
      <4>1. \A u \in Threads : ~ Loads(u, v)
        BY <3>1 DEF Loads, Uses, At
      <4> QED
        BY <2>1, <2>3, <3>1, <4>1, SameThreads
    <3>4. Orderly(v)'
      BY <2>2, <2>5, <3>3 DEF PageOk, Orderly
    <3>5. newest'[v] = Content(v)' /\ ~ (redo' > 0)
      BY <1>1, <2>5, <3>1, <3>2 DEF PageOk, Newest, Content
    <3> QED
      BY <1>1, <1>4, <2>5, <3>1, <3>4, <3>5 DEF PageOk, Newest
  <2> QED
    BY <1>1, <2>4, <2>5, PageAll
<1>8. ASSUME NEW v \in DOMAIN frames, frames[v].pin = 0, frames' = Pinned(v, 1), NEW pc \in {"evict", "manager"},
             Victim(t, pc, v)
      PROVE  PageInv'
  <2>1. /\ \A u \in Threads \ {t} : th'[u] = th[u]
        /\ th'[t].pc = pc /\ th'[t].page = th[t].page /\ th'[t].victim = v
    <3>1. v \in Pages
      BY <1>8 DEF Steady, Typed
    <3> QED
      BY <1>2, <1>8, <3>1, VictimIs DEF Steps
  <2>2. /\ DOMAIN frames' = DOMAIN frames /\ \A j \in DOMAIN frames : j # v => frames'[j] = frames[j]
        /\ frames'[v].pin = frames[v].pin + 1 /\ frames'[v].lsn = frames[v].lsn /\ frames'[v].dirty = frames[v].dirty
    BY <1>8, PinnedIs DEF Steady
  <2>3. \A j : ~ Uses(t, j)' /\ ~ Loads(t, j)' /\ (Takes(t, j)' <=> j = v) /\ (Seeks(t, j)' => Seeks(t, j))
    BY <1>3, <2>1 DEF Uses, Takes, Loads, Seeks, At, Evicting
  <2>4. ASSUME NEW j \in Pages, j # v, PageOk(j) PROVE PageOk(j)'
    BY <1>1, <1>3, <1>4, <2>1, <2>2, <2>3, <2>4, PageElse
  <2>5. ASSUME PageOk(v) PROVE PageOk(v)'
    <3>1. Framed(v) /\ ~ Loading(v) /\ \A u \in Threads : ~ Uses(u, v) /\ ~ Takes(u, v) /\ ~ Loads(u, v)
      BY <1>6, <1>8, <2>5
    <3>2. \A u \in Threads : ~ Uses(u, v)' /\ ~ Loads(u, v)' /\ (Seeks(u, v)' => Seeks(u, v))
      BY <2>1, <2>3, <3>1, SameThreads
    <3>3. ~ Loading(v)'
      BY <3>2 DEF Loading
    <3>4. Orderly(v)'
      BY <2>2, <2>5, <3>2 DEF PageOk, Orderly
    <3>5. Grown(v)'
      BY <1>1, <3>1 DEF Framed, Grown
    <3>6. IsFiniteSet(Users(v)') /\ frames'[v].pin = Cardinality(Users(v)')
      BY <1>3, <2>1, <2>2, <2>3, <3>1, MoreUsers DEF Framed
    <3>7. Framed(v)'
      BY <1>1, <1>4, <2>2, <3>1, <3>3, <3>5, <3>6 DEF Framed
    <3>8. newest'[v] = Content(v)' /\ ~ (redo' > 0)
      BY <1>1, <2>2, <2>5, <3>1, <3>3 DEF PageOk, Newest, Content
    <3> QED
      BY <1>1, <1>4, <2>5, <3>4, <3>7, <3>8 DEF PageOk, Newest
  <2> QED
    BY <1>1, <2>4, <2>5, PageAll
<1> QED
  BY <1>5, <1>7, <1>8 DEF Purge

LEMMA PageEvictFlush ==
  ASSUME Steady, PageInv, redo = 0, NEW t \in Threads, EvictFlush(t)
  PROVE  PageInv'
<1>1. /\ th[t].page # None /\ Job1(t) /\ th \in [Threads -> Job] /\ th[t].pc = "evict" /\ th[t].victim \in Pages
  BY Has DEF EvictFlush, At, Evicting
<1>2. PICK v \in Pages : v = th[t].victim
  BY <1>1
<1>3. /\ UNCHANGED <<header, newest, clog, redo, failed>>
      /\ disk' = [disk EXCEPT ![v] = frames[v].lsn] /\ frames' = Without(v) /\ Victim(t, "alloc", None)
  BY <1>2 DEF EvictFlush, logs, runs
<1>4. v \in DOMAIN frames
  BY <1>1, <1>2 DEF Job1, At, Evicting
<1>5. /\ \A u \in Threads \ {t} : th'[u] = th[u]
      /\ th'[t].pc = "alloc" /\ th'[t].page = th[t].page
  BY <1>1, <1>3, VictimIs DEF Steps
<1>6. DOMAIN frames' = DOMAIN frames \ {v} /\ \A j \in DOMAIN frames' : frames'[j] = frames[j]
  BY <1>3, WithoutIs
<1>7. disk'[v] = frames[v].lsn /\ \A j \in Pages : j # v => disk'[j] = disk[j]
  BY <1>3 DEF Steady, Typed
<1>8. \A j, i : ChangeOf(j, i)' <=> ChangeOf(j, i)
  BY <1>3, SameChange
<1>9. /\ Takes(t, v) /\ \A j : ~ Uses(t, j) /\ ~ Loads(t, j) /\ (Takes(t, j) => j = v)
      /\ \A j : ~ Uses(t, j)' /\ ~ Loads(t, j)' /\ ~ Takes(t, j)' /\ (Seeks(t, j)' => Seeks(t, j))
  BY <1>1, <1>2, <1>5 DEF Uses, Takes, Loads, Seeks, At, Evicting
<1>10. ASSUME NEW j \in Pages, j # v, PageOk(j) PROVE PageOk(j)'
  BY <1>3, <1>5, <1>6, <1>7, <1>8, <1>9, <1>10, PageElse
<1>11. ASSUME PageOk(v) PROVE PageOk(v)'
  <2>1. \A u \in Threads : ~ Uses(u, v) /\ ~ Loads(u, v)
    <3>1. \A u \in Threads : ~ Uses(u, v)
      BY <1>9, <1>11 DEF PageOk, Orderly
    <3> QED
      BY <3>1 DEF Loads, Uses, At
  <2>2. ~ Loading(v) /\ Framed(v)
    BY <1>4, <1>11, <2>1 DEF PageOk, Loading
  <2>3. frames[v].lsn # Unwritten /\ (frames[v].lsn > 0 => ChangeOf(v, frames[v].lsn)) /\ newest[v] = frames[v].lsn
    BY <1>4, <1>11, <2>2 DEF Framed, PageOk, Newest, Content
  <2>4. newest'[v] = Content(v)' /\ ~ (redo' > 0)
    BY <1>3, <1>6, <1>7, <2>3 DEF Content
  <2>5. (disk[v] > 0 => ChangeOf(v, disk[v]))'
    BY <1>3, <1>7, <2>3 DEF ChangeOf
  <2>6. Orderly(v)'
    <3>1. \A u \in Threads : ~ Uses(u, v)' /\ ~ Loads(u, v)' /\ (Seeks(u, v)' => Seeks(u, v))
      BY <1>5, <1>9, <2>1, SameThreads
    <3> QED
      BY <1>6, <1>11, <3>1 DEF PageOk, Orderly
  <2> QED
    BY <1>6, <1>7, <2>3, <2>4, <2>5, <2>6 DEF PageOk, Newest
<1> QED
  BY <1>3, <1>10, <1>11, PageAll

LEMMA PageLoad ==
  ASSUME Steady, HeaderInv, PageInv, redo = 0, NEW t \in Threads, Load(t)
  PROVE  PageInv'
<1>1. /\ th[t].page \in Pages /\ th[t].page # None /\ Job1(t) /\ th \in [Threads -> Job] /\ th[t].pc = "load"
      /\ th[t].why = "get"
  BY Has DEF Load
<1>2. PICK k \in Pages : k = th[t].page
  BY <1>1
<1>3. UNCHANGED <<header, disk, newest, clog, redo, failed>>
  BY DEF Load, files, logs, runs
<1>4. /\ Uses(t, k) /\ Loads(t, k) /\ Loading(k)
      /\ \A j : ~ Takes(t, j) /\ ~ Seeks(t, j) /\ (j # k => ~ Uses(t, j) /\ ~ Loads(t, j))
  BY <1>1, <1>2 DEF Uses, Takes, Loads, Seeks, Loading, At, Evicting
<1>5. \A j, i : ChangeOf(j, i)' <=> ChangeOf(j, i)
  BY <1>3, SameChange
<1>6. ASSUME PageOk(k)
      PROVE  /\ k \in DOMAIN frames /\ Framed(k) /\ newest[k] = disk[k] /\ frames[k].pin = 1
             /\ \A u \in Threads \ {t} : ~ Uses(u, k) /\ ~ Takes(u, k) /\ ~ Seeks(u, k) /\ ~ Loads(u, k)
  <2>1. k \in DOMAIN frames /\ Framed(k)
    BY <1>4, <1>6 DEF PageOk, Orderly
  <2>2. newest[k] = disk[k]
    BY <1>4, <1>6 DEF PageOk, Newest, Content
  <2>3. \A u \in Threads \ {t} : ~ Uses(u, k) /\ ~ Takes(u, k) /\ ~ Seeks(u, k)
    BY <1>4, <1>6, <2>1 DEF PageOk, Orderly
  <2>4. \A u \in Threads \ {t} : ~ Loads(u, k)
    BY <2>3 DEF Loads, Uses, At
  <2>5. Users(k) = {t}
    BY <1>4, <2>3 DEF Users
  <2> QED
    BY <2>1, <2>2, <2>3, <2>4, <2>5, FS_Singleton DEF Framed
<1>7. CASE disk[k] # Unwritten /\ frames' = [frames EXCEPT ![k].lsn = disk[k]] /\ To(t, "hold")
  <2>1. /\ \A u \in Threads \ {t} : th'[u] = th[u]
        /\ th'[t].pc = "hold" /\ th'[t].page = k
    BY <1>1, <1>2, <1>7, ToIs DEF Steps
  <2>2. /\ DOMAIN frames' = DOMAIN frames /\ (\A j \in DOMAIN frames : j # k => frames'[j] = frames[j])
        /\ k \in DOMAIN frames =>
             frames'[k].pin = frames[k].pin /\ frames'[k].dirty = frames[k].dirty /\ frames'[k].lsn = disk[k]
    <3>1. DOMAIN frames' = DOMAIN frames /\ (\A j \in DOMAIN frames : j # k => frames'[j] = frames[j])
      BY <1>7
    <3>2. ASSUME k \in DOMAIN frames
          PROVE  frames'[k].pin = frames[k].pin /\ frames'[k].dirty = frames[k].dirty /\ frames'[k].lsn = disk[k]
      <4>1. frames[k] \in FrameT
        BY <3>2 DEF Steady, Typed
      <4> QED
        BY <1>7, <3>2, <4>1 DEF FrameT
    <3> QED
      BY <3>1, <3>2
  <2>3. \A j : ~ Takes(t, j)' /\ ~ Seeks(t, j)' /\ ~ Loads(t, j)' /\ (Uses(t, j)' <=> j = k)
    BY <2>1 DEF Uses, Takes, Loads, Seeks, At, Evicting
  <2>4. ASSUME NEW j \in Pages, j # k, PageOk(j) PROVE PageOk(j)'
    BY <1>3, <1>4, <1>5, <2>1, <2>2, <2>3, <2>4, PageElse
  <2>5. ASSUME PageOk(k) PROVE PageOk(k)'
    <3>1. \A u \in Threads \ {t} : ~ Uses(u, k)' /\ ~ Takes(u, k)' /\ ~ Seeks(u, k)' /\ ~ Loads(u, k)'
      BY <1>6, <2>1, <2>5, SameThreads
    <3>2. Orderly(k)' /\ ~ Loading(k)'
      BY <1>6, <2>2, <2>3, <2>5, <3>1 DEF Orderly, Loading
    <3>3. Grown(k)'
      BY <1>1, <1>2, <1>3, InFile DEF Grown, At, Fetching
    <3>4. Users(k)' = Users(k)
      BY <1>4, <1>6, <2>3, <2>5, <3>1 DEF Users
    <3>5. (frames[k].lsn > 0 => ChangeOf(k, frames[k].lsn))'
      BY <1>3, <1>6, <2>2, <2>5 DEF PageOk, ChangeOf
    <3>6. Framed(k)'
      BY <1>3, <1>6, <1>7, <2>2, <2>5, <3>2, <3>3, <3>4, <3>5 DEF Framed
    <3>7. newest'[k] = Content(k)' /\ ~ (redo' > 0)
      BY <1>3, <1>6, <2>2, <2>5, <3>2 DEF Content
    <3> QED
      BY <1>3, <1>5, <2>5, <3>2, <3>6, <3>7 DEF PageOk, Newest
  <2> QED
    BY <1>3, <2>4, <2>5, PageAll
<1>8. CASE frames' = (IF frames[k].pin = 1 THEN Without(k) ELSE frames) /\ End(t)
  <2>1. /\ \A u \in Threads \ {t} : th'[u] = th[u]
        /\ th'[t].pc = "idle" /\ th'[t].page = None
    BY <1>1, <1>8, EndIs
  <2>2. /\ \A j : j # k => (j \in DOMAIN frames' <=> j \in DOMAIN frames)
        /\ \A j \in DOMAIN frames' : frames'[j] = frames[j]
        /\ frames[k].pin = 1 => k \notin DOMAIN frames'
    BY <1>8, WithoutIs
  <2>3. \A j : ~ Takes(t, j)' /\ ~ Seeks(t, j)' /\ ~ Loads(t, j)' /\ ~ Uses(t, j)'
    BY <2>1 DEF Uses, Takes, Loads, Seeks, At, Evicting
  <2>4. ASSUME NEW j \in Pages, j # k, PageOk(j) PROVE PageOk(j)'
    BY <1>3, <1>4, <1>5, <2>1, <2>2, <2>3, <2>4, PageElse
  <2>5. ASSUME PageOk(k) PROVE PageOk(k)'
    <3>1. \A u \in Threads : ~ Uses(u, k)' /\ ~ Takes(u, k)' /\ ~ Seeks(u, k)' /\ ~ Loads(u, k)'
      BY <1>6, <2>1, <2>3, <2>5, SameThreads
    <3>2. Orderly(k)'
      BY <3>1 DEF Orderly
    <3>3. k \notin DOMAIN frames' /\ newest'[k] = Content(k)' /\ ~ (redo' > 0)
      BY <1>3, <1>6, <2>2, <2>5 DEF Content
    <3> QED
      BY <1>3, <1>5, <2>5, <3>2, <3>3 DEF PageOk, Newest
  <2> QED
    BY <1>3, <2>4, <2>5, PageAll
<1> QED
  BY <1>2, <1>7, <1>8 DEF Load

\* What is known of a page changes as the function says.
LEMMA KnownAt ==
  ASSUME NEW f, newest' = Known(f)
  PROVE  /\ \A k \in Pages : newest[k] = Lost => newest'[k] = Lost
         /\ \A k \in Pages : newest[k] # Lost => newest'[k] = f[k]
BY DEF Known, Raced

\* Somebody holds the page, so that nobody is getting it.
LEMMA HeldPage ==
  ASSUME NEW t \in Threads, NEW k, th[t].pc = "hold", th[t].page = k, PageOk(k)
  PROVE  /\ k \in DOMAIN frames /\ Framed(k) /\ ~ Loading(k) /\ Uses(t, k)
         /\ \A u \in Threads : ~ Takes(u, k) /\ ~ Seeks(u, k) /\ ~ Loads(u, k) /\ ~ (Extends(u) /\ Uses(u, k))
<1>1. Uses(t, k) /\ ~ Loads(t, k)
  BY DEF Uses, Loads, At
<1>2. k \in DOMAIN frames /\ Framed(k) /\ \A u \in Threads : ~ Takes(u, k) /\ ~ Seeks(u, k) /\ ~ Loads(u, k)
  BY <1>1 DEF PageOk, Orderly
<1>3. \A u \in Threads : ~ (Extends(u) /\ Uses(u, k))
  BY <1>2 DEF Extends, Uses, Loads, At, Fetching
<1> QED
  BY <1>1, <1>2, <1>3 DEF Loading

LEMMA PageChange ==
  ASSUME Steady, PageInv, redo = 0, NEW t \in Threads, Change(t)
  PROVE  PageInv'
<1>1. th[t].page \in Pages /\ th[t].pc = "hold"
  BY Has DEF Change
<1>2. PICK k \in Pages : k = th[t].page
  BY <1>1
<1>3. /\ UNCHANGED <<header, disk, redo, failed, th>> /\ AppendLog(k, "change")
      /\ frames' = [frames EXCEPT ![k].lsn = NextLsn, ![k].dirty = TRUE]
      /\ newest' = Known([newest EXCEPT ![k] = NextLsn])
  BY <1>2 DEF Change, files, runs
<1>4. PICK n \in Nat : n = Len(clog) + 1 /\ n = NextLsn /\ n > 0
  BY DEF Steady, Typed, NextLsn
<1>5. DOMAIN frames' = DOMAIN frames /\ \A j \in DOMAIN frames : j # k => frames'[j] = frames[j]
  BY <1>3
<1>6. /\ \A j \in Pages : newest[j] = Lost => newest'[j] = Lost
      /\ \A j \in Pages : newest[j] # Lost /\ j # k => newest'[j] = newest[j]
      /\ newest[k] # Lost => newest'[k] = n
  BY <1>3, <1>4, KnownAt DEF Steady, Typed
<1>7. /\ \A j, i : ChangeOf(j, i) => ChangeOf(j, i)'
      /\ \A j, i : j # k /\ ChangeOf(j, i)' => ChangeOf(j, i)
      /\ ChangeOf(k, n)'
  BY <1>3, <1>4, MoreChange DEF Steady
<1>8. \A j : /\ Users(j)' = Users(j) /\ (Loading(j)' <=> Loading(j)) /\ (Grown(j)' <=> Grown(j)) /\ (Orderly(j)' <=> Orderly(j))
  <2>1. \A j, u : /\ (Uses(u, j)' <=> Uses(u, j)) /\ (Takes(u, j)' <=> Takes(u, j)) /\ (Loads(u, j)' <=> Loads(u, j))
                  /\ (Seeks(u, j)' <=> Seeks(u, j)) /\ (Extends(u)' <=> Extends(u))
    BY <1>3 DEF Uses, Takes, Loads, Seeks, Extends, At
  <2> QED
    BY <1>3, <1>5, <2>1 DEF Users, Loading, Grown, Orderly
<1>9. ASSUME NEW j \in Pages, j # k, newest[j] # Lost, PageOk(j) PROVE PageOk(j)'
  <2>1. (\A i : ChangeOf(j, i)' <=> ChangeOf(j, i)) /\ Orderly(j)'
    BY <1>7, <1>8, <1>9 DEF PageOk
  <2> QED
    BY <1>3, <1>5, <1>6, <1>8, <1>9, <2>1, SamePage
<1>10. ASSUME newest[k] # Lost, PageOk(k) PROVE PageOk(k)'
  <2>1. k \in DOMAIN frames /\ Framed(k) /\ ~ Loading(k)
    BY <1>1, <1>2, <1>10, HeldPage
  <2>2. frames'[k].pin = frames[k].pin /\ frames'[k].dirty /\ frames'[k].lsn = n
    <3>1. frames[k] \in FrameT
      BY <2>1 DEF Steady, Typed
    <3> QED
      BY <1>3, <1>4, <2>1, <3>1 DEF FrameT
  <2>3. disk[k] # Unwritten /\ n # Unwritten
    BY <1>4, <2>1 DEF Framed, Unwritten
  <2>4. Framed(k)'
    BY <1>3, <1>5, <1>7, <1>8, <2>1, <2>2, <2>3 DEF Framed
  <2>5. newest'[k] = Content(k)' /\ ~ (redo' > 0)
    BY <1>3, <1>5, <1>6, <1>8, <1>10, <2>1, <2>2 DEF Content
  <2>6. (disk[k] > 0 => ChangeOf(k, disk[k]))'
    <3>1. PICK d : d = disk[k]
      OBVIOUS
    <3>2. d > 0 => ChangeOf(k, d)
      BY <1>10, <3>1 DEF PageOk
    <3>3. d > 0 => ChangeOf(k, d)'
      BY <1>7, <3>2
    <3> QED
      BY <1>3, <3>1, <3>3
  <2> QED
    BY <1>3, <1>8, <1>10, <2>3, <2>4, <2>5, <2>6 DEF PageOk, Newest
<1> QED
  BY <1>3, <1>6, <1>9, <1>10, PageAll

\* Unpin and DisposeUnpin.
LEMMA PageUnpin ==
  ASSUME Steady, PageInv, redo = 0, NEW t \in Threads, Unpin(t) \/ DisposeUnpin(t)
  PROVE  PageInv'
<1>1. th[t].page \in Pages /\ th \in [Threads -> Job] /\ th[t].pc = "hold"
  BY Has DEF Unpin, DisposeUnpin
<1>2. PICK k \in Pages : k = th[t].page
  BY <1>1
<1>3. /\ UNCHANGED <<header, disk, newest, clog, redo, failed>> /\ frames' = Pinned(k, -1)
      /\ End(t) \/ To(t, "dispose")
  BY <1>2 DEF Unpin, DisposeUnpin, files, logs, runs
<1>4. /\ \A u \in Threads \ {t} : th'[u] = th[u]
      /\ th'[t].pc \in {"idle", "dispose"}
  BY <1>1, <1>3, EndIs, ToIs DEF Steps
<1>5. /\ DOMAIN frames' = DOMAIN frames /\ (\A j \in DOMAIN frames : j # k => frames'[j] = frames[j])
      /\ k \in DOMAIN frames => /\ frames'[k].pin = frames[k].pin + (-1) /\ frames'[k].lsn = frames[k].lsn
                                /\ frames'[k].dirty = frames[k].dirty /\ frames[k].pin \in Int
  BY <1>3, PinnedIs DEF Steady, Typed, FrameT
<1>6. \A j, i : ChangeOf(j, i)' <=> ChangeOf(j, i)
  BY <1>3, SameChange
<1>7. /\ \A j : ~ Takes(t, j) /\ ~ Loads(t, j) /\ ~ Seeks(t, j) /\ (Uses(t, j) <=> j = k)
      /\ \A j : ~ Uses(t, j)' /\ ~ Takes(t, j)' /\ ~ Loads(t, j)' /\ ~ Seeks(t, j)'
  BY <1>1, <1>2, <1>4 DEF Uses, Takes, Loads, Seeks, At, Evicting
<1>8. ASSUME NEW j \in Pages, j # k, PageOk(j) PROVE PageOk(j)'
  BY <1>3, <1>4, <1>5, <1>6, <1>7, <1>8, PageElse
<1>9. ASSUME PageOk(k) PROVE PageOk(k)'
  <2>1. /\ k \in DOMAIN frames /\ Framed(k) /\ ~ Loading(k)
        /\ \A u \in Threads : ~ Takes(u, k) /\ ~ Seeks(u, k) /\ ~ Loads(u, k) /\ ~ (Extends(u) /\ Uses(u, k))
    BY <1>1, <1>2, <1>9, HeldPage
  <2>2. \A u \in Threads : ~ Loads(u, k)'
    BY <1>4, <1>7, <2>1, SameThreads
  <2>3. ~ Loading(k)'
    BY <2>2 DEF Loading
  <2>4. Orderly(k)'
    BY <1>4, <1>5, <1>7, <1>9, OrderlyElse DEF PageOk
  <2>5. Grown(k)'
    BY <1>3, <2>1 DEF Framed, Grown
  <2>6. IsFiniteSet(Users(k)') /\ frames'[k].pin = Cardinality(Users(k)')
    <3>1. IsFiniteSet(Users(k)') /\ Cardinality(Users(k)') = Cardinality(Users(k)) - 1
      BY <1>4, <1>7, <2>1, LessUsers DEF Framed
    <3> QED
      BY <1>5, <2>1, <3>1 DEF Framed
  <2>7. Framed(k)'
    BY <1>3, <1>5, <1>6, <2>1, <2>3, <2>5, <2>6 DEF Framed
  <2>8. newest'[k] = Content(k)' /\ ~ (redo' > 0)
    BY <1>3, <1>5, <1>9, <2>1, <2>3 DEF PageOk, Newest, Content
  <2> QED
    BY <1>3, <1>6, <1>9, <2>4, <2>7, <2>8 DEF PageOk, Newest
<1> QED
  BY <1>3, <1>8, <1>9, PageAll

\* Nobody wants a page that is not allocated, while nobody holds the pool's lock.
LEMMA NobodyWants ==
  ASSUME Steady, HeaderInv, NEW p \in Pools, pool_lock[p] = None, NEW n \in PageNums, n # 0, n \notin header[p].bits
  PROVE  \A u \in Threads : th[u].page # <<p, n>>
<1>1. SUFFICES ASSUME NEW u \in Threads, th[u].page = <<p, n>> PROVE FALSE
  OBVIOUS
<1>2. th[u].page # None /\ th[u].page[1] = p /\ th[u].page[2] = n /\ None \notin Threads
  BY <1>1, PageIs
<1>3. Job1(u) /\ Owner(u)
  BY DEF Steady, ThreadInv, Sound
<1>4. th[u].why # "open"
  BY <1>2, <1>3 DEF Job1
<1>5. Extends(u)
  BY <1>2, <1>4 DEF HeaderInv, WantedPages
<1>6. pool_lock[p] = u
  BY <1>2, <1>3, <1>4, <1>5 DEF Owner, Extends, At
<1> QED
  BY <1>2, <1>6

LEMMA PageAllocateFree ==
  ASSUME Steady, HeaderInv, PageInv, redo = 0, NEW t \in Threads, NEW p \in Pools, AllocateFree(t, p)
  PROVE  PageInv'
<1> DEFINE h == header[p]
           c == Min((0..(h.page_count - 1)) \ h.bits)
<1>1. th[t].pc = "idle" /\ p \in opened /\ pool_lock[p] = None /\ h.allocated_pages < h.page_count
  BY DEF AllocateFree
<1>2. PICK n \in PageNums : n = c /\ n # 0 /\ n \notin h.bits
  BY <1>1, ChosenIs
<1>3. PICK k \in Pages : k = <<p, n>>
  BY PageIs
<1>4. /\ AppendLog(k, "allocate") /\ Begin(t, "lookup", k, "none")
      /\ header' = [header EXCEPT ![p] = [h EXCEPT !.allocated_pages = @ + 1, !.bits = @ \cup {n}, !.lsn = NextLsn]]
      /\ frames' = [frames EXCEPT ![Header(p)].dirty = TRUE]
      /\ UNCHANGED <<disk, newest, redo, failed>>
  BY <1>2, <1>3 DEF AllocateFree, files, runs
<1> HIDE DEF c
<1>5. /\ \A u \in Threads \ {t} : th'[u] = th[u]
      /\ th'[t].pc = "lookup"
  <2>1. th \in [Threads -> Job]
    BY DEF Steady, Typed
  <2> QED
    BY <1>4, <2>1, BeginIs DEF Steps, Reasons
<1>6. DOMAIN frames' = DOMAIN frames /\ \A j \in DOMAIN frames : j[2] # 0 => frames'[j] = frames[j]
  <2>1. \A j \in DOMAIN frames : j # Header(p) => frames'[j] = frames[j]
    BY <1>4
  <2> QED
    BY <1>4, <2>1, PageIs
<1>7. \A j, i : ChangeOf(j, i)' <=> ChangeOf(j, i)
  BY <1>4, MoreChange DEF Steady
<1>8. \A j \in Pages : header'[j[1]].page_count = header[j[1]].page_count
  <2>1. header \in [Pools -> HeaderT] /\ h \in HeaderT
    BY DEF Steady, Typed
  <2> QED
    BY <1>4, <2>1, PageIs DEF HeaderT
<1>9. /\ ~ At(t, {"load", "hold"}) /\ ~ At(t, {"load", "hold"})' /\ ~ At(t, Evicting) /\ ~ At(t, Evicting)'
      /\ \A j : ~ Seeks(t, j)'
  BY <1>1, <1>5 DEF At, Evicting, Seeks
<1> QED
  BY <1>4, <1>5, <1>6, <1>7, <1>8, <1>9, PageQuiet

\* A page beyond the end of the file has no frame, while nobody holds the pool's lock.
LEMMA PageAllocateNew ==
  ASSUME Steady, HeaderInv, PageInv, redo = 0, NEW t \in Threads, NEW p \in Pools, AllocateNew(t, p)
  PROVE  PageInv'
<1> DEFINE h == header[p]
<1>1. th[t].pc = "idle" /\ p \in opened /\ pool_lock[p] = None /\ h.page_count < MAX_PAGE_NUM
  BY DEF AllocateNew
<1>2. PICK n \in PageNums : n = h.page_count /\ n # 0 /\ n \notin h.bits
  <2>1. \A u \in Threads : pool_lock[p] = u => ~ Extends(u)
    BY <1>1, PageIs
  <2>2. h.page_count \in Nat /\ h.page_count >= 1 /\ \A n \in h.bits : n < h.page_count
    BY <1>1, <2>1, FreeHeader
  <2> QED
    BY <1>1, <2>2, BufferPoolAssumption DEF PageNums
<1>3. PICK k \in Pages : k = <<p, n>>
  BY PageIs
<1>4. /\ AppendLog(k, "allocate") /\ Begin(t, "alloc", k, "extend")
      /\ header' = [header EXCEPT ![p].lsn = NextLsn]
      /\ UNCHANGED <<frames, disk, newest, redo, failed>>
  BY <1>2, <1>3 DEF AllocateNew, files, runs
<1>5. /\ \A u \in Threads \ {t} : th'[u] = th[u]
      /\ th'[t].pc = "alloc" /\ th'[t].page = k
  <2>1. th \in [Threads -> Job]
    BY DEF Steady, Typed
  <2> QED
    BY <1>4, <2>1, BeginIs DEF Steps, Reasons
<1>6. \A u \in Threads : ~ Uses(u, k) /\ ~ Seeks(u, k)
  <2>1. \A u \in Threads : th[u].page # k
    BY <1>1, <1>2, <1>3, NobodyWants
  <2> QED
    BY <2>1 DEF Uses, Seeks
<1>7. PageOk(k) => k \notin DOMAIN frames
  <2>1. ~ Grown(k)
    <3>1. ~ (k[2] < header[k[1]].page_count)
      BY <1>2, <1>3, PageIs
    <3> QED
      BY <1>6, <3>1 DEF Grown
  <2> QED
    BY <2>1 DEF PageOk, Framed
<1>8. \A j, i : ChangeOf(j, i)' <=> ChangeOf(j, i)
  BY <1>4, MoreChange DEF Steady
<1>9. \A j \in Pages : header'[j[1]].page_count = header[j[1]].page_count
  <2>1. header \in [Pools -> HeaderT] /\ h \in HeaderT
    BY DEF Steady, Typed
  <2> QED
    BY <1>4, <2>1, PageIs DEF HeaderT
<1>10. /\ ~ At(t, {"load", "hold"}) /\ ~ At(t, {"load", "hold"})' /\ ~ At(t, Evicting) /\ ~ At(t, Evicting)'
       /\ \A j : Seeks(t, j)' => j = k
  BY <1>1, <1>5 DEF At, Evicting, Seeks
<1> QED
  BY <1>4, <1>5, <1>6, <1>7, <1>8, <1>9, <1>10, PageQuiet

\* The cleared page, which is on disk from now on; what it fills up to it nobody has.
LEMMA PageAllocateNewDone ==
  ASSUME Steady, HeaderInv, PageInv, redo = 0, NEW t \in Threads, AllocateNewDone(t)
  PROVE  PageInv'
<1>0. th[t].pc = "load" /\ th[t].why = "extend"
  BY DEF AllocateNewDone
<1>1. /\ th[t].page \in Pages /\ th[t].page # None /\ Job1(t) /\ th \in [Threads -> Job] /\ th[t].pc = "load"
      /\ th[t].why = "extend"
  BY <1>0, Has
<1>2. PICK k \in Pages : k = th[t].page
  BY <1>1
<1>3. PICK p \in Pools : p = k[1]
  BY PageIs
<1>4. UNCHANGED <<clog, redo, failed>> /\ disk' = WithHoles(disk, k) /\ newest' = Known(WithHoles(newest, k)) /\ To(t, "hold")
  <2>1. UNCHANGED <<clog, redo, failed>> /\ To(t, "hold")
    BY DEF AllocateNewDone, logs, runs
  <2>2. disk' = WithHoles(disk, th[t].page) /\ newest' = Known(WithHoles(newest, th[t].page))
    BY DEF AllocateNewDone
  <2> QED
    BY <1>2, <2>1, <2>2
<1>5. /\ k[2] # 0 /\ Extends(t) /\ Uses(t, k) /\ Loads(t, k) /\ Loading(k)
      /\ \A j : ~ Takes(t, j) /\ ~ Seeks(t, j) /\ (j # k => ~ Uses(t, j) /\ ~ Loads(t, j))
  <2>1. k[2] # 0
    BY <1>1, <1>2 DEF Job1
  <2> QED
    BY <1>1, <1>2, <2>1 DEF Uses, Takes, Loads, Seeks, Loading, At, Evicting, Extends, Fetching
<1>6. /\ \A u \in Threads \ {t} : th'[u] = th[u]
      /\ th'[t].pc = "hold" /\ th'[t].page = k
  BY <1>1, <1>2, <1>4, ToIs DEF Steps
<1>7. /\ DOMAIN frames' = DOMAIN frames /\ \A j \in DOMAIN frames : j[2] # 0 /\ j # k => frames'[j] = frames[j]
      /\ k \in DOMAIN frames => frames'[k].pin = frames[k].pin /\ frames'[k].lsn = 0 /\ ~ frames'[k].dirty
  BY <1>1, <1>2, <1>3, <1>5, PageIs, DoneFrames DEF Steady
<1>8. /\ header'[p].page_count = header[p].page_count + 1 /\ header[p].page_count \in Int
      /\ \A q \in Pools : q # p => header'[q] = header[q]
  <2>1. header \in [Pools -> HeaderT] /\ header[p] \in HeaderT
    BY DEF Steady, Typed
  <2>2. header' = [header EXCEPT ![p] = [header[p] EXCEPT !.allocated_pages = @ + 1, !.page_count = @ + 1, !.bits = @ \cup {k[2]}]]
    <3>1. PICK n \in PageNums : th[t].page = <<p, n>> /\ th[t].page[1] = p /\ th[t].page[2] = n /\ n = k[2]
      BY <1>2, <1>3, PageIs
    <3> QED
      BY <3>1 DEF AllocateNewDone
  <2>3. /\ header'[p] = [header[p] EXCEPT !.allocated_pages = @ + 1, !.page_count = @ + 1, !.bits = @ \cup {k[2]}]
        /\ \A q \in Pools : q # p => header'[q] = header[q]
    BY <2>1, <2>2
  <2> QED
    BY <2>1, <2>3 DEF HeaderT
<1>9. /\ k[2] < header'[k[1]].page_count
      /\ \A j \in Pages : j[2] < header[j[1]].page_count => j[2] < header'[j[1]].page_count
  <2>1. k[2] = header[p].page_count
    BY <1>1, <1>2, <1>3, <1>5 DEF HeaderInv, WantedPages
  <2>2. \A j \in Pages : j[1] \in Pools /\ j[2] \in Nat
    BY PageIs
  <2> QED
    BY <1>3, <1>8, <2>1, <2>2
<1>10. \A j, i : ChangeOf(j, i)' <=> ChangeOf(j, i)
  BY <1>4, SameChange
<1>11. \A j : ~ Takes(t, j)' /\ ~ Seeks(t, j)' /\ ~ Loads(t, j)' /\ (Uses(t, j)' <=> j = k)
  BY <1>6 DEF Uses, Takes, Loads, Seeks, At, Evicting
<1>12. /\ \A j \in Pages : newest[j] = Lost => newest'[j] = Lost
       /\ \A j \in Pages : newest[j] # Lost => newest'[j] = WithHoles(newest, k)[j]
  BY <1>4, KnownAt
<1>13. ASSUME NEW j \in Pages, j[2] # 0, j # k, newest[j] # Lost, PageOk(j) PROVE PageOk(j)'
  <2>1. Users(j)' = Users(j) /\ (Loading(j)' <=> Loading(j))
    BY <1>5, <1>6, <1>11, <1>13, SameUse
  <2>2. Orderly(j)'
    BY <1>5, <1>6, <1>7, <1>11, <1>13, OrderlyElse DEF PageOk
  <2>3. Grown(j) => Grown(j)'
    BY <1>5, <1>6, <1>9, <1>13, SameThreads DEF Grown
  <2>4. /\ disk'[j] = disk[j] \/ (disk[j] = Unwritten /\ disk'[j] = 0)
        /\ newest'[j] = newest[j] \/ (newest[j] = Unwritten /\ newest'[j] = 0)
        /\ disk[j] = newest[j] => disk'[j] = newest'[j]
    <3>1. /\ disk'[j] = IF j = k \/ (j[1] = k[1] /\ j[2] \in 1..k[2] /\ disk[j] = Unwritten) THEN 0 ELSE disk[j]
          /\ newest'[j] = IF j = k \/ (j[1] = k[1] /\ j[2] \in 1..k[2] /\ newest[j] = Unwritten) THEN 0 ELSE newest[j]
      BY <1>4, <1>12, <1>13 DEF WithHoles
    <3> QED
      BY <1>13, <3>1
  <2>5. newest[j] = Content(j)
    BY <1>13 DEF PageOk, Newest
  <2>6. CASE disk'[j] = disk[j] /\ newest'[j] = newest[j]
    BY <1>4, <1>7, <1>10, <1>13, <2>1, <2>2, <2>3, <2>6, SamePage
  <2>7. CASE j \in DOMAIN frames /\ ~ Loading(j)
    <3>1. disk[j] # Unwritten /\ newest[j] # Unwritten
      BY <1>13, <2>5, <2>7 DEF PageOk, Framed, Content
    <3> QED
      BY <2>4, <2>6, <3>1
  <2>8. CASE (j \notin DOMAIN frames \/ Loading(j)) /\ disk[j] = Unwritten /\ disk'[j] = 0
    <3>1. newest[j] = Unwritten /\ newest'[j] = 0
      BY <2>4, <2>5, <2>8 DEF Content, Unwritten
    <3>2. newest'[j] = Content(j)' /\ ~ (redo' > 0)
      BY <1>4, <1>7, <2>1, <2>8, <3>1 DEF Content
    <3>3. ASSUME j \in DOMAIN frames PROVE Framed(j)'
      <4>1. Framed(j) /\ frames'[j] = frames[j] /\ Loading(j)'
        BY <1>7, <1>13, <2>1, <2>8, <3>3 DEF PageOk
      <4> QED
        BY <1>10, <2>1, <2>3, <4>1 DEF Framed
    <3>4. disk'[j] # Unwritten /\ ~ (disk'[j] > 0)
      BY <2>8 DEF Unwritten
    <3> QED
      BY <1>7, <2>2, <3>2, <3>3, <3>4 DEF PageOk, Newest
  <2>9. CASE (j \notin DOMAIN frames \/ Loading(j)) /\ disk'[j] = disk[j]
    <3>1. newest'[j] = newest[j]
      BY <2>4, <2>5, <2>9 DEF Content
    <3> QED
      BY <2>6, <2>9, <3>1
  <2> QED
    BY <2>4, <2>7, <2>8, <2>9
<1>14. ASSUME newest[k] # Lost, PageOk(k) PROVE PageOk(k)'
  <2>1. /\ k \in DOMAIN frames /\ Framed(k)
        /\ \A u \in Threads \ {t} : ~ Uses(u, k) /\ ~ Takes(u, k) /\ ~ Seeks(u, k)
    BY <1>5, <1>14 DEF PageOk, Orderly
  <2>2. \A u \in Threads \ {t} : ~ Uses(u, k)' /\ ~ Takes(u, k)' /\ ~ Seeks(u, k)'
    BY <1>6, <2>1, SameThreads
  <2>3. \A u \in Threads : ~ Loads(u, k)'
    BY <1>11, <2>2 DEF Loads, Uses, At
  <2>4. Orderly(k)' /\ ~ Loading(k)'
    BY <1>7, <1>11, <2>1, <2>2, <2>3 DEF Orderly, Loading
  <2>5. Users(k)' = Users(k)
    BY <1>5, <1>11, <2>1, <2>2 DEF Users
  <2>6. Grown(k)'
    BY <1>9 DEF Grown
  <2>7. disk'[k] = 0 /\ newest'[k] = 0
    BY <1>4, <1>12, <1>14 DEF WithHoles
  <2>8. Framed(k)'
    BY <1>7, <2>1, <2>4, <2>5, <2>6, <2>7 DEF Framed, Unwritten
  <2>9. newest'[k] = Content(k)' /\ ~ (redo' > 0)
    BY <1>4, <1>7, <2>1, <2>4, <2>7 DEF Content
  <2>10. disk'[k] # Unwritten /\ ~ (disk'[k] > 0)
    BY <2>7 DEF Unwritten
  <2> QED
    BY <2>4, <2>8, <2>9, <2>10 DEF PageOk, Newest
<1> QED
  BY <1>4, <1>12, <1>13, <1>14, PageAll

LEMMA PageDispose ==
  ASSUME Steady, HeaderInv, PageInv, redo = 0, NEW t \in Threads, Dispose(t)
  PROVE  PageInv'
<1>0. th[t].pc = "free"
  BY DEF Dispose
<1>1. /\ th[t].page \in Pages /\ th \in [Threads -> Job]
  BY <1>0, Has
<1>2. PICK k \in Pages : k = th[t].page
  BY <1>1
<1>3. PICK p \in Pools : p = k[1]
  BY PageIs
<1> DEFINE f == Without(k)
<1>4. /\ UNCHANGED <<disk, redo, failed>> /\ fm_lock = None /\ AppendLog(k, "deallocate") /\ End(t)
      /\ newest' = Known([newest EXCEPT ![k] = disk[k]]) /\ frames' = [f EXCEPT ![Header(p)].dirty = TRUE]
      /\ header' = [header EXCEPT ![p] = [header[p] EXCEPT !.allocated_pages = @ - 1, !.bits = @ \ {k[2]}, !.lsn = NextLsn]]
  <2>1. UNCHANGED <<disk, redo, failed>> /\ fm_lock = None /\ End(t)
    BY DEF Dispose, files, runs
  <2>2. LET j == th[t].page
            q == j[1]
            g == Without(j)
        IN /\ AppendLog(j, "deallocate") /\ newest' = Known([newest EXCEPT ![j] = disk[j]])
           /\ frames' = [g EXCEPT ![Header(q)].dirty = TRUE]
           /\ header' = [header EXCEPT ![q] = [header[q] EXCEPT !.allocated_pages = @ - 1, !.bits = @ \ {j[2]}, !.lsn = NextLsn]]
    BY DEF Dispose
  <2> QED
    BY <1>2, <1>3, <2>1, <2>2
<1>5. /\ \A u \in Threads \ {t} : th'[u] = th[u] /\ th[u].page # k
      /\ th'[t].pc = "idle" /\ th'[t].page = None
  BY <1>0, <1>1, <1>2, <1>4, EndIs DEF HeaderInv, Disposers, At
<1>6. DOMAIN frames' = DOMAIN frames \ {k} /\ \A j \in DOMAIN frames' : j[2] # 0 => frames'[j] = frames[j]
  <2>1. DOMAIN f = DOMAIN frames \ {k} /\ \A j \in DOMAIN f : f[j] = frames[j]
    BY DEF Without
  <2> HIDE DEF f
  <2>2. DOMAIN frames' = DOMAIN f /\ \A j \in DOMAIN f : j # Header(p) => frames'[j] = f[j]
    BY <1>4
  <2> QED
    BY <2>1, <2>2, PageIs
<1>7. \A j \in Pages : header'[j[1]].page_count = header[j[1]].page_count
  <2>1. header \in [Pools -> HeaderT] /\ header[p] \in HeaderT
    BY DEF Steady, Typed
  <2> QED
    BY <1>4, <2>1, PageIs DEF HeaderT
<1>8. \A j, i : ChangeOf(j, i)' <=> ChangeOf(j, i)
  BY <1>4, MoreChange DEF Steady
<1>9. /\ \A j \in Pages : newest[j] = Lost => newest'[j] = Lost
      /\ \A j \in Pages : newest[j] # Lost /\ j # k => newest'[j] = newest[j]
      /\ newest[k] # Lost => newest'[k] = disk[k]
  BY <1>4, KnownAt DEF Steady, Typed
<1>10. /\ \A j : ~ Uses(t, j) /\ ~ Takes(t, j) /\ ~ Loads(t, j) /\ ~ Seeks(t, j)
       /\ \A j : ~ Uses(t, j)' /\ ~ Takes(t, j)' /\ ~ Loads(t, j)' /\ ~ Seeks(t, j)'
  BY <1>0, <1>5 DEF Uses, Takes, Loads, Seeks, At, Evicting
<1>11. ASSUME NEW j \in Pages, j[2] # 0, j # k, newest[j] # Lost, PageOk(j) PROVE PageOk(j)'
  BY <1>4, <1>5, <1>6, <1>7, <1>8, <1>9, <1>10, <1>11, PageElse
<1>12. ASSUME newest[k] # Lost, PageOk(k) PROVE PageOk(k)'
  <2>1. \A u \in Threads : ~ Uses(u, k)' /\ ~ Loads(u, k)' /\ ~ Seeks(u, k)'
    <3>1. \A u \in Threads \ {t} : ~ Uses(u, k) /\ ~ Loads(u, k) /\ ~ Seeks(u, k)
      BY <1>5 DEF Uses, Loads, Seeks
    <3> QED
      BY <1>5, <1>10, <3>1, SameThreads
  <2>2. Orderly(k)'
    BY <2>1 DEF Orderly
  <2>3. newest'[k] = Content(k)' /\ ~ (redo' > 0)
    BY <1>4, <1>6, <1>9, <1>12 DEF Content
  <2>4. (disk[k] > 0 => ChangeOf(k, disk[k]))'
    <3>1. PICK d : d = disk[k]
      OBVIOUS
    <3>2. d > 0 => ChangeOf(k, d)'
      BY <1>8, <1>12, <3>1 DEF PageOk
    <3> QED
      BY <1>4, <3>1, <3>2
  <2>5. \A i \in 1..Len(clog') : ChangeOf(k, i)' => disk'[k] # Unwritten
    BY <1>4, <1>8, <1>12 DEF PageOk, ChangeOf
  <2> QED
    BY <1>6, <2>2, <2>3, <2>4, <2>5 DEF PageOk, Newest
<1> QED
  BY <1>4, <1>9, <1>11, <1>12, PageAll

\* The header of a file is not one of the pages.
LEMMA PageOpenFile ==
  ASSUME Steady, PageInv, redo = 0, NEW t \in Threads, NEW p \in Pools, OpenFile(t, p)
  PROVE  PageInv'
<1>1. /\ th[t].pc = "idle" /\ Begin(t, "alloc", Header(p), "open")
      /\ UNCHANGED <<frames, header, disk, clog, newest, redo, failed>>
  BY DEF OpenFile, logs, runs
<1>2. PICK k \in Pages : k = Header(p) /\ k[2] = 0
  BY PageIs
<1>3. /\ \A u \in Threads \ {t} : th'[u] = th[u]
      /\ th'[t].pc = "alloc" /\ th'[t].page = k
  <2>1. th \in [Threads -> Job]
    BY DEF Steady, Typed
  <2> QED
    BY <1>1, <1>2, <2>1, BeginIs DEF Steps, Reasons
<1>4. \A j, i : ChangeOf(j, i)' <=> ChangeOf(j, i)
  BY <1>1, SameChange
<1>5. /\ ~ At(t, {"load", "hold"}) /\ ~ At(t, {"load", "hold"})' /\ ~ At(t, Evicting) /\ ~ At(t, Evicting)'
      /\ \A j : Seeks(t, j)' => j[2] = 0
  BY <1>1, <1>2, <1>3 DEF At, Evicting, Seeks
<1> QED
  BY <1>1, <1>3, <1>4, <1>5, PageQuiet

LEMMA PageOpenFileDone ==
  ASSUME Steady, PageInv, redo = 0, NEW t \in Threads, OpenFileDone(t)
  PROVE  PageInv'
<1>0. th[t].pc = "load" /\ th[t].why = "open"
  BY DEF OpenFileDone
<1>1. /\ th[t].page # None /\ Job1(t) /\ th \in [Threads -> Job] /\ PoolOf(t) \in Pools
  BY <1>0, Has DEF PoolOf
<1>2. PICK p \in Pools : p = PoolOf(t)
  BY <1>1
<1>3. /\ header' = [header EXCEPT ![p] = disk_header[p]] /\ frames' = [frames EXCEPT ![Header(p)].lsn = 0] /\ End(t)
      /\ UNCHANGED <<disk, clog, newest, redo, failed>>
  BY <1>2 DEF OpenFileDone, files, logs, runs
<1>4. /\ \A u \in Threads \ {t} : th'[u] = th[u]
      /\ th'[t].pc = "idle"
  BY <1>1, <1>3, EndIs
<1>5. DOMAIN frames' = DOMAIN frames /\ \A j \in DOMAIN frames : j[2] # 0 => frames'[j] = frames[j]
  <2>1. \A j \in DOMAIN frames : j # Header(p) => frames'[j] = frames[j]
    BY <1>3
  <2> QED
    BY <1>3, <2>1, PageIs
<1>6. \A j \in Pages : j \in DOMAIN frames /\ j[2] # 0 => header'[j[1]] = header[j[1]]
  <2>1. p \notin opened
    BY <1>0, <1>1, <1>2 DEF Job1, PoolOf
  <2>2. \A j \in DOMAIN frames : j[2] # 0 => j[1] \in opened
    BY DEF Steady, ThreadInv, HeaderFrames
  <2>3. header \in [Pools -> HeaderT]
    BY DEF Steady, Typed
  <2> QED
    BY <1>3, <2>1, <2>2, <2>3, PageIs
<1>7. \A j, i : ChangeOf(j, i)' <=> ChangeOf(j, i)
  BY <1>3, SameChange
<1>8. /\ At(t, {"load"}) /\ ~ At(t, {"load", "hold"})' /\ ~ At(t, Evicting) /\ ~ At(t, Evicting)' /\ \A j : ~ Seeks(t, j)'
  BY <1>0, <1>4 DEF At, Evicting, Seeks
<1> QED
  BY <1>0, <1>3, <1>4, <1>5, <1>6, <1>7, <1>8, PageQuiet

\* The users of the frames do not move.
LEMMA SameUsers ==
  ASSUME th' = th, NEW j, j \in DOMAIN frames' <=> j \in DOMAIN frames
  PROVE  /\ Orderly(j)' <=> Orderly(j)
         /\ Users(j)' = Users(j) /\ (Loading(j)' <=> Loading(j))
         /\ header' = header => (Grown(j) => Grown(j)')
<1>1. \A u : /\ (Uses(u, j)' <=> Uses(u, j)) /\ (Takes(u, j)' <=> Takes(u, j)) /\ (Loads(u, j)' <=> Loads(u, j))
             /\ (Seeks(u, j)' <=> Seeks(u, j)) /\ (Extends(u)' <=> Extends(u))
  BY DEF Uses, Takes, Loads, Seeks, Extends, At
<1> QED
  BY <1>1 DEF Orderly, Users, Loading, Grown

LEMMA PageSyncFlush ==
  ASSUME Steady, PageInv, redo = 0, NEW t \in Threads, NEW k \in Pages, SyncFlush(t, k)
  PROVE  PageInv'
<1>1. /\ th[t].pc = "sync" /\ k \in DOMAIN frames /\ frames' = [frames EXCEPT ![k].dirty = FALSE]
      /\ IF k[2] = 0 THEN disk' = disk ELSE disk' = [disk EXCEPT ![k] = frames[k].lsn]
      /\ UNCHANGED <<header, clog, th, newest, redo, failed>>
  BY DEF SyncFlush, logs, runs
<1>2. /\ DOMAIN frames' = DOMAIN frames /\ (\A j \in DOMAIN frames : j # k => frames'[j] = frames[j])
      /\ frames'[k].pin = frames[k].pin /\ ~ frames'[k].dirty /\ frames'[k].lsn = frames[k].lsn
  <2>1. frames[k] \in FrameT
    BY <1>1 DEF Steady, Typed
  <2> QED
    BY <1>1, <2>1 DEF FrameT
<1>3. \A j, i : ChangeOf(j, i)' <=> ChangeOf(j, i)
  BY <1>1, SameChange
<1>4. ASSUME NEW j \in Pages, j # k, PageOk(j) PROVE PageOk(j)'
  <2>1. disk'[j] = disk[j]
    BY <1>1, <1>4 DEF Steady, Typed
  <2>2. Orderly(j)' /\ Users(j)' = Users(j) /\ (Loading(j)' <=> Loading(j)) /\ (Grown(j) => Grown(j)')
    BY <1>1, <1>2, <1>4, SameUsers DEF PageOk
  <2> QED
    BY <1>1, <1>2, <1>3, <1>4, <2>1, <2>2, SamePage
<1>5. ASSUME k[2] # 0, PageOk(k) PROVE PageOk(k)'
  <2>1. Framed(k) /\ disk'[k] = frames[k].lsn
    BY <1>1, <1>5 DEF PageOk, Steady, Typed
  <2>2. ~ Loading(k)
    BY <1>1 DEF Steady, ThreadInv, SyncAlone, Loading, Loads, At
  <2>3. Orderly(k)' /\ Users(k)' = Users(k) /\ (Loading(k)' <=> Loading(k)) /\ (Grown(k) => Grown(k)')
    BY <1>1, <1>2, <1>5, SameUsers DEF PageOk
  <2>4. Framed(k)'
    BY <1>1, <1>2, <1>3, <2>1, <2>2, <2>3 DEF Framed
  <2>5. newest'[k] = Content(k)' /\ ~ (redo' > 0)
    BY <1>1, <1>2, <1>5, <2>2, <2>3 DEF PageOk, Newest, Content
  <2>6. (disk[k] > 0 => ChangeOf(k, disk[k]))' /\ disk'[k] # Unwritten
    BY <1>1, <2>1, <2>2 DEF Framed, ChangeOf
  <2> QED
    BY <1>1, <2>3, <2>4, <2>5, <2>6 DEF PageOk, Newest
<1> QED
  BY <1>1, <1>4, <1>5, PageAll

\* Steps that leave the pages alone: LogFlush, and none at all.
LEMMA PageStill ==
  ASSUME PageInv, UNCHANGED <<frames, header, disk, clog, th, newest, redo, failed>>
  PROVE  PageInv'
<1>1. \A j, i : ChangeOf(j, i)' <=> ChangeOf(j, i)
  BY SameChange
<1>2. ASSUME NEW j \in Pages, PageOk(j) PROVE PageOk(j)'
  <2>1. Orderly(j)' /\ Users(j)' = Users(j) /\ (Loading(j)' <=> Loading(j)) /\ (Grown(j) => Grown(j)')
    BY <1>2, SameUsers DEF PageOk
  <2>2. Content(j)' = Content(j)
    BY <2>1 DEF Content
  <2>3. j \in DOMAIN frames' => Framed(j)'
    BY <1>1, <1>2, <2>1 DEF PageOk, Framed
  <2>4. Newest(j)'
    BY <1>1, <1>2, <2>2 DEF PageOk, Newest
  <2> QED
    BY <1>1, <1>2, <2>1, <2>3, <2>4 DEF PageOk
<1> QED
  BY <1>2, PageAll

-----------------------------------------------------------------------------
(* Crashes and redo: nobody uses a page.                                    *)
LEMMA IdleUsers ==
  ASSUME \A u \in Threads : th[u].pc = "idle", NEW j
  PROVE  /\ Orderly(j) /\ IsFiniteSet(Users(j)) /\ Cardinality(Users(j)) = 0 /\ ~ Loading(j)
         /\ Grown(j) <=> j[2] < header[j[1]].page_count
<1>1. ASSUME NEW u \in Threads PROVE ~ Uses(u, j) /\ ~ Takes(u, j) /\ ~ Loads(u, j) /\ ~ Seeks(u, j)
  BY DEF Uses, Takes, Loads, Seeks, At, Evicting
<1>2. IsFiniteSet(Users(j)) /\ Cardinality(Users(j)) = 0
  BY <1>1, NoUsers
<1> QED
  BY <1>1, <1>2 DEF Orderly, Loading, Grown

LEMMA IdleUsersNext ==
  ASSUME \A u \in Threads : th'[u].pc = "idle", NEW j
  PROVE  /\ Orderly(j)' /\ IsFiniteSet(Users(j)') /\ Cardinality(Users(j)') = 0 /\ ~ Loading(j)'
         /\ j[2] < header'[j[1]].page_count => Grown(j)'
<1>1. ASSUME NEW u \in Threads PROVE ~ Uses(u, j)' /\ ~ Takes(u, j)' /\ ~ Loads(u, j)' /\ ~ Seeks(u, j)'
  BY DEF Uses, Takes, Loads, Seeks, At, Evicting
<1>2. Users(j)' = {}
  BY <1>1 DEF Users
<1> QED
  BY <1>1, <1>2, FS_EmptySet DEF Orderly, Loading, Grown

\* After a crash the content is on disk, and not newer than the log.
LEMMA PageCrash ==
  ASSUME Steady, WalInv, PageInv, Crash
  PROVE  PageInv'
<1> DEFINE exist == {p \in Pools : disk_header[p].page_count > 0}
<1>1. /\ frames' = [k \in {Header(p) : p \in exist} |-> HeaderFrame] /\ clog' = SubSeq(clog, 1, flushed)
      /\ th' = [t \in Threads |-> Idle] /\ newest' = Known([k \in Pages |-> LastChange(k)]) /\ redo' = 1 /\ failed' = FALSE
      /\ disk' = disk
  BY DEF Crash, files
<1>2. /\ Len(clog') = flushed /\ flushed \in Nat
      /\ \A i \in 1..flushed : clog'[i] = clog[i] /\ i \in 1..Len(clog)
  BY <1>1 DEF Steady, Typed
<1>3. \A j : Orderly(j)'
  BY <1>1, IdleIs, IdleUsersNext
<1>4. \A j \in DOMAIN frames' : j[2] = 0
  BY <1>1, PageIs
<1>5. /\ \A k \in Pages : newest[k] = Lost => newest'[k] = Lost
      /\ \A k \in Pages : newest[k] # Lost => newest'[k] = LastChange(k)
  <2>1. PICK f : f = [k \in Pages |-> LastChange(k)]
    OBVIOUS
  <2>2. newest' = Known(f)
    BY <1>1, <2>1
  <2>3. /\ \A k \in Pages : newest[k] = Lost => newest'[k] = Lost
        /\ \A k \in Pages : newest[k] # Lost => newest'[k] = f[k]
    BY <2>2, KnownAt
  <2> QED
    BY <2>1, <2>3
<1>6. ASSUME NEW k \in Pages, k[2] # 0, newest[k] # Lost, PageOk(k) PROVE PageOk(k)'
  <2>1. PageOk(k) /\ k \notin DOMAIN frames' /\ disk[k] \in Int /\ disk[k] <= flushed
    BY <1>4, <1>6 DEF Steady, Typed, WalInv, WriteAhead
  <2>2. \A i : ChangeOf(k, i)' <=> ChangeOf(k, i) /\ i \in 1..flushed
    BY <1>2 DEF ChangeOf
  <2>3. disk[k] > 0 => ChangeOf(k, disk[k]) /\ disk[k] \in 1..flushed
    BY <1>2, <2>1 DEF PageOk
  <2>4. (disk[k] > 0 => ChangeOf(k, disk[k]))'
    <3>1. PICK d : d = disk[k]
      OBVIOUS
    <3>2. d > 0 => ChangeOf(k, d)'
      BY <2>2, <2>3, <3>1
    <3> QED
      BY <1>1, <3>1, <3>2
  <2>5. \A i \in 1..Len(clog') : ChangeOf(k, i)' => disk'[k] # Unwritten
    BY <1>1, <1>2, <2>1, <2>2 DEF PageOk
  <2>6. Content(k)' = disk[k] /\ newest'[k] = LastChange(k)
    BY <1>1, <1>5, <1>6, <2>1 DEF Content
  <2>7. PICK m \in Int : m = LastChange(k)
    BY LastChangeIs DEF Steady
  <2>8. \/ m = disk[k] /\ \A i : ~ ChangeOf(k, i)'
        \/ m \in 1..flushed /\ ChangeOf(k, m)' /\ \A i : ChangeOf(k, i)' => i <= m
    <3>1. \/ m = disk[k] /\ \A i \in 1..flushed : ~ (clog[i].page = k /\ clog[i].op = "change")
          \/ /\ m \in 1..flushed /\ clog[m].page = k /\ clog[m].op = "change"
             /\ \A i \in 1..flushed : clog[i].page = k /\ clog[i].op = "change" => i <= m
      BY <2>7, LastChangeIs DEF Steady
    <3>2. \A i : ChangeOf(k, i)' <=> i \in 1..flushed /\ clog[i].page = k /\ clog[i].op = "change"
      BY <1>2, <2>2 DEF ChangeOf
    <3> QED
      BY <3>1, <3>2
  <2>9. Newest(k)'
    <3>1. CASE m = disk[k]
      <4>1. \A i : ChangeOf(k, i)' => i <= m
        BY <2>8, <3>1
      <4> QED
        BY <1>1, <2>6, <2>7, <3>1, <4>1 DEF Newest
    <3>2. CASE m # disk[k]
      <4>1. m \in 1..flushed /\ ChangeOf(k, m)' /\ \A i : ChangeOf(k, i)' => i <= m
        BY <2>8, <3>2
      <4>2. disk[k] < m
        BY <1>2, <2>1, <2>2, <2>3, <3>2, <4>1
      <4>3. newest'[k] = m /\ redo' > 0 /\ newest'[k] >= redo' /\ Content(k)' < newest'[k]
        BY <1>1, <1>2, <2>6, <2>7, <4>1, <4>2
      <4>4. ChangeOf(k, newest[k])'
        BY <4>1, <4>3 DEF ChangeOf
      <4> QED
        BY <4>1, <4>3, <4>4 DEF Newest
    <3> QED
      BY <3>1, <3>2
  <2> QED
    BY <1>3, <2>1, <2>4, <2>5, <2>9 DEF PageOk
<1> QED
  BY <1>1, <1>5, <1>6, PageAll

\* A page that a step of redo leaves alone.
LEMMA RedoElse ==
  ASSUME Steady, redo > 0, UNCHANGED <<clog, th>>, NEW j \in Pages, PageOk(j), disk'[j] = disk[j], newest'[j] = newest[j],
         redo' = redo \/ (redo' = redo + 1 /\ ~ ChangeOf(j, redo)),
         j \in DOMAIN frames' <=> j \in DOMAIN frames, j \in DOMAIN frames => frames'[j] = frames[j], Grown(j) => Grown(j)'
  PROVE  PageOk(j)'
<1>1. redo \in Nat /\ Len(clog) \in Nat /\ newest[j] \in Int
  BY DEF Steady, Typed
<1>2. \A i : ChangeOf(j, i)' <=> ChangeOf(j, i)
  BY SameChange
<1>3. Orderly(j)' /\ Users(j)' = Users(j) /\ (Loading(j)' <=> Loading(j))
  BY SameUsers DEF PageOk
<1>4. j \in DOMAIN frames' => Framed(j)'
  BY <1>2, <1>3 DEF PageOk, Framed
<1>5. (disk[j] > 0 => ChangeOf(j, disk[j]))' /\ \A i \in 1..Len(clog') : ChangeOf(j, i)' => disk'[j] # Unwritten
  BY <1>2 DEF PageOk, ChangeOf
<1>6. Content(j)' = Content(j)
  BY <1>3 DEF Content
<1>7. Newest(j)'
  <2>1. redo' > 0 /\ \A i \in redo'..Len(clog') : i \in redo..Len(clog)
    BY <1>1
  <2>2. CASE newest[j] = Content(j) /\ \A i \in redo..Len(clog) : ChangeOf(j, i) => i <= Content(j)
    BY <1>2, <1>6, <2>1, <2>2 DEF Newest
  <2>3. CASE /\ newest[j] >= redo /\ Content(j) < newest[j] /\ ChangeOf(j, newest[j])
             /\ \A i \in redo..Len(clog) : ChangeOf(j, i) => i <= newest[j]
    <3>1. newest[j] >= redo'
      BY <1>1, <2>3
    <3>2. ChangeOf(j, newest[j])'
      BY <2>3 DEF ChangeOf
    <3> QED
      BY <1>2, <1>6, <2>1, <2>3, <3>1, <3>2 DEF Newest
  <2> QED
    BY <2>2, <2>3 DEF PageOk, Newest
<1> QED
  BY <1>3, <1>4, <1>5, <1>7 DEF PageOk

LEMMA PageRedoHeader ==
  ASSUME Steady, HeaderInv, PageInv, RedoHeader
  PROVE  PageInv'
<1>1. /\ failed' = failed /\ redo \in 1..Len(clog) /\ redo' = redo + 1 /\ UNCHANGED <<clog, th>>
  BY RedoHeaderIs
<1>2. UNCHANGED <<disk, newest>>
  BY RedoHeaderDoes DEF files
<1>3. /\ redo > 0 /\ clog[redo].op \in {"allocate", "deallocate"} /\ clog[redo].page[1] \in Pools /\ clog[redo].page[2] \in PageNums
      /\ \A t \in Threads : th[t].pc = "idle"
  BY Redoes, RedoHeaderDoes
<1>4. PICK p \in Pools, n \in PageNums : p = clog[redo].page[1] /\ n = clog[redo].page[2]
  BY <1>3
<1>5. DOMAIN frames' = DOMAIN frames /\ \A j \in DOMAIN frames : j[2] # 0 => frames'[j] = frames[j]
  <2>1. PICK d \in BOOLEAN : frames' = frames \/ frames' = [frames EXCEPT ![Header(p)].dirty = @ \/ d]
    BY <1>4, RedoHeaderDoes
  <2>2. DOMAIN frames' = DOMAIN frames /\ \A j \in DOMAIN frames : j # Header(p) => frames'[j] = frames[j]
    BY <2>1
  <2> QED
    BY <2>2, PageIs
<1>6. \A q \in Pools : header[q].page_count \in Int /\ header'[q].page_count \in Int /\ header'[q].page_count >= header[q].page_count
  <2>1. header \in [Pools -> HeaderT] /\ header[p] \in HeaderT /\ redo \in Nat /\ n \in Nat
    BY <1>1, <1>3, PageIs DEF Steady, Typed
  <2>2. \/ header' = header \/ header' = [header EXCEPT ![p] = RedoAllocate(header[p], redo, n)]
        \/ header' = [header EXCEPT ![p] = RedoDeallocate(header[p], redo, n)]
    BY <1>4, RedoHeaderDoes
  <2>3. RedoDeallocate(header[p], redo, n).page_count = header[p].page_count
    BY <2>1 DEF RedoDeallocate, HeaderT
  <2>4. RedoAllocate(header[p], redo, n).page_count \in {header[p].page_count, n + 1}
    BY <2>1 DEF RedoAllocate, HeaderT
  <2>5. n < header[p].page_count => RedoAllocate(header[p], redo, n).page_count = header[p].page_count
    BY <2>1 DEF RedoAllocate, HeaderT
  <2>6. \A q \in Pools : header[q].page_count \in Int
    BY <2>1 DEF HeaderT
  <2> QED
    BY <2>1, <2>2, <2>3, <2>4, <2>5, <2>6
<1>7. ASSUME NEW j \in Pages, j[2] # 0, PageOk(j) PROVE PageOk(j)'
  <2>1. ~ ChangeOf(j, redo)
    BY <1>3 DEF ChangeOf
  <2>2. Grown(j) => Grown(j)'
    <3>1. j[1] \in Pools /\ j[2] \in Int
      BY PageIs
    <3>2. j[2] < header[j[1]].page_count => j[2] < header'[j[1]].page_count
      BY <1>6, <3>1
    <3>3. Grown(j) => j[2] < header[j[1]].page_count
      BY <1>3, IdleUsers
    <3> QED
      BY <3>2, <3>3 DEF Grown
  <2> QED
    BY <1>1, <1>2, <1>3, <1>5, <1>7, <2>1, <2>2, RedoElse
<1> QED
  BY <1>1, <1>2, <1>7, PageAll

\* The page of a change is in the file, so that redo can get it.
LEMMA ChangedPage ==
  ASSUME Steady, HeaderInv, redo \in 1..Len(clog), ~ failed, clog[redo].op = "change", NEW k \in Pages, k = clog[redo].page
  PROVE  k[1] \in opened /\ k[2] # 0 /\ k[2] < header[k[1]].page_count
<1>1. PICK p \in Pools, n \in PageNums : p = k[1] /\ n = k[2]
  BY PageIs
<1>2. p \in opened /\ Possible(clog, redo, p, n) /\ redo > 0 /\ redo # 0 /\ redo \in Nat /\ Len(clog) \in Nat
  BY <1>1 DEF HeaderInv, LogSane, Steady, Typed
<1>3. PICK m \in (redo - 1)..Len(clog) : Good(clog, header[p], p, m)
  BY <1>2 DEF HeaderInv, Redone
<1>4. n # 0 /\ Extended(clog, p, n, redo - 1)
  BY <1>2 DEF Possible
<1>5. Extended(clog, p, n, m)
  <2>1. \A i \in 1..(redo - 1) : i \in 1..m
    BY <1>2, <1>3
  <2> QED
    BY <1>4, <2>1 DEF Extended
<1>6. n < header[p].page_count
  BY <1>3, <1>5 DEF Good, AsOf
<1> QED
  BY <1>1, <1>2, <1>4, <1>6

\* Redo of a change, of a page whose content is known.
LEMMA RedoKnown ==
  ASSUME Steady, HeaderInv, PageInv, RedoChange, NEW k \in Pages, k = clog[redo].page, newest[k] # Lost
  PROVE  failed' = failed /\ PageOk(k)'
<1>0. /\ redo \in 1..Len(clog) /\ redo > 0 /\ redo \in Nat /\ Len(clog) \in Nat /\ ~ failed /\ clog[redo].op = "change"
      /\ \A t \in Threads : th[t].pc = "idle"
  BY Redoes DEF RedoChange
<1> DEFINE old == IF k \in DOMAIN frames THEN frames[k] ELSE [pin |-> 0, dirty |-> FALSE, lsn |-> disk[k]]
           new == IF old.lsn >= redo THEN old ELSE [old EXCEPT !.dirty = TRUE, !.lsn = redo]
<1>2. redo' = redo + 1 /\ UNCHANGED <<header, disk, clog, th, newest>>
  BY DEF RedoChange, files, logs
<1>3. k[1] \in opened /\ k[2] # 0 /\ k[2] < header[k[1]].page_count
  BY <1>0, ChangedPage
<1>4. /\ ChangeOf(k, redo) /\ PageOk(k) /\ (k \in DOMAIN frames => Framed(k)) /\ disk[k] # Unwritten /\ disk[k] \in Int
      /\ newest[k] \in Int
  <2>1. ChangeOf(k, redo) /\ PageOk(k)
    BY <1>0, <1>3 DEF PageInv, ChangeOf
  <2> QED
    BY <1>0, <2>1 DEF PageOk, Steady, Typed
<1>5. failed' = failed /\ frames' = With(k, new)
  BY <1>3, <1>4 DEF RedoChange
<1>6. /\ ~ Loading(k) /\ IsFiniteSet(Users(k)) /\ Cardinality(Users(k)) = 0
      /\ ~ Loading(k)' /\ IsFiniteSet(Users(k)') /\ Cardinality(Users(k)') = 0 /\ Orderly(k)' /\ Grown(k)'
  <2>1. \A t \in Threads : th'[t].pc = "idle"
    BY <1>0, <1>2
  <2>2. k[2] < header'[k[1]].page_count
    BY <1>2, <1>3
  <2> QED
    BY <1>0, <2>1, <2>2, IdleUsers, IdleUsersNext
<1>8. PICK f : f = new
  OBVIOUS
<1>9. /\ f.pin = 0 /\ f.lsn \in Int /\ old.lsn \in Int
      /\ old.lsn >= redo => f.lsn = old.lsn
      /\ old.lsn < redo => f.lsn = redo
      /\ ~ f.dirty => disk[k] = f.lsn
      /\ old.lsn = Content(k) /\ old.lsn # Unwritten /\ (old.lsn > 0 => ChangeOf(k, old.lsn))
  <2>1. PICK o \in FrameT : /\ o = old /\ o.pin = 0 /\ (~ o.dirty => disk[k] = o.lsn) /\ o.lsn = Content(k) /\ o.lsn # Unwritten
                            /\ o.lsn > 0 => ChangeOf(k, o.lsn)
    <3>1. CASE k \in DOMAIN frames
      <4>1. frames[k] \in FrameT /\ old = frames[k]
        BY <3>1 DEF Steady, Typed
      <4> QED
        BY <1>4, <1>6, <3>1, <4>1 DEF Framed, Content
    <3>2. CASE k \notin DOMAIN frames
      <4>1. old = [pin |-> 0, dirty |-> FALSE, lsn |-> disk[k]] /\ old \in FrameT /\ old.lsn = disk[k] /\ old.pin = 0
        BY <1>4, <3>2 DEF FrameT
      <4>2. disk[k] = Content(k) /\ (disk[k] > 0 => ChangeOf(k, disk[k]))
        BY <1>4, <3>2 DEF Content, PageOk
      <4> QED
        BY <1>4, <4>1, <4>2
    <3> QED
      BY <3>1, <3>2
  <2>2. f = IF o.lsn >= redo THEN o ELSE [o EXCEPT !.dirty = TRUE, !.lsn = redo]
    BY <1>8, <2>1
  <2> HIDE DEF old, new
  <2> QED
    BY <1>0, <2>1, <2>2 DEF FrameT
<1> HIDE DEF new, old
<1>10. PICK a \in Int : a = old.lsn
  BY <1>9
<1>11. /\ DOMAIN frames' = DOMAIN frames \cup {k} /\ frames'[k] = f
  BY <1>5, <1>8, WithIs
<1>12. \A i : ChangeOf(k, i)' <=> ChangeOf(k, i)
  BY <1>2, SameChange
<1>13. f.lsn # Unwritten /\ (f.lsn > 0 => ChangeOf(k, f.lsn)) /\ a = Content(k)
  BY <1>0, <1>4, <1>9, <1>10 DEF Unwritten
<1>14. Framed(k)'
  <2>1. (frames[k].lsn > 0 => ChangeOf(k, frames[k].lsn))'
    BY <1>2, <1>11, <1>13 DEF ChangeOf
  <2> QED
    BY <1>2, <1>4, <1>6, <1>9, <1>11, <1>13, <2>1 DEF Framed
<1>15. Content(k)' = f.lsn
  BY <1>6, <1>11 DEF Content
<1>16. redo' > 0 /\ \A i \in redo'..Len(clog') : i \in redo..Len(clog) /\ i > redo
  BY <1>0, <1>2
<1>17. Newest(k)'
  <2>1. CASE newest[k] = a /\ \A i \in redo..Len(clog) : ChangeOf(k, i) => i <= a
    <3>1. a >= redo
      BY <1>0, <1>4, <2>1
    <3>2. f.lsn = a
      BY <1>9, <1>10, <3>1
    <3> QED
      BY <1>2, <1>12, <1>15, <1>16, <2>1, <3>2 DEF Newest
  <2>2. CASE /\ newest[k] >= redo /\ a < newest[k] /\ ChangeOf(k, newest[k])
             /\ \A i \in redo..Len(clog) : ChangeOf(k, i) => i <= newest[k]
    <3>1. ChangeOf(k, newest[k])'
      BY <1>2, <2>2 DEF ChangeOf
    <3>2. CASE f.lsn < newest[k]
      <4>1. newest[k] >= redo'
        BY <1>0, <1>2, <1>4, <1>9, <1>10, <2>2, <3>2
      <4> QED
        BY <1>2, <1>12, <1>15, <1>16, <2>2, <3>1, <3>2, <4>1 DEF Newest
    <3>3. CASE f.lsn >= newest[k]
      <4>1. f.lsn = newest[k]
        BY <1>0, <1>4, <1>9, <1>10, <2>2, <3>3
      <4> QED
        BY <1>2, <1>12, <1>15, <1>16, <2>2, <4>1 DEF Newest
    <3> QED
      BY <1>4, <1>9, <3>2, <3>3
  <2>3. \/ newest[k] = a /\ \A i \in redo..Len(clog) : ChangeOf(k, i) => i <= a
        \/ /\ newest[k] >= redo /\ a < newest[k] /\ ChangeOf(k, newest[k])
           /\ \A i \in redo..Len(clog) : ChangeOf(k, i) => i <= newest[k]
    BY <1>0, <1>4, <1>13 DEF PageOk, Newest
  <2> QED
    BY <2>1, <2>2, <2>3
<1>18. (disk[k] > 0 => ChangeOf(k, disk[k]))' /\ disk'[k] # Unwritten
  BY <1>2, <1>4 DEF PageOk, ChangeOf
<1> QED
  BY <1>5, <1>6, <1>14, <1>17, <1>18 DEF PageOk

\* Of a page whose content is not known it may fail.
LEMMA PageRedoChange ==
  ASSUME Steady, HeaderInv, PageInv, RedoChange
  PROVE  PageInv'
<1>0. /\ redo > 0 /\ clog[redo].page \in Pages /\ \A t \in Threads : th[t].pc = "idle"
  BY Redoes DEF RedoChange
<1>1. PICK k \in Pages : k = clog[redo].page
  BY <1>0
<1>2. redo' = redo + 1 /\ UNCHANGED <<header, disk, clog, th, newest>>
  BY DEF RedoChange, files, logs
<1>3. \A j : j # k => /\ j \in DOMAIN frames' <=> j \in DOMAIN frames
                      /\ j \in DOMAIN frames => frames'[j] = frames[j]
  <2>1. \/ frames' = frames
        \/ \E f : frames' = With(k, f)
    BY <1>1 DEF RedoChange
  <2>2. ASSUME NEW f, frames' = With(k, f) PROVE DOMAIN frames' = DOMAIN frames \cup {k} /\ \A j \in DOMAIN frames : j # k => frames'[j] = frames[j]
    BY <2>2, WithIs
  <2> QED
    BY <2>1, <2>2
<1>4. ASSUME NEW j \in Pages, j # k, PageOk(j) PROVE PageOk(j)'
  <2>1. ~ ChangeOf(j, redo)
    BY <1>1, <1>4 DEF ChangeOf
  <2>2. Grown(j) => Grown(j)'
    BY <1>2, <1>3, <1>4, SameUsers
  <2> QED
    BY <1>0, <1>2, <1>3, <1>4, <2>1, <2>2, RedoElse
<1>5. newest[k] # Lost => failed' = failed /\ PageOk(k)'
  BY <1>1, RedoKnown
<1>6. ASSUME NEW j \in Pages, j[2] # 0, newest'[j] # Lost PROVE PageOk(j)'
  <2>1. newest[j] # Lost /\ PageOk(j)
    BY <1>2, <1>6 DEF PageInv
  <2> QED
    BY <1>4, <1>5, <2>1
<1>7. RedoSucceeds'
  <2>1. CASE newest[k] = Lost
    BY <1>2, <2>1 DEF RedoSucceeds, Raced
  <2>2. CASE newest[k] # Lost
    BY <1>2, <1>5, <2>2 DEF PageInv, RedoSucceeds, Raced
  <2> QED
    BY <2>1, <2>2
<1> QED
  BY <1>6, <1>7 DEF PageInv

LEMMA PageRedoEvict ==
  ASSUME Steady, PageInv, NEW v \in Pages, RedoEvict(v)
  PROVE  PageInv'
<1>1. /\ redo > 0 /\ \A t \in Threads : th[t].pc = "idle"
  BY Redoes DEF RedoEvict
<1>2. UNCHANGED <<header, clog, th, newest, redo, failed>> /\ v \in DOMAIN frames /\ v[2] # 0
  BY HeaderPinned DEF RedoEvict, logs, runs
<1>3. DOMAIN frames' = DOMAIN frames \ {v} /\ \A j \in DOMAIN frames' : frames'[j] = frames[j]
  BY WithoutIs DEF RedoEvict
<1>4. \A j \in Pages : j # v => disk'[j] = disk[j]
  BY DEF RedoEvict, Steady, Typed
<1>5. ASSUME NEW j \in Pages, j # v, PageOk(j) PROVE PageOk(j)'
  <2>1. Grown(j) => Grown(j)'
    BY <1>2, <1>3, <1>5, SameUsers
  <2> QED
    BY <1>1, <1>2, <1>3, <1>4, <1>5, <2>1, RedoElse
<1>6. ASSUME PageOk(v) PROVE PageOk(v)'
  <2>1. ~ Loading(v) /\ Orderly(v)' /\ Framed(v)
    <3>1. \A t \in Threads : th'[t].pc = "idle"
      BY <1>1, <1>2
    <3> QED
      BY <1>1, <1>2, <1>6, <3>1, IdleUsers, IdleUsersNext DEF PageOk
  <2>2. disk'[v] = frames[v].lsn
    <3>1. ~ frames[v].dirty => disk[v] = frames[v].lsn
      BY <2>1 DEF Framed
    <3> QED
      BY <3>1 DEF RedoEvict, Steady, Typed
  <2>3. PICK d : d = frames[v].lsn
    OBVIOUS
  <2>4. d # Unwritten /\ (d > 0 => ChangeOf(v, d)) /\ Content(v) = d /\ Content(v)' = d /\ disk'[v] = d
    BY <1>2, <1>3, <2>1, <2>2, <2>3 DEF Framed, Content
  <2>5. \A i : ChangeOf(v, i)' <=> ChangeOf(v, i)
    BY <1>2, SameChange
  <2>6. (disk[v] > 0 => ChangeOf(v, disk[v]))'
    BY <1>2, <2>4 DEF ChangeOf
  <2>7. Newest(v)'
    <3>1. Newest(v)
      BY <1>6 DEF PageOk
    <3> QED
      BY <1>2, <2>4, <2>5, <3>1 DEF Newest
  <2> QED
    BY <1>3, <2>1, <2>4, <2>6, <2>7 DEF PageOk
<1> QED
  BY <1>2, <1>5, <1>6, PageAll

LEMMA PageRedoDone ==
  ASSUME Steady, PageInv, RedoDone
  PROVE  PageInv'
<1>1. redo = Len(clog) + 1 /\ redo' = 0 /\ UNCHANGED <<frames, header, disk, clog, th, newest, failed>>
  BY DEF RedoDone, files, logs
<1>2. Len(clog) \in Nat
  BY DEF Steady, Typed
<1>4. \A j, i : ChangeOf(j, i)' <=> ChangeOf(j, i)
  BY <1>1, SameChange
<1>5. ASSUME NEW j \in Pages, PageOk(j) PROVE PageOk(j)'
  <2>0. Orderly(j)' /\ Users(j)' = Users(j) /\ (Loading(j)' <=> Loading(j)) /\ (Grown(j) => Grown(j)')
    BY <1>1, <1>5, SameUsers DEF PageOk
  <2>1. Content(j)' = Content(j) /\ newest[j] \in Int
    BY <1>1, <2>0 DEF Content, Steady, Typed
  <2>2. newest[j] = Content(j)
    <3>1. newest[j] >= redo => ~ ChangeOf(j, newest[j])
      BY <1>1, <1>2, <2>1 DEF ChangeOf
    <3> QED
      BY <1>5, <3>1 DEF PageOk, Newest
  <2>3. newest'[j] = Content(j)' /\ ~ (redo' > 0)
    BY <1>1, <2>1, <2>2
  <2>4. j \in DOMAIN frames' => Framed(j)'
    BY <1>1, <1>4, <1>5, <2>0 DEF PageOk, Framed
  <2> QED
    BY <1>1, <1>4, <1>5, <2>0, <2>3, <2>4 DEF PageOk, Newest
<1> QED
  BY <1>1, <1>5, PageAll

LEMMA InitPage ==
  ASSUME Init PROVE PageInv
<1>1. /\ \A k \in DOMAIN frames : \E p \in opened : k = Header(p)
      /\ disk = [k \in Pages |-> Unwritten] /\ newest = disk /\ clog = <<>> /\ redo = 0 /\ ~ failed
      /\ th = [t \in Threads |-> Idle] /\ opened \subseteq Pools
  BY BufferPoolAssumption DEF Init
<1>2. ASSUME NEW k \in Pages, k[2] # 0 PROVE PageOk(k)
  <2>0. Orderly(k)
    BY <1>1, IdleIs, IdleUsers
  <2>1. k \notin DOMAIN frames
    BY <1>1, <1>2, PageIs
  <2>2. disk[k] = Unwritten /\ newest[k] = disk[k] /\ ~ (Unwritten > 0) /\ ~ (redo > 0)
    BY <1>1 DEF Unwritten
  <2>3. \A i \in 1..Len(clog) : FALSE
    BY <1>1
  <2>4. Newest(k)
    BY <2>1, <2>2 DEF Newest, Content
  <2> QED
    BY <2>0, <2>1, <2>2, <2>3, <2>4 DEF PageOk
<1> QED
  BY <1>1, <1>2 DEF PageInv, RedoSucceeds

-----------------------------------------------------------------------------
(* The invariant of the pages.                                              *)
LEMMA PageThread ==
  ASSUME Steady, Steady', HeaderInv, PageInv, redo = 0, NEW t \in Threads, ThreadStep(t)
  PROVE  PageInv'
BY PageLookup, PageSyncFlush, PageSteps, PageAlloc, PagePurge, PageEvictFlush, PageLoad, PageChange, PageUnpin,
   PageAllocateFree, PageAllocateNew, PageOpenFile, PageAllocateNewDone, PageOpenFileDone, PageDispose
DEF ThreadStep

LEMMA PageStep ==
  ASSUME Base, Base', PageInv, [Next]_vars
  PROVE  PageInv'
<1>1. Steady /\ Steady' /\ WalInv /\ HeaderInv
  BY DEF Base, Steady
<1>2. ASSUME LogFlush \/ UNCHANGED vars PROVE PageInv'
  <2>1. UNCHANGED <<frames, header, disk, clog, th, newest, redo, failed>>
    BY <1>2 DEF LogFlush, vars, files, logs, runs
  <2> QED
    BY <2>1, PageStill
<1>3. ASSUME redo = 0, NEW t \in Threads, ThreadStep(t) PROVE PageInv'
  BY <1>1, <1>3, PageThread
<1>4. ASSUME Crash \/ RedoHeader \/ RedoChange \/ RedoDone \/ \E v \in Pages : RedoEvict(v) PROVE PageInv'
  BY <1>1, <1>4, PageCrash, PageRedoHeader, PageRedoChange, PageRedoDone, PageRedoEvict
<1> QED
  BY <1>2, <1>3, <1>4 DEF Next

LEMMA PageInvariant == Spec => []PageInv
<1>1. Init => PageInv
  BY InitPage
<1>2. Base /\ Base' /\ PageInv /\ [Next]_vars => PageInv'
  BY PageStep
<1> QED
  BY <1>1, <1>2, BaseInvariant, PTL DEF Spec

(* Who has got a page (get_this_page, allocate_page) sees its newest        *)
(* content, unless two threads were once getting the page at the same time: *)
(* no eviction, sync, crash or redo in between loses a change or brings     *)
(* back an older one.                                                       *)
THEOREM HoldersHold == Spec => []HoldersSeeNewest
<1>1. ASSUME Base, PageInv PROVE HoldersSeeNewest
  <2>1. SUFFICES ASSUME NEW t \in Threads, th[t].pc = "hold", th[t].page \notin Raced
                 PROVE  th[t].page \in DOMAIN frames /\ frames[th[t].page].lsn = newest[th[t].page]
    BY DEF HoldersSeeNewest
  <2>2. Steady /\ PageInv
    BY <1>1 DEF Base, Steady
  <2>3. Job1(t) /\ th[t].page \in Pages /\ th[t].page # None
    BY <2>1, <2>2, Has
  <2>4. PICK k \in Pages : k = th[t].page
    BY <2>3
  <2>5. k[2] # 0 /\ ~ (redo > 0) /\ newest[k] # Lost
    BY <2>1, <2>2, <2>3, <2>4 DEF Job1, Raced, At
  <2>6. PageOk(k)
    BY <2>2, <2>5 DEF PageInv
  <2>7. k \in DOMAIN frames /\ ~ Loading(k)
    BY <2>1, <2>4, <2>6, HeldPage
  <2> QED
    BY <2>4, <2>5, <2>6, <2>7 DEF PageOk, Newest, Content
<1> QED
  BY <1>1, BaseInvariant, PageInvariant, PTL

(* Redo fails at no entry, unless two threads were once getting the same    *)
(* page: the header that is on disk accepts every allocation and            *)
(* deallocation that follows in the durable log, and a page whose change is *)
(* in the durable log is in the file.                                       *)
THEOREM RedoHolds == Spec => []RedoSucceeds
<1>1. PageInv => RedoSucceeds
  BY DEF PageInv
<1> QED
  BY <1>1, PageInvariant, PTL
=============================================================================
