---------------------- MODULE DoubleWriteBufferProofs ----------------------
(***************************************************************************)
(* Proofs about the double write buffer, for any pools, pages, slots and   *)
(* versions: every read gives the newest content, a page torn by a crash   *)
(* is repaired before it is read, and the first crash never takes a page   *)
(* back before the last checkpoint.                                        *)
(***************************************************************************)
EXTENDS DoubleWriteBuffer, TLAPS, FiniteSetTheorems, NaturalsInduction, WellFoundedInduction

\* Nobody is flushing; a page new to the buffer is on its way to the file.
Calm == step \in {"idle", "slot", "new_slot", "header"}
Adding == step \in {"new_slot", "header"}

\* What the thread that holds the lock works on is in the map.
Pending ==
  /\ step \in {"slot", "new_slot", "header"} => target \in Buffered
  /\ step \in {"flush", "dead"} => todo \subseteq Buffered
  /\ Calm => todo = {}

\* The map has room for one more page, and the slot it would give to one is
\* next to the slots that the header covers, never beyond.
Sizes ==
  /\ Calm => IsFiniteSet(Buffered) /\ Cardinality(Buffered) <= MAX_PAGES
  /\ step \in {"idle", "slot"} => Cardinality(Buffered) < MAX_PAGES
       /\ Cardinality(Buffered) <= page_cnt
  /\ Adding => Cardinality(Buffered) <= page_cnt + 1
       /\ page_index[target] = Cardinality(Buffered) - 1

\* The pool that clear_pages works for has no page in the map.
Closers ==
  /\ Pools \ dropped \subseteq opened
  /\ closing \subseteq dropped
  /\ \A k \in cleared : k[1] \in closing
  /\ \A k \in Buffered : k[1] \notin closing
  /\ step = "dead" => dropped # {}

\* The newest content is in the map, or in the file of the pool.
Newest ==
  /\ \A k \in Buffered : page_data[k] = latest[k]
  /\ \A k \in Pages \ Buffered : k[1] \in opened \ closing => pool_file[k].version = latest[k]
  /\ step = "flush" => \A k \in Buffered \ todo : pool_file[k].version = latest[k]

\* The slot of page k holds k and is covered by the header.
InSlot(k) == page_index[k] < file_cnt /\ slots[page_index[k]].whole /\ slots[page_index[k]].page = k

\* As long as no table was dropped: pages have slots of their own, every page
\* flush_page has to write is in a slot, and only such a page can be torn.
Whole ==
  dropped = {} =>
    /\ \A k \in Pages : ~pool_file[k].whole => step = "flush" /\ k \in todo
    /\ step = "flush" => \A k \in todo : SlotsOf(k, slots) # {}
    /\ Calm => \A k \in Buffered : page_index[k] < Cardinality(Buffered)
         /\ \A j \in Buffered : page_index[k] = page_index[j] => j = k
    /\ step \in {"idle", "slot"} => page_cnt = Cardinality(Buffered)
    /\ Adding => page_cnt = Cardinality(Buffered) - 1
    /\ Calm => \A k \in Buffered : ~(Adding /\ k = target) => InSlot(k)
    /\ step = "header" => slots[page_index[target]].whole /\ slots[page_index[target]].page = target

\* Before the first crash: no slot that the header covers holds an old version
\* of a page, except of the page that is being added.
FirstLife ==
  restarts = 0 =>
    /\ \A k \in Pages : k[1] \notin dropped => pool_file[k].version >= checkpoint[k]
    /\ page_cnt > 0 => page_cnt = file_cnt
    /\ step = "header" => slots[page_index[target]] = CopyOf(target, TRUE)
    /\ \A i \in 0 .. file_cnt - 1 : \A k \in Pages :
         slots[i].whole /\ slots[i].page = k /\ k[1] \notin dropped =>
           /\ slots[i].version >= checkpoint[k]
           /\ slots[i].version = latest[k] \/ (k = target
                /\ step \in {"slot", "new_slot", "header"})
           /\ page_cnt > 0 => k \in Buffered /\ page_index[k] = i

FirstCrash == restarts <= 1 => \A k \in Pages : k[1] \notin dropped => latest[k] >= checkpoint[k]

DwbInv == TypeOK /\ Pending /\ Sizes /\ Closers /\ Newest /\ Whole /\ FirstLife /\ FirstCrash

-----------------------------------------------------------------------------
\* What TypeOK says of the single pages and slots.
LEMMA Typed ==
  ASSUME TypeOK
  PROVE  /\ MAX_PAGES \in Nat /\ page_cnt \in Nat /\ file_cnt \in Nat /\ file_cnt <= MAX_PAGES
         /\ Buffered \subseteq Pages
         /\ \A k \in Pages : /\ page_data[k] \in Nat /\ latest[k] \in Nat /\ checkpoint[k] \in Nat
                             /\ pool_file[k].version \in Nat /\ pool_file[k].whole \in BOOLEAN
                             /\ page_index[k] \in Slots \cup {-1}
         /\ \A k \in Buffered : page_index[k] \in Slots /\ page_index[k] \in Nat
         /\ \A i \in Slots : i \in Nat /\ slots[i].version \in Nat /\ slots[i].whole \in BOOLEAN
<1>1. MAX_PAGES \in Nat /\ page_cnt \in Nat /\ file_cnt \in Nat /\ file_cnt <= MAX_PAGES
          /\ Buffered \subseteq Pages
  BY DwbAssumption DEF TypeOK, Buffered
<1>2. \A k \in Pages : /\ page_data[k] \in Nat /\ latest[k] \in Nat /\ checkpoint[k] \in Nat
                       /\ page_index[k] \in Slots \cup {-1}
  BY DEF TypeOK
<1>3. \A k \in Pages : pool_file[k].version \in Nat /\ pool_file[k].whole \in BOOLEAN
  BY DEF TypeOK
<1>4. \A k \in Buffered : page_index[k] \in Slots /\ page_index[k] \in Nat
  BY <1>1, <1>2 DEF Buffered, Slots
<1>5. \A i \in Slots : i \in Nat
  BY <1>1 DEF Slots
<1>6. \A c \in Copy \cup {NoCopy} : c.version \in Nat /\ c.whole \in BOOLEAN
  <2>1. \A c \in Copy : c.version \in Nat /\ c.whole \in BOOLEAN
    BY DEF Copy
  <2>2. NoCopy.version \in Nat /\ NoCopy.whole \in BOOLEAN
    BY DEF NoCopy
  <2> QED BY <2>1, <2>2
<1>7. \A i \in Slots : slots[i].version \in Nat /\ slots[i].whole \in BOOLEAN
  BY <1>6 DEF TypeOK
<1> QED BY <1>1, <1>2, <1>3, <1>4, <1>5, <1>7

LEMMA BufferedKept ==
  ASSUME page_index' = page_index
  PROVE  Buffered' = Buffered
BY DEF Buffered

-----------------------------------------------------------------------------
(* Every action keeps the invariant. *)

LEMMA AddPageKeeps ==
  ASSUME DwbInv, NEW k \in Pages, AddPage(k)
  PROVE  DwbInv'
<1> USE DwbAssumption DEF AddPage, memory, files, writing, closers
<1>a. /\ step = "idle" /\ target' = k /\ todo' = todo /\ todo = {} /\ k[1] \in opened \ closing
      /\ UNCHANGED <<page_cnt, file_cnt, slots, pool_file, opened, todo, syncing, closing, cleared,
           dropped, checkpoint, restarts>>
  BY DEF DwbInv, Pending, Calm
<1>b. \A j \in Pages : /\ latest'[j] = (IF j = k THEN latest[k] + 1 ELSE latest[j])
                       /\ page_data'[j] = (IF j = k THEN latest[k] + 1 ELSE page_data[j])
  BY DEF DwbInv, TypeOK
<1>c. IsFiniteSet(Buffered) /\ Cardinality(Buffered) \in Nat /\ Cardinality(Buffered) < MAX_PAGES
          /\ Cardinality(Buffered) <= page_cnt
  BY <1>a, FS_CardinalityType DEF DwbInv, Sizes, Calm
<1>d. \/ k \in Buffered /\ step' = "slot" /\ page_index' = page_index
      \/ k \notin Buffered /\ step' = "new_slot"
           /\ page_index' = [page_index EXCEPT ![k] = Cardinality(Buffered)]
  OBVIOUS
<1>e. \A j \in Pages : page_index'[j] = IF k \notin Buffered
          /\ j = k THEN Cardinality(Buffered) ELSE page_index[j]
  BY <1>d DEF DwbInv, TypeOK
<1>f. Buffered' = Buffered \cup {k} /\ k \in Pages
  BY <1>c, <1>e DEF Buffered
<1>g. /\ k \in Buffered => Cardinality(Buffered') = Cardinality(Buffered)
      /\ k \notin Buffered => Cardinality(Buffered') = Cardinality(Buffered) + 1
      /\ IsFiniteSet(Buffered')
  <2>1. k \in Buffered => Buffered' = Buffered
    BY <1>f
  <2> QED BY <2>1, <1>c, <1>f, FS_AddElement
<1>h. \A j \in Pages : latest[j] \in Nat /\ checkpoint[j] \in Nat
          /\ page_index[j] \in Slots \cup {-1}
  BY Typed DEF DwbInv
<1>1. TypeOK'
  <2>1. latest' \in [Pages -> Nat] /\ page_data' \in [Pages -> Nat]
    <3>1. latest[k] + 1 \in Nat
      BY <1>h
    <3> QED BY <3>1 DEF DwbInv, TypeOK
  <2>2. page_index' \in [Pages -> Slots \cup {-1}]
    <3>1. Cardinality(Buffered) \in Slots
      BY <1>c DEF Slots
    <3> QED BY <3>1, <1>d DEF DwbInv, TypeOK
  <2>3. step' \in Steps /\ target' \in Pages \cup {<<>>}
    BY <1>a, <1>d DEF Steps
  <2> QED BY <1>a, <2>1, <2>2, <2>3 DEF DwbInv, TypeOK
<1>2. Pending'
  BY <1>a, <1>d, <1>f DEF Pending, Calm
<1>3. Sizes'
  <2>1. MAX_PAGES \in Nat /\ page_cnt \in Nat
    BY Typed DEF DwbInv
  <2>2. CASE k \in Buffered
    BY <1>a, <1>c, <1>d, <1>g, <2>1, <2>2 DEF Sizes, Calm, Adding
  <2>3. CASE k \notin Buffered
    <3>1. page_index'[target'] = Cardinality(Buffered) /\ step' = "new_slot"
      BY <1>a, <1>d, <1>e, <2>3
    <3>2. Cardinality(Buffered') = Cardinality(Buffered) + 1
      BY <1>g, <2>3
    <3> QED BY <1>a, <1>c, <1>g, <2>1, <3>1, <3>2 DEF Sizes, Calm, Adding
  <2> QED BY <2>2, <2>3
<1>4. Closers'
  BY <1>a, <1>d, <1>f DEF DwbInv, Closers
<1>5. Newest'
  BY <1>a, <1>b, <1>d, <1>f DEF DwbInv, Newest, Buffered
<1>6. Whole'
  <2>1. SUFFICES ASSUME dropped = {} PROVE Whole'
    BY <1>a DEF Whole
  <2>2. \A j \in Buffered : page_index[j] \in Nat /\ page_index[j] < Cardinality(Buffered)
            /\ InSlot(j)
        /\ \A i \in Buffered : page_index[j] = page_index[i] => i = j
    BY <1>a, <2>1, Typed DEF DwbInv, Whole, Calm, Adding
  <2>3. page_cnt = Cardinality(Buffered) /\ \A j \in Pages : pool_file[j].whole
    BY <1>a, <2>1 DEF DwbInv, Whole
  <2>4. \A j \in Buffered' : page_index'[j] < Cardinality(Buffered')
            /\ \A i \in Buffered' : page_index'[j] = page_index'[i] => i = j
    BY <1>c, <1>e, <1>f, <1>g, <2>2 DEF Buffered
  <2>5. \A j \in Buffered : page_index'[j] = page_index[j]
    BY <1>e DEF Buffered
  <2>6. \A j \in Buffered' : ~(Adding' /\ j = target')
            => (page_index[j] < file_cnt /\ slots[page_index[j]].whole
                /\ slots[page_index[j]].page = j) /\ page_index'[j] = page_index[j]
    BY <1>a, <1>d, <1>f, <2>2, <2>5 DEF Adding, InSlot
  <2> QED BY <1>a, <1>c, <1>d, <1>g, <2>3, <2>4, <2>6 DEF Whole, Calm, Adding, InSlot
<1>7. FirstLife'
  <2>1. SUFFICES ASSUME restarts = 0 PROVE FirstLife'
    BY <1>a DEF FirstLife
  <2>2. step' # "header" /\ step' \in {"slot", "new_slot"}
    BY <1>d
  <2>3. ASSUME NEW i \in 0 .. file_cnt - 1, NEW j \in Pages, slots[i].whole, slots[i].page = j,
                   j[1] \notin dropped
        PROVE  /\ slots[i].version >= checkpoint[j]
               /\ slots[i].version = latest'[j] \/ j = k
               /\ page_cnt > 0 => j \in Buffered' /\ page_index'[j] = i
    <3>1. slots[i].version >= checkpoint[j] /\ slots[i].version = latest[j]
              /\ (page_cnt > 0 => j \in Buffered /\ page_index[j] = i)
      BY <1>a, <2>1, <2>3 DEF DwbInv, FirstLife
    <3> QED BY <3>1, <1>b, <1>e, <1>f
  <2>4. /\ \A j \in Pages : j[1] \notin dropped => pool_file[j].version >= checkpoint[j]
        /\ page_cnt > 0 => page_cnt = file_cnt
    BY <2>1 DEF DwbInv, FirstLife
  <2>5. target' = k /\ step' \in {"slot", "new_slot", "header"}
    BY <1>a, <2>2
  <2>6. slots' = slots /\ file_cnt' = file_cnt /\ page_cnt' = page_cnt /\ checkpoint' = checkpoint
            /\ dropped' = dropped /\ pool_file' = pool_file
    BY <1>a
  <2> HIDE DEF AddPage
  <2> QED BY ZenonT(30), <2>2, <2>3, <2>4, <2>5, <2>6 DEF FirstLife
<1>8. FirstCrash'
  BY <1>a, <1>b, <1>h DEF DwbInv, FirstCrash
<1> QED BY <1>1, <1>2, <1>3, <1>4, <1>5, <1>6, <1>7, <1>8 DEF DwbInv

LEMMA WriteSlotKeeps ==
  ASSUME DwbInv, WriteSlot
  PROVE  DwbInv'
<1> USE DwbAssumption DEF WriteSlot, WithSlot, CopyOf, memory, files, writing, closers
<1>a. /\ target \in Buffered /\ target \in Pages /\ page_index[target] \in Slots
           /\ page_index[target] \in Nat
      /\ page_data[target] = latest[target] /\ page_data[target] \in Nat /\ latest[target] >= 0
  BY Typed DEF DwbInv, Pending, Newest
<1>b. /\ UNCHANGED <<page_index, page_data, page_cnt, file_cnt, pool_file, opened, target, todo,
           syncing, closing, cleared, dropped, latest, checkpoint, restarts>>
      /\ \/ step = "slot" /\ step' = "idle"
         \/ step = "new_slot" /\ step' = "header"
  OBVIOUS
<1>c. /\ slots' = [slots EXCEPT ![page_index[target]] = CopyOf(target, TRUE)]
      /\ \A i \in Slots : slots'[i] = IF i = page_index[target] THEN CopyOf(target, TRUE) ELSE slots[i]
  BY <1>a DEF DwbInv, TypeOK
<1>d. /\ CopyOf(target, TRUE).whole /\ CopyOf(target, TRUE).page = target
      /\ CopyOf(target, TRUE).version = latest[target] /\ CopyOf(target, TRUE) \in Copy
  BY <1>a DEF Copy
<1>e. Buffered' = Buffered
  BY <1>b, BufferedKept
<1>f. slots'[page_index'[target']] = CopyOf(target, TRUE)
          /\ CopyOf(target, TRUE)' = CopyOf(target, TRUE)
  BY <1>a, <1>b, <1>c
<1>1. TypeOK'
  <2>1. slots' \in [Slots -> Copy \cup {NoCopy}]
    BY <1>c, <1>d DEF DwbInv, TypeOK
  <2>2. step' \in Steps
    BY <1>b DEF Steps
  <2> QED BY <1>b, <2>1, <2>2 DEF DwbInv, TypeOK
<1>2. Pending'
  BY <1>a, <1>b, <1>e DEF DwbInv, Pending, Calm
<1>3. Sizes'
  BY <1>b, <1>e DEF DwbInv, Sizes, Calm, Adding
<1>4. Closers'
  BY <1>b, <1>e DEF DwbInv, Closers
<1>5. Newest'
  BY <1>b, <1>e DEF DwbInv, Newest
<1>6. Whole'
  <2>1. SUFFICES ASSUME dropped = {} PROVE Whole'
    BY <1>b DEF Whole
  <2>2. \A j \in Buffered : page_index[j] < Cardinality(Buffered) /\ page_index[j] \in Slots
        /\ \A i \in Buffered : page_index[j] = page_index[i] => i = j
    BY <1>b, <2>1, Typed DEF DwbInv, Whole, Calm
  <2>3. \A j \in Pages : pool_file[j].whole
    BY <1>b, <2>1 DEF DwbInv, Whole
  <2>4. page_cnt = IF step = "slot" THEN Cardinality(Buffered) ELSE Cardinality(Buffered) - 1
    BY <1>b, <2>1 DEF DwbInv, Whole, Adding
  <2>5. \A j \in Buffered : ~(Adding' /\ j = target) => page_index[j] < file_cnt
            /\ slots'[page_index[j]].whole /\ slots'[page_index[j]].page = j
    <3>1. \A j \in Buffered : ~(step = "new_slot" /\ j = target) => page_index[j] < file_cnt
              /\ slots[page_index[j]].whole /\ slots[page_index[j]].page = j
      BY <1>b, <2>1 DEF DwbInv, Whole, Calm, Adding, InSlot
    <3>2. \A j \in Buffered : j # target => slots'[page_index[j]] = slots[page_index[j]]
      BY <1>a, <1>c, <2>2
    <3>3. slots'[page_index[target]].whole /\ slots'[page_index[target]].page = target
      BY <1>a, <1>c, <1>d
    <3> QED BY <1>b, <3>1, <3>2, <3>3 DEF Adding
  <2>6. slots'[page_index[target]].whole /\ slots'[page_index[target]].page = target
    BY <1>a, <1>c, <1>d
  <2>7. step' \in {"idle", "header"} /\ (step' = "idle" <=> step = "slot")
    BY <1>b
  <2> QED BY <1>b, <1>e, <2>2, <2>3, <2>4, <2>5, <2>6, <2>7 DEF Whole, Calm, Adding, InSlot
<1>7. FirstLife'
  <2>1. SUFFICES ASSUME restarts = 0 PROVE FirstLife'
    BY <1>b DEF FirstLife
  <2>2. ASSUME NEW i \in 0 .. file_cnt - 1, NEW j \in Pages, slots'[i].whole, slots'[i].page = j,
                   j[1] \notin dropped
        PROVE  /\ slots'[i].version >= checkpoint[j]
               /\ slots'[i].version = latest[j] \/ (j = target /\ step' = "header")
               /\ page_cnt > 0 => j \in Buffered /\ page_index[j] = i
    <3>0. i \in Slots
      BY Typed DEF DwbInv, Slots
    <3>1. CASE i = page_index[target]
      <4>1. slots'[i] = CopyOf(target, TRUE) /\ j = target
        BY <1>c, <1>d, <2>2, <3>0, <3>1
      <4>2. latest[target] >= checkpoint[target]
        BY <2>1, <2>2, <4>1, <1>a DEF DwbInv, FirstCrash
      <4> QED BY <4>1, <4>2, <1>a, <1>d, <3>1
    <3>2. CASE i # page_index[target]
      <4>1. slots'[i] = slots[i]
        BY <1>c, <3>0, <3>2
      <4>2. /\ slots[i].version >= checkpoint[j]
            /\ slots[i].version = latest[j] \/ j = target
            /\ page_cnt > 0 => j \in Buffered /\ page_index[j] = i
        BY <2>1, <2>2, <4>1 DEF DwbInv, FirstLife
      <4>3. step = "slot" => page_cnt > 0
        <5>1. SUFFICES ASSUME step = "slot" PROVE page_cnt > 0
          OBVIOUS
        <5>2. Cardinality(Buffered) <= page_cnt /\ IsFiniteSet(Buffered)
          BY <5>1 DEF DwbInv, Sizes, Calm
        <5>3. Cardinality(Buffered) \in Nat /\ Cardinality(Buffered) # 0
          BY <1>a, <5>2, FS_CardinalityType, FS_EmptySet
        <5> QED BY <5>2, <5>3, Typed DEF DwbInv
      <4> QED BY <1>b, <3>2, <4>1, <4>2, <4>3
    <3> QED BY <3>1, <3>2
  <2> QED BY <1>b, <1>e, <1>f, <2>1, <2>2 DEF DwbInv, FirstLife
<1>8. FirstCrash'
  BY <1>b DEF DwbInv, FirstCrash
<1> QED BY <1>1, <1>2, <1>3, <1>4, <1>5, <1>6, <1>7, <1>8 DEF DwbInv

LEMMA WriteHeaderKeeps ==
  ASSUME DwbInv, WriteHeader
  PROVE  DwbInv'
<1> USE DwbAssumption DEF WriteHeader, memory, files, writing, closers
<1> DEFINE cnt == IF page_index[target] + 1 > page_cnt THEN page_index[target] + 1 ELSE page_cnt
<1>a. /\ step = "header" /\ page_cnt' = cnt
           /\ file_cnt' = (IF cnt > page_cnt THEN cnt ELSE file_cnt)
      /\ UNCHANGED <<page_index, page_data, slots, pool_file, opened, target, syncing, closing,
           cleared, dropped, latest, checkpoint, restarts>>
  OBVIOUS
<1>b. \/ Cardinality(Buffered) >= MAX_PAGES /\ step' = "flush" /\ todo' = Buffered
      \/ ~(Cardinality(Buffered) >= MAX_PAGES) /\ step' = "idle" /\ todo' = todo
  OBVIOUS
<1>c. /\ target \in Buffered /\ target \in Pages /\ page_index[target] \in Slots
           /\ page_index[target] \in Nat
      /\ todo = {} /\ page_cnt \in Nat /\ file_cnt \in Nat /\ file_cnt <= MAX_PAGES
           /\ MAX_PAGES \in Nat /\ page_cnt <= MAX_PAGES
      /\ Buffered \subseteq Pages
  BY <1>a, Typed DEF DwbInv, Pending, Calm, TypeOK
<1>d. /\ IsFiniteSet(Buffered) /\ Cardinality(Buffered) \in Nat
           /\ Cardinality(Buffered) <= MAX_PAGES
      /\ Cardinality(Buffered) <= page_cnt + 1 /\ page_index[target] = Cardinality(Buffered) - 1
  BY <1>a, FS_CardinalityType DEF DwbInv, Sizes, Calm, Adding
<1>e. Buffered' = Buffered
  BY <1>a, BufferedKept
<1>f. page_index[target] + 1 <= MAX_PAGES
  BY <1>c, <1>d
<1>g. cnt \in Nat /\ cnt >= page_cnt /\ cnt <= page_cnt + 1 /\ page_index[target] < cnt
          /\ cnt <= MAX_PAGES
  BY <1>c, <1>d, <1>f
<1>h. cnt > page_cnt => cnt = page_cnt + 1 /\ page_index[target] = page_cnt
  BY <1>c, <1>d
<1> HIDE DEF cnt, WriteHeader
<1>1. TypeOK'
  <2>1. page_cnt' \in 0..MAX_PAGES /\ file_cnt' \in 0..MAX_PAGES
    BY <1>a, <1>c, <1>g
  <2>2. step' \in Steps /\ todo' \subseteq Pages
    BY <1>b, <1>c DEF Steps
  <2> QED BY <1>a, <2>1, <2>2 DEF DwbInv, TypeOK
<1>2. Pending'
  BY <1>a, <1>b, <1>c, <1>e DEF Pending, Calm
<1>3. Sizes'
  <2>1. Cardinality(Buffered) <= cnt
    BY <1>c, <1>d, <1>g
  <2> QED BY <1>a, <1>b, <1>c, <1>d, <1>e, <2>1 DEF Sizes, Calm, Adding
<1>4. Closers'
  BY <1>a, <1>b, <1>e DEF DwbInv, Closers
<1>5. Newest'
  BY <1>a, <1>b, <1>e DEF DwbInv, Newest
<1>6. Whole'
  <2>1. SUFFICES ASSUME dropped = {} PROVE Whole'
    BY <1>a DEF Whole
  <2>2. \A j \in Buffered : page_index[j] \in Nat /\ page_index[j] < Cardinality(Buffered)
        /\ \A i \in Buffered : page_index[j] = page_index[i] => i = j
    BY <1>a, <2>1, Typed DEF DwbInv, Whole, Calm
  <2>3. page_cnt = Cardinality(Buffered) - 1 /\ \A j \in Pages : pool_file[j].whole
    BY <1>a, <2>1 DEF DwbInv, Whole, Adding
  <2>4. cnt = Cardinality(Buffered) /\ file_cnt' = Cardinality(Buffered)
            /\ page_cnt' = Cardinality(Buffered)
    BY <1>a, <1>c, <1>d, <1>g, <2>3
  <2>5. \A j \in Buffered : slots[page_index[j]].whole /\ slots[page_index[j]].page = j
    BY <1>a, <2>1 DEF DwbInv, Whole, Calm, Adding, InSlot
  <2>6. \A j \in Buffered : page_index[j] \in 0 .. file_cnt' - 1
    BY <1>d, <2>2, <2>4
  <2>7. \A j \in Buffered : SlotsOf(j, slots)' # {}
    BY <1>a, <2>5, <2>6 DEF SlotsOf
  <2>8. (step' = "flush" /\ todo' = Buffered) \/ step' = "idle"
    BY <1>b
  <2> QED BY <1>a, <1>d, <1>e, <2>2, <2>3, <2>4, <2>5, <2>7, <2>8 DEF Whole, Calm, Adding,
             InSlot
<1>7. FirstLife'
  <2>1. SUFFICES ASSUME restarts = 0 PROVE FirstLife'
    BY <1>a DEF FirstLife
  <2>2. page_cnt > 0 => page_cnt = file_cnt
    BY <2>1 DEF DwbInv, FirstLife
  <2>3. file_cnt' = cnt
    BY <1>a, <1>c, <1>g, <2>2, <1>h
  <2>4. slots[page_index[target]] = CopyOf(target, TRUE) /\ page_data[target] = latest[target]
    BY <1>a, <1>c, <2>1 DEF DwbInv, FirstLife, Newest
  <2>5. /\ CopyOf(target, TRUE).whole /\ CopyOf(target, TRUE).page = target
        /\ CopyOf(target, TRUE).version = latest[target]
    BY <2>4 DEF CopyOf
  <2>6. ASSUME NEW i \in 0 .. cnt - 1, NEW j \in Pages, slots[i].whole, slots[i].page = j,
                   j[1] \notin dropped
        PROVE  /\ slots[i].version >= checkpoint[j]
               /\ slots[i].version = latest[j]
               /\ j \in Buffered /\ page_index[j] = i
    <3>1. CASE i = page_index[target]
      <4>1. j = target /\ slots[i].version = latest[target]
        BY <2>4, <2>5, <2>6, <3>1
      <4>2. latest[target] >= checkpoint[target]
        BY <1>c, <2>1, <2>6, <4>1 DEF DwbInv, FirstCrash
      <4> QED BY <1>c, <3>1, <4>1, <4>2
    <3>2. CASE i # page_index[target]
      <4>1. i < page_cnt /\ page_cnt > 0 /\ i \in 0 .. file_cnt - 1
        BY <1>c, <1>g, <1>h, <2>2, <3>2
      <4>2. /\ slots[i].version >= checkpoint[j]
            /\ slots[i].version = latest[j] \/ j = target
            /\ j \in Buffered /\ page_index[j] = i
        BY <2>1, <2>6, <4>1 DEF DwbInv, FirstLife
      <4> QED BY <3>2, <4>2
    <3> QED BY <3>1, <3>2
  <2>7. step' # "header"
    BY <1>b
  <2>8. \A j \in Pages : j[1] \notin dropped => pool_file[j].version >= checkpoint[j]
    BY <2>1 DEF DwbInv, FirstLife
  <2> QED BY <1>a, <1>e, <2>3, <2>6, <2>7, <2>8 DEF FirstLife
<1>8. FirstCrash'
  BY <1>a DEF DwbInv, FirstCrash
<1> QED BY <1>1, <1>2, <1>3, <1>4, <1>5, <1>6, <1>7, <1>8 DEF DwbInv

LEMMA FlushPageKeeps ==
  ASSUME DwbInv, NEW k \in Pages, FlushPage(k)
  PROVE  DwbInv'
<1> USE DwbAssumption DEF FlushPage, InPoolFile, memory, files, writing, closers
<1>a. /\ step = "flush" /\ k \in todo /\ k \in Buffered /\ todo \subseteq Buffered
           /\ page_data[k] = latest[k] /\ page_data[k] \in Nat
      /\ UNCHANGED <<page_index, page_data, page_cnt, file_cnt, slots, opened, target, syncing,
           closing, cleared, dropped, latest, checkpoint, restarts>>
  BY DEF DwbInv, Pending, Newest, TypeOK
<1>b. Buffered' = Buffered
  BY <1>a, BufferedKept
<1>c. \/ /\ k[1] \in opened /\ todo' = todo \ {k} /\ step' = "flush"
         /\ pool_file' = [pool_file EXCEPT ![k] = [version |-> latest[k], whole |-> TRUE]]
      \/ k[1] \notin opened /\ step' = "dead" /\ pool_file' = pool_file /\ todo' = todo
  BY <1>a
<1>d. \A j \in Pages : pool_file'[j] = pool_file[j]
          \/ (j = k /\ pool_file'[j].version = latest[k] /\ pool_file'[j].whole)
  BY <1>c DEF DwbInv, TypeOK
<1>e. step' = "dead" => dropped # {}
  <2>1. k[1] \in Pools
    BY DEF Pages
  <2> QED BY <1>c, <2>1 DEF DwbInv, Closers
<1> HIDE DEF FlushPage
<1>1. TypeOK'
  <2>1. pool_file' \in [Pages -> [version : Nat, whole : BOOLEAN]]
    <3>1. [version |-> latest[k], whole |-> TRUE] \in [version : Nat, whole : BOOLEAN]
      BY <1>a
    <3> QED BY <1>c, <3>1 DEF DwbInv, TypeOK
  <2>2. step' \in Steps /\ todo' \subseteq Pages
    BY <1>c DEF DwbInv, TypeOK, Steps
  <2> QED BY <1>a, <2>1, <2>2 DEF DwbInv, TypeOK
<1>2. Pending'
  BY <1>a, <1>b, <1>c DEF Pending, Calm
<1>3. Sizes'
  BY <1>c DEF Sizes, Calm, Adding
<1>4. Closers'
  BY <1>a, <1>b, <1>e DEF DwbInv, Closers
<1>5. Newest'
  <2>1. \A j \in Pages : pool_file'[j].version = pool_file[j].version
            \/ (j = k /\ pool_file'[j].version = latest[k])
    BY <1>d
  <2>2. step' = "flush" => pool_file'[k].version = latest[k] /\ todo' = todo \ {k}
    BY <1>c DEF DwbInv, TypeOK
  <2>3. Buffered \subseteq Pages
    BY DEF Buffered
  <2> QED BY <1>a, <1>b, <2>1, <2>2, <2>3 DEF DwbInv, Newest
<1>6. Whole'
  <2>1. SUFFICES ASSUME dropped = {} PROVE Whole'
    BY <1>a DEF Whole
  <2>2. step' = "flush" /\ todo' = todo \ {k}
            /\ pool_file' = [pool_file EXCEPT ![k] = [version |-> latest[k], whole |-> TRUE]]
    BY <1>c, <1>e, <2>1
  <2>3. \A j \in Pages : ~pool_file'[j].whole => j # k /\ j \in todo
    <3>1. \A j \in Pages : pool_file'[j] = IF j = k THEN [version |-> latest[k], whole |-> TRUE] ELSE pool_file[j]
      BY <2>2 DEF DwbInv, TypeOK
    <3>2. \A j \in Pages : ~pool_file[j].whole => j \in todo
      BY <2>1 DEF DwbInv, Whole
    <3>3. [version |-> latest[k], whole |-> TRUE].whole
      OBVIOUS
    <3> QED BY <3>1, <3>2, <3>3
  <2>4. \A j \in todo : SlotsOf(j, slots)' = SlotsOf(j, slots)
    BY <1>a DEF SlotsOf
  <2>5. \A j \in todo : SlotsOf(j, slots) # {}
    BY <1>a, <2>1 DEF DwbInv, Whole
  <2> QED BY <2>2, <2>3, <2>4, <2>5 DEF Whole, Calm, Adding
<1>7. FirstLife'
  <2>1. SUFFICES ASSUME restarts = 0 PROVE FirstLife'
    BY <1>a DEF FirstLife
  <2>2. \A j \in Pages : j[1] \notin dropped => pool_file'[j].version >= checkpoint[j]
    <3>1. \A j \in Pages : j[1] \notin dropped => pool_file[j].version >= checkpoint[j]
              /\ latest[j] >= checkpoint[j]
      BY <2>1 DEF DwbInv, FirstLife, FirstCrash
    <3> QED BY <1>d, <3>1
  <2>3. \A i \in 0 .. file_cnt - 1 : \A j \in Pages :
         slots[i].whole /\ slots[i].page = j /\ j[1] \notin dropped =>
           /\ slots[i].version >= checkpoint[j]
           /\ slots[i].version = latest[j]
           /\ page_cnt > 0 => j \in Buffered /\ page_index[j] = i
    BY <1>a, <2>1 DEF DwbInv, FirstLife
  <2>4. step' # "header" /\ (page_cnt > 0 => page_cnt = file_cnt)
    BY <1>c, <2>1 DEF DwbInv, FirstLife
  <2>5. /\ file_cnt' = file_cnt /\ slots' = slots /\ page_cnt' = page_cnt /\ page_index' = page_index
        /\ latest' = latest /\ checkpoint' = checkpoint /\ dropped' = dropped
        /\ target' = target
    BY <1>a
  <2>6. ASSUME NEW i \in 0 .. file_cnt' - 1, NEW j \in Pages,
               (slots[i].whole /\ slots[i].page = j /\ j[1] \notin dropped)'
        PROVE  (/\ slots[i].version >= checkpoint[j]
                /\ slots[i].version = latest[j] \/ (j = target
                     /\ step \in {"slot", "new_slot", "header"})
                /\ page_cnt > 0 => j \in Buffered /\ page_index[j] = i)'
    BY ONLY <1>b, <2>3, <2>5, <2>6
  <2> QED BY ONLY <1>b, <2>2, <2>4, <2>5, <2>6 DEF FirstLife
<1>8. FirstCrash'
  BY <1>a DEF DwbInv, FirstCrash
<1> QED BY <1>1, <1>2, <1>3, <1>4, <1>5, <1>6, <1>7, <1>8 DEF DwbInv

LEMMA FlushDoneKeeps ==
  ASSUME DwbInv, FlushDone
  PROVE  DwbInv'
<1> USE DwbAssumption DEF FlushDone, memory, files, writing, closers
<1>a. /\ step = "flush" /\ todo = {} /\ page_cnt' = 0 /\ step' = "idle"
      /\ checkpoint' = (IF syncing THEN latest ELSE checkpoint)
      /\ UNCHANGED <<page_data, file_cnt, slots, pool_file, opened, target, todo, closing, cleared,
           dropped, latest, restarts>>
  OBVIOUS
<1>b. Buffered' = {} /\ IsFiniteSet(Buffered') /\ Cardinality(Buffered') = 0
  <2>1. Buffered' = {}
    BY DEF Buffered
  <2> QED BY <2>1, FS_EmptySet
<1>c. \A j \in Pages : j[1] \in opened \ closing => pool_file[j].version = latest[j]
  BY <1>a DEF DwbInv, Newest
<1>d. checkpoint' = latest \/ checkpoint' = checkpoint
  BY <1>a
<1>e. page_index' = [k \in Pages |-> -1] /\ syncing' = FALSE
  OBVIOUS
<1> HIDE DEF FlushDone
<1>1. TypeOK'
  <2>1. page_index' \in [Pages -> Slots \cup {-1}]
    BY <1>e
  <2>2. checkpoint' \in [Pages -> Nat]
    BY <1>d DEF DwbInv, TypeOK
  <2>3. page_cnt' \in 0..MAX_PAGES /\ step' \in Steps
    BY <1>a, Typed DEF DwbInv, Steps
  <2>4. syncing' \in BOOLEAN
    BY <1>e
  <2> QED BY <1>a, <2>1, <2>2, <2>3, <2>4 DEF DwbInv, TypeOK
<1>2. Pending'
  BY <1>a, <1>b DEF Pending, Calm
<1>3. Sizes'
  BY <1>a, <1>b DEF Sizes, Calm, Adding
<1>4. Closers'
  BY <1>a, <1>b DEF DwbInv, Closers
<1>5. Newest'
  BY <1>a, <1>b, <1>c DEF Newest
<1>6. Whole'
  <2>1. dropped = {} => \A j \in Pages : pool_file[j].whole
    BY <1>a DEF DwbInv, Whole
  <2> QED BY <1>a, <1>b, <2>1 DEF Whole, Calm, Adding
<1>7. FirstLife'
  <2>1. SUFFICES ASSUME restarts = 0 PROVE FirstLife'
    BY <1>a DEF FirstLife
  <2>2. \A j \in Pages : j[1] \notin dropped => pool_file[j].version >= checkpoint'[j]
    <3>1. \A j \in Pages : j[1] \notin dropped => pool_file[j].version = latest[j]
              /\ pool_file[j].version >= checkpoint[j]
      BY <1>c, <2>1 DEF DwbInv, FirstLife, Closers, Pages
    <3> QED BY <1>d, <3>1, Typed DEF DwbInv
  <2>3. \A i \in 0 .. file_cnt - 1 : \A j \in Pages :
         slots[i].whole /\ slots[i].page = j /\ j[1] \notin dropped =>
           slots[i].version >= checkpoint'[j] /\ slots[i].version = latest[j]
    <3>1. \A i \in 0 .. file_cnt - 1 : \A j \in Pages :
            slots[i].whole /\ slots[i].page = j /\ j[1] \notin dropped =>
              slots[i].version >= checkpoint[j] /\ slots[i].version = latest[j]
      BY <1>a, <2>1 DEF DwbInv, FirstLife
    <3> QED BY <1>d, <3>1, Typed DEF DwbInv
  <2> QED BY <1>a, <2>2, <2>3 DEF FirstLife
<1>8. FirstCrash'
  BY <1>a, <1>d, Typed DEF DwbInv, FirstCrash
<1> QED BY <1>1, <1>2, <1>3, <1>4, <1>5, <1>6, <1>7, <1>8 DEF DwbInv

LEMMA SyncKeeps ==
  ASSUME DwbInv, Sync
  PROVE  DwbInv'
<1> USE DwbAssumption DEF Sync, memory, files, writing, closers
<1>a. /\ step = "idle" /\ step' = "flush" /\ todo' = Buffered /\ syncing' = TRUE
      /\ UNCHANGED <<page_index, page_data, page_cnt, file_cnt, slots, pool_file, opened, target,
           closing, cleared, dropped, latest, checkpoint, restarts>>
  OBVIOUS
<1>b. Buffered' = Buffered
  BY <1>a, BufferedKept
<1> HIDE DEF Sync
<1>1. TypeOK'
  <2>1. step' \in Steps /\ todo' \subseteq Pages /\ syncing' \in BOOLEAN
    BY <1>a DEF Steps, Buffered
  <2> QED BY <1>a, <2>1 DEF DwbInv, TypeOK
<1>2. Pending'
  BY <1>a, <1>b DEF Pending, Calm
<1>3. Sizes'
  BY <1>a DEF Sizes, Calm, Adding
<1>4. Closers'
  BY <1>a, <1>b DEF DwbInv, Closers
<1>5. Newest'
  BY <1>a, <1>b DEF DwbInv, Newest
<1>6. Whole'
  <2>1. SUFFICES ASSUME dropped = {} PROVE Whole'
    BY <1>a DEF Whole
  <2>2. \A j \in Pages : pool_file[j].whole
    BY <1>a, <2>1 DEF DwbInv, Whole
  <2>3. \A j \in Buffered : page_index[j] \in Nat /\ page_index[j] < file_cnt
            /\ slots[page_index[j]].whole /\ slots[page_index[j]].page = j
    BY <1>a, <2>1, Typed DEF DwbInv, Whole, Calm, Adding, InSlot
  <2>4. \A j \in Buffered : page_index[j] \in 0 .. file_cnt - 1
    BY <2>3, Typed DEF DwbInv
  <2>5. \A j \in Buffered : SlotsOf(j, slots)' # {}
    BY <1>a, <2>3, <2>4 DEF SlotsOf
  <2> QED BY <1>a, <2>2, <2>5 DEF Whole, Calm, Adding
<1>7. FirstLife'
  BY <1>a, <1>b DEF DwbInv, FirstLife
<1>8. FirstCrash'
  BY <1>a DEF DwbInv, FirstCrash
<1> QED BY <1>1, <1>2, <1>3, <1>4, <1>5, <1>6, <1>7, <1>8 DEF DwbInv

LEMMA DropPoolKeeps ==
  ASSUME DwbInv, NEW p \in Pools, DropPool(p)
  PROVE  DwbInv'
<1> USE DwbAssumption DEF DropPool, PagesOf, memory, files, writing, closers
<1>a. /\ step = "idle" /\ closing = {} /\ closing' = {p} /\ cleared' = PagesOf(p) \cap Buffered
           /\ dropped' = dropped \cup {p}
      /\ UNCHANGED <<page_data, page_cnt, file_cnt, slots, pool_file, opened, step, target, todo,
           syncing, latest, checkpoint, restarts>>
  OBVIOUS
<1>b. \A j \in Pages : page_index'[j] = IF j[1] = p THEN -1 ELSE page_index[j]
  OBVIOUS
<1>c. Buffered' = {j \in Buffered : j[1] # p}
  BY <1>b DEF Buffered
<1>d. page_index' \in [Pages -> Slots \cup {-1}]
  BY DEF DwbInv, TypeOK
<1> HIDE DEF DropPool
<1>1. TypeOK'
  <2>1. cleared' \subseteq Pages /\ closing' \subseteq Pools /\ dropped' \subseteq Pools
    BY <1>a DEF DwbInv, TypeOK
  <2> QED BY <1>a, <1>d, <2>1 DEF DwbInv, TypeOK
<1>2. Pending'
  BY <1>a DEF DwbInv, Pending, Calm
<1>3. Sizes'
  <2>1. IsFiniteSet(Buffered) /\ Cardinality(Buffered) < MAX_PAGES
            /\ Cardinality(Buffered) <= page_cnt
    BY <1>a DEF DwbInv, Sizes, Calm
  <2>2. IsFiniteSet(Buffered') /\ Cardinality(Buffered') <= Cardinality(Buffered)
    <3>1. Buffered' \subseteq Buffered
      BY <1>c
    <3> QED BY <2>1, <3>1, FS_Subset
  <2>3. Cardinality(Buffered) \in Nat /\ Cardinality(Buffered') \in Nat /\ page_cnt \in Nat
            /\ MAX_PAGES \in Nat
    BY <2>1, <2>2, FS_CardinalityType, Typed DEF DwbInv
  <2> QED BY <1>a, <2>1, <2>2, <2>3 DEF Sizes, Calm, Adding
<1>4. Closers'
  BY <1>a, <1>c DEF DwbInv, Closers, PagesOf
<1>5. Newest'
  BY <1>a, <1>c DEF DwbInv, Newest
<1>6. Whole'
  BY <1>a DEF Whole
<1>7. FirstLife'
  <2>1. SUFFICES ASSUME restarts = 0 PROVE FirstLife'
    BY <1>a DEF FirstLife
  <2>2. ASSUME NEW i \in 0 .. file_cnt - 1, NEW j \in Pages, slots[i].whole, slots[i].page = j,
                   j[1] \notin dropped'
        PROVE  /\ slots[i].version >= checkpoint[j] /\ slots[i].version = latest[j]
               /\ page_cnt > 0 => j \in Buffered' /\ page_index'[j] = i
    <3>1. j[1] # p /\ j[1] \notin dropped
      BY <1>a, <2>2
    <3>2. /\ slots[i].version >= checkpoint[j] /\ slots[i].version = latest[j]
          /\ page_cnt > 0 => j \in Buffered /\ page_index[j] = i
      BY <1>a, <2>1, <2>2, <3>1 DEF DwbInv, FirstLife
    <3> QED BY <1>b, <1>c, <3>1, <3>2
  <2>3. /\ \A j \in Pages : j[1] \notin dropped => pool_file[j].version >= checkpoint[j]
        /\ page_cnt > 0 => page_cnt = file_cnt
    BY <2>1 DEF DwbInv, FirstLife
  <2> QED BY <1>a, <2>2, <2>3 DEF FirstLife
<1>8. FirstCrash'
  BY <1>a DEF DwbInv, FirstCrash
<1> QED BY <1>1, <1>2, <1>3, <1>4, <1>5, <1>6, <1>7, <1>8 DEF DwbInv

LEMMA ClearPageKeeps ==
  ASSUME DwbInv, NEW k \in Pages, ClearPage(k)
  PROVE  DwbInv'
<1> USE DwbAssumption DEF ClearPage, InPoolFile, memory, files, writing, closers
<1>a. /\ step # "dead" /\ k \in cleared /\ cleared' = cleared \ {k} /\ k[1] \in closing
           /\ k[1] \in dropped /\ k \notin Buffered
      /\ UNCHANGED <<page_index, page_data, page_cnt, file_cnt, slots, opened, step, target, todo,
           syncing, closing, dropped, latest, checkpoint, restarts>>
  BY DEF DwbInv, Closers
<1>b. Buffered' = Buffered
  BY <1>a, BufferedKept
<1>c. pool_file' = [pool_file EXCEPT ![k] = [version |-> page_data[k], whole |-> TRUE]]
  OBVIOUS
<1>d. \A j \in Pages : j # k => pool_file'[j] = pool_file[j]
  BY <1>c DEF DwbInv, TypeOK
<1> HIDE DEF ClearPage
<1>1. TypeOK'
  <2>1. [version |-> page_data[k], whole |-> TRUE] \in [version : Nat, whole : BOOLEAN]
    BY Typed DEF DwbInv
  <2>2. pool_file' \in [Pages -> [version : Nat, whole : BOOLEAN]]
    BY <1>c, <2>1 DEF DwbInv, TypeOK
  <2>3. cleared' \subseteq Pages
    BY <1>a DEF DwbInv, TypeOK
  <2> QED BY <1>a, <2>2, <2>3 DEF DwbInv, TypeOK
<1>2. Pending'
  BY <1>a, <1>b DEF DwbInv, Pending, Calm
<1>3. Sizes'
  BY <1>a, <1>b DEF DwbInv, Sizes, Calm, Adding
<1>4. Closers'
  BY <1>a, <1>b DEF DwbInv, Closers
<1>5. Newest'
  <2>1. \A j \in Buffered : j \in Pages /\ j # k
    BY <1>a DEF Buffered
  <2> QED BY <1>a, <1>b, <1>d, <2>1 DEF DwbInv, Newest
<1>6. Whole'
  BY <1>a DEF Whole
<1>7. FirstLife'
  <2>1. SUFFICES ASSUME restarts = 0 PROVE FirstLife'
    BY <1>a DEF FirstLife
  <2>2. \A j \in Pages : j[1] \notin dropped => pool_file'[j].version >= checkpoint[j]
    BY <1>a, <1>d, <2>1 DEF DwbInv, FirstLife
  <2>3. CopyOf(target, TRUE)' = CopyOf(target, TRUE)
    BY <1>a DEF CopyOf
  <2>4. \A i \in 0 .. file_cnt - 1 : \A j \in Pages :
         slots[i].whole /\ slots[i].page = j /\ j[1] \notin dropped =>
           /\ slots[i].version >= checkpoint[j]
           /\ slots[i].version = latest[j] \/ (j = target
                /\ step \in {"slot", "new_slot", "header"})
           /\ page_cnt > 0 => j \in Buffered /\ page_index[j] = i
    BY <2>1 DEF DwbInv, FirstLife
  <2>5. (page_cnt > 0 => page_cnt = file_cnt)
         /\ (step = "header" => slots[page_index[target]] = CopyOf(target, TRUE))
    BY <2>1 DEF DwbInv, FirstLife
  <2>6. /\ file_cnt' = file_cnt /\ slots' = slots /\ page_cnt' = page_cnt /\ page_index' = page_index
        /\ latest' = latest /\ checkpoint' = checkpoint /\ dropped' = dropped
        /\ target' = target /\ step' = step
    BY <1>a
  <2>7. ASSUME NEW i \in 0 .. file_cnt' - 1, NEW j \in Pages,
               (slots[i].whole /\ slots[i].page = j /\ j[1] \notin dropped)'
        PROVE  (/\ slots[i].version >= checkpoint[j]
                /\ slots[i].version = latest[j] \/ (j = target
                     /\ step \in {"slot", "new_slot", "header"})
                /\ page_cnt > 0 => j \in Buffered /\ page_index[j] = i)'
    BY ONLY <1>b, <2>4, <2>6, <2>7
  <2> QED BY ONLY <1>b, <2>2, <2>3, <2>5, <2>6, <2>7 DEF FirstLife
<1>8. FirstCrash'
  BY <1>a DEF DwbInv, FirstCrash
<1> QED BY <1>1, <1>2, <1>3, <1>4, <1>5, <1>6, <1>7, <1>8 DEF DwbInv

LEMMA DropDoneKeeps ==
  ASSUME DwbInv, DropPoolDone
  PROVE  DwbInv'
<1> USE DwbAssumption DEF DropPoolDone, memory, files, writing, closers
<1>a. /\ opened' = opened \ closing /\ closing' = {} /\ cleared = {}
      /\ UNCHANGED <<page_index, page_data, page_cnt, file_cnt, slots, pool_file, step, target,
           todo, syncing, cleared, dropped, latest, checkpoint, restarts>>
  OBVIOUS
<1>b. Buffered' = Buffered
  BY <1>a, BufferedKept
<1>1. TypeOK'
  BY DEF DwbInv, TypeOK, Pending, Buffered
<1>2. Pending'
  BY DEF DwbInv, Pending, Calm, Buffered, TypeOK
<1>3. Sizes'
  BY <1>a, <1>b DEF DwbInv, Sizes, Calm, Adding
<1>4. Closers'
  BY DEF DwbInv, Closers, Pending, Buffered, TypeOK
<1>5. Newest'
  BY DEF DwbInv, Newest, Pending, Closers, Buffered, TypeOK
<1>6. Whole'
  BY DEF DwbInv, Whole, Pending, Sizes, Closers, Calm, Adding, InSlot, SlotsOf, TypeOK, Buffered
<1>7. FirstLife'
  BY DEF DwbInv, FirstLife, Pending, Sizes, Newest, Closers, CopyOf, TypeOK, Buffered, Calm,
     Adding
<1>8. FirstCrash'
  BY DEF DwbInv, FirstCrash, TypeOK
<1> QED BY <1>1, <1>2, <1>3, <1>4, <1>5, <1>6, <1>7, <1>8 DEF DwbInv

\* load_pages finds a first slot for each page that has one.
LEMMA FirstIs ==
  ASSUME NEW I \in SUBSET Nat, I # {}
  PROVE  First(I) \in I /\ \A j \in I : First(I) <= j
<1>1. \E i \in I : \A j \in I : i <= j
  <2>1. PICK i \in I : \A j \in I : ~(<<j, i>> \in OpToRel(<, Nat))
    BY WFMin, NatLessThanWellFounded
  <2>2. \A j \in I : i <= j
    <3>1. SUFFICES ASSUME NEW j \in I, j < i PROVE FALSE
      OBVIOUS
    <3>2. <<j, i>> \in OpToRel(<, Nat)
      BY <3>1 DEF OpToRel
    <3> QED BY <2>1, <3>2
  <2> QED BY <2>2
<1> QED BY <1>1 DEF First

\* Db::init brings every conjunct back from what the files hold.
LEMMA RestartKeeps ==
  ASSUME DwbInv, NEW s \in [Slots -> Copy \cup {NoCopy}],
         NEW f \in [Pages -> [version : Nat, whole : BOOLEAN]],
         Restart(s, f),
         dropped = {} => \A k \in Pages : ~f[k].whole => SlotsOf(k, s) # {},
         restarts = 0 =>
           /\ \A k \in Pages : k[1] \notin dropped => f[k].version >= checkpoint[k]
           /\ \A i \in 0 .. file_cnt - 1 : \A k \in Pages :
                s[i].whole /\ s[i].page = k /\ k[1] \notin dropped => s[i].version >= checkpoint[k]
  PROVE  DwbInv'
<1> DEFINE loaded == {k \in Pages : SlotsOf(k, s) # {}}
           data   == [k \in Pages |-> IF k \in loaded THEN s[First(SlotsOf(k, s))].version ELSE 0]
<1>a. /\ restarts' = restarts + 1 /\ slots' = s /\ pool_file' = f
      /\ page_index' = [k \in Pages |-> IF k \in loaded THEN First(SlotsOf(k, s)) ELSE -1]
      /\ page_data' = data
      /\ page_cnt' = file_cnt /\ opened' = Pools \ dropped
      /\ step' = "flush" /\ target' = <<>> /\ todo' = loaded /\ syncing' = FALSE
      /\ closing' = {} /\ cleared' = {}
      /\ latest' = [k \in Pages |-> IF k \in loaded THEN data[k] ELSE f[k].version]
      /\ UNCHANGED <<file_cnt, dropped, checkpoint>>
  BY DEF Restart
<1>b. file_cnt \in Nat /\ file_cnt <= MAX_PAGES /\ MAX_PAGES \in Nat /\ restarts \in Nat
  BY Typed DEF DwbInv, TypeOK
<1>c. \A k \in loaded : /\ First(SlotsOf(k, s)) \in SlotsOf(k, s) /\ First(SlotsOf(k, s)) \in 0 .. file_cnt - 1
                        /\ First(SlotsOf(k, s)) \in Slots /\ First(SlotsOf(k, s)) # -1
  <2>1. SUFFICES ASSUME NEW k \in loaded
                 PROVE /\ First(SlotsOf(k, s)) \in SlotsOf(k, s)
                            /\ First(SlotsOf(k, s)) \in 0 .. file_cnt - 1
                       /\ First(SlotsOf(k, s)) \in Slots /\ First(SlotsOf(k, s)) # -1
    OBVIOUS
  <2>2. SlotsOf(k, s) \in SUBSET (0 .. file_cnt - 1) /\ SlotsOf(k, s) # {}
    BY DEF SlotsOf
  <2>3. SlotsOf(k, s) \in SUBSET Nat
    BY <1>b, <2>2
  <2>4. First(SlotsOf(k, s)) \in SlotsOf(k, s)
    BY <2>2, <2>3, FirstIs
  <2> QED BY <1>b, <2>2, <2>4 DEF Slots
<1>d. Buffered' = loaded
  <2>1. \A k \in Pages : page_index'[k] # -1 <=> k \in loaded
    BY <1>a, <1>c
  <2> QED BY <2>1 DEF Buffered
<1>e. \A c \in Copy \cup {NoCopy} : c.version \in Nat
  BY DEF Copy, NoCopy
<1>f. data \in [Pages -> Nat] /\ \A k \in loaded : data[k] = s[First(SlotsOf(k, s))].version
  BY <1>c, <1>e
<1>g. page_index' \in [Pages -> Slots \cup {-1}]
  BY <1>a, <1>c
<1>h. latest' \in [Pages -> Nat] /\ \A k \in Pages : latest'[k] = IF k \in loaded THEN data[k] ELSE f[k].version
  <2>1. \A k \in Pages : f[k].version \in Nat /\ data[k] \in Nat
    BY <1>f
  <2> QED BY <1>a, <2>1
<1>i. \A k \in loaded : k \in Pages /\ SlotsOf(k, s) # {}
  OBVIOUS
<1>j. \A k \in Pages : SlotsOf(k, s) # {} => k \in loaded
  OBVIOUS
<1>k. loaded \subseteq Pages
  OBVIOUS
<1> HIDE DEF loaded, data
<1>1. TypeOK'
  <2>1. step' \in Steps /\ target' \in Pages \cup {<<>>} /\ syncing' \in BOOLEAN
    BY <1>a DEF Steps
  <2>2. page_cnt' \in 0..MAX_PAGES /\ file_cnt' \in 0..MAX_PAGES /\ restarts' \in Nat
    BY <1>a, <1>b
  <2>3. checkpoint' \in [Pages -> Nat] /\ dropped' \subseteq Pools
    BY <1>a DEF DwbInv, TypeOK
  <2> QED BY <1>a, <1>f, <1>g, <1>h, <1>k, <2>1, <2>2, <2>3 DEF TypeOK
<1>2. Pending'
  BY <1>a, <1>d DEF Pending, Calm
<1>3. Sizes'
  BY <1>a DEF Sizes, Calm, Adding
<1>4. Closers'
  BY <1>a DEF Closers
<1>5. Newest'
  BY <1>a, <1>d, <1>h, <1>k DEF Newest
<1>6. Whole'
  <2>1. SUFFICES ASSUME dropped = {} PROVE Whole'
    BY <1>a DEF Whole
  <2>2. \A k \in Pages : ~f[k].whole => k \in loaded
    BY <1>j, <2>1
  <2>3. \A k \in loaded : SlotsOf(k, slots)' # {}
    BY <1>a, <1>i DEF SlotsOf
  <2> QED BY <1>a, <2>2, <2>3 DEF Whole, Calm, Adding
<1>7. FirstLife'
  BY <1>a, <1>b DEF FirstLife
<1>8. FirstCrash'
  <2>1. SUFFICES ASSUME restarts' <= 1, NEW k \in Pages, k[1] \notin dropped'
                 PROVE latest'[k] >= checkpoint'[k]
    BY DEF FirstCrash
  <2>2. restarts = 0 /\ k[1] \notin dropped /\ checkpoint' = checkpoint
    BY <1>a, <1>b, <2>1
  <2>3. CASE k \in loaded
    <3>1. latest'[k] = s[First(SlotsOf(k, s))].version
      BY <1>f, <1>h, <2>3
    <3>2. /\ First(SlotsOf(k, s)) \in 0 .. file_cnt - 1
          /\ s[First(SlotsOf(k, s))].whole /\ s[First(SlotsOf(k, s))].page = k
      BY <1>c, <2>3 DEF SlotsOf
    <3> QED BY <2>2, <3>1, <3>2
  <2>4. CASE k \notin loaded
    BY <1>h, <2>2, <2>4
  <2> QED BY <2>3, <2>4
<1> QED BY <1>1, <1>2, <1>3, <1>4, <1>5, <1>6, <1>7, <1>8 DEF DwbInv

\* A crash while nothing is written, while a slot is written, and while a page
\* goes to the file of its pool.
LEMMA CrashKeeps ==
  ASSUME DwbInv, CrashRestart
  PROVE  DwbInv'
<1>a. /\ slots \in [Slots -> Copy \cup {NoCopy}]
           /\ pool_file \in [Pages -> [version : Nat, whole : BOOLEAN]]
      /\ todo \cup cleared \subseteq Pages
  BY DEF DwbInv, TypeOK
<1>b. dropped = {} => \A k \in Pages : ~pool_file[k].whole => step = "flush"
          /\ SlotsOf(k, slots) # {}
  BY DEF DwbInv, Whole
<1>c. restarts = 0 =>
        /\ \A k \in Pages : k[1] \notin dropped => pool_file[k].version >= checkpoint[k]
        /\ \A i \in 0 .. file_cnt - 1 : \A k \in Pages :
             slots[i].whole /\ slots[i].page = k /\ k[1] \notin dropped
                 => slots[i].version >= checkpoint[k]
  BY DEF DwbInv, FirstLife
<1>1. CASE Restart(slots, pool_file)
  BY <1>1, <1>a, <1>b, <1>c, RestartKeeps
<1>2. CASE step \in {"slot", "new_slot"} /\ Restart(WithSlot(FALSE), pool_file)
  <2>1. target \in Pages /\ page_index[target] \in Slots /\ page_data[target] \in Nat
    BY <1>2, Typed DEF DwbInv, Pending
  <2>2. CopyOf(target, FALSE) \in Copy /\ ~CopyOf(target, FALSE).whole
    BY <2>1 DEF CopyOf, Copy
  <2>3. \A i \in Slots : WithSlot(FALSE)[i] = IF i = page_index[target] THEN CopyOf(target, FALSE) ELSE slots[i]
    BY <1>a, <2>1 DEF WithSlot
  <2>4. WithSlot(FALSE) \in [Slots -> Copy \cup {NoCopy}]
    BY <1>a, <2>2 DEF WithSlot
  <2>5. dropped = {} => \A k \in Pages : pool_file[k].whole
    BY <1>2, <1>b
  <2>6. \A i \in 0 .. file_cnt - 1 : i \in Slots
    BY Typed DEF DwbInv, Slots
  <2>7. restarts = 0 => \A i \in 0 .. file_cnt - 1 : \A k \in Pages :
             WithSlot(FALSE)[i].whole /\ WithSlot(FALSE)[i].page = k /\ k[1] \notin dropped
               => WithSlot(FALSE)[i].version >= checkpoint[k]
    BY <1>c, <2>2, <2>3, <2>6
  <2> QED BY <1>2, <1>a, <1>c, <2>4, <2>5, <2>7, RestartKeeps
<1>3. ASSUME NEW k \in todo \cup cleared, k[1] \in opened, Restart(slots, InPoolFile(k, FALSE))
      PROVE  DwbInv'
  <2>1. k \in Pages /\ page_data[k] \in Nat
    BY <1>a, Typed DEF DwbInv
  <2>2. [version |-> page_data[k], whole |-> FALSE] \in [version : Nat, whole : BOOLEAN]
    BY <2>1
  <2>3. InPoolFile(k, FALSE) \in [Pages -> [version : Nat, whole : BOOLEAN]]
    BY <1>a, <2>2 DEF InPoolFile
  <2>4. \A j \in Pages : /\ j # k => InPoolFile(k, FALSE)[j] = pool_file[j]
                         /\ InPoolFile(k, FALSE)[k].version = page_data[k]
    BY <1>a, <2>1 DEF InPoolFile
  <2>5. dropped = {} => SlotsOf(k, slots) # {}
    <3>1. SUFFICES ASSUME dropped = {} PROVE SlotsOf(k, slots) # {}
      OBVIOUS
    <3>2. k \in todo /\ step = "flush"
      BY <3>1 DEF DwbInv, Closers, Pending, Calm, TypeOK, Steps
    <3> QED BY <3>1, <3>2 DEF DwbInv, Whole
  <2>6. restarts = 0 => \A j \in Pages : j[1] \notin dropped
            => InPoolFile(k, FALSE)[j].version >= checkpoint[j]
    <3>1. SUFFICES ASSUME restarts = 0, NEW j \in Pages, j[1] \notin dropped
                   PROVE InPoolFile(k, FALSE)[j].version >= checkpoint[j]
      OBVIOUS
    <3>2. CASE j # k
      BY <1>c, <2>4, <3>1, <3>2
    <3>3. CASE j = k
      <4>1. k \notin cleared
        BY <3>1, <3>3 DEF DwbInv, Closers
      <4>2. step = "flush" \/ step = "dead"
        BY <4>1 DEF DwbInv, Pending, Calm, TypeOK, Steps
      <4>3. k \in Buffered /\ page_data[k] = latest[k]
        BY <4>1, <4>2 DEF DwbInv, Pending, Newest
      <4>4. latest[k] >= checkpoint[k]
        BY <2>1, <3>1, <3>3 DEF DwbInv, FirstCrash
      <4> QED BY <2>1, <2>4, <3>3, <4>3, <4>4
    <3> QED BY <3>2, <3>3
  <2> QED BY <1>3, <1>a, <1>b, <1>c, <2>3, <2>4, <2>5, <2>6, RestartKeeps
<1> QED BY <1>1, <1>2, <1>3 DEF CrashRestart

-----------------------------------------------------------------------------
LEMMA InitKeeps == Init => DwbInv
<1>1. SUFFICES ASSUME Init PROVE DwbInv
  OBVIOUS
<1>2. Buffered = {} /\ IsFiniteSet(Buffered) /\ Cardinality(Buffered) = 0
  <2>1. Buffered = {}
    BY <1>1 DEF Init, Buffered
  <2> QED BY <2>1, FS_EmptySet
<1>3. TypeOK
  <2>1. [version |-> 0, whole |-> TRUE] \in [version : Nat, whole : BOOLEAN]
    OBVIOUS
  <2>2. /\ pool_file \in [Pages -> [version : Nat, whole : BOOLEAN]]
        /\ slots \in [Slots -> Copy \cup {NoCopy}]
        /\ page_index \in [Pages -> Slots \cup {-1}] /\ page_data \in [Pages -> Nat]
        /\ latest \in [Pages -> Nat] /\ checkpoint \in [Pages -> Nat]
    BY <1>1, <2>1 DEF Init
  <2>3. page_cnt \in 0..MAX_PAGES /\ file_cnt \in 0..MAX_PAGES
    BY <1>1, DwbAssumption DEF Init
  <2>4. step \in Steps /\ syncing \in BOOLEAN
    BY <1>1 DEF Init, Steps
  <2> QED BY <1>1, <2>2, <2>3, <2>4 DEF Init, TypeOK
<1>4. Pending /\ Sizes /\ Closers
  BY <1>1, <1>2, DwbAssumption DEF Init, Pending, Sizes, Closers, Calm, Adding
<1>5. \A k \in Pages : pool_file[k].version = 0 /\ pool_file[k].whole /\ latest[k] = 0
          /\ checkpoint[k] = 0
  BY <1>1 DEF Init
<1>6. Newest /\ FirstCrash
  BY <1>2, <1>5 DEF Newest, FirstCrash
<1>7. Whole /\ FirstLife
  BY <1>1, <1>2, <1>5 DEF Init, Whole, FirstLife, Calm, Adding
<1> QED BY <1>3, <1>4, <1>6, <1>7 DEF DwbInv

LEMMA StepKeeps ==
  ASSUME DwbInv, [Next]_vars
  PROVE  DwbInv'
<1>1. ASSUME NEW k \in Pages, AddPage(k) \/ FlushPage(k) \/ ClearPage(k) PROVE DwbInv'
  BY <1>1, AddPageKeeps, FlushPageKeeps, ClearPageKeeps
<1>2. CASE WriteSlot \/ WriteHeader \/ FlushDone \/ Sync
  BY <1>2, WriteSlotKeeps, WriteHeaderKeeps, FlushDoneKeeps, SyncKeeps
<1>3. ASSUME NEW p \in Pools, DropPool(p) PROVE DwbInv'
  BY <1>3, DropPoolKeeps
<1>4. CASE DropPoolDone
  BY <1>4, DropDoneKeeps
<1>5. CASE CrashRestart
  BY <1>5, CrashKeeps
<1>6. CASE UNCHANGED vars
  <2>1. Buffered' = Buffered
    BY <1>6, BufferedKept DEF vars, memory
  <2> QED BY <1>6, <2>1 DEF vars, memory, files, writing, closers, DwbInv, TypeOK, Pending, Sizes,
         Closers,
          Newest, Whole, FirstLife, FirstCrash, Calm, Adding, InSlot, SlotsOf, CopyOf
<1> QED BY <1>1, <1>2, <1>3, <1>4, <1>5, <1>6 DEF Next

\* The inductive invariant, TypeOK included, holds over any number of crashes.
THEOREM BufferInvariant == Spec => []DwbInv
<1>1. Init => DwbInv
  BY InitKeeps
<1>2. DwbInv /\ [Next]_vars => DwbInv'
  BY StepKeeps
<1> QED BY <1>1, <1>2, PTL DEF Spec

\* load_page always gives the newest content handed to add_page, from the map or
\* from the file, while flush_page and clear_pages move it.
THEOREM ReadsAreLatest == Spec => []ReadsLatest
<1>1. DwbInv => ReadsLatest
  <2>1. SUFFICES ASSUME DwbInv, NEW k \in Pages, k[1] \in opened \ closing
                 PROVE LoadPage(k).version = latest[k]
    BY DEF ReadsLatest
  <2>2. CASE k \in Buffered
    BY <2>1, <2>2 DEF DwbInv, Newest, LoadPage
  <2>3. CASE k \notin Buffered
    BY <2>1, <2>3 DEF DwbInv, Newest, LoadPage
  <2> QED BY <2>2, <2>3
<1> QED BY <1>1, BufferInvariant, PTL

\* Over any number of crashes, as long as no table was dropped, no read gives a
\* torn page: recover() writes it again from its slot.
THEOREM TornPagesRepaired == Spec => []NoTornPage
<1>1. DwbInv => NoTornPage
  <2>1. SUFFICES ASSUME DwbInv, NEW k \in Pages, dropped = {}
                 PROVE LoadPage(k).whole
    BY DEF NoTornPage
  <2>2. CASE k \in Buffered
    BY <2>2 DEF LoadPage
  <2>3. CASE k \notin Buffered
    <3>1. pool_file[k].whole
      BY <2>1, <2>3 DEF DwbInv, Whole, Pending
    <3> QED BY <2>3, <3>1 DEF LoadPage
  <2> QED BY <2>2, <2>3
<1> QED BY <1>1, BufferInvariant, PTL

\* The first crash never takes a page back before the content it had when
\* Db::sync last returned.
THEOREM CrashKeepsCheckpoint == Spec => []FirstCrashCovered
<1>1. DwbInv => FirstCrashCovered
  BY DEF DwbInv, FirstCrash, FirstCrashCovered, CheckpointCovered
<1> QED BY <1>1, BufferInvariant, PTL
=============================================================================
