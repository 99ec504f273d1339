--------------------------- MODULE DiskLogProofs ---------------------------
(***************************************************************************)
(* DiskLog implements DurableLog for every number of clients, every file   *)
(* length and every bound: the inductive invariant of the buffer, the log  *)
(* thread and the files, and from it the refinement.                       *)
(***************************************************************************)
EXTENDS DiskLog, TLAPS

(* The entry that the log thread has taken out of the buffer counts.        *)
Taken == IF in_hand = 0 THEN 0 ELSE 1

(* The whole entries in the files are 1, 2, ... without a gap.              *)
Gapless == Durable \in Nat /\ OnDisk = 1..Durable

(* What is not yet in the files stands, in order, in the thread's hand and  *)
(* in the buffer.                                                           *)
InOrder ==
  /\ thread = "write" <=> in_hand # 0
  /\ in_hand # 0 => in_hand = Durable + 1
  /\ thread # "failed" => Len(entries) = current_lsn - Durable - Taken
  /\ \A i \in 1..Len(entries) : entries[i] = Durable + Taken + i

(* No number that is reported, confirmed or stored runs ahead of the files. *)
Counted == /\ acked <= flushed_lsn /\ flushed_lsn <= Durable
           /\ last_lsn <= Durable /\ check_point <= Durable
           /\ thread = "failed" => \A c \in Clients : client[c] = "idle"

(* The map of files grows at its end only, and a file is entered into it    *)
(* when everything before its range is durable.                             *)
FilesInOrder ==
  /\ created \subseteq log_files
  /\ log_files # {} => Max(log_files) \in log_files
                       /\ \A f \in log_files : f <= Max(log_files)
  /\ created # {} => Max(created) \in created
                     /\ \A f \in created : f <= Max(created)
  /\ \A f \in log_files : f <= Durable + 1
  /\ fd # NoFile => fd \in created /\ fd = Max(log_files)
  /\ thread \in {"flush", "write"} => fd # NoFile
  /\ rc = "LOG_FILE_FULL" => fd # NoFile /\ fd + PerFile <= Durable + 1

(* A file holds entries of its range only, in order.                        *)
PiecesInOrder ==
  \A f \in FileNames :
    /\ Len(disk[f]) > 0 => f \in created
    /\ \A i \in WholeAt(disk, f) : disk[f][i].lsn <= f + PerFile - 1
    /\ \A i, j \in WholeAt(disk, f) : i < j => disk[f][i].lsn < disk[f][j].lsn

LogInv == TypeOK /\ Gapless /\ InOrder /\ Counted /\ FilesInOrder /\ PiecesInOrder

-----------------------------------------------------------------------------
LEMMA FileNamesNat == FileNames \subseteq Nat
<1> SUFFICES ASSUME NEW k \in 0..LsnBound PROVE k * PerFile \in Nat
  BY DEF FileNames
<1>1. k \in Nat /\ PerFile \in Nat
  BY BoundsAssumption, SizesAssumption
<1> QED BY <1>1

LEMMA MaxIs ==
  ASSUME NEW S, S \subseteq Int, NEW m \in S, \A y \in S : y <= m
  PROVE  Max(S) = m
<1> DEFINE P(x) == \A y \in S : x >= y
<1>1. P(m)
  OBVIOUS
<1>2. Max(S) \in S /\ P(Max(S))
  <2>1. Max(S) = CHOOSE x \in S : P(x)
    BY DEF Max
  <2> HIDE DEF P
  <2> QED BY <1>1, <2>1
<1>3. Max(S) \in Int /\ m \in Int /\ Max(S) >= m /\ Max(S) <= m
  BY <1>2
<1> QED BY <1>3

LEMMA MaxUpTo == \A n \in Nat : Max((1..n) \cup {0}) = n
<1> SUFFICES ASSUME NEW n \in Nat PROVE Max((1..n) \cup {0}) = n
  OBVIOUS
<1>1. (1..n) \cup {0} \subseteq Int /\ n \in (1..n) \cup {0} /\ \A y \in (1..n) \cup {0} : y <= n
  OBVIOUS
<1> QED BY <1>1, MaxIs

(* A whole piece of some file. *)
LEMMA OnDiskElem ==
  \A x : x \in OnDisk <=> \E f \in FileNames : \E i \in 1..Len(disk[f]) :
                            disk[f][i].part = "whole" /\ x = disk[f][i].lsn
BY DEF OnDisk, Pieces

LEMMA OnDiskElemPrime ==
  \A x : x \in OnDisk' <=> \E f \in FileNames : \E i \in 1..Len(disk'[f]) :
                             disk'[f][i].part = "whole" /\ x = disk'[f][i].lsn
BY DEF OnDisk, Pieces

LEMMA SameDisk ==
  ASSUME disk' = disk PROVE OnDisk' = OnDisk /\ Durable' = Durable
BY DEF OnDisk, Pieces, Durable

(* What a piece written to the open file changes.                           *)
LEMMA Written ==
  ASSUME TypeOK, fd \in FileNames, NEW part \in {"whole", "header", "payload"},
         disk' = [disk EXCEPT ![fd] = Append(@, [lsn |-> in_hand, part |-> part])]
  PROVE  /\ disk' \in [FileNames -> Seq(Piece)]
         /\ Len(disk'[fd]) = Len(disk[fd]) + 1
         /\ \A i \in 1..Len(disk[fd]) : disk'[fd][i] = disk[fd][i]
         /\ disk'[fd][Len(disk[fd]) + 1].lsn = in_hand
         /\ disk'[fd][Len(disk[fd]) + 1].part = part
         /\ \A f \in FileNames \ {fd} : disk'[f] = disk[f]
         /\ OnDisk' = IF part = "whole" THEN OnDisk \cup {in_hand} ELSE OnDisk
<1> DEFINE p == [lsn |-> in_hand, part |-> part]
<1>0. p \in Piece /\ p.lsn = in_hand /\ p.part = part
  BY DEF TypeOK, Piece
<1>1. disk[fd] \in Seq(Piece) /\ \A f \in FileNames : Len(disk[f]) \in Nat
  BY DEF TypeOK
<1> HIDE DEF p
<1>2. disk'[fd] = Append(disk[fd], p) /\ \A f \in FileNames \ {fd} : disk'[f] = disk[f]
  BY DEF TypeOK, p
<1>3. /\ disk' \in [FileNames -> Seq(Piece)]
      /\ Len(disk'[fd]) = Len(disk[fd]) + 1
      /\ \A i \in 1..Len(disk[fd]) : disk'[fd][i] = disk[fd][i]
      /\ disk'[fd][Len(disk[fd]) + 1] = p
  BY <1>0, <1>1, <1>2 DEF TypeOK, p
<1>4. OnDisk' = IF part = "whole" THEN OnDisk \cup {in_hand} ELSE OnDisk
  <2>1. ASSUME NEW x, x \in OnDisk PROVE x \in OnDisk'
    BY <2>1, <1>1, <1>2, <1>3, OnDiskElem, OnDiskElemPrime
  <2>2. ASSUME NEW x, x \in OnDisk', ~ (part = "whole" /\ x = in_hand) PROVE x \in OnDisk
    <3>0. PICK f \in FileNames : \E i \in 1..Len(disk'[f]) : disk'[f][i].part = "whole" /\ x = disk'[f][i].lsn
      BY <2>2, OnDiskElemPrime
    <3>1. PICK i \in 1..Len(disk'[f]) : disk'[f][i].part = "whole" /\ x = disk'[f][i].lsn
      BY <3>0
    <3>2. CASE f = fd /\ i = Len(disk[fd]) + 1
      BY <3>1, <3>2, <2>2, <1>0, <1>3
    <3>3. CASE ~ (f = fd /\ i = Len(disk[fd]) + 1)
      <4>1. i \in 1..Len(disk[f]) /\ disk'[f][i] = disk[f][i]
        BY <3>3, <1>1, <1>2, <1>3
      <4> QED BY <4>1, <3>1, OnDiskElem
    <3> QED BY <3>2, <3>3
  <2>3. part = "whole" => in_hand \in OnDisk'
    <3>1. Len(disk[fd]) + 1 \in 1..Len(disk'[fd])
      BY <1>1, <1>3
    <3> QED BY <3>1, <1>0, <1>3, OnDiskElemPrime
  <2> QED BY <2>1, <2>2, <2>3
<1> QED BY <1>0, <1>2, <1>3, <1>4

(* list_files and skip_to pass over nothing that replay must hand out: from *)
(* files whose entries are in order and in their ranges, replay reads       *)
(* exactly the entries from the checkpoint on.                              *)
LEMMA ReplayReads ==
  ASSUME NEW d \in [FileNames -> Seq(Piece)], NEW n \in Nat, NEW start \in Nat,
         created \subseteq FileNames,
         \A x : x \in 1..n <=> \E f \in FileNames : \E i \in 1..Len(d[f]) :
                                 d[f][i].part = "whole" /\ x = d[f][i].lsn,
         \A f \in FileNames :
           /\ Len(d[f]) > 0 => f \in created
           /\ \A i \in WholeAt(d, f) : d[f][i].lsn <= f + PerFile - 1
           /\ \A i, j \in WholeAt(d, f) : i < j => d[f][i].lsn < d[f][j].lsn
  PROVE  UNION {FilePart(d, f, start) : f \in ReplayFiles(start)} = {l \in 1..n : l >= start}
<1> DEFINE read == UNION {FilePart(d, f, start) : f \in ReplayFiles(start)}
<1>0. /\ \A f \in FileNames : d[f] \in Seq(Piece) /\ Len(d[f]) \in Nat
      /\ \A f \in FileNames : \A i \in 1..Len(d[f]) : d[f][i] \in Piece /\ d[f][i].lsn \in Nat
  <2>1. \A f \in FileNames : d[f] \in Seq(Piece) /\ Len(d[f]) \in Nat
    OBVIOUS
  <2>2. \A f \in FileNames : \A i \in 1..Len(d[f]) : d[f][i] \in Piece
    BY <2>1
  <2> QED BY <2>1, <2>2 DEF Piece
<1>1. ASSUME NEW l \in 1..n, l >= start PROVE l \in read
  <2>1. PICK f \in FileNames : \E i \in 1..Len(d[f]) : d[f][i].part = "whole" /\ l = d[f][i].lsn
    OBVIOUS
  <2>2. PICK i \in 1..Len(d[f]) : d[f][i].part = "whole" /\ l = d[f][i].lsn
    BY <2>1
  <2>3. i \in WholeAt(d, f)
    BY <2>2 DEF WholeAt
  <2>4. f \in created
    BY <1>0, <2>2
  <2>5. f \in ReplayFiles(start)
    BY <1>1, <2>2, <2>3, <2>4, FileNamesNat, SizesAssumption DEF ReplayFiles
  <2>6. l \in FilePart(d, f, start)
    BY <1>0, <1>1, <2>2, <2>3 DEF FilePart
  <2> QED BY <2>5, <2>6
<1>2. ASSUME NEW l \in read PROVE l \in 1..n /\ l >= start
  <2>1. PICK f \in ReplayFiles(start) : l \in FilePart(d, f, start)
    OBVIOUS
  <2>2. f \in FileNames
    BY DEF ReplayFiles
  <2>3. PICK j \in WholeAt(d, f) : /\ l = d[f][j].lsn
                                   /\ \E i \in WholeAt(d, f) : i <= j /\ d[f][i].lsn >= start
    BY <2>1 DEF FilePart
  <2>4. PICK i \in WholeAt(d, f) : i <= j /\ d[f][i].lsn >= start
    BY <2>3
  <2>5. i \in 1..Len(d[f]) /\ j \in 1..Len(d[f]) /\ d[f][j].part = "whole"
    BY DEF WholeAt
  <2>6. d[f][i].lsn \in Nat /\ d[f][j].lsn \in Nat /\ i \in Int /\ j \in Int
    BY <1>0, <2>2, <2>5
  <2>7. d[f][i].lsn <= d[f][j].lsn
    <3>1. CASE i = j
      BY <3>1, <2>6
    <3>2. CASE i < j
      BY <3>2, <2>2, <2>6
    <3> QED BY <3>1, <3>2, <2>4, <2>6
  <2>8. l \in 1..n
    BY <2>2, <2>3, <2>5
  <2> QED BY SMTT(20), <2>3, <2>4, <2>6, <2>7, <2>8
<1> QED BY <1>1, <1>2

-----------------------------------------------------------------------------
LEMMA InitLog == Init => LogInv
<1> SUFFICES ASSUME Init PROVE LogInv
  OBVIOUS
<1>1. \A f \in FileNames : disk[f] = <<>> /\ Len(disk[f]) = 0
  BY DEF Init
<1>2. OnDisk = {}
  BY <1>1, OnDiskElem
<1>3. Durable = 0
  <2>1. 1..0 = {}
    OBVIOUS
  <2> QED BY <2>1, <1>2, MaxUpTo DEF Durable
<1>4. TypeOK
  BY BoundsAssumption DEF Init, TypeOK, Threads
<1>5. \A f \in FileNames : WholeAt(disk, f) = {}
  BY <1>1 DEF WholeAt, Init
<1>6. Gapless
  BY <1>2, <1>3 DEF Gapless
<1>7. InOrder /\ Counted /\ FilesInOrder
  BY <1>3 DEF InOrder, Counted, FilesInOrder, Init, Taken, NoFile
<1>8. PiecesInOrder
  BY <1>1, <1>5 DEF PiecesInOrder
<1> QED BY <1>4, <1>6, <1>7, <1>8 DEF LogInv

(* A step that writes nothing and forgets no file.                          *)
LEMMA NoWrite ==
  ASSUME LogInv, disk' = disk, created \subseteq created'
  PROVE  Gapless' /\ PiecesInOrder' /\ Durable' = Durable /\ OnDisk' = OnDisk /\ Durable \in Nat
<1>1. OnDisk' = OnDisk /\ Durable' = Durable
  BY SameDisk
<1>2. Gapless' /\ Durable \in Nat
  BY <1>1 DEF LogInv, Gapless
<1>3. PiecesInOrder'
  BY DEF LogInv, PiecesInOrder, WholeAt
<1> QED BY <1>1, <1>2, <1>3

LEMMA ClientLog ==
  ASSUME LogInv, NEW c \in Clients, AppendCheck(c) \/ NoWait(c) \/ WaitLsn(c) \/ WaitReturn(c)
  PROVE  LogInv'
<1>1. Gapless' /\ PiecesInOrder' /\ Durable' = Durable /\ Durable \in Nat
  BY NoWrite DEF AppendCheck, NoWait, WaitLsn, WaitReturn, writer
<1>2. TypeOK'
  BY DEF LogInv, TypeOK, AppendCheck, NoWait, WaitLsn, WaitReturn, buffer, writer, clients
<1>3. InOrder' /\ FilesInOrder'
  BY <1>1 DEF LogInv, InOrder, FilesInOrder, Taken, AppendCheck, NoWait, WaitLsn, WaitReturn, buffer, writer
<1>4. Counted'
  BY <1>1 DEF LogInv, TypeOK, Counted, AppendCheck, NoWait, WaitLsn, WaitReturn, writer
<1> QED BY <1>1, <1>2, <1>3, <1>4 DEF LogInv

LEMMA AppendLog ==
  ASSUME LogInv, NEW c \in Clients, AppendLocked(c)
  PROVE  LogInv'
<1>0. thread # "failed"
  BY DEF LogInv, TypeOK, Counted, AppendLocked
<1>1. Gapless' /\ PiecesInOrder' /\ Durable' = Durable /\ Durable \in Nat
  BY NoWrite DEF AppendLocked, writer
<1>2. TypeOK'
  BY SizesAssumption DEF LogInv, TypeOK, AppendLocked, AddedSize, writer
<1>3. InOrder'
  <2>1. entries \in Seq(Nat \ {0}) /\ current_lsn \in Nat /\ Taken \in Int /\ Taken' = Taken
    BY DEF LogInv, TypeOK, Taken, AppendLocked
  <2>2. Len(entries) = current_lsn - Durable - Taken
    BY <1>0 DEF LogInv, InOrder
  <2>3. /\ Len(entries') = Len(entries) + 1
        /\ \A i \in 1..Len(entries) : entries'[i] = entries[i]
        /\ entries'[Len(entries) + 1] = current_lsn + 1
    BY <2>1 DEF AppendLocked
  <2>4. \A i \in 1..Len(entries') : entries'[i] = Durable + Taken + i
    BY SMTT(20), <1>1, <2>1, <2>2, <2>3 DEF LogInv, InOrder
  <2> QED BY <1>1, <2>1, <2>2, <2>3, <2>4 DEF LogInv, InOrder, AppendLocked
<1>4. FilesInOrder'
  BY <1>1 DEF LogInv, FilesInOrder, AppendLocked, writer
<1>5. Counted'
  BY <1>0, <1>1 DEF LogInv, TypeOK, Counted, AppendLocked, writer
<1> QED BY <1>1, <1>2, <1>3, <1>4, <1>5 DEF LogInv

LEMMA SyncLog ==
  ASSUME LogInv, Sync \/ Stop \/ ThreadCheck
  PROVE  LogInv'
<1>1. Gapless' /\ PiecesInOrder' /\ Durable' = Durable /\ Durable \in Nat
  BY NoWrite DEF Sync, Stop, ThreadCheck, writer
<1>2. TypeOK'
  BY DEF LogInv, TypeOK, Sync, Stop, ThreadCheck, Threads, buffer, writer, clients
<1>3. InOrder'
  BY <1>1 DEF LogInv, TypeOK, InOrder, Taken, Sync, Stop, ThreadCheck, buffer
<1>4. FilesInOrder'
  BY <1>1 DEF LogInv, FilesInOrder, Sync, Stop, ThreadCheck, writer
<1>5. Counted'
  BY <1>1 DEF LogInv, TypeOK, Counted, Sync, Stop, ThreadCheck, writer, clients, buffer
<1> QED BY <1>1, <1>2, <1>3, <1>4, <1>5 DEF LogInv

LEMMA OpenLog ==
  ASSUME LogInv, OpenFile
  PROVE  LogInv'
<1> DEFINE g == FileToOpen
<1>0. /\ log_files \subseteq FileNames /\ created \subseteq FileNames
      /\ FileNames \subseteq Int /\ g \in FileNames /\ PerFile \in Nat \ {0}
  BY FileNamesNat, SizesAssumption DEF LogInv, TypeOK, OpenFile
<1>1. Gapless' /\ PiecesInOrder' /\ Durable' = Durable /\ Durable \in Nat
  BY NoWrite DEF OpenFile
<1>2. TypeOK'
  <2>1. /\ log_files' \subseteq FileNames /\ created' \subseteq FileNames
        /\ fd' \in FileNames \cup {NoFile} /\ faults' \in Nat
        /\ rc' \in {"SUCCESS", "FILE_OPEN"} /\ thread' \in {"check", "flush"}
    <3> HIDE DEF g
    <3>1. log_files' = log_files \cup {g}
      BY DEF OpenFile, g
    <3>2. \/ fd' = g /\ created' = created \cup {g} /\ faults' = faults
             /\ rc' = "SUCCESS" /\ thread' = "flush"
          \/ fd' = NoFile /\ created' = created /\ faults' = faults + 1
             /\ rc' = "FILE_OPEN" /\ thread' = "check"
      BY DEF OpenFile, g
    <3>3. faults \in Nat
      BY DEF LogInv, TypeOK
    <3>4. g \in FileNames /\ log_files \subseteq FileNames /\ created \subseteq FileNames
      BY <1>0
    <3> QED BY ONLY <3>1, <3>2, <3>3, <3>4
  <2> QED BY <2>1 DEF LogInv, TypeOK, OpenFile, Threads, buffer, clients
<1>3. InOrder'
  BY <1>1 DEF LogInv, InOrder, Taken, OpenFile, buffer
<1>4. Counted'
  BY <1>1 DEF LogInv, Counted, OpenFile, clients
<1>5. g <= Durable + 1 /\ \A f \in log_files : f <= g
  <2>1. CASE log_files = {}
    <3>1. g = 0
      BY <2>1 DEF FileToOpen, NextFile
    <3> HIDE DEF g
    <3> QED BY <1>1, <2>1, <3>1
  <2>2. CASE log_files # {} /\ rc = "LOG_FILE_FULL"
    <3>1. g = fd + PerFile /\ fd + PerFile <= Durable + 1 /\ fd \in FileNames
          /\ \A f \in log_files : f <= fd
      BY <2>2, <1>0 DEF FileToOpen, NextFile, LogInv, TypeOK, FilesInOrder
    <3> HIDE DEF g
    <3> QED BY <1>0, <1>1, <3>1
  <2>3. CASE log_files # {} /\ rc # "LOG_FILE_FULL"
    BY <1>0, <1>1, <2>3 DEF FileToOpen, LogInv, FilesInOrder
  <2> QED BY <2>1, <2>2, <2>3
<1>6. log_files' = log_files \cup {g} /\ Max(log_files \cup {g}) = g
  <2> HIDE DEF g
  <2>1. log_files \cup {g} \subseteq Int /\ \A y \in log_files \cup {g} : y <= g
    BY <1>0, <1>5
  <2>2. Max(log_files \cup {g}) = g
    BY <2>1, MaxIs
  <2> QED BY <2>2 DEF OpenFile, g
<1>7. Max(created \cup {g}) = g
  <2> HIDE DEF g
  <2>1. created \cup {g} \subseteq Int /\ \A y \in created \cup {g} : y <= g
    BY <1>0, <1>5 DEF LogInv, FilesInOrder
  <2> QED BY <2>1, MaxIs
<1>8. FilesInOrder'
  <2>0. \/ fd' = g /\ created' = created \cup {g} /\ rc' = "SUCCESS"
        \/ fd' = NoFile /\ created' = created /\ rc' = "FILE_OPEN" /\ thread' = "check"
    BY DEF OpenFile
  <2> HIDE DEF g
  <2>1. \A f \in log_files \cup {g} : f \in Int /\ f <= g /\ f <= Durable + 1
    BY <1>0, <1>1, <1>5
  <2>2. created \subseteq log_files
    BY DEF LogInv, FilesInOrder
  <2>3. g # NoFile
    BY <1>0, FileNamesNat DEF NoFile
  <2>4. CASE fd' = g /\ created' = created \cup {g} /\ rc' = "SUCCESS"
    BY <1>1, <1>6, <1>7, <2>1, <2>2, <2>3, <2>4 DEF FilesInOrder
  <2>5. CASE fd' = NoFile /\ created' = created /\ rc' = "FILE_OPEN" /\ thread' = "check"
    BY <1>1, <1>6, <2>1, <2>2, <2>5 DEF LogInv, FilesInOrder
  <2> QED BY <2>0, <2>4, <2>5
<1> QED BY <1>1, <1>2, <1>3, <1>4, <1>8 DEF LogInv

LEMMA TakeLog ==
  ASSUME LogInv, TakeEntry
  PROVE  LogInv'
<1>1. Gapless' /\ PiecesInOrder' /\ Durable' = Durable /\ Durable \in Nat
  BY NoWrite DEF TakeEntry, writer
<1>2. FilesInOrder'
  BY <1>1 DEF LogInv, FilesInOrder, TakeEntry, writer
<1>3. Counted'
  BY <1>1 DEF LogInv, Counted, TakeEntry, writer, clients
<1>4. in_hand = 0 /\ Taken = 0
  BY DEF LogInv, InOrder, TakeEntry, Taken
<1>5. CASE entries = <<>>
  <2>1. TypeOK'
    BY <1>5 DEF LogInv, TypeOK, TakeEntry, Threads, writer, clients
  <2>2. InOrder'
    BY <1>1, <1>4, <1>5 DEF LogInv, InOrder, TakeEntry, Taken
  <2> QED BY <1>1, <1>2, <1>3, <2>1, <2>2 DEF LogInv
<1>6. CASE entries # <<>>
  <2>1. entries \in Seq(Nat \ {0}) /\ Len(entries) \in Nat \ {0} /\ Head(entries) = entries[1]
    BY <1>6 DEF LogInv, TypeOK
  <2>2. entries[1] = Durable + 1
    BY <1>1, <1>4, <2>1 DEF LogInv, InOrder
  <2>3. /\ Tail(entries) \in Seq(Nat \ {0}) /\ Len(Tail(entries)) = Len(entries) - 1
        /\ \A i \in 1..Len(Tail(entries)) : Tail(entries)[i] = entries[i + 1]
    BY <1>6, <2>1
  <2>4. in_hand' = Durable + 1 /\ entries' = Tail(entries) /\ thread' = "write" /\ thread # "failed"
    BY <1>6, <2>1, <2>2 DEF TakeEntry
  <2>5. TypeOK'
    BY <1>1, <1>6, <2>3, <2>4, SizesAssumption DEF LogInv, TypeOK, TakeEntry, Threads, EntrySize, writer, clients
  <2>6. InOrder'
    <3>1. Taken' = 1
      BY <1>1, <2>4 DEF Taken
    <3>2. current_lsn' = current_lsn /\ current_lsn \in Nat
      BY DEF TakeEntry, LogInv, TypeOK
    <3>3. Len(entries') = current_lsn - Durable - 1
      BY <1>1, <1>4, <2>1, <2>3, <2>4, <3>2 DEF LogInv, InOrder
    <3>4. \A i \in 1..Len(entries') : entries'[i] = Durable + 1 + i
      BY <1>1, <1>4, <2>1, <2>3, <2>4 DEF LogInv, InOrder
    <3> QED BY <1>1, <2>4, <3>1, <3>2, <3>3, <3>4 DEF InOrder
  <2> QED BY <1>1, <1>2, <1>3, <2>5, <2>6 DEF LogInv
<1> QED BY <1>5, <1>6

(* Where the thread is about to write.                                      *)
LEMMA AtWrite ==
  ASSUME LogInv, thread = "write"
  PROVE  /\ in_hand = Durable + 1 /\ Durable \in Nat
         /\ fd \in FileNames /\ fd \in Int /\ fd \in created /\ fd = Max(log_files)
         /\ Len(entries) = current_lsn - Durable - 1
         /\ \A i \in 1..Len(entries) : entries[i] = Durable + 1 + i
<1>1. in_hand = Durable + 1 /\ Durable \in Nat /\ Taken = 1
  BY DEF LogInv, InOrder, Gapless, Taken
<1>2. fd \in FileNames /\ fd \in created /\ fd = Max(log_files) /\ fd \in Int
  BY FileNamesNat DEF LogInv, TypeOK, FilesInOrder
<1> QED BY <1>1, <1>2 DEF LogInv, InOrder

LEMMA WriteLog ==
  ASSUME LogInv, WriteEntry
  PROVE  LogInv' /\ Durable' = Durable + 1
<1>0. thread = "write" /\ in_hand <= fd + PerFile - 1
  BY AtWrite, SizesAssumption DEF WriteEntry, Refusal, EndLsn
<1>1. /\ in_hand = Durable + 1 /\ Durable \in Nat
      /\ fd \in FileNames /\ fd \in Int /\ fd \in created /\ fd = Max(log_files)
      /\ Len(entries) = current_lsn - Durable - 1
      /\ \A i \in 1..Len(entries) : entries[i] = Durable + 1 + i
  BY <1>0, AtWrite
<1>2. /\ disk' \in [FileNames -> Seq(Piece)]
      /\ Len(disk'[fd]) = Len(disk[fd]) + 1
      /\ \A i \in 1..Len(disk[fd]) : disk'[fd][i] = disk[fd][i]
      /\ disk'[fd][Len(disk[fd]) + 1].lsn = in_hand
      /\ disk'[fd][Len(disk[fd]) + 1].part = "whole"
      /\ \A f \in FileNames \ {fd} : disk'[f] = disk[f]
      /\ OnDisk' = OnDisk \cup {in_hand}
  BY <1>1, Written DEF LogInv, WriteEntry
<1>3. OnDisk' = 1..(Durable + 1)
  BY <1>1, <1>2 DEF LogInv, Gapless
<1>4. Durable' = Durable + 1
  <2>1. Max(OnDisk' \cup {0}) = Durable + 1
    BY <1>1, <1>3, MaxUpTo
  <2> QED BY <2>1 DEF Durable
<1>5. Gapless'
  BY <1>1, <1>3, <1>4 DEF Gapless
<1>6. TypeOK'
  BY <1>1, <1>2 DEF LogInv, TypeOK, WriteEntry, Threads, buffer, clients
<1>7. InOrder'
  <2>1. /\ in_hand' = 0 /\ thread' = "flush" /\ entries' = entries
        /\ current_lsn' = current_lsn /\ current_lsn \in Nat
    BY DEF WriteEntry, buffer, LogInv, TypeOK
  <2>2. Taken' = 0
    BY <2>1 DEF Taken
  <2> HIDE DEF Durable
  <2> QED BY <1>1, <1>4, <2>1, <2>2 DEF InOrder
<1>8. Counted'
  BY <1>0, <1>1, <1>4 DEF LogInv, TypeOK, Counted, WriteEntry, clients
<1>9. FilesInOrder'
  <2>1. \A f \in log_files : f \in Int
    BY FileNamesNat DEF LogInv, TypeOK
  <2> QED BY <1>0, <1>1, <1>4, <2>1, SizesAssumption DEF LogInv, FilesInOrder, WriteEntry
<1>10. PiecesInOrder'
  <2> SUFFICES ASSUME NEW f \in FileNames
               PROVE  /\ Len(disk'[f]) > 0 => f \in created'
                      /\ \A i \in WholeAt(disk', f) : disk'[f][i].lsn <= f + PerFile - 1
                      /\ \A i, j \in WholeAt(disk', f) : i < j => disk'[f][i].lsn < disk'[f][j].lsn
    BY DEF PiecesInOrder, WholeAt
  <2>1. created' = created
    BY DEF WriteEntry
  <2>2. CASE f # fd
    BY <2>1, <2>2, <1>2 DEF LogInv, PiecesInOrder, WholeAt
  <2>3. CASE f = fd
    <3>1. Len(disk[fd]) \in Nat
      BY <1>1 DEF LogInv, TypeOK
    <3> DEFINE n == Len(disk[fd]) + 1
    <3>2. n \in Nat \ {0} /\ WholeAt(disk', fd) = WholeAt(disk, fd) \cup {n} /\ WholeAt(disk, fd) \subseteq 1..(n - 1)
      BY SMTT(20), <3>1, <1>2 DEF WholeAt
    <3>3. \A i \in WholeAt(disk, fd) : disk'[fd][i].lsn = disk[fd][i].lsn /\ disk[fd][i].lsn \in 1..Durable
      <4> SUFFICES ASSUME NEW i \in WholeAt(disk, fd)
                   PROVE  disk'[fd][i].lsn = disk[fd][i].lsn /\ disk[fd][i].lsn \in 1..Durable
        OBVIOUS
      <4>1. i \in 1..Len(disk[fd]) /\ disk[fd][i].part = "whole"
        BY DEF WholeAt
      <4>2. disk[fd][i].lsn \in OnDisk
        BY <4>1, <1>1, OnDiskElem
      <4> QED BY <4>1, <4>2, <1>2 DEF LogInv, Gapless
    <3>4. disk'[fd][n].lsn = Durable + 1
      BY <1>1, <1>2
    <3> HIDE DEF n
    <3>5. \A i \in WholeAt(disk', fd) : disk'[fd][i].lsn <= fd + PerFile - 1
      BY <1>0, <1>1, <3>2, <3>3, <3>4 DEF LogInv, PiecesInOrder
    <3>6. ASSUME NEW i \in WholeAt(disk', fd), NEW j \in WholeAt(disk', fd), i < j
          PROVE  disk'[fd][i].lsn < disk'[fd][j].lsn
      <4>1. i \in WholeAt(disk, fd)
        BY <3>2, <3>6
      <4>2. CASE j = n
        BY <4>1, <4>2, <3>3, <3>4, <1>1
      <4>3. CASE j \in WholeAt(disk, fd)
        BY <4>1, <4>3, <3>3, <3>6, <1>1 DEF LogInv, PiecesInOrder
      <4> QED BY <4>2, <4>3, <3>2
    <3> QED BY <2>1, <2>3, <1>1, <3>5, <3>6
  <2> QED BY <2>2, <2>3
<1> QED BY <1>4, <1>5, <1>6, <1>7, <1>8, <1>9, <1>10 DEF LogInv

(* What a write that was cut short leaves changes no whole entry.           *)
LEMMA RemnantKeeps ==
  ASSUME LogInv, thread = "write", NEW p \in {"none", "header", "payload"}, disk' = Remnant(p)
  PROVE  /\ disk' \in [FileNames -> Seq(Piece)]
         /\ OnDisk' = OnDisk /\ Durable' = Durable
         /\ created' = created => Gapless' /\ PiecesInOrder'
<1>1. fd \in FileNames /\ fd \in created /\ in_hand = Durable + 1 /\ Durable \in Nat
  BY AtWrite
<1>2. CASE p = "none"
  <2>1. disk' = disk
    BY <1>2 DEF Remnant
  <2> QED BY <2>1, SameDisk, NoWrite DEF LogInv, TypeOK
<1>3. CASE p # "none"
  <2>1. disk' = [disk EXCEPT ![fd] = Append(@, [lsn |-> in_hand, part |-> p])]
    BY <1>3 DEF Remnant
  <2>2. /\ disk' \in [FileNames -> Seq(Piece)]
        /\ Len(disk'[fd]) = Len(disk[fd]) + 1
        /\ \A i \in 1..Len(disk[fd]) : disk'[fd][i] = disk[fd][i]
        /\ disk'[fd][Len(disk[fd]) + 1].part = p
        /\ \A f \in FileNames \ {fd} : disk'[f] = disk[f]
        /\ OnDisk' = IF p = "whole" THEN OnDisk \cup {in_hand} ELSE OnDisk
    BY <1>1, <1>3, <2>1, Written DEF LogInv
  <2>3. OnDisk' = OnDisk
    BY <2>2
  <2>4. Durable' = Durable
    BY <2>3 DEF Durable
  <2>5. \A f \in FileNames : Len(disk[f]) \in Nat
    BY DEF LogInv, TypeOK
  <2>6. \A f \in FileNames : WholeAt(disk', f) = WholeAt(disk, f)
                             /\ \A i \in WholeAt(disk, f) : disk'[f][i] = disk[f][i]
    BY <2>2, <2>5 DEF WholeAt
  <2>7. ASSUME created' = created PROVE PiecesInOrder'
    <3> SUFFICES ASSUME NEW f \in FileNames
                 PROVE  /\ Len(disk'[f]) > 0 => f \in created'
                        /\ \A i \in WholeAt(disk', f) : disk'[f][i].lsn <= f + PerFile - 1
                        /\ \A i, j \in WholeAt(disk', f) : i < j => disk'[f][i].lsn < disk'[f][j].lsn
      BY DEF PiecesInOrder, WholeAt
    <3>1. Len(disk'[f]) > 0 => f \in created'
      BY <1>1, <2>2, <2>7 DEF LogInv, PiecesInOrder
    <3> QED BY <2>6, <3>1 DEF LogInv, PiecesInOrder
  <2> QED BY <2>2, <2>3, <2>4, <2>7 DEF LogInv, Gapless
<1> QED BY <1>2, <1>3

(* An entry that is put back goes where it was taken from.                  *)
LEMMA PutBackOrder ==
  ASSUME LogInv, thread = "write", PutBack, Durable' = Durable, current_lsn' = current_lsn
  PROVE  InOrder' /\ entries' \in Seq(Nat \ {0})
<1>1. /\ in_hand = Durable + 1 /\ Durable \in Nat
      /\ Len(entries) = current_lsn - Durable - 1
      /\ \A i \in 1..Len(entries) : entries[i] = Durable + 1 + i
  BY AtWrite
<1>2. entries \in Seq(Nat \ {0}) /\ <<in_hand>> \in Seq(Nat \ {0}) /\ Len(<<in_hand>>) = 1
      /\ Len(entries) \in Nat /\ current_lsn \in Nat
  BY <1>1 DEF LogInv, TypeOK
<1>3. /\ entries' \in Seq(Nat \ {0})
      /\ Len(entries') = Len(entries) + 1
      /\ \A i \in 1..Len(entries') : entries'[i] = IF i = 1 THEN in_hand ELSE entries[i - 1]
  BY <1>2 DEF PutBack
<1>4. in_hand' = 0 /\ Taken' = 0 /\ thread' = "check"
  BY DEF PutBack, Taken
<1>5. Len(entries') = current_lsn - Durable
  BY <1>1, <1>2, <1>3
<1>6. ASSUME NEW i \in 1..Len(entries') PROVE entries'[i] = Durable + i
  <2>1. CASE i = 1
    BY <1>1, <1>3, <2>1
  <2>2. CASE i # 1
    <3>1. i - 1 \in 1..Len(entries)
      BY <1>2, <1>3, <2>2
    <3>2. entries[i - 1] = Durable + 1 + (i - 1)
      BY <1>1, <3>1
    <3> QED BY <1>1, <1>3, <2>2, <3>1, <3>2
  <2> QED BY <2>1, <2>2
<1> QED BY <1>1, <1>2, <1>3, <1>4, <1>5, <1>6 DEF InOrder

LEMMA RefusedLog ==
  ASSUME LogInv, WriteRefused
  PROVE  LogInv' /\ Durable' = Durable
<1>0. /\ thread = "write" /\ in_hand = Durable + 1 /\ Durable \in Nat
      /\ fd \in FileNames /\ fd \in Int /\ fd \in created /\ fd = Max(log_files)
  BY AtWrite DEF WriteRefused
<1>1. Gapless' /\ PiecesInOrder' /\ Durable' = Durable
  BY NoWrite DEF WriteRefused, writer
<1>2. InOrder' /\ entries' \in Seq(Nat \ {0})
  BY <1>0, <1>1, PutBackOrder DEF WriteRefused
<1>3. rc' = "LOG_FILE_FULL" /\ fd + PerFile <= Durable + 1 /\ fd # NoFile
  BY <1>0, SizesAssumption, FileNamesNat DEF WriteRefused, Refusal, EndLsn, LogInv, Counted, TypeOK, NoFile
<1>4. TypeOK'
  BY <1>2, <1>3 DEF LogInv, TypeOK, WriteRefused, PutBack, Threads, writer, clients
<1>5. Counted'
  BY <1>1 DEF LogInv, Counted, WriteRefused, PutBack, writer, clients
<1>6. FilesInOrder'
  BY <1>1, <1>3 DEF LogInv, FilesInOrder, WriteRefused, PutBack, writer
<1> QED BY <1>1, <1>2, <1>4, <1>5, <1>6 DEF LogInv

LEMMA FailedLog ==
  ASSUME LogInv, WriteFailed
  PROVE  LogInv' /\ Durable' = Durable
<1>0. thread = "write" /\ created' = created
  BY DEF WriteFailed, writer
<1>1. PICK p \in {"none", "header", "payload"} : disk' = Remnant(p)
  BY DEF WriteFailed
<1>2. disk' \in [FileNames -> Seq(Piece)] /\ Durable' = Durable /\ Gapless' /\ PiecesInOrder'
  BY <1>0, <1>1, RemnantKeeps
<1>3. InOrder' /\ entries' \in Seq(Nat \ {0})
  BY <1>0, <1>2, PutBackOrder DEF WriteFailed
<1>4. TypeOK'
  BY <1>2, <1>3 DEF LogInv, TypeOK, WriteFailed, PutBack, Threads, writer, clients
<1>5. Counted'
  BY <1>2 DEF LogInv, Counted, WriteFailed, PutBack, writer, clients
<1>6. FilesInOrder'
  BY <1>2 DEF LogInv, FilesInOrder, WriteFailed, PutBack, writer
<1> QED BY <1>2, <1>3, <1>4, <1>5, <1>6 DEF LogInv

-----------------------------------------------------------------------------
(* A restart starts from exactly the durable entries, or fails.             *)
LEMMA RecoverLog ==
  ASSUME LogInv, NEW d \in {disk} \cup {Remnant(p) : p \in {"header", "payload"}},
         d = disk \/ thread = "write", Recover(d)
  PROVE  /\ LogInv' /\ Durable' = Durable
         /\ \/ /\ current_lsn' = Durable /\ flushed_lsn' = Durable
               /\ replayed' = {l \in 1..Durable : l >= check_point}
            \/ replayed' = {} /\ current_lsn' = current_lsn /\ flushed_lsn' = flushed_lsn
<1> DEFINE read == UNION {FilePart(d, f, check_point) : f \in ReplayFiles(check_point)}
<1>1. disk' = d /\ created' = created /\ check_point' = check_point /\ acked' = acked /\ faults' = faults
  BY DEF Recover
<1>2. disk' \in [FileNames -> Seq(Piece)] /\ Durable' = Durable /\ Gapless' /\ PiecesInOrder' /\ OnDisk' = OnDisk
  <2>1. CASE d = disk
    BY <2>1, <1>1, NoWrite DEF LogInv, TypeOK
  <2>2. CASE d # disk
    <3>1. PICK p \in {"header", "payload"} : d = Remnant(p)
      BY <2>2
    <3> QED BY <2>2, <3>1, <1>1, RemnantKeeps
  <2> QED BY <2>1, <2>2
<1>3. Durable \in Nat /\ OnDisk = 1..Durable /\ check_point \in Nat /\ check_point <= Durable
      /\ created \subseteq FileNames
  BY DEF LogInv, Gapless, Counted, TypeOK
<1>4. read = {l \in 1..Durable : l >= check_point}
  <2>1. \A x : x \in 1..Durable <=> \E f \in FileNames : \E i \in 1..Len(d[f]) :
                                      d[f][i].part = "whole" /\ x = d[f][i].lsn
    BY <1>1, <1>2, <1>3, OnDiskElemPrime
  <2>2. \A f \in FileNames :
           /\ Len(d[f]) > 0 => f \in created
           /\ \A i \in WholeAt(d, f) : d[f][i].lsn <= f + PerFile - 1
           /\ \A i, j \in WholeAt(d, f) : i < j => d[f][i].lsn < d[f][j].lsn
    BY <1>1, <1>2 DEF PiecesInOrder, WholeAt
  <2>3. d \in [FileNames -> Seq(Piece)]
    BY <1>1, <1>2
  <2> HIDE DEF read
  <2> QED BY <1>3, <2>1, <2>2, <2>3, ReplayReads DEF read
<1>5. Max(read \cup {0}) = Durable
  <2> HIDE DEF read
  <2>1. read \cup {0} \subseteq Int /\ \A y \in read \cup {0} : y <= Durable
    BY <1>3, <1>4
  <2>2. Durable \in read \cup {0}
    BY <1>3, <1>4
  <2> QED BY <2>1, <2>2, MaxIs
<1>6. \/ /\ thread' = "check" /\ running' = TRUE /\ replayed' = read
         /\ current_lsn' = Durable /\ flushed_lsn' = Durable
      \/ /\ thread' = "failed" /\ running' = FALSE /\ replayed' = {}
         /\ current_lsn' = current_lsn /\ flushed_lsn' = flushed_lsn
  BY <1>5 DEF Recover
<1> HIDE DEF read
<1>7. read \subseteq Nat
  BY <1>3, <1>4
<1>8. TypeOK'
  <2>1. /\ entries' = <<>> /\ bytes' = 0 /\ in_hand' = 0 /\ fd' = NoFile /\ last_lsn' = 0
        /\ rc' = "SUCCESS" /\ log_files' = created /\ restarts' = restarts + 1
        /\ client' = [c \in Clients |-> "idle"] /\ client_lsn' = [c \in Clients |-> 0]
    BY DEF Recover
  <2>2. thread' \in Threads /\ running' \in BOOLEAN /\ current_lsn' \in Nat /\ flushed_lsn' \in Nat
        /\ replayed' \subseteq Nat
    BY <1>3, <1>6, <1>7 DEF Threads, LogInv, TypeOK
  <2> QED BY <1>1, <1>2, <2>1, <2>2 DEF LogInv, TypeOK
<1>9. InOrder'
  <2>1. Taken' = 0 /\ entries' = <<>> /\ in_hand' = 0 /\ thread' # "write"
    BY <1>6 DEF Taken, Recover
  <2> QED BY <1>2, <1>3, <1>6, <2>1 DEF InOrder
<1>10. Counted'
  <2>1. last_lsn' = 0 /\ \A c \in Clients : client'[c] = "idle"
    BY DEF Recover
  <2> QED BY <1>1, <1>2, <1>3, <1>6, <2>1 DEF LogInv, Counted, TypeOK
<1>11. FilesInOrder'
  <2>1. fd' = NoFile /\ rc' = "SUCCESS" /\ log_files' = created
    BY DEF Recover
  <2>2. thread' \notin {"flush", "write"}
    BY <1>6
  <2> QED BY <1>1, <1>2, <2>1, <2>2 DEF LogInv, FilesInOrder
<1> QED BY <1>2, <1>4, <1>6, <1>8, <1>9, <1>10, <1>11 DEF LogInv

LEMMA RestartLog ==
  ASSUME LogInv, CleanRestart \/ CrashRestart
  PROVE  /\ LogInv' /\ Durable' = Durable /\ check_point' = check_point /\ acked' = acked
         /\ \/ /\ current_lsn' = Durable /\ flushed_lsn' = Durable
               /\ replayed' = {l \in 1..Durable : l >= check_point}
            \/ replayed' = {} /\ current_lsn' = current_lsn /\ flushed_lsn' = flushed_lsn
<1>1. PICK d \in {disk} \cup {Remnant(p) : p \in {"header", "payload"}} :
        (d = disk \/ thread = "write") /\ Recover(d)
  BY DEF CleanRestart, CrashRestart
<1>2. check_point' = check_point /\ acked' = acked
  BY <1>1 DEF Recover
<1> QED BY <1>1, <1>2, RecoverLog

LEMMA StepLog == LogInv /\ [Next]_vars => LogInv'
<1> SUFFICES ASSUME LogInv, [Next]_vars PROVE LogInv'
  OBVIOUS
<1>1. CASE UNCHANGED vars
  <2>1. Gapless' /\ PiecesInOrder' /\ Durable' = Durable
    BY <1>1, NoWrite DEF vars, writer
  <2>2. TypeOK'
    BY <1>1 DEF LogInv, TypeOK, vars, buffer, writer, clients
  <2>3. InOrder' /\ Counted' /\ FilesInOrder'
    BY <1>1, <2>1 DEF LogInv, InOrder, Taken, Counted, FilesInOrder, vars, buffer, writer, clients
  <2> QED BY <2>1, <2>2, <2>3 DEF LogInv
<1>2. ASSUME NEW c \in Clients, AppendCheck(c) \/ NoWait(c) \/ WaitLsn(c) \/ ClientStep(c)
      PROVE  LogInv'
  BY <1>2, ClientLog, AppendLog DEF ClientStep
<1>3. CASE Sync \/ Stop
  BY <1>3, SyncLog
<1>4. CASE ThreadStep
  BY <1>4, SyncLog, OpenLog, TakeLog, WriteLog, RefusedLog, FailedLog DEF ThreadStep
<1>5. CASE CleanRestart \/ CrashRestart
  BY <1>5, RestartLog
<1> QED BY <1>1, <1>2, <1>3, <1>4, <1>5 DEF Next

(* The inductive invariant holds: whatever the clients, the log thread,     *)
(* failures and crashes do, the files hold 1..n without a gap and the rest  *)
(* of what was appended stands in order before the thread.                  *)
THEOREM LogInvariant == Spec => []LogInv
<1> QED BY InitLog, StepLog, PTL DEF Spec

-----------------------------------------------------------------------------
(* Every step is a step of the abstract log, or none.                       *)
LEMMA StepRefines == LogInv /\ [Next]_vars => [DL!DLNext]_(DL!dlvars)
<1> SUFFICES ASSUME LogInv, [Next]_vars PROVE [DL!DLNext]_(DL!dlvars)
  OBVIOUS
<1> USE DEF DL!dlvars
<1>0. Durable \in Nat /\ acked \in Nat /\ flushed_lsn \in Nat /\ acked <= flushed_lsn /\ flushed_lsn <= Durable
      /\ current_lsn \in Nat
  BY DEF LogInv, Gapless, Counted, TypeOK
<1>1. CASE UNCHANGED vars
  <2>1. Durable' = Durable
    BY <1>1, SameDisk DEF vars
  <2> QED BY <1>1, <2>1 DEF vars, buffer, clients
<1>2. ASSUME NEW c \in Clients, AppendCheck(c) \/ NoWait(c) \/ WaitLsn(c)
      PROVE  UNCHANGED DL!dlvars
  <2>1. Durable' = Durable
    BY <1>2, SameDisk DEF AppendCheck, NoWait, WaitLsn
  <2> QED BY <1>2, <2>1 DEF AppendCheck, NoWait, WaitLsn, buffer
<1>3. ASSUME NEW c \in Clients, AppendLocked(c)
      PROVE  DL!AppendEntry
  <2>1. Durable' = Durable
    BY <1>3, SameDisk DEF AppendLocked
  <2> QED BY <1>3, <2>1 DEF AppendLocked, DL!AppendEntry
<1>4. ASSUME NEW c \in Clients, WaitReturn(c)
      PROVE  DL!Confirm
  <2>1. Durable' = Durable
    BY <1>4, SameDisk DEF WaitReturn
  <2>2. client_lsn[c] \in Nat
    BY DEF LogInv, TypeOK
  <2>3. acked' \in acked..flushed_lsn
    BY <1>0, <1>4, <2>2 DEF WaitReturn
  <2> QED BY <1>4, <2>1, <2>3 DEF WaitReturn, buffer, DL!Confirm
<1>5. CASE Sync
  <2>1. Durable' = Durable
    BY <1>5, SameDisk DEF Sync
  <2> QED BY <1>5, <2>1 DEF Sync, buffer, clients, DL!DLNext, DL!Checkpoint
<1>6. CASE Stop \/ ThreadCheck \/ OpenFile \/ TakeEntry
  <2>1. Durable' = Durable
    BY <1>6, SameDisk DEF Stop, ThreadCheck, OpenFile, TakeEntry
  <2> QED BY <1>6, <2>1 DEF Stop, ThreadCheck, OpenFile, TakeEntry, buffer, clients
<1>7. CASE WriteEntry
  <2>1. Durable' = Durable + 1
    BY <1>7, WriteLog
  <2>2. thread = "write"
    BY <1>7 DEF WriteEntry
  <2>3. in_hand = Durable + 1 /\ Len(entries) = current_lsn - Durable - 1 /\ Len(entries) \in Nat
    BY <2>2, AtWrite DEF LogInv, TypeOK
  <2>4. Durable < current_lsn
    BY <1>0, <2>3
  <2>5. flushed_lsn' = Durable + 1
    BY <1>7, <2>3 DEF WriteEntry
  <2>6. current_lsn' = current_lsn /\ acked' = acked /\ check_point' = check_point /\ replayed' = replayed
    BY <1>7 DEF WriteEntry, buffer, clients
  <2> QED BY <2>1, <2>4, <2>5, <2>6 DEF DL!DLNext, DL!Persist
<1>8. CASE WriteRefused
  <2>1. Durable' = Durable
    BY <1>8, RefusedLog
  <2> QED BY <1>8, <2>1 DEF WriteRefused, clients
<1>9. CASE WriteFailed
  <2>1. Durable' = Durable
    BY <1>9, FailedLog
  <2> QED BY <1>9, <2>1 DEF WriteFailed, clients
<1>10. CASE CleanRestart \/ CrashRestart
  BY <1>10, RestartLog DEF DL!DLNext, DL!Restart, DL!RestartFails
<1> QED BY <1>1, <1>2, <1>3, <1>4, <1>5, <1>6, <1>7, <1>8, <1>9, <1>10
        DEF Next, ClientStep, ThreadStep, DL!DLNext

(* Buffer, thread, files and replay implement the durable log that          *)
(* log_handler.h promises, for any number of clients, files of any length   *)
(* and any number of failures and restarts.                                 *)
THEOREM Implements == Spec => ImplementsDurableLog
<1>1. Init => DL!DLInit
  <2> SUFFICES ASSUME Init PROVE DL!DLInit
    OBVIOUS
  <2>1. OnDisk = {}
    BY OnDiskElem DEF Init
  <2>2. Durable = 0
    <3>1. 1..0 = {}
      OBVIOUS
    <3> QED BY <2>1, <3>1, MaxUpTo DEF Durable
  <2> QED BY <2>2 DEF Init, DL!DLInit
<1>2. QED BY <1>1, StepRefines, LogInvariant, PTL DEF Spec, ImplementsDurableLog, DL!DLSpec

(* When the log thread has ended after stop, all that was appended is in    *)
(* the files (thread_func leaves its loop only with an empty buffer).       *)
THEOREM StopLosesNothing == Spec => StopDrains
<1>1. LogInv /\ [Next]_vars => [thread # "done" /\ thread' = "done" => Durable = current_lsn]_vars
  <2> SUFFICES ASSUME LogInv, Next, thread # "done", thread' = "done" PROVE Durable = current_lsn
    OBVIOUS
  <2>1. ThreadCheck
    BY DEF Next, AppendCheck, NoWait, WaitLsn, ClientStep, AppendLocked, WaitReturn, Sync, Stop,
           ThreadStep, OpenFile, TakeEntry, WriteEntry, WriteRefused, WriteFailed, PutBack,
           CleanRestart, CrashRestart, Recover
  <2>2. entries = <<>> /\ thread = "check"
    BY <2>1 DEF ThreadCheck
  <2>3. in_hand = 0 /\ Taken = 0 /\ Len(entries) = current_lsn - Durable - Taken
    BY <2>2 DEF LogInv, InOrder, Taken
  <2>4. current_lsn \in Nat /\ Durable \in Nat
    BY DEF LogInv, TypeOK, Gapless
  <2> QED BY <2>2, <2>3, <2>4
<1> QED BY <1>1, LogInvariant, PTL DEF Spec, StopDrains
=============================================================================
