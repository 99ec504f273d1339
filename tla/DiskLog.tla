------------------------------ MODULE DiskLog ------------------------------
(***************************************************************************)
(* The commit log of MiniOB (src/observer/storage/clog): the buffer of     *)
(* entries (LogEntryBuffer), the thread that writes it to a series of      *)
(* files (DiskLogHandler::thread_func, LogFileWriter, LogFileManager), the *)
(* callers of append and wait_lsn, stop, crashes, and the replay that a    *)
(* restart performs.                                                       *)
(*                                                                         *)
(* A log entry is its LSN.  Of its bytes the model keeps the two sizes     *)
(* that the buffer's accounting uses.  A file is named after the first LSN *)
(* of its range and holds the pieces written to it, in order: a whole      *)
(* entry, or what a failed or interrupted write left of one.               *)
(***************************************************************************)
EXTENDS Integers, Sequences, FiniteSetsExt

CONSTANTS
  Clients,      \* threads that append and wait
  PerFile,      \* max_entry_number_per_file (1000 in the code)
  HeaderSize,   \* LogHeader::SIZE
  PayloadSize,  \* payload of an entry
  MaxBytes,     \* LogEntryBuffer::max_bytes_
  LsnBound,     \* bound: entries appended
  FaultBound,   \* bound: failed opens and writes
  RestartBound  \* bound: restarts

ASSUME SizesAssumption ==
  /\ PerFile \in Nat \ {0}
  /\ HeaderSize \in Nat /\ PayloadSize \in Nat /\ MaxBytes \in Nat
ASSUME BoundsAssumption ==
  LsnBound \in Nat /\ FaultBound \in Nat /\ RestartBound \in Nat

FileNames == {k * PerFile : k \in 0..LsnBound}
NoFile    == -1

VARIABLES
  entries,      \* LogEntryBuffer::entries_, the LSNs in the buffer
  bytes,        \* LogEntryBuffer::bytes_
  current_lsn,  \* LogEntryBuffer::current_lsn_
  flushed_lsn,  \* LogEntryBuffer::flushed_lsn_
  running,      \* DiskLogHandler::running_
  thread,       \* where the log thread is
  rc,           \* thread_func's variable rc
  in_hand,      \* the entry flush has taken from the buffer, or 0
  fd,           \* the file the LogFileWriter has open, or NoFile
  last_lsn,     \* LogFileWriter::last_lsn_
  log_files,    \* keys of LogFileManager::log_files_
  disk,         \* what each file holds; log files not yet created are empty
  created,      \* the files that exist
  check_point,  \* the LSN that Db::sync has stored
  client,       \* what each client thread is doing
  client_lsn,   \* the LSN its append returned
  acked,        \* the largest LSN for which wait_lsn returned SUCCESS
  replayed,     \* the LSNs the last replay handed to the replayer
  faults, restarts

buffer  == <<entries, bytes, current_lsn>>
writer  == <<fd, last_lsn, log_files, created>>
clients == <<client, client_lsn, acked>>
vars == <<buffer, flushed_lsn, running, thread, rc, in_hand, writer, disk,
          check_point, clients, replayed, faults, restarts>>

Lsns    == 1..LsnBound
Piece   == [lsn : Nat, part : {"whole", "header", "payload"}]
Threads == {"check", "open", "flush", "write", "done", "failed"}

TypeOK ==
  /\ entries \in Seq(Nat \ {0})
  /\ bytes \in Int
  /\ current_lsn \in Nat
  /\ flushed_lsn \in Nat
  /\ running \in BOOLEAN
  /\ thread \in Threads
  /\ rc \in {"SUCCESS", "LOG_FILE_FULL", "FILE_OPEN", "IOERR_WRITE", "INVALID_ARGUMENT"}
  /\ in_hand \in Nat
  /\ fd \in FileNames \cup {NoFile}
  /\ last_lsn \in Nat
  /\ log_files \subseteq FileNames
  /\ created \subseteq FileNames
  /\ disk \in [FileNames -> Seq(Piece)]
  /\ check_point \in Nat
  /\ client \in [Clients -> {"idle", "append", "appended", "wait"}]
  /\ client_lsn \in [Clients -> Nat]
  /\ acked \in Nat
  /\ replayed \subseteq Nat
  /\ faults \in Nat /\ restarts \in Nat

Init ==
  /\ entries = <<>> /\ bytes = 0 /\ current_lsn = 0 /\ flushed_lsn = 0
  /\ running = TRUE /\ thread = "check" /\ rc = "SUCCESS" /\ in_hand = 0
  /\ fd = NoFile /\ last_lsn = 0
  /\ log_files = {} /\ created = {}
  /\ disk = [f \in FileNames |-> <<>>]
  /\ check_point = 0
  /\ client = [c \in Clients |-> "idle"]
  /\ client_lsn = [c \in Clients |-> 0]
  /\ acked = 0 /\ replayed = {}
  /\ faults = 0 /\ restarts = 0

-----------------------------------------------------------------------------
(* Client threads.  append tests the size of the buffer without the lock.  *)
AppendCheck(c) ==
  /\ client[c] = "idle" /\ thread # "failed"
  /\ current_lsn < LsnBound
  /\ bytes < MaxBytes
  /\ client' = [client EXCEPT ![c] = "append"]
  /\ UNCHANGED <<buffer, flushed_lsn, running, thread, rc, in_hand, writer, disk,
                 check_point, client_lsn, acked, replayed, faults, restarts>>

(* The size added to bytes_ is read from the entry after it was moved into  *)
(* the buffer, which left it with an empty payload: only the header counts. *)
AddedSize == HeaderSize
EntrySize == HeaderSize + PayloadSize

AppendLocked(c) ==
  /\ client[c] = "append"
  /\ current_lsn < LsnBound
  /\ current_lsn' = current_lsn + 1
  /\ entries' = Append(entries, current_lsn + 1)
  /\ bytes' = bytes + AddedSize
  /\ client' = [client EXCEPT ![c] = "appended"]
  /\ client_lsn' = [client_lsn EXCEPT ![c] = current_lsn + 1]
  /\ UNCHANGED <<flushed_lsn, running, thread, rc, in_hand, writer, disk,
                 check_point, acked, replayed, faults, restarts>>

(* The caller goes on, or waits for its entry (as commit does).            *)
NoWait(c) ==
  /\ client[c] = "appended"
  /\ client' = [client EXCEPT ![c] = "idle"]
  /\ UNCHANGED <<buffer, flushed_lsn, running, thread, rc, in_hand, writer, disk,
                 check_point, client_lsn, acked, replayed, faults, restarts>>

WaitLsn(c) ==
  /\ client[c] = "appended"
  /\ client' = [client EXCEPT ![c] = "wait"]
  /\ UNCHANGED <<buffer, flushed_lsn, running, thread, rc, in_hand, writer, disk,
                 check_point, client_lsn, acked, replayed, faults, restarts>>

(* Plausible bug: wait_lsn does not look again after stop.                  *)
WaitReturnUnchecked(c) ==
  /\ client[c] = "wait"
  /\ flushed_lsn >= client_lsn[c] \/ ~ running
  /\ acked' = IF client_lsn[c] > acked THEN client_lsn[c] ELSE acked
  /\ client' = [client EXCEPT ![c] = "idle"]
  /\ UNCHANGED <<buffer, flushed_lsn, running, thread, rc, in_hand, writer, disk,
                 check_point, client_lsn, replayed, faults, restarts>>

(* wait_lsn polls; after stop it gives up with INTERNAL.                   *)
WaitReturn(c) ==
  /\ client[c] = "wait"
  /\ \/ /\ flushed_lsn >= client_lsn[c]
        /\ acked' = IF client_lsn[c] > acked THEN client_lsn[c] ELSE acked
     \/ /\ flushed_lsn < client_lsn[c] /\ ~ running
        /\ UNCHANGED acked
  /\ client' = [client EXCEPT ![c] = "idle"]
  /\ UNCHANGED <<buffer, flushed_lsn, running, thread, rc, in_hand, writer, disk,
                 check_point, client_lsn, replayed, faults, restarts>>

(* The end of Db::sync: with nobody else active, wait for the last entry    *)
(* and store its LSN as the checkpoint.                                     *)
Sync ==
  /\ \A c \in Clients : client[c] = "idle"
  /\ thread # "failed"
  /\ flushed_lsn = current_lsn /\ check_point # current_lsn
  /\ check_point' = current_lsn
  /\ UNCHANGED <<buffer, flushed_lsn, running, thread, rc, in_hand, writer, disk,
                 clients, replayed, faults, restarts>>

Stop ==
  /\ running /\ thread # "failed"
  /\ running' = FALSE
  /\ UNCHANGED <<buffer, flushed_lsn, thread, rc, in_hand, writer, disk,
                 check_point, clients, replayed, faults, restarts>>

-----------------------------------------------------------------------------
(* Plausible bug: the thread ends as soon as it is told to.                 *)
ThreadCheckNoDrain ==
  /\ thread = "check"
  /\ thread' = CASE ~ running                             -> "done"
                 [] fd = NoFile \/ rc = "LOG_FILE_FULL" -> "open"
                 [] OTHER                                 -> "flush"
  /\ UNCHANGED <<buffer, flushed_lsn, running, rc, in_hand, writer, disk,
                 check_point, clients, replayed, faults, restarts>>

(* Plausible bug: an empty buffer counts as work left (>= 0 for > 0).       *)
ThreadCheckForever ==
  /\ thread = "check"
  /\ thread' = IF fd = NoFile \/ rc = "LOG_FILE_FULL" THEN "open" ELSE "flush"
  /\ UNCHANGED <<buffer, flushed_lsn, running, rc, in_hand, writer, disk,
                 check_point, clients, replayed, faults, restarts>>

(* The log thread: the head of its loop, ...                               *)
ThreadCheck ==
  /\ thread = "check"
  /\ thread' = CASE ~ running /\ entries = <<>>           -> "done"
                 [] fd = NoFile \/ rc = "LOG_FILE_FULL" -> "open"
                 [] OTHER                                 -> "flush"
  /\ UNCHANGED <<buffer, flushed_lsn, running, rc, in_hand, writer, disk,
                 check_point, clients, replayed, faults, restarts>>

(* ... next_file after a full file, last_file otherwise; next_file enters   *)
(* the new name into the map before it opens the file, ...                  *)
NextFile == IF log_files = {} THEN 0 ELSE Max(log_files) + PerFile
FileToOpen == IF rc = "LOG_FILE_FULL" \/ log_files = {} THEN NextFile ELSE Max(log_files)

OpenFile ==
  /\ thread = "open"
  /\ FileToOpen \in FileNames
  /\ log_files' = log_files \cup {FileToOpen}
  /\ \/ /\ fd' = FileToOpen /\ created' = created \cup {FileToOpen}
        /\ rc' = "SUCCESS" /\ thread' = "flush"
        /\ UNCHANGED faults
     \/ /\ faults < FaultBound /\ faults' = faults + 1
        /\ fd' = NoFile /\ rc' = "FILE_OPEN" /\ thread' = "check"
        /\ UNCHANGED created
  /\ UNCHANGED <<buffer, flushed_lsn, running, in_hand, last_lsn, disk,
                 check_point, clients, replayed, restarts>>

(* ... LogEntryBuffer::flush: take the first entry out under the lock, or   *)
(* return when there is none, ...                                           *)
TakeEntry ==
  /\ thread = "flush"
  /\ \/ /\ entries # <<>>
        /\ in_hand' = Head(entries) /\ entries' = Tail(entries)
        /\ bytes' = bytes - EntrySize
        /\ thread' = "write" /\ UNCHANGED rc
     \/ /\ entries = <<>>
        /\ rc' = "SUCCESS" /\ thread' = "check"
        /\ UNCHANGED <<in_hand, entries, bytes>>
  /\ UNCHANGED <<current_lsn, flushed_lsn, running, writer, disk,
                 check_point, clients, replayed, faults, restarts>>

(* ... write it without the lock ...                                       *)
EndLsn == fd + PerFile - 1
Refusal == IF in_hand > EndLsn THEN "LOG_FILE_FULL"
           ELSE IF in_hand <= last_lsn THEN "INVALID_ARGUMENT" ELSE "SUCCESS"

WriteEntry ==
  /\ thread = "write" /\ Refusal = "SUCCESS"
  /\ disk' = [disk EXCEPT ![fd] = Append(@, [lsn |-> in_hand, part |-> "whole"])]
  /\ last_lsn' = in_hand
  /\ flushed_lsn' = in_hand
  /\ in_hand' = 0
  /\ thread' = "flush"
  /\ UNCHANGED <<buffer, running, rc, fd, log_files, created,
                 check_point, clients, replayed, faults, restarts>>

(* ... or put it back at the front, without giving bytes_ its size back. A  *)
(* write that fails may leave a part of the entry in the file.              *)
PutBackDropped == /\ in_hand' = 0   \* plausible bug: not put back
                  /\ thread' = "check"
                  /\ UNCHANGED entries
PutBack == /\ entries' = <<in_hand>> \o entries
           /\ in_hand' = 0
           /\ thread' = "check"

WriteRefused ==
  /\ thread = "write" /\ Refusal # "SUCCESS"
  /\ rc' = Refusal
  /\ PutBack
  /\ UNCHANGED <<bytes, current_lsn, flushed_lsn, running, writer, disk,
                 check_point, clients, replayed, faults, restarts>>

Remnant(p) == IF p = "none" THEN disk
              ELSE [disk EXCEPT ![fd] = Append(@, [lsn |-> in_hand, part |-> p])]

WriteFailed ==
  /\ thread = "write" /\ Refusal = "SUCCESS"
  /\ faults < FaultBound /\ faults' = faults + 1
  /\ \E p \in {"none", "header", "payload"} : disk' = Remnant(p)
  /\ rc' = "IOERR_WRITE"
  /\ PutBack
  /\ UNCHANGED <<bytes, current_lsn, flushed_lsn, running, writer,
                 check_point, clients, replayed, restarts>>

ThreadStep == \/ ThreadCheck \/ OpenFile \/ TakeEntry
              \/ WriteEntry \/ WriteRefused \/ WriteFailed

-----------------------------------------------------------------------------
(* Replay reads the files whose range reaches start_lsn; in each it skips   *)
(* to the first entry not before start_lsn and hands out all from there on. *)
ReplayFilesFrom(start) == {f \in created : f >= start}   \* plausible bug: the file that start lies in is left out
ReplayFiles(start) == {f \in created : f + PerFile - 1 >= start}

WholeAt(d, f) == {k \in 1..Len(d[f]) : d[f][k].part = "whole"}

FilePart(d, f, start) ==
  {d[f][j].lsn : j \in {k \in WholeAt(d, f) :
                          \E i \in WholeAt(d, f) : i <= k /\ d[f][i].lsn >= start}}

(* A remnant in the middle misaligns everything after it; at the end of a   *)
(* file a piece of a header reads as end of file, a piece of a payload is a *)
(* read error.                                                              *)
Unreadable(d, f, start) ==
  \E j \in 1..Len(d[f]) :
    /\ d[f][j].part # "whole"
    /\ j < Len(d[f]) \/ (d[f][j].part = "payload" /\ d[f][j].lsn >= start)

(* Db::recover: replay from the checkpoint, set both LSNs to the largest    *)
(* one met, start the thread.  If the log cannot be read Db::init fails.    *)
Recover(d) ==
  LET read == UNION {FilePart(d, f, check_point) : f \in ReplayFiles(check_point)}
  IN /\ restarts < RestartBound /\ restarts' = restarts + 1
     /\ disk' = d
     /\ client' = [c \in Clients |-> "idle"]
     /\ client_lsn' = [c \in Clients |-> 0]
     /\ entries' = <<>> /\ bytes' = 0 /\ in_hand' = 0
     /\ fd' = NoFile /\ last_lsn' = 0 /\ rc' = "SUCCESS"
     /\ log_files' = created
     /\ UNCHANGED <<created, check_point, acked, faults>>
     /\ IF \E f \in ReplayFiles(check_point) : Unreadable(d, f, check_point)
        THEN /\ thread' = "failed" /\ running' = FALSE /\ replayed' = {}
             /\ UNCHANGED <<current_lsn, flushed_lsn>>
        ELSE /\ thread' = "check" /\ running' = TRUE /\ replayed' = read
             /\ current_lsn' = Max(read \cup {0}) /\ flushed_lsn' = Max(read \cup {0})

(* The server is shut down and started again, ...                          *)
CleanRestart == thread = "done" /\ Recover(disk)

(* ... or crashes, possibly in the middle of a write.                      *)
CrashRestart ==
  /\ thread # "failed"
  /\ \/ Recover(disk)
     \/ /\ thread = "write" /\ Refusal = "SUCCESS"
        /\ \E p \in {"header", "payload"} : Recover(Remnant(p))

-----------------------------------------------------------------------------
ClientStep(c) == AppendLocked(c) \/ WaitReturn(c)

Next == \/ \E c \in Clients : AppendCheck(c) \/ NoWait(c) \/ WaitLsn(c) \/ ClientStep(c)
        \/ Sync \/ Stop
        \/ ThreadStep
        \/ CleanRestart \/ CrashRestart

Spec == Init /\ [][Next]_vars

(* The log thread and the clients that are inside a call keep running.      *)
FairSpec == Spec /\ WF_vars(ThreadStep) /\ \A c \in Clients : WF_vars(ClientStep(c))

-----------------------------------------------------------------------------
Pieces(f) == {disk[f][i] : i \in 1..Len(disk[f])}
OnDisk    == {p.lsn : p \in {q \in UNION {Pieces(f) : f \in FileNames} : q.part = "whole"}}
Durable   == Max(OnDisk \cup {0})
(* disk_log_handler.h:73: when the thread has ended after stop, all entries *)
(* that were appended by then are on disk.                                  *)
StopDrains == [][thread # "done" /\ thread' = "done" => Durable = current_lsn]_vars

DL == INSTANCE DurableLog WITH last <- current_lsn, durable <- Durable,
                               reported <- flushed_lsn, handed <- replayed

(* Buffer, thread, files and replay together implement the abstract durable *)
(* log that log_handler.h promises: every step of theirs is one of its      *)
(* steps or none.  In particular no entry loses its place although the      *)
(* thread takes entries out, fails, and puts them back while clients        *)
(* append; what wait_lsn confirmed is in the files across crashes; and a    *)
(* replay that succeeds hands out every durable entry from the checkpoint   *)
(* on, although list_files and skip_to pass over files and entries, and     *)
(* numbering goes on right after the last durable one.                      *)
ImplementsDurableLog == DL!DLSpec

(* Every wait_lsn returns, although files fill up and opens and writes fail *)
(* and are tried again (the loop of thread_func).                           *)
WaitReturns == \A c \in Clients : client[c] = "wait" ~> client[c] = "idle"

(* After stop the log thread ends: await_termination returns.               *)
StopEnds == ~ running ~> (thread \in {"done", "failed"} \/ running)
=============================================================================
