----------------------------- MODULE DurableLog -----------------------------
(***************************************************************************)
(* What the commit log promises its users (LogHandler,                     *)
(* src/observer/storage/clog/log_handler.h): entries are numbered 1, 2,    *)
(* 3, ... in the order of the appends; a growing prefix of them is         *)
(* durable; what is reported as flushed, or confirmed to a caller that     *)
(* waits, is durable; a restart keeps exactly the durable prefix, hands    *)
(* every entry of it from the checkpoint on to the replayers, and goes on  *)
(* numbering after it.  Or the log cannot be read, nothing is handed out   *)
(* and the database does not start.                                        *)
(***************************************************************************)
EXTENDS Naturals

VARIABLES
  last,         \* number of the last entry appended
  durable,      \* entries 1..durable survive a crash
  reported,     \* entries 1..reported are known to be durable
  acked,        \* the largest number confirmed to a caller
  check_point,  \* where the next replay starts
  handed        \* the entries that the last replay handed out

dlvars == <<last, durable, reported, acked, check_point, handed>>

DLInit == /\ last = 0 /\ durable = 0 /\ reported = 0 /\ acked = 0
          /\ check_point = 0 /\ handed = {}

AppendEntry == /\ last' = last + 1
               /\ UNCHANGED <<durable, reported, acked, check_point, handed>>

(* An entry becomes durable, and is reported, now or later. *)
Persist == /\ durable < last /\ durable' = durable + 1
           /\ reported' \in {reported, durable + 1}
           /\ UNCHANGED <<last, acked, check_point, handed>>

Confirm == /\ acked' \in acked..reported
           /\ UNCHANGED <<last, durable, reported, check_point, handed>>

Checkpoint == /\ reported = last /\ check_point' = last
              /\ UNCHANGED <<last, durable, reported, acked, handed>>

Restart == /\ last' = durable /\ reported' = durable
           /\ handed' = {l \in 1..durable : l >= check_point}
           /\ UNCHANGED <<durable, acked, check_point>>

RestartFails == /\ handed' = {}
                /\ UNCHANGED <<last, durable, reported, acked, check_point>>

DLNext == AppendEntry \/ Persist \/ Confirm \/ Checkpoint \/ Restart \/ RestartFails

DLSpec == DLInit /\ [][DLNext]_dlvars
=============================================================================
