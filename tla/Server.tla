------------------------------- MODULE Server -------------------------------
(***************************************************************************)
(* The network server: the accepting main thread, its two thread handlers  *)
(* (one thread per connection; an event loop over the Java-like thread     *)
(* pool), connections that come, send, stall and go, and the shutdown.     *)
(*                                                                         *)
(* A thread handler runs handle_event for a connection in two steps: it    *)
(* reads one message ("read") and it executes the statement and writes the *)
(* answer ("run").  In the model "one" the thread of connection c is       *)
(* called c; in the model "pool" threads are members of PoolThreads and    *)
(* pick connections (or the event loop, Loop) from the work queue.         *)
(***************************************************************************)
EXTENDS Naturals, Sequences, FiniteSets

CONSTANTS
  Conns,        \* the connections clients may make
  PoolThreads,  \* identities of pool threads: at most max_pool_size of them
  CoreSize,     \* core_pool_size
  Loop,         \* the task event_loop_thread
  Models,       \* the thread models run: a subset of {"one", "pool"}
  SendBound     \* bound: messages each client sends

ASSUME ServerAssumption ==
  /\ IsFiniteSet(PoolThreads) /\ Conns \cap PoolThreads = {}
  /\ CoreSize \in 1 .. Cardinality(PoolThreads)
  /\ Models \subseteq {"one", "pool"}
  /\ SendBound \in [Conns -> Nat]
  /\ Loop \notin Conns

VARIABLES
  model,     \* server_param_.thread_handling
  main,      \* where the main thread is
  started,   \* NetServer::started_
  dbOpen,    \* the databases of GCTX.handler_ exist
  sock,      \* client c's end: "none", "open", "half" or "closed"
  inbox,     \* whole messages of c that the server has not read
  sends,     \* messages c has sent (bound)
  full,      \* connections whose socket takes no more: the client does not read
  replies,   \* messages of c that have been executed and answered
  dropped,   \* history: connections of which a whole message was discarded
  frees,     \* how often the communicator of c has been deleted
  lost,      \* connections whose first event_add failed
  mapped,    \* keys of thread_map_ or event_map_
  running,   \* Worker::running_
  armed,     \* connections whose event is in the event base
  loopexit,  \* event_base_loopexit has been called
  state,     \* ThreadPoolExecutor::state_
  threads,   \* keys of threads_
  core,      \* the core threads among them
  queue,     \* work_queue_
  active,    \* active_count_
  pc, task   \* per thread: the step it is at and the task it holds

clientVars == <<sock, inbox, sends, full, replies, dropped>>
handlerVars == <<frees, lost, mapped, running, armed, loopexit>>
poolVars == <<state, threads, core, queue, active>>
mainVars == <<main, started, dbOpen>>
vars == <<model, mainVars, clientVars, handlerVars, poolVars, pc, task>>

AllThreads == Conns \cup PoolThreads
Handling == {"read", "run", "rearm", "erase", "free"}
Readable(c) == inbox[c] > 0 \/ sock[c] \in {"half", "closed"}

TypeOK ==
  /\ model \in Models
  /\ main \in {"init", "start", "listen", "poll", "stop", "await", "cleanup", "gone"}
  /\ started \in BOOLEAN /\ dbOpen \in BOOLEAN /\ loopexit \in BOOLEAN
  /\ sock \in [Conns -> {"none", "open", "half", "closed"}]
  /\ inbox \in [Conns -> Nat] /\ sends \in [Conns -> Nat]
  /\ replies \in [Conns -> Nat]
  /\ \A c \in Conns : inbox[c] <= sends[c] /\ sends[c] <= SendBound[c]
  /\ frees \in [Conns -> 0 .. 2] /\ running \in [Conns -> BOOLEAN]
  /\ \A set \in {full, dropped, lost, mapped, armed} : set \subseteq Conns
  /\ state \in {"NEW", "RUNNING", "TERMINATING"}
  /\ threads \subseteq PoolThreads /\ core \subseteq threads
  /\ queue \in Seq(Conns \cup {Loop}) /\ active \in 0 .. Cardinality(PoolThreads)
  /\ pc \in [AllThreads -> {"none", "poll", "idle", "begin", "loop", "end", "exit"} \cup Handling]
  /\ task \in [AllThreads -> Conns \cup {Loop}]

Init ==
  /\ model \in Models
  /\ main = (IF model = "pool" THEN "init" ELSE "listen")
  /\ started = FALSE /\ dbOpen = TRUE
  /\ sock = [c \in Conns |-> "none"]
  /\ inbox = [c \in Conns |-> 0] /\ sends = [c \in Conns |-> 0]
  /\ full = {} /\ replies = [c \in Conns |-> 0] /\ dropped = {}
  /\ frees = [c \in Conns |-> 0] /\ lost = {} /\ mapped = {}
  /\ running = [c \in Conns |-> FALSE] /\ armed = {} /\ loopexit = FALSE
  /\ state = "NEW" /\ threads = {} /\ core = {} /\ queue = <<>> /\ active = 0
  /\ pc = [x \in AllThreads |-> "none"]
  /\ task = [x \in AllThreads |-> Loop]

Goto(x, step) == pc' = [pc EXCEPT ![x] = step]

-----------------------------------------------------------------------------
(***************************************************************************)
(* Clients.  A client may send before it is answered, may stop in the      *)
(* middle of a message, may leave its answers unread until an answer being *)
(* written fills its socket, and may close its socket at any time.  What   *)
(* it does after the server closed the connection has no effect.           *)
(***************************************************************************)
SendHalf(c) ==
  /\ sock[c] = "open" /\ sends[c] < SendBound[c] /\ frees[c] = 0
  /\ sock' = [sock EXCEPT ![c] = "half"]
  /\ UNCHANGED <<model, mainVars, inbox, sends, full, replies, dropped, handlerVars, poolVars, pc, task>>

SendRest(c) ==
  /\ sock[c] = "half" /\ frees[c] = 0
  /\ sock' = [sock EXCEPT ![c] = "open"]
  /\ inbox' = [inbox EXCEPT ![c] = @ + 1]
  /\ sends' = [sends EXCEPT ![c] = @ + 1]
  /\ UNCHANGED <<model, mainVars, full, replies, dropped, handlerVars, poolVars, pc, task>>

Fill(c) ==
  /\ sock[c] \in {"open", "half"} /\ \E x \in AllThreads : pc[x] = "run" /\ task[x] = c
  /\ full' = full \cup {c}
  /\ UNCHANGED <<model, mainVars, sock, inbox, sends, replies, dropped, handlerVars, poolVars, pc, task>>

Drain(c) ==
  /\ sock[c] \in {"open", "half"} /\ c \in full
  /\ full' = full \ {c}
  /\ UNCHANGED <<model, mainVars, sock, inbox, sends, replies, dropped, handlerVars, poolVars, pc, task>>

Disconnect(c) ==
  /\ sock[c] \in {"open", "half"} /\ frees[c] = 0
  /\ sock' = [sock EXCEPT ![c] = "closed"]
  /\ full' = full \ {c}
  /\ UNCHANGED <<model, mainVars, inbox, sends, replies, dropped, handlerVars, poolVars, pc, task>>

-----------------------------------------------------------------------------
(***************************************************************************)
(* ThreadPoolExecutor.                                                     *)
(***************************************************************************)
CreateThread(isCore) ==
  LET t == CHOOSE t \in PoolThreads : t \notin threads IN
  /\ threads' = threads \cup {t}
  /\ core' = IF isCore THEN core \cup {t} ELSE core
  /\ Goto(t, "idle")

\* execute: push, then grow the pool when more tasks wait than threads idle.
\* pool_size() and active_count() are read without the lock of the queue; a
\* thread that has popped a task and not yet counted itself still looks idle.
Execute(tk) ==
  /\ queue' = Append(queue, tk)
  /\ IF /\ Len(queue) + 1 + active > Cardinality(threads)
        /\ Cardinality(threads) < Cardinality(PoolThreads)
     THEN CreateThread(FALSE)
     ELSE UNCHANGED <<threads, core, pc>>

\* init: create core threads until threads_ holds core_pool_size of them.
InitPool ==
  /\ main = "init"
  /\ IF Cardinality(threads) < CoreSize
     THEN CreateThread(TRUE) /\ UNCHANGED <<main, state>>
     ELSE main' = "start" /\ state' = "RUNNING" /\ UNCHANGED <<threads, core, pc>>
  /\ UNCHANGED <<model, started, dbOpen, clientVars, handlerVars, queue, active, task>>

\* JavaThreadPoolThreadHandler::start gives the event loop to the pool.
StartLoop ==
  /\ main = "start"
  /\ Execute(Loop)
  /\ main' = "listen"
  /\ UNCHANGED <<model, started, dbOpen, clientVars, handlerVars, state, active, task>>

\* One turn of thread_func: pop a task, or leave when the pool is not running.
Pop(t) ==
  /\ pc[t] = "idle"
  /\ IF queue # <<>>
     THEN /\ task' = [task EXCEPT ![t] = Head(queue)]
          /\ queue' = Tail(queue)
          /\ Goto(t, "begin")
     ELSE /\ state # "RUNNING"
          /\ Goto(t, "exit")
          /\ UNCHANGED <<task, queue>>
  /\ UNCHANGED <<model, mainVars, clientVars, handlerVars, state, threads, core, active>>

\* A thread that is not a core thread leaves when it was idle too long; the
\* deadline is looked at before the queue is.
Expire(t) ==
  /\ pc[t] = "idle" /\ t \notin core
  /\ Goto(t, "exit")
  /\ UNCHANGED <<model, mainVars, clientVars, handlerVars, poolVars, task>>

Begin(t) ==
  /\ pc[t] = "begin"
  /\ active' = active + 1
  /\ Goto(t, IF task[t] = Loop THEN "loop" ELSE "read")
  /\ UNCHANGED <<model, mainVars, clientVars, handlerVars, state, threads, core, queue, task>>

End(t) ==
  /\ pc[t] = "end"
  /\ active' = active - 1
  /\ task' = [task EXCEPT ![t] = Loop]
  /\ Goto(t, IF state # "RUNNING" /\ queue = <<>> THEN "exit" ELSE "idle")
  /\ UNCHANGED <<model, mainVars, clientVars, handlerVars, state, threads, core, queue>>

ThreadExit(t) ==
  /\ pc[t] = "exit"
  /\ threads' = threads \ {t}
  /\ core' = core \ {t}
  /\ Goto(t, "none")
  /\ UNCHANGED <<model, mainVars, clientVars, handlerVars, state, queue, active, task>>

-----------------------------------------------------------------------------
(***************************************************************************)
(* The event loop.  An event is one-shot: it leaves the event base when it *)
(* fires.  A task refused by a pool that terminates is dropped.            *)
(***************************************************************************)
Callback(t, c) ==
  /\ pc[t] = "loop" /\ c \in armed /\ Readable(c)
  /\ armed' = armed \ {c}
  /\ IF state = "RUNNING"
     THEN Execute(c)
     ELSE UNCHANGED <<queue, threads, core, pc>>
  /\ UNCHANGED <<model, mainVars, clientVars, frees, lost, mapped, running, loopexit, state, active, task>>

LoopEnd(t) ==
  /\ pc[t] = "loop" /\ loopexit
  /\ Goto(t, "end")
  /\ UNCHANGED <<model, mainVars, clientVars, handlerVars, poolVars, task>>

-----------------------------------------------------------------------------
(***************************************************************************)
(* handle_event and close_connection, run by thread x for connection       *)
(* task[x].                                                                *)
(***************************************************************************)

\* Plausible bug: the worker does not look at running_.
WorkerPollForever(c) ==
  /\ pc[c] = "poll"
  /\ \/ Readable(c) /\ Goto(c, "read")
     \/ sock[c] = "closed" /\ Goto(c, "erase")
  /\ UNCHANGED <<model, mainVars, clientVars, handlerVars, poolVars, task>>

\* Worker: poll for 500 ms while running_, leave on an error of the socket.
WorkerPoll(c) ==
  /\ pc[c] = "poll"
  /\ \/ ~running[c] /\ Goto(c, "erase")
     \/ running[c] /\ Readable(c) /\ Goto(c, "read")
     \/ running[c] /\ sock[c] = "closed" /\ Goto(c, "erase")
  /\ UNCHANGED <<model, mainVars, clientVars, handlerVars, poolVars, task>>

\* read_event spins on EAGAIN until the end of a message: half a message keeps
\* the thread.  What came with the read behind the end of the message is
\* dropped; the rest of a message whose beginning was dropped is read as a
\* message of its own.
ReadEvent(x) ==
  LET c == task[x] IN
  /\ pc[x] = "read"
  /\ \/ /\ inbox[c] > 0
        /\ \E n \in 1 .. inbox[c] :
             /\ inbox' = [inbox EXCEPT ![c] = @ - n]
             /\ dropped' = IF n > 1 THEN dropped \cup {c} ELSE dropped
        /\ Goto(x, "run")
     \/ /\ inbox[c] = 0 /\ sock[c] = "closed"
        /\ Goto(x, "erase")
        /\ UNCHANGED <<inbox, dropped>>
  /\ UNCHANGED <<model, mainVars, sock, sends, full, replies, handlerVars, poolVars, task>>

\* The statement is executed and answered.  flush_internal spins on EAGAIN: a
\* client that does not read its answers keeps the thread.  A failed write
\* does not end the connection, the next read does.
RunSql(x) ==
  LET c == task[x] IN
  /\ pc[x] = "run" /\ c \notin full
  /\ replies' = [replies EXCEPT ![c] = @ + 1]
  /\ Goto(x, IF model = "one" THEN "poll" ELSE "rearm")
  /\ UNCHANGED <<model, mainVars, sock, inbox, sends, full, dropped, handlerVars, poolVars, task>>

\* Plausible bug: the event is not added again.
RearmForgotten(t) ==
  /\ pc[t] = "rearm"
  /\ \/ UNCHANGED armed /\ Goto(t, "end")
     \/ UNCHANGED armed /\ Goto(t, "erase")
  /\ UNCHANGED <<model, mainVars, clientVars, frees, lost, mapped, running, loopexit, poolVars, task>>

\* event_add puts the event back, or fails and the connection is closed.
Rearm(t) ==
  /\ pc[t] = "rearm"
  /\ \/ armed' = armed \cup {task[t]} /\ Goto(t, "end")
     \/ UNCHANGED armed /\ Goto(t, "erase")
  /\ UNCHANGED <<model, mainVars, clientVars, frees, lost, mapped, running, loopexit, poolVars, task>>

\* Plausible bug: the entry of event_map_ stays.
EraseKeepsEntry(x) ==
  /\ pc[x] = "erase"
  /\ armed' = armed \ {task[x]}
  /\ Goto(x, "free")
  /\ UNCHANGED <<model, mainVars, clientVars, frees, lost, mapped, running, loopexit, poolVars, task>>

\* close_connection: the entry leaves the map under the lock, then the event,
\* the worker and the communicator (with its session) are deleted.
EraseConnection(x) ==
  /\ pc[x] = "erase"
  /\ mapped' = mapped \ {task[x]}
  /\ armed' = armed \ {task[x]}
  /\ Goto(x, "free")
  /\ UNCHANGED <<model, mainVars, clientVars, frees, lost, running, loopexit, poolVars, task>>

FreeConnection(x) ==
  /\ pc[x] = "free"
  /\ frees' = [frees EXCEPT ![task[x]] = @ + 1]
  /\ Goto(x, IF model = "one" THEN "none" ELSE "end")
  /\ UNCHANGED <<model, mainVars, clientVars, lost, mapped, running, armed, loopexit, poolVars, task>>

-----------------------------------------------------------------------------
(***************************************************************************)
(* The main thread: serve, accept, shutdown.                               *)
(***************************************************************************)
\* start() sets started_ when the socket listens, whatever it was.
Listen ==
  /\ main = "listen"
  /\ main' = "poll" /\ started' = TRUE
  /\ UNCHANGED <<model, dbOpen, clientVars, handlerVars, poolVars, pc, task>>

AfterPoll == main' = IF started THEN "poll" ELSE "stop"

PollTimeout ==
  /\ main = "poll"
  /\ AfterPoll
  /\ UNCHANGED <<model, started, dbOpen, clientVars, handlerVars, poolVars, pc, task>>

\* poll() on the listening socket fails: serve() leaves its loop.
PollFails ==
  /\ main = "poll"
  /\ main' = "stop"
  /\ UNCHANGED <<model, started, dbOpen, clientVars, handlerVars, poolVars, pc, task>>

\* new_connection of the two handlers: a worker thread, or an event.  When
\* event_new or event_add fails the communicator is deleted; in the second
\* case event_map_ keeps its entry.
NewWorker(c) ==
  /\ mapped' = mapped \cup {c}
  /\ running' = [running EXCEPT ![c] = TRUE]
  /\ task' = [task EXCEPT ![c] = c]
  /\ Goto(c, "poll")
  /\ UNCHANGED <<armed, lost, frees>>
NewEvent(c) ==
  /\ \/ /\ mapped' = mapped \cup {c} /\ armed' = armed \cup {c}
        /\ UNCHANGED <<lost, frees>>
     \/ /\ mapped' = mapped \cup {c} /\ lost' = lost \cup {c}
        /\ frees' = [frees EXCEPT ![c] = @ + 1]
        /\ UNCHANGED armed
     \/ /\ frees' = [frees EXCEPT ![c] = @ + 1]
        /\ UNCHANGED <<mapped, armed, lost>>
  /\ UNCHANGED <<running, task, pc>>

Accept(c) ==
  /\ main = "poll" /\ sock[c] = "none"
  /\ AfterPoll
  /\ sock' = [sock EXCEPT ![c] = "open"]
  /\ IF model = "one" THEN NewWorker(c) ELSE NewEvent(c)
  /\ UNCHANGED <<model, started, dbOpen, inbox, sends, full, replies, dropped, loopexit, poolVars>>

\* The signal handler's thread calls NetServer::shutdown, at any time: before
\* start() has set started_ it has no effect.
Shutdown ==
  /\ started' = FALSE
  /\ UNCHANGED <<model, main, dbOpen, clientVars, handlerVars, poolVars, pc, task>>

StopWorkers ==
  /\ running' = [c \in Conns |-> running[c] /\ c \notin mapped]
  /\ UNCHANGED <<loopexit, state>>
StopPool == loopexit' = TRUE /\ state' = "TERMINATING" /\ UNCHANGED running

StopHandler ==
  /\ main = "stop"
  /\ main' = "await"
  /\ IF model = "one" THEN StopWorkers ELSE StopPool
  /\ UNCHANGED <<model, started, dbOpen, clientVars, frees, lost, mapped, armed,
                 threads, core, queue, active, pc, task>>

\* Plausible bug: await_stop does not wait.
AwaitNobody ==
  /\ main = "await"
  /\ main' = "cleanup" /\ started' = FALSE
  /\ UNCHANGED <<model, dbOpen, clientVars, handlerVars, poolVars, pc, task>>

\* await_stop waits for an empty map, or for the end of every pool thread and
\* then deletes the connections that are left; serve() clears started_.
AwaitWorkers == mapped = {} /\ UNCHANGED <<frees, mapped, armed>>
AwaitPool ==
  /\ threads = {}
  /\ frees' = [c \in Conns |-> IF c \in mapped THEN frees[c] + 1 ELSE frees[c]]
  /\ mapped' = {} /\ armed' = {}

AwaitStop ==
  /\ main = "await"
  /\ main' = "cleanup" /\ started' = FALSE
  /\ IF model = "one" THEN AwaitWorkers ELSE AwaitPool
  /\ UNCHANGED <<model, dbOpen, clientVars, lost, running, loopexit, poolVars, pc, task>>

\* serve has returned: cleanup() deletes the databases.
Cleanup ==
  /\ main = "cleanup"
  /\ main' = "gone" /\ dbOpen' = FALSE
  /\ UNCHANGED <<model, started, clientVars, handlerVars, poolVars, pc, task>>

-----------------------------------------------------------------------------
ThreadStep(x) ==
  \/ ReadEvent(x) \/ RunSql(x) \/ EraseConnection(x) \/ FreeConnection(x)
  \/ x \in Conns /\ WorkerPoll(x)
  \/ /\ x \in PoolThreads
     /\ \/ Pop(x) \/ Begin(x) \/ End(x) \/ ThreadExit(x) \/ Rearm(x) \/ LoopEnd(x)
        \/ \E c \in Conns : Callback(x, c)

MainStep ==
  \/ InitPool \/ StartLoop \/ Listen \/ PollTimeout
  \/ StopHandler \/ AwaitStop \/ Cleanup
  \/ \E c \in Conns : Accept(c)

Next ==
  \/ MainStep \/ Shutdown \/ PollFails
  \/ \E x \in AllThreads : ThreadStep(x)
  \/ \E t \in PoolThreads : Expire(t)
  \/ \E c \in Conns : SendHalf(c) \/ SendRest(c) \/ Fill(c) \/ Drain(c) \/ Disconnect(c)

\* Threads run; clients owe nothing.
Spec ==
  /\ Init /\ [][Next]_vars
  /\ WF_vars(MainStep)
  /\ \A x \in AllThreads : WF_vars(ThreadStep(x))

-----------------------------------------------------------------------------
(***************************************************************************)
(* Properties.                                                             *)
(***************************************************************************)
Handlers(c) == {x \in AllThreads : pc[x] \in Handling \cup {"begin"} /\ task[x] = c}
Queued(c) == {i \in 1 .. Len(queue) : queue[i] = c}

\* Nobody reads from, writes to or re-arms a communicator that is deleted, and
\* none is deleted twice, unless its event could not be added when it came: the
\* event loop, the queue of the pool and its threads hand a connection on
\* without a lock (java_thread_pool_thread_handler.cpp, the comment on
\* EV_PERSIST).
NoUseAfterFree ==
  \A c \in Conns \ lost :
    /\ frees[c] <= 1
    /\ frees[c] = 1 => /\ Handlers(c) = {} /\ c \notin armed
                       /\ threads # {} => Queued(c) = {}

\* When serve() returns and the databases are deleted no request is being
\* read, executed or answered; in the pool no session is left either.
NoRequestAfterDb ==
  ~dbOpen =>
    /\ \A x \in AllThreads : pc[x] \notin Handling \ {"free"}
    /\ model = "pool" => \A c \in Conns : frees[c] = 0 => sock[c] = "none"

\* A client keeps the thread that serves it inside read_event with half a
\* message, or inside flush_internal with a socket it does not empty.
Stalls(c) == frees[c] = 0 /\ (sock[c] = "half" \/ c \in full)

NobodyStalls == \A c \in Conns : ~Stalls(c)

\* Told to stop while it accepts connections, or thrown out of its loop by an
\* error of the listening socket, the server is not stopping forever: it is
\* gone, unless again and again some client stalls a thread.
Stopping == (main = "poll" /\ ~started) \/ main \in {"stop", "await", "cleanup"}
ShutdownCompletes == <>[]NobodyStalls => []<>~Stopping

CoreLost == state = "RUNNING" /\ Cardinality(core) < CoreSize

\* A message is executed and answered, unless clients go on stalling threads,
\* the server stops, the pool lost core threads while it started, or the
\* connection is closed.  A client that does not wait for its answers may have
\* a message discarded: it is owed nothing more (plain_communicator.cpp:45).
Owed(c) ==
  /\ replies[c] < sends[c] /\ c \notin dropped
  /\ main = "poll" /\ started /\ ~CoreLost
  /\ sock[c] # "closed" /\ frees[c] = 0
EveryMessageAnswered == <>[]NobodyStalls => \A c \in Conns : []<>~Owed(c)
=============================================================================
