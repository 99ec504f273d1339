--------------------------- MODULE ServerProofs ---------------------------
(***************************************************************************)
(* Proofs about the network server, for any number of connections, pool    *)
(* threads and messages: the database outlives every request, and nobody   *)
(* touches a communicator that has been deleted.  The argument is that a   *)
(* connection is in one place at a time (its event, the work queue or the  *)
(* hands of one thread) and in none of them once it has been deleted.      *)
(***************************************************************************)
EXTENDS Server, TLAPS, FiniteSetTheorems

\* The steps at which a thread holds the connection task[x], and the pool
\* threads that active_count_ counts.
Busy == Handling \cup {"begin"}
Working == {t \in PoolThreads : pc[t] \in Handling \cup {"loop", "end"}}

\* One thread per connection: thread c works for connection c only, c stays in
\* thread_map_ until the worker has taken its entry out, and the map is empty
\* when await_stop returns.
OneModel ==
  model = "one" =>
    /\ main \notin {"init", "start"} /\ queue = <<>> /\ armed = {} /\ lost = {}
    /\ \A t \in PoolThreads : pc[t] = "none"
    /\ \A c \in Conns :
         /\ pc[c] \in {"none", "poll", "read", "run", "erase", "free"}
         /\ pc[c] # "none" => task[c] = c
         /\ pc[c] \in {"poll", "read", "run", "erase"} => c \in mapped
         /\ pc[c] = "free" => sock[c] # "none" /\ frees[c] = 0
    /\ main \in {"cleanup", "gone"} => mapped = {}

\* The pool: threads hold connections only while they handle them, none is left
\* when await_stop returns, and a connection is in event_map_ until the thread
\* that deletes it has taken the entry out.
PoolModel ==
  model = "pool" =>
    /\ \A c \in Conns : pc[c] = "none"
    /\ \A t \in PoolThreads : pc[t] # "poll" /\ (pc[t] \in Handling => task[t] \in Conns)
    /\ main \in {"cleanup", "gone"} =>
         threads = {} /\ \A c \in Conns : sock[c] = "none" \/ frees[c] > 0
    /\ \A c \in Conns :
         \/ sock[c] = "none" \/ c \in mapped \/ frees[c] > 0
         \/ \E t \in PoolThreads : pc[t] = "free" /\ task[t] = c

\* threads_ and active_count_ agree with what the threads are doing.
PoolCounts ==
  /\ \A t \in PoolThreads : t \in threads <=> pc[t] # "none"
  /\ active = Cardinality(Working)

\* A connection is armed, or queued once, or held by one thread.
OnePlace ==
  /\ \A x, y \in AllThreads : pc[x] \in Busy /\ pc[y] \in Busy /\ task[x] = task[y]
       /\ task[x] # Loop => x = y
  /\ \A x \in AllThreads : pc[x] \in Busy =>
        /\ task[x] \notin armed
        /\ task[x] # Loop => \A i \in 1 .. Len(queue) : queue[i] # task[x]
  /\ \A i, j \in 1 .. Len(queue) : queue[i] = queue[j] /\ queue[i] # Loop => i = j
  /\ \A i \in 1 .. Len(queue) : queue[i] \notin armed

\* A deleted connection, or one that has not come yet, is in none of these
\* places; nothing is in the map that has been deleted, except a connection
\* whose first event_add failed.
Freed ==
  /\ \A c \in Conns : sock[c] = "none" => frees[c] = 0 /\ c \notin mapped
  /\ \A c \in lost : frees[c] > 0 /\ (c \in mapped => frees[c] = 1)
  /\ \A c \in Conns \ lost : frees[c] <= 1 /\ (frees[c] = 1 => c \notin mapped)
  /\ \A x \in AllThreads : pc[x] = "free" => task[x] \notin mapped
  /\ \A c \in Conns : sock[c] = "none" \/ frees[c] > 0 =>
       /\ c \notin armed
       /\ \A x \in AllThreads : pc[x] \in Busy => task[x] # c
       /\ main \notin {"cleanup", "gone"} => \A i \in 1 .. Len(queue) : queue[i] # c

\* The databases go last; half a message is within the bound on messages.
DbOutlives == ~dbOpen => main = "gone"
Halves == \A c \in Conns : sock[c] = "half" => sends[c] < SendBound[c]

ServerInv ==
  TypeOK /\ OneModel /\ PoolModel /\ PoolCounts /\ OnePlace /\ Freed /\ DbOutlives /\ Halves

-----------------------------------------------------------------------------
LEMMA ModelKnown == ServerInv => model \in {"one", "pool"}
  BY ServerAssumption DEF ServerInv, TypeOK

\* The connection a thread handles is neither deleted nor armed.
LEMMA Holder ==
  ASSUME ServerInv, NEW x \in AllThreads, pc[x] \in Handling
  PROVE  /\ task[x] \in Conns \ lost /\ task[x] # Loop /\ task[x] \notin armed
         /\ frees[task[x]] = 0 /\ sock[task[x]] # "none"
         /\ x \in Conns => model = "one" /\ task[x] = x
         /\ x \in PoolThreads => model = "pool"
<1>1. x \in Conns \/ x \in PoolThreads
  BY DEF AllThreads
<1>2. pc[x] # "none" /\ pc[x] \in Busy
  BY DEF Handling, Busy
<1>3. x \in Conns => model = "one" /\ task[x] = x
  BY <1>2, ModelKnown DEF ServerInv, OneModel, PoolModel
<1>4. x \in PoolThreads => model = "pool" /\ task[x] \in Conns
  BY <1>2, ModelKnown DEF ServerInv, OneModel, PoolModel
<1>5. task[x] \in Conns
  BY <1>1, <1>3, <1>4
<1>6. frees[task[x]] = 0 /\ sock[task[x]] # "none"
  <2>1. frees[task[x]] \in 0 .. 2
    BY <1>5 DEF ServerInv, TypeOK
  <2>2. sock[task[x]] # "none" /\ ~(frees[task[x]] > 0)
    BY <1>2, <1>5 DEF ServerInv, Freed
  <2> QED BY <2>1, <2>2
<1>7. task[x] \notin lost
  BY <1>6 DEF ServerInv, Freed
<1> QED BY <1>2, <1>3, <1>4, <1>5, <1>6, <1>7, ServerAssumption DEF ServerInv, OnePlace

\* A step that queues, arms and hands over nothing keeps OnePlace.
LEMMA PlaceKept ==
  ASSUME ServerInv, queue' = queue, task' = task, armed' \subseteq armed,
         \A y \in AllThreads : pc'[y] \in Busy => pc[y] \in Busy
  PROVE  OnePlace'
BY DEF ServerInv, OnePlace

\* With a thread per connection OnePlace holds by the threads' names.
LEMMA OneThreadEach ==
  ASSUME OneModel', model' = "one"
  PROVE  OnePlace'
<1>1. queue' = <<>> /\ armed' = {}
  BY DEF OneModel
<1>2. \A x \in AllThreads : pc'[x] \in Busy => x \in Conns /\ task'[x] = x
  BY DEF OneModel, AllThreads, Busy, Handling
<1>3. Len(queue') = 0
  BY <1>1
<1> QED BY <1>1, <1>2, <1>3 DEF OnePlace

-----------------------------------------------------------------------------
(* Every action keeps the invariant. *)

LEMMA SendHalfKeeps ==
  ASSUME ServerInv, NEW c \in Conns, SendHalf(c)
  PROVE  ServerInv'
<1> USE ServerAssumption DEF SendHalf, clientVars, handlerVars, poolVars, mainVars
<1>1. TypeOK'
  BY DEF ServerInv, TypeOK
<1>2. OneModel'
  BY DEF ServerInv, OneModel
<1>3. PoolModel'
  BY DEF ServerInv, PoolModel
<1>4. PoolCounts'
  <2>1. \A u \in PoolThreads : (u \in threads <=> pc[u] # "none")'
    BY DEF ServerInv, PoolCounts
  <2>2. Working' = Working /\ active' = active
    BY DEF ServerInv, Working
  <2> QED BY <2>1, <2>2 DEF ServerInv, PoolCounts
<1>5. OnePlace'
  BY DEF ServerInv, OnePlace
<1>6. Freed'
  BY DEF ServerInv, Freed
<1>7. DbOutlives'
  BY DEF ServerInv, DbOutlives
<1>8. Halves'
  BY DEF ServerInv, Halves
<1> QED BY <1>1, <1>2, <1>3, <1>4, <1>5, <1>6, <1>7, <1>8 DEF ServerInv

LEMMA SendRestKeeps ==
  ASSUME ServerInv, NEW c \in Conns, SendRest(c)
  PROVE  ServerInv'
<1> USE ServerAssumption DEF SendRest, clientVars, handlerVars, poolVars, mainVars
<1>1. TypeOK'
  <2>1. /\ model' \in Models /\ main' \in {"init", "start", "listen", "poll", "stop", "await", "cleanup", "gone"}
        /\ state' \in {"NEW", "RUNNING", "TERMINATING"}
        /\ sock' \in [Conns -> {"none", "open", "half", "closed"}]
    BY DEF ServerInv, TypeOK, AllThreads, Handling
  <2>2. started' \in BOOLEAN /\ dbOpen' \in BOOLEAN /\ loopexit' \in BOOLEAN
            /\ running' \in [Conns -> BOOLEAN]
    BY DEF ServerInv, TypeOK, AllThreads, Handling
  <2>3. inbox' \in [Conns -> Nat] /\ sends' \in [Conns -> Nat] /\ replies' \in [Conns -> Nat]
    BY DEF ServerInv, TypeOK, AllThreads, Handling
  <2>4. \A d \in Conns : inbox'[d] <= sends'[d] /\ sends'[d] <= SendBound[d]
    <3>0. sock[c] = "half" /\ sends[c] \in Nat /\ inbox[c] \in Nat /\ SendBound[c] \in Nat
              /\ inbox[c] <= sends[c]
      BY ServerAssumption DEF ServerInv, TypeOK
    <3>1. sends[c] + 1 <= SendBound[c] /\ inbox[c] + 1 <= sends[c] + 1
      BY <3>0 DEF ServerInv, Halves
    <3>2. \A d \in Conns : inbox'[d] = (IF d = c THEN inbox[c] + 1 ELSE inbox[d])
              /\ sends'[d] = (IF d = c THEN sends[c] + 1 ELSE sends[d])
      BY DEF ServerInv, TypeOK, AllThreads, Handling
    <3> QED BY <3>1, <3>2, ServerAssumption DEF ServerInv, TypeOK, AllThreads, Handling
  <2>5. frees' \in [Conns -> 0 .. 2]
    BY DEF ServerInv, OneModel, PoolModel, Freed, Busy, TypeOK, AllThreads, Handling
  <2>6. /\ lost' \subseteq Conns /\ mapped' \subseteq Conns /\ armed' \subseteq Conns
        /\ full' \subseteq Conns /\ dropped' \subseteq Conns
    BY DEF ServerInv, OneModel, PoolModel, TypeOK, AllThreads, Handling
  <2>7. threads' \subseteq PoolThreads /\ core' \subseteq threads'
            /\ active' \in 0 .. Cardinality(PoolThreads)
    BY DEF ServerInv, TypeOK, AllThreads, Handling
  <2>8. queue' \in Seq(Conns \cup {Loop})
    BY DEF ServerInv, TypeOK, AllThreads, Handling
  <2>9. pc' \in [AllThreads -> {"none", "poll", "idle", "begin", "loop", "end", "exit"} \cup Handling]
    BY DEF ServerInv, TypeOK, AllThreads, Handling
  <2>10. task' \in [AllThreads -> Conns \cup {Loop}]
    BY DEF ServerInv, TypeOK, AllThreads, Handling
  <2> QED BY <2>1, <2>2, <2>3, <2>4, <2>5, <2>6, <2>7, <2>8, <2>9, <2>10 DEF TypeOK
<1>2. OneModel'
  BY DEF ServerInv, OneModel
<1>3. PoolModel'
  BY DEF ServerInv, PoolModel
<1>4. PoolCounts'
  <2>1. \A u \in PoolThreads : (u \in threads <=> pc[u] # "none")'
    BY DEF ServerInv, PoolCounts
  <2>2. Working' = Working /\ active' = active
    BY DEF ServerInv, Working
  <2> QED BY <2>1, <2>2 DEF ServerInv, PoolCounts
<1>5. OnePlace'
  BY DEF ServerInv, OnePlace
<1>6. Freed'
  BY DEF ServerInv, Freed
<1>7. DbOutlives'
  BY DEF ServerInv, DbOutlives
<1>8. Halves'
  BY DEF ServerInv, Halves, TypeOK
<1> QED BY <1>1, <1>2, <1>3, <1>4, <1>5, <1>6, <1>7, <1>8 DEF ServerInv

LEMMA DisconnectKeeps ==
  ASSUME ServerInv, NEW c \in Conns, Disconnect(c)
  PROVE  ServerInv'
<1> USE ServerAssumption DEF Disconnect, clientVars, handlerVars, poolVars, mainVars
<1>1. TypeOK'
  BY DEF ServerInv, TypeOK
<1>2. OneModel'
  BY DEF ServerInv, OneModel
<1>3. PoolModel'
  BY DEF ServerInv, PoolModel
<1>4. PoolCounts'
  <2>1. \A u \in PoolThreads : (u \in threads <=> pc[u] # "none")'
    BY DEF ServerInv, PoolCounts
  <2>2. Working' = Working /\ active' = active
    BY DEF ServerInv, Working
  <2> QED BY <2>1, <2>2 DEF ServerInv, PoolCounts
<1>5. OnePlace'
  BY DEF ServerInv, OnePlace
<1>6. Freed'
  BY DEF ServerInv, Freed
<1>7. DbOutlives'
  BY DEF ServerInv, DbOutlives
<1>8. Halves'
  BY DEF ServerInv, Halves
<1> QED BY <1>1, <1>2, <1>3, <1>4, <1>5, <1>6, <1>7, <1>8 DEF ServerInv

LEMMA FillKeeps ==
  ASSUME ServerInv, NEW c \in Conns, Fill(c)
  PROVE  ServerInv'
<1> USE ServerAssumption DEF Fill, clientVars, handlerVars, poolVars, mainVars
<1>1. TypeOK'
  BY DEF ServerInv, TypeOK
<1>2. OneModel'
  BY DEF ServerInv, OneModel
<1>3. PoolModel'
  BY DEF ServerInv, PoolModel
<1>4. PoolCounts'
  <2>1. \A u \in PoolThreads : (u \in threads <=> pc[u] # "none")'
    BY DEF ServerInv, PoolCounts
  <2>2. Working' = Working /\ active' = active
    BY DEF ServerInv, Working
  <2> QED BY <2>1, <2>2 DEF ServerInv, PoolCounts
<1>5. OnePlace'
  BY DEF ServerInv, OnePlace
<1>6. Freed'
  BY DEF ServerInv, Freed
<1>7. DbOutlives'
  BY DEF ServerInv, DbOutlives
<1>8. Halves'
  BY DEF ServerInv, Halves
<1> QED BY <1>1, <1>2, <1>3, <1>4, <1>5, <1>6, <1>7, <1>8 DEF ServerInv

LEMMA DrainKeeps ==
  ASSUME ServerInv, NEW c \in Conns, Drain(c)
  PROVE  ServerInv'
<1> USE ServerAssumption DEF Drain, clientVars, handlerVars, poolVars, mainVars
<1>1. TypeOK'
  BY DEF ServerInv, TypeOK
<1>2. OneModel'
  BY DEF ServerInv, OneModel
<1>3. PoolModel'
  BY DEF ServerInv, PoolModel
<1>4. PoolCounts'
  <2>1. \A u \in PoolThreads : (u \in threads <=> pc[u] # "none")'
    BY DEF ServerInv, PoolCounts
  <2>2. Working' = Working /\ active' = active
    BY DEF ServerInv, Working
  <2> QED BY <2>1, <2>2 DEF ServerInv, PoolCounts
<1>5. OnePlace'
  BY DEF ServerInv, OnePlace
<1>6. Freed'
  BY DEF ServerInv, Freed
<1>7. DbOutlives'
  BY DEF ServerInv, DbOutlives
<1>8. Halves'
  BY DEF ServerInv, Halves
<1> QED BY <1>1, <1>2, <1>3, <1>4, <1>5, <1>6, <1>7, <1>8 DEF ServerInv

LEMMA ExpireKeeps ==
  ASSUME ServerInv, NEW t \in PoolThreads, Expire(t)
  PROVE  ServerInv'
<1> USE ServerAssumption DEF Expire, Goto, clientVars, handlerVars, poolVars, mainVars
<1>1. TypeOK'
  BY DEF ServerInv, TypeOK
<1>2. OneModel'
  BY DEF ServerInv, OneModel
<1>3. PoolModel'
  BY DEF ServerInv, PoolModel, TypeOK, AllThreads, Handling
<1>4. PoolCounts'
  <2>1. \A u \in PoolThreads : (u \in threads <=> pc[u] # "none")'
    BY DEF ServerInv, PoolCounts
  <2>2. Working' = Working /\ active' = active
    BY DEF ServerInv, Working, TypeOK, AllThreads, Handling
  <2> QED BY <2>1, <2>2 DEF ServerInv, PoolCounts
<1>5. OnePlace'
  BY DEF ServerInv, OnePlace, TypeOK, AllThreads, Handling, Busy
<1>6. Freed'
  BY DEF ServerInv, Freed, TypeOK, AllThreads, Handling, Busy
<1>7. DbOutlives'
  BY DEF ServerInv, DbOutlives
<1>8. Halves'
  BY DEF ServerInv, Halves
<1> QED BY <1>1, <1>2, <1>3, <1>4, <1>5, <1>6, <1>7, <1>8 DEF ServerInv

LEMMA PopKeeps ==
  ASSUME ServerInv, NEW t \in PoolThreads, Pop(t)
  PROVE  ServerInv'
<1>a. model = "pool" /\ t \in AllThreads /\ pc[t] = "idle"
  BY ModelKnown DEF ServerInv, OneModel, Pop, AllThreads
<1>b. \A y \in AllThreads : y # t => pc'[y] = pc[y] /\ task'[y] = task[y]
  BY DEF ServerInv, TypeOK, AllThreads, Handling, Pop, Goto
<1>c. ASSUME queue = <<>> PROVE TypeOK' /\ PoolModel' /\ OnePlace' /\ Freed'
  <2>1. pc' = [pc EXCEPT ![t] = "exit"] /\ queue' = queue /\ task' = task
    BY <1>c DEF Pop, Goto
  <2>2. \A y \in AllThreads : pc'[y] = IF y = t THEN "exit" ELSE pc[y]
    BY <2>1 DEF ServerInv, TypeOK, AllThreads, Handling
  <2>3. TypeOK'
    BY <2>1, <1>a DEF ServerInv, TypeOK, AllThreads, Handling, Pop, vars, clientVars,
       handlerVars, poolVars, mainVars
  <2>4. OnePlace'
    BY <2>1, <2>2, PlaceKept DEF Pop, vars, clientVars, handlerVars, poolVars, mainVars, Busy,
       Handling
  <2>5. PoolModel'
    BY <2>1, <2>2, <1>a, ServerAssumption DEF ServerInv, PoolModel, Pop, vars, clientVars,
       handlerVars, poolVars, mainVars, Handling, AllThreads
  <2>6. Freed'
    BY <2>1, <2>2 DEF ServerInv, Freed, Pop, vars, clientVars, handlerVars, poolVars, mainVars,
       Busy, Handling
  <2> QED BY <2>3, <2>4, <2>5, <2>6
<1>d. ASSUME queue # <<>> PROVE TypeOK' /\ PoolModel' /\ OnePlace' /\ Freed'
  <2>1. queue \in Seq(Conns \cup {Loop})
    BY DEF ServerInv, TypeOK
  <2>2. /\ queue' \in Seq(Conns \cup {Loop}) /\ Len(queue') = Len(queue) - 1
             /\ Len(queue) \in Nat \ {0}
        /\ \A i \in 1 .. Len(queue') : queue'[i] = queue[i + 1]
    BY SMTT(30), <1>d, <2>1 DEF Pop
  <2>3. queue[1] \in Conns \cup {Loop} /\ 1 \in 1 .. Len(queue)
    BY <2>1, <2>2
  <2>4. task' = [task EXCEPT ![t] = queue[1]] /\ pc' = [pc EXCEPT ![t] = "begin"]
    BY <1>d, <2>1 DEF Pop, Goto
  <2>5. pc'[t] = "begin" /\ task'[t] = queue[1]
    BY <1>a, <2>4 DEF ServerInv, TypeOK
  <2>6. TypeOK'
    <3>1. task' \in [AllThreads -> Conns \cup {Loop}]
      BY <2>3, <2>4 DEF ServerInv, TypeOK
    <3>2. pc' \in [AllThreads -> {"none", "poll", "idle", "begin", "loop", "end", "exit"} \cup Handling]
      BY <2>4 DEF ServerInv, TypeOK
    <3> QED BY <2>2, <3>1, <3>2 DEF ServerInv, TypeOK, Pop, vars, clientVars, handlerVars,
               poolVars, mainVars
  <2>7. \A y \in AllThreads : pc'[y] \in Busy => y = t \/ pc[y] \in Busy
    BY <1>b
  <2>8. \A i \in 1 .. Len(queue') : i + 1 \in 1 .. Len(queue) /\ i + 1 # 1
    BY <2>2
  <2>9. armed' = armed /\ sock' = sock /\ frees' = frees /\ mapped' = mapped /\ lost' = lost
            /\ main' = main /\ model' = model /\ threads' = threads
    BY DEF Pop, vars, clientVars, handlerVars, poolVars, mainVars
  <2>10. OnePlace'
    <3>1. \A x, y \in AllThreads : pc'[x] \in Busy /\ pc'[y] \in Busy /\ task'[x] = task'[y]
              /\ task'[x] # Loop => x = y
      BY <1>b, <2>3, <2>5, <2>7 DEF ServerInv, OnePlace
    <3>2. \A x \in AllThreads : pc'[x] \in Busy => task'[x] \notin armed
      BY <1>b, <2>3, <2>5, <2>7 DEF ServerInv, OnePlace
    <3>3. \A x \in AllThreads : pc'[x] \in Busy
              => (task'[x] # Loop => \A i \in 1 .. Len(queue') : queue'[i] # task'[x])
      BY <1>b, <2>2, <2>3, <2>5, <2>7, <2>8 DEF ServerInv, OnePlace
    <3>4. \A i, j \in 1 .. Len(queue') : queue'[i] = queue'[j] /\ queue'[i] # Loop => i = j
      <4>1. SUFFICES ASSUME NEW i \in 1 .. Len(queue'), NEW j \in 1 .. Len(queue'),
                                queue'[i] = queue'[j], queue'[i] # Loop PROVE i = j
        OBVIOUS
      <4>2. i + 1 = j + 1
        BY <2>2, <2>8, <4>1 DEF ServerInv, OnePlace
      <4> QED BY <4>2, <2>2
    <3>5. \A i \in 1 .. Len(queue') : queue'[i] \notin armed
      BY <2>2, <2>8 DEF ServerInv, OnePlace
    <3> QED BY <3>1, <3>2, <3>3, <3>4, <3>5, <2>9 DEF OnePlace
  <2>11. PoolModel'
    BY <1>a, <1>b, <2>5, <2>9, ServerAssumption DEF ServerInv, PoolModel, Handling, AllThreads
  <2>12. Freed'
    <3>1. \A c \in Conns : sock[c] = "none" \/ frees[c] > 0 =>
              \A x \in AllThreads : pc'[x] \in Busy => task'[x] # c
      <4>1. main \notin {"cleanup", "gone"}
        BY <1>a DEF ServerInv, PoolModel, PoolCounts
      <4> QED BY <4>1, <1>b, <2>3, <2>5, <2>7 DEF ServerInv, Freed
    <3>2. \A x \in AllThreads : pc'[x] = "free" => task'[x] \notin mapped
      BY <1>b, <2>5 DEF ServerInv, Freed
    <3>3. main \notin {"cleanup", "gone"} => \A c \in Conns : sock[c] = "none" \/ frees[c] > 0
              => \A i \in 1 .. Len(queue') : queue'[i] # c
      BY <2>2, <2>8 DEF ServerInv, Freed
    <3>4. /\ \A c \in Conns : sock[c] = "none" => frees[c] = 0 /\ c \notin mapped
          /\ \A c \in lost : frees[c] > 0 /\ (c \in mapped => frees[c] = 1)
          /\ \A c \in Conns \ lost : frees[c] <= 1 /\ (frees[c] = 1 => c \notin mapped)
          /\ \A c \in Conns : sock[c] = "none" \/ frees[c] > 0 => c \notin armed
      BY DEF ServerInv, Freed
    <3> QED BY <3>1, <3>2, <3>3, <3>4, <2>9 DEF Freed
  <2> QED BY <2>6, <2>10, <2>11, <2>12
<1>1. TypeOK'
  BY <1>c, <1>d
<1>2. OneModel'
  BY ServerAssumption DEF ServerInv, OneModel, Freed, Busy, TypeOK, AllThreads, Handling, Pop,
     Goto, clientVars, handlerVars, poolVars, mainVars
<1>3. PoolModel'
  BY <1>c, <1>d
<1>4. PoolCounts'
  <2>1. \A u \in PoolThreads : (u \in threads <=> pc[u] # "none")'
    BY ServerAssumption DEF ServerInv, PoolCounts, OneModel, PoolModel, TypeOK, AllThreads,
       Handling, Pop, Goto, clientVars, handlerVars, poolVars, mainVars
  <2>2. Working' = Working /\ active' = active
    BY ServerAssumption DEF ServerInv, Working, OneModel, PoolModel, PoolCounts, TypeOK,
       AllThreads, Handling, Pop, Goto, clientVars, handlerVars, poolVars, mainVars
  <2> QED BY <2>1, <2>2 DEF ServerInv, PoolCounts
<1>5. OnePlace'
  BY <1>c, <1>d
<1>6. Freed'
  BY <1>c, <1>d
<1>7. DbOutlives'
  BY ServerAssumption DEF ServerInv, DbOutlives, TypeOK, AllThreads, Handling, Pop, Goto,
     clientVars, handlerVars, poolVars, mainVars
<1>8. Halves'
  BY ServerAssumption DEF ServerInv, Halves, TypeOK, AllThreads, Handling, Pop, Goto,
     clientVars, handlerVars, poolVars, mainVars
<1> QED BY <1>1, <1>2, <1>3, <1>4, <1>5, <1>6, <1>7, <1>8 DEF ServerInv

LEMMA ThreadExitKeeps ==
  ASSUME ServerInv, NEW t \in PoolThreads, ThreadExit(t)
  PROVE  ServerInv'
<1> USE ServerAssumption DEF ThreadExit, Goto, clientVars, handlerVars, poolVars, mainVars
<1>1. TypeOK'
  BY DEF ServerInv, TypeOK
<1>2. OneModel'
  BY DEF ServerInv, OneModel
<1>3. PoolModel'
  BY DEF ServerInv, PoolModel, TypeOK, AllThreads, Handling
<1>4. PoolCounts'
  <2>1. \A u \in PoolThreads : (u \in threads <=> pc[u] # "none")'
    BY DEF ServerInv, PoolCounts, TypeOK, AllThreads
  <2>2. Working' = Working /\ active' = active
    BY DEF ServerInv, Working, TypeOK, AllThreads, Handling
  <2> QED BY <2>1, <2>2 DEF ServerInv, PoolCounts
<1>5. OnePlace'
  BY DEF ServerInv, OnePlace, TypeOK, AllThreads, Handling, Busy
<1>6. Freed'
  BY DEF ServerInv, Freed, TypeOK, AllThreads, Handling, Busy
<1>7. DbOutlives'
  BY DEF ServerInv, DbOutlives
<1>8. Halves'
  BY DEF ServerInv, Halves
<1> QED BY <1>1, <1>2, <1>3, <1>4, <1>5, <1>6, <1>7, <1>8 DEF ServerInv

LEMMA LoopEndKeeps ==
  ASSUME ServerInv, NEW t \in PoolThreads, LoopEnd(t)
  PROVE  ServerInv'
<1> USE ServerAssumption DEF LoopEnd, Goto, clientVars, handlerVars, poolVars, mainVars
<1>1. TypeOK'
  BY DEF ServerInv, TypeOK
<1>2. OneModel'
  BY DEF ServerInv, OneModel
<1>3. PoolModel'
  BY DEF ServerInv, PoolModel, TypeOK, AllThreads, Handling
<1>4. PoolCounts'
  <2>1. \A u \in PoolThreads : (u \in threads <=> pc[u] # "none")'
    BY DEF ServerInv, PoolCounts
  <2>2. Working' = Working /\ active' = active
    BY DEF ServerInv, Working
  <2> QED BY <2>1, <2>2 DEF ServerInv, PoolCounts
<1>5. OnePlace'
  BY DEF ServerInv, OnePlace, TypeOK, AllThreads, Handling, Busy
<1>6. Freed'
  BY DEF ServerInv, Freed, TypeOK, AllThreads, Handling, Busy
<1>7. DbOutlives'
  BY DEF ServerInv, DbOutlives
<1>8. Halves'
  BY DEF ServerInv, Halves
<1> QED BY <1>1, <1>2, <1>3, <1>4, <1>5, <1>6, <1>7, <1>8 DEF ServerInv

LEMMA WorkerPollKeeps ==
  ASSUME ServerInv, NEW c \in Conns, WorkerPoll(c)
  PROVE  ServerInv'
<1> USE ServerAssumption DEF WorkerPoll, Goto, clientVars, handlerVars, poolVars, mainVars
<1>a. model = "one" /\ task[c] = c /\ c \in mapped /\ lost = {} /\ c \in AllThreads
  BY ModelKnown DEF ServerInv, OneModel, PoolModel, AllThreads
<1>b. frees[c] = 0 /\ sock[c] # "none"
  BY <1>a DEF ServerInv, Freed, TypeOK
<1>1. TypeOK'
  <2>1. /\ model' \in Models /\ main' \in {"init", "start", "listen", "poll", "stop", "await", "cleanup", "gone"}
        /\ state' \in {"NEW", "RUNNING", "TERMINATING"}
        /\ sock' \in [Conns -> {"none", "open", "half", "closed"}]
    BY DEF ServerInv, TypeOK, AllThreads, Handling
  <2>2. started' \in BOOLEAN /\ dbOpen' \in BOOLEAN /\ loopexit' \in BOOLEAN
            /\ running' \in [Conns -> BOOLEAN]
    BY DEF ServerInv, TypeOK, AllThreads, Handling
  <2>3. inbox' \in [Conns -> Nat] /\ sends' \in [Conns -> Nat] /\ replies' \in [Conns -> Nat]
    BY DEF ServerInv, TypeOK, AllThreads, Handling
  <2>4. \A d \in Conns : inbox'[d] <= sends'[d] /\ sends'[d] <= SendBound[d]
    BY ServerAssumption DEF ServerInv, Halves, TypeOK, AllThreads, Handling
  <2>5. frees' \in [Conns -> 0 .. 2]
    BY DEF ServerInv, OneModel, PoolModel, Freed, Busy, TypeOK, AllThreads, Handling
  <2>6. /\ lost' \subseteq Conns /\ mapped' \subseteq Conns /\ armed' \subseteq Conns
        /\ full' \subseteq Conns /\ dropped' \subseteq Conns
    BY DEF ServerInv, OneModel, PoolModel, TypeOK, AllThreads, Handling
  <2>7. threads' \subseteq PoolThreads /\ core' \subseteq threads'
            /\ active' \in 0 .. Cardinality(PoolThreads)
    BY DEF ServerInv, TypeOK, AllThreads, Handling
  <2>8. queue' \in Seq(Conns \cup {Loop})
    BY DEF ServerInv, TypeOK, AllThreads, Handling
  <2>9. pc' \in [AllThreads -> {"none", "poll", "idle", "begin", "loop", "end", "exit"} \cup Handling]
    BY ZenonT(30) DEF ServerInv, TypeOK, AllThreads, Handling
  <2>10. task' \in [AllThreads -> Conns \cup {Loop}]
    BY DEF ServerInv, TypeOK, AllThreads, Handling
  <2> QED BY <2>1, <2>2, <2>3, <2>4, <2>5, <2>6, <2>7, <2>8, <2>9, <2>10 DEF TypeOK
<1>2. OneModel'
  BY DEF ServerInv, OneModel, TypeOK, AllThreads
<1>3. PoolModel'
  BY DEF ServerInv, PoolModel
<1>4. PoolCounts'
  <2>1. \A u \in PoolThreads : (u \in threads <=> pc[u] # "none")'
    BY DEF ServerInv, PoolCounts, TypeOK, AllThreads
  <2>2. Working' = Working /\ active' = active
    BY DEF ServerInv, Working, TypeOK, AllThreads, Handling
  <2> QED BY <2>1, <2>2 DEF ServerInv, PoolCounts
<1>5. OnePlace'
  BY <1>2, <1>a, OneThreadEach
<1>6. Freed'
  <2>1. \A y \in AllThreads : pc'[y] = "free" => pc[y] = "free"
    BY <1>a DEF ServerInv, TypeOK, AllThreads, Handling
  <2>2. \A y \in AllThreads : pc'[y] \in Busy => pc[y] \in Busy \/ y = c
    BY <1>a DEF ServerInv, Busy, TypeOK, AllThreads, Handling
  <2> QED BY <1>a, <1>b, <2>1, <2>2 DEF ServerInv, Freed
<1>7. DbOutlives'
  BY DEF ServerInv, DbOutlives
<1>8. Halves'
  BY DEF ServerInv, Halves
<1> QED BY <1>1, <1>2, <1>3, <1>4, <1>5, <1>6, <1>7, <1>8 DEF ServerInv

LEMMA ReadEventKeeps ==
  ASSUME ServerInv, NEW x \in AllThreads, ReadEvent(x)
  PROVE  ServerInv'
<1> USE ServerAssumption DEF ReadEvent, Goto, clientVars, handlerVars, poolVars, mainVars
<1>1. TypeOK'
  <2>1. /\ model' \in Models /\ main' \in {"init", "start", "listen", "poll", "stop", "await", "cleanup", "gone"}
        /\ state' \in {"NEW", "RUNNING", "TERMINATING"}
        /\ sock' \in [Conns -> {"none", "open", "half", "closed"}]
    BY DEF ServerInv, TypeOK, AllThreads, Handling
  <2>2. started' \in BOOLEAN /\ dbOpen' \in BOOLEAN /\ loopexit' \in BOOLEAN
            /\ running' \in [Conns -> BOOLEAN]
    BY DEF ServerInv, TypeOK, AllThreads, Handling
  <2>3. inbox' \in [Conns -> Nat] /\ sends' \in [Conns -> Nat] /\ replies' \in [Conns -> Nat]
    <3>1. task[x] \in Conns /\ inbox \in [Conns -> Nat] /\ UNCHANGED <<sends, replies>>
      BY Holder DEF ServerInv, TypeOK, AllThreads, Handling
    <3>2. inbox' = inbox \/ \E n \in 1 .. inbox[task[x]] : inbox' = [inbox EXCEPT ![task[x]] = @ - n]
      OBVIOUS
    <3>3. \A n \in 1 .. inbox[task[x]] : inbox[task[x]] - n \in Nat
      BY <3>1
    <3>4. inbox' \in [Conns -> Nat]
      BY ONLY <3>1, <3>2, <3>3
    <3> QED BY <3>1, <3>4 DEF ServerInv, TypeOK
  <2>4. \A d \in Conns : inbox'[d] <= sends'[d] /\ sends'[d] <= SendBound[d]
    <3>1. task[x] \in Conns /\ inbox \in [Conns -> Nat]
      BY Holder DEF ServerInv, TypeOK, AllThreads, Handling
    <3>3. \A d \in Conns : inbox'[d] \in Nat /\ inbox'[d] <= inbox[d]
      <4>1. CASE UNCHANGED inbox
        BY <3>1, <4>1
      <4>2. CASE \E n \in 1 .. inbox[task[x]] : inbox' = [inbox EXCEPT ![task[x]] = @ - n]
        <5>1. PICK n \in 1 .. inbox[task[x]] : inbox' = [inbox EXCEPT ![task[x]] = @ - n]
          BY <4>2
        <5>2. inbox[task[x]] \in Nat /\ n \in Nat /\ n <= inbox[task[x]]
          BY <3>1
        <5>3. \A d \in Conns : inbox'[d] = IF d = task[x] THEN inbox[d] - n ELSE inbox[d]
          BY <3>1, <5>1
        <5>4. \A d \in Conns : inbox[d] \in Nat
          BY <3>1
        <5> QED BY ONLY <5>2, <5>3, <5>4
      <4> QED BY <4>1, <4>2
    <3>4. sends' = sends
      OBVIOUS
    <3>5. \A d \in Conns : inbox[d] <= sends[d] /\ sends[d] <= SendBound[d] /\ inbox[d] \in Nat
              /\ sends[d] \in Nat
      BY DEF ServerInv, TypeOK
    <3> QED BY <3>3, <3>4, <3>5
  <2>5. frees' \in [Conns -> 0 .. 2]
    BY DEF ServerInv, OneModel, PoolModel, Freed, Busy, TypeOK, AllThreads, Handling
  <2>6. /\ lost' \subseteq Conns /\ mapped' \subseteq Conns /\ armed' \subseteq Conns
        /\ full' \subseteq Conns /\ dropped' \subseteq Conns
    BY DEF ServerInv, OneModel, PoolModel, TypeOK, AllThreads, Handling
  <2>7. threads' \subseteq PoolThreads /\ core' \subseteq threads'
            /\ active' \in 0 .. Cardinality(PoolThreads)
    BY DEF ServerInv, TypeOK, AllThreads, Handling
  <2>8. queue' \in Seq(Conns \cup {Loop})
    BY DEF ServerInv, TypeOK, AllThreads, Handling
  <2>9. pc' \in [AllThreads -> {"none", "poll", "idle", "begin", "loop", "end", "exit"} \cup Handling]
    BY ZenonT(30) DEF ServerInv, TypeOK, AllThreads, Handling
  <2>10. task' \in [AllThreads -> Conns \cup {Loop}]
    BY DEF ServerInv, TypeOK, AllThreads, Handling
  <2> QED BY <2>1, <2>2, <2>3, <2>4, <2>5, <2>6, <2>7, <2>8, <2>9, <2>10 DEF TypeOK
<1>2. OneModel'
  BY SMTT(30) DEF ServerInv, OneModel, TypeOK, AllThreads
<1>3. PoolModel'
  BY DEF ServerInv, PoolModel, TypeOK, AllThreads, Handling
<1>4. PoolCounts'
  <2>1. \A u \in PoolThreads : (u \in threads <=> pc[u] # "none")'
    BY DEF ServerInv, PoolCounts, TypeOK, AllThreads
  <2>2. Working' = Working /\ active' = active
    BY DEF ServerInv, Working, TypeOK, AllThreads, Handling
  <2> QED BY <2>1, <2>2 DEF ServerInv, PoolCounts
<1>5. OnePlace'
  <2>1. \A y \in AllThreads : pc'[y] \in Busy => pc[y] \in Busy
    BY DEF ServerInv, Busy, TypeOK, AllThreads, Handling
  <2>2. queue' = queue /\ task' = task /\ armed' \subseteq armed
    OBVIOUS
  <2> QED BY <2>1, <2>2, PlaceKept
<1>6. Freed'
  <2>1. \A y \in AllThreads :
          (pc'[y] \in Busy => pc[y] \in Busy) /\ (pc'[y] = "free" => pc[y] = "free")
    BY DEF ServerInv, Busy, TypeOK, AllThreads, Handling
  <2>2. UNCHANGED <<frees, lost, mapped, armed, sock, main, queue, task>>
    OBVIOUS
  <2> QED BY ONLY ServerInv, <2>1, <2>2 DEF ServerInv, Freed
<1>7. DbOutlives'
  BY DEF ServerInv, DbOutlives
<1>8. Halves'
  BY DEF ServerInv, Halves
<1> QED BY <1>1, <1>2, <1>3, <1>4, <1>5, <1>6, <1>7, <1>8 DEF ServerInv

LEMMA RunSqlKeeps ==
  ASSUME ServerInv, NEW x \in AllThreads, RunSql(x)
  PROVE  ServerInv'
<1> USE ServerAssumption DEF RunSql, Goto, clientVars, handlerVars, poolVars, mainVars
<1>1. TypeOK'
  <2>1. task[x] \in Conns
    BY Holder DEF Handling
  <2>2. replies' \in [Conns -> Nat]
    BY <2>1 DEF ServerInv, TypeOK
  <2>3. pc' \in [AllThreads -> {"none", "poll", "idle", "begin", "loop", "end", "exit"} \cup Handling]
    BY DEF ServerInv, TypeOK, AllThreads, Handling
  <2>4. UNCHANGED <<model, main, started, dbOpen, sock, inbox, sends, full, dropped, frees, lost,
                    mapped, running, armed, loopexit, state, threads, core, queue, active, task>>
    OBVIOUS
  <2> QED BY ONLY ServerInv, <2>2, <2>3, <2>4 DEF ServerInv, TypeOK
<1>2. OneModel'
  BY DEF ServerInv, OneModel
<1>3. PoolModel'
  BY DEF ServerInv, PoolModel, TypeOK, AllThreads
<1>4. PoolCounts'
  <2>1. \A u \in PoolThreads : (u \in threads <=> pc[u] # "none")'
    BY DEF ServerInv, PoolCounts
  <2>2. Working' = Working /\ active' = active
    BY DEF ServerInv, Working, TypeOK, AllThreads, Handling, OneModel, PoolModel
  <2> QED BY <2>1, <2>2 DEF ServerInv, PoolCounts
<1>5. OnePlace'
  <2>1. \A y \in AllThreads : pc'[y] \in Busy => pc[y] \in Busy
    BY DEF ServerInv, Busy, TypeOK, AllThreads, Handling
  <2>2. queue' = queue /\ task' = task /\ armed' \subseteq armed
    OBVIOUS
  <2> QED BY <2>1, <2>2, PlaceKept
<1>6. Freed'
  BY DEF ServerInv, Freed, TypeOK, AllThreads, Handling, Busy
<1>7. DbOutlives'
  BY DEF ServerInv, DbOutlives
<1>8. Halves'
  BY DEF ServerInv, Halves
<1> QED BY <1>1, <1>2, <1>3, <1>4, <1>5, <1>6, <1>7, <1>8 DEF ServerInv

LEMMA RearmKeeps ==
  ASSUME ServerInv, NEW t \in PoolThreads, Rearm(t)
  PROVE  ServerInv'
<1> USE ServerAssumption DEF Rearm, Goto, clientVars, handlerVars, poolVars, mainVars
<1>1. TypeOK'
  <2>1. /\ model' \in Models /\ main' \in {"init", "start", "listen", "poll", "stop", "await", "cleanup", "gone"}
        /\ state' \in {"NEW", "RUNNING", "TERMINATING"}
        /\ sock' \in [Conns -> {"none", "open", "half", "closed"}]
    BY DEF ServerInv, TypeOK, AllThreads, Handling
  <2>2. started' \in BOOLEAN /\ dbOpen' \in BOOLEAN /\ loopexit' \in BOOLEAN
            /\ running' \in [Conns -> BOOLEAN]
    BY DEF ServerInv, TypeOK, AllThreads, Handling
  <2>3. inbox' \in [Conns -> Nat] /\ sends' \in [Conns -> Nat] /\ replies' \in [Conns -> Nat]
    BY DEF ServerInv, TypeOK, AllThreads, Handling
  <2>4. \A d \in Conns : inbox'[d] <= sends'[d] /\ sends'[d] <= SendBound[d]
    BY ServerAssumption DEF ServerInv, Halves, TypeOK, AllThreads, Handling
  <2>5. frees' \in [Conns -> 0 .. 2]
    BY DEF ServerInv, OneModel, PoolModel, Freed, Busy, TypeOK, AllThreads, Handling
  <2>6. /\ lost' \subseteq Conns /\ mapped' \subseteq Conns /\ armed' \subseteq Conns
        /\ full' \subseteq Conns /\ dropped' \subseteq Conns
    BY Holder DEF ServerInv, TypeOK, AllThreads, Handling
  <2>7. threads' \subseteq PoolThreads /\ core' \subseteq threads'
            /\ active' \in 0 .. Cardinality(PoolThreads)
    BY DEF ServerInv, TypeOK, AllThreads, Handling
  <2>8. queue' \in Seq(Conns \cup {Loop})
    BY DEF ServerInv, TypeOK, AllThreads, Handling
  <2>9. pc' \in [AllThreads -> {"none", "poll", "idle", "begin", "loop", "end", "exit"} \cup Handling]
    BY DEF ServerInv, TypeOK, AllThreads, Handling
  <2>10. task' \in [AllThreads -> Conns \cup {Loop}]
    BY DEF ServerInv, TypeOK, AllThreads, Handling
  <2> QED BY <2>1, <2>2, <2>3, <2>4, <2>5, <2>6, <2>7, <2>8, <2>9, <2>10 DEF TypeOK
<1>2. OneModel'
  BY DEF ServerInv, OneModel
<1>3. PoolModel'
  BY DEF ServerInv, PoolModel, TypeOK, AllThreads, Handling
<1>4. PoolCounts'
  <2>1. \A u \in PoolThreads : (u \in threads <=> pc[u] # "none")'
    BY DEF ServerInv, PoolCounts, TypeOK, AllThreads
  <2>2. Working' = Working /\ active' = active
    BY DEF ServerInv, Working, TypeOK, AllThreads, Handling
  <2> QED BY <2>1, <2>2 DEF ServerInv, PoolCounts
<1>5. OnePlace'
  <2>1. task[t] # Loop /\ pc[t] \in Busy /\ t \in AllThreads
    BY Holder DEF Handling, Busy, AllThreads
  <2>2. queue' = queue /\ task' = task
    OBVIOUS
  <2>3. CASE pc' = [pc EXCEPT ![t] = "end"] /\ armed' = armed \cup {task[t]}
    <3>1. \A y \in AllThreads : pc'[y] \in Busy => pc[y] \in Busy /\ y # t
      BY <2>1, <2>3 DEF ServerInv, Busy, TypeOK, AllThreads, Handling
    <3> QED BY <2>1, <2>2, <2>3, <3>1 DEF ServerInv, OnePlace
  <2>4. CASE pc' = [pc EXCEPT ![t] = "erase"] /\ armed' = armed
    <3>1. \A y \in AllThreads : pc'[y] \in Busy => pc[y] \in Busy
      BY <2>1, <2>4 DEF ServerInv, Busy, TypeOK, AllThreads, Handling
    <3> QED BY <2>2, <2>4, <3>1, PlaceKept
  <2> QED BY <2>3, <2>4
<1>6. Freed'
  BY DEF ServerInv, Freed, TypeOK, AllThreads, Handling, Busy
<1>7. DbOutlives'
  BY DEF ServerInv, DbOutlives
<1>8. Halves'
  BY DEF ServerInv, Halves
<1> QED BY <1>1, <1>2, <1>3, <1>4, <1>5, <1>6, <1>7, <1>8 DEF ServerInv

LEMMA EraseKeeps ==
  ASSUME ServerInv, NEW x \in AllThreads, EraseConnection(x)
  PROVE  ServerInv'
<1> USE ServerAssumption DEF EraseConnection, Goto, clientVars, handlerVars, poolVars, mainVars
<1>1. TypeOK'
  BY DEF ServerInv, TypeOK, AllThreads, Handling
<1>2. OneModel'
  <2>1. task[x] \in Conns /\ frees[task[x]] = 0 /\ sock[task[x]] # "none"
            /\ (x \in Conns => task[x] = x)
        /\ (x \in PoolThreads => model = "pool")
    BY Holder DEF Handling
  <2>2. SUFFICES ASSUME model = "one" PROVE OneModel'
    BY DEF OneModel
  <2>3. x \in Conns
    BY <2>1, <2>2 DEF AllThreads
  <2>4. \A y \in AllThreads : pc'[y] = IF y = x THEN "free" ELSE pc[y]
    BY DEF ServerInv, TypeOK, AllThreads, Handling
  <2>5. mapped' = mapped \ {x} /\ armed' = {}
    BY <2>1, <2>2, <2>3 DEF ServerInv, OneModel
  <2> QED BY <2>1, <2>2, <2>3, <2>4, <2>5, ServerAssumption DEF ServerInv, OneModel, AllThreads
<1>3. PoolModel'
  BY DEF ServerInv, PoolModel, TypeOK, AllThreads
<1>4. PoolCounts'
  <2>1. \A u \in PoolThreads : (u \in threads <=> pc[u] # "none")'
    BY DEF ServerInv, PoolCounts
  <2>2. Working' = Working /\ active' = active
    BY DEF ServerInv, Working, TypeOK, AllThreads, Handling
  <2> QED BY <2>1, <2>2 DEF ServerInv, PoolCounts
<1>5. OnePlace'
  <2>1. \A y \in AllThreads : pc'[y] \in Busy => pc[y] \in Busy
    BY DEF ServerInv, Busy, TypeOK, AllThreads, Handling
  <2>2. queue' = queue /\ task' = task /\ armed' \subseteq armed
    OBVIOUS
  <2> QED BY <2>1, <2>2, PlaceKept
<1>6. Freed'
  BY DEF ServerInv, Freed, TypeOK, AllThreads, Handling, Busy
<1>7. DbOutlives'
  BY DEF ServerInv, DbOutlives
<1>8. Halves'
  BY DEF ServerInv, Halves
<1> QED BY <1>1, <1>2, <1>3, <1>4, <1>5, <1>6, <1>7, <1>8 DEF ServerInv

LEMMA FreeKeeps ==
  ASSUME ServerInv, NEW x \in AllThreads, FreeConnection(x)
  PROVE  ServerInv'
<1> USE ServerAssumption DEF FreeConnection, Goto, clientVars, handlerVars, poolVars, mainVars
<1>a. /\ task[x] \in Conns \ lost /\ frees[task[x]] = 0 /\ sock[task[x]] # "none"
           /\ task[x] \notin armed
      /\ x \in Conns => model = "one" /\ task[x] = x
      /\ x \in PoolThreads => model = "pool"
  BY Holder DEF Handling
<1>b. \A d \in Conns : frees'[d] = IF d = task[x] THEN 1 ELSE frees[d]
  BY <1>a DEF ServerInv, TypeOK
<1>c. \A y \in AllThreads : y # x => pc'[y] = pc[y]
  BY DEF ServerInv, TypeOK, AllThreads, Handling
<1>1. TypeOK'
  <2>1. /\ model' \in Models /\ main' \in {"init", "start", "listen", "poll", "stop", "await", "cleanup", "gone"}
        /\ state' \in {"NEW", "RUNNING", "TERMINATING"}
        /\ sock' \in [Conns -> {"none", "open", "half", "closed"}]
    BY DEF ServerInv, TypeOK, AllThreads, Handling
  <2>2. started' \in BOOLEAN /\ dbOpen' \in BOOLEAN /\ loopexit' \in BOOLEAN
            /\ running' \in [Conns -> BOOLEAN]
    BY DEF ServerInv, TypeOK, AllThreads, Handling
  <2>3. inbox' \in [Conns -> Nat] /\ sends' \in [Conns -> Nat] /\ replies' \in [Conns -> Nat]
    BY DEF ServerInv, TypeOK, AllThreads, Handling
  <2>4. \A d \in Conns : inbox'[d] <= sends'[d] /\ sends'[d] <= SendBound[d]
    BY ServerAssumption DEF ServerInv, Halves, TypeOK, AllThreads, Handling
  <2>5. frees' \in [Conns -> 0 .. 2]
    BY Holder DEF ServerInv, TypeOK, AllThreads, Handling
  <2>6. /\ lost' \subseteq Conns /\ mapped' \subseteq Conns /\ armed' \subseteq Conns
        /\ full' \subseteq Conns /\ dropped' \subseteq Conns
    BY DEF ServerInv, OneModel, PoolModel, TypeOK, AllThreads, Handling
  <2>7. threads' \subseteq PoolThreads /\ core' \subseteq threads'
            /\ active' \in 0 .. Cardinality(PoolThreads)
    BY DEF ServerInv, TypeOK, AllThreads, Handling
  <2>8. queue' \in Seq(Conns \cup {Loop})
    BY DEF ServerInv, TypeOK, AllThreads, Handling
  <2>9. pc' \in [AllThreads -> {"none", "poll", "idle", "begin", "loop", "end", "exit"} \cup Handling]
    BY DEF ServerInv, TypeOK, AllThreads, Handling
  <2>10. task' \in [AllThreads -> Conns \cup {Loop}]
    BY DEF ServerInv, TypeOK, AllThreads, Handling
  <2> QED BY <2>1, <2>2, <2>3, <2>4, <2>5, <2>6, <2>7, <2>8, <2>9, <2>10 DEF TypeOK
<1>2. OneModel'
  BY DEF ServerInv, OneModel, TypeOK, AllThreads
<1>3. PoolModel'
  <2>1. SUFFICES ASSUME model = "pool" PROVE PoolModel'
    BY DEF PoolModel
  <2>2. pc'[x] = "end" /\ x \in PoolThreads
    BY <1>a, <2>1 DEF ServerInv, TypeOK, AllThreads, Handling
  <2>3. \A c \in Conns : frees[c] > 0 => frees'[c] > 0
    BY <1>b
  <2>4. \A c \in Conns : c # x /\ c \in AllThreads
    BY <2>2, ServerAssumption DEF AllThreads
  <2>5. \A t \in PoolThreads : t \in AllThreads
    BY DEF AllThreads
  <2>6. \A c \in Conns :
          sock[c] = "none" \/ c \in mapped \/ frees'[c] > 0
              \/ \E t \in PoolThreads : pc'[t] = "free" /\ task[t] = c
    BY <1>a, <1>b, <1>c, <2>1, <2>3, <2>5 DEF ServerInv, PoolModel
  <2>7. main \in {"cleanup", "gone"} => \A c \in Conns : sock[c] = "none" \/ frees'[c] > 0
    BY <2>1, <2>3 DEF ServerInv, PoolModel
  <2>8. \A t \in PoolThreads : pc'[t] # "poll" /\ (pc'[t] \in Handling => task[t] \in Conns)
    BY <1>c, <2>1, <2>2, <2>5 DEF ServerInv, PoolModel, Handling
  <2> QED BY <1>c, <2>1, <2>4, <2>6, <2>7, <2>8 DEF ServerInv, PoolModel
<1>4. PoolCounts'
  <2>1. \A u \in PoolThreads : (u \in threads <=> pc[u] # "none")'
    BY DEF ServerInv, PoolCounts, TypeOK, AllThreads, Handling, OneModel, PoolModel
  <2>2. Working' = Working /\ active' = active
    BY DEF ServerInv, Working, TypeOK, AllThreads, Handling, OneModel, PoolModel
  <2> QED BY <2>1, <2>2 DEF ServerInv, PoolCounts
<1>5. OnePlace'
  BY DEF ServerInv, OnePlace, TypeOK, AllThreads, Handling, Busy
<1>6. Freed'
  <2>1. \A y \in AllThreads : pc'[y] \in Busy => y # x /\ pc[y] \in Busy
    BY <1>c DEF ServerInv, Busy, TypeOK, AllThreads, Handling
  <2>2. pc[x] \in Busy /\ task[x] # Loop /\ task[x] \notin mapped
    BY <1>a, ServerAssumption DEF ServerInv, Freed, Busy, Handling
  <2>3. \A y \in AllThreads : pc'[y] \in Busy => task[y] # task[x]
    BY <2>1, <2>2 DEF ServerInv, OnePlace
  <2>4. \A i \in 1 .. Len(queue) : queue[i] # task[x]
    BY <2>2 DEF ServerInv, OnePlace
  <2>5. \A y \in AllThreads : pc'[y] = "free" => pc'[y] \in Busy /\ pc[y] = "free"
    BY <1>c, <2>1 DEF Busy, Handling
  <2>6. lost \subseteq Conns /\ lost' = lost /\ mapped' = mapped /\ armed' = armed /\ sock' = sock
            /\ task' = task /\ queue' = queue /\ main' = main
    BY DEF ServerInv, TypeOK
  <2>7. frees \in [Conns -> 0 .. 2]
    BY DEF ServerInv, TypeOK
  <2>8. \A c \in Conns : (sock[c] = "none" => frees'[c] = 0 /\ c \notin mapped)
    BY <1>a, <1>b DEF ServerInv, Freed
  <2>9. \A c \in lost : frees'[c] > 0 /\ (c \in mapped => frees'[c] = 1)
    BY <1>a, <1>b, <2>6 DEF ServerInv, Freed
  <2>10. \A c \in Conns \ lost : frees'[c] <= 1 /\ (frees'[c] = 1 => c \notin mapped)
    BY <1>a, <1>b, <2>2 DEF ServerInv, Freed
  <2>11. \A c \in Conns : sock[c] = "none" \/ frees'[c] > 0 =>
       /\ c \notin armed
       /\ \A y \in AllThreads : pc'[y] \in Busy => task[y] # c
       /\ main \notin {"cleanup", "gone"} => \A i \in 1 .. Len(queue) : queue[i] # c
    BY <1>a, <1>b, <2>1, <2>3, <2>4 DEF ServerInv, Freed
  <2> QED BY <2>5, <2>6, <2>8, <2>9, <2>10, <2>11 DEF ServerInv, Freed
<1>7. DbOutlives'
  BY DEF ServerInv, DbOutlives
<1>8. Halves'
  BY DEF ServerInv, Halves
<1> QED BY <1>1, <1>2, <1>3, <1>4, <1>5, <1>6, <1>7, <1>8 DEF ServerInv

LEMMA PollTimeoutKeeps ==
  ASSUME ServerInv, PollTimeout
  PROVE  ServerInv'
<1> USE ServerAssumption DEF PollTimeout, AfterPoll, clientVars, handlerVars, poolVars, mainVars
<1>1. TypeOK'
  BY DEF ServerInv, TypeOK
<1>2. OneModel'
  BY DEF ServerInv, OneModel
<1>3. PoolModel'
  BY DEF ServerInv, PoolModel
<1>4. PoolCounts'
  <2>1. \A u \in PoolThreads : (u \in threads <=> pc[u] # "none")'
    BY DEF ServerInv, PoolCounts
  <2>2. Working' = Working /\ active' = active
    BY DEF ServerInv, Working
  <2> QED BY <2>1, <2>2 DEF ServerInv, PoolCounts
<1>5. OnePlace'
  BY DEF ServerInv, OnePlace
<1>6. Freed'
  BY DEF ServerInv, Freed
<1>7. DbOutlives'
  BY DEF ServerInv, DbOutlives
<1>8. Halves'
  BY DEF ServerInv, Halves
<1> QED BY <1>1, <1>2, <1>3, <1>4, <1>5, <1>6, <1>7, <1>8 DEF ServerInv

LEMMA AcceptKeeps ==
  ASSUME ServerInv, NEW c \in Conns, Accept(c)
  PROVE  ServerInv'
<1>a. frees[c] = 0 /\ c \notin mapped /\ c \notin armed /\ c \notin lost /\ c \in AllThreads
          /\ sock[c] = "none"
      /\ main \notin {"cleanup", "gone"} /\ main' \notin {"cleanup", "gone"}
      /\ (\A x \in AllThreads : pc[x] \in Busy => task[x] # c)
      /\ (\A i \in 1 .. Len(queue) : queue[i] # c)
  BY DEF ServerInv, Freed, Accept, AllThreads, AfterPoll
<1>1. TypeOK'
  <2>1. /\ model' \in Models /\ main' \in {"init", "start", "listen", "poll", "stop", "await", "cleanup", "gone"}
        /\ state' \in {"NEW", "RUNNING", "TERMINATING"}
        /\ sock' \in [Conns -> {"none", "open", "half", "closed"}]
    BY DEF ServerInv, TypeOK, AllThreads, Handling, Accept, AfterPoll, NewWorker, NewEvent,
       Goto, vars, clientVars, handlerVars, poolVars, mainVars
  <2>2. started' \in BOOLEAN /\ dbOpen' \in BOOLEAN /\ loopexit' \in BOOLEAN
            /\ running' \in [Conns -> BOOLEAN]
    BY DEF ServerInv, TypeOK, AllThreads, Handling, Accept, AfterPoll, NewWorker, NewEvent,
       Goto, vars, clientVars, handlerVars, poolVars, mainVars
  <2>3. inbox' \in [Conns -> Nat] /\ sends' \in [Conns -> Nat] /\ replies' \in [Conns -> Nat]
    BY DEF ServerInv, TypeOK, AllThreads, Handling, Accept, AfterPoll, NewWorker, NewEvent,
       Goto, vars, clientVars, handlerVars, poolVars, mainVars
  <2>4. \A d \in Conns : inbox'[d] <= sends'[d] /\ sends'[d] <= SendBound[d]
    BY ServerAssumption DEF ServerInv, Halves, TypeOK, AllThreads, Handling, Accept, AfterPoll,
       NewWorker, NewEvent, Goto, vars, clientVars, handlerVars, poolVars, mainVars
  <2>5. frees' \in [Conns -> 0 .. 2]
    <3>1. frees' = frees \/ frees' = [frees EXCEPT ![c] = @ + 1]
      BY DEF Accept, NewWorker, NewEvent
    <3>2. frees[c] + 1 \in 0 .. 2
      BY <1>a
    <3> QED BY <3>1, <3>2 DEF ServerInv, TypeOK
  <2>6. /\ lost' \subseteq Conns /\ mapped' \subseteq Conns /\ armed' \subseteq Conns
        /\ full' \subseteq Conns /\ dropped' \subseteq Conns
    BY DEF ServerInv, OneModel, PoolModel, TypeOK, AllThreads, Handling, Accept, AfterPoll,
       NewWorker, NewEvent, Goto, vars, clientVars, handlerVars, poolVars, mainVars
  <2>7. threads' \subseteq PoolThreads /\ core' \subseteq threads'
            /\ active' \in 0 .. Cardinality(PoolThreads)
    BY DEF ServerInv, TypeOK, AllThreads, Handling, Accept, AfterPoll, NewWorker, NewEvent,
       Goto, vars, clientVars, handlerVars, poolVars, mainVars
  <2>8. queue' \in Seq(Conns \cup {Loop})
    BY DEF ServerInv, TypeOK, AllThreads, Handling, Accept, AfterPoll, NewWorker, NewEvent,
       Goto, vars, clientVars, handlerVars, poolVars, mainVars
  <2>9. pc' \in [AllThreads -> {"none", "poll", "idle", "begin", "loop", "end", "exit"} \cup Handling]
    BY DEF ServerInv, TypeOK, AllThreads, Handling, Accept, AfterPoll, NewWorker, NewEvent,
       Goto, vars, clientVars, handlerVars, poolVars, mainVars
  <2>10. task' \in [AllThreads -> Conns \cup {Loop}]
    <3>1. c \in AllThreads
      BY DEF AllThreads
    <3>2. task' = task \/ task' = [task EXCEPT ![c] = c]
      BY DEF Accept, NewWorker, NewEvent
    <3> QED BY <3>1, <3>2 DEF ServerInv, TypeOK
  <2> QED BY <2>1, <2>2, <2>3, <2>4, <2>5, <2>6, <2>7, <2>8, <2>9, <2>10 DEF TypeOK
<1>2. OneModel'
  BY ServerAssumption DEF ServerInv, OneModel, Freed, Busy, TypeOK, AllThreads, Handling,
     Accept, AfterPoll, NewWorker, NewEvent, Goto, clientVars, handlerVars, poolVars, mainVars
<1>3. PoolModel'
  BY ServerAssumption DEF ServerInv, PoolModel, PoolCounts, Freed, Busy, TypeOK, AllThreads,
     Handling, Accept, AfterPoll, NewWorker, NewEvent, Goto, clientVars, handlerVars, poolVars,
     mainVars
<1>4. PoolCounts'
  <2>1. \A u \in PoolThreads : (u \in threads <=> pc[u] # "none")'
    BY ServerAssumption DEF ServerInv, PoolCounts, OneModel, PoolModel, TypeOK, AllThreads,
       Handling, Accept, AfterPoll, NewWorker, NewEvent, Goto, clientVars, handlerVars, poolVars,
       mainVars
  <2>2. Working' = Working /\ active' = active
    BY ServerAssumption DEF ServerInv, Working, OneModel, PoolModel, PoolCounts, TypeOK,
       AllThreads, Handling, Accept, AfterPoll, NewWorker, NewEvent, Goto, clientVars, handlerVars,
       poolVars, mainVars
  <2> QED BY <2>1, <2>2 DEF ServerInv, PoolCounts
<1>5. OnePlace'
  <2>1. CASE model = "one"
    BY <1>2, <2>1, OneThreadEach DEF Accept
  <2>2. CASE model # "one"
    <3>1. pc' = pc /\ task' = task /\ queue' = queue /\ armed' \subseteq armed \cup {c}
      BY <2>2 DEF Accept, NewEvent, poolVars
    <3> QED BY <1>a, <3>1 DEF ServerInv, OnePlace
  <2> QED BY <2>1, <2>2
<1>6. Freed'
  <2>1. \A x \in AllThreads : (pc'[x] \in Busy => pc[x] \in Busy /\ task'[x] = task[x]
            /\ task'[x] # c) /\ (pc'[x] = "free" => pc'[x] \in Busy /\ pc[x] = "free")
    <3>1. CASE model = "one"
      <4>1. \A y \in AllThreads : pc'[y] = (IF y = c THEN "poll" ELSE pc[y])
                /\ task'[y] = (IF y = c THEN c ELSE task[y])
        BY <3>1 DEF ServerInv, TypeOK, Accept, NewWorker, Goto
      <4> QED BY <4>1, <1>a DEF Busy, Handling
    <3>2. CASE model # "one"
      <4>1. pc' = pc /\ task' = task
        BY <3>2 DEF Accept, NewEvent
      <4> QED BY <4>1, <1>a DEF Busy, Handling
    <3> QED BY <3>1, <3>2
  <2>2. \/ frees' = frees /\ lost' = lost /\ armed' = armed /\ mapped' = mapped \cup {c}
        \/ frees' = frees /\ lost' = lost /\ armed' = armed \cup {c} /\ mapped' = mapped \cup {c}
        \/ /\ frees' = [frees EXCEPT ![c] = @ + 1] /\ lost' = lost \cup {c} /\ armed' = armed
           /\ mapped' = mapped \cup {c}
        \/ /\ frees' = [frees EXCEPT ![c] = @ + 1] /\ lost' = lost /\ armed' = armed
           /\ mapped' = mapped
    BY DEF Accept, NewWorker, NewEvent
  <2>3. \A d \in Conns : d # c => frees'[d] = frees[d] /\ (d \in lost' <=> d \in lost)
            /\ (d \in armed' <=> d \in armed) /\ sock'[d] = sock[d]
                 /\ (d \in mapped' <=> d \in mapped)
    BY <2>2 DEF ServerInv, TypeOK, Accept
  <2>4. sock'[c] = "open" /\ queue' = queue
    BY DEF ServerInv, TypeOK, Accept, poolVars
  <2>5. \/ frees'[c] = 0 /\ c \notin lost'
        \/ frees'[c] = 1 /\ c \in lost' /\ c \notin armed'
        \/ frees'[c] = 1 /\ c \notin lost' /\ c \notin armed' /\ c \notin mapped'
    BY <1>a, <2>2 DEF ServerInv, TypeOK
  <2>6. lost' \subseteq Conns
    BY <2>2 DEF ServerInv, TypeOK
  <2>7. \A d \in Conns : (sock'[d] = "none" => frees'[d] = 0 /\ d \notin mapped')
    BY <2>3, <2>4 DEF ServerInv, Freed
  <2>8. \A d \in lost' : frees'[d] > 0 /\ (d \in mapped' => frees'[d] = 1)
    BY <2>3, <2>5, <2>6 DEF ServerInv, Freed
  <2>9. \A d \in Conns \ lost' : frees'[d] <= 1 /\ (frees'[d] = 1 => d \notin mapped')
    BY <2>3, <2>5 DEF ServerInv, Freed
  <2>10. \A x \in AllThreads : pc'[x] = "free" => task'[x] \notin mapped'
    BY <2>1, <2>2, Holder DEF ServerInv, Freed, Handling
  <2>11. \A d \in Conns : sock'[d] = "none" \/ frees'[d] > 0 =>
       /\ d \notin armed'
       /\ \A x \in AllThreads : pc'[x] \in Busy => task'[x] # d
       /\ main' \notin {"cleanup", "gone"} => \A i \in 1 .. Len(queue') : queue'[i] # d
    BY <1>a, <2>1, <2>3, <2>4, <2>5 DEF ServerInv, Freed
  <2> QED BY <2>7, <2>8, <2>9, <2>10, <2>11 DEF Freed
<1>7. DbOutlives'
  BY ServerAssumption DEF ServerInv, DbOutlives, TypeOK, AllThreads, Handling, Accept,
     AfterPoll, NewWorker, NewEvent, Goto, clientVars, handlerVars, poolVars, mainVars
<1>8. Halves'
  BY ServerAssumption DEF ServerInv, Halves, TypeOK, AllThreads, Handling, Accept, AfterPoll,
     NewWorker, NewEvent, Goto, clientVars, handlerVars, poolVars, mainVars
<1> QED BY <1>1, <1>2, <1>3, <1>4, <1>5, <1>6, <1>7, <1>8 DEF ServerInv

LEMMA ShutdownKeeps ==
  ASSUME ServerInv, Shutdown
  PROVE  ServerInv'
<1> USE ServerAssumption DEF Shutdown, clientVars, handlerVars, poolVars, mainVars
<1>1. TypeOK'
  BY DEF ServerInv, TypeOK
<1>2. OneModel'
  BY DEF ServerInv, OneModel
<1>3. PoolModel'
  BY DEF ServerInv, PoolModel
<1>4. PoolCounts'
  <2>1. \A u \in PoolThreads : (u \in threads <=> pc[u] # "none")'
    BY DEF ServerInv, PoolCounts
  <2>2. Working' = Working /\ active' = active
    BY DEF ServerInv, Working
  <2> QED BY <2>1, <2>2 DEF ServerInv, PoolCounts
<1>5. OnePlace'
  BY DEF ServerInv, OnePlace
<1>6. Freed'
  BY DEF ServerInv, Freed
<1>7. DbOutlives'
  BY DEF ServerInv, DbOutlives
<1>8. Halves'
  BY DEF ServerInv, Halves
<1> QED BY <1>1, <1>2, <1>3, <1>4, <1>5, <1>6, <1>7, <1>8 DEF ServerInv

LEMMA ListenKeeps ==
  ASSUME ServerInv, Listen
  PROVE  ServerInv'
<1> USE ServerAssumption DEF Listen, clientVars, handlerVars, poolVars, mainVars
<1>1. TypeOK'
  BY DEF ServerInv, TypeOK
<1>2. OneModel'
  BY DEF ServerInv, OneModel
<1>3. PoolModel'
  BY DEF ServerInv, PoolModel
<1>4. PoolCounts'
  <2>1. \A u \in PoolThreads : (u \in threads <=> pc[u] # "none")'
    BY DEF ServerInv, PoolCounts
  <2>2. Working' = Working /\ active' = active
    BY DEF ServerInv, Working
  <2> QED BY <2>1, <2>2 DEF ServerInv, PoolCounts
<1>5. OnePlace'
  BY DEF ServerInv, OnePlace
<1>6. Freed'
  BY DEF ServerInv, Freed
<1>7. DbOutlives'
  BY DEF ServerInv, DbOutlives
<1>8. Halves'
  BY DEF ServerInv, Halves
<1> QED BY <1>1, <1>2, <1>3, <1>4, <1>5, <1>6, <1>7, <1>8 DEF ServerInv

LEMMA PollFailsKeeps ==
  ASSUME ServerInv, PollFails
  PROVE  ServerInv'
<1> USE ServerAssumption DEF PollFails, clientVars, handlerVars, poolVars, mainVars
<1>1. TypeOK'
  BY DEF ServerInv, TypeOK
<1>2. OneModel'
  BY DEF ServerInv, OneModel
<1>3. PoolModel'
  BY DEF ServerInv, PoolModel
<1>4. PoolCounts'
  <2>1. \A u \in PoolThreads : (u \in threads <=> pc[u] # "none")'
    BY DEF ServerInv, PoolCounts
  <2>2. Working' = Working /\ active' = active
    BY DEF ServerInv, Working
  <2> QED BY <2>1, <2>2 DEF ServerInv, PoolCounts
<1>5. OnePlace'
  BY DEF ServerInv, OnePlace
<1>6. Freed'
  BY DEF ServerInv, Freed
<1>7. DbOutlives'
  BY DEF ServerInv, DbOutlives
<1>8. Halves'
  BY DEF ServerInv, Halves
<1> QED BY <1>1, <1>2, <1>3, <1>4, <1>5, <1>6, <1>7, <1>8 DEF ServerInv

LEMMA StopKeeps ==
  ASSUME ServerInv, StopHandler
  PROVE  ServerInv'
<1> USE ServerAssumption DEF StopHandler, StopWorkers, StopPool, clientVars, handlerVars, poolVars,
    mainVars
<1>1. TypeOK'
  <2>1. /\ model' \in Models /\ main' \in {"init", "start", "listen", "poll", "stop", "await", "cleanup", "gone"}
        /\ state' \in {"NEW", "RUNNING", "TERMINATING"}
        /\ sock' \in [Conns -> {"none", "open", "half", "closed"}]
    BY DEF ServerInv, TypeOK, AllThreads, Handling
  <2>2. started' \in BOOLEAN /\ dbOpen' \in BOOLEAN /\ loopexit' \in BOOLEAN
            /\ running' \in [Conns -> BOOLEAN]
    BY DEF ServerInv, TypeOK, AllThreads, Handling
  <2>3. inbox' \in [Conns -> Nat] /\ sends' \in [Conns -> Nat] /\ replies' \in [Conns -> Nat]
    BY DEF ServerInv, TypeOK, AllThreads, Handling
  <2>4. \A d \in Conns : inbox'[d] <= sends'[d] /\ sends'[d] <= SendBound[d]
    BY ServerAssumption DEF ServerInv, Halves, TypeOK, AllThreads, Handling
  <2>5. frees' \in [Conns -> 0 .. 2]
    BY DEF ServerInv, OneModel, PoolModel, Freed, Busy, TypeOK, AllThreads, Handling
  <2>6. /\ lost' \subseteq Conns /\ mapped' \subseteq Conns /\ armed' \subseteq Conns
        /\ full' \subseteq Conns /\ dropped' \subseteq Conns
    BY DEF ServerInv, OneModel, PoolModel, TypeOK, AllThreads, Handling
  <2>7. threads' \subseteq PoolThreads /\ core' \subseteq threads'
            /\ active' \in 0 .. Cardinality(PoolThreads)
    BY DEF ServerInv, TypeOK, AllThreads, Handling
  <2>8. queue' \in Seq(Conns \cup {Loop})
    BY DEF ServerInv, TypeOK, AllThreads, Handling
  <2>9. pc' \in [AllThreads -> {"none", "poll", "idle", "begin", "loop", "end", "exit"} \cup Handling]
    BY DEF ServerInv, TypeOK, AllThreads, Handling
  <2>10. task' \in [AllThreads -> Conns \cup {Loop}]
    BY DEF ServerInv, TypeOK, AllThreads, Handling
  <2> QED BY <2>1, <2>2, <2>3, <2>4, <2>5, <2>6, <2>7, <2>8, <2>9, <2>10 DEF TypeOK
<1>2. OneModel'
  BY DEF ServerInv, OneModel
<1>3. PoolModel'
  BY DEF ServerInv, PoolModel
<1>4. PoolCounts'
  <2>1. \A u \in PoolThreads : (u \in threads <=> pc[u] # "none")'
    BY DEF ServerInv, PoolCounts
  <2>2. Working' = Working /\ active' = active
    BY DEF ServerInv, Working
  <2> QED BY <2>1, <2>2 DEF ServerInv, PoolCounts
<1>5. OnePlace'
  BY DEF ServerInv, OnePlace
<1>6. Freed'
  BY DEF ServerInv, Freed
<1>7. DbOutlives'
  BY DEF ServerInv, DbOutlives
<1>8. Halves'
  BY DEF ServerInv, Halves
<1> QED BY <1>1, <1>2, <1>3, <1>4, <1>5, <1>6, <1>7, <1>8 DEF ServerInv

LEMMA AwaitKeeps ==
  ASSUME ServerInv, AwaitStop
  PROVE  ServerInv'
<1> USE ServerAssumption DEF AwaitStop, AwaitWorkers, AwaitPool, clientVars, handlerVars, poolVars,
    mainVars
<1>a. model = "one" => UNCHANGED <<frees, mapped, armed>>
  OBVIOUS
<1>b. model = "pool" =>
        /\ threads = {} /\ mapped' = {} /\ armed' = {}
        /\ \A x \in AllThreads : pc[x] = "none"
        /\ frees' \in [Conns -> 0 .. 2]
        /\ \A c \in Conns : frees'[c] = IF c \in mapped THEN frees[c] + 1 ELSE frees[c]
  <2>1. SUFFICES ASSUME model = "pool"
                 PROVE /\ threads = {} /\ mapped' = {} /\ armed' = {}
                       /\ \A x \in AllThreads : pc[x] = "none"
                       /\ frees' \in [Conns -> 0 .. 2]
                       /\ \A c \in Conns : frees'[c] = IF c \in mapped THEN frees[c] + 1 ELSE frees[c]
    OBVIOUS
  <2>2. threads = {} /\ mapped' = {} /\ armed' = {}
    BY <2>1
  <2>3. \A x \in AllThreads : pc[x] = "none"
    BY <2>1, <2>2 DEF ServerInv, PoolModel, PoolCounts, AllThreads
  <2>4. frees' = [c \in Conns |-> IF c \in mapped THEN frees[c] + 1 ELSE frees[c]]
    BY <2>1
  <2>5. \A c \in Conns : frees[c] \in 0 .. 2 /\ (c \in mapped => frees[c] \in 0 .. 1)
    BY DEF ServerInv, Freed, TypeOK
  <2> QED BY <2>2, <2>3, <2>4, <2>5
<1>c. UNCHANGED <<model, dbOpen, clientVars, lost, running, loopexit, poolVars, pc, task>>
          /\ started' = FALSE /\ main = "await" /\ main' = "cleanup"
  OBVIOUS
<1>d. model \in {"one", "pool"}
  BY ModelKnown
<1>1. TypeOK'
  <2>1. frees' \in [Conns -> 0 .. 2] /\ mapped' \subseteq Conns /\ armed' \subseteq Conns
    BY <1>a, <1>b, <1>d DEF ServerInv, TypeOK
  <2>2. UNCHANGED <<model, dbOpen, sock, inbox, sends, full, replies, dropped, lost, running, loopexit,
                    state, threads, core, queue, active, pc, task>>
          /\ started' = FALSE /\ main' = "cleanup"
    BY <1>c
  <2> QED BY ONLY ServerInv, <2>1, <2>2 DEF ServerInv, TypeOK
<1>2. OneModel'
  BY DEF ServerInv, OneModel
<1>3. PoolModel'
  <2>1. SUFFICES ASSUME model = "pool" PROVE PoolModel'
    BY <1>c DEF PoolModel
  <2>2. \A c \in Conns : frees[c] \in Nat /\ (sock[c] = "none" \/ c \in mapped \/ frees[c] > 0)
    <3>1. \A t \in PoolThreads : pc[t] # "free"
      BY <1>b, <2>1 DEF AllThreads
    <3>2. \A c \in Conns : frees[c] \in 0 .. 2
      BY DEF ServerInv, TypeOK
    <3> QED BY <2>1, <3>1, <3>2 DEF ServerInv, PoolModel
  <2>3. \A c \in Conns : sock[c] = "none" \/ frees'[c] > 0
    BY <1>b, <2>1, <2>2
  <2> QED BY <1>b, <1>c, <2>1, <2>3 DEF PoolModel, AllThreads, Handling
<1>4. PoolCounts'
  <2>1. \A u \in PoolThreads : (u \in threads <=> pc[u] # "none")'
    BY DEF ServerInv, PoolCounts
  <2>2. Working' = Working /\ active' = active
    BY DEF ServerInv, Working
  <2> QED BY <2>1, <2>2 DEF ServerInv, PoolCounts
<1>5. OnePlace'
  BY DEF ServerInv, OnePlace
<1>6. Freed'
  <2>1. CASE model = "one"
    BY <1>a, <1>c, <2>1 DEF ServerInv, Freed
  <2>2. CASE model = "pool"
    <3>1. \A x \in AllThreads : pc'[x] \notin Busy
      BY <1>b, <1>c, <2>2 DEF Busy, Handling
    <3>2. \A c \in Conns : frees[c] \in 0 .. 2 /\ frees'[c] \in 0 .. 2
      BY <1>b, <2>2 DEF ServerInv, TypeOK
    <3>3. \A c \in Conns : sock[c] = "none" => frees'[c] = 0
      BY <1>b, <2>2 DEF ServerInv, Freed
    <3>4. \A c \in lost : frees'[c] > 0
      <4>1. \A c \in lost : c \in Conns /\ frees[c] > 0
        BY DEF ServerInv, Freed, TypeOK
      <4> QED BY <1>b, <2>2, <3>2, <4>1
    <3>5. \A c \in Conns \ lost : frees'[c] <= 1
      BY <1>b, <2>2, <3>2 DEF ServerInv, Freed
    <3> QED BY <1>b, <1>c, <2>2, <3>1, <3>3, <3>4, <3>5 DEF Freed, Busy, Handling
  <2> QED BY <1>d, <2>1, <2>2
<1>7. DbOutlives'
  BY DEF ServerInv, DbOutlives
<1>8. Halves'
  BY DEF ServerInv, Halves
<1> QED BY <1>1, <1>2, <1>3, <1>4, <1>5, <1>6, <1>7, <1>8 DEF ServerInv

LEMMA CleanupKeeps ==
  ASSUME ServerInv, Cleanup
  PROVE  ServerInv'
<1> USE ServerAssumption DEF Cleanup, clientVars, handlerVars, poolVars, mainVars
<1>1. TypeOK'
  BY DEF ServerInv, TypeOK
<1>2. OneModel'
  BY DEF ServerInv, OneModel
<1>3. PoolModel'
  BY DEF ServerInv, PoolModel
<1>4. PoolCounts'
  <2>1. \A u \in PoolThreads : (u \in threads <=> pc[u] # "none")'
    BY DEF ServerInv, PoolCounts
  <2>2. Working' = Working /\ active' = active
    BY DEF ServerInv, Working
  <2> QED BY <2>1, <2>2 DEF ServerInv, PoolCounts
<1>5. OnePlace'
  BY DEF ServerInv, OnePlace
<1>6. Freed'
  BY DEF ServerInv, Freed
<1>7. DbOutlives'
  BY DEF ServerInv, DbOutlives
<1>8. Halves'
  BY DEF ServerInv, Halves
<1> QED BY <1>1, <1>2, <1>3, <1>4, <1>5, <1>6, <1>7, <1>8 DEF ServerInv

LEMMA WorkingFinite ==
  IsFiniteSet(PoolThreads) /\ IsFiniteSet(Working) /\ Working \subseteq PoolThreads
  /\ Cardinality(Working) \in 0 .. Cardinality(PoolThreads)
<1>1. Working \subseteq PoolThreads
  BY DEF Working
<1>2. IsFiniteSet(Working) /\ Cardinality(Working) <= Cardinality(PoolThreads)
  BY <1>1, ServerAssumption, FS_Subset
<1> QED BY <1>1, <1>2, ServerAssumption, FS_CardinalityType

LEMMA BeginKeeps ==
  ASSUME ServerInv, NEW t \in PoolThreads, Begin(t)
  PROVE  ServerInv'
<1> USE DEF Begin, Goto
<1>1. model = "pool" /\ t \in AllThreads /\ pc[t] = "begin"
  BY ModelKnown DEF ServerInv, OneModel, AllThreads
<1>2. /\ pc'[t] = (IF task[t] = Loop THEN "loop" ELSE "read")
      /\ \A y \in AllThreads : y # t => pc'[y] = pc[y]
  BY <1>1 DEF ServerInv, TypeOK
<1>3. \A y \in AllThreads : (pc'[y] \in Busy => pc[y] \in Busy)
          /\ (pc'[y] = "free" <=> pc[y] = "free")
  BY <1>1, <1>2 DEF Busy, Handling
<1>4. Working' = Working \cup {t} /\ t \notin Working
  BY <1>1, <1>2 DEF Working, AllThreads, Handling
<1>5. active' = Cardinality(Working')
  BY <1>4, WorkingFinite, FS_AddElement DEF ServerInv, PoolCounts
<1>6. active' \in 0 .. Cardinality(PoolThreads)
  <2>1. Working' \subseteq PoolThreads
    BY <1>4, WorkingFinite
  <2>2. IsFiniteSet(Working') /\ Cardinality(Working') <= Cardinality(PoolThreads)
    BY <2>1, WorkingFinite, FS_Subset
  <2> QED BY <2>2, <1>5, WorkingFinite, FS_CardinalityType
<1>7. TypeOK'
  <2>1. pc' \in [AllThreads -> {"none", "poll", "idle", "begin", "loop", "end", "exit"} \cup Handling]
    BY DEF ServerInv, TypeOK, Handling
  <2> QED BY <1>6, <2>1 DEF ServerInv, TypeOK, clientVars, handlerVars, mainVars
<1>8. OneModel'
  BY <1>1 DEF OneModel
<1>9. PoolModel'
  <2>1. task[t] # Loop => task[t] \in Conns
    BY <1>1 DEF ServerInv, TypeOK
  <2>2. \A c \in Conns : c # t /\ c \in AllThreads
    BY ServerAssumption DEF AllThreads
  <2> QED BY <1>1, <1>2, <1>3, <2>1, <2>2 DEF ServerInv, PoolModel, AllThreads, Handling,
             clientVars, handlerVars, mainVars
<1>10. PoolCounts'
  <2>1. \A y \in PoolThreads : pc'[y] = "none" <=> pc[y] = "none"
    BY <1>1, <1>2 DEF AllThreads
  <2> QED BY <1>5, <2>1 DEF ServerInv, PoolCounts
<1>11. OnePlace'
  BY <1>3, PlaceKept DEF handlerVars
<1>12. Freed'
  BY <1>3 DEF ServerInv, Freed, clientVars, handlerVars, mainVars
<1>13. DbOutlives' /\ Halves'
  BY DEF ServerInv, DbOutlives, Halves, clientVars, mainVars
<1> QED BY <1>7, <1>8, <1>9, <1>10, <1>11, <1>12, <1>13 DEF ServerInv

LEMMA EndKeeps ==
  ASSUME ServerInv, NEW t \in PoolThreads, End(t)
  PROVE  ServerInv'
<1> USE DEF End, Goto
<1>1. model = "pool" /\ t \in AllThreads /\ pc[t] = "end"
  BY ModelKnown DEF ServerInv, OneModel, AllThreads
<1>2. /\ pc'[t] \in {"exit", "idle"}
      /\ \A y \in AllThreads : y # t => pc'[y] = pc[y] /\ task'[y] = task[y]
  BY <1>1 DEF ServerInv, TypeOK
<1>3. \A y \in AllThreads : /\ pc'[y] \in Busy => y # t /\ pc[y] \in Busy /\ task'[y] = task[y]
                            /\ pc'[y] = "free" <=> pc[y] = "free"
                            /\ pc'[y] = "free" => task'[y] = task[y]
  BY <1>1, <1>2 DEF Busy, Handling
<1>4. Working' = Working \ {t} /\ t \in Working
  BY <1>1, <1>2 DEF Working, AllThreads, Handling
<1>5. active' = Cardinality(Working') /\ active' \in 0 .. Cardinality(PoolThreads)
  <2>1. Cardinality(Working \ {t}) = Cardinality(Working) - 1
    BY <1>4, WorkingFinite, FS_RemoveElement
  <2>2. Cardinality(Working \ {t}) \in Nat
    <3>1. Working \ {t} \subseteq Working
      OBVIOUS
    <3>2. IsFiniteSet(Working \ {t})
      BY <3>1, WorkingFinite, FS_Subset
    <3> QED BY <3>2, FS_CardinalityType
  <2>3. active = Cardinality(Working) /\ active' = active - 1
    BY DEF ServerInv, PoolCounts
  <2>4. active' = Cardinality(Working \ {t}) /\ Cardinality(Working) \in Nat
        /\ Cardinality(Working) <= Cardinality(PoolThreads) /\ Cardinality(PoolThreads) \in Nat
    BY <2>1, <2>3, WorkingFinite, FS_CardinalityType
  <2> QED BY <1>4, <2>1, <2>2, <2>4
<1>7. TypeOK'
  <2>1. pc' \in [AllThreads -> {"none", "poll", "idle", "begin", "loop", "end", "exit"} \cup Handling]
    BY DEF ServerInv, TypeOK
  <2>2. task' \in [AllThreads -> Conns \cup {Loop}]
    BY DEF ServerInv, TypeOK
  <2> QED BY <1>5, <2>1, <2>2 DEF ServerInv, TypeOK, clientVars, handlerVars, mainVars
<1>8. OneModel'
  BY <1>1 DEF OneModel
<1>9. PoolModel'
  <2>2. \A c \in Conns : c # t /\ c \in AllThreads
    BY ServerAssumption DEF AllThreads
  <2> QED BY <1>1, <1>2, <1>3, <2>2 DEF ServerInv, PoolModel, AllThreads, Handling, clientVars,
             handlerVars, mainVars
<1>10. PoolCounts'
  <2>1. \A y \in PoolThreads : pc'[y] = "none" <=> pc[y] = "none"
    BY <1>1, <1>2 DEF AllThreads
  <2> QED BY <1>5, <2>1 DEF ServerInv, PoolCounts
<1>11. OnePlace'
  BY <1>3 DEF ServerInv, OnePlace, handlerVars
<1>12. Freed'
  BY <1>3 DEF ServerInv, Freed, clientVars, handlerVars, mainVars
<1>13. DbOutlives' /\ Halves'
  BY DEF ServerInv, DbOutlives, Halves, clientVars, mainVars
<1> QED BY <1>7, <1>8, <1>9, <1>10, <1>11, <1>12, <1>13 DEF ServerInv

\* create_thread finds a free identity whenever the pool may grow.
LEMMA NewThread ==
  ASSUME ServerInv, NEW isCore \in BOOLEAN, CreateThread(isCore),
         Cardinality(threads) < Cardinality(PoolThreads)
  PROVE  \E t \in PoolThreads :
           /\ pc[t] = "none" /\ t \notin threads
           /\ threads' = threads \cup {t} /\ (core' = core \/ core' = core \cup {t})
           /\ pc' = [pc EXCEPT ![t] = "idle"]
<1>1. threads \subseteq PoolThreads /\ IsFiniteSet(PoolThreads)
  BY ServerAssumption DEF ServerInv, TypeOK
<1>2. \E t \in PoolThreads : t \notin threads
  <2>1. SUFFICES ASSUME PoolThreads \subseteq threads PROVE FALSE
    OBVIOUS
  <2>2. threads = PoolThreads
    BY <1>1, <2>1
  <2> QED BY <1>1, <2>2, FS_CardinalityType
<1>3. (CHOOSE t \in PoolThreads : t \notin threads) \in PoolThreads \ threads
  BY <1>2
<1>4. \A t \in PoolThreads \ threads : pc[t] = "none"
  BY DEF ServerInv, PoolCounts
<1> QED BY <1>3, <1>4 DEF CreateThread, Goto

\* What execute does to the queue and to the threads.
LEMMA Executed ==
  ASSUME ServerInv, NEW tk \in Conns \cup {Loop}, Execute(tk)
  PROVE  /\ queue' = Append(queue, tk)
         /\ \/ UNCHANGED <<threads, core, pc>>
            \/ \E t \in PoolThreads :
                 /\ pc[t] = "none" /\ t \notin threads
                 /\ threads' = threads \cup {t} /\ (core' = core \/ core' = core \cup {t})
                 /\ pc' = [pc EXCEPT ![t] = "idle"]
BY NewThread DEF Execute

\* The actions that may add a thread and append a task keep the invariant.
LEMMA GrownPool ==
  ASSUME ServerInv, model = "pool", main \notin {"cleanup", "gone"},
         main' \notin {"cleanup", "gone"}, model' = model, task' = task, active' = active,
         frees' = frees, lost' = lost, mapped' = mapped, clientVars' = clientVars,
         started' = started, dbOpen' = dbOpen, running' = running, loopexit' = loopexit,
         main' \in {"init", "start", "listen", "poll", "stop", "await", "cleanup", "gone"},
         state' \in {"NEW", "RUNNING", "TERMINATING"},
         armed' \subseteq armed, queue' \in Seq(Conns \cup {Loop}),
         \/ UNCHANGED <<threads, core, pc>>
         \/ \E t \in PoolThreads :
                 /\ pc[t] = "none" /\ t \notin threads
                 /\ threads' = threads \cup {t} /\ (core' = core \/ core' = core \cup {t})
                 /\ pc' = [pc EXCEPT ![t] = "idle"],
         \/ queue' = queue
         \/ queue' = Append(queue, Loop)
         \/ \E c \in armed : armed' = armed \ {c} /\ queue' = Append(queue, c)
  PROVE  ServerInv'
<1>1. /\ threads' \subseteq PoolThreads /\ core' \subseteq threads'
      /\ pc' \in [AllThreads -> {"none", "poll", "idle", "begin", "loop", "end", "exit"} \cup Handling]
  BY DEF ServerInv, TypeOK
<1>2. \A y \in AllThreads : pc'[y] = pc[y]
          \/ (y \in PoolThreads /\ pc[y] = "none" /\ pc'[y] = "idle")
  BY DEF ServerInv, TypeOK
<1>3. \A y \in AllThreads : (pc'[y] \in Busy => pc[y] \in Busy)
          /\ (pc'[y] = "free" <=> pc[y] = "free")
  BY <1>2 DEF Busy, Handling
<1>4. Working' = Working
  BY <1>2 DEF Working, AllThreads, Handling
<1>5. \A t \in PoolThreads : t \in threads' <=> pc'[t] # "none"
  BY DEF ServerInv, PoolCounts, TypeOK, AllThreads
<1>6. TypeOK'
  BY <1>1 DEF ServerInv, TypeOK, clientVars
<1>7. OneModel'
  BY DEF OneModel
<1>8. PoolModel'
  <2>1. \A c \in Conns : c \notin PoolThreads /\ c \in AllThreads
    BY ServerAssumption DEF AllThreads
  <2> QED BY <1>2, <1>3, <2>1 DEF ServerInv, PoolModel, AllThreads, Handling, clientVars
<1>9. PoolCounts'
  BY <1>4, <1>5 DEF ServerInv, PoolCounts
<1>10. \A i \in 1 .. Len(queue') :
         \/ i \in 1 .. Len(queue) /\ queue'[i] = queue[i]
         \/ /\ i = Len(queue) + 1 /\ i \notin 1 .. Len(queue)
            /\ \/ queue'[i] = Loop
               \/ queue'[i] \in armed /\ armed' = armed \ {queue'[i]}
  <2>1. queue \in Seq(Conns \cup {Loop}) /\ armed \subseteq Conns
    BY DEF ServerInv, TypeOK
  <2>2. CASE queue' = queue
    BY <2>1, <2>2
  <2>3. CASE queue' = Append(queue, Loop)
    BY <2>1, <2>3
  <2>4. CASE \E c \in armed : armed' = armed \ {c} /\ queue' = Append(queue, c)
    BY <2>1, <2>4
  <2> QED BY <2>2, <2>3, <2>4
<1>11. Loop \notin armed /\ armed \subseteq Conns
  BY ServerAssumption DEF ServerInv, TypeOK
<1>12. OnePlace'
  <2>1. \A x, y \in AllThreads : pc'[x] \in Busy /\ pc'[y] \in Busy /\ task'[x] = task'[y]
            /\ task'[x] # Loop => x = y
    BY <1>3 DEF ServerInv, OnePlace
  <2>2. \A x \in AllThreads : pc'[x] \in Busy => task'[x] \notin armed' /\ task'[x] \notin armed
    BY <1>3 DEF ServerInv, OnePlace
  <2>3. \A x \in AllThreads : pc'[x] \in Busy =>
          (task'[x] # Loop => \A i \in 1 .. Len(queue') : queue'[i] # task'[x])
    BY <1>3, <1>10, <2>2 DEF ServerInv, OnePlace
  <2>4. \A i, j \in 1 .. Len(queue') : queue'[i] = queue'[j] /\ queue'[i] # Loop => i = j
    BY <1>10 DEF ServerInv, OnePlace
  <2>5. \A i \in 1 .. Len(queue') : queue'[i] \notin armed'
    BY <1>10, <1>11 DEF ServerInv, OnePlace
  <2> QED BY <2>1, <2>2, <2>3, <2>4, <2>5 DEF OnePlace
<1>13. Freed'
  <2>1. \A c \in Conns : sock[c] = "none" \/ frees[c] > 0 =>
          \A i \in 1 .. Len(queue') : queue'[i] # c
    BY <1>10, ServerAssumption DEF ServerInv, Freed
  <2>2. sock' = sock
    BY DEF clientVars
  <2> QED BY <1>3, <2>1, <2>2 DEF ServerInv, Freed
<1>14. DbOutlives' /\ Halves'
  BY DEF ServerInv, DbOutlives, Halves, clientVars
<1> QED BY <1>6, <1>7, <1>8, <1>9, <1>12, <1>13, <1>14 DEF ServerInv

LEMMA InitPoolKeeps ==
  ASSUME ServerInv, InitPool
  PROVE  ServerInv'
<1> USE DEF InitPool
<1>1. model = "pool"
  BY ModelKnown DEF ServerInv, OneModel
<1>2. queue' = queue /\ queue \in Seq(Conns \cup {Loop})
          /\ state \in {"NEW", "RUNNING", "TERMINATING"}
  BY DEF ServerInv, TypeOK
<1>3. \/ UNCHANGED <<threads, core, pc>>
      \/ \E t \in PoolThreads :
           /\ pc[t] = "none" /\ t \notin threads
           /\ threads' = threads \cup {t} /\ (core' = core \/ core' = core \cup {t})
           /\ pc' = [pc EXCEPT ![t] = "idle"]
  <2>1. CASE Cardinality(threads) < CoreSize
    <3>1. Cardinality(threads) < Cardinality(PoolThreads)
      <4>1. threads \subseteq PoolThreads /\ IsFiniteSet(PoolThreads)
        BY ServerAssumption DEF ServerInv, TypeOK
      <4>2. Cardinality(threads) \in Nat /\ Cardinality(PoolThreads) \in Nat
        BY <4>1, FS_Subset, FS_CardinalityType
      <4> QED BY <2>1, <4>2, ServerAssumption
    <3> QED BY <2>1, <3>1, NewThread
  <2>2. CASE ~(Cardinality(threads) < CoreSize)
    BY <2>2
  <2> QED BY <2>1, <2>2
<1>4. armed' = armed /\ UNCHANGED <<model, task, active, frees, lost, mapped, clientVars, started,
          dbOpen, running, loopexit>>
  BY DEF handlerVars
<1>5. main = "init" /\ main' \in {"init", "start"} /\ state' \in {"NEW", "RUNNING", "TERMINATING"}
  BY <1>2
<1> QED BY <1>1, <1>2, <1>3, <1>4, <1>5, GrownPool

LEMMA StartLoopKeeps ==
  ASSUME ServerInv, StartLoop
  PROVE  ServerInv'
<1> USE DEF StartLoop
<1>1. model = "pool"
  BY ModelKnown DEF ServerInv, OneModel
<1>2. queue \in Seq(Conns \cup {Loop}) /\ state \in {"NEW", "RUNNING", "TERMINATING"}
  BY DEF ServerInv, TypeOK
<1>3. queue' = Append(queue, Loop) /\ queue' \in Seq(Conns \cup {Loop})
  BY <1>2, Executed
<1>4. \/ UNCHANGED <<threads, core, pc>>
      \/ \E t \in PoolThreads :
           /\ pc[t] = "none" /\ t \notin threads
           /\ threads' = threads \cup {t} /\ (core' = core \/ core' = core \cup {t})
           /\ pc' = [pc EXCEPT ![t] = "idle"]
  BY Executed
<1>5. armed' = armed /\ UNCHANGED <<model, task, active, frees, lost, mapped, clientVars, started,
          dbOpen, running, loopexit>>
  BY DEF handlerVars
<1>6. main = "start" /\ main' = "listen" /\ state' = state
  OBVIOUS
<1> QED BY <1>1, <1>2, <1>3, <1>4, <1>5, <1>6, GrownPool

LEMMA CallbackKeeps ==
  ASSUME ServerInv, NEW t \in PoolThreads, NEW c \in Conns, Callback(t, c)
  PROVE  ServerInv'
<1> USE DEF Callback
<1>1. model = "pool"
  BY ModelKnown DEF ServerInv, OneModel
<1>2. queue \in Seq(Conns \cup {Loop}) /\ state \in {"NEW", "RUNNING", "TERMINATING"}
      /\ main \in {"init", "start", "listen", "poll", "stop", "await", "cleanup", "gone"}
  BY DEF ServerInv, TypeOK
<1>3. main \notin {"cleanup", "gone"} /\ main' = main
  BY <1>1 DEF ServerInv, PoolModel, PoolCounts, mainVars
<1>4. queue' \in Seq(Conns \cup {Loop}) /\ (queue' = queue \/ queue' = Append(queue, c))
  BY <1>2, Executed
<1>5. \/ UNCHANGED <<threads, core, pc>>
      \/ \E u \in PoolThreads :
           /\ pc[u] = "none" /\ u \notin threads
           /\ threads' = threads \cup {u} /\ (core' = core \/ core' = core \cup {u})
           /\ pc' = [pc EXCEPT ![u] = "idle"]
  BY Executed
<1>6. UNCHANGED <<model, task, active, frees, lost, mapped, clientVars, started, dbOpen, running,
          loopexit>>
  BY DEF mainVars
<1>7. armed' = armed \ {c} /\ c \in armed /\ state' = state
  OBVIOUS
<1> QED BY <1>1, <1>2, <1>3, <1>4, <1>5, <1>6, <1>7, GrownPool

-----------------------------------------------------------------------------
LEMMA InitKeeps == Init => ServerInv
<1>1. SUFFICES ASSUME Init PROVE ServerInv
  OBVIOUS
<1>2. TypeOK
  <2>1. <<>> \in Seq(Conns \cup {Loop}) /\ Cardinality(PoolThreads) \in Nat
    BY ServerAssumption, FS_CardinalityType
  <2>2. /\ model \in Models /\ main \in {"init", "start", "listen", "poll", "stop", "await", "cleanup", "gone"}
        /\ started \in BOOLEAN /\ dbOpen \in BOOLEAN /\ loopexit \in BOOLEAN
        /\ running \in [Conns -> BOOLEAN]
    BY <1>1 DEF Init
  <2>3. /\ sock \in [Conns -> {"none", "open", "half", "closed"}]
        /\ inbox \in [Conns -> Nat] /\ sends \in [Conns -> Nat] /\ replies \in [Conns -> Nat]
        /\ frees \in [Conns -> 0 .. 2]
        /\ \A c \in Conns : inbox[c] <= sends[c] /\ sends[c] <= SendBound[c]
    BY <1>1, ServerAssumption DEF Init
  <2>4. /\ \A set \in {full, dropped, lost, mapped, armed} : set \subseteq Conns
        /\ state \in {"NEW", "RUNNING", "TERMINATING"}
        /\ threads \subseteq PoolThreads /\ core \subseteq threads
        /\ queue \in Seq(Conns \cup {Loop}) /\ active \in 0 .. Cardinality(PoolThreads)
    BY <1>1, <2>1 DEF Init
  <2>5. /\ pc \in [AllThreads -> {"none", "poll", "idle", "begin", "loop", "end", "exit"} \cup Handling]
        /\ task \in [AllThreads -> Conns \cup {Loop}]
    BY <1>1 DEF Init
  <2> QED BY <2>2, <2>3, <2>4, <2>5 DEF TypeOK
<1>3. Working = {} /\ Cardinality(Working) = 0
  <2>1. Working = {}
    BY <1>1 DEF Init, Working, AllThreads, Handling
  <2> QED BY <2>1, FS_EmptySet
<1>4. OneModel /\ PoolModel
  BY <1>1 DEF Init, OneModel, PoolModel, AllThreads, Handling
<1>5. PoolCounts
  BY <1>1, <1>3 DEF Init, PoolCounts, AllThreads
<1>6. OnePlace /\ Freed
  BY <1>1 DEF Init, OnePlace, Freed, Busy, Handling
<1>7. DbOutlives /\ Halves
  BY <1>1 DEF Init, DbOutlives, Halves
<1> QED BY <1>2, <1>4, <1>5, <1>6, <1>7 DEF ServerInv

LEMMA StepKeeps ==
  ASSUME ServerInv, [Next]_vars
  PROVE  ServerInv'
<1>1. CASE MainStep
  BY <1>1, InitPoolKeeps, StartLoopKeeps, ListenKeeps, PollTimeoutKeeps, StopKeeps, AwaitKeeps, CleanupKeeps,
     AcceptKeeps
     DEF MainStep
<1>2. CASE Shutdown \/ PollFails
  BY <1>2, ShutdownKeeps, PollFailsKeeps
<1>3. ASSUME NEW x \in AllThreads, ThreadStep(x) PROVE ServerInv'
  BY <1>3, ReadEventKeeps, RunSqlKeeps, EraseKeeps, FreeKeeps, WorkerPollKeeps, PopKeeps,
         BeginKeeps,
     EndKeeps, ThreadExitKeeps, RearmKeeps, LoopEndKeeps, CallbackKeeps DEF ThreadStep
<1>4. ASSUME NEW t \in PoolThreads, Expire(t) PROVE ServerInv'
  BY <1>4, ExpireKeeps
<1>5. ASSUME NEW c \in Conns, SendHalf(c) \/ SendRest(c) \/ Fill(c) \/ Drain(c) \/ Disconnect(c)
      PROVE ServerInv'
  BY <1>5, SendHalfKeeps, SendRestKeeps, FillKeeps, DrainKeeps, DisconnectKeeps
<1>6. CASE UNCHANGED vars
  BY <1>6 DEF vars, mainVars, clientVars, handlerVars, poolVars, ServerInv, TypeOK, OneModel,
         PoolModel,
     PoolCounts, Working, OnePlace, Freed, DbOutlives, Halves
<1> QED BY <1>1, <1>2, <1>3, <1>4, <1>5, <1>6 DEF Next

\* The inductive invariant, TypeOK included, holds in every behaviour of the
\* server, for both thread models.
THEOREM ServerInvariant == Spec => []ServerInv
<1>1. Init => ServerInv
  BY InitKeeps
<1>2. ServerInv /\ [Next]_vars => ServerInv'
  BY StepKeeps
<1> QED BY <1>1, <1>2, PTL DEF Spec

\* No thread reads from, writes to, re-arms or deletes a communicator that
\* close_connection or await_stop has deleted.
THEOREM CommunicatorsSafe == Spec => []NoUseAfterFree
<1>1. ServerInv => NoUseAfterFree
  <2>1. SUFFICES ASSUME ServerInv, NEW c \in Conns \ lost
                 PROVE  /\ frees[c] <= 1
                        /\ frees[c] = 1 => /\ Handlers(c) = {} /\ c \notin armed
                                           /\ threads # {} => Queued(c) = {}
    BY DEF NoUseAfterFree
  <2>2. frees[c] <= 1
    BY <2>1 DEF ServerInv, Freed
  <2>3. SUFFICES ASSUME frees[c] = 1
                 PROVE  Handlers(c) = {} /\ c \notin armed /\ (threads # {} => Queued(c) = {})
    BY <2>2
  <2>4. c \notin armed /\ \A x \in AllThreads : pc[x] \in Busy => task[x] # c
    BY <2>1, <2>3 DEF ServerInv, Freed
  <2>5. Handlers(c) = {}
    BY <2>4 DEF Handlers, Busy
  <2>6. threads # {} => Queued(c) = {}
    <3>1. SUFFICES ASSUME threads # {} PROVE Queued(c) = {}
      OBVIOUS
    <3>2. model = "pool"
      BY <2>1, <3>1, ModelKnown DEF ServerInv, OneModel, PoolCounts, TypeOK
    <3>3. main \notin {"cleanup", "gone"}
      BY <2>1, <3>1, <3>2 DEF ServerInv, PoolModel
    <3>4. \A i \in 1 .. Len(queue) : queue[i] # c
      BY <2>1, <2>3, <3>3 DEF ServerInv, Freed
    <3> QED BY <3>4 DEF Queued
  <2> QED BY <2>4, <2>5, <2>6
<1> QED BY <1>1, ServerInvariant, PTL

\* cleanup() deletes the databases when no request is being handled; in the pool
\* model no session is left either.
THEOREM DatabaseOutlivesRequests == Spec => []NoRequestAfterDb
<1>1. ServerInv => NoRequestAfterDb
  <2>1. SUFFICES ASSUME ServerInv, ~dbOpen
                 PROVE  /\ \A x \in AllThreads : pc[x] \notin Handling \ {"free"}
                        /\ model = "pool" => \A c \in Conns : frees[c] = 0 => sock[c] = "none"
    BY DEF NoRequestAfterDb
  <2>2. main = "gone" /\ model \in {"one", "pool"}
    BY <2>1, ModelKnown DEF ServerInv, DbOutlives
  <2>3. CASE model = "one"
    BY <2>1, <2>2, <2>3 DEF ServerInv, OneModel, AllThreads, Handling
  <2>4. CASE model = "pool"
    <3>1. \A x \in AllThreads : pc[x] = "none"
      BY <2>1, <2>2, <2>4 DEF ServerInv, PoolModel, PoolCounts, AllThreads
    <3>2. \A c \in Conns : frees[c] = 0 => sock[c] = "none"
      BY <2>1, <2>2, <2>4 DEF ServerInv, PoolModel
    <3> QED BY <3>1, <3>2 DEF Handling
  <2> QED BY <2>2, <2>3, <2>4
<1> QED BY <1>1, ServerInvariant, PTL
=============================================================================
