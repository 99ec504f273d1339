--------------------------- MODULE SessionProofs ---------------------------
(***************************************************************************)
(* Proofs about sessions, for any number of them, any rows, keys and       *)
(* statements: the stamps on the rows are exactly those of the operations  *)
(* the transactions hold, an idle session holds nothing outside BEGIN ...  *)
(* COMMIT unless the MySQL communicator has just answered a failed open(), *)
(* and a change that was answered SUCCESS did all of its work, unless it   *)
(* is a DELETE whose row source failed.                                    *)
(***************************************************************************)
EXTENDS Session, TLAPS, FiniteSetTheorems, NaturalsInduction, WellFoundedInduction

\* Numbers come from the counter: two sessions never have the same one, and a
\* transaction without a number, or ended, has no operations.
Numbers ==
  /\ \A s \in Sessions :
       /\ trx[s].id <= nextId
       /\ trx[s].started => trx[s].id > 0
       /\ ~trx[s].started => trx[s].ops = <<>>
  /\ \A s, t \in Sessions : trx[s].id = trx[t].id /\ trx[s].id > 0 => s = t

\* A stamp names a number that was given out, and only the transaction that
\* inserts a row can be deleting it meanwhile.
Stamps ==
  \A i \in Used :
    /\ -rows[i].begin <= nextId /\ -rows[i].end <= nextId
    /\ rows[i].begin < 0 /\ rows[i].end < 0 => rows[i].begin = rows[i].end

\* A statement in execution has a transaction; outside BEGIN ... COMMIT only
\* the MySQL communicator leaves one behind, when it answers a failed open().
Control ==
  \A s \in Sessions :
    /\ Busy(s) => trx[s].started
    /\ ~Busy(s) => stmt[s].todo = <<>> /\ stmt[s].adds = <<>>
    /\ s \in open /\ ~Busy(s) /\ ~multi[s] /\ trx[s].started =>
         Protocol[s] = "mysql" /\ last[s].answer = "FAILURE"

\* As long as nothing failed: what a change has found, unless its rows were cut
\* short, is what it has deleted and has still to delete; an UPDATE has made,
\* or has still to make, a row for each, and an INSERT one.
OnTheWay(st) ==
  st.rc = "SUCCESS" =>
    /\ st.kind \in {"DELETE", "UPDATE"} /\ ~st.cut => st.did \cup Range(st.todo) = st.found
    /\ st.kind = "UPDATE" => st.made + Len(st.adds) = Cardinality(st.found)
    /\ st.kind = "INSERT" => st.made + Len(st.adds) = 1
Work == \A s \in Sessions : OnTheWay(stmt[s])

SessionInv ==
  TypeOK /\ Numbers /\ Stamps /\ StampsMatchOps /\ Control /\ Work /\ SuccessIsComplete

-----------------------------------------------------------------------------
(* The types of the rows and transactions, and of the statements.           *)
TrxTyped ==
  /\ Used \subseteq Slots
  /\ \A i \in Used : rows[i].begin \in Int /\ rows[i].end \in Int /\ rows[i].key \in Keys
  /\ nextId \in Nat
  /\ DOMAIN trx = Sessions
  /\ \A s \in Sessions : trx[s].started \in BOOLEAN /\ trx[s].id \in Nat /\ trx[s].ops \in Seq(Op)

StmtTyped ==
  /\ multi \in [Sessions -> BOOLEAN] /\ sent \in [Sessions -> Nat] /\ open \subseteq Sessions
  /\ DOMAIN stmt = Sessions /\ DOMAIN last = Sessions
  /\ \A s \in Sessions :
       /\ stmt[s].found \subseteq Slots /\ stmt[s].did \subseteq Slots /\ stmt[s].made \in Nat
       /\ stmt[s].todo \in Seq(Slots) /\ stmt[s].adds \in Seq(Keys)

LEMMA Typed == /\ TypeOK <=> TrxTyped /\ StmtTyped
               /\ TypeOK' <=> TrxTyped' /\ StmtTyped'
BY DEF TypeOK, TrxTyped, StmtTyped

TrxInv == TrxTyped /\ Numbers /\ Stamps /\ StampsMatchOps

\* Row i and transaction t agree on what t does to the row.
Agree(i, t) ==
  /\ i \in Used /\ rows[i].begin = -t.id <=> i \in OpsOn(t, "INSERT")
  /\ i \in Used /\ rows[i].end = -t.id <=> i \in OpsOn(t, "DELETE")

LEMMA Agreement ==
  /\ StampsMatchOps <=> \A s \in Sessions : trx[s].id # 0 => \A i : Agree(i, trx[s])
  /\ StampsMatchOps' <=> \A s \in Sessions : trx'[s].id # 0 => \A i : Agree(i, trx[s])'
<1>1. StampsMatchOps <=> \A s \in Sessions : trx[s].id # 0 => \A i : Agree(i, trx[s])
  <2>1. ASSUME NEW s \in Sessions
        PROVE  (/\ {i \in Used : rows[i].begin = -trx[s].id} = OpsOn(trx[s], "INSERT")
                /\ {i \in Used : rows[i].end = -trx[s].id} = OpsOn(trx[s], "DELETE"))
               <=> \A i : Agree(i, trx[s])
    BY DEF Agree
  <2> QED BY <2>1 DEF StampsMatchOps
<1>2. StampsMatchOps' <=> \A s \in Sessions : trx'[s].id # 0 => \A i : Agree(i, trx[s])'
  <2>1. ASSUME NEW s \in Sessions
        PROVE  (/\ {i \in Used : rows[i].begin = -trx[s].id} = OpsOn(trx[s], "INSERT")
                /\ {i \in Used : rows[i].end = -trx[s].id} = OpsOn(trx[s], "DELETE"))'
               <=> \A i : Agree(i, trx[s])'
    BY DEF Agree
  <2> QED BY <2>1 DEF StampsMatchOps
<1> QED BY <1>1, <1>2

LEMMA OpsEmpty ==
  ASSUME NEW t, t.ops = <<>>, NEW type
  PROVE  OpsOn(t, type) = {}
<1>1. DOMAIN t.ops = {}
  OBVIOUS
<1> QED BY <1>1 DEF OpsOn

\* Transaction u is t with operation o at the end.
Logs(u, t, o) == t.ops \in Seq(Op) /\ o \in Op /\ u.ops = Append(t.ops, o)

LEMMA OpsAppend ==
  ASSUME NEW t, NEW u, NEW o, Logs(u, t, o), NEW type
  PROVE  OpsOn(u, type) = OpsOn(t, type) \cup {r \in {o.rid} : o.type = type}
<1> USE DEF Logs
<1>1. /\ DOMAIN u.ops = 1 .. Len(t.ops) + 1 /\ DOMAIN t.ops = 1 .. Len(t.ops) /\ Len(t.ops) \in Nat
      /\ u.ops[Len(t.ops) + 1] = o /\ \A i \in 1 .. Len(t.ops) : u.ops[i] = t.ops[i]
  OBVIOUS
<1>2. ASSUME NEW x, x \in OpsOn(t, type) PROVE x \in OpsOn(u, type)
  BY <1>1, <1>2 DEF OpsOn
<1>3. o.type = type => o.rid \in OpsOn(u, type)
  BY <1>1 DEF OpsOn
<1>4. ASSUME NEW x, x \in OpsOn(u, type) PROVE x \in OpsOn(t, type) \/ (o.type = type /\ x = o.rid)
  <2>1. PICK i \in DOMAIN u.ops : u.ops[i].type = type /\ x = u.ops[i].rid
    BY <1>4 DEF OpsOn
  <2>2. CASE i = Len(t.ops) + 1
    BY <1>1, <2>1, <2>2
  <2>3. CASE i # Len(t.ops) + 1
    <3>1. i \in DOMAIN t.ops /\ u.ops[i] = t.ops[i]
      BY <1>1, <2>1, <2>3
    <3> QED BY <2>1, <3>1 DEF OpsOn
  <2> QED BY <2>2, <2>3
<1> QED BY <1>2, <1>3, <1>4

-----------------------------------------------------------------------------
(* The transaction's side of the actions. *)

\* start_if_need gives a number that no row and no transaction carries.
LEMMA StartTrx ==
  ASSUME TrxInv, NEW s \in Sessions, rows' = rows, nextId' = NextIdAfterStart(trx[s]),
         trx' = [trx EXCEPT ![s] = Started(@)]
  PROVE  /\ TrxInv' /\ trx'[s].started
         /\ \A t \in Sessions : t # s => trx'[t] = trx[t]
<1>1. /\ DOMAIN trx' = Sessions /\ \A t \in Sessions : t # s => trx'[t] = trx[t]
      /\ trx'[s] = Started(trx[s])
  BY DEF TrxInv, TrxTyped
<1>2. CASE trx[s].started
  <2>1. trx'[s] = trx[s] /\ nextId' = nextId
    BY <1>1, <1>2 DEF Started, NextIdAfterStart
  <2>2. \A t \in Sessions : trx'[t] = trx[t]
    BY <1>1, <2>1
  <2>3. TrxTyped'
    BY <1>1, <2>1, <2>2 DEF TrxInv, TrxTyped, Used
  <2>4. Numbers' /\ Stamps'
    BY <2>1, <2>2 DEF TrxInv, Numbers, Stamps, Used
  <2>5. StampsMatchOps'
    BY <2>2 DEF TrxInv, StampsMatchOps, OpsOn, Used
  <2> QED BY <1>1, <1>2, <2>1, <2>3, <2>4, <2>5 DEF TrxInv
<1>3. CASE ~trx[s].started
  <2>1. /\ trx'[s].started /\ trx'[s].id = nextId + 1 /\ trx'[s].ops = trx[s].ops /\ trx'[s].ops = <<>>
        /\ nextId' = nextId + 1
    BY <1>1, <1>3 DEF Started, NextIdAfterStart, TrxInv, Numbers
  <2>2. nextId \in Nat /\ \A t \in Sessions : trx[t].id \in Nat
    BY DEF TrxInv, TrxTyped
  <2>3. TrxTyped'
    <3>1. <<>> \in Seq(Op)
      OBVIOUS
    <3>2. trx'[s].started = TRUE
      BY <1>1, <1>3 DEF Started
    <3>3. \A t \in Sessions : trx'[t].started \in BOOLEAN /\ trx'[t].id \in Nat /\ trx'[t].ops \in Seq(Op)
      <4> SUFFICES ASSUME NEW t \in Sessions
                   PROVE  trx'[t].started \in BOOLEAN /\ trx'[t].id \in Nat /\ trx'[t].ops \in Seq(Op)
        OBVIOUS
      <4>1. CASE t = s
        <5>1. trx'[t].started \in BOOLEAN
          BY <3>2, <4>1
        <5>2. trx'[t].id \in Nat
          BY <2>1, <2>2, <4>1
        <5>3. trx'[t].ops \in Seq(Op)
          BY <2>1, <3>1, <4>1
        <5> QED BY <5>1, <5>2, <5>3
      <4>2. CASE t # s
        BY <1>1, <4>2 DEF TrxInv, TrxTyped
      <4> QED BY <4>1, <4>2
    <3> QED BY <1>1, <2>1, <2>2, <3>3 DEF TrxInv, TrxTyped, Used
  <2>4. Numbers'
    <3>1. \A t \in Sessions : trx[t].id <= nextId
      BY DEF TrxInv, Numbers
    <3>2. \A t \in Sessions : trx'[t].id <= nextId' /\ (t # s => trx'[t].id # trx'[s].id)
      BY <1>1, <2>1, <2>2, <3>1
    <3>3. \A t \in Sessions : /\ trx'[t].started => trx'[t].id > 0
                              /\ ~trx'[t].started => trx'[t].ops = <<>>
      BY <1>1, <2>1, <2>2 DEF TrxInv, Numbers
    <3>4. \A t, u \in Sessions : trx'[t].id = trx'[u].id /\ trx'[t].id > 0 => t = u
      BY <1>1, <2>1, <3>2 DEF TrxInv, Numbers
    <3> QED BY <3>2, <3>3, <3>4 DEF Numbers
  <2>5. Stamps'
    BY <2>1, <2>2 DEF TrxInv, TrxTyped, Stamps, Used
  <2>6. StampsMatchOps'
    <3>1. ASSUME NEW t \in Sessions, trx'[t].id # 0, NEW i PROVE Agree(i, trx[t])'
      <4>1. CASE t # s
        <5>1. Agree(i, trx[t])
          BY <1>1, <3>1, <4>1, Agreement DEF TrxInv
        <5> QED BY <1>1, <4>1, <5>1 DEF Agree, OpsOn, Used
      <4>2. CASE t = s
        <5>1. \A j \in Used : rows[j].begin # -(nextId + 1) /\ rows[j].end # -(nextId + 1)
          BY <2>2 DEF TrxInv, TrxTyped, Stamps
        <5>2. OpsOn(trx'[s], "INSERT") = {} /\ OpsOn(trx'[s], "DELETE") = {}
          BY <2>1, OpsEmpty
        <5> QED BY <2>1, <4>2, <5>1, <5>2 DEF Agree, OpsOn, Used
      <4> QED BY <4>1, <4>2
    <3> QED BY <3>1, Agreement
  <2> QED BY <1>1, <2>1, <2>3, <2>4, <2>5, <2>6 DEF TrxInv
<1> QED BY <1>2, <1>3

\* A row that a transaction has inserted, or is deleting, is touched by no other.
LEMMA OwnRows ==
  ASSUME TrxInv, NEW s \in Sessions, NEW t \in Sessions, t # s, trx[t].id # 0, NEW i
  PROVE  /\ i \in OpsOn(trx[s], "INSERT") => i \in Used /\ rows[i].begin = -trx[s].id /\ rows[i].begin < 0
              /\ i \notin OpsOn(trx[t], "INSERT") /\ i \notin OpsOn(trx[t], "DELETE")
         /\ i \in OpsOn(trx[s], "DELETE") => i \in Used /\ rows[i].end = -trx[s].id /\ rows[i].end < 0
              /\ i \notin OpsOn(trx[t], "DELETE")
<1>1. trx[s].id \in Nat /\ trx[t].id \in Nat /\ trx[t].id > 0
  BY DEF TrxInv, TrxTyped
<1>2. trx[s].id = 0 => OpsOn(trx[s], "INSERT") = {} /\ OpsOn(trx[s], "DELETE") = {}
  BY <1>1, OpsEmpty DEF TrxInv, TrxTyped, Numbers
<1>3. CASE trx[s].id # 0
  <2>1. trx[s].id > 0 /\ trx[s].id # trx[t].id
    BY <1>1, <1>3 DEF TrxInv, Numbers
  <2>2. Agree(i, trx[s]) /\ Agree(i, trx[t])
    BY <1>3, Agreement DEF TrxInv
  <2>3. i \in Used => rows[i].begin \in Int /\ rows[i].end \in Int
           /\ (rows[i].begin < 0 /\ rows[i].end < 0 => rows[i].begin = rows[i].end)
    BY DEF TrxInv, TrxTyped, Stamps
  <2> QED BY <1>1, <2>1, <2>2, <2>3 DEF Agree
<1> QED BY <1>2, <1>3

\* The ended transaction.
LEMMA EndTrx ==
  ASSUME TrxInv, NEW s \in Sessions, trx' = [trx EXCEPT ![s] = Ended(@)]
  PROVE  /\ DOMAIN trx' = Sessions /\ \A t \in Sessions : t # s => trx'[t] = trx[t]
         /\ trx'[s].started = FALSE /\ trx'[s].id = trx[s].id /\ trx'[s].ops = <<>>
         /\ OpsOn(trx'[s], "INSERT") = {} /\ OpsOn(trx'[s], "DELETE") = {}
<1>1. /\ DOMAIN trx' = Sessions /\ \A t \in Sessions : t # s => trx'[t] = trx[t]
      /\ trx'[s] = Ended(trx[s])
  BY DEF TrxInv, TrxTyped
<1>2. trx'[s].started = FALSE /\ trx'[s].id = trx[s].id /\ trx'[s].ops = <<>>
  BY <1>1 DEF Ended
<1> QED BY <1>1, <1>2, OpsEmpty

\* Numbers and types of the transactions after one has ended.
LEMMA EndKeeps ==
  ASSUME TrxInv, NEW s \in Sessions, trx' = [trx EXCEPT ![s] = Ended(@)],
         nextId' \in {nextId, nextId + 1}
  PROVE  /\ Numbers' /\ nextId' \in Nat /\ nextId' >= nextId
         /\ \A t \in Sessions : trx'[t].started \in BOOLEAN /\ trx'[t].id \in Nat
              /\ trx'[t].ops \in Seq(Op)
<1>1. /\ nextId \in Nat /\ nextId' \in Nat /\ nextId' >= nextId
      /\ \A t \in Sessions : trx[t].id \in Nat
  BY DEF TrxInv, TrxTyped
<1>2. \A t \in Sessions : trx'[t].id = trx[t].id
  BY EndTrx
<1>3. ASSUME NEW t \in Sessions
      PROVE  /\ trx'[t].id <= nextId'
             /\ trx'[t].started => trx'[t].id > 0
             /\ ~trx'[t].started => trx'[t].ops = <<>>
  <2>1. trx[t].id <= nextId
    BY DEF TrxInv, Numbers
  <2>2. trx'[t].id <= nextId'
    BY <1>1, <1>2, <2>1
  <2>3. CASE t = s
    BY <2>2, <2>3, EndTrx
  <2>4. CASE t # s
    BY <2>2, <2>4, EndTrx DEF TrxInv, Numbers
  <2> QED BY <2>3, <2>4
<1>4. \A t, u \in Sessions : trx'[t].id = trx'[u].id /\ trx'[t].id > 0 => t = u
  BY <1>2 DEF TrxInv, Numbers
<1>5. <<>> \in Seq(Op)
  OBVIOUS
<1>6. \A t \in Sessions : trx'[t].started \in BOOLEAN /\ trx'[t].id \in Nat /\ trx'[t].ops \in Seq(Op)
  BY <1>5, EndTrx DEF TrxInv, TrxTyped
<1> QED BY <1>1, <1>3, <1>4, <1>6 DEF Numbers

LEMMA CommitTrx ==
  ASSUME TrxInv, NEW s \in Sessions, nextId' = nextId + 1,
         rows' = Committed(trx[s], nextId + 1), trx' = [trx EXCEPT ![s] = Ended(@)]
  PROVE  TrxInv'
<1> DEFINE ins == OpsOn(trx[s], "INSERT")
           del == OpsOn(trx[s], "DELETE")
<1>1. /\ Used' = Used
      /\ \A i \in Used : /\ rows'[i].begin = IF i \in ins THEN nextId + 1 ELSE rows[i].begin
                         /\ rows'[i].end = IF i \in del THEN nextId + 1 ELSE rows[i].end
                         /\ rows'[i].key = rows[i].key
  <2>1. rows' = [i \in Used |->
                  [rows[i] EXCEPT !.begin = IF i \in ins THEN nextId + 1 ELSE @,
                                  !.end   = IF i \in del THEN nextId + 1 ELSE @]]
    BY DEF Committed
  <2> HIDE DEF ins, del
  <2>2. Used' = Used
    BY <2>1 DEF Used
  <2>3. ASSUME NEW i \in Used
        PROVE  /\ rows'[i].begin = IF i \in ins THEN nextId + 1 ELSE rows[i].begin
               /\ rows'[i].end = IF i \in del THEN nextId + 1 ELSE rows[i].end
               /\ rows'[i].key = rows[i].key
    <3> DEFINE b == IF i \in ins THEN nextId + 1 ELSE rows[i].begin
               e == IF i \in del THEN nextId + 1 ELSE rows[i].end
    <3>1. rows'[i] = [rows[i] EXCEPT !.begin = b, !.end = e]
      BY <2>1
    <3> HIDE DEF b, e
    <3>2. rows'[i].begin = b /\ rows'[i].end = e /\ rows'[i].key = rows[i].key
      BY ONLY <3>1
    <3> QED BY <3>2 DEF b, e
  <2> QED BY <2>2, <2>3
<1> HIDE DEF ins, del
<1>2. nextId \in Nat /\ \A i \in Used : rows[i].begin \in Int /\ rows[i].end \in Int
  BY DEF TrxInv, TrxTyped
<1>3. TrxTyped'
  <2>1. \A i \in Used : rows'[i].begin \in Int /\ rows'[i].end \in Int /\ rows'[i].key \in Keys
    BY <1>1, <1>2 DEF TrxInv, TrxTyped
  <2>2. Used \subseteq Slots /\ Slots' = Slots
    BY DEF TrxInv, TrxTyped, Slots
  <2> QED BY <1>1, <2>1, <2>2, EndTrx, EndKeeps DEF TrxTyped
<1>4. Numbers'
  BY EndKeeps
<1>5. Stamps'
  BY <1>1, <1>2 DEF TrxInv, Stamps
<1>6. StampsMatchOps'
  <2>1. ASSUME NEW t \in Sessions, trx'[t].id # 0, NEW i PROVE Agree(i, trx[t])'
    <3>0. trx'[t].id = trx[t].id /\ trx[t].id \in Nat /\ trx[t].id > 0 /\ trx[t].id # 0
      <4>1. trx[t].id \in Nat
        BY DEF TrxInv, TrxTyped
      <4>2. trx'[t].id = trx[t].id
        BY EndTrx
      <4> QED BY <2>1, <4>1, <4>2
    <3>1. Agree(i, trx[t])
      BY <3>0, Agreement DEF TrxInv
    <3>2. CASE t # s
      <4>1. i \in ins => i \notin OpsOn(trx[t], "INSERT")
        BY <3>0, <3>2, OwnRows DEF ins
      <4>2. i \in del => i \notin OpsOn(trx[t], "DELETE")
        <5>1. i \in OpsOn(trx[s], "DELETE") => i \notin OpsOn(trx[t], "DELETE")
          BY <3>0, <3>2, OwnRows
        <5> QED BY <5>1 DEF del
      <4>3. /\ OpsOn(trx[t], "INSERT")' = OpsOn(trx[t], "INSERT")
            /\ OpsOn(trx[t], "DELETE")' = OpsOn(trx[t], "DELETE")
        BY <3>2, EndTrx DEF OpsOn
      <4> QED BY <1>1, <1>2, <3>0, <3>1, <4>1, <4>2, <4>3 DEF Agree
    <3>3. CASE t = s
      <4>1. OpsOn(trx[s], "INSERT")' = {} /\ OpsOn(trx[s], "DELETE")' = {}
        BY EndTrx DEF OpsOn
      <4> QED BY <1>1, <1>2, <3>0, <3>1, <3>3, <4>1 DEF Agree, ins, del
    <3> QED BY <3>2, <3>3
  <2> QED BY <2>1, Agreement
<1> QED BY <1>3, <1>4, <1>5, <1>6 DEF TrxInv

LEMMA RollbackTrx ==
  ASSUME TrxInv, NEW s \in Sessions, nextId' = nextId,
         rows' = RolledBack(trx[s]), trx' = [trx EXCEPT ![s] = Ended(@)]
  PROVE  TrxInv'
<1> DEFINE ins == OpsOn(trx[s], "INSERT")
           del == OpsOn(trx[s], "DELETE")
<1>1. /\ Used' = Used \ ins
      /\ \A i \in Used' : /\ rows'[i].begin = rows[i].begin
                          /\ rows'[i].end = IF i \in del THEN MAX_ID ELSE rows[i].end
                          /\ rows'[i].key = rows[i].key
  <2>1. rows' = [i \in Used \ ins |-> [rows[i] EXCEPT !.end = IF i \in del THEN MAX_ID ELSE @]]
    BY DEF RolledBack
  <2> HIDE DEF ins, del
  <2>2. Used' = Used \ ins
    BY <2>1 DEF Used
  <2>3. ASSUME NEW i \in Used \ ins
        PROVE  /\ rows'[i].begin = rows[i].begin
               /\ rows'[i].end = IF i \in del THEN MAX_ID ELSE rows[i].end
               /\ rows'[i].key = rows[i].key
    <3>1. rows'[i] = [rows[i] EXCEPT !.end = IF i \in del THEN MAX_ID ELSE @]
      BY <2>1
    <3>2. rows'[i].begin = rows[i].begin
      BY <3>1
    <3>3. rows'[i].end = IF i \in del THEN MAX_ID ELSE rows[i].end
      BY <3>1
    <3>4. rows'[i].key = rows[i].key
      BY <3>1
    <3> QED BY <3>2, <3>3, <3>4
  <2> QED BY <2>2, <2>3
<1> HIDE DEF ins, del
<1>2. nextId \in Nat /\ MAX_ID \in Nat /\ \A i \in Used : rows[i].begin \in Int /\ rows[i].end \in Int
  BY SessionAssumption DEF TrxInv, TrxTyped
<1>3. TrxTyped'
  <2>1. \A i \in Used' : rows'[i].begin \in Int /\ rows'[i].end \in Int /\ rows'[i].key \in Keys
    BY <1>1, <1>2 DEF TrxInv, TrxTyped
  <2>2. Used \subseteq Slots /\ Slots' = Slots
    BY DEF TrxInv, TrxTyped, Slots
  <2> QED BY <1>1, <2>1, <2>2, EndTrx, EndKeeps DEF TrxTyped
<1>4. Numbers'
  BY EndKeeps
<1>5. Stamps'
  BY <1>1, <1>2 DEF TrxInv, Stamps
<1>6. StampsMatchOps'
  <2>1. ASSUME NEW t \in Sessions, trx'[t].id # 0, NEW i PROVE Agree(i, trx[t])'
    <3>0. trx'[t].id = trx[t].id /\ trx[t].id \in Nat /\ trx[t].id > 0 /\ trx[t].id # 0
      <4>1. trx[t].id \in Nat
        BY DEF TrxInv, TrxTyped
      <4>2. trx'[t].id = trx[t].id
        BY EndTrx
      <4> QED BY <2>1, <4>1, <4>2
    <3>1. Agree(i, trx[t])
      BY <3>0, Agreement DEF TrxInv
    <3>2. CASE t # s
      <4>1. i \in ins => i \notin OpsOn(trx[t], "INSERT") /\ i \notin OpsOn(trx[t], "DELETE")
        BY <3>0, <3>2, OwnRows DEF ins
      <4>2. i \in del => i \notin OpsOn(trx[t], "DELETE")
        <5>1. i \in OpsOn(trx[s], "DELETE") => i \notin OpsOn(trx[t], "DELETE")
          BY <3>0, <3>2, OwnRows
        <5> QED BY <5>1 DEF del
      <4>3. /\ OpsOn(trx[t], "INSERT")' = OpsOn(trx[t], "INSERT")
            /\ OpsOn(trx[t], "DELETE")' = OpsOn(trx[t], "DELETE")
        BY <3>2, EndTrx DEF OpsOn
      <4> QED BY <1>1, <1>2, <3>0, <3>1, <4>1, <4>2, <4>3 DEF Agree
    <3>3. CASE t = s
      <4>1. OpsOn(trx[s], "INSERT")' = {} /\ OpsOn(trx[s], "DELETE")' = {}
        BY EndTrx DEF OpsOn
      <4> QED BY <1>1, <1>2, <3>0, <3>1, <3>3, <4>1 DEF Agree, ins, del
    <3> QED BY <3>2, <3>3
  <2> QED BY <2>1, Agreement
<1> QED BY <1>3, <1>4, <1>5, <1>6 DEF TrxInv

LEMMA DeleteTrx ==
  ASSUME TrxInv, NEW s \in Sessions, NEW i \in Used, trx[s].started,
         Visit(rows[i], trx[s].id, FALSE) = "SUCCESS", nextId' = nextId,
         rows' = [rows EXCEPT ![i].end = -trx[s].id],
         trx' = [trx EXCEPT ![s].ops = Append(@, [type |-> "DELETE", rid |-> i])]
  PROVE  TrxInv' /\ \A t \in Sessions : trx'[t].started = trx[t].started
<1> DEFINE op == [type |-> "DELETE", rid |-> i]
           id == trx[s].id
<1>1. /\ id \in Nat /\ id > 0 /\ id <= nextId /\ nextId \in Nat
      /\ rows[i].begin \in Int /\ rows[i].end \in Int /\ i \in Slots
      /\ trx[s].ops \in Seq(Op)
  BY DEF TrxInv, TrxTyped, Numbers
<1>2. op \in Op /\ op.type = "DELETE" /\ op.rid = i
  BY <1>1 DEF Op
<1>3. \/ rows[i].begin > 0 /\ rows[i].end > 0
      \/ rows[i].begin < 0 /\ rows[i].begin = -id
  BY <1>1 DEF Visit
<1>4. Used' = Used /\ \A j \in Used : j # i => rows'[j] = rows[j]
  BY DEF Used
<1>5. rows'[i].end = -id /\ rows'[i].begin = rows[i].begin /\ rows'[i].key = rows[i].key
  <2>1. rows'[i] = [rows[i] EXCEPT !.end = -id]
    BY DEF Used
  <2> HIDE DEF id
  <2> QED BY ONLY <2>1
<1>6. /\ DOMAIN trx' = Sessions /\ \A t \in Sessions : t # s => trx'[t] = trx[t]
      /\ trx'[s].started = trx[s].started /\ trx'[s].id = id /\ trx'[s].ops = Append(trx[s].ops, op)
  <2>1. /\ DOMAIN trx' = Sessions /\ \A t \in Sessions : t # s => trx'[t] = trx[t]
        /\ trx'[s] = [trx[s] EXCEPT !.ops = Append(trx[s].ops, op)]
    BY DEF TrxInv, TrxTyped
  <2> HIDE DEF op
  <2>2. trx'[s].started = trx[s].started /\ trx'[s].id = trx[s].id
          /\ trx'[s].ops = Append(trx[s].ops, op)
    BY ONLY <2>1
  <2> QED BY <2>1, <2>2
<1>7. trx'[s].ops \in Seq(Op)
  BY <1>1, <1>2, <1>6
<1> HIDE DEF op, id
<1>8. TrxTyped'
  <2>1. \A j \in Used : rows'[j].begin \in Int /\ rows'[j].end \in Int /\ rows'[j].key \in Keys
    BY <1>1, <1>4, <1>5 DEF TrxInv, TrxTyped
  <2>2. ASSUME NEW t \in Sessions
        PROVE  trx'[t].started \in BOOLEAN /\ trx'[t].id \in Nat /\ trx'[t].ops \in Seq(Op)
    BY <1>1, <1>6, <1>7 DEF TrxInv, TrxTyped
  <2> QED BY <1>1, <1>4, <1>6, <2>1, <2>2 DEF TrxInv, TrxTyped
<1>9. Numbers'
  <2>1. \A t \in Sessions : trx'[t].id = trx[t].id /\ trx'[t].started = trx[t].started
    BY <1>6 DEF id
  <2>2. trx[s].started = TRUE
    BY DEF TrxInv, TrxTyped
  <2>3. \A t \in Sessions : ~trx'[t].started => trx'[t].ops = <<>>
    BY <1>6, <2>1, <2>2 DEF TrxInv, Numbers
  <2> QED BY <2>1, <2>3 DEF TrxInv, Numbers
<1>10. Stamps'
  BY <1>1, <1>3, <1>4, <1>5 DEF TrxInv, Stamps
<1>11. StampsMatchOps'
  <2>1. ASSUME NEW t \in Sessions, trx'[t].id # 0, NEW j PROVE Agree(j, trx[t])'
    <3>0. trx'[t].id = trx[t].id /\ trx[t].id \in Nat /\ trx[t].id > 0 /\ trx[t].id # 0
      <4>1. trx'[t].id = trx[t].id /\ trx[t].id \in Nat
        BY <1>6 DEF TrxInv, TrxTyped, id
      <4> QED BY <2>1, <4>1
    <3>1. Agree(j, trx[t])
      BY <3>0, Agreement DEF TrxInv
    <3>2. CASE t # s
      <4>1. trx[t].id # id
        BY <1>1, <3>0, <3>2 DEF TrxInv, Numbers, id
      <4>2. /\ OpsOn(trx[t], "INSERT")' = OpsOn(trx[t], "INSERT")
            /\ OpsOn(trx[t], "DELETE")' = OpsOn(trx[t], "DELETE")
        BY <1>6, <3>2 DEF OpsOn
      <4>3. rows[i].end # -trx[t].id /\ -id # -trx[t].id
        <5>1. rows[i].begin < 0 /\ rows[i].end < 0 => rows[i].begin = rows[i].end
          BY DEF TrxInv, Stamps
        <5> QED BY <1>1, <1>3, <3>0, <4>1, <5>1
      <4> QED BY <1>4, <1>5, <3>0, <3>1, <4>2, <4>3 DEF Agree
    <3>3. CASE t = s
      <4>1. /\ OpsOn(trx'[s], "INSERT") = OpsOn(trx[s], "INSERT")
            /\ OpsOn(trx'[s], "DELETE") = OpsOn(trx[s], "DELETE") \cup {i}
        <5>1. ASSUME NEW type
              PROVE  OpsOn(trx'[s], type) = OpsOn(trx[s], type)
                          \cup {r \in {op.rid} : op.type = type}
          <6>1. Logs(trx'[s], trx[s], op)
            BY <1>1, <1>2, <1>6 DEF Logs
          <6> QED BY ONLY <6>1, OpsAppend
        <5> QED BY ONLY <5>1, <1>2
      <4>2. /\ OpsOn(trx[s], "INSERT")' = OpsOn(trx[s], "INSERT")
            /\ OpsOn(trx[s], "DELETE")' = OpsOn(trx[s], "DELETE") \cup {i}
        BY <4>1 DEF OpsOn
      <4> QED BY <1>4, <1>5, <3>0, <3>1, <3>3, <4>2 DEF Agree, id
    <3> QED BY <3>2, <3>3
  <2> QED BY <2>1, Agreement
<1> QED BY <1>6, <1>8, <1>9, <1>10, <1>11 DEF TrxInv

LEMMA InsertTrx ==
  ASSUME TrxInv, NEW s \in Sessions, NEW i \in Free, NEW key \in Keys, trx[s].started,
         nextId' = nextId,
         rows' = [j \in Used \cup {i} |->
                    IF j = i THEN [begin |-> -trx[s].id, end |-> MAX_ID, key |-> key] ELSE rows[j]],
         trx' = [trx EXCEPT ![s].ops = Append(@, [type |-> "INSERT", rid |-> i])]
  PROVE  TrxInv' /\ \A t \in Sessions : trx'[t].started = trx[t].started
<1> DEFINE op == [type |-> "INSERT", rid |-> i]
           id == trx[s].id
<1>1. /\ id \in Nat /\ id > 0 /\ id <= nextId /\ nextId \in Nat /\ MAX_ID \in Nat
      /\ i \in Slots /\ i \notin Used /\ trx[s].ops \in Seq(Op)
  BY SessionAssumption DEF TrxInv, TrxTyped, Numbers, Free
<1>2. op \in Op /\ op.type = "INSERT" /\ op.rid = i
  BY <1>1 DEF Op
<1>4. Used' = Used \cup {i} /\ \A j \in Used : rows'[j] = rows[j]
  BY <1>1 DEF Used
<1>5. rows'[i].end = MAX_ID /\ rows'[i].begin = -id /\ rows'[i].key = key
  BY DEF Used
<1>6. /\ DOMAIN trx' = Sessions /\ \A t \in Sessions : t # s => trx'[t] = trx[t]
      /\ trx'[s].started = trx[s].started /\ trx'[s].id = id /\ trx'[s].ops = Append(trx[s].ops, op)
  <2>1. /\ DOMAIN trx' = Sessions /\ \A t \in Sessions : t # s => trx'[t] = trx[t]
        /\ trx'[s] = [trx[s] EXCEPT !.ops = Append(trx[s].ops, op)]
    BY DEF TrxInv, TrxTyped
  <2> HIDE DEF op
  <2>2. trx'[s].started = trx[s].started /\ trx'[s].id = trx[s].id
          /\ trx'[s].ops = Append(trx[s].ops, op)
    BY ONLY <2>1
  <2> QED BY <2>1, <2>2
<1>7. trx'[s].ops \in Seq(Op)
  BY <1>1, <1>2, <1>6
<1> HIDE DEF op, id
<1>8. TrxTyped'
  <2>1. \A j \in Used' : rows'[j].begin \in Int /\ rows'[j].end \in Int /\ rows'[j].key \in Keys
    BY <1>1, <1>4, <1>5 DEF TrxInv, TrxTyped
  <2>2. ASSUME NEW t \in Sessions
        PROVE  trx'[t].started \in BOOLEAN /\ trx'[t].id \in Nat /\ trx'[t].ops \in Seq(Op)
    BY <1>1, <1>6, <1>7 DEF TrxInv, TrxTyped
  <2> QED BY <1>1, <1>4, <1>6, <2>1, <2>2 DEF TrxInv, TrxTyped
<1>9. Numbers'
  <2>1. \A t \in Sessions : trx'[t].id = trx[t].id /\ trx'[t].started = trx[t].started
    BY <1>6 DEF id
  <2>2. trx[s].started = TRUE
    BY DEF TrxInv, TrxTyped
  <2>3. \A t \in Sessions : ~trx'[t].started => trx'[t].ops = <<>>
    BY <1>6, <2>1, <2>2 DEF TrxInv, Numbers
  <2> QED BY <2>1, <2>3 DEF TrxInv, Numbers
<1>10. Stamps'
  BY <1>1, <1>4, <1>5 DEF TrxInv, Stamps
<1>11. StampsMatchOps'
  <2>1. ASSUME NEW t \in Sessions, trx'[t].id # 0, NEW j PROVE Agree(j, trx[t])'
    <3>0. trx'[t].id = trx[t].id /\ trx[t].id \in Nat /\ trx[t].id > 0 /\ trx[t].id # 0
      <4>1. trx'[t].id = trx[t].id /\ trx[t].id \in Nat
        BY <1>6 DEF TrxInv, TrxTyped, id
      <4> QED BY <2>1, <4>1
    <3>1. Agree(j, trx[t])
      BY <3>0, Agreement DEF TrxInv
    <3>2. CASE t # s
      <4>1. trx[t].id # id /\ -id # -trx[t].id /\ MAX_ID # -trx[t].id
        <5>1. trx[t].id # id
          BY <1>1, <3>0, <3>2 DEF TrxInv, Numbers, id
        <5> QED BY <1>1, <3>0, <5>1
      <4>2. /\ OpsOn(trx[t], "INSERT")' = OpsOn(trx[t], "INSERT")
            /\ OpsOn(trx[t], "DELETE")' = OpsOn(trx[t], "DELETE")
        BY <1>6, <3>2 DEF OpsOn
      <4> QED BY <1>1, <1>4, <1>5, <3>0, <3>1, <4>1, <4>2 DEF Agree
    <3>3. CASE t = s
      <4>1. /\ OpsOn(trx'[s], "INSERT") = OpsOn(trx[s], "INSERT") \cup {i}
            /\ OpsOn(trx'[s], "DELETE") = OpsOn(trx[s], "DELETE")
        <5>1. ASSUME NEW type
              PROVE  OpsOn(trx'[s], type) = OpsOn(trx[s], type)
                          \cup {r \in {op.rid} : op.type = type}
          <6>1. Logs(trx'[s], trx[s], op)
            BY <1>1, <1>2, <1>6 DEF Logs
          <6> QED BY ONLY <6>1, OpsAppend
        <5> QED BY ONLY <5>1, <1>2
      <4>2. /\ OpsOn(trx[s], "INSERT")' = OpsOn(trx[s], "INSERT") \cup {i}
            /\ OpsOn(trx[s], "DELETE")' = OpsOn(trx[s], "DELETE")
        BY <4>1 DEF OpsOn
      <4>3. MAX_ID # -id
        BY <1>1
      <4> QED BY <1>1, <1>4, <1>5, <3>0, <3>1, <3>3, <4>2, <4>3 DEF Agree, id
    <3> QED BY <3>2, <3>3
  <2> QED BY <2>1, Agreement
<1> QED BY <1>6, <1>8, <1>9, <1>10, <1>11 DEF TrxInv

-----------------------------------------------------------------------------
(* Slots in order. *)

LEMMA Least ==
  ASSUME NEW S, S \subseteq Nat, S # {}
  PROVE  \E m \in S : \A y \in S : m <= y
<1>1. PICK m \in S : \A y \in S : ~ (<<y, m>> \in OpToRel(<, Nat))
  BY WFMin, NatLessThanWellFounded
<1>2. \A y \in S : ~ (y < m)
  <2> SUFFICES ASSUME NEW y \in S, y < m PROVE FALSE
    OBVIOUS
  <2>1. <<y, m>> \in OpToRel(<, Nat)
    BY DEF OpToRel
  <2> QED BY <2>1, <1>1
<1> QED BY <1>2

LEMMA Greatest ==
  ASSUME NEW S, NEW n \in Nat, S \subseteq 1 .. n, S # {}
  PROVE  \E m \in S : \A y \in S : y <= m
<1> DEFINE T == {n - x : x \in S}
<1>1. T \subseteq Nat /\ T # {}
  <2>1. \A x \in S : n - x \in Nat /\ n - x \in T
    OBVIOUS
  <2> QED BY <2>1
<1>2. PICK k \in T : \A y \in T : k <= y
  <2> HIDE DEF T
  <2> QED BY <1>1, Least
<1>3. PICK m \in S : k = n - m
  OBVIOUS
<1>4. ASSUME NEW y \in S PROVE y <= m
  <2>1. n - m <= n - y
    BY <1>2, <1>3
  <2>2. m \in Int /\ y \in Int
    OBVIOUS
  <2> QED BY <2>1, <2>2
<1> QED BY <1>4

Increasing(q) == \A a, b \in DOMAIN q : a < b => q[a] < q[b]

LEMMA SlotSets ==
  ASSUME NEW S \in SUBSET Slots
  PROVE  IsFiniteSet(S) /\ Cardinality(S) \in Nat /\ \A x \in S : x \in Nat
<1>1. RowBound \in Nat
  BY SessionAssumption
<1>2. IsFiniteSet(1 .. RowBound)
  BY <1>1, FS_Interval
<1>3. IsFiniteSet(S)
  BY <1>2, FS_Subset DEF Slots
<1> QED BY <1>1, <1>3, FS_CardinalityType DEF Slots

\* Every set of slots can be put in order.
LEMMA OrderExists ==
  \A S \in SUBSET Slots : \E q \in SetToSeqs(S) : Increasing(q)
<1> DEFINE Ok(S) == \E q \in SetToSeqs(S) : Increasing(q)
           Bad == {n \in Nat : \E S \in SUBSET Slots : Cardinality(S) = n /\ ~Ok(S)}
<1>1. ASSUME Bad # {} PROVE FALSE
  <2>1. PICK n \in Bad : \A y \in Bad : n <= y
    <3>1. Bad \subseteq Nat
      OBVIOUS
    <3> HIDE DEF Bad
    <3> QED BY <1>1, <3>1, Least
  <2>2. PICK S \in SUBSET Slots : Cardinality(S) = n /\ ~Ok(S)
    BY <2>1
  <2>3. n \in Nat /\ IsFiniteSet(S)
    BY <2>1, SlotSets
  <2>4. CASE S = {}
    <3>1. Cardinality(S) = 0
      BY <2>4, FS_EmptySet
    <3>2. [x \in 1 .. 0 |-> x] \in SetToSeqs(S)
      BY <2>4, <3>1 DEF SetToSeqs
    <3>3. Increasing([x \in 1 .. 0 |-> x])
      BY DEF Increasing
    <3> QED BY <2>2, <3>2, <3>3
  <2>5. CASE S # {}
    <3>1. PICK m \in S : \A y \in S : y <= m
      BY <2>5, Greatest, SessionAssumption DEF Slots
    <3> DEFINE R == S \ {m}
    <3>2. Cardinality(R) = n - 1 /\ R \in SUBSET Slots
      BY <2>2, <2>3, FS_RemoveElement
    <3>3. n - 1 \in Nat /\ n \in Nat
      BY <3>2, SlotSets, <2>3
    <3>4. n - 1 \notin Bad
      <4> HIDE DEF Bad
      <4> QED BY <2>1, <3>3
    <3>5. Ok(R)
      <4> HIDE DEF Ok
      <4> QED BY <3>2, <3>3, <3>4
    <3>6. PICK q \in SetToSeqs(R) : Increasing(q)
      BY <3>5
    <3>7. q \in [1 .. n - 1 -> R] /\ \A i, j \in 1 .. n - 1 : i # j => q[i] # q[j]
      BY <3>2, <3>6 DEF SetToSeqs
    <3> DEFINE p == [a \in 1 .. n |-> IF a = n THEN m ELSE q[a]]
    <3>8. \A a \in 1 .. n : a = n \/ a \in 1 .. n - 1
      BY <3>3
    <3>9. \A a \in 1 .. n - 1 : p[a] = q[a] /\ p[a] \in S /\ p[a] # m
      BY <3>3, <3>7
    <3>10. p[n] = m /\ p \in [1 .. n -> S]
      <4>1. n \in 1 .. n
        BY <3>3
      <4>2. p[n] = m
        BY <4>1
      <4>3. \A a \in 1 .. n : p[a] \in S
        BY <3>8, <3>9, <4>2
      <4> QED BY <4>2, <4>3
    <3> HIDE DEF p, R
    <3>11. \A a \in 1 .. n - 1 : p[a] < m
      <4> SUFFICES ASSUME NEW a \in 1 .. n - 1 PROVE p[a] < m
        OBVIOUS
      <4>1. p[a] \in S /\ p[a] # m /\ p[a] <= m
        BY <3>1, <3>9
      <4>2. p[a] \in Nat /\ m \in Nat
        BY <4>1, SlotSets
      <4> QED BY <4>1, <4>2
    <3>12. \A i, j \in 1 .. n : i # j => p[i] # p[j]
      BY <3>7, <3>8, <3>9, <3>10
    <3>13. Increasing(p)
      <4> SUFFICES ASSUME NEW a \in 1 .. n, NEW b \in 1 .. n, a < b PROVE p[a] < p[b]
        BY <3>10 DEF Increasing
      <4>1. a \in 1 .. n - 1
        BY <3>3
      <4>2. CASE b = n
        BY <3>10, <3>11, <4>1, <4>2
      <4>3. CASE b # n
        <5>1. b \in 1 .. n - 1
          BY <3>8, <4>3
        <5>2. q[a] < q[b]
          BY <3>6, <3>7, <4>1, <5>1 DEF Increasing
        <5> QED BY <3>9, <4>1, <5>1, <5>2
      <4> QED BY <4>2, <4>3
    <3>14. p \in SetToSeqs(S)
      BY <2>2, <3>10, <3>12 DEF SetToSeqs
    <3> QED BY <2>2, <3>13, <3>14
  <2> QED BY <2>4, <2>5
<1>2. ASSUME NEW S \in SUBSET Slots PROVE Ok(S)
  <2>1. Cardinality(S) \in Nat
    BY SlotSets
  <2>2. Bad = {}
    BY <1>1
  <2> HIDE DEF Ok
  <2> QED BY <2>1, <2>2
<1> QED BY <1>2

\* What a scan hands out: every slot found, once.
LEMMA InOrderIs ==
  ASSUME NEW S \in SUBSET Slots
  PROVE  /\ InOrder(S) \in Seq(Slots) /\ Len(InOrder(S)) = Cardinality(S)
         /\ DOMAIN InOrder(S) = 1 .. Cardinality(S)
         /\ Range(InOrder(S)) = S
<1> DEFINE q == InOrder(S)
           n == Cardinality(S)
<1>1. q \in SetToSeqs(S)
  <2>1. InOrder(S) = CHOOSE r \in SetToSeqs(S) : Increasing(r)
    BY DEF InOrder, Increasing
  <2> QED BY <2>1, OrderExists
<1>2. n \in Nat /\ IsFiniteSet(S)
  BY SlotSets
<1>3. q \in [1 .. n -> S] /\ \A i, j \in 1 .. n : i # j => q[i] # q[j]
  BY <1>1 DEF SetToSeqs
<1> HIDE DEF q, n
<1>4. q \in Injection(1 .. n, S)
  BY <1>3 DEF Injection, IsInjective
<1>5. Cardinality(1 .. n) = n
  BY <1>2, FS_Interval
<1>6. q \in Surjection(1 .. n, S)
  BY <1>2, <1>4, <1>5, FS_Injection DEF n
<1>7. Range(q) = S
  BY <1>3, <1>6 DEF Surjection, Range
<1>8. q \in Seq(Slots) /\ Len(q) = n
  <2>1. q \in [1 .. n -> Slots]
    BY <1>3
  <2> QED BY <1>2, <2>1
<1> QED BY <1>3, <1>7, <1>8 DEF q, n

LEMMA HeadTail ==
  ASSUME NEW S, NEW q \in Seq(S), q # <<>>
  PROVE  /\ Head(q) \in S /\ Tail(q) \in Seq(S) /\ Len(q) \in Nat /\ Len(Tail(q)) = Len(q) - 1
         /\ Range(q) = {Head(q)} \cup Range(Tail(q))
<1>1. /\ Head(q) \in S /\ Tail(q) \in Seq(S) /\ Len(q) \in Nat \ {0} /\ Len(Tail(q)) = Len(q) - 1
      /\ Head(q) = q[1] /\ \A k \in 1 .. Len(Tail(q)) : Tail(q)[k] = q[k + 1]
      /\ DOMAIN q = 1 .. Len(q) /\ DOMAIN Tail(q) = 1 .. Len(q) - 1
  OBVIOUS
<1> DEFINE h == Head(q)
           r == Tail(q)
<1> HIDE DEF h, r
<1>2. ASSUME NEW x \in Range(q) PROVE x = h \/ x \in Range(r)
  <2>1. PICK k \in 1 .. Len(q) : x = q[k]
    BY <1>1 DEF Range
  <2>2. CASE k = 1
    BY <1>1, <2>1, <2>2 DEF h
  <2>3. CASE k # 1
    <3>1. k - 1 \in 1 .. Len(q) - 1
      BY <1>1, <2>3
    <3>2. r[k - 1] = q[k]
      BY <1>1, <3>1 DEF r
    <3> QED BY <1>1, <2>1, <3>1, <3>2 DEF Range, r
  <2> QED BY <2>2, <2>3
<1>3. h \in Range(q)
  BY <1>1 DEF Range, h
<1>4. ASSUME NEW x \in Range(r) PROVE x \in Range(q)
  <2>1. PICK k \in 1 .. Len(q) - 1 : x = r[k]
    BY <1>1 DEF Range, r
  <2>2. r[k] = q[k + 1] /\ k + 1 \in 1 .. Len(q)
    BY <1>1 DEF r
  <2> QED BY <1>1, <2>1, <2>2 DEF Range
<1>5. Range(q) = {h} \cup Range(r)
  BY <1>2, <1>3, <1>4
<1> QED BY <1>1, <1>5 DEF h, r

-----------------------------------------------------------------------------
(* The statement's side of the actions. *)

StmtFine(st) ==
  /\ st.found \subseteq Slots /\ st.did \subseteq Slots /\ st.made \in Nat
  /\ st.todo \in Seq(Slots) /\ st.adds \in Seq(Keys)

StmtInv == StmtTyped /\ Control /\ Work /\ SuccessIsComplete

LEMMA Parts == /\ SessionInv <=> TrxInv /\ StmtInv
               /\ SessionInv' <=> TrxInv' /\ StmtInv'
BY Typed DEF SessionInv, TrxInv, StmtInv

\* A step that puts st in the place of the statement of s and answers nothing.
LEMMA StmtStep ==
  ASSUME StmtInv, NEW s \in Sessions, NEW st, stmt' = [stmt EXCEPT ![s] = st],
         StmtFine(st), OnTheWay(st), st.kind # "none", trx'[s].started,
         \A t \in Sessions : t # s => trx'[t].started = trx[t].started,
         last' = last, multi' = multi, open' = open, sent' \in [Sessions -> Nat]
  PROVE  StmtInv'
<1>1. /\ DOMAIN stmt' = Sessions /\ stmt'[s] = st
      /\ \A t \in Sessions : t # s => stmt'[t] = stmt[t]
  BY DEF StmtInv, StmtTyped
<1>2. StmtTyped'
  <2>1. ASSUME NEW t \in Sessions PROVE StmtFine(stmt'[t])
    BY <1>1 DEF StmtInv, StmtTyped, StmtFine
  <2> QED BY <1>1, <2>1 DEF StmtInv, StmtTyped, StmtFine
<1>3. Control'
  BY <1>1 DEF StmtInv, Control, Busy
<1>4. Work'
  <2>1. ASSUME NEW t \in Sessions PROVE OnTheWay(stmt'[t])
    BY <1>1 DEF StmtInv, Work
  <2> QED BY <2>1 DEF Work, OnTheWay
<1>5. SuccessIsComplete'
  BY DEF StmtInv, SuccessIsComplete
<1> QED BY <1>2, <1>3, <1>4, <1>5 DEF StmtInv

\* The answer to a statement st, and the end of it.
LEMMA AnswerStep ==
  ASSUME StmtInv, NEW s \in Sessions, NEW st, NEW a \in {"SUCCESS", "FAILURE"}, Answer(s, st, a),
         a = "SUCCESS" /\ ~st.cut => Whole(st),
         \A t \in Sessions : t # s => trx'[t].started = trx[t].started,
         ~multi[s] /\ trx'[s].started => Protocol[s] = "mysql" /\ a = "FAILURE",
         multi' = multi, open' = open, sent' \in [Sessions -> Nat]
  PROVE  StmtInv'
<1> DEFINE w == Whole(st)
<1>1. /\ DOMAIN stmt' = Sessions /\ stmt'[s] = NoStmt
      /\ \A t \in Sessions : t # s => stmt'[t] = stmt[t]
      /\ DOMAIN last' = Sessions /\ \A t \in Sessions : t # s => last'[t] = last[t]
      /\ last'[s] = [answer |-> a, kind |-> st.kind, cut |-> st.cut, whole |-> w]
  BY DEF StmtInv, StmtTyped, Answer
<1> HIDE DEF w
<1>2. last'[s].answer = a /\ last'[s].cut = st.cut /\ last'[s].whole = w
  BY ONLY <1>1
<1>3. NoStmt.kind = "none" /\ StmtFine(NoStmt) /\ NoStmt.todo = <<>> /\ NoStmt.adds = <<>>
      /\ OnTheWay(NoStmt)
  BY DEF NoStmt, StmtFine, OnTheWay
<1>4. StmtTyped'
  <2>1. ASSUME NEW t \in Sessions PROVE StmtFine(stmt'[t])
    BY <1>1, <1>3 DEF StmtInv, StmtTyped, StmtFine
  <2> QED BY <1>1, <2>1 DEF StmtInv, StmtTyped, StmtFine
<1>5. Control'
  BY <1>1, <1>2, <1>3 DEF StmtInv, Control, Busy
<1>6. Work'
  <2>1. ASSUME NEW t \in Sessions PROVE OnTheWay(stmt'[t])
    BY <1>1, <1>3 DEF StmtInv, Work
  <2> QED BY <2>1 DEF Work, OnTheWay
<1>7. SuccessIsComplete'
  <2>1. last'[s].answer = "SUCCESS" /\ ~last'[s].cut => last'[s].whole
    BY <1>2 DEF w
  <2> QED BY <1>1, <2>1 DEF StmtInv, SuccessIsComplete
<1> QED BY <1>4, <1>5, <1>6, <1>7 DEF StmtInv

\* The answer to a statement without an operator.
LEMMA AnswerStateStep ==
  ASSUME StmtInv, NEW s \in Sessions, AnswerState(s),
         \A t \in Sessions : t # s => trx'[t].started = trx[t].started /\ multi'[t] = multi[t],
         ~Busy(s), multi'[s] \/ ~trx'[s].started,
         multi' \in [Sessions -> BOOLEAN], open' = open, sent' \in [Sessions -> Nat]
  PROVE  StmtInv'
<1>1. /\ stmt' = stmt /\ DOMAIN last' = Sessions /\ last'[s] = NoAnswer
      /\ \A t \in Sessions : t # s => last'[t] = last[t]
  BY DEF StmtInv, StmtTyped, AnswerState
<1>2. StmtTyped'
  BY <1>1 DEF StmtInv, StmtTyped
<1>3. Control'
  BY <1>1 DEF StmtInv, Control, Busy
<1>4. Work'
  BY <1>1 DEF StmtInv, Work, OnTheWay
<1>5. SuccessIsComplete'
  <2>1. last'[s].answer # "SUCCESS"
    BY <1>1 DEF NoAnswer
  <2> QED BY <1>1, <2>1 DEF StmtInv, SuccessIsComplete
<1> QED BY <1>2, <1>3, <1>4, <1>5 DEF StmtInv

LEMMA Sending ==
  ASSUME StmtInv, NEW s \in Sessions, Send(s)
  PROVE  sent' \in [Sessions -> Nat] /\ ~Busy(s)
BY DEF StmtInv, StmtTyped, Send

-----------------------------------------------------------------------------
(* Every action keeps the invariant. *)

LEMMA SameTrx ==
  ASSUME TrxInv, rows' = rows, nextId' = nextId, trx' = trx
  PROVE  TrxInv'
BY DEF TrxInv, TrxTyped, Numbers, Stamps, StampsMatchOps, OpsOn, Used

\* SqlResult::close outside BEGIN ... COMMIT ends the transaction.
LEMMA CloseStep ==
  ASSUME TrxInv, NEW s \in Sessions, Close(s)
  PROVE  /\ TrxInv' /\ \A t \in Sessions : t # s => trx'[t].started = trx[t].started
         /\ ~multi[s] => ~trx'[s].started
<1>1. CASE multi[s]
  BY <1>1, SameTrx DEF Close
<1>2. CASE ~multi[s]
  <2>1. /\ nextId' = nextId + 1 /\ rows' = Committed(trx[s], nextId + 1)
        /\ trx' = [trx EXCEPT ![s] = Ended(@)]
    BY <1>2 DEF Close
  <2>2. TrxInv'
    BY <2>1, CommitTrx
  <2>3. ~trx'[s].started /\ \A t \in Sessions : t # s => trx'[t].started = trx[t].started
    BY <2>1, EndTrx
  <2> QED BY <2>2, <2>3
<1> QED BY <1>1, <1>2

LEMMA BeginKeeps ==
  ASSUME SessionInv, NEW s \in Sessions, Begin(s)
  PROVE  SessionInv'
<1>1. TrxInv /\ StmtInv
  BY Parts
<1>2. TrxInv' /\ \A t \in Sessions : t # s => trx'[t] = trx[t]
  BY <1>1, StartTrx DEF Begin
<1>3. /\ multi' \in [Sessions -> BOOLEAN] /\ multi'[s] = TRUE
      /\ \A t \in Sessions : t # s => multi'[t] = multi[t]
  BY <1>1 DEF StmtInv, StmtTyped, Begin
<1>4. sent' \in [Sessions -> Nat] /\ open' = open
  BY <1>1 DEF StmtInv, StmtTyped, Begin
<1>5. AnswerState(s) /\ ~Busy(s)
  BY DEF Begin
<1>6. StmtInv'
  BY <1>1, <1>2, <1>3, <1>4, <1>5, AnswerStateStep
<1> QED BY <1>2, <1>6, Parts

LEMMA CommitKeeps ==
  ASSUME SessionInv, NEW s \in Sessions, Commit(s)
  PROVE  SessionInv'
<1>1. TrxInv /\ StmtInv
  BY Parts
<1>2. TrxInv' /\ ~trx'[s].started /\ \A t \in Sessions : t # s => trx'[t] = trx[t]
  BY <1>1, CommitTrx, EndTrx DEF Commit
<1>3. multi' \in [Sessions -> BOOLEAN] /\ \A t \in Sessions : t # s => multi'[t] = multi[t]
  BY <1>1 DEF StmtInv, StmtTyped, Commit
<1>4. sent' \in [Sessions -> Nat] /\ open' = open
  BY <1>1, Sending DEF Commit
<1>5. AnswerState(s) /\ ~Busy(s)
  BY DEF Commit, Send
<1>6. StmtInv'
  BY <1>1, <1>2, <1>3, <1>4, <1>5, AnswerStateStep
<1> QED BY <1>2, <1>6, Parts

LEMMA RollbackKeeps ==
  ASSUME SessionInv, NEW s \in Sessions, Rollback(s)
  PROVE  SessionInv'
<1>1. TrxInv /\ StmtInv
  BY Parts
<1>2. TrxInv' /\ ~trx'[s].started /\ \A t \in Sessions : t # s => trx'[t] = trx[t]
  BY <1>1, RollbackTrx, EndTrx DEF Rollback
<1>3. multi' \in [Sessions -> BOOLEAN] /\ \A t \in Sessions : t # s => multi'[t] = multi[t]
  BY <1>1 DEF StmtInv, StmtTyped, Rollback
<1>4. sent' \in [Sessions -> Nat] /\ open' = open
  BY <1>1, Sending DEF Rollback
<1>5. AnswerState(s) /\ ~Busy(s)
  BY DEF Rollback, Send
<1>6. StmtInv'
  BY <1>1, <1>2, <1>3, <1>4, <1>5, AnswerStateStep
<1> QED BY <1>2, <1>6, Parts

LEMMA PlanFailsKeeps ==
  ASSUME SessionInv, NEW s \in Sessions, PlanFails(s)
  PROVE  SessionInv'
<1>1. TrxInv /\ StmtInv
  BY Parts
<1>2. TrxInv' /\ trx' = trx /\ multi' = multi /\ stmt' = stmt /\ last' = last /\ open' = open
  BY <1>1, SameTrx DEF PlanFails
<1>3. sent' \in [Sessions -> Nat]
  BY <1>1, Sending DEF PlanFails
<1>4. StmtInv'
  BY <1>1, <1>2, <1>3 DEF StmtInv, StmtTyped, Control, Work, OnTheWay, SuccessIsComplete, Busy
<1> QED BY <1>2, <1>4, Parts

\* The transaction's part of opening a statement.
LEMMA OpenStep ==
  ASSUME SessionInv, NEW s \in Sessions, OpenTrx(s), rows' = rows
  PROVE  /\ TrxInv' /\ trx'[s].started /\ sent' \in [Sessions -> Nat]
         /\ \A t \in Sessions : t # s => trx'[t].started = trx[t].started
<1>1. TrxInv /\ StmtInv
  BY Parts
<1>2. sent' \in [Sessions -> Nat]
  BY <1>1, Sending DEF OpenTrx
<1> QED BY <1>1, <1>2, StartTrx DEF OpenTrx

LEMMA OpenInsertKeeps ==
  ASSUME SessionInv, NEW s \in Sessions, NEW k \in Keys, OpenInsert(s, k)
  PROVE  SessionInv'
<1>1. TrxInv /\ StmtInv
  BY Parts
<1>2. /\ TrxInv' /\ trx'[s].started /\ sent' \in [Sessions -> Nat]
      /\ \A t \in Sessions : t # s => trx'[t].started = trx[t].started
  BY OpenStep DEF OpenInsert
<1>3. last' = last /\ multi' = multi /\ open' = open
  BY DEF OpenInsert
<1> DEFINE st == [NoStmt EXCEPT !.kind = "INSERT", !.adds = <<k>>]
<1>4. stmt' = [stmt EXCEPT ![s] = st]
  BY DEF OpenInsert
<1>5. st.kind = "INSERT" /\ st.adds = <<k>>
  BY DEF NoStmt
<1>6. st.found = {} /\ st.did = {} /\ st.made = 0 /\ st.todo = <<>>
  BY DEF NoStmt
<1> HIDE DEF st
<1>7. <<k>> \in Seq(Keys) /\ Len(<<k>>) = 1
  OBVIOUS
<1>8. StmtFine(st) /\ OnTheWay(st)
  BY <1>5, <1>6, <1>7 DEF StmtFine, OnTheWay
<1>9. StmtInv'
  BY <1>1, <1>2, <1>3, <1>4, <1>5, <1>8, StmtStep
<1> QED BY <1>2, <1>9, Parts

LEMMA OpenFailsKeeps ==
  ASSUME SessionInv, NEW s \in Sessions, NEW kind \in {"INSERT", "DELETE", "UPDATE", "SELECT"},
         OpenFails(s, kind)
  PROVE  SessionInv'
<1>1. TrxInv /\ StmtInv
  BY Parts
<1>2. /\ TrxInv' /\ trx'[s].started /\ sent' \in [Sessions -> Nat]
      /\ \A t \in Sessions : t # s => trx'[t].started = trx[t].started
  BY OpenStep DEF OpenFails
<1>3. last' = last /\ multi' = multi /\ open' = open
  BY DEF OpenFails
<1> DEFINE st == [NoStmt EXCEPT !.kind = kind, !.rc = "FAILED"]
<1>4. stmt' = [stmt EXCEPT ![s] = st]
  BY DEF OpenFails
<1>5. st.kind = kind /\ st.rc = "FAILED"
  BY DEF NoStmt
<1>6. st.found = {} /\ st.did = {} /\ st.made = 0 /\ st.todo = <<>> /\ st.adds = <<>>
  BY DEF NoStmt
<1> HIDE DEF st
<1>7. StmtFine(st) /\ OnTheWay(st)
  BY <1>5, <1>6 DEF StmtFine, OnTheWay
<1>8. StmtInv'
  BY <1>1, <1>2, <1>3, <1>4, <1>5, <1>7, StmtStep
<1> QED BY <1>2, <1>8, Parts

LEMMA OpenSelectKeeps ==
  ASSUME SessionInv, NEW s \in Sessions, OpenSelect(s)
  PROVE  SessionInv'
<1>1. TrxInv /\ StmtInv
  BY Parts
<1>2. /\ TrxInv' /\ trx'[s].started /\ sent' \in [Sessions -> Nat]
      /\ \A t \in Sessions : t # s => trx'[t].started = trx[t].started
  BY OpenStep DEF OpenSelect
<1>3. last' = last /\ multi' = multi /\ open' = open
  BY DEF OpenSelect
<1> DEFINE found == {i \in Used : Visit(rows[i], Started(trx[s]).id, TRUE) = "SUCCESS"}
           st == [NoStmt EXCEPT !.kind = "SELECT", !.found = found]
<1>4. found \subseteq Slots
  BY <1>1 DEF TrxInv, TrxTyped
<1>5. stmt' = [stmt EXCEPT ![s] = st]
  BY DEF OpenSelect
<1> HIDE DEF found
<1>6. st.kind = "SELECT" /\ st.found = found
  BY DEF NoStmt
<1>7. st.did = {} /\ st.made = 0 /\ st.todo = <<>> /\ st.adds = <<>>
  BY DEF NoStmt
<1> HIDE DEF st
<1>8. StmtFine(st) /\ OnTheWay(st)
  BY <1>4, <1>6, <1>7 DEF StmtFine, OnTheWay
<1>9. StmtInv'
  BY <1>1, <1>2, <1>3, <1>5, <1>6, <1>8, StmtStep
<1> QED BY <1>2, <1>9, Parts

\* The rows a condition finds, as the scan gives them.
LEMMA Given ==
  ASSUME TrxInv, NEW where, NEW id
  PROVE  LET found == Found(where, id)
             given == InOrder(found)
         IN  /\ found \subseteq Used /\ found \subseteq Slots /\ Cardinality(found) \in Nat
             /\ given \in Seq(Slots) /\ Len(given) = Cardinality(found)
             /\ DOMAIN given = 1 .. Cardinality(found) /\ Range(given) = found
<1> DEFINE found == Found(where, id)
<1>1. found \subseteq Used /\ found \in SUBSET Slots
  BY DEF Found, TrxInv, TrxTyped
<1> HIDE DEF found
<1>2. Cardinality(found) \in Nat
  BY <1>1, SlotSets
<1> QED BY <1>1, <1>2, InOrderIs DEF found

LEMMA OpenDeleteKeeps ==
  ASSUME SessionInv, NEW s \in Sessions, NEW where \in Wheres, OpenDelete(s, where)
  PROVE  SessionInv'
<1>1. TrxInv /\ StmtInv
  BY Parts
<1>2. /\ TrxInv' /\ trx'[s].started /\ sent' \in [Sessions -> Nat]
      /\ \A t \in Sessions : t # s => trx'[t].started = trx[t].started
  BY OpenStep DEF OpenDelete
<1>3. last' = last /\ multi' = multi /\ open' = open
  BY DEF OpenDelete
<1> DEFINE found == Found(where, Started(trx[s]).id)
           given == InOrder(found)
<1>4. PICK n \in 0 .. Len(given) :
        stmt' = [stmt EXCEPT ![s] =
          [NoStmt EXCEPT !.kind = "DELETE", !.found = found, !.todo = SubSeq(given, 1, n),
                         !.cut = n < Len(given)]]
  BY DEF OpenDelete
<1>5. found \subseteq Slots /\ given \in Seq(Slots) /\ Range(given) = found
  BY <1>1, Given
<1> DEFINE todo == SubSeq(given, 1, n)
           cut == n < Len(given)
           st == [NoStmt EXCEPT !.kind = "DELETE", !.found = found, !.todo = todo, !.cut = cut]
<1>6. stmt' = [stmt EXCEPT ![s] = st]
  BY <1>4
<1> HIDE DEF found, given
<1>7. n \in Nat /\ n <= Len(given) /\ Len(given) \in Nat
  BY <1>5
<1>8. todo \in Seq(Slots)
  BY <1>5, <1>7
<1>9. ~cut => todo = given
  <2>1. SUFFICES ASSUME ~cut PROVE todo = given
    OBVIOUS
  <2>2. n = Len(given)
    BY <1>7, <2>1
  <2> QED BY <1>5, <2>2
<1> HIDE DEF todo, cut
<1>10. st.kind = "DELETE" /\ st.found = found /\ st.todo = todo /\ st.cut = cut
  BY DEF NoStmt
<1>11. st.did = {} /\ st.made = 0 /\ st.adds = <<>>
  BY DEF NoStmt
<1> HIDE DEF st
<1>12. StmtFine(st)
  BY <1>5, <1>8, <1>10, <1>11 DEF StmtFine
<1>13. OnTheWay(st)
  BY <1>5, <1>9, <1>10, <1>11 DEF OnTheWay
<1>14. StmtInv'
  BY <1>1, <1>2, <1>3, <1>6, <1>10, <1>12, <1>13, StmtStep
<1> QED BY <1>2, <1>14, Parts

LEMMA OpenUpdateKeeps ==
  ASSUME SessionInv, NEW s \in Sessions, NEW where \in Wheres, OpenUpdate(s, where)
  PROVE  SessionInv'
<1>1. TrxInv /\ StmtInv
  BY Parts
<1>2. /\ TrxInv' /\ trx'[s].started /\ sent' \in [Sessions -> Nat]
      /\ \A t \in Sessions : t # s => trx'[t].started = trx[t].started
  BY OpenStep DEF OpenUpdate
<1>3. last' = last /\ multi' = multi /\ open' = open
  BY DEF OpenUpdate
<1> DEFINE found == Found(where, Started(trx[s]).id)
           given == InOrder(found)
           adds == [i \in DOMAIN given |-> rows[given[i]].key]
           st == [NoStmt EXCEPT !.kind = "UPDATE", !.found = found, !.todo = given, !.adds = adds]
<1>4. stmt' = [stmt EXCEPT ![s] = st]
  BY DEF OpenUpdate
<1>5. /\ found \subseteq Used /\ found \subseteq Slots /\ Cardinality(found) \in Nat
      /\ given \in Seq(Slots) /\ DOMAIN given = 1 .. Cardinality(found) /\ Range(given) = found
  BY <1>1, Given
<1> HIDE DEF found, given
<1>6. adds \in Seq(Keys) /\ Len(adds) = Cardinality(found)
  <2>1. adds = [i \in 1 .. Cardinality(found) |-> rows[given[i]].key]
    BY <1>5
  <2>2. \A i \in 1 .. Cardinality(found) : given[i] \in found
    BY <1>5 DEF Range
  <2>3. \A i \in 1 .. Cardinality(found) : rows[given[i]].key \in Keys
    BY <1>1, <1>5, <2>2 DEF TrxInv, TrxTyped
  <2> HIDE DEF adds
  <2> QED BY <1>5, <2>1, <2>3
<1> HIDE DEF adds
<1>7. st.kind = "UPDATE" /\ st.found = found /\ st.todo = given /\ st.adds = adds
  BY DEF NoStmt
<1>8. st.did = {} /\ st.made = 0
  BY DEF NoStmt
<1> HIDE DEF st
<1>9. StmtFine(st)
  BY <1>5, <1>6, <1>7, <1>8 DEF StmtFine
<1>10. OnTheWay(st)
  BY <1>5, <1>6, <1>7, <1>8 DEF OnTheWay
<1>11. StmtInv'
  BY <1>1, <1>2, <1>3, <1>4, <1>7, <1>9, <1>10, StmtStep
<1> QED BY <1>2, <1>11, Parts

\* A statement in execution stands as the invariant says.
LEMMA Standing ==
  ASSUME StmtInv, NEW s \in Sessions
  PROVE  StmtFine(stmt[s]) /\ OnTheWay(stmt[s])
BY DEF StmtInv, StmtTyped, Work, StmtFine

LEMMA DeleteNextKeeps ==
  ASSUME SessionInv, NEW s \in Sessions, DeleteNext(s)
  PROVE  SessionInv'
<1>1. TrxInv /\ StmtInv
  BY Parts
<1> DEFINE i == Head(stmt[s].todo)
           visit == IF i \in Used THEN Visit(rows[i], trx[s].id, FALSE) ELSE "GONE"
           st == stmt'[s]
<1>2. stmt[s].todo # <<>> /\ stmt[s].rc = "SUCCESS" /\ Busy(s) /\ trx[s].started
  BY <1>1 DEF DeleteNext, StmtInv, Control
<1>3. /\ nextId' = nextId /\ last' = last /\ multi' = multi /\ open' = open
      /\ sent' \in [Sessions -> Nat] /\ DOMAIN stmt = Sessions
  BY <1>1 DEF DeleteNext, StmtInv, StmtTyped
<1>4. StmtFine(stmt[s]) /\ OnTheWay(stmt[s])
  BY <1>1, Standing
<1>5. /\ i \in Slots /\ Tail(stmt[s].todo) \in Seq(Slots)
      /\ Range(stmt[s].todo) = {i} \cup Range(Tail(stmt[s].todo))
  BY <1>2, <1>4, HeadTail DEF StmtFine
<1>6. CASE visit = "SUCCESS"
  <2>1. /\ rows' = [rows EXCEPT ![i].end = -trx[s].id]
        /\ trx' = [trx EXCEPT ![s].ops = Append(@, [type |-> "DELETE", rid |-> i])]
        /\ stmt' = [stmt EXCEPT ![s].todo = Tail(@), ![s].did = @ \cup {i}]
    BY <1>6 DEF DeleteNext
  <2>2. i \in Used /\ Visit(rows[i], trx[s].id, FALSE) = "SUCCESS"
    BY <1>6
  <2>3. TrxInv' /\ \A t \in Sessions : trx'[t].started = trx[t].started
    BY <1>1, <1>2, <1>3, <2>1, <2>2, DeleteTrx
  <2> HIDE DEF i
  <2>4. /\ st.todo = Tail(stmt[s].todo) /\ st.did = stmt[s].did \cup {i}
        /\ st.kind = stmt[s].kind /\ st.cut = stmt[s].cut /\ st.found = stmt[s].found
        /\ st.adds = stmt[s].adds /\ st.made = stmt[s].made /\ st.rc = stmt[s].rc
    BY <1>3, <2>1
  <2>5. stmt' = [stmt EXCEPT ![s] = st]
    BY <1>3, <2>1
  <2> HIDE DEF st
  <2>6. StmtFine(st)
    BY <1>4, <1>5, <2>4 DEF StmtFine
  <2>7. OnTheWay(st)
    <3>1. stmt[s].kind \in {"DELETE", "UPDATE"} /\ ~stmt[s].cut =>
            stmt[s].did \cup Range(stmt[s].todo) = stmt[s].found
      BY <1>2, <1>4 DEF OnTheWay
    <3>2. /\ stmt[s].kind = "UPDATE" => stmt[s].made + Len(stmt[s].adds) = Cardinality(stmt[s].found)
          /\ stmt[s].kind = "INSERT" => stmt[s].made + Len(stmt[s].adds) = 1
      BY <1>2, <1>4 DEF OnTheWay
    <3>3. st.kind \in {"DELETE", "UPDATE"} /\ ~st.cut => st.did \cup Range(st.todo) = st.found
      BY <1>5, <2>4, <3>1
    <3> QED BY <2>4, <3>2, <3>3 DEF OnTheWay
  <2>8. StmtInv'
    BY <1>1, <1>2, <1>3, <2>3, <2>4, <2>5, <2>6, <2>7, StmtStep DEF Busy
  <2> QED BY <2>3, <2>8, Parts
<1>7. CASE visit # "SUCCESS"
  <2>1. stmt' = [stmt EXCEPT ![s].rc = visit] /\ rows' = rows /\ trx' = trx
    BY <1>7 DEF DeleteNext
  <2>2. TrxInv'
    BY <1>1, <1>3, <2>1, SameTrx
  <2> HIDE DEF visit
  <2>3. /\ st.todo = stmt[s].todo /\ st.did = stmt[s].did /\ st.kind = stmt[s].kind
        /\ st.cut = stmt[s].cut /\ st.found = stmt[s].found
        /\ st.adds = stmt[s].adds /\ st.made = stmt[s].made /\ st.rc = visit
    BY <1>3, <2>1
  <2>4. stmt' = [stmt EXCEPT ![s] = st]
    BY <1>3, <2>1
  <2> HIDE DEF st
  <2>5. StmtFine(st) /\ OnTheWay(st)
    BY <1>4, <1>7, <2>3 DEF StmtFine, OnTheWay
  <2>6. StmtInv'
    BY <1>1, <1>2, <1>3, <2>1, <2>3, <2>4, <2>5, StmtStep DEF Busy
  <2> QED BY <2>2, <2>6, Parts
<1> QED BY <1>6, <1>7

LEMMA InsertNextKeeps ==
  ASSUME SessionInv, NEW s \in Sessions, InsertNext(s)
  PROVE  SessionInv'
<1>1. TrxInv /\ StmtInv
  BY Parts
<1> DEFINE i == CHOOSE i \in Free : \A j \in Free : i <= j
           key == Head(stmt[s].adds)
           st == stmt'[s]
<1>2. /\ stmt[s].todo = <<>> /\ stmt[s].adds # <<>> /\ stmt[s].rc = "SUCCESS"
      /\ Busy(s) /\ trx[s].started
  BY <1>1 DEF InsertNext, StmtInv, Control
<1>3. /\ nextId' = nextId /\ last' = last /\ multi' = multi /\ open' = open
      /\ sent' \in [Sessions -> Nat] /\ DOMAIN stmt = Sessions
  BY <1>1 DEF InsertNext, StmtInv, StmtTyped
<1>4. StmtFine(stmt[s]) /\ OnTheWay(stmt[s])
  BY <1>1, Standing
<1>5. /\ key \in Keys /\ Tail(stmt[s].adds) \in Seq(Keys)
      /\ Len(stmt[s].adds) \in Nat /\ Len(Tail(stmt[s].adds)) = Len(stmt[s].adds) - 1
  BY <1>2, <1>4, HeadTail DEF StmtFine
<1>6. i \in Free
  <2>1. Free # {} /\ Free \subseteq Nat
    BY SessionAssumption DEF InsertNext, Free, Slots
  <2>2. \E m \in Free : \A j \in Free : m <= j
    BY <2>1, Least
  <2> QED BY <2>2
<1>7. /\ rows' = [j \in Used \cup {i} |->
                   IF j = i THEN [begin |-> -trx[s].id, end |-> MAX_ID, key |-> key] ELSE rows[j]]
      /\ trx' = [trx EXCEPT ![s].ops = Append(@, [type |-> "INSERT", rid |-> i])]
      /\ stmt' = [stmt EXCEPT ![s].adds = Tail(@), ![s].made = @ + 1]
  BY DEF InsertNext
<1> HIDE DEF i, key
<1>8. TrxInv' /\ \A t \in Sessions : trx'[t].started = trx[t].started
  BY <1>1, <1>2, <1>3, <1>5, <1>6, <1>7, InsertTrx
<1>9. /\ st.adds = Tail(stmt[s].adds) /\ st.made = stmt[s].made + 1
      /\ st.kind = stmt[s].kind /\ st.cut = stmt[s].cut /\ st.found = stmt[s].found
      /\ st.todo = stmt[s].todo /\ st.did = stmt[s].did /\ st.rc = stmt[s].rc
  BY <1>3, <1>7
<1>10. stmt' = [stmt EXCEPT ![s] = st]
  BY <1>3, <1>7
<1> HIDE DEF st
<1>11. StmtFine(st)
  BY <1>4, <1>5, <1>9 DEF StmtFine
<1>12. OnTheWay(st)
  <2>1. /\ stmt[s].kind = "UPDATE" => stmt[s].made + Len(stmt[s].adds) = Cardinality(stmt[s].found)
        /\ stmt[s].kind = "INSERT" => stmt[s].made + Len(stmt[s].adds) = 1
    BY <1>2, <1>4 DEF OnTheWay
  <2>2. st.kind \in {"DELETE", "UPDATE"} /\ ~st.cut => st.did \cup Range(st.todo) = st.found
    BY <1>2, <1>4, <1>9 DEF OnTheWay
  <2>3. stmt[s].made \in Nat
    BY <1>4 DEF StmtFine
  <2>4. st.made + Len(st.adds) = stmt[s].made + Len(stmt[s].adds)
    <3> DEFINE m == stmt[s].made
               l == Len(stmt[s].adds)
    <3>1. m \in Nat /\ l \in Nat
      BY <1>5, <2>3
    <3>2. st.made = m + 1 /\ Len(st.adds) = l - 1
      BY <1>5, <1>9
    <3> HIDE DEF m, l
    <3>3. st.made + Len(st.adds) = m + l
      BY <3>1, <3>2
    <3> QED BY <3>3 DEF m, l
  <2> QED BY <1>9, <2>1, <2>2, <2>4 DEF OnTheWay
<1>13. StmtInv'
  BY <1>1, <1>2, <1>3, <1>8, <1>9, <1>10, <1>11, <1>12, StmtStep DEF Busy
<1> QED BY <1>8, <1>13, Parts

LEMMA InsertFailsKeeps ==
  ASSUME SessionInv, NEW s \in Sessions, InsertFails(s)
  PROVE  SessionInv'
<1>1. TrxInv /\ StmtInv
  BY Parts
<1> DEFINE st == stmt'[s]
<1>2. stmt[s].adds # <<>> /\ Busy(s) /\ trx[s].started /\ DOMAIN stmt = Sessions
  BY <1>1 DEF InsertFails, StmtInv, StmtTyped, Control
<1>3. /\ TrxInv' /\ trx' = trx /\ last' = last /\ multi' = multi /\ open' = open
      /\ sent' \in [Sessions -> Nat] /\ stmt' = [stmt EXCEPT ![s].rc = "FAILED"]
  BY <1>1, SameTrx DEF InsertFails, StmtInv, StmtTyped
<1>4. /\ st.todo = stmt[s].todo /\ st.did = stmt[s].did /\ st.kind = stmt[s].kind
      /\ st.found = stmt[s].found /\ st.adds = stmt[s].adds /\ st.made = stmt[s].made /\ st.rc = "FAILED"
  BY <1>2, <1>3
<1>5. stmt' = [stmt EXCEPT ![s] = st]
  BY <1>2, <1>3
<1> HIDE DEF st
<1>6. StmtFine(st) /\ OnTheWay(st)
  BY <1>1, <1>4, Standing DEF StmtFine, OnTheWay
<1>7. StmtInv'
  BY <1>1, <1>2, <1>3, <1>4, <1>5, <1>6, StmtStep DEF Busy
<1> QED BY <1>3, <1>7, Parts

\* A statement that has nothing left to do has done what it found.
LEMMA Done ==
  ASSUME NEW st, StmtFine(st), OnTheWay(st), st.rc = "SUCCESS", st.todo = <<>>, st.adds = <<>>
  PROVE  ~st.cut => Whole(st)
<1>1. Range(st.todo) = {} /\ Len(st.adds) = 0
  BY DEF Range
<1>2. st.made + Len(st.adds) = st.made
  BY <1>1 DEF StmtFine
<1>3. st.did \cup Range(st.todo) = st.did
  BY <1>1
<1>4. st.kind \in {"DELETE", "UPDATE"} /\ ~st.cut => st.did = st.found
  BY <1>3 DEF OnTheWay
<1>5. /\ st.kind = "UPDATE" => st.made = Cardinality(st.found)
      /\ st.kind = "INSERT" => st.made = 1
  BY <1>2 DEF OnTheWay
<1> QED BY <1>4, <1>5 DEF Whole

LEMMA FinishKeeps ==
  ASSUME SessionInv, NEW s \in Sessions, Finish(s)
  PROVE  SessionInv'
<1>1. TrxInv /\ StmtInv
  BY Parts
<1>2. /\ TrxInv' /\ \A t \in Sessions : t # s => trx'[t].started = trx[t].started
      /\ ~multi[s] => ~trx'[s].started
  BY <1>1, CloseStep DEF Finish
<1>3. Answer(s, stmt[s], "SUCCESS") /\ multi' = multi /\ open' = open
  BY DEF Finish
<1>4. sent' \in [Sessions -> Nat]
  BY <1>1 DEF Finish, StmtInv, StmtTyped
<1>5. ~stmt[s].cut => Whole(stmt[s])
  BY <1>1, Standing, Done DEF Finish, Opened
<1>6. StmtInv'
  BY <1>1, <1>2, <1>3, <1>4, <1>5, AnswerStep
<1> QED BY <1>2, <1>6, Parts

LEMMA SelectFailsKeeps ==
  ASSUME SessionInv, NEW s \in Sessions, SelectFails(s)
  PROVE  SessionInv'
<1>1. TrxInv /\ StmtInv
  BY Parts
<1>2. /\ TrxInv' /\ \A t \in Sessions : t # s => trx'[t].started = trx[t].started
      /\ ~multi[s] => ~trx'[s].started
  BY <1>1, CloseStep DEF SelectFails
<1>3. Answer(s, stmt[s], "SUCCESS") /\ multi' = multi /\ open' = open
  BY DEF SelectFails
<1>4. sent' \in [Sessions -> Nat]
  BY <1>1 DEF SelectFails, StmtInv, StmtTyped
<1>5. Whole(stmt[s])
  BY DEF SelectFails, Whole
<1>6. StmtInv'
  BY <1>1, <1>2, <1>3, <1>4, <1>5, AnswerStep
<1> QED BY <1>2, <1>6, Parts

LEMMA HeaderFailsKeeps ==
  ASSUME SessionInv, NEW s \in Sessions, HeaderFails(s)
  PROVE  SessionInv'
<1>1. TrxInv /\ StmtInv
  BY Parts
<1>2. /\ TrxInv' /\ trx' = trx /\ multi' = multi /\ last' = last /\ sent' = sent
      /\ open' = open \ {s} /\ stmt' = [stmt EXCEPT ![s] = NoStmt]
  BY <1>1, SameTrx DEF HeaderFails
<1>3. /\ DOMAIN stmt' = Sessions /\ stmt'[s] = NoStmt
      /\ \A t \in Sessions : t # s => stmt'[t] = stmt[t]
  BY <1>1, <1>2 DEF StmtInv, StmtTyped
<1>4. NoStmt.kind = "none" /\ StmtFine(NoStmt) /\ NoStmt.todo = <<>> /\ NoStmt.adds = <<>>
      /\ OnTheWay(NoStmt)
  BY DEF NoStmt, StmtFine, OnTheWay
<1>5. StmtTyped'
  <2>1. ASSUME NEW t \in Sessions PROVE StmtFine(stmt'[t])
    BY <1>1, <1>3, <1>4 DEF StmtInv, StmtTyped, StmtFine
  <2> QED BY <1>1, <1>2, <1>3, <2>1 DEF StmtInv, StmtTyped, StmtFine
<1>6. Control'
  BY <1>1, <1>2, <1>3, <1>4 DEF StmtInv, Control, Busy
<1>7. Work'
  <2>1. ASSUME NEW t \in Sessions PROVE OnTheWay(stmt'[t])
    BY <1>1, <1>3, <1>4 DEF StmtInv, Work
  <2> QED BY <2>1 DEF Work, OnTheWay
<1>8. SuccessIsComplete'
  BY <1>1, <1>2 DEF StmtInv, SuccessIsComplete
<1>9. StmtInv'
  BY <1>5, <1>6, <1>7, <1>8 DEF StmtInv
<1> QED BY <1>2, <1>9, Parts

LEMMA PlainOpenFailedKeeps ==
  ASSUME SessionInv, NEW s \in Sessions, PlainOpenFailed(s)
  PROVE  SessionInv'
<1>1. TrxInv /\ StmtInv
  BY Parts
<1>2. /\ TrxInv' /\ \A t \in Sessions : t # s => trx'[t].started = trx[t].started
      /\ ~multi[s] => ~trx'[s].started
  BY <1>1, CloseStep DEF PlainOpenFailed
<1>3. Answer(s, stmt[s], "FAILURE") /\ multi' = multi /\ open' = open
  BY DEF PlainOpenFailed
<1>4. sent' \in [Sessions -> Nat]
  BY <1>1 DEF PlainOpenFailed, StmtInv, StmtTyped
<1>5. StmtInv'
  BY <1>1, <1>2, <1>3, <1>4, AnswerStep
<1> QED BY <1>2, <1>5, Parts

LEMMA MysqlOpenFailedKeeps ==
  ASSUME SessionInv, NEW s \in Sessions, MysqlOpenFailed(s)
  PROVE  SessionInv'
<1>1. TrxInv /\ StmtInv
  BY Parts
<1>2. Answer(s, stmt[s], "FAILURE") /\ Protocol[s] = "mysql"
  BY DEF MysqlOpenFailed
<1>3. /\ TrxInv' /\ trx' = trx /\ multi' = multi /\ open' = open
      /\ sent' \in [Sessions -> Nat]
  BY <1>1, SameTrx DEF MysqlOpenFailed, StmtInv, StmtTyped
<1>4. StmtInv'
  BY <1>1, <1>2, <1>3, AnswerStep
<1> QED BY <1>3, <1>4, Parts

LEMMA DisconnectKeeps ==
  ASSUME SessionInv, NEW s \in Sessions, Disconnect(s)
  PROVE  SessionInv'
<1>1. TrxInv /\ StmtInv
  BY Parts
<1>2. TrxInv'
  BY <1>1, SameTrx DEF Disconnect
<1>3. StmtInv'
  BY <1>1 DEF Disconnect, StmtInv, StmtTyped, Control, Work, OnTheWay, SuccessIsComplete, Busy
<1> QED BY <1>2, <1>3, Parts

\* The rows the table holds at the start are nobody's.
LEMMA InitKeeps == Init => SessionInv
<1> SUFFICES ASSUME Init PROVE SessionInv
  OBVIOUS
<1> DEFINE n == Cardinality(Stored)
           q == SetToSeq(Stored)
<1>1. n \in Nat /\ n <= RowBound /\ RowBound \in Nat /\ MAX_ID \in Nat
  BY SessionAssumption, FS_CardinalityType
<1>2. \A i \in 1 .. n : q[i] \in Keys
  <2>1. \E f : f \in [1 .. n -> Stored] /\ IsInjective(f)
    <3>1. ExistsBijection(1 .. n, Stored)
      BY SessionAssumption, FS_CardinalityType
    <3>2. PICK f \in Bijection(1 .. n, Stored) : TRUE
      BY <3>1 DEF ExistsBijection
    <3> QED BY <3>2 DEF Bijection, Injection, IsInjective
  <2>2. q \in [1 .. n -> Stored]
    BY <2>1 DEF SetToSeq
  <2> QED BY <2>2, SessionAssumption
<1> HIDE DEF q
<1>3. /\ Used = 1 .. n
      /\ \A i \in Used : rows[i].begin = 1 /\ rows[i].end = MAX_ID /\ rows[i].key \in Keys
  BY <1>2 DEF Init, Used, q
<1> HIDE DEF n
<1>4. \A s \in Sessions : trx[s].started = FALSE /\ trx[s].id = 0 /\ trx[s].ops = <<>>
  BY DEF Init
<1>5. TrxInv
  <2>1. Used \subseteq Slots
    BY <1>1, <1>3 DEF Slots
  <2>2. TrxTyped
    <3>1. <<>> \in Seq(Op) /\ nextId = 1 /\ DOMAIN trx = Sessions
      BY DEF Init
    <3>2. \A i \in Used : rows[i].begin \in Int /\ rows[i].end \in Int /\ rows[i].key \in Keys
      BY <1>1, <1>3
    <3>3. \A s \in Sessions : trx[s].started \in BOOLEAN
      BY <1>4
    <3>4. \A s \in Sessions : trx[s].id \in Nat
      BY <1>4
    <3>5. \A s \in Sessions : trx[s].ops \in Seq(Op)
      BY <1>4, <3>1, Zenon
    <3>6. nextId \in Nat
      BY <3>1
    <3> QED BY <2>1, <3>1, <3>2, <3>3, <3>4, <3>5, <3>6 DEF TrxTyped
  <2>3. Numbers /\ StampsMatchOps
    BY <1>4 DEF Init, Numbers, StampsMatchOps
  <2>4. Stamps
    BY <1>1, <1>3 DEF Init, Stamps
  <2> QED BY <2>2, <2>3, <2>4 DEF TrxInv
<1>6. StmtInv
  <2>1. \A s \in Sessions : stmt[s] = NoStmt /\ last[s] = NoAnswer
    BY DEF Init
  <2>2. StmtTyped
    <3>1. StmtFine(NoStmt)
      BY DEF StmtFine, NoStmt
    <3> QED BY <2>1, <3>1 DEF Init, StmtTyped, StmtFine
  <2>3. Control
    BY <1>4, <2>1 DEF Control, Busy, NoStmt
  <2>4. Work
    BY <2>1 DEF Work, OnTheWay, NoStmt
  <2>5. SuccessIsComplete
    BY <2>1 DEF SuccessIsComplete, NoAnswer
  <2> QED BY <2>2, <2>3, <2>4, <2>5 DEF StmtInv
<1> QED BY <1>5, <1>6, Parts

LEMMA StepKeeps == SessionInv /\ [Next]_vars => SessionInv'
<1> SUFFICES ASSUME SessionInv, [Next]_vars PROVE SessionInv'
  OBVIOUS
<1>1. CASE Next
  <2>1. PICK s \in Sessions :
          \/ Begin(s) \/ Commit(s) \/ Rollback(s) \/ PlanFails(s) \/ OpenSelect(s)
          \/ \E k \in Keys \ Stored : OpenInsert(s, k)
          \/ \E where \in Wheres : OpenDelete(s, where) \/ OpenUpdate(s, where)
          \/ \E kind \in {"INSERT", "DELETE", "UPDATE", "SELECT"} : OpenFails(s, kind)
          \/ DeleteNext(s) \/ InsertNext(s) \/ InsertFails(s)
          \/ Finish(s) \/ SelectFails(s) \/ HeaderFails(s) \/ PlainOpenFailed(s) \/ MysqlOpenFailed(s)
          \/ Disconnect(s)
    BY <1>1 DEF Next
  <2> QED BY <2>1, BeginKeeps, CommitKeeps, RollbackKeeps, PlanFailsKeeps, OpenSelectKeeps,
             OpenInsertKeeps, OpenDeleteKeeps, OpenUpdateKeeps, OpenFailsKeeps, DeleteNextKeeps,
             InsertNextKeeps, InsertFailsKeeps, FinishKeeps, SelectFailsKeeps, HeaderFailsKeeps,
             PlainOpenFailedKeeps, MysqlOpenFailedKeeps, DisconnectKeeps
<1>2. CASE UNCHANGED vars
  <2>1. /\ rows' = rows /\ nextId' = nextId /\ trx' = trx
        /\ multi' = multi /\ stmt' = stmt /\ last' = last /\ sent' = sent /\ open' = open
    BY <1>2 DEF vars
  <2>2. TrxInv'
    BY <2>1, SameTrx, Parts
  <2>3. StmtInv'
    BY <2>1, Parts DEF StmtInv, StmtTyped, Control, Work, OnTheWay, SuccessIsComplete, Busy
  <2> QED BY <2>2, <2>3, Parts
<1> QED BY <1>1, <1>2

-----------------------------------------------------------------------------
(* The theorems. *)

\* Whatever the sessions send, and wherever their statements interleave or
\* fail, the state of the rows, the transactions and the statements is the one
\* the inductive invariant describes.
THEOREM SessionInvariant == Spec => []SessionInv
BY InitKeeps, StepKeeps, PTL DEF Spec

\* MvccTrx stamps a row before it appends the operation, and commit and rollback
\* go through the operations only: no row is left with the number of a
\* transaction that would not end it.
THEOREM StampsAgree == Spec => []StampsMatchOps
<1>1. SessionInv => StampsMatchOps
  BY DEF SessionInv
<1> QED BY <1>1, SessionInvariant, PTL

\* SqlResult::close ends the transaction of every statement outside BEGIN ...
\* COMMIT; only the MySQL communicator, which does not close a result whose
\* open() failed, leaves one behind.
THEOREM IdleSessionsHoldNothing == Spec => []IdleHoldsNothing
<1>1. SessionInv => IdleHoldsNothing
  <2> SUFFICES ASSUME SessionInv, NEW s \in open, ~Busy(s), ~multi[s],
                      trx[s].started \/ trx[s].ops # <<>>
               PROVE  Protocol[s] = "mysql" /\ last[s].answer = "FAILURE"
    BY DEF IdleHoldsNothing
  <2>1. s \in Sessions
    BY DEF SessionInv, TypeOK
  <2>2. trx[s].started
    BY <2>1 DEF SessionInv, Numbers
  <2> QED BY <2>1, <2>2 DEF SessionInv, Control
<1> QED BY <1>1, SessionInvariant, PTL

\* The physical operators of INSERT, UPDATE and DELETE do all they found or
\* return the error that stopped them, whatever other sessions do to the rows
\* between the scan and the changes: SUCCESS is never the answer of a statement
\* that left a row out, except of a DELETE whose row source failed.
THEOREM SuccessMeansComplete == Spec => []SuccessIsComplete
<1>1. SessionInv => SuccessIsComplete
  BY DEF SessionInv
<1> QED BY <1>1, SessionInvariant, PTL
=============================================================================
