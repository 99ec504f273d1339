------------------------------- MODULE Query --------------------------------
(***************************************************************************)
(* One SQL statement on its way through the observer: names are resolved,  *)
(* a logical plan is built and rewritten until no rule changes it, a       *)
(* physical plan is chosen, and its tree of iterators is opened, drained   *)
(* and closed by the communicator, which sends the answer row by row.      *)
(*                                                                         *)
(* A statement is the parser's syntax tree, chosen from Statements.  Every *)
(* node of a plan is a record and an operator's private members are fields *)
(* of its record, so opening, advancing or closing an iterator maps a tree *)
(* to a tree.  Values are NULL, integers, floats (exact fractions here)    *)
(* and booleans; strings, dates, LIKE and the scalar functions are data    *)
(* that plans do not depend on and are left out.                           *)
(***************************************************************************)
EXTENDS Integers, Sequences, FiniteSets, SequencesExt, Communicator

CONSTANTS
  Fields,      \* table -> its field names, the hidden system field first
  Nullable,    \* the <<table, field>> declared nullable
  Indexed,     \* the <<table, field>> that have an index
  Statements,  \* the statements that may be sent
  Stores       \* the contents the tables may have: table -> Seq(row)

VARIABLES
  stmt,     \* the parsed statement
  store,    \* table -> its records, in the order a scan meets them
  stage,    \* how far the statement has come
  bound,    \* the Stmt object: the statement with its names resolved
  logical,  \* the root of the logical plan
  changed,  \* change_made of the last rewrite pass
  phys,     \* the root of the physical plan
  rc        \* the return_code_ of the statement's SqlResult

vars == <<stmt, store, stage, bound, logical, changed, phys, rc, conn>>

-----------------------------------------------------------------------------
(* Values *)

Null == [t |-> "NULLS", n |-> 0, d |-> 1]
IntV(n) == [t |-> "INTS", n |-> n, d |-> 1]
FloatV(n, d) == [t |-> "FLOATS", n |-> IF d < 0 THEN -n ELSE n, d |-> IF d < 0 THEN -d ELSE d]
BoolV(b) == [t |-> "BOOLEANS", n |-> IF b THEN 1 ELSE 0, d |-> 1]

\* Its sign is that of the two values' difference.  A NULL operand throws
\* null_cast_exception instead, which every caller here tests for.
Compare(a, b) == a.n * b.d - b.n * a.d

\* Value::get_boolean, of a value that is not NULL.
GetBoolean(v) == v.n # 0

\* std::less on values: a comparison with NULL throws and counts as "not less".
Less(a, b) == a # Null /\ b # Null /\ Compare(a, b) < 0

\* The four bytes an index compares as a key of an integer field.  A NULL is
\* stored as zeroes; a float constant is handed over as its own bits.
FLOAT_BITS == 1000
RawKey(v) == IF v.t = "FLOATS" /\ v.n # 0 THEN FLOAT_BITS + v.n ELSE v.n

\* A float is cut towards zero.
TryConvertValue(v, type) ==
  IF v = Null THEN Null
  ELSE CASE type = "INTS" -> IntV(IF v.n < 0 THEN -((-v.n) \div v.d) ELSE v.n \div v.d)
         [] type = "FLOATS" -> FloatV(v.n, v.d)

-----------------------------------------------------------------------------
(* Tuples *)

Ok(v) == [rc |-> "SUCCESS", v |-> v]
Fail(code) == [rc |-> code, v |-> Null]
\* The first of several results that is an error; 0 if none is.
FirstError(results) == SelectInSeq(results, LAMBDA r : r.rc # "SUCCESS")

FieldSpec(table, field) == [table |-> table, field |-> field, alias |-> ""]
AliasSpec(alias) == [table |-> "", field |-> "", alias |-> alias]

\* The hidden field every record starts with: one bit for each NULL.
NullBitmap(vals) ==
  IntV(FoldLeftDomain(LAMBDA sum, i : IF vals[i] = Null THEN sum + 2^i ELSE sum, 0, vals))

RowTuple(table, row) ==
  [kind |-> "row", table |-> table, cells |-> <<NullBitmap(row.vals)>> \o row.vals]

RECURSIVE CellNum(_)
CellNum(tup) ==
  CASE tup.kind = "joined" -> CellNum(tup.left) + CellNum(tup.right)
    [] OTHER -> Len(tup.cells)

RECURSIVE CellAt(_, _)
CellAt(tup, i) ==
  CASE tup.kind = "joined" -> IF i <= CellNum(tup.left) THEN CellAt(tup.left, i)
                              ELSE CellAt(tup.right, i - CellNum(tup.left))
    [] OTHER -> tup.cells[i]

\* CacheTuple::find_cell compares aliases first, and the alias of a plain
\* field is the empty string on both sides.
CacheFindCell(tup, spec) ==
  LET byAlias == SelectInSeq(tup.specs, LAMBDA x : x.alias = spec.alias)
      byName == SelectInSeq(tup.specs, LAMBDA x : x.table = spec.table /\ x.field = spec.field)
  IN CASE byAlias # 0 -> Ok(tup.cells[byAlias])
       [] byAlias = 0 /\ byName # 0 -> Ok(tup.cells[byName])
       [] OTHER -> Fail("NOTFOUND")

RowFindCell(tup, spec) ==
  LET i == SelectInSeq(Fields[tup.table], LAMBDA f : f = spec.field)
  IN IF spec.table = tup.table /\ i # 0 THEN Ok(tup.cells[i]) ELSE Fail("NOTFOUND")

AggregateFindCell(tup, spec) ==
  LET i == SelectInSeq(tup.aggs, LAMBDA agg : agg.alias = spec.alias)
  IN IF i = 0 THEN Fail("NOTFOUND") ELSE Ok(tup.cells[i])

\* A projection without a child reads a ValueListTuple.
FakeTuple == [kind |-> "fake"]

RECURSIVE FindCell(_, _)
JoinedFindCell(left, tup, spec) == IF left.rc = "NOTFOUND" THEN FindCell(tup.right, spec) ELSE left
FindCell(tup, spec) ==
  CASE tup.kind = "row" -> RowFindCell(tup, spec)
    [] tup.kind = "joined" -> JoinedFindCell(FindCell(tup.left, spec), tup, spec)
    [] tup.kind = "aggregate" -> AggregateFindCell(tup, spec)
    [] tup.kind = "cache" -> CacheFindCell(tup, spec)
    [] tup.kind = "fake" -> Fail("INTERNAL")

-----------------------------------------------------------------------------
(* Expressions *)

Val(v) == [op |-> "VALUE", v |-> v]
Field(rel, attr) == [op |-> "FIELD", rel |-> rel, attr |-> attr]
Cell(alias) == [op |-> "CELL", alias |-> alias]
Comp(l, comp, r) == [op |-> "COMPARISON", comp |-> comp, kids |-> <<l, r>>]
Conj(conj, kids) == [op |-> "CONJUNCTION", conj |-> conj, kids |-> kids]
Arith(l, arith, r) == [op |-> "ARITHMETIC", arith |-> arith, kids |-> <<l, r>>]
Not(kid) == [op |-> "NOT", kids |-> <<kid>>]
IsNull(kid) == [op |-> "IS_NULL", kids |-> <<kid>>]
In(kid, list) == [op |-> "IN", kids |-> <<kid>>, list |-> list]
Aggregate(fn, kid) == [op |-> "FUNCTION", fn |-> fn, kids |-> <<kid>>]

Operands(e) == IF e.op \in {"VALUE", "FIELD", "CELL"} THEN <<>> ELSE e.kids

CompareValue(comp, a, b) ==
  IF a = Null \/ b = Null THEN Null
  ELSE BoolV(CASE comp = "=" -> Compare(a, b) = 0
               [] comp = "<>" -> Compare(a, b) # 0
               [] comp = "<" -> Compare(a, b) < 0
               [] comp = "<=" -> Compare(a, b) <= 0
               [] comp = ">" -> Compare(a, b) > 0
               [] comp = ">=" -> Compare(a, b) >= 0)

CalcValue(arith, a, b) ==
  LET number(n, d) == IF a.t = "INTS" /\ b.t = "INTS" THEN IntV(n) ELSE FloatV(n, d)
  IN IF a = Null \/ b = Null THEN Null
     ELSE CASE arith = "+" -> number(a.n * b.d + b.n * a.d, a.d * b.d)
            [] arith = "-" -> number(a.n * b.d - b.n * a.d, a.d * b.d)
            [] arith = "*" -> number(a.n * b.n, a.d * b.d)
            [] arith = "/" -> IF b.n = 0 THEN Null ELSE FloatV(a.n * b.d, a.d * b.n)

\* The loop of ConjunctionExpr::get_value over its children's results: it
\* stops at an error or at the first child that decides.
ConjunctionValue(conj, results) ==
  LET stop == SelectInSeq(results, LAMBDA r : \/ r.rc # "SUCCESS"
                                              \/ r.v # Null /\ GetBoolean(r.v) = (conj = "OR"))
  IN CASE stop # 0 -> IF results[stop].rc # "SUCCESS" THEN results[stop] ELSE Ok(BoolV(conj = "OR"))
       [] stop = 0 /\ \E i \in DOMAIN results : results[i].v = Null -> Ok(Null)
       [] OTHER -> Ok(BoolV(conj = "AND" \/ results = <<>>))

\* InExpr::is_in: the set holds the list's values that are not NULL.
IsIn(v, list) ==
  IF v = Null THEN Null
  ELSE IF \E i \in DOMAIN list : list[i] # Null /\ ~Less(v, list[i]) /\ ~Less(list[i], v)
       THEN BoolV(TRUE)
  ELSE IF Null \in ToSet(list) THEN Null ELSE BoolV(FALSE)

NotValue(v) == IF v = Null THEN Null ELSE BoolV(~GetBoolean(v))
IsNullValue(v) == BoolV(v = Null)

\* The other operators: the first operand that cannot be had decides.
OperatorValue(e, kids) ==
  LET bad == FirstError(kids)
  IN IF bad # 0 THEN kids[bad]
     ELSE Ok(CASE e.op = "COMPARISON" -> CompareValue(e.comp, kids[1].v, kids[2].v)
               [] e.op = "ARITHMETIC" -> CalcValue(e.arith, kids[1].v, kids[2].v)
               [] e.op = "NOT" -> NotValue(kids[1].v)
               [] e.op = "IS_NULL" -> IsNullValue(kids[1].v)
               [] e.op = "IN" -> IsIn(kids[1].v, [i \in DOMAIN e.list |-> e.list[i].v]))

RECURSIVE GetValue(_, _)
GetValue(e, tup) ==
  LET kids == [i \in DOMAIN Operands(e) |-> GetValue(Operands(e)[i], tup)]
  IN CASE e.op = "VALUE" -> Ok(e.v)
       [] e.op = "FIELD" -> FindCell(tup, FieldSpec(e.rel, e.attr))
       [] e.op = "CELL" -> FindCell(tup, AliasSpec(e.alias))
       [] e.op = "CONJUNCTION" -> ConjunctionValue(e.conj, kids)
       [] OTHER -> OperatorValue(e, kids)

-----------------------------------------------------------------------------
(* Resolving names.  A table factor is described by the name the statement *)
(* gives it (its alias if it has one) and by the table behind it.          *)

TableRef(rel, alias) == [type |-> "TABLE", rel |-> rel, alias |-> alias]
JoinRef(left, right, on) == [type |-> "JOIN", left |-> left, right |-> right, on |-> on]

Item(e, alias) == [e |-> e, alias |-> alias]
STAR == Field("", "*")

Good(e) == [rc |-> "SUCCESS", e |-> e]
Bad(code) == [rc |-> code, e |-> Val(Null)]

\* The alias of a selected column hides the columns of that name; only the
\* field's name is taken over from it.
GenerateField(descs, schema, rel, attr) ==
  LET hider == SelectInSeq(schema, LAMBDA spec : spec.alias = attr)
      name == IF hider = 0 THEN attr ELSE schema[hider].field
      matched == SelectSeq(descs, LAMBDA desc : name \in ToSet(Fields[desc.table]))
      named == SelectSeq(matched, LAMBDA desc : desc.name = rel)
  IN CASE attr = "*" -> Bad("INVALID_ARGUMENT")
       [] attr # "*" /\ matched = <<>> -> Bad("SCHEMA_FIELD_MISSING")
       [] attr # "*" /\ rel = "" /\ Len(matched) > 1 -> Bad("SCHEMA_FIELD_AMBIGUOUS")
       [] attr # "*" /\ rel = "" /\ Len(matched) = 1 -> Good(Field(matched[1].table, name))
       [] attr # "*" /\ rel # "" /\ matched # <<>> ->
            IF named = <<>> THEN Bad("SCHEMA_TABLE_NOT_EXIST")
            ELSE Good(Field(named[1].table, name))

Rebuilt(e, kids) ==
  LET bad == FirstError(kids)
  IN IF bad # 0 THEN kids[bad] ELSE Good([e EXCEPT !.kids = [i \in DOMAIN kids |-> kids[i].e]])

\* An aggregate that the refactoring has left in place is not a function
\* get_function_type knows.
GenerateFunction == Bad("INVALID_ARGUMENT")

\* ExpressionGenerator::generate_expression.
RECURSIVE GenerateExpression(_, _, _)
GenerateExpression(e, descs, schema) ==
  CASE e.op = "FIELD" -> GenerateField(descs, schema, e.rel, e.attr)
    [] e.op = "FUNCTION" -> GenerateFunction
    [] e.op \in {"VALUE", "CELL"} -> Good(e)
    [] OTHER -> Rebuilt(e, [i \in DOMAIN e.kids |-> GenerateExpression(e.kids[i], descs, schema)])

RECURSIVE Aggregates(_)
Aggregates(e) ==
  IF e.op = "FUNCTION" THEN <<e>>
  ELSE FoldLeft(LAMBDA seq, kid : seq \o Aggregates(kid), <<>>, Operands(e))

\* A column that is used outside every aggregate function.
RECURSIVE BareField(_)
BareField(e) ==
  \/ e.op = "FIELD"
  \/ e.op # "FUNCTION" /\ \E i \in DOMAIN Operands(e) : BareField(Operands(e)[i])

\* ExpressionStructValidator::validate.
Valid(e) ==
  /\ \A i \in DOMAIN Aggregates(e) : Aggregates(Aggregates(e)[i].kids[1]) = <<>>
  /\ ~(Aggregates(e) # <<>> /\ BareField(e))

\* refactor_internal: every aggregate becomes a reference to a cell of the
\* group operator's tuple.  It does not look into the child of IN.
AggregateDesc(agg, alias) ==
  [type |-> agg.fn, alias |-> alias,
   child |-> IF agg.fn = "count" /\ agg.kids[1] = STAR THEN Val(IntV(1)) ELSE agg.kids[1]]

CellAlias(k) == <<"aggr1", "aggr2", "aggr3", "aggr4">>[k]

RECURSIVE RefactorInternal(_, _)
RefactorInternal(e, aggs) ==
  LET step(acc, kid) ==
        LET sub == RefactorInternal(kid, acc.aggs)
        IN [kids |-> Append(acc.kids, sub.e), aggs |-> sub.aggs]
      kids == FoldLeft(step, [kids |-> <<>>, aggs |-> aggs], Operands(e))
      alias == CellAlias(Len(aggs) + 1)
  IN CASE e.op = "FUNCTION" -> [e |-> Cell(alias), aggs |-> Append(aggs, AggregateDesc(e, alias))]
       [] e.op \in {"VALUE", "FIELD", "CELL", "IN"} -> [e |-> e, aggs |-> aggs]
       [] OTHER -> [e |-> [e EXCEPT !.kids = kids.kids], aggs |-> kids.aggs]

\* The result of an invalid expression is ignored: it stays as it was.
Refactor(e, aggs) == IF Valid(e) THEN RefactorInternal(e, aggs) ELSE [e |-> e, aggs |-> aggs]

Wildcard(descs, rel) ==
  LET chosen == IF rel = "" THEN descs 
                ELSE SubSeq(SelectSeq(descs, LAMBDA desc : desc.name = rel), 1, 1)
      fields(desc) == [i \in DOMAIN Tail(Fields[desc.table]) |->
                         Field(desc.table, Tail(Fields[desc.table])[i])]
  IN FoldLeft(LAMBDA seq, desc : seq \o fields(desc), <<>>, chosen)

\* An item that is not a star: "made" is the expression generated for it,
\* "new" its aggregates, "kids" what was generated for their arguments.
AddItem(acc, item, made, new, kids) ==
  LET mode == IF new = <<>> THEN "plain" ELSE "aggregate"
      bad == FirstError(kids)
  IN [rc |-> CASE made.rc # "SUCCESS" -> made.rc
               [] made.rc = "SUCCESS" /\ acc.mode \notin {"", mode} -> "INVALID_AGGREGATE"
               [] OTHER -> IF bad = 0 THEN "SUCCESS" ELSE kids[bad].rc,
      mode |-> mode,
      exprs |-> Append(acc.exprs, made.e),
      aggs |-> acc.aggs \o [i \in DOMAIN new |-> [new[i] EXCEPT !.child = kids[i].e]],
      schema |-> Append(acc.schema, [alias |-> item.alias,
                                     field |-> IF item.e.op = "FIELD" THEN item.e.attr ELSE ""])]

AddRefactored(descs, acc, item, cut) ==
  LET new == SubSeq(cut.aggs, Len(acc.aggs) + 1, Len(cut.aggs))
  IN AddItem(acc, item, GenerateExpression(cut.e, descs, <<>>), new,
             [i \in DOMAIN new |-> GenerateExpression(new[i].child, descs, <<>>)])

\* One item of ProjectExpressionResovler::resolve_projection_list.  "mode"
\* stands for must_aggregate and must_not_aggregate.
ResolveItem(descs, acc, item) ==
  CASE acc.rc # "SUCCESS" -> acc
    [] acc.rc = "SUCCESS" /\ item.e.op = "FIELD" /\ item.e.attr = "*" ->
         IF item.e.rel # "" /\ \A i \in DOMAIN descs : descs[i].name # item.e.rel
         THEN [acc EXCEPT !.rc = "SCHEMA_TABLE_NOT_EXIST"]
         ELSE [acc EXCEPT !.exprs = @ \o Wildcard(descs, item.e.rel)]
    [] OTHER -> AddRefactored(descs, acc, item, Refactor(item.e, acc.aggs))

ResolveProjection(descs, items) ==
  LET resolve(acc, item) == ResolveItem(descs, acc, item)
  IN FoldLeft(resolve, [rc |-> "SUCCESS", mode |-> "", exprs |-> <<>>,
                        aggs |-> <<>>, schema |-> <<>>], items)

\* WhereConditionExpressionResolver::resolve; <<>> is "no condition".
Condition(made) == [rc |-> made.rc, filter |-> <<made.e>>]
ResolveWhere(descs, schema, where) ==
  CASE where = <<>> -> [rc |-> "SUCCESS", filter |-> <<>>]
    [] where # <<>> /\ Aggregates(where[1]) # <<>> -> [rc |-> "INVALID_AGGREGATE", filter |-> <<>>]
    [] OTHER -> Condition(GenerateExpression(where[1], descs, schema))

\* TableSqlResovler::create: the descriptions pile up from left to right,
\* and an ON condition sees those collected so far.
JoinTables(ref, left, right) ==
  LET on == IF ref.on = <<>> THEN Good(Val(Null))
            ELSE GenerateExpression(ref.on[1], right.descs, <<>>)
      cond == IF ref.on = <<>> THEN <<>> ELSE <<on.e>>
  IN IF right.rc # "SUCCESS" THEN right
     ELSE [rc |-> on.rc, descs |-> right.descs, ref |-> JoinRef(left.ref, right.ref, cond)]

RECURSIVE ResolveTable(_, _)
JoinRight(ref, left) ==
  IF left.rc # "SUCCESS" THEN left ELSE JoinTables(ref, left, ResolveTable(ref.right, left.descs))
ResolveTable(ref, descs) ==
  LET desc == [name |-> IF ref.alias = "" THEN ref.rel ELSE ref.alias, table |-> ref.rel]
  IN CASE ref.type = "JOIN" -> JoinRight(ref, ResolveTable(ref.left, descs))
       [] ref.type = "TABLE" ->
            IF ref.rel \in DOMAIN Fields
            THEN [rc |-> "SUCCESS", ref |-> ref, descs |-> Append(descs, desc)]
            ELSE [rc |-> "SCHEMA_TABLE_NOT_EXIST", ref |-> ref, descs |-> descs]

\* The tables of a comma list are joined without a condition.
JoinAll(refs) == FoldLeft(LAMBDA left, right : JoinRef(left, right, <<>>), Head(refs), Tail(refs))

\* SelectStmt::create: the tables first, then the projection, then WHERE.
BoundSelect(table, project, where) ==
  [rc |-> IF project.rc # "SUCCESS" THEN project.rc ELSE where.rc,
   ref |-> table.ref, exprs |-> project.exprs, aggs |-> project.aggs, filter |-> where.filter]
BindWhere(s, table, project) ==
  BoundSelect(table, project, ResolveWhere(table.descs, project.schema, s.where))
BindItems(s, table) ==
  IF table.rc # "SUCCESS" THEN [rc |-> table.rc]
  ELSE BindWhere(s, table, ResolveProjection(table.descs, s.items))
BindSelect(s) ==
  IF s.group # <<>> THEN [rc |-> "UNIMPLENMENT"] ELSE BindItems(s, ResolveTable(JoinAll(s.from), <<>>))

\* DeleteStmt::create and UpdateStmt::create.
BoundChange(s, where) ==
  LET unknown == \E i \in DOMAIN s.sets : s.sets[i].field \notin ToSet(Fields[s.table])
  IN [rc |-> IF where.rc # "SUCCESS" THEN where.rc
             ELSE IF unknown THEN "SCHEMA_FIELD_NOT_EXIST" ELSE "SUCCESS",
      table |-> s.table, filter |-> where.filter,
      fields |-> [i \in DOMAIN s.sets |-> s.sets[i].field],
      values |-> [i \in DOMAIN s.sets |-> TryConvertValue(s.sets[i].v, "INTS")]]
BindChange(s) ==
  IF s.table \notin DOMAIN Fields THEN [rc |-> "SCHEMA_TABLE_NOT_EXIST"]
  ELSE BoundChange(s, ResolveWhere(<<[name |-> s.table, table |-> s.table]>>, <<>>, s.where))

\* InsertStmt::create: one value for every field that is not hidden.  The
\* first one that cannot be stored decides the error; fields are integers.
MakeValues(table, values) ==
  LET names == Tail(Fields[table])
  IN CASE Len(values) # Len(names) -> [rc |-> "SCHEMA_FIELD_MISSING"]
       [] Len(values) = Len(names) ->
            IF \E i \in DOMAIN names : values[i] = Null /\ <<table, names[i]>> \notin Nullable
            THEN [rc |-> "SCHEMA_FIELD_NON_NULL"]
            ELSE [rc |-> "SUCCESS", table |-> table,
                  values |-> [i \in DOMAIN values |->
                                IF values[i].t = "INTS" THEN values[i] ELSE TryConvertValue(values[i], "INTS")]]
BindInsert(s) ==
  IF s.table \notin DOMAIN Fields THEN [rc |-> "SCHEMA_TABLE_NOT_EXIST"] ELSE MakeValues(s.table, s.values)

-----------------------------------------------------------------------------
(* The logical plan.  Every node has "kids". *)

RECURSIVE PlanTable(_)
PlanTable(ref) ==
  IF ref.type = "TABLE"
  THEN [op |-> "TABLE_GET", table |-> ref.rel, preds |-> <<>>, kids |-> <<>>]
  ELSE [op |-> "JOIN", cond |-> ref.on, kids |-> <<PlanTable(ref.left), PlanTable(ref.right)>>]

PredicateOver(filter, plan) ==
  IF filter = <<>> THEN plan ELSE [op |-> "PREDICATE", expr |-> filter[1], kids |-> <<plan>>]

PlanSelect(b) ==
  LET rows == PredicateOver(b.filter, PlanTable(b.ref))
      kid == IF b.aggs = <<>> THEN rows ELSE [op |-> "GROUP", aggs |-> b.aggs, kids |-> <<rows>>]
  IN [op |-> "PROJECTION", exprs |-> b.exprs, kids |-> <<kid>>]

\* A DELETE keeps its condition to itself; an UPDATE plans it as a node.
PlanDelete(b) ==
  [op |-> "DELETE", table |-> b.table, filter |-> b.filter, kids |-> <<PlanTable(TableRef(b.table, ""))>>]
PlanUpdate(b) ==
  [op |-> "UPDATE", table |-> b.table, fields |-> b.fields, values |-> b.values,
   kids |-> <<PredicateOver(b.filter, PlanTable(TableRef(b.table, "")))>>]
PlanInsert(b) == [op |-> "INSERT", table |-> b.table, values |-> b.values, kids |-> <<>>]

-----------------------------------------------------------------------------
(* Rewriting *)

Same(plan) == [plan |-> plan, changed |-> FALSE]

\* ExpressionRewriter walks the plan's expressions, but the rules that would
\* simplify them are not registered.
ExpressionRewrite(plan) == Same(plan)

\* PredicateRewriteRule: a constant condition below a node.  A true one is
\* cut out of the plan, any other takes everything below it along.
PredicateRewrite(plan) ==
  IF ~(Len(plan.kids) = 1 /\ plan.kids[1].op = "PREDICATE" /\ plan.kids[1].expr.op = "VALUE")
  THEN Same(plan)
  ELSE LET v == plan.kids[1].expr.v
       IN [plan |-> [plan EXCEPT !.kids = IF v # Null /\ GetBoolean(v) THEN plan.kids[1].kids
                                          ELSE <<>>],
           changed |-> TRUE]

\* get_exprs_can_pushdown: what goes down to the scan and what remains
\* (<<>> when the whole expression went down).
RECURSIVE ExprsCanPushdown(_)
ExprsCanPushdown(e) ==
  LET parts == [i \in DOMAIN Operands(e) |-> ExprsCanPushdown(Operands(e)[i])]
      down == FoldLeft(LAMBDA seq, part : seq \o part.down, <<>>, parts)
      rest == FoldLeft(LAMBDA seq, part : seq \o part.rest, <<>>, parts)
  IN CASE e.op = "CONJUNCTION" /\ e.conj = "AND" ->
            [down |-> down, rest |-> <<Conj("AND", rest)>>]
       [] e.op = "COMPARISON" /\ e.comp = "=" /\ \E i \in {1, 2} : e.kids[i].op = "FIELD" ->
            [down |-> <<e>>, rest |-> <<>>]
       [] OTHER -> [down |-> <<>>, rest |-> <<e>>]

\* PredicatePushdownRewriter: only a condition directly above a scan.
PredicatePushdown(plan) ==
  IF ~(plan.op = "PREDICATE" /\ plan.kids[1].op = "TABLE_GET") THEN Same(plan)
  ELSE LET cut == ExprsCanPushdown(plan.expr)
       IN [plan |-> [plan EXCEPT
                       !.expr = IF cut.rest = <<>> THEN Val(BoolV(TRUE)) ELSE cut.rest[1],
                       !.kids = IF cut.down = <<>> THEN @ ELSE <<[@[1] EXCEPT !.preds = cut.down]>>],
           changed |-> cut.down # <<>>]

\* Rewriter::rewrite: the rules on a node, then on its children.
RECURSIVE Rewrite(_)
Rewrite(plan) ==
  LET zero == ExpressionRewrite(plan)
      one == PredicateRewrite(zero.plan)
      two == PredicatePushdown(one.plan)
      kids == [i \in DOMAIN two.plan.kids |-> Rewrite(two.plan.kids[i])]
  IN [plan |-> [two.plan EXCEPT !.kids = [i \in DOMAIN kids |-> kids[i].plan]],
      changed |-> zero.changed \/ one.changed \/ two.changed \/ \E i \in DOMAIN kids : kids[i].changed]

-----------------------------------------------------------------------------
(* The physical plan *)

Scan(table, preds) ==
  [op |-> "TABLE_SCAN", table |-> table, preds |-> preds, field |-> "", value |-> Null,
   pos |-> 0]

\* The predicates an index can serve: a field compared with a value.
Servable(table, e) ==
  /\ e.op = "COMPARISON" /\ e.comp = "="
  /\ \E i \in {1, 2} : /\ e.kids[i].op = "FIELD" /\ <<table, e.kids[i].attr>> \in Indexed
                       /\ e.kids[3 - i].op = "VALUE" /\ e.kids[3 - i].v # Null

PhysicalScan(plan) ==
  LET able == {i \in DOMAIN plan.preds : Servable(plan.table, plan.preds[i])}
      e == plan.preds[CHOOSE i \in able : \A j \in able : i <= j]
      f == IF e.kids[1].op = "FIELD" THEN 1 ELSE 2
  IN IF able = {} THEN Scan(plan.table, plan.preds)
     ELSE [Scan(plan.table, plan.preds) EXCEPT
             !.op = "INDEX_SCAN", !.field = e.kids[f].attr, !.value = e.kids[3 - f].v]

RECURSIVE TupleSchema(_)
TupleSchema(plan) ==
  IF plan.op = "TABLE_GET"
  THEN [i \in DOMAIN Fields[plan.table] |-> FieldSpec(plan.table, Fields[plan.table][i])]
  ELSE FoldLeft(LAMBDA seq, kid : seq \o TupleSchema(kid), <<>>, plan.kids)

PredicateOp(expr, kid) == [op |-> "PREDICATE", expr |-> expr, kid |-> kid]

NestedLoopJoin(left, right) ==
  [op |-> "NESTED_LOOP_JOIN", left |-> left, right |-> right,
   right_closed |-> TRUE, round_done |-> TRUE]

\* "table" is the multimap of the left rows, "range" what is left of the
\* matches of the current right row.
RbTreeEqJoin(cond, left, right, specs) ==
  [op |-> "RB_TREE_JOIN", left_expr |-> cond.kids[1], right_expr |-> cond.kids[2],
   left |-> left, right |-> right, specs |-> specs, table |-> <<>>, range |-> <<>>]

EqualFields(e) ==
  /\ e.op = "COMPARISON" /\ e.comp = "=" /\ e.kids[1].op = "FIELD" /\ e.kids[2].op = "FIELD"

PhysicalJoin(plan, left, right) ==
  IF plan.cond # <<>> /\ EqualFields(plan.cond[1])
  THEN RbTreeEqJoin(plan.cond[1], left, right, TupleSchema(plan.kids[1]))
  ELSE IF plan.cond = <<>> THEN NestedLoopJoin(left, right)
  ELSE PredicateOp(plan.cond[1], NestedLoopJoin(left, right))

GroupOp(aggs, kid) == [op |-> "GROUP", aggs |-> aggs, kid |-> kid, tuples |-> <<>>, index |-> 0]
ProjectOp(exprs, kids) == [op |-> "PROJECT", exprs |-> exprs, kids |-> kids, const_eof |-> FALSE]
DeleteOp(table, kid) == [op |-> "DELETE", table |-> table, kid |-> kid]
UpdateOp(plan, kid) ==
  [op |-> "UPDATE", table |-> plan.table, fields |-> plan.fields, values |-> plan.values, kid |-> kid]
InsertOp(plan) == [op |-> "INSERT", table |-> plan.table, values |-> plan.values]

\* PhysicalPlanGenerator::create; see NoChild for the plans it
\* cannot build.
RECURSIVE Physical(_)
Physical(plan) ==
  LET kids == [i \in DOMAIN plan.kids |-> Physical(plan.kids[i])]
  IN CASE plan.op = "TABLE_GET" -> PhysicalScan(plan)
       [] plan.op = "PREDICATE" -> PredicateOp(plan.expr, kids[1])
       [] plan.op = "JOIN" -> PhysicalJoin(plan, kids[1], kids[2])
       [] plan.op = "GROUP" -> GroupOp(plan.aggs, kids[1])
       [] plan.op = "PROJECTION" -> ProjectOp(plan.exprs, kids)
       [] plan.op = "DELETE" ->
            DeleteOp(plan.table, IF plan.filter = <<>> THEN kids[1]
                                 ELSE PredicateOp(plan.filter[1], kids[1]))
       [] plan.op = "UPDATE" -> UpdateOp(plan, kids[1])
       [] plan.op = "INSERT" -> InsertOp(plan)

\* A group or an update whose only child was rewritten away.  The first is
\* refused; the second makes the generator read the front of an empty vector.
NoChild(plan, op) ==
  \/ plan.op = op /\ plan.kids = <<>>
  \/ plan.kids # <<>> /\ plan.kids[1].op = op /\ plan.kids[1].kids = <<>>

-----------------------------------------------------------------------------
(* The iterators.  Open, Next and Close give a result code and the operator *)
(* afterwards; "THROW" is a null_cast_exception that nobody catches.        *)

Done(code, op) == [rc |-> code, op |-> op]

\* filter of a scan: the first predicate that is not true decides.  The table
\* scan takes NULL for false, the index scan asks NULL for its truth value.
FilterOutcome(op, values) ==
  LET stop == SelectInSeq(values, LAMBDA r : ~(r.rc = "SUCCESS" /\ r.v # Null /\ GetBoolean(r.v)))
  IN CASE stop = 0 -> "SUCCESS"
       [] stop # 0 /\ values[stop].rc # "SUCCESS" -> values[stop].rc
       [] OTHER -> IF op.op = "INDEX_SCAN" /\ values[stop].v = Null THEN "THROW" ELSE "FILTERED"

\* What a scan does with a record: an index passes over those of other keys.
Visit(op, row) ==
  LET f == SelectInSeq(Fields[op.table], LAMBDA name : name = op.field)
      tup == RowTuple(op.table, row)
  IN IF op.op = "INDEX_SCAN" /\ RawKey(row.vals[f - 1]) # RawKey(op.value) THEN "FILTERED"
     ELSE IF ~row.readable THEN "IOERR_READ"
     ELSE FilterOutcome(op, [i \in DOMAIN op.preds |-> GetValue(op.preds[i], tup)])

ScanVisits(op, visits) ==
  LET next == SelectInSubSeq(visits, op.pos + 1, Len(visits), LAMBDA code : code # "FILTERED")
  IN IF next = 0 THEN Done("RECORD_EOF", [op EXCEPT !.pos = Len(visits)])
     ELSE Done(visits[next], [op EXCEPT !.pos = next])

ScanNext(op) ==
  ScanVisits(op, [i \in DOMAIN store[op.table] |-> Visit(op, store[op.table][i])])

ScanOpen(op) == Done("SUCCESS", [op EXCEPT !.pos = 0])
ScanClose(op) == Done("SUCCESS", op)

RECURSIVE CurrentTuple(_)
CurrentTuple(op) ==
  CASE op.op \in {"TABLE_SCAN", "INDEX_SCAN"} -> RowTuple(op.table, store[op.table][op.pos])
    [] op.op = "PREDICATE" -> CurrentTuple(op.kid)
    [] op.op = "NESTED_LOOP_JOIN" ->
         [kind |-> "joined", left |-> CurrentTuple(op.left), right |-> CurrentTuple(op.right)]
    [] op.op = "RB_TREE_JOIN" ->
         [kind |-> "joined", left |-> Head(op.range), right |-> CurrentTuple(op.right)]
    [] op.op = "GROUP" -> op.tuples[op.index]

\* CacheTupleManager::cloneTuple.
CacheTuple(tup, specs) ==
  [kind |-> "cache", specs |-> specs, cells |-> [i \in 1..CellNum(tup) |-> CellAt(tup, i)]]

\* multimap::insert goes behind the entries that are not greater, and
\* equal_range finds those that are neither less nor greater.
MultimapInsert(table, key, tup) ==
  LET k == Cardinality({i \in DOMAIN table : ~Less(key, table[i].key)})
  IN InsertAt(table, k + 1, [key |-> key, tup |-> tup])
EqualRange(table, key) ==
  LET found == SelectSeq(table, LAMBDA ent : ~Less(ent.key, key) /\ ~Less(key, ent.key))
  IN [i \in DOMAIN found |-> found[i].tup]

\* AggregateTupleManager::generateTuple and AggregateTuple::aggregate_tuple.
\* AVG keeps the pair of count and sum until it is read.
InitialAggregate(aggs) ==
  [i \in DOMAIN aggs |-> IF aggs[i].type = "count" THEN IntV(0) ELSE Null]
AggregateStep(type, acc, v) ==
  LET float(x) == FloatV(x.n, x.d)
  IN CASE v = Null -> acc
       [] v # Null /\ type = "count" -> IntV(acc.n + 1)
       [] v # Null /\ type = "sum" -> IF acc = Null THEN float(v) ELSE CalcValue("+", acc, float(v))
       [] v # Null /\ type = "avg" ->
            IF acc = Null THEN [count |-> 1, sum |-> float(v)]
            ELSE [count |-> acc.count + 1, sum |-> CalcValue("+", acc.sum, float(v))]
       [] v # Null /\ type = "max" -> IF acc = Null \/ Compare(v, acc) > 0 THEN v ELSE acc
       [] v # Null /\ type = "min" -> IF acc = Null \/ Compare(v, acc) < 0 THEN v ELSE acc
AggregateCells(aggs, accs) ==
  [i \in DOMAIN aggs |->
     IF aggs[i].type = "avg" /\ accs[i] # Null
     THEN FloatV(accs[i].sum.n, accs[i].sum.d * accs[i].count) ELSE accs[i]]

\* The virtual methods open, next and close of a PhysicalOperator.
RECURSIVE Call(_, _)
OpenOp(op) == Call("open", op)
NextOp(op) == Call("next", op)
CloseOp(op) == Call("close", op)

\* NestedLoopJoinPhysicalOperator::right_next: a new round closes the right
\* side of the last one and opens it again.
RightPulled(op, got) == Done(got.rc, [op EXCEPT !.right = got.op, !.round_done = got.rc = "RECORD_EOF"])
RightOpened(op, opened) ==
  IF opened.rc # "SUCCESS" THEN Done(opened.rc, [op EXCEPT !.right = opened.op, !.right_closed = TRUE])
  ELSE RightPulled([op EXCEPT !.right_closed = FALSE], NextOp(opened.op))
RightNext(op) ==
  IF ~op.round_done THEN RightPulled(op, NextOp(op.right))
  ELSE RightOpened(op, OpenOp(IF op.right_closed THEN op.right ELSE CloseOp(op.right).op))

\* left_next, then the first row of the round.
LeftPulled(op, left) ==
  IF left.rc # "SUCCESS" THEN Done(left.rc, [op EXCEPT !.left = left.op])
  ELSE RightNext([op EXCEPT !.left = left.op])
LeftThenRight(op) == LeftPulled(op, NextOp(op.left))
AfterRight(right) == IF right.rc = "RECORD_EOF" THEN LeftThenRight(right.op) ELSE right

NestedLoopNextOneRound(op) ==   \* plausible bug: ends with the first round
  IF op.round_done THEN LeftThenRight(op) ELSE RightNext(op)

NestedLoopNext(op) == IF op.round_done THEN LeftThenRight(op) ELSE AfterRight(RightNext(op))

NestedLoopClose(op) ==
  Done("SUCCESS", [op EXCEPT !.left = CloseOp(@).op, !.right_closed = TRUE,
                             !.right = IF op.right_closed THEN @ ELSE CloseOp(@).op])

\* RbTreeEqJoinPhysicalOperator::generate_hash_table, its loop.
RECURSIVE GenerateHashTable(_)
HashTuple(op, cache, key) ==
  IF key.rc # "SUCCESS" THEN Done(key.rc, op)
  ELSE GenerateHashTable([op EXCEPT !.table = MultimapInsert(@, key.v, cache)])
HashLeft(op, left) ==
  LET stepped == [op EXCEPT !.left = left.op]
      cache == CacheTuple(CurrentTuple(left.op), op.specs)
  IN CASE left.rc = "RECORD_EOF" -> Done("SUCCESS", stepped)
       [] left.rc = "SUCCESS" -> HashTuple(stepped, cache, GetValue(op.left_expr, cache))
       [] OTHER -> Done(left.rc, stepped)
GenerateHashTable(op) == HashLeft(op, NextOp(op.left))

\* fetch_next_tuple_in_table: right rows until one has matches.
RECURSIVE FetchInTable(_)
MatchRight(op, key) ==
  LET ranged == [op EXCEPT !.range = EqualRange(op.table, key.v)]
  IN CASE key.rc # "SUCCESS" -> Done(key.rc, op)
       [] key.rc = "SUCCESS" /\ ranged.range = <<>> -> FetchInTable(ranged)
       [] OTHER -> Done("SUCCESS", ranged)
FetchRight(op, right) ==
  LET stepped == [op EXCEPT !.right = right.op]
  IN IF right.rc # "SUCCESS" THEN Done(right.rc, stepped)
     ELSE MatchRight(stepped, GetValue(op.right_expr, CurrentTuple(right.op)))
FetchInTable(op) == FetchRight(op, NextOp(op.right))

HashOpened(op, left) ==
  IF left.rc # "SUCCESS" THEN Done(left.rc, [op EXCEPT !.left = left.op])
  ELSE GenerateHashTable([op EXCEPT !.left = left.op])
RbTreeOpened(op, right) ==
  IF right.rc # "SUCCESS" THEN Done(right.rc, [op EXCEPT !.right = right.op])
  ELSE HashOpened([op EXCEPT !.right = right.op, !.range = <<>>], OpenOp(op.left))
RbTreeOpen(op) == RbTreeOpened(op, OpenOp(op.right))

RbTreeNext(op) ==
  IF Len(op.range) > 1 THEN Done("SUCCESS", [op EXCEPT !.range = Tail(@)])
  ELSE FetchInTable([op EXCEPT !.range = <<>>])

\* The left side is not closed.
RbTreeClose(op) ==
  Done("SUCCESS", [op EXCEPT !.right = CloseOp(@).op, !.table = <<>>])

\* GroupPhysicalOperator::open: the loop over the child's rows.
RECURSIVE AggregateAll(_, _)
AggregateRow(op, accs, values) ==
  LET bad == FirstError(values)
  IN IF bad # 0 THEN Done(values[bad].rc, op)
     ELSE AggregateAll(op, [i \in DOMAIN accs |-> AggregateStep(op.aggs[i].type, accs[i], values[i].v)])
AggregateNext(op, accs, got) ==
  LET stepped == [op EXCEPT !.kid = got.op]
      tuple == [kind |-> "aggregate", aggs |-> op.aggs, cells |-> AggregateCells(op.aggs, accs)]
  IN CASE got.rc = "RECORD_EOF" ->
            Done("SUCCESS", [stepped EXCEPT !.tuples = Append(@, tuple), !.kid = CloseOp(@).op])
       [] got.rc = "SUCCESS" ->
            LET row == CurrentTuple(got.op)
            IN AggregateRow(stepped, accs, [i \in DOMAIN op.aggs |-> GetValue(op.aggs[i].child, row)])
       [] OTHER -> Done(got.rc, stepped)
AggregateAll(op, accs) == AggregateNext(op, accs, NextOp(op.kid))

GroupOpened(op, kid) ==
  IF kid.rc # "SUCCESS" THEN Done(kid.rc, [op EXCEPT !.kid = kid.op])
  ELSE AggregateAll([op EXCEPT !.kid = kid.op], InitialAggregate(op.aggs))
GroupOpen(op) == GroupOpened(op, OpenOp(op.kid))

GroupNext(op) ==
  IF op.index < Len(op.tuples) THEN Done("SUCCESS", [op EXCEPT !.index = @ + 1])
  ELSE Done("RECORD_EOF", op)

GroupClose(op) == Done("SUCCESS", [op EXCEPT !.tuples = <<>>, !.index = 0])

\* PredicatePhysicalOperator::next: NULL counts as false.
RECURSIVE PredicateNext(_)
PredicateTest(op, result) ==
  CASE result.rc # "SUCCESS" -> Done(result.rc, op)
    [] result.rc = "SUCCESS" /\ result.v # Null /\ GetBoolean(result.v) -> Done("SUCCESS", op)
    [] OTHER -> PredicateNext(op)
PredicateGot(op, got) ==
  IF got.rc # "SUCCESS" THEN Done(got.rc, [op EXCEPT !.kid = got.op])
  ELSE PredicateTest([op EXCEPT !.kid = got.op], GetValue(op.expr, CurrentTuple(got.op)))
PredicateNext(op) == PredicateGot(op, NextOp(op.kid))

PredicateOpened(op, kid) == Done(kid.rc, [op EXCEPT !.kid = kid.op])
NestedLoopOpened(op, left) ==
  Done(left.rc, [op EXCEPT !.left = left.op, !.right_closed = TRUE, !.round_done = TRUE])

WithKids(op, kid) == Done(kid.rc, [op EXCEPT !.kids = <<kid.op>>])
ProjectOpen(op) == IF op.kids = <<>> THEN Done("SUCCESS", op) ELSE WithKids(op, OpenOp(op.kids[1]))
ProjectClose(op) == Done("SUCCESS", [op EXCEPT !.kids = [i \in DOMAIN @ |-> CloseOp(@[i]).op]])

\* Without a child there is one row, made of constants.
ProjectNext(op) ==
  IF op.kids = <<>>
  THEN Done(IF op.const_eof THEN "RECORD_EOF" ELSE "SUCCESS", [op EXCEPT !.const_eof = TRUE])
  ELSE WithKids(op, NextOp(op.kids[1]))

OpenMethod(op) ==
  CASE op.op \in {"TABLE_SCAN", "INDEX_SCAN"} -> ScanOpen(op)
    [] op.op = "PREDICATE" -> PredicateOpened(op, OpenOp(op.kid))
    [] op.op = "NESTED_LOOP_JOIN" -> NestedLoopOpened(op, OpenOp(op.left))
    [] op.op = "RB_TREE_JOIN" -> RbTreeOpen(op)
    [] op.op = "GROUP" -> GroupOpen(op)
    [] op.op = "PROJECT" -> ProjectOpen(op)

NextMethod(op) ==
  CASE op.op \in {"TABLE_SCAN", "INDEX_SCAN"} -> ScanNext(op)
    [] op.op = "PREDICATE" -> PredicateNext(op)
    [] op.op = "NESTED_LOOP_JOIN" -> NestedLoopNext(op)
    [] op.op = "RB_TREE_JOIN" -> RbTreeNext(op)
    [] op.op = "GROUP" -> GroupNext(op)
    [] op.op = "PROJECT" -> ProjectNext(op)
    [] op.op \in {"DELETE", "UPDATE", "INSERT"} -> Done("RECORD_EOF", op)

CloseMethod(op) ==
  CASE op.op \in {"TABLE_SCAN", "INDEX_SCAN"} -> ScanClose(op)
    [] op.op = "PREDICATE" -> Done("SUCCESS", [op EXCEPT !.kid = CloseOp(@).op])
    [] op.op = "NESTED_LOOP_JOIN" -> NestedLoopClose(op)
    [] op.op = "RB_TREE_JOIN" -> RbTreeClose(op)
    [] op.op = "GROUP" -> GroupClose(op)
    [] op.op = "PROJECT" -> ProjectClose(op)
    [] op.op \in {"DELETE", "UPDATE", "INSERT"} -> Done("SUCCESS", op)

Call(method, op) ==
  CASE method = "open" -> OpenMethod(op)
    [] method = "next" -> NextMethod(op)
    [] method = "close" -> CloseMethod(op)

-----------------------------------------------------------------------------
(* DELETE, UPDATE and INSERT do their work when they are opened. *)

\* Table::make_record; its answer is an error or a row.
MakeRecord(table, values) ==
  LET names == Tail(Fields[table])
      mistyped(i) == values[i].t # "INTS" /\ ~(values[i] = Null /\ <<table, names[i]>> \in Nullable)
  IN CASE Len(values) # Len(names) -> [rc |-> "SCHEMA_FIELD_MISSING"]
       [] Len(values) = Len(names) ->
            IF \E i \in DOMAIN names : mistyped(i) THEN [rc |-> "SCHEMA_FIELD_TYPE_MISMATCH"]
            ELSE [rc |-> "SUCCESS", row |-> [vals |-> values, readable |-> TRUE]]

RECURSIVE Position(_)
Position(op) == IF op.op = "PREDICATE" THEN Position(op.kid) ELSE op.pos

\* UpdateRecordMaker: the fields to set are listed in the table's order, and
\* the k-th of them gets the k-th value of the statement.
UpdateRecord(op, row) ==
  LET names == Tail(Fields[op.table])
      order == SelectSeq([i \in DOMAIN names |-> i], LAMBDA i : names[i] \in ToSet(op.fields))
      value(i) == op.values[CHOOSE k \in DOMAIN order : order[k] = i]
      vals == [i \in DOMAIN names |-> IF i \in ToSet(order) THEN value(i) ELSE row.vals[i]]
  IN IF Len(op.values) # Len(order) THEN [rc |-> "INVALID_ARGUMENT"] ELSE MakeRecord(op.table, vals)

\* DELETE and UPDATE collect the records first.
RECURSIVE Collect(_, _, _)
Collected(rcode, op, hits, news) == [rc |-> rcode, op |-> op, hits |-> hits, news |-> news]
CollectNew(op, hits, news, new) ==
  IF new.rc # "SUCCESS" THEN Collected(new.rc, op, hits, news)
  ELSE Collect(op, hits \cup {Position(op.kid)}, Append(news, new.row))
CollectNext(op, hits, news, got) ==
  LET stepped == [op EXCEPT !.kid = got.op]
      pos == Position(got.op)
  IN CASE got.rc # "SUCCESS" -> Collected(got.rc, stepped, hits, news)
       [] got.rc = "SUCCESS" /\ op.op = "DELETE" -> Collect(stepped, hits \cup {pos}, news)
       [] got.rc = "SUCCESS" /\ op.op = "UPDATE" ->
            CollectNew(stepped, hits, news, UpdateRecord(op, store[op.table][pos]))
Collect(op, hits, news) == CollectNext(op, hits, news, NextOp(op.kid))

Without(rows, hits) ==
  LET kept == SelectSeq([i \in DOMAIN rows |-> i], LAMBDA i : i \notin hits)
  IN [k \in DOMAIN kept |-> rows[kept[k]]]

ChangeFailsNever(op, all) == all.rc = "THROW"   \* plausible bug: no change asks why its loop has ended

\* A DELETE does not ask why its loop has ended, an UPDATE does.
ChangeFails(op, all) == all.rc = "THROW" \/ (op.op = "UPDATE" /\ all.rc # "RECORD_EOF")

-----------------------------------------------------------------------------
(* The statement's way through the stages *)

NoStatement == [kind |-> "none"]

Init ==
  /\ stmt = NoStatement
  /\ store \in Stores
  /\ stage = "connect"
  /\ bound = <<>> /\ logical = <<>> /\ phys = <<>>
  /\ changed = FALSE
  /\ rc = "SUCCESS"
  /\ \E protocol \in {"plain", "mysql"} : conn = NewConnection(protocol)

\* MysqlCommunicator::init greets the client, the others say nothing.
Connect ==
  /\ stage = "connect"
  /\ IF Plain(conn) THEN stage' = "read" /\ UNCHANGED conn
     ELSE stage' = "auth" /\ conn' = Flush(SendPacket(conn, HandshakeV10).c).c
  /\ UNCHANGED <<stmt, store, bound, logical, changed, phys, rc>>

\* The client's first packet is numbered 1, its requests 0.
Numbered(id) == [conn EXCEPT !.sequence_id = id + 1]

Authenticate ==
  /\ stage = "auth"
  /\ conn' = Flush(SendPacket(Numbered(1), OkPacket).c).c
  /\ stage' = "read"
  /\ UNCHANGED <<stmt, store, bound, logical, changed, phys, rc>>

\* A client sends a statement and waits; from here on it may go away.
ReadEvent ==
  /\ stage = "read"
  /\ \E s \in Statements : stmt' = s
  /\ \E socket \in Sockets : conn' = [Numbered(0) EXCEPT !.socket = socket, !.sent = <<>>]
  /\ stage' = "resolve"
  /\ UNCHANGED <<store, bound, logical, changed, phys, rc>>

\* A statement that is not implemented ends here, and its result code is
\* not set.
Resolve ==
  /\ stage = "resolve"
  /\ bound' = CASE stmt.kind = "select" -> BindSelect(stmt)
                [] stmt.kind = "insert" -> BindInsert(stmt)
                [] stmt.kind \in {"delete", "update"} -> BindChange(stmt)
  /\ rc' = IF bound'.rc = "UNIMPLENMENT" THEN rc ELSE bound'.rc
  /\ IF bound'.rc = "SUCCESS" THEN stage' = "logical" /\ UNCHANGED conn
     ELSE stage' = "finish" /\ conn' = WriteState(conn, rc')
  /\ UNCHANGED <<stmt, store, logical, changed, phys>>

CreateLogicalPlan ==
  /\ stage = "logical"
  /\ logical' = CASE stmt.kind = "select" -> PlanSelect(bound)
                  [] stmt.kind = "delete" -> PlanDelete(bound)
                  [] stmt.kind = "update" -> PlanUpdate(bound)
                  [] stmt.kind = "insert" -> PlanInsert(bound)
  /\ stage' = "rewrite"
  /\ changed' = TRUE
  /\ UNCHANGED <<stmt, store, bound, phys, rc, conn>>

\* One pass of the loop in OptimizeStage::rewrite.
RewritePass ==
  /\ stage = "rewrite" /\ changed
  /\ \E result \in {Rewrite(logical)} : logical' = result.plan /\ changed' = result.changed
  /\ UNCHANGED <<stmt, store, stage, bound, phys, rc, conn>>

GeneratePhysicalPlan ==
  /\ stage = "rewrite" /\ ~changed
  /\ CASE NoChild(logical, "GROUP") ->
            rc' = "UNIMPLENMENT" /\ conn' = WriteState(conn, rc') /\ stage' = "finish" /\ UNCHANGED phys
       [] NoChild(logical, "UPDATE") ->
            stage' = "aborted" /\ UNCHANGED <<rc, phys, conn>>
       [] OTHER -> phys' = Physical(logical) /\ stage' = "open" /\ UNCHANGED <<rc, conn>>
  /\ UNCHANGED <<stmt, store, bound, logical, changed>>

\* The result could not be opened: the plain communicator closes it, the
\* other one does not.
OpenFailed(op, code) ==
  IF code = "THROW" THEN stage' = "aborted" /\ phys' = op /\ UNCHANGED <<rc, conn>>
  ELSE /\ phys' = IF Plain(conn) THEN CloseOp(op).op ELSE op
       /\ rc' = code
       /\ conn' = WriteState(conn, code)
       /\ stage' = "finish"
Opened(op) == phys' = op /\ stage' = "header" /\ UNCHANGED <<rc, conn>>

\* SqlResult::open.
OpenSelect ==
  /\ stage = "open" /\ phys.op = "PROJECT"
  /\ \E opened \in {OpenOp(phys)} :
       IF opened.rc = "SUCCESS" THEN Opened(opened.op) ELSE OpenFailed(opened.op, opened.rc)
  /\ UNCHANGED <<stmt, store, bound, logical, changed>>

OpenChange ==
  /\ stage = "open" /\ phys.op \in {"DELETE", "UPDATE"}
  /\ \E all \in {Collect([phys EXCEPT !.kid = OpenOp(@).op], {}, <<>>)} :
       IF ChangeFails(phys, all) THEN OpenFailed(all.op, all.rc) /\ UNCHANGED store
       ELSE /\ Opened([all.op EXCEPT !.kid = CloseOp(@).op])
            /\ store' = [store EXCEPT ![phys.table] = Without(@, all.hits) \o all.news]
  /\ UNCHANGED <<stmt, bound, logical, changed>>

OpenInsert ==
  /\ stage = "open" /\ phys.op = "INSERT"
  /\ \E made \in {MakeRecord(phys.table, phys.values)} :
       IF made.rc # "SUCCESS" THEN OpenFailed(phys, made.rc) /\ UNCHANGED store
       ELSE Opened(phys) /\ store' = [store EXCEPT ![phys.table] = Append(@, made.row)]
  /\ UNCHANGED <<stmt, bound, logical, changed>>

\* Only a SELECT has a tuple schema.
SchemaCells == IF stmt.kind = "select" THEN Len(phys.exprs) ELSE 0

SendHeader ==
  /\ stage = "header"
  /\ \E header \in {WriteHeader(conn, SchemaCells)} :
       /\ conn' = header.c
       /\ CASE header.rc = "SUCCESS" -> stage' = "fetch"
            [] header.rc # "SUCCESS" -> stage' = IF HeaderLeavesOpen(conn, SchemaCells, header) THEN "finish" ELSE "close"
  /\ UNCHANGED <<stmt, store, bound, logical, changed, phys, rc>>

RowCells(op) ==
  LET tup == IF op.kids = <<>> THEN FakeTuple ELSE CurrentTuple(op.kids[1])
  IN [i \in DOMAIN op.exprs |-> GetValue(op.exprs[i], tup)]

\* A cell that cannot be read makes the plain communicator report the error.
RowSent(row, cells) ==
  LET bad == FirstError(cells)
      report == Plain(conn) /\ row.rc = "SUCCESS" /\ bad # 0
  IN /\ rc' = IF report \/ (~Plain(conn) /\ bad # 0) THEN cells[bad].rc ELSE rc
     /\ conn' = IF report THEN WriteState(row.c, rc') ELSE row.c
     /\ stage' = IF report \/ row.rc # "SUCCESS" THEN "close" ELSE "fetch"
SendRow(cells) == \E row \in {WriteRow(conn, cells)} : RowSent(row, cells)

\* The loop ends alike after the last row and after an error.
EndRows == conn' = IF Plain(conn) THEN conn ELSE SendLast(conn, SchemaCells).c

\* One turn of the loop that sends the rows.
FetchRow ==
  /\ stage = "fetch"
  /\ \E got \in {NextOp(phys)} :
       /\ phys' = got.op
       /\ CASE got.rc = "SUCCESS" -> SendRow(RowCells(got.op))
            [] got.rc = "THROW" -> stage' = "aborted" /\ UNCHANGED <<rc, conn>>
            [] got.rc \notin {"SUCCESS", "THROW"} -> EndRows /\ stage' = "close" /\ UNCHANGED rc
  /\ UNCHANGED <<stmt, store, bound, logical, changed>>

\* SqlResult::close; the plain communicator then reports a result without
\* columns.
CloseResult ==
  /\ stage = "close"
  /\ phys' = CloseOp(phys).op
  /\ conn' = IF Plain(conn) /\ SchemaCells = 0 THEN WriteState(conn, rc) ELSE conn
  /\ stage' = "finish"
  /\ UNCHANGED <<stmt, store, bound, logical, changed, rc>>

FinishReply ==
  /\ stage = "finish"
  /\ conn' = EndReply(conn)
  /\ stage' = "done"
  /\ UNCHANGED <<stmt, store, bound, logical, changed, phys, rc>>

Next ==
  \/ Connect
  \/ Authenticate
  \/ ReadEvent
  \/ Resolve
  \/ CreateLogicalPlan
  \/ RewritePass
  \/ GeneratePhysicalPlan
  \/ OpenSelect
  \/ OpenChange
  \/ OpenInsert
  \/ SendHeader
  \/ FetchRow
  \/ CloseResult
  \/ FinishReply

Spec == Init /\ [][Next]_vars

-----------------------------------------------------------------------------
(* What a statement means, from its syntax tree alone.  An environment      *)
(* gives a row to every table factor of the statement.                      *)

RECURSIVE RefDescs(_)
RefDescs(ref) ==
  IF ref.type = "TABLE"
  THEN <<[name |-> IF ref.alias = "" THEN ref.rel ELSE ref.alias, table |-> ref.rel]>>
  ELSE RefDescs(ref.left) \o RefDescs(ref.right)

\* The factors that a column name may stand for.
RefMatches(descs, e) ==
  {i \in DOMAIN descs : /\ e.rel \in {"", descs[i].name}
                        /\ e.attr \in ToSet(Tail(Fields[descs[i].table]))}

RefColumn(env, e) ==
  LET i == CHOOSE k \in RefMatches(env, e) : TRUE
  IN env[i].vals[CHOOSE k \in DOMAIN env[i].vals : Tail(Fields[env[i].table])[k] = e.attr]

\* Truth values are 0 (false), 1 (unknown) and 2 (true).
RefTruth(v) == IF v = Null THEN 1 ELSE IF v.n = 0 THEN 0 ELSE 2
RefLogic(n) == IF n = 1 THEN Null ELSE BoolV(n = 2)

RefAggregate(fn, vals) ==
  LET some == SelectSeq(vals, LAMBDA v : v # Null)
      sum == FoldLeft(LAMBDA s, v : CalcValue("+", s, FloatV(v.n, v.d)), FloatV(0, 1), some)
  IN CASE fn = "count" -> IntV(Len(some))
       [] fn # "count" /\ some = <<>> -> Null
       [] fn = "sum" /\ some # <<>> -> sum
       [] fn = "avg" /\ some # <<>> -> FloatV(sum.n, sum.d * Len(some))
       [] fn = "max" /\ some # <<>> ->
            CHOOSE v \in ToSet(some) : \A w \in ToSet(some) : Compare(v, w) >= 0
       [] fn = "min" /\ some # <<>> ->
            CHOOSE v \in ToSet(some) : \A w \in ToSet(some) : Compare(v, w) <= 0

\* The value of an expression in env; its aggregates are those of all of envs.
RECURSIVE RefValue(_, _, _)
RefValue(e, env, envs) ==
  LET kids == [i \in DOMAIN Operands(e) |-> RefValue(Operands(e)[i], env, envs)]
      truths == {RefTruth(kids[i]) : i \in DOMAIN kids}
      agg(x) == IF e.kids[1] = STAR THEN IntV(1) ELSE RefValue(e.kids[1], x, <<>>)
  IN CASE e.op = "VALUE" -> e.v
       [] e.op = "FIELD" -> RefColumn(env, e)
       [] e.op = "FUNCTION" -> RefAggregate(e.fn, [i \in DOMAIN envs |-> agg(envs[i])])
       [] e.op = "COMPARISON" -> CompareValue(e.comp, kids[1], kids[2])
       [] e.op = "ARITHMETIC" -> CalcValue(e.arith, kids[1], kids[2])
       [] e.op = "NOT" -> RefLogic(2 - RefTruth(kids[1]))
       [] e.op = "IS_NULL" -> BoolV(kids[1] = Null)
       [] e.op = "CONJUNCTION" ->
            RefLogic(CHOOSE m \in truths :
                       \A n \in truths : IF e.conj = "AND" THEN m <= n ELSE m >= n)
       [] e.op = "IN" ->
            LET equal == {RefTruth(CompareValue("=", kids[1], e.list[i].v)) : i \in DOMAIN e.list}
            IN RefLogic(CHOOSE m \in equal : \A n \in equal : m >= n)

Holds(cond, env) == cond = <<>> \/ RefTruth(RefValue(cond[1], env, <<>>)) = 2

RECURSIVE RefRows(_, _)
RefRows(ref, tables) ==
  LET desc == RefDescs(ref)[1]
      rows == tables[ref.rel]
      left == RefRows(ref.left, tables)
      right == RefRows(ref.right, tables)
      pairs == FoldLeft(LAMBDA seq, l : seq \o [i \in DOMAIN right |-> l \o right[i]], <<>>, left)
  IN IF ref.type = "TABLE"
     THEN [i \in DOMAIN rows |-> <<[name |-> desc.name, table |-> desc.table, vals |-> rows[i].vals]>>]
     ELSE SelectSeq(pairs, LAMBDA env : Holds(ref.on, env))

RefItem(item, env, envs) ==
  LET chosen == SelectSeq(env, LAMBDA x : item.e.rel \in {"", x.name})
  IN IF item.e.op = "FIELD" /\ item.e.attr = "*"
     THEN FoldLeft(LAMBDA seq, x : seq \o x.vals, <<>>, chosen)
     ELSE <<RefValue(item.e, env, envs)>>

RefSelect(s, tables) ==
  LET envs == SelectSeq(RefRows(JoinAll(s.from), tables), LAMBDA env : Holds(s.where, env))
      line(env) == FoldLeft(LAMBDA seq, item : seq \o RefItem(item, env, envs), <<>>, s.items)
  IN IF Aggregates(s.items[1].e) # <<>> THEN <<line(<<>>)>>
     ELSE [i \in DOMAIN envs |-> line(envs[i])]

\* The whole number a value is stored as: what is left over is less than one
\* and has the value's sign.
RefStored(v) ==
  LET fits(k) == \E rest \in (1 - v.d)..(v.d - 1) : v.n = k * v.d + rest /\ rest * v.n >= 0
  IN IF v = Null THEN Null ELSE IntV(CHOOSE k \in (-v.n)..v.n \cup v.n..(-v.n) : fits(k))

\* The rows of the table after a DELETE, an UPDATE or an INSERT.
RefInsert(s, tables) ==
  Append(tables[s.table], [vals |-> [i \in DOMAIN s.values |-> RefStored(s.values[i])], readable |-> TRUE])
RefChange(s, tables) ==
  LET rows == tables[s.table]
      hit(row) == Holds(s.where, <<[name |-> s.table, table |-> s.table, vals |-> row.vals]>>)
      names == Tail(Fields[s.table])
      set(row) == [row EXCEPT !.vals =
                     [i \in DOMAIN names |->
                        IF \E k \in DOMAIN s.sets : s.sets[k].field = names[i]
                        THEN s.sets[CHOOSE k \in DOMAIN s.sets : s.sets[k].field = names[i]].v
                        ELSE @[i]]]
  IN IF s.kind = "delete" THEN SelectSeq(rows, LAMBDA row : ~hit(row))
     ELSE [i \in DOMAIN rows |-> IF hit(rows[i]) THEN set(rows[i]) ELSE rows[i]]

RECURSIVE Columns(_)
Columns(e) ==
  IF e.op = "FIELD" THEN {e} ELSE UNION {Columns(Operands(e)[i]) : i \in DOMAIN Operands(e)}

RECURSIVE Conditions(_)
Conditions(ref) ==
  IF ref.type = "TABLE" THEN {} ELSE ToSet(ref.on) \cup Conditions(ref.left) \cup Conditions(ref.right)

\* Every column stands for exactly one factor's; aggregates and other
\* expressions are not mixed and do not occur in conditions.
RefValid(s) ==
  LET ref == JoinAll(s.from)
      star(e) == e.op = "FIELD" /\ e.attr = "*"
      exprs == {s.items[i].e : i \in DOMAIN s.items}
      conds == ToSet(s.where) \cup Conditions(ref)
      cols == UNION {Columns(e) : e \in {x \in exprs : ~star(x)} \cup conds}
  IN /\ s.group = <<>>
     /\ \A i \in DOMAIN RefDescs(ref) : RefDescs(ref)[i].table \in DOMAIN Fields
     /\ \A c \in cols \ {STAR} : Cardinality(RefMatches(RefDescs(ref), c)) = 1
     /\ \A e \in conds : Aggregates(e) = <<>>
     /\ \A e \in exprs : Valid(e)
     /\ \A e \in {x \in exprs : star(x)} :
          e.rel = "" \/ \E i \in DOMAIN RefDescs(ref) : RefDescs(ref)[i].name = e.rel
     /\ Cardinality({Aggregates(e) # <<>> : e \in exprs}) = 1

RefValidInsert(s) ==
  /\ s.table \in DOMAIN Fields
  /\ Len(s.values) + 1 = Len(Fields[s.table])
  /\ \A i \in DOMAIN s.values : s.values[i] = Null => <<s.table, Fields[s.table][i + 1]>> \in Nullable

RefValidChange(s) ==
  /\ s.table \in DOMAIN Fields
  /\ \A e \in ToSet(s.where) : Aggregates(e) = <<>>
  /\ \A e \in ToSet(s.where) : \A c \in Columns(e) :
       c.rel \in {"", s.table} /\ c.attr \in ToSet(Tail(Fields[s.table]))
  /\ \A i \in DOMAIN s.sets : s.sets[i].field \in ToSet(Tail(Fields[s.table]))

-----------------------------------------------------------------------------
(* Statements the code is known to get wrong; the README describes each.    *)

\* A constant WHERE that is not true takes the plan's rows away, not its answer.
ConstantWhere(s) == s.kind # "insert" /\ s.where # <<>> /\ s.where[1].op = "VALUE"

\* Equality of two columns as the whole ON condition selects RbTreeEqJoin.
JoinsFields(s) == s.kind = "select" /\ \E e \in Conditions(JoinAll(s.from)) : EqualFields(e)

\* FieldExpr looks a column up by the table's name, never by its alias.
SelfJoin(s) ==
  /\ s.kind = "select"
  /\ \E i, j \in DOMAIN RefDescs(JoinAll(s.from)) :
       i # j /\ RefDescs(JoinAll(s.from))[i].table = RefDescs(JoinAll(s.from))[j].table

\* The alias of a selected column hides a column used in the WHERE clause.
AliasHides(s) ==
  /\ s.kind = "select" /\ s.where # <<>>
  /\ \E i \in DOMAIN s.items : \E c \in Columns(s.where[1]) : s.items[i].alias = c.attr

\* An equality of an indexed field with a float (its bits are the key), or
\* with zero, under which NULLs are filed.
RECURSIVE Equalities(_)
Equalities(e) ==
  CASE e.op = "COMPARISON" -> {e}
    [] e.op = "CONJUNCTION" -> UNION {Equalities(e.kids[i]) : i \in DOMAIN e.kids}
    [] OTHER -> {}
IndexMisled(s) ==
  /\ s.kind \notin {"delete", "insert"} /\ s.where # <<>>
  /\ \E e \in Equalities(s.where[1]) :
       /\ \E t \in DOMAIN Fields : Servable(t, e)
       /\ \E i \in {1, 2} : e.kids[i].op = "VALUE" /\ (e.kids[i].v.t = "FLOATS" \/ e.kids[i].v.n = 0)

\* SET lists columns in another order than the table's.
SetOutOfOrder(s) ==
  /\ s.kind = "update"
  /\ \E i, j \in DOMAIN s.sets : \E k, l \in DOMAIN Fields[s.table] :
       /\ i < j /\ k > l
       /\ Fields[s.table][k] = s.sets[i].field /\ Fields[s.table][l] = s.sets[j].field

\* A DELETE that met an unreadable record deletes what it found before it.
DeleteCutShort(s, tables) ==
  s.kind = "delete" /\ \E i \in DOMAIN tables[s.table] : ~tables[s.table][i].readable

\* "*" beside an aggregate passes the check for mixed items; its columns
\* then cannot be read from the aggregate's tuple, in the middle of the reply.
StarMixed(s) ==
  /\ s.kind = "select"
  /\ \E i \in DOMAIN s.items : s.items[i].e.op = "FIELD" /\ s.items[i].e.attr = "*"
  /\ \E i \in DOMAIN s.items : Aggregates(s.items[i].e) # <<>>

\* What is not implemented is answered like a success.
Unimplemented(s) == s.kind = "select" /\ s.group # <<>>

KnownWrong(s) ==
  \/ Unimplemented(s) \/ StarMixed(s)
  \/ ConstantWhere(s) \/ JoinsFields(s) \/ SelfJoin(s) \/ AliasHides(s)
  \/ IndexMisled(s) \/ SetOutOfOrder(s)

-----------------------------------------------------------------------------
(* Properties *)

SameUnit(x, y) ==
  IF x.u = "text" /\ y.u = "text" THEN x.null = y.null /\ Compare(x, y) = 0 ELSE x = y

Readable == \A t \in DOMAIN store : \A i \in DOMAIN store[t] : store[t][i].readable

\* The same as the client should see it: lines of text that end in a zero,
\* or packets that are numbered from one.
RefPackets(payloads) ==
  FlattenSeq([i \in DOMAIN payloads |-> <<PacketHeader(i, payloads[i])>> \o payloads[i]])
RefStatus(good) ==
  IF Plain(conn) THEN <<Mark(IF good THEN "SUCCESS" ELSE "FAILURE"), END>>
  ELSE RefPackets(<<IF good THEN OkPacket ELSE ErrPacket>>)
RefTable(names, rows) ==
  LET line(units) == FlattenSeq([i \in DOMAIN units |-> <<units[i], IF i = Len(units) THEN NEWLINE ELSE DELIM>>])
      texts == [i \in DOMAIN rows |-> [k \in DOMAIN rows[i] |-> Text(rows[i][k])]]
      count == <<[u |-> "count", i |-> Len(names)]>>
  IN IF Plain(conn) THEN line(names) \o FlattenSeq([i \in DOMAIN texts |-> line(texts[i])]) \o <<END>>
     ELSE RefPackets(<<count>> \o [i \in DOMAIN names |-> <<names[i]>>] \o <<EofPacket>> \o texts \o <<EofPacket>>)

\* One name for each column of the answer.
RefWidth(item, descs) ==
  IF item.e.op = "FIELD" /\ item.e.attr = "*"
  THEN FoldLeft(LAMBDA n, desc : n + Len(Tail(Fields[desc.table])), 0,
                SelectSeq(descs, LAMBDA desc : item.e.rel \in {"", desc.name}))
  ELSE 1
RefNames(s) ==
  LET width == FoldLeft(LAMBDA n, item : n + RefWidth(item, RefDescs(JoinAll(s.from))), 0, s.items)
  IN [i \in 1..width |-> Name(i)]

\* After a record that cannot be read the rows simply stop.
RefReplies(s) ==
  LET rows == RefSelect(s, store)
  IN CASE s.kind # "select" -> {RefStatus(rc = "SUCCESS")}
       [] s.kind = "select" /\ ~RefValid(s) -> {RefStatus(FALSE)}
       [] s.kind = "select" /\ RefValid(s) /\ Readable -> {RefTable(RefNames(s), rows)}
       [] s.kind = "select" /\ RefValid(s) /\ ~Readable ->
            {RefStatus(FALSE)} \cup {RefTable(RefNames(s), SubSeq(rows, 1, k)) : k \in 0..Len(rows)}

\* The client of a SELECT receives exactly the rows the statement asks for,
\* in well formed lines or numbered packets, whatever the rewrites, the choice
\* of scans and joins, the way rows are pulled through the operators and
\* squeezed through the ring buffer; a meaningless statement is refused, a
\* change is answered by its outcome, and a connection that breaks cuts the
\* answer where it broke.
AnswerExact ==
  stage \in {"done", "aborted"} /\ ~KnownWrong(stmt) =>
    /\ stage = "done"
    /\ \E reply \in RefReplies(stmt) :
         /\ Len(conn.sent) = Least(Len(reply), conn.socket.breaks)
         /\ \A i \in DOMAIN conn.sent : SameUnit(conn.sent[i], reply[i])

Occurrences(rows, row) == Cardinality({i \in DOMAIN rows : rows[i].vals = row.vals})

\* An INSERT is accepted exactly when its values fit the table's fields, a
\* DELETE or an UPDATE when its names are the table's; one that then succeeds
\* leaves exactly the rows it describes, and one that fails the old ones; an
\* accepted INSERT does not fail.
ChangeExact ==
  [][stmt.kind \notin {"none", "select"} /\ ~KnownWrong(stmt) =>
       LET insert == stmt.kind = "insert"
           valid == IF insert THEN RefValidInsert(stmt) ELSE RefValidChange(stmt)
           ref == IF insert THEN RefInsert(stmt, store) ELSE RefChange(stmt, store)
           now == store'[stmt.table]
       IN /\ stage = "resolve" => (rc' = "SUCCESS") = valid
          /\ insert /\ stage # "resolve" => rc' = rc
          /\ stage = "open" /\ ~DeleteCutShort(stmt, store) =>
               /\ stage' # "aborted"
               /\ IF rc' = "SUCCESS"
                  THEN /\ Len(now) = Len(ref)
                       /\ \A i \in DOMAIN ref : Occurrences(now, ref[i]) = Occurrences(ref, ref[i])
                  ELSE store' = store]_vars
=============================================================================
