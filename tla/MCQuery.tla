------------------------------ MODULE MCQuery -------------------------------
(* Two tables of up to two rows, one with an index, and a set of statements *)
(* that reaches every form of expression, scan, join and plan.              *)
EXTENDS Query

MCFields == [t1 |-> <<"__null", "a", "b">>, t2 |-> <<"__null", "a", "c">>]
MCNullable == {<<"t1", "a">>, <<"t2", "a">>}
MCIndexed == {<<"t1", "a">>}

Row(x, y) == [vals |-> <<x, y>>, readable |-> TRUE]
Broken(x, y) == [vals |-> <<x, y>>, readable |-> FALSE]

Rows1 == {Row(Null, IntV(0)), Row(IntV(0), IntV(1)), Row(IntV(1), IntV(1)), Row(IntV(1), IntV(2))}
Rows2 == {Row(Null, IntV(1)), Row(IntV(0), IntV(0)), Row(IntV(1), IntV(2))}
UpTo2(S) == UNION {[1..n -> S] : n \in 0..2}

MCStores ==
  [t1 : UpTo2(Rows1), t2 : UpTo2(Rows2)]
    \cup {[t1 |-> <<r, Broken(IntV(1), IntV(1))>>, t2 |-> <<Row(IntV(1), IntV(2))>>] : r \in Rows1}
    \cup {[t1 |-> <<Row(IntV(1), IntV(1))>>, t2 |-> <<r, Broken(IntV(1), IntV(1))>>] : r \in Rows2}

MCSockets == {[chunk |-> 1, breaks |-> 99], [chunk |-> 2, breaks |-> 5]}

A == Field("", "a")
B == Field("", "b")
C == Field("", "c")
T1A == Field("t1", "a")
T2A == Field("t2", "a")
Num(n) == Val(IntV(n))
Eq(x, y) == Comp(x, "=", y)

T1 == TableRef("t1", "")
T2 == TableRef("t2", "")

Select(items, from, where) ==
  [kind |-> "select", items |-> items, from |-> from, where |-> where, group |-> <<>>]
All(from, where) == Select(<<Item(STAR, "")>>, from, where)
Of(e) == <<Item(e, "")>>

Conditions1 ==
  {Eq(A, Num(1)), Eq(Num(1), A), Eq(A, B), Eq(A, Val(Null)), Eq(A, Val(FloatV(1, 1))),
   Eq(A, Num(0)), Eq(B, Num(0)), Comp(A, "<", B), Comp(A, "<=", Num(0)), Comp(B, ">", Val(FloatV(1, 2))),
   Comp(B, ">=", Num(1)), Comp(A, "<>", B), Num(0), Num(1), Val(Null), IsNull(A), Not(IsNull(A)),
   Conj("AND", <<Eq(A, Num(1)), Eq(B, Num(2))>>),
   Conj("AND", <<Comp(A, "<", B), Eq(Num(1), B)>>),
   Conj("OR", <<Eq(A, Num(1)), Eq(B, Num(0))>>),
   Not(Conj("OR", <<Eq(A, Num(1)), Eq(B, Num(0))>>)),
   Conj("AND", <<Conj("OR", <<Eq(A, Num(1)), IsNull(A)>>), Eq(B, Num(0))>>),
   In(A, <<Num(1), Val(Null)>>), Not(In(A, <<Num(0), Num(2)>>)),
   Eq(Arith(A, "*", B), Num(1)), Comp(Arith(B, "/", A), ">", Num(1))}

Singles ==
  {All(<<T1>>, <<e>>) : e \in Conditions1}
    \cup {Select(Of(e), <<T1>>, <<>>) :
            e \in {Arith(A, "+", B), Arith(B, "-", Num(1)), T1A, C, Field("t2", "a"), Field("t1", "*"),
                   Field("t3", "*"), Aggregate("count", STAR), Aggregate("sum", A), Aggregate("avg", A),
                   Aggregate("max", A), Aggregate("min", Arith(A, "+", B)),
                   Arith(Aggregate("sum", B), "+", Num(1)), Arith(Aggregate("sum", B), "+", B),
                   Aggregate("sum", Aggregate("sum", B)), Aggregate("sum", C)}}
    \cup {All(<<TableRef("t1", "x")>>, <<Eq(Field("x", "b"), Num(1))>>),
          All(<<TableRef("t3", "")>>, <<>>),
          All(<<T1>>, <<Eq(Aggregate("sum", A), Num(1))>>),
          Select(<<Item(A, "b")>>, <<T1>>, <<Eq(B, Num(1))>>),
          Select(<<Item(A, "k"), Item(B, "")>>, <<T1>>, <<Eq(B, Num(1))>>),
          Select(<<Item(Aggregate("count", A), ""), Item(Aggregate("sum", B), "")>>, <<T1>>, <<Comp(B, ">=", Num(1))>>),
          Select(<<Item(A, ""), Item(Aggregate("sum", B), "")>>, <<T1>>, <<>>),
          Select(<<Item(STAR, ""), Item(Aggregate("count", A), "")>>, <<T1>>, <<>>),
          Select(Of(Aggregate("count", STAR)), <<T1>>, <<Num(0)>>),
          [All(<<T1>>, <<>>) EXCEPT !.group = <<A>>]}

Joins ==
  {All(<<T1, T2>>, <<>>), All(<<T1, T2>>, <<Eq(B, C)>>), All(<<T1, T2>>, <<Eq(A, Num(1))>>),
   All(<<T1, T2>>, <<Conj("AND", <<Eq(T1A, Num(1)), Comp(T2A, "<", C)>>)>>),
   All(<<T2, T1, TableRef("t2", "y")>>, <<>>),
   All(<<TableRef("t1", "x"), TableRef("t1", "y")>>, <<Comp(Field("x", "b"), "<", Field("y", "b"))>>),
   All(<<JoinRef(T1, T2, <<Eq(T1A, T2A)>>)>>, <<>>),
   All(<<JoinRef(T1, T2, <<Comp(B, "<", C)>>)>>, <<Eq(T2A, Num(0))>>),
   All(<<JoinRef(T1, T2, <<Conj("AND", <<Eq(T1A, T2A), Comp(B, "<=", C)>>)>>)>>, <<>>),
   Select(<<Item(T2A, ""), Item(B, "")>>, <<JoinRef(T1, T2, <<Comp(T1A, "=", Num(1))>>)>>, <<>>),
   Select(Of(Aggregate("sum", C)), <<T1, T2>>, <<Comp(B, "<", Num(2))>>),
   Select(Of(Field("t2", "*")), <<T1, T2>>, <<>>)}

Change(kind, where, sets) == [kind |-> kind, table |-> "t1", where |-> where, sets |-> sets]
Set(field, v) == [field |-> field, v |-> v]
Changes ==
  {Change("delete", <<e>>, <<>>) :
     e \in {Eq(A, Num(1)), Comp(A, "<", B), Eq(A, Num(0)), IsNull(A), Num(0), Eq(C, Num(1))}}
    \cup {Change("update", <<e>>, <<Set("b", IntV(2))>>) :
            e \in {Eq(A, Num(1)), Conj("OR", <<Eq(A, Num(1)), Eq(B, Num(0))>>), Eq(A, Num(0)), Num(0), Num(1)}}
    \cup {Change("delete", <<>>, <<>>), Change("update", <<>>, <<Set("a", Null)>>),
          Change("update", <<>>, <<Set("b", Null)>>),
          Change("update", <<>>, <<Set("a", IntV(0)), Set("b", IntV(1))>>),
          Change("update", <<>>, <<Set("b", IntV(0)), Set("a", IntV(1))>>),
          Change("update", <<>>, <<Set("b", IntV(0)), Set("b", IntV(1))>>),
          Change("update", <<>>, <<Set("c", IntV(0))>>),
          [Change("delete", <<>>, <<>>) EXCEPT !.table = "t3"]}

Insert(table, values) == [kind |-> "insert", table |-> table, values |-> values]
Inserts ==
  {Insert("t1", vs) :
     vs \in {<<IntV(1), IntV(2)>>, <<Null, IntV(0)>>, <<IntV(1), Null>>, <<IntV(1)>>,
             <<IntV(1), IntV(1), IntV(1)>>, <<FloatV(3, 2), FloatV(-3, 2)>>, <<BoolV(TRUE), FloatV(-1, 2)>>}}
    \cup {Insert("t3", <<IntV(1), IntV(1)>>)}

MCStatements == Singles \cup Joins \cup Changes \cup Inserts
=============================================================================
