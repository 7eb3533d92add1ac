------------------------------ MODULE Reference ------------------------------
(***************************************************************************)
(* What a program means, and how it is written down: the yardstick the     *)
(* compiled programs of module Interpreter are held against.  Nothing of   *)
(* it is read off the code.                                                *)
(*                                                                         *)
(* Meaning is an evaluator of syntax trees in the manner of the Lua        *)
(* manual, with no registers, no jumps, no stack and no upvalues.          *)
(*                                                                         *)
(* A local variable is a cell of its own each time its declaration runs; a *)
(* context c maps the names in scope to cells and holds the extra          *)
(* arguments of the function.  A store s holds cells, tables, closures and *)
(* what has been printed; table 1 is the globals.  Evaluating gives        *)
(* [s, v, ok]: the store, the list of values, and whether it went well (if *)
(* not, v is the error value).                                             *)
(*                                                                         *)
(* WriteBlock is the text, as tokens: by the grammar and the precedence    *)
(* table of the manual, with parentheses only where they are needed.  A    *)
(* token is <<"NAME", n>>, <<"NUMBER", n>>, <<"STRING", s>> or the keyword *)
(* or symbol alone, as in <<"while">>.  Module Parser has to find the same *)
(* program again in the tokens.                                            *)
(***************************************************************************)
EXTENDS Ast, Functions

Fault == Str("fault")

Ok(s, v) == [s |-> s, v |-> v, ok |-> TRUE]
Fail(s, err) == [s |-> s, v |-> <<err>>, ok |-> FALSE]

Then(r, K(_, _)) == IF r.ok THEN K(r.s, r.v) ELSE r

First(v) == IF v = <<>> THEN Nil ELSE v[1]
Nth(v, i) == IF i \in DOMAIN v THEN v[i] ELSE Nil
NeverEnds(e) == e.t \in {"Call", "MethodCall", "Vararg"}

(* A program starts with the host functions among its globals.             *)
HostNames == {"print", "pcall", "error", "iter", "collect"}
InitialGlobals == [k \in {Str(n) : n \in HostNames} |-> Host(k[2])]
EmptyStore ==
  [cells |-> <<>>, tabs |-> <<InitialGlobals>>, clos |-> <<>>, out |-> <<>>]

Declare(c, s, names, v) ==
  LET base == Len(s.cells)
  IN [c |-> [c EXCEPT !.env =
               [n \in Range(names) |->
                  base + CHOOSE i \in DOMAIN names :
                    /\ names[i] = n
                    /\ \A j \in DOMAIN names : names[j] = n => j <= i] @@ @],
      s |-> [s EXCEPT !.cells = @ \o [i \in DOMAIN names |-> Nth(v, i)]]]

GetIndex(s, obj, key) ==
  IF obj[1] # "tab" THEN Fail(s, Fault)
                    ELSE Ok(s, <<RawGet(s.tabs[obj[2]], key)>>)
SetIndex(s, obj, key, val) ==
  IF obj[1] # "tab" \/ key = Nil THEN Fail(s, Fault)
  ELSE Ok([s EXCEPT !.tabs[obj[2]] = RawSet(@, key, val)], <<>>)

BinValue(s, op, x, y) ==
  CASE op = "==" -> Ok(s, <<Bool(x = y)>>)
    [] op = "~=" -> Ok(s, <<Bool(x # y)>>)
    [] op = ".." ->
         IF Plain(x) /\ Plain(y) THEN Ok(s, <<Str(ToStr(x) \o ToStr(y))>>)
                                 ELSE Fail(s, Fault)
    [] ~(IsNumber(x) /\ IsNumber(y)) -> Fail(s, Fault)
    [] op = "<" -> Ok(s, <<Bool(x[2] < y[2])>>)
    [] op = "<=" -> Ok(s, <<Bool(x[2] <= y[2])>>)
    [] op = ">" -> Ok(s, <<Bool(x[2] > y[2])>>)
    [] op = ">=" -> Ok(s, <<Bool(x[2] >= y[2])>>)
    [] op \in ArithOps -> Ok(s, <<Num(Arith(op, x[2], y[2]))>>)

UnValue(s, op, x) ==
  CASE op = "not" -> Ok(s, <<Bool(~Truthy(x))>>)
    [] op = "-" -> IF IsNumber(x) THEN Ok(s, <<Num(-x[2])>>) ELSE Fail(s, Fault)
    [] op = "#" -> IF x[1] = "tab" THEN Ok(s, <<Num(Border(s.tabs[x[2]]))>>)
                                   ELSE Fail(s, Fault)

RECURSIVE Values(_, _, _), ValuesOf(_, _, _), Apply(_, _, _), Exec(_, _, _),
          ExecBlock(_, _, _), Items(_, _, _, _, _), Assign(_, _, _, _)

Value(e, c, s) == Then(Values(e, c, s), LAMBDA s1, v : Ok(s1, <<First(v)>>))

ValuesOf(es, c, s) ==
  IF es = <<>> THEN Ok(s, <<>>)
  ELSE IF Len(es) = 1 THEN Values(es[1], c, s)
  ELSE Then(Value(es[1], c, s), LAMBDA s1, v :
         Then(ValuesOf(Tail(es), c, s1), LAMBDA s2, w : Ok(s2, v \o w)))

Items(items, n, id, c, s) ==
  IF items = <<>> THEN Ok(s, <<Tab(id)>>)
  ELSE LET it == items[1]
           Put(s0, from, v) ==
             [s0 EXCEPT !.tabs[id] =
                [k \in {Num(from + i) : i \in DOMAIN v} |-> v[k[2] - from]] @@ @]
       IN IF it.key # <<>>
          THEN Then(Value(it.key[1], c, s), LAMBDA s1, k :
                 Then(Value(it.val, c, s1), LAMBDA s2, v :
                   Then(SetIndex(s2, Tab(id), k[1], v[1]), LAMBDA s3, x :
                     Items(Tail(items), n, id, c, s3))))
          ELSE IF Len(items) = 1
          THEN Then(Values(it.val, c, s), LAMBDA s1, v :
                 Ok(Put(s1, n, v), <<Tab(id)>>))
          ELSE Then(Value(it.val, c, s), LAMBDA s1, v :
                 Items(Tail(items), n + 1, id, c,
                       IF v[1] = Nil THEN s1 ELSE Put(s1, n, v)))

Values(e, c, s) ==
  CASE e.t = "Nil" -> Ok(s, <<Nil>>)
    [] e.t = "True" -> Ok(s, <<Bool(TRUE)>>)
    [] e.t = "False" -> Ok(s, <<Bool(FALSE)>>)
    [] e.t = "Number" -> Ok(s, <<Num(e.num)>>)
    [] e.t = "String" -> Ok(s, <<Str(e.str)>>)
    [] e.t = "Vararg" -> Ok(s, c.va)
    [] e.t = "Name" ->
         Ok(s, <<IF e.name \in DOMAIN c.env THEN s.cells[c.env[e.name]]
                 ELSE RawGet(s.tabs[1], Str(e.name))>>)
    [] e.t = "Paren" -> Value(e.e, c, s)
    [] e.t = "Index" ->
         Then(Value(e.obj, c, s), LAMBDA s1, o :
           Then(Value(e.key, c, s1), LAMBDA s2, k : GetIndex(s2, o[1], k[1])))
    [] e.t = "Call" ->
         Then(Value(e.fn, c, s), LAMBDA s1, f :
           Then(ValuesOf(e.args, c, s1), LAMBDA s2, a : Apply(f[1], a, s2)))
    [] e.t = "MethodCall" ->
         Then(Value(e.recv, c, s), LAMBDA s1, o :
           Then(GetIndex(s1, o[1], Str(e.method)), LAMBDA s2, f :
             Then(ValuesOf(e.args, c, s2), LAMBDA s3, a :
               Apply(f[1], o \o a, s3))))
    [] e.t = "Bin" /\ e.op \in {"and", "or"} ->
         Then(Value(e.l, c, s), LAMBDA s1, l :
           IF Truthy(l[1]) = (e.op = "and") THEN Value(e.r, c, s1) ELSE Ok(s1, l))
    [] e.t = "Bin" /\ e.op \notin {"and", "or"} ->
         Then(Value(e.l, c, s), LAMBDA s1, l :
           Then(Value(e.r, c, s1), LAMBDA s2, r : BinValue(s2, e.op, l[1], r[1])))
    [] e.t = "Un" -> Then(Value(e.e, c, s), LAMBDA s1, x : UnValue(s1, e.op, x[1]))
    [] e.t = "Func" ->
         Ok([s EXCEPT !.clos = Append(@, [fe |-> e, env |-> c.env])],
            <<Fun(Len(s.clos) + 1)>>)
    [] e.t = "Table" ->
         LET id == Len(s.tabs) + 1
         IN Items(e.items, 0, id, c, [s EXCEPT !.tabs = Append(@, <<>>)])

(* An old-style vararg function, whose body does not use "...", finds its  *)
(* extra arguments in the table "arg"; in one that does, "arg" is nil.     *)
ArgTable(va) ==
  (Str("n") :> Num(Len(va))) @@
    [k \in {Num(i) : i \in {j \in DOMAIN va : va[j] # Nil}} |-> va[k[2]]]

Apply(f, args, s) ==
  CASE f[1] = "fun" ->
         LET cl == s.clos[f[2]]
             extra == SubSeq(args, Len(cl.fe.params) + 1, Len(args))
             s0 == IF cl.fe.vararg = "arg"
                   THEN [s EXCEPT !.tabs = Append(@, ArgTable(extra))] ELSE s
             d == Declare([env |-> cl.env, va |-> extra], s0, cl.fe.params, args)
             d1 == IF cl.fe.vararg = "no" THEN d
                   ELSE Declare(d.c, d.s, <<"arg">>,
                          IF cl.fe.vararg = "arg" THEN <<Tab(Len(s0.tabs))>>
                                                  ELSE <<Nil>>)
             r == ExecBlock(cl.fe.body, d1.c, d1.s)
         IN CASE r.go = "raise" -> Fail(r.s, r.v[1])
              [] r.go = "return" -> Ok(r.s, r.v)
              [] OTHER -> Ok(r.s, <<>>)
    [] f = Host("print") -> Ok([s EXCEPT !.out = Append(@, Line(args))], <<>>)
    [] f = Host("collect") -> Ok(s, <<>>)
    [] f = Host("error") -> Fail(s, First(args))
    [] f = Host("iter") ->
         LET i == args[2][2] + 1
             x == RawGet(s.tabs[args[1][2]], Num(i))
         IN Ok(s, IF x = Nil THEN <<Nil>> ELSE <<Num(i), x>>)
    [] f = Host("pcall") ->
         LET r == Apply(First(args), Tail(args), s)
         IN Ok(r.s, <<Bool(r.ok)>> \o r.v)
    [] OTHER -> Fail(s, Fault)

(* A statement gives [s, c, go, v]: how control leaves it ("next",         *)
(* "break", "return" with the values v, "raise" with the error).           *)
Go(s, c, how, v) == [s |-> s, c |-> c, go |-> how, v |-> v]
Next_(s, c) == Go(s, c, "next", <<>>)
Do(r, c, K(_, _)) == IF r.ok THEN K(r.s, r.v) ELSE Go(r.s, c, "raise", r.v)

ExecBlock(b, c, s) ==
  IF b = <<>> THEN Next_(s, c)
  ELSE LET r == Exec(b[1], c, s)
       IN IF r.go = "next" THEN ExecBlock(Tail(b), r.c, r.s) ELSE r

(* A body run for its effect: the names it declares end with it.           *)
Inner(b, c, s) == [ExecBlock(b, c, s) EXCEPT !.c = c]

(* A loop goes round again after a body that ended; break ends it.         *)
Again(r, c, K(_)) ==
  CASE r.go = "next" -> K(r.s)
    [] r.go = "break" -> Next_(r.s, c)
    [] OTHER -> [r EXCEPT !.c = c]

RECURSIVE NumLoop(_, _, _, _, _, _), GenLoop(_, _, _, _, _, _)

NumLoop(st, i, limit, step, c, s) ==
  IF IF step > 0 THEN i > limit ELSE i < limit THEN Next_(s, c)
  ELSE LET d == Declare(c, s, <<st.var>>, <<Num(i)>>)
       IN Again(ExecBlock(st.body, d.c, d.s), c, LAMBDA s1 :
            NumLoop(st, i + step, limit, step, c, s1))

GenLoop(st, f, state, control, c, s) ==
  Do(Apply(f, <<state, control>>, s), c, LAMBDA s1, v :
    IF First(v) = Nil THEN Next_(s1, c)
    ELSE LET d == Declare(c, s1, st.names, v)
         IN Again(ExecBlock(st.body, d.c, d.s), c, LAMBDA s2 :
              GenLoop(st, f, state, v[1], c, s2)))

(* The targets' own expressions are evaluated first, then the right side,  *)
(* then the values are stored.                                             *)
RECURSIVE Places(_, _, _), StoreAll(_, _, _, _, _)
Places(ts, c, s) ==
  IF ts = <<>> THEN Ok(s, <<>>)
  ELSE IF ts[1].t = "Name"
  THEN Then(Places(Tail(ts), c, s), LAMBDA s1, w : Ok(s1, << <<>> >> \o w))
  ELSE Then(Value(ts[1].obj, c, s), LAMBDA s1, o :
         Then(Value(ts[1].key, c, s1), LAMBDA s2, k :
           Then(Places(Tail(ts), c, s2), LAMBDA s3, w :
             Ok(s3, << <<o[1], k[1]>> >> \o w))))

StoreAll(ts, places, v, c, s) ==
  IF ts = <<>> THEN Ok(s, <<>>)
  ELSE LET n == Len(ts)
           last == ts[n]
           x == Nth(v, n)
           r == IF last.t = "Index" THEN SetIndex(s, places[n][1], places[n][2], x)
                ELSE IF last.name \in DOMAIN c.env
                THEN Ok([s EXCEPT !.cells[c.env[last.name]] = x], <<>>)
                ELSE SetIndex(s, Tab(1), Str(last.name), x)
       IN Then(r, LAMBDA s1, w : StoreAll(SubSeq(ts, 1, n - 1), places, v, c, s1))

Assign(ts, es, c, s) ==
  Then(Places(ts, c, s), LAMBDA s1, places :
    Then(ValuesOf(es, c, s1), LAMBDA s2, v : StoreAll(ts, places, v, c, s2)))

Exec(st, c, s) ==
  CASE st.t = "Local" ->
         Do(ValuesOf(st.exprs, c, s), c, LAMBDA s1, v :
           LET d == Declare(c, s1, st.names, v) IN Next_(d.s, d.c))
    [] st.t = "LocalFunc" ->
         LET d == Declare(c, s, <<st.name>>, <<>>)
             f == Values(st.fn, d.c, d.s)
         IN Next_([f.s EXCEPT !.cells[d.c.env[st.name]] = f.v[1]], d.c)
    [] st.t = "Assign" ->
         Do(Assign(st.targets, st.exprs, c, s), c, LAMBDA s1, v : Next_(s1, c))
    [] st.t = "FuncStmt" ->
         Do(Assign(<<st.target>>, <<st.fn>>, c, s), c, LAMBDA s1, v : Next_(s1, c))
    [] st.t = "CallStmt" -> Do(Values(st.call, c, s), c, LAMBDA s1, v : Next_(s1, c))
    [] st.t = "Do" -> Inner(st.body, c, s)
    [] st.t = "While" ->
         Do(Value(st.cond, c, s), c, LAMBDA s1, v :
           IF ~Truthy(v[1]) THEN Next_(s1, c)
           ELSE Again(ExecBlock(st.body, c, s1), c, LAMBDA s2 : Exec(st, c, s2)))
    [] st.t = "Repeat" ->
         LET r == ExecBlock(st.body, c, s)
         IN IF r.go # "next" THEN Again(r, c, LAMBDA s1 : Next_(s1, c))
            ELSE Do(Value(st.cond, r.c, r.s), c, LAMBDA s1, v :
                   IF Truthy(v[1]) THEN Next_(s1, c) ELSE Exec(st, c, s1))
    [] st.t = "If" ->
         IF st.clauses = <<>>
         THEN IF st.else = <<>> THEN Next_(s, c) ELSE Inner(st.else[1], c, s)
         ELSE Do(Value(st.clauses[1].cond, c, s), c, LAMBDA s1, v :
                IF Truthy(v[1]) THEN Inner(st.clauses[1].body, c, s1)
                ELSE Exec([st EXCEPT !.clauses = Tail(@)], c, s1))
    [] st.t = "NumFor" ->
         Do(Value(st.init, c, s), c, LAMBDA s1, a :
           Do(Value(st.limit, c, s1), c, LAMBDA s2, b :
             Do(ValuesOf(st.step, c, s2), c, LAMBDA s3, d :
               LET step == IF d = <<>> THEN Num(1) ELSE d[1]
               IN IF IsNumber(a[1]) /\ IsNumber(b[1]) /\ IsNumber(step)
                  THEN NumLoop(st, a[1][2], b[1][2], step[2], c, s3)
                  ELSE Go(s3, c, "raise", <<Fault>>))))
    [] st.t = "GenFor" ->
         Do(ValuesOf(st.exprs, c, s), c, LAMBDA s1, v :
           GenLoop(st, Nth(v, 1), Nth(v, 2), Nth(v, 3), c, s1))
    [] st.t = "Return" ->
         Do(ValuesOf(st.exprs, c, s), c, LAMBDA s1, v : Go(s1, c, "return", v))
    [] st.t = "Break" -> Go(s, c, "break", <<>>)

(* The meaning of a program: the lines it prints and, when it dies, the    *)
(* error it dies of.                                                       *)
Meaning(body) ==
  LET r == ExecBlock(body, [env |-> <<>>, va |-> <<>>], EmptyStore)
  IN [out |-> r.s.out, error |-> IF r.go = "raise" THEN r.v ELSE <<>>]

------------------------------------------------------------------------------
(* The text.                                                               *)

(* "or" binds loosest; ".." and "^" group to the right.                    *)
Level(e) ==
  CASE e.t = "Bin" /\ e.op = "or" -> 1
    [] e.t = "Bin" /\ e.op = "and" -> 2
    [] e.t = "Bin" /\ e.op \in CompareOps -> 3
    [] e.t = "Bin" /\ e.op = ".." -> 4
    [] e.t = "Bin" /\ e.op \in {"+", "-"} -> 5
    [] e.t = "Bin" /\ e.op \in {"*", "/", "%"} -> 6
    [] e.t = "Un" -> 7
    [] e.t = "Bin" /\ e.op = "^" -> 8
    [] OTHER -> 9
GroupsRight(e) == e.op \in {"..", "^"}

RECURSIVE Separated(_)
Separated(parts) ==
  CASE parts = <<>> -> <<>>
    [] Len(parts) = 1 -> parts[1]
    [] OTHER -> parts[1] \o <<<<",">>>> \o Separated(Tail(parts))

RECURSIVE Joined(_)
Joined(parts) == IF parts = <<>> THEN <<>> ELSE parts[1] \o Joined(Tail(parts))

Names(ns) == Separated([i \in DOMAIN ns |-> <<<<"NAME", ns[i]>>>>])
Parens(toks) == <<<<"(">>>> \o toks \o <<<<")">>>>

RECURSIVE Write(_), WriteBlock(_)

WriteAll(es) == Separated([i \in DOMAIN es |-> Write(es[i])])
Operand(e, bare) == IF bare THEN Write(e) ELSE Parens(Write(e))
Prefix(e) == Operand(e, e.t \in {"Name", "Index", "Call", "MethodCall", "Paren"})

(* One argument that is a string or a constructor goes without parens.     *)
Arguments(args) ==
  IF Len(args) = 1 /\ args[1].t \in {"String", "Table"} THEN Write(args[1])
                                                        ELSE Parens(WriteAll(args))

Item(it) ==
  CASE it.key = <<>> -> Write(it.val)
    [] it.key # <<>> /\ it.key[1].t = "String" ->
         <<<<"NAME", it.key[1].str>>, <<"=">>>> \o Write(it.val)
    [] OTHER -> <<<<"[">>>> \o Write(it.key[1]) \o <<<<"]">>, <<"=">>>> \o Write(it.val)

Body(fe, hidden) ==
  LET params == SubSeq(fe.params, hidden + 1, Len(fe.params))
      names == [i \in DOMAIN params |-> <<<<"NAME", params[i]>>>>]
  IN Parens(Separated(IF fe.vararg = "no" THEN names ELSE Append(names, <<<<"...">>>>)))
       \o WriteBlock(fe.body) \o <<<<"end">>>>

Write(e) ==
  CASE e.t = "Nil" -> <<<<"nil">>>>
    [] e.t = "True" -> <<<<"true">>>>
    [] e.t = "False" -> <<<<"false">>>>
    [] e.t = "Number" -> <<<<"NUMBER", e.num>>>>
    [] e.t = "String" -> <<<<"STRING", e.str>>>>
    [] e.t = "Vararg" -> <<<<"...">>>>
    [] e.t = "Name" -> <<<<"NAME", e.name>>>>
    [] e.t = "Paren" -> Parens(Write(e.e))
    [] e.t = "Index" /\ e.key.t = "String" ->
         Prefix(e.obj) \o <<<<".">>, <<"NAME", e.key.str>>>>
    [] e.t = "Index" /\ e.key.t # "String" ->
         Prefix(e.obj) \o <<<<"[">>>> \o Write(e.key) \o <<<<"]">>>>
    [] e.t = "Call" -> Prefix(e.fn) \o Arguments(e.args)
    [] e.t = "MethodCall" ->
         Prefix(e.recv) \o <<<<":">>, <<"NAME", e.method>>>> \o Arguments(e.args)
    [] e.t = "Un" -> <<<<e.op>>>> \o Operand(e.e, Level(e.e) >= Level(e))
    [] e.t = "Bin" ->
         Operand(e.l, Level(e.l) > Level(e) \/ (Level(e.l) = Level(e) /\ ~GroupsRight(e)))
           \o <<<<e.op>>>>
           \o Operand(e.r, \/ Level(e.r) > Level(e)
                           \/ Level(e.r) = Level(e) /\ GroupsRight(e)
                           \/ e.r.t = "Un")
    [] e.t = "Func" -> <<<<"function">>>> \o Body(e, 0)
    [] e.t = "Table" ->
         <<<<"{">>>> \o Separated([i \in DOMAIN e.items |-> Item(e.items[i])]) \o <<<<"}">>>>

Clause(word, cl) ==
  <<<<word>>>> \o Write(cl.cond) \o <<<<"then">>>> \o WriteBlock(cl.body)

(* A method's name comes after a colon and its parameter self is not       *)
(* written.                                                                *)
FuncName(target, isMethod) ==
  IF isMethod THEN Prefix(target.obj) \o <<<<":">>, <<"NAME", target.key.str>>>>
              ELSE Write(target)

Statement(s) ==
  CASE s.t = "Local" ->
         <<<<"local">>>> \o Names(s.names)
           \o (IF s.exprs = <<>> THEN <<>> ELSE <<<<"=">>>> \o WriteAll(s.exprs))
    [] s.t = "LocalFunc" ->
         <<<<"local">>, <<"function">>, <<"NAME", s.name>>>> \o Body(s.fn, 0)
    [] s.t = "Assign" -> WriteAll(s.targets) \o <<<<"=">>>> \o WriteAll(s.exprs)
    [] s.t = "CallStmt" -> Write(s.call)
    [] s.t = "Do" -> <<<<"do">>>> \o WriteBlock(s.body) \o <<<<"end">>>>
    [] s.t = "While" ->
         <<<<"while">>>> \o Write(s.cond) \o <<<<"do">>>> \o WriteBlock(s.body) \o <<<<"end">>>>
    [] s.t = "Repeat" ->
         <<<<"repeat">>>> \o WriteBlock(s.body) \o <<<<"until">>>> \o Write(s.cond)
    [] s.t = "If" ->
         Joined([i \in DOMAIN s.clauses |->
                   Clause(IF i = 1 THEN "if" ELSE "elseif", s.clauses[i])])
           \o (IF s.else = <<>> THEN <<>> ELSE <<<<"else">>>> \o WriteBlock(s.else[1]))
           \o <<<<"end">>>>
    [] s.t = "NumFor" ->
         <<<<"for">>, <<"NAME", s.var>>, <<"=">>>>
           \o WriteAll(<<s.init, s.limit>> \o s.step)
           \o <<<<"do">>>> \o WriteBlock(s.body) \o <<<<"end">>>>
    [] s.t = "GenFor" ->
         <<<<"for">>>> \o Names(s.names) \o <<<<"in">>>> \o WriteAll(s.exprs)
           \o <<<<"do">>>> \o WriteBlock(s.body) \o <<<<"end">>>>
    [] s.t = "FuncStmt" ->
         <<<<"function">>>> \o FuncName(s.target, s.isMethod)
           \o Body(s.fn, IF s.isMethod THEN 1 ELSE 0)
    [] s.t = "Return" -> <<<<"return">>>> \o WriteAll(s.exprs)
    [] s.t = "Break" -> <<<<"break">>>>

(* A semicolon keeps a statement that starts with a parenthesis from being *)
(* read as the arguments of a call.                                        *)
WriteBlock(b) ==
  Joined([i \in DOMAIN b |->
            IF i > 1 /\ Statement(b[i])[1] = <<"(">> THEN <<<<";">>>> \o Statement(b[i])
                                                     ELSE Statement(b[i])])
=============================================================================
