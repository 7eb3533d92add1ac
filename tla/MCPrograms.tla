----------------------------- MODULE MCPrograms -----------------------------
(***************************************************************************)
(* The programs the run of module Execution executes: three families       *)
(* built by combination (expressions, loops whose body captures a          *)
(* variable, assignments) and programs written out for one feature each.   *)
(* No program divides with a remainder, computes with strings or orders    *)
(* them, or depends on an order of evaluation the Lua manual leaves open;  *)
(* print does not say which table or function it shows.  None meets one of *)
(* the errors of compiled code told of in section 5 of the README.         *)
(***************************************************************************)
EXTENDS Execution

------------------------------------------------------------------------------
(* No function is promoted, or each that can be, to one of the tiers, or   *)
(* some of them only, which those that are interpreted call and are called *)
(* by.  What can be is what the analyser of compilability did not refuse.  *)
(* Functions compiled to wasm call each other through the shared table, or *)
(* some of them do.  A function with a tail call is never in the table:    *)
(* what becomes of its caller's base is told in the README.                *)
Analysed(built) == {pid \in DOMAIN built.protos : MayBePromoted(built.protos[pid])}
Compilable(built) == {pid \in Analysed(built) : built.wasm[pid].items # <<>>}
Has(built, pid, op) == \E pc \in DOMAIN built.protos[pid].code : built.protos[pid].code[pc].op = op

ToWasm(all, slotted) == [tier |-> "wasm", all |-> all, slotted |-> slotted, mono |-> TRUE]
ToNative(all, mono) == [tier |-> "native", all |-> all, slotted |-> {}, mono |-> mono]

SomePromotions(built) ==
  LET C == Compilable(built)
      Every(n, pids) == {pid \in pids : pid % n = 0}
      safe == {pid \in C : ~Has(built, pid, "TAILCALL")}
      made(mono, codes) ==
        {pid \in Analysed(built) : built.native[mono][pid].code \in codes}
      loops == {pid \in made(FALSE, {"native"}) : built.native[FALSE][pid].preferred}
  IN {ToWasm({}, {}), ToWasm(C, safe), ToWasm(Every(2, C), Every(4, safe)),
      ToNative(made(TRUE, {"native", "template", "replay"}), TRUE),
      ToNative(made(FALSE, {"template", "replay"}) \cup loops, FALSE)}

------------------------------------------------------------------------------
V(n) == NameExpr(n)
N(n) == NumberExpr(n)
S(s) == StringExpr(s)
Op(l, op, r) == BinExpr(op, l, r)
Not(e) == UnExpr("not", e)
Call(f, args) == CallExpr(V(f), args)
Run(f, args) == CallStmt(Call(f, args))
Show(args) == Run("print", args)
Collecting == Run("collect", <<>>)
Local(n, e) == LocalStmt(<<n>>, <<e>>)
Let(n, e) == AssignStmt(<<V(n)>>, <<e>>)
Fn(params, body) == FuncExpr(params, "no", body)
Dots(params, body) == FuncExpr(params, "dots", body)
Method(o, name, args) == MethodCallExpr(o, name, args)
Ret(es) == ReturnStmt(es)
If(c, b) == IfStmt(<<IfClause(c, b)>>, <<>>)
At_(o, k) == IndexExpr(o, k)
Field(o, k) == IndexExpr(V(o), S(k))
List(es) == TableExpr([i \in DOMAIN es |-> TableItem(<<>>, es[i])])
Inc(n) == Let(n, Op(V(n), "+", N(1)))

(* A function that calls what is not known to be a local function or a safe *)
(* one of the library is never promoted.  What was declared so once stays  *)
(* known when its block has ended, so a program starts with a block that   *)
(* declares names its functions call, those of the library included.       *)
Knowing(called, body) ==
  <<DoStmt([k \in DOMAIN called |-> LocalFuncStmt(called[k], Fn(<<>>, <<>>))])>> \o body

------------------------------------------------------------------------------
(* All combinations of two lists; \o makes TLC evaluate the list once.     *)
Combine(s, t, F(_, _)) ==
  [n \in 1..(Len(s) * Len(t)) |->
     F(s[((n - 1) \div Len(t)) + 1], t[((n - 1) % Len(t)) + 1])] \o <<>>
Mapped(s, F(_)) == [n \in DOMAIN s |-> F(s[n])] \o <<>>

(* Expressions of up to two operators over a local, a constant that is     *)
(* false and a call, used as a value, as an argument and as a condition.   *)
Atoms == <<V("x"), FalseExpr, Call("id", <<N(2)>>)>>
Apply2(l, opr) == Op(l, opr[1], opr[2])
Applied(es, ops, fs) == Combine(es, Combine(ops, fs, LAMBDA op, f : <<op, f>>), Apply2)
One == Applied(Atoms, <<"and", "or", "==", "<", "+">>, Atoms)
Some == Applied(Atoms, <<"and", "or", "<">>, Atoms)
Tested ==
  One \o Applied(Some, <<"and">>, Atoms) \o Applied(Some, <<"~=">>, <<V("x")>>)
    \o Applied(Atoms, <<"or">>, Some) \o Mapped(One, Not)
    \o Applied(Applied(Atoms, <<"and">>, Some), <<"or">>, <<V("x")>>)
    \o Combine(Atoms, Atoms, LAMBDA a, b : Not(Op(Not(a), "and", b)))

UseOf(e) ==
  Knowing(<<"print">>,
  << LocalFuncStmt("id", Fn(<<"v">>, <<Ret(<<V("v")>>)>>)),
     LocalFuncStmt("f", Fn(<<>>, <<
       Local("x", N(1)), Local("z", e), Show(<<e, V("z")>>),
       IfStmt(<<IfClause(e, <<Show(<<N(1)>>)>>)>>, << <<Show(<<N(2)>>)>> >>)>>)),
     LocalFuncStmt("g", Fn(<<"x">>, <<
       WhileStmt(e, <<Show(<<N(3)>>), BreakStmt>>), Let("x", e), Show(<<V("x")>>)>>)),
     Run("f", <<>>), Run("g", <<N(1)>>) >>)

Expressions == Mapped(Tested, UseOf)

------------------------------------------------------------------------------
(* Loops over i = 1, 2, 3 that keep a closure over a variable of the body, *)
(* over the loop's own variable, or over none, and leave the body early in *)
(* the second round, or not.                                               *)
Keep(captured) ==
  IF captured = "none" THEN <<Show(<<V("i")>>)>>
  ELSE << LocalStmt(<<"y">>, <<Op(V("i"), "*", N(10))>>),
          AssignStmt(<<At_(V("fs"), Op(UnExpr("#", V("fs")), "+", N(1)))>>,
            <<Fn(<<>>, <<Inc(captured), Ret(<<V(captured)>>)>>)>>) >>

Leave(exit) ==
  CASE exit = "end" -> <<>>
    [] exit = "break" -> <<If(Op(V("i"), "==", N(2)), <<BreakStmt>>)>>
    [] exit = "return" -> <<If(Op(V("i"), "==", N(2)), <<Ret(<<V("i")>>)>>)>>
    [] exit = "error" -> <<If(Op(V("i"), "==", N(2)), <<Run("error", <<V("i")>>)>>)>>

LoopOf(kind_, body) ==
  CASE kind_ = "while" ->
         <<Local("n", N(0)),
           WhileStmt(Op(V("n"), "<", N(3)), <<Inc("n"), Local("i", V("n"))>> \o body)>>
    [] kind_ = "repeat" ->
         <<Local("n", N(0)),
           RepeatStmt(<<Inc("n"), Local("i", V("n"))>> \o body, Op(V("i"), ">=", N(3)))>>
    [] kind_ = "numeric" -> <<NumForStmt("i", N(1), N(3), <<>>, body)>>
    [] kind_ = "down" -> <<NumForStmt("i", N(3), N(1), <<UnExpr("-", N(1))>>, body)>>
    [] kind_ = "generic" ->
         <<GenForStmt(<<"i", "v">>, <<V("iter"), V("list"), N(0)>>, body)>>
    [] kind_ = "nested" ->
         <<NumForStmt("i", N(1), N(2), <<>>, <<DoStmt(body), WhileStmt(TrueExpr,
             << Local("i", N(2)) >> \o body \o <<BreakStmt>>)>>)>>

Looping(kind_, captured, exit) ==
  Knowing(<<"print", "error">>,
  << Local("fs", List(<<>>)), Local("list", List(<<N(7), N(8), N(9)>>)),
     LocalFuncStmt("go", Fn(<<"a">>,
       LoopOf(kind_, Keep(captured) \o Leave(exit)) \o <<Ret(<<N(0)>>)>>)),
     LocalFuncStmt("run", Fn(<<>>, <<Local("r", Call("go", <<>>)), Ret(<<V("r")>>)>>)),
     Show(<<Call("pcall", <<V("run")>>)>>), Collecting,
     Show(<<V("unset"), Call("pcall", <<V("run")>>)>>),
     NumForStmt("k", N(1), UnExpr("#", V("fs")), <<>>,
       <<Show(<<CallExpr(At_(V("fs"), V("k")), <<>>),
                CallExpr(At_(V("fs"), V("k")), <<>>)>>)>>) >>)

Loops ==
  Combine(<<"while", "repeat", "numeric", "down", "generic", "nested">>,
          Combine(<<"none", "i", "y">>, <<"end", "break", "return", "error">>,
                  LAMBDA c, x : <<c, x>>),
          LAMBDA k, cx : Looping(k, cx[1], cx[2]))

------------------------------------------------------------------------------
(* Assignments of one to three values to locals, fields, a global and an   *)
(* upvalue, which also appear in each other's targets.                     *)
Targets == <<V("a"), V("b"), V("g"), V("up"), Field("t", "x"), At_(V("t"), V("a")),
             At_(V("b"), V("a"))>>
Sources == <<<<V("b"), V("a")>>, <<N(5), Call("two", <<>>)>>, <<Call("two", <<>>)>>,
             <<VarargExpr>>, <<V("t"), NilExpr, Call("two", <<>>)>>,
             <<ParenExpr(Call("two", <<>>))>>>>
Assigning(ts, es) ==
  Knowing(<<"print", "f">>,
  << Local("up", N(4)), LocalFuncStmt("two", Fn(<<>>, <<Ret(<<N(6), N(7)>>)>>)),
     Local("f", FuncExpr(<<"t", "b">>, IF es = <<VarargExpr>> THEN "dots" ELSE "no",
       << Local("a", N(1)), LocalStmt(<<"t0", "b0">>, <<V("t"), V("b")>>),
          AssignStmt(ts, es),
          Show(<<V("a"), V("b"), V("g"), V("up"), Field("t0", "x"), At_(V("t0"), N(1)),
                 At_(V("b0"), N(1)), Op(V("a"), "==", V("t0")), Op(V("g"), "==", V("b0"))>>) >>)),
     Run("pcall", <<Fn(<<>>, <<Run("f", <<List(<<>>), List(<<>>), N(8), N(9)>>)>>)>>),
     Show(<<V("up")>>) >>)
Pairs == SelectSeq(Combine([n \in 1..7 |-> n], [n \in 1..7 |-> n], LAMBDA m, n : <<m, n>>),
                   LAMBDA mn : mn[1] < mn[2] \/ (mn[1] > 5 /\ mn[1] # mn[2]))
Several ==
  Mapped(Pairs, LAMBDA mn : <<Targets[mn[1]], Targets[mn[2]]>>)
    \o Mapped(SubSeq(Targets, 1, 5), LAMBDA p : <<At_(V("t"), V("a")), p, At_(V("b"), V("a"))>>)
Assignments == Combine(Several, Sources, Assigning)

------------------------------------------------------------------------------
(* One program per feature.                                                *)
Features == <<
  \* two closures share a variable that outlives its frame
  << LocalFuncStmt("mk", Fn(<<>>, <<
       Local("n", N(0)),
       Ret(<<Fn(<<>>, <<Inc("n"), Ret(<<V("n")>>)>>), Fn(<<>>, <<Ret(<<V("n")>>)>>)>>)>>)),
     LocalStmt(<<"inc", "get">>, <<Call("mk", <<>>)>>),
     Run("inc", <<>>), Collecting, Show(<<Call("inc", <<>>), Call("get", <<>>)>>) >>,

  \* an upvalue of an upvalue, written while the variable is still on the stack
  << Local("x", N(1)),
     Local("f", Fn(<<>>, <<Local("g", Fn(<<>>, <<Inc("x")>>)), Run("g", <<>>),
                           Ret(<<V("x")>>)>>)),
     Show(<<Call("f", <<>>), V("x")>>), Inc("x"), Show(<<Call("f", <<>>), V("x")>>) >>,

  \* recursion, a tail call that keeps its frame, and a tail call of a host function
  << LocalFuncStmt("fact", Fn(<<"n">>, <<
       If(Op(V("n"), "<=", N(1)), <<Ret(<<N(1)>>)>>),
       Ret(<<Op(V("n"), "*", Call("fact", <<Op(V("n"), "-", N(1))>>))>>)>>)),
     LocalFuncStmt("sum", Fn(<<"n", "s">>, <<
       Local("get", Fn(<<>>, <<Ret(<<V("n")>>)>>)),
       If(Op(V("n"), "==", N(0)), <<Ret(<<V("s"), ParenExpr(Call("get", <<>>))>>)>>),
       Ret(<<Call("sum", <<Op(V("n"), "-", N(1)), Op(V("s"), "+", Call("get", <<>>))>>)>>)>>)),
     Local("host", Dots(<<>>, <<Ret(<<Call("pcall", <<V("error"), VarargExpr>>)>>)>>)),
     Local("host1", Fn(<<"e">>, <<Ret(<<Call("pcall", <<V("error"), V("e")>>)>>)>>)),
     Show(<<Call("fact", <<N(3)>>)>>), Show(<<Call("sum", <<N(3), N(0)>>)>>),
     Show(<<Call("host", <<N(4)>>)>>), Show(<<Call("host1", <<N(5)>>)>>) >>,

  \* extra arguments: all, one, some, in the middle, in the table "arg", none
  << Local("all", Dots(<<"a">>, <<Ret(<<V("a"), VarargExpr>>)>>)),
     Local("some", Dots(<<>>, <<LocalStmt(<<"p", "q", "r">>, <<VarargExpr>>),
       Ret(<<V("r"), V("p"), ParenExpr(VarargExpr)>>)>>)),
     Local("mid", Dots(<<"a">>, <<Ret(<<VarargExpr, V("a")>>)>>)),
     Local("old", FuncExpr(<<"a">>, "arg", <<
       Ret(<<Field("arg", "n"), At_(V("arg"), N(1)), V("a")>>)>>)),
     Local("new", Dots(<<>>, <<Local("v", VarargExpr), Ret(<<V("arg"), V("v")>>)>>)),
     Show(<<Call("all", <<>>)>>), Show(<<Call("all", <<N(1), N(2), N(3)>>)>>),
     Show(<<Call("some", <<N(1), N(2)>>)>>), Show(<<Call("mid", <<N(1), N(2), N(3)>>)>>),
     Show(<<Call("old", <<N(1), N(2), N(3)>>), Call("new", <<N(4), N(5)>>)>>),
     Show(<<VarargExpr>>), Show(<<List(<<VarargExpr>>), N(1)>>) >>,

  \* methods, chains of fields and the three forms of arguments
  << Local("o", TableExpr(<<TableItem(<<S("n")>>, N(1)), TableItem(<<N(2)>>, N(5)),
                            TableItem(<<V("print")>>, TrueExpr)>>)),
     FuncStmt(Field("o", "add"), TRUE, Fn(<<"self", "k">>, <<
       AssignStmt(<<Field("self", "n")>>, <<Op(Field("self", "n"), "+", V("k"))>>),
       Ret(<<V("self")>>)>>)),
     FuncStmt(Field("o", "get"), FALSE, Fn(<<"p", "q">>, <<Ret(<<At_(V("p"), V("q"))>>)>>)),
     FuncStmt(V("kind"), FALSE, Fn(<<"p">>, <<Ret(<<V("p"), N(0)>>)>>)),
     Local("twice", Fn(<<"p">>, <<
       Ret(<<At_(Method(Method(V("p"), "add", <<N(2)>>), "add", <<N(3)>>), S("n"))>>)>>)),
     Local("read", Fn(<<>>, <<Ret(<<Method(V("o"), "get", <<S("n")>>), N(9)>>)>>)),
     Show(<<Call("twice", <<V("o")>>), Call("read", <<>>)>>),
     Show(<<At_(V("o"), N(2)), At_(V("o"), V("print"))>>),
     Show(<<Call("kind", <<S("s")>>), Call("kind", <<List(<<N(1)>>)>>)>>),
     CallStmt(CallExpr(Fn(<<"p">>, <<Show(<<V("p")>>)>>), <<N(1)>>)),
     Run("pcall", <<Fn(<<>>, <<CallStmt(Method(V("o"), "none", <<>>))>>)>>) >>,

  \* constructors: batches, keys in between, nils, a call and extra arguments at the end
  << Local("two", Fn(<<>>, <<Ret(<<N(8), N(9)>>)>>)),
     Local("t", List(<<N(1), N(2), N(3), N(4), Call("two", <<>>)>>)),
     Local("u", TableExpr(<<TableItem(<<>>, Call("two", <<>>)), TableItem(<<S("k")>>, N(5)),
       TableItem(<<>>, NilExpr), TableItem(<<>>, N(7)), TableItem(<<>>, Call("two", <<>>)),
       TableItem(<<Op(N(4), "+", N(5))>>, N(6))>>)),
     Local("w", List(<<N(1), ParenExpr(Call("two", <<>>))>>)),
     Local("e", Dots(<<>>, <<Ret(<<List(<<N(1), N(2), N(3), VarargExpr>>)>>)>>)),
     Show(<<UnExpr("#", V("t")), At_(V("t"), N(3)), At_(V("t"), N(5)), At_(V("t"), N(6))>>),
     Show(<<At_(V("u"), N(1)), At_(V("u"), N(2)), At_(V("u"), N(3)), At_(V("u"), N(4)),
            At_(V("u"), N(9)), Field("u", "k")>>),
     Show(<<UnExpr("#", V("w")), UnExpr("#", Call("e", <<>>)),
            UnExpr("#", Call("e", <<N(4), N(5)>>))>>) >>,

  \* precedence and folding
  << Local("f", Fn(<<"x", "y">>, <<
     Show(<<Op(Op(N(2), "+", N(3)), "*", V("x")), Op(N(2), "+", Op(N(3), "*", V("x"))),
            Op(Op(V("x"), "-", N(1)), "-", N(1)), Op(V("x"), "-", Op(N(1), "-", N(1)))>>),
     Show(<<Op(V("x"), "^", Op(V("y"), "^", N(1))), Op(Op(V("x"), "^", V("y")), "^", N(2)),
            UnExpr("-", Op(V("x"), "^", N(2))), Op(UnExpr("-", V("x")), "^", N(2)),
            Op(N(2), "^", N(3)), Op(V("y"), "%", UnExpr("-", N(2)))>>),
     Show(<<Op(N(6), "/", V("x")), Op(N(6), "/", N(3)), Op(N(1), "-", V("x")),
            Op(N(7), "%", N(4)), UnExpr("-", UnExpr("-", V("x"))), Op(N(1), ">", V("x"))>>)>>)),
     Local("g", Fn(<<"x", "y">>, <<
     Show(<<Op(Not(V("x")), "==", V("y")), Not(Op(V("x"), "==", V("y"))),
            Op(Op(V("x"), "<", V("y")), "==", TrueExpr),
            Op(V("x"), "or", Op(V("y"), "and", FalseExpr)),
            Op(Op(V("x"), "or", V("y")), "and", FalseExpr)>>)>>)),
     Local("x", N(2)), Local("y", N(3)), Run("f", <<V("x"), V("y")>>), Run("g", <<V("x"), V("y")>>),
     Show(<<Op(S("a"), "..", Op(N(1), "..", V("x"))), Op(Op(S("a"), "..", N(1)), "..", V("x")),
            Op(Op(V("x"), "..", V("y")), "==", S("23")),
            Op(Op(V("x"), "+", N(1)), "..", Op(V("y"), "*", N(2))),
            Op(S("p"), "~=", S("q"))>>) >>,

  \* more constants than an operand can name
  << Local("t", List(<<>>)),
     LocalStmt(<<"a", "b", "c">>, <<N(10), N(20), N(30)>>),
     AssignStmt(<<Field("t", "p")>>, <<N(40)>>),
     AssignStmt(<<Field("t", "q")>>, <<Op(V("a"), "+", N(50))>>),
     AssignStmt(<<Field("t", "r"), V("late")>>, <<Op(N(60), "-", V("b")), S("s")>>),
     Show(<<Field("t", "p"), Field("t", "q"), Field("t", "r"), V("late"),
            Op(V("c"), "==", N(30)), Op(Op(V("c"), "<", N(31)), "and", Op(N(32), "*", V("a")))>>),
     Show(<<List(<<S("u"), N(5)>>), TableExpr(<<TableItem(<<S("w")>>, N(6))>>),
            Op(S("v"), "..", N(7))>>) >>,

  \* an error under a captured variable: the closure keeps what it had
  << Local("keep", NilExpr),
     Local("bad", Fn(<<"n">>, <<
       Let("keep", Fn(<<>>, <<Inc("n"), Ret(<<V("n")>>)>>)),
       Local("inner", Fn(<<>>, <<Local("z", V("n")),
         Let("keep2", Fn(<<>>, <<Ret(<<V("z")>>)>>)), Run("error", <<V("z")>>)>>)),
       Run("inner", <<>>)>>)),
     Show(<<Call("pcall", <<V("bad"), N(5)>>)>>),
     LocalStmt(<<"p", "q", "r", "s">>, <<>>), Collecting,
     Show(<<Call("keep", <<>>), Call("keep", <<>>), Call("keep2", <<>>)>>),
     Show(<<Call("pcall", <<N(1)>>)>>), Show(<<Call("pcall", <<V("error")>>)>>),
     Show(<<Call("pcall", <<Fn(<<>>, <<Ret(<<N(1), N(2)>>)>>)>>), N(3)>>),
     Show(<<Call("pcall", <<Fn(<<>>, <<Show(<<Op(N(1), "+", NilExpr)>>)>>)>>)>>),
     Show(<<Call("pcall", <<Fn(<<>>, <<Show(<<Op(S("a"), "..", NilExpr)>>)>>)>>)>>),
     Show(<<Call("pcall", <<Fn(<<>>, <<NumForStmt("i", NilExpr, N(1), <<>>, <<>>)>>)>>)>>),
     Show(<<Call("pcall", <<Fn(<<>>, <<AssignStmt(<<At_(V("pcall"), N(1))>>, <<N(1)>>)>>)>>)>>),
     Run("bad", <<N(6)>>) >>,

  \* a repeat whose condition captures a variable of the body, and calls in it
  << Local("f", NilExpr), Local("n", N(0)),
     RepeatStmt(<<Local("y", Op(V("n"), "+", N(1))),
                  Let("f", Fn(<<>>, <<Ret(<<V("y")>>)>>)), Let("n", V("y"))>>,
                Op(Call("f", <<>>), ">=", N(2))),
     RepeatStmt(<<Local("y", V("n")), Inc("n"),
                  If(Op(V("n"), "==", N(6)), <<BreakStmt>>)>>,
                CallExpr(Fn(<<>>, <<Ret(<<Op(V("y"), ">", N(9))>>)>>), <<>>)),
     Show(<<V("n"), Call("f", <<>>)>>) >>,

  \* an iterator written in Lua, one that fails, one that is no function
  << Local("upto", Fn(<<"m">>, <<Ret(<<Fn(<<"s", "c">>, <<
       If(Op(V("c"), "<", V("s")), <<Ret(<<Op(V("c"), "+", N(1)), V("m")>>)>>)>>),
       V("m"), N(0)>>)>>)),
     GenForStmt(<<"i">>, <<Call("upto", <<N(2)>>)>>, <<Show(<<V("i")>>), Collecting>>),
     GenForStmt(<<"i", "j", "k">>, <<Call("upto", <<N(1)>>)>>,
                <<Show(<<V("i"), V("j"), V("k")>>)>>),
     Show(<<Call("pcall", <<Fn(<<>>, <<GenForStmt(<<"i">>, <<V("error"), N(7)>>, <<>>)>>)>>)>>),
     Show(<<Call("pcall", <<Fn(<<>>, <<GenForStmt(<<"i">>,
       <<Fn(<<"s">>, <<Run("error", <<V("s")>>)>>), N(8)>>, <<>>)>>)>>)>>),
     Show(<<Call("pcall", <<Fn(<<>>, <<GenForStmt(<<"i">>, <<NilExpr>>, <<>>)>>)>>)>>) >>,

  \* a frame whose variable is captured, called again while the stack grows under it
  << LocalFuncStmt("f", Fn(<<"n">>, <<
       Local("x", V("n")), Local("g", Fn(<<"k">>, <<Let("x", Op(V("x"), "+", V("k"))), Collecting>>)),
       LocalStmt(<<"y", "z">>, <<Op(V("n"), "*", N(2)), List(<<V("n")>>)>>), Run("g", <<V("y")>>),
       If(Op(V("n"), ">", N(0)), <<Local("r", Call("f", <<Op(V("n"), "-", N(1))>>)),
                                   Run("g", <<V("r")>>)>>),
       Run("g", <<At_(V("z"), N(1))>>), Ret(<<V("x")>>)>>)),
     Show(<<Call("f", <<N(3)>>)>>) >>,

  \* compiled functions call each other and return none, one, two, three results
  \* with no variable captured, while the stack grows
  << FuncStmt(V("none"), FALSE, Fn(<<"p">>, <<Local("q", V("p")), Let("g", V("q"))>>)),
     FuncStmt(V("one"), FALSE, Fn(<<"p">>, <<Local("q", Op(V("p"), "*", N(3))), Ret(<<V("q")>>)>>)),
     FuncStmt(V("two"), FALSE, Fn(<<"p">>, <<Ret(<<Op(V("p"), "+", N(1)), V("p")>>)>>)),
     FuncStmt(V("three"), FALSE, Fn(<<"p">>, <<Ret(<<V("p"), N(2), Op(V("p"), "-", N(1))>>)>>)),
     FuncStmt(V("deep"), FALSE, Fn(<<"n">>, <<
       If(Op(V("n"), "<=", N(0)), <<Ret(<<N(0)>>)>>),
       Local("r", Call("deep", <<Op(V("n"), "-", N(1))>>)),
       LocalStmt(<<"a", "b">>, <<Call("two", <<V("n")>>)>>),
       LocalStmt(<<"c", "d", "e">>, <<Call("three", <<V("a")>>)>>),
       Run("none", <<V("d")>>), Local("f", Call("one", <<V("e")>>)),
       Ret(<<Op(Op(Op(V("r"), "+", V("b")), "*", V("c")), "-", Op(V("f"), "*", V("g")))>>)>>)),
     FuncStmt(V("join"), FALSE, Fn(<<"p", "q">>, <<
       Local("r", Op(V("p"), "..", V("q"))), Ret(<<V("r")>>)>>)),
     Show(<<Call("deep", <<N(3)>>), Op(Call("join", <<S("a"), N(2)>>), "==", S("a2"))>>),
     Show(<<Call("pcall", <<V("join"), N(1)>>)>>) >>,

  \* shadowing, blocks that close what they hold, a branch for each clause
  << Local("x", N(1)), Local("f", NilExpr),
     DoStmt(<<Local("x", Op(V("x"), "+", N(1))), Let("f", Fn(<<>>, <<Inc("x"), Ret(<<V("x")>>)>>)),
              DoStmt(<<Local("x", Op(V("x"), "+", N(1))), Show(<<V("x")>>)>>)>>),
     LocalStmt(<<"u", "v">>, <<N(0)>>),
     Show(<<V("x"), V("u"), V("v"), Call("f", <<>>), Call("f", <<>>)>>),
     LocalFuncStmt("cls", Fn(<<"n">>, <<
       IfStmt(<<IfClause(Op(V("n"), "==", N(1)), <<Local("a", N(10)), Ret(<<V("a")>>)>>),
                IfClause(Op(V("n"), ">", N(1)), <<Ret(<<N(20), V("n")>>)>>)>>,
              << <<Local("a", N(30)), Let("f", Fn(<<>>, <<Ret(<<V("a")>>)>>))>> >>),
       Ret(<<>>)>>)),
     Show(<<Call("cls", <<N(1)>>), Call("cls", <<N(2)>>)>>),
     Show(<<Call("cls", <<N(0)>>)>>), Show(<<Call("f", <<>>)>>),
     IfStmt(<<IfClause(NilExpr, <<Show(<<N(1)>>)>>), IfClause(N(0), <<Show(<<N(2)>>)>>)>>, <<>>),
     WhileStmt(Not(Op(V("x"), ">", N(2))), <<Inc("x"), If(Not(V("x")), <<>>)>>),
     Show(<<V("x"), Call("print", <<N(3)>>)>>) >>
>>

------------------------------------------------------------------------------
(* Native code calling native code: the same call executed often enough    *)
(* for its cache to know the callee.                                       *)
Direct == <<
  \* a call within a call, deeper than direct calls may go, with the callee in an
  \* upvalue, and again when the cache knows it; then with what it cannot compute
  << LocalFuncStmt("fib", Fn(<<"n">>, <<
       If(Op(V("n"), "<", N(2)), <<Ret(<<V("n")>>)>>),
       Local("a", Call("fib", <<Op(V("n"), "-", N(1))>>)),
       Local("b", Call("fib", <<Op(V("n"), "-", N(2))>>)),
       Ret(<<Op(V("a"), "+", V("b"))>>)>>)),
     Show(<<Call("fib", <<N(4)>>), Call("fib", <<N(1)>>)>>), Show(<<Call("fib", <<N(3)>>)>>),
     Show(<<Call("pcall", <<V("fib"), V("unset")>>)>>) >>,

  \* an element that is not there, found missing two calls down; loops in the callee
  << LocalFuncStmt("at", Fn(<<"t", "i">>, <<
       Local("k", V("i")), Local("v", At_(V("t"), V("k"))), Ret(<<V("v")>>)>>)),
     LocalFuncStmt("all", Fn(<<"t", "n">>, <<
       Local("s", N(0)),
       NumForStmt("i", N(1), V("n"), <<>>, <<
         Local("v", Call("at", <<V("t"), V("i")>>)),
         IfStmt(<<IfClause(V("v"), <<Let("s", Op(V("s"), "+", V("v")))>>)>>,
                << <<Let("s", Op(V("s"), "*", N(2)))>> >>)>>),
       Ret(<<V("s")>>)>>)),
     LocalFuncStmt("both", Fn(<<"p", "q", "n">>, <<
       Local("x", Call("all", <<V("p"), V("n")>>)),
       Local("y", Op(Call("all", <<V("q"), V("n")>>), "or", V("x"))),
       Ret(<<Op(V("x"), "-", V("y"))>>)>>)),
     Show(<<Call("all", <<List(<<N(4), N(5)>>), N(3)>>)>>),
     Show(<<Call("both", <<List(<<N(1), N(2)>>), List(<<N(3), N(4)>>), N(2)>>)>>),
     Show(<<Call("both", <<List(<<N(1), N(2), N(6)>>), List(<<N(3), N(4)>>), N(3)>>)>>),
     Show(<<Call("pcall", <<Fn(<<>>, <<Show(<<Call("both", <<N(1), N(2), V("unset")>>)>>)>>)>>)>>) >>,

  \* a site with one callee, then with another, with another closure of the same
  \* function, and with a host function
  << LocalFuncStmt("neg", Fn(<<"x">>, <<
       Local("z", N(0)), Local("r", Op(V("z"), "-", V("x"))), Ret(<<V("r")>>)>>)),
     LocalFuncStmt("mk", Fn(<<"k">>, <<
       Ret(<<Fn(<<"x">>, <<Local("r", Op(V("x"), "*", V("k"))), Ret(<<V("r")>>)>>)>>)>>)),
     LocalFuncStmt("h", Fn(<<>>, <<>>)), LocalFuncStmt("use", Fn(<<"g">>, <<Let("h", V("g"))>>)),
     LocalFuncStmt("apply", Fn(<<"g", "x">>, <<
       Run("use", <<V("g")>>), Local("r", Call("h", <<V("x")>>)), Ret(<<V("r")>>)>>)),
     LocalStmt(<<"m2", "m3">>, <<Call("mk", <<N(2)>>), Call("mk", <<N(3)>>)>>),
     LocalFuncStmt("run", Fn(<<>>, <<
       Local("r", Call("apply", <<V("m2"), N(1)>>)), Local("s", Call("apply", <<V("m3"), N(1)>>)),
       Ret(<<Op(V("r"), "+", V("s"))>>)>>)),
     Show(<<Call("run", <<>>), Call("run", <<>>)>>),
     Show(<<Call("apply", <<V("print"), N(7)>>)>>),
     Show(<<Call("apply", <<V("neg"), N(2)>>), Call("apply", <<V("m3"), N(2)>>)>>),
     Show(<<Call("run", <<>>)>>) >>,

  \* fewer and more results than are wanted, a parameter that is written, conditions
  \* and strings compared in the callee, a variable shared with a closure
  << LocalFuncStmt("pair", Fn(<<"x">>, <<Local("y", Op(V("x"), "+", N(1))), Ret(<<V("x"), V("y")>>)>>)),
     LocalFuncStmt("down", Fn(<<"x">>, <<
       Let("x", Op(V("x"), "-", N(1))), Local("y", V("x")), Ret(<<V("y")>>)>>)),
     LocalFuncStmt("pick", Fn(<<"a", "b">>, <<
       Local("r", Op(Op(Op(V("a"), "==", V("b")), "and", V("a")), "or", Op(V("b"), "<", N(3)))),
       Ret(<<V("r")>>)>>)),
     Local("c", N(0)), LocalFuncStmt("count", Fn(<<"k">>, <<Let("c", Op(V("c"), "+", V("k"))), Ret(<<V("c")>>)>>)),
     LocalFuncStmt("go", Fn(<<"x">>, <<
       Local("p", Call("pair", <<V("x")>>)), LocalStmt(<<"q", "r">>, <<Call("pair", <<V("p")>>)>>),
       LocalStmt(<<"d", "e">>, <<Call("down", <<V("r")>>)>>), Run("pair", <<V("d")>>),
       LocalStmt(<<"u", "v", "w">>, <<Call("pair", <<V("d")>>)>>),
       Local("k", Call("pick", <<V("p"), V("u")>>)), Local("n", Call("count", <<V("d")>>)),
       Show(<<V("p"), V("q"), V("r"), V("d"), V("e"), V("u"), V("v"), V("w"), V("k"), V("n")>>),
       Ret(<<V("n"), V("k")>>)>>)),
     Show(<<Call("go", <<N(1)>>)>>), Show(<<Call("go", <<N(5)>>)>>),
     Show(<<Call("pcall", <<Fn(<<>>, <<Show(<<Call("go", <<V("unset")>>)>>)>>)>>)>>),
     LocalFuncStmt("ask", Fn(<<"a", "b">>, <<
       Local("c", V("b")), Local("r", Call("pick", <<V("a"), V("c")>>)), Ret(<<V("r")>>)>>)),
     Show(<<Call("ask", <<N(1), N(2)>>), Call("ask", <<S("a"), S("a")>>)>>),
     Show(<<Call("pcall", <<Fn(<<>>, <<Show(<<Call("ask", <<S("a"), S("b")>>)>>)>>)>>)>>) >>,

  \* a function that ends by calling itself, with fewer arguments too, one that does
  \* so with a variable captured, and one that calls another
  << LocalFuncStmt("sum", Fn(<<"n", "s">>, <<
       If(Op(V("n"), "==", N(0)), <<Ret(<<V("s")>>)>>),
       If(Op(V("n"), "==", N(3)), <<Ret(<<Call("sum", <<Op(V("n"), "-", N(1))>>)>>)>>),
       Local("z", Op(Op(V("s"), "or", N(9)), "+", V("n"))),
       Ret(<<Call("sum", <<Op(V("n"), "-", N(1)), V("z")>>)>>)>>)),
     LocalFuncStmt("walk", Fn(<<"n", "f">>, <<
       If(Op(V("n"), "==", N(0)), <<Ret(<<CallExpr(V("f"), <<>>)>>)>>),
       Ret(<<Call("walk", <<Op(V("n"), "-", N(1)), Fn(<<>>, <<Ret(<<V("n")>>)>>)>>)>>)>>)),
     LocalFuncStmt("other", Fn(<<"n">>, <<
       Local("k", N(1)), Ret(<<Call("sum", <<V("n"), V("k")>>)>>)>>)),
     Show(<<Call("sum", <<N(2), N(0)>>), Call("sum", <<N(4), N(0)>>)>>),
     Show(<<Call("walk", <<N(2)>>), Call("other", <<N(2)>>)>>) >>
>>

------------------------------------------------------------------------------
(* Functions small enough for a template, with what suits it and what does *)
(* not.                                                                    *)
Small(name, params, body) == LocalFuncStmt(name, Fn(params, body))
Try(e) == Show(<<Call("pcall", <<Fn(<<>>, <<Show(<<e>>)>>)>>)>>)

SmallValues == <<
  << Local("u", N(4)),
     Small("none", <<>>, <<>>), Small("id", <<"x">>, <<Ret(<<V("x")>>)>>),
     Small("snd", <<"x", "y">>, <<Local("z", V("y")), Ret(<<V("z")>>)>>),
     Small("five", <<>>, <<Ret(<<N(5)>>)>>), Small("yes", <<>>, <<Ret(<<TrueExpr>>)>>),
     Small("no", <<>>, <<Ret(<<FalseExpr>>)>>), Small("nothing", <<>>, <<Ret(<<NilExpr>>)>>),
     Small("get", <<>>, <<Ret(<<V("u")>>)>>), Small("set", <<"x">>, <<Let("u", V("x"))>>),
     Small("gget", <<>>, <<Ret(<<V("g")>>)>>), Small("gset", <<"x">>, <<Let("g", V("x"))>>),
     Small("not_", <<"x">>, <<Ret(<<Not(V("x"))>>)>>),
     Small("table", <<>>, <<Ret(<<List(<<>>)>>)>>),
     Show(<<Call("id", <<N(1)>>), Call("snd", <<N(1), N(2)>>), Call("five", <<>>),
            Call("yes", <<>>), Call("no", <<>>), Call("nothing", <<>>), Call("none", <<>>)>>),
     Show(<<Call("get", <<>>), Call("set", <<N(6)>>), Call("get", <<>>), V("u"),
            Call("gget", <<>>), Call("gset", <<N(7)>>), Call("gget", <<>>), V("g")>>),
     Show(<<Call("not_", <<N(1)>>), Call("not_", <<V("unset")>>), Call("table", <<>>)>>) >>,

  \* arithmetic, on numbers and not, in both operations of a chain
  << Small("add", <<"x", "y">>, <<Ret(<<Op(V("x"), "+", V("y"))>>)>>),
     Small("half", <<"x">>, <<Ret(<<Op(V("x"), "/", N(2))>>)>>),
     Small("sq", <<"x">>, <<Ret(<<Op(V("x"), "^", N(2))>>)>>),
     Small("from", <<"x">>, <<Ret(<<Op(N(9), "-", V("x"))>>)>>),
     Small("neg", <<"x">>, <<Ret(<<UnExpr("-", V("x"))>>)>>),
     Small("len", <<"x">>, <<Ret(<<UnExpr("#", V("x"))>>)>>),
     Small("lin", <<"x">>, <<Ret(<<Op(Op(V("x"), "*", N(2)), "+", N(3))>>)>>),
     Small("dot", <<"x", "y">>, <<Ret(<<Op(Op(V("x"), "*", N(2)), "+", V("y"))>>)>>),
     Show(<<Call("add", <<N(1), N(2)>>), Call("half", <<N(6)>>), Call("sq", <<N(3)>>),
            Call("from", <<N(2)>>), Call("neg", <<N(5)>>), Call("len", <<List(<<N(1), N(2)>>)>>),
            Call("lin", <<N(4)>>), Call("dot", <<N(4), N(5)>>)>>),
     Try(Call("add", <<N(1)>>)), Try(Call("half", <<>>)), Try(Call("sq", <<>>)),
     Try(Call("from", <<>>)), Try(Call("neg", <<>>)), Try(Call("len", <<>>)),
     Try(Call("lin", <<>>)), Try(Call("dot", <<N(1)>>)), Try(Call("dot", <<TrueExpr, N(1)>>)) >>,

  \* comparisons made values; loops to a constant, a local and an upvalue
  << Local("u", N(2)),
     Small("eq", <<"x", "y">>, <<Ret(<<Op(V("x"), "==", V("y"))>>)>>),
     Small("ne", <<"x", "y">>, <<Ret(<<Op(V("x"), "~=", V("y"))>>)>>),
     Small("lt", <<"x", "y">>, <<Ret(<<Op(V("x"), "<", V("y"))>>)>>),
     Small("ge", <<"x">>, <<Ret(<<Op(V("x"), ">=", N(2))>>)>>),
     Small("spin", <<>>, <<NumForStmt("i", N(1), N(3), <<>>, <<>>)>>),
     Small("upto", <<"n">>, <<NumForStmt("i", N(1), V("n"), <<>>, <<>>)>>),
     Small("uptou", <<>>, <<NumForStmt("i", N(1), V("u"), <<>>, <<>>)>>),
     Small("double", <<>>, <<Local("s", N(3)),
       NumForStmt("i", N(1), N(6), <<N(2)>>, <<Let("s", Op(V("s"), "*", N(2)))>>), Ret(<<V("s")>>)>>),
     Small("never", <<>>, <<Local("s", N(1)),
       NumForStmt("i", N(2), N(1), <<>>, <<Let("s", Op(V("s"), "*", N(2)))>>), Ret(<<V("s")>>)>>),
     Small("twice", <<>>, <<Local("s", N(1)),
       NumForStmt("i", N(1), N(3), <<>>,
         <<Let("s", Op(V("s"), "*", N(3))), Let("s", Op(V("s"), "-", N(1)))>>), Ret(<<V("s")>>)>>),
     Show(<<Call("eq", <<N(1), N(1)>>), Call("eq", <<N(1)>>), Call("ne", <<S("a"), S("a")>>),
            Call("lt", <<N(1), N(2)>>), Call("lt", <<N(2), N(2)>>), Call("ge", <<N(2)>>)>>),
     Show(<<Call("spin", <<>>), Call("upto", <<N(2)>>), Call("uptou", <<>>),
            Call("double", <<>>), Call("never", <<>>), Call("twice", <<>>)>>),
     Try(Call("lt", <<N(1)>>)), Try(Call("ge", <<>>)), Try(Call("upto", <<TrueExpr>>)),
     Let("u", NilExpr), Try(Call("uptou", <<>>)) >>,

  \* a table read and written at an element, a field and a variable key: the field
  \* that is there, one that is not, and no table
  << Small("first", <<"t">>, <<Ret(<<At_(V("t"), N(1))>>)>>),
     Small("field", <<"t">>, <<Ret(<<At_(V("t"), S("n"))>>)>>),
     Small("at", <<"t", "k">>, <<Ret(<<At_(V("t"), V("k"))>>)>>),
     Small("put1", <<"t", "v">>, <<AssignStmt(<<At_(V("t"), N(1))>>, <<V("v")>>)>>),
     Small("putn", <<"t", "v">>, <<AssignStmt(<<At_(V("t"), S("n"))>>, <<V("v")>>)>>),
     Small("put", <<"t", "k", "v">>, <<AssignStmt(<<At_(V("t"), V("k"))>>, <<V("v")>>)>>),
     LocalStmt(<<"t", "e">>, <<TableExpr(<<TableItem(<<>>, N(8)), TableItem(<<S("n")>>, N(9))>>),
                              List(<<>>)>>),
     Show(<<Call("first", <<V("t")>>), Call("field", <<V("t")>>), Call("at", <<V("t"), S("n")>>),
            Call("first", <<V("e")>>), Call("field", <<V("e")>>), Call("at", <<V("e"), N(1)>>)>>),
     Run("put1", <<V("t"), N(1)>>), Run("putn", <<V("t"), V("e")>>), Run("put", <<V("t"), N(2), N(2)>>),
     Run("put1", <<V("e"), List(<<>>)>>), Run("putn", <<V("e"), N(4)>>), Run("put", <<V("e"), N(2), N(5)>>),
     Collecting,
     Show(<<Call("first", <<V("t")>>), At_(V("t"), N(2)), Op(Call("field", <<V("t")>>), "==", V("e")),
            Call("at", <<V("e"), S("n")>>), At_(V("e"), N(2))>>),
     Run("put1", <<V("t"), NilExpr>>), Run("putn", <<V("t"), NilExpr>>), Run("put", <<V("t"), N(2), NilExpr>>),
     Show(<<Call("first", <<V("t")>>), Call("field", <<V("t")>>), UnExpr("#", V("t"))>>),
     Try(Call("first", <<>>)), Try(Call("field", <<N(1)>>)), Try(Call("at", <<>>)),
     Try(Call("put1", <<>>)), Try(Call("putn", <<N(1)>>)), Try(Call("put", <<V("t")>>)) >>
>>

(* A call with n arguments, numbers and a variable by turns, made for      *)
(* nothing, one, two or three values, or to return what it returns.        *)
ArgsOf(n) == [k \in 1..n |-> IF k % 2 = 1 THEN N(k) ELSE V("x")]
UsesOf(call) ==
  << <<CallStmt(call)>>, <<Local("r", call), Ret(<<V("r")>>)>>,
     <<LocalStmt(<<"p", "q">>, <<call>>), Ret(<<V("p"), V("q")>>)>>,
     <<LocalStmt(<<"p", "q", "s">>, <<call>>), Ret(<<V("p"), V("q"), V("s")>>)>>,
     <<LocalStmt(<<"p", "q">>, <<call>>)>>, <<Ret(<<call>>)>> >>
UseNames == <<"void", "one", "two", "three", "drop", "tail">>
ManyArgs == <<"a", "b", "c", "d", "e", "f", "h">>

(* The callee is an upvalue; functions that are called have a template,    *)
(* are interpreted, are the host's, or are none.                           *)
Calls(n) ==
  LET bodies == UsesOf(Call("u", ArgsOf(n)))
      asked(f) == [k \in 1..6 |-> Call(UseNames[k], <<f, N(20)>>)]
  IN << LocalFuncStmt("u", Fn(<<>>, <<>>)) >>
       \o [k \in 1..6 |-> Small(UseNames[k], <<"g", "x">>, bodies[k])]
       \o << Small("last", SubSeq(ManyArgs, 1, n), <<Ret(<<V(IF n = 0 THEN "u" ELSE ManyArgs[n])>>)>>),
             Local("all", Dots(<<>>, <<Ret(<<VarargExpr>>)>>)),
             Let("u", V("last")), Show(asked(V("last"))), Let("u", V("all")), Show(asked(V("all"))),
             Let("u", V("print")), Show(asked(V("print"))), Let("u", NilExpr) >>
       \o [k \in 1..6 |-> Try(asked(V("u"))[k])]

(* The same for a method of a parameter or an upvalue.                     *)
Methods(n, up) ==
  LET bodies == UsesOf(Method(V(IF up THEN "u" ELSE "o"), "m", ArgsOf(n)))
      asked(o) == [k \in 1..6 |-> Call(UseNames[k], <<o, N(20)>>)]
      object(f) == TableExpr(<<TableItem(<<S("m")>>, f)>>)
  IN << Local("u", NilExpr) >>
       \o [k \in 1..6 |-> Small(UseNames[k], <<"o", "x">>, bodies[k])]
       \o << Local("last", object(Fn(<<"self">> \o SubSeq(ManyArgs, 1, n),
                           <<Ret(<<V(IF n = 0 THEN "self" ELSE ManyArgs[n])>>)>>))),
             Local("all", object(Dots(<<"self">>, <<Ret(<<VarargExpr>>)>>))),
             Let("u", V("last")), Show(asked(V("last"))), Let("u", V("all")), Show(asked(V("all"))),
             Let("u", List(<<>>)) >>
       \o [k \in 1..6 |-> Try(asked(V("u"))[k])]
       \o << Let("u", NilExpr), Try(asked(V("u"))[1]) >>

Smalls ==
  Mapped(<<0, 1, 2, 3, 4, 5, 6, 7>>, Calls)
    \o Combine(<<0, 1, 2, 3, 4, 5>>, <<FALSE, TRUE>>, Methods)

(* Functions that are replayed: each hands all the results of a call on,   *)
(* which native code does not do.                                          *)
Replayed(name, params, body) ==
  Small(name, params, <<Show(<<Call("id", <<V(params[1])>>)>>)>> \o body)
Id == Small("id", <<"x">>, <<Ret(<<V("x")>>)>>)

Replays == <<
  \* every kind of value to return, on its own and beside others
  << Id, Local("u", N(4)), Let("g", N(3)),
     Replayed("move", <<"x", "y">>, <<Ret(<<V("y"), V("x"), N(5), TrueExpr, NilExpr, NilExpr>>)>>),
     Replayed("read", <<"t", "k">>, <<Ret(<<V("u"), V("g"), At_(V("t"), V("k")), Field("t", "n")>>)>>),
     Replayed("ops", <<"x", "t">>, <<Ret(<<UnExpr("-", V("x")), UnExpr("#", V("t")), Op(V("x"), "^", N(2)), Not(V("x"))>>)>>),
     Replayed("new", <<"x">>, <<Ret(<<List(<<>>), V("x")>>)>>),
     Replayed("cat", <<"x", "y">>, <<Ret(<<Op(V("x"), "..", V("y"))>>)>>),
     Replayed("eq", <<"x", "y">>, <<Ret(<<Op(V("x"), "==", V("y"))>>)>>),
     Replayed("ge", <<"x", "y">>, <<Ret(<<Not(Op(V("x"), "<", V("y")))>>)>>),
     Replayed("both", <<"x", "y">>, <<Ret(<<Op(V("x"), "and", V("y")), Op(V("y"), "or", N(8))>>)>>),
     Replayed("last", <<"x">>, <<Local("y", N(1)), Local("z", Op(V("x"), "-", V("y"))), Ret(<<V("z")>>)>>),
     Replayed("text", <<"x">>, <<Ret(<<S("a")>>)>>),
     Show(<<Call("move", <<N(1), N(2)>>)>>),
     Show(<<Call("read", <<TableExpr(<<TableItem(<<>>, N(6)), TableItem(<<S("n")>>, N(7))>>), N(1)>>)>>),
     Show(<<Call("ops", <<N(3), List(<<N(1), N(1)>>)>>)>>), Show(<<Call("new", <<N(2)>>)>>),
     Show(<<Call("cat", <<N(2), S("b")>>)>>), Show(<<Call("eq", <<N(1), N(1)>>)>>),
     Show(<<Call("ge", <<N(1), N(1)>>), Call("ge", <<N(1), N(2)>>)>>),
     Show(<<Call("both", <<N(1), N(2)>>)>>), Show(<<Call("both", <<N(1)>>)>>), Show(<<Call("both", <<V("unset"), N(2)>>)>>),
     Show(<<Call("last", <<N(5)>>), Call("text", <<N(1)>>)>>),
     Try(Call("read", <<N(1)>>)), Try(Call("ops", <<V("g")>>)), Try(Call("ops", <<List(<<>>)>>)),
     Try(Call("cat", <<NilExpr, N(1)>>)), Try(Call("ge", <<N(1)>>)) >>,

  \* values that must be had before what comes behind them is done
  << Id, Local("u", N(4)), Let("g", N(3)),
     Small("inc", <<>>, <<Inc("u"), Inc("g"), Ret(<<V("u")>>)>>),
     Replayed("first", <<"x">>, <<Ret(<<V("u"), ParenExpr(Call("inc", <<>>)), V("u")>>)>>),
     Replayed("glob", <<"x">>, <<Ret(<<V("g"), ParenExpr(Call("inc", <<>>)), V("g")>>)>>),
     Replayed("pack", <<"x", "y">>, <<Ret(<<List(<<V("x"), V("y"), N(3), V("x"), V("x")>>), N(2)>>)>>),
     Replayed("rec", <<"x">>, <<Ret(<<TableExpr(<<TableItem(<<S("n")>>, V("x")), TableItem(<<>>, Call("id", <<V("x")>>))>>)>>)>>),
     Replayed("nils", <<"x">>, <<LocalStmt(<<"a", "b">>, <<>>), Let("g", V("x")), Ret(<<NilExpr, V("a"), V("g"), NilExpr>>)>>),
     Replayed("neg", <<"x">>, <<Ret(<<UnExpr("-", V("x")), ParenExpr(Call("inc", <<>>))>>)>>),
     Replayed("test", <<"x">>, <<Ret(<<Op(V("x"), "==", N(1)), ParenExpr(Call("inc", <<>>))>>)>>),
     Replayed("sum", <<"x">>, <<Ret(<<Op(V("x"), "+", V("u")), ParenExpr(Call("inc", <<>>))>>)>>),
     Show(<<Call("first", <<N(1)>>)>>), Show(<<Call("glob", <<N(1)>>)>>),
     Local("p", Call("pack", <<N(1), N(2)>>)), Show(<<At_(V("p"), N(2)), UnExpr("#", V("p"))>>),
     Local("r", Call("rec", <<N(6)>>)), Show(<<Field("r", "n"), At_(V("r"), N(1))>>),
     Show(<<Call("nils", <<N(9)>>)>>), Show(<<Call("neg", <<N(1)>>)>>), Show(<<Call("test", <<N(1)>>)>>),
     Show(<<Call("sum", <<N(1)>>)>>), Try(Call("sum", <<TrueExpr>>)) >>,

  \* effects: variables, globals, tables, methods, closures and the end of a block
  << Id, Local("u", N(1)), Local("keep", NilExpr),
     Replayed("set", <<"x", "t">>, <<Let("u", V("x")), Let("g", V("x")),
       AssignStmt(<<At_(V("t"), N(1))>>, <<V("x")>>), AssignStmt(<<Field("t", "n")>>, <<At_(V("t"), N(1))>>)>>),
     Replayed("meth", <<"o", "k">>, <<CallStmt(Method(V("o"), "add", <<V("k")>>)),
       Ret(<<ParenExpr(Method(V("o"), "add", <<N(2)>>)), V("k")>>)>>),
     Replayed("mk", <<"x">>, <<Let("x", N(7)), Ret(<<Fn(<<>>, <<Inc("x"), Ret(<<V("x")>>)>>), V("x")>>)>>),
     Replayed("block", <<"x">>, <<
       DoStmt(<<Local("y", V("x")), Let("keep", Fn(<<>>, <<Inc("y"), Ret(<<V("y")>>)>>))>>),
       Local("z", N(5)), Ret(<<V("z")>>)>>),
     Local("t", List(<<>>)), Run("set", <<N(6), V("t")>>),
     Show(<<V("u"), V("g"), At_(V("t"), N(1)), Field("t", "n")>>),
     Local("o", TableExpr(<<TableItem(<<S("n")>>, N(1))>>)),
     FuncStmt(Field("o", "add"), TRUE, Fn(<<"self", "k">>, <<
       AssignStmt(<<Field("self", "n")>>, <<Op(Field("self", "n"), "+", V("k"))>>), Ret(<<Field("self", "n")>>)>>)),
     Show(<<Call("meth", <<V("o"), N(3)>>)>>),
     LocalStmt(<<"f", "x">>, <<Call("mk", <<N(1)>>)>>), Collecting, Show(<<Call("f", <<>>), V("x")>>),
     Show(<<Call("block", <<N(2)>>)>>), Collecting, Show(<<Call("keep", <<>>), Call("keep", <<>>)>>),
     Try(Call("set", <<N(1)>>)), Try(Call("meth", <<V("t")>>)), Try(Call("meth", <<N(1)>>)) >>,

  \* loops: over numbers, up and down, with what the body leaves behind; over a table
  \* and over functions that fail; a call that comes back from a segment that moved
  << Id, Small("count", <<"s", "c">>, <<If(Op(V("c"), "<", V("s")), <<Ret(<<Op(V("c"), "+", N(1)), V("s")>>)>>)>>),
     Small("fails", <<"s">>, <<Run("error", <<V("s")>>)>>),
     Replayed("sum", <<"n", "t">>, <<Local("s", N(0)),
       NumForStmt("i", N(1), V("n"), <<>>, <<Let("s", Op(V("s"), "+", V("i"))),
         AssignStmt(<<At_(V("t"), V("i"))>>, <<V("s")>>)>>), Let("g", V("s")), Ret(<<V("s"), V("n")>>)>>),
     Replayed("down", <<"n">>, <<Local("s", N(1)),
       NumForStmt("i", V("n"), N(1), <<UnExpr("-", N(1))>>, <<Let("s", Op(V("s"), "*", V("i")))>>), Ret(<<V("s")>>)>>),
     Replayed("each", <<"f", "a", "b">>, <<Local("s", N(0)),
       GenForStmt(<<"k", "v">>, <<V("f"), V("a"), V("b")>>, <<Let("s", Op(V("s"), "+", V("v")))>>),
       Let("g", V("s")), Ret(<<V("s")>>)>>),
     Replayed("deep", <<"n">>, <<LocalStmt(<<"a", "b">>, <<Call("each", <<V("count"), V("n"), N(0)>>)>>),
       Ret(<<V("a"), V("n"), V("b")>>)>>),
     Local("t", List(<<>>)), Show(<<Call("sum", <<N(3), V("t")>>), UnExpr("#", V("t")), V("g")>>),
     Show(<<Call("sum", <<N(0), V("t")>>)>>), Show(<<Call("down", <<N(4)>>)>>),
     Show(<<Call("each", <<V("iter"), List(<<N(4), N(5)>>), N(0)>>)>>),
     Show(<<Call("each", <<V("count"), N(3), N(0)>>), V("g")>>), Show(<<Call("deep", <<N(2)>>)>>),
     Try(Call("sum", <<V("unset"), V("t")>>)), Try(Call("each", <<V("fails"), N(8)>>)),
     Try(Call("each", <<N(1)>>)), Try(Call("sum", <<N(2)>>)) >>,

  \* tail calls, of a function of either kind, of a host function and of none
  << Id, Replayed("tail", <<"f", "x">>, <<Ret(<<Call("f", <<V("x"), N(2)>>)>>)>>),
     Local("all", Dots(<<>>, <<Ret(<<VarargExpr>>)>>)),
     LocalFuncStmt("keeps", Fn(<<"x">>, <<Show(<<Call("id", <<V("x")>>)>>),
       Ret(<<Call("id", <<Fn(<<>>, <<Inc("x"), Ret(<<V("x")>>)>>)>>)>>)>>)),
     Show(<<Call("tail", <<V("id"), N(1)>>)>>), Show(<<Call("tail", <<V("all"), N(1)>>)>>),
     Show(<<Call("tail", <<V("print"), N(1)>>)>>),
     Local("k", Call("keeps", <<N(3)>>)), Collecting, Show(<<Call("k", <<>>), Call("k", <<>>)>>),
     Try(Call("tail", <<N(1)>>)), Try(Call("tail", <<V("error"), N(6)>>)) >>
>>

(* A method whose name is a constant no operand can name.                  *)
ManyConstants == <<
  << Local("t", List(<<>>)), LocalStmt(<<"a", "b", "c">>, <<N(10), N(20), N(30)>>),
     FuncStmt(Field("t", "m"), TRUE, Fn(<<"self", "k">>, <<Ret(<<V("k")>>)>>)),
     FuncStmt(Field("t", "n"), TRUE, Fn(<<"self", "k">>, <<Ret(<<V("k")>>)>>)),
     Show(<<Method(V("t"), "m", <<N(40)>>)>>), Show(<<Method(V("t"), "n", <<N(50)>>)>>) >>
>>

(* A loop right behind a closure: a block ends with the words that belong  *)
(* to the closure's instruction.                                           *)
ClosureBeforeLoop == <<
  << Local("c", Fn(<<"x">>, <<
       Local("n", N(0)), Local("f", Fn(<<>>, <<Ret(<<V("n")>>)>>)),
       WhileStmt(Op(V("n"), "<", N(2)), <<Inc("n")>>), Ret(<<V("x"), V("n")>>)>>)),
     Show(<<Call("c", <<N(7)>>)>>) >>
>>

(* A variable that holds a function with the number of the host function   *)
(* print, and then print, called from a site that has only seen the former.*)
HostFunction == <<
  << LocalFuncStmt("f", Fn(<<"x">>, <<
       Local("s", N(0)),
       NumForStmt("i", N(1), V("x"), <<>>, <<Let("s", Op(Op(V("s"), "+", V("i")), "*", N(2))),
                                           Let("s", Op(Op(V("s"), "-", N(1)), "*", N(3)))>>),
       Ret(<<V("s")>>)>>)),
     LocalFuncStmt("call", Fn(<<>>, <<
       Local("r", N(0)),
       NumForStmt("i", N(1), N(2), <<>>, <<Let("r", Call("f", <<V("i")>>))>>),
       Ret(<<V("r")>>)>>)),
     Show(<<Call("call", <<>>)>>), Let("f", V("print")), Show(<<Call("call", <<>>)>>) >>
>>

(* The numbers of the host functions, in the order the library has them.   *)
FnID(name) ==
  CASE name = "print" -> 0 [] name = "error" -> 5 [] name = "pcall" -> 8
    [] name = "iter" -> 20 [] name = "collect" -> 90

Library == <<"print", "error", "pcall", "collect", "f">>
Corpus ==
  Mapped(Features, LAMBDA p : Knowing(Library, p))
    \o Mapped(Direct \o SmallValues, LAMBDA p : Knowing(<<"print">>, p))
    \o Mapped(Replays, LAMBDA p : Knowing(<<"print", "error", "f">>, p))
    \o Smalls \o Loops \o Expressions \o Assignments
=============================================================================
