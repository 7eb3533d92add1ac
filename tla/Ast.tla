-------------------------------- MODULE Ast --------------------------------
(***************************************************************************)
(* The syntax tree of internal/frontend/ast: the one thing the parser      *)
(* hands to the code generator.  A node is a record whose field "t" names  *)
(* the Go type; positions (Line and the EndLine fields) are left out, they *)
(* only feed error messages.  A block is the sequence of its statements,   *)
(* an optional part is a sequence of length 0 or 1.                        *)
(*                                                                         *)
(* The values a program handles are tagged tuples, so that any two can be  *)
(* compared: <<"nil">>, <<"bool", b>>, <<"num", n>>, <<"str", s>>,         *)
(* <<"host", name>>, <<"fun", id>> and <<"tab", id>>.                      *)
(***************************************************************************)
EXTENDS Integers, Sequences, FiniteSets, TLC

Nil == <<"nil">>
Bool(b) == <<"bool", b>>
Num(n) == <<"num", n>>
Str(s) == <<"str", s>>
Host(name) == <<"host", name>>
Fun(id) == <<"fun", id>>
Tab(id) == <<"tab", id>>

(* Op(x).  TLC evaluates x here, and not where Op first uses it: a walk over *)
(* a long list does not pile up its steps.                                 *)
AtOnce(x, Op(_)) == CHOOSE y \in {Op(z) : z \in {x}} : TRUE

Truthy(v) == v \notin {Nil, Bool(FALSE)}

(* Literals, variables and prefix expressions.                             *)
NilExpr == [t |-> "Nil"]
TrueExpr == [t |-> "True"]
FalseExpr == [t |-> "False"]
NumberExpr(n) == [t |-> "Number", num |-> n]
StringExpr(s) == [t |-> "String", str |-> s]
VarargExpr == [t |-> "Vararg"]
NameExpr(n) == [t |-> "Name", name |-> n]
IndexExpr(obj, key) == [t |-> "Index", obj |-> obj, key |-> key]
ParenExpr(e) == [t |-> "Paren", e |-> e]
CallExpr(fn, args) == [t |-> "Call", fn |-> fn, args |-> args]
MethodCallExpr(recv, method, args) ==
  [t |-> "MethodCall", recv |-> recv, method |-> method, args |-> args]

(* Operators, functions and table constructors.  A constructor's item has  *)
(* a key of length 0 when it is positional.                                *)
BinExpr(op, l, r) == [t |-> "Bin", op |-> op, l |-> l, r |-> r]
UnExpr(op, e) == [t |-> "Un", op |-> op, e |-> e]
FuncExpr(params, vararg, body) ==
  [t |-> "Func", params |-> params, vararg |-> vararg, body |-> body]
TableItem(key, val) == [key |-> key, val |-> val]
TableExpr(items) == [t |-> "Table", items |-> items]

(* Statements.                                                             *)
LocalStmt(names, exprs) == [t |-> "Local", names |-> names, exprs |-> exprs]
LocalFuncStmt(name, fn) == [t |-> "LocalFunc", name |-> name, fn |-> fn]
AssignStmt(targets, exprs) ==
  [t |-> "Assign", targets |-> targets, exprs |-> exprs]
CallStmt(call) == [t |-> "CallStmt", call |-> call]
DoStmt(body) == [t |-> "Do", body |-> body]
WhileStmt(cond, body) == [t |-> "While", cond |-> cond, body |-> body]
RepeatStmt(body, cond) == [t |-> "Repeat", body |-> body, cond |-> cond]
IfClause(cond, body) == [cond |-> cond, body |-> body]
IfStmt(clauses, else) == [t |-> "If", clauses |-> clauses, else |-> else]
NumForStmt(var, init, limit, step, body) ==
  [t |-> "NumFor", var |-> var, init |-> init, limit |-> limit,
   step |-> step, body |-> body]
GenForStmt(names, exprs, body) ==
  [t |-> "GenFor", names |-> names, exprs |-> exprs, body |-> body]
FuncStmt(target, isMethod, fn) ==
  [t |-> "FuncStmt", target |-> target, isMethod |-> isMethod, fn |-> fn]
ReturnStmt(exprs) == [t |-> "Return", exprs |-> exprs]
BreakStmt == [t |-> "Break"]

(* The arithmetic of the operators, shared by constant folding, by the     *)
(* interpreter and by the reference: the integers stand for the doubles.   *)
Arith(op, x, y) ==
  CASE op = "+" -> x + y
    [] op = "-" -> x - y
    [] op = "*" -> x * y
    [] op = "/" -> x \div y
    [] op = "%" -> x - (x \div y) * y
    [] op = "^" -> x ^ y

ArithOps == {"+", "-", "*", "/", "%", "^"}
CompareOps == {"==", "~=", "<", "<=", ">", ">="}

IsNumber(v) == v[1] = "num"
Plain(v) == v[1] \in {"num", "str"}
ToStr(v) == IF IsNumber(v) THEN ToString(v[2]) ELSE v[2]

(* What print shows of a value: which table or function it is, it does not *)
(* say.                                                                    *)
Shown(v) == IF v[1] \in {"tab", "fun"} THEN <<v[1]>> ELSE v
Line(args) == [i \in DOMAIN args |-> Shown(args[i])]

(* A table's content is a function from keys to values other than nil      *)
(* (module LuaTable specifies it, module TableNodes how it is kept).       *)
RawGet(content, key) == IF key \in DOMAIN content THEN content[key] ELSE Nil
RawSet(content, key, val) ==
  IF val = Nil THEN [k \in DOMAIN content \ {key} |-> content[k]]
               ELSE (key :> val) @@ content
Border(content) ==
  CHOOSE n \in 0..Cardinality(DOMAIN content) :
     (n > 0 => Num(n) \in DOMAIN content) /\ Num(n + 1) \notin DOMAIN content
=============================================================================
