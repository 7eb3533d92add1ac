---------------------------- MODULE Compilability ----------------------------
(***************************************************************************)
(* The analyser of compilability (internal/bridge/analyzer.go): one pass   *)
(* over a function's tree, and what it finds decides whether the function  *)
(* may ever leave the interpreter.  The operators keep the source's names  *)
(* and take and give back the visitor v; its flags are the set v.saw.  A   *)
(* map the source keys by the pointer to a function is keyed by its tree.  *)
(***************************************************************************)
EXTENDS Ast

CONSTANTS MaxCompilableInsns, MaxCompilableRegs,   \* 2000 and 200 in the source
          MaxClosureDepth, MaxUpvalCount           \* 3 and 8

newCompilabilityVisitor ==
  [saw |-> {}, depth |-> 0, maxClosureDepth |-> 0,
   localFuncs |-> <<>>, safeAliases |-> {}, inlinedKnownCalls |-> {}]

Saw(v, flags) == [v EXCEPT !.saw = @ \cup flags]
Without(f, names) == [n \in DOMAIN f \ names |-> f[n]]
Params(fn) == {fn.params[i] : i \in DOMAIN fn.params}

(* What a name is known to stand for: one function, a safe function of the *)
(* library, or nothing.                                                    *)
Unbind(v, names) == [v EXCEPT !.localFuncs = Without(@, names), !.safeAliases = @ \ names]
BindFunc(v, name, fn) == [Unbind(v, {name}) EXCEPT !.localFuncs = (name :> fn) @@ @]
BindAlias(v, name) == [Unbind(v, {name}) EXCEPT !.safeAliases = @ \cup {name}]
popScope(v, w) == [w EXCEPT !.localFuncs = v.localFuncs, !.safeAliases = v.safeAliases]

isName(e, names) == e.t = "Name" /\ e.name \in names
isFieldOf(e, libs) == e.t = "Index" /\ isName(e.obj, libs) /\ e.key.t = "String"

safeStdlibFuncs == {"type", "tostring", "tonumber", "select", "unpack", "rawget", "rawset",
                    "rawequal", "setmetatable", "getmetatable"}
safeStdlibLibs == {"math", "string", "table", "os"}
unsafeStdlibLibFuncs == {<<"string", "gsub">>, <<"string", "gmatch">>, <<"table", "foreach">>,
                         <<"table", "foreachi">>, <<"os", "execute">>}
isSafeStdlibCall(e) ==
  \/ isName(e, safeStdlibFuncs)
  \/ isFieldOf(e, safeStdlibLibs) /\ <<e.obj.name, e.key.str>> \notin unsafeStdlibLibFuncs

------------------------------------------------------------------------------
RECURSIVE walkBlock(_, _), walkExpr(_, _), walkExprs(_, _)

(* The body of a nested function has a visitor of its own: of what it sees *)
(* only the depth counts here, but it knows the names known around it.     *)
walkFuncExpr(v, e) ==
  LET inner == [newCompilabilityVisitor EXCEPT
                  !.depth = v.depth + 1, !.maxClosureDepth = v.depth + 1,
                  !.localFuncs = Without(v.localFuncs, Params(e)),
                  !.safeAliases = v.safeAliases \ Params(e),
                  !.inlinedKnownCalls = v.inlinedKnownCalls]
      deepest == walkBlock(inner, e.body).maxClosureDepth
  IN [v EXCEPT !.maxClosureDepth = IF deepest > @ THEN deepest ELSE @]

(* A call of a known function is what its body is, the first time.         *)
expandKnownCall(v, fn) ==
  IF fn \in v.inlinedKnownCalls THEN v
  ELSE walkBlock([v EXCEPT !.inlinedKnownCalls = @ \cup {fn}], fn.body)

visitCallExpr(v, e) ==
  LET A == walkExprs(v, e.args)
      safe == isSafeStdlibCall(e.fn) \/ isName(e.fn, A.safeAliases)
  IN IF isFieldOf(e.fn, {"coroutine"})
     THEN Saw(A, {"coroutine"} \cup ({e.fn.key.str} \cap {"yield", "resume"}))
     ELSE IF isFieldOf(e.fn, {"debug"}) THEN Saw(A, {"debug"})
     ELSE IF isName(e.fn, {"setfenv", "getfenv"}) THEN Saw(A, {"setfenv"})
     ELSE IF safe THEN A
     ELSE IF isName(e.fn, DOMAIN A.localFuncs) THEN expandKnownCall(A, A.localFuncs[e.fn.name])
     ELSE Saw(walkExpr(A, e.fn), {"unknownCall"})

walkExprs(v, es) ==
  IF es = <<>> THEN v ELSE AtOnce(walkExpr(v, es[1]), LAMBDA w : walkExprs(w, Tail(es)))

RECURSIVE walkItems(_, _)
walkItems(v, items) ==
  IF items = <<>> THEN v
  ELSE walkItems(walkExprs(v, Append(items[1].key, items[1].val)), Tail(items))

walkExpr(v, e) ==
  CASE e.t \in {"Nil", "True", "False", "Number", "String"} -> v
    [] e.t = "Vararg" -> Saw(v, {"vararg"})
    [] e.t = "Name" -> Saw(v, CASE e.name = "debug" -> {"debug"}
                                [] e.name \in {"setfenv", "getfenv"} -> {"setfenv"}
                                [] OTHER -> {})
    [] e.t = "Index" -> walkExprs(v, <<e.obj, e.key>>)
    [] e.t \in {"Paren", "Un"} -> walkExpr(v, e.e)
    [] e.t = "Call" -> visitCallExpr(v, e)
    [] e.t = "MethodCall" -> Saw(walkExprs(v, <<e.recv>> \o e.args), {"selfCall"})
    [] e.t = "Bin" -> walkExprs(v, <<e.l, e.r>>)
    [] e.t = "Func" -> walkFuncExpr(v, e)
    [] e.t = "Table" -> walkItems(v, e.items)

------------------------------------------------------------------------------
RECURSIVE bindLocals(_, _, _), walkClauses(_, _)
bindLocals(v, names, es) ==
  LET rest == IF es = <<>> THEN es ELSE Tail(es)
      bound == CASE es # <<>> /\ es[1].t = "Func" -> BindFunc(v, names[1], es[1])
                 [] es # <<>> /\ isSafeStdlibCall(es[1]) -> BindAlias(v, names[1])
                 [] OTHER -> Unbind(v, {names[1]})
  IN IF names = <<>> THEN v ELSE bindLocals(bound, Tail(names), rest)

inScope(v, body) == popScope(v, walkBlock(v, body))
walkClauses(v, cls) ==
  IF cls = <<>> THEN v
  ELSE AtOnce(inScope(walkExpr(v, cls[1].cond), cls[1].body), LAMBDA w : walkClauses(w, Tail(cls)))

(* The variables of a loop hide nothing: what was known of their names     *)
(* stays known in its body.                                                *)
walkStmt(v, s) ==
  CASE s.t = "Local" -> bindLocals(walkExprs(v, s.exprs), s.names, s.exprs)
    [] s.t = "LocalFunc" -> walkFuncExpr(BindFunc(v, s.name, s.fn), s.fn)
    [] s.t = "Assign" ->
         Unbind(walkExprs(v, s.targets \o s.exprs),
                {s.targets[i].name : i \in {j \in DOMAIN s.targets : s.targets[j].t = "Name"}})
    [] s.t = "CallStmt" -> walkExpr(v, s.call)
    [] s.t = "Do" -> inScope(v, s.body)
    [] s.t = "While" -> inScope(walkExpr(v, s.cond), s.body)
    [] s.t = "Repeat" -> popScope(v, walkExpr(walkBlock(v, s.body), s.cond))
    [] s.t = "If" -> LET C == walkClauses(v, s.clauses)
                     IN IF s.else = <<>> THEN C ELSE inScope(C, s.else[1])
    [] s.t = "NumFor" -> inScope(walkExprs(v, <<s.init, s.limit>> \o s.step), s.body)
    [] s.t = "GenFor" -> inScope(walkExprs(v, s.exprs), s.body)
    [] s.t = "FuncStmt" -> walkFuncExpr(walkExpr(v, s.target), s.fn)
    [] s.t = "Return" -> walkExprs(v, s.exprs)
    [] s.t = "Break" -> v

walkBlock(v, b) ==
  IF b = <<>> THEN v ELSE AtOnce(walkStmt(v, b[1]), LAMBDA w : walkBlock(w, Tail(b)))

------------------------------------------------------------------------------
protoIsVararg(proto) == \E pc \in DOMAIN proto.code : proto.code[pc].op = "VARARG"

(* The reasons against a function.  No compiler is known while the code is *)
(* generated, which is a reason too where there is no other.               *)
AnalyzeProtoWithOuter(fn, proto, outerLocalFuncs, outerAliases) ==
  LET aliased == {n \in DOMAIN outerAliases : isSafeStdlibCall(outerAliases[n])}
      v == walkBlock([newCompilabilityVisitor EXCEPT
                        !.localFuncs = Without(outerLocalFuncs, Params(fn)),
                        !.safeAliases = aliased \ Params(fn)], fn.body)
      reasons ==
        v.saw \cup (IF fn.vararg # "no" \/ protoIsVararg(proto) THEN {"vararg"} ELSE {})
              \cup (IF Len(proto.code) > MaxCompilableInsns THEN {"overSize"} ELSE {})
              \cup (IF proto.maxstack > MaxCompilableRegs THEN {"overRegs"} ELSE {})
              \cup (IF v.maxClosureDepth > MaxClosureDepth THEN {"nestedDeep"} ELSE {})
              \cup (IF Len(proto.upvals) > MaxUpvalCount THEN {"overUpval"} ELSE {})
  IN IF reasons = {} THEN {"backendUnsupp"} ELSE reasons

(* Once there is a compiler, two of the reasons are asked again.           *)
placeholderReasons == {"backendUnsupp", "selfCall"}
MayBePromoted(proto) == proto.reasons \subseteq placeholderReasons
=============================================================================
