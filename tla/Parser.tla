------------------------------- MODULE Parser -------------------------------
(***************************************************************************)
(* The parser (internal/frontend/parse): tokens, as module Reference       *)
(* writes them, become a syntax tree.  The operators keep the source's     *)
(* names and give back [p, v]: the parser behind what was read, and the    *)
(* node.                                                                   *)
(*                                                                         *)
(* The state P is the token stream with the two contexts a body is read    *)
(* in.  A syntax error, which in the source returns from every level,      *)
(* throws the rest of the stream away: the levels above then find nothing  *)
(* to read.  Lines, the nesting depth and the limits on locals and         *)
(* upvalues are left out.                                                  *)
(***************************************************************************)
EXTENDS Ast

Read(P, v) == [p |-> P, v |-> v]

kind(P) == IF P.toks = <<>> THEN "<eof>" ELSE P.toks[1][1]
match(P, k) == kind(P) = k
next(P) == [P EXCEPT !.toks = Tail(@)]
peek(P) == IF Len(P.toks) < 2 THEN "<eof>" ELSE P.toks[2][1]
syntaxError(P) == [P EXCEPT !.toks = <<>>, !.ok = FALSE]
expect(P, k) == IF match(P, k) THEN next(P) ELSE syntaxError(P)
consume(P, k) == IF match(P, k) THEN next(P) ELSE P
checkName(P) ==
  IF match(P, "NAME") THEN Read(next(P), P.toks[1][2]) ELSE Read(syntaxError(P), "")

RECURSIVE parseExpr(_, _), climb(_, _, _), parseExprListEnds(_), parseBlock(_), readBlock(_, _),
          parseSuffixes(_, _), fields(_, _), names(_), parlist(_, _)

(* What is read after the separator is put behind what came before it.     *)
more(P, sep, first, Rest(_)) ==
  IF ~match(P, sep) THEN Read(P, <<first>>)
  ELSE LET S == Rest(next(P)) IN Read(S.p, <<first>> \o S.v)

parseExprListEnds(P) ==
  LET E == parseExpr(P, 0) IN more(E.p, ",", E.v, parseExprListEnds)
names(P) == LET N == checkName(P) IN more(N.p, ",", N.v, names)

------------------------------------------------------------------------------
(* Expressions.                                                            *)

binPriorities ==
  [op \in CompareOps |-> [left |-> 3, right |-> 3]]
    @@ [op \in {"+", "-"} |-> [left |-> 6, right |-> 6]]
    @@ [op \in {"*", "/", "%"} |-> [left |-> 7, right |-> 7]]
    @@ ("or" :> [left |-> 1, right |-> 1]) @@ ("and" :> [left |-> 2, right |-> 2])
    @@ (".." :> [left |-> 5, right |-> 4]) @@ ("^" :> [left |-> 10, right |-> 9])
unaryPriority == 8

(* function ::= '(' [names [',' '...']] ')' block 'end'                    *)
parlist(P, params) ==
  LET N == checkName(P)
      all == Append(params, N.v)
  IN CASE match(P, "...") -> [p |-> next(P), params |-> params, dots |-> TRUE]
       [] ~match(P, "...") /\ match(N.p, ",") -> parlist(next(N.p), all)
       [] OTHER -> [p |-> N.p, params |-> all, dots |-> FALSE]

parseFuncBody(P, isMethod) ==
  LET Q == expect(P, "(")
      self == IF isMethod THEN <<"self">> ELSE <<>>
      L == IF match(Q, ")") THEN [p |-> Q, params |-> self, dots |-> FALSE]
                            ELSE parlist(Q, self)
      B == parseBlock([expect(L.p, ")") EXCEPT !.vararg = L.dots, !.loops = 0])
  IN Read([expect(B.p, "end") EXCEPT !.vararg = P.vararg, !.loops = P.loops],
       FuncExpr(L.params, IF L.dots THEN "dots" ELSE "no", B.v))

(* fields ::= [field {sep field} [sep]], up to the brace.                  *)
fields(P, items) ==
  LET K == parseExpr(next(P), 0)
      V == parseExpr(CASE match(P, "[") -> expect(expect(K.p, "]"), "=")
                       [] match(P, "NAME") /\ peek(P) = "=" -> next(next(P))
                       [] OTHER -> P, 0)
      key == CASE match(P, "[") -> <<K.v>>
               [] match(P, "NAME") /\ peek(P) = "=" -> <<StringExpr(P.toks[1][2])>>
               [] OTHER -> <<>>
      all == Append(items, TableItem(key, V.v))
  IN CASE match(P, "}") -> Read(P, items)
       [] ~match(P, "}") /\ kind(V.p) \in {",", ";"} -> fields(next(V.p), all)
       [] OTHER -> Read(V.p, all)

parseTableExpr(P) ==
  LET F == fields(expect(P, "{"), <<>>) IN Read(expect(F.p, "}"), TableExpr(F.v))

parseArgs(P) ==
  LET L == parseExprListEnds(next(P))
      T == parseTableExpr(P)
  IN CASE match(P, "(") /\ match(next(P), ")") -> Read(next(next(P)), <<>>)
       [] match(P, "(") /\ ~match(next(P), ")") -> Read(expect(L.p, ")"), L.v)
       [] match(P, "{") -> Read(T.p, <<T.v>>)
       [] match(P, "STRING") -> Read(next(P), <<StringExpr(P.toks[1][2])>>)
       [] OTHER -> Read(syntaxError(P), <<>>)

parseSuffixes(P, e) ==
  LET N == checkName(next(P))
      K == parseExpr(next(P), 0)
      M == parseArgs(N.p)
      A == parseArgs(P)
  IN CASE match(P, ".") -> parseSuffixes(N.p, IndexExpr(e, StringExpr(N.v)))
       [] match(P, "[") -> parseSuffixes(expect(K.p, "]"), IndexExpr(e, K.v))
       [] match(P, ":") -> parseSuffixes(M.p, MethodCallExpr(e, N.v, M.v))
       [] kind(P) \in {"(", "STRING", "{"} -> parseSuffixes(A.p, CallExpr(e, A.v))
       [] OTHER -> Read(P, e)

parsePrefixExpr(P) ==
  LET E == parseExpr(next(P), 0)
  IN CASE match(P, "NAME") -> parseSuffixes(next(P), NameExpr(P.toks[1][2]))
       [] match(P, "(") -> parseSuffixes(expect(E.p, ")"), ParenExpr(E.v))
       [] OTHER -> Read(syntaxError(P), NilExpr)

parseSimpleExpr(P) ==
  CASE match(P, "NUMBER") -> Read(next(P), NumberExpr(P.toks[1][2]))
    [] match(P, "STRING") -> Read(next(P), StringExpr(P.toks[1][2]))
    [] match(P, "nil") -> Read(next(P), NilExpr)
    [] match(P, "true") -> Read(next(P), TrueExpr)
    [] match(P, "false") -> Read(next(P), FalseExpr)
    [] match(P, "...") -> Read(IF P.vararg THEN next(P) ELSE syntaxError(P), VarargExpr)
    [] match(P, "{") -> parseTableExpr(P)
    [] match(P, "function") -> parseFuncBody(next(P), FALSE)
    [] OTHER -> parsePrefixExpr(P)

(* Reads on while the operator binds tighter than limit.                   *)
climb(P, e, limit) ==
  LET op == kind(P)
      S == parseExpr(next(P), binPriorities[op].right)
  IN IF op \notin DOMAIN binPriorities \/ binPriorities[op].left <= limit THEN Read(P, e)
     ELSE climb(S.p, BinExpr(op, e, S.v), limit)

parseExpr(P, limit) ==
  LET U == parseExpr(next(P), unaryPriority)
      S == parseSimpleExpr(P)
  IN IF kind(P) \in {"-", "not", "#"} THEN climb(U.p, UnExpr(kind(P), U.v), limit)
                                      ELSE climb(S.p, S.v, limit)

------------------------------------------------------------------------------
(* Statements.                                                             *)

inLoop(P, n) == [P EXCEPT !.loops = @ + n]
loopBody(P) == LET B == parseBlock(inLoop(P, 1)) IN Read(inLoop(B.p, -1), B.v)

parseLocal(P) ==
  LET F == checkName(next(P))
      B == parseFuncBody(F.p, FALSE)
      N == names(P)
      E == parseExprListEnds(next(N.p))
  IN CASE match(P, "function") -> Read(B.p, LocalFuncStmt(F.v, B.v))
       [] ~match(P, "function") /\ match(N.p, "=") -> Read(E.p, LocalStmt(N.v, E.v))
       [] OTHER -> Read(N.p, LocalStmt(N.v, <<>>))

RECURSIVE clauses(_)
clauses(P) ==
  LET C == parseExpr(P, 0)
      B == parseBlock(expect(C.p, "then"))
  IN more(B.p, "elseif", IfClause(C.v, B.v), clauses)
parseIf(P) ==
  LET C == clauses(P)
      B == parseBlock(next(C.p))
  IN IF match(C.p, "else") THEN Read(expect(B.p, "end"), IfStmt(C.v, <<B.v>>))
                           ELSE Read(expect(C.p, "end"), IfStmt(C.v, <<>>))

parseWhile(P) ==
  LET C == parseExpr(P, 0)
      B == loopBody(expect(C.p, "do"))
  IN Read(expect(B.p, "end"), WhileStmt(C.v, B.v))

parseDo(P) == LET B == parseBlock(P) IN Read(expect(B.p, "end"), DoStmt(B.v))

parseRepeat(P) ==
  LET B == loopBody(P)
      C == parseExpr(expect(B.p, "until"), 0)
  IN Read(C.p, RepeatStmt(B.v, C.v))

parseFor(P) ==
  LET N == names(P)
      first == checkName(P)
      init == parseExpr(next(first.p), 0)
      limit == parseExpr(expect(init.p, ","), 0)
      step == parseExpr(next(limit.p), 0)
      S == IF match(limit.p, ",") THEN Read(step.p, <<step.v>>) ELSE Read(limit.p, <<>>)
      B == loopBody(expect(S.p, "do"))
      L == parseExprListEnds(expect(N.p, "in"))
      G == loopBody(expect(L.p, "do"))
  IN CASE match(first.p, "=") ->
            Read(expect(B.p, "end"), NumForStmt(first.v, init.v, limit.v, S.v, B.v))
       [] kind(first.p) \in {",", "in"} ->
            Read(expect(G.p, "end"), GenForStmt(N.v, L.v, G.v))
       [] OTHER -> Read(syntaxError(P), BreakStmt)

(* funcname ::= Name {'.' Name} [':' Name]                                 *)
RECURSIVE funcName(_, _)
funcName(P, target) ==
  LET N == checkName(next(P))
      field == IndexExpr(target, StringExpr(N.v))
  IN CASE match(P, ".") -> funcName(N.p, field)
       [] match(P, ":") -> [p |-> N.p, target |-> field, isMethod |-> TRUE]
       [] OTHER -> [p |-> P, target |-> target, isMethod |-> FALSE]
parseFunctionStmt(P) ==
  LET N == checkName(P)
      T == funcName(N.p, NameExpr(N.v))
      B == parseFuncBody(T.p, T.isMethod)
  IN Read(B.p, FuncStmt(T.target, T.isMethod, B.v))

isBlockEnd(P) == kind(P) \in {"<eof>", "end", "else", "elseif", "until"}

parseReturn(P) ==
  LET E == parseExprListEnds(P)
  IN IF isBlockEnd(P) \/ match(P, ";") THEN Read(P, ReturnStmt(<<>>))
                                       ELSE Read(E.p, ReturnStmt(E.v))

(* A call is a statement; anything else starts an assignment.              *)
isAssignable(e) == e.t \in {"Name", "Index"}
RECURSIVE targetList(_)
targetList(P) ==
  LET T == parsePrefixExpr(P)
  IN more(IF isAssignable(T.v) THEN T.p ELSE syntaxError(T.p), ",", T.v, targetList)
parseExprStmt(P) ==
  LET first == parsePrefixExpr(P)
      T == targetList(P)
      E == parseExprListEnds(expect(T.p, "="))
  IN IF first.v.t \in {"Call", "MethodCall"} THEN Read(first.p, CallStmt(first.v))
                                             ELSE Read(E.p, AssignStmt(T.v, E.v))

parseStatement(P) ==
  CASE match(P, "local") -> parseLocal(next(P))
    [] match(P, "if") -> parseIf(next(P))
    [] match(P, "while") -> parseWhile(next(P))
    [] match(P, "do") -> parseDo(next(P))
    [] match(P, "for") -> parseFor(next(P))
    [] match(P, "repeat") -> parseRepeat(next(P))
    [] match(P, "function") -> parseFunctionStmt(next(P))
    [] OTHER -> parseExprStmt(P)

(* return and break end their block; a semicolon only follows a statement. *)
readBlock(P, done) ==
  LET ret == parseReturn(next(P))
      S == parseStatement(P)
      ended(Q, s) == Read(consume(Q, ";"), Append(done, s))
  IN CASE isBlockEnd(P) -> Read(P, done)
       [] match(P, ";") -> Read(syntaxError(P), done)
       [] match(P, "return") -> ended(ret.p, ret.v)
       [] match(P, "break") ->
            ended(IF P.loops = 0 THEN syntaxError(P) ELSE next(P), BreakStmt)
       [] OTHER -> IF S.p.ok THEN readBlock(consume(S.p, ";"), Append(done, S.v))
                              ELSE Read(S.p, done)
parseBlock(P) == readBlock(P, <<>>)

(* [ok, body]                                                              *)
ParseAtCDepth(toks) ==
  LET B == parseBlock([toks |-> toks, vararg |-> TRUE, loops |-> 0, ok |-> TRUE])
  IN [ok |-> B.p.ok /\ B.p.toks = <<>>, body |-> B.v]
=============================================================================
