-------------------------------- MODULE Wasm --------------------------------
(***************************************************************************)
(* The compiler of the wasm tier (internal/gibbous/wasm: cfg.go,           *)
(* relooper.go, structurize.go, and what of translate*.go and compiler.go  *)
(* lays out control flow): a prototype's jumps become nested blocks, loops *)
(* and ifs that are left by "br" with a depth.  What the instructions in   *)
(* between do when they run is module Gibbous.                             *)
(*                                                                         *)
(* A basic block is known by its number, in the order of the code.  The    *)
(* body is a sequence of items; "ins" and "if" stand for the instructions  *)
(* emitted for the bytecode at pc.                                         *)
(***************************************************************************)
EXTENDS Codegen, SequencesExt

CONSTANTS DensityFloor,       \* instructions per helper call that pay (source: 7)
          StraightLineMin     \* length that pays without a loop (source: 32)

ASSUME TierAssumption == {DensityFloor, StraightLineMin} \subseteq Nat

------------------------------------------------------------------------------
(* The flow graph (cfg.go).                                                *)

Ordered(S, before(_, _)) ==
  [i \in 1..Cardinality(S) |->
     CHOOSE x \in S : Cardinality({y \in S : before(y, x)}) = i - 1] \o <<>>

Jumps == {"JMP", "FORLOOP", "FORPREP"}
Skips == {"EQ", "LT", "LE", "TEST", "TESTSET", "TFORLOOP"}
Ends == {"RETURN", "TAILCALL"}

LeadersOf(ins, pc) ==
  CASE ins.op \in Jumps -> {ins.b, pc + 1}
    [] ins.op \in Skips \cup {"LOADBOOL"} -> {pc + 1, pc + 2}
    [] ins.op \in Ends -> {pc + 1}
    [] OTHER -> {}

SuccessorPcs(ins, pc) ==
  CASE ins.op \in {"JMP", "FORPREP"} -> <<ins.b>>
    [] ins.op = "FORLOOP" -> <<ins.b, pc + 1>>
    [] ins.op \in Skips -> <<pc + 1, pc + 2>>
    [] ins.op = "LOADBOOL" -> <<IF ins.c # 0 THEN pc + 2 ELSE pc + 1>>
    [] ins.op \in Ends -> <<>>
    [] OTHER -> <<pc + 1>>

buildCFG(code) ==
  LET n == Len(code)
      leaders == ({1} \cup UNION {LeadersOf(code[pc], pc) : pc \in 1..n}) \cap 1..n
      start == Ordered(leaders, <)
      last_ == [i \in DOMAIN start |-> IF i < Len(start) THEN start[i + 1] - 1 ELSE n] \o <<>>
      block_ == [pc \in leaders |-> CHOOSE i \in DOMAIN start : start[i] = pc] @@ <<>>
      linkSuccs(i) ==
        LET to == SelectSeq(SuccessorPcs(code[last_[i]], last_[i]), LAMBDA pc : pc <= n)
            ids == [j \in DOMAIN to |-> block_[to[j]]]
        IN IF Len(ids) = 2 /\ ids[1] = ids[2] THEN <<ids[1]>> ELSE ids
      succs == [i \in DOMAIN start |-> linkSuccs(i)] \o <<>>
      preds(u) == Ordered({p \in DOMAIN start : u \in Range(succs[p])}, <)
  IN [code |-> code, start |-> start, last |-> last_, of |-> block_,
      succs |-> succs, preds |-> [i \in DOMAIN start |-> preds(i)] \o <<>>]

Blocks(G) == DOMAIN G.start
Succs(G, u) == Range(G.succs[u])
predsOf(G, u) == G.preds[u]

RECURSIVE reachFrom(_, _)
reachFrom(G, seen) ==
  LET more == UNION {Succs(G, u) : u \in seen} \ seen
  IN IF more = {} THEN seen ELSE reachFrom(G, seen \cup more)
reachableBlocks(G) == reachFrom(G, {1})

------------------------------------------------------------------------------
(* Orders, dominators and loops (relooper.go).                             *)

(* The blocks in the order a depth-first search from u leaves them;        *)
(* next[u] is the order in which the successors of u are tried.            *)
RECURSIVE depthFirst(_, _, _), depthFirstAll(_, _, _)
depthFirst(next, u, done) ==
  LET D == depthFirstAll(next, next[u], [done EXCEPT !.seen = @ \cup {u}])
  IN [D EXCEPT !.post = Append(@, u)]
depthFirstAll(next, us, done) ==
  IF us = <<>> THEN done
  ELSE AtOnce(IF us[1] \in done.seen THEN done ELSE depthFirst(next, us[1], done),
              LAMBDA d : depthFirstAll(next, Tail(us), d))
reversePostorder(next) == Reverse(depthFirst(next, 1, [post |-> <<>>, seen |-> {}]).post)

(* The place of each block in an order; 0 for the blocks not in it.        *)
PlaceIn(G, order) ==
  [u \in Blocks(G) |-> IF u \in Range(order) THEN CHOOSE i \in DOMAIN order : order[i] = u
                                             ELSE 0] \o <<>>

computeRPO(G) == reversePostorder([u \in Blocks(G) |-> Ordered(Succs(G, u), <)])

RECURSIVE intersect(_, _, _, _)
intersect(place, idom, a, b) ==
  CASE a = b -> a
    [] place[a] > place[b] -> intersect(place, idom, idom[a], b)
    [] place[a] < place[b] -> intersect(place, idom, a, idom[b])

(* One pass over the blocks in reverse postorder, again and again until    *)
(* nothing changes; 0 is a block without a dominator yet.                  *)
RECURSIVE dominatorPass(_, _, _, _), iterateDominators(_, _, _, _)
dominatorPass(G, us, place, dom) ==
  LET meet(new, p) ==
        IF dom[p] = 0 THEN new ELSE IF new = 0 THEN p ELSE intersect(place, dom, p, new)
      new == FoldLeft(meet, 0, predsOf(G, us[1]))
  IN IF us = <<>> THEN dom
     ELSE AtOnce(IF us[1] = 1 \/ new = 0 THEN dom ELSE [dom EXCEPT ![us[1]] = new],
                 LAMBDA d : dominatorPass(G, Tail(us), place, d))
iterateDominators(G, rpo, place, idom) ==
  LET pass == dominatorPass(G, rpo, place, idom)
  IN IF pass = idom THEN idom ELSE iterateDominators(G, rpo, place, pass)
computeDominators(G, rpo, place) ==
  iterateDominators(G, rpo, place, [u \in Blocks(G) |-> IF u = 1 THEN 1 ELSE 0])

RECURSIVE dominates(_, _, _)
dominates(idom, a, b) ==
  \/ a = b
  \/ b \notin {0, 1} /\ dominates(idom, a, idom[b])

(* The blocks that reach the tail of a back edge without the header - for  *)
(* a header that is its own tail the source starts behind it, and takes in *)
(* all that lead to it.                                                    *)
RECURSIVE growLoop(_, _, _)
growLoop(G, body, from) ==
  LET more == UNION {Range(predsOf(G, u)) : u \in from} \ body
  IN IF more = {} THEN body ELSE growLoop(G, body \cup more, more)
addNaturalLoop(G, header, tail) == growLoop(G, {header, tail}, {tail})

detectLoops(G, idom) ==
  LET backEdges == {<<s, u>> \in Blocks(G) \X Blocks(G) :
                      s \in Succs(G, u) /\ dominates(idom, s, u)}
  IN [h \in {e[1] : e \in backEdges} |->
        UNION {addNaturalLoop(G, h, e[2]) : e \in {b \in backEdges : b[1] = h}}] @@ <<>>

(* The smallest loop around a block, 0 if there is none.                   *)
loopOf(loops, u) ==
  LET around == {h \in DOMAIN loops : u \in loops[h]}
  IN IF around = {} THEN 0
     ELSE CHOOSE h \in around :
            \A k \in around \ {h} :
               \/ Cardinality(loops[h]) < Cardinality(loops[k])
               \/ Cardinality(loops[h]) = Cardinality(loops[k]) /\ h > k

------------------------------------------------------------------------------
(* Scopes (structurize.go).                                                *)

(* Of the successors those that leave the innermost loop come first, so    *)
(* that the loop's body is contiguous in the order of emission.            *)
layoutOrder(G, loops) ==
  LET inner == [u \in Blocks(G) |-> loopOf(loops, u)] \o <<>>
      stays(u, s) == inner[u] # 0 /\ s \in loops[inner[u]]
  IN reversePostorder([u \in Blocks(G) |->
       Ordered({s \in Succs(G, u) : ~stays(u, s)}, <)
         \o Ordered({s \in Succs(G, u) : stays(u, s)}, <)])

isReducible(G, idom, place) ==
  \A u \in reachableBlocks(G) : \A s \in Succs(G, u) :
     place[s] <= place[u] => dominates(idom, s, u)

Scope(kind, target, begin, end) ==
  [kind |-> kind, target |-> target, begin |-> begin, end |-> end]

overlapImproper(a, b) ==
  /\ ~(a.end < b.begin \/ b.end < a.begin)
  /\ ~(a.begin <= b.begin /\ b.end <= a.end)
  /\ ~(b.begin <= a.begin /\ a.end <= b.end)

(* The one of two overlapping scopes that ends later is opened earlier; it *)
(* has to be a block.                                                      *)
RECURSIVE normalizeScopes(_)
normalizeScopes(scopes) ==
  LET improper == {<<a, b>> \in scopes \X scopes : overlapImproper(a, b) /\ a.end > b.end}
      ab == CHOOSE p \in improper : TRUE
  IN IF improper = {} THEN [ok |-> TRUE, scopes |-> scopes]
     ELSE IF ab[1].kind # "block" THEN [ok |-> FALSE, scopes |-> {}]
     ELSE normalizeScopes((scopes \ {ab[1]}) \cup {[ab[1] EXCEPT !.begin = ab[2].begin]})

computeScopes(G, loops, order, place) ==
  LET lastOf(h) == CHOOSE n \in {place[u] : u \in loops[h]} :
                     \A u \in loops[h] : place[u] <= n
      forward(d) == {place[p] : p \in {q \in Range(predsOf(G, d)) :
                                         place[q] > 0 /\ place[q] < place[d]}}
      merges == {d \in Range(order) : forward(d) # {}}
      firstOf(d) == CHOOSE n \in forward(d) : \A k \in forward(d) : n <= k
  IN normalizeScopes(
       {Scope("loop", h, place[h], lastOf(h)) : h \in {k \in DOMAIN loops : place[k] > 0}}
         \cup {Scope("block", d, firstOf(d), place[d] - 1) : d \in merges})

(* The scopes that open at a place, the outermost first.                   *)
Opening(scopes, place, i) ==
  Ordered({s \in scopes : s.begin = i},
    LAMBDA a, b : \/ a.end > b.end
                  \/ a.end = b.end /\ place[a.target] > place[b.target])

------------------------------------------------------------------------------
(* Emission.                                                               *)

WasmItem(k, pc) == [k |-> k, pc |-> pc, depth |-> 0]
Br(depth) == [WasmItem("br", 0) EXCEPT !.depth = depth]
Refuse == <<WasmItem("refuse", 0)>>
IfScope == Scope("if", 0, 0, 0)

brDepth(stack, kind, target) ==
  LET found == {i \in DOMAIN stack : stack[i].kind = kind /\ stack[i].target = target}
  IN IF found = {} THEN -1 ELSE Len(stack) - CHOOSE i \in found : \A j \in found : j <= i

(* A back edge passes the safepoint that bills the step budget.            *)
emitEdge(P, stack, u, d) ==
  LET loop == brDepth(stack, "loop", d)
      block_ == brDepth(stack, "block", d)
  IN CASE loop >= 0 -> <<WasmItem("safepoint", P.G.last[u]), Br(loop)>>
       [] loop < 0 /\ block_ >= 0 -> <<Br(block_)>>
       [] loop < 0 /\ block_ < 0 /\ P.place[u] + 1 = P.place[d] -> <<>>
       [] OTHER -> Refuse

wordsOf(protos, proto, ins) ==
  IF ins.op = "CLOSURE" THEN Len(protos[proto.kids[ins.b]].upvals) ELSE 0

emittable == {"MOVE", "LOADK", "LOADBOOL", "LOADNIL", "GETUPVAL", "SETUPVAL", "RETURN",
  "TAILCALL", "ADD", "SUB", "MUL", "DIV", "MOD", "POW", "UNM", "NOT", "LEN", "CONCAT",
  "GETGLOBAL", "SETGLOBAL", "GETTABLE", "SETTABLE", "SELF", "NEWTABLE", "SETLIST", "CALL",
  "CLOSE", "CLOSURE"}
emitOpcode(code, pc) == IF code[pc].op \in emittable THEN <<WasmItem("ins", pc)>> ELSE Refuse

(* The instructions from pc to just before end; CLOSURE takes the words    *)
(* behind it along.                                                        *)
emitPrefix(protos, proto, pc, end) ==
  LET words == UNION {c + 1..c + wordsOf(protos, proto, proto.code[c]) : c \in pc..end - 1}
      pcs == SelectSeq([i \in 1..end - pc |-> pc + i - 1], LAMBDA q : q \notin words)
  IN [i \in DOMAIN pcs |-> emitOpcode(proto.code, pcs[i])[1]]

(* The two arms of a condition are one scope deeper.                       *)
emitIf(P, stack, u, then_, else_) ==
  LET S == Append(stack, IfScope)
  IN <<WasmItem("if", P.G.last[u])>> \o emitEdge(P, S, u, then_)
       \o <<WasmItem("else", 0)>> \o emitEdge(P, S, u, else_) \o <<WasmItem("end", 0)>>
emitForLoopArms(P, stack, u, body, out) ==
  <<WasmItem("if", P.G.last[u])>> \o emitEdge(P, Append(stack, IfScope), u, body)
    \o <<WasmItem("end", 0)>> \o emitEdge(P, stack, u, out)

emitBlockBody(protos, proto, P, stack, u) ==
  LET pc == P.G.last[u]
      term == P.G.code[pc]
      next_ == P.G.succs[u]
      at(target) == IF target \in DOMAIN P.G.of THEN P.G.of[target] ELSE 0
      prefix == emitPrefix(protos, proto, P.G.start[u], pc)
      edge == IF next_ = <<>> THEN <<>> ELSE emitEdge(P, stack, u, next_[1])
      terminator ==
        CASE term.op \in Ends -> emitOpcode(P.G.code, pc)
          [] term.op = "JMP" -> edge
          [] term.op = "FORPREP" -> <<WasmItem("ins", pc)>> \o edge
          [] term.op = "FORLOOP" -> emitForLoopArms(P, stack, u, at(term.b), at(pc + 1))
          [] term.op \in {"EQ", "LT", "LE", "TEST", "TFORLOOP"} ->
               emitIf(P, stack, u, at(pc + 2), at(pc + 1))
          [] term.op = "TESTSET" -> emitIf(P, stack, u, at(pc + 1), at(pc + 2))
          [] OTHER -> emitOpcode(P.G.code, pc) \o edge
  IN prefix \o terminator

(* Block by block: scopes that are over are closed, those that begin are   *)
(* opened.                                                                 *)
Over(stack, i) == {j \in DOMAIN stack : stack[j].end < i}
RECURSIVE emitStructured(_, _, _, _, _)
emitStructured(protos, proto, P, i, stack) ==
  LET open == SelectSeq(stack, LAMBDA s : s.end >= i)
      new == Opening(P.scopes, P.place, i)
      ends(n) == [j \in 1..n |-> WasmItem("end", 0)]
      begins == [j \in DOMAIN new |-> WasmItem(new[j].kind, 0)]
  IN IF i > Len(P.order) THEN ends(Len(stack))
     ELSE ends(Len(stack) - Len(open)) \o begins
            \o emitBlockBody(protos, proto, P, open \o new, P.order[i])
            \o emitStructured(protos, proto, P, i + 1, open \o new)

(* A function of one block is translated in a straight line.               *)
translate(protos, proto) ==
  LET G == buildCFG(proto.code)
      rpo == computeRPO(G)
      rank == PlaceIn(G, rpo)
      idom == computeDominators(G, rpo, rank)
      loops == detectLoops(G, idom)
      order == layoutOrder(G, loops)
      place == PlaceIn(G, order)
      S == computeScopes(G, loops, order, place)
      P == [G |-> G, order |-> order, place |-> place, scopes |-> S.scopes]
      body == CASE Cardinality(reachableBlocks(G)) = 1 ->
                     emitPrefix(protos, proto, 1, G.last[1] + 1)
                [] ~isReducible(G, idom, rank) \/ ~S.ok -> Refuse
                [] OTHER -> emitStructured(protos, proto, P, 1, <<>>)
  IN body \o <<WasmItem("fallback", 0)>>

------------------------------------------------------------------------------
(* What the tier takes on (compiler.go).                                   *)

HelperOps == {"GETTABLE", "SETTABLE", "SELF", "GETGLOBAL", "SETGLOBAL", "CALL", "TAILCALL",
              "LEN", "CONCAT", "NEWTABLE", "SETLIST", "CLOSURE", "CLOSE"}
WorthPromoting(proto) ==
  LET code == proto.code
      helpers == Cardinality({pc \in DOMAIN code : code[pc].op \in HelperOps})
      backEdge == \E pc \in DOMAIN code :
                     \/ code[pc].op \in {"FORLOOP", "TFORLOOP"}
                     \/ code[pc].op = "JMP" /\ code[pc].b <= pc
  IN /\ backEdge \/ Len(code) >= StraightLineMin
     /\ helpers = 0 \/ Len(code) \div helpers >= DensityFloor

(* A count that is only known when the instruction runs, and a string that *)
(* may move, are left to the interpreter.                                  *)
SupportsAllOpcodes(proto) ==
  LET G == buildCFG(proto.code)
      rpo == computeRPO(G)
      rank == PlaceIn(G, rpo)
      reach == reachableBlocks(G)
      supported(ins) ==
        /\ ins.op \in emittable \cup Jumps \cup Skips
        /\ ins.op = "LOADK" => proto.consts[ins.b][1] # "str"
        /\ ins.op \in {"SETLIST", "CALL"} => ins.b # 0 /\ ins.c # 0
        /\ ins.op = "TAILCALL" => ins.b # 0
  IN /\ Cardinality(reach) > 1 => isReducible(G, computeDominators(G, rpo, rank), rank)
     /\ \A u \in reach : \A pc \in G.start[u]..G.last[u] : supported(proto.code[pc])

------------------------------------------------------------------------------
(* What the wasm engine makes of the body: where each item goes on.  A br  *)
(* to a loop starts it again, one to a block or an if leaves it.           *)

RECURSIVE scopesAt(_, _)
scopesAt(items, stacks) ==
  LET i == Len(stacks)
      inside == stacks[i]
      k == items[i].k
  IN IF i > Len(items) THEN stacks
     ELSE scopesAt(items, Append(stacks,
            CASE k \in {"block", "loop", "if"} -> Append(inside, i)
              [] k = "end" -> SubSeq(inside, 1, Len(inside) - 1)
              [] OTHER -> inside))

Link(items) ==
  LET stacks == scopesAt(items, <<<<>>>>)
      closes(o) == CHOOSE i \in DOMAIN items :
                     items[i].k = "end" /\ stacks[i] # <<>> /\ Last(stacks[i]) = o
                     /\ Len(stacks[i + 1]) < Len(stacks[i])
      elseOf(o) == {i \in DOMAIN items :
                      items[i].k = "else" /\ stacks[i] # <<>> /\ Last(stacks[i]) = o}
      settle[i \in 1..(Len(items) + 1), n \in 0..Len(items)] ==
        LET it == items[i]
            o == stacks[i][Len(stacks[i]) - it.depth]
        IN IF i > Len(items) \/ n = 0 THEN i
           ELSE CASE it.k \in {"block", "loop", "end"} -> settle[i + 1, n - 1]
                  [] it.k = "else" -> settle[closes(Last(stacks[i])) + 1, n - 1]
                  [] it.k = "br" /\ items[o].k = "loop" -> settle[o + 1, n - 1]
                  [] it.k = "br" /\ items[o].k # "loop" -> settle[closes(o) + 1, n - 1]
                  [] OTHER -> i
      from(i) == settle[i, Len(items)]
      armElse(i) == IF elseOf(i) = {} THEN from(closes(i))
                    ELSE from((CHOOSE j \in elseOf(i) : TRUE) + 1)
  IN [items |-> items, start |-> from(1),
      next |-> [i \in DOMAIN items |-> from(i + 1)] \o <<>>,
      other |-> [i \in {j \in DOMAIN items : items[j].k = "if"} |-> armElse(i)] @@ <<>>]

NoCode == [items |-> <<>>]
CompileWasm(protos, pid) ==
  LET proto == protos[pid]
      items == translate(protos, proto)
  IN IF proto.vararg \/ ~WorthPromoting(proto) \/ ~SupportsAllOpcodes(proto) THEN NoCode
     ELSE IF \E i \in DOMAIN items : items[i].k = "refuse" THEN NoCode
     ELSE Link(items)
=============================================================================
