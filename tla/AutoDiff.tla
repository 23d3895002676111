------------------------------ MODULE AutoDiff ------------------------------
(***************************************************************************)
(* openvaf/mir_autodiff: the derivatives of a function are added to it,    *)
(* and the result is simplified and numbered (ValueNumbering).             *)
(*                                                                         *)
(* An unknown is a number, its place in ad.unknowns. A derivative is the   *)
(* sequence of the unknowns it is taken by, the first one first; its       *)
(* previous order is its Front. ddx calls ask for derivatives of their     *)
(* argument, and a problem names more of them, of outputs by unknowns (the *)
(* entries of the Jacobian). First comes the analysis: which derivatives   *)
(* may be nonzero (reach), which are asked for (live), and which are worth *)
(* computing through a common inner value (subgraphs). Then one walk over  *)
(* the function puts the derivatives behind every instruction.             *)
(***************************************************************************)
EXTENDS ValueNumbering, Taylor

CONSTANT Problems    \* [func, unknowns, ddx, extras, order]; extras: <<output, unknown>>

VARIABLES problem,   \* what is differentiated
          ad         \* DerivativeIntern, LiveDerivatives and the builder's tables

diffVars == <<vars, problem, ad>>

NoProblem == [func |-> Func(<<>>, <<>>, <<>>, <<>>, <<>>), unknowns |-> <<>>, ddx |-> <<>>,
              extras |-> <<>>, order |-> 0]
NoAD == [unknowns |-> <<>>, derivs |-> <<>>, reach |-> <<>>, live |-> <<>>, visited |-> {},
         queue |-> <<>>, completed |-> <<>>, conversions |-> <<>>, dv |-> <<>>, cyclical |-> <<>>]

-----------------------------------------------------------------------------
(* Derivatives and where they lead                                         *)

Ascending(S) == SelectSeq([k \in 1 .. Max(S \cup {0}) |-> k], LAMBDA k : k \in S)

previous_order(d) == Front(d)
base(d)           == Last(d)

\* In the order in which they were interned: a previous order comes before.
InOrder(a, S) == SelectSeq(a.derivs, LAMBDA d : d \in S)
intern(a, d)  == [a EXCEPT !.derivs = IF d \in ToSet(@) THEN @ ELSE Append(@, d)]

\* zero_derivative and is_zero_call.
IsDdx(i) == f.inst[i].op = "call" /\ f.inst[i].key \in DOMAIN problem.ddx
Differentiable(i) ==
  /\ f.inst[i].op \notin {"ineg", "iadd", "isub", "imul", "idiv", "ifcast", "bicast", "ibcast",
                          "inot", "bnot", "flt", "feq", "ieq", "beq"}
  /\ f.inst[i].op = "call" => IsDdx(i)

\* Postorder: the instructions that these lead to, with them.
Successors(S) ==
  LET users(T) == {i \in UNION {Uses(f, Res(j)) : j \in T} : Differentiable(i)}
      reached[n \in 0 .. Len(f.inst)] ==
        IF n = 0 THEN {i \in S : Differentiable(i)}
        ELSE LET T == reached[n - 1] IN T \cup users(T)
  IN  reached[Len(f.inst)]

Reaches(u) == Successors(Uses(f, problem.unknowns[u]))

depends_on(a, v, d) ==
  \/ Len(d) = 1 /\ a.unknowns[d[1]] = v
  \/ IsRes(v) /\ d \in a.reach[InstOf(v)]

\* Instructions from which a derivative of higher order starts.
Spawns(a, i, d) ==
  LET x     == f.inst[i]
      prev  == previous_order(d)
      first == <<base(d)>>
      on(k, e) == depends_on(a, x.args[k], e)
  IN  /\ prev \in a.reach[i] /\ first \in a.reach[i]
      /\ x.op \notin {"optbarrier", "fneg", "fadd", "fsub", "phi", "call"}
      /\ x.op \in {"fmul", "fdiv"} =>
           \/ x.op = "fdiv" /\ on(2, first) /\ on(2, prev)
           \/ on(1, first) /\ on(2, prev)
           \/ on(1, prev) /\ on(2, first)

\* Mutant: a new derivative is taken to be zero everywhere.
populate_reachable_Forgotten(a, d) == a

populate_reachable(a, d) ==
  LET S == Successors({i \in Placed(f) : Spawns(a, i, d)})
  IN  [a EXCEPT !.reach = [i \in DOMAIN @ |-> IF i \in S THEN @[i] \cup {d} ELSE @[i]]]

-----------------------------------------------------------------------------
(* live_derivatives.rs                                                     *)

compute_inst(a, g, i) == UNION {a.live[u] : u \in Uses(g, Res(i)) \cap DOMAIN a.live}

\* raise_order_with: by u first, then by what d is taken by, as long as this is
\* reachable; only the last derivative that is interned is reported.
RaiseOrder(a, i, d, u) ==
  LET raise(s, v) ==
        IF ~s.ok \/ <<v>> \notin a.reach[i] THEN [s EXCEPT !.ok = FALSE]
        ELSE LET e == Append(s.d, v)
             IN  [ok |-> TRUE, d |-> e, a |-> intern(s.a, e), created |-> e \notin ToSet(s.a.derivs)]
  IN  FoldLeft(raise, [ok |-> TRUE, d |-> <<u>>, a |-> a, created |-> FALSE], d)

\* What a ddx call asks of its argument when these are asked of it.
Ddx(a, i, old) ==
  LET raise(u, s, d) ==
        LET r == RaiseOrder(s.a, i, d, u)
        IN  IF ~r.ok THEN [s EXCEPT !.a = r.a]
            ELSE [a |-> IF r.created THEN populate_reachable(r.a, r.d) ELSE r.a,
                  dst |-> s.dst \cup {r.d}]
      one(s, u) ==
        LET t == FoldLeft(LAMBDA q, d : raise(u, q, d), s, InOrder(a, old))
        IN  [t EXCEPT !.dst = @ \cup {<<u>>}]
      call == problem.ddx[f.inst[i].key]
      unknowns == Ascending(call.pos) \o Ascending(call.neg)
  IN  FoldLeft(one, [a |-> a, dst |-> old], unknowns)

\* The instructions that an unknown leads to are put in the work list users first.
\* (Post-order visits; here the reverse of the layout.)
Analyse ==
  LET n == Len(problem.unknowns)
      reach == [i \in DOMAIN f.inst |-> {<<u>> : u \in {u \in 1 .. n : i \in Reaches(u)}}]
      extra(i) == {<<e[2]>> : e \in {e \in ToSet(problem.extras) : f.outs[e[1]] = Res(i)}}
      visited == {i \in DOMAIN f.inst : reach[i] # {}}
  IN  /\ pc = "analyse"
      /\ ad' = [NoAD EXCEPT !.unknowns = problem.unknowns,
                            !.derivs = [u \in 1 .. n |-> <<u>>],
                            !.reach = Table(reach),
                            !.live = [i \in DOMAIN f.inst |-> extra(i)],
                            !.visited = visited,
                            !.queue = SelectSeq(Reverse(InstSeq(f)), LAMBDA i : i \in visited)]
      /\ pc' = "live"
      /\ UNCHANGED <<job, f, todo, work, gvn, next, problem>>

\* live_derivative_fixpoint; a row is overwritten by what the users ask for.
PopLive ==
  LET i   == Head(ad.queue)
      old == compute_inst(ad, f, i)
      r   == IF IsDdx(i) THEN Ddx(ad, i, old) ELSE [a |-> ad, dst |-> old]
      changed == r.dst # {} /\ r.dst # r.a.live[i]
      defs == {InstOf(v) : v \in {v \in ToSet(f.inst[i].args) : IsRes(v)}}
      more == {j \in defs \cap r.a.visited : j \notin ToSet(Tail(r.a.queue))}
  IN  /\ pc = "live" /\ ad.queue # <<>>
      /\ ad' = [r.a EXCEPT !.queue = Tail(@) \o IF changed THEN Ascending(more) ELSE <<>>,
                           !.live[i] = IF changed THEN r.dst ELSE @]
      /\ UNCHANGED <<job, f, pc, todo, work, gvn, next, problem>>

strip_unneeded_derivatives ==
  /\ pc = "live" /\ ad.queue = <<>>
  /\ ad' = [ad EXCEPT !.live = [i \in DOMAIN @ |-> @[i] \cap ad.reach[i]],
                      !.conversions = [i \in DOMAIN f.inst |-> <<>>]]
  /\ pc' = "subgraph" /\ todo' = InstSeq(f)
  /\ UNCHANGED <<job, f, work, gvn, next, problem>>

-----------------------------------------------------------------------------
(* subgraph.rs                                                             *)

\* The given unknowns that a derivative is taken by last, seen through the unknowns
\* that stand for the entries of subgraphs.
off == Len(problem.unknowns)
LastUnknowns(a, d) == IF base(d) > off THEN a.completed[base(d) - off] ELSE {base(d)}
AllUnknowns(a, row) == UNION {LastUnknowns(a, d) : d \in row}

\* What depends on the unknowns of the entry through the entry alone.
Subgraph(a, entry) ==
  LET unknowns == AllUnknowns(a, a.live[entry])
      inside(i, S) ==
        \A v \in ToSet(f.inst[i].args) :
          IF IsRes(v) THEN \/ InstOf(v) \in S
                           \/ AllUnknowns(a, a.live[InstOf(v)]) \cap unknowns = {}
          ELSE \A u \in unknowns : a.unknowns[u] # v
      fits(i, S) ==
        /\ f.inst[i].op \notin {"phi", "call"} /\ Differentiable(i)
        /\ \E u \in unknowns : <<u>> \in a.live[i]
        /\ inside(i, S)
      step[n \in 0 .. Len(f.inst)] ==
        IF n = 0 THEN {entry}
        ELSE LET S == step[n - 1]
             IN  S \cup {i \in UNION {Uses(f, Res(j)) : j \in S} : fits(i, S)}
  IN  step[Len(f.inst)] \ {entry}

IsOutput(i) == \E e \in ToSet(problem.extras) : f.outs[e[1]] = Res(i)
OnEdge(i, S) == IsOutput(i) \/ Uses(f, Res(i)) \ S # {}

\* derivative_map for a member: each of its derivatives with the one by the entry's
\* value that replaces it, and the derivative of the entry that this is multiplied by.
DerivativeMap(a, entry, i) ==
  LET e == Len(a.unknowns)
      own == InOrder(a, a.live[entry])
      start == [k \in DOMAIN own |-> [old |-> own[k], new |-> <<e>>, inner |-> own[k]]]
      put(m, x) == IF \E k \in DOMAIN m : m[k].old = x.old
                   THEN [k \in DOMAIN m |-> IF m[k].old = x.old THEN x ELSE m[k]]
                   ELSE Append(m, x)
      higher(m, d) ==
        LET prev == SelectSeq(m, LAMBDA x : x.old = previous_order(d))
        IN  IF Len(d) = 1 \/ prev = <<>> THEN m
            ELSE put(m, [old |-> d, new |-> Append(prev[1].new, base(d)), inner |-> prev[1].inner])
  IN  FoldLeft(higher, start, InOrder(a, a.live[i]))

\* Chain rules of a later subgraph, whose entry is inside of this one, come first.
Through(entry, S) ==
  LET member(a, i) ==
        LET m == DerivativeMap(a, entry, i)
            b == FoldLeft(LAMBDA s, x : intern(s, x.new), a, m)
            olds == {m[k].old : k \in DOMAIN m}
            news == {m[k].new : k \in DOMAIN m}
        IN  [b EXCEPT !.live[i] = (@ \ olds) \cup news,
                      !.conversions[i] =
                         IF OnEdge(i, S) THEN [k \in DOMAIN m |-> <<Res(entry), m[k]>>] \o @ ELSE @]
      e == Len(ad.unknowns) + 1
      a == [ad EXCEPT !.unknowns = Append(@, Res(entry)),
                      !.derivs = Append(@, <<e>>),
                      !.completed = Append(@, AllUnknowns(ad, ad.live[entry]))]
  IN  FoldLeft(member, a, Ascending(S))

explore_subgraph ==
  LET i == Head(todo)
      S == Subgraph(ad, i)
      n == Cardinality(ad.live[i])
      members == Cardinality(S)
      saved == members * (n - 1)
      extra == n * Cardinality({j \in S : OnEdge(j, S)})
      worth == /\ n >= 2 /\ Len(f.inst[i].args) >= 2
               /\ saved > extra + 4 /\ ((saved - extra) * 100) \div members > 15
  IN  /\ pc = "subgraph" /\ todo # <<>>
      /\ todo' = Tail(todo)
      /\ ad' = IF worth THEN Through(i, S) ELSE ad
      /\ UNCHANGED <<job, f, pc, work, gvn, next, problem>>

\* build_derivatives: an unknown's derivative by itself is one.
StartBuild ==
  /\ pc = "subgraph" /\ todo = <<>>
  /\ pc' = "build" /\ todo' = InstSeq(f)
  /\ ad' = [ad EXCEPT !.dv = [k \in {<<ad.unknowns[u], u>> : u \in DOMAIN ad.unknowns} |-> FOne]]
  /\ UNCHANGED <<job, f, work, gvn, next, problem>>

-----------------------------------------------------------------------------
(* DerivativeBuilder: s is the function f, the table dv of derivatives,    *)
(* the instruction dst behind which the next one is placed, the block new  *)
(* at whose start it is placed instead, and val, the value made last       *)

give(s, v) == [s EXCEPT !.val = v]

\* dst is not in the block new.
Place(g, i, s) ==
  LET at == IF s.new # 0 THEN s.new ELSE BlockOf(g, s.dst)
  IN  [g EXCEPT !.body[at] = InsertAt(@, SelectInSeq(@, LAMBDA j : j = s.dst) + 1, i)]

InsertInst(s, x) ==
  LET i == Len(s.f.inst) + 1
  IN  [s EXCEPT !.f = Place([@ EXCEPT !.inst = Append(@, x)], i, s),
                !.dst = i, !.new = 0, !.val = Res(i)]
ins(s, op, args) == InsertInst(s, Op(op, args))

derivative_of_1(dv, v, u) == IF <<v, u>> \in DOMAIN dv THEN dv[<<v, u>>] ELSE FZero
derivative_of(dv, v, d) ==
  LET by(s, u) == IF s.zero \/ <<s.val, u>> \notin DOMAIN dv THEN [zero |-> TRUE, val |-> FZero]
                  ELSE [zero |-> FALSE, val |-> dv[<<s.val, u>>]]
  IN  FoldLeft(by, [zero |-> FALSE, val |-> v], d).val

Store(s, v, u, val)      == [s EXCEPT !.dv = (<<v, u>> :> val) @@ @]
insert_derivative(s, v, u) == IF s.val = FZero THEN s ELSE Store(s, v, u, s.val)

\* inst_cache: what the derivatives of an instruction x -> r share: instructions, which
\* name those before them as Made(k), and the values of the cache.
Made(k) == -k
Recipe(op, x, y, r) ==
  LET square == <<"fmul", x, x>>
      last(is) == [make |-> is, cache |-> <<Made(Len(is))>>]
  IN  CASE op = "fdiv"  -> last(<<<<"fmul", y, y>>>>)
        [] op = "exp"   -> last(<<<<"exp", x>>>>)
        [] op \in {"hypot", "sqrt"} -> last(<<<<"fmul", FTwo, r>>>>)
        [] op = "ln"    -> [make |-> <<>>, cache |-> <<x>>]
        [] op = "sin"   -> last(<<<<"cos", x>>>>)
        [] op = "cos"   -> last(<<<<"sin", x>>, <<"fneg", Made(1)>>>>)
        [] op = "tan"   -> last(<<<<"fmul", r, r>>, <<"fadd", FOne, Made(1)>>>>)
        [] op = "asin"  -> last(<<square, <<"fsub", FOne, Made(1)>>, <<"sqrt", Made(2)>>>>)
        [] op = "acos"  -> last(<<square, <<"fsub", FOne, Made(1)>>, <<"sqrt", Made(2)>>,
                                  <<"fneg", Made(3)>>>>)
        [] op = "atan"  -> last(<<square, <<"fadd", FOne, Made(1)>>>>)
        [] op = "atan2" -> [make |-> <<square, <<"fmul", y, y>>, <<"fadd", Made(1), Made(2)>>>>,
                            cache |-> <<y, x, Made(3)>>]
        [] op = "sinh"  -> last(<<<<"cosh", x>>>>)
        [] op = "cosh"  -> last(<<<<"sinh", x>>>>)
        [] op = "tanh"  -> last(<<<<"fmul", r, r>>, <<"fsub", FOne, Made(1)>>>>)
        [] op = "asinh" -> last(<<square, <<"fadd", FOne, Made(1)>>, <<"sqrt", Made(2)>>>>)
        [] op = "acosh" -> last(<<square, <<"fsub", Made(1), FOne>>, <<"sqrt", Made(2)>>>>)
        [] op = "atanh" -> last(<<square, <<"fsub", FOne, Made(1)>>>>)
        [] op = "pow"   -> IF x = y THEN [make |-> <<<<"ln", x>>>>, cache |-> <<FOne, Made(1), r>>]
                           ELSE [make |-> <<<<"fdiv", y, x>>, <<"ln", x>>>>,
                                 cache |-> <<Made(1), Made(2), r>>]
        [] OTHER        -> [make |-> <<>>, cache |-> <<>>]

inst_cache(s, i) ==
  LET x == s.f.inst[i]
      n == Len(s.f.inst)
      real(v) == IF v < 0 THEN Res(n - v) ELSE v
      make(t, m) == ins(t, m[1], [k \in 1 .. Len(m) - 1 |-> real(m[k + 1])])
      follow(r) == [FoldLeft(make, s, r.make) EXCEPT
                      !.caches = Append(@, [k \in DOMAIN r.cache |-> real(r.cache[k])])]
  IN  follow(Recipe(x.op, x.args[1], Last(x.args), Res(i)))

\* A' * exp(C) + x * C' for x = A * exp(C).
simplified_mul(s, lhs, dlhs, rhs, res) ==
  LET factors(m) == IF m = <<>> THEN <<dlhs, rhs>>
                    ELSE IF m[1] = lhs THEN <<res, m[2]>>
                    ELSE IF m[2] = lhs THEN <<res, m[1]>>
                    ELSE <<dlhs, rhs>>
  IN  ins(s, "fmul", factors(IF IsRes(dlhs) /\ s.f.inst[InstOf(dlhs)].op = "fmul"
                             THEN s.f.inst[InstOf(dlhs)].args ELSE <<>>))

\* s and t have made the two terms, one after the other.
Sum(op, s, t) == ins(t, op, <<s.val, t.val>>)

gen_mul_derivative(s, x, y, r, dx, dy) ==
  LET term(t, v, dv, w) ==
        IF dv = FZero THEN give(t, FZero)
        ELSE IF dv = FOne THEN give(t, w)
        ELSE IF dv = v THEN give(t, r)
        ELSE simplified_mul(t, v, dv, w, r)
      add(t, u) == IF dy = FZero THEN t ELSE IF dx = FZero THEN u ELSE Sum("fadd", t, u)
      second(t) == add(t, term(t, y, dy, x))
  IN  second(term(s, x, dx, y))

\* f' / g - g' * f / g^2
gen_div_derivative(s, x, y, r, dx, dy, cache) ==
  LET first == IF dx = FZero THEN give(s, FZero)
               ELSE IF dx = x THEN give(s, r) ELSE ins(s, "fdiv", <<dx, y>>)
      top(t)  == IF dy = FOne THEN give(t, x)
                 ELSE IF dy = y THEN give(t, r) ELSE ins(t, "fmul", <<dy, x>>)
      over(t) == ins(t, "fdiv", <<t.val, cache[1]>>)
      second(t) == IF dy = FZero THEN t
                   ELSE IF dy = y /\ t.val = r THEN give(s, FZero)
                   ELSE Sum("fsub", t, over(top(t)))
  IN  second(first)

\* (dx * cache[1] + dy * cache[2]) * cache[3], for pow; and for atan2, with y, x and
\* x^2 + y^2, although the comment in inst_cache says (x' * y - y' * x) / (x^2 + y^2).
gen_pow_derivative(s, dx, dy, cache) ==
  LET first == IF dx = FZero THEN give(s, FZero)
               ELSE IF dx = FOne THEN give(s, cache[1])
               ELSE IF cache[1] = FOne THEN give(s, dx)
               ELSE ins(s, "fmul", <<dx, cache[1]>>)
      term(t) == IF dy = FOne THEN give(t, cache[2]) ELSE ins(t, "fmul", <<dy, cache[2]>>)
      add(t, u) == IF dy = FZero THEN t
                   ELSE IF t.val = FZero THEN u ELSE Sum("fadd", t, u)
      second(t) == add(t, term(t))
      outer(t) == IF t.val = FZero THEN t ELSE ins(t, "fmul", <<t.val, cache[3]>>)
  IN  outer(second(first))

InstDerivative(s, i, u, cache) ==
  LET x  == s.f.inst[i]
      d(k) == derivative_of_1(s.dv, x.args[k], u)
      a1 == x.args[1]
      a2 == Last(x.args)
      r  == Res(i)
      over(t) == ins(t, "fdiv", <<t.val, cache[1]>>)
  IN  CASE x.op = "fneg" -> ins(s, "fneg", <<d(1)>>)
        [] x.op = "optbarrier" -> give(s, d(1))
        [] x.op \in {"fadd", "fsub"} -> ins(s, x.op, <<d(1), d(2)>>)
        [] x.op = "fmul" -> gen_mul_derivative(s, a1, a2, r, d(1), d(2))
        [] x.op = "fdiv" -> gen_div_derivative(s, a1, a2, r, d(1), d(2), cache)
        [] x.op \in {"exp", "sin", "cos", "sinh", "cosh", "tan", "tanh"} ->
             IF d(1) = FZero THEN give(s, FZero)
             ELSE IF d(1) = FOne THEN give(s, cache[1])
             ELSE ins(s, "fmul", <<d(1), cache[1]>>)
        [] x.op \in {"ln", "sqrt", "asin", "acos", "atan", "asinh", "acosh", "atanh"} ->
             IF d(1) = FZero THEN give(s, FZero) ELSE ins(s, "fdiv", <<d(1), cache[1]>>)
        [] x.op \in {"pow", "atan2"} -> gen_pow_derivative(s, d(1), d(2), cache)
        [] x.op = "hypot" -> over(ins(s, "fadd", <<d(1), d(2)>>))
        [] OTHER -> give(s, FZero)

inst_derivative(s, i, u, cache) ==
  insert_derivative(InstDerivative(s, i, u, cache), Res(i), u)

\* build_normal_inst_derivatives: one derivative after the other, each by
\* differentiating the instructions that make up the previous order and what they
\* share. resolved names these instructions for every derivative that was built.
MadeSince(n, s) == [k \in 1 .. Len(s.f.inst) - n |-> n + k]

ensure_cache(s, prev) ==
  LET keep(n, t) == [t EXCEPT !.shared = (prev :> [insts |-> MadeSince(n, t), data |-> t.caches]) @@ @]
  IN  IF prev \in DOMAIN s.shared THEN s
      ELSE keep(Len(s.f.inst), FoldLeft(inst_cache, [s EXCEPT !.caches = <<>>], s.resolved[prev]))

BuildNormal(s0, i, row) ==
  LET step(s, j, u, cache) == IF <<Res(j), u>> \in DOMAIN s.dv THEN s ELSE inst_derivative(s, j, u, cache)
      steps(s, insts, u, data) ==
        FoldLeft(LAMBDA q, k : step(q, insts[k], u, data[k]), s, [k \in DOMAIN insts |-> k])
      resolve(n, s, d, insts) == [s EXCEPT !.resolved = (d :> (insts \o MadeSince(n, s))) @@ @]
      higher(s, prev, d) ==
        resolve(Len(s.f.inst), steps(s, s.resolved[prev], base(d), s.shared[prev].data), d,
                s.shared[prev].insts)
      one(s, d) == higher(ensure_cache(s, previous_order(d)), previous_order(d), d)
  IN  FoldLeft(one, [s0 EXCEPT !.resolved = <<>> :> <<i>>, !.shared = <<>>], row)

\* The products of the outer and inner derivatives at the edge of a subgraph.
insert_conversions(s, i) ==
  LET keep(t, prev, u) == Store(t, prev, u, t.val)
      product(t, outer, inner, old) ==
        IF outer = FZero \/ inner = FZero THEN t
        ELSE keep(ins(t, "fmul", <<inner, outer>>),
                  derivative_of(t.dv, Res(i), previous_order(old)), base(old))
      one(t, c) == product(t, derivative_of(t.dv, Res(i), c[2].new),
                           derivative_of(t.dv, c[1], c[2].inner), c[2].old)
  IN  FoldLeft(one, s, ad.conversions[i])

\* A ddx call gives way to the sum of the derivatives it asks for. Its own
\* derivatives would come next, but replace_uses has left it without users.
ddx(s, arg, call, d) ==
  LET add(t, v) == IF v = FZero THEN t
                   ELSE IF t.val = FZero THEN give(t, v) ELSE ins(t, "fadd", <<t.val, v>>)
      sub(t, v) == IF v = FZero THEN t
                   ELSE IF t.val = FZero THEN ins(t, "fneg", <<v>>)
                   ELSE ins(t, "fsub", <<t.val, v>>)
      by(t, u) == derivative_of(t.dv, arg, <<u>> \o d)
      added(t) == FoldLeft(LAMBDA q, u : add(q, by(q, u)), t, Ascending(call.pos))
      taken(t) == FoldLeft(LAMBDA q, u : sub(q, by(q, u)), t, Ascending(call.neg))
  IN  taken(added(give(s, FZero)))

BuildDdx(s, i) ==
  LET call == problem.ddx[s.f.inst[i].key]
      arg  == s.f.inst[i].args[1]
      gone(t) == [t EXCEPT !.f = RemoveInst(Replace(@, Res(i), t.val), i)]
      keep(t, val, d) == insert_derivative(t, derivative_of(t.dv, val, previous_order(d)), base(d))
      own(t, val) == FoldLeft(LAMBDA q, d : keep(ddx(q, arg, call, d), val, d), t,
                              InOrder(ad, compute_inst(ad, t.f, i)))
      replace(t) == own(gone(t), t.val)
  IN  replace(ddx(s, arg, call, <<>>))

\* A phi over a result of the function is copied, and the copy's arguments are
\* replaced in the end; over other values its derivatives are known.
BuildPhi(s, i, row) ==
  LET x == s.f.inst[i]
      is_cyclical == \E v \in ToSet(x.args) : IsRes(v) /\ InstOf(v) <= Len(problem.func.inst)
      prev(t, d) == derivative_of(t.dv, Res(i), previous_order(d))
      keep(t, d) == Store(t, prev(t, d), base(d), t.val)
      mark(t, d) == [t EXCEPT !.cyclical = Append(@, <<t.dst, d>>)]
      copy(t, d) == mark(keep(InsertInst(t, Phi(x.from, x.args)), d), d)
      over(t, d, args) ==
        IF \A k \in DOMAIN args : args[k] = args[1]
        THEN insert_derivative(give(t, args[1]), prev(t, d), base(d))
        ELSE keep(InsertInst(t, Phi(x.from, args)), d)
      build(t, d) == over(t, d, [k \in DOMAIN x.args |-> derivative_of(t.dv, x.args[k], d)])
  IN  IF is_cyclical THEN FoldLeft(copy, s, row) ELSE FoldLeft(build, s, row)

\* split_block behind the instruction dst, with a block in between that is skipped if
\* the condition holds: old block, calculate_derivative_block, new block.
SplitBlock(g, old, dst, cond) ==
  LET rest == Len(g.body) + 1
      calc == rest + 1
      k    == SelectInSeq(g.body[old], LAMBDA j : j = dst)
      at   == SelectInSeq(g.layout, LAMBDA b : b = old)
      edge(x) == IF x.op = "phi" THEN [x EXCEPT !.from = [n \in DOMAIN @ |-> Subst(old, rest, @[n])]]
                 ELSE x
  IN  [g EXCEPT
         !.inst = [j \in DOMAIN @ |-> edge(@[j])],
         !.layout = SubSeq(@, 1, at) \o <<calc, rest>> \o SubSeq(@, at + 1, Len(@)),
         !.body = [@ EXCEPT ![old] = SubSeq(@, 1, k)] \o <<SubSeq(g.body[old], k + 1, Len(g.body[old])), <<>>>>,
         !.term = [@ EXCEPT ![old] = Term(cond, <<rest, calc>>)] \o <<g.term[old], Term(0, <<rest>>)>>]

\* The derivatives of a power are zero where its base is.
BuildPow(s, i, row) ==
  LET old   == BlockOf(s.f, i)
      rest  == Len(s.f.body) + 1
      split(t) == [t EXCEPT !.f = SplitBlock(@, old, t.dst, t.val), !.dst = i, !.new = rest + 1]
      built(t) == [BuildNormal(t, i, row) EXCEPT !.new = rest]
      note(t, vals, d) == [s |-> t, vals |-> Append(vals, <<d, t.val>>)]
      guard(q, v, d) ==
        IF v = FZero THEN q
        ELSE note(InsertInst(q.s, Phi(<<old, rest + 1>>, <<FZero, v>>)), q.vals, d)
      guarded(t) == FoldLeft(LAMBDA q, d : guard(q, derivative_of(t.dv, Res(i), d), d),
                             [s |-> t, vals |-> <<>>], row)
      record(t, x) == Store(t, derivative_of(t.dv, Res(i), previous_order(x[1])), base(x[1]), x[2])
      recorded(q) == FoldLeft(record, q.s, q.vals)
  IN  recorded(guarded(built(split(ins(s, "feq", <<s.f.inst[i].args[1], FZero>>)))))

\* build_inst_derivatives
Derivatives(s, i, row) ==
  LET op == s.f.inst[i].op
      built == IF op = "phi" THEN BuildPhi(s, i, row)
               ELSE IF row = <<>> THEN s
               ELSE IF op = "pow" THEN BuildPow(s, i, row) ELSE BuildNormal(s, i, row)
  IN  IF op = "call" THEN (IF IsDdx(i) THEN BuildDdx(s, i) ELSE s) ELSE insert_conversions(built, i)

BuildInst ==
  LET i  == Head(todo)
      s0 == [f |-> f, dv |-> ad.dv, dst |-> i, new |-> 0, val |-> FZero, caches |-> <<>>,
             shared |-> <<>>, resolved |-> <<>>, cyclical |-> ad.cyclical]
  IN  /\ pc = "build" /\ todo # <<>>
      /\ todo' = Tail(todo)
      /\ \E s \in {Derivatives(s0, i, InOrder(ad, ad.live[i]))} :
           /\ f' = s.f
           /\ ad' = [ad EXCEPT !.dv = s.dv, !.cyclical = s.cyclical]
      /\ UNCHANGED <<job, pc, work, gvn, next, problem>>

\* The copied phis get the derivatives of their arguments, and build_jacobian makes
\* outputs of the derivatives that were asked for. The passes of Context::optimize
\* start from this function.
FinishPhis ==
  LET fill(g, c) ==
        [g EXCEPT !.inst[c[1]].args = [k \in DOMAIN @ |-> derivative_of(ad.dv, @[k], c[2])]]
      g == FoldLeft(fill, f, ad.cyclical)
      jacobian == [k \in DOMAIN problem.extras |->
                     derivative_of_1(ad.dv, g.outs[problem.extras[k][1]], problem.extras[k][2])]
  IN  /\ pc = "build" /\ todo = <<>>
      /\ f' = [g EXCEPT !.outs = @ \o jacobian]
      /\ job' = f' /\ todo' = InstSeq(f')
      /\ pc' = "combine" /\ ad' = NoAD
      /\ UNCHANGED <<work, gvn, next, problem>>

-----------------------------------------------------------------------------

DiffInit ==
  \/ Init /\ problem = NoProblem /\ ad = NoAD
  \/ /\ problem \in Problems
     /\ job = problem.func /\ f = job
     /\ pc = "analyse" /\ todo = <<>> /\ work = <<>>
     /\ gvn = NoGVN /\ next = 1 /\ ad = NoAD

DiffNext ==
  \/ Analyse \/ PopLive \/ strip_unneeded_derivatives \/ explore_subgraph
  \/ StartBuild \/ BuildInst \/ FinishPhis
  \/ Next /\ UNCHANGED <<problem, ad>>

\* One thread, as in ValueNumbering.
DiffRuns == []<>(pc = "done") \/ []<><<TRUE>>_diffVars
DiffSpec == DiffInit /\ [][DiffNext \/ (Done /\ UNCHANGED <<problem, ad>>)]_diffVars /\ DiffRuns

-----------------------------------------------------------------------------
(* Properties                                                              *)

\* The outputs, and the entries of the Jacobian.
Right(jets) ==
  LET zero == [u \in 1 .. off |-> 0]
  IN  [k \in DOMAIN jets |-> jets[k][zero]] \o
      [k \in DOMAIN problem.extras |-> jets[problem.extras[k][1]][One(zero, problem.extras[k][2])]]

\* Whatever a ddx call stands for and whatever the Jacobian names has, after the
\* analysis, the builder, simplification and numbering, the value of the derivative
\* itself: no order, path or unknown was taken to be zero or counted twice.
DerivativesRight ==
  pc = "done" /\ problem # NoProblem =>
    \A ps \in Samples :
      Agree(Right(Jets(problem.func, problem.unknowns, problem.order, problem.ddx, ps, Fuel)),
            Outputs(f, ps, Fuel))

=============================================================================
