----------------------------- MODULE ConstProp -----------------------------
(***************************************************************************)
(* sparse_conditional_constant_propagation of                              *)
(* openvaf/mir_opt/src/const_prop.rs: a solver with three work lists over  *)
(* a flat lattice and the edges that can be taken, then the rewriting. A   *)
(* step takes one entry from a list; the order within a list is left open. *)
(***************************************************************************)
EXTENDS SimplifyCfg

VARIABLES vals,               \* FlatSet of every value
          overdef_work_list, inst_work_list,   \* results of phis and bnots, <<"br", block>>
          block_work_list,
          draining,           \* the list that is emptied
          feasible_edges,     \* Successors that can be reached, per block
          executable_blocks

solver == <<vals, overdef_work_list, inst_work_list, block_work_list, draining,
            feasible_edges, executable_blocks>>

Top == 9  Bottom == 8         \* FlatSet; Elem(c) is c
Elem(x) == x \in Consts

\* The solver's own state, for the helpers that change it.
Solver == [vals |-> vals, over |-> overdef_work_list, insts |-> inst_work_list,
           blocks |-> block_work_list, turn |-> draining, edges |-> feasible_edges,
           exec |-> executable_blocks]

StoreSolver(s) ==
  /\ vals' = s.vals /\ overdef_work_list' = s.over /\ inst_work_list' = s.insts
  /\ block_work_list' = s.blocks /\ draining' = s.turn
  /\ feasible_edges' = s.edges /\ executable_blocks' = s.exec

Idle == [vals |-> <<>>, over |-> {}, insts |-> {}, blocks |-> {}, turn |-> "blocks",
         edges |-> <<>>, exec |-> {}]

\* Results of a block's instructions; values that are no result of any.
Results(f, b) == Phis(f, b) \cup {f.body[b][k].res : k \in {k \in DOMAIN f.body[b] : f.body[b][k].op = "bnot"}}
AllResults(f) == UNION {Results(f, b) : b \in Blocks(f)}

StartSolver(f, params) ==
  [Idle EXCEPT !.vals = [v \in AllResults(f) \cup Consts \cup params |->
                           IF v \in Consts THEN v ELSE IF v \in params THEN Top ELSE Bottom],
               !.edges = [b \in DOMAIN f.term |-> {}],
               !.exec = {entry_block(f)}, !.blocks = {entry_block(f)}]

-----------------------------------------------------------------------------

\* An instruction in a work list: a result, or the branch of a block.
Work(kind, at) == [kind |-> kind, at |-> at]

\* The instructions that read v.
Users(f, v) ==
  {Work("phi", phi) : phi \in UsingPhis(f, v)}
  \cup (UNION {{Work("bnot", f.body[b][k].res) :
                  k \in {k \in UsingInsts(f, b, v) : f.body[b][k].op = "bnot"}} : b \in Blocks(f)})
  \cup {Work("br", b) : b \in {b \in Blocks(f) : f.term[b].use = v}}

mark_overdefinied(s, v) ==
  IF s.vals[v] = Top THEN s
  ELSE [s EXCEPT !.vals[v] = Top, !.over = @ \cup Users(func, v)]

mark_const(s, v, c) ==
  IF Elem(s.vals[v]) THEN s
  ELSE [s EXCEPT !.vals[v] = c, !.insts = @ \cup Users(func, v)]

\* eval_phi: the edges that can be taken, in order, against what the phi holds.
Meet(s, phi, b) ==
  LET p1 == {p \in DOMAIN func.edges[phi] : b \in s.edges[p]}
      join(l, p) == LET x == s.vals[func.edges[phi][p]]
                    IN  IF l = Top \/ x = Top \/ (Elem(x) /\ Elem(l) /\ x # l) THEN Top ELSE x
  IN  FoldLeft(join, s.vals[phi], InOrder(p1))

eval_phi(s, phi, b) ==
  IF s.vals[phi] = Top THEN s
  ELSE LET l == Meet(s, phi, b)
       IN  IF l = Top THEN mark_overdefinied(s, phi)
           ELSE IF Elem(l) THEN mark_const(s, phi, l) ELSE s

eval_phis(s, b) == FoldLeft(LAMBDA t, phi : eval_phi(t, phi, b), s, func.phis[b])

eval_unary(s, i) ==
  LET x == s.vals[i.arg]
  IN  IF x = Bottom THEN s
      ELSE IF x = Top THEN mark_overdefinied(s, i.res)
      ELSE mark_const(s, i.res, Bnot(x))

\* Mutant: the phis of a block that runs already are not looked at again.
mark_edge_feasible_Once(s, b, dst) ==
  IF dst \in s.edges[b] THEN s
  ELSE LET t == [s EXCEPT !.edges[b] = @ \cup {dst}]
       IN  IF dst \in s.exec THEN t
           ELSE [t EXCEPT !.exec = @ \cup {dst}, !.blocks = @ \cup {dst}]

mark_edge_feasible(s, b, dst) ==
  IF dst \in s.edges[b] THEN s
  ELSE LET t == [s EXCEPT !.edges[b] = @ \cup {dst}]
       IN  IF dst \in s.exec THEN eval_phis(t, dst)
           ELSE [t EXCEPT !.exec = @ \cup {dst}, !.blocks = @ \cup {dst}]

eval_term(s, b) ==
  LET t == func.term[b]
  IN  IF IsExit(func, b) THEN s
      ELSE IF IsJump(func, b) THEN mark_edge_feasible(s, b, t.dst[1])
      ELSE IF Elem(s.vals[t.cond])
      THEN mark_edge_feasible(s, b, t.dst[IF s.vals[t.cond] = TrueVal THEN 1 ELSE 2])
      ELSE mark_edge_feasible(mark_edge_feasible(s, b, t.dst[2]), b, t.dst[1])

eval_inst(s, i) == IF i.op = "bnot" THEN eval_unary(s, i) ELSE s

-----------------------------------------------------------------------------
(* solve                                                                   *)

Solving == phase = "sccp" /\ ~func.panicked

\* One instruction of a list, if its block can run.
EvalWork(s, w) ==
  LET b == CHOOSE b \in Blocks(func) :
             IF w.kind = "br" THEN b = w.at ELSE w.at \in Results(func, b)
  IN  IF b \notin s.exec THEN s
      ELSE IF w.kind = "br" THEN eval_term(s, b)
      ELSE IF w.kind = "phi" THEN eval_phi(s, w.at, b)
      ELSE eval_unary(s, CHOOSE i \in ToSet(func.body[b]) : i.op = "bnot" /\ i.res = w.at)

\* A list is emptied before the next one has its turn.
Behind == [over |-> "insts", insts |-> "blocks", blocks |-> "over"]

Turn(s) ==
  LET next == Behind[s.turn]
  IN  [s EXCEPT !.turn = IF s[@] # {} THEN @ ELSE IF s[next] # {} THEN next ELSE Behind[next]]

PopOverdef ==
  /\ Solving /\ draining = "over"
  /\ \E w \in overdef_work_list :
       StoreSolver(Turn(EvalWork([Solver EXCEPT !.over = @ \ {w}], w)))
  /\ UNCHANGED <<func, cfg, phase, simplify>>

PopInst ==
  /\ Solving /\ draining = "insts"
  /\ \E w \in inst_work_list :
       StoreSolver(Turn(EvalWork([Solver EXCEPT !.insts = @ \ {w}], w)))
  /\ UNCHANGED <<func, cfg, phase, simplify>>

\* A block is evaluated from its phis to its terminator.
EvalBlock(s, b) ==
  eval_term(FoldLeft(eval_inst, eval_phis([s EXCEPT !.blocks = @ \ {b}], b), func.body[b]), b)

PopBlock ==
  /\ Solving /\ draining = "blocks"
  /\ \E b \in block_work_list : StoreSolver(Turn(EvalBlock(Solver, b)))
  /\ UNCHANGED <<func, cfg, phase, simplify>>

-----------------------------------------------------------------------------
(* The rewriting                                                           *)

RemoveResult(f, v) ==
  [f EXCEPT !.phis = Table([b \in DOMAIN @ |-> SelectSeq(@[b], LAMBDA w : w # v)]),
            !.edges = Table([w \in DOMAIN @ |-> IF w = v THEN <<>> ELSE @[w]]),
            !.body = Table([b \in DOMAIN @ |-> SelectSeq(@[b], LAMBDA i : i.res # v)])]

\* Constants replace their value; other results go with a block that cannot run,
\* but stay in the last block.
Rewrite(f, v) ==
  IF Elem(vals[v]) THEN RemoveResult(replace_uses(f, v, vals[v]), v)
  ELSE IF \E b \in Blocks(f) \ (executable_blocks \cup {last_block(f)}) : v \in Results(f, b)
  THEN RemoveResult(f, v) ELSE f

\* Loops that cannot run are broken: the condition is overwritten, its use not.
BreakLoops(f) ==
  [f EXCEPT !.term = [b \in DOMAIN @ |->
     IF b \in Blocks(f) \ executable_blocks /\ IsBranch(f, b)
     THEN [@[b] EXCEPT !.cond = FalseVal] ELSE @[b]]]

Propagate ==
  /\ Solving /\ overdef_work_list = {} /\ inst_work_list = {} /\ block_work_list = {}
  /\ func' = BreakLoops(FoldLeft(Rewrite, func, InOrder(AllResults(func))))
  /\ phase' = "next" /\ StoreSolver(Idle)
  /\ UNCHANGED <<cfg, simplify>>

ConstPropNext == PopOverdef \/ PopInst \/ PopBlock \/ Propagate

=============================================================================
