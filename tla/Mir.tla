-------------------------------- MODULE Mir --------------------------------
(***************************************************************************)
(* Functions of the intermediate representation as the optimisation passes *)
(* edit them: blocks in layout order, phis at the head of a block, other   *)
(* instructions, a terminator; the flow graph that is kept beside them;    *)
(* and what a function does when it runs.                                  *)
(*                                                                         *)
(* Blocks and values are numbers. The data is Boolean: a value is FALSE,   *)
(* TRUE, a parameter or a result. Instructions are named by their result,  *)
(* terminators by their block. How lists are linked is the subject of      *)
(* Layout and UseLists; here they are sequences and sets.                  *)
(***************************************************************************)
EXTENDS Integers, Sequences, FiniteSets, SequencesExt

None == 0                   \* no block
NoValue == -1               \* an operand that is in no use list
FalseVal == 0  TrueVal == 1 \* mir::FALSE, mir::TRUE
Consts == {FalseVal, TrueVal}

\* A phi, by its result, maps predecessors to values; body instructions are
\* "bnot", "call" or "optbarrier"; a call is named by what it writes. A terminator
\* has its destinations (Exit none, Jump one, Branch <<then, else>>), its condition,
\* and the value whose use list the condition's use is in.
Inst(op, arg, res) == [op |-> op, arg |-> arg, res |-> res]
Branch(cond, then_dst, else_dst, loop_entry) ==
  [dst |-> <<then_dst, else_dst>>, cond |-> cond, use |-> cond, loop_entry |-> loop_entry]
Jump(b) == [dst |-> <<b>>, cond |-> NoValue, use |-> NoValue, loop_entry |-> FALSE]
Exit    == [dst |-> <<>>, cond |-> NoValue, use |-> NoValue, loop_entry |-> FALSE]

IsBranch(f, b) == Len(f.term[b].dst) = 2
IsJump(f, b)   == Len(f.term[b].dst) = 1
IsExit(f, b)   == f.term[b].dst = <<>>

Blocks(f)      == ToSet(f.layout)
Phis(f, b)     == ToSet(f.phis[b])
AllPhis(f)     == UNION {Phis(f, b) : b \in Blocks(f)}
entry_block(f) == f.layout[1]
last_block(f)  == f.layout[Len(f.layout)]

\* The same function, evaluated at once.
Table(f) == CHOOSE g \in {f} : g = f

\* The values of one function before those of another.
Override(f, g) == Table([x \in DOMAIN f \cup DOMAIN g |-> IF x \in DOMAIN f THEN f[x] ELSE g[x]])

\* A set of numbers in increasing order: sets of blocks and of values are kept so.
InOrder(S) ==
  [k \in 1 .. Cardinality(S) |-> CHOOSE x \in S : Cardinality({y \in S : y < x}) = k - 1]

\* A block that left the layout has no next block.
next_block(f, b) ==
  LET after == {k \in 2 .. Len(f.layout) : f.layout[k - 1] = b}
  IN  IF after = {} THEN None ELSE f.layout[CHOOSE k \in after : TRUE]

-----------------------------------------------------------------------------
(* Edits of the data flow graph                                            *)

\* The terminator itself is left as it is; its condition has no use any more.
zap_term(f, b) == [f EXCEPT !.term[b].use = NoValue]

RemovePhi(f, b, v) ==
  [f EXCEPT !.phis[b] = SelectSeq(@, LAMBDA w : w # v), !.edges[v] = <<>>]

Subst(v, w, x) == IF x = v THEN w ELSE x

\* Every use in the list of v gets w for its argument, whatever it had, and
\* moves to the list of w. A jump has no arguments to index: that panics.
replace_uses(f, v, w) ==
  [f EXCEPT
     !.edges = Table([phi \in DOMAIN @ |->
                        Table([p \in DOMAIN @[phi] |-> Subst(v, w, @[phi][p])])]),
     !.body  = Table([b \in DOMAIN @ |->
                        Table([k \in DOMAIN @[b] |-> [@[b][k] EXCEPT !.arg = Subst(v, w, @)]])]),
     !.term  = Table([b \in DOMAIN @ |->
                        IF @[b].use = v THEN [@[b] EXCEPT !.cond = w, !.use = w] ELSE @[b]]),
     !.panicked = @ \/ \E b \in DOMAIN f.term : f.term[b].use = v /\ ~IsBranch(f, b)]

\* The uses of a value: the instructions, and the blocks of terminators.
UsingPhis(f, v)   == {phi \in AllPhis(f) : \E p \in DOMAIN f.edges[phi] : f.edges[phi][p] = v}
UsingInsts(f, b, v) == {k \in DOMAIN f.body[b] : f.body[b][k].arg = v}
UsingBlocks(f, v) ==
  {b \in Blocks(f) : \/ Phis(f, b) \cap UsingPhis(f, v) # {}
                     \/ UsingInsts(f, b, v) # {}
                     \/ f.term[b].use = v}

\* remove_phi_edges: stops at the first phi without an edge from the block.
remove_phi_edges(f, b, pred) ==
  LET has(k) == pred \in DOMAIN f.edges[f.phis[b][k]]
      gone == {f.phis[b][k] : k \in {k \in DOMAIN f.phis[b] : \A j \in 1 .. k : has(j)}}
  IN  [f EXCEPT !.edges = Table([phi \in DOMAIN @ |->
         IF phi \in gone THEN Restrict(@[phi], DOMAIN @[phi] \ {pred}) ELSE @[phi]])]

\* update_phi_edges: the edge from `old` becomes one from `new`.
update_phi_edges(f, b, old, new) ==
  [f EXCEPT !.edges = Table([phi \in DOMAIN @ |->
     IF phi \notin Phis(f, b) THEN @[phi]
     ELSE (new :> @[phi][old]) @@ Restrict(@[phi], DOMAIN @[phi] \ {old})])]

remove_and_clear_block(f, b) ==
  [f EXCEPT !.layout = SelectSeq(@, LAMBDA c : c # b),
            !.phis[b] = <<>>, !.body[b] = <<>>]

-----------------------------------------------------------------------------
(* ControlFlowGraph: two slots of successors, sets of predecessors         *)

\* Successors::insert.
Insert(slots, b) == IF b \in ToSet(slots) THEN slots ELSE Append(slots, b)

add_edge(g, from, to) ==
  [g EXCEPT !.succ[from] = Insert(@, to), !.pred[to] = @ \cup {from}]

\* compute_block: the else edge first.
compute_block(g, f, b) ==
  FoldLeft(LAMBDA h, d : add_edge(h, b, d), g, Reverse(f.term[b].dst))

invalidate_block_successors(g, b) ==
  [succ |-> [g.succ EXCEPT ![b] = <<>>],
   pred |-> Table([c \in DOMAIN g.pred |->
                     IF c \in ToSet(g.succ[b]) THEN g.pred[c] \ {b} ELSE g.pred[c]])]

recompute_block(g, f, b) == compute_block(invalidate_block_successors(g, b), f, b)

compute(f) ==
  FoldLeft(LAMBDA h, b : compute_block(h, f, b),
           [succ |-> Table([b \in DOMAIN f.term |-> <<>>]),
            pred |-> Table([b \in DOMAIN f.term |-> {}])],
           f.layout)

\* replace: the predecessors of `old` go to `new`, once.
Redirect(slots, old, new) ==
  IF new \in ToSet(slots) THEN <<new>> ELSE ReplaceAll(slots, old, new)

replace(g, old, new) ==
  LET moved == [succ |-> Table([b \in DOMAIN g.succ |->
                                  IF b \in g.pred[old] THEN Redirect(g.succ[b], old, new)
                                  ELSE g.succ[b]]),
                pred |-> [g.pred EXCEPT ![old] = {}, ![new] = @ \cup g.pred[old]]]
  IN  invalidate_block_successors(moved, old)

self_loop(g, b)          == g.pred[b] \subseteq {b}
single_predecessor(g, b) == IF Cardinality(g.pred[b]) = 1 THEN CHOOSE p \in g.pred[b] : TRUE ELSE None
unique_succ(g, b)        == Len(g.succ[b]) = 1

-----------------------------------------------------------------------------
(* What a function does: phis together, instructions, the terminator. A    *)
(* value that was not computed is poison.                                  *)

Poison == 2

Read(vals, v) == IF v \in DOMAIN vals THEN vals[v] ELSE Poison
Bnot(x) == IF x = Poison THEN Poison ELSE 1 - x

Exec(s, i) ==
  IF i.op = "call" THEN [s EXCEPT !.out = Append(@, <<i.res, Read(s.vals, i.arg)>>)]
  ELSE LET x == Read(s.vals, i.arg)
           y == IF i.op = "bnot" THEN Bnot(x) ELSE x
       IN  [s EXCEPT !.vals = Table([v \in DOMAIN @ \cup {i.res} |-> IF v = i.res THEN y ELSE @[v]])]

RunBlock(f, s) ==
  LET b  == s.at
      in == Table([phi \in Phis(f, b) |->
                     IF s.from \in DOMAIN f.edges[phi] THEN Read(s.vals, f.edges[phi][s.from])
                     ELSE Poison])
      t  == FoldLeft(Exec, [s EXCEPT !.vals = Override(in, @)], f.body[b])
      c  == Read(t.vals, f.term[b].cond)
      to == IF IsExit(f, b) THEN None
            ELSE IF IsJump(f, b) THEN f.term[b].dst[1]
            ELSE f.term[b].dst[IF c = TrueVal THEN 1 ELSE 2]
  IN  [t EXCEPT !.at = to, !.from = b,
                !.bad = @ \/ (IsBranch(f, b) /\ c = Poison) \/ to \notin Blocks(f) \cup {None}]

\* The run for the given parameters, cut off after `fuel` blocks.
Run(f, params, fuel) ==
  LET start == [at |-> entry_block(f), from |-> None, out |-> <<>>, bad |-> FALSE,
                vals |-> Override(params, [c \in Consts |-> c])]
      state[n \in 0 .. fuel] ==
        IF n = 0 THEN start
        ELSE LET s == state[n - 1] IN IF s.at = None \/ s.bad THEN s ELSE RunBlock(f, s)
  IN  state[fuel]

=============================================================================
