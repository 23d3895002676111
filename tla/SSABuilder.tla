----------------------------- MODULE SSABuilder -----------------------------
(***************************************************************************)
(* SSABuilder<IncompleteCfg> (openvaf/mir_build/src/ssa.rs): SSA           *)
(* construction while the control flow graph is still being built.         *)
(*                                                                         *)
(*   cfg.blocks[b].predecessors, .sealed,    preds, sealed, undef_phis     *)
(*       .undef_phis                                                       *)
(*   variables                               variables (None: no entry)    *)
(*   calls, results                          calls, results; the top is    *)
(*                                           the last element              *)
(*   the var of run_state_machine            var                           *)
(*   the loop of seal_one_block              sealing                       *)
(*   func.dfg.values.defs                    vals                          *)
(*                                                                         *)
(* Blocks are numbered in the order of their creation, values in the order *)
(* of their allocation, after the constant GRAVESTONE. A phi holds its     *)
(* block and a function from predecessors to values. What use_var returns  *)
(* is the one element of results when calls is empty, until the caller     *)
(* takes it.                                                               *)
(***************************************************************************)
EXTENDS Naturals, Sequences, FiniteSets, SequencesExt

CONSTANTS NumBlocks,   \* bound on the blocks of the function
          Place        \* the mutable variables

\* FunctionBuilder::new makes two blocks.
ASSUME SSABuilderAssumption == NumBlocks \in Nat /\ NumBlocks >= 2

VARIABLES created, preds, sealed, undef_phis, variables, vals,
          calls, results, var, sealing

cfgVars     == <<created, preds, sealed>>
machine     == <<calls, results, var>>
ssaVars     == <<cfgVars, undef_phis, variables, vals, machine, sealing>>

Block      == 1 .. created
None       == 0
GRAVESTONE == 1
Value      == 1 .. Len(vals)

Invalid           == [ty |-> "invalid"]
Inst              == [ty |-> "inst"]
Alias(v)          == [ty |-> "alias", to |-> v]
PhiNode(b, args)  == [ty |-> "phi", block |-> b, args |-> args]

UseVar(b)                      == [call |-> "use", block |-> b]
FinishSealedOnePredecessor(b)  == [call |-> "finish_one", block |-> b]
FinishPredecessorsLookup(s, b) == [call |-> "finish", block |-> b, sentinel |-> s]

NotSealing == [block |-> None, todo |-> <<>>]

\* Between two calls of the API.
Idle == calls = <<>> /\ results = <<>> /\ sealing = NotSealing

\* A use_var has its result.
Returned == calls = <<>> /\ Len(results) = 1

\* FunctionBuilder::new declares the entry and the exit block.
SSAInit ==
  /\ created = 2
  /\ preds = [b \in 1 .. NumBlocks |-> <<>>] /\ sealed = {1}
  /\ undef_phis = [b \in 1 .. NumBlocks |-> <<>>]
  /\ variables = [v \in Place |-> [b \in 1 .. NumBlocks |-> None]]
  /\ vals = <<Inst>>
  /\ calls = <<>> /\ results = <<>> /\ var = None
  /\ sealing = NotSealing

-----------------------------------------------------------------------------
link(v) == IF vals[v].ty = "alias" THEN vals[v].to ELSE v

\* The value at the end of the alias chain; after Len(vals) links the chain is
\* a cycle, and the value is still an alias.
resolve_alias(val) ==
  LET chain[n \in 0 .. Len(vals)] == IF n = 0 THEN val ELSE link(chain[n - 1])
  IN  chain[Len(vals)]

add_predecessor(s, p) ==
  LET i == SelectInSeq(s, LAMBDA e : e >= p)
  IN  IF i = 0 THEN Append(s, p) ELSE InsertAt(s, i, p)

\* The search starts over from block in every round: its single predecessor is
\* met twice.
can_optimize_var_lookup(b) ==
  LET single     == Len(preds[b]) = 1
      current(i) == IF i = 0 THEN b ELSE preds[b][1]
      seen(i)    == \E j \in 0 .. i - 1 : current(j) = current(i)
  IN  single /\ \E i \in 0 .. 2 : ~single /\ \A j \in 0 .. i : ~seen(j)

begin_predecessors_lookup(s, b) ==
  <<FinishPredecessorsLookup(s, b)>> \o [k \in 1 .. Len(preds[b]) |-> UseVar(Reverse(preds[b])[k])]

\* Look v up in a block without a definition of it; rest are the calls below.
use_var_nonlocal(rest, v, b) ==
  LET val == Len(vals) + 1
  IN  IF b \in sealed /\ can_optimize_var_lookup(b)
      THEN /\ calls' = rest \o <<FinishSealedOnePredecessor(b), UseVar(preds[b][1])>>
           /\ UNCHANGED <<vals, variables, undef_phis, results>>
      ELSE /\ vals' = Append(vals, Invalid)
           /\ variables' = [variables EXCEPT ![v][b] = val]
           /\ IF b \in sealed
              THEN /\ calls' = rest \o begin_predecessors_lookup(val, b)
                   /\ UNCHANGED <<undef_phis, results>>
              ELSE /\ undef_phis' = [undef_phis EXCEPT ![b] = Append(@, <<v, val>>)]
                   /\ results' = Append(results, val) /\ calls' = rest

use_var(v, b) ==
  /\ Idle /\ var' = v
  /\ IF variables[v][b] # None
     THEN results' = <<variables[v][b]>> /\ UNCHANGED <<calls, vals, variables, undef_phis>>
     ELSE use_var_nonlocal(<<>>, v, b)
  /\ UNCHANGED <<cfgVars, sealing>>

-----------------------------------------------------------------------------
(* run_state_machine: one round per call.                                  *)

Top == Last(calls)

\* Mutant: the local definition is not resolved.
LookupUse_NoResolve ==
  /\ calls # <<>> /\ Top.call = "use"
  /\ IF variables[var][Top.block] # None
     THEN /\ results' = Append(results, variables[var][Top.block]) /\ calls' = Front(calls)
          /\ UNCHANGED <<vals, variables, undef_phis>>
     ELSE use_var_nonlocal(Front(calls), var, Top.block)
  /\ UNCHANGED <<cfgVars, var, sealing>>

LookupUse ==
  /\ calls # <<>> /\ Top.call = "use"
  /\ IF variables[var][Top.block] # None
     THEN /\ results' = Append(results, resolve_alias(variables[var][Top.block]))
          /\ calls' = Front(calls)
          /\ UNCHANGED <<vals, variables, undef_phis>>
     ELSE use_var_nonlocal(Front(calls), var, Top.block)
  /\ UNCHANGED <<cfgVars, var, sealing>>

\* Mutant: the results are zipped with the predecessors in stack order.
finish_predecessors_lookup_Swapped(s, b, found) ==
  LET yielded == {found[k] : k \in 1 .. Len(found)} \ {s}
  IN  IF yielded = {} THEN Alias(GRAVESTONE)
      ELSE IF Cardinality(yielded) = 1 THEN Alias(CHOOSE v \in yielded : TRUE)
      ELSE PhiNode(b, [p \in ToSet(preds[b]) |->
                         Reverse(found)[SelectInSeq(preds[b], LAMBDA e : e = p)]])

\* What becomes of sentinel s of block b when its predecessors yield found:
\* nothing defines the variable, all agree on one value, or a phi.
finish_predecessors_lookup(s, b, found) ==
  LET yielded == {found[k] : k \in 1 .. Len(found)} \ {s}
  IN  IF yielded = {} THEN Alias(GRAVESTONE)
      ELSE IF Cardinality(yielded) = 1 THEN Alias(CHOOSE v \in yielded : TRUE)
      ELSE PhiNode(b, [p \in ToSet(preds[b]) |-> found[SelectInSeq(preds[b], LAMBDA e : e = p)]])

LookupFinish ==
  /\ calls # <<>> /\ Top.call # "use" /\ calls' = Front(calls)
  /\ IF Top.call = "finish_one"
     THEN /\ variables' = [variables EXCEPT ![var][Top.block] = Last(results)]
          /\ UNCHANGED <<results, vals>>
     ELSE LET s    == Top.sentinel
              kept == Len(results) - Len(preds[Top.block])
              def  == finish_predecessors_lookup(s, Top.block, SubSeq(results, kept + 1, Len(results)))
          IN  /\ vals' = [vals EXCEPT ![s] = def]
              /\ results' = Append(SubSeq(results, 1, kept), IF def.ty = "alias" THEN def.to ELSE s)
              /\ UNCHANGED variables
  /\ UNCHANGED <<cfgVars, undef_phis, var, sealing>>

-----------------------------------------------------------------------------
\* seal_one_block takes the variables that wait for the predecessors of b, ...
seal_block(b) ==
  /\ Idle /\ b \in Block
  /\ sealing' = [block |-> b, todo |-> undef_phis[b]]
  /\ undef_phis' = [undef_phis EXCEPT ![b] = <<>>]
  /\ UNCHANGED <<cfgVars, variables, vals, machine>>

\* ... looks up each, with the result of the previous one dropped, ...
SealNext ==
  /\ sealing.todo # <<>> /\ calls = <<>>
  /\ var' = sealing.todo[1][1] /\ results' = <<>>
  /\ calls' = begin_predecessors_lookup(sealing.todo[1][2], sealing.block)
  /\ sealing' = [sealing EXCEPT !.todo = Tail(@)]
  /\ UNCHANGED <<cfgVars, undef_phis, variables, vals>>

\* ... and marks the block.
SealEnd ==
  /\ sealing.block # None /\ sealing.todo = <<>> /\ calls = <<>>
  /\ sealed' = sealed \cup {sealing.block} /\ results' = <<>> /\ var' = None
  /\ sealing' = NotSealing
  /\ UNCHANGED <<created, preds, undef_phis, variables, vals, calls>>

Machine == LookupUse \/ LookupFinish \/ SealNext \/ SealEnd

-----------------------------------------------------------------------------
Finishing == {i \in 1 .. Len(calls) : calls[i].call = "finish"}

\* A lookup never enters a block whose lookup is under way: the sentinel
\* breaks the loops of the graph, so that use_var returns.
NoReentry == \A i, j \in Finishing : calls[i].block = calls[j].block => i = j

\* The results that a call takes off the stack; it leaves one there.
Takes(c) ==
  CASE c.call = "use" -> 0 [] c.call = "finish_one" -> 1 [] OTHER -> Len(preds[c.block])

\* How many results there are when the calls above the k-th are done, if use_var is
\* to end with one.
ResultsAt ==
  LET need[k \in 0 .. Len(calls)] == IF k = 0 THEN 1 ELSE (need[k - 1] + Takes(calls[k])) - 1
  IN  need

\* Every scheduled lookup has its results where it takes them, and leaves its own
\* for the one below.
ResultsBalanced ==
  calls # <<>> => /\ Len(results) = ResultsAt[Len(calls)]
                  /\ \A k \in 0 .. Len(calls) - 1 : ResultsAt[k] >= 1

\* No value is an alias of itself: resolve_alias and strip_alias end.
AliasesEnd == \A v \in Value : vals[resolve_alias(v)].ty # "alias"

\* Nested lookups share their stacks, each finds its own part of them, and what they
\* leave behind can be followed to a value.
LookupsNest == NoReentry /\ ResultsBalanced /\ AliasesEnd

=============================================================================
