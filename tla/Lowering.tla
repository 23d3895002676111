------------------------------ MODULE Lowering ------------------------------
(***************************************************************************)
(* The client of FunctionBuilder: hir_lower turns the statements of an     *)
(* analog block into blocks, jumps and seal_block calls                    *)
(* (openvaf/hir_lower/src/stmt.rs, ctx.rs, expr.rs, lib.rs).               *)
(*                                                                         *)
(* todo is what the recursive calls of lower_stmt and lower_expr have      *)
(* still to do, the next step first. The program is drawn as it is         *)
(* lowered: a statement or an expression that is due becomes any of those  *)
(* its features allow ("flow": control flow, "case": case statements),     *)
(* MaxNodes bounds their number. An expression is the variables it reads,  *)
(* the selects among them and the functions it calls, whose bodies are     *)
(* lowered in place.                                                       *)
(***************************************************************************)
EXTENDS FunctionBuilder

CONSTANTS MaxNodes,       \* bound on statements and expressions
          DefaultFlow,    \* whether default arms have control flow
          ConditionCase   \* whether functions called by loop conditions have case statements

ASSUME LoweringAssumption == MaxNodes \in Nat /\ DefaultFlow \in BOOLEAN /\ ConditionCase \in BOOLEAN

VARIABLES todo, nodes

lowering == <<todo, nodes>>

stmt(F)     == [do |-> "stmt", has |-> F]
expr(F)     == [do |-> "expr", has |-> F]
def(v)      == [do |-> "def", place |-> v]
use(v)      == [do |-> "use", place |-> v]
jump(ds)    == [do |-> "jump", to |-> ds]
switch(b)   == [do |-> "switch", block |-> b]
enter(b)    == [do |-> "enter", block |-> b]
seal(b)     == [do |-> "seal", block |-> b]
ensure      == [do |-> "ensure"]
cond(kind, F)     == [do |-> "cond", kind |-> kind, has |-> F]
arms(end, F)      == [do |-> "arms", end |-> end, has |-> F]
arm_val(bh, end, F) == [do |-> "val", body |-> bh, end |-> end, has |-> F]
arm_br(bh, end, F)  == [do |-> "val_branch", body |-> bh, end |-> end, has |-> F]
arm_next(bh, end, F) == [do |-> "val_next", body |-> bh, end |-> end, has |-> F]

Due == Building /\ todo # <<>>
At(what) == Due /\ Head(todo).do = what
F == Head(todo).has

\* The step at the head is replaced by steps.
Continue(steps) == todo' = steps \o Tail(todo)

\* An expansion that only schedules.
Schedule(steps) == Continue(steps) /\ UNCHANGED vars

Node == nodes < MaxNodes /\ nodes' = nodes + 1

LInit ==
  /\ BuilderInit /\ nodes = 0
  /\ todo = <<stmt({"flow", "case"})>> \o [k \in 1 .. Cardinality(Place) |-> use(SetToSeq(Place)[k])]
              \o <<jump({Exit}), [do |-> "finalize"]>>

-----------------------------------------------------------------------------
(* Calls of FunctionBuilder. dec_place comes first when the variable is    *)
(* new.                                                                    *)

def_place ==
  /\ At("def") /\ UNCHANGED nodes
  /\ LET v == Head(todo).place
     IN  IF Unmentioned(v) THEN def_var_at_entry(v) /\ UNCHANGED todo ELSE def_var(v) /\ Continue(<<>>)

use_place ==
  /\ At("use") /\ UNCHANGED nodes
  /\ LET v == Head(todo).place
     IN  IF Unmentioned(v) THEN def_var_at_entry(v) /\ UNCHANGED todo ELSE StartRead(v) /\ Continue(<<>>)

Jump == At("jump") /\ insert_terminator(Head(todo).to) /\ Continue(<<>>) /\ UNCHANGED nodes

SwitchTo == At("switch") /\ switch_to_block(Head(todo).block) /\ Continue(<<>>) /\ UNCHANGED nodes

\* switch_to_block and ensure_inserted_block
Enter ==
  /\ At("enter") /\ position' = Head(todo).block /\ touched' = touched \cup {position'}
  /\ Continue(<<>>)
  /\ UNCHANGED <<ssaVars, filled, code, succs, pending, phase, running, nodes>>

SealBlock == At("seal") /\ Seal(Head(todo).block) /\ Continue(<<>>) /\ UNCHANGED nodes

ensured_sealed ==
  /\ At("ensure") /\ UNCHANGED nodes
  /\ Continue(IF position \in sealed THEN <<>> ELSE <<seal(position)>>)
  /\ touched' = touched \cup {position}
  /\ UNCHANGED <<ssaVars, position, filled, code, succs, pending, phase, running>>

\* finalize seals the exit block if nobody has.
Finalize ==
  /\ At("finalize") /\ UNCHANGED nodes
  /\ IF Exit \in sealed THEN finalize /\ Continue(<<>>)
     ELSE todo' = <<seal(Exit)>> \o todo /\ UNCHANGED vars

-----------------------------------------------------------------------------
(* lower_expr                                                              *)

lower_expr ==
  /\ At("expr")
  /\ \/ Schedule(<<>>) /\ UNCHANGED nodes
     \/ \E v \in Place : Node /\ Schedule(<<use(v)>>)
     \/ Node /\ "flow" \in F /\ Schedule(<<expr(F), cond("expr", F)>>)
     \/ Node /\ Schedule(<<stmt(F)>>)

\* make_cond; the branches are statements, or the expressions of a select.
make_cond ==
  /\ At("cond") /\ create_blocks(3) /\ UNCHANGED nodes
  /\ LET then_dst == created + 1
         else_dst == created + 2
         next_bb  == created + 3
         branch   == [do |-> Head(todo).kind, has |-> F]
     IN  Continue(<<jump({then_dst, else_dst}), seal(then_dst), seal(else_dst),
                    enter(then_dst), branch, jump({next_bb}),
                    enter(else_dst), branch, jump({next_bb}),
                    enter(next_bb), seal(next_bb)>>)

(* lower_stmt                                                              *)

lower_simple ==
  /\ At("stmt")
  /\ \/ Schedule(<<>>) /\ UNCHANGED nodes
     \/ \E v \in Place : Node /\ Schedule(<<expr(F), def(v)>>)
     \/ Node /\ Schedule(<<stmt(F), stmt(F)>>)

lower_if == At("stmt") /\ "flow" \in F /\ Node /\ Schedule(<<expr(F), cond("stmt", F)>>)

\* $fatal: the rest of the branch goes to a block that nothing jumps to.
lower_fatal ==
  /\ At("stmt") /\ "flow" \in F /\ Node /\ create_blocks(1)
  /\ Continue(<<jump({}), switch(created + 1), seal(created + 1)>>)

\* Mutant: the head of the loop is sealed like its other blocks.
lower_loop_SealsHead ==
  /\ At("stmt") /\ "flow" \in F /\ Node /\ create_blocks(3)
  /\ LET cond_head == created + 1
         body_head == created + 2
         loop_end  == created + 3
     IN  Continue(<<jump({cond_head}), switch(cond_head), expr(F \ {"case"}),
                    jump({body_head, loop_end}), seal(cond_head), seal(body_head), seal(loop_end),
                    switch(body_head), stmt(F), jump({cond_head}), switch(loop_end)>>)

\* Mutant: the head of the loop is never sealed.
lower_loop_NoSeal ==
  /\ At("stmt") /\ "flow" \in F /\ Node /\ create_blocks(3)
  /\ LET cond_head == created + 1
         body_head == created + 2
         loop_end  == created + 3
     IN  Continue(<<jump({cond_head}), switch(cond_head), expr(F \ {"case"}),
                    jump({body_head, loop_end}), seal(body_head), seal(loop_end),
                    switch(body_head), stmt(F), jump({cond_head}), switch(loop_end)>>)

lower_loop ==
  /\ At("stmt") /\ "flow" \in F /\ Node /\ create_blocks(3)
  /\ LET cond_head == created + 1
         body_head == created + 2
         loop_end  == created + 3
     IN  Continue(<<jump({cond_head}), switch(cond_head),
                    expr(IF ConditionCase THEN F ELSE F \ {"case"}),
                    jump({body_head, loop_end}), seal(body_head), seal(loop_end),
                    switch(body_head), stmt(F), jump({cond_head}),
                    seal(cond_head), switch(loop_end)>>)

lower_case == At("stmt") /\ {"flow", "case"} \subseteq F /\ Node /\ Schedule(<<expr(F), [do |-> "case", has |-> F]>>)

case_end ==
  /\ At("case") /\ create_blocks(1) /\ UNCHANGED nodes
  /\ Continue(<<arms(created + 1, F)>>)

\* The next arm with its values, or the default arm and the end.
case_arm ==
  /\ At("arms") /\ Node /\ create_blocks(1)
  /\ Continue(<<arm_val(created + 1, Head(todo).end, F)>>)

case_default ==
  /\ At("arms") /\ UNCHANGED nodes
  /\ LET end == Head(todo).end
     IN  Schedule(<<stmt(IF DefaultFlow THEN F ELSE F \ {"flow"}), ensure,
                    jump({end}), seal(end), switch(end)>>)

case_val ==
  /\ At("val") /\ UNCHANGED nodes
  /\ LET h == Head(todo) IN Schedule(<<ensure, expr(F), arm_br(h.body, h.end, F)>>)

case_branch ==
  /\ At("val_branch") /\ create_blocks(1) /\ UNCHANGED nodes
  /\ LET h == Head(todo)
     IN  Continue(<<jump({h.body, created + 1}), switch(created + 1), arm_next(h.body, h.end, F)>>)

\* Another value of the arm, or its body.
case_body ==
  /\ At("val_next")
  /\ LET h == Head(todo)
     IN  \/ Node /\ Schedule(<<arm_val(h.body, h.end, F)>>)
         \/ /\ UNCHANGED nodes
            /\ Schedule(<<seal(h.body), switch(h.body), stmt(F), jump({h.end}),
                          switch(position), arms(h.end, F)>>)

LNext ==
  \/ def_place \/ use_place \/ Jump \/ SwitchTo \/ Enter \/ SealBlock \/ ensured_sealed \/ Finalize
  \/ lower_expr \/ make_cond \/ lower_simple \/ lower_if \/ lower_fatal \/ lower_loop
  \/ lower_case \/ case_end \/ case_arm \/ case_default \/ case_val \/ case_branch \/ case_body
  \/ (TakeResult \/ RunMachine \/ Running) /\ UNCHANGED lowering

LSpec == LInit /\ [][LNext]_<<vars, lowering>>

-----------------------------------------------------------------------------
(* The lowering keeps the assertions of FunctionBuilder and SSABuilder     *)
(* whatever the program is.                                                *)

\* A jump leaves an open block, and no edge is declared to a block that has
\* been sealed.
EdgesBeforeSeal == At("jump") => MayJump(Head(todo).to)

\* No block is sealed twice.
SealedOnce == At("seal") => MaySeal(Head(todo).block)

\* No block is left half filled, and none is opened again.
FilledBeforeSwitch == (At("switch") \/ At("enter")) => MaySwitch(Head(todo).block)

\* At the end every block with code is filled and sealed.
SealedAtEnd == (At("finalize") /\ Exit \in sealed) => MayFinalize

\* The builder's assertions, which release builds leave out, hold for every
\* nesting of statements.
SealingProtocol == EdgesBeforeSeal /\ SealedOnce /\ FilledBeforeSwitch /\ SealedAtEnd

\* Lowering is a client that the builder's promise is made to: it keeps the
\* assertions, and the function it makes reads what the variable holds on every path.
LoweredRight == SealingProtocol /\ ReadsSeeVariable

=============================================================================
