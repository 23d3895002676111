------------------------------ MODULE UseLists ------------------------------
(***************************************************************************)
(* The use lists of the data flow graph (openvaf/mir/src/dfg/uses.rs,      *)
(* instructions.rs, phis.rs): every value keeps a doubly linked list of    *)
(* the operands that read it. The lists are intrusive: which list a use is *)
(* in is never stored, it is read off the instruction's current argument.  *)
(*                                                                         *)
(*   InstructionData::arguments             args[i]                        *)
(*   DfgInsructions::uses (operands)        operands[i]                    *)
(*   instructions created, phis of them     made, phis                     *)
(*   PhiNode::blocks                        phi_blocks[i]                  *)
(*   UseData                                parent, parent_idx, attached,  *)
(*                                          use_prev, use_next             *)
(*   ValueData::uses_head / uses_tail       uses_head[v], uses_tail[v]     *)
(*                                                                         *)
(* Argument positions count from 1. The loops of zap, make_inst and        *)
(* update_inst_uses take one step per use, and a change of one operand     *)
(* takes two (detach, attach): op names what runs, cur its instruction, at *)
(* its position, data the arguments update_inst is about to store; nothing *)
(* else happens while op is not "idle", and they are reset when it is.     *)
(***************************************************************************)
EXTENDS LinkedList, Naturals, Sequences

CONSTANTS Value, Inst, Use, Block,
          GRAVESTONE,   \* the value left in a removed phi edge's slot
          MaxArgs       \* bound on an instruction's arguments

ASSUME UseListsAssumption ==
  /\ None \notin Use /\ None \notin Inst /\ None \notin Nat
  /\ GRAVESTONE \in Value /\ MaxArgs \in Nat

VARIABLES made, phis, args, operands, phi_blocks,
          parent, parent_idx, attached, use_prev, use_next,
          uses_head, uses_tail,
          op, cur, at, data

insts == <<made, phis, args, operands, phi_blocks>>
slots == <<parent, parent_idx>>
links == <<use_prev, use_next, uses_head, uses_tail, attached>>
loop  == <<op, cur, at, data>>
vars  == <<insts, slots, links, loop>>

-----------------------------------------------------------------------------
\* Keys make_use has not handed out.
Fresh(u) == parent[u] = None

use_to_value(u) == args[parent[u]][parent_idx[u]]

\* uses(v): the cursor from uses_head until None.
uses(v) == Walk(Use, use_next, uses_head[v], None)

\* uses_double_ended(v), back to front.
uses_back(v) == Walk(Use, use_prev, uses_tail[v], uses_head[v])

\* value_dead(v)
is_dead(v) == uses_head[v] = None

Init ==
  /\ made = {} /\ phis = {}
  /\ args = [i \in Inst |-> <<>>] /\ operands = [i \in Inst |-> <<>>]
  /\ phi_blocks = [i \in Inst |-> [b \in Block |-> None]]
  /\ parent = [u \in Use |-> None] /\ parent_idx = [u \in Use |-> 0]
  /\ attached = [u \in Use |-> FALSE]
  /\ use_prev = [u \in Use |-> None] /\ use_next = [u \in Use |-> None]
  /\ uses_head = [v \in Value |-> None] /\ uses_tail = [v \in Value |-> None]
  /\ op = "idle" /\ cur = None /\ at = 1 /\ data = <<>>

-----------------------------------------------------------------------------
(* The list operations.                                                    *)

\* u becomes the head of v's list: the links of make_use and attach_use.
PushUse(u, v) ==
  LET old_head == uses_head[v]
  IN  /\ attached' = [attached EXCEPT ![u] = TRUE]
      /\ use_next' = IF old_head # None THEN [use_next EXCEPT ![u] = old_head] ELSE use_next
      /\ use_prev' = [x \in Use |-> IF x = old_head THEN u ELSE use_prev[x]]
      /\ uses_tail' = IF old_head = None THEN [uses_tail EXCEPT ![v] = u] ELSE uses_tail
      /\ uses_head' = [uses_head EXCEPT ![v] = u]

\* A new operand u of instruction i at position n that reads v.
make_use(u, v, i, n) ==
  /\ Fresh(u)
  /\ parent' = [parent EXCEPT ![u] = i]
  /\ parent_idx' = [parent_idx EXCEPT ![u] = n]
  /\ PushUse(u, v)

\* Mutant: the tail of the list is not moved back.
detach_use_KeepsTail(u) ==
  LET prev == use_prev[u]
      next == use_next[u]
      val  == use_to_value(u)
  IN  /\ attached' = [attached EXCEPT ![u] = FALSE]
      /\ use_prev' = [x \in Use |-> IF x = u THEN None
                                    ELSE IF attached[u] /\ x = next THEN prev
                                    ELSE use_prev[x]]
      /\ use_next' = [x \in Use |-> IF x = u THEN None
                                    ELSE IF attached[u] /\ x = prev THEN next
                                    ELSE use_next[x]]
      /\ uses_head' = IF attached[u] /\ prev = None
                      THEN [uses_head EXCEPT ![val] = next] ELSE uses_head
      /\ UNCHANGED uses_tail

\* detach_use: a detached use is left alone; otherwise its neighbours are
\* linked to each other and, at an end of the list, the list of the value
\* that the instruction reads now is shortened.
detach_use(u) ==
  LET prev == use_prev[u]
      next == use_next[u]
      val  == use_to_value(u)
  IN  /\ attached' = [attached EXCEPT ![u] = FALSE]
      /\ use_prev' = [x \in Use |-> IF x = u THEN None
                                    ELSE IF attached[u] /\ x = next THEN prev
                                    ELSE use_prev[x]]
      /\ use_next' = [x \in Use |-> IF x = u THEN None
                                    ELSE IF attached[u] /\ x = prev THEN next
                                    ELSE use_next[x]]
      /\ uses_head' = IF attached[u] /\ prev = None
                      THEN [uses_head EXCEPT ![val] = next] ELSE uses_head
      /\ uses_tail' = IF attached[u] /\ next = None
                      THEN [uses_tail EXCEPT ![val] = prev] ELSE uses_tail

-----------------------------------------------------------------------------
(* Instructions.                                                           *)

\* What runs next: f of instruction i, from its first operand on; or nothing.
Start(f, i) == op' = f /\ cur' = i /\ at' = 1

Finish == op' = "idle" /\ cur' = None /\ at' = 1 /\ data' = <<>>

\* The two-branch end of make_inst and update_inst_uses: more arguments than
\* operands start the loop that makes the missing ones.
StartExtend(i, a, ops) ==
  \/ Len(ops) < Len(a) /\ Start("extend", i) /\ data' = <<>>
  \/ Len(ops) >= Len(a) /\ Finish

\* make_inst: a phi starts without edges and gets them by insert_phi_edge.
make_inst(i, a, phi) ==
  /\ op = "idle" /\ i \notin made
  /\ phi => a = <<>>
  /\ made' = made \cup {i}
  /\ phis' = IF phi THEN phis \cup {i} ELSE phis
  /\ args' = [args EXCEPT ![i] = a]
  /\ StartExtend(i, a, <<>>)
  /\ UNCHANGED <<operands, phi_blocks, slots, links>>

\* Mutant: the positions of the new operands start over.
ExtendStep_FromOne(u) ==
  /\ op = "extend"
  /\ LET n == Len(operands[cur]) + 1
     IN  /\ make_use(u, args[cur][n], cur, 1)
         /\ operands' = [operands EXCEPT ![cur] = Append(@, u)]
         /\ \/ n < Len(args[cur]) /\ UNCHANGED loop
            \/ n >= Len(args[cur]) /\ Finish
  /\ UNCHANGED <<made, phis, args, phi_blocks>>

\* One new operand, for the first argument that has none.
ExtendStep(u) ==
  /\ op = "extend"
  /\ LET n == Len(operands[cur]) + 1
     IN  /\ make_use(u, args[cur][n], cur, n)
         /\ operands' = [operands EXCEPT ![cur] = Append(@, u)]
         /\ \/ n < Len(args[cur]) /\ UNCHANGED loop
            \/ n >= Len(args[cur]) /\ Finish
  /\ UNCHANGED <<made, phis, args, phi_blocks>>

\* zap_inst, and update_inst, which starts with it.
zap_inst(i) ==
  /\ op = "idle" /\ i \in made /\ operands[i] # <<>>
  /\ Start("zap", i)
  /\ UNCHANGED <<insts, slots, links, data>>

\* Mutant: the zap starts at the second operand.
update_inst_SkipsFirst(i, a) ==
  /\ op = "idle" /\ i \in made
  /\ op' = "update" /\ cur' = i /\ at' = 2 /\ data' = a
  /\ UNCHANGED <<insts, slots, links>>

update_inst(i, a) ==
  /\ op = "idle" /\ i \in made
  /\ Start("update", i) /\ data' = a
  /\ UNCHANGED <<insts, slots, links>>

ZapStep ==
  /\ op \in {"zap", "update"} /\ at <= Len(operands[cur])
  /\ detach_use(operands[cur][at])
  /\ \/ (op = "update" \/ at < Len(operands[cur])) /\ at' = at + 1 /\ UNCHANGED <<op, cur, data>>
     \/ op = "zap" /\ at = Len(operands[cur]) /\ Finish
  /\ UNCHANGED <<insts, slots>>

\* insts[i] = data, where data is not a phi.
StoreInst(i, a) ==
  /\ args' = [args EXCEPT ![i] = a]
  /\ phis' = phis \ {i}
  /\ phi_blocks' = [phi_blocks EXCEPT ![i] = [b \in Block |-> None]]

\* update_inst, once every operand is detached: store the new data, then
\* update_inst_uses.
StoreData ==
  /\ op = "update" /\ at > Len(operands[cur])
  /\ StoreInst(cur, data)
  /\ Start("attach", cur) /\ data' = <<>>
  /\ UNCHANGED <<made, operands, slots, links>>

\* insts[i] = data by a pass that has detached every operand of i before: a
\* branch or a phi becomes a jump.
write_inst(i, a) ==
  /\ op = "idle" /\ i \in made
  /\ \A k \in 1 .. Len(operands[i]) : ~attached[operands[i][k]]
  /\ StoreInst(i, a)
  /\ UNCHANGED <<made, operands, slots, links, loop>>

\* update_inst_uses on an instruction whose operands are detached.
update_inst_uses(i) ==
  /\ op = "idle" /\ i \in made
  /\ \A k \in 1 .. Len(operands[i]) : ~attached[operands[i][k]]
  /\ Start("attach", i)
  /\ UNCHANGED <<insts, slots, links, data>>

AttachStep ==
  /\ op = "attach" /\ at <= Len(operands[cur]) /\ at <= Len(args[cur])
  /\ PushUse(operands[cur][at], args[cur][at])
  /\ at' = at + 1
  /\ UNCHANGED <<insts, slots, op, cur, data>>

\* After the zip: make operands for the remaining arguments, or drop the
\* excess operands (they stay detached).
AttachEnd ==
  /\ op = "attach" /\ (at > Len(operands[cur]) \/ at > Len(args[cur]))
  /\ StartExtend(cur, args[cur], operands[cur])
  /\ operands' = [operands EXCEPT ![cur] =
                    IF Len(@) > Len(args[cur]) THEN SubSeq(@, 1, Len(args[cur])) ELSE @]
  /\ UNCHANGED <<made, phis, args, phi_blocks, slots, links>>

-----------------------------------------------------------------------------
(* Operands.                                                               *)

detach_operand(i, n) ==
  /\ op = "idle" /\ i \in made /\ n \in 1 .. Len(operands[i])
  /\ attached[operands[i][n]]
  /\ detach_use(operands[i][n])
  /\ UNCHANGED <<insts, slots, loop>>

\* attach_operand: the operand is detached and its slot exists.
attach_operand(i, n) ==
  /\ op = "idle" /\ i \in made
  /\ n \in 1 .. Len(operands[i]) /\ n \in 1 .. Len(args[i])
  /\ ~attached[operands[i][n]]
  /\ PushUse(operands[i][n], args[i][n])
  /\ UNCHANGED <<insts, slots, loop>>

\* First half of a change of operand n of i: detach it and store v.
DetachAndStore(i, n, v) ==
  /\ detach_use(operands[i][n])
  /\ args' = [args EXCEPT ![i][n] = v]
  /\ op' = "reattach" /\ cur' = i /\ at' = n

\* Second half.
Reattach ==
  /\ op = "reattach"
  /\ PushUse(operands[cur][at], args[cur][at])
  /\ Finish
  /\ UNCHANGED <<insts, slots>>

\* set_operand_value, use_set_value
set_operand_value(v, i, n) ==
  /\ op = "idle" /\ i \in made /\ n \in 1 .. Len(operands[i])
  /\ attached[operands[i][n]]
  /\ DetachAndStore(i, n, v)
  /\ UNCHANGED <<made, phis, operands, phi_blocks, slots, data>>

\* insert_phi_edge for a block that has an edge already.
UpdatePhiEdge(i, b, v) ==
  /\ op = "idle" /\ i \in phis
  /\ phi_blocks[i][b] # None
  /\ DetachAndStore(i, phi_blocks[i][b], v)
  /\ UNCHANGED <<made, phis, operands, phi_blocks, slots, data>>

\* Mutant: the edge points at the argument before the new one.
insert_phi_edge_OffByOne(u, i, b, v) ==
  /\ op = "idle" /\ i \in phis
  /\ phi_blocks[i][b] = None /\ Len(args[i]) < MaxArgs
  /\ LET n == Len(args[i]) + 1
     IN  /\ args' = [args EXCEPT ![i] = Append(@, v)]
         /\ make_use(u, v, i, n)
         /\ operands' = [operands EXCEPT ![i] = Append(@, u)]
         /\ phi_blocks' = [phi_blocks EXCEPT ![i][b] = n - 1]
  /\ UNCHANGED <<made, phis, loop>>

\* insert_phi_edge for a new block.
insert_phi_edge(u, i, b, v) ==
  /\ op = "idle" /\ i \in phis
  /\ phi_blocks[i][b] = None /\ Len(args[i]) < MaxArgs
  /\ LET n == Len(args[i]) + 1
     IN  /\ args' = [args EXCEPT ![i] = Append(@, v)]
         /\ make_use(u, v, i, n)
         /\ operands' = [operands EXCEPT ![i] = Append(@, u)]
         /\ phi_blocks' = [phi_blocks EXCEPT ![i][b] = n]
  /\ UNCHANGED <<made, phis, loop>>

\* try_remove_phi_edge_at, try_remove_phi_edge: the slot stays, its operand
\* is detached and reads GRAVESTONE from now on.
try_remove_phi_edge(i, b) ==
  /\ op = "idle" /\ i \in phis
  /\ phi_blocks[i][b] # None
  /\ LET pos == phi_blocks[i][b]
     IN  /\ detach_use(operands[i][pos])
         /\ args' = [args EXCEPT ![i][pos] = GRAVESTONE]
  /\ phi_blocks' = [phi_blocks EXCEPT ![i][b] = None]
  /\ UNCHANGED <<made, phis, operands, slots, loop>>

\* Mutant: the old head of src's list gets no back link.
replace_uses_NoBackLink(dest, src) ==
  /\ op = "idle" /\ dest # src
  /\ LET moved    == uses(dest)
         new_head == uses_head[dest]
         new_tail == uses_tail[dest]
         old_head == uses_head[src]
     IN  /\ args' = [i \in Inst |-> [n \in 1 .. Len(args[i]) |->
                       IF \E u \in moved : parent[u] = i /\ parent_idx[u] = n
                       THEN src ELSE args[i][n]]]
         /\ use_next' = [x \in Use |-> IF old_head # None /\ x = new_tail
                                       THEN old_head ELSE use_next[x]]
         /\ uses_tail' = [v \in Value |->
                            IF v = dest THEN None
                            ELSE IF old_head = None /\ v = src THEN new_tail
                            ELSE uses_tail[v]]
         /\ uses_head' = [v \in Value |->
                            IF v = dest THEN None
                            ELSE IF new_head # None /\ v = src THEN new_head
                            ELSE uses_head[v]]
  /\ UNCHANGED <<made, phis, operands, phi_blocks, slots, use_prev, attached, loop>>

\* replace_uses: the slots of all uses in dest's list read src, and the list
\* is hung in front of src's.
replace_uses(dest, src) ==
  /\ op = "idle" /\ dest # src
  /\ LET moved    == uses(dest)
         new_head == uses_head[dest]
         new_tail == uses_tail[dest]
         old_head == uses_head[src]
         both     == new_head # None /\ old_head # None
     IN  /\ args' = [i \in Inst |-> [n \in 1 .. Len(args[i]) |->
                       IF \E u \in moved : parent[u] = i /\ parent_idx[u] = n
                       THEN src ELSE args[i][n]]]
         /\ use_next' = [x \in Use |-> IF both /\ x = new_tail THEN old_head ELSE use_next[x]]
         /\ use_prev' = [x \in Use |-> IF both /\ x = old_head THEN new_tail ELSE use_prev[x]]
         /\ uses_tail' = [v \in Value |->
                            IF new_head # None /\ v = dest THEN None
                            ELSE IF new_head # None /\ old_head = None /\ v = src THEN new_tail
                            ELSE uses_tail[v]]
         /\ uses_head' = [v \in Value |->
                            IF v = dest THEN None
                            ELSE IF new_head # None /\ v = src THEN new_head
                            ELSE uses_head[v]]
  /\ UNCHANGED <<made, phis, operands, phi_blocks, slots, attached, loop>>

-----------------------------------------------------------------------------
Args == UNION {[1 .. n -> Value] : n \in 0 .. MaxArgs}

InstOp ==
  \/ \E i \in Inst, a \in Args : update_inst(i, a) \/ write_inst(i, a)
  \/ \E i \in Inst, a \in Args, phi \in BOOLEAN : make_inst(i, a, phi)
  \/ \E i \in Inst : zap_inst(i) \/ update_inst_uses(i)

LoopStep ==
  \/ ZapStep \/ StoreData \/ AttachStep \/ AttachEnd \/ Reattach
  \/ \E u \in Use : ExtendStep(u)

OperandOp ==
  \/ \E i \in Inst, n \in 1 .. MaxArgs :
       \/ detach_operand(i, n) \/ attach_operand(i, n)
       \/ \E v \in Value : set_operand_value(v, i, n)
  \/ \E i \in Inst, b \in Block :
       \/ try_remove_phi_edge(i, b)
       \/ \E v \in Value : \/ UpdatePhiEdge(i, b, v)
                           \/ \E u \in Use : insert_phi_edge(u, i, b, v)
  \/ \E dest, src \in Value : replace_uses(dest, src)

Next == InstOp \/ LoopStep \/ OperandOp

Spec == Init /\ [][Next]_vars

-----------------------------------------------------------------------------
(* What the use lists promise.                                             *)

\* Every table holds keys of the right kind.
TypeOK ==
  /\ made \subseteq Inst /\ phis \subseteq made
  /\ args \in [Inst -> Seq(Value)] /\ operands \in [Inst -> Seq(Use)]
  /\ phi_blocks \in [Inst -> [Block -> Nat \cup {None}]]
  /\ parent \in [Use -> Inst \cup {None}] /\ parent_idx \in [Use -> Nat]
  /\ attached \in [Use -> BOOLEAN]
  /\ use_prev \in [Use -> Use \cup {None}] /\ use_next \in [Use -> Use \cup {None}]
  /\ uses_head \in [Value -> Use \cup {None}] /\ uses_tail \in [Value -> Use \cup {None}]
  /\ op \in {"idle", "zap", "update", "attach", "extend", "reattach"}
  /\ cur \in Inst \cup {None} /\ at \in Nat /\ data \in Seq(Value)

\* The uses that v's list must hold: the attached operands that read v now.
Readers(v) == {u \in Use : attached[u] /\ use_to_value(u) = v}

\* Function::validate's "invalid use": the list of a value holds the attached
\* operands that read it, all of them and nothing else, and a use that is in
\* no list has no link.
ValueUses ==
  /\ \A v \in Value : IsList(use_prev, use_next, uses_head[v], uses_tail[v], Readers(v))
  /\ \A u \in Use : ~attached[u] => use_prev[u] = None /\ use_next[u] = None

\* An attached use is the operand its instruction lists at its position, and
\* that position exists: zap_inst finds every use that is in a list, and
\* detach_use never indexes beyond the arguments. A listed operand belongs to
\* the instruction that lists it.
OperandsOwned ==
  /\ \A u \in Use : attached[u] =>
       /\ parent[u] \in made
       /\ parent_idx[u] \in 1 .. Len(operands[parent[u]])
       /\ parent_idx[u] \in 1 .. Len(args[parent[u]])
       /\ operands[parent[u]][parent_idx[u]] = u
  /\ \A i \in Inst : \A n \in 1 .. Len(operands[i]) :
       parent[operands[i][n]] = i /\ parent_idx[operands[i][n]] = n

\* attach_use's debug_assert ("use_ must be detached from old value before
\* being added back") holds in every attach of update_inst and of a change of
\* operand: the uses a loop has yet to attach are detached, because the zap
\* before it has left none behind.
AttachesDetached ==
  /\ op \in {"zap", "update"} =>
       \A n \in 1 .. Len(operands[cur]) : n < at => ~attached[operands[cur][n]]
  /\ op = "attach" =>
       \A n \in 1 .. Len(operands[cur]) : n >= at => ~attached[operands[cur][n]]
  /\ op = "reattach" => ~attached[operands[cur][at]]

\* A phi has an operand for every argument, every edge has one of them, and
\* no two predecessors share one.
PhiEdges ==
  \A i \in phis :
    /\ Len(operands[i]) = Len(args[i])
    /\ \A b \in Block : phi_blocks[i][b] # None =>
         /\ phi_blocks[i][b] \in 1 .. Len(args[i])
         /\ \A c \in Block \ {b} : phi_blocks[i][c] # phi_blocks[i][b]

\* Reading the list of a value in either direction meets exactly the attached
\* operands that read it; is_dead says that there is none.
UsesReachable ==
  \A v \in Value : /\ uses(v) = Readers(v) /\ uses_back(v) = Readers(v)
                   /\ is_dead(v) <=> Readers(v) = {}

=============================================================================
