--------------------------- MODULE UseListProofs ---------------------------
(***************************************************************************)
(* Every value's use list holds exactly the attached operands that read    *)
(* the value, after any sequence of data flow graph operations and at      *)
(* every step of their loops, for any number of values, instructions, uses *)
(* and blocks.                                                             *)
(***************************************************************************)
EXTENDS UseLists, LinkedListTheorems, SequenceTheorems

\* What the loops rely on: the instruction they work on exists, "extend" has
\* an argument left, "reattach" points at an operand; and an instruction that
\* does not exist or is no phi has nothing to clean up.
Loops ==
  /\ op # "idle" => cur \in made
  /\ op = "extend" => Len(operands[cur]) < Len(args[cur])
  /\ op = "reattach" => at \in 1 .. Len(operands[cur]) /\ at \in 1 .. Len(args[cur])
  /\ at \in Nat \ {0}
  /\ \A i \in Inst \ made : operands[i] = <<>>
  /\ \A i \in Inst \ phis : \A b \in Block : phi_blocks[i][b] = None

\* The inductive invariant. ValueUses needs OperandsOwned to know that data is
\* only overwritten under detached uses, and AttachesDetached to know that a
\* use about to be pushed is in no list.
IInv == TypeOK /\ ValueUses /\ OperandsOwned /\ AttachesDetached /\ PhiEdges /\ Loops

-----------------------------------------------------------------------------
(* The lists.                                                              *)

\* Nothing is linked or unlinked, and no attached use reads another value.
LEMMA FrameLists ==
  ASSUME ValueUses, UNCHANGED links,
         \A x \in Use : attached[x] => use_to_value(x)' = use_to_value(x)
  PROVE  ValueUses'
<1>1. \A v \in Value : Readers(v)' = Readers(v)
  BY DEF Readers, links
<1>2. QED
  BY <1>1 DEF ValueUses, links

\* A detached use pushed on the list of the value it reads.
LEMMA PushLists ==
  ASSUME TypeOK, ValueUses, NEW u \in Use, NEW v \in Value, ~attached[u],
         PushUse(u, v), use_to_value(u)' = v,
         \A x \in Use : attached[x] => use_to_value(x)' = use_to_value(x)
  PROVE  ValueUses'
<1> USE UseListsAssumption
<1>1. /\ Readers(v)' = Readers(v) \cup {u}
      /\ \A w \in Value \ {v} : Readers(w)' = Readers(w)
  BY DEF Readers, PushUse, TypeOK
<1>2. IsList(use_prev, use_next, uses_head[v], uses_tail[v], Readers(v))
  BY DEF ValueUses
<1>3. use_prev[u] = None /\ use_next[u] = None /\ u \notin Readers(v)
  BY DEF ValueUses, Readers
<1>4. /\ uses_head[v] = None => uses_tail[v] = None /\ Readers(v) = {}
      /\ uses_head[v] # None => uses_head[v] \in Readers(v) /\ use_prev[uses_head[v]] = None
  BY <1>2 DEF IsList, Linked, Readers
<1>5. IsList(use_prev', use_next', uses_head'[v], uses_tail'[v], Readers(v) \cup {u})
  <2>1. GapFilled(use_prev, use_next, use_prev', use_next', uses_head[v], uses_tail[v],
                  Readers(v), u, None, uses_head[v])
    BY <1>3, <1>4 DEF GapFilled, PushUse, TypeOK, Readers
  <2>2. /\ uses_head'[v] = IF None = None THEN u ELSE uses_head[v]
        /\ uses_tail'[v] = IF uses_head[v] = None THEN u ELSE uses_tail[v]
    BY DEF PushUse, TypeOK
  <2>3. None \notin Readers(v)
    BY DEF Readers
  <2>4. QED
    BY <1>2, <2>1, <2>2, <2>3, InsertIntoList
<1>6. ASSUME NEW w \in Value \ {v}
      PROVE  IsList(use_prev', use_next', uses_head'[w], uses_tail'[w], Readers(w))
  <2>1. IsList(use_prev, use_next, uses_head[w], uses_tail[w], Readers(w))
    BY DEF ValueUses
  <2>2. uses_head'[w] = uses_head[w] /\ uses_tail'[w] = uses_tail[w]
    BY DEF PushUse, TypeOK
  <2>3. \A x \in Readers(w) : x # u /\ x # uses_head[v]
    BY <1>4 DEF Readers
  <2>4. \A x \in Readers(w) : use_prev'[x] = use_prev[x] /\ use_next'[x] = use_next[x]
    BY <2>3 DEF PushUse, TypeOK, Readers
  <2>5. QED
    BY <2>1, <2>2, <2>4, ListFrame
<1>7. ASSUME NEW x \in Use, ~attached'[x]
      PROVE  use_prev'[x] = None /\ use_next'[x] = None
  <2>1. x # u /\ ~attached[x]
    BY <1>7 DEF PushUse, TypeOK
  <2>2. x # uses_head[v]
    BY <2>1, <1>4 DEF Readers
  <2>3. QED
    BY <2>1, <2>2 DEF PushUse, TypeOK, ValueUses
<1>8. QED
  BY <1>1, <1>5, <1>6, <1>7 DEF ValueUses

\* An attached use taken off the list of v, the value it reads.
LEMMA TakeLists ==
  ASSUME TypeOK, ValueUses, NEW u \in Use, attached[u], NEW v \in Value,
         v = use_to_value(u), detach_use(u),
         \A x \in Use \ {u} : attached[x] => use_to_value(x)' = use_to_value(x)
  PROVE  ValueUses'
<1> USE UseListsAssumption
<1>1. /\ Readers(v)' = Readers(v) \ {u}
      /\ \A w \in Value \ {v} : Readers(w)' = Readers(w)
  BY DEF Readers, detach_use, TypeOK
<1>2. /\ IsList(use_prev, use_next, uses_head[v], uses_tail[v], Readers(v))
      /\ u \in Readers(v) /\ None \notin Readers(v)
  BY DEF ValueUses, Readers
<1>3. /\ use_prev[u] # None => use_prev[u] \in Readers(v)
      /\ use_next[u] # None => use_next[u] \in Readers(v)
  BY <1>2 DEF IsList, Linked
<1>4. IsList(use_prev', use_next', uses_head'[v], uses_tail'[v], Readers(v) \ {u})
  <2>1. TakenOut(use_prev, use_next, use_prev', use_next', Readers(v), u)
    BY <1>2 DEF TakenOut, detach_use, TypeOK, Readers
  <2>2. /\ uses_head'[v] = IF use_prev[u] = None THEN use_next[u] ELSE uses_head[v]
        /\ uses_tail'[v] = IF use_next[u] = None THEN use_prev[u] ELSE uses_tail[v]
    BY DEF detach_use, TypeOK
  <2>3. QED
    BY <1>2, <2>1, <2>2, RemoveFromList
<1>5. ASSUME NEW w \in Value \ {v}
      PROVE  IsList(use_prev', use_next', uses_head'[w], uses_tail'[w], Readers(w))
  <2>1. IsList(use_prev, use_next, uses_head[w], uses_tail[w], Readers(w))
    BY DEF ValueUses
  <2>2. uses_head'[w] = uses_head[w] /\ uses_tail'[w] = uses_tail[w]
    BY DEF detach_use, TypeOK
  <2>3. \A x \in Readers(w) : x # u /\ x # use_prev[u] /\ x # use_next[u]
    BY <1>3 DEF Readers
  <2>4. \A x \in Readers(w) : use_prev'[x] = use_prev[x] /\ use_next'[x] = use_next[x]
    BY <2>3 DEF detach_use, TypeOK, Readers
  <2>5. QED
    BY <2>1, <2>2, <2>4, ListFrame
<1>6. ASSUME NEW x \in Use, ~attached'[x]
      PROVE  use_prev'[x] = None /\ use_next'[x] = None
  <2>1. CASE x = u
    BY <2>1 DEF detach_use, TypeOK
  <2>2. CASE x # u
    <3>1. ~attached[x]
      BY <1>6, <2>2 DEF detach_use, TypeOK
    <3>2. x # use_prev[u] /\ x # use_next[u]
      BY <3>1, <1>3 DEF Readers
    <3>3. QED
      BY <3>1, <3>2, <2>2 DEF detach_use, TypeOK, ValueUses
  <2>3. QED
    BY <2>1, <2>2
<1>7. QED
  BY <1>1, <1>4, <1>5, <1>6 DEF ValueUses

\* A use taken off the list of the value it reads; what it reads afterwards
\* does not matter.
LEMMA DetachLists ==
  ASSUME TypeOK, ValueUses, NEW u \in Use, attached[u] => use_to_value(u) \in Value,
         detach_use(u),
         \A x \in Use \ {u} : attached[x] => use_to_value(x)' = use_to_value(x)
  PROVE  ValueUses'
<1> USE UseListsAssumption
<1>1. CASE ~attached[u]
  <2>1. /\ \A x \in Use : attached'[x] = attached[x]
        /\ \A x \in Use : use_prev'[x] = use_prev[x] /\ use_next'[x] = use_next[x]
        /\ uses_head' = uses_head /\ uses_tail' = uses_tail
    BY <1>1 DEF detach_use, TypeOK, ValueUses
  <2>2. \A v \in Value : Readers(v)' = Readers(v)
    BY <1>1, <2>1 DEF Readers
  <2>3. ASSUME NEW v \in Value
        PROVE  IsList(use_prev', use_next', uses_head'[v], uses_tail'[v], Readers(v))
    <3>1. IsList(use_prev, use_next, uses_head[v], uses_tail[v], Readers(v))
      BY DEF ValueUses
    <3>2. \A x \in Readers(v) : use_prev'[x] = use_prev[x] /\ use_next'[x] = use_next[x]
      BY <2>1 DEF Readers
    <3>3. QED
      BY <2>1, <3>1, <3>2, ListFrame
  <2>4. QED
    BY <2>1, <2>2, <2>3 DEF ValueUses
<1>2. CASE attached[u]
  <2>1. PICK v \in Value : v = use_to_value(u)
    BY <1>2
  <2>2. QED
    BY <1>2, <2>1, TakeLists
<1>3. QED
  BY <1>1, <1>2

\* An attached use sits in a slot of an instruction, whose argument is a
\* value; two attached uses that share it are the same use.
LEMMA AttachedSlot ==
  ASSUME TypeOK, OperandsOwned, NEW u \in Use, attached[u]
  PROVE  /\ parent[u] \in Inst
         /\ parent_idx[u] \in 1 .. Len(args[parent[u]])
         /\ use_to_value(u) \in Value
<1>1. parent[u] \in made /\ parent_idx[u] \in 1 .. Len(args[parent[u]])
  BY DEF OperandsOwned
<1>2. parent[u] \in Inst /\ args[parent[u]] \in Seq(Value)
  BY <1>1 DEF TypeOK
<1>3. QED
  BY <1>1, <1>2, ElementOfSeq DEF use_to_value

\* replace_uses writes src into the slots of dest's readers and nowhere else.
LEMMA ReplaceReads ==
  ASSUME TypeOK, ValueUses, OperandsOwned,
         NEW dest \in Value, NEW src \in Value, replace_uses(dest, src)
  PROVE  \A x \in Use : attached[x] =>
           use_to_value(x)' = IF x \in Readers(dest) THEN src ELSE use_to_value(x)
<1> USE UseListsAssumption
<1>1. uses(dest) = Readers(dest)
  <2>1. Readers(dest) \in SUBSET Use
    BY DEF Readers
  <2>2. IsList(use_prev, use_next, uses_head[dest], uses_tail[dest], Readers(dest))
    BY DEF ValueUses
  <2>3. QED
    BY <2>1, <2>2, WalkList DEF uses
<1> SUFFICES ASSUME NEW x \in Use, attached[x]
             PROVE  use_to_value(x)' = IF x \in Readers(dest) THEN src ELSE use_to_value(x)
  OBVIOUS
<1>2. /\ parent[x] \in Inst /\ parent_idx[x] \in 1 .. Len(args[parent[x]])
      /\ parent' = parent /\ parent_idx' = parent_idx
  BY AttachedSlot DEF replace_uses, slots
<1>3. args'[parent[x]][parent_idx[x]] =
        IF \E u \in Readers(dest) : parent[u] = parent[x] /\ parent_idx[u] = parent_idx[x]
        THEN src ELSE args[parent[x]][parent_idx[x]]
  BY <1>1, <1>2 DEF replace_uses
<1>4. (\E u \in Readers(dest) : parent[u] = parent[x] /\ parent_idx[u] = parent_idx[x])
         <=> x \in Readers(dest)
  BY DEF Readers, use_to_value
<1>5. QED
  BY <1>2, <1>3, <1>4 DEF use_to_value

\* The list of dest hung in front of the list of src.
LEMMA ReplaceLists ==
  ASSUME TypeOK, ValueUses, OperandsOwned,
         NEW dest \in Value, NEW src \in Value, replace_uses(dest, src)
  PROVE  ValueUses'
<1> USE UseListsAssumption
<1>0. dest # src /\ attached' = attached
  BY DEF replace_uses
<1>1. /\ Readers(dest)' = {}
      /\ Readers(src)' = Readers(dest) \cup Readers(src)
      /\ \A w \in Value \ {dest, src} : Readers(w)' = Readers(w)
  <2>1. ASSUME NEW w \in Value
        PROVE  Readers(w)' = {x \in Use : attached[x] /\
                                (IF x \in Readers(dest) THEN src ELSE use_to_value(x)) = w}
    BY <1>0, ReplaceReads DEF Readers
  <2>2. QED
    BY <1>0, <2>1 DEF Readers
<1>2. /\ IsList(use_prev, use_next, uses_head[dest], uses_tail[dest], Readers(dest))
      /\ IsList(use_prev, use_next, uses_head[src], uses_tail[src], Readers(src))
      /\ None \notin Readers(dest) /\ None \notin Readers(src)
      /\ Readers(dest) \cap Readers(src) = {}
  BY <1>0 DEF ValueUses, Readers
<1>3. /\ uses_head[dest] = None <=> Readers(dest) = {}
      /\ uses_head[src] = None <=> Readers(src) = {}
      /\ Readers(dest) # {} => uses_tail[dest] \in Readers(dest)
      /\ Readers(src) # {} => uses_head[src] \in Readers(src)
      /\ Readers(dest) = {} => uses_tail[dest] = None
  BY <1>2 DEF IsList
<1>4. IsList(use_prev', use_next', uses_head'[dest], uses_tail'[dest], {})
  <2>1. uses_head'[dest] = None /\ uses_tail'[dest] = None
    BY <1>0, <1>3 DEF replace_uses, TypeOK
  <2>2. QED
    BY <2>1, EmptyList
<1>5. IsList(use_prev', use_next', uses_head'[src], uses_tail'[src], Readers(dest) \cup Readers(src))
  <2>1. CASE Readers(dest) = {}
    <3>1. /\ uses_head'[src] = uses_head[src] /\ uses_tail'[src] = uses_tail[src]
          /\ \A x \in Use : use_prev'[x] = use_prev[x] /\ use_next'[x] = use_next[x]
      BY <1>0, <1>3, <2>1 DEF replace_uses, TypeOK
    <3>2. \A x \in Readers(src) : use_prev'[x] = use_prev[x] /\ use_next'[x] = use_next[x]
      BY <3>1 DEF Readers
    <3>3. IsList(use_prev', use_next', uses_head'[src], uses_tail'[src], Readers(src))
      BY <1>2, <3>1, <3>2, ListFrame
    <3>4. QED
      BY <2>1, <3>3
  <2>2. CASE Readers(dest) # {} /\ Readers(src) = {}
    <3>1. /\ uses_head'[src] = uses_head[dest] /\ uses_tail'[src] = uses_tail[dest]
          /\ \A x \in Use : use_prev'[x] = use_prev[x] /\ use_next'[x] = use_next[x]
      BY <1>0, <1>3, <2>2 DEF replace_uses, TypeOK
    <3>2. \A x \in Readers(dest) : use_prev'[x] = use_prev[x] /\ use_next'[x] = use_next[x]
      BY <3>1 DEF Readers
    <3>3. IsList(use_prev', use_next', uses_head'[src], uses_tail'[src], Readers(dest))
      BY <1>2, <3>1, <3>2, ListFrame
    <3>4. QED
      BY <2>2, <3>3
  <2>3. CASE Readers(dest) # {} /\ Readers(src) # {}
    <3>1. uses_head'[src] = uses_head[dest] /\ uses_tail'[src] = uses_tail[src]
      BY <1>0, <1>3, <2>3 DEF replace_uses, TypeOK
    <3>2. Joined(use_prev, use_next, use_prev', use_next', uses_tail[dest], uses_head[src],
                 Readers(dest) \cup Readers(src))
      BY <1>0, <1>3, <2>3 DEF Joined, replace_uses, TypeOK, Readers
    <3>3. IsList(use_prev', use_next', uses_head[dest], uses_tail[src],
                 Readers(dest) \cup Readers(src))
      BY <1>2, <2>3, <3>2, JoinLists
    <3>4. QED
      BY <3>1, <3>3
  <2>4. QED
    BY <2>1, <2>2, <2>3
<1>6. ASSUME NEW w \in Value \ {dest, src}
      PROVE  IsList(use_prev', use_next', uses_head'[w], uses_tail'[w], Readers(w))
  <2>1. IsList(use_prev, use_next, uses_head[w], uses_tail[w], Readers(w))
    BY DEF ValueUses
  <2>2. uses_head'[w] = uses_head[w] /\ uses_tail'[w] = uses_tail[w]
    BY DEF replace_uses, TypeOK
  <2>3. \A x \in Readers(w) : /\ uses_head[dest] # None => x # uses_tail[dest]
                              /\ uses_head[src] # None => x # uses_head[src]
    BY <1>3 DEF Readers
  <2>4. \A x \in Readers(w) : use_prev'[x] = use_prev[x] /\ use_next'[x] = use_next[x]
    BY <2>3 DEF replace_uses, TypeOK, Readers
  <2>5. QED
    BY <2>1, <2>2, <2>4, ListFrame
<1>7. ASSUME NEW x \in Use, ~attached'[x]
      PROVE  use_prev'[x] = None /\ use_next'[x] = None
  <2>1. /\ uses_head[dest] # None => x # uses_tail[dest]
        /\ uses_head[src] # None => x # uses_head[src]
    BY <1>0, <1>3, <1>7 DEF Readers
  <2>2. QED
    BY <1>0, <1>7, <2>1 DEF replace_uses, TypeOK, ValueUses
<1>8. QED
  BY <1>1, <1>4, <1>5, <1>6, <1>7 DEF ValueUses

-----------------------------------------------------------------------------
(* Types of the links.                                                     *)

LinkTypes ==
  /\ attached \in [Use -> BOOLEAN]
  /\ use_prev \in [Use -> Use \cup {None}] /\ use_next \in [Use -> Use \cup {None}]
  /\ uses_head \in [Value -> Use \cup {None}] /\ uses_tail \in [Value -> Use \cup {None}]

LEMMA PushTypes ==
  ASSUME TypeOK, NEW u \in Use, NEW v \in Value, PushUse(u, v)
  PROVE  LinkTypes'
BY DEF TypeOK, PushUse, LinkTypes

LEMMA DetachTypes ==
  ASSUME TypeOK, NEW u \in Use, detach_use(u)
  PROVE  LinkTypes'
<1>1. attached' \in [Use -> BOOLEAN]
  BY DEF TypeOK, detach_use
<1>2. use_prev' \in [Use -> Use \cup {None}] /\ use_next' \in [Use -> Use \cup {None}]
  BY DEF TypeOK, detach_use
<1>3. uses_head' \in [Value -> Use \cup {None}] /\ uses_tail' \in [Value -> Use \cup {None}]
  BY DEF TypeOK, detach_use
<1>4. QED
  BY <1>1, <1>2, <1>3 DEF LinkTypes

\* An operand of an instruction is a use, an argument a value.
LEMMA OperandTypes ==
  ASSUME TypeOK, NEW i \in Inst
  PROVE  /\ args[i] \in Seq(Value) /\ operands[i] \in Seq(Use)
         /\ Len(args[i]) \in Nat /\ Len(operands[i]) \in Nat
         /\ \A n \in 1 .. Len(operands[i]) : operands[i][n] \in Use
         /\ \A n \in 1 .. Len(args[i]) : args[i][n] \in Value
<1>1. args[i] \in Seq(Value) /\ operands[i] \in Seq(Use)
  BY DEF TypeOK
<1>2. QED
  BY <1>1, ElementOfSeq, LenProperties

-----------------------------------------------------------------------------
(* Operands.                                                               *)

\* An operand pushed on the list of the argument at its position.
LEMMA PushOperand ==
  ASSUME IInv, NEW i \in made,
         NEW n \in 1 .. Len(operands[i]), n \in 1 .. Len(args[i]),
         ~attached[operands[i][n]], PushUse(operands[i][n], args[i][n]),
         UNCHANGED <<insts, slots>>
  PROVE  /\ LinkTypes' /\ ValueUses' /\ OperandsOwned' /\ PhiEdges'
         /\ \A x \in Use : attached'[x] = IF x = operands[i][n] THEN TRUE ELSE attached[x]
<1> USE UseListsAssumption DEF IInv
<1>1. PICK u \in Use : u = operands[i][n]
  BY OperandTypes DEF TypeOK
<1>2. PICK v \in Value : v = args[i][n]
  BY OperandTypes DEF TypeOK
<1>3. /\ parent[u] = i /\ parent_idx[u] = n
      /\ i \in Inst
      /\ ~attached[u] /\ PushUse(u, v)
      /\ made' = made /\ phis' = phis /\ args' = args /\ operands' = operands
      /\ phi_blocks' = phi_blocks /\ parent' = parent /\ parent_idx' = parent_idx
  BY <1>1, <1>2 DEF OperandsOwned, TypeOK, insts, slots
<1>4. \A x \in Use : use_to_value(x)' = use_to_value(x)
  BY <1>3 DEF use_to_value
<1>5. use_to_value(u)' = v
  BY <1>2, <1>3 DEF use_to_value
<1>6. LinkTypes'
  BY <1>3, PushTypes
<1>7. ValueUses'
  BY <1>3, <1>4, <1>5, PushLists
<1>8. \A x \in Use : attached'[x] = IF x = u THEN TRUE ELSE attached[x]
  BY <1>3 DEF PushUse, TypeOK
<1>9. OperandsOwned'
  <2>1. ASSUME NEW x \in Use, attached'[x]
        PROVE  /\ parent[x] \in made
               /\ parent_idx[x] \in 1 .. Len(operands[parent[x]])
               /\ parent_idx[x] \in 1 .. Len(args[parent[x]])
               /\ operands[parent[x]][parent_idx[x]] = x
    <3>1. CASE x = u
      BY <1>1, <1>3, <3>1
    <3>2. CASE x # u
      BY <1>8, <2>1, <3>2 DEF OperandsOwned
    <3>3. QED
      BY <3>1, <3>2
  <2>2. QED
    BY <1>3, <2>1 DEF OperandsOwned
<1>10. PhiEdges'
  BY <1>3 DEF PhiEdges
<1>11. QED
  BY <1>1, <1>6, <1>7, <1>8, <1>9, <1>10

\* An operand taken off its list.
LEMMA DetachOperand ==
  ASSUME IInv, NEW i \in made, NEW n \in 1 .. Len(operands[i]),
         detach_use(operands[i][n]), UNCHANGED <<insts, slots>>
  PROVE  /\ LinkTypes' /\ ValueUses' /\ OperandsOwned' /\ PhiEdges'
         /\ \A x \in Use : attached'[x] = IF x = operands[i][n] THEN FALSE ELSE attached[x]
<1> USE UseListsAssumption DEF IInv
<1>1. PICK u \in Use : u = operands[i][n]
  BY OperandTypes DEF TypeOK
<1>2. /\ detach_use(u)
      /\ made' = made /\ phis' = phis /\ args' = args /\ operands' = operands
      /\ phi_blocks' = phi_blocks /\ parent' = parent /\ parent_idx' = parent_idx
  BY <1>1 DEF insts, slots
<1>3. \A x \in Use : use_to_value(x)' = use_to_value(x)
  BY <1>2 DEF use_to_value
<1>4. attached[u] => use_to_value(u) \in Value
  BY AttachedSlot
<1>5. LinkTypes' /\ ValueUses'
  BY <1>2, <1>3, <1>4, DetachTypes, DetachLists
<1>6. \A x \in Use : attached'[x] = IF x = u THEN FALSE ELSE attached[x]
  BY <1>2 DEF detach_use, TypeOK
<1>7. OperandsOwned'
  BY <1>2, <1>6 DEF OperandsOwned
<1>8. PhiEdges'
  BY <1>2 DEF PhiEdges
<1>9. QED
  BY <1>1, <1>5, <1>6, <1>7, <1>8

\* An operand taken off its list, and another value stored in its slot.
LEMMA DetachStoreOperand ==
  ASSUME IInv, NEW i \in made, NEW v \in Value,
         NEW n \in 1 .. Len(operands[i]), n \in 1 .. Len(args[i]),
         detach_use(operands[i][n]), args' = [args EXCEPT ![i][n] = v],
         UNCHANGED <<made, operands, slots>>
  PROVE  /\ LinkTypes' /\ args' \in [Inst -> Seq(Value)]
         /\ \A j \in Inst : Len(args'[j]) = Len(args[j])
         /\ ValueUses' /\ OperandsOwned'
         /\ \A x \in Use : attached'[x] = IF x = operands[i][n] THEN FALSE ELSE attached[x]
<1> USE UseListsAssumption DEF IInv
<1>1. PICK u \in Use : u = operands[i][n]
  BY OperandTypes DEF TypeOK
<1>2. /\ detach_use(u) /\ parent[u] = i /\ parent_idx[u] = n /\ i \in Inst
      /\ made' = made /\ operands' = operands
      /\ parent' = parent /\ parent_idx' = parent_idx
  BY <1>1 DEF slots, OperandsOwned, TypeOK
<1>3. /\ args' \in [Inst -> Seq(Value)]
      /\ \A j \in Inst : Len(args'[j]) = Len(args[j])
      /\ \A k \in 1 .. Len(args[i]) : args'[i][k] = IF k = n THEN v ELSE args[i][k]
      /\ \A j \in Inst \ {i} : args'[j] = args[j]
  <2>1. args[i] \in Seq(Value)
    BY <1>2 DEF TypeOK
  <2>2. /\ [args[i] EXCEPT ![n] = v] \in Seq(Value)
        /\ Len([args[i] EXCEPT ![n] = v]) = Len(args[i])
        /\ \A k \in 1 .. Len(args[i]) :
             [args[i] EXCEPT ![n] = v][k] = IF k = n THEN v ELSE args[i][k]
    BY <2>1, ExceptSeq
  <2>3. args' = [args EXCEPT ![i] = [args[i] EXCEPT ![n] = v]]
    BY <1>2 DEF TypeOK
  <2>4. QED
    BY <1>2, <2>2, <2>3 DEF TypeOK
<1>4. ASSUME NEW x \in Use \ {u}, attached[x]
      PROVE  use_to_value(x)' = use_to_value(x)
  <2>1. /\ parent[x] \in Inst /\ parent_idx[x] \in 1 .. Len(args[parent[x]])
        /\ operands[parent[x]][parent_idx[x]] = x
    BY <1>4, AttachedSlot DEF OperandsOwned
  <2>2. parent[x] # i \/ parent_idx[x] # n
    BY <1>1, <2>1
  <2>3. QED
    BY <1>2, <1>3, <2>1, <2>2 DEF use_to_value
<1>5. attached[u] => use_to_value(u) \in Value
  BY AttachedSlot
<1>6. LinkTypes' /\ ValueUses'
  BY <1>2, <1>4, <1>5, DetachTypes, DetachLists
<1>7. \A x \in Use : attached'[x] = IF x = u THEN FALSE ELSE attached[x]
  <2>1. attached \in [Use -> BOOLEAN] /\ attached' = [attached EXCEPT ![u] = FALSE]
    BY <1>2 DEF detach_use, TypeOK
  <2>2. QED
    BY <2>1
<1>8. OperandsOwned'
  <2>1. ASSUME NEW x \in Use, attached'[x]
        PROVE  /\ parent[x] \in made
               /\ parent_idx[x] \in 1 .. Len(operands[parent[x]])
               /\ parent_idx[x] \in 1 .. Len(args'[parent[x]])
               /\ operands[parent[x]][parent_idx[x]] = x
    <3>1. attached[x]
      BY <1>7, <2>1
    <3>2. parent[x] \in Inst
      BY <3>1, AttachedSlot
    <3>3. QED
      BY <1>3, <3>1, <3>2 DEF OperandsOwned
  <2>2. QED
    BY <1>2, <2>1 DEF OperandsOwned
<1>9. QED
  BY <1>1, <1>3, <1>6, <1>7, <1>8

\* A step that makes u the n-th and last operand of i, for an argument v that
\* i has by then.
OperandMade(u, v, i, n) ==
  /\ n = Len(operands[i]) + 1
  /\ make_use(u, v, i, n)
  /\ operands' = [operands EXCEPT ![i] = Append(operands[i], u)]
  /\ made' = made
  /\ args' \in [Inst -> Seq(Value)]
  /\ n \in 1 .. Len(args'[i]) /\ args'[i][n] = v
  /\ \A j \in Inst : /\ Len(args[j]) <= Len(args'[j])
                     /\ \A k \in 1 .. Len(args[j]) : args'[j][k] = args[j][k]

\* Such a step keeps the lists.
LEMMA MakeOperand ==
  ASSUME IInv, NEW i \in made, NEW u \in Use, NEW v \in Value, NEW n,
         OperandMade(u, v, i, n)
  PROVE  /\ LinkTypes' /\ operands' \in [Inst -> Seq(Use)]
         /\ parent' \in [Use -> Inst \cup {None}] /\ parent_idx' \in [Use -> Nat]
         /\ ValueUses' /\ OperandsOwned'
         /\ Len(operands'[i]) = n
         /\ \A j \in Inst \ {i} : operands'[j] = operands[j]
<1> USE UseListsAssumption DEF IInv, OperandMade
<1>1. i \in Inst /\ parent[u] = None /\ PushUse(u, v)
  BY DEF make_use, Fresh, TypeOK
<1>2. ~attached[u] /\ \A j \in Inst : \A k \in 1 .. Len(operands[j]) : operands[j][k] # u
  <2>1. attached[u] => parent[u] \in made
    BY DEF OperandsOwned
  <2>2. \A j \in Inst : \A k \in 1 .. Len(operands[j]) : parent[operands[j][k]] = j
    BY DEF OperandsOwned
  <2>3. made \subseteq Inst
    BY DEF TypeOK
  <2> HIDE DEF OperandMade, IInv
  <2>4. ~attached[u]
    BY <1>1, <2>1, <2>3
  <2>5. \A j \in Inst : \A k \in 1 .. Len(operands[j]) : operands[j][k] # u
    BY <1>1, <2>2
  <2>6. QED
    BY <2>4, <2>5
<1>3. operands[i] \in Seq(Use) /\ Len(operands[i]) \in Nat /\ n \in Nat
  BY <1>1, OperandTypes
<1>4. /\ operands' \in [Inst -> Seq(Use)]
      /\ Len(operands'[i]) = n /\ operands'[i][n] = u
      /\ \A k \in 1 .. Len(operands[i]) : operands'[i][k] = operands[i][k]
      /\ \A j \in Inst \ {i} : operands'[j] = operands[j]
  <2>1. /\ Append(operands[i], u) \in Seq(Use)
        /\ Len(Append(operands[i], u)) = n
        /\ Append(operands[i], u)[n] = u
        /\ \A k \in 1 .. Len(operands[i]) : Append(operands[i], u)[k] = operands[i][k]
    BY <1>3
  <2>2. QED
    BY <1>1, <2>1 DEF TypeOK
<1>5. /\ parent' \in [Use -> Inst \cup {None}] /\ parent_idx' \in [Use -> Nat]
      /\ \A x \in Use : parent'[x] = IF x = u THEN i ELSE parent[x]
      /\ \A x \in Use : parent_idx'[x] = IF x = u THEN n ELSE parent_idx[x]
  BY <1>1, <1>3 DEF make_use, TypeOK
<1>6. \A x \in Use : attached'[x] = IF x = u THEN TRUE ELSE attached[x]
  BY <1>1 DEF PushUse, TypeOK
<1>7. ASSUME NEW x \in Use, attached[x]
      PROVE  use_to_value(x)' = use_to_value(x)
  <2>1. /\ parent[x] \in Inst /\ parent_idx[x] \in 1 .. Len(args[parent[x]]) /\ x # u
    BY <1>2, <1>7, AttachedSlot
  <2>2. QED
    BY <1>5, <2>1 DEF use_to_value
<1>8. use_to_value(u)' = v
  BY <1>5 DEF use_to_value
<1>9. LinkTypes' /\ ValueUses'
  BY <1>1, <1>2, <1>7, <1>8, PushTypes, PushLists
<1>10. ASSUME NEW x \in Use, attached'[x]
       PROVE  /\ parent'[x] \in made'
              /\ parent_idx'[x] \in 1 .. Len(operands'[parent'[x]])
              /\ parent_idx'[x] \in 1 .. Len(args'[parent'[x]])
              /\ operands'[parent'[x]][parent_idx'[x]] = x
  <2>1. CASE x = u
    BY <1>3, <1>4, <1>5, <2>1
  <2>2. CASE x # u
    <3>1. attached[x] /\ parent'[x] = parent[x] /\ parent_idx'[x] = parent_idx[x]
      BY <1>5, <1>6, <1>10, <2>2
    <3>2. /\ parent[x] \in made /\ parent[x] \in Inst
          /\ parent_idx[x] \in 1 .. Len(operands[parent[x]])
          /\ parent_idx[x] \in 1 .. Len(args[parent[x]])
          /\ operands[parent[x]][parent_idx[x]] = x
      BY <3>1, AttachedSlot DEF OperandsOwned
    <3>3. parent_idx[x] \in 1 .. Len(args'[parent[x]])
      <4>1. /\ Len(args[parent[x]]) \in Nat
            /\ args'[parent[x]] \in Seq(Value)
            /\ Len(args[parent[x]]) <= Len(args'[parent[x]])
        BY <3>2, OperandTypes
      <4>2. Len(args'[parent[x]]) \in Nat
        BY <4>1, LenProperties
      <4>3. QED
        BY <3>2, <4>1, <4>2
    <3>4. QED
      BY <1>3, <1>4, <3>1, <3>2, <3>3
  <2>3. QED
    BY <2>1, <2>2
<1>11. ASSUME NEW j \in Inst, NEW k \in 1 .. Len(operands'[j])
       PROVE  parent'[operands'[j][k]] = j /\ parent_idx'[operands'[j][k]] = k
  <2>1. CASE j = i /\ k = n
    BY <1>4, <1>5, <2>1
  <2>2. CASE j # i \/ k # n
    <3>1. k \in 1 .. Len(operands[j]) /\ operands'[j][k] = operands[j][k]
      BY <1>3, <1>4, <1>11, <2>2
    <3>2. operands[j][k] \in Use /\ operands[j][k] # u
      BY <1>2, <3>1, OperandTypes
    <3>3. parent[operands[j][k]] = j /\ parent_idx[operands[j][k]] = k
      BY <3>1 DEF OperandsOwned
    <3>4. QED
      BY <1>5, <3>1, <3>2, <3>3
  <2>3. QED
    BY <2>1, <2>2
<1>12. OperandsOwned'
  BY <1>10, <1>11 DEF OperandsOwned
<1>13. QED
  BY <1>4, <1>5, <1>9, <1>12

\* Data stored in an instruction all of whose operands are detached.
LEMMA StoreKeepsLists ==
  ASSUME IInv, NEW i \in made, NEW a \in Seq(Value), StoreInst(i, a),
         \A k \in 1 .. Len(operands[i]) : ~attached[operands[i][k]],
         UNCHANGED <<made, operands, slots, links>>
  PROVE  /\ args' \in [Inst -> Seq(Value)] /\ phis' \subseteq made'
         /\ phi_blocks' \in [Inst -> [Block -> Nat \cup {None}]]
         /\ ValueUses' /\ OperandsOwned' /\ PhiEdges'
<1> USE UseListsAssumption DEF IInv
<1>1. /\ i \in Inst /\ made' = made /\ operands' = operands /\ attached' = attached
      /\ parent' = parent /\ parent_idx' = parent_idx
      /\ args' = [args EXCEPT ![i] = a] /\ phis' = phis \ {i}
      /\ phi_blocks' = [phi_blocks EXCEPT ![i] = [b \in Block |-> None]]
  BY DEF StoreInst, slots, links, TypeOK
<1>2. /\ args' \in [Inst -> Seq(Value)] /\ phis' \subseteq made'
      /\ phi_blocks' \in [Inst -> [Block -> Nat \cup {None}]]
  BY <1>1 DEF TypeOK
<1>3. ASSUME NEW x \in Use, attached[x]
      PROVE  parent[x] # i /\ args'[parent[x]] = args[parent[x]]
  <2>1. /\ parent[x] \in Inst
        /\ parent_idx[x] \in 1 .. Len(operands[parent[x]])
        /\ operands[parent[x]][parent_idx[x]] = x
    BY <1>3, AttachedSlot DEF OperandsOwned
  <2>2. QED
    BY <1>1, <1>3, <2>1 DEF TypeOK
<1>4. ValueUses'
  BY <1>1, <1>3, FrameLists DEF use_to_value
<1>5. OperandsOwned'
  BY <1>1, <1>3 DEF OperandsOwned
<1>6. PhiEdges'
  BY <1>1 DEF PhiEdges, TypeOK
<1>7. QED
  BY <1>2, <1>4, <1>5, <1>6

-----------------------------------------------------------------------------
(* Every step keeps the invariant: one lemma for each kind of action.      *)

LEMMA InitInv == Init => IInv
<1> SUFFICES ASSUME Init PROVE IInv
  OBVIOUS
<1> USE UseListsAssumption DEF Init
<1>1. TypeOK
  BY DEF TypeOK
<1>2. ValueUses
  <2>1. \A v \in Value : Readers(v) = {}
    BY DEF Readers
  <2>2. \A v \in Value : IsList(use_prev, use_next, None, None, {})
    BY EmptyList
  <2>3. QED
    BY <2>1, <2>2 DEF ValueUses
<1>3. OperandsOwned /\ AttachesDetached /\ PhiEdges /\ Loops
  BY DEF OperandsOwned, AttachesDetached, PhiEdges, Loops
<1>4. QED
  BY <1>1, <1>2, <1>3 DEF IInv

\* zap_inst, update_inst and update_inst_uses only start a loop.
LEMMA StartStep ==
  ASSUME IInv, NEW i \in Inst, NEW a \in Seq(Value),
         zap_inst(i) \/ update_inst(i, a) \/ update_inst_uses(i)
  PROVE  IInv'
<1> USE UseListsAssumption DEF IInv
<1>1. /\ i \in made /\ cur' = i /\ at' = 1
      /\ op' \in {"zap", "update", "attach"} /\ data' \in Seq(Value)
      /\ op' = "attach" => \A k \in 1 .. Len(operands[i]) : ~attached[operands[i][k]]
  BY DEF zap_inst, update_inst, update_inst_uses, Start, TypeOK
<1>2. UNCHANGED <<insts, slots, links>>
  BY DEF zap_inst, update_inst, update_inst_uses
<1>3. /\ made' = made /\ phis' = phis /\ args' = args /\ operands' = operands
      /\ phi_blocks' = phi_blocks /\ parent' = parent /\ parent_idx' = parent_idx
      /\ attached' = attached /\ use_prev' = use_prev /\ use_next' = use_next
      /\ uses_head' = uses_head /\ uses_tail' = uses_tail
  BY <1>2 DEF insts, slots, links
<1>4. TypeOK'
  BY <1>1, <1>3 DEF TypeOK
<1>5. ValueUses'
  BY <1>2, <1>3, FrameLists DEF use_to_value
<1>6. OperandsOwned' /\ PhiEdges'
  BY <1>3 DEF OperandsOwned, PhiEdges
<1>7. AttachesDetached'
  <2>1. Len(operands[i]) \in Nat
    BY OperandTypes
  <2>2. QED
    BY <1>1, <1>3, <2>1 DEF AttachesDetached
<1>8. Loops'
  BY <1>1, <1>3 DEF Loops
<1>9. QED
  BY <1>4, <1>5, <1>6, <1>7, <1>8

\* make_inst: an instruction nobody uses yet.
LEMMA MakeInstStep ==
  ASSUME IInv, NEW i \in Inst, NEW a \in Seq(Value), NEW phi \in BOOLEAN,
         make_inst(i, a, phi)
  PROVE  IInv'
<1> USE UseListsAssumption DEF IInv
<1>1. /\ i \notin made /\ operands[i] = <<>> /\ Len(operands[i]) = 0
  BY DEF make_inst, Loops
<1>2. /\ made' = made \cup {i} /\ args' = [args EXCEPT ![i] = a]
      /\ operands' = operands /\ phi_blocks' = phi_blocks
      /\ parent' = parent /\ parent_idx' = parent_idx
      /\ attached' = attached /\ use_prev' = use_prev /\ use_next' = use_next
      /\ uses_head' = uses_head /\ uses_tail' = uses_tail
      /\ UNCHANGED links
  BY DEF make_inst, slots, links
<1>3. /\ phis' = IF phi THEN phis \cup {i} ELSE phis
      /\ phi => a = <<>>
      /\ data' = <<>> /\ at' = 1
      /\ Len(a) \in Nat
      /\ \/ op' = "extend" /\ cur' = i /\ 0 < Len(a)
         \/ op' = "idle" /\ cur' = None
  BY LenProperties DEF make_inst, StartExtend, Start, Finish
<1>4. TypeOK'
  BY <1>2, <1>3 DEF TypeOK
<1>5. ASSUME NEW x \in Use, attached[x]
      PROVE  parent[x] \in made /\ parent[x] \in Inst /\ parent[x] # i
  BY <1>1, <1>5 DEF OperandsOwned, TypeOK
<1>6. ValueUses'
  <2>1. \A x \in Use : attached[x] => use_to_value(x)' = use_to_value(x)
    BY <1>2, <1>5 DEF use_to_value, TypeOK
  <2>2. QED
    BY <1>2, <2>1, FrameLists
<1>7. OperandsOwned'
  BY <1>2, <1>5 DEF OperandsOwned, TypeOK
<1>8. PhiEdges'
  <2>1. ASSUME NEW j \in phis'
        PROVE  /\ Len(operands'[j]) = Len(args'[j])
               /\ \A b \in Block : phi_blocks'[j][b] # None =>
                    /\ phi_blocks'[j][b] \in 1 .. Len(args'[j])
                    /\ \A c \in Block \ {b} : phi_blocks'[j][c] # phi_blocks'[j][b]
    <3>1. CASE j = i
      <4>1. a = <<>> /\ Len(args'[i]) = 0
        BY <1>1, <1>2, <1>3, <2>1, <3>1 DEF TypeOK
      <4>2. \A b \in Block : phi_blocks'[i][b] = None
        BY <1>1, <1>2 DEF Loops, TypeOK
      <4>3. QED
        BY <1>1, <1>2, <3>1, <4>1, <4>2
    <3>2. CASE j # i
      <4>1. j \in phis /\ args'[j] = args[j]
        BY <1>2, <1>3, <2>1, <3>2 DEF TypeOK
      <4>2. QED
        BY <1>2, <4>1 DEF PhiEdges
    <3>3. QED
      BY <3>1, <3>2
  <2>2. QED
    BY <2>1 DEF PhiEdges
<1>9. AttachesDetached'
  BY <1>3 DEF AttachesDetached
<1>10. Loops'
  BY <1>1, <1>2, <1>3 DEF Loops, TypeOK
<1>11. QED
  BY <1>4, <1>6, <1>7, <1>8, <1>9, <1>10

\* One more operand for the instruction in the making.
LEMMA ExtendKeeps ==
  ASSUME IInv, NEW u \in Use, ExtendStep(u)
  PROVE  IInv'
<1> USE UseListsAssumption DEF IInv
<1>1. PICK i \in made : i = cur
  BY DEF ExtendStep, Loops
<1>2. PICK n : n = Len(operands[i]) + 1
  OBVIOUS
<1>3. i \in Inst /\ Len(operands[i]) \in Nat /\ Len(args[i]) \in Nat /\ n \in 1 .. Len(args[i])
  BY <1>1, <1>2, OperandTypes DEF ExtendStep, Loops, TypeOK
<1>4. PICK v \in Value : v = args[i][n]
  BY <1>3, OperandTypes
<1>5. /\ make_use(u, v, i, n)
      /\ operands' = [operands EXCEPT ![i] = Append(@, u)]
      /\ made' = made /\ phis' = phis /\ args' = args /\ phi_blocks' = phi_blocks
  BY <1>1, <1>2, <1>4 DEF ExtendStep
<1>6. \/ n < Len(args[i]) /\ op' = "extend" /\ cur' = i /\ at' = at /\ data' = data
      \/ op' = "idle" /\ cur' = None /\ at' = 1 /\ data' = <<>>
  BY <1>1, <1>2 DEF ExtendStep, Finish, loop
<1>7. /\ LinkTypes' /\ operands' \in [Inst -> Seq(Use)]
      /\ parent' \in [Use -> Inst \cup {None}] /\ parent_idx' \in [Use -> Nat]
      /\ ValueUses' /\ OperandsOwned'
      /\ Len(operands'[i]) = n
      /\ \A j \in Inst \ {i} : operands'[j] = operands[j]
  <2>1. args' \in [Inst -> Seq(Value)]
    BY <1>5 DEF TypeOK
  <2>2. \A j \in Inst : /\ Len(args[j]) <= Len(args'[j])
                        /\ \A k \in 1 .. Len(args[j]) : args'[j][k] = args[j][k]
    BY <1>5, OperandTypes
  <2>3. n \in 1 .. Len(args'[i]) /\ args'[i][n] = v
    BY <1>3, <1>4, <1>5
  <2>4. OperandMade(u, v, i, n)
    BY <1>2, <1>5, <2>1, <2>2, <2>3 DEF OperandMade
  <2>5. QED
    BY <2>4, MakeOperand
<1>8. TypeOK'
  <2>1. /\ op' \in {"idle", "zap", "update", "attach", "extend", "reattach"}
        /\ cur' \in Inst \cup {None} /\ at' \in Nat /\ data' \in Seq(Value)
    <3>1. CASE op' = "extend" /\ cur' = i /\ at' = at /\ data' = data
      BY <1>3, <3>1 DEF TypeOK
    <3>2. CASE op' = "idle" /\ cur' = None /\ at' = 1 /\ data' = <<>>
      BY <3>2
    <3>3. QED
      BY <1>6, <3>1, <3>2
  <2>2. /\ made' \subseteq Inst /\ phis' \subseteq made' /\ args' \in [Inst -> Seq(Value)]
        /\ phi_blocks' \in [Inst -> [Block -> Nat \cup {None}]]
    BY <1>5 DEF TypeOK
  <2>3. QED
    BY <1>7, <2>1, <2>2 DEF TypeOK, LinkTypes
<1>9. i \notin phis
  BY <1>2, <1>3 DEF PhiEdges
<1>10. PhiEdges'
  BY <1>5, <1>7, <1>9 DEF PhiEdges, TypeOK
<1>11. AttachesDetached'
  BY <1>6 DEF AttachesDetached
<1>12. Loops'
  BY <1>3, <1>5, <1>6, <1>7 DEF Loops, TypeOK
<1>13. QED
  BY <1>7, <1>8, <1>10, <1>11, <1>12

\* A new edge of a phi.
LEMMA InsertEdgeKeeps ==
  ASSUME IInv, NEW u \in Use, NEW i \in Inst, NEW b \in Block, NEW v \in Value,
         insert_phi_edge(u, i, b, v)
  PROVE  IInv'
<1> USE UseListsAssumption DEF IInv
<1>1. PICK n : n = Len(operands[i]) + 1
  OBVIOUS
<1>2. /\ i \in phis /\ i \in made /\ op = "idle" /\ phi_blocks[i][b] = None
      /\ args[i] \in Seq(Value) /\ Len(args[i]) \in Nat
      /\ Len(operands[i]) = Len(args[i]) /\ n = Len(args[i]) + 1 /\ n \in Nat \ {0}
  BY <1>1, OperandTypes DEF insert_phi_edge, PhiEdges, TypeOK
<1>3. /\ make_use(u, v, i, n)
      /\ operands' = [operands EXCEPT ![i] = Append(@, u)]
      /\ args' = [args EXCEPT ![i] = Append(@, v)]
      /\ phi_blocks' = [phi_blocks EXCEPT ![i][b] = n]
      /\ made' = made /\ phis' = phis
      /\ op' = op /\ cur' = cur /\ at' = at /\ data' = data
  BY <1>2 DEF insert_phi_edge, loop
<1>4. /\ args' \in [Inst -> Seq(Value)]
      /\ Len(args'[i]) = n /\ args'[i][n] = v
      /\ \A k \in 1 .. Len(args[i]) : args'[i][k] = args[i][k]
      /\ \A j \in Inst \ {i} : args'[j] = args[j]
  <2>1. /\ Append(args[i], v) \in Seq(Value)
        /\ Len(Append(args[i], v)) = n
        /\ Append(args[i], v)[n] = v
        /\ \A k \in 1 .. Len(args[i]) : Append(args[i], v)[k] = args[i][k]
    BY <1>2
  <2>2. QED
    BY <1>3, <2>1 DEF TypeOK
<1>5. /\ LinkTypes' /\ operands' \in [Inst -> Seq(Use)]
      /\ parent' \in [Use -> Inst \cup {None}] /\ parent_idx' \in [Use -> Nat]
      /\ ValueUses' /\ OperandsOwned'
      /\ Len(operands'[i]) = n
      /\ \A j \in Inst \ {i} : operands'[j] = operands[j]
  <2>1. \A j \in Inst : /\ Len(args[j]) <= Len(args'[j])
                        /\ \A k \in 1 .. Len(args[j]) : args'[j][k] = args[j][k]
    <3> SUFFICES ASSUME NEW j \in Inst
                 PROVE  /\ Len(args[j]) <= Len(args'[j])
                        /\ \A k \in 1 .. Len(args[j]) : args'[j][k] = args[j][k]
      OBVIOUS
    <3>1. Len(args[j]) \in Nat
      BY OperandTypes
    <3>2. CASE j = i
      BY <1>2, <1>4, <3>1, <3>2
    <3>3. CASE j # i
      BY <1>4, <3>1, <3>3
    <3>4. QED
      BY <3>2, <3>3
  <2>2. n \in 1 .. Len(args'[i])
    BY <1>2, <1>4
  <2>3. OperandMade(u, v, i, n)
    BY <1>1, <1>2, <1>3, <1>4, <2>1, <2>2 DEF OperandMade
  <2>4. QED
    BY <1>2, <2>3, MakeOperand
<1>6. /\ phi_blocks' \in [Inst -> [Block -> Nat \cup {None}]]
      /\ \A c \in Block : phi_blocks'[i][c] = IF c = b THEN n ELSE phi_blocks[i][c]
      /\ \A j \in Inst \ {i} : phi_blocks'[j] = phi_blocks[j]
  BY <1>2, <1>3 DEF TypeOK
<1>7. TypeOK'
  BY <1>3, <1>4, <1>5, <1>6 DEF TypeOK, LinkTypes
<1>8. PhiEdges'
  <2>1. ASSUME NEW j \in phis
        PROVE  /\ Len(operands'[j]) = Len(args'[j])
               /\ \A d \in Block : phi_blocks'[j][d] # None =>
                    /\ phi_blocks'[j][d] \in 1 .. Len(args'[j])
                    /\ \A c \in Block \ {d} : phi_blocks'[j][c] # phi_blocks'[j][d]
    <3>1. CASE j = i
      <4>1. Len(operands'[i]) = Len(args'[i])
        BY <1>4, <1>5
      <4>2. ASSUME NEW d \in Block, phi_blocks'[i][d] # None
            PROVE  /\ phi_blocks'[i][d] \in 1 .. Len(args'[i])
                   /\ \A c \in Block \ {d} : phi_blocks'[i][c] # phi_blocks'[i][d]
        <5>1. \A e \in Block : phi_blocks[i][e] # None =>
                /\ phi_blocks[i][e] \in 1 .. Len(args[i]) /\ phi_blocks[i][e] # n
                /\ \A c \in Block \ {e} : phi_blocks[i][c] # phi_blocks[i][e]
          BY <1>2 DEF PhiEdges
        <5>2. CASE d = b
          BY <1>2, <1>4, <1>6, <5>1, <5>2
        <5>3. CASE d # b
          BY <1>2, <1>4, <1>6, <4>2, <5>1, <5>3
        <5>4. QED
          BY <5>2, <5>3
      <4>3. QED
        BY <3>1, <4>1, <4>2
    <3>2. CASE j # i
      <4>1. /\ args'[j] = args[j] /\ operands'[j] = operands[j]
            /\ phi_blocks'[j] = phi_blocks[j]
        BY <1>4, <1>5, <1>6, <3>2 DEF TypeOK
      <4>2. QED
        BY <4>1 DEF PhiEdges
    <3>3. QED
      BY <3>1, <3>2
  <2>2. QED
    BY <1>3, <2>1 DEF PhiEdges
<1>9. AttachesDetached' /\ Loops'
  BY <1>2, <1>3, <1>5, <1>6 DEF AttachesDetached, Loops, TypeOK
<1>10. QED
  BY <1>5, <1>7, <1>8, <1>9

\* A step of a loop, or a whole operation on one operand, that changes links
\* only: what is left to show of the invariant is the state of the loop.
LEMMA LinksOnly ==
  ASSUME IInv, UNCHANGED <<insts, slots>>,
         LinkTypes' /\ ValueUses' /\ OperandsOwned' /\ PhiEdges',
         op' \in {"idle", "zap", "update", "attach", "extend", "reattach"},
         cur' \in Inst \cup {None}, at' \in Nat \ {0}, data' \in Seq(Value),
         op' # "idle" => cur' \in made,
         op' \notin {"extend", "reattach"},
         AttachesDetached'
  PROVE  IInv'
<1> USE UseListsAssumption DEF IInv
<1>1. /\ made' = made /\ phis' = phis /\ args' = args /\ operands' = operands
      /\ phi_blocks' = phi_blocks /\ parent' = parent /\ parent_idx' = parent_idx
  BY DEF insts, slots
<1>2. TypeOK'
  BY <1>1 DEF TypeOK, LinkTypes
<1>3. Loops'
  BY <1>1 DEF Loops
<1>4. QED
  BY <1>2, <1>3

\* Two positions of an instruction hold different operands.
LEMMA OperandsDiffer ==
  ASSUME OperandsOwned, NEW i \in Inst,
         NEW m \in 1 .. Len(operands[i]), NEW n \in 1 .. Len(operands[i]),
         operands[i][m] = operands[i][n]
  PROVE  m = n
BY DEF OperandsOwned

\* zap: one operand of the instruction is detached.
LEMMA ZapKeeps ==
  ASSUME IInv, ZapStep
  PROVE  IInv'
<1> USE UseListsAssumption DEF IInv
<1>1. PICK i \in made : i = cur
  BY DEF ZapStep, Loops
<1>2. i \in Inst /\ Len(operands[i]) \in Nat /\ at \in Nat /\ at \in 1 .. Len(operands[i])
  BY <1>1, OperandTypes DEF ZapStep, Loops, TypeOK
<1>3. /\ detach_use(operands[i][at])
      /\ UNCHANGED <<insts, slots>> /\ operands' = operands
  BY <1>1 DEF ZapStep, insts
<1>4. /\ LinkTypes' /\ ValueUses' /\ OperandsOwned' /\ PhiEdges'
      /\ \A x \in Use : attached'[x] = IF x = operands[i][at] THEN FALSE ELSE attached[x]
  BY <1>2, <1>3, DetachOperand
<1>5. \/ op' = op /\ cur' = i /\ at' = at + 1 /\ data' = data
      \/ op' = "idle" /\ cur' = None /\ at' = 1 /\ data' = <<>>
  BY <1>1 DEF ZapStep, Finish
<1>6. CASE op' = op /\ cur' = i /\ at' = at + 1 /\ data' = data
  <2>1. op \in {"zap", "update"}
    BY DEF ZapStep
  <2>2. \A n \in 1 .. Len(operands[i]) : n < at + 1 => ~attached'[operands[i][n]]
    <3> SUFFICES ASSUME NEW n \in 1 .. Len(operands[i]), n < at + 1
                 PROVE  ~attached'[operands[i][n]]
      OBVIOUS
    <3>1. operands[i][n] \in Use
      BY <1>2, OperandTypes
    <3>2. CASE n = at
      BY <1>4, <3>1, <3>2
    <3>3. CASE n < at
      <4>1. ~attached[operands[i][n]]
        BY <1>1, <2>1, <3>3 DEF AttachesDetached
      <4>2. QED
        BY <1>4, <3>1, <4>1
    <3>4. QED
      BY <1>2, <3>2, <3>3
  <2>3. AttachesDetached'
    BY <1>3, <1>6, <2>1, <2>2 DEF AttachesDetached
  <2>4. /\ op' \in {"zap", "update"} /\ cur' \in made /\ cur' \in Inst
        /\ at' \in Nat \ {0} /\ data' \in Seq(Value)
    BY <1>2, <1>6, <2>1 DEF TypeOK
  <2> HIDE DEF IInv
  <2>5. QED
    BY <1>3, <1>4, <2>3, <2>4, LinksOnly
<1>7. CASE op' = "idle" /\ cur' = None /\ at' = 1 /\ data' = <<>>
  <2>1. AttachesDetached' /\ data' \in Seq(Value)
    BY <1>7 DEF AttachesDetached
  <2> HIDE DEF IInv
  <2>2. QED
    BY <1>3, <1>4, <1>7, <2>1, LinksOnly
<1>8. QED
  BY <1>5, <1>6, <1>7

\* update_inst_uses: one operand of the instruction is attached.
LEMMA AttachKeeps ==
  ASSUME IInv, AttachStep
  PROVE  IInv'
<1> USE UseListsAssumption DEF IInv
<1>1. PICK i \in made : i = cur
  BY DEF AttachStep, Loops
<1>2. /\ i \in Inst /\ Len(operands[i]) \in Nat /\ Len(args[i]) \in Nat
      /\ at \in Nat /\ at \in 1 .. Len(operands[i]) /\ at \in 1 .. Len(args[i])
  BY <1>1, OperandTypes DEF AttachStep, Loops, TypeOK
<1>3. /\ PushUse(operands[i][at], args[i][at])
      /\ UNCHANGED <<insts, slots>> /\ operands' = operands
      /\ op = "attach" /\ op' = op /\ cur' = i /\ at' = at + 1 /\ data' = data
  BY <1>1 DEF AttachStep, insts
<1>4. \A n \in 1 .. Len(operands[i]) : n >= at => ~attached[operands[i][n]]
  BY <1>1, <1>3 DEF AttachesDetached
<1>5. ~attached[operands[i][at]]
  BY <1>2, <1>4
<1>6. /\ LinkTypes' /\ ValueUses' /\ OperandsOwned' /\ PhiEdges'
      /\ \A x \in Use : attached'[x] = IF x = operands[i][at] THEN TRUE ELSE attached[x]
  BY <1>2, <1>3, <1>5, PushOperand
<1>7. \A n \in 1 .. Len(operands[i]) : n >= at + 1 => ~attached'[operands[i][n]]
  <2> SUFFICES ASSUME NEW n \in 1 .. Len(operands[i]), n >= at + 1
               PROVE  ~attached'[operands[i][n]]
    OBVIOUS
  <2>1. operands[i][n] \in Use /\ n # at /\ n >= at
    BY <1>2, OperandTypes
  <2>2. operands[i][n] # operands[i][at]
    BY <1>2, <2>1, OperandsDiffer
  <2>3. QED
    BY <1>4, <1>6, <2>1, <2>2
<1>8. AttachesDetached'
  BY <1>3, <1>7 DEF AttachesDetached
<1>9. /\ cur' \in made /\ cur' \in Inst /\ op' = "attach"
      /\ at' \in Nat \ {0} /\ data' \in Seq(Value)
  BY <1>2, <1>3 DEF TypeOK
<1> HIDE DEF IInv
<1>10. QED
  BY <1>3, <1>6, <1>8, <1>9, LinksOnly

\* detach_operand and attach_operand.
LEMMA OperandKeeps ==
  ASSUME IInv, NEW i \in Inst, NEW n \in Nat,
         detach_operand(i, n) \/ attach_operand(i, n)
  PROVE  IInv'
<1> USE UseListsAssumption DEF IInv
<1>1. /\ op = "idle" /\ i \in made /\ n \in 1 .. Len(operands[i])
      /\ UNCHANGED <<insts, slots>>
      /\ op' = op /\ cur' = cur /\ at' = at /\ data' = data
  BY DEF detach_operand, attach_operand, loop
<1>2. LinkTypes' /\ ValueUses' /\ OperandsOwned' /\ PhiEdges'
  <2>1. CASE detach_operand(i, n)
    BY <1>1, <2>1, DetachOperand DEF detach_operand
  <2>2. CASE attach_operand(i, n)
    BY <1>1, <2>2, PushOperand DEF attach_operand
  <2>3. QED
    BY <2>1, <2>2
<1>3. AttachesDetached'
  BY <1>1 DEF AttachesDetached
<1>4. cur' \in Inst \cup {None} /\ at' \in Nat \ {0} /\ data' \in Seq(Value)
  BY <1>1 DEF TypeOK, Loops
<1> HIDE DEF IInv
<1>5. QED
  BY <1>1, <1>2, <1>3, <1>4, LinksOnly

\* The second half of a change of one operand.
LEMMA ReattachKeeps ==
  ASSUME IInv, Reattach
  PROVE  IInv'
<1> USE UseListsAssumption DEF IInv
<1>1. PICK i \in made : i = cur
  BY DEF Reattach, Loops
<1>2. at \in 1 .. Len(operands[i]) /\ at \in 1 .. Len(args[i]) /\ ~attached[operands[i][at]]
  BY <1>1 DEF Reattach, Loops, AttachesDetached
<1>3. /\ PushUse(operands[i][at], args[i][at])
      /\ UNCHANGED <<insts, slots>>
      /\ op' = "idle" /\ cur' = None /\ at' = 1 /\ data' = <<>>
  BY <1>1 DEF Reattach, Finish
<1>4. LinkTypes' /\ ValueUses' /\ OperandsOwned' /\ PhiEdges'
  BY <1>2, <1>3, PushOperand
<1>5. AttachesDetached' /\ data' \in Seq(Value)
  BY <1>3 DEF AttachesDetached
<1> HIDE DEF IInv
<1>6. QED
  BY <1>3, <1>4, <1>5, LinksOnly

\* The first half of a change of one operand: set_operand_value, and
\* insert_phi_edge for a block that has an edge.
LEMMA ChangeKeeps ==
  ASSUME IInv, NEW i \in made, NEW v \in Value,
         NEW n, n \in 1 .. Len(operands[i]), n \in 1 .. Len(args[i]),
         DetachAndStore(i, n, v),
         UNCHANGED <<made, phis, operands, phi_blocks, slots, data>>
  PROVE  IInv'
<1> USE UseListsAssumption DEF IInv
<1>1. i \in made /\ n \in 1 .. Len(operands[i]) /\ n \in 1 .. Len(args[i])
  OBVIOUS
<1>2. /\ detach_use(operands[i][n]) /\ args' = [args EXCEPT ![i][n] = v]
      /\ made' = made /\ phis' = phis /\ operands' = operands /\ phi_blocks' = phi_blocks
      /\ parent' = parent /\ parent_idx' = parent_idx
      /\ op' = "reattach" /\ cur' = i /\ at' = n /\ data' = data
      /\ UNCHANGED <<made, operands, slots>>
  BY DEF DetachAndStore, slots
<1>3. /\ LinkTypes' /\ args' \in [Inst -> Seq(Value)]
      /\ \A j \in Inst : Len(args'[j]) = Len(args[j])
      /\ ValueUses' /\ OperandsOwned'
  BY <1>1, <1>2, DetachStoreOperand
<1>4. i \in Inst /\ Len(operands[i]) \in Nat /\ n \in Nat \ {0} /\ operands[i][n] \in Use
  BY OperandTypes DEF TypeOK
<1>5. ~attached'[operands[i][n]]
  BY <1>2, <1>4 DEF detach_use, TypeOK
<1>6. TypeOK'
  BY <1>2, <1>3, <1>4 DEF TypeOK, LinkTypes
<1>7. PhiEdges'
  <2>1. \A j \in phis : j \in Inst
    BY DEF TypeOK
  <2>2. QED
    BY <1>2, <1>3, <2>1 DEF PhiEdges
<1>8. AttachesDetached'
  BY <1>2, <1>5 DEF AttachesDetached
<1>9. Loops'
  BY <1>2, <1>3, <1>4 DEF Loops
<1>10. QED
  BY <1>3, <1>6, <1>7, <1>8, <1>9

\* set_operand_value on an attached operand.
LEMMA SetOperandKeeps ==
  ASSUME IInv, NEW i \in Inst, NEW n \in Nat, NEW v \in Value,
         set_operand_value(v, i, n)
  PROVE  IInv'
<1>1. /\ i \in made /\ n \in 1 .. Len(operands[i]) /\ attached[operands[i][n]]
      /\ DetachAndStore(i, n, v)
      /\ UNCHANGED <<made, phis, operands, phi_blocks, slots, data>>
  BY DEF set_operand_value
<1>2. operands[i][n] \in Use /\ parent[operands[i][n]] = i /\ parent_idx[operands[i][n]] = n
  BY <1>1, OperandTypes DEF IInv, OperandsOwned
<1>3. n \in 1 .. Len(args[i])
  BY <1>1, <1>2 DEF IInv, OperandsOwned
<1>4. QED
  BY <1>1, <1>3, ChangeKeeps

\* The edge of a phi has an argument and an operand.
LEMMA EdgeSlot ==
  ASSUME IInv, NEW i \in phis, NEW b \in Block, phi_blocks[i][b] # None
  PROVE  /\ i \in made /\ phi_blocks[i][b] \in 1 .. Len(operands[i])
         /\ phi_blocks[i][b] \in 1 .. Len(args[i])
BY DEF IInv, TypeOK, PhiEdges

\* insert_phi_edge for a block that has an edge.
LEMMA UpdateEdgeKeeps ==
  ASSUME IInv, NEW i \in Inst, NEW b \in Block, NEW v \in Value, UpdatePhiEdge(i, b, v)
  PROVE  IInv'
<1>1. PICK n : n = phi_blocks[i][b]
  OBVIOUS
<1>2. /\ i \in made /\ n \in 1 .. Len(operands[i]) /\ n \in 1 .. Len(args[i])
  BY <1>1, EdgeSlot DEF UpdatePhiEdge
<1>3. /\ DetachAndStore(i, n, v)
      /\ UNCHANGED <<made, phis, operands, phi_blocks, slots, data>>
  BY <1>1 DEF UpdatePhiEdge
<1>4. QED
  BY <1>2, <1>3, ChangeKeeps

\* The removal of a phi edge.
LEMMA RemoveEdgeKeeps ==
  ASSUME IInv, NEW i \in Inst, NEW b \in Block, try_remove_phi_edge(i, b)
  PROVE  IInv'
<1> USE UseListsAssumption DEF IInv
<1>1. PICK n : n = phi_blocks[i][b]
  OBVIOUS
<1>2. /\ i \in made /\ i \in phis /\ op = "idle" /\ GRAVESTONE \in Value
      /\ n \in 1 .. Len(operands[i]) /\ n \in 1 .. Len(args[i])
  BY <1>1, EdgeSlot DEF try_remove_phi_edge
<1>3. /\ detach_use(operands[i][n]) /\ args' = [args EXCEPT ![i][n] = GRAVESTONE]
      /\ made' = made /\ phis' = phis /\ operands' = operands
      /\ phi_blocks' = [phi_blocks EXCEPT ![i][b] = None]
      /\ parent' = parent /\ parent_idx' = parent_idx
      /\ op' = op /\ cur' = cur /\ at' = at /\ data' = data
      /\ UNCHANGED <<made, operands, slots>>
  BY <1>1 DEF try_remove_phi_edge, slots, loop
<1>4. /\ LinkTypes' /\ args' \in [Inst -> Seq(Value)]
      /\ \A j \in Inst : Len(args'[j]) = Len(args[j])
      /\ ValueUses' /\ OperandsOwned'
  BY <1>2, <1>3, DetachStoreOperand
<1>5. /\ phi_blocks' \in [Inst -> [Block -> Nat \cup {None}]]
      /\ \A j \in Inst : \A c \in Block :
           phi_blocks'[j][c] = IF j = i /\ c = b THEN None ELSE phi_blocks[j][c]
  BY <1>3 DEF TypeOK
<1>6. TypeOK'
  BY <1>3, <1>4, <1>5 DEF TypeOK, LinkTypes
<1>7. PhiEdges'
  <2>1. \A j \in phis : j \in Inst
    BY DEF TypeOK
  <2>2. ASSUME NEW j \in phis
        PROVE  /\ Len(operands'[j]) = Len(args'[j])
               /\ \A d \in Block : phi_blocks'[j][d] # None =>
                    /\ phi_blocks'[j][d] \in 1 .. Len(args'[j])
                    /\ \A c \in Block \ {d} : phi_blocks'[j][c] # phi_blocks'[j][d]
    BY <1>3, <1>4, <1>5, <2>1 DEF PhiEdges
  <2>3. QED
    BY <1>3, <2>2 DEF PhiEdges
<1>8. AttachesDetached' /\ Loops'
  BY <1>2, <1>3, <1>5 DEF AttachesDetached, Loops
<1>9. QED
  BY <1>4, <1>6, <1>7, <1>8

\* New data stored by update_inst, or by a pass.
LEMMA StoreKeeps ==
  ASSUME IInv, NEW i \in Inst, NEW a \in Seq(Value),
         (StoreData /\ i = cur /\ a = data) \/ write_inst(i, a)
  PROVE  IInv'
<1> USE UseListsAssumption DEF IInv
<1>1. /\ i \in made /\ StoreInst(i, a)
      /\ made' = made /\ operands' = operands /\ parent' = parent /\ parent_idx' = parent_idx
      /\ attached' = attached /\ use_prev' = use_prev /\ use_next' = use_next
      /\ uses_head' = uses_head /\ uses_tail' = uses_tail
      /\ UNCHANGED <<made, operands, slots, links>>
  BY DEF StoreData, write_inst, Loops, slots, links
<1>2. \/ op' = "attach" /\ cur' = i /\ at' = 1 /\ data' = <<>>
      \/ op = "idle" /\ op' = op /\ cur' = cur /\ at' = at /\ data' = data
  BY DEF StoreData, write_inst, Start, loop
<1>3. \A k \in 1 .. Len(operands[i]) : ~attached[operands[i][k]]
  <2>1. CASE StoreData /\ i = cur /\ a = data
    <3>1. Len(operands[i]) \in Nat /\ at \in Nat /\ op = "update" /\ at > Len(operands[i])
      BY <2>1, OperandTypes DEF StoreData, TypeOK
    <3>2. QED
      BY <2>1, <3>1 DEF AttachesDetached
  <2>2. CASE write_inst(i, a)
    BY <2>2 DEF write_inst
  <2>3. QED
    BY <2>1, <2>2
<1>4. /\ args' \in [Inst -> Seq(Value)] /\ phis' \subseteq made'
      /\ phi_blocks' \in [Inst -> [Block -> Nat \cup {None}]]
      /\ ValueUses' /\ OperandsOwned' /\ PhiEdges'
  BY <1>1, <1>3, StoreKeepsLists
<1>5. phis' = phis \ {i} /\ phi_blocks' = [phi_blocks EXCEPT ![i] = [b \in Block |-> None]]
  BY <1>1 DEF StoreInst
<1>6. /\ op' \in {"idle", "attach"} /\ cur' \in Inst \cup {None}
      /\ at' \in Nat \ {0} /\ data' \in Seq(Value)
      /\ op' # "idle" => cur' \in made
  <2>1. CASE op' = "attach" /\ cur' = i /\ at' = 1 /\ data' = <<>>
    BY <1>1, <2>1
  <2>2. CASE op = "idle" /\ op' = op /\ cur' = cur /\ at' = at /\ data' = data
    BY <2>2 DEF TypeOK, Loops
  <2>3. QED
    BY <1>2, <2>1, <2>2
<1>7. TypeOK'
  BY <1>1, <1>4, <1>6 DEF TypeOK
<1>8. AttachesDetached'
  BY <1>1, <1>2, <1>3 DEF AttachesDetached
<1>9. Loops'
  BY <1>1, <1>5, <1>6 DEF Loops, TypeOK
<1>10. QED
  BY <1>4, <1>7, <1>8, <1>9

\* The end of update_inst_uses: the excess operands, all of them detached,
\* leave the instruction.
LEMMA AttachEndKeeps ==
  ASSUME IInv, AttachEnd
  PROVE  IInv'
<1> USE UseListsAssumption DEF IInv
<1>1. PICK i \in made : i = cur
  BY DEF AttachEnd, Loops
<1>2. /\ op = "attach"
      /\ made' = made /\ phis' = phis /\ args' = args /\ phi_blocks' = phi_blocks
      /\ parent' = parent /\ parent_idx' = parent_idx
      /\ attached' = attached /\ use_prev' = use_prev /\ use_next' = use_next
      /\ uses_head' = uses_head /\ uses_tail' = uses_tail
      /\ UNCHANGED links
  BY <1>1 DEF AttachEnd, slots, links
<1>3. /\ i \in Inst /\ operands[i] \in Seq(Use) /\ at \in Nat
      /\ Len(operands[i]) \in Nat /\ Len(args[i]) \in Nat
      /\ \A n \in 1 .. Len(operands[i]) : operands[i][n] \in Use
  BY OperandTypes DEF TypeOK
<1>4. PICK ops : ops = IF Len(operands[i]) > Len(args[i])
                       THEN SubSeq(operands[i], 1, Len(args[i])) ELSE operands[i]
  OBVIOUS
<1>5. operands' = [operands EXCEPT ![i] = ops]
  BY <1>1, <1>4 DEF AttachEnd
<1>6. /\ ops \in Seq(Use) /\ Len(ops) \in Nat
      /\ Len(ops) = IF Len(operands[i]) > Len(args[i]) THEN Len(args[i]) ELSE Len(operands[i])
      /\ \A n \in 1 .. Len(ops) : ops[n] = operands[i][n]
  <2>1. CASE Len(operands[i]) > Len(args[i])
    <3>1. \A n \in 1 .. Len(args[i]) : operands[i][n] \in Use
      BY <1>3, <2>1
    <3>2. /\ SubSeq(operands[i], 1, Len(args[i])) \in Seq(Use)
          /\ Len(SubSeq(operands[i], 1, Len(args[i]))) =
               IF 1 <= Len(args[i]) THEN Len(args[i]) - 1 + 1 ELSE 0
          /\ \A n \in 1 .. Len(args[i]) - 1 + 1 :
               SubSeq(operands[i], 1, Len(args[i]))[n] = operands[i][1 + n - 1]
      BY <1>3, <3>1, SubSeqProperties
    <3>3. QED
      BY <1>3, <1>4, <2>1, <3>2
  <2>2. CASE ~(Len(operands[i]) > Len(args[i]))
    BY <1>3, <1>4, <2>2
  <2>3. QED
    BY <2>1, <2>2
<1>7. /\ operands' \in [Inst -> Seq(Use)] /\ operands'[i] = ops
      /\ \A j \in Inst \ {i} : operands'[j] = operands[j]
  BY <1>3, <1>5, <1>6 DEF TypeOK
<1>8. /\ data' = <<>> /\ at' = 1
      /\ \/ op' = "extend" /\ cur' = i /\ Len(operands[i]) < Len(args[i])
         \/ op' = "idle" /\ cur' = None
  BY <1>1 DEF AttachEnd, StartExtend, Start, Finish
<1>9. TypeOK'
  <2>1. /\ op' \in {"idle", "extend"} /\ cur' \in Inst \cup {None}
        /\ at' \in Nat /\ data' \in Seq(Value)
    BY <1>3, <1>8
  <2>2. QED
    BY <1>2, <1>7, <2>1 DEF TypeOK
<1>10. ValueUses'
  BY <1>2, FrameLists DEF use_to_value
<1>11. OperandsOwned'
  <2>1. ASSUME NEW x \in Use, attached[x]
        PROVE  /\ parent[x] \in made
               /\ parent_idx[x] \in 1 .. Len(operands'[parent[x]])
               /\ parent_idx[x] \in 1 .. Len(args[parent[x]])
               /\ operands'[parent[x]][parent_idx[x]] = x
    <3>1. /\ parent[x] \in made /\ parent[x] \in Inst
          /\ parent_idx[x] \in 1 .. Len(operands[parent[x]])
          /\ parent_idx[x] \in 1 .. Len(args[parent[x]])
          /\ operands[parent[x]][parent_idx[x]] = x
      BY <2>1, AttachedSlot DEF OperandsOwned
    <3>2. CASE parent[x] = i
      BY <1>3, <1>6, <1>7, <3>1, <3>2
    <3>3. CASE parent[x] # i
      BY <1>7, <3>1, <3>3
    <3>4. QED
      BY <3>2, <3>3
  <2>2. ASSUME NEW j \in Inst, NEW n \in 1 .. Len(operands'[j])
        PROVE  parent[operands'[j][n]] = j /\ parent_idx[operands'[j][n]] = n
    <3>1. n \in 1 .. Len(operands[j]) /\ operands'[j][n] = operands[j][n]
      <4>1. CASE j = i
        BY <1>3, <1>6, <1>7, <4>1
      <4>2. CASE j # i
        BY <1>7, <4>2
      <4>3. QED
        BY <4>1, <4>2
    <3>2. QED
      BY <3>1 DEF OperandsOwned
  <2>3. QED
    BY <1>2, <2>1, <2>2 DEF OperandsOwned
<1>12. PhiEdges'
  <2>1. \A j \in phis : j \in Inst /\ Len(operands[j]) = Len(args[j])
    BY DEF PhiEdges, TypeOK
  <2>2. \A j \in phis : Len(operands'[j]) = Len(args[j])
    BY <1>3, <1>6, <1>7, <2>1
  <2>3. QED
    BY <1>2, <2>2 DEF PhiEdges
<1>13. AttachesDetached'
  BY <1>8 DEF AttachesDetached
<1>14. Loops'
  <2>1. op' = "extend" => Len(operands'[i]) < Len(args[i])
    BY <1>3, <1>6, <1>7, <1>8
  <2>2. QED
    BY <1>2, <1>7, <1>8, <2>1 DEF Loops
<1>15. QED
  BY <1>9, <1>10, <1>11, <1>12, <1>13, <1>14

\* replace_uses: arguments change, their number does not.
LEMMA ReplaceKeeps ==
  ASSUME IInv, NEW dest \in Value, NEW src \in Value, replace_uses(dest, src)
  PROVE  IInv'
<1> USE UseListsAssumption DEF IInv
<1>1. /\ op = "idle" /\ made' = made /\ phis' = phis /\ operands' = operands
      /\ phi_blocks' = phi_blocks /\ parent' = parent /\ parent_idx' = parent_idx
      /\ attached' = attached
      /\ op' = op /\ cur' = cur /\ at' = at /\ data' = data
  BY DEF replace_uses, slots, loop
<1>2. ValueUses'
  BY ReplaceLists
<1>3. ASSUME NEW i \in Inst
      PROVE  args'[i] \in Seq(Value) /\ Len(args'[i]) = Len(args[i])
  <2>1. Len(args[i]) \in Nat /\ \A n \in 1 .. Len(args[i]) : args[i][n] \in Value
    BY OperandTypes
  <2>2. args'[i] \in [1 .. Len(args[i]) -> Value]
    BY <2>1 DEF replace_uses
  <2>3. QED
    BY <2>1, <2>2
<1>4. args' \in [Inst -> Seq(Value)]
  BY <1>3 DEF replace_uses
<1>5. /\ use_prev' \in [Use -> Use \cup {None}] /\ use_next' \in [Use -> Use \cup {None}]
      /\ uses_head' \in [Value -> Use \cup {None}] /\ uses_tail' \in [Value -> Use \cup {None}]
  BY DEF replace_uses, TypeOK
<1>6. TypeOK'
  BY <1>1, <1>4, <1>5 DEF TypeOK
<1>7. OperandsOwned'
  <2>1. \A x \in Use : attached[x] => parent[x] \in Inst
    BY AttachedSlot
  <2>2. QED
    BY <1>1, <1>3, <2>1 DEF OperandsOwned
<1>8. PhiEdges'
  <2>1. \A i \in phis : i \in Inst
    BY DEF TypeOK
  <2>2. QED
    BY <1>1, <1>3, <2>1 DEF PhiEdges
<1>9. AttachesDetached' /\ Loops'
  BY <1>1 DEF AttachesDetached, Loops
<1>10. QED
  BY <1>2, <1>6, <1>7, <1>8, <1>9

LEMMA StutterKeeps ==
  ASSUME IInv, UNCHANGED vars
  PROVE  IInv'
<1>1. /\ made' = made /\ phis' = phis /\ args' = args /\ operands' = operands
      /\ phi_blocks' = phi_blocks /\ parent' = parent /\ parent_idx' = parent_idx
      /\ attached' = attached /\ use_prev' = use_prev /\ use_next' = use_next
      /\ uses_head' = uses_head /\ uses_tail' = uses_tail
      /\ op' = op /\ cur' = cur /\ at' = at /\ data' = data
      /\ UNCHANGED links
  BY DEF vars, insts, slots, links, loop
<1>2. ValueUses'
  BY <1>1, FrameLists DEF use_to_value, IInv
<1>3. TypeOK' /\ OperandsOwned' /\ AttachesDetached' /\ PhiEdges' /\ Loops'
  BY <1>1 DEF IInv, TypeOK, OperandsOwned, AttachesDetached, PhiEdges, Loops
<1>4. QED
  BY <1>2, <1>3 DEF IInv

-----------------------------------------------------------------------------
(* The theorems.                                                           *)

\* The inductive invariant holds in every state of the data flow graph,
\* between two operations and at every step of their loops.
THEOREM UseListInvariant == Spec => []IInv
<1>1. IInv /\ [Next]_vars => IInv'
  <2> SUFFICES ASSUME IInv, [Next]_vars PROVE IInv'
    OBVIOUS
  <2>1. \A a \in Args : a \in Seq(Value)
    BY UseListsAssumption DEF Args
  <2>2. CASE InstOp
    <3>1. ASSUME NEW i \in Inst, NEW a \in Args, update_inst(i, a) \/ write_inst(i, a)
          PROVE  IInv'
      BY <2>1, <3>1, StartStep, StoreKeeps
    <3>2. ASSUME NEW i \in Inst, NEW a \in Args, NEW phi \in BOOLEAN, make_inst(i, a, phi)
          PROVE  IInv'
      BY <2>1, <3>2, MakeInstStep
    <3>3. ASSUME NEW i \in Inst, zap_inst(i) \/ update_inst_uses(i)
          PROVE  IInv'
      <4>1. PICK a : a \in Seq(Value)
        BY DEF IInv, TypeOK
      <4>2. QED
        BY <3>3, <4>1, StartStep
    <3>4. QED
      BY <2>2, <3>1, <3>2, <3>3 DEF InstOp
  <2>3. CASE LoopStep
    <3>1. CASE StoreData
      <4>1. PICK i \in Inst, a \in Seq(Value) : i = cur /\ a = data
        BY <3>1 DEF IInv, Loops, TypeOK, StoreData
      <4>2. QED
        BY <3>1, <4>1, StoreKeeps
    <3>2. ASSUME NEW u \in Use, ExtendStep(u)
          PROVE  IInv'
      BY <3>2, ExtendKeeps
    <3>3. QED
      BY <2>3, <3>1, <3>2, ZapKeeps, AttachKeeps, AttachEndKeeps, ReattachKeeps DEF LoopStep
  <2>4. CASE OperandOp
    <3>1. ASSUME NEW i \in Inst, NEW n \in 1 .. MaxArgs, NEW v \in Value,
                 detach_operand(i, n) \/ attach_operand(i, n) \/ set_operand_value(v, i, n)
          PROVE  IInv'
      BY <3>1, OperandKeeps, SetOperandKeeps
    <3>2. ASSUME NEW i \in Inst, NEW b \in Block, NEW v \in Value,
                 try_remove_phi_edge(i, b) \/ UpdatePhiEdge(i, b, v)
          PROVE  IInv'
      BY <3>2, RemoveEdgeKeeps, UpdateEdgeKeeps
    <3>3. ASSUME NEW i \in Inst, NEW b \in Block, NEW v \in Value, NEW u \in Use,
                 insert_phi_edge(u, i, b, v)
          PROVE  IInv'
      BY <3>3, InsertEdgeKeeps
    <3>4. ASSUME NEW dest \in Value, NEW src \in Value, replace_uses(dest, src)
          PROVE  IInv'
      BY <3>4, ReplaceKeeps
    <3>5. GRAVESTONE \in Value
      BY UseListsAssumption
    <3>6. QED
      BY <2>4, <3>1, <3>2, <3>3, <3>4, <3>5 DEF OperandOp
  <2>5. CASE UNCHANGED vars
    BY <2>5, StutterKeeps
  <2>6. QED
    BY <2>2, <2>3, <2>4, <2>5 DEF Next
<1>2. QED
  BY InitInv, <1>1, PTL DEF Spec

\* The tables of the data flow graph keep their types.
THEOREM UseListTypes == Spec => []TypeOK
<1>1. IInv => TypeOK
  BY DEF IInv
<1>2. QED
  BY UseListInvariant, <1>1, PTL

\* Function::validate never reports an "invalid use".
THEOREM UseListsAgree == Spec => []ValueUses
<1>1. IInv => ValueUses
  BY DEF IInv
<1>2. QED
  BY UseListInvariant, <1>1, PTL

\* detach_use never indexes beyond the arguments, and zapping an instruction
\* reaches every use it has in a list.
THEOREM UseListOperands == Spec => []OperandsOwned
<1>1. IInv => OperandsOwned
  BY DEF IInv
<1>2. QED
  BY UseListInvariant, <1>1, PTL

\* attach_use's assertion, and what the loops of update_inst need for it.
THEOREM UseListNoDoubleAttach == Spec => []AttachesDetached
<1>1. IInv => AttachesDetached
  BY DEF IInv
<1>2. QED
  BY UseListInvariant, <1>1, PTL

\* The edges of a phi never share an argument.
THEOREM UseListPhiEdges == Spec => []PhiEdges
<1>1. IInv => PhiEdges
  BY DEF IInv
<1>2. QED
  BY UseListInvariant, <1>1, PTL

\* Iterating over the uses of a value, in either direction, meets exactly the
\* attached operands that read it.
THEOREM UseListReachable == Spec => []UsesReachable
<1>1. IInv => UsesReachable
  <2> SUFFICES ASSUME IInv, NEW v \in Value
               PROVE  /\ uses(v) = Readers(v) /\ uses_back(v) = Readers(v)
                      /\ is_dead(v) <=> Readers(v) = {}
    BY DEF UsesReachable
  <2>1. IsList(use_prev, use_next, uses_head[v], uses_tail[v], Readers(v))
    BY DEF IInv, ValueUses
  <2>2. Readers(v) \in SUBSET Use /\ None \notin Use
    BY UseListsAssumption DEF Readers
  <2>3. uses(v) = Readers(v)
    BY <2>1, <2>2, WalkList DEF uses
  <2>4. IsList(use_next, use_prev, uses_tail[v], uses_head[v], Readers(v))
    BY <2>1, ReverseList
  <2>5. uses_back(v) = Readers(v)
    BY <2>2, <2>4, WalkList DEF uses_back
  <2>6. is_dead(v) <=> Readers(v) = {}
    BY <2>1, <2>2 DEF IsList, is_dead
  <2>7. QED
    BY <2>3, <2>5, <2>6
<1>2. QED
  BY UseListInvariant, <1>1, PTL

=============================================================================
