--------------------------- MODULE ValueNumbering ---------------------------
(***************************************************************************)
(* inst_combine of openvaf/mir_opt/src/inst_combine.rs and global value    *)
(* numbering, openvaf/mir_opt/src/global_value_numbering.rs, one after the *)
(* other as Context::optimize calls them. inst_combine replaces an         *)
(* instruction by the value it simplifies to and looks at its users again. *)
(* Value numbering puts instructions with equal expressions into classes;  *)
(* an expression names the leaders of the operands' classes, so a class    *)
(* that changes its leader touches whatever uses a member. Instructions    *)
(* that another one of their class dominates are removed in the end.       *)
(*                                                                         *)
(* Operations on the class tables are operators on the record gvn; an      *)
(* action processes one instruction, or one class.                         *)
(***************************************************************************)
EXTENDS Simplify

CONSTANTS Jobs,      \* the functions
          NumParams, \* parameters are Param(0) .. Param(NumParams - 1)
          Samples,   \* what the parameters may be when the outputs are compared
          Fuel       \* blocks a run may enter

ASSUME NumberingAssumption ==
  NumParams \in Nat /\ Fuel \in Nat /\ Samples \subseteq [0 .. NumParams - 1 -> 0 .. P - 1]

VARIABLES job,   \* the function before
          f,     \* the function
          pc,    \* "combine", "number", "remove", "done"
          todo,  \* instructions the scan has still to visit
          work,  \* work_list
          gvn,   \* GVN: inst_class, classes, expr_class, touched, leader_changes
          next   \* solve: the next instruction; remove_unnecessary_insts: the next class

vars == <<job, f, pc, todo, work, gvn, next>>

-----------------------------------------------------------------------------
(* inst_combine                                                            *)

\* Users are met from the one attached last to the one attached first.
UserSeq(g, v) == SelectSeq(Reverse([i \in DOMAIN g.inst |-> i]), LAMBDA i : i \in Uses(g, v))

\* replace_uses of inst_combine.rs.
ReplaceInst(i, v) ==
  /\ work' = work \o UserSeq(f, Res(i))
  /\ f' = RemoveInst(Replace(f, Res(i), v), i)

Combine(i) ==
  LET v == simplify_inst(Context(f.inst, <<>>), f.inst[i])
  IN  IF i \in Placed(f) /\ v # Nothing THEN ReplaceInst(i, v) ELSE UNCHANGED <<f, work>>

Scan ==
  /\ pc = "combine" /\ todo # <<>>
  /\ todo' = Tail(todo)
  /\ Combine(Head(todo))
  /\ UNCHANGED <<job, pc, gvn, next>>

\* The last instruction of the list; ReplaceInst appends to the list without it.
Again ==
  /\ pc = "combine" /\ todo = <<>> /\ work # <<>>
  /\ LET i == Last(work)
         v == simplify_inst(Context(f.inst, <<>>), f.inst[i])
     IN  IF i \in Placed(f) /\ v # Nothing
         THEN /\ work' = Front(work) \o UserSeq(f, Res(i))
              /\ f' = RemoveInst(Replace(f, Res(i), v), i)
         ELSE work' = Front(work) /\ UNCHANGED f
  /\ UNCHANGED <<job, pc, todo, gvn, next>>

-----------------------------------------------------------------------------
(* DFSMapping: instructions in reverse post-order, which is the order of   *)
(* the blocks here, numbered from 1                                        *)

InstSeq(g) == FlattenSeq([k \in DOMAIN g.layout |-> g.body[g.layout[k]]])
Order == InstSeq(f)
dfs(i) == CHOOSE k \in DOMAIN Order : Order[k] = i

get_rank(v) ==
  IF IsConst(v) THEN 0 ELSE IF IsRes(v) THEN NumParams + dfs(InstOf(v)) ELSE 1 + ParamOf(v)
should_swap(v, w) == get_rank(v) > get_rank(w) \/ (get_rank(v) = get_rank(w) /\ v > w)

-----------------------------------------------------------------------------
(* ClassMap                                                                *)

NoClass  == 0
NoLeader == 0
MaxDfs   == 1000

Expr(op, args, key) == [op |-> op, args |-> args, key |-> key]
new_const(v) == Expr("const", <<v>>, 0)

Reset(c) == [c EXCEPT !.next = <<NoLeader, MaxDfs>>]
add_possible_next_leader(c, i) == IF dfs(i) < c.next[2] THEN [c EXCEPT !.next = <<i, dfs(i)>>] ELSE c

get_lead_val(g) ==
  LET value(c) == IF c.expr.op = "const" THEN c.expr.args[1] ELSE Res(c.leader)
      classified == {i \in DOMAIN g.inst_class : g.inst_class[i] # NoClass}
  IN  Table([v \in {Res(i) : i \in classified} |-> value(g.classes[g.inst_class[InstOf(v)]])])

\* RawTable::get looks at the entries with this hash; equal expressions have equal
\* hashes, and here others have not. Two calls are equal whatever they call: eq
\* compares the callee and the arguments of self with those of self.
hash(e) == e
eq(e, other) == e.op = other.op /\ (e.op = "call" \/ (e.args = other.args /\ e.key = other.key))

insert_expr(g, i, e) ==
  LET found == {c \in g.expr_class : hash(g.classes[c].expr) = hash(e) /\ eq(e, g.classes[c].expr)}
      new   == Len(g.classes) + 1
  IN  IF found # {} THEN [gvn |-> g, class |-> CHOOSE c \in found : TRUE]
      ELSE [gvn |-> [g EXCEPT
                       !.classes = Append(@, [leader |-> i, expr |-> e, insts |-> {},
                                              next |-> <<NoLeader, MaxDfs>>]),
                       !.expr_class = @ \cup {new}],
            class |-> new]

-----------------------------------------------------------------------------
(* GVNExpression::new                                                      *)

\* check_simplified, with what insert_expr makes of it; NoClass if the value is the
\* result of an instruction without a class.
Simplified(g, i, v) ==
  IF v = Nothing THEN [gvn |-> g, class |-> NoClass]
  ELSE IF ~IsRes(v) THEN insert_expr(g, i, new_const(v))
  ELSE [gvn |-> g, class |-> g.inst_class[InstOf(v)]]

SimplifiedOr(g, i, v, e) ==
  LET s == Simplified(g, i, v) IN IF s.class # NoClass THEN s ELSE insert_expr(g, i, e)

HasExpression(x) == x.op # "optbarrier"

ClassOf(g, i) ==
  LET x == f.inst[i]
      c == Context(f.inst, get_lead_val(g))
      m == [k \in DOMAIN x.args |-> map_val(c, x.args[k])]
      a == IF Len(m) = 2 /\ Commutative(x.op) /\ should_swap(m[1], m[2]) THEN Reverse(m) ELSE m
  IN  CASE x.op = "phi"  -> SimplifiedOr(g, i, simplify_phi(c, x.args), Expr("phi", m, BlockOf(f, i)))
        [] x.op = "call" -> insert_expr(g, i, Expr("call", m, x.key))
        [] OTHER -> SimplifiedOr(g, i, simplify_inst(c, [x EXCEPT !.args = a]), Expr(x.op, a, 0))

-----------------------------------------------------------------------------
(* update_congurence_class                                                 *)

LeaveClass(g, i, old) ==
  LET k == g.classes[old]
      r == [(IF k.next[1] = i THEN Reset(k) ELSE k) EXCEPT !.insts = @ \ {dfs(i)}]
  IN  [g EXCEPT !.classes[old] = r,
                !.expr_class = IF r.insts = {} THEN @ \ {old} ELSE @]

JoinClass(g, i, new) ==
  LET k == [g.classes[new] EXCEPT !.insts = @ \cup {dfs(i)}]
  IN  [g EXCEPT !.classes[new] = IF k.leader # i THEN add_possible_next_leader(k, i) ELSE k,
                !.inst_class[i] = new]

\* Mutant: the members do not hear of their new leader.
NextLeader_Silent(g, i, old) ==
  LET k == g.classes[old]
      heir == IF k.next[1] # NoLeader THEN k.next[1] ELSE Order[Max(k.insts)]
  IN  IF k.insts = {} THEN [g EXCEPT !.classes[old].leader = NoLeader]
      ELSE IF k.leader # i THEN g
      ELSE [g EXCEPT !.classes[old] = Reset([k EXCEPT !.leader = heir])]

\* The class that was left gets another leader, and its members are touched.
NextLeader(g, i, old) ==
  LET k == g.classes[old]
      heir == IF k.next[1] # NoLeader THEN k.next[1] ELSE Order[Max(k.insts)]
  IN  IF k.insts = {} THEN [g EXCEPT !.classes[old].leader = NoLeader]
      ELSE IF k.leader # i THEN g
      ELSE [g EXCEPT !.classes[old] = Reset([k EXCEPT !.leader = heir]),
                     !.touched = @ \cup k.insts,
                     !.leader_changes = @ \cup k.insts]

move_to_class(g, i, old, new) ==
  IF old = NoClass THEN JoinClass(g, i, new)
  ELSE NextLeader(JoinClass(LeaveClass(g, i, old), i, new), i, old)

\* Mutant: the users are touched whether or not something changed.
update_congruence_class_Always(g, i, new) ==
  LET old   == g.inst_class[i]
      moved == IF old # new THEN move_to_class(g, i, old, new) ELSE g
  IN  [moved EXCEPT !.leader_changes = @ \ {dfs(i)},
                    !.touched = @ \cup {dfs(u) : u \in Uses(f, Res(i))}]

update_congruence_class(g, i, new) ==
  LET old   == g.inst_class[i]
      moved == IF old # new THEN move_to_class(g, i, old, new) ELSE g
      users == {dfs(u) : u \in Uses(f, Res(i))}
      again == old # new \/ dfs(i) \in moved.leader_changes
  IN  [moved EXCEPT !.leader_changes = @ \ {dfs(i)},
                    !.touched = IF again THEN @ \cup users ELSE @]

process_inst(g, i) ==
  IF ~HasExpression(f.inst[i]) THEN g
  ELSE LET r == ClassOf(g, i) IN update_congruence_class(r.gvn, i, r.class)

-----------------------------------------------------------------------------
(* GVN::init, solve, remove_unnecessary_insts                              *)

NoGVN == [inst_class |-> <<>>, classes |-> <<>>, expr_class |-> {}, touched |-> {},
          leader_changes |-> {}]

StartNumbering ==
  /\ pc = "combine" /\ todo = <<>> /\ work = <<>>
  /\ pc' = "number" /\ next' = 1
  /\ gvn' = [NoGVN EXCEPT !.inst_class = [i \in DOMAIN f.inst |-> NoClass],
                          !.touched = DOMAIN Order]
  /\ UNCHANGED <<job, f, todo, work>>

\* The passes of solve go up through the numbers.
Touched ==
  LET ahead == {k \in gvn.touched : k >= next} IN Min(IF ahead # {} THEN ahead ELSE gvn.touched)

Number ==
  /\ pc = "number" /\ gvn.touched # {}
  /\ gvn' = process_inst([gvn EXCEPT !.touched = @ \ {Touched}], Order[Touched])
  /\ next' = Touched + 1
  /\ UNCHANGED <<job, f, pc, todo, work>>

StartRemoval ==
  /\ pc = "number" /\ gvn.touched = {}
  /\ pc' = "remove" /\ next' = 1
  /\ todo' = Order                       \* dfs_to_inst, which the removal does not change
  /\ UNCHANGED <<job, f, work, gvn>>

\* Blocks reached from the entry without entering d.
ReachedWithout(g, d) ==
  LET step(S) == S \cup UNION {Succs(g, b) \ {d} : b \in S}
      reach[n \in 0 .. Len(g.layout)] == IF n = 0 THEN {g.layout[1]} \ {d} ELSE step(reach[n - 1])
  IN  reach[Len(g.layout)]

\* Mutant: one of two equal instructions is enough, wherever they are.
dominates_Always(g, block, dominator) == TRUE

dominates(g, block, dominator) == block = dominator \/ block \notin ReachedWithout(g, dominator)

\* Members in order; a member whose predecessor in the list of those that stay
\* dominates it is replaced by it and removed.
Merge(s, k) ==
  LET i == todo[k]
  IN  IF s.leader # NoLeader /\ dominates(s.f, BlockOf(s.f, i), BlockOf(s.f, s.leader))
      THEN [s EXCEPT !.f = RemoveInst(Replace(@, Res(i), Res(s.leader)), i)]
      ELSE [s EXCEPT !.leader = i, !.leaders = @ \cup {k}]

RemoveFromClass ==
  /\ pc = "remove" /\ next <= Len(gvn.classes)
  /\ LET c == gvn.classes[next]
         members == SelectSeq([k \in DOMAIN todo |-> k], LAMBDA k : k \in c.insts)
         merged == FoldLeft(Merge, [f |-> f, leader |-> NoLeader, leaders |-> {}], members)
     IN  IF c.expr.op = "const"
         THEN /\ f' = FoldLeft(LAMBDA g, k : Replace(g, Res(todo[k]), c.expr.args[1]), f, members)
              /\ gvn' = [gvn EXCEPT !.classes[next].insts = {}]
         ELSE IF Len(members) < 2 THEN UNCHANGED <<f, gvn>>
         ELSE f' = merged.f /\ gvn' = [gvn EXCEPT !.classes[next].insts = merged.leaders]
  /\ next' = next + 1
  /\ UNCHANGED <<job, pc, todo, work>>

Finish ==
  /\ pc = "remove" /\ next > Len(gvn.classes)
  /\ pc' = "done"
  /\ UNCHANGED <<job, f, todo, work, gvn, next>>

-----------------------------------------------------------------------------

Init ==
  /\ job \in Jobs /\ f = job
  /\ pc = "combine" /\ todo = InstSeq(job) /\ work = <<>>
  /\ gvn = NoGVN /\ next = 1

Next == Scan \/ Again \/ StartNumbering \/ Number \/ StartRemoval \/ RemoveFromClass \/ Finish

\* The passes are through: not a deadlock.
Done == pc = "done" /\ UNCHANGED vars

\* One thread runs the passes and nothing blocks it: it never rests before the end.
\* (The same as WF_vars(Next) where a step is possible, which is what the absence of
\* deadlocks says; without ENABLED, which is slow on these records.)
Runs == []<>(pc = "done") \/ []<><<TRUE>>_vars

Spec == Init /\ [][Next \/ Done]_vars /\ Runs

-----------------------------------------------------------------------------
(* Properties                                                              *)

\* Outputs: what the function computed before, it computes after every step, for
\* all parameters: simplify.rs looks through operands that were replaced, and
\* the removal of duplicates relies on dominance.
OutputsKept ==
  pc \in {"combine", "remove", "done"} =>
    \A ps \in Samples : Agree(Outputs(job, ps, Fuel), Outputs(f, ps, Fuel))

\* The classes partition the instructions that have one, a class is led by a member,
\* and no two classes in the table have one expression.
Partition ==
  pc = "number" =>
    /\ \A c \in DOMAIN gvn.classes :
         LET k == gvn.classes[c]
         IN  /\ k.insts = {dfs(i) : i \in {i \in DOMAIN gvn.inst_class : gvn.inst_class[i] = c}}
             /\ k.insts # {} => dfs(k.leader) \in k.insts
             /\ k.next[1] # NoLeader => dfs(k.next[1]) \in k.insts
             /\ (c \in gvn.expr_class) = (k.insts # {})
    /\ \A c, d \in gvn.expr_class : c # d => gvn.classes[c].expr # gvn.classes[d].expr

\* At the fixpoint nothing would change if an instruction were processed again: a
\* change of leader has reached everybody whose expression names the leader.
Settled ==
  pc = "number" /\ gvn.touched = {} =>
    \A i \in Placed(f) : process_inst(gvn, i) = gvn

\* The classes are well formed on the way and right at the end.
ClassesSound == Partition /\ Settled

\* solve reaches its fixed point: whoever is touched again is touched for a change.
Terminates == <>(pc = "done")

=============================================================================
