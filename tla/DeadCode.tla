------------------------------ MODULE DeadCode ------------------------------
(***************************************************************************)
(* Dead code elimination (openvaf/mir_opt/src/dead_code.rs) over its work  *)
(* queue (lib/workqueue/src/lib.rs): a scan of the layout from the last    *)
(* instruction to the first, then a queue of the instructions that lost a  *)
(* reader.                                                                 *)
(*                                                                         *)
(* Instructions are numbered in layout order. args[i] lists the            *)
(* instructions that define the arguments of i (an argument that is a      *)
(* parameter or a constant defines nothing and is left out), keep holds    *)
(* the instructions with side effects, the terminators and the ones whose  *)
(* result is an output value.                                              *)
(*                                                                         *)
(*   Layout                                 placed                         *)
(*   instructions whose uses are attached   attached                       *)
(*   WorkQueue::deque, WorkQueue::set       deque, set                     *)
(*   the cursors of the scan                pos, the next instruction, or  *)
(*                                          0 when the scan is over        *)
(*   the loop over the arguments            cur, at                        *)
(*                                                                         *)
(* placed0 and attached0 remember the function the pass started with.      *)
(***************************************************************************)
EXTENDS Naturals, Sequences

CONSTANTS N,        \* dfg.num_insts()
          MaxArgs   \* bound on the arguments of an instruction

ASSUME DeadCodeAssumption == N \in Nat /\ MaxArgs \in Nat

VARIABLES args, keep, placed0, attached0,
          placed, attached, deque, set, pos, cur, at, panicked

func  == <<args, keep, placed0, attached0>>
queue == <<deque, set>>
vars  == <<func, placed, attached, queue, pos, cur, at, panicked>>

Inst == 1 .. N

-----------------------------------------------------------------------------
Reads(x, i) == \E k \in 1 .. Len(args[x]) : args[x][k] = i

\* Mutant: the uses of instructions outside the layout are not counted.
inst_dead_LayoutOnly(i) == i \notin keep /\ \A x \in placed : ~Reads(x, i)

\* Mutant: side effects and output values are not looked at.
inst_dead_IgnoresKeep(i) == \A x \in attached : ~Reads(x, i)

\* inst_dead(inst, true) for an instruction none of whose results is an
\* output: the use lists of its results are empty.
inst_dead(i) == i \notin keep /\ \A x \in attached : ~Reads(x, i)

\* The function before the pass: any data flow graph, cycles through phis
\* included. An instruction that is not in the layout may still have attached
\* uses, one that is in the layout always does.
Functions ==
  [args : [Inst -> UNION {[1 .. n -> Inst] : n \in 0 .. MaxArgs}],
   keep : SUBSET Inst, placed : SUBSET Inst, attached : SUBSET Inst]

Init ==
  /\ \E f \in Functions :
       /\ f.placed \subseteq f.attached
       /\ args = f.args /\ keep = f.keep /\ placed = f.placed /\ attached = f.attached
  /\ placed0 = placed /\ attached0 = attached
  /\ deque = <<>> /\ set = Inst
  /\ pos = N /\ cur = 0 /\ at = 1 /\ panicked = FALSE

-----------------------------------------------------------------------------
\* Mutant: the set is not consulted.
insert_work_Always(i) == deque' = Append(deque, i) /\ set' = set \cup {i}

\* WorkQueue::insert
insert_work(i) ==
  /\ deque' = IF i \in set THEN deque ELSE Append(deque, i)
  /\ set' = set \cup {i}

\* process, the instruction is dead: zap_inst, remove_inst ("Instruction
\* already removed." when it is not in the layout), and then the arguments.
zap_inst(i) ==
  /\ inst_dead(i)
  /\ attached' = attached \ {i}
  /\ placed' = placed \ {i}
  /\ panicked' = (i \notin placed)
  /\ cur' = i /\ at' = 1
  /\ UNCHANGED set

\* Mutant: a live instruction stays in the set.
retain_KeepsBit(i) ==
  /\ ~inst_dead(i)
  /\ UNCHANGED <<attached, placed, panicked, cur, at, set>>

\* process, the instruction is live: it may be visited again.
retain(i) ==
  /\ ~inst_dead(i)
  /\ set' = set \ {i}
  /\ UNCHANGED <<attached, placed, panicked, cur, at>>

process(i) == zap_inst(i) \/ retain(i)

idle == cur = 0 /\ ~panicked

\* Mutant: the cursor moves on only when the instruction was removed.
Scan_OnRemoval ==
  /\ idle /\ pos > 0
  /\ \/ pos \in placed /\ process(pos)
     \/ pos \notin placed /\ UNCHANGED <<placed, attached, set, cur, at, panicked>>
  /\ pos' = IF pos \in placed' THEN pos ELSE pos - 1
  /\ UNCHANGED <<func, deque>>

\* The scan: the next instruction of the layout towards its start.
Scan ==
  /\ idle /\ pos > 0
  /\ \/ pos \in placed /\ process(pos)
     \/ pos \notin placed /\ UNCHANGED <<placed, attached, set, cur, at, panicked>>
  /\ pos' = pos - 1
  /\ UNCHANGED <<func, deque>>

\* One argument of the instruction that was removed.
Argument ==
  /\ cur # 0 /\ ~panicked
  /\ at <= Len(args[cur])
  /\ insert_work(args[cur][at])
  /\ at' = at + 1
  /\ UNCHANGED <<func, placed, attached, pos, cur, panicked>>

ArgumentsDone ==
  /\ cur # 0 /\ ~panicked
  /\ at > Len(args[cur])
  /\ cur' = 0 /\ at' = 1
  /\ UNCHANGED <<func, placed, attached, queue, pos, panicked>>

\* The queue: WorkQueue::take does not clear the bit of the set.
TakeNext ==
  /\ idle /\ pos = 0 /\ deque # <<>>
  /\ deque' = Tail(deque)
  /\ process(Head(deque))
  /\ UNCHANGED <<func, pos>>

Done == idle /\ pos = 0 /\ deque = <<>>

Next == Scan \/ Argument \/ ArgumentsDone \/ TakeNext \/ (Done /\ UNCHANGED vars)

Spec == Init /\ [][Next]_vars

\* The pass is one thread that never waits.
FairSpec == Spec /\ WF_vars(Next)

-----------------------------------------------------------------------------
(* What the pass promises.                                                 *)

TypeOK ==
  /\ args \in [Inst -> Seq(Inst)] /\ keep \subseteq Inst
  /\ placed0 \subseteq Inst /\ attached0 \subseteq Inst
  /\ placed \subseteq Inst /\ attached \subseteq Inst
  /\ deque \in Seq(Inst) /\ set \subseteq Inst
  /\ pos \in 0 .. N /\ cur \in 0 .. N /\ at \in Nat \ {0} /\ panicked \in BOOLEAN

\* remove_inst never meets an instruction that has left the layout before,
\* although the scan and the queue both hand out instructions and an argument
\* may be listed twice or belong to an instruction outside the layout.
NeverRemovedTwice == ~panicked

\* No instruction that can still be read lost an argument: what an attached
\* instruction reads is in the layout if it was before the pass.
NoReaderLeft ==
  \A x \in attached : \A k \in 1 .. Len(args[x]) :
    args[x][k] \in placed0 => args[x][k] \in placed

\* The pass is complete: no instruction of the layout is dead at its end, in
\* whatever order scan and queue met the readers of a value.
NothingDeadLeft == Done => \A i \in placed : ~inst_dead(i)

\* A set of instructions is closed when it has every instruction of the layout
\* that only instructions of the set, or detached ones, read.
Closed(S) ==
  \A i \in placed0 \ keep : (\A x \in attached0 : Reads(x, i) => x \in S) => i \in S

\* The pass removes nothing beyond the instructions that repeated removal
\* of unread instructions reaches: the smallest closed set.
OnlyDeadRemoved ==
  \A S \in SUBSET Inst : Closed(S) => placed0 \ placed \subseteq S

\* The pass ends.
Terminates == <>Done

=============================================================================
