--------------------------- MODULE FunctionBuilder ---------------------------
(***************************************************************************)
(* FunctionBuilder (openvaf/mir_build/src/lib.rs) over the SSA builder, in *)
(* the hands of any client that respects its assertions: blocks are filled *)
(* one after the other, in any order, and sealed at any time after their   *)
(* last predecessor. The finished function is then run, with the variables *)
(* beside the SSA values that stand for them.                              *)
(*                                                                         *)
(*   position, BlockData::filled, !pristine   position, filled, touched    *)
(*   the instructions of a block              code: reads and writes of    *)
(*                                            variables with their values  *)
(*   the terminator of a block                succs                        *)
(*   the caller of use_var                    pending                      *)
(*                                                                         *)
(* The run (phase "run") is at instruction at[2] of block at[1]; mem holds *)
(* the variables, ssa the values. A write stores one of the two contents.  *)
(* The phis of a block are evaluated together, as LLVM evaluates them.     *)
(***************************************************************************)
EXTENDS SSABuilder

CONSTANTS MaxOps    \* bound on the reads and writes of the function

VARIABLES position, filled, touched, code, succs, pending, phase, at, mem, ssa

builder == <<position, filled, touched, code, succs, pending>>
running == <<at, mem, ssa>>
vars    == <<ssaVars, builder, phase, running>>

Entry == 1
Exit  == 2

Undef    == 2
Contents == {0, 1}

NoCaller == [op |-> "none"]
Write(v, x)    == [op |-> "write", place |-> v, val |-> x]
Read(v, x)     == [op |-> "read", place |-> v, val |-> x]
Copy(v, w, x)  == [op |-> "copy", place |-> v, from |-> w, val |-> x]

NumOps == FoldFunction(LAMBDA s, n : n + Len(s), 0, code)

BuilderInit ==
  /\ SSAInit
  /\ position = Entry /\ filled = {} /\ touched = {}
  /\ code = [b \in 1 .. NumBlocks |-> <<>>] /\ succs = [b \in 1 .. NumBlocks |-> {}]
  /\ pending = NoCaller /\ phase = "build"
  /\ at = <<Entry, 1>> /\ mem = [v \in Place |-> Undef] /\ ssa = <<>>

Building == phase = "build" /\ Idle /\ pending = NoCaller

-----------------------------------------------------------------------------
(* The operations, without the assertions on their caller.                 *)

\* n calls of create_block
create_blocks(n) ==
  /\ Building /\ created + n <= NumBlocks /\ created' = created + n
  /\ UNCHANGED <<preds, sealed, undef_phis, variables, vals, machine, sealing, builder, phase, running>>

\* The last instruction of the block is read by nobody else: a fresh value.
def_var(v) ==
  /\ Building /\ NumOps < MaxOps
  /\ vals' = Append(vals, Inst)
  /\ variables' = [variables EXCEPT ![v][position] = Len(vals) + 1]
  /\ code' = [code EXCEPT ![position] = Append(@, Write(v, Len(vals) + 1))]
  /\ touched' = touched \cup {position}
  /\ UNCHANGED <<cfgVars, undef_phis, machine, sealing, position, filled, succs, pending, phase, running>>

Mentions(inst, v) == inst.place = v \/ (inst.op = "copy" /\ inst.from = v)

Unmentioned(v) == \A b \in Block : \A k \in DOMAIN code[b] : ~Mentions(code[b][k], v)

\* The first mention of a variable initialises it in the entry block, whatever
\* the position is (LoweringCtx::dec_place).
def_var_at_entry(v) ==
  /\ Building /\ NumOps < MaxOps
  /\ Unmentioned(v)
  /\ vals' = Append(vals, Inst)
  /\ variables' = [variables EXCEPT ![v][Entry] = Len(vals) + 1]
  /\ code' = [code EXCEPT ![Entry] = <<Write(v, Len(vals) + 1)>> \o @]
  /\ UNCHANGED <<cfgVars, undef_phis, machine, sealing, position, filled, touched, succs,
                 pending, phase, running>>

\* An instruction that reads v, or def_var(v, use_var(w)).
StartRead(v) ==
  /\ Building /\ NumOps < MaxOps /\ use_var(v, position)
  /\ pending' = Read(v, None) /\ touched' = touched \cup {position}
  /\ UNCHANGED <<position, filled, code, succs, phase, running>>

StartCopy(v, w) ==
  /\ Building /\ NumOps < MaxOps /\ use_var(w, position)
  /\ pending' = Copy(v, w, None) /\ touched' = touched \cup {position}
  /\ UNCHANGED <<position, filled, code, succs, phase, running>>

TakeResult ==
  /\ pending # NoCaller /\ Returned
  /\ code' = [code EXCEPT ![position] = Append(@, [pending EXCEPT !.val = results[1]])]
  /\ variables' = IF pending.op = "copy"
                  THEN [variables EXCEPT ![pending.place][position] = results[1]] ELSE variables
  /\ results' = <<>> /\ var' = None /\ pending' = NoCaller
  /\ UNCHANGED <<cfgVars, undef_phis, vals, calls, sealing, position, filled, touched, succs,
                 phase, running>>

\* insert_built_inst for jump, branch and exit.
insert_terminator(dests) ==
  /\ Building
  /\ succs' = [succs EXCEPT ![position] = dests]
  /\ preds' = [b \in 1 .. NumBlocks |->
                 IF b \in dests THEN add_predecessor(preds[b], position) ELSE preds[b]]
  /\ filled' = filled \cup {position} /\ touched' = touched \cup {position}
  /\ UNCHANGED <<created, sealed, undef_phis, variables, vals, machine, sealing,
                 position, code, pending, phase, running>>

switch_to_block(b) ==
  /\ Building /\ position' = b
  /\ UNCHANGED <<ssaVars, filled, touched, code, succs, pending, phase, running>>

Seal(b) ==
  /\ Building /\ seal_block(b)
  /\ UNCHANGED <<builder, phase, running>>

RunMachine ==
  /\ Machine
  /\ UNCHANGED <<builder, phase, running>>

\* Mutant: the values of the code are replaced, the arguments of phis are not.
strip_alias_CodeOnly ==
  /\ code' = [b \in DOMAIN code |-> [k \in 1 .. Len(code[b]) |->
                [code[b][k] EXCEPT !.val = resolve_alias(@)]]]
  /\ UNCHANGED vals

\* Every operand that is an alias is replaced by what it stands for.
strip_alias ==
  /\ code' = [b \in DOMAIN code |-> [k \in 1 .. Len(code[b]) |->
                [code[b][k] EXCEPT !.val = resolve_alias(@)]]]
  /\ vals' = [v \in 1 .. Len(vals) |->
                IF vals[v].ty = "phi"
                THEN [vals[v] EXCEPT !.args = [p \in DOMAIN @ |-> resolve_alias(@[p])]]
                ELSE vals[v]]

\* The builder forgets what it knew; the finished function starts to run.
finalize ==
  /\ Building /\ strip_alias
  /\ variables' = [v \in Place |-> [b \in 1 .. NumBlocks |-> None]]
  /\ preds' = [b \in 1 .. NumBlocks |-> <<>>] /\ sealed' = {} /\ undef_phis' = [b \in 1 .. NumBlocks |-> <<>>]
  /\ position' = Entry /\ filled' = {} /\ touched' = {}
  /\ phase' = "run" /\ at' = <<Entry, 1>>
  /\ mem' = [v \in Place |-> Undef] /\ ssa' = [v \in 1 .. Len(vals) |-> Undef]
  /\ UNCHANGED <<created, machine, sealing, succs, pending>>

-----------------------------------------------------------------------------
(* The assertions.                                                         *)

is_unreachable == position # Entry /\ position \in sealed /\ preds[position] = <<>>

\* switch_to_block: the current block is filled, or nothing is lost.
MaySwitch(b) ==
  /\ is_unreachable \/ position \notin touched \/ position \in filled
  /\ b \notin filled

\* insert_built_inst: the current block is open, the destinations as well.
MayJump(dests) == position \notin filled /\ dests \cap sealed = {}

MaySeal(b) == b \notin sealed

\* finalize: "block {} is not sealed", "block {} is not filled".
MayFinalize == touched \subseteq (sealed \cap filled)

-----------------------------------------------------------------------------
(* The client. It creates its blocks before it inserts anything, and       *)
(* leaves a block only when it is filled: what else it may do in between   *)
(* leaves no trace in the function.                                        *)

CreateFirst == touched = {} /\ vals = <<Inst>> /\ create_blocks(1)

Open == position \notin filled

Insert ==
  /\ Open
  /\ \/ \E v \in Place : def_var(v) \/ StartRead(v)
     \/ \E v \in Place : \E w \in Place \ {v} : StartCopy(v, w)

Initialise == \E v \in Place : def_var_at_entry(v)

Terminate ==
  \E dests \in SUBSET Block :
    Cardinality(dests) <= 2 /\ MayJump(dests) /\ insert_terminator(dests)

Switch == \E b \in Block : ~Open /\ MaySwitch(b) /\ switch_to_block(b)

SealAny == \E b \in Block : MaySeal(b) /\ Seal(b)

\* A block that is jumped to has code; the exit block needs none.
Finish ==
  /\ MayFinalize /\ Exit \in sealed /\ Entry \in filled
  /\ \A b \in Block \ {Exit} : preds[b] # <<>> => b \in touched
  /\ finalize

-----------------------------------------------------------------------------
(* The finished function runs.                                             *)

Instruction == code[at[1]][at[2]]

RunInst ==
  /\ phase = "run" /\ at[2] <= Len(code[at[1]])
  /\ \E c \in Contents :
       /\ mem' = CASE Instruction.op = "write" -> [mem EXCEPT ![Instruction.place] = c]
                   [] Instruction.op = "copy"  -> [mem EXCEPT ![Instruction.place] = mem[Instruction.from]]
                   [] OTHER                    -> mem
       /\ ssa' = IF Instruction.op = "write" THEN [ssa EXCEPT ![Instruction.val] = c] ELSE ssa
  /\ at' = [at EXCEPT ![2] = @ + 1]
  /\ UNCHANGED <<ssaVars, builder, phase>>

RunJump ==
  /\ phase = "run" /\ at[2] > Len(code[at[1]])
  /\ \E d \in succs[at[1]] :
       /\ at' = <<d, 1>>
       /\ ssa' = [x \in DOMAIN ssa |->
                    IF vals[x].ty = "phi" /\ vals[x].block = d THEN ssa[vals[x].args[at[1]]] ELSE ssa[x]]
  /\ UNCHANGED <<ssaVars, builder, phase, mem>>

Running == RunInst \/ RunJump

Next ==
  \/ CreateFirst \/ Insert \/ Initialise \/ TakeResult \/ Terminate \/ Switch \/ SealAny
  \/ RunMachine \/ Finish \/ Running

Spec == BuilderInit /\ [][Next]_vars

-----------------------------------------------------------------------------
(* What the finished function promises.                                    *)

ValueDefs == {Invalid, Inst} \cup {Alias(v) : v \in Value}

TypeOK ==
  /\ created \in 2 .. NumBlocks /\ position \in Block
  /\ preds \in [1 .. NumBlocks -> Seq(Block)] /\ \A b \in Block : IsSorted(preds[b], <)
  /\ succs \in [1 .. NumBlocks -> SUBSET Block]
  /\ sealed \subseteq Block /\ filled \subseteq Block /\ touched \subseteq Block
  /\ \A v \in Place : variables[v] \in [1 .. NumBlocks -> Value \cup {None}]
  /\ \A x \in 1 .. Len(vals) :
       \/ vals[x] \in ValueDefs
       \/ vals[x].ty = "phi" /\ vals[x].block \in Block /\ \A p \in DOMAIN vals[x].args : vals[x].args[p] \in Value
  /\ results \in Seq(Value) /\ \A k \in 1 .. Len(calls) : calls[k].block \in Block
  /\ phase \in {"build", "run"}

\* The value that stands for a variable at a read holds what the variable
\* holds, whichever way the run has come. (A variable without a definition on
\* that way may read as anything.)
ReadsSeeVariable ==
  (phase = "run" /\ at[2] <= Len(code[at[1]]) /\ Instruction.op # "write") =>
    LET v == IF Instruction.op = "copy" THEN Instruction.from ELSE Instruction.place
    IN  mem[v] # Undef => ssa[Instruction.val] = mem[v]

\* A phi of the finished function has one argument for every block that jumps
\* to its block, and for no other.
PhiPerPredecessor ==
  phase = "run" =>
    \A x \in 1 .. Len(vals) : vals[x].ty = "phi" =>
      DOMAIN vals[x].args = {p \in Block : vals[x].block \in succs[p]}

\* No operand of the finished function is an alias, or a value that nothing
\* defines.
OperandsDefined ==
  phase = "run" =>
    LET defined(x) == vals[x].ty \in {"inst", "phi"}
    IN  /\ \A b \in Block : \A k \in 1 .. Len(code[b]) : defined(code[b][k].val)
        /\ \A x \in 1 .. Len(vals) : vals[x].ty = "phi" =>
             \A p \in DOMAIN vals[x].args : defined(vals[x].args[p])

\* What code generation asks of a finished function, on tables of the right types.
WellFormed == TypeOK /\ PhiPerPredecessor /\ OperandsDefined

=============================================================================
