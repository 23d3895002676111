----------------------------- MODULE OsdiLibrary -----------------------------
(***************************************************************************)
(* osdi/src/{access,setup,eval,load}.rs: the functions of the emitted      *)
(* library, called by one simulator on one model and one instance of it.   *)
(* Loads only read the device and are operators; every other call is an    *)
(* action. stage is how far the simulator is in the protocol of calls; it  *)
(* starts again after it has changed a parameter.                          *)
(***************************************************************************)
EXTENDS OsdiData

CONSTANT MaxGiven   \* bound: how many parameters are given in the end

VARIABLES inst,      \* the instance data
          mod,       \* the model data
          errors,    \* parameter ids that the last setup reported
          stage      \* "new", "model", "instance", "bound"

libraryVars == <<module, eval_outputs, inst, mod, errors, stage>>

Update(mem, S, elem(_), val) ==
  [e \in DOMAIN mem |-> IF \E x \in S : elem(x) = e
                        THEN val[CHOOSE x \in S : elem(x) = e] ELSE mem[e]]

inst_elem(p)      == nth_param_elem(Pos(module.inst, p))
model_copy(p)     == model_nth_inst_param_elem(Pos(module.inst, p))
model_elem(p)     == model_nth_param_elem(Pos(module.model, p))
model_any_elem(p) == IF p \in InstParams THEN model_copy(p) ELSE model_elem(p)

inst_given(p)  == is_set(inst[PARAM_GIVEN], Pos(module.inst, p))
model_given(p) == is_set(mod[PARAM_GIVEN],
                         IF p \in InstParams THEN model_inst_bit(Pos(module.inst, p))
                                             ELSE Pos(module.model, p))

-----------------------------------------------------------------------------
(* access: a parameter id, with the instance flag or without.              *)

\* The parameter with an id.
param_opvar == module.inst \o module.model

\* given_flag_instance and given_flag_model: 1 when the parameter is marked.
given_flag_instance(id) == IF id < NumInst /\ inst_given(param_opvar[id + 1]) THEN 1 ELSE 0
given_flag_model(id) ==
  IF id < NumInst + NumModel /\ model_given(param_opvar[id + 1]) THEN 1 ELSE 0

NumGiven == Cardinality({p \in InstParams : inst_given(p)})
              + Cardinality({p \in InstParams \cup ModelParams : model_given(p)})

\* Setting: the bit is marked and the simulator writes through the pointer.
AccessSet(id, instance, n) ==
  /\ IF instance
     THEN /\ id < NumInst
          /\ inst' = [inst EXCEPT ![PARAM_GIVEN] = set_bit(@, id), ![nth_param_elem(id)] = n]
          /\ stage' = IF stage = "new" THEN stage ELSE "model"
          /\ UNCHANGED mod
     ELSE /\ id < NumInst + NumModel
          /\ LET bit  == IF id < NumInst THEN model_inst_bit(id) ELSE id - NumInst
                 elem == IF id < NumInst THEN model_nth_inst_param_elem(id)
                                         ELSE model_nth_param_elem(id - NumInst)
             IN  mod' = [mod EXCEPT ![PARAM_GIVEN] = set_bit(@, bit), ![elem] = n]
          /\ stage' = "new"
          /\ UNCHANGED inst
  /\ UNCHANGED <<module, eval_outputs, errors>>
  /\ NumGiven' <= MaxGiven

\* nth_opvar_ptr: a constant is stored when its pointer is asked for.
AccessOpvar(i) ==
  /\ module.opvars[i].kind = "const"
  /\ inst' = [inst EXCEPT ![slot_elem(module.opvars[i])] = module.opvars[i].of]
  /\ UNCHANGED <<module, eval_outputs, mod, errors, stage>>

-----------------------------------------------------------------------------
(* setup.rs and sim_back's node collapse.                                  *)

\* setup_model: every parameter, and the model's copies of the instance's;
\* only the model's own are reported.
SetupModel ==
  LET all == InstParams \cup ModelParams
      val == Init_(all, {p \in all : model_given(p)}, [p \in all |-> mod[model_any_elem(p)]])
  IN  /\ mod' = Update(mod, all, model_any_elem, val)
      /\ errors' = {NumInst + Pos(module.model, p) : p \in Invalid(ModelParams, val)}
      /\ stage' = "model"
      /\ UNCHANGED <<module, eval_outputs, inst>>

\* NodeCollapse::new: hints first, then a pair for each branch current between
\* the nodes of a hint, in either order.
hint_pair(h) == <<module.hints[h].hi, module.hints[h].lo>>

source_pair(c) ==
  LET b == module.currents[c]
      straight == {h \in DOMAIN module.hints : hint_pair(h) = <<b.hi, b.lo>>}
      reverse  == {h \in DOMAIN module.hints : hint_pair(h) = <<b.lo, b.hi>> /\ b.lo # None}
  IN  IF straight # {} THEN straight ELSE reverse

current_pair(c) == <<module.currents[c].unknown, None>>

\* Nothing depends on the order of the currents.
pairs ==
  [h \in DOMAIN module.hints |-> hint_pair(h)]
    \o SetToSeq({current_pair(c) : c \in {c \in DOMAIN module.currents : source_pair(c) # {}}})

\* NodeCollapse::hint: the positions marked for hint h.
hint(h) == {Pos(pairs, hint_pair(h))}
             \cup {Pos(pairs, current_pair(c)) :
                     c \in {c \in DOMAIN module.currents : h \in source_pair(c)}}

\* setup_instance. When parameter module.fatal has the value 2 the analog block
\* calls $fatal: hints after the k-th and some cache slots are not reached.
SetupInstance(temperature, k, reached) ==
  LET given == {p \in InstParams : inst_given(p) \/ model_given(p)}
      val   == [p \in InstParams \cup ModelParams |->
                  IF p \in ModelParams THEN mod[model_elem(p)]
                  ELSE IF inst_given(p) THEN inst[inst_elem(p)] ELSE mod[model_copy(p)]]
      init  == Init_(InstParams, given, val)
      abort == module.fatal # None /\ init[module.fatal] = 2
      stored == Update(Update(inst, InstParams, inst_elem, init),
                       IF abort THEN reached ELSE DOMAIN module.cached,
                       LAMBDA s : cache_slot_elem(s - 1), Cached(init))
      hints == {h \in Hinted(init) : abort => h <= k}
  IN  /\ stage # "new"
      /\ ~abort => k = 0 /\ reached = {}
      /\ inst' = [stored EXCEPT ![TEMPERATURE] = temperature,
                                ![COLLAPSED] = @ \cup UNION {hint(h) : h \in hints}]
      /\ errors' = {Pos(module.inst, p) : p \in Invalid(InstParams, init)}
      /\ stage' = IF abort THEN "model" ELSE "instance"
      /\ UNCHANGED <<module, eval_outputs, mod>>

\* jacobian_entries: react_ptr_off of an entry, counted on its own there.
react_ptr_off(e) ==
  Cardinality({d \in 1 .. e - 1 : module.jacobian[d].react # F_ZERO})

\* The simulator (external) maps the nodes and fills in the pointers to its
\* matrix cells, where the descriptor says they are.
Bind ==
  LET row == Rows({pairs[i + 1] : i \in inst[COLLAPSED]})
      cell(e) == <<row[module.jacobian[e].row], row[module.jacobian[e].col]>>
      reactive == {e \in DOMAIN module.jacobian : module.jacobian[e].react # F_ZERO}
  IN  /\ stage = "instance"
      /\ inst' = [inst EXCEPT
                    ![NODE_MAPPING] = row,
                    ![JACOBIAN_PTR_RESIST] = [e \in DOMAIN module.jacobian |-> cell(e)],
                    ![JACOBIAN_PTR_REACT] =
                      [i \in 1 .. NumReact |->
                         cell(CHOOSE e \in reactive : react_ptr_off(e) = i - 1)]]
      /\ stage' = "bound"
      /\ UNCHANGED <<module, eval_outputs, mod, errors>>

-----------------------------------------------------------------------------
(* eval: the results that the flags ask for are stored in their slots.     *)

\* store_residual and store_lim_rhs store whatever has a slot, the other stores
\* only what was calculated; store_bound_step needs no flag.
stored_outputs(F) ==
  {o \in Outputs :
     LET v == OutputValue(o) IN
     CASE o.kind \in {"resist", "react", "limResist", "limReact"} -> o.kind \in F /\ v # F_ZERO
       [] o.kind = "bound" -> TRUE
       [] OTHER -> o.kind \in F /\ Calculated(v)}

Eval(F, solution) ==
  LET env == [param |-> read_param(inst, mod),
              given |-> {p \in InstParams : inst_given(p)}
                          \cup {p \in InstParams \cup ModelParams : model_given(p)},
              cache |-> load_cache(inst),
              volt  |-> read_node_voltage(inst, solution)]
      V   == {OutputValue(o) : o \in stored_outputs(F)}
  IN  /\ stage = "bound"
      /\ inst' = Update(inst, V, slot_elem, [v \in V |-> Value(v, env)])
      /\ UNCHANGED <<module, eval_outputs, mod, errors, stage>>

-----------------------------------------------------------------------------
(* load.rs: what the load functions add to zeroed arrays of the simulator. *)

AtRow(r, S, f(_)) == MapThenSumSet(f, {n \in S : inst[NODE_MAPPING][n] = r})

load_residual(r, part) ==
  AtRow(r, Unknowns, LAMBDA n : read_slot(module.residual[n][part], inst))

\* Mutant: what limiting took away is added to the right hand side.
load_lim_rhs_Added(r, part) ==
  AtRow(r, Unknowns, LAMBDA n : read_slot(module.residual[n][part], inst))

load_lim_rhs(r, part) ==
  0 - AtRow(r, Unknowns, LAMBDA n : read_slot(module.residual[n][part], inst))

load_jacobian_entry(e, part) == load_eval_output(module.jacobian[e][part], inst, mod)

\* tran adds alpha times the reactive part to the resistive one, at the
\* resistive pointer; resist and react keep to their own.
load_jacobian(kind, alpha, cell) ==
  LET E   == DOMAIN module.jacobian
      ptr(e) == IF kind = "react" THEN IF module.jacobian[e].react = F_ZERO THEN None
                                       ELSE inst[JACOBIAN_PTR_REACT][react_off(e) + 1]
                ELSE inst[JACOBIAN_PTR_RESIST][e]
      add(e) == CASE kind = "resist" -> load_jacobian_entry(e, "resist")
                  [] kind = "react"  -> alpha * load_jacobian_entry(e, "react")
                  [] kind = "tran"   -> load_jacobian_entry(e, "resist")
                                          + alpha * load_jacobian_entry(e, "react")
  IN  MapThenSumSet(add, {e \in E : ptr(e) = cell})

\* write_jacobian_array: the entries that are present, one after the other.
write_jacobian_array(part) ==
  LET present == SelectSeq([e \in DOMAIN module.jacobian |-> e],
                           LAMBDA e : module.jacobian[e][part] # F_ZERO)
  IN  [i \in DOMAIN present |-> load_jacobian_entry(present[i], part)]

\* The density of source k is power * factor^2 / f^exponent; white noise has
\* exponent 0. load_noise gives it at a frequency, as a fraction here,
\* load_noise_params without.
source_power(k) ==
  load_eval_output(module.noise[k].power, inst, mod)
    * load_eval_output(module.noise[k].factor, inst, mod) ^ 2

load_noise(k, f) ==
  <<source_power(k), IF module.noise[k].exp = None THEN 1
                     ELSE f ^ load_eval_output(module.noise[k].exp, inst, mod)>>

load_noise_params(k) ==
  <<source_power(k), IF module.noise[k].exp = None THEN 0
                     ELSE load_eval_output(module.noise[k].exp, inst, mod)>>

\* load_spice_rhs: the linearised right hand side; the reactive rows only in tran.
spice_row(n, solution, part, lim, residual) ==
  LET entries == {e \in DOMAIN module.jacobian :
                    module.jacobian[e].row = n /\ module.jacobian[e][part] # F_ZERO}
      product(e) == load_jacobian_entry(e, part) * solution[inst[NODE_MAPPING][module.jacobian[e].col]]
      R == module.residual[n]
  IN  IF entries = {} /\ (~residual \/ R.resist = F_ZERO) THEN 0
      ELSE MapThenSumSet(product, entries)
             - (IF residual THEN read_slot(R.resist, inst) ELSE 0) + read_slot(R[lim], inst)

load_spice_rhs(r, solution, tran, alpha) ==
  AtRow(r, Unknowns, LAMBDA n : spice_row(n, solution, "resist", "limResist", TRUE))
    + (IF tran THEN alpha * AtRow(r, Unknowns,
                                  LAMBDA n : spice_row(n, solution, "react", "limReact", FALSE))
               ELSE 0)

-----------------------------------------------------------------------------
LibraryInit ==
  /\ module \in Modules
  /\ eval_outputs = NewEvalOutputs
  /\ inst = NewInstance /\ mod = NewModel
  /\ errors = {} /\ stage = "new"

LibraryNext ==
  \/ \E id \in 0 .. NumInst + NumModel - 1, instance \in BOOLEAN, n \in Numbers :
       AccessSet(id, instance, n)
  \/ \E i \in DOMAIN module.opvars : AccessOpvar(i)
  \/ SetupModel
  \/ \E t \in Numbers, k \in 0 .. Len(module.hints), reached \in SUBSET DOMAIN module.cached :
       SetupInstance(t, k, reached)
  \/ Bind
  \/ \E F \in FlagSets, solution \in Solutions : Eval(F, solution)

LibrarySpec == LibraryInit /\ [][LibraryNext]_libraryVars

-----------------------------------------------------------------------------
(* The device that a simulator sees through the library.                   *)

Ids         == 0 .. NumInst + NumModel - 1
ParamOf(id) == param_opvar[id + 1]

device_iGiven    == {ParamOf(id) : id \in {i \in Ids : given_flag_instance(i) = 1}}
device_iParam    == [p \in InstParams |-> inst[inst_elem(p)]]
device_mGiven    == {ParamOf(id) : id \in {i \in Ids : given_flag_model(i) = 1}}
device_mParam    == [p \in InstParams \cup ModelParams |-> mod[model_any_elem(p)]]
device_collapsed == {pairs[i + 1] : i \in inst[COLLAPSED]}
device_reported  == {ParamOf(id) : id \in errors}

\* What a load of an output reads.
Reads(o) ==
  IF o.kind \in {"resist", "react", "limResist", "limReact", "bound"}
  THEN read_slot(OutputValue(o), inst) ELSE load_eval_output(OutputValue(o), inst, mod)

device_out == [o \in Outputs |-> Reads(o)]

D == INSTANCE AbstractDevice WITH
       iGiven <- device_iGiven, iParam <- device_iParam,
       mGiven <- device_mGiven, mParam <- device_mParam,
       temp <- inst[TEMPERATURE], cache <- load_cache(inst),
       collapsed <- device_collapsed, row <- inst[NODE_MAPPING],
       out <- device_out, reported <- device_reported

\* Every call of the library is a call on the device (the emitted access,
\* setup_model, setup_instance and eval, and what the loads then read).
RefinesDevice == D!Device
=============================================================================
