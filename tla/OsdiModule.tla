----------------------------- MODULE OsdiModule -----------------------------
(***************************************************************************)
(* What the OSDI code generators are given: a compiled module (sim_back's  *)
(* CompiledModule), and what its MIR functions compute. Shared by the      *)
(* device a simulator sees (AbstractDevice) and the library the compiler   *)
(* emits (OsdiData, OsdiLibrary).                                          *)
(*                                                                         *)
(* A module is a record:                                                   *)
(*   inst, model  instance and model parameters, in order                  *)
(*   builtin      the instance parameters that are system functions        *)
(*   default      per parameter: a number and a parameter added to it      *)
(*   range        per user parameter: the values its bounds allow          *)
(*   opvars       the value of each operating point variable               *)
(*   residual     per unknown: resist, react, limResist, limReact          *)
(*   jacobian     entries: row, col, resist, react                         *)
(*   noise        sources: factor, power, exp (None for white noise)       *)
(*   bound        the time step bound, or None                             *)
(*   cached       per cache slot, the parameter it is computed from        *)
(*   hints        collapse hints hi, lo and the parameter that causes them *)
(*   currents     branch current unknowns between hi and lo                *)
(*                                                                         *)
(* A MIR value is a constant, a parameter, whether a parameter is given, a *)
(* cache slot, the voltage of an unknown, or the result of an instruction  *)
(* that reads an unknown and a parameter. Numbers are integers: what       *)
(* matters is which one is read.                                           *)
(***************************************************************************)
EXTENDS Integers, Sequences, FiniteSets, SequencesExt

CONSTANTS Modules,    \* the compiled modules
          Numbers,    \* what a simulator sets a parameter to
          Solutions,  \* the solution vectors: row -> number, ground is row 0
          FlagSets,   \* what evaluations are asked for: sets of output kinds
          Temp,       \* the temperature, read like a parameter
          None

VARIABLE module

Const(n)       == [kind |-> "const", of |-> n]
Param(p)       == [kind |-> "param", of |-> p]
Given(p)       == [kind |-> "given", of |-> p]
Cache(slot)    == [kind |-> "cache", of |-> slot]
Voltage(n)     == [kind |-> "voltage", of |-> n]
Result(i, n, p) == [kind |-> "result", of |-> i, node |-> n, param |-> p]
F_ZERO         == Const(0)

\* The values that eval's MIR of m can have as an output.
MirValues(m) ==
  LET params == ToSet(m.inst) \cup ToSet(m.model)
  IN  [kind : {"const"}, of : Int]
        \cup [kind : {"param"}, of : params \cup {Temp}]
        \cup [kind : {"given"}, of : params]
        \cup [kind : {"cache"}, of : DOMAIN m.cached]
        \cup [kind : {"voltage"}, of : DOMAIN m.residual]
        \cup [kind : {"result"}, of : Int, node : DOMAIN m.residual, param : params \cup {Temp}]

\* Parameters are keys, of the instance or of the model; a hint names a node.
ASSUME ModulesAssumption ==
  \A m \in Modules :
    /\ \A f \in {"inst", "model", "opvars", "residual", "jacobian", "noise", "cached",
                "hints", "currents"} : m[f] \in Seq(ToSet(m[f]))
    /\ IsInjective(m.inst) /\ IsInjective(m.model) /\ ToSet(m.inst) \cap ToSet(m.model) = {}
    /\ \A n \in DOMAIN m.residual : \A part \in {"resist", "react", "limResist", "limReact"} :
         m.residual[n][part] \in MirValues(m)
    /\ \A e \in DOMAIN m.jacobian : \A part \in {"resist", "react"} : m.jacobian[e][part] \in MirValues(m)
    /\ \A k \in DOMAIN m.noise : /\ \A part \in {"factor", "power"} : m.noise[k][part] \in MirValues(m)
                                 /\ m.noise[k].exp # None => m.noise[k].exp \in MirValues(m)
    /\ \A i \in DOMAIN m.opvars : m.opvars[i] \in MirValues(m)
    /\ m.bound # None => m.bound \in MirValues(m)
    /\ \A h \in DOMAIN m.hints : m.hints[h].hi # None

\* The value of v; env is what it is computed from: the stored parameters,
\* the given ones, the cache and the solution at the unknowns.
Value(v, env) ==
  CASE v.kind = "const"   -> v.of
    [] v.kind = "param"   -> env.param[v.of]
    [] v.kind = "given"   -> IF v.of \in env.given THEN 1 ELSE 0
    [] v.kind = "cache"   -> env.cache[v.of]
    [] v.kind = "voltage" -> env.volt[v.of]
    [] OTHER              -> 100 * v.of + 10 * env.volt[v.node] + env.param[v.param]

InstParams  == ToSet(module.inst)
ModelParams == ToSet(module.model)
UserParams  == (InstParams \cup ModelParams) \ module.builtin
Unknowns    == DOMAIN module.residual

\* insert_param_init: a parameter that is not given has its default, computed
\* from the values the other parameters have by then; S are initialised.
Init_(S, given, val) ==
  LET r[p \in InstParams \cup ModelParams] ==
        LET d == module.default[p] IN
        IF p \notin S \/ p \in given THEN val[p]
        ELSE IF d.from = None THEN d.plus ELSE d.plus + r[d.from]
  IN  r

\* The bounds are checked for given and for default values.
Invalid(S, val) == {p \in S \cap UserParams : val[p] \notin module.range[p]}

\* Initialization's cached values.
Cached(param) == [s \in DOMAIN module.cached |-> 7 + param[module.cached[s]]]

\* The outputs of eval, each with the flag that asks for it.
Outputs ==
  [kind : {"resist", "react", "limResist", "limReact"}, at : Unknowns]
    \cup [kind : {"jacResist", "jacReact"}, at : DOMAIN module.jacobian]
    \cup [kind : {"factor", "power"}, at : DOMAIN module.noise]
    \cup [kind : {"exp"}, at : {k \in DOMAIN module.noise : module.noise[k].exp # None}]
    \cup [kind : {"opvar"}, at : DOMAIN module.opvars]
    \cup (IF module.bound = None THEN {} ELSE [kind : {"bound"}, at : {0}])

\* The MIR value of an output.
OutputValue(o) ==
  CASE o.kind \in {"resist", "react", "limResist", "limReact"} -> module.residual[o.at][o.kind]
    [] o.kind = "jacResist" -> module.jacobian[o.at].resist
    [] o.kind = "jacReact"  -> module.jacobian[o.at].react
    [] o.kind \in {"factor", "power", "exp"} -> module.noise[o.at][o.kind]
    [] o.kind = "opvar" -> module.opvars[o.at]
    [] o.kind = "bound" -> module.bound

\* Hints whose condition holds.
Hinted(param) == {h \in DOMAIN module.hints : param[module.hints[h].when] = 1}

\* The simulator's row of each unknown after collapsing; ground is row 0.
\* (External: a simulator gives collapsed nodes one row.)
Rows(pairs) ==
  [n \in Unknowns |->
     LET p == {q \in pairs : q[1] = n} IN
     IF p = {} THEN n ELSE LET q == CHOOSE q \in p : TRUE IN IF q[2] = None THEN 0 ELSE q[2]]
=============================================================================
