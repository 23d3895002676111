------------------------------- MODULE MCOsdi -------------------------------
(***************************************************************************)
(* The library implements the device, on two compiled modules; and the     *)
(* interfaces for loading agree with each other.                           *)
(***************************************************************************)
EXTENDS OsdiLibrary, TLC

CONSTANTS mfactor, r0, g0, s0

Plain(n)    == [from |-> None, plus |-> n]
Row(a, b, c, d) == [resist |-> a, react |-> b, limResist |-> c, limReact |-> d]
Entry(row, col, a, b) == [row |-> row, col |-> col, resist |-> a, react |-> b]

\* r0 defaults to the model's g0. The operating point variable shares its slot
\* with a residual and an entry, the constant one with a residual; entry 1 has
\* no reactive part; nodes 1 and 2 collapse when r0 is 1, and the branch's
\* current, declared the other way round, with them.
Resistor ==
  [inst |-> <<mfactor, r0>>, model |-> <<g0>>, builtin |-> {mfactor},
   default |-> (mfactor :> Plain(1)) @@ (r0 :> [from |-> g0, plus |-> 0]) @@ (g0 :> Plain(1)),
   range |-> (r0 :> {1}) @@ (g0 :> {1, 2}),
   opvars |-> <<Result(1, 1, r0), Const(3), Param(g0)>>,
   residual |-> << Row(Result(1, 1, r0), F_ZERO, F_ZERO, F_ZERO),
                   Row(Param(r0), Result(2, 2, mfactor), F_ZERO, F_ZERO),
                   Row(Const(3), F_ZERO, F_ZERO, F_ZERO) >>,
   jacobian |-> << Entry(1, 1, Cache(1), F_ZERO),
                   Entry(1, 2, F_ZERO, Result(2, 2, mfactor)),
                   Entry(2, 1, Param(r0), Result(1, 1, r0)),
                   Entry(2, 3, Const(1), F_ZERO) >>,
   noise |-> <<[factor |-> Const(2), power |-> Result(2, 2, mfactor), exp |-> Param(r0)],
             [factor |-> Result(1, 1, r0), power |-> Cache(1), exp |-> None]>>,
   bound |-> None,
   cached |-> <<r0>>,
   hints |-> <<[hi |-> 1, lo |-> 2, when |-> r0]>>,
   currents |-> <<[unknown |-> 3, hi |-> 2, lo |-> 1]>>,
   fatal |-> None]

\* A limited diode: limiting on both parts, a step bound that is also an
\* operating point variable, g0 on the instance from a model parameter, $fatal.
Diode ==
  [inst |-> <<g0>>, model |-> <<s0, r0>>, builtin |-> {},
   default |-> (g0 :> [from |-> s0, plus |-> 0]) @@ (s0 :> Plain(1)) @@ (r0 :> [from |-> g0, plus |-> 1]),
   range |-> (g0 :> {1, 2}) @@ (s0 :> {1}) @@ (r0 :> {1, 2}),
   opvars |-> <<Result(4, 1, g0), Given(g0)>>,
   residual |-> << Row(Result(1, 1, g0), Result(2, 1, Temp), Result(3, 1, g0), Result(4, 1, g0)),
                   Row(Result(1, 1, g0), F_ZERO, F_ZERO, F_ZERO) >>,
   jacobian |-> << Entry(1, 1, Cache(2), Cache(1)), Entry(1, 2, Voltage(2), F_ZERO),
                   Entry(2, 2, F_ZERO, Voltage(2)) >>,
   noise |-> << >>,
   bound |-> Result(4, 1, g0),
   cached |-> <<g0, r0>>,
   hints |-> <<[hi |-> 2, lo |-> None, when |-> g0]>>,
   currents |-> << >>,
   fatal |-> g0]

MCModules   == {Resistor, Diode}
MCSolutions == {[row \in 0 .. 3 |-> row], [row \in 0 .. 3 |-> (3 * row) % 4]}
Alpha       == 3
MCFlagSets  == {{"resist", "limResist"},
                {"react", "limReact", "jacResist", "jacReact", "opvar", "factor", "power", "exp"}}

-----------------------------------------------------------------------------
\* The ways to load a system agree: what load_spice_rhs adds is the Jacobian
\* that load_jacobian adds, times the solution, less what load_residual and
\* load_lim_rhs add; the transient Jacobian is the sum of the resistive and of
\* the reactive one through the reactive pointers; and the arrays that
\* write_jacobian_array fills hold, in the order of the flagged entries of the
\* descriptor, the same matrix. The descriptor's offsets lead to the residuals
\* that the load functions add, and the noise of the two noise functions is
\* the same at any frequency.
LoadsAgree ==
  stage = "bound" =>
    LET rows == {inst[NODE_MAPPING][n] : n \in Unknowns}
        times(kind, row, x) ==
          MapThenSumSet(LAMBDA col : load_jacobian(kind, Alpha, <<row, col>>) * x[col], rows)
        cell(e) == <<inst[NODE_MAPPING][module.jacobian[e].row],
                     inst[NODE_MAPPING][module.jacobian[e].col]>>
        flagged(part) == {e \in DOMAIN module.jacobian : module.jacobian[e][part] # F_ZERO}
        filled(part, at) ==
          MapThenSumSet(
            LAMBDA e : write_jacobian_array(part)[Cardinality({d \in flagged(part) : d <= e})],
            {e \in flagged(part) : cell(e) = at})
    IN  /\ \A x \in Solutions, row \in rows :
             LET known == load_residual(row, "resist") + load_lim_rhs(row, "limResist") IN
             /\ load_spice_rhs(row, x, FALSE, Alpha) = times("resist", row, x) - known
             /\ load_spice_rhs(row, x, TRUE, Alpha)
                  = times("tran", row, x) - known - Alpha * load_lim_rhs(row, "limReact")
        /\ \A at \in rows \X rows :
             /\ load_jacobian("tran", Alpha, at)
                  = load_jacobian("resist", 1, at) + load_jacobian("react", Alpha, at)
             /\ load_jacobian("resist", 1, at) = filled("resist", at)
             /\ load_jacobian("react", 1, at) = filled("react", at)
        /\ \A n \in Unknowns, part \in {"resist", "react", "limResist", "limReact"} :
             read_slot(module.residual[n][part], inst)
               = IF residual_off(n, part) = None THEN 0 ELSE inst[residual_off(n, part)]
        /\ \A k \in DOMAIN module.noise, f \in Numbers :
             load_noise(k, f) = <<load_noise_params(k)[1], f ^ load_noise_params(k)[2]>>
=============================================================================
