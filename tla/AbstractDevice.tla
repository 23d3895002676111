--------------------------- MODULE AbstractDevice ---------------------------
(***************************************************************************)
(* The device that the library promises to a simulator: parameters by      *)
(* name, each with a number and whether it was given, separately for the   *)
(* model and the instance; the collapsed node pairs; and every output of   *)
(* the module by name, holding what an evaluation computed. No layout, no  *)
(* bits, no slots.                                                         *)
(*                                                                         *)
(* Outputs with the same value may share their place, so one that was not  *)
(* asked for is either as it was or of the same evaluation; it is never    *)
(* older, and never another output's. What needs no solution (parameters,  *)
(* constants, cached values) may be up to date without any evaluation.     *)
(***************************************************************************)
EXTENDS OsdiModule

VARIABLES iGiven, iParam,   \* the instance: given parameters, their numbers
          mGiven, mParam,   \* the model, with its own copy of instance parameters
          temp,             \* the temperature of the last setup
          cache,            \* what setup_instance computed for eval
          collapsed,        \* node pairs
          row,              \* the simulator's row of each unknown
          out,              \* what a load of each output reads
          reported          \* parameters that the last setup found out of bounds

dvars == <<module, iGiven, iParam, mGiven, mParam, temp, cache, collapsed, row, out, reported>>

All == InstParams \cup ModelParams

\* What eval's MIR sees.
Env(i, m, t, c, x) ==
  [param |-> [p \in All \cup {Temp} |->
                IF p = Temp THEN t ELSE IF p \in InstParams THEN i[p] ELSE m[p]],
   given |-> iGiven \cup mGiven, cache |-> c, volt |-> x]

Static(v) == v.kind \in {"const", "param", "cache"}

\* Outputs with static values may have caught up.
Refreshed(o) ==
  LET v == OutputValue(o) IN
  \/ out'[o] = out[o]
  \/ Static(v) /\ out'[o] = Value(v, Env(iParam', mParam', temp', cache', <<>>))

Catch == DOMAIN out' = Outputs /\ \A o \in Outputs : Refreshed(o)

DInit ==
  /\ module \in Modules
  /\ iGiven = {} /\ iParam = [p \in InstParams |-> 0]
  /\ mGiven = {} /\ mParam = [p \in All |-> 0]
  /\ temp = 0 /\ cache = [s \in DOMAIN module.cached |-> 0]
  /\ collapsed = {} /\ row = [n \in Unknowns |-> 0] /\ reported = {}
  /\ DOMAIN out = Outputs
  /\ \A o \in Outputs : out[o] = 0 \/ (OutputValue(o).kind = "const" /\ out[o] = OutputValue(o).of)

SetOnInstance(p, n) ==
  /\ iGiven' = iGiven \cup {p} /\ iParam' = [iParam EXCEPT ![p] = n]
  /\ Catch
  /\ UNCHANGED <<module, mGiven, mParam, temp, cache, collapsed, row, reported>>

SetOnModel(p, n) ==
  /\ mGiven' = mGiven \cup {p} /\ mParam' = [mParam EXCEPT ![p] = n]
  /\ Catch
  /\ UNCHANGED <<module, iGiven, iParam, temp, cache, collapsed, row, reported>>

DSetupModel ==
  LET init == Init_(All, mGiven, mParam)
  IN  /\ mParam' = [p \in All |-> init[p]]
      /\ reported' = Invalid(ModelParams, init)
      /\ Catch
      /\ UNCHANGED <<module, iGiven, iParam, mGiven, temp, cache, collapsed, row>>

\* The current of a branch vanishes with a hint for its nodes, in the branch's
\* direction if there is such a hint.
Vanishes(c, h) ==
  LET b == module.currents[c]
      along(g) == module.hints[g].hi = b.hi /\ module.hints[g].lo = b.lo
  IN  along(h) \/ /\ module.hints[h].hi = b.lo /\ module.hints[h].lo = b.hi
                  /\ \A g \in DOMAIN module.hints : ~along(g)

\* The instance's number, else the model's, else the default. A hint collapses
\* its nodes, and currents of branches between them vanish with them.
DSetupInstance(t) ==
  LET given == iGiven \cup (mGiven \cap InstParams)
      val   == [p \in All |-> IF p \in iGiven THEN iParam[p] ELSE mParam[p]]
      init  == Init_(InstParams, given, val)
      fatal == module.fatal # None /\ init[module.fatal] = 2
      gone(h) == {<<module.hints[h].hi, module.hints[h].lo>>}
                   \cup {<<module.currents[c].unknown, None>> :
                           c \in {c \in DOMAIN module.currents : Vanishes(c, h)}}
  IN  /\ iParam' = [p \in InstParams |-> init[p]]
      /\ temp' = t
      /\ reported' = Invalid(InstParams, init)
      /\ DOMAIN cache' = DOMAIN cache
      /\ \A s \in DOMAIN cache : \/ cache'[s] = Cached(init)[s]
                                 \/ fatal /\ cache'[s] = cache[s]
      /\ \E H \in SUBSET Hinted(init) :
           /\ ~fatal => H = Hinted(init)
           /\ collapsed' = collapsed \cup UNION {gone(h) : h \in H}
      /\ Catch
      /\ UNCHANGED <<module, iGiven, mGiven, mParam, row>>

DBind ==
  /\ row' = Rows(collapsed)
  /\ Catch
  /\ UNCHANGED <<module, iGiven, iParam, mGiven, mParam, temp, cache, collapsed, reported>>

\* What was asked for is of this evaluation.
DEval(F, solution) ==
  LET now(o) == Value(OutputValue(o), Env(iParam, mParam, temp, cache,
                                            [n \in Unknowns |-> solution[row[n]]]))
  IN  /\ DOMAIN out' = Outputs
      /\ \A o \in Outputs : IF o.kind \in F \cup {"bound"} THEN out'[o] = now(o)
                            ELSE out'[o] \in {out[o], now(o)}
      /\ UNCHANGED <<module, iGiven, iParam, mGiven, mParam, temp, cache, collapsed, row, reported>>

DRead == Catch /\ UNCHANGED <<module, iGiven, iParam, mGiven, mParam, temp, cache, collapsed, row,
                             reported>>

DNext ==
  \/ \E p \in InstParams, n \in Numbers : SetOnInstance(p, n)
  \/ \E p \in All, n \in Numbers : SetOnModel(p, n)
  \/ DSetupModel \/ (\E t \in Numbers : DSetupInstance(t)) \/ DBind \/ DRead
  \/ \E F \in FlagSets, solution \in Solutions : DEval(F, solution)

Device == DInit /\ [][DNext]_dvars
=============================================================================
