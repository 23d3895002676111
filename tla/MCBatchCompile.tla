--------------------------- MODULE MCBatchCompile ---------------------------
(* Values for the constants of BatchCompile that a .cfg cannot write, and  *)
(* the symmetry of the processes.                                          *)
EXTENDS BatchCompile, TLC

MCObjects == <<"o1", "o">>

\* --output model.osdi
MCOutput == {<<"out", "osdi">>}

ProcSymmetry == Permutations(Proc)

=============================================================================
