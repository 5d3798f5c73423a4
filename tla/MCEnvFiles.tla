----------------------------- MODULE MCEnvFiles -----------------------------
(***************************************************************************)
(* EnvFiles for TLC: one name in two files, of which the first has a value *)
(* to begin with.  People edit both, or only the second one, so that the   *)
(* first one differs from the cloud by what other commands do.             *)
(***************************************************************************)
EXTENDS EnvFiles, TLC

CONSTANTS env, local, x

OwnAll == [w \in Clones |-> Vars]
OwnSecond == [w \in Clones |-> {<<local, x>>}]
OneImported == {[v \in Vars |-> IF File(v) = env THEN a ELSE Absent] : a \in Values}

Symmetry == Permutations(Commands) \cup Permutations(Clones) \cup Permutations(Values)
=============================================================================
