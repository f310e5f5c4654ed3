--------------------------- MODULE MCMeasuredRun ---------------------------
(***************************************************************************)
(* Two tasks, two starts of a script and two events from outside, in any   *)
(* order and at any step: the second start is the other shard, the same    *)
(* tasks again, or a run in the same second.  The contract hashes of a     *)
(* manifest tell two versions apart, or they differ where no hash looks.   *)
(* Surfaces and versions are only compared for equality.                   *)
(***************************************************************************)
EXTENDS MeasuredRun, TLC

MCTasks == <<1, 2>>
MCPickings == {<<1>>, <<2>>, <<1, 2>>, <<1, 1>>}
MCShards == {<<1>>, <<2>>}
MCHidden == [v \in Versions |-> 1]
MCVisible == CHOOSE f \in [Versions -> 1 .. Cardinality(Versions)] : IsInjective(f)
MCConfigs == {[mode |-> "validate_repair", infer |-> b] : b \in BOOLEAN}
MCPlain == {[mode |-> "validate_repair", infer |-> FALSE]}
VersionSymmetry == Permutations(Versions)
=============================================================================
