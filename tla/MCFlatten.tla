---- MODULE MCFlatten ----
(* Instances of AccountFlatten for TLC. *)
EXTENDS AccountFlatten, TLC

NoSkew == AllFaults \ {"skew"}
Alike  == Permutations(Callers) \cup Permutations(Symbols)

\* Long and short are mirror images: what is held first, or rests, is bought.
\* Bound: what is held and what rests are MaxSize contracts together.
FlattenInit ==
  /\ Init
  /\ \A s \in Symbols :
       /\ position[s] > 0 \/ (position[s] = 0 /\ resting[s] >= 0)
       /\ Size(position[s]) + Size(resting[s]) <= MaxSize

FlattenSpec == FlattenInit /\ [][Next]_vars
====
