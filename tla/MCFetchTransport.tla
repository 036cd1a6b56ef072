-------------------------- MODULE MCFetchTransport --------------------------
(* Instances of FetchTransport for TLC. *)
EXTENDS FetchTransport, Backoff

\* The sampling of the backoff draws every outcome equally often.
ASSUME Uniform ==
  \A words \in 1..20 : \A cap \in 0..(words - 1) : \A outcome \in 0..cap :
    Cardinality(Draws(words, cap, outcome)) = words \div Outcomes(cap)

MCOperations == [read : BOOLEAN, problem : BOOLEAN, cooperative : BOOLEAN]

============================================================================
