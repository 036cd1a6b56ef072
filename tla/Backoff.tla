-------------------------------- MODULE Backoff -------------------------------
(***************************************************************************)
(* The rejection sampling of uniformDelay (transport.ts) and nextRandomInt *)
(* (test-seams.ts): a random word of Words values is drawn again until it  *)
(* is below the largest multiple of the number of outcomes, and reduced.   *)
(***************************************************************************)
EXTENDS Integers, FiniteSets

Outcomes(cap) == cap + 1
Largest(words, cap) == (words \div Outcomes(cap)) * Outcomes(cap)
Accepted(words, cap) == {raw \in 0..(words - 1) : raw < Largest(words, cap)}
Draws(words, cap, outcome) ==
  {raw \in Accepted(words, cap) : raw % Outcomes(cap) = outcome}
===============================================================================
