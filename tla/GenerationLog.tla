--------------------------- MODULE GenerationLog ---------------------------
(***************************************************************************)
(* What workspace synchronisation promises a program: a workspace is a     *)
(* log of generations that only grows, and a commit that is reported to    *)
(* the program put its manifest directly after the generation it was made  *)
(* on, so that no generation between the two was overlooked.               *)
(***************************************************************************)
EXTENDS Naturals, Sequences

CONSTANTS
  Roots,        \* manifest roots: what the content of a workspace hashes to
  Authors       \* who commits

VARIABLES
  log,          \* the generations, [root, author] each
  reported      \* commits reported to the program, [expected, root] each

vars == <<log, reported>>

Generations == [root : Roots, author : Authors]

Init ==
  /\ log = <<>>
  /\ reported = {}

\* Somebody's commit becomes the next generation.
Commit ==
  /\ \E g \in Generations : log' = Append(log, g)
  /\ UNCHANGED reported

\* A program learns that its commit is the generation after the expected one.
Report(author) ==
  /\ \E expected \in 0..Len(log), root \in Roots :
       /\ expected < Len(log)
       /\ log[expected + 1] = [root |-> root, author |-> author]
       /\ reported' = reported \cup {[expected |-> expected, root |-> root]}
  /\ UNCHANGED log

Next == Commit \/ \E a \in Authors : Report(a)

Spec == Init /\ [][Next]_vars

============================================================================
