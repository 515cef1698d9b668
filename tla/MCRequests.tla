----------------------------- MODULE MCRequests -----------------------------
(* Two pods, one of which runs two requests at a time.                     *)
EXTENDS Requests, TLC
CONSTANTS h1, h2, h3, p1, p2

MCPodOf == [h \in {h1, h2, h3} |-> IF h = h3 THEN p2 ELSE p1]
MCWorkloads == {
  [asks |-> {"a", "b"}, times |-> 3, flaky |-> FALSE],
  [asks |-> {"a", NoKey}, times |-> 2, flaky |-> TRUE],
  [asks |-> {NoKey}, times |-> 4, flaky |-> TRUE]}
Symmetry == Permutations({h1, h2})
=============================================================================
