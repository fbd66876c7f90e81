------------------------------ MODULE MCStudio ------------------------------
EXTENDS Studio

CONSTANTS k1, k2  \* the two calls

MCCalls == {k1, k2}
MCNoStart == 0

\* The first call shows a circuit, or a source that does not compile, and the
\* second a circuit with a start that names nothing in that of the first.
MCMisfits == {[src |-> "a", start |-> 1]}
MCShown == (k1 :> {[src |-> "a", start |-> 0], [src |-> "bad", start |-> 0]}
              @@ k2 :> {[src |-> "b", start |-> 1]})

Symmetry == Permutations(Tabs) \cup Permutations(Servers) \cup Permutations(Conns)
=============================================================================
