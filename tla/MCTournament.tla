---- MODULE MCTournament ----
\* Instances of Tournament for TLC: the users other than the organizer are
\* interchangeable, the organizer may play too.
EXTENDS Tournament, TLC

Symmetry == Permutations(Users \ {Organizer})
====
