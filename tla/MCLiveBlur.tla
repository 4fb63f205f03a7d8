----------------------------- MODULE MCLiveBlur -----------------------------
(* The instances of LiveBlur that TLC checks. *)
EXTENDS LiveBlur

\* Two hosts to be covered too far apart to confirm each other, and one who is
\* not, next to the first.
Table ==
  {[at |-> 1, covered |-> TRUE], [at |-> 2, covered |-> FALSE],
   [at |-> 4, covered |-> TRUE]}

=============================================================================
