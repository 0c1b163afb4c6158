---------------------------- MODULE MCAllocation ----------------------------
(* Every command asks for the same directory, so any two reservations      *)
(* under one root collide.                                                 *)
EXTENDS Allocation, TLC

CONSTANT src

OnePath == {src}
Below == {<<src, src>>}
OneGrant == {{src}}

Symmetry == Permutations(Session) \cup Permutations(Proc) \cup Permutations(Inc)
            \cup Permutations(Asg)
=============================================================================
