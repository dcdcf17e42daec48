-------------------------- MODULE MCBoundedBuffer --------------------------
(* Three putters and three getters, as in main.c, on as many slots. *)
EXTENDS BoundedBuffer, TLC

CONSTANTS p1, p2, p3, c1, c2, c3

\* The loops of main.c share N items out by i % 3; here N is 5.
MCRounds == (p1 :> 2) @@ (p2 :> 2) @@ (p3 :> 1) @@ (c1 :> 2) @@ (c2 :> 2) @@ (c3 :> 1)
=============================================================================
