------------------------------ MODULE MCBTree ------------------------------
(* Three threads that share 1 .. 6 out by i % 3, as main.c does by i % 8. *)
EXTENDS BTree, TLC

CONSTANTS t0, t1, t2

MCShare == (t0 :> <<3, 6>>) @@ (t1 :> <<1, 4>>) @@ (t2 :> <<2, 5>>)
=============================================================================
