--------------------------- MODULE MCResponseLinks ---------------------------
(* TLC's instance of ResponseLinks: a conversation, the answer of one of its  *)
(* turns, and a queue for one operation.                                      *)
EXTENDS ResponseLinks, TLC

CONSTANTS c1, r1

SampleHome == (r1 :> c1)
===============================================================================
