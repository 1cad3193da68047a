------------------------- MODULE MCOperatorLifecycle -------------------------
(***************************************************************************)
(* Three controllers, two of them for the same CRD.                        *)
(***************************************************************************)
EXTENDS OperatorLifecycle

CONSTANTS c1, c2, c3

CrdOfControllers == [c \in {c1, c2, c3} |-> IF c = c3 THEN c2 ELSE c]
===============================================================================
