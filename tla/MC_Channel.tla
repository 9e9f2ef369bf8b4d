----------------------------- MODULE MC_Channel -----------------------------
(* Model-checking instance of Channel: two connections, three items in    *)
(* two-slot inventories.                                                   *)
EXTENDS Channel

CONSTANTS c1, c2, i1, i2, i3

\* c1 holds i1 and i2, c2 holds i3 in slot 1 with slot 0 free.
MCInitInv == (c1 :> (0 :> i1 @@ 1 :> i2)) @@ (c2 :> (0 :> NoItem @@ 1 :> i3))
=============================================================================
