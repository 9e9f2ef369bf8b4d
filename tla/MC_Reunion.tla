----------------------------- MODULE MC_Reunion -----------------------------
(* One client with a mitama demon and a mitama in the COMP, and a second   *)
(* mitama and a plain demon in the depo; two slots per box.                *)
EXTENDS Reunion, TLC

CONSTANTS da, m1, m2, pd

MCKind == (da :> "mitamad") @@ (m1 :> "mitama") @@ (m2 :> "mitama") @@ (pd :> "plain")
MCInitBox == ("comp" :> (0 :> da @@ 1 :> m1)) @@ ("depo" :> (0 :> m2 @@ 1 :> pd))

\* Reunion indices at and beyond both ends of [0, 12).
MCIdxInput == {-1, 0, 11, 12}
=============================================================================
