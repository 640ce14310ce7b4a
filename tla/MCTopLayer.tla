----------------------------- MODULE MCTopLayer -----------------------------
(* A popover with another inside it, and a dialog beside them.             *)
EXTENDS TopLayer, TLC

CONSTANTS menu, submenu, box

MCInside == {<<submenu, menu>>}
MCKinds == menu :> {"auto", "hint", "none"} @@ submenu :> {"auto", "manual", "none"}
MCClosedBy == box :> "any"
=============================================================================
