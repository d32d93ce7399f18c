-------------------------- MODULE MCCheckpointRunner --------------------------
EXTENDS CheckpointRunner

CONSTANTS own, other, s1, s2

ItemsDef == {own, other}
SkusDef == {s1, s2}
OwnListingsDef == <<own>>
ShownDef == {{}, {s1, s2}}

(* An item with and without an id, an own listing found without one, and   *)
(* one item at two ranks of which one has no id.                           *)
ResultsDef == {<<NoItem, other>>, <<own, NoItem>>}
=============================================================================
