----------------------------- MODULE MCBackpack -----------------------------
EXTENDS Backpack

CONSTANTS potion, sword

StackOfThree == (potion :> 3) @@ (sword :> 1)
BoundByUse == (potion :> "USE_TO_BIND") @@ (sword :> "DEFAULT_BIND")
SmallPacks == ("NORMAL" :> 2) @@ ("BANK" :> 3)
PlaceOf == (potion :> 0) @@ (sword :> 1)
=============================================================================
