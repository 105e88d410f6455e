-------------------------- MODULE MCBlockPipeline --------------------------
(***************************************************************************)
(* BlockPipeline on a chain g <- b1 <- b2 and, where Wide is used, on a    *)
(* block with two parents: g <- b1, g <- b2, {b1, b2} <- b3.               *)
(***************************************************************************)
EXTENDS BlockPipeline, TLC

CONSTANTS g, b1, b2, b3

Chain == {g, b1, b2}
ChainParents == (g :> {}) @@ (b1 :> {g}) @@ (b2 :> {b1})
Wide == {g, b1, b2, b3}
WideParents == (g :> {}) @@ (b1 :> {g}) @@ (b2 :> {g}) @@ (b3 :> {b1, b2})

\* Sound blocks; the header of b3 may come early, and b1 is also sent with
\* transactions that are not its own.
Sound == [b \in Block |-> "none"]
Early == [b \in Block |-> IF b = b3 THEN "transient" ELSE "none"]
SoundOffers == {<<b1, "full">>, <<b2, "full">>, <<b3, "full">>, <<b1, "malleated">>}

\* Faults in the body of b1 and the header of b2, header-only and trusted tasks.
FaultyHeaders == [b \in Block |-> IF b = b2 THEN "post_pow" ELSE "none"]
FaultyBodies == [b \in Block |-> IF b = b1 THEN "context" ELSE "none"]
FaultyOffers == {<<b1, "full">>, <<b2, "full">>, <<b1, "header">>, <<b2, "trusted">>}
=============================================================================
