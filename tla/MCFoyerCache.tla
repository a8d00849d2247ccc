--------------------------- MODULE MCFoyerCache ---------------------------
(***************************************************************************)
(* Small instances of FoyerCache.  The block size is 2 everywhere, the     *)
(* least at which a block can come back short or a read can start inside   *)
(* one.                                                                    *)
(***************************************************************************)
EXTENDS FoyerCache, TLC

CONSTANTS r1, r2

Req(off, len) == [idx |-> 0, off |-> off, len |-> len]

\* A read across a block boundary, and an empty one, which only reads ahead and so
\* keeps going whatever the permits do.
MCLive == (r1 :> {Req(1, 2)}) @@ (r2 :> {Req(0, 0)})

\* A read that starts inside a block and spans two fetch groups, from the second block
\* of one to the only one of the other, and a read of the block it starts in.
MCDual == (r1 :> {Req(3, 3)}) @@ (r2 :> {Req(3, 1)})
=============================================================================
