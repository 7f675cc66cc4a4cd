---------------------------- MODULE MCTBInvalidate ----------------------------
(***************************************************************************)
(* Instance of TBInvalidate for TLC: pages of four halfwords, three Thumb  *)
(* instructions in a row.  The first one crosses from page 0 into page 1,  *)
(* the second is a conditional branch whose two exits lead to the same     *)
(* place, the third one crosses into page 2 and branches to itself.        *)
(***************************************************************************)
EXTENDS TBInvalidate, TLC

T(pc) == [pc |-> pc, flags |-> "thumb"]

MCKeys == {T(3), T(5), T(7)}
MCKind == (T(3) :> "neon") @@ (T(5) :> "bcond") @@ (T(7) :> "bcond")
MCBranchDest == (T(5) :> T(7)) @@ (T(7) :> T(7))
MCThumbFlags == {"thumb"}
MCRanges == {<<3, 5>>, <<8, 9>>}
==============================================================================
