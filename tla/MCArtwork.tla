------------------------------ MODULE MCArtwork -------------------------------
(***************************************************************************)
(* Artwork on one upload that the lines of two orders carry: both carts    *)
(* were prepared before either was paid for.                               *)
(***************************************************************************)
EXTENDS Artwork, TLC

CONSTANTS up, oA, oB, lA, lB, checked, swapped, broken, h1, h2, job, i1, i2

OneUpload     == {up}
TwoOrders     == {oA, oB}
TwoLines      == {lA, lB}
OnePerOrder   == (lA :> oA) @@ (lB :> oB)
SameUpload    == [l \in Lines |-> up]
TwoFiles      == {checked, swapped}
OneFile       == {checked}
AnyFile       == {checked, swapped, broken}
TwoHandlers   == {h1, h2}
OneHandler    == {h1}
TwoInspectors == {i1, i2}
OneInspector  == {i1}
OneJob        == {job}

\* Handlers, inspectors and printable files are alike, and so are the two
\* orders with their lines: the swap maps OrderOf and UploadOf to themselves.
SwapOrders == (oA :> oB) @@ (oB :> oA) @@ (lA :> lB) @@ (lB :> lA)
Alike == Permutations(TwoHandlers) \cup Permutations(TwoInspectors)
         \cup Permutations(TwoFiles) \cup {SwapOrders}
=============================================================================
