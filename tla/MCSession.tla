----------------------------- MODULE MCSession ------------------------------
(* Two peers and two pieces, the second one short; a peer has the first      *)
(* piece or both.                                                            *)
EXTENDS Session, TLC

MCNumBlocks == [i \in Piece |-> IF i = 1 THEN PieceBlocks ELSE 1]
MCAnnounced == {{1}, Piece}
Symmetry == Permutations(Peer)
=============================================================================
