------------------------------ MODULE MCPayload -------------------------------
(* Two pieces of three blocks, the last one short by a byte, over one file,   *)
(* over files that cut pieces and blocks, and over empty files; wrong blocks  *)
(* in place, across two blocks, past the end and beyond the last block.       *)
EXTENDS Payload

MCIndex == 0 .. NumBlocks
MCLayouts == <<<<11>>, <<3, 0, 8>>, <<7, 1, 3>>>>
MCBadBlocks == {<<0, 2>>, <<1, 2>>, <<4, 2>>, <<6, 2>>}
=============================================================================
