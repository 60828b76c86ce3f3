------------------------------ MODULE MCLibrary ------------------------------
(* Three worlds of two films: two episodes of a show in one folder, a film   *)
(* and a smaller extra in one folder, and two films of the same file name in *)
(* two folders, one of which is the torrent's.                               *)
EXTENDS Library

Episodes ==
  [show |-> [f \in Film |-> 7], folder |-> [f \in Film |-> "A"],
   stem |-> [f \in Film |-> <<"source", f>>]]

Extras ==
  [show |-> [f \in Film |-> NoShow], folder |-> [f \in Film |-> "A"],
   stem |-> [f \in Film |-> <<"source", f>>]]

Namesakes ==
  [show |-> [f \in Film |-> NoShow],
   folder |-> [f \in Film |-> IF f = 1 THEN "A" ELSE "B"],
   stem |-> [f \in Film |-> <<"source", 1>>]]

MCLayouts == {Episodes, Extras, Namesakes}
MCSlot == {1, 2}
=============================================================================
