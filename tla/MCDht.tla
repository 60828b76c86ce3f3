-------------------------------- MODULE MCDht ---------------------------------
(***************************************************************************)
(* Three bits; two hosts in the bucket of the far half, which holds one,     *)
(* and one host nearer by.  One of them tells of us, too.                   *)
(***************************************************************************)
EXTENDS Dht

Bin(a, b, c) == <<a, b, c>>
MCOwn == Bin(0, 0, 0)
MCInfoHash == Bin(1, 0, 1)
MCHost == {"me", "a", "b", "c"}
MCNames == [h \in MCHost |->
  CASE h = "me" -> {MCOwn}
    [] h = "a" -> {Bin(1, 0, 0)}
    [] h = "b" -> {Bin(1, 1, 0)}
    [] h = "c" -> {Bin(0, 1, 0)}]
MCId == UNION {MCNames[h] : h \in MCHost}
MCKnows == [h \in MCHost |->
  CASE h = "me" -> {}
    [] h = "a" -> {[id |-> Bin(1, 1, 0), at |-> "b"], [id |-> Bin(0, 1, 0), at |-> "c"]}
    [] h = "b" -> {[id |-> Bin(1, 0, 0), at |-> "a"]}
    [] h = "c" -> {[id |-> MCOwn, at |-> "me"], [id |-> Bin(1, 0, 0), at |-> "a"]}]
MCRounds == [l \in Gets \cup Finds |-> IF l = "get" THEN 2 ELSE 1]
==============================================================================
