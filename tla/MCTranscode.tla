---------------------------- MODULE MCTranscode -----------------------------
(* Every entry has the same title, and so the same output file.              *)
EXTENDS Transcode

MCSameTitle == [m \in Media |-> "same"]
=============================================================================
