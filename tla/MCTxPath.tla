------------------------------ MODULE MCTxPath ------------------------------
(* Frames for TLC. *)
EXTENDS TxPath

MCTxFrames == [key : Packets, kind : Kinds]
MCRxFrames == [key : Packets, kind : {"copy", "repeat", "reply"}]
MCKeys == Packets
=============================================================================
