---------------------------- MODULE MCRadioSlot ----------------------------
(* Frames for TLC: transmit frames are (key, number) pairs, received frames *)
(* are numbers.                                                             *)
EXTENDS RadioSlotSpec

MCTxFrames == [key : Keys, n : 1..MaxTx]
MCRxFrames == 1..MaxRx
=============================================================================
