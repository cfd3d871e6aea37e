------------------------------- MODULE PttMC -------------------------------
(* Model-checking instances of Ptt: the symmetry of the stream ids. *)
EXTENDS Ptt, TLC

StreamSymmetry == Permutations(RxStreams) \cup Permutations(TxStreams)
=============================================================================
