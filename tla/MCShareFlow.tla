---------------------------- MODULE MCShareFlow ----------------------------
(* ShareFlow for TLC: shares and job ids are interchangeable.              *)
EXTENDS ShareFlow, TLC

FlowSymmetry == Permutations(Shares) \cup Permutations(JobIds)
=============================================================================
