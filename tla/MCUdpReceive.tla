----------------------------- MODULE MCUdpReceive ------------------------------
(* UdpReceive for TLC: all objects of a kind are alike.                       *)
EXTENDS UdpReceive, TLC

Symmetry ==
  Permutations(Sessions) \cup Permutations(Nicknames) \cup Permutations(Endpoints)
    \cup Permutations(Shards)
================================================================================
