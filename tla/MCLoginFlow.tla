------------------------------ MODULE MCLoginFlow -------------------------------
(* LoginFlow for TLC: sessions, nicknames and threads are interchangeable. *)
EXTENDS LoginFlow, TLC

Symmetry == Permutations(Sessions) \cup Permutations(Nicknames) \cup Permutations(Threads)
================================================================================
