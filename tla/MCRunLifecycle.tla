--------------------------- MODULE MCRunLifecycle ---------------------------
(* Instances of RunLifecycle for TLC. *)
EXTENDS RunLifecycle, TLC

(* Ids of one kind are interchangeable; used by the safety runs only.      *)
IdSymmetry ==
    Permutations(Runs) \cup Permutations(Streams)
        \cup Permutations(Calls) \cup Permutations(Requests)
=============================================================================
