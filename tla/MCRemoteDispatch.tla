-------------------------- MODULE MCRemoteDispatch --------------------------
(* Instances of RemoteDispatch for TLC. *)
EXTENDS RemoteDispatch, TLC

CONSTANTS t1, n1

Single == t1 :> {}

AllFit == Node \X Task

RemoteSymmetry ==
  Permutations(LeaseId) \cup Permutations(DispatchId) \cup Permutations(Caller)
    \cup Permutations(Key)
=============================================================================
