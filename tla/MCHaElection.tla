---------------------------- MODULE MCHaElection ----------------------------
(* Finite values for the constants of HaElection. *)
EXTENDS HaElection, TLC

\* The out-of-the-box pair: equal priorities, the address decides.
MCEqual == 1 :> 100 @@ 2 :> 100

\* Node 1 is the address owner and starts as Master.
MCOwner == 1 :> 255 @@ 2 :> 100
=============================================================================
