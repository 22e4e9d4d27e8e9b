-------------------------- MODULE MCOrderExecution --------------------------
(* Instance of OrderExecution: two operations that fill a part each and one   *)
(* that fills what is asked for.                                              *)
EXTENDS OrderExecution, TLC

CONSTANTS o1, o2, o3

MCOffer == o1 :> 1 @@ o2 :> 2 @@ o3 :> 3
=============================================================================
