--------------------------- MODULE MCIntentFiller ---------------------------
(* Instances of IntentFiller for model checking. *)
EXTENDS IntentFiller

(* Orders and chains are strings so that Dest can be given by their names. *)
OneOrder == {"a"}
TwoOrders == {"a", "b"}
OneChain == {"x"}
AllToX == [o \in Orders |-> "x"]
None == {}

(* The strategies of bin/simplex.ts: BasicFiller has a confirmation policy,   *)
(* FXFiller has none; neither has getOrderUsdValue.                           *)
RepositoryStrategies == {"basic", "hyperfx"}
WithPolicy == {"basic"}
=============================================================================
