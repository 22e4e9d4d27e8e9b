--------------------------- MODULE MCRebalancing ---------------------------
(* Instance of Rebalancing: Ethereum, BNB Chain (only reached over the        *)
(* exchange) and Polygon, two units of account to the cent.                   *)
EXTENDS Rebalancing, TLC

MCChainIds == <<1, 56, 137>>

Of(usdc, usdt) ==
    [p \in Pairs |-> IF p[2] = "USDC" THEN usdc[p[1]] ELSE usdt[p[1]]]

MCBase == Of(<<4, 4, 4>>, <<4, 4, 4>>)

(* USDC has fallen on two chains; or USDC and USDT on one each.               *)
MCStarts == {Of(<<1, 1, 10>>, <<4, 4, 4>>), Of(<<7, 1, 7>>, <<2, 4, 6>>)}

MCOrders == {<<3, 1, "USDC">>, <<1, 2, "USDC">>}
=============================================================================
