------------------------- MODULE MCFillerSituations -------------------------
(***************************************************************************)
(* Two situations of the filler for one run of TLC. Each bounds what the   *)
(* environment does, and neither limits what the filler does:              *)
(*   "bidding": an order that is bid for, found again after each of two    *)
(*     crashes; no strategy that prices it, as in the repository;          *)
(*   "filling": an order that is filled directly beside one on a watched   *)
(*     chain, which would be bid for; the strategy may price them and then *)
(*     wants confirmations; one crash, and the operator may stop.          *)
(***************************************************************************)
EXTENDS IntentFiller

VARIABLE situation

BidFillAndWatched == {"bid", "fill", "watched"}
ToEach == [o \in Orders |-> o]
Selecting == {"bid", "watched"}
Watched == {"watched"}
AStrategy == {"strategy"}

SituationInit == Init /\ situation \in {"bidding", "filling"}

Bidding ==
    /\ detected' \subseteq {"bid"} /\ phase' # "draining"
    /\ \A o \in Orders : conf'[o] # "waiting"

Filling == detected' \subseteq {"fill", "watched"} /\ crashes' <= 1

SituationNext ==
    /\ Next
    /\ situation = "bidding" => Bidding
    /\ situation = "filling" => Filling
    /\ UNCHANGED situation

SituationSpec == SituationInit /\ [][SituationNext]_<<vars, situation>> /\ Fairness
=============================================================================
