----------------------------- MODULE BidStorage -----------------------------
(***************************************************************************)
(* The bids table (services/BidStorageService.ts) and its timestamps.      *)
(*                                                                         *)
(* created_at is written by SQLite as "YYYY-MM-DD HH:MM:SS" and compared,  *)
(* as text, with instants written by toISOString as                        *)
(* "YYYY-MM-DDTHH:MM:SS.mmmZ". On different days the date decides; on the  *)
(* same day the eleventh character does, and a blank is less than a "T",   *)
(* whatever the time of day. Time is counted in ticks, TicksPerDay of them *)
(* a day.                                                                  *)
(***************************************************************************)
EXTENDS Naturals, FiniteSets

CONSTANTS
    Commitments,  \* commitments of the orders bid for
    TicksPerDay,
    MaxAge,       \* the age given to getExpiredUnretractedBids, in ticks
    MaxRows,      \* bound: rows stored
    Horizon       \* bound: the last instant

ASSUME StorageAssumption ==
    /\ TicksPerDay \in Nat \ {0}
    /\ MaxAge \in Nat
    /\ MaxRows \in Nat
    /\ Horizon \in Nat

VARIABLES
    now,    \* the clock
    rows    \* the table

vars == <<now, rows>>

Init == now = MaxAge /\ rows = {}

Day(t) == t \div TicksPerDay

(* Fault: the comparison of the dates alone, without the rest of the text. *)
DateBefore(created, t) == Day(created) < Day(t)

(* created_at < t, as SQLite compares them. *)
TextBefore(created, t) == Day(created) <= Day(t)

(* INSERT with the default timestamp. *)
StoreBid(c, success) ==
    /\ Cardinality(rows) < MaxRows
    /\ rows' = rows \cup
        {[id |-> Cardinality(rows), commitment |-> c, success |-> success,
          createdAt |-> now, retracted |-> FALSE, retractedAt |-> 0]}
    /\ UNCHANGED now

(* Faults: without AND retracted = 0; only the row stored last; the instant   *)
(* in the time of a zone a day behind.                                        *)
MarkAgain(c) ==
    /\ rows' = {IF r.commitment = c
                THEN [r EXCEPT !.retracted = TRUE, !.retractedAt = now] ELSE r : r \in rows}
    /\ UNCHANGED now

MarkLastRow(c) ==
    /\ rows' = {IF r.commitment = c /\ ~r.retracted
                    /\ \A q \in rows : q.commitment = c => q.id <= r.id
                THEN [r EXCEPT !.retracted = TRUE, !.retractedAt = now] ELSE r : r \in rows}
    /\ UNCHANGED now

MarkLocalTime(c) ==
    /\ rows' = {IF r.commitment = c /\ ~r.retracted
                THEN [r EXCEPT !.retracted = TRUE, !.retractedAt = now - TicksPerDay]
                ELSE r : r \in rows}
    /\ UNCHANGED now

(* UPDATE ... WHERE commitment = ? AND retracted = 0. *)
MarkBidAsRetracted(c) ==
    /\ rows' = {IF r.commitment = c /\ ~r.retracted
                THEN [r EXCEPT !.retracted = TRUE, !.retractedAt = now] ELSE r : r \in rows}
    /\ UNCHANGED now

(* ORDER BY created_at DESC LIMIT 1: which of the rows stored last within one *)
(* tick is returned is up to SQLite.                                          *)
BidsByCommitment(c) ==
    {r \in rows : /\ r.commitment = c
                  /\ \A q \in rows : q.commitment = c => q.createdAt <= r.createdAt}

UnretractedSuccessfulBids == {r \in rows : r.success /\ ~r.retracted}

(* Date.now() - maxAgeMs, and the rows whose created_at is less than it. *)
ExpiredUnretractedBids ==
    {r \in UnretractedSuccessfulBids : TextBefore(r.createdAt, now - MaxAge)}

Tick == now < Horizon /\ now' = now + 1 /\ UNCHANGED rows

Next ==
    \/ Tick
    \/ \E c \in Commitments :
        \/ \E success \in BOOLEAN : StoreBid(c, success)
        \/ MarkBidAsRetracted(c)

Spec == Init /\ [][Next]_vars

-----------------------------------------------------------------------------
TypeOK ==
    /\ now \in Nat
    /\ rows \subseteq [id : Nat, commitment : Commitments, success : BOOLEAN,
                       createdAt : Nat, retracted : BOOLEAN, retractedAt : Nat]

(* No stale bid escapes the sweep: whatever day it was stored on, an          *)
(* unretracted successful bid older than the age is found.                    *)
StaleBidsAreFound ==
    \A r \in UnretractedSuccessfulBids :
        now - r.createdAt > MaxAge => r \in ExpiredUnretractedBids

(* The table never reports a commitment as retracted while the sweep still    *)
(* has a row of it to recover, unless that row is another bid stored since.   *)
RetractedReportedOnce ==
    \A c \in Commitments : \A r \in BidsByCommitment(c) :
        r.retracted => \A q \in UnretractedSuccessfulBids :
            q.commitment = c => q.id > r.id /\ q.createdAt = r.createdAt

(* The first retraction of a row is the one on record: marking a commitment   *)
(* again, for a row stored later, does not rewrite it.                        *)
RetractionIsFinal ==
    [][\A r \in rows : r.retracted => r \in rows']_vars
=============================================================================
