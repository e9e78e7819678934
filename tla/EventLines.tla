----------------------------- MODULE EventLines -----------------------------
(***************************************************************************)
(* Quantities on the lines of wms_events: what an event moves on a line of *)
(* its document and on a lot, and sums of these over the events, as the    *)
(* progress queries of the inbound and the outbound side make them.        *)
(***************************************************************************)
EXTENDS Sums

(* pay: the lines of an event, a sequence of [line, lot, qty] in base      *)
(* units; N: some of their places.                                         *)
SumParts(pay, N) == SumOf([n \in N |-> pay[n].qty], N)

OfLine(pay, ln) == SumParts(pay, {n \in DOMAIN pay : pay[n].line = ln})
OfLot(pay, l)   == SumParts(pay, {n \in DOMAIN pay : pay[n].lot = l})

LotsIn(pay) == {pay[n].lot : n \in DOMAIN pay}

(* evs: events by number or id; N: some of them.                           *)
LineTotal(evs, N, ln) == SumOf([n \in N |-> OfLine(evs[n].pay, ln)], N)
LotTotal(evs, N, l)   == SumOf([n \in N |-> OfLot(evs[n].pay, l)], N)
=============================================================================
