------------------------- MODULE MCLogisticsHandoff -------------------------
(* A small instance of the handoff, the shipping results and the sync of   *)
(* shipping facts for TLC: completing events 1..MaxEvents.                 *)
EXTENDS ShippingRecords, TLC

CONSTANTS MaxEvents,    \* bound on the completing submits of a document
          HandedOver    \* the documents that are completed; the parcels of
                        \* others are known from facts only

MCNext ==
  \/ RecordsNext
  \/ \E d \in HandedOver, ev \in 1..MaxEvents : handoff[d].ev < ev /\ Complete(d, ev)

MCSpec == AllInit /\ [][MCNext]_allVars

Alike == Permutations(FactSyncs)
=============================================================================
