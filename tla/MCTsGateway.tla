----------------------------- MODULE MCTsGateway -----------------------------
(* Instances of TsGateway for TLC.  Request ids are interchangeable.       *)
EXTENDS TsGateway, TLC

OfferSymmetry == Permutations(OfferIds)
=============================================================================
