---------------------------- MODULE MCRustGateway ----------------------------
(* Instances of RustGateway for TLC.  Connections are interchangeable when *)
(* Talkers is all or none of them; calls of close() and ids always are.    *)
EXTENDS RustGateway, TLC

DrainSymmetry == Permutations(Conns) \cup Permutations(Closers)
OfferSymmetry == Permutations(OfferIds)
=============================================================================
