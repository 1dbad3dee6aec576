------------------------------- MODULE MCCapTable -------------------------------
(* An instance of CapTable for TLC: one holder of the company, one of another,  *)
(* two movements and two reads.                                                 *)
EXTENDS CapTable, TLC

CONSTANTS acme, beta, ann, xan

MCCompanyOf == ann :> acme @@ xan :> beta
MCAuthorizedCapital == acme :> 3 @@ beta :> 0
MCParValue == acme :> 1 @@ beta :> 1

===============================================================================
