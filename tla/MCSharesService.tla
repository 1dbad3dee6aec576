---------------------------- MODULE MCSharesService ----------------------------
(* Instances of SharesService for TLC: two companies, three shareholders, and  *)
(* requests that each make one of a few chosen calls.                          *)
EXTENDS SharesService, TLC

CONSTANTS acme, beta, ann, bob, xan, r1, r2, r3, r4

MCCompanies == {acme, beta}
MCShareholders == {ann, bob, xan}
MCCompanyOf == ann :> acme @@ bob :> acme @@ xan :> beta

\* acme may issue two and a half shares: the limit is not a whole number.
MCAuthorizedCapital == acme :> 5 @@ beta :> 2
MCParValue == acme :> 2 @@ beta :> 1

Issue(c, h, n) ==
    [op |-> "issue", company |-> c, from |-> Nil, to |-> h, shares |-> n]
Transfer(c, f, t, n) ==
    [op |-> "transfer", company |-> c, from |-> f, to |-> t, shares |-> n]

\* Two issues that only fit one after the other, transfers between the two
\* holders of acme in both directions, and movements to a holder of beta.
MCCalls ==
    {Issue(acme, ann, 1), Issue(acme, ann, 2), Issue(acme, xan, 1),
     Transfer(acme, ann, bob, 1), Transfer(acme, bob, ann, 1),
     Transfer(acme, ann, xan, 2)}

\* The runs start from two states Spec reaches, acme being active and beta
\* archived.  In one, the ledger is empty and one request was refused before:
\* the other three are to come.  In the other, two issues of one share to ann
\* have committed and two requests are to come.  Three calls are enough for a
\* transfer overtaken by a receipt and a second transfer; two rows and two
\* transfers for a cycle of lock waits.
MCStatus == acme :> "ACTIVE" @@ beta :> "ARCHIVED"

EmptyLedger ==
    /\ status = MCStatus
    /\ rows = {} /\ audited = {} /\ overtaken = {}
    /\ received = [k \in Keys |-> 0]
    /\ sent = [k \in Keys |-> 0]
    /\ issued = [c \in Companies |-> 0]
    /\ certificate = [r \in Requests |-> Nil]
    /\ pc = [r \in Requests |-> IF r = r4 THEN "refused" ELSE "start"]
    /\ arg = [r \in Requests |-> Nil]
    /\ scan = [r \in Requests |-> {}]
    /\ held = [r \in Requests |-> {}]
    /\ seen = [r \in Requests |-> 0]

TwoIssues ==
    /\ status = MCStatus
    /\ rows = {r3, r4} /\ audited = {r3, r4} /\ overtaken = {}
    /\ received = [k \in Keys |-> IF k = <<acme, ann>> THEN 2 ELSE 0]
    /\ sent = [k \in Keys |-> 0]
    /\ issued = [c \in Companies |-> IF c = acme THEN 2 ELSE 0]
    /\ certificate = [r \in Requests |-> CASE r = r3 -> 1 [] r = r4 -> 2
                                            [] OTHER -> Nil]
    /\ pc = [r \in Requests |-> IF r \in rows THEN "committed" ELSE "start"]
    /\ arg = [r \in Requests |-> IF r \in rows THEN Issue(acme, ann, 1) ELSE Nil]
    /\ scan = [r \in Requests |-> {}]
    /\ held = [r \in Requests |-> {}]
    /\ seen = [r \in Requests |-> 0]

MCSpec == (EmptyLedger \/ TwoIssues) /\ [][Next]_vars /\ Fairness

===============================================================================
