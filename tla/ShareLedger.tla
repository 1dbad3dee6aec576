------------------------------ MODULE ShareLedger ------------------------------
(* What the share ledger promises: an issue and a transfer are each one        *)
(* indivisible step, checked against the ledger as it stands at that step.     *)
(* SharesService is shown to implement it as long as no movement commits on a  *)
(* check it made without protection.                                           *)
EXTENDS Integers

CONSTANTS Companies, Shareholders, CompanyOf, AuthorizedCapital, ParValue,
          Amounts   \* the numbers of shares a movement may have

VARIABLES received, sent, issued

Accounts == Companies \X Shareholders

Init ==
    /\ received = [k \in Accounts |-> 0]
    /\ sent = [k \in Accounts |-> 0]
    /\ issued = [c \in Companies |-> 0]

\* Shares are issued to a shareholder of the company, within its capital.
Issue(c, h, n) ==
    /\ CompanyOf[h] = c
    /\ (issued[c] + n) * ParValue[c] <= AuthorizedCapital[c]
    /\ received' = [received EXCEPT ![<<c, h>>] = @ + n]
    /\ issued' = [issued EXCEPT ![c] = @ + n]
    /\ UNCHANGED sent

\* A shareholder transfers shares it has.
Transfer(c, f, h, n) ==
    /\ received[<<c, f>>] - sent[<<c, f>>] >= n
    /\ sent' = [sent EXCEPT ![<<c, f>>] = @ + n]
    /\ received' = [received EXCEPT ![<<c, h>>] = @ + n]
    /\ UNCHANGED issued

Next ==
    \E c \in Companies, h \in Shareholders, n \in Amounts :
        \/ Issue(c, h, n)
        \/ \E f \in Shareholders : Transfer(c, f, h, n)

Spec == Init /\ [][Next]_<<received, sent, issued>>
===============================================================================
