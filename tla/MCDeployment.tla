------------------------------- MODULE MCDeployment -------------------------------
(* An instance of Deployment for TLC: two runs of the seed, the owner of the    *)
(* seed's active company who registers, so that the seed skips the company and  *)
(* with it the extra members, and two companies that the application founds.    *)
EXTENDS Deployment

MCRegistrations == {Spelled("owner.active")}

\* One takes the registration number of the seed's active company, the other a
\* name of the seed, its founder being a person of the seed who typed the e-mail
\* with capitals.
MCFoundings ==
    {[reg |-> ACTIVE, name |-> OtherCompany, email |-> Spelled("other"),
      by |-> "onboardCompany"],
     [reg |-> OtherCompany, name |-> "Delta", email |-> <<"tenant.admin", "typed">>,
      by |-> "createCompanyWithAdmin"]}

\* A suspended company is reactivated.
MCSupervised == {<<"REG-SUSPENDED", "ACTIVE">>}

===============================================================================
