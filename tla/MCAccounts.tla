----------------------------- MODULE MCAccounts -----------------------------
(* Instances of Accounts for TLC.                                          *)
EXTENDS Accounts, TLC

OneByOne(provider, ops, mailed, issues) ==
  [provider |-> provider, ops |-> ops, overlap |-> FALSE, faults |-> FALSE,
   honest |-> FALSE, mails |-> mailed, issues |-> issues]

Overlapping(provider, ops, mailed, issues) ==
  [OneByOne(provider, ops, mailed, issues) EXCEPT !.overlap = TRUE]

Failing(w) == [w EXCEPT !.faults = TRUE]

Honest(w) == [w EXCEPT !.honest = TRUE]

Mail == {"send", "verify"}

Session == {"login", "refresh"}

\* Codes one by one, and at once with resets; a whole sign-up; a reset that ends
\* sessions; sessions with tokens presented again, which ends sessions too; devices
\* that behave; one-time codes of an account that is deactivated and reactivated,
\* and of one that devices that behave sign in to.
Users ==
  { OneByOne("LOCAL", Mail, 3, 0),
    Overlapping("LOCAL", Mail, 2, 0),
    Overlapping("LOCAL", Mail \union {"reset"}, 1, 0),
    OneByOne("NONE", Mail \union {"signup", "oauth"}, 2, 1),
    OneByOne("LOCAL", Mail \union Session \union {"reset"}, 1, 3),
    Failing(OneByOne("LOCAL", Session, 0, 5)),
    Failing(Overlapping("LOCAL", Session, 0, 3)),
    Overlapping("LOCAL", Session, 0, 4),
    Honest(Overlapping("LOCAL", Session, 0, 5)),
    Failing(Overlapping("OAUTH", {"oauth", "exchange", "reactivate", "deactivate", "profile"}, 0, 3)),
    Overlapping("NONE", {"oauth", "exchange", "refresh"}, 0, 3),
    Honest(Overlapping("OAUTH", {"oauth", "exchange", "refresh"}, 0, 4)) }

ClientSymmetry == Permutations(Clients)
=============================================================================
