----------------------------- MODULE EmailCodes -----------------------------
(***************************************************************************)
(* One-time codes mailed to one address, to sign up or to reset a          *)
(* password.  Every step is one call to Redis:                             *)
(*                                                                         *)
(*   send    exists cooldown, get limit, mail, del attempts, set otp,      *)
(*           set cooldown, incr limit, expire limit if it is 1             *)
(*   verify  get otp, get attempts, then                                   *)
(*             wrong: incr attempts, expire attempts if it is 1            *)
(*             right: del otp, del attempts, set verified                  *)
(***************************************************************************)
EXTENDS AccountRequests

CONSTANTS
  MaxAttempts,  \* OTP_MAX_VERIFY_ATTEMPTS
  RateMax,      \* OTP_RATE_LIMIT_MAX
  MaxMails      \* bound: codes mailed in any workload

ASSUME EmailAssumption ==
  /\ MaxAttempts \in Nat /\ RateMax \in Nat /\ MaxMails \in Nat
  /\ \A w \in Workloads : w.mails <= MaxMails

Purposes == {"SIGNUP", "PASSWORD_RESET"}

VARIABLES
  otp,        \* the code stored for each purpose, by the number of its mail, or 0
  cooldown,   \* the purposes whose cooldown flag is set
  limit,      \* the counter of codes mailed in the last hour
  attempts,   \* the counter of wrong codes
  verified,   \* the purposes whose verified flag is set
  mails,      \* codes mailed so far
  history     \* for the properties only, see History

emailVars == <<otp, cooldown, limit, attempts, verified, mails, history>>

\* A counter in Redis: its value (0: no key), whether EXPIRE has been called,
\* and, of attempts, whether that was before the stored code was set.
NoCounter == [count |-> 0, expires |-> FALSE, older |-> FALSE]

Incremented(counter) == [counter EXCEPT !.count = @ + 1]

\* inWindow: mails since the limit last expired; wrong: wrong codes compared
\* with the stored code; budgets: times the attempts started from 0 meanwhile;
\* passed: right codes entered.
History == [inWindow : Nat, wrong : Nat, budgets : Nat, passed : Nat]

NewHistory == [inWindow |-> 0, wrong |-> 0, budgets |-> 1, passed |-> 0]

EmailTypes ==
  /\ otp \in [Purposes -> 0..MaxMails]
  /\ cooldown \in SUBSET Purposes
  /\ limit \in [Purposes -> [count : Nat, expires : BOOLEAN, older : BOOLEAN]]
  /\ attempts \in [Purposes -> [count : Nat, expires : BOOLEAN, older : BOOLEAN]]
  /\ verified \in SUBSET Purposes
  /\ mails \in 0..MaxMails
  /\ history \in [Purposes -> History]

EmailInit ==
  /\ otp = [p \in Purposes |-> 0]
  /\ cooldown = {}
  /\ limit = [p \in Purposes |-> NoCounter]
  /\ attempts = [p \in Purposes |-> NoCounter]
  /\ verified = {}
  /\ mails = 0
  /\ history = [p \in Purposes |-> NewHistory]

EmailRequests ==
  [pc : {"cooldown", "limit", "mail", "count", "window",
         "load", "countWrong", "wrongWindow", "clearCode", "clearTries", "flag"},
   purpose : Purposes]
  \union [pc : {"forget", "store", "cool", "tries"},
          purpose : Purposes, code : 1..MaxMails]

Step(pc, p) == [pc |-> pc, purpose |-> p]

CodeStep(pc, p, c) == [pc |-> pc, purpose |-> p, code |-> c]

-----------------------------------------------------------------------------
(* AuthService.sendEmailOtp                                                *)

SendStart(k, p) ==
  /\ MayStart(k, "send")
  /\ IF p = "SIGNUP" THEN ~Exists ELSE ResetEligible
  /\ Goto(k, Step("cooldown", p))
  /\ UNCHANGED emailVars

SendCooldown(k) ==
  /\ At(k, "cooldown")
  /\ IF request[k].purpose \in cooldown THEN Done(k)
     ELSE Goto(k, Step("limit", request[k].purpose))
  /\ UNCHANGED emailVars

\* Mutation: the limit is one too high.
SendLimit_OneMore(k) ==
  /\ At(k, "limit")
  /\ IF limit[request[k].purpose].count > RateMax THEN Done(k)
     ELSE Goto(k, Step("mail", request[k].purpose))
  /\ UNCHANGED emailVars

SendLimit(k) ==
  /\ At(k, "limit")
  /\ IF limit[request[k].purpose].count >= RateMax THEN Done(k)
     ELSE Goto(k, Step("mail", request[k].purpose))
  /\ UNCHANGED emailVars

\* A code that was mailed is taken to differ from those before.
SendMail(k) ==
  LET p == request[k].purpose
  IN  /\ At(k, "mail")
      /\ mails < workload.mails
      /\ mails' = mails + 1
      /\ history' = [history EXCEPT ![p].inWindow = @ + 1]
      /\ Goto(k, CodeStep("forget", p, mails'))
      /\ UNCHANGED <<otp, cooldown, limit, attempts, verified>>

\* DEL, or the end of the key's life.
ForgetAttempts(p) ==
  /\ attempts' = [attempts EXCEPT ![p] = NoCounter]
  /\ history' = [history EXCEPT ![p].budgets = IF otp[p] = 0 THEN @ ELSE @ + 1]

SendForget(k) ==
  /\ At(k, "forget")
  /\ ForgetAttempts(request[k].purpose)
  /\ Goto(k, [request[k] EXCEPT !.pc = "store"])
  /\ UNCHANGED <<otp, cooldown, limit, verified, mails>>

SendStore(k) ==
  LET p == request[k].purpose
  IN  /\ At(k, "store")
      /\ otp' = [otp EXCEPT ![p] = request[k].code]
      /\ attempts' = [attempts EXCEPT ![p].older = @ \/ attempts[p].expires]
      /\ history' = [history EXCEPT ![p].wrong = 0, ![p].budgets = 1]
      /\ Goto(k, [request[k] EXCEPT !.pc = "cool"])
      /\ UNCHANGED <<cooldown, limit, verified, mails>>

SendCool(k) ==
  /\ At(k, "cool")
  /\ cooldown' = cooldown \union {request[k].purpose}
  /\ Goto(k, Step("count", request[k].purpose))
  /\ UNCHANGED <<otp, limit, attempts, verified, mails, history>>

SendCount(k) ==
  LET p == request[k].purpose
  IN  /\ At(k, "count")
      /\ limit' = [limit EXCEPT ![p] = Incremented(@)]
      /\ IF limit'[p].count = 1 THEN Goto(k, Step("window", p)) ELSE Done(k)
      /\ UNCHANGED <<otp, cooldown, attempts, verified, mails, history>>

\* EXPIRE of a key that is gone does nothing.
SendWindow(k) ==
  LET p == request[k].purpose
  IN  /\ At(k, "window")
      /\ limit' = [limit EXCEPT ![p].expires = @ \/ limit[p].count > 0]
      /\ Done(k)
      /\ UNCHANGED <<otp, cooldown, attempts, verified, mails, history>>

-----------------------------------------------------------------------------
(* AuthService.verifyEmailOtp                                              *)

VerifyStart(k, p) ==
  /\ MayStart(k, "verify")
  /\ p = "PASSWORD_RESET" => ResetEligible
  /\ Goto(k, Step("load", p))
  /\ UNCHANGED emailVars

\* Mutation: a code that is not there is looked at.
VerifyLoad_Unchecked(k) ==
  LET p == request[k].purpose
  IN  /\ At(k, "load")
      /\ Goto(k, CodeStep("tries", p, otp[p]))
      /\ UNCHANGED emailVars

VerifyLoad(k) ==
  LET p == request[k].purpose
  IN  /\ At(k, "load")
      /\ IF otp[p] = 0 THEN Done(k) ELSE Goto(k, CodeStep("tries", p, otp[p]))
      /\ UNCHANGED emailVars

\* Mutation: one wrong code more is let through.
Spent_OneMore(p) == attempts[p].count > MaxAttempts

Spent(p) == attempts[p].count >= MaxAttempts

VerifyRefuse(k) ==
  /\ At(k, "tries")
  /\ Spent(request[k].purpose)
  /\ Done(k)
  /\ UNCHANGED emailVars

VerifyRight(k) ==
  LET p == request[k].purpose
  IN  /\ At(k, "tries")
      /\ ~Spent(p)
      /\ Goto(k, Step("clearCode", p))
      /\ UNCHANGED emailVars

\* A wrong code; one that was entered for a code since replaced tells nothing.
VerifyWrong(k) ==
  LET p == request[k].purpose
  IN  /\ At(k, "tries")
      /\ ~Spent(p)
      /\ history' = [history EXCEPT ![p].wrong =
                       IF request[k].code = otp[p] THEN @ + 1 ELSE @]
      /\ Goto(k, Step("countWrong", p))
      /\ UNCHANGED <<otp, cooldown, limit, attempts, verified, mails>>

VerifyCountWrong(k) ==
  LET p == request[k].purpose
  IN  /\ At(k, "countWrong")
      /\ attempts' = [attempts EXCEPT ![p] = Incremented(@)]
      /\ IF attempts'[p].count = 1 THEN Goto(k, Step("wrongWindow", p)) ELSE Done(k)
      /\ UNCHANGED <<otp, cooldown, limit, verified, mails, history>>

VerifyWrongWindow(k) ==
  LET p == request[k].purpose
  IN  /\ At(k, "wrongWindow")
      /\ attempts' = IF attempts[p].count = 0 THEN attempts
                     ELSE [attempts EXCEPT ![p].expires = TRUE, ![p].older = FALSE]
      /\ Done(k)
      /\ UNCHANGED <<otp, cooldown, limit, verified, mails, history>>

VerifyClearCode(k) ==
  /\ At(k, "clearCode")
  /\ otp' = [otp EXCEPT ![request[k].purpose] = 0]
  /\ Goto(k, Step("clearTries", request[k].purpose))
  /\ UNCHANGED <<cooldown, limit, attempts, verified, mails, history>>

VerifyClearTries(k) ==
  /\ At(k, "clearTries")
  /\ ForgetAttempts(request[k].purpose)
  /\ Goto(k, Step("flag", request[k].purpose))
  /\ UNCHANGED <<otp, cooldown, limit, verified, mails>>

VerifyFlag(k) ==
  /\ At(k, "flag")
  /\ verified' = verified \union {request[k].purpose}
  /\ history' = [history EXCEPT ![request[k].purpose].passed = @ + 1]
  /\ Done(k)
  /\ UNCHANGED <<otp, cooldown, limit, attempts, mails>>

EmailStep(k) ==
  \/ \E p \in Purposes : SendStart(k, p) \/ VerifyStart(k, p)
  \/ SendCooldown(k) \/ SendLimit(k) \/ SendMail(k) \/ SendForget(k)
  \/ SendStore(k) \/ SendCool(k) \/ SendCount(k) \/ SendWindow(k)
  \/ VerifyLoad(k) \/ VerifyRefuse(k) \/ VerifyRight(k) \/ VerifyWrong(k)
  \/ VerifyCountWrong(k) \/ VerifyWrongWindow(k)
  \/ VerifyClearCode(k) \/ VerifyClearTries(k) \/ VerifyFlag(k)

-----------------------------------------------------------------------------
(* Keys reach the end of their life                                        *)

ExpireOtp(p) ==
  /\ otp[p] # 0
  /\ otp' = [otp EXCEPT ![p] = 0]
  /\ UNCHANGED <<cooldown, limit, attempts, verified, mails, history>>

\* Both live for OTP_TTL_SECONDS, so the one set first goes first.
ExpireAttempts(p) ==
  /\ attempts[p].expires
  /\ otp[p] = 0 \/ attempts[p].older
  /\ ForgetAttempts(p)
  /\ UNCHANGED <<otp, cooldown, limit, verified, mails>>

ExpireCooldown(p) ==
  /\ p \in cooldown
  /\ cooldown' = cooldown \ {p}
  /\ UNCHANGED <<otp, limit, attempts, verified, mails, history>>

\* The window is over; mails that are not counted yet belong to the next.
ExpireLimit(p) ==
  LET uncounted == {k \in InFlight({"forget", "store", "cool", "count"}) :
                      request[k].purpose = p}
  IN  /\ limit[p].expires
      /\ limit' = [limit EXCEPT ![p] = NoCounter]
      /\ history' = [history EXCEPT ![p].inWindow = Cardinality(uncounted)]
      /\ UNCHANGED <<otp, cooldown, attempts, verified, mails>>

ExpireVerified(p) ==
  /\ p \in verified
  /\ verified' = verified \ {p}
  /\ UNCHANGED <<otp, cooldown, limit, attempts, mails, history>>

EmailExpiry ==
  \E p \in Purposes :
    \/ ExpireOtp(p) \/ ExpireAttempts(p) \/ ExpireCooldown(p)
    \/ ExpireLimit(p) \/ ExpireVerified(p)
=============================================================================
