--------------------------- MODULE Accounts_proofs ---------------------------
(***************************************************************************)
(* Theorems about Accounts, for every finite set of clients, every         *)
(* workload and every bound on mails, issues and one-time codes.  What a   *)
(* property says of workloads (one by one, without failing calls, honest)  *)
(* is in the property.                                                     *)
(***************************************************************************)
EXTENDS Accounts, FiniteSetTheorems, TLAPS

-----------------------------------------------------------------------------
(* Type correctness                                                        *)

\* A client's request moves on to one that is well-typed.
LEMMA GotoType ==
  ASSUME request \in [Clients -> Requests], NEW k \in Clients, NEW next \in Requests,
         Goto(k, next)
  PROVE  request' \in [Clients -> Requests]
  BY DEF Goto

LEMMA DoneType ==
  ASSUME request \in [Clients -> Requests], NEW k \in Clients, Done(k)
  PROVE  request' \in [Clients -> Requests]
<1>1. Idle \in Requests
  BY DEF Requests
<1>. QED
  BY <1>1, GotoType DEF Done

PlainPcs ==
  {"cooldown", "limit", "mail", "count", "window",
   "load", "countWrong", "wrongWindow", "clearCode", "clearTries", "flag"}

CodePcs == {"forget", "store", "cool", "tries"}

AccountPcs ==
  {"signupFind", "signupInsert", "signupClear", "oauthInsert", "oauthCode",
   "exchangeOwner", "grant", "reactivateFind", "reactivate", "resetClear", "deactivate",
   "list", "revokeList"}

\* What each form of request holds, and that the steps make requests of a form.
LEMMA RequestForms ==
  /\ Idle \in Requests
  /\ \A pc \in PlainPcs, p \in Purposes : Step(pc, p) \in Requests
  /\ \A pc \in CodePcs, p \in Purposes, c \in 1..MaxMails : CodeStep(pc, p, c) \in Requests
  /\ \A pc \in AccountPcs : Next1(pc) \in Requests
  /\ \A t \in Token \union {NoToken}, pc \in {"sign", "owner", "rotate"} :
       [pc |-> pc, token |-> t] \in Requests
  /\ \A j \in Issues : [pc |-> "evict", jti |-> j] \in Requests
  /\ \A todo \in SUBSET Issues, found \in SUBSET [jti : Issues, at : Issues] :
       [pc |-> "read", todo |-> todo, found |-> found] \in Requests
  /\ \A l \in SUBSET Issues, since \in 0..MaxIssues :
       [pc |-> "revoke", listed |-> l, since |-> since] \in Requests
  /\ \A r \in Row, pc \in {"resetFlag", "resetSave", "profileSave"} :
       [pc |-> pc, row |-> r] \in Requests
<1>1. /\ \A pc \in PlainPcs, p \in Purposes : Step(pc, p) \in EmailRequests
      /\ \A pc \in CodePcs, p \in Purposes, c \in 1..MaxMails :
           CodeStep(pc, p, c) \in EmailRequests
  BY DEF PlainPcs, CodePcs, EmailRequests, Step, CodeStep
<1>2. /\ \A t \in Token \union {NoToken}, pc \in {"sign", "owner", "rotate"} :
           [pc |-> pc, token |-> t] \in SessionRequests
      /\ \A j \in Issues : [pc |-> "evict", jti |-> j] \in SessionRequests
      /\ \A todo \in SUBSET Issues, found \in SUBSET [jti : Issues, at : Issues] :
           [pc |-> "read", todo |-> todo, found |-> found] \in SessionRequests
      /\ \A l \in SUBSET Issues, since \in 0..MaxIssues :
           [pc |-> "revoke", listed |-> l, since |-> since] \in SessionRequests
  BY DEF SessionRequests
<1>3. \A pc \in AccountPcs : Next1(pc) \in Requests
  BY DEF AccountPcs, Next1, Requests, SessionRequests
<1>4. \A r \in Row, pc \in {"resetFlag", "resetSave", "profileSave"} :
        [pc |-> pc, row |-> r] \in Requests
  BY DEF Requests
<1>. QED
  BY <1>1, <1>2, <1>3, <1>4 DEF Requests

LEMMA RequestFields ==
  ASSUME request \in [Clients -> Requests], NEW k \in Clients
  PROVE  /\ request[k].pc \in PlainPcs =>
              request[k].purpose \in Purposes
         /\ request[k].pc \in CodePcs =>
              request[k] \in [pc : CodePcs, purpose : Purposes, code : 1..MaxMails]
         /\ request[k].pc = "read" =>
              request[k] \in [pc : {"read"}, todo : SUBSET Issues,
                              found : SUBSET [jti : Issues, at : Issues]]
         /\ request[k].pc = "evict" => request[k].jti \in Issues
         /\ request[k].pc \in {"sign", "owner", "rotate"} =>
              request[k] \in [pc : {"sign", "owner", "rotate"}, token : Token \union {NoToken}]
         /\ request[k].pc = "revoke" =>
              request[k].listed \in SUBSET Issues /\ request[k].since \in 0..MaxIssues
         /\ request[k].pc \in {"resetFlag", "resetSave", "profileSave"} =>
              request[k] \in [pc : {"resetFlag", "resetSave", "profileSave"}, row : Row]
<1>1. request[k] \in Requests
  OBVIOUS
<1>2. CASE request[k] = Idle
  BY <1>2 DEF Idle, PlainPcs, CodePcs
<1>3. CASE request[k] \in EmailRequests
  BY <1>3 DEF EmailRequests, PlainPcs, CodePcs
<1>4. CASE request[k] \in SessionRequests
  BY <1>4 DEF SessionRequests, PlainPcs, CodePcs
<1>5. CASE request[k] \notin EmailRequests \union SessionRequests \union {Idle}
  BY <1>1, <1>5 DEF Requests, PlainPcs, CodePcs
<1>. QED
  BY <1>2, <1>3, <1>4, <1>5

Counter == [count : Nat, expires : BOOLEAN, older : BOOLEAN]

LEMMA CounterTypes ==
  ASSUME NEW c \in Counter
  PROVE  /\ Incremented(c) \in Counter /\ Incremented(c).count = c.count + 1
         /\ NoCounter \in Counter
         /\ \A b \in BOOLEAN : /\ [c EXCEPT !.older = b] \in Counter
                              /\ [c EXCEPT !.expires = b] \in Counter
         /\ [c EXCEPT !.expires = TRUE, !.older = FALSE] \in Counter
<1>. DEFINE d == [c EXCEPT !.expires = TRUE]
<1>1. d \in Counter
  BY DEF Counter
<1>. HIDE DEF d
<1>2. [d EXCEPT !.older = FALSE] \in Counter
  BY <1>1 DEF Counter
<1>3. /\ Incremented(c) \in Counter /\ Incremented(c).count = c.count + 1
      /\ NoCounter \in Counter
      /\ \A b \in BOOLEAN : /\ [c EXCEPT !.older = b] \in Counter
                           /\ [c EXCEPT !.expires = b] \in Counter
  BY DEF Counter, Incremented, NoCounter
<1>. QED
  BY <1>2, <1>3 DEF d

LEMMA HistoryTypes ==
  ASSUME NEW h \in History, NEW n \in Nat
  PROVE  /\ [h EXCEPT !.inWindow = n] \in History
         /\ [h EXCEPT !.wrong = n] \in History
         /\ [h EXCEPT !.budgets = n] \in History
         /\ [h EXCEPT !.passed = n] \in History
         /\ [h EXCEPT !.wrong = 0, !.budgets = 1] \in History
         /\ h.inWindow + 1 \in Nat /\ h.wrong + 1 \in Nat
         /\ h.budgets + 1 \in Nat /\ h.passed + 1 \in Nat
<1>. DEFINE d == [h EXCEPT !.wrong = 0]
<1>1. d \in History
  BY DEF History
<1>. HIDE DEF d
<1>2. [d EXCEPT !.budgets = 1] \in History
  BY <1>1 DEF History
<1>3. /\ [h EXCEPT !.inWindow = n] \in History
      /\ [h EXCEPT !.wrong = n] \in History
      /\ [h EXCEPT !.budgets = n] \in History
      /\ [h EXCEPT !.passed = n] \in History
      /\ h.inWindow + 1 \in Nat /\ h.wrong + 1 \in Nat
      /\ h.budgets + 1 \in Nat /\ h.passed + 1 \in Nat
  BY DEF History
<1>. QED
  BY <1>2, <1>3 DEF d

LEMMA ForgetType ==
  ASSUME EmailTypes, NEW p \in Purposes, ForgetAttempts(p)
  PROVE  attempts' \in [Purposes -> Counter] /\ history' \in [Purposes -> History]
<1>1. NoCounter \in Counter
  BY DEF NoCounter, Counter
<1>2. history[p] \in History /\ history[p].budgets \in Nat /\ history[p].budgets + 1 \in Nat
  BY DEF EmailTypes, History
<1>3. history' = [history EXCEPT ![p] =
         [history[p] EXCEPT !.budgets = IF otp[p] = 0 THEN @ ELSE @ + 1]]
  BY DEF ForgetAttempts
<1>4. [history[p] EXCEPT !.budgets = IF otp[p] = 0 THEN @ ELSE @ + 1] \in History
  BY <1>2, HistoryTypes
<1>. QED
  BY <1>1, <1>3, <1>4 DEF ForgetAttempts, EmailTypes, Counter

LEMMA SendType ==
  ASSUME TypeOK, NEW k \in Clients,
         \/ \E p \in Purposes : SendStart(k, p)
         \/ SendCooldown(k) \/ SendLimit(k) \/ SendMail(k) \/ SendForget(k)
         \/ SendStore(k) \/ SendCool(k) \/ SendCount(k) \/ SendWindow(k)
  PROVE  EmailTypes' /\ request' \in [Clients -> Requests]
<1>. DEFINE p == request[k].purpose
<1>. USE DEF emailVars, EmailTypes, At, Counter
<1>0. TypeOK /\ request \in [Clients -> Requests] /\ EmailTypes
  BY DEF TypeOK
<1>1. ASSUME NEW q \in Purposes, SendStart(k, q)
      PROVE  EmailTypes' /\ request' \in [Clients -> Requests]
  <2>1. Step("cooldown", q) \in Requests
    BY RequestForms DEF PlainPcs
  <2>. QED
    BY <1>0, <1>1, <2>1, GotoType DEF SendStart
<1>2. CASE SendCooldown(k)
  <2>1. Step("limit", p) \in Requests
    BY <1>0, <1>2, RequestForms, RequestFields DEF PlainPcs, SendCooldown
  <2>. QED
    BY <1>0, <1>2, <2>1, GotoType, DoneType DEF SendCooldown
<1>3. CASE SendLimit(k)
  <2>1. Step("mail", p) \in Requests
    BY <1>0, <1>3, RequestForms, RequestFields DEF PlainPcs, SendLimit
  <2>. QED
    BY <1>0, <1>3, <2>1, GotoType, DoneType DEF SendLimit
<1>4. CASE SendMail(k)
  <2>1. p \in Purposes
    BY <1>0, <1>4, RequestFields DEF PlainPcs, SendMail
  <2>2. mails' \in 1..MaxMails
    BY <1>0, <1>4, EmailAssumption, WorkloadAssumption DEF SendMail, TypeOK, Workload
  <2>3. CodeStep("forget", p, mails') \in Requests
    BY <2>1, <2>2, RequestForms DEF CodePcs
  <2>4. /\ history[p] \in History
        /\ history[p].inWindow + 1 \in Nat
        /\ [history[p] EXCEPT !.inWindow = history[p].inWindow + 1] \in History
        /\ history' = [history EXCEPT ![p] =
                         [history[p] EXCEPT !.inWindow = history[p].inWindow + 1]]
    BY <1>4, <2>1, HistoryTypes, <1>0 DEF SendMail
  <2>5. history' \in [Purposes -> History]
    BY <1>0, <2>1, <2>4
  <2>6. request' \in [Clients -> Requests]
    BY <1>0, <1>4, <2>3, GotoType DEF SendMail
  <2>. QED
    BY <1>0, <1>4, <2>2, <2>5, <2>6 DEF SendMail
<1>5. CASE SendForget(k)
  <2>1. request[k] \in [pc : CodePcs, purpose : Purposes, code : 1..MaxMails]
    BY <1>0, <1>5, RequestFields DEF CodePcs, SendForget
  <2>2. [request[k] EXCEPT !.pc = "store"] = CodeStep("store", p, request[k].code)
    BY <2>1 DEF CodeStep
  <2>3. [request[k] EXCEPT !.pc = "store"] \in Requests
    BY <2>1, <2>2, RequestForms DEF CodePcs
  <2>4. request' \in [Clients -> Requests]
    BY <1>0, <1>5, <2>3, GotoType DEF SendForget
  <2>5. attempts' \in [Purposes -> Counter] /\ history' \in [Purposes -> History]
    BY <1>0, <1>5, <2>1, ForgetType DEF SendForget
  <2>. QED
    BY <1>0, <1>5, <2>4, <2>5 DEF SendForget
<1>6. CASE SendStore(k)
  <2>1. request[k] \in [pc : CodePcs, purpose : Purposes, code : 1..MaxMails]
    BY <1>0, <1>6, RequestFields DEF CodePcs, SendStore
  <2>2. [request[k] EXCEPT !.pc = "cool"] = CodeStep("cool", p, request[k].code)
    BY <2>1 DEF CodeStep
  <2>3. [request[k] EXCEPT !.pc = "cool"] \in Requests
    BY <2>1, <2>2, RequestForms DEF CodePcs
  <2>4. request' \in [Clients -> Requests]
    BY <1>0, <1>6, <2>3, GotoType DEF SendStore
  <2>5. attempts' \in [Purposes -> Counter]
    BY <1>0, <1>6, <2>1 DEF SendStore
  <2>6. history' = [history EXCEPT ![p] = [history[p] EXCEPT !.wrong = 0, !.budgets = 1]]
        /\ [history[p] EXCEPT !.wrong = 0, !.budgets = 1] \in History
    BY <1>0, <1>6, <2>1, HistoryTypes DEF SendStore
  <2>7. history' \in [Purposes -> History]
    BY <1>0, <2>1, <2>6
  <2>8. otp' \in [Purposes -> 0..MaxMails]
    BY <1>0, <1>6, <2>1 DEF SendStore
  <2>. QED
    BY <1>0, <1>6, <2>4, <2>5, <2>7, <2>8 DEF SendStore
<1>7. CASE SendCool(k)
  <2>1. p \in Purposes /\ Step("count", p) \in Requests
    BY <1>0, <1>7, RequestForms, RequestFields DEF PlainPcs, CodePcs, SendCool
  <2>2. request' \in [Clients -> Requests]
    BY <1>0, <1>7, <2>1, GotoType DEF SendCool
  <2>. QED
    BY <1>0, <1>7, <2>1, <2>2 DEF SendCool
<1>8. CASE SendCount(k)
  <2>1. p \in Purposes /\ Step("window", p) \in Requests
    BY <1>0, <1>8, RequestForms, RequestFields DEF PlainPcs, SendCount
  <2>2. request' \in [Clients -> Requests]
    BY <1>0, <1>8, <2>1, GotoType, DoneType DEF SendCount
  <2>5. limit[p] \in Counter
    BY <1>0, <2>1
  <2>4. /\ limit' = [limit EXCEPT ![p] = Incremented(limit[p])]
        /\ Incremented(limit[p]) \in Counter
    <3>. HIDE DEF Counter
    <3>. QED
      BY <1>8, <2>5, CounterTypes DEF SendCount
  <2>3. limit' \in [Purposes -> Counter]
    BY <1>0, <2>1, <2>4
  <2>. QED
    BY <1>0, <1>8, <2>2, <2>3 DEF SendCount
<1>9. CASE SendWindow(k)
  <2>1. p \in Purposes
    BY <1>0, <1>9, RequestFields DEF PlainPcs, SendWindow
  <2>2. request' \in [Clients -> Requests]
    BY <1>0, <1>9, DoneType DEF SendWindow
  <2>3. limit' \in [Purposes -> Counter]
    BY <1>0, <1>9, <2>1 DEF SendWindow
  <2>. QED
    BY <1>0, <1>9, <2>2, <2>3 DEF SendWindow
<1>. QED
  BY <1>1, <1>2, <1>3, <1>4, <1>5, <1>6, <1>7, <1>8, <1>9

LEMMA VerifyType ==
  ASSUME TypeOK, NEW k \in Clients,
         \/ \E p \in Purposes : VerifyStart(k, p)
         \/ VerifyLoad(k) \/ VerifyRefuse(k) \/ VerifyRight(k) \/ VerifyWrong(k)
         \/ VerifyCountWrong(k) \/ VerifyWrongWindow(k)
         \/ VerifyClearCode(k) \/ VerifyClearTries(k) \/ VerifyFlag(k)
  PROVE  EmailTypes' /\ request' \in [Clients -> Requests]
<1>. DEFINE p == request[k].purpose
<1>. USE DEF emailVars, EmailTypes, At, Counter
<1>0. request \in [Clients -> Requests] /\ EmailTypes
  BY DEF TypeOK
<1>1. ASSUME NEW q \in Purposes, VerifyStart(k, q)
      PROVE  EmailTypes' /\ request' \in [Clients -> Requests]
  <2>1. Step("load", q) \in Requests
    BY RequestForms DEF PlainPcs
  <2>. QED
    BY <1>0, <1>1, <2>1, GotoType DEF VerifyStart
<1>2. CASE VerifyLoad(k)
  <2>1. p \in Purposes
    BY <1>0, <1>2, RequestFields DEF PlainPcs, VerifyLoad
  <2>2. otp[p] # 0 => CodeStep("tries", p, otp[p]) \in Requests
    BY <1>0, <2>1, EmailAssumption, RequestForms DEF CodePcs
  <2>. QED
    BY <1>0, <1>2, <2>2, GotoType, DoneType DEF VerifyLoad
<1>3. CASE VerifyRefuse(k)
  BY <1>0, <1>3, DoneType DEF VerifyRefuse
<1>4. CASE VerifyRight(k)
  <2>1. Step("clearCode", p) \in Requests
    BY <1>0, <1>4, RequestForms, RequestFields DEF PlainPcs, CodePcs, VerifyRight
  <2>. QED
    BY <1>0, <1>4, <2>1, GotoType DEF VerifyRight
<1>5. CASE VerifyWrong(k)
  <2>1. p \in Purposes /\ Step("countWrong", p) \in Requests
    BY <1>0, <1>5, RequestForms, RequestFields DEF PlainPcs, CodePcs, VerifyWrong
  <2>2. request' \in [Clients -> Requests]
    BY <1>0, <1>5, <2>1, GotoType DEF VerifyWrong
  <2>3. /\ history[p] \in History /\ history[p].wrong \in Nat /\ history[p].wrong + 1 \in Nat
    BY <1>0, <2>1 DEF History
  <2>4. /\ history' = [history EXCEPT ![p] = [history[p] EXCEPT !.wrong =
                IF request[k].code = otp[p] THEN @ + 1 ELSE @]]
        /\ [history[p] EXCEPT !.wrong =
                IF request[k].code = otp[p] THEN @ + 1 ELSE @] \in History
    BY <1>5, <2>3, HistoryTypes DEF VerifyWrong
  <2>5. history' \in [Purposes -> History]
    BY <1>0, <2>1, <2>4
  <2>. QED
    BY <1>0, <1>5, <2>2, <2>5 DEF VerifyWrong
<1>6. CASE VerifyCountWrong(k)
  <2>1. p \in Purposes /\ Step("wrongWindow", p) \in Requests
    BY <1>0, <1>6, RequestForms, RequestFields DEF PlainPcs, VerifyCountWrong
  <2>2. request' \in [Clients -> Requests]
    BY <1>0, <1>6, <2>1, GotoType, DoneType DEF VerifyCountWrong
  <2>5. attempts[p] \in Counter
    BY <1>0, <2>1
  <2>4. /\ attempts' = [attempts EXCEPT ![p] = Incremented(attempts[p])]
        /\ Incremented(attempts[p]) \in Counter
    <3>. HIDE DEF Counter
    <3>. QED
      BY <1>6, <2>5, CounterTypes DEF VerifyCountWrong
  <2>3. attempts' \in [Purposes -> Counter]
    BY <1>0, <2>1, <2>4
  <2>. QED
    BY <1>0, <1>6, <2>2, <2>3 DEF VerifyCountWrong
<1>7. CASE VerifyWrongWindow(k)
  <2>1. p \in Purposes
    BY <1>0, <1>7, RequestFields DEF PlainPcs, VerifyWrongWindow
  <2>2. request' \in [Clients -> Requests]
    BY <1>0, <1>7, DoneType DEF VerifyWrongWindow
  <2>6. attempts[p] \in Counter
    BY <1>0, <2>1
  <2>3. [attempts[p] EXCEPT !.expires = TRUE, !.older = FALSE] \in Counter
    <3>. HIDE DEF Counter
    <3>. QED
      BY <2>6, CounterTypes
  <2>4. attempts' = attempts \/ attempts' =
          [attempts EXCEPT ![p] = [attempts[p] EXCEPT !.expires = TRUE, !.older = FALSE]]
    BY <1>0, <1>7, <2>1 DEF VerifyWrongWindow
  <2>5. attempts' \in [Purposes -> Counter]
    BY <1>0, <2>1, <2>3, <2>4
  <2>. QED
    BY <1>0, <1>7, <2>2, <2>5 DEF VerifyWrongWindow
<1>8. CASE VerifyClearCode(k)
  <2>1. p \in Purposes /\ Step("clearTries", p) \in Requests
    BY <1>0, <1>8, RequestForms, RequestFields DEF PlainPcs, VerifyClearCode
  <2>2. request' \in [Clients -> Requests]
    BY <1>0, <1>8, <2>1, GotoType DEF VerifyClearCode
  <2>3. otp' \in [Purposes -> 0..MaxMails]
    BY <1>0, <1>8, <2>1, EmailAssumption DEF VerifyClearCode
  <2>. QED
    BY <1>0, <1>8, <2>2, <2>3 DEF VerifyClearCode
<1>9. CASE VerifyClearTries(k)
  <2>1. p \in Purposes /\ Step("flag", p) \in Requests
    BY <1>0, <1>9, RequestForms, RequestFields DEF PlainPcs, VerifyClearTries
  <2>2. request' \in [Clients -> Requests]
    BY <1>0, <1>9, <2>1, GotoType DEF VerifyClearTries
  <2>3. attempts' \in [Purposes -> Counter] /\ history' \in [Purposes -> History]
    BY <1>0, <1>9, <2>1, ForgetType DEF VerifyClearTries
  <2>. QED
    BY <1>0, <1>9, <2>2, <2>3 DEF VerifyClearTries
<1>10. CASE VerifyFlag(k)
  <2>1. p \in Purposes
    BY <1>0, <1>10, RequestFields DEF PlainPcs, VerifyFlag
  <2>2. request' \in [Clients -> Requests]
    BY <1>0, <1>10, DoneType DEF VerifyFlag
  <2>3. /\ history[p] \in History /\ history[p].passed + 1 \in Nat
        /\ [history[p] EXCEPT !.passed = history[p].passed + 1] \in History
    BY <1>0, <2>1, HistoryTypes
  <2>4. history' \in [Purposes -> History]
    BY <1>0, <1>10, <2>1, <2>3 DEF VerifyFlag
  <2>. QED
    BY <1>0, <1>10, <2>1, <2>2, <2>4 DEF VerifyFlag
<1>. QED
  BY <1>1, <1>2, <1>3, <1>4, <1>5, <1>6, <1>7, <1>8, <1>9, <1>10

LEMMA EmailExpiryType ==
  ASSUME TypeOK, EmailExpiry
  PROVE  EmailTypes'
<1>. USE DEF EmailTypes, Counter
<1>0. EmailTypes
  BY DEF TypeOK
<1>1. ASSUME NEW p \in Purposes, ExpireOtp(p) PROVE EmailTypes'
  BY <1>0, <1>1, EmailAssumption DEF ExpireOtp
<1>2. ASSUME NEW p \in Purposes, ExpireAttempts(p) PROVE EmailTypes'
  <2>1. attempts' \in [Purposes -> Counter] /\ history' \in [Purposes -> History]
    BY <1>0, <1>2, ForgetType DEF ExpireAttempts
  <2>. QED
    BY <1>0, <1>2, <2>1 DEF ExpireAttempts
<1>3. ASSUME NEW p \in Purposes, ExpireCooldown(p) PROVE EmailTypes'
  BY <1>0, <1>3 DEF ExpireCooldown
<1>4. ASSUME NEW p \in Purposes, ExpireLimit(p) PROVE EmailTypes'
  <2>. DEFINE uncounted == {k \in InFlight({"forget", "store", "cool", "count"}) :
                              request[k].purpose = p}
  <2>1. Cardinality(uncounted) \in Nat
    <3>1. uncounted \subseteq Clients
      BY DEF InFlight
    <3>. QED
      BY <3>1, ClientsAssumption, FS_Subset, FS_CardinalityType
  <2>. HIDE DEF uncounted
  <2>2. history' = [history EXCEPT ![p].inWindow = Cardinality(uncounted)]
        /\ limit' = [limit EXCEPT ![p] = NoCounter]
        /\ UNCHANGED <<otp, cooldown, attempts, verified, mails>>
    BY <1>4 DEF ExpireLimit, uncounted
  <2>3. history[p] \in History
        /\ [history[p] EXCEPT !.inWindow = Cardinality(uncounted)] \in History
    BY <1>0, <2>1, HistoryTypes
  <2>4. history' \in [Purposes -> History]
    BY <1>0, <2>2, <2>3
  <2>5. limit' \in [Purposes -> Counter]
    BY <1>0, <2>2 DEF NoCounter
  <2>. QED
    BY <1>0, <2>2, <2>4, <2>5
<1>5. ASSUME NEW p \in Purposes, ExpireVerified(p) PROVE EmailTypes'
  BY <1>0, <1>5 DEF ExpireVerified
<1>. QED
  BY <1>1, <1>2, <1>3, <1>4, <1>5 DEF EmailExpiry

\* What is in a slot, and what a request to the sessions may write there.
LEMMA IssueTypes ==
  ASSUME TypeOK, NEW k \in Clients, IssueSet(k)
  PROVE  SessionTypes' /\ request' \in [Clients -> Requests]
<1>. DEFINE t == request[k].token
<1>0. request \in [Clients -> Requests] /\ SessionTypes /\ workload \in Workload
  BY WorkloadAssumption DEF TypeOK
<1>1. t \in Token \union {NoToken}
  BY <1>0, RequestFields DEF IssueSet, At
<1>2. clock \in Nat /\ clock < workload.issues /\ clock + 1 \in Issues
  BY <1>0, SessionAssumption DEF IssueSet, SessionTypes, Issues, Workload, TypeOK
<1>3. PICK new \in NewTokens(t) :
        /\ slots' = [slots EXCEPT ![new.jti] = [token |-> new.number, at |-> clock']]
        /\ issued' = issued \union {new}
        /\ held' = IF workload.honest THEN [held EXCEPT ![k] = new] ELSE held
  BY DEF IssueSet
<1>4. new \in Token
  BY <1>1, <1>2 DEF NewTokens, Token, NoToken
<1>5. clock' = clock + 1 /\ revoked' = revoked
  BY DEF IssueSet
<1>6. new.jti \in Issues /\ [token |-> new.number, at |-> clock'] \in Slot
  BY <1>2, <1>4, <1>5 DEF Token, Slot
<1>7. slots' \in [Issues -> Slot \union {NoSlot}]
  BY <1>0, <1>3, <1>6 DEF SessionTypes
<1>8. issued' \in SUBSET Token
  BY <1>0, <1>3, <1>4 DEF SessionTypes
<1>9. held' \in [Clients -> Token \union {NoToken}]
  BY <1>0, <1>3, <1>4 DEF SessionTypes
<1>10. clock' \in 0..MaxIssues /\ revoked' \in 0..MaxIssues
  BY <1>0, <1>2, <1>5 DEF SessionTypes, Issues
<1>11. request' \in [Clients -> Requests]
  BY <1>0, DoneType DEF IssueSet
<1>. QED
  BY <1>7, <1>8, <1>9, <1>10, <1>11 DEF SessionTypes

LEMMA ReadForm ==
  ASSUME NEW r \in [pc : {"read"}, todo : SUBSET Issues, found : SUBSET [jti : Issues, at : Issues]],
         NEW todo, NEW found
  PROVE  [r EXCEPT !.todo = todo, !.found = found]
           = [pc |-> "read", todo |-> todo, found |-> found]
<1>. DEFINE d == [r EXCEPT !.todo = todo]
<1>1. d = [pc |-> "read", todo |-> todo, found |-> r.found]
  OBVIOUS
<1>. HIDE DEF d
<1>2. [d EXCEPT !.found = found] = [pc |-> "read", todo |-> todo, found |-> found]
  BY <1>1
<1>. QED
  BY <1>2 DEF d

LEMMA SessionType ==
  ASSUME TypeOK, NEW k \in Clients, SessionStep(k)
  PROVE  SessionTypes' /\ request' \in [Clients -> Requests]
<1>. USE DEF sessionVars, SessionTypes, At
<1>0. request \in [Clients -> Requests] /\ SessionTypes /\ Live \subseteq Issues
  BY DEF TypeOK, Live
<1>1. CASE IssueList(k)
  <2>1. [pc |-> "read", todo |-> Live, found |-> {}] \in Requests
    BY <1>0, RequestForms
  <2>2. Sign(NoToken) \in Requests
    BY RequestForms DEF Sign
  <2>. QED
    BY <1>0, <1>1, <2>1, <2>2, GotoType DEF IssueList
<1>2. ASSUME NEW j \in Issues, IssueRead(k, j)
      PROVE  SessionTypes' /\ request' \in [Clients -> Requests]
  <2>. DEFINE r == request[k]
  <2>. DEFINE todo == r.todo \ {j}
  <2>. DEFINE found == IF j \in Live THEN r.found \union {[jti |-> j, at |-> slots[j].at]}
                       ELSE r.found
  <2>1. r \in [pc : {"read"}, todo : SUBSET Issues, found : SUBSET [jti : Issues, at : Issues]]
    BY <1>0, <1>2, RequestFields DEF IssueRead
  <2>2. j \in Live => slots[j].at \in Issues
    BY <1>0 DEF Live, Slot
  <2>3. todo \in SUBSET Issues /\ found \in SUBSET [jti : Issues, at : Issues]
    BY <2>1, <2>2
  <2>4. [r EXCEPT !.todo = @ \ {j},
                  !.found = IF j \in Live THEN @ \union {[jti |-> j, at |-> slots[j].at]} ELSE @]
          = [pc |-> "read", todo |-> todo, found |-> found]
    <3>. HIDE DEF r
    <3>. QED
      BY <2>1, ReadForm
  <2>5. [pc |-> "read", todo |-> todo, found |-> found] \in Requests
    <3>. HIDE DEF todo, found
    <3>. QED
      BY <2>3, RequestForms
  <2>. QED
    BY <1>0, <1>2, <2>4, <2>5, GotoType DEF IssueRead
<1>3. CASE IssueOldest(k)
  <2>1. request[k].found \in SUBSET [jti : Issues, at : Issues]
    BY <1>0, <1>3, RequestFields DEF IssueOldest
  <2>2. Sign(NoToken) \in Requests
    BY RequestForms DEF Sign
  <2>3. \A s \in request[k].found : [pc |-> "evict", jti |-> s.jti] \in Requests
    BY <2>1, RequestForms
  <2>. QED
    BY <1>0, <1>3, <2>2, <2>3, GotoType DEF IssueOldest
<1>4. CASE IssueEvict(k)
  <2>1. Sign(NoToken) \in Requests
    BY RequestForms DEF Sign
  <2>. QED
    BY <1>0, <1>4, <2>1, GotoType DEF IssueEvict
<1>5. CASE IssueDeleteOld(k)
  <2>1. request[k].token \in Token \union {NoToken}
    BY <1>0, <1>5, RequestFields DEF IssueDeleteOld
  <2>2. Sign(request[k].token) \in Requests
    BY <2>1, RequestForms DEF Sign
  <2>. QED
    BY <1>0, <1>5, <2>2, GotoType DEF IssueDeleteOld
<1>6. CASE IssueSet(k)
  BY <1>6, IssueTypes
<1>7. ASSUME NEW t \in Token, RefreshStart(k, t)
      PROVE  SessionTypes' /\ request' \in [Clients -> Requests]
  <2>1. [pc |-> "owner", token |-> t] \in Requests
    BY RequestForms
  <2>2. [pc |-> "revokeList"] \in Requests
    BY RequestForms DEF Next1, AccountPcs
  <2>. QED
    BY <1>0, <1>7, <2>1, <2>2, GotoType DEF RefreshStart
<1>8. CASE RefreshOwner(k)
  <2>1. request[k] \in [pc : {"sign", "owner", "rotate"}, token : Token \union {NoToken}]
    BY <1>0, <1>8, RequestFields DEF RefreshOwner
  <2>2. [request[k] EXCEPT !.pc = "rotate"] = [pc |-> "rotate", token |-> request[k].token]
    BY <2>1
  <2>3. [request[k] EXCEPT !.pc = "rotate"] \in Requests
    BY <2>1, <2>2, RequestForms
  <2>. QED
    BY <1>0, <1>8, <2>3, GotoType, DoneType DEF RefreshOwner
<1>9. CASE RevokeList(k)
  <2>1. [pc |-> "revoke", listed |-> Live, since |-> clock] \in Requests
    BY <1>0, RequestForms
  <2>. QED
    BY <1>0, <1>9, <2>1, GotoType DEF RevokeList
<1>10. CASE RevokeDelete(k)
  <2>1. request[k].since \in 0..MaxIssues
    BY <1>0, <1>10, RequestFields DEF RevokeDelete
  <2>. QED
    BY <1>0, <1>10, <2>1, DoneType DEF RevokeDelete
<1>. QED
  BY <1>1, <1>2, <1>3, <1>4, <1>5, <1>6, <1>7, <1>8, <1>9, <1>10 DEF SessionStep

LEMMA SlotExpiryType ==
  ASSUME TypeOK, NEW j \in Issues, ExpireSlot(j)
  PROVE  SessionTypes'
BY DEF TypeOK, SessionTypes, ExpireSlot

-----------------------------------------------------------------------------
(* The types need that whoever holds a one-time code has a row             *)

KnownPcs == {"oauthCode", "exchangeOwner", "grant", "reactivateFind", "reactivate", "deactivate"}

SessionPcs == {"read", "evict", "sign", "owner", "rotate", "revoke"}

\* A code, and a request that makes one or has presented one, is of a user that
\* exists; so reactivate and deactivate save a row that is there.
UserKnown ==
  \/ Exists
  \/ /\ \A t \in Tickets : tickets[t] = "none"
     /\ \A k \in Clients : request[k].pc \notin KnownPcs

TypeInv == TypeOK /\ UserKnown

TicketTypes ==
  /\ tickets \in [Tickets -> {"none", "oauth", "reactivation"}]
  /\ made \in 0..MaxTickets
  /\ redeemed \in [Tickets -> Nat]

LEMMA RowTypes ==
  /\ NoUser \notin Row
  /\ NewUser("LOCAL") \in Row /\ NewUser("OAUTH") \in Row
  /\ \A r \in Row : /\ [r EXCEPT !.active = FALSE] \in Row
                   /\ [r EXCEPT !.active = TRUE] \in Row
<1>1. NoUser \notin Row
  <2>1. NoUser.provider = "NONE"
    BY DEF NoUser
  <2>2. \A r \in Row : r.provider # "NONE"
    BY DEF Row
  <2>. QED
    BY <2>1, <2>2
<1>2. NewUser("LOCAL") \in Row /\ NewUser("OAUTH") \in Row
  BY DEF Row, NewUser
<1>3. \A r \in Row : [r EXCEPT !.active = FALSE] \in Row /\ [r EXCEPT !.active = TRUE] \in Row
  BY DEF Row
<1>. QED
  BY <1>1, <1>2, <1>3

LEMMA RowFields ==
  \A r \in Row \union {NoUser} : r.active \in BOOLEAN /\ r.password \in BOOLEAN
<1>1. \A r \in Row : r.active \in BOOLEAN /\ r.password \in BOOLEAN
  BY Zenon DEF Row
<1>2. NoUser.active \in BOOLEAN /\ NoUser.password \in BOOLEAN
  BY DEF NoUser
<1>. QED
  BY <1>1, <1>2

LEMMA SaveUserType ==
  ASSUME user \in Row \union {NoUser}, NEW row \in Row, NEW password \in BOOLEAN,
         SaveUser(row, password)
  PROVE  user' \in Row
<1>1. PICK a \in {row.active, user.active} :
        user' = [row EXCEPT !.active = a, !.password = password]
  BY DEF SaveUser
<1>2. a \in BOOLEAN
  BY <1>1, RowFields
<1>. DEFINE d == [row EXCEPT !.active = a]
<1>3. d \in Row
  BY <1>2 DEF Row
<1>. HIDE DEF d
<1>4. [d EXCEPT !.password = password] \in Row
  BY <1>3 DEF Row
<1>. QED
  BY <1>1, <1>4 DEF d

LEMMA MakeTypes ==
  ASSUME TicketTypes, MaxTickets \in Nat, NEW kind \in {"oauth", "reactivation"}, Make(kind)
  PROVE  TicketTypes'
BY DEF TicketTypes, Make, Tickets

LEMMA RedeemTypes ==
  ASSUME TicketTypes, NEW t \in Tickets, NEW kind \in {"oauth", "reactivation"}, Redeem(t, kind)
  PROVE  TicketTypes'
<1>1. redeemed[t] \in Nat /\ redeemed[t] + 1 \in Nat
  BY DEF TicketTypes
<1>. QED
  BY <1>1 DEF TicketTypes, Redeem

\* What a step of an account leaves in its row, its codes and its request.
AccountTypes ==
  /\ user \in Row \union {NoUser}
  /\ TicketTypes
  /\ request \in [Clients -> Requests]

LEMMA AccountType ==
  ASSUME TypeInv, NEW k \in Clients, AccountStep(k)
  PROVE  AccountTypes' /\ (Exists => Exists')
<1>. USE DEF AccountTypes, At, Exists, Next1
<1>0. /\ user \in Row \union {NoUser} /\ TicketTypes /\ MaxTickets \in Nat
      /\ request \in [Clients -> Requests]
  BY TicketAssumption DEF TypeInv, TypeOK, TicketTypes
<1>00. \A pc \in AccountPcs : [pc |-> pc] \in Requests
  BY RequestForms
<1>. DEFINE P == AccountTypes' /\ (Exists => Exists')
<1>1. CASE Grant(k)
  BY <1>0, <1>1, DoneType, MakeTypes DEF Grant
<1>2. CASE SignupStart(k)
  <2>1. [pc |-> "signupFind"] \in Requests
    BY <1>00 DEF AccountPcs
  <2>. QED
    BY <1>0, <1>2, <2>1, GotoType DEF SignupStart, ticketVars, TicketTypes
<1>3. CASE SignupFind(k)
  <2>1. [pc |-> "signupInsert"] \in Requests
    BY <1>00 DEF AccountPcs
  <2>. QED
    BY <1>0, <1>3, <2>1, GotoType, DoneType DEF SignupFind, ticketVars, TicketTypes
<1>4. CASE SignupInsert(k)
  <2>1. [pc |-> "signupClear"] \in Requests
    BY <1>00 DEF AccountPcs
  <2>. QED
    BY <1>0, <1>4, <2>1, GotoType, DoneType, RowTypes DEF SignupInsert, ticketVars, TicketTypes
<1>5. CASE LoginStart(k)
  <2>1. [pc |-> IF user.active THEN "list" ELSE "grant"] \in Requests
    BY <1>00 DEF AccountPcs
  <2>. QED
    BY <1>0, <1>5, <2>1, GotoType DEF LoginStart, ticketVars, TicketTypes
<1>6. CASE OAuthStart(k)
  <2>1. [pc |-> IF Exists THEN "oauthCode" ELSE "oauthInsert"] \in Requests
    BY <1>00 DEF AccountPcs
  <2>. QED
    BY <1>0, <1>6, <2>1, GotoType DEF OAuthStart, ticketVars, TicketTypes
<1>7. CASE OAuthInsert(k)
  <2>1. [pc |-> "oauthCode"] \in Requests
    BY <1>00 DEF AccountPcs
  <2>. QED
    BY <1>0, <1>7, <2>1, GotoType, DoneType, RowTypes DEF OAuthInsert, ticketVars, TicketTypes
<1>8. CASE OAuthCode(k)
  BY <1>0, <1>8, DoneType, MakeTypes DEF OAuthCode
<1>9. CASE ExchangeOwner(k)
  <2>1. [pc |-> IF user.active THEN "list" ELSE "grant"] \in Requests
    BY <1>00 DEF AccountPcs
  <2>. QED
    BY <1>0, <1>9, <2>1, GotoType DEF ExchangeOwner, ticketVars, TicketTypes
<1>10. CASE DeactivateStart(k)
  <2>1. [pc |-> "deactivate"] \in Requests
    BY <1>00 DEF AccountPcs
  <2>. QED
    BY <1>0, <1>10, <2>1, GotoType DEF DeactivateStart, ticketVars, TicketTypes
<1>11. CASE Deactivate(k)
  <2>1. user \in Row
    BY <1>0, <1>11 DEF Deactivate, TypeInv, UserKnown, KnownPcs
  <2>. QED
    BY <1>0, <1>11, <2>1, DoneType, RowTypes DEF Deactivate, ticketVars, TicketTypes
<1>12. CASE ReactivateFind(k)
  <2>1. [pc |-> IF user.active THEN "list" ELSE "reactivate"] \in Requests
    BY <1>00 DEF AccountPcs
  <2>. QED
    BY <1>0, <1>12, <2>1, GotoType DEF ReactivateFind, ticketVars, TicketTypes
<1>13. CASE Reactivate(k)
  <2>1. [pc |-> "list"] \in Requests
    BY <1>00 DEF AccountPcs
  <2>2. user \in Row
    BY <1>0, <1>13 DEF Reactivate, TypeInv, UserKnown, KnownPcs
  <2>. QED
    BY <1>0, <1>13, <2>1, <2>2, GotoType, RowTypes DEF Reactivate, ticketVars, TicketTypes
<1>14. CASE ProfileStart(k)
  <2>1. user \in Row
    BY <1>0, <1>14 DEF ProfileStart, NoUser
  <2>2. [pc |-> "profileSave", row |-> user] \in Requests
    BY <2>1, RequestForms
  <2>. QED
    BY <1>0, <1>14, <2>2, GotoType DEF ProfileStart, ticketVars, TicketTypes
<1>15. CASE ProfileSave(k)
  <2>1. request[k].row \in Row
    BY <1>0, <1>15, RequestFields DEF ProfileSave
  <2>2. PICK p \in {request[k].row.password, user.password, TRUE} : SaveUser(request[k].row, p)
    BY <1>15 DEF ProfileSave
  <2>3. p \in BOOLEAN
    BY <1>0, <2>1, <2>2, RowFields
  <2>4. user' \in Row
    BY <1>0, <2>1, <2>2, <2>3, SaveUserType
  <2>. QED
    BY <1>0, <1>15, <2>4, DoneType, RowTypes DEF ProfileSave, ticketVars, TicketTypes
<1>16. ASSUME NEW t \in Tickets, ExchangeStart(k, t) PROVE P
  <2>1. [pc |-> "exchangeOwner"] \in Requests
    BY <1>00 DEF AccountPcs
  <2>2. TicketTypes'
    BY <1>0, <1>16, RedeemTypes DEF ExchangeStart
  <2>. QED
    BY <1>0, <1>16, <2>1, <2>2, GotoType DEF ExchangeStart
<1>17. ASSUME NEW t \in Tickets, ReactivateStart(k, t) PROVE P
  <2>1. [pc |-> "reactivateFind"] \in Requests
    BY <1>00 DEF AccountPcs
  <2>2. TicketTypes'
    BY <1>0, <1>17, RedeemTypes DEF ReactivateStart
  <2>. QED
    BY <1>0, <1>17, <2>1, <2>2, GotoType DEF ReactivateStart
<1>. QED
  BY <1>1, <1>2, <1>3, <1>4, <1>5, <1>6, <1>7, <1>8, <1>9, <1>10, <1>11, <1>12, <1>13,
     <1>14, <1>15, <1>16, <1>17 DEF AccountStep

\* Nobody without a row gets a code, or to a step that needs one.
LEMMA AccountKnown ==
  ASSUME TypeInv, NEW k \in Clients, AccountStep(k)
  PROVE  UserKnown'
<1>1. CASE Exists
  BY <1>1, AccountType DEF UserKnown
<1>. SUFFICES ASSUME ~Exists, ~Exists'
              PROVE  /\ \A t \in Tickets : tickets'[t] = "none"
                     /\ \A l \in Clients : request'[l].pc \notin KnownPcs
  BY <1>1 DEF UserKnown
<1>2. /\ \A t \in Tickets : tickets[t] = "none"
      /\ \A l \in Clients : request[l].pc \notin KnownPcs
      /\ request \in [Clients -> Requests]
      /\ user = NoUser
  BY DEF TypeInv, TypeOK, UserKnown, Exists
<1>3. \A t \in Tickets, kind \in {"oauth", "reactivation"} : ~Redeem(t, kind)
  BY <1>2 DEF Redeem
<1>. USE DEF KnownPcs, At, Next1, Goto, Done, Idle
<1>4. CASE SignupStart(k) \/ SignupFind(k) \/ DeactivateStart(k) \/ ProfileStart(k)
  BY <1>2, <1>4
     DEF SignupStart, SignupFind, DeactivateStart, ProfileStart, NoUser, ticketVars
<1>5. CASE LoginStart(k) \/ OAuthStart(k)
  BY <1>2, <1>5 DEF LoginStart, OAuthStart, Exists, ticketVars
<1>6. CASE SignupInsert(k)
  BY <1>2, <1>6 DEF SignupInsert, ticketVars
<1>7. CASE OAuthInsert(k)
  <2>1. Done(k) /\ UNCHANGED tickets
    BY <1>2, <1>7, RowTypes DEF OAuthInsert, Exists, ticketVars
  <2>. QED
    BY <1>2, <2>1
<1>8. CASE Grant(k) \/ OAuthCode(k) \/ ExchangeOwner(k) \/ ReactivateFind(k) \/ Reactivate(k)
           \/ Deactivate(k)
  BY <1>2, <1>8 DEF Grant, OAuthCode, ExchangeOwner, ReactivateFind, Reactivate, Deactivate
<1>9. CASE ProfileSave(k)
  BY <1>2, <1>9 DEF ProfileSave, ticketVars
<1>10. CASE \E t \in Tickets : ExchangeStart(k, t) \/ ReactivateStart(k, t)
  BY <1>3, <1>10 DEF ExchangeStart, ReactivateStart
<1>. QED
  BY <1>4, <1>5, <1>6, <1>7, <1>8, <1>9, <1>10 DEF AccountStep

LEMMA FlagType ==
  ASSUME TypeInv, NEW k \in Clients, FlagStep(k)
  PROVE  /\ user' \in Row \union {NoUser} /\ EmailTypes' /\ resets' \in Nat
         /\ request' \in [Clients -> Requests]
         /\ UserKnown'
<1>. USE DEF At, Next1
<1>0. /\ user \in Row \union {NoUser} /\ EmailTypes /\ resets \in Nat
      /\ request \in [Clients -> Requests] /\ UserKnown
  BY DEF TypeInv, TypeOK
<1>00. \A pc \in AccountPcs : [pc |-> pc] \in Requests
  BY RequestForms
<1>1. /\ user' \in Row \union {NoUser} /\ EmailTypes' /\ resets' \in Nat
      /\ request' \in [Clients -> Requests]
  <2>1. CASE SignupClear(k)
    <3>1. [pc |-> "list"] \in Requests
      BY <1>00 DEF AccountPcs
    <3>. QED
      BY <1>0, <2>1, <3>1, GotoType DEF SignupClear, EmailTypes
  <2>2. CASE ResetStart(k)
    <3>1. user \in Row
      BY <1>0, <2>2 DEF ResetStart, ResetEligible, Exists
    <3>2. [pc |-> "resetFlag", row |-> user] \in Requests
      BY <3>1, RequestForms
    <3>. QED
      BY <1>0, <2>2, <3>2, GotoType DEF ResetStart, EmailTypes, emailVars
  <2>3. CASE ResetFlag(k)
    <3>1. request[k] \in [pc : {"resetFlag", "resetSave", "profileSave"}, row : Row]
      BY <1>0, <2>3, RequestFields DEF ResetFlag
    <3>2. [request[k] EXCEPT !.pc = "resetSave"] = [pc |-> "resetSave", row |-> request[k].row]
      BY <3>1
    <3>3. [request[k] EXCEPT !.pc = "resetSave"] \in Requests
      BY <3>1, <3>2, RequestForms
    <3>. QED
      BY <1>0, <2>3, <3>3, GotoType, DoneType DEF ResetFlag, EmailTypes, emailVars
  <2>4. CASE ResetSave(k)
    <3>1. request[k].row \in Row
      BY <1>0, <2>4, RequestFields DEF ResetSave
    <3>2. user' \in Row
      BY <1>0, <2>4, <3>1, SaveUserType DEF ResetSave
    <3>3. [pc |-> "resetClear"] \in Requests
      BY <1>00 DEF AccountPcs
    <3>. QED
      BY <1>0, <2>4, <3>2, <3>3, GotoType DEF ResetSave, EmailTypes, emailVars
  <2>5. CASE ResetClear(k)
    <3>1. [pc |-> "revokeList"] \in Requests
      BY <1>00 DEF AccountPcs
    <3>. QED
      BY <1>0, <2>5, <3>1, GotoType DEF ResetClear, EmailTypes
  <2>. QED
    BY <2>1, <2>2, <2>3, <2>4, <2>5 DEF FlagStep
<1>2. UserKnown'
  <2>1. CASE ResetSave(k)
    <3>1. request[k].row \in Row
      BY <1>0, <2>1, RequestFields DEF ResetSave
    <3>2. user' \in Row
      BY <1>0, <2>1, <3>1, SaveUserType DEF ResetSave
    <3>. QED
      BY <3>2, RowTypes DEF UserKnown, Exists
  <2>2. CASE ~ResetSave(k)
    <3>1. user' = user /\ tickets' = tickets
      BY <2>2 DEF FlagStep, SignupClear, ResetStart, ResetFlag, ResetClear, ticketVars
    <3>2. \A l \in Clients : request'[l].pc \in KnownPcs => request[l].pc \in KnownPcs
      <4>1. CASE SignupClear(k)
        BY <1>0, <4>1 DEF SignupClear, Goto, KnownPcs
      <4>2. CASE ResetStart(k)
        BY <1>0, <4>2 DEF ResetStart, Goto, KnownPcs
      <4>3. CASE ResetFlag(k)
        <5>1. request[k] \in [pc : {"resetFlag", "resetSave", "profileSave"}, row : Row]
          BY <1>0, <4>3, RequestFields DEF ResetFlag
        <5>. QED
          BY <1>0, <4>3, <5>1 DEF ResetFlag, Goto, Done, Idle, KnownPcs
      <4>4. CASE ResetClear(k)
        BY <1>0, <4>4 DEF ResetClear, Goto, KnownPcs
      <4>. QED
        BY <2>2, <4>1, <4>2, <4>3, <4>4 DEF FlagStep
    <3>. QED
      BY <1>0, <3>1, <3>2 DEF UserKnown, Exists
  <2>. QED
    BY <2>1, <2>2
<1>. QED
  BY <1>1, <1>2

\* Where the steps of the codes and of the sessions lead to; to none that needs a row.
LEMMA EmailGoes ==
  ASSUME TypeOK, NEW k \in Clients, EmailStep(k), NEW l \in Clients
  PROVE  request'[l] = request[l] \/ request'[l].pc \in {"idle"} \union PlainPcs \union CodePcs
<1>0. request \in [Clients -> Requests]
  BY DEF TypeOK
<1>. USE DEF At, Goto, Done, Idle, Step, CodeStep, PlainPcs, CodePcs
<1>1. CASE SendForget(k) \/ SendStore(k)
  <2>1. request[k] \in [pc : CodePcs, purpose : Purposes, code : 1..MaxMails]
    BY <1>0, <1>1, RequestFields DEF CodePcs, SendForget, SendStore
  <2>. QED
    BY <1>0, <1>1, <2>1 DEF SendForget, SendStore
<1>2. CASE \/ \E p \in Purposes : SendStart(k, p)
           \/ SendCooldown(k) \/ SendLimit(k) \/ SendMail(k) \/ SendCool(k)
           \/ SendCount(k) \/ SendWindow(k)
  BY <1>0, <1>2
     DEF SendStart, SendCooldown, SendLimit, SendMail, SendCool, SendCount, SendWindow
<1>3. CASE \/ \E p \in Purposes : VerifyStart(k, p)
           \/ VerifyLoad(k) \/ VerifyRefuse(k) \/ VerifyRight(k) \/ VerifyWrong(k)
  BY <1>0, <1>3 DEF VerifyStart, VerifyLoad, VerifyRefuse, VerifyRight, VerifyWrong
<1>4. CASE \/ VerifyCountWrong(k) \/ VerifyWrongWindow(k)
           \/ VerifyClearCode(k) \/ VerifyClearTries(k) \/ VerifyFlag(k)
  BY <1>0, <1>4
     DEF VerifyCountWrong, VerifyWrongWindow, VerifyClearCode, VerifyClearTries, VerifyFlag
<1>. QED
  BY <1>1, <1>2, <1>3, <1>4 DEF EmailStep

LEMMA SessionGoes ==
  ASSUME TypeOK, NEW k \in Clients, SessionStep(k), NEW l \in Clients
  PROVE  request'[l] = request[l] \/ request'[l].pc \in {"idle", "revokeList"} \union SessionPcs
<1>0. request \in [Clients -> Requests]
  BY DEF TypeOK
<1>. USE DEF At, Goto, Done, Idle, Sign, SessionPcs
<1>1. ASSUME NEW j \in Issues, IssueRead(k, j) 
      PROVE  request'[l] = request[l] \/ request'[l].pc \in SessionPcs
  <2>1. request[k] \in [pc : {"read"}, todo : SUBSET Issues,
                        found : SUBSET [jti : Issues, at : Issues]]
    BY <1>0, <1>1, RequestFields DEF IssueRead
  <2>. DEFINE todo == request[k].todo \ {j}
              found == IF j \in Live THEN request[k].found \union {[jti |-> j, at |-> slots[j].at]}
                       ELSE request[k].found
  <2>2. request' = [request EXCEPT ![k] = [pc |-> "read", todo |-> todo, found |-> found]]
    <3>. DEFINE r == request[k]
    <3>1. request' = [request EXCEPT ![k] = [r EXCEPT !.todo = todo, !.found = found]]
      BY <1>1 DEF IssueRead
    <3>. HIDE DEF r, todo, found
    <3>2. [r EXCEPT !.todo = todo, !.found = found] = [pc |-> "read", todo |-> todo, found |-> found]
      BY <2>1, ReadForm DEF r
    <3>. QED
      BY <3>1, <3>2
  <2>. QED
    BY <1>0, <2>2
<1>2. CASE RefreshOwner(k)
  <2>1. request[k] \in [pc : {"sign", "owner", "rotate"}, token : Token \union {NoToken}]
    BY <1>0, <1>2, RequestFields DEF RefreshOwner
  <2>. QED
    BY <1>0, <1>2, <2>1 DEF RefreshOwner
<1>3. CASE \/ IssueList(k) \/ IssueOldest(k) \/ IssueEvict(k) \/ IssueDeleteOld(k)
  BY <1>0, <1>3 DEF IssueList, IssueOldest, IssueEvict, IssueDeleteOld
<1>4. CASE \/ IssueSet(k) \/ \E t \in Token : RefreshStart(k, t)
           \/ RevokeList(k) \/ RevokeDelete(k)
  BY <1>0, <1>4 DEF IssueSet, RefreshStart, RevokeList, RevokeDelete
<1>. QED
  BY <1>1, <1>2, <1>3, <1>4 DEF SessionStep

LEMMA AccountGoes ==
  ASSUME TypeOK, NEW k \in Clients, AccountStep(k) \/ FlagStep(k) \/ Abort(k),
         NEW l \in Clients, request'[l].pc \in SessionPcs \union PlainPcs \union CodePcs
  PROVE  request'[l] = request[l]
<1>0. request \in [Clients -> Requests]
  BY DEF TypeOK
<1>. USE DEF SessionPcs, PlainPcs, CodePcs
<1>. USE DEF At, Goto, Done, Idle, Next1
<1>1. CASE AccountStep(k)
  <2>1. \E pc \in AccountPcs \union {"idle"} : request' = [request EXCEPT ![k] = [pc |-> pc]]
        \/ request' = [request EXCEPT ![k] = [pc |-> "profileSave", row |-> user]]
    <3>. USE DEF AccountPcs
    <3>1. CASE SignupStart(k) \/ SignupFind(k) \/ SignupInsert(k)
      BY <3>1 DEF SignupStart, SignupFind, SignupInsert
    <3>2. CASE LoginStart(k) \/ OAuthStart(k) \/ OAuthInsert(k)
      BY <3>2 DEF LoginStart, OAuthStart, OAuthInsert
    <3>3. CASE OAuthCode(k) \/ ExchangeOwner(k) \/ Grant(k) \/ DeactivateStart(k) \/ Deactivate(k)
      BY <3>3 DEF OAuthCode, ExchangeOwner, Grant, DeactivateStart, Deactivate
    <3>4. CASE ReactivateFind(k) \/ Reactivate(k) \/ ProfileStart(k) \/ ProfileSave(k)
      BY <3>4 DEF ReactivateFind, Reactivate, ProfileStart, ProfileSave
    <3>5. CASE \E t \in Tickets : ExchangeStart(k, t) \/ ReactivateStart(k, t)
      BY <3>5 DEF ExchangeStart, ReactivateStart
    <3>. QED
      BY <1>1, <3>1, <3>2, <3>3, <3>4, <3>5 DEF AccountStep
  <2>. QED
    BY <1>0, <2>1 DEF AccountPcs
<1>2. CASE ResetFlag(k)
  <2>1. request[k] \in [pc : {"resetFlag", "resetSave", "profileSave"}, row : Row]
    BY <1>0, <1>2, RequestFields DEF ResetFlag
  <2>. QED
    BY <1>0, <1>2, <2>1 DEF ResetFlag
<1>3. CASE SignupClear(k) \/ ResetStart(k) \/ ResetSave(k) \/ ResetClear(k)
  <2>1. \/ \E pc \in AccountPcs : request' = [request EXCEPT ![k] = [pc |-> pc]]
        \/ request' = [request EXCEPT ![k] = [pc |-> "resetFlag", row |-> user]]
    BY <1>3 DEF SignupClear, ResetStart, ResetSave, ResetClear, AccountPcs
  <2>. QED
    BY <1>0, <2>1 DEF AccountPcs
<1>4. CASE Abort(k)
  BY <1>0, <1>4 DEF Abort
<1>. QED
  BY <1>1, <1>2, <1>3, <1>4 DEF FlagStep

LEMMA StillKnown ==
  ASSUME UserKnown, user' = user,
         \A t \in Tickets : tickets'[t] = "none" \/ tickets'[t] = tickets[t],
         \A l \in Clients : request'[l].pc \in KnownPcs => request[l].pc \in KnownPcs
  PROVE  UserKnown'
BY DEF UserKnown, Exists

LEMMA TypeInit == Init => TypeInv
<1>. SUFFICES ASSUME Init PROVE TypeInv
  OBVIOUS
<1>1. workload \in Workload
  BY WorkloadAssumption DEF Init
<1>2. workload \in Workloads /\ request \in [Clients -> Requests]
  BY RequestForms DEF Init
<1>3. user \in Row \union {NoUser}
  BY <1>1, RowTypes DEF Init, Workload
<1>4. EmailTypes
  BY EmailAssumption DEF Init, EmailInit, EmailTypes, NoCounter, NewHistory, History
<1>5. SessionTypes
  BY SessionAssumption DEF Init, SessionInit, SessionTypes
<1>6. TicketTypes /\ resets \in Nat
  BY TicketAssumption DEF Init, TicketTypes
<1>7. UserKnown
  BY DEF Init, UserKnown, KnownPcs, Idle
<1>. QED
  BY <1>2, <1>3, <1>4, <1>5, <1>6, <1>7 DEF TypeInv, TypeOK, TicketTypes

LEMMA TypeStep == TypeInv /\ [Next]_vars => TypeInv'
<1>. SUFFICES ASSUME TypeInv, [Next]_vars PROVE TypeInv'
  OBVIOUS
<1>0. TypeOK /\ UserKnown
  BY DEF TypeInv
<1>1. ASSUME NEW k \in Clients, EmailStep(k),
             UNCHANGED <<workload, user, sessionVars, ticketVars, resets>>
      PROVE  TypeInv'
  <2>1. EmailTypes' /\ request' \in [Clients -> Requests]
    BY <1>0, <1>1, SendType, VerifyType DEF EmailStep
  <2>2. UserKnown'
    <3>1. \A l \in Clients : request'[l].pc \in KnownPcs => request[l].pc \in KnownPcs
      BY <1>0, <1>1, EmailGoes DEF PlainPcs, CodePcs, KnownPcs
    <3>. QED
      BY <1>0, <1>1, <3>1, StillKnown DEF ticketVars
  <2>. QED
    BY <1>0, <1>1, <2>1, <2>2 DEF TypeInv, TypeOK, SessionTypes, sessionVars, ticketVars
<1>2. ASSUME NEW k \in Clients, SessionStep(k),
             UNCHANGED <<workload, user, emailVars, ticketVars, resets>>
      PROVE  TypeInv'
  <2>1. SessionTypes' /\ request' \in [Clients -> Requests]
    BY <1>0, <1>2, SessionType
  <2>2. UserKnown'
    <3>1. \A l \in Clients : request'[l].pc \in KnownPcs => request[l].pc \in KnownPcs
      BY <1>0, <1>2, SessionGoes DEF KnownPcs, SessionPcs
    <3>. QED
      BY <1>0, <1>2, <3>1, StillKnown DEF ticketVars
  <2>. QED
    BY <1>0, <1>2, <2>1, <2>2 DEF TypeInv, TypeOK, EmailTypes, emailVars, ticketVars
<1>3. ASSUME NEW k \in Clients, AccountStep(k) PROVE TypeInv'
  <2>1. AccountTypes' /\ UserKnown'
    BY <1>3, AccountType, AccountKnown
  <2>2. UNCHANGED <<workload, emailVars, sessionVars, resets>>
    BY <1>3 DEF AccountStep
  <2>. QED
    BY <1>0, <2>1, <2>2
       DEF TypeInv, TypeOK, AccountTypes, TicketTypes, EmailTypes, emailVars, SessionTypes, sessionVars
<1>4. ASSUME NEW k \in Clients, FlagStep(k) PROVE TypeInv'
  <2>1. UNCHANGED <<workload, sessionVars, ticketVars>>
    BY <1>4 DEF FlagStep
  <2>. QED
    BY <1>0, <1>4, <2>1, FlagType DEF TypeInv, TypeOK, SessionTypes, sessionVars, ticketVars
<1>5. ASSUME NEW k \in Clients, Abort(k) PROVE TypeInv'
  <2>1. request' \in [Clients -> Requests] /\ request' = [request EXCEPT ![k] = Idle]
    BY <1>0, <1>5, DoneType DEF TypeOK, Abort, Done, Goto
  <2>2. UserKnown'
    BY <1>0, <1>5, <2>1, StillKnown DEF TypeOK, Abort, Idle, KnownPcs, ticketVars
  <2>. QED
    BY <1>0, <1>5, <2>1, <2>2
       DEF TypeInv, TypeOK, Abort, EmailTypes, emailVars, SessionTypes, sessionVars, ticketVars
<1>6. CASE Expire
  <2>1. UNCHANGED <<workload, request, user, resets>>
    BY <1>6 DEF Expire
  <2>2. CASE EmailExpiry /\ UNCHANGED <<sessionVars, ticketVars>>
    <3>1. EmailTypes'
      BY <1>0, <2>2, EmailExpiryType
    <3>2. UserKnown'
      BY <1>0, <2>1, <2>2, StillKnown DEF ticketVars
    <3>. QED
      BY <1>0, <2>1, <2>2, <3>1, <3>2 DEF TypeInv, TypeOK, SessionTypes, sessionVars, ticketVars
  <2>3. CASE (\E j \in Issues : ExpireSlot(j)) /\ UNCHANGED <<emailVars, ticketVars>>
    <3>1. SessionTypes'
      BY <1>0, <2>3, SlotExpiryType
    <3>2. UserKnown'
      BY <1>0, <2>1, <2>3, StillKnown DEF ticketVars
    <3>. QED
      BY <1>0, <2>1, <2>3, <3>1, <3>2 DEF TypeInv, TypeOK, EmailTypes, emailVars, ticketVars
  <2>4. CASE (\E t \in Tickets : ExpireTicket(t)) /\ UNCHANGED <<emailVars, sessionVars>>
    <3>1. TicketTypes'
      BY <1>0, <2>4 DEF TypeOK, TicketTypes, ExpireTicket
    <3>2. UserKnown'
      BY <1>0, <2>1, <2>4, StillKnown DEF TypeOK, ExpireTicket
    <3>. QED
      BY <1>0, <2>1, <2>4, <3>1, <3>2
         DEF TypeInv, TypeOK, TicketTypes, EmailTypes, emailVars, SessionTypes, sessionVars
  <2>. QED
    BY <1>6, <2>2, <2>3, <2>4 DEF Expire
<1>7. CASE UNCHANGED vars
  <2>1. UserKnown'
    BY <1>0, <1>7, StillKnown DEF vars, ticketVars
  <2>. QED
    BY <1>0, <1>7, <2>1
       DEF TypeInv, TypeOK, vars, EmailTypes, emailVars, SessionTypes, sessionVars, ticketVars
<1>. QED
  BY <1>1, <1>2, <1>3, <1>4, <1>5, <1>6, <1>7 DEF Next

LEMMA TypeInvariant == Spec => []TypeInv
<1>1. Init => TypeInv
  BY TypeInit
<1>2. TypeInv /\ [Next]_vars => TypeInv'
  BY TypeStep
<1>. QED
  BY <1>1, <1>2, PTL DEF Spec

\* Every variable of the accounts keeps its type, whatever requests overlap and
\* fail: a reactivation saves the row of a user that exists (AuthService.ts:256),
\* so a code never turns up a user out of nothing.
THEOREM TypeCorrect == Spec => []TypeOK
<1>1. TypeInv => TypeOK
  BY DEF TypeInv
<1>. QED
  BY <1>1, TypeInvariant, PTL

-----------------------------------------------------------------------------
(* One-time codes are accepted once                                        *)

\* A code that is stored has been made and was not accepted yet; one that was
\* not made was neither stored nor accepted.
TicketInv ==
  \A t \in Tickets :
    /\ redeemed[t] <= 1
    /\ tickets[t] # "none" => t <= made /\ redeemed[t] = 0
    /\ t > made => redeemed[t] = 0

\* What any step does to the codes.
TicketStep ==
  \/ UNCHANGED ticketVars
  \/ \E kind \in {"oauth", "reactivation"} : Make(kind)
  \/ \E t \in Tickets, kind \in {"oauth", "reactivation"} : Redeem(t, kind)
  \/ \E t \in Tickets : ExpireTicket(t)

LEMMA StepOfTickets == [Next]_vars => TicketStep
<1>. USE DEF TicketStep
<1>. SUFFICES ASSUME [Next]_vars, ~ UNCHANGED ticketVars PROVE TicketStep
  OBVIOUS
<1>1. ASSUME NEW k \in Clients, AccountStep(k) PROVE TicketStep
  BY <1>1 DEF AccountStep, Grant, SignupStart, SignupFind, SignupInsert, LoginStart, OAuthStart,
              OAuthInsert, OAuthCode, ExchangeOwner, DeactivateStart, Deactivate,
              ReactivateFind, Reactivate, ProfileStart, ProfileSave, ExchangeStart, ReactivateStart
<1>2. ASSUME NEW k \in Clients, FlagStep(k) \/ Abort(k) PROVE TicketStep
  BY <1>2 DEF FlagStep, Abort
<1>3. CASE Expire
  BY <1>3 DEF Expire
<1>4. CASE UNCHANGED vars
  BY <1>4 DEF vars
<1>. QED
  BY <1>1, <1>2, <1>3, <1>4 DEF Next

LEMMA TicketInvStep == TypeInv /\ TicketInv /\ [Next]_vars => TicketInv'
<1>. SUFFICES ASSUME TypeInv, TicketInv, TicketStep PROVE TicketInv'
  BY StepOfTickets
<1>0. TicketTypes /\ MaxTickets \in Nat
  BY TicketAssumption DEF TypeInv, TypeOK, TicketTypes
<1>. USE DEF TicketTypes, TicketInv, Tickets
<1>1. CASE UNCHANGED ticketVars
  BY <1>0, <1>1 DEF ticketVars
<1>2. ASSUME NEW kind \in {"oauth", "reactivation"}, Make(kind) PROVE TicketInv'
  BY <1>0, <1>2 DEF Make
<1>3. ASSUME NEW t \in Tickets, NEW kind \in {"oauth", "reactivation"}, Redeem(t, kind)
      PROVE  TicketInv'
  <2>1. redeemed[t] = 0 /\ t <= made
    BY <1>0, <1>3 DEF Redeem
  <2>. QED
    BY <1>0, <1>3, <2>1 DEF Redeem
<1>4. ASSUME NEW t \in Tickets, ExpireTicket(t) PROVE TicketInv'
  BY <1>0, <1>4 DEF ExpireTicket
<1>. QED
  BY <1>1, <1>2, <1>3, <1>4 DEF TicketStep

\* An OAuth code and a reactivation token are accepted at most once, however
\* many requests present it at the same time, because one script gets and
\* deletes it (GlobalRedisService.getAndDelete).
THEOREM TicketsCorrect == Spec => []TicketsAreUsedOnce
<1>1. Init => TicketInv
  BY TicketAssumption DEF Init, TicketInv, Tickets
<1>2. TypeInv /\ TicketInv /\ [Next]_vars => TicketInv'
  BY TicketInvStep
<1>3. TicketInv => TicketsAreUsedOnce
  BY DEF TicketInv, TicketsAreUsedOnce
<1>. QED
  BY <1>1, <1>2, <1>3, TypeInvariant, PTL DEF Spec

-----------------------------------------------------------------------------
(* The limit of slots, for requests that come one by one                   *)

FitPcs == {"read", "evict", "sign", "owner", "rotate"}

Jtis(found) == {s.jti : s \in found}

\* What a request has still to write fits: it has seen every slot there is while
\* it looks for the oldest, what it deletes makes room, and a refresh writes to
\* a slot that counts already.
Fits(r) ==
  /\ r.pc = "read" => /\ Live \subseteq r.todo \union Jtis(r.found)
                      /\ Cardinality(r.todo \union Jtis(r.found)) <= MaxSlots
  /\ r.pc = "evict" => Cardinality(Live \ {r.jti}) < MaxSlots
  /\ r.pc = "sign" /\ r.token = NoToken => Cardinality(Live) < MaxSlots
  /\ r.pc \in {"owner", "rotate"} => r.token # NoToken
  /\ r.pc \in {"owner", "rotate", "sign"} /\ r.token # NoToken =>
       Cardinality(Live \union {r.token.jti}) <= MaxSlots

OneAtATime == \A k, l \in Clients : request[k] # Idle /\ request[l] # Idle => k = l

SlotInv ==
  ~workload.overlap =>
    /\ OneAtATime
    /\ Cardinality(Live) <= MaxSlots
    /\ \A k \in Clients : Fits(request[k])

LEMMA DoneGoes ==
  ASSUME NEW k, Done(k)
  PROVE  \E next : request' = [request EXCEPT ![k] = next]
BY Zenon DEF Done, Goto

\* A step is one of a request that is in progress, or starts one.
LEMMA StepOfOne ==
  ASSUME NEW k \in Clients,
         EmailStep(k) \/ SessionStep(k) \/ AccountStep(k) \/ FlagStep(k) \/ Abort(k)
  PROVE  /\ \E next : request' = [request EXCEPT ![k] = next]
         /\ \/ request[k] # Idle
            \/ ~workload.overlap => \A l \in Clients : request[l] = Idle
<1>. USE DEF At, Goto, Done, Idle, MayStart
<1>1. CASE EmailStep(k)
  <2>1. CASE \/ \E p \in Purposes : SendStart(k, p)
             \/ SendCooldown(k) \/ SendLimit(k) \/ SendMail(k) \/ SendForget(k) \/ SendStore(k)
    BY <2>1 DEF SendStart, SendCooldown, SendLimit, SendMail, SendForget, SendStore
  <2>2. CASE SendCool(k) \/ SendCount(k) \/ SendWindow(k)
    BY <2>2 DEF SendCool, SendCount, SendWindow
  <2>3. CASE \/ \E p \in Purposes : VerifyStart(k, p)
             \/ VerifyLoad(k) \/ VerifyRefuse(k) \/ VerifyRight(k) \/ VerifyWrong(k)
    BY <2>3 DEF VerifyStart, VerifyLoad, VerifyRefuse, VerifyRight, VerifyWrong
  <2>4. CASE \/ VerifyCountWrong(k) \/ VerifyWrongWindow(k)
             \/ VerifyClearCode(k) \/ VerifyClearTries(k) \/ VerifyFlag(k)
    BY <2>4
       DEF VerifyCountWrong, VerifyWrongWindow, VerifyClearCode, VerifyClearTries, VerifyFlag
  <2>. QED
    BY <1>1, <2>1, <2>2, <2>3, <2>4 DEF EmailStep
<1>2. CASE SessionStep(k)
  <2>1. CASE IssueList(k) \/ IssueOldest(k) \/ IssueEvict(k) \/ IssueDeleteOld(k)
    BY <2>1 DEF IssueList, IssueOldest, IssueEvict, IssueDeleteOld
  <2>2. CASE \/ IssueSet(k) \/ \E j \in Issues : IssueRead(k, j)
             \/ \E t \in Token : RefreshStart(k, t)
    <3>1. ASSUME NEW j \in Issues, IssueRead(k, j)
          PROVE  request[k] # Idle /\ \E next : request' = [request EXCEPT ![k] = next]
      <4>. DEFINE r == request[k]
                  todo == r.todo \ {j}
                  found == IF j \in Live THEN r.found \union {[jti |-> j, at |-> slots[j].at]}
                           ELSE r.found
      <4>1. request' = [request EXCEPT ![k] = [r EXCEPT !.todo = todo, !.found = found]]
        BY <3>1 DEF IssueRead
      <4>2. request[k] # Idle
        BY <3>1 DEF IssueRead
      <4>. HIDE DEF r, todo, found
      <4>3. \E next : next = [r EXCEPT !.todo = todo, !.found = found]
        OBVIOUS
      <4>. QED
        BY <4>1, <4>2, <4>3, Zenon
    <3>2. CASE IssueSet(k)
      <4>1. request[k].pc = "sign" /\ Done(k)
        BY <3>2 DEF IssueSet
      <4>2. request[k] # Idle
        BY <4>1
      <4>3. \E next : request' = [request EXCEPT ![k] = next]
        BY <4>1, DoneGoes
      <4>. QED
        BY <4>2, <4>3, Zenon
    <3>3. CASE \E t \in Token : RefreshStart(k, t)
      BY <3>3 DEF RefreshStart
    <3>. QED
      BY <2>2, <3>1, <3>2, <3>3
  <2>3. CASE RefreshOwner(k) \/ RevokeList(k) \/ RevokeDelete(k)
    BY <2>3 DEF RefreshOwner, RevokeList, RevokeDelete
  <2>. QED
    BY <1>2, <2>1, <2>2, <2>3 DEF SessionStep
<1>3. CASE AccountStep(k)
  <2>1. CASE SignupStart(k) \/ SignupFind(k) \/ SignupInsert(k) \/ LoginStart(k) \/ OAuthStart(k)
    BY <2>1 DEF SignupStart, SignupFind, SignupInsert, LoginStart, OAuthStart
  <2>2. CASE \/ OAuthInsert(k) \/ OAuthCode(k) \/ ExchangeOwner(k) \/ Grant(k)
             \/ DeactivateStart(k) \/ Deactivate(k)
    BY <2>2 DEF OAuthInsert, OAuthCode, ExchangeOwner, Grant, DeactivateStart, Deactivate
  <2>3. CASE ReactivateFind(k) \/ Reactivate(k) \/ ProfileStart(k) \/ ProfileSave(k)
    <3>1. CASE ReactivateFind(k) \/ Reactivate(k)
      BY <3>1 DEF ReactivateFind, Reactivate
    <3>2. CASE ProfileStart(k)
      BY <3>2 DEF ProfileStart
    <3>3. CASE ProfileSave(k)
      <4>1. request[k].pc = "profileSave" /\ Done(k)
        BY <3>3 DEF ProfileSave
      <4>2. request[k] # Idle
        BY <4>1
      <4>3. \E next : request' = [request EXCEPT ![k] = next]
        BY <4>1, DoneGoes
      <4>. QED
        BY <4>2, <4>3, Zenon
    <3>. QED
      BY <2>3, <3>1, <3>2, <3>3
  <2>4. CASE \E t \in Tickets : ExchangeStart(k, t) \/ ReactivateStart(k, t)
    BY <2>4 DEF ExchangeStart, ReactivateStart
  <2>. QED
    BY <1>3, <2>1, <2>2, <2>3, <2>4 DEF AccountStep
<1>4. CASE FlagStep(k) \/ Abort(k)
  <2>1. CASE SignupClear(k) \/ ResetSave(k) \/ ResetClear(k)
    <3>1. request[k].pc \in {"signupClear", "resetSave", "resetClear"}
      BY <2>1 DEF SignupClear, ResetSave, ResetClear
    <3>2. \E pc \in AccountPcs : request' = [request EXCEPT ![k] = [pc |-> pc]]
      BY <2>1 DEF SignupClear, ResetSave, ResetClear, AccountPcs, Next1
    <3>3. \E next : request' = [request EXCEPT ![k] = next]
      BY <3>2, Zenon
    <3>4. request[k] # Idle
      BY <3>1
    <3>. QED
      BY <3>3, <3>4, Zenon
  <2>2. CASE ResetStart(k)
    BY <2>2 DEF ResetStart
  <2>3. CASE ResetFlag(k)
    BY <2>3 DEF ResetFlag
  <2>4. CASE Abort(k)
    BY <2>4 DEF Abort
  <2>. QED
    BY <1>4, <2>1, <2>2, <2>3, <2>4 DEF FlagStep
<1>. QED
  BY <1>1, <1>2, <1>3, <1>4

LEMMA StaysOneAtATime ==
  ASSUME TypeOK, NEW k \in Clients, ~workload.overlap, OneAtATime,
         EmailStep(k) \/ SessionStep(k) \/ AccountStep(k) \/ FlagStep(k) \/ Abort(k)
  PROVE  OneAtATime' /\ \A l \in Clients \ {k} : request[l] = Idle /\ request'[l] = Idle
<1>1. request \in [Clients -> Requests]
  BY DEF TypeOK
<1>2. PICK next : request' = [request EXCEPT ![k] = next]
  BY StepOfOne
<1>3. \A l \in Clients \ {k} : request[l] = Idle
  BY StepOfOne DEF OneAtATime
<1>. QED
  BY <1>1, <1>2, <1>3 DEF OneAtATime

LEMMA LiveIsFinite ==
  /\ IsFiniteSet(Issues)
  /\ IsFiniteSet(Live) /\ Cardinality(Live) \in Nat
  /\ \A S \in SUBSET Issues : IsFiniteSet(S) /\ Cardinality(S) \in Nat
  /\ \A S \in SUBSET Issues : \A T \in SUBSET S : Cardinality(T) <= Cardinality(S)
<1>1. IsFiniteSet(Issues)
  BY SessionAssumption, FS_Interval DEF Issues
<1>2. \A S \in SUBSET Issues : IsFiniteSet(S) /\ Cardinality(S) \in Nat
  BY <1>1, FS_Subset, FS_CardinalityType
<1>3. \A S \in SUBSET Issues : \A T \in SUBSET S : Cardinality(T) <= Cardinality(S)
  BY <1>2, FS_Subset
<1>. QED
  BY <1>1, <1>2, <1>3 DEF Live

\* What fits, still fits when slots are deleted.
LEMMA FitsShrinks ==
  ASSUME Live' \subseteq Live, NEW k \in Clients, request \in [Clients -> Requests],
         request'[k] = request[k], Fits(request[k])
  PROVE  Fits(request[k])'
<1>. DEFINE r == request[k]
<1>0. Live \subseteq Issues
  BY DEF Live
<1>1. r.pc = "evict" => Cardinality(Live' \ {r.jti}) < MaxSlots
  <2>1. /\ Live' \ {r.jti} \subseteq Live \ {r.jti} /\ Live \ {r.jti} \subseteq Issues
    BY <1>0
  <2>. QED
    BY <2>1, LiveIsFinite, SessionAssumption DEF Fits
<1>2. Cardinality(Live') <= Cardinality(Live) /\ Cardinality(Live') \in Nat
  BY <1>0, LiveIsFinite
<1>3. r.pc \in {"owner", "rotate", "sign"} /\ r.token # NoToken =>
        Cardinality(Live' \union {r.token.jti}) <= MaxSlots
  <2>. SUFFICES ASSUME r.pc \in {"owner", "rotate", "sign"}, r.token # NoToken
                PROVE  Cardinality(Live' \union {r.token.jti}) <= MaxSlots
    OBVIOUS
  <2>1. r.token.jti \in Issues
    BY RequestFields DEF Token
  <2>2. /\ Live' \union {r.token.jti} \subseteq Live \union {r.token.jti}
        /\ Live \union {r.token.jti} \subseteq Issues
    BY <1>0, <2>1
  <2>. QED
    BY <2>2, LiveIsFinite, SessionAssumption DEF Fits
<1>. QED
  BY <1>1, <1>2, <1>3, LiveIsFinite, SessionAssumption DEF Fits

\* Steps that write no slot and leave the requests that look at slots alone.
LEMMA OthersFit ==
  ASSUME TypeOK, NEW k \in Clients, ~workload.overlap, SlotInv, Live' \subseteq Live,
         workload' = workload,
         EmailStep(k) \/ SessionStep(k) \/ AccountStep(k) \/ FlagStep(k) \/ Abort(k),
         request'[k] = request[k] \/ request'[k].pc \notin FitPcs
  PROVE  SlotInv'
<1>1. OneAtATime' /\ \A l \in Clients \ {k} : request[l] = Idle /\ request'[l] = Idle
  BY StaysOneAtATime DEF SlotInv
<1>2. Cardinality(Live') <= MaxSlots
  BY LiveIsFinite, SessionAssumption DEF SlotInv, Live
<1>3. ASSUME NEW l \in Clients PROVE Fits(request[l])'
  <2>1. CASE request'[l] = request[l]
    BY <2>1, FitsShrinks DEF TypeOK, SlotInv
  <2>2. CASE request'[l] # request[l]
    <3>1. request'[l].pc \notin FitPcs
      BY <1>1, <2>2
    <3>. QED
      BY <3>1 DEF Fits, FitPcs
  <2>. QED
    BY <2>1, <2>2
<1>. QED
  BY <1>1, <1>2, <1>3 DEF SlotInv

\* Steps of the request that looks at slots: what it has still to do fits, and so
\* do the slots.
LEMMA MineFits ==
  ASSUME TypeOK, NEW k \in Clients, ~workload.overlap, SlotInv, SessionStep(k),
         Cardinality(Live') <= MaxSlots, Fits(request[k])'
  PROVE  SlotInv'
<1>1. OneAtATime' /\ \A l \in Clients \ {k} : request'[l] = Idle
  BY StaysOneAtATime DEF SlotInv
<1>2. \A l \in Clients : Fits(request[l])'
  <2>. SUFFICES ASSUME NEW l \in Clients, l # k PROVE Fits(request[l])'
    OBVIOUS
  <2>1. request'[l].pc = "idle"
    BY <1>1 DEF Idle
  <2>. QED
    BY <2>1 DEF Fits
<1>. QED
  BY <1>1, <1>2 DEF SlotInv

LEMMA ListFits ==
  ASSUME TypeOK, NEW k \in Clients, ~workload.overlap, SlotInv, IssueList(k)
  PROVE  SlotInv'
<1>1. Live' = Live /\ request \in [Clients -> Requests]
  BY DEF IssueList, sessionVars, Live, TypeOK
<1>2. Cardinality(Live) \in Nat /\ Cardinality(Live) <= MaxSlots
  BY LiveIsFinite DEF SlotInv
<1>3. CASE NeedsEviction(Live)
  <2>1. request'[k] = [pc |-> "read", todo |-> Live, found |-> {}]
    BY <1>1, <1>3 DEF IssueList, Goto
  <2>2. Live \union Jtis({}) = Live
    BY DEF Jtis
  <2>3. Fits(request[k])'
    BY <1>1, <1>2, <2>1, <2>2 DEF Fits
  <2>. QED
    BY <1>1, <1>2, <2>3, MineFits DEF SessionStep
<1>4. CASE ~NeedsEviction(Live)
  <2>1. request'[k] = [pc |-> "sign", token |-> NoToken]
    BY <1>1, <1>4 DEF IssueList, Goto, Sign
  <2>2. Cardinality(Live) < MaxSlots
    BY <1>2, <1>4, SessionAssumption DEF NeedsEviction
  <2>3. Fits(request[k])'
    BY <1>1, <2>1, <2>2 DEF Fits
  <2>. QED
    BY <1>1, <1>2, <2>3, MineFits DEF SessionStep
<1>. QED
  BY <1>3, <1>4

LEMMA ReadFits ==
  ASSUME TypeOK, NEW k \in Clients, ~workload.overlap, SlotInv, NEW j \in Issues, IssueRead(k, j)
  PROVE  SlotInv'
<1>. DEFINE r == request[k]
            todo == r.todo \ {j}
            found == IF j \in Live THEN r.found \union {[jti |-> j, at |-> slots[j].at]}
                     ELSE r.found
<1>1. Live' = Live /\ request \in [Clients -> Requests]
  BY DEF IssueRead, sessionVars, Live, TypeOK
<1>2. /\ r \in [pc : {"read"}, todo : SUBSET Issues, found : SUBSET [jti : Issues, at : Issues]]
      /\ j \in r.todo
  BY <1>1, RequestFields DEF IssueRead, At
<1>3. request'[k] = [pc |-> "read", todo |-> todo, found |-> found]
  <2>1. request' = [request EXCEPT ![k] = [r EXCEPT !.todo = todo, !.found = found]]
    BY DEF IssueRead, Goto
  <2>. HIDE DEF r, todo, found
  <2>2. [r EXCEPT !.todo = todo, !.found = found] = [pc |-> "read", todo |-> todo, found |-> found]
    BY <1>2, ReadForm
  <2>. QED
    BY <1>1, <2>1, <2>2
<1>4. /\ Live \subseteq r.todo \union Jtis(r.found)
      /\ Cardinality(r.todo \union Jtis(r.found)) <= MaxSlots
  BY <1>2 DEF SlotInv, Fits
<1>5. r.todo \union Jtis(r.found) \subseteq Issues
  BY <1>2 DEF Jtis
<1>6. Live \subseteq todo \union Jtis(found)
  <2>1. Jtis(r.found) \subseteq Jtis(found) /\ (j \in Live => j \in Jtis(found))
    <3>1. /\ r.found \subseteq found
          /\ j \in Live => [jti |-> j, at |-> slots[j].at] \in found
      OBVIOUS
    <3>2. j \in Live => \E s \in found : s.jti = j
      BY <3>1
    <3>. HIDE DEF r, found
    <3>. QED
      BY <3>1, <3>2 DEF Jtis
  <2>. HIDE DEF found
  <2>. QED
    BY <1>4, <2>1
<1>7. todo \union Jtis(found) \subseteq r.todo \union Jtis(r.found)
  <2>1. Jtis(found) \subseteq Jtis(r.found) \union {j}
    BY DEF Jtis
  <2>. HIDE DEF found
  <2>. QED
    BY <1>2, <2>1
<1>8. Cardinality(todo \union Jtis(found)) <= MaxSlots
  <2>. HIDE DEF r, todo, found
  <2>1. /\ Cardinality(todo \union Jtis(found)) <= Cardinality(r.todo \union Jtis(r.found))
        /\ Cardinality(todo \union Jtis(found)) \in Nat
        /\ Cardinality(r.todo \union Jtis(r.found)) \in Nat
    BY <1>5, <1>7, LiveIsFinite
  <2>. QED
    BY <1>4, <2>1, SessionAssumption
<1>9. Fits(request[k])'
  <2>. HIDE DEF r, todo, found
  <2>. QED
    BY <1>1, <1>3, <1>6, <1>8 DEF Fits
<1>10. SessionStep(k) /\ Cardinality(Live') <= MaxSlots
  BY <1>1 DEF SlotInv, SessionStep
<1>. QED
  BY <1>9, <1>10, MineFits

LEMMA OldestFits ==
  ASSUME TypeOK, NEW k \in Clients, ~workload.overlap, SlotInv, IssueOldest(k)
  PROVE  SlotInv'
<1>. DEFINE r == request[k]
<1>1. Live' = Live /\ request \in [Clients -> Requests]
  BY DEF IssueOldest, sessionVars, Live, TypeOK
<1>2. /\ r.pc = "read" /\ r.todo = {} /\ r.found \in SUBSET [jti : Issues, at : Issues]
  BY <1>1, RequestFields DEF IssueOldest, At
<1>3. Live \subseteq Jtis(r.found) /\ Cardinality(Jtis(r.found)) <= MaxSlots
  <2>1. r.todo \union Jtis(r.found) = Jtis(r.found)
    BY <1>2
  <2>. QED
    BY <1>2, <2>1 DEF SlotInv, Fits
<1>4. Jtis(r.found) \subseteq Issues
  BY <1>2 DEF Jtis
<1>5. SessionStep(k) /\ Cardinality(Live') <= MaxSlots
  BY <1>1 DEF SlotInv, SessionStep
<1>6. CASE r.found = {}
  <2>1. request'[k] = [pc |-> "sign", token |-> NoToken]
    BY <1>1, <1>6 DEF IssueOldest, Goto, Sign
  <2>2. Live = {}
    BY <1>3, <1>6 DEF Jtis
  <2>3. Cardinality(Live) < MaxSlots
    BY <2>2, FS_EmptySet, SessionAssumption
  <2>4. Fits(request[k])'
    BY <1>1, <2>1, <2>3 DEF Fits
  <2>. QED
    BY <1>5, <2>4, MineFits
<1>7. CASE r.found # {}
  <2>1. PICK s \in r.found : request' = [request EXCEPT ![k] = [pc |-> "evict", jti |-> s.jti]]
    BY <1>7 DEF IssueOldest, Goto
  <2>2. request'[k] = [pc |-> "evict", jti |-> s.jti]
    BY <1>1, <2>1
  <2>3. s.jti \in Jtis(r.found)
    BY <2>1 DEF Jtis
  <2>4. IsFiniteSet(Jtis(r.found)) /\ Cardinality(Jtis(r.found)) \in Nat
    BY <1>4, LiveIsFinite
  <2>5. Cardinality(Jtis(r.found) \ {s.jti}) = Cardinality(Jtis(r.found)) - 1
    BY <2>3, <2>4, FS_RemoveElement
  <2>6. /\ Cardinality(Live \ {s.jti}) <= Cardinality(Jtis(r.found) \ {s.jti})
        /\ Cardinality(Live \ {s.jti}) \in Nat
    <3>1. /\ Live \ {s.jti} \subseteq Jtis(r.found) \ {s.jti}
          /\ Jtis(r.found) \ {s.jti} \subseteq Issues
      BY <1>3, <1>4
    <3>. QED
      BY <3>1, LiveIsFinite
  <2>7. Cardinality(Live \ {s.jti}) < MaxSlots
    BY <1>3, <2>4, <2>5, <2>6, SessionAssumption
  <2>8. Fits(request[k])'
    BY <1>1, <2>2, <2>7 DEF Fits
  <2>. QED
    BY <1>5, <2>8, MineFits
<1>. QED
  BY <1>6, <1>7

LEMMA EvictFits ==
  ASSUME TypeOK, NEW k \in Clients, ~workload.overlap, SlotInv, IssueEvict(k)
  PROVE  SlotInv'
<1>1. request \in [Clients -> Requests] /\ slots \in [Issues -> Slot \union {NoSlot}]
  BY DEF TypeOK, SessionTypes
<1>2. request'[k] = [pc |-> "sign", token |-> NoToken]
  BY <1>1 DEF IssueEvict, Goto, Sign
<1>3. Live' = Live \ {request[k].jti}
  BY <1>1 DEF IssueEvict, Live
<1>4. Cardinality(Live') < MaxSlots
  BY <1>3 DEF IssueEvict, At, SlotInv, Fits
<1>5. Cardinality(Live') \in Nat
  BY <1>3, LiveIsFinite DEF Live
<1>6. Fits(request[k])'
  BY <1>2, <1>4 DEF Fits
<1>. QED
  BY <1>4, <1>5, <1>6, MineFits, SessionAssumption DEF SessionStep

LEMMA RotateFits ==
  ASSUME TypeOK, NEW k \in Clients, ~workload.overlap, SlotInv,
         IssueDeleteOld(k) \/ RefreshOwner(k)
  PROVE  SlotInv'
<1>. DEFINE t == request[k].token
<1>1. request \in [Clients -> Requests] /\ slots \in [Issues -> Slot \union {NoSlot}]
  BY DEF TypeOK, SessionTypes
<1>2. request[k] \in [pc : {"sign", "owner", "rotate"}, token : Token \union {NoToken}]
  BY <1>1, RequestFields DEF IssueDeleteOld, RefreshOwner, At
<1>3. t # NoToken /\ Cardinality(Live \union {t.jti}) <= MaxSlots
  BY DEF SlotInv, Fits, IssueDeleteOld, RefreshOwner, At
<1>4. t.jti \in Issues /\ Live \union {t.jti} \subseteq Issues
  BY <1>2, <1>3 DEF Token, Live
<1>5. Live' \subseteq Live
  BY <1>1 DEF IssueDeleteOld, RefreshOwner, sessionVars, Live
<1>6. Cardinality(Live' \union {t.jti}) <= MaxSlots
  <2>1. Live' \union {t.jti} \subseteq Live \union {t.jti}
    BY <1>5
  <2>2. /\ Cardinality(Live' \union {t.jti}) <= Cardinality(Live \union {t.jti})
        /\ Cardinality(Live' \union {t.jti}) \in Nat /\ Cardinality(Live \union {t.jti}) \in Nat
    BY <1>4, <2>1, LiveIsFinite
  <2>. HIDE DEF t
  <2>. QED
    BY <1>3, <2>2, SessionAssumption
<1>7. request'[k] = [pc |-> "sign", token |-> t] \/ request'[k] = [pc |-> "rotate", token |-> t]
      \/ request'[k] = Idle
  BY <1>1, <1>2 DEF IssueDeleteOld, RefreshOwner, Goto, Done, Sign
<1>8. Fits(request[k])'
  <2>. HIDE DEF t
  <2>. QED
    BY <1>3, <1>6, <1>7 DEF Fits, Idle
<1>9. Cardinality(Live') <= MaxSlots
  <2>1. Cardinality(Live') <= Cardinality(Live) /\ Cardinality(Live') \in Nat
    BY <1>5, LiveIsFinite DEF Live
  <2>. QED
    BY <2>1, LiveIsFinite, SessionAssumption DEF SlotInv
<1>. QED
  BY <1>8, <1>9, MineFits DEF SessionStep

LEMMA RefreshFits ==
  ASSUME TypeOK, NEW k \in Clients, ~workload.overlap, SlotInv, NEW t \in Token,
         RefreshStart(k, t)
  PROVE  SlotInv'
<1>1. request \in [Clients -> Requests] /\ Live' = Live /\ Cardinality(Live) <= MaxSlots
  BY DEF TypeOK, RefreshStart, sessionVars, Live, SlotInv
<1>2. CASE slots[t.jti].token = t.number
  <2>1. request'[k] = [pc |-> "owner", token |-> t]
    BY <1>1, <1>2 DEF RefreshStart, Goto
  <2>2. t.jti \in Issues /\ t.number # 0 /\ t # NoToken
    BY DEF Token, Issues, NoToken
  <2>3. t.jti \in Live
    BY <1>2, <2>2 DEF Live, NoSlot
  <2>4. Live \union {t.jti} = Live
    BY <2>3
  <2>5. Fits(request[k])'
    BY <1>1, <2>1, <2>2, <2>4 DEF Fits
  <2>. QED
    BY <1>1, <2>5, MineFits DEF SessionStep
<1>3. CASE slots[t.jti].token # t.number
  <2>1. request'[k] = [pc |-> "revokeList"]
    BY <1>1, <1>3 DEF RefreshStart, Goto
  <2>2. Fits(request[k])'
    BY <2>1 DEF Fits
  <2>. QED
    BY <1>1, <2>2, MineFits DEF SessionStep
<1>. QED
  BY <1>2, <1>3

LEMMA SetFits ==
  ASSUME TypeOK, NEW k \in Clients, ~workload.overlap, SlotInv, IssueSet(k)
  PROVE  SlotInv'
<1>. DEFINE t == request[k].token
<1>1. request \in [Clients -> Requests] /\ slots \in [Issues -> Slot \union {NoSlot}]
      /\ clock \in Nat
  BY SessionAssumption DEF TypeOK, SessionTypes
<1>2. PICK new \in NewTokens(t) :
        slots' = [slots EXCEPT ![new.jti] = [token |-> new.number, at |-> clock']]
  BY DEF IssueSet
<1>3. Live' \subseteq Live \union {new.jti}
  BY <1>1, <1>2 DEF Live
<1>4. Live' \subseteq Issues /\ Cardinality(Live') \in Nat
  BY LiveIsFinite, IssueTypes DEF Live, SessionTypes
<1>5. Cardinality(Live') <= MaxSlots
  <2>1. CASE t = NoToken
    <3>1. Cardinality(Live) < MaxSlots
      BY <2>1 DEF SlotInv, Fits, IssueSet, At
    <3>2. IsFiniteSet(Live) /\ Cardinality(Live) \in Nat
      BY LiveIsFinite
    <3>3. IsFiniteSet(Live \union {new.jti})
          /\ Cardinality(Live \union {new.jti}) <= Cardinality(Live) + 1
          /\ Cardinality(Live \union {new.jti}) \in Nat
      <4>1. /\ IsFiniteSet(Live \union {new.jti})
            /\ \/ Cardinality(Live \union {new.jti}) = Cardinality(Live)
               \/ Cardinality(Live \union {new.jti}) = Cardinality(Live) + 1
        BY <3>2, FS_AddElement
      <4>. QED
        BY <3>2, <4>1
    <3>4. Cardinality(Live') <= Cardinality(Live \union {new.jti})
      BY <1>3, <3>3, FS_Subset
    <3>. QED
      BY <1>4, <3>1, <3>2, <3>3, <3>4, SessionAssumption
  <2>2. CASE t # NoToken
    <3>1. Cardinality(Live \union {t.jti}) <= MaxSlots
      BY <2>2 DEF SlotInv, Fits, IssueSet, At
    <3>2. new.jti = t.jti
      BY <1>2, <2>2 DEF NewTokens
    <3>3. IsFiniteSet(Live \union {t.jti}) /\ Cardinality(Live \union {t.jti}) \in Nat
      BY LiveIsFinite, FS_AddElement, FS_CardinalityType
    <3>4. Cardinality(Live') <= Cardinality(Live \union {t.jti})
      BY <1>3, <3>2, <3>3, FS_Subset
    <3>. HIDE DEF t
    <3>. QED
      BY <1>4, <3>1, <3>3, <3>4, SessionAssumption
  <2>. QED
    BY <2>1, <2>2
<1>6. request'[k] = Idle
  BY <1>1 DEF IssueSet, Done, Goto
<1>7. Fits(request[k])'
  BY <1>6 DEF Fits, Idle
<1>. QED
  BY <1>5, <1>7, MineFits DEF SessionStep

LEMMA RevokeFits ==
  ASSUME TypeOK, NEW k \in Clients, ~workload.overlap, SlotInv, workload' = workload,
         RevokeList(k) \/ RevokeDelete(k)
  PROVE  SlotInv'
<1>1. request \in [Clients -> Requests]
  BY DEF TypeOK
<1>2. Live' \subseteq Live
  BY DEF RevokeList, RevokeDelete, sessionVars, Live
<1>3. request'[k].pc \notin FitPcs
  BY <1>1 DEF RevokeList, RevokeDelete, Goto, Done, Idle, FitPcs
<1>. QED
  BY <1>2, <1>3, OthersFit DEF SessionStep

LEMMA SlotInvStep == TypeInv /\ SlotInv /\ [Next]_vars => SlotInv'
<1>. SUFFICES ASSUME TypeInv, SlotInv, [Next]_vars, ~workload.overlap PROVE SlotInv'
  <2>1. [Next]_vars => workload' = workload
    BY DEF Next, AccountStep, FlagStep, Abort, Expire, vars
  <2>. QED
    BY <2>1 DEF SlotInv
<1>0. TypeOK /\ request \in [Clients -> Requests]
  BY DEF TypeInv, TypeOK
<1>1. ASSUME NEW k \in Clients, EmailStep(k), UNCHANGED <<workload, sessionVars>> PROVE SlotInv'
  <2>1. request'[k] = request[k] \/ request'[k].pc \notin FitPcs
    BY <1>0, <1>1, EmailGoes DEF PlainPcs, CodePcs, FitPcs
  <2>2. Live' \subseteq Live
    BY <1>1 DEF sessionVars, Live
  <2>. QED
    BY <1>0, <1>1, <2>1, <2>2, OthersFit
<1>2. ASSUME NEW k \in Clients, SessionStep(k), workload' = workload PROVE SlotInv'
  BY <1>0, <1>2, ListFits, ReadFits, OldestFits, EvictFits, RotateFits, RefreshFits, SetFits,
     RevokeFits DEF SessionStep
<1>3. ASSUME NEW k \in Clients, AccountStep(k) \/ FlagStep(k) \/ Abort(k) PROVE SlotInv'
  <2>1. UNCHANGED sessionVars /\ workload' = workload
    BY <1>3 DEF AccountStep, FlagStep, Abort
  <2>2. request'[k] = request[k] \/ request'[k].pc \notin FitPcs
    BY <1>0, <1>3, AccountGoes DEF SessionPcs, FitPcs
  <2>3. Live' \subseteq Live
    BY <2>1 DEF sessionVars, Live
  <2>. QED
    BY <1>0, <1>3, <2>1, <2>2, <2>3, OthersFit
<1>4. ASSUME UNCHANGED <<workload, request>>, Live' \subseteq Live PROVE SlotInv'
  <2>1. Cardinality(Live') <= MaxSlots
    BY <1>4, LiveIsFinite, SessionAssumption DEF SlotInv, Live
  <2>2. \A l \in Clients : Fits(request[l])'
    BY <1>0, <1>4, FitsShrinks DEF SlotInv
  <2>3. OneAtATime'
    BY <1>4 DEF OneAtATime, SlotInv
  <2>. QED
    BY <2>1, <2>2, <2>3 DEF SlotInv
<1>5. CASE Expire
  <2>1. Live' \subseteq Live
    <3>1. CASE UNCHANGED sessionVars
      BY <3>1 DEF sessionVars, Live
    <3>2. CASE \E j \in Issues : ExpireSlot(j)
      BY <1>0, <3>2 DEF ExpireSlot, Live, TypeOK, SessionTypes
    <3>. QED
      BY <1>5, <3>1, <3>2 DEF Expire
  <2>. QED
    BY <1>4, <1>5, <2>1 DEF Expire
<1>6. CASE UNCHANGED vars
  BY <1>4, <1>6 DEF vars, sessionVars, Live
<1>. QED
  BY <1>1, <1>2, <1>3, <1>5, <1>6 DEF Next

LEMMA SlotInit == Init => SlotInv
<1>. SUFFICES ASSUME Init PROVE SlotInv
  OBVIOUS
<1>1. Live = {}
  BY DEF Init, SessionInit, Live
<1>2. Cardinality(Live) <= MaxSlots
  BY <1>1, FS_EmptySet, SessionAssumption
<1>. QED
  BY <1>2 DEF Init, SlotInv, OneAtATime, Fits, Idle

\* If requests come one by one a user never has more than three slots, whatever
\* fails on the way and whichever token a client presents: a login that finds the
\* limit reached has seen every slot and deletes one of them before it writes
\* (AuthService.issueTokens).
THEOREM SlotsCorrect == Spec => []SlotsAreLimited
<1>1. Init => SlotInv
  BY SlotInit
<1>2. TypeInv /\ SlotInv /\ [Next]_vars => SlotInv'
  BY SlotInvStep
<1>3. SlotInv => SlotsAreLimited
  BY DEF SlotInv, SlotsAreLimited
<1>. QED
  BY <1>1, <1>2, <1>3, TypeInvariant, PTL DEF Spec

-----------------------------------------------------------------------------
(* Who is at work: the request that takes a step                           *)

LEMMA OthersStay ==
  ASSUME TypeOK, NEW k \in Clients,
         EmailStep(k) \/ SessionStep(k) \/ AccountStep(k) \/ FlagStep(k) \/ Abort(k)
  PROVE  \A l \in Clients : l # k => request'[l] = request[l]
<1>1. PICK next : request' = [request EXCEPT ![k] = next]
  BY StepOfOne
<1>. QED
  BY <1>1 DEF TypeOK

LEMMA EmailStarts ==
  ASSUME NEW k \in Clients, EmailStep(k)
  PROVE  request[k].pc \in {"idle"} \union PlainPcs \union CodePcs
<1>. USE DEF At, MayStart, Idle, PlainPcs, CodePcs
<1>1. CASE \/ \E p \in Purposes : SendStart(k, p)
           \/ SendCooldown(k) \/ SendLimit(k) \/ SendMail(k) \/ SendForget(k)
           \/ SendStore(k) \/ SendCool(k) \/ SendCount(k) \/ SendWindow(k)
  BY <1>1 DEF SendStart, SendCooldown, SendLimit, SendMail, SendForget, SendStore, SendCool,
              SendCount, SendWindow
<1>2. CASE \/ \E p \in Purposes : VerifyStart(k, p)
           \/ VerifyLoad(k) \/ VerifyRefuse(k) \/ VerifyRight(k) \/ VerifyWrong(k)
           \/ VerifyCountWrong(k) \/ VerifyWrongWindow(k)
           \/ VerifyClearCode(k) \/ VerifyClearTries(k) \/ VerifyFlag(k)
  BY <1>2 DEF VerifyStart, VerifyLoad, VerifyRefuse, VerifyRight, VerifyWrong,
              VerifyCountWrong, VerifyWrongWindow, VerifyClearCode, VerifyClearTries, VerifyFlag
<1>. QED
  BY <1>1, <1>2 DEF EmailStep

LEMMA SessionStarts ==
  ASSUME NEW k \in Clients, SessionStep(k)
  PROVE  request[k].pc \in {"idle", "list", "revokeList"} \union SessionPcs
<1>. USE DEF At, MayStart, Idle, SessionPcs
<1>1. CASE IssueList(k) \/ IssueOldest(k) \/ IssueEvict(k) \/ IssueDeleteOld(k) \/ IssueSet(k)
  BY <1>1 DEF IssueList, IssueOldest, IssueEvict, IssueDeleteOld, IssueSet
<1>2. CASE (\E j \in Issues : IssueRead(k, j)) \/ (\E t \in Token : RefreshStart(k, t))
  <2>1. CASE \E j \in Issues : IssueRead(k, j)
    BY <2>1, Zenon DEF IssueRead
  <2>2. CASE \E t \in Token : RefreshStart(k, t)
    BY <2>2 DEF RefreshStart
  <2>. QED
    BY <1>2, <2>1, <2>2
<1>3. CASE RefreshOwner(k) \/ RevokeList(k) \/ RevokeDelete(k)
  BY <1>3 DEF RefreshOwner, RevokeList, RevokeDelete
<1>. QED
  BY <1>1, <1>2, <1>3 DEF SessionStep

LEMMA AccountStarts ==
  ASSUME NEW k \in Clients, AccountStep(k) \/ FlagStep(k)
  PROVE  request[k].pc \notin PlainPcs \union CodePcs \union SessionPcs
<1>. USE DEF At, MayStart, Idle, PlainPcs, CodePcs, SessionPcs
<1>1. CASE SignupStart(k) \/ SignupFind(k) \/ SignupInsert(k) \/ LoginStart(k)
  BY <1>1 DEF SignupStart, SignupFind, SignupInsert, LoginStart
<1>2. CASE OAuthStart(k) \/ OAuthInsert(k) \/ OAuthCode(k) \/ ExchangeOwner(k) \/ Grant(k)
  BY <1>2 DEF OAuthStart, OAuthInsert, OAuthCode, ExchangeOwner, Grant
<1>3. CASE DeactivateStart(k) \/ Deactivate(k) \/ ReactivateFind(k) \/ Reactivate(k)
  BY <1>3 DEF DeactivateStart, Deactivate, ReactivateFind, Reactivate
<1>4. CASE ProfileStart(k)
  BY <1>4 DEF ProfileStart
<1>5. CASE ProfileSave(k) \/ ResetSave(k)
  <2>1. request[k].pc \in {"profileSave", "resetSave"}
    BY <1>5, Zenon DEF ProfileSave, ResetSave
  <2>. QED
    BY <2>1
<1>6. CASE \E t \in Tickets : ExchangeStart(k, t) \/ ReactivateStart(k, t)
  BY <1>6 DEF ExchangeStart, ReactivateStart
<1>7. CASE SignupClear(k) \/ ResetStart(k) \/ ResetFlag(k) \/ ResetClear(k)
  BY <1>7 DEF SignupClear, ResetStart, ResetFlag, ResetClear
<1>. QED
  BY <1>1, <1>2, <1>3, <1>4, <1>5, <1>6, <1>7 DEF AccountStep, FlagStep

\* The flag of a purpose is set by the step that counts a right code, and only there.
LEMMA FlagIsPaid ==
  ASSUME TypeOK, NEW k \in Clients, EmailStep(k), NEW p \in Purposes
  PROVE  \/ /\ history'[p].passed = history[p].passed
            /\ p \in verified' => p \in verified
         \/ history'[p].passed = history[p].passed + 1
<1>0. /\ history \in [Purposes -> History] /\ request \in [Clients -> Requests]
  BY DEF TypeOK, EmailTypes
<1>1. CASE UNCHANGED <<history, verified>>
  BY <1>1
<1>2. ASSUME NEW q \in Purposes,
             \/ ForgetAttempts(q)
             \/ \E n \in Nat : history' = [history EXCEPT ![q].inWindow = n]
             \/ \E n \in Nat : history' = [history EXCEPT ![q].wrong = n]
             \/ history' = [history EXCEPT ![q].wrong = 0, ![q].budgets = 1]
      PROVE  history'[p].passed = history[p].passed
  <2>1. history[q] \in History
    BY <1>0
  <2>2. CASE ForgetAttempts(q)
    BY <1>0, <2>2 DEF ForgetAttempts, History
  <2>3. CASE \E n \in Nat : history' = [history EXCEPT ![q].inWindow = n]
    BY <1>0, <2>3 DEF History
  <2>4. CASE \E n \in Nat : history' = [history EXCEPT ![q].wrong = n]
    BY <1>0, <2>4 DEF History
  <2>5. CASE history' = [history EXCEPT ![q].wrong = 0, ![q].budgets = 1]
    <3>. DEFINE h == [history EXCEPT ![q].wrong = 0]
    <3>1. h \in [Purposes -> History] /\ h[p].passed = history[p].passed
      BY <1>0 DEF History
    <3>2. history' = [h EXCEPT ![q].budgets = 1]
      BY <2>5
    <3>. HIDE DEF h
    <3>. QED
      BY <3>1, <3>2 DEF History
  <2>. QED
    BY <1>2, <2>2, <2>3, <2>4, <2>5
<1>3. CASE SendMail(k)
  <2>1. request[k].purpose \in Purposes
    BY <1>0, <1>3, RequestFields DEF SendMail, At, PlainPcs
  <2>2. history[request[k].purpose].inWindow + 1 \in Nat
    BY <1>0, <2>1 DEF History
  <2>. QED
    BY <1>2, <1>3, <2>1, <2>2 DEF SendMail
<1>4. CASE SendForget(k) \/ VerifyClearTries(k)
  <2>1. request[k].purpose \in Purposes
    BY <1>0, <1>4, RequestFields DEF SendForget, VerifyClearTries, At, PlainPcs, CodePcs
  <2>. QED
    BY <1>2, <1>4, <2>1 DEF SendForget, VerifyClearTries
<1>5. CASE SendStore(k)
  <2>1. request[k].purpose \in Purposes
    BY <1>0, <1>5, RequestFields DEF SendStore, At, CodePcs
  <2>. QED
    BY <1>2, <1>5, <2>1 DEF SendStore
<1>6. CASE VerifyWrong(k)
  <2>1. request[k].purpose \in Purposes
    BY <1>0, <1>6, RequestFields DEF VerifyWrong, At, CodePcs
  <2>2. /\ history[request[k].purpose].wrong \in Nat
        /\ history[request[k].purpose].wrong + 1 \in Nat
    BY <1>0, <2>1 DEF History
  <2>. QED
    BY <1>2, <1>6, <2>1, <2>2 DEF VerifyWrong
<1>7. CASE VerifyFlag(k)
  BY <1>0, <1>7 DEF VerifyFlag, History
<1>8. CASE \/ \E q \in Purposes : SendStart(k, q) \/ VerifyStart(k, q)
           \/ SendCooldown(k) \/ SendLimit(k) \/ SendCool(k) \/ SendCount(k) \/ SendWindow(k)
           \/ VerifyLoad(k) \/ VerifyRefuse(k) \/ VerifyRight(k)
           \/ VerifyCountWrong(k) \/ VerifyWrongWindow(k) \/ VerifyClearCode(k)
  BY <1>1, <1>8
     DEF SendStart, SendCooldown, SendLimit, SendCool, SendCount, SendWindow, VerifyStart,
         VerifyLoad, VerifyRefuse, VerifyRight, VerifyCountWrong, VerifyWrongWindow,
         VerifyClearCode, emailVars
<1>. QED
  BY <1>3, <1>4, <1>5, <1>6, <1>7, <1>8 DEF EmailStep

LEMMA ExpiryPays ==
  ASSUME TypeOK, Expire, NEW p \in Purposes
  PROVE  /\ history'[p].passed = history[p].passed
         /\ p \in verified' => p \in verified
<1>0. history \in [Purposes -> History]
  BY DEF TypeOK, EmailTypes
<1>1. CASE UNCHANGED emailVars
  BY <1>1 DEF emailVars
<1>2. ASSUME NEW q \in Purposes, ExpireAttempts(q)
      PROVE  /\ history'[p].passed = history[p].passed
             /\ p \in verified' => p \in verified
  BY <1>0, <1>2 DEF ExpireAttempts, ForgetAttempts, History
<1>3. ASSUME NEW q \in Purposes, ExpireLimit(q)
      PROVE  /\ history'[p].passed = history[p].passed
             /\ p \in verified' => p \in verified
  BY <1>0, <1>3 DEF ExpireLimit, History
<1>4. ASSUME NEW q \in Purposes, ExpireOtp(q) \/ ExpireCooldown(q) \/ ExpireVerified(q)
      PROVE  /\ history'[p].passed = history[p].passed
             /\ p \in verified' => p \in verified
  BY <1>4 DEF ExpireOtp, ExpireCooldown, ExpireVerified
<1>. QED
  BY <1>1, <1>2, <1>3, <1>4 DEF Expire, EmailExpiry

-----------------------------------------------------------------------------
(* A revocation ends the sessions that were there before                   *)

RotatePcs == {"owner", "rotate", "sign"}

\* A request that is refreshing session j, and will set its slot again.
Refreshing(k, j) == request[k].pc \in RotatePcs /\ request[k].token.jti = j

\* The sessions that have a slot or will have it again.
Alive == Live \union {j \in Issues : \E k \in Clients : Refreshing(k, j)}

\* The sessions that requests of others than k are refreshing.
Elsewhere(k) == {j \in Issues : \E l \in Clients \ {k} : Refreshing(l, j)}

BegunBy(n) == {j \in Alive : j <= n}

\* A revocation in progress has listed every slot there was when it began: what it
\* did not list and is alive was being refreshed by others.
Listing(k) ==
  request[k].pc = "revoke" =>
    /\ request[k].since <= clock
    /\ Cardinality(BegunBy(request[k].since) \ request[k].listed) <= Width - 1

\* When it has deleted the slots, so was what is alive of its list.
Ended ==
  /\ revoked <= clock
  /\ Cardinality(BegunBy(revoked)) <= 2 * (Width - 1)

RevokeInv == Ended /\ \A k \in Clients : Listing(k)

\* What any step but those of a revocation does.
AliveStep ==
  /\ \A j \in Alive' : j <= clock => j \in Alive
  /\ clock' \in {clock, clock + 1}
  /\ UNCHANGED <<revoked, workload>>
  /\ \A k \in Clients : request'[k].pc = "revoke" => request'[k] = request[k]

LEMMA ClientSets ==
  /\ Cardinality(Clients) \in Nat /\ Cardinality(Clients) >= 1
  /\ \A S \in SUBSET Clients :
       /\ IsFiniteSet(S) /\ Cardinality(S) \in Nat /\ Cardinality(S) <= Cardinality(Clients)
       /\ \A T \in SUBSET S : Cardinality(T) <= Cardinality(S)
       /\ \A k \in S : Cardinality(S \ {k}) = Cardinality(S) - 1
<1>1. Cardinality(Clients) \in Nat
  BY ClientsAssumption, FS_CardinalityType
<1>2. ASSUME NEW S \in SUBSET Clients
      PROVE  /\ IsFiniteSet(S) /\ Cardinality(S) \in Nat /\ Cardinality(S) <= Cardinality(Clients)
             /\ \A T \in SUBSET S : Cardinality(T) <= Cardinality(S)
             /\ \A k \in S : Cardinality(S \ {k}) = Cardinality(S) - 1
  <2>1. IsFiniteSet(S) /\ Cardinality(S) <= Cardinality(Clients)
    BY ClientsAssumption, FS_Subset
  <2>. QED
    BY <2>1, FS_CardinalityType, FS_Subset, FS_RemoveElement
<1>3. Cardinality(Clients) # 0
  BY ClientsAssumption, FS_EmptySet
<1>. QED
  BY <1>1, <1>2, <1>3

LEMMA RevokeTypes ==
  ASSUME TypeOK
  PROVE  /\ clock \in Nat /\ revoked \in Nat /\ Width \in Nat /\ Width >= 1
         /\ request \in [Clients -> Requests]
         /\ Alive \subseteq Issues /\ Issues \subseteq Nat /\ 0 \notin Issues
         /\ \A k \in Clients : request[k].pc = "revoke" =>
              request[k].listed \in SUBSET Issues /\ request[k].since \in Nat
<1>1. clock \in Nat /\ revoked \in Nat /\ Issues \subseteq Nat /\ 0 \notin Issues
  BY SessionAssumption DEF TypeOK, SessionTypes, Issues
<1>2. \A k \in Clients : request[k].pc = "revoke" =>
        request[k].listed \in SUBSET Issues /\ request[k].since \in Nat
  BY RequestFields, SessionAssumption DEF TypeOK
<1>. QED
  BY <1>1, <1>2, ClientSets DEF TypeOK, Alive, Live, Width

\* What others are refreshing: one session for each.
LEMMA FewElsewhere ==
  ASSUME TypeOK, SlotInv, NEW k \in Clients, request[k] # Idle
  PROVE  Cardinality(Elsewhere(k)) <= Width - 1
<1>. DEFINE others == Clients \ {k}
            T == Elsewhere(k)
<1>1. CASE workload.overlap
  <2>. DEFINE f == [j \in T |-> CHOOSE l \in others : Refreshing(l, j)]
  <2>1. \A j \in T : f[j] \in others /\ Refreshing(f[j], j)
    BY DEF Elsewhere
  <2>2. f \in Injection(T, others)
    <3>1. \A i, j \in T : f[i] = f[j] => i = j
      BY <2>1 DEF Refreshing
    <3>2. f \in [T -> others]
      BY <2>1
    <3>. QED
      BY <3>1, <3>2 DEF Injection, IsInjective
  <2>3. IsFiniteSet(others) /\ Cardinality(others) = Cardinality(Clients) - 1
    BY ClientSets
  <2>4. Cardinality(T) <= Cardinality(others)
    <3>. HIDE DEF T, f, others
    <3>. QED
      BY <2>2, <2>3, FS_Injection
  <2>. QED
    BY <1>1, <2>3, <2>4 DEF Width
<1>2. CASE ~workload.overlap
  <2>1. \A l \in others : request[l] = Idle
    BY <1>2 DEF SlotInv, OneAtATime
  <2>2. T = {}
    BY <2>1 DEF Elsewhere, Refreshing, RotatePcs, Idle
  <2>. QED
    BY <1>2, <2>2, FS_EmptySet DEF Width
<1>. QED
  BY <1>1, <1>2

\* Nothing that is not alive comes back: a login begins a session of its own.
LEMMA StillFew ==
  ASSUME TypeOK, RevokeInv, workload' = workload, clock' \in {clock, clock + 1},
         \A j \in Alive' : j <= clock => j \in Alive
  PROVE  /\ revoked' = revoked => Ended'
         /\ \A k \in Clients : request'[k] = request[k] => Listing(k)'
<1>0. /\ clock \in Nat /\ clock' \in Nat /\ clock <= clock' /\ revoked \in Nat
      /\ Alive \subseteq Issues /\ Alive' \subseteq Issues /\ Issues \subseteq Nat
      /\ Width' = Width /\ Width \in Nat
  BY RevokeTypes DEF Width, Alive, Live
<1>1. ASSUME NEW n \in Nat, n <= clock, NEW listed
      PROVE  /\ {j \in Alive' : j <= n} \ listed \subseteq BegunBy(n) \ listed
             /\ BegunBy(n) \ listed \in SUBSET Issues
  <2>1. ASSUME NEW j \in Alive', j <= n PROVE j \in BegunBy(n)
    <3>1. j \in Nat /\ j <= clock
      BY <1>0, <1>1, <2>1
    <3>. QED
      BY <2>1, <3>1 DEF BegunBy
  <2>2. BegunBy(n) \subseteq Issues
    BY <1>0 DEF BegunBy
  <2>. HIDE DEF BegunBy
  <2>. QED
    BY <2>1, <2>2
<1>2. ASSUME NEW n \in Nat, n <= clock, NEW listed, NEW most \in Int,
             Cardinality(BegunBy(n) \ listed) <= most
      PROVE  Cardinality({j \in Alive' : j <= n} \ listed) <= most
  <2>. DEFINE S == BegunBy(n) \ listed
              T == {j \in Alive' : j <= n} \ listed
  <2>1. T \subseteq S /\ S \in SUBSET Issues
    BY <1>1, <1>2
  <2>2. Cardinality(S) <= most
    BY <1>2
  <2>3. Cardinality(T) <= most
    <3>. HIDE DEF S, T
    <3>1. Cardinality(T) <= Cardinality(S) /\ Cardinality(S) \in Nat /\ Cardinality(T) \in Nat
      BY <2>1, LiveIsFinite
    <3>. QED
      BY <2>2, <3>1
  <2>. QED
    BY <2>3
<1>3. ASSUME revoked' = revoked PROVE Ended'
  <2>1. BegunBy(revoked) = BegunBy(revoked) \ {}
        /\ {j \in Alive' : j <= revoked} \ {} = {j \in Alive' : j <= revoked}
    OBVIOUS
  <2>2. Cardinality({j \in Alive' : j <= revoked}) <= 2 * (Width - 1)
    <3>1. 2 * (Width - 1) \in Int /\ revoked <= clock
          /\ Cardinality(BegunBy(revoked) \ {}) <= 2 * (Width - 1)
      BY <1>0, <2>1 DEF RevokeInv, Ended
    <3>2. Cardinality({j \in Alive' : j <= revoked} \ {}) <= 2 * (Width - 1)
      BY <1>0, <1>2, <3>1
    <3>. QED
      BY <2>1, <3>2
  <2>3. revoked <= clock'
    BY <1>0 DEF RevokeInv, Ended
  <2>. QED
    BY <1>0, <1>3, <2>2, <2>3 DEF Ended, BegunBy
<1>4. ASSUME NEW k \in Clients, request'[k] = request[k], request[k].pc = "revoke"
      PROVE  Listing(k)'
  <2>. DEFINE r == request[k]
  <2>1. /\ r.since \in Nat /\ r.since <= clock
        /\ Cardinality(BegunBy(r.since) \ r.listed) <= Width - 1
    BY <1>4, RevokeTypes DEF RevokeInv, Listing
  <2>2. Cardinality({j \in Alive' : j <= r.since} \ r.listed) <= Width - 1
    <3>. HIDE DEF r
    <3>1. Width - 1 \in Int
      BY <1>0
    <3>. DEFINE most == Width - 1
    <3>2. Cardinality(BegunBy(r.since) \ r.listed) <= most
      BY <2>1
    <3>3. most \in Int
      BY <3>1
    <3>. HIDE DEF most
    <3>4. Cardinality({j \in Alive' : j <= r.since} \ r.listed) <= most
      BY <1>2, <2>1, <3>2, <3>3
    <3>. QED
      BY <3>4 DEF most
  <2>3. r.since <= clock'
    BY <1>0, <2>1
  <2>. QED
    BY <1>0, <1>4, <2>2, <2>3 DEF Listing, BegunBy
<1>. QED
  BY <1>3, <1>4 DEF Listing

\* A step of one request after which only its own session may have a slot again.
LEMMA AliveStays ==
  ASSUME TypeOK, NEW k \in Clients, \A l \in Clients : l # k => request'[l] = request[l],
         Live' \subseteq Live, \A j \in Issues : Refreshing(k, j)' => j \in Alive
  PROVE  Alive' \subseteq Alive
<1>1. ASSUME NEW j \in Issues, NEW l \in Clients, Refreshing(l, j)' PROVE j \in Alive
  BY <1>1 DEF Refreshing, Alive
<1>. QED
  BY <1>1 DEF Alive

\* A request that reads the slots goes on with that.
LEMMA ReadStays ==
  ASSUME TypeOK, NEW k \in Clients, NEW j \in Issues, IssueRead(k, j)
  PROVE  request'[k].pc = "read"
<1>. DEFINE r == request[k]
            todo == r.todo \ {j}
            found == IF j \in Live THEN r.found \union {[jti |-> j, at |-> slots[j].at]}
                     ELSE r.found
<1>1. r \in [pc : {"read"}, todo : SUBSET Issues, found : SUBSET [jti : Issues, at : Issues]]
  BY RequestFields DEF TypeOK, IssueRead, At
<1>2. request' = [request EXCEPT ![k] = [r EXCEPT !.todo = todo, !.found = found]]
  BY DEF IssueRead, Goto
<1>3. request'[k] = [r EXCEPT !.todo = todo, !.found = found]
  <2>1. request \in [Clients -> Requests]
    BY DEF TypeOK
  <2>. HIDE DEF r, todo, found
  <2>. QED
    BY <1>2, <2>1
<1>4. [r EXCEPT !.todo = todo, !.found = found] = [pc |-> "read", todo |-> todo, found |-> found]
  <2>. HIDE DEF r, todo, found
  <2>. QED
    BY <1>1, ReadForm
<1>5. request'[k] = [pc |-> "read", todo |-> todo, found |-> found]
  <2>. HIDE DEF r, todo, found
  <2>. QED
    BY <1>3, <1>4
<1>. QED
  BY <1>5

\* A refresh starts with a slot that is live, and keeps its session until it has
\* set the slot again; only a login sets a slot that was not alive, its own.
LEMMA SessionAlive ==
  ASSUME TypeOK, NEW k \in Clients, SessionStep(k)
  PROVE  \A j \in Alive' : j <= clock => j \in Alive
<1>0. /\ request \in [Clients -> Requests] /\ clock \in Nat
      /\ slots \in [Issues -> Slot \union {NoSlot}]
      /\ 0 \notin Issues /\ Issues \subseteq Nat
      /\ \A l \in Clients : l # k => request'[l] = request[l]
  BY RevokeTypes, OthersStay DEF TypeOK, SessionTypes
<1>1. \A j \in Issues : Refreshing(k, j) => j \in Alive
  BY DEF Alive
<1>. USE DEF At, Goto, Done, Idle, Sign
<1>2. CASE IssueList(k) \/ IssueOldest(k) \/ IssueEvict(k) \/ RevokeList(k) \/ RevokeDelete(k)
  <2>1. Live' \subseteq Live
    <3>1. CASE IssueEvict(k)
      BY <1>0, <3>1 DEF IssueEvict, Live
    <3>2. CASE RevokeDelete(k)
      BY <1>0, <3>2 DEF RevokeDelete, Live
    <3>3. CASE IssueList(k) \/ IssueOldest(k) \/ RevokeList(k)
      BY <3>3 DEF IssueList, IssueOldest, RevokeList, sessionVars, Live
    <3>. QED
      BY <1>2, <3>1, <3>2, <3>3
  <2>2. request'[k].pc \in RotatePcs => request'[k].token = NoToken
    BY <1>0, <1>2
       DEF IssueList, IssueOldest, IssueEvict, RevokeList, RevokeDelete, RotatePcs
  <2>3. \A j \in Issues : ~ Refreshing(k, j)'
    BY <1>0, <2>2 DEF Refreshing, NoToken
  <2>. QED
    BY <1>0, <2>1, <2>3, AliveStays
<1>3. ASSUME NEW i \in Issues, IssueRead(k, i)
      PROVE  \A j \in Alive' : j <= clock => j \in Alive
  <2>1. Live' \subseteq Live
    BY <1>3 DEF IssueRead, sessionVars, Live
  <2>2. \A j \in Issues : ~ Refreshing(k, j)'
    BY <1>3, ReadStays DEF Refreshing, RotatePcs
  <2>. QED
    BY <1>0, <2>1, <2>2, AliveStays
<1>4. CASE RefreshOwner(k) \/ IssueDeleteOld(k)
  <2>1. Live' \subseteq Live
    BY <1>0, <1>4 DEF RefreshOwner, IssueDeleteOld, sessionVars, Live
  <2>2. request[k] \in [pc : {"sign", "owner", "rotate"}, token : Token \union {NoToken}]
        /\ request[k].pc \in RotatePcs
    BY <1>0, <1>4, RequestFields DEF RefreshOwner, IssueDeleteOld, RotatePcs
  <2>3. \A j \in Issues : Refreshing(k, j)' => Refreshing(k, j)
    BY <1>0, <1>4, <2>2 DEF RefreshOwner, IssueDeleteOld, Refreshing, RotatePcs
  <2>. QED
    BY <1>0, <1>1, <2>1, <2>3, AliveStays
<1>5. CASE IssueSet(k)
  <2>1. PICK new \in NewTokens(request[k].token) :
          slots' = [slots EXCEPT ![new.jti] = [token |-> new.number, at |-> clock']]
    BY <1>5 DEF IssueSet
  <2>2. request'[k] = Idle /\ request[k].pc = "sign"
    BY <1>0, <1>5 DEF IssueSet
  <2>3. new.jti = clock + 1 \/ new.jti = request[k].token.jti
    BY <2>1 DEF NewTokens
  <2>4. \A j \in Live' : j \in Live \/ j = new.jti
    BY <1>0, <2>1 DEF Live
  <2>5. ASSUME NEW j \in Live', j <= clock PROVE j \in Alive
    <3>1. j \in Issues
      BY DEF Live
    <3>2. CASE j \in Live
      BY <3>2 DEF Alive
    <3>3. CASE j = request[k].token.jti
      BY <1>1, <2>2, <3>1, <3>3 DEF Refreshing, RotatePcs
    <3>. QED
      BY <1>0, <2>3, <2>4, <2>5, <3>2, <3>3
  <2>6. ASSUME NEW j \in Issues, NEW l \in Clients, Refreshing(l, j)' PROVE j \in Alive
    <3>1. l # k
      BY <2>2, <2>6 DEF Refreshing, RotatePcs
    <3>. QED
      BY <1>0, <2>6, <3>1 DEF Refreshing, Alive
  <2>. QED
    BY <2>5, <2>6 DEF Alive
<1>6. ASSUME NEW t \in Token, RefreshStart(k, t)
      PROVE  \A j \in Alive' : j <= clock => j \in Alive
  <2>1. Live' \subseteq Live
    BY <1>6 DEF RefreshStart, sessionVars, Live
  <2>2. t.jti \in Issues /\ t.number # 0
    BY <1>0 DEF Token
  <2>3. slots[t.jti].token = t.number => t.jti \in Live
    BY <2>2 DEF Live, NoSlot
  <2>4. \A j \in Issues : Refreshing(k, j)' => j \in Live
    BY <1>0, <1>6, <2>3 DEF RefreshStart, Refreshing, RotatePcs
  <2>. QED
    BY <1>0, <2>1, <2>4, AliveStays DEF Alive
<1>. QED
  BY <1>2, <1>3, <1>4, <1>5, <1>6 DEF SessionStep

LEMMA SessionRevokes ==
  ASSUME TypeOK, NEW k \in Clients, SessionStep(k), ~RevokeList(k), ~RevokeDelete(k),
         workload' = workload
  PROVE  AliveStep
<1>0. /\ request \in [Clients -> Requests]
      /\ \A l \in Clients : l # k => request'[l] = request[l]
  BY OthersStay DEF TypeOK
<1>1. \A j \in Alive' : j <= clock => j \in Alive
  BY SessionAlive
<1>. USE DEF At, Goto, Done, Idle, Sign
<1>2. clock' \in {clock, clock + 1} /\ revoked' = revoked
  <2>1. CASE IssueList(k) \/ IssueOldest(k) \/ IssueEvict(k) \/ IssueDeleteOld(k) \/ IssueSet(k)
    BY <2>1 DEF IssueList, IssueOldest, IssueEvict, IssueDeleteOld, IssueSet, sessionVars
  <2>2. CASE \E j \in Issues : IssueRead(k, j)
    BY <2>2 DEF IssueRead, sessionVars
  <2>3. CASE RefreshOwner(k) \/ \E t \in Token : RefreshStart(k, t)
    BY <2>3 DEF RefreshStart, RefreshOwner, sessionVars
  <2>. QED
    BY <2>1, <2>2, <2>3 DEF SessionStep
<1>3. request'[k].pc # "revoke"
  <2>1. CASE IssueList(k) \/ IssueOldest(k) \/ IssueEvict(k) \/ IssueDeleteOld(k) \/ IssueSet(k)
    BY <1>0, <2>1 DEF IssueList, IssueOldest, IssueEvict, IssueDeleteOld, IssueSet
  <2>2. CASE \E j \in Issues : IssueRead(k, j)
    BY <2>2, ReadStays
  <2>3. CASE \E t \in Token : RefreshStart(k, t)
    BY <1>0, <2>3 DEF RefreshStart
  <2>4. CASE RefreshOwner(k)
    <3>1. request[k] \in [pc : {"sign", "owner", "rotate"}, token : Token \union {NoToken}]
      BY <1>0, <2>4, RequestFields DEF RefreshOwner
    <3>. QED
      BY <1>0, <2>4, <3>1 DEF RefreshOwner
  <2>. QED
    BY <2>1, <2>2, <2>3, <2>4 DEF SessionStep
<1>. QED
  BY <1>0, <1>1, <1>2, <1>3 DEF AliveStep

LEMMA OtherRevokes ==
  ASSUME TypeOK, NEW k \in Clients, UNCHANGED <<workload, sessionVars>>,
         EmailStep(k) \/ AccountStep(k) \/ FlagStep(k) \/ Abort(k)
  PROVE  AliveStep
<1>1. \A l \in Clients :
        request'[l].pc \in SessionPcs => request'[l] = request[l]
  BY EmailGoes, AccountGoes DEF SessionPcs, PlainPcs, CodePcs
<1>2. Alive' \subseteq Alive
  <2>1. ASSUME NEW j \in Issues, NEW l \in Clients, Refreshing(l, j)' PROVE Refreshing(l, j)
    BY <1>1, <2>1 DEF Refreshing, RotatePcs, SessionPcs
  <2>. QED
    BY <2>1 DEF Alive, Live, sessionVars
<1>. QED
  BY <1>1, <1>2 DEF AliveStep, SessionPcs, sessionVars

\* What a revocation does not find is being refreshed by others.
LEMMA RevokeLists ==
  ASSUME TypeOK, SlotInv, RevokeInv, NEW k \in Clients, RevokeList(k), workload' = workload
  PROVE  RevokeInv'
<1>. DEFINE new == [pc |-> "revoke", listed |-> Live, since |-> clock]
            T == {j \in Alive' : j <= clock} \ Live
<1>0. /\ clock \in Nat /\ Width' = Width /\ Width \in Nat
      /\ request \in [Clients -> Requests]
  BY RevokeTypes DEF Width
<1>1. /\ request[k].pc = "revokeList" /\ request' = [request EXCEPT ![k] = new]
      /\ UNCHANGED <<slots, clock, revoked>>
  BY DEF RevokeList, At, Goto, sessionVars
<1>2. /\ request'[k] = new
      /\ \A l \in Clients : l # k => request'[l] = request[l]
  BY <1>0, <1>1
<1>3. Alive' = Live \union Elsewhere(k)
  <2>1. \A j \in Issues : ~ Refreshing(k, j)'
    BY <1>2 DEF Refreshing, RotatePcs
  <2>2. \A j \in Issues, l \in Clients : l # k => (Refreshing(l, j)' <=> Refreshing(l, j))
    BY <1>2 DEF Refreshing
  <2>3. {j \in Issues : \E l \in Clients : Refreshing(l, j)'} = Elsewhere(k)
    BY <2>1, <2>2 DEF Elsewhere
  <2>4. Live' = Live
    BY <1>1 DEF Live
  <2>. QED
    BY <2>3, <2>4 DEF Alive
<1>4. Alive' \subseteq Alive
  BY <1>3 DEF Alive, Elsewhere
<1>5. Ended' /\ \A l \in Clients : l # k => Listing(l)'
  BY <1>1, <1>2, <1>4, StillFew
<1>6. Cardinality(T) <= Width - 1
  <2>1. T \subseteq Elsewhere(k) /\ Elsewhere(k) \in SUBSET Issues
    BY <1>3 DEF Elsewhere
  <2>2. Cardinality(Elsewhere(k)) <= Width - 1
    BY <1>1, FewElsewhere DEF Idle
  <2>. HIDE DEF T
  <2>3. /\ Cardinality(T) <= Cardinality(Elsewhere(k))
        /\ Cardinality(T) \in Nat /\ Cardinality(Elsewhere(k)) \in Nat
    BY <2>1, LiveIsFinite
  <2>. QED
    BY <1>0, <2>2, <2>3
<1>7. Listing(k)'
  BY <1>0, <1>1, <1>2, <1>6 DEF Listing, BegunBy
<1>. QED
  BY <1>5, <1>7 DEF RevokeInv

\* What is left of the list when the slots are deleted is being refreshed by others.
LEMMA RevokeDeletes ==
  ASSUME TypeOK, SlotInv, RevokeInv, NEW k \in Clients, RevokeDelete(k), workload' = workload
  PROVE  RevokeInv'
<1>. DEFINE since == request[k].since
            listed == request[k].listed
            S == BegunBy(since) \ listed
            T == {j \in Alive' : j <= since}
            E == Elsewhere(k)
<1>0. /\ clock \in Nat /\ revoked \in Nat /\ Width' = Width /\ Width \in Nat
      /\ request \in [Clients -> Requests] /\ Alive \subseteq Issues
  BY RevokeTypes DEF Width
<1>1. /\ request[k].pc = "revoke" /\ request' = [request EXCEPT ![k] = Idle]
      /\ \A j \in Issues : slots'[j] = IF j \in listed THEN NoSlot ELSE slots[j]
      /\ revoked' = IF since > revoked THEN since ELSE revoked
      /\ clock' = clock
  BY DEF RevokeDelete, At, Goto, Done
<1>2. /\ request'[k] = Idle
      /\ \A l \in Clients : l # k => request'[l] = request[l]
  BY <1>0, <1>1
<1>3. since \in Nat /\ since <= clock /\ Cardinality(S) <= Width - 1
  BY <1>1, RevokeTypes DEF RevokeInv, Listing
<1>4. Alive' \subseteq (Live \ listed) \union E
  <2>1. \A j \in Issues : ~ Refreshing(k, j)'
    BY <1>2 DEF Refreshing, RotatePcs, Idle
  <2>2. Live' \subseteq Live \ listed
    BY <1>1 DEF Live
  <2>. QED
    BY <1>2, <2>1, <2>2 DEF Alive, Elsewhere, Refreshing
<1>5. Alive' \subseteq Alive
  BY <1>4 DEF Alive, Elsewhere
<1>6. /\ revoked' = revoked => Ended'
      /\ \A l \in Clients : l # k => Listing(l)'
  BY <1>1, <1>2, <1>5, StillFew
<1>7. Listing(k)'
  BY <1>2 DEF Listing, Idle
<1>8. ASSUME revoked' = since PROVE Ended'
  <2>1. T \subseteq S \union E /\ S \in SUBSET Issues /\ E \in SUBSET Issues
    BY <1>0, <1>4 DEF BegunBy, Alive, Elsewhere
  <2>2. Cardinality(E) <= Width - 1
    BY <1>1, FewElsewhere DEF Idle
  <2>3. Cardinality(T) <= 2 * (Width - 1)
    <3>. HIDE DEF S, T, E
    <3>1. /\ IsFiniteSet(S) /\ IsFiniteSet(E)
          /\ Cardinality(S) \in Nat /\ Cardinality(E) \in Nat
          /\ Cardinality(S \intersect E) \in Nat
          /\ Cardinality(T) \in Nat /\ Cardinality(S \union E) \in Nat
          /\ Cardinality(T) <= Cardinality(S \union E)
      BY <2>1, LiveIsFinite
    <3>2. Cardinality(S \union E) = Cardinality(S) + Cardinality(E) - Cardinality(S \intersect E)
      BY <3>1, FS_Union
    <3>. QED
      BY <1>0, <1>3, <2>2, <3>1, <3>2
  <2>4. since <= clock'
    BY <1>1, <1>3
  <2>. QED
    BY <1>0, <1>8, <2>3, <2>4 DEF Ended, BegunBy
<1>. QED
  BY <1>1, <1>6, <1>7, <1>8 DEF RevokeInv

LEMMA RevokeInvStep == TypeInv /\ SlotInv /\ RevokeInv /\ [Next]_vars => RevokeInv'
<1>. SUFFICES ASSUME TypeInv, SlotInv, RevokeInv, [Next]_vars PROVE RevokeInv'
  OBVIOUS
<1>0. TypeOK /\ clock \in Nat
  BY RevokeTypes DEF TypeInv
<1>1. ASSUME AliveStep PROVE RevokeInv'
  <2>1. Ended' /\ \A k \in Clients : request'[k] = request[k] => Listing(k)'
    BY <1>0, <1>1, StillFew DEF AliveStep
  <2>. QED
    BY <1>1, <2>1 DEF AliveStep, RevokeInv, Listing
<1>2. ASSUME NEW k \in Clients, SessionStep(k), workload' = workload PROVE RevokeInv'
  BY <1>0, <1>1, <1>2, RevokeLists, RevokeDeletes, SessionRevokes
<1>3. ASSUME NEW k \in Clients, EmailStep(k), UNCHANGED <<workload, sessionVars>>
      PROVE  RevokeInv'
  BY <1>0, <1>1, <1>3, OtherRevokes
<1>4. ASSUME NEW k \in Clients, AccountStep(k) \/ FlagStep(k) \/ Abort(k) PROVE RevokeInv'
  <2>1. UNCHANGED <<workload, sessionVars>>
    BY <1>4 DEF AccountStep, FlagStep, Abort
  <2>. QED
    BY <1>0, <1>1, <1>4, <2>1, OtherRevokes
<1>5. ASSUME UNCHANGED <<workload, request, clock, revoked>>, Live' \subseteq Live
      PROVE  RevokeInv'
  <2>1. Alive' \subseteq Alive
    BY <1>5 DEF Alive, Refreshing
  <2>. QED
    BY <1>1, <1>5, <2>1 DEF AliveStep
<1>6. CASE Expire
  <2>1. UNCHANGED <<clock, revoked>> /\ Live' \subseteq Live
    <3>1. CASE UNCHANGED sessionVars
      BY <3>1 DEF sessionVars, Live
    <3>2. CASE \E j \in Issues : ExpireSlot(j)
      BY <1>0, <3>2 DEF ExpireSlot, Live, TypeOK, SessionTypes
    <3>. QED
      BY <1>6, <3>1, <3>2 DEF Expire
  <2>. QED
    BY <1>5, <1>6, <2>1 DEF Expire
<1>7. CASE UNCHANGED vars
  BY <1>5, <1>7 DEF vars, sessionVars, Live
<1>. QED
  BY <1>2, <1>3, <1>4, <1>6, <1>7 DEF Next

\* A password reset, or a refresh with a token that is not the last of its slot,
\* ends every session begun before it, but for at most two for each other request
\* there may be at a moment; all of them if requests come one by one, failing or
\* not (AuthService.revokeAllUserTokens, refreshTokens).
THEOREM RevocationsCorrect == Spec => []RevocationsEndSessions
<1>1. Init => SlotInv /\ RevokeInv
  <2>. SUFFICES ASSUME Init PROVE RevokeInv
    BY SlotInit
  <2>1. Live = {} /\ \A k \in Clients : request[k] = Idle
    BY DEF Init, SessionInit, Live
  <2>2. BegunBy(revoked) = {}
    BY <2>1 DEF BegunBy, Alive, Refreshing, RotatePcs, Idle
  <2>3. Width \in Nat /\ Width >= 1
    BY ClientSets DEF Width
  <2>4. Ended
    BY <2>2, <2>3, FS_EmptySet DEF Ended, Init, SessionInit
  <2>. QED
    BY <2>1, <2>4 DEF RevokeInv, Listing, Idle
<1>2. TypeInv /\ SlotInv /\ RevokeInv /\ [Next]_vars => (SlotInv /\ RevokeInv)'
  BY SlotInvStep, RevokeInvStep
<1>3. TypeInv /\ RevokeInv => RevocationsEndSessions
  <2>. SUFFICES ASSUME TypeOK, RevokeInv PROVE RevocationsEndSessions
    BY DEF TypeInv
  <2>1. Survivors \subseteq BegunBy(revoked) /\ BegunBy(revoked) \in SUBSET Issues
    BY RevokeTypes DEF Survivors, BegunBy, Alive
  <2>2. /\ Cardinality(Survivors) <= Cardinality(BegunBy(revoked))
        /\ Cardinality(Survivors) \in Nat /\ Cardinality(BegunBy(revoked)) \in Nat
    BY <2>1, LiveIsFinite
  <2>. QED
    BY <2>2, RevokeTypes DEF RevokeInv, Ended, RevocationsEndSessions
<1>. QED
  BY <1>1, <1>2, <1>3, TypeInvariant, PTL DEF Spec

-----------------------------------------------------------------------------
(* A local account is paid for with a code                                 *)

RowPcs == {"resetFlag", "resetSave", "profileSave"}

\* While nobody has entered a right code for sign-up there is no flag for it, no
\* request past the look at the flag, and no local account, in the table or in the
\* copy that a request is about to save.
SignupInv ==
  workload.provider = "NONE" /\ history["SIGNUP"].passed = 0 =>
    /\ "SIGNUP" \notin verified
    /\ user.provider # "LOCAL"
    /\ \A k \in Clients :
         /\ request[k].pc \notin {"signupFind", "signupInsert"}
         /\ request[k].pc \in RowPcs => request[k].row.provider # "LOCAL"

\* Steps that neither make nor copy a row.
LEMMA NoSignup ==
  ASSUME SignupInv, workload' = workload, user' = user,
         history'["SIGNUP"].passed = 0 =>
           /\ history["SIGNUP"].passed = 0
           /\ "SIGNUP" \in verified' => "SIGNUP" \in verified,
         \A l \in Clients : \/ request'[l] = request[l]
                            \/ request'[l].pc \notin RowPcs \union {"signupFind", "signupInsert"}
  PROVE  SignupInv'
BY DEF SignupInv

LEMMA UserKeepsProvider ==
  ASSUME TypeOK
  PROVE  /\ [user EXCEPT !.active = FALSE].provider = user.provider
         /\ [user EXCEPT !.active = TRUE].provider = user.provider
         /\ \A r \in Row, p \in BOOLEAN : SaveUser(r, p) => user'.provider = r.provider
<1>1. user \in Row \union {NoUser}
  BY DEF TypeOK
<1>2. ASSUME NEW r \in Row, NEW p \in BOOLEAN, SaveUser(r, p)
      PROVE  user'.provider = r.provider
  <2>1. PICK a \in {r.active, user.active} :
          user' = [r EXCEPT !.active = a, !.password = p]
    BY <1>2 DEF SaveUser
  <2>. DEFINE d == [r EXCEPT !.active = a]
  <2>2. a \in BOOLEAN
    BY <1>1, <2>1, RowFields
  <2>3. d \in Row /\ d.provider = r.provider
    BY <2>2 DEF Row
  <2>4. user' = [d EXCEPT !.password = p]
    BY <2>1
  <2>. HIDE DEF d
  <2>. QED
    BY <2>3, <2>4 DEF Row
<1>. QED
  BY <1>1, <1>2 DEF Row, NoUser

LEMMA AccountSignup ==
  ASSUME TypeOK, SignupInv, NEW k \in Clients, AccountStep(k)
  PROVE  SignupInv'
<1>. SUFFICES ASSUME workload.provider = "NONE", history["SIGNUP"].passed = 0 PROVE SignupInv'
  BY DEF AccountStep, emailVars, SignupInv
<1>0. /\ request \in [Clients -> Requests] /\ workload' = workload
      /\ history' = history /\ verified' = verified
      /\ "SIGNUP" \notin verified /\ user.provider # "LOCAL"
      /\ request[k].pc \notin {"signupFind", "signupInsert"}
      /\ request[k].pc \in RowPcs => request[k].row.provider # "LOCAL"
  BY DEF TypeOK, AccountStep, emailVars, SignupInv
<1>1. ASSUME user'.provider # "LOCAL",
             \/ request'[k].pc \notin RowPcs \union {"signupFind", "signupInsert"}
             \/ request'[k].pc = "profileSave" /\ request'[k].row.provider # "LOCAL"
      PROVE  SignupInv'
  <2>1. ASSUME NEW l \in Clients
        PROVE  /\ request'[l].pc \notin {"signupFind", "signupInsert"}
               /\ request'[l].pc \in RowPcs => request'[l].row.provider # "LOCAL"
    <3>1. CASE l = k
      BY <1>1, <3>1 DEF RowPcs
    <3>2. CASE l # k
      BY <3>2, OthersStay DEF SignupInv
    <3>. QED
      BY <3>1, <3>2
  <2>. QED
    BY <1>0, <1>1, <2>1 DEF SignupInv
<1>. USE DEF At, Goto, Done, Idle, Next1, RowPcs
<1>2. CASE SignupStart(k) \/ SignupFind(k) \/ SignupInsert(k)
  BY <1>0, <1>2 DEF SignupStart, SignupFind, SignupInsert
<1>3. CASE LoginStart(k) \/ OAuthStart(k) \/ Grant(k) \/ OAuthCode(k) \/ ExchangeOwner(k)
           \/ DeactivateStart(k) \/ ReactivateFind(k)
           \/ \E t \in Tickets : ExchangeStart(k, t) \/ ReactivateStart(k, t)
  <2>1. user' = user /\ request'[k].pc \notin RowPcs \union {"signupFind", "signupInsert"}
    BY <1>0, <1>3 DEF LoginStart, OAuthStart, Grant, OAuthCode, ExchangeOwner, DeactivateStart,
                      ReactivateFind, ExchangeStart, ReactivateStart
  <2>. QED
    BY <1>0, <1>1, <2>1
<1>4. CASE OAuthInsert(k) \/ Deactivate(k) \/ Reactivate(k)
  <2>1. user'.provider # "LOCAL"
    <3>1. NewUser("OAUTH").provider # "LOCAL"
      BY DEF NewUser
    <3>2. CASE OAuthInsert(k)
      BY <1>0, <3>1, <3>2 DEF OAuthInsert
    <3>3. CASE Deactivate(k) \/ Reactivate(k)
      BY <1>0, <3>3, UserKeepsProvider DEF Deactivate, Reactivate
    <3>. QED
      BY <1>4, <3>2, <3>3
  <2>2. request'[k].pc \notin RowPcs \union {"signupFind", "signupInsert"}
    BY <1>0, <1>4 DEF OAuthInsert, Deactivate, Reactivate
  <2>. QED
    BY <1>1, <2>1, <2>2
<1>5. CASE ProfileStart(k)
  <2>1. user' = user /\ request'[k] = [pc |-> "profileSave", row |-> user]
    BY <1>0, <1>5 DEF ProfileStart
  <2>. QED
    BY <1>0, <1>1, <2>1
<1>6. CASE ProfileSave(k)
  <2>1. request[k].row \in Row /\ request[k].row.provider # "LOCAL"
    BY <1>0, <1>6, RequestFields DEF ProfileSave
  <2>2. request[k].row.password \in BOOLEAN /\ user.password \in BOOLEAN
    BY <2>1, RowFields DEF TypeOK
  <2>3. user'.provider # "LOCAL"
    BY <1>6, <2>1, <2>2, UserKeepsProvider DEF ProfileSave
  <2>4. request'[k].pc = "idle"
    BY <1>0, <1>6 DEF ProfileSave
  <2>. QED
    BY <1>1, <2>3, <2>4
<1>. QED
  BY <1>2, <1>3, <1>4, <1>5, <1>6 DEF AccountStep

LEMMA FlagSignup ==
  ASSUME TypeOK, SignupInv, NEW k \in Clients, FlagStep(k)
  PROVE  SignupInv'
<1>0. /\ request \in [Clients -> Requests] /\ workload' = workload
      /\ history' = history /\ verified' \subseteq verified
  BY DEF TypeOK, FlagStep, emailVars, SignupClear, ResetStart, ResetFlag, ResetSave, ResetClear
<1>. SUFFICES ASSUME workload.provider = "NONE", history["SIGNUP"].passed = 0 PROVE SignupInv'
  BY <1>0 DEF SignupInv
<1>1. /\ user.provider # "LOCAL" /\ "SIGNUP" \notin verified
      /\ request[k].pc \in RowPcs => request[k].row.provider # "LOCAL"
  BY DEF SignupInv
<1>2. ASSUME user'.provider # "LOCAL",
             \/ request'[k].pc \notin RowPcs \union {"signupFind", "signupInsert"}
             \/ request'[k].pc \in RowPcs /\ request'[k].row.provider # "LOCAL"
      PROVE  SignupInv'
  <2>1. ASSUME NEW l \in Clients
        PROVE  /\ request'[l].pc \notin {"signupFind", "signupInsert"}
               /\ request'[l].pc \in RowPcs => request'[l].row.provider # "LOCAL"
    <3>1. CASE l = k
      BY <1>2, <3>1 DEF RowPcs
    <3>2. CASE l # k
      BY <3>2, OthersStay DEF SignupInv
    <3>. QED
      BY <3>1, <3>2
  <2>. QED
    BY <1>0, <1>1, <1>2, <2>1 DEF SignupInv
<1>. USE DEF At, Goto, Done, Idle, Next1, RowPcs
<1>3. CASE SignupClear(k) \/ ResetClear(k)
  <2>1. user' = user /\ request'[k].pc \in {"list", "revokeList"}
    BY <1>0, <1>3 DEF SignupClear, ResetClear
  <2>. QED
    BY <1>1, <1>2, <2>1
<1>4. CASE ResetStart(k)
  <2>1. user' = user /\ request'[k] = [pc |-> "resetFlag", row |-> user]
    BY <1>0, <1>4 DEF ResetStart
  <2>. QED
    BY <1>1, <1>2, <2>1
<1>5. CASE ResetFlag(k)
  <2>1. request[k] \in [pc : {"resetFlag", "resetSave", "profileSave"}, row : Row]
    BY <1>0, <1>5, RequestFields DEF ResetFlag
  <2>2. user' = user
    BY <1>5 DEF ResetFlag
  <2>3. \/ request'[k].pc = "idle"
        \/ request'[k].pc = "resetSave" /\ request'[k].row = request[k].row
    BY <1>0, <1>5, <2>1 DEF ResetFlag
  <2>. QED
    BY <1>1, <1>2, <2>1, <2>2, <2>3
<1>6. CASE ResetSave(k)
  <2>1. request[k].row \in Row /\ request[k].row.provider # "LOCAL"
    BY <1>0, <1>1, <1>6, RequestFields DEF ResetSave
  <2>2. user'.provider # "LOCAL"
    BY <1>6, <2>1, UserKeepsProvider DEF ResetSave
  <2>3. request'[k].pc = "resetClear"
    BY <1>0, <1>6 DEF ResetSave
  <2>. QED
    BY <1>2, <2>2, <2>3
<1>. QED
  BY <1>3, <1>4, <1>5, <1>6 DEF FlagStep

LEMMA SignupInvStep == TypeInv /\ SignupInv /\ [Next]_vars => SignupInv'
<1>. SUFFICES ASSUME TypeInv, SignupInv, [Next]_vars PROVE SignupInv'
  OBVIOUS
<1>0. /\ TypeOK /\ request \in [Clients -> Requests] /\ "SIGNUP" \in Purposes
      /\ history["SIGNUP"].passed \in Nat
  BY DEF TypeInv, TypeOK, EmailTypes, History, Purposes
<1>1. ASSUME NEW k \in Clients, EmailStep(k), UNCHANGED <<workload, user>> PROVE SignupInv'
  <2>1. \/ /\ history'["SIGNUP"].passed = history["SIGNUP"].passed
           /\ "SIGNUP" \in verified' => "SIGNUP" \in verified
        \/ history'["SIGNUP"].passed = history["SIGNUP"].passed + 1
    BY <1>0, <1>1, FlagIsPaid
  <2>2. \A l \in Clients : \/ request'[l] = request[l]
                           \/ request'[l].pc \notin RowPcs \union {"signupFind", "signupInsert"}
    BY <1>0, <1>1, EmailGoes DEF PlainPcs, CodePcs, RowPcs
  <2>. QED
    BY <1>0, <1>1, <2>1, <2>2, NoSignup
<1>2. ASSUME NEW k \in Clients, SessionStep(k), UNCHANGED <<workload, user, emailVars>>
      PROVE  SignupInv'
  <2>1. \A l \in Clients : \/ request'[l] = request[l]
                           \/ request'[l].pc \notin RowPcs \union {"signupFind", "signupInsert"}
    BY <1>0, <1>2, SessionGoes DEF SessionPcs, RowPcs
  <2>. QED
    BY <1>2, <2>1, NoSignup DEF emailVars
<1>3. ASSUME NEW k \in Clients, Abort(k) PROVE SignupInv'
  <2>1. \A l \in Clients : request'[l] = request[l] \/ request'[l].pc = "idle"
    BY <1>0, <1>3 DEF Abort, Done, Goto, Idle
  <2>. QED
    BY <1>3, <2>1, NoSignup DEF Abort, emailVars, RowPcs
<1>4. CASE Expire
  <2>1. /\ history'["SIGNUP"].passed = history["SIGNUP"].passed
        /\ "SIGNUP" \in verified' => "SIGNUP" \in verified
    BY <1>0, <1>4, ExpiryPays
  <2>. QED
    BY <1>4, <2>1, NoSignup DEF Expire
<1>5. CASE UNCHANGED vars
  BY <1>5, NoSignup DEF vars, emailVars
<1>. QED
  BY <1>0, <1>1, <1>2, <1>3, <1>4, <1>5, AccountSignup, FlagSignup DEF Next

-----------------------------------------------------------------------------
(* Resets are paid for with codes                                          *)

\* The requests that have used the flag, or may use it yet: all but those that have
\* saved the password and are about to clear it.
Entitled ==
  {k \in Clients : \/ request[k].pc = "resetSave"
                   \/ "PASSWORD_RESET" \in verified /\ request[k].pc # "resetClear"}

\* One by one: whether the last code that was entered is still to be used.
Due ==
  \/ \E k \in Clients : request[k].pc = "resetSave"
  \/ "PASSWORD_RESET" \in verified /\ \A k \in Clients : request[k].pc # "resetClear"

ResetsInv ==
  ~workload.faults =>
    IF workload.overlap
    THEN resets + Cardinality(Entitled) <= history["PASSWORD_RESET"].passed * Cardinality(Clients)
    ELSE /\ OneAtATime
         /\ resets + (IF Due THEN 1 ELSE 0) <= history["PASSWORD_RESET"].passed

\* What every step does but that of a right code and that of a new password: it
\* sets no flag, and lets nobody pass without one.
ResetsRest ==
  /\ resets' = resets
  /\ history'["PASSWORD_RESET"].passed = history["PASSWORD_RESET"].passed
  /\ "PASSWORD_RESET" \in verified' => "PASSWORD_RESET" \in verified
  /\ \A l \in Clients :
       /\ request'[l].pc = "resetSave" =>
            \/ request[l].pc = "resetSave"
            \/ request[l].pc = "resetFlag" /\ "PASSWORD_RESET" \in verified
       /\ request[l].pc = "resetClear" =>
            request'[l].pc = "resetClear" \/ "PASSWORD_RESET" \notin verified'

LEMMA RestPays ==
  ASSUME TypeOK, ResetsInv, ResetsRest, workload' = workload,
         ~workload.overlap /\ OneAtATime => OneAtATime'
  PROVE  ResetsInv'
<1>. SUFFICES ASSUME ~workload.faults PROVE ResetsInv'
  BY DEF ResetsInv
<1>1. /\ history["PASSWORD_RESET"].passed \in Nat /\ resets \in Nat
  BY DEF TypeOK, EmailTypes, History, Purposes
<1>2. CASE workload.overlap
  <2>1. Entitled' \subseteq Entitled
    BY DEF Entitled, ResetsRest
  <2>2. PICK S : S = Entitled
    OBVIOUS
  <2>3. PICK T : T = Entitled'
    OBVIOUS
  <2>4. S \in SUBSET Clients /\ T \in SUBSET S
    BY <2>1, <2>2, <2>3 DEF Entitled
  <2>5. Cardinality(T) <= Cardinality(S) /\ Cardinality(T) \in Nat /\ Cardinality(S) \in Nat
    BY <2>4, ClientSets
  <2>6. resets + Cardinality(S) <= history["PASSWORD_RESET"].passed * Cardinality(Clients)
    BY <1>2, <2>2 DEF ResetsInv
  <2>7. history["PASSWORD_RESET"].passed * Cardinality(Clients) \in Nat
    BY <1>1, ClientSets
  <2>8. resets' + Cardinality(T) <= history'["PASSWORD_RESET"].passed * Cardinality(Clients)
    BY <1>1, <2>5, <2>6, <2>7 DEF ResetsRest
  <2>. QED
    BY <1>2, <2>3, <2>8 DEF ResetsInv
<1>3. CASE ~workload.overlap
  <2>1. OneAtATime /\ OneAtATime'
    BY <1>3 DEF ResetsInv
  <2>2. Due' => Due
    <3>1. ASSUME NEW k \in Clients, request'[k].pc = "resetSave" PROVE Due
      <4>1. CASE request[k].pc = "resetSave"
        BY <4>1 DEF Due
      <4>2. CASE request[k].pc = "resetFlag" /\ "PASSWORD_RESET" \in verified
        <5>1. \A l \in Clients : request[l].pc # "resetClear"
          BY <2>1, <4>2 DEF OneAtATime, Idle
        <5>. QED
          BY <4>2, <5>1 DEF Due
      <4>. QED
        BY <3>1, <4>1, <4>2 DEF ResetsRest
    <3>2. ASSUME "PASSWORD_RESET" \in verified', \A k \in Clients : request'[k].pc # "resetClear"
          PROVE  Due
      BY <3>2 DEF Due, ResetsRest
    <3>. QED
      BY <3>1, <3>2 DEF Due
  <2>3. resets + (IF Due' THEN 1 ELSE 0) <= history["PASSWORD_RESET"].passed
    BY <1>1, <1>3, <2>2 DEF ResetsInv
  <2>. QED
    BY <1>3, <2>1, <2>3 DEF ResetsInv, ResetsRest
<1>. QED
  BY <1>2, <1>3

\* The step that counts a right code for a reset.
LEMMA CodePays ==
  ASSUME TypeOK, ResetsInv, workload' = workload, resets' = resets,
         history'["PASSWORD_RESET"].passed = history["PASSWORD_RESET"].passed + 1,
         ~workload.overlap /\ OneAtATime => OneAtATime'
  PROVE  ResetsInv'
<1>. SUFFICES ASSUME ~workload.faults PROVE ResetsInv'
  BY DEF ResetsInv
<1>1. PICK n \in Nat : n = history["PASSWORD_RESET"].passed
  BY DEF TypeOK, EmailTypes, History, Purposes
<1>2. resets \in Nat
  BY DEF TypeOK
<1>3. CASE workload.overlap
  <2>1. PICK S : S = Entitled
    OBVIOUS
  <2>2. PICK T : T = Entitled'
    OBVIOUS
  <2>3. S \in SUBSET Clients /\ T \in SUBSET Clients
    BY <2>1, <2>2 DEF Entitled
  <2>4. PICK w \in Nat : w = Cardinality(Clients)
    BY ClientSets
  <2>5. Cardinality(S) \in Nat /\ Cardinality(T) \in Nat /\ Cardinality(T) <= w
    BY <2>3, <2>4, ClientSets
  <2>6. resets + Cardinality(S) <= n * w
    BY <1>1, <1>3, <2>1, <2>4 DEF ResetsInv
  <2>7. (n + 1) * w = n * w + w /\ n * w \in Nat
    BY <1>1, <2>4
  <2>8. resets + Cardinality(T) <= (n + 1) * w
    BY <1>2, <2>4, <2>5, <2>6, <2>7
  <2>. QED
    BY <1>1, <1>3, <2>2, <2>4, <2>8 DEF ResetsInv
<1>4. CASE ~workload.overlap
  <2>1. resets + (IF Due THEN 1 ELSE 0) <= n
    BY <1>1, <1>4 DEF ResetsInv
  <2>2. resets + (IF Due' THEN 1 ELSE 0) <= n + 1
    BY <1>1, <1>2, <2>1
  <2>. QED
    BY <1>1, <1>4, <2>2 DEF ResetsInv
<1>. QED
  BY <1>3, <1>4

LEMMA SavePays ==
  ASSUME TypeOK, ResetsInv, workload' = workload, NEW k \in Clients, ResetSave(k),
         ~workload.overlap /\ OneAtATime => OneAtATime',
         \A l \in Clients : l # k => request'[l] = request[l]
  PROVE  ResetsInv'
<1>. SUFFICES ASSUME ~workload.faults PROVE ResetsInv'
  BY DEF ResetsInv
<1>1. PICK n \in Nat : n = history["PASSWORD_RESET"].passed
  BY DEF TypeOK, EmailTypes, History, Purposes
<1>2. resets \in Nat /\ request \in [Clients -> Requests]
  BY DEF TypeOK
<1>3. /\ request[k].pc = "resetSave" /\ request'[k].pc = "resetClear"
      /\ resets' = resets + 1 /\ verified' = verified /\ history' = history
  BY <1>2 DEF ResetSave, At, Goto, Next1, emailVars
<1>4. CASE workload.overlap
  <2>1. Entitled' \subseteq Entitled \ {k} /\ k \in Entitled
    BY <1>3 DEF Entitled
  <2>2. PICK S : S = Entitled
    OBVIOUS
  <2>3. PICK T : T = Entitled'
    OBVIOUS
  <2>4. S \in SUBSET Clients /\ S \ {k} \in SUBSET Clients /\ T \in SUBSET (S \ {k}) /\ k \in S
    BY <2>1, <2>2, <2>3 DEF Entitled
  <2>5. /\ Cardinality(T) <= Cardinality(S \ {k}) /\ Cardinality(T) \in Nat
        /\ Cardinality(S \ {k}) = Cardinality(S) - 1 /\ Cardinality(S) \in Nat
    BY <2>4, ClientSets
  <2>6. resets + Cardinality(S) <= n * Cardinality(Clients)
    BY <1>1, <1>4, <2>2 DEF ResetsInv
  <2>7. n * Cardinality(Clients) \in Nat
    BY <1>1, ClientSets
  <2>8. resets' + Cardinality(T) <= n * Cardinality(Clients)
    BY <1>2, <1>3, <2>5, <2>6, <2>7
  <2>. QED
    BY <1>1, <1>3, <1>4, <2>3, <2>8 DEF ResetsInv
<1>5. CASE ~workload.overlap
  <2>1. Due /\ OneAtATime /\ OneAtATime'
    BY <1>3, <1>5 DEF Due, ResetsInv
  <2>2. ~Due'
    <3>1. \A l \in Clients : l # k => request'[l].pc = "idle"
      BY <1>3, <2>1 DEF OneAtATime, Idle
    <3>. QED
      BY <1>3, <3>1 DEF Due
  <2>3. resets + 1 <= n
    BY <1>1, <1>5, <2>1 DEF ResetsInv
  <2>4. resets' + 0 <= n
    BY <1>1, <1>2, <1>3, <2>3
  <2>. QED
    BY <1>1, <1>3, <1>5, <2>1, <2>2, <2>4 DEF ResetsInv
<1>. QED
  BY <1>4, <1>5

LEMMA AccountPays ==
  ASSUME TypeOK, NEW k \in Clients, AccountStep(k)
  PROVE  ResetsRest
<1>0. /\ request \in [Clients -> Requests]
      /\ UNCHANGED <<resets, history, verified>>
  BY DEF TypeOK, AccountStep, emailVars
<1>. SUFFICES /\ request[k].pc # "resetClear" /\ request'[k].pc # "resetSave"
  BY <1>0, OthersStay DEF ResetsRest
<1>. USE DEF At, Goto, Done, Idle, Next1, MayStart
<1>1. CASE SignupStart(k) \/ SignupFind(k) \/ SignupInsert(k) \/ LoginStart(k)
  BY <1>0, <1>1 DEF SignupStart, SignupFind, SignupInsert, LoginStart
<1>2. CASE OAuthStart(k) \/ OAuthInsert(k) \/ OAuthCode(k) \/ ExchangeOwner(k) \/ Grant(k)
  BY <1>0, <1>2 DEF OAuthStart, OAuthInsert, OAuthCode, ExchangeOwner, Grant
<1>3. CASE DeactivateStart(k) \/ Deactivate(k) \/ ReactivateFind(k) \/ Reactivate(k)
  BY <1>0, <1>3 DEF DeactivateStart, Deactivate, ReactivateFind, Reactivate
<1>4. CASE ProfileStart(k) \/ ProfileSave(k)
  <2>1. CASE ProfileStart(k)
    BY <1>0, <2>1 DEF ProfileStart
  <2>2. CASE ProfileSave(k)
    <3>1. request[k].pc = "profileSave" /\ request'[k] = Idle
      BY <1>0, <2>2, Zenon DEF ProfileSave
    <3>. QED
      BY <3>1
  <2>. QED
    BY <1>4, <2>1, <2>2
<1>5. CASE \E t \in Tickets : ExchangeStart(k, t) \/ ReactivateStart(k, t)
  BY <1>0, <1>5 DEF ExchangeStart, ReactivateStart
<1>. QED
  BY <1>1, <1>2, <1>3, <1>4, <1>5 DEF AccountStep

LEMMA FlagPays ==
  ASSUME TypeOK, NEW k \in Clients,
         SignupClear(k) \/ ResetStart(k) \/ ResetFlag(k) \/ ResetClear(k),
         \A l \in Clients : l # k => request'[l] = request[l]
  PROVE  ResetsRest
<1>0. request \in [Clients -> Requests]
  BY DEF TypeOK
<1>. USE DEF At, Goto, Done, Idle, Next1, MayStart, emailVars
<1>1. CASE ResetFlag(k)
  <2>1. request[k] \in [pc : {"resetFlag", "resetSave", "profileSave"}, row : Row]
    BY <1>0, <1>1, RequestFields DEF ResetFlag
  <2>2. /\ request[k].pc = "resetFlag" /\ UNCHANGED <<resets, history, verified>>
        /\ request'[k].pc \in {"resetSave", "idle"}
        /\ request'[k].pc = "resetSave" => "PASSWORD_RESET" \in verified
    BY <1>0, <1>1, <2>1 DEF ResetFlag
  <2>. QED
    BY <2>2 DEF ResetsRest
<1>2. CASE ResetClear(k)
  BY <1>0, <1>2 DEF ResetClear, ResetsRest
<1>3. CASE SignupClear(k) \/ ResetStart(k)
  BY <1>0, <1>3 DEF SignupClear, ResetStart, ResetsRest
<1>. QED
  BY <1>1, <1>2, <1>3

LEMMA ResetsInvStep == TypeInv /\ ResetsInv /\ [Next]_vars => ResetsInv'
<1>. SUFFICES ASSUME TypeInv, ResetsInv, [Next]_vars, ~workload.faults PROVE ResetsInv'
  <2>1. [Next]_vars => workload' = workload
    BY DEF Next, AccountStep, FlagStep, Abort, Expire, vars
  <2>. QED
    BY <2>1 DEF ResetsInv
<1>0. TypeOK /\ request \in [Clients -> Requests] /\ "PASSWORD_RESET" \in Purposes
  BY DEF TypeInv, TypeOK, Purposes
<1>1. ASSUME NEW k \in Clients, EmailStep(k), UNCHANGED <<workload, resets>> PROVE ResetsInv'
  <2>1. ~workload.overlap /\ OneAtATime => OneAtATime'
    BY <1>0, <1>1, StaysOneAtATime
  <2>2. CASE history'["PASSWORD_RESET"].passed = history["PASSWORD_RESET"].passed + 1
    BY <1>0, <1>1, <2>1, <2>2, CodePays
  <2>3. CASE /\ history'["PASSWORD_RESET"].passed = history["PASSWORD_RESET"].passed
             /\ "PASSWORD_RESET" \in verified' => "PASSWORD_RESET" \in verified
    <3>1. request[k].pc # "resetClear"
      BY <1>1, EmailStarts DEF PlainPcs, CodePcs
    <3>2. request'[k] = request[k] \/ request'[k].pc # "resetSave"
      BY <1>0, <1>1, EmailGoes DEF PlainPcs, CodePcs
    <3>3. ResetsRest
      BY <1>0, <1>1, <2>3, <3>1, <3>2, OthersStay DEF ResetsRest
    <3>. QED
      BY <1>0, <1>1, <2>1, <3>3, RestPays
  <2>. QED
    BY <1>0, <1>1, <2>2, <2>3, FlagIsPaid
<1>2. ASSUME NEW k \in Clients, SessionStep(k), UNCHANGED <<workload, emailVars, resets>>
      PROVE  ResetsInv'
  <2>1. ~workload.overlap /\ OneAtATime => OneAtATime'
    BY <1>0, <1>2, StaysOneAtATime
  <2>2. request[k].pc # "resetClear"
    BY <1>2, SessionStarts DEF SessionPcs
  <2>3. request'[k] = request[k] \/ request'[k].pc # "resetSave"
    BY <1>0, <1>2, SessionGoes DEF SessionPcs
  <2>4. ResetsRest
    BY <1>0, <1>2, <2>2, <2>3, OthersStay DEF ResetsRest, emailVars
  <2>. QED
    BY <1>0, <1>2, <2>1, <2>4, RestPays
<1>3. ASSUME NEW k \in Clients, AccountStep(k) PROVE ResetsInv'
  <2>1. ~workload.overlap /\ OneAtATime => OneAtATime'
    BY <1>0, <1>3, StaysOneAtATime
  <2>. QED
    BY <1>0, <1>3, <2>1, AccountPays, RestPays DEF AccountStep
<1>4. ASSUME NEW k \in Clients, FlagStep(k) PROVE ResetsInv'
  <2>1. ~workload.overlap /\ OneAtATime => OneAtATime'
    BY <1>0, <1>4, StaysOneAtATime
  <2>2. \A l \in Clients : l # k => request'[l] = request[l]
    BY <1>0, <1>4, OthersStay
  <2>. QED
    BY <1>0, <1>4, <2>1, <2>2, FlagPays, RestPays, SavePays DEF FlagStep
<1>5. CASE \E k \in Clients : Abort(k)
  BY <1>5 DEF Abort
<1>6. CASE Expire
  <2>1. ResetsRest
    BY <1>0, <1>6, ExpiryPays DEF Expire, ResetsRest
  <2>. QED
    BY <1>0, <1>6, <2>1, RestPays DEF Expire, OneAtATime
<1>7. CASE UNCHANGED vars
  <2>1. ResetsRest
    BY <1>7 DEF ResetsRest, vars, emailVars
  <2>. QED
    BY <1>0, <1>7, <2>1, RestPays DEF vars, OneAtATime
<1>. QED
  BY <1>1, <1>2, <1>3, <1>4, <1>5, <1>6, <1>7 DEF Next

\* A local account comes from a code mailed for sign-up, and a right code for a
\* reset pays for one reset, or for one of each request in progress at that time:
\* AuthService checks the flag first and deletes it last.  The first half holds
\* whatever fails.
THEOREM CodesCorrect == Spec => []CodesAreNeeded
<1>1. Init => SignupInv /\ ResetsInv
  <2>. SUFFICES ASSUME Init PROVE SignupInv /\ ResetsInv
    OBVIOUS
  <2>1. /\ verified = {} /\ resets = 0 /\ \A k \in Clients : request[k].pc = "idle"
        /\ \A p \in Purposes : history[p].passed = 0
    BY DEF Init, EmailInit, Idle, NewHistory
  <2>2. workload.provider = "NONE" => user.provider # "LOCAL"
    BY DEF Init, NoUser
  <2>3. SignupInv
    BY <2>1, <2>2 DEF SignupInv, RowPcs
  <2>4. Entitled = {} /\ ~Due /\ OneAtATime
    BY <2>1 DEF Entitled, Due, Init, OneAtATime
  <2>5. Cardinality(Entitled) = 0 /\ Cardinality(Clients) \in Nat
    BY <2>4, FS_EmptySet, ClientSets
  <2>6. history["PASSWORD_RESET"].passed = 0 /\ 0 * Cardinality(Clients) = 0
    BY <2>1, <2>5 DEF Purposes
  <2>. QED
    BY <2>1, <2>3, <2>4, <2>5, <2>6 DEF ResetsInv
<1>2. TypeInv /\ SignupInv /\ [Next]_vars => SignupInv'
  BY SignupInvStep
<1>3. TypeInv /\ ResetsInv /\ [Next]_vars => ResetsInv'
  BY ResetsInvStep
<1>4. TypeInv /\ SignupInv /\ ResetsInv => CodesAreNeeded
  <2>. SUFFICES ASSUME TypeInv, SignupInv, ResetsInv, ~workload.faults PROVE CodesAreNeeded
    BY DEF CodesAreNeeded
  <2>1. /\ history["SIGNUP"].passed \in Nat /\ resets \in Nat
        /\ history["PASSWORD_RESET"].passed \in Nat
    BY DEF TypeInv, TypeOK, EmailTypes, History, Purposes
  <2>2. workload.provider = "NONE" /\ user.provider = "LOCAL" => history["SIGNUP"].passed > 0
    BY <2>1 DEF SignupInv
  <2>3. CASE workload.overlap
    <3>1. PICK S : S = Entitled
      OBVIOUS
    <3>2. Cardinality(S) \in Nat
      BY <3>1, ClientSets DEF Entitled
    <3>3. resets + Cardinality(S) <= history["PASSWORD_RESET"].passed * Cardinality(Clients)
      BY <2>3, <3>1 DEF ResetsInv
    <3>4. history["PASSWORD_RESET"].passed * Cardinality(Clients) \in Nat
      BY <2>1, ClientSets
    <3>5. resets <= history["PASSWORD_RESET"].passed * Cardinality(Clients)
      BY <2>1, <3>2, <3>3, <3>4
    <3>. QED
      BY <2>2, <2>3, <3>5 DEF CodesAreNeeded, Width
  <2>4. CASE ~workload.overlap
    <3>1. resets <= history["PASSWORD_RESET"].passed * 1
      BY <2>1, <2>4 DEF ResetsInv
    <3>. QED
      BY <2>2, <2>4, <3>1 DEF CodesAreNeeded, Width
  <2>. QED
    BY <2>3, <2>4
<1>. QED
  BY <1>1, <1>2, <1>3, <1>4, TypeInvariant, PTL DEF Spec

-----------------------------------------------------------------------------
(* Mails of one window of the limit                                        *)

UncountedPcs == {"forget", "store", "cool", "count"}

MailPcs == {"mail", "window"} \union UncountedPcs

\* Requests that have mailed a code and not counted it, and with them those that
\* have passed the limit and are about to mail one.
Uncounted(p) == {k \in Clients : request[k].pc \in UncountedPcs /\ request[k].purpose = p}

Sending(p) ==
  {k \in Clients : request[k].pc \in {"mail"} \union UncountedPcs /\ request[k].purpose = p}

\* The counter lags behind the mails by those that are not counted yet; the one
\* that passed the limit last found it not reached, and there are no more of
\* them at work than requests.
Mails(p) ==
  /\ history[p].inWindow = limit[p].count + Cardinality(Uncounted(p))
  /\ limit[p].count + Cardinality(Sending(p)) <= RateMax + Width - 1
  /\ \/ limit[p].count = 0 \/ limit[p].expires
     \/ \E k \in InFlight({"window"}) : request[k].purpose = p

Counted == workload.overlap \/ OneAtATime

MailInv == ~workload.faults => Counted /\ \A p \in Purposes : Mails(p)

OnMail(k, p) == request[k].pc \in MailPcs /\ request[k].purpose = p

LEMMA WidthBounds ==
  ASSUME Counted
  PROVE  /\ Width \in Nat /\ Width >= 1
         /\ \A S \in SUBSET {k \in Clients : request[k] # Idle} : Cardinality(S) <= Width
<1>1. CASE workload.overlap
  BY <1>1, ClientSets DEF Width
<1>2. CASE ~workload.overlap
  <2>1. Width = 1
    BY <1>2 DEF Width
  <2>2. ASSUME NEW S \in SUBSET {k \in Clients : request[k] # Idle}
        PROVE  Cardinality(S) <= 1
    <3>1. CASE S = {}
      BY <3>1, FS_EmptySet
    <3>2. CASE S # {}
      <4>1. PICK k \in S : TRUE
        BY <3>2
      <4>2. S = {k}
        BY <1>2, <4>1 DEF Counted, OneAtATime
      <4>. QED
        BY <4>2, FS_Singleton
    <3>. QED
      BY <3>1, <3>2
  <2>. QED
    BY <2>1, <2>2
<1>. QED
  BY <1>1, <1>2

LEMMA MailTypes ==
  ASSUME TypeOK, NEW p \in Purposes
  PROVE  /\ limit[p] \in Counter /\ limit[p].count \in Nat
         /\ history[p] \in History /\ history[p].inWindow \in Nat
         /\ Uncounted(p) \in SUBSET Clients /\ Sending(p) \in SUBSET Clients
         /\ Cardinality(Uncounted(p)) \in Nat /\ Cardinality(Sending(p)) \in Nat
         /\ RateMax \in Nat
<1>1. Uncounted(p) \in SUBSET Clients /\ Sending(p) \in SUBSET Clients
  BY DEF Uncounted, Sending
<1>2. Cardinality(Uncounted(p)) \in Nat /\ Cardinality(Sending(p)) \in Nat
  BY <1>1, ClientSets
<1>. QED
  BY <1>1, <1>2, EmailAssumption DEF TypeOK, EmailTypes, Counter, History

\* A step that leaves the counter, and the requests for this purpose where they are.
LEMMA MailsStay ==
  ASSUME TypeOK, NEW p \in Purposes, Mails(p), workload' = workload,
         limit'[p] = limit[p], history'[p].inWindow = history[p].inWindow,
         \A l \in Clients :
           \/ request'[l] = request[l]
           \/ ~OnMail(l, p) /\ ~OnMail(l, p)'
           \/ /\ request[l].pc \in UncountedPcs /\ request'[l].pc \in UncountedPcs
              /\ request'[l].purpose = request[l].purpose
  PROVE  Mails(p)'
<1>1. Uncounted(p)' = Uncounted(p)
  BY DEF Uncounted, OnMail, MailPcs
<1>2. Sending(p)' = Sending(p)
  BY DEF Sending, OnMail, MailPcs
<1>3. Cardinality(Uncounted(p)') = Cardinality(Uncounted(p))
      /\ Cardinality(Sending(p)') = Cardinality(Sending(p))
  BY <1>1, <1>2
<1>4. ASSUME NEW k \in InFlight({"window"}), request[k].purpose = p
      PROVE  k \in InFlight({"window"})' /\ request'[k].purpose = p
  BY <1>4 DEF InFlight, OnMail, MailPcs, UncountedPcs
<1>5. Width' = Width
  BY DEF Width
<1>. QED
  BY <1>3, <1>4, <1>5 DEF Mails

\* A step of a request for another purpose, or not for mails.
LEMMA OtherMails ==
  ASSUME TypeOK, NEW p \in Purposes, Mails(p), workload' = workload, NEW k \in Clients,
         EmailStep(k), limit'[p] = limit[p], history'[p].inWindow = history[p].inWindow,
         ~OnMail(k, p), ~OnMail(k, p)'
  PROVE  Mails(p)'
BY OthersStay, MailsStay DEF OnMail

LEMMA LimitMails ==
  ASSUME TypeOK, Counted, NEW p \in Purposes, Mails(p), workload' = workload, NEW k \in Clients,
         SendLimit(k), Counted'
  PROVE  Mails(p)'
<1>. DEFINE q == request[k].purpose
<1>0. /\ request \in [Clients -> Requests] /\ request[k].pc = "limit" /\ q \in Purposes
      /\ EmailStep(k) /\ limit' = limit /\ history' = history
  BY RequestFields DEF TypeOK, SendLimit, At, PlainPcs, EmailStep, emailVars
<1>1. CASE request'[k] # Step("mail", q) \/ q # p
  <2>1. request'[k] = Idle \/ request'[k] = Step("mail", q)
    BY <1>0 DEF SendLimit, Done, Goto
  <2>2. ~OnMail(k, p) /\ ~OnMail(k, p)'
    BY <1>0, <1>1, <2>1 DEF OnMail, MailPcs, UncountedPcs, Idle, Step
  <2>. QED
    BY <1>0, <2>2, OtherMails
<1>2. CASE request'[k] = Step("mail", q) /\ q = p
  <2>1. limit[p].count < RateMax
    BY <1>0, <1>2, MailTypes DEF SendLimit, Done, Goto, Idle, Step
  <2>2. \A l \in Clients : l # k => request'[l] = request[l]
    BY <1>0, OthersStay
  <2>3. Uncounted(p)' = Uncounted(p)
    BY <1>0, <1>2, <2>2 DEF Uncounted, UncountedPcs, Step
  <2>4. Sending(p)' \in SUBSET {l \in Clients : request[l] # Idle}'
    BY DEF Sending, UncountedPcs, Idle
  <2>5. PICK T : T = Sending(p)'
    OBVIOUS
  <2>6. /\ Width' \in Nat /\ Cardinality(T) <= Width' /\ Cardinality(T) \in Nat
    <3>1. T \in SUBSET Clients
      BY <2>5 DEF Sending
    <3>2. /\ Width \in Nat /\ Width >= 1
          /\ \A S \in SUBSET {l \in Clients : request[l] # Idle} : Cardinality(S) <= Width
      BY WidthBounds
    <3>3. /\ Width' \in Nat
          /\ \A S \in SUBSET {l \in Clients : request'[l] # Idle} : Cardinality(S) <= Width'
      <4>1. CASE workload.overlap
        BY <3>2, <4>1, ClientSets DEF Width
      <4>2. CASE ~workload.overlap
        <5>1. Width' = 1
          BY <4>2 DEF Width
        <5>2. ASSUME NEW S \in SUBSET {l \in Clients : request'[l] # Idle}
              PROVE  Cardinality(S) <= 1
          <6>1. \A l, m \in S : l = m
            BY <4>2, <5>2 DEF Counted, OneAtATime
          <6>2. S = {} \/ \E l \in S : S = {l}
            BY <6>1
          <6>3. CASE S = {}
            BY <6>3, FS_EmptySet
          <6>4. ASSUME NEW l \in S, S = {l} PROVE Cardinality(S) <= 1
            <7>1. Cardinality({l}) = 1
              BY FS_Singleton
            <7>. QED
              BY <6>4, <7>1
          <6>. QED
            BY <6>2, <6>3, <6>4
        <5>. QED
          BY <5>1, <5>2
      <4>. QED
        BY <4>1, <4>2
    <3>. QED
      BY <2>4, <2>5, <3>1, <3>3, ClientSets
  <2>7. Width' = Width
    BY DEF Width
  <2>8. limit[p].count + Cardinality(T) <= RateMax + Width' - 1
    BY <2>1, <2>6, MailTypes
  <2>9. InFlight({"window"}) \subseteq InFlight({"window"})'
        /\ \A l \in InFlight({"window"}) : request'[l] = request[l]
    BY <1>0, <2>2 DEF InFlight
  <2>10. Cardinality(Uncounted(p)') = Cardinality(Uncounted(p))
    BY <2>3
  <2>. QED
    BY <1>0, <2>5, <2>8, <2>9, <2>10 DEF Mails
<1>. QED
  BY <1>1, <1>2

LEMMA MailMails ==
  ASSUME TypeOK, NEW p \in Purposes, Mails(p), workload' = workload, NEW k \in Clients,
         SendMail(k)
  PROVE  Mails(p)'
<1>. DEFINE q == request[k].purpose
<1>0. /\ request \in [Clients -> Requests] /\ request[k].pc = "mail" /\ q \in Purposes
      /\ EmailStep(k) /\ limit' = limit /\ history \in [Purposes -> History]
  BY RequestFields DEF TypeOK, EmailTypes, SendMail, At, PlainPcs, EmailStep
<1>1. request'[k].pc = "forget" /\ request'[k].purpose = q
  BY <1>0 DEF SendMail, Goto, CodeStep
<1>2. history'[p].inWindow = IF q = p THEN history[p].inWindow + 1 ELSE history[p].inWindow
  BY <1>0 DEF SendMail, History
<1>3. CASE q # p
  BY <1>0, <1>1, <1>2, <1>3, OtherMails DEF OnMail
<1>4. CASE q = p
  <2>2. \A l \in Clients : l # k => request'[l] = request[l]
    BY <1>0, OthersStay
  <2>3. Uncounted(p)' = Uncounted(p) \union {k} /\ k \notin Uncounted(p)
    BY <1>0, <1>1, <1>4, <2>2 DEF Uncounted, UncountedPcs
  <2>4. Sending(p)' = Sending(p)
    BY <1>0, <1>1, <1>4, <2>2 DEF Sending, UncountedPcs
  <2>5. PICK S, T : S = Uncounted(p) /\ T = Uncounted(p)'
    OBVIOUS
  <2>6. Cardinality(T) = Cardinality(S) + 1
    <3>1. IsFiniteSet(S)
      BY <2>5, MailTypes, ClientSets
    <3>. QED
      BY <2>3, <2>5, <3>1, FS_AddElement
  <2>7. history'[p].inWindow = limit[p].count + Cardinality(T)
    BY <1>2, <1>4, <2>5, <2>6, MailTypes DEF Mails
  <2>8. Width' = Width /\ Cardinality(Sending(p)') = Cardinality(Sending(p))
    BY <2>4 DEF Width
  <2>9. InFlight({"window"}) \subseteq InFlight({"window"})'
        /\ \A l \in InFlight({"window"}) : request'[l] = request[l]
    BY <1>0, <2>2 DEF InFlight
  <2>. QED
    BY <1>0, <2>5, <2>7, <2>8, <2>9 DEF Mails
<1>. QED
  BY <1>3, <1>4

LEMMA CountMails ==
  ASSUME TypeOK, NEW p \in Purposes, Mails(p), workload' = workload, NEW k \in Clients,
         SendCount(k)
  PROVE  Mails(p)'
<1>. DEFINE q == request[k].purpose
<1>0. /\ request \in [Clients -> Requests] /\ request[k].pc = "count" /\ q \in Purposes
      /\ EmailStep(k) /\ history' = history /\ limit \in [Purposes -> Counter]
  BY RequestFields DEF TypeOK, EmailTypes, SendCount, At, PlainPcs, EmailStep, Counter
<1>1. limit' = [limit EXCEPT ![q] = Incremented(limit[q])]
  BY DEF SendCount
<1>2. request'[k] = Idle \/ request'[k] = Step("window", q)
  BY <1>0 DEF SendCount, Goto, Done
<1>3. CASE q # p
  <2>1. ~OnMail(k, p) /\ ~OnMail(k, p)' /\ limit'[p] = limit[p]
    BY <1>0, <1>1, <1>2, <1>3 DEF OnMail, Idle, Step, MailPcs, UncountedPcs
  <2>. QED
    BY <1>0, <2>1, OtherMails
<1>4. CASE q = p
  <2>1. /\ limit'[p].count = limit[p].count + 1
        /\ limit'[p].expires = limit[p].expires
    BY <1>0, <1>1, <1>4 DEF Incremented, Counter
  <2>2. \A l \in Clients : l # k => request'[l] = request[l]
    BY <1>0, OthersStay
  <2>3. /\ Uncounted(p)' = Uncounted(p) \ {k} /\ k \in Uncounted(p)
        /\ Sending(p)' = Sending(p) \ {k} /\ k \in Sending(p)
    BY <1>0, <1>2, <1>4, <2>2 DEF Uncounted, Sending, UncountedPcs, Idle, Step
  <2>4. PICK S, T : S = Uncounted(p) /\ T = Uncounted(p)'
    OBVIOUS
  <2>5. PICK S2, T2 : S2 = Sending(p) /\ T2 = Sending(p)'
    OBVIOUS
  <2>6. Cardinality(T) = Cardinality(S) - 1 /\ Cardinality(T2) = Cardinality(S2) - 1
    <3>1. S \in SUBSET Clients /\ S2 \in SUBSET Clients
      BY <2>4, <2>5, MailTypes
    <3>. QED
      BY <2>3, <2>4, <2>5, <3>1, ClientSets
  <2>7. /\ history[p].inWindow = limit'[p].count + Cardinality(T)
        /\ limit'[p].count + Cardinality(T2) = limit[p].count + Cardinality(S2)
    BY <2>1, <2>4, <2>5, <2>6, MailTypes DEF Mails
  <2>8. Width' = Width
    BY DEF Width
  <2>9. ASSUME limit[p].count # 0, ~limit[p].expires
        PROVE  \E l \in InFlight({"window"})' : request'[l].purpose = p
    <3>1. PICK l \in InFlight({"window"}) : request[l].purpose = p
      BY <2>9 DEF Mails
    <3>. QED
      BY <1>0, <2>2, <3>1 DEF InFlight
  <2>10. ASSUME limit[p].count = 0 PROVE \E l \in InFlight({"window"})' : request'[l].purpose = p
    <3>1. request'[k] = Step("window", p)
      BY <1>0, <1>4, <2>1, <2>10 DEF SendCount, Goto
    <3>. QED
      BY <3>1 DEF InFlight, Step
  <2>. QED
    BY <1>0, <2>1, <2>4, <2>5, <2>7, <2>8, <2>9, <2>10 DEF Mails
<1>. QED
  BY <1>3, <1>4

LEMMA WindowMails ==
  ASSUME TypeOK, NEW p \in Purposes, Mails(p), workload' = workload, NEW k \in Clients,
         SendWindow(k)
  PROVE  Mails(p)'
<1>. DEFINE q == request[k].purpose
<1>0. /\ request \in [Clients -> Requests] /\ request[k].pc = "window" /\ q \in Purposes
      /\ EmailStep(k) /\ history' = history /\ limit \in [Purposes -> Counter]
      /\ request'[k] = Idle
  BY RequestFields DEF TypeOK, EmailTypes, SendWindow, At, PlainPcs, EmailStep, Counter, Done, Goto
<1>1. limit' = [limit EXCEPT ![q].expires = limit[q].expires \/ limit[q].count > 0]
  BY DEF SendWindow
<1>3. CASE q # p
  <2>1. ~OnMail(k, p) /\ ~OnMail(k, p)' /\ limit'[p] = limit[p]
    BY <1>0, <1>1, <1>3 DEF OnMail, Idle, MailPcs, UncountedPcs
  <2>. QED
    BY <1>0, <2>1, OtherMails
<1>4. CASE q = p
  <2>1. /\ limit'[p].count = limit[p].count
        /\ limit'[p].expires = (limit[p].expires \/ limit[p].count > 0)
    BY <1>0, <1>1, <1>4 DEF Counter
  <2>2. \A l \in Clients : l # k => request'[l] = request[l]
    BY <1>0, OthersStay
  <2>3. Uncounted(p)' = Uncounted(p) /\ Sending(p)' = Sending(p)
    BY <1>0, <2>2 DEF Uncounted, Sending, UncountedPcs, Idle
  <2>4. /\ Cardinality(Uncounted(p)') = Cardinality(Uncounted(p))
        /\ Cardinality(Sending(p)') = Cardinality(Sending(p)) /\ Width' = Width
    BY <2>3 DEF Width
  <2>5. limit'[p].count = 0 \/ limit'[p].expires
    <3>1. limit[p].count > 0 => limit'[p].expires
      BY <2>1, Zenon
    <3>. QED
      BY <2>1, <3>1, MailTypes
  <2>. QED
    BY <1>0, <2>1, <2>4, <2>5 DEF Mails
<1>. QED
  BY <1>3, <1>4

LEMMA ExpiredMails ==
  ASSUME TypeOK, Counted, NEW p \in Purposes, Mails(p), UNCHANGED <<workload, request>>,
         NEW q \in Purposes, ExpireLimit(q)
  PROVE  Mails(p)'
<1>0. history \in [Purposes -> History] /\ limit \in [Purposes -> Counter]
  BY DEF TypeOK, EmailTypes, Counter
<1>1. CASE q # p
  <2>1. limit'[p] = limit[p] /\ history'[p].inWindow = history[p].inWindow
    BY <1>0, <1>1 DEF ExpireLimit, History
  <2>. QED
    BY <2>1, MailsStay
<1>2. CASE q = p
  <2>1. limit'[p].count = 0
    BY <1>0, <1>2 DEF ExpireLimit, NoCounter
  <2>2. {k \in InFlight({"forget", "store", "cool", "count"}) : request[k].purpose = p}
          = Uncounted(p)
    BY DEF InFlight, Uncounted, UncountedPcs
  <2>3. history'[p].inWindow = Cardinality(Uncounted(p))
    BY <1>0, <1>2, <2>2 DEF ExpireLimit, History
  <2>4. Uncounted(p)' = Uncounted(p) /\ Sending(p)' = Sending(p) /\ Width' = Width
    BY DEF Uncounted, Sending, Width
  <2>5. Cardinality(Uncounted(p)') = Cardinality(Uncounted(p))
        /\ Cardinality(Sending(p)') = Cardinality(Sending(p))
    BY <2>4
  <2>6. Cardinality(Sending(p)) <= RateMax + Width - 1
    BY MailTypes, WidthBounds DEF Mails
  <2>. QED
    BY <2>1, <2>3, <2>4, <2>5, <2>6, MailTypes DEF Mails
<1>. QED
  BY <1>1, <1>2

\* Any other step of a request for codes; it stays where it is as to the mails.
LEMMA RestMails ==
  ASSUME TypeOK, NEW p \in Purposes, Mails(p), workload' = workload, NEW k \in Clients,
         EmailStep(k), ~SendLimit(k), ~SendMail(k), ~SendCount(k), ~SendWindow(k)
  PROVE  Mails(p)'
<1>0. /\ request \in [Clients -> Requests] /\ history \in [Purposes -> History]
      /\ request[k].pc \in PlainPcs \union CodePcs => request[k].purpose \in Purposes
  BY RequestFields DEF TypeOK, EmailTypes
<1>. USE DEF At, Goto, Done, Idle, Step, CodeStep
<1>1. CASE SendForget(k) \/ SendStore(k) \/ SendCool(k)
  <2>1. request[k] \in [pc : CodePcs, purpose : Purposes, code : 1..MaxMails]
    BY <1>0, <1>1, RequestFields DEF CodePcs, SendForget, SendStore, SendCool
  <2>2. /\ request[k].pc \in UncountedPcs /\ request'[k].pc \in UncountedPcs
        /\ request'[k].purpose = request[k].purpose /\ limit' = limit
    BY <1>0, <1>1, <2>1 DEF SendForget, SendStore, SendCool, UncountedPcs
  <2>3. history'[p].inWindow = history[p].inWindow
    <3>1. CASE SendForget(k)
      BY <1>0, <2>1, <3>1 DEF SendForget, ForgetAttempts, History
    <3>2. CASE SendStore(k)
      <4>. DEFINE h == [history EXCEPT ![request[k].purpose].wrong = 0]
      <4>1. h \in [Purposes -> History] /\ h[p].inWindow = history[p].inWindow
        BY <1>0, <2>1 DEF History
      <4>2. history' = [h EXCEPT ![request[k].purpose].budgets = 1]
        BY <3>2 DEF SendStore
      <4>. HIDE DEF h
      <4>. QED
        BY <4>1, <4>2 DEF History
    <3>3. CASE SendCool(k)
      BY <3>3 DEF SendCool
    <3>. QED
      BY <1>1, <3>1, <3>2, <3>3
  <2>. QED
    BY <1>1, <2>2, <2>3, OthersStay, MailsStay
<1>2. CASE \/ \E q \in Purposes : SendStart(k, q) \/ VerifyStart(k, q)
           \/ SendCooldown(k) \/ VerifyLoad(k) \/ VerifyRefuse(k) \/ VerifyRight(k)
           \/ VerifyCountWrong(k) \/ VerifyWrongWindow(k) \/ VerifyClearCode(k)
  <2>1. limit' = limit /\ history' = history
    BY <1>2 DEF SendStart, VerifyStart, SendCooldown, VerifyLoad, VerifyRefuse, VerifyRight,
                VerifyCountWrong, VerifyWrongWindow, VerifyClearCode, emailVars
  <2>2. request[k].pc \notin MailPcs
    BY <1>2 DEF SendStart, VerifyStart, SendCooldown, VerifyLoad, VerifyRefuse, VerifyRight,
                VerifyCountWrong, VerifyWrongWindow, VerifyClearCode, MailPcs, UncountedPcs,
                MayStart
  <2>3. request'[k].pc \notin MailPcs
    BY <1>0, <1>2
       DEF SendStart, VerifyStart, SendCooldown, VerifyLoad, VerifyRefuse, VerifyRight,
           VerifyCountWrong, VerifyWrongWindow, VerifyClearCode, MailPcs, UncountedPcs
  <2>. QED
    BY <2>1, <2>2, <2>3, OtherMails DEF OnMail
<1>3. CASE VerifyWrong(k) \/ VerifyClearTries(k) \/ VerifyFlag(k)
  <2>1. request[k].purpose \in Purposes
    BY <1>0, <1>3 DEF VerifyWrong, VerifyClearTries, VerifyFlag, PlainPcs, CodePcs
  <2>2. limit' = limit /\ history'[p].inWindow = history[p].inWindow
    BY <1>0, <1>3, <2>1 DEF VerifyWrong, VerifyClearTries, VerifyFlag, ForgetAttempts, History
  <2>3. request[k].pc \notin MailPcs /\ request'[k].pc \notin MailPcs
    BY <1>0, <1>3 DEF VerifyWrong, VerifyClearTries, VerifyFlag, MailPcs, UncountedPcs
  <2>. QED
    BY <2>2, <2>3, OtherMails DEF OnMail
<1>. QED
  BY <1>1, <1>2, <1>3 DEF EmailStep

LEMMA MailInvStep == TypeInv /\ MailInv /\ [Next]_vars => MailInv'
<1>. SUFFICES ASSUME TypeInv, MailInv, [Next]_vars, ~workload.faults PROVE MailInv'
  <2>1. [Next]_vars => workload' = workload
    BY DEF Next, AccountStep, FlagStep, Abort, Expire, vars
  <2>. QED
    BY <2>1 DEF MailInv
<1>0. /\ TypeOK /\ request \in [Clients -> Requests] /\ history \in [Purposes -> History]
      /\ Counted /\ \A p \in Purposes : Mails(p)
  BY DEF TypeInv, TypeOK, EmailTypes, MailInv
<1>1. ASSUME NEW k \in Clients, EmailStep(k), workload' = workload PROVE MailInv'
  <2>1. Counted'
    BY <1>0, <1>1, StaysOneAtATime DEF Counted
  <2>2. ASSUME NEW p \in Purposes PROVE Mails(p)'
    BY <1>0, <1>1, <2>1, LimitMails, MailMails, CountMails, WindowMails, RestMails
  <2>. QED
    BY <2>1, <2>2 DEF MailInv
<1>2. ASSUME NEW k \in Clients, workload' = workload, UNCHANGED emailVars,
             SessionStep(k) \/ AccountStep(k) \/ FlagStep(k) \/ Abort(k),
             request[k].pc \notin MailPcs, request'[k].pc \notin MailPcs
      PROVE  MailInv'
  <2>1. Counted'
    BY <1>0, <1>2, StaysOneAtATime DEF Counted
  <2>2. ASSUME NEW p \in Purposes PROVE Mails(p)'
    BY <1>0, <1>2, OthersStay, MailsStay DEF OnMail, emailVars
  <2>. QED
    BY <2>1, <2>2 DEF MailInv
<1>3. ASSUME NEW k \in Clients, SessionStep(k), UNCHANGED <<workload, emailVars>> PROVE MailInv'
  <2>1. request[k].pc \notin MailPcs
    BY <1>3, SessionStarts DEF SessionPcs, MailPcs, UncountedPcs
  <2>2. request'[k].pc \notin MailPcs
    BY <1>0, <1>3, <2>1, SessionGoes DEF SessionPcs, MailPcs, UncountedPcs
  <2>. QED
    BY <1>2, <1>3, <2>1, <2>2
<1>4. ASSUME NEW k \in Clients, AccountStep(k) \/ FlagStep(k) PROVE MailInv'
  <2>1. request[k].pc \notin MailPcs
    BY <1>4, AccountStarts DEF PlainPcs, CodePcs, MailPcs, UncountedPcs
  <2>2. request'[k].pc \notin MailPcs
    BY <1>0, <1>4, <2>1, AccountGoes DEF PlainPcs, CodePcs, MailPcs, UncountedPcs
  <2>3. workload' = workload
    BY <1>4 DEF AccountStep, FlagStep
  <2>4. Counted'
    BY <1>0, <1>4, <2>3, StaysOneAtATime DEF Counted
  <2>5. UNCHANGED <<limit, history>>
    BY <1>4 DEF AccountStep, FlagStep, emailVars, SignupClear, ResetStart, ResetFlag, ResetSave,
                ResetClear
  <2>6. ASSUME NEW p \in Purposes PROVE Mails(p)'
    BY <1>0, <1>4, <2>1, <2>2, <2>3, <2>5, OthersStay, MailsStay DEF OnMail
  <2>. QED
    BY <2>4, <2>6 DEF MailInv
<1>5. CASE \E k \in Clients : Abort(k)
  BY <1>5 DEF Abort
<1>6. CASE Expire
  <2>0. UNCHANGED <<workload, request>>
    BY <1>6 DEF Expire
  <2>1. Counted'
    BY <1>0, <2>0 DEF Counted, OneAtATime
  <2>2. ASSUME NEW p \in Purposes PROVE Mails(p)'
    <3>1. ASSUME NEW q \in Purposes, ExpireLimit(q) PROVE Mails(p)'
      BY <1>0, <2>0, <3>1, ExpiredMails
    <3>2. CASE UNCHANGED emailVars
      BY <1>0, <2>0, <3>2, MailsStay DEF emailVars
    <3>3. ASSUME NEW q \in Purposes,
                 ExpireOtp(q) \/ ExpireAttempts(q) \/ ExpireCooldown(q) \/ ExpireVerified(q)
          PROVE  Mails(p)'
      <4>1. limit' = limit /\ history'[p].inWindow = history[p].inWindow
        BY <1>0, <3>3
           DEF ExpireOtp, ExpireAttempts, ExpireCooldown, ExpireVerified, ForgetAttempts, History
      <4>. QED
        BY <1>0, <2>0, <4>1, MailsStay
    <3>. QED
      BY <1>6, <3>1, <3>2, <3>3 DEF Expire, EmailExpiry
  <2>. QED
    BY <2>1, <2>2 DEF MailInv
<1>7. CASE UNCHANGED vars
  <2>1. Counted'
    BY <1>0, <1>7 DEF Counted, OneAtATime, vars
  <2>2. ASSUME NEW p \in Purposes PROVE Mails(p)'
    BY <1>0, <1>7, MailsStay DEF vars, emailVars
  <2>. QED
    BY <2>1, <2>2 DEF MailInv
<1>. QED
  BY <1>1, <1>3, <1>4, <1>5, <1>6, <1>7 DEF Next

\* As long as no call fails at most RateMax codes are mailed in one window of the
\* limit, and one more for each other request that is in progress: the counter is
\* read before the mail and counted up after it.  And it never stays without an end
\* of its life (AuthService.sendEmailOtp).
THEOREM MailsCorrect == Spec => []MailsAreLimited
<1>1. Init => MailInv
  <2>. SUFFICES ASSUME Init PROVE MailInv
    OBVIOUS
  <2>1. Counted
    BY DEF Init, Counted, OneAtATime
  <2>2. ASSUME NEW p \in Purposes PROVE Mails(p)
    <3>1. Uncounted(p) = {} /\ Sending(p) = {}
      BY DEF Init, Idle, Uncounted, Sending, UncountedPcs
    <3>2. Cardinality(Uncounted(p)) = 0 /\ Cardinality(Sending(p)) = 0
      BY <3>1, FS_EmptySet
    <3>3. history[p].inWindow = 0 /\ limit[p].count = 0
      BY DEF Init, EmailInit, NewHistory, NoCounter
    <3>. QED
      BY <2>1, <3>2, <3>3, WidthBounds, EmailAssumption DEF Mails
  <2>. QED
    BY <2>1, <2>2 DEF MailInv
<1>2. TypeInv /\ MailInv /\ [Next]_vars => MailInv'
  BY MailInvStep
<1>3. TypeInv /\ MailInv => MailsAreLimited
  <2>. SUFFICES ASSUME TypeInv, MailInv, ~workload.faults, NEW p \in Purposes
                PROVE  /\ history[p].inWindow <= RateMax + Width - 1
                       /\ \/ limit[p].count = 0 \/ limit[p].expires
                          \/ \E k \in InFlight({"window"}) : request[k].purpose = p
    BY DEF MailsAreLimited
  <2>0. TypeOK /\ Counted /\ Mails(p)
    BY DEF TypeInv, MailInv
  <2>1. Uncounted(p) \subseteq Sending(p)
    BY DEF Uncounted, Sending
  <2>2. PICK S, T : S = Uncounted(p) /\ T = Sending(p)
    OBVIOUS
  <2>3. T \in SUBSET Clients /\ S \in SUBSET T
    BY <2>1, <2>2 DEF Sending
  <2>4. Cardinality(S) <= Cardinality(T) /\ Cardinality(S) \in Nat /\ Cardinality(T) \in Nat
    BY <2>3, ClientSets
  <2>5. history[p].inWindow = limit[p].count + Cardinality(S)
        /\ limit[p].count + Cardinality(T) <= RateMax + Width - 1
    BY <2>0, <2>2 DEF Mails
  <2>6. history[p].inWindow <= RateMax + Width - 1
    BY <2>0, <2>4, <2>5, MailTypes, WidthBounds
  <2>. QED
    BY <2>0, <2>6 DEF Mails
<1>. QED
  BY <1>1, <1>2, <1>3, TypeInvariant, PTL DEF Spec

-----------------------------------------------------------------------------
(* Wrong codes                                                             *)

\* Requests that have compared a wrong code and not counted it.
Guessing(p) == {k \in Clients : request[k].pc = "countWrong" /\ request[k].purpose = p}

Budget == MaxAttempts + Cardinality(Clients) - 1

\* Overlapping requests: each time the counter starts from 0 it lets Budget wrong
\* codes through, and those of the time that has begun are counted or about to be.
Guesses(p) ==
  /\ history[p].budgets >= 1
  /\ attempts[p].count + Cardinality(Guessing(p)) <= Budget
  /\ history[p].wrong <= Budget * history[p].budgets
  /\ otp[p] # 0 =>
       history[p].wrong + Budget <=
         Budget * history[p].budgets + attempts[p].count + Cardinality(Guessing(p))

AtStep(k, pc, p) == request[k].pc = pc /\ request[k].purpose = p

\* One by one: every wrong code of a stored code is counted, but between the end
\* of the counter and the new code; and the counter never ends before the code.
OneGuess(p) ==
  /\ ~attempts[p].older
  /\ history[p].wrong <= MaxAttempts
  /\ otp[p] # 0 /\ (\A k \in Clients : ~AtStep(k, "store", p)) =>
       history[p].wrong <= attempts[p].count + Cardinality(Guessing(p))
  /\ \A k \in Clients :
       /\ AtStep(k, "store", p) => attempts[p] = NoCounter
       /\ AtStep(k, "clearTries", p) => otp[p] = 0

GuessInv ==
  ~workload.faults =>
    IF workload.overlap THEN \A p \in Purposes : Guesses(p)
    ELSE OneAtATime /\ \A p \in Purposes : OneGuess(p)

LEMMA GuessTypes ==
  ASSUME TypeOK, NEW p \in Purposes
  PROVE  /\ attempts[p] \in Counter /\ attempts[p].count \in Nat
         /\ history[p].wrong \in Nat /\ history[p].budgets \in Nat
         /\ otp[p] \in 0..MaxMails
         /\ Guessing(p) \in SUBSET Clients /\ Cardinality(Guessing(p)) \in Nat
         /\ Budget \in Nat /\ MaxAttempts \in Nat
<1>1. Guessing(p) \in SUBSET Clients
  BY DEF Guessing
<1>2. Cardinality(Guessing(p)) \in Nat
  BY <1>1, ClientSets
<1>3. Budget \in Nat
  BY ClientSets, EmailAssumption DEF Budget
<1>4. attempts[p] \in Counter /\ history[p] \in History /\ otp[p] \in 0..MaxMails
  BY DEF TypeOK, EmailTypes, Counter
<1>5. attempts[p].count \in Nat
  BY <1>4 DEF Counter
<1>6. history[p].wrong \in Nat /\ history[p].budgets \in Nat
  BY <1>4 DEF History
<1>. QED
  BY <1>1, <1>2, <1>3, <1>4, <1>5, <1>6, EmailAssumption

\* A step that leaves the counter, the wrong codes and the requests of this purpose
\* where they are; the code may go.
GuessRest(p) ==
  /\ otp'[p] = otp[p] \/ otp'[p] = 0
  /\ attempts'[p].count = attempts[p].count
  /\ history'[p].wrong = history[p].wrong
  /\ history'[p].budgets = history[p].budgets
  /\ \A l \in Clients : /\ AtStep(l, "countWrong", p)' <=> AtStep(l, "countWrong", p)
                        /\ AtStep(l, "store", p)' <=> AtStep(l, "store", p)
                        /\ AtStep(l, "clearTries", p)' =>
                             AtStep(l, "clearTries", p) \/ otp'[p] = 0
  /\ \/ attempts'[p] = attempts[p]
     \/ ~attempts'[p].older /\ \A l \in Clients : ~AtStep(l, "store", p)

LEMMA GuessesStay ==
  ASSUME NEW p \in Purposes, GuessRest(p)
  PROVE  /\ Guesses(p) => Guesses(p)'
         /\ OneGuess(p) => OneGuess(p)'
<1>1. Guessing(p)' = Guessing(p)
  BY DEF GuessRest, AtStep, Guessing
<1>2. Cardinality(Guessing(p)') = Cardinality(Guessing(p))
  BY <1>1
<1>3. Guesses(p) => Guesses(p)'
  BY <1>2 DEF GuessRest, Guesses, Budget
<1>4. ASSUME OneGuess(p) PROVE OneGuess(p)'
  <2>1. ~attempts'[p].older
    BY <1>4 DEF GuessRest, OneGuess
  <2>2. otp'[p] # 0 /\ (\A k \in Clients : ~AtStep(k, "store", p)') =>
          history'[p].wrong <= attempts'[p].count + Cardinality(Guessing(p)')
    BY <1>2, <1>4 DEF GuessRest, OneGuess
  <2>3. ASSUME NEW k \in Clients
        PROVE  /\ AtStep(k, "store", p)' => attempts'[p] = NoCounter
               /\ AtStep(k, "clearTries", p)' => otp'[p] = 0
    BY <1>4 DEF GuessRest, OneGuess
  <2>4. history'[p].wrong <= MaxAttempts
    BY <1>4 DEF GuessRest, OneGuess
  <2>. QED
    BY <2>1, <2>2, <2>3, <2>4 DEF OneGuess
<1>. QED
  BY <1>3, <1>4

\* The counter starts from 0, with a DEL or at the end of its life.
LEMMA ForgetGuesses ==
  ASSUME TypeOK, NEW p \in Purposes, ForgetAttempts(p), otp' = otp, Guessing(p)' = Guessing(p)
  PROVE  /\ Guesses(p) => Guesses(p)'
         /\ attempts'[p] = NoCounter /\ attempts'[p].count = 0 /\ ~attempts'[p].older
         /\ history'[p].wrong = history[p].wrong
<1>0. history \in [Purposes -> History] /\ attempts \in [Purposes -> Counter]
  BY DEF TypeOK, EmailTypes, Counter
<1>1. attempts'[p] = NoCounter
  BY <1>0 DEF ForgetAttempts
<1>2. attempts'[p].count = 0 /\ ~attempts'[p].older
  BY <1>1 DEF NoCounter
<1>3. /\ history'[p].wrong = history[p].wrong
      /\ history'[p].budgets = IF otp[p] = 0 THEN history[p].budgets ELSE history[p].budgets + 1
  BY <1>0 DEF ForgetAttempts, History
<1>4. ASSUME Guesses(p) PROVE Guesses(p)'
  <2>1. PICK b \in Nat : b = Budget
    BY GuessTypes
  <2>2. PICK n \in Nat : n = history[p].budgets
    BY GuessTypes
  <2>3. PICK w \in Nat : w = history[p].wrong
    BY GuessTypes
  <2>4. PICK g \in Nat : g = Cardinality(Guessing(p))
    BY GuessTypes
  <2>5. PICK c \in Nat : c = attempts[p].count
    BY GuessTypes
  <2>6. n >= 1 /\ c + g <= b /\ w <= b * n
    BY <1>4, <2>1, <2>2, <2>3, <2>4, <2>5 DEF Guesses
  <2>7. b * (n + 1) = b * n + b /\ b * n \in Nat
    BY <2>1, <2>2
  <2>8. w <= b * (n + 1) /\ w + b <= b * (n + 1) + 0 + g
    BY <2>1, <2>3, <2>4, <2>6, <2>7
  <2>9. Cardinality(Guessing(p)') = g /\ Budget' = b
    BY <2>1, <2>4 DEF Budget
  <2>10. 0 + g <= b
    BY <2>4, <2>5, <2>6
  <2>11. CASE otp[p] = 0
    BY <1>2, <1>3, <2>1, <2>2, <2>3, <2>4, <2>6, <2>9, <2>10, <2>11 DEF Guesses
  <2>12. CASE otp[p] # 0
    BY <1>2, <1>3, <2>1, <2>2, <2>3, <2>4, <2>6, <2>8, <2>9, <2>10, <2>12 DEF Guesses
  <2>. QED
    BY <2>11, <2>12
<1>. QED
  BY <1>1, <1>2, <1>3, <1>4

\* The step of k that is on another purpose.
LEMMA OtherGuesses ==
  ASSUME TypeOK, NEW p \in Purposes, NEW k \in Clients, EmailStep(k),
         otp'[p] = otp[p], attempts'[p] = attempts[p], history'[p] = history[p],
         \A pc \in {"countWrong", "store", "clearTries"} :
           ~AtStep(k, pc, p) /\ ~AtStep(k, pc, p)'
  PROVE  GuessRest(p)
<1>1. ASSUME NEW l \in Clients, NEW pc \in {"countWrong", "store", "clearTries"}
      PROVE  AtStep(l, pc, p)' <=> AtStep(l, pc, p)
  BY <1>1, OthersStay DEF AtStep
<1>. QED
  BY <1>1 DEF GuessRest

LEMMA WrongGuesses ==
  ASSUME TypeOK, NEW p \in Purposes, NEW k \in Clients, VerifyWrong(k)
  PROVE  /\ Guesses(p) => Guesses(p)'
         /\ ~workload.overlap /\ OneAtATime /\ OneGuess(p) => OneGuess(p)'
<1>. DEFINE q == request[k].purpose
<1>0. /\ request \in [Clients -> Requests] /\ request[k].pc = "tries" /\ q \in Purposes
      /\ request[k].code \in 1..MaxMails
      /\ EmailStep(k) /\ UNCHANGED <<otp, attempts>> /\ history \in [Purposes -> History]
      /\ request'[k] = Step("countWrong", q)
  <2>1. request \in [Clients -> Requests] /\ request[k].pc = "tries"
    BY DEF TypeOK, VerifyWrong, At
  <2>2. request[k] \in [pc : CodePcs, purpose : Purposes, code : 1..MaxMails]
    BY <2>1, RequestFields DEF CodePcs
  <2>. QED
    BY <2>1, <2>2 DEF VerifyWrong, Goto, EmailStep, TypeOK, EmailTypes
<1>1. \A l \in Clients : l # k => request'[l] = request[l]
  BY <1>0, OthersStay
<1>2. CASE q # p
  <2>1. history'[p] = history[p]
    BY <1>0, <1>2 DEF VerifyWrong
  <2>2. \A pc \in {"countWrong", "store", "clearTries"} :
          ~AtStep(k, pc, p) /\ ~AtStep(k, pc, p)'
    BY <1>0, <1>2 DEF AtStep, Step
  <2>3. GuessRest(p)
    BY <1>0, <2>1, <2>2, OtherGuesses
  <2>. QED
    BY <2>3, GuessesStay
<1>3. CASE q = p
  <2>1. attempts[p].count < MaxAttempts
    BY <1>3, GuessTypes DEF VerifyWrong, Spent
  <2>2. /\ history'[p].wrong =
             IF request[k].code = otp[p] THEN history[p].wrong + 1 ELSE history[p].wrong
        /\ history'[p].budgets = history[p].budgets
    BY <1>0, <1>3 DEF VerifyWrong, History
  <2>3. Guessing(p)' = Guessing(p) \union {k} /\ k \notin Guessing(p)
    BY <1>0, <1>1, <1>3 DEF Guessing, Step
  <2>4. PICK S, T : S = Guessing(p) /\ T = Guessing(p)'
    OBVIOUS
  <2>5. S \in SUBSET Clients /\ T \in SUBSET Clients
    BY <2>4 DEF Guessing
  <2>6. Cardinality(T) = Cardinality(S) + 1 /\ Cardinality(S) \in Nat
        /\ Cardinality(T) <= Cardinality(Clients)
    BY <2>3, <2>4, <2>5, ClientSets, FS_AddElement
  <2>7. request[k].code = otp[p] => otp[p] # 0
    BY <1>0, EmailAssumption
  <2>8. ASSUME Guesses(p) PROVE Guesses(p)'
    <3>1. PICK b \in Nat : b = Budget
      BY GuessTypes
    <3>2. PICK n \in Nat : n = history[p].budgets
      BY GuessTypes
    <3>3. PICK w \in Nat : w = history[p].wrong
      BY GuessTypes
    <3>4. PICK g \in Nat : g = Cardinality(S)
      BY <2>6
    <3>5. PICK c \in Nat : c = attempts[p].count
      BY GuessTypes
    <3>6. n >= 1 /\ c + g <= b /\ w <= b * n
          /\ (otp[p] # 0 => w + b <= b * n + c + g)
      BY <2>4, <2>8, <3>1, <3>2, <3>3, <3>4, <3>5 DEF Guesses
    <3>7. Budget' = b /\ Cardinality(Guessing(p)') = g + 1
      BY <2>4, <2>6, <3>1, <3>4 DEF Budget
    <3>8. c + (g + 1) <= b
      BY <2>1, <2>6, <3>1, <3>4, <3>5, ClientSets, EmailAssumption DEF Budget
    <3>9. PICK m \in Nat : m = b * n
      BY <3>1, <3>2
    <3>10. CASE request[k].code = otp[p]
      <4>1. w + 1 + b <= m + c + (g + 1) /\ w + 1 <= m
        BY <2>7, <3>1, <3>3, <3>4, <3>5, <3>6, <3>8, <3>9, <3>10
      <4>2. /\ history'[p].wrong = w + 1 /\ history'[p].budgets = n
            /\ attempts'[p].count = c
        BY <1>0, <2>2, <3>2, <3>3, <3>5, <3>10
      <4>. QED
        BY <3>6, <3>7, <3>8, <3>9, <4>1, <4>2 DEF Guesses
    <3>11. CASE request[k].code # otp[p]
      <4>1. otp[p] # 0 => w + b <= m + c + (g + 1)
        BY <3>1, <3>3, <3>4, <3>5, <3>6, <3>9
      <4>2. /\ history'[p].wrong = w /\ history'[p].budgets = n
            /\ attempts'[p].count = c /\ otp' = otp
        BY <1>0, <2>2, <3>2, <3>3, <3>5, <3>11
      <4>. QED
        BY <3>6, <3>7, <3>8, <3>9, <4>1, <4>2 DEF Guesses
    <3>. QED
      BY <3>10, <3>11
  <2>9. ASSUME ~workload.overlap, OneAtATime, OneGuess(p) PROVE OneGuess(p)'
    <3>1. \A l \in Clients : l # k => request[l] = Idle /\ request'[l] = Idle
      BY <1>0, <1>1, <2>9 DEF OneAtATime, Idle
    <3>2. /\ \A l \in Clients : ~AtStep(l, "store", p) /\ ~AtStep(l, "store", p)'
          /\ \A l \in Clients : ~AtStep(l, "clearTries", p)'
      BY <1>0, <3>1 DEF AtStep, Idle, Step
    <3>3. otp[p] # 0 => history[p].wrong <= attempts[p].count + Cardinality(S)
      BY <2>4, <2>9, <3>2 DEF OneGuess
    <3>4. S = {}
      BY <1>0, <2>4, <3>1 DEF Guessing, Idle
    <3>5. Cardinality(S) = 0 /\ Cardinality(T) = 1
      BY <2>6, <3>4, FS_EmptySet
    <3>6. /\ ~attempts[p].older /\ history[p].wrong <= MaxAttempts
      BY <2>9 DEF OneGuess
    <3>7. history'[p].wrong <= MaxAttempts
      BY <2>1, <2>2, <2>7, <3>3, <3>5, <3>6, GuessTypes
    <3>8. otp'[p] # 0 => history'[p].wrong <= attempts'[p].count + Cardinality(T)
      BY <1>0, <2>2, <3>3, <3>5, GuessTypes
    <3>. QED
      BY <1>0, <2>4, <3>2, <3>6, <3>7, <3>8 DEF OneGuess
  <2>. QED
    BY <2>8, <2>9
<1>. QED
  BY <1>2, <1>3

LEMMA CountGuesses ==
  ASSUME TypeOK, NEW p \in Purposes, NEW k \in Clients, VerifyCountWrong(k)
  PROVE  /\ Guesses(p) => Guesses(p)'
         /\ ~workload.overlap /\ OneAtATime /\ OneGuess(p) => OneGuess(p)'
<1>. DEFINE q == request[k].purpose
<1>0. /\ request \in [Clients -> Requests] /\ request[k].pc = "countWrong" /\ q \in Purposes
      /\ EmailStep(k) /\ UNCHANGED <<otp, history>> /\ attempts \in [Purposes -> Counter]
  BY RequestFields
     DEF TypeOK, EmailTypes, VerifyCountWrong, At, PlainPcs, EmailStep, Counter
<1>1. request'[k] = Idle \/ request'[k] = Step("wrongWindow", q)
  BY <1>0 DEF VerifyCountWrong, Goto, Done
<1>2. \A l \in Clients : l # k => request'[l] = request[l]
  BY <1>0, OthersStay
<1>3. attempts' = [attempts EXCEPT ![q] = Incremented(attempts[q])]
  BY DEF VerifyCountWrong
<1>4. CASE q # p
  <2>1. attempts'[p] = attempts[p]
    BY <1>0, <1>3, <1>4
  <2>2. \A pc \in {"countWrong", "store", "clearTries"} :
          ~AtStep(k, pc, p) /\ ~AtStep(k, pc, p)'
    BY <1>0, <1>1, <1>4 DEF AtStep, Step, Idle
  <2>3. GuessRest(p)
    BY <1>0, <2>1, <2>2, OtherGuesses
  <2>. QED
    BY <2>3, GuessesStay
<1>5. CASE q = p
  <2>1. /\ attempts'[p].count = attempts[p].count + 1
        /\ attempts'[p].older = attempts[p].older
    BY <1>0, <1>3, <1>5 DEF Incremented, Counter
  <2>3. Guessing(p)' = Guessing(p) \ {k} /\ k \in Guessing(p)
    BY <1>0, <1>1, <1>2, <1>5 DEF Guessing, Step, Idle
  <2>4. PICK S, T : S = Guessing(p) /\ T = Guessing(p)'
    OBVIOUS
  <2>5. S \in SUBSET Clients /\ T \in SUBSET Clients
    BY <2>4 DEF Guessing
  <2>6. Cardinality(T) = Cardinality(S) - 1 /\ Cardinality(S) \in Nat
    BY <2>3, <2>4, <2>5, ClientSets
  <2>7. attempts'[p].count + Cardinality(T) = attempts[p].count + Cardinality(S)
    BY <2>1, <2>6, GuessTypes
  <2>8. ASSUME Guesses(p) PROVE Guesses(p)'
    <3>1. PICK m \in Nat : m = Budget * history[p].budgets
      BY GuessTypes
    <3>2. otp[p] # 0 => history[p].wrong + Budget <= m + attempts[p].count + Cardinality(S)
      BY <2>4, <2>8, <3>1 DEF Guesses
    <3>3. otp[p] # 0 => history[p].wrong + Budget <= m + attempts'[p].count + Cardinality(T)
      BY <2>1, <2>6, <3>1, <3>2, GuessTypes
    <3>4. Budget' = Budget
      BY DEF Budget
    <3>. QED
      BY <1>0, <2>4, <2>7, <2>8, <3>1, <3>3, <3>4 DEF Guesses
  <2>9. ASSUME ~workload.overlap, OneAtATime, OneGuess(p) PROVE OneGuess(p)'
    <3>1. \A l \in Clients : l # k => request[l] = Idle /\ request'[l] = Idle
      BY <1>0, <1>2, <2>9 DEF OneAtATime, Idle
    <3>2. /\ \A l \in Clients : ~AtStep(l, "store", p) /\ ~AtStep(l, "store", p)'
          /\ \A l \in Clients : ~AtStep(l, "clearTries", p)'
      BY <1>0, <1>1, <3>1 DEF AtStep, Idle, Step
    <3>3. otp[p] # 0 => history[p].wrong <= attempts[p].count + Cardinality(S)
      BY <2>4, <2>9, <3>2 DEF OneGuess
    <3>. QED
      BY <1>0, <2>1, <2>4, <2>7, <2>9, <3>2, <3>3 DEF OneGuess
  <2>. QED
    BY <2>8, <2>9
<1>. QED
  BY <1>4, <1>5

LEMMA StoreGuesses ==
  ASSUME TypeOK, NEW p \in Purposes, NEW k \in Clients, SendStore(k)
  PROVE  /\ Guesses(p) => Guesses(p)'
         /\ ~workload.overlap /\ OneAtATime /\ OneGuess(p) => OneGuess(p)'
<1>. DEFINE q == request[k].purpose
<1>0. /\ request \in [Clients -> Requests] /\ request[k].pc = "store" /\ q \in Purposes
      /\ EmailStep(k) /\ attempts \in [Purposes -> Counter] /\ history \in [Purposes -> History]
      /\ otp \in [Purposes -> 0..MaxMails]
      /\ request'[k].pc = "cool" /\ request'[k].purpose = q
  <2>1. request \in [Clients -> Requests] /\ request[k].pc = "store"
    BY DEF TypeOK, SendStore, At
  <2>2. request[k] \in [pc : CodePcs, purpose : Purposes, code : 1..MaxMails]
    BY <2>1, RequestFields DEF CodePcs
  <2>. QED
    BY <2>1, <2>2 DEF SendStore, Goto, EmailStep, TypeOK, EmailTypes, Counter
<1>1. \A l \in Clients : l # k => request'[l] = request[l]
  BY <1>0, OthersStay
<1>2. CASE q # p
  <2>1. otp'[p] = otp[p] /\ attempts'[p] = attempts[p]
    BY <1>0, <1>2 DEF SendStore
  <2>2. history'[p] = history[p]
    BY <1>0, <1>2 DEF SendStore
  <2>3. \A pc \in {"countWrong", "store", "clearTries"} :
          ~AtStep(k, pc, p) /\ ~AtStep(k, pc, p)'
    BY <1>0, <1>2 DEF AtStep
  <2>4. GuessRest(p)
    BY <1>0, <2>1, <2>2, <2>3, OtherGuesses
  <2>. QED
    BY <2>4, GuessesStay
<1>3. CASE q = p
  <2>1. /\ attempts'[p].count = attempts[p].count
        /\ attempts'[p].older = (attempts[p].older \/ attempts[p].expires)
    BY <1>0, <1>3 DEF SendStore, Counter
  <2>2. history'[p].wrong = 0 /\ history'[p].budgets = 1
    <3>. DEFINE h == [history EXCEPT ![p].wrong = 0]
    <3>1. h \in [Purposes -> History] /\ h[p].wrong = 0
      BY <1>0 DEF History
    <3>2. history' = [h EXCEPT ![p].budgets = 1]
      BY <1>3 DEF SendStore
    <3>. HIDE DEF h
    <3>. QED
      BY <3>1, <3>2 DEF History
  <2>3. Guessing(p)' = Guessing(p)
    BY <1>0, <1>1 DEF Guessing
  <2>4. Cardinality(Guessing(p)') = Cardinality(Guessing(p)) /\ Budget' = Budget
    BY <2>3 DEF Budget
  <2>5. ASSUME Guesses(p) PROVE Guesses(p)'
    <3>1. Budget' * 1 = Budget
      BY <2>4, GuessTypes
    <3>2. attempts'[p].count + Cardinality(Guessing(p)') <= Budget'
      BY <2>1, <2>4, <2>5 DEF Guesses
    <3>3. 0 <= Budget /\ 0 + Budget <= Budget + attempts'[p].count + Cardinality(Guessing(p)')
      BY <2>1, <2>4, GuessTypes
    <3>. QED
      BY <2>2, <2>4, <3>1, <3>2, <3>3 DEF Guesses
  <2>6. ASSUME ~workload.overlap, OneAtATime, OneGuess(p) PROVE OneGuess(p)'
    <3>1. \A l \in Clients : l # k => request[l] = Idle /\ request'[l] = Idle
      BY <1>0, <1>1, <2>6 DEF OneAtATime, Idle
    <3>2. \A l \in Clients : ~AtStep(l, "store", p)' /\ ~AtStep(l, "clearTries", p)'
      BY <1>0, <3>1 DEF AtStep, Idle
    <3>3. attempts[p] = NoCounter
      BY <1>0, <1>3, <2>6 DEF OneGuess, AtStep
    <3>4. ~attempts'[p].older
      <4>1. attempts[p].older = FALSE /\ attempts[p].expires = FALSE
        BY <3>3 DEF NoCounter
      <4>. QED
        BY <2>1, <4>1, Zenon
    <3>5. 0 <= MaxAttempts /\ 0 <= attempts'[p].count + Cardinality(Guessing(p)')
      BY <2>1, <2>4, GuessTypes
    <3>. QED
      BY <2>2, <3>2, <3>4, <3>5 DEF OneGuess
  <2>. QED
    BY <2>5, <2>6
<1>. QED
  BY <1>2, <1>3

LEMMA ClearGuesses ==
  ASSUME TypeOK, NEW p \in Purposes, NEW k \in Clients, SendForget(k) \/ VerifyClearTries(k)
  PROVE  /\ Guesses(p) => Guesses(p)'
         /\ ~workload.overlap /\ OneAtATime /\ OneGuess(p) => OneGuess(p)'
<1>. DEFINE q == request[k].purpose
<1>0. /\ request \in [Clients -> Requests] /\ q \in Purposes /\ otp' = otp
      /\ EmailStep(k) /\ attempts \in [Purposes -> Counter] /\ history \in [Purposes -> History]
      /\ ForgetAttempts(q)
      /\ \/ request[k].pc = "forget" /\ request'[k].pc = "store" /\ request'[k].purpose = q
         \/ request[k].pc = "clearTries" /\ request'[k].pc = "flag"
  <2>1. request \in [Clients -> Requests]
    BY DEF TypeOK
  <2>2. CASE SendForget(k)
    <3>1. request[k] \in [pc : CodePcs, purpose : Purposes, code : 1..MaxMails]
      BY <2>1, <2>2, RequestFields DEF CodePcs, SendForget, At
    <3>. QED
      BY <2>1, <2>2, <3>1 DEF SendForget, At, Goto, EmailStep, TypeOK, EmailTypes, Counter
  <2>3. CASE VerifyClearTries(k)
    <3>1. q \in Purposes
      BY <2>1, <2>3, RequestFields DEF PlainPcs, VerifyClearTries, At
    <3>. QED
      BY <2>1, <2>3, <3>1
         DEF VerifyClearTries, At, Goto, Step, EmailStep, TypeOK, EmailTypes, Counter
  <2>. QED
    BY <2>2, <2>3
<1>1. \A l \in Clients : l # k => request'[l] = request[l]
  BY <1>0, OthersStay
<1>2. Guessing(p)' = Guessing(p)
  BY <1>0, <1>1 DEF Guessing
<1>3. CASE q # p
  <2>1. attempts'[p] = attempts[p] /\ history'[p] = history[p]
    BY <1>0, <1>3 DEF ForgetAttempts
  <2>2. request'[k].purpose = q
    <3>1. CASE SendForget(k)
      BY <1>0, <3>1 DEF SendForget, At
    <3>2. CASE VerifyClearTries(k)
      BY <1>0, <3>2 DEF VerifyClearTries, Goto, Step
    <3>. QED
      BY <3>1, <3>2
  <2>3. \A pc \in {"countWrong", "store", "clearTries"} :
          ~AtStep(k, pc, p) /\ ~AtStep(k, pc, p)'
    BY <1>3, <2>2 DEF AtStep
  <2>4. GuessRest(p)
    BY <1>0, <2>1, <2>3, OtherGuesses
  <2>. QED
    BY <2>4, GuessesStay
<1>4. CASE q = p
  <2>1. /\ Guesses(p) => Guesses(p)'
        /\ attempts'[p] = NoCounter /\ attempts'[p].count = 0 /\ ~attempts'[p].older
        /\ history'[p].wrong = history[p].wrong
    BY <1>0, <1>2, <1>4, ForgetGuesses
  <2>2. ASSUME ~workload.overlap, OneAtATime, OneGuess(p) PROVE OneGuess(p)'
    <3>1. \A l \in Clients : l # k => request[l] = Idle /\ request'[l] = Idle
      BY <1>0, <1>1, <2>2 DEF OneAtATime, Idle
    <3>2. \A l \in Clients : ~AtStep(l, "clearTries", p)'
      BY <1>0, <3>1 DEF AtStep, Idle
    <3>3. otp'[p] = 0 \/ AtStep(k, "store", p)'
      BY <1>0, <1>4, <2>2 DEF OneGuess, AtStep
    <3>. QED
      BY <2>1, <2>2, <3>2, <3>3 DEF OneGuess
  <2>. QED
    BY <2>1, <2>2
<1>. QED
  BY <1>3, <1>4

LEMMA RestGuesses ==
  ASSUME TypeOK, NEW p \in Purposes, NEW k \in Clients, EmailStep(k),
         ~VerifyWrong(k), ~VerifyCountWrong(k), ~SendStore(k), ~SendForget(k),
         ~VerifyClearTries(k)
  PROVE  /\ Guesses(p) => Guesses(p)'
         /\ ~workload.overlap /\ OneAtATime /\ OneGuess(p) => OneGuess(p)'
<1>0. /\ request \in [Clients -> Requests] /\ history \in [Purposes -> History]
      /\ otp \in [Purposes -> 0..MaxMails] /\ attempts \in [Purposes -> Counter]
      /\ \A l \in Clients : l # k => request'[l] = request[l]
  BY OthersStay DEF TypeOK, EmailTypes, Counter
<1>. USE DEF At, Goto, Done, Idle, Step, CodeStep
<1>1. ASSUME request[k].pc \notin {"countWrong", "store", "clearTries"},
             request'[k].pc \notin {"countWrong", "store", "clearTries"}
      PROVE  \A l \in Clients :
               /\ AtStep(l, "countWrong", p)' <=> AtStep(l, "countWrong", p)
               /\ AtStep(l, "store", p)' <=> AtStep(l, "store", p)
               /\ AtStep(l, "clearTries", p)' <=> AtStep(l, "clearTries", p)
  BY <1>0, <1>1 DEF AtStep
<1>2. CASE \/ \E q \in Purposes : SendStart(k, q) \/ VerifyStart(k, q)
           \/ SendCooldown(k) \/ SendLimit(k) \/ VerifyLoad(k) \/ VerifyRefuse(k)
           \/ VerifyRight(k) \/ SendCool(k) \/ SendCount(k) \/ SendWindow(k)
  <2>1. UNCHANGED <<otp, attempts, history>>
    BY <1>2 DEF SendStart, VerifyStart, SendCooldown, SendLimit, VerifyLoad, VerifyRefuse,
                VerifyRight, SendCool, SendCount, SendWindow, emailVars
  <2>2. request[k].pc \notin {"countWrong", "store", "clearTries"}
    BY <1>2 DEF SendStart, VerifyStart, SendCooldown, SendLimit, VerifyLoad, VerifyRefuse,
                VerifyRight, SendCool, SendCount, SendWindow, MayStart
  <2>3. request'[k].pc \notin {"countWrong", "store", "clearTries"}
    BY <1>0, <1>2 DEF SendStart, VerifyStart, SendCooldown, SendLimit, VerifyLoad, VerifyRefuse,
                      VerifyRight, SendCool, SendCount, SendWindow
  <2>4. GuessRest(p)
    BY <1>1, <2>1, <2>2, <2>3 DEF GuessRest
  <2>. QED
    BY <2>4, GuessesStay
<1>3. CASE SendMail(k) \/ VerifyFlag(k)
  <2>1. request[k].purpose \in Purposes
    BY <1>0, <1>3, RequestFields DEF SendMail, VerifyFlag, PlainPcs
  <2>2. /\ UNCHANGED <<otp, attempts>>
        /\ history'[p].wrong = history[p].wrong /\ history'[p].budgets = history[p].budgets
    <3>1. CASE SendMail(k)
      BY <1>0, <2>1, <3>1 DEF SendMail, History
    <3>2. CASE VerifyFlag(k)
      BY <1>0, <2>1, <3>2 DEF VerifyFlag, History
    <3>. QED
      BY <1>3, <3>1, <3>2
  <2>3. /\ request[k].pc \notin {"countWrong", "store", "clearTries"}
        /\ request'[k].pc \notin {"countWrong", "store", "clearTries"}
    BY <1>0, <1>3 DEF SendMail, VerifyFlag
  <2>4. GuessRest(p)
    BY <1>1, <2>2, <2>3 DEF GuessRest
  <2>. QED
    BY <2>4, GuessesStay
<1>4. CASE VerifyWrongWindow(k)
  <2>. DEFINE q == request[k].purpose
  <2>1. q \in Purposes
    BY <1>0, <1>4, RequestFields DEF VerifyWrongWindow, PlainPcs
  <2>2. /\ UNCHANGED <<otp, history>>
        /\ request[k].pc \notin {"countWrong", "store", "clearTries"}
        /\ request'[k].pc \notin {"countWrong", "store", "clearTries"}
    BY <1>0, <1>4 DEF VerifyWrongWindow
  <2>3. /\ attempts'[p].count = attempts[p].count
        /\ attempts'[p] = attempts[p] \/ ~attempts'[p].older
    <3>1. CASE attempts[q].count = 0 \/ q # p
      BY <1>0, <1>4, <3>1 DEF VerifyWrongWindow
    <3>2. CASE attempts[q].count # 0 /\ q = p
      <4>. DEFINE a == [attempts EXCEPT ![p].expires = TRUE]
      <4>1. a \in [Purposes -> Counter] /\ a[p].count = attempts[p].count
        BY <1>0 DEF Counter
      <4>2. attempts' = [a EXCEPT ![p].older = FALSE]
        BY <1>4, <3>2 DEF VerifyWrongWindow
      <4>. HIDE DEF a
      <4>. QED
        BY <4>1, <4>2 DEF Counter
    <3>. QED
      BY <3>1, <3>2
  <2>4. Guesses(p) => Guesses(p)'
    <3>1. Guessing(p)' = Guessing(p)
      BY <1>1, <2>2 DEF Guessing, AtStep
    <3>2. Cardinality(Guessing(p)') = Cardinality(Guessing(p))
      BY <3>1
    <3>. QED
      BY <2>2, <2>3, <3>2 DEF Guesses, Budget
  <2>5. ASSUME ~workload.overlap, OneAtATime, OneGuess(p) PROVE OneGuess(p)'
    <3>1. \A l \in Clients : ~AtStep(l, "store", p)
      BY <1>4, <2>5 DEF VerifyWrongWindow, OneAtATime, AtStep
    <3>2. GuessRest(p)
      BY <1>1, <2>2, <2>3, <3>1 DEF GuessRest
    <3>. QED
      BY <2>5, <3>2, GuessesStay
  <2>. QED
    BY <2>4, <2>5
<1>5. CASE VerifyClearCode(k)
  <2>. DEFINE q == request[k].purpose
  <2>1. q \in Purposes
    BY <1>0, <1>5, RequestFields DEF VerifyClearCode, PlainPcs
  <2>2. /\ UNCHANGED <<attempts, history>> /\ otp'[p] = IF q = p THEN 0 ELSE otp[p]
        /\ request[k].pc = "clearCode"
        /\ request'[k].pc = "clearTries" /\ request'[k].purpose = q
    BY <1>0, <1>5, <2>1 DEF VerifyClearCode
  <2>3. ASSUME NEW l \in Clients
        PROVE  /\ AtStep(l, "countWrong", p)' <=> AtStep(l, "countWrong", p)
               /\ AtStep(l, "store", p)' <=> AtStep(l, "store", p)
               /\ AtStep(l, "clearTries", p)' => AtStep(l, "clearTries", p) \/ otp'[p] = 0
    BY <1>0, <2>2 DEF AtStep
  <2>4. GuessRest(p)
    BY <2>2, <2>3 DEF GuessRest
  <2>. QED
    BY <2>4, GuessesStay
<1>. QED
  BY <1>2, <1>3, <1>4, <1>5 DEF EmailStep

LEMMA ExpiryGuesses ==
  ASSUME TypeOK, NEW p \in Purposes, Expire
  PROVE  /\ Guesses(p) => Guesses(p)'
         /\ OneGuess(p) => OneGuess(p)'
<1>0. /\ request' = request /\ history \in [Purposes -> History]
      /\ otp \in [Purposes -> 0..MaxMails] /\ attempts \in [Purposes -> Counter]
  BY DEF Expire, TypeOK, EmailTypes, Counter
<1>1. \A l \in Clients, pc \in {"countWrong", "store", "clearTries"} :
        AtStep(l, pc, p)' <=> AtStep(l, pc, p)
  BY <1>0 DEF AtStep
<1>2. ASSUME UNCHANGED attempts, otp'[p] = otp[p] \/ otp'[p] = 0,
             history'[p].wrong = history[p].wrong, history'[p].budgets = history[p].budgets
      PROVE  (Guesses(p) => Guesses(p)') /\ (OneGuess(p) => OneGuess(p)')
  <2>1. GuessRest(p)
    BY <1>1, <1>2 DEF GuessRest
  <2>. QED
    BY <2>1, GuessesStay
<1>3. ASSUME NEW q \in Purposes, ExpireAttempts(q)
      PROVE  (Guesses(p) => Guesses(p)') /\ (OneGuess(p) => OneGuess(p)')
  <2>1. otp' = otp /\ Guessing(p)' = Guessing(p)
    BY <1>0, <1>3 DEF ExpireAttempts, Guessing
  <2>2. CASE q # p
    <3>1. attempts'[p] = attempts[p] /\ history'[p] = history[p]
      BY <1>0, <1>3, <2>2 DEF ExpireAttempts, ForgetAttempts
    <3>2. GuessRest(p)
      BY <1>1, <2>1, <3>1 DEF GuessRest
    <3>. QED
      BY <3>2, GuessesStay
  <2>3. CASE q = p
    <3>1. /\ Guesses(p) => Guesses(p)'
          /\ attempts'[p] = NoCounter /\ ~attempts'[p].older
          /\ history'[p].wrong = history[p].wrong
      BY <1>3, <2>1, <2>3, ForgetGuesses DEF ExpireAttempts
    <3>2. ASSUME OneGuess(p) PROVE OneGuess(p)'
      <4>1. otp[p] = 0
        BY <1>3, <2>3, <3>2 DEF ExpireAttempts, OneGuess
      <4>. QED
        BY <1>1, <2>1, <3>1, <3>2, <4>1 DEF OneGuess
    <3>. QED
      BY <3>1, <3>2
  <2>. QED
    BY <2>2, <2>3
<1>4. ASSUME NEW q \in Purposes, ExpireLimit(q)
      PROVE  (Guesses(p) => Guesses(p)') /\ (OneGuess(p) => OneGuess(p)')
  <2>1. history'[p].wrong = history[p].wrong /\ history'[p].budgets = history[p].budgets
        /\ UNCHANGED <<attempts, otp>>
    BY <1>0, <1>4 DEF ExpireLimit, History
  <2>. QED
    BY <1>2, <2>1
<1>5. ASSUME NEW q \in Purposes, ExpireOtp(q) \/ ExpireCooldown(q) \/ ExpireVerified(q)
      PROVE  (Guesses(p) => Guesses(p)') /\ (OneGuess(p) => OneGuess(p)')
  <2>1. UNCHANGED <<attempts, history>> /\ (otp'[p] = otp[p] \/ otp'[p] = 0)
    BY <1>0, <1>5 DEF ExpireOtp, ExpireCooldown, ExpireVerified
  <2>. QED
    BY <1>2, <2>1
<1>6. CASE UNCHANGED emailVars
  BY <1>2, <1>6 DEF emailVars
<1>. QED
  BY <1>3, <1>4, <1>5, <1>6 DEF Expire, EmailExpiry

LEMMA GuessInvStep == TypeInv /\ GuessInv /\ [Next]_vars => GuessInv'
<1>. SUFFICES ASSUME TypeInv, GuessInv, [Next]_vars, ~workload.faults PROVE GuessInv'
  <2>1. [Next]_vars => workload' = workload
    BY DEF Next, AccountStep, FlagStep, Abort, Expire, vars
  <2>. QED
    BY <2>1 DEF GuessInv
<1>0. TypeOK /\ request \in [Clients -> Requests]
  BY DEF TypeInv, TypeOK
<1>1. ASSUME workload' = workload, ~workload.overlap /\ OneAtATime => OneAtATime',
             \A p \in Purposes :
               /\ Guesses(p) => Guesses(p)'
               /\ ~workload.overlap /\ OneAtATime /\ OneGuess(p) => OneGuess(p)'
      PROVE  GuessInv'
  BY <1>1 DEF GuessInv
<1>2. ASSUME NEW k \in Clients, EmailStep(k), workload' = workload PROVE GuessInv'
  <2>1. ~workload.overlap /\ OneAtATime => OneAtATime'
    BY <1>0, <1>2, StaysOneAtATime
  <2>2. ASSUME NEW p \in Purposes
        PROVE  /\ Guesses(p) => Guesses(p)'
               /\ ~workload.overlap /\ OneAtATime /\ OneGuess(p) => OneGuess(p)'
    BY <1>0, <1>2, WrongGuesses, CountGuesses, StoreGuesses, ClearGuesses, RestGuesses
  <2>. QED
    BY <1>1, <1>2, <2>1, <2>2
<1>3. ASSUME NEW k \in Clients, workload' = workload, UNCHANGED <<otp, attempts, history>>,
             SessionStep(k) \/ AccountStep(k) \/ FlagStep(k),
             request[k].pc \notin {"countWrong", "store", "clearTries"},
             request'[k].pc \notin {"countWrong", "store", "clearTries"}
      PROVE  GuessInv'
  <2>1. ~workload.overlap /\ OneAtATime => OneAtATime'
    BY <1>0, <1>3, StaysOneAtATime
  <2>2. ASSUME NEW p \in Purposes PROVE GuessRest(p)
    <3>1. \A l \in Clients, pc \in {"countWrong", "store", "clearTries"} :
            AtStep(l, pc, p)' <=> AtStep(l, pc, p)
      BY <1>0, <1>3, OthersStay DEF AtStep
    <3>. QED
      BY <1>3, <3>1 DEF GuessRest
  <2>. QED
    BY <1>1, <1>3, <2>1, <2>2, GuessesStay
<1>4. ASSUME NEW k \in Clients, SessionStep(k), UNCHANGED <<workload, emailVars>>
      PROVE  GuessInv'
  <2>1. request[k].pc \notin {"countWrong", "store", "clearTries"}
    BY <1>4, SessionStarts DEF SessionPcs
  <2>2. request'[k].pc \notin {"countWrong", "store", "clearTries"}
    BY <1>0, <1>4, <2>1, SessionGoes DEF SessionPcs
  <2>. QED
    BY <1>3, <1>4, <2>1, <2>2 DEF emailVars
<1>5. ASSUME NEW k \in Clients, AccountStep(k) \/ FlagStep(k) PROVE GuessInv'
  <2>1. request[k].pc \notin {"countWrong", "store", "clearTries"}
    BY <1>5, AccountStarts DEF PlainPcs, CodePcs
  <2>2. request'[k].pc \notin {"countWrong", "store", "clearTries"}
    BY <1>0, <1>5, <2>1, AccountGoes DEF PlainPcs, CodePcs
  <2>3. workload' = workload /\ UNCHANGED <<otp, attempts, history>>
    BY <1>5 DEF AccountStep, FlagStep, emailVars, SignupClear, ResetStart, ResetFlag, ResetSave,
                ResetClear
  <2>. QED
    BY <1>3, <1>5, <2>1, <2>2, <2>3
<1>6. CASE \E k \in Clients : Abort(k)
  BY <1>6 DEF Abort
<1>7. CASE Expire
  <2>1. workload' = workload /\ (OneAtATime => OneAtATime')
    BY <1>7 DEF Expire, OneAtATime
  <2>. QED
    BY <1>0, <1>1, <1>7, <2>1, ExpiryGuesses
<1>8. CASE UNCHANGED vars
  <2>1. workload' = workload /\ (OneAtATime => OneAtATime')
    BY <1>8 DEF vars, OneAtATime
  <2>2. \A p \in Purposes : GuessRest(p)
    BY <1>8 DEF GuessRest, AtStep, vars, emailVars
  <2>. QED
    BY <1>1, <2>1, <2>2, GuessesStay
<1>. QED
  BY <1>2, <1>4, <1>5, <1>6, <1>7, <1>8 DEF Next

\* As long as no call fails a stored code meets at most MaxAttempts wrong codes if
\* requests come one by one.  If they overlap all that have read the counter before
\* it is full may pass, each time the counter starts from 0 while the code stays:
\* it is read before the codes are compared and counted up after (verifyEmailOtp),
\* and sendEmailOtp deletes it before it replaces the code.
THEOREM GuessesCorrect == Spec => []GuessesAreLimited
<1>1. Init => GuessInv
  <2>. SUFFICES ASSUME Init PROVE GuessInv
    OBVIOUS
  <2>1. OneAtATime
    BY DEF Init, OneAtATime
  <2>2. ASSUME NEW p \in Purposes PROVE Guesses(p) /\ OneGuess(p)
    <3>1. Guessing(p) = {} /\ \A k \in Clients : ~AtStep(k, "store", p) /\ ~AtStep(k, "clearTries", p)
      BY DEF Init, Idle, Guessing, AtStep
    <3>2. Cardinality(Guessing(p)) = 0
      BY <3>1, FS_EmptySet
    <3>3. /\ history[p].wrong = 0 /\ history[p].budgets = 1 /\ otp[p] = 0
          /\ attempts[p].count = 0 /\ ~attempts[p].older
      BY DEF Init, EmailInit, NewHistory, NoCounter
    <3>4. Budget \in Nat /\ MaxAttempts \in Nat /\ Budget * 1 \in Nat
      BY ClientSets, EmailAssumption DEF Budget
    <3>. QED
      BY <3>1, <3>2, <3>3, <3>4 DEF Guesses, OneGuess
  <2>. QED
    BY <2>1, <2>2 DEF GuessInv
<1>2. TypeInv /\ GuessInv /\ [Next]_vars => GuessInv'
  BY GuessInvStep
<1>3. TypeInv /\ GuessInv => GuessesAreLimited
  BY DEF GuessInv, Guesses, OneGuess, Budget, GuessesAreLimited, Width
<1>. QED
  BY <1>1, <1>2, <1>3, TypeInvariant, PTL DEF Spec

-----------------------------------------------------------------------------
(* Devices that behave stay signed in                                      *)

\* Steps of a revocation, of an eviction and of a reset.
Disturbing ==
  {"resetFlag", "resetSave", "resetClear", "revokeList", "revoke", "read", "evict"}

SignInPcs ==
  {"signupFind", "signupInsert", "signupClear", "exchangeOwner", "reactivateFind", "reactivate",
   "list"}

SignsIn(k) ==
  \/ request[k].pc \in SignInPcs
  \/ request[k].pc = "sign" /\ request[k].token = NoToken

Rotates(k) == request[k].pc \in RotatePcs /\ request[k].token # NoToken

\* The slot that is the device's: that of the token it holds, or that it rotates
\* (which may have expired meanwhile).
Owned(k) == IF Rotates(k) THEN request[k].token.jti ELSE held[k].jti

Device(k) ==
  /\ request[k].pc \notin Disturbing
  /\ held[k].jti <= clock /\ Owned(k) <= clock
  /\ SignsIn(k) => held[k] = NoToken
  /\ Rotates(k) => held[k] \in {request[k].token, NoToken}
  /\ request[k].pc \in {"owner", "rotate"} => request[k].token # NoToken
  /\ held[k] # NoToken /\ request[k].pc # "sign" =>
       slots[held[k].jti].token = held[k].number

\* Every device has a slot of its own, and every slot is one of a device: so one
\* that signs in finds fewer slots than there are devices, and evicts none.
Devices ==
  /\ \A k \in Clients : Device(k)
  /\ \A k, l \in Clients : k # l /\ Owned(k) # 0 => Owned(k) # Owned(l)
  /\ \A j \in Live : \E k \in Clients : held[k].jti = j

Enough == Undisturbed /\ Cardinality(Clients) <= MaxSlots

DeviceInv == Enough => Devices

LEMMA DeviceTypes ==
  ASSUME TypeOK, NEW k \in Clients
  PROVE  /\ held[k] \in Token \union {NoToken} /\ held[k].jti \in Nat
         /\ held[k].jti = 0 <=> held[k] = NoToken
         /\ held[k] # NoToken => held[k].jti \in Issues /\ held[k] \in Token
         /\ Rotates(k) => request[k].token \in Token /\ request[k].token.jti \in Issues
         /\ Owned(k) \in Nat
<1>1. held[k] \in Token \union {NoToken} /\ request \in [Clients -> Requests]
  BY DEF TypeOK, SessionTypes
<1>2. \A t \in Token : t.jti \in Issues /\ t.jti \in Nat /\ t.jti # 0
  BY SessionAssumption DEF Token, Issues
<1>3. NoToken.jti = 0
  BY DEF NoToken
<1>4. Rotates(k) => request[k].token \in Token
  BY <1>1, RequestFields DEF Rotates, RotatePcs
<1>. QED
  BY <1>1, <1>2, <1>3, <1>4 DEF Owned

\* What a device holds is its own slot's.
LEMMA HeldIsOwned ==
  ASSUME TypeOK, Devices, NEW k \in Clients
  PROVE  held[k].jti = Owned(k) \/ held[k] = NoToken
BY DEF Devices, Device, Owned

\* Steps that leave slots and tokens alone, of requests that neither rotate nor
\* come to.
LEMMA DevicesStay ==
  ASSUME TypeOK, Devices, UNCHANGED <<slots, clock, held>>,
         \A l \in Clients :
           \/ request'[l] = request[l]
           \/ /\ request[l].pc \notin RotatePcs
              /\ request'[l].pc \notin Disturbing \union RotatePcs
              /\ request'[l].pc \in SignInPcs => held[l] = NoToken
  PROVE  Devices'
<1>1. Live' = Live
  BY DEF Live
<1>2. ASSUME NEW l \in Clients PROVE Owned(l)' = Owned(l) /\ Device(l)'
  <2>1. CASE request'[l] = request[l]
    BY <2>1 DEF Devices, Device, Owned, Rotates, SignsIn
  <2>2. CASE /\ request[l].pc \notin RotatePcs
             /\ request'[l].pc \notin Disturbing \union RotatePcs
             /\ request'[l].pc \in SignInPcs => held[l] = NoToken
    <3>1. Owned(l)' = held[l].jti /\ Owned(l) = held[l].jti
      BY <2>2 DEF Owned, Rotates
    <3>. QED
      BY <2>2, <3>1 DEF Devices, Device, Rotates, SignsIn, RotatePcs
  <2>. QED
    BY <2>1, <2>2
<1>. QED
  BY <1>1, <1>2 DEF Devices

\* Steps of the request of k that leave the slots that others own alone.
LEMMA MyDevice ==
  ASSUME TypeOK, Devices, NEW k \in Clients, clock' \in Nat, clock \in Nat, clock <= clock',
         \A l \in Clients : l # k => request'[l] = request[l] /\ held'[l] = held[l],
         \A l \in Clients : l # k /\ held[l] # NoToken =>
           slots'[held[l].jti].token = slots[held[l].jti].token,
         Device(k)', Owned(k)' \in Nat,
         Owned(k)' \in {0, Owned(k)} \/ \A l \in Clients : Owned(k)' > Owned(l),
         \A j \in Live' : \/ held'[k].jti = j
                          \/ j \in Live /\ held[k].jti # j
  PROVE  Devices'
<1>1. ASSUME NEW l \in Clients, l # k PROVE Owned(l)' = Owned(l) /\ Device(l)'
  <2>1. Owned(l)' = Owned(l)
    BY <1>1 DEF Owned, Rotates
  <2>2. held[l].jti <= clock' /\ Owned(l) <= clock'
    BY DeviceTypes DEF Devices, Device
  <2>. QED
    BY <1>1, <2>1, <2>2 DEF Devices, Device, Rotates, SignsIn
<1>2. ASSUME NEW l \in Clients, NEW m \in Clients, l # m, Owned(l)' # 0
      PROVE  Owned(l)' # Owned(m)'
  <2>1. CASE l # k /\ m # k
    BY <1>1, <1>2, <2>1 DEF Devices
  <2>2. CASE l = k
    <3>1. Owned(m)' = Owned(m) /\ Owned(m) \in Nat
      BY <1>1, <1>2, <2>2, DeviceTypes
    <3>. QED
      BY <1>2, <2>2, <3>1 DEF Devices
  <2>3. CASE m = k
    <3>1. Owned(l)' = Owned(l) /\ Owned(l) \in Nat
      BY <1>1, <1>2, <2>3, DeviceTypes
    <3>. QED
      BY <1>2, <2>3, <3>1 DEF Devices
  <2>. QED
    BY <2>1, <2>2, <2>3
<1>3. ASSUME NEW j \in Live' PROVE \E l \in Clients : held'[l].jti = j
  <2>1. CASE held'[k].jti = j
    BY <2>1
  <2>2. CASE j \in Live /\ held[k].jti # j
    <3>1. PICK l \in Clients : held[l].jti = j
      BY <2>2 DEF Devices
    <3>. QED
      BY <2>2, <3>1
  <2>. QED
    BY <1>3, <2>1, <2>2
<1>. QED
  BY <1>1, <1>2, <1>3 DEF Devices

\* A device that signs in finds room.
LEMMA RoomToSignIn ==
  ASSUME TypeOK, Devices, NEW k \in Clients, held[k] = NoToken,
         Cardinality(Clients) <= MaxSlots
  PROVE  ~NeedsEviction(Live)
<1>. DEFINE S == Clients \ {k}
            f == [l \in S |-> held[l].jti]
            R == {f[l] : l \in S}
<1>1. f \in Surjection(S, R)
  BY DEF Surjection
<1>2. IsFiniteSet(S) /\ Cardinality(S) = Cardinality(Clients) - 1
  BY ClientSets
<1>3. IsFiniteSet(R) /\ Cardinality(R) <= Cardinality(S)
  <2>. HIDE DEF f, R, S
  <2>. QED
    BY <1>1, <1>2, FS_Surjection
<1>4. Live \subseteq R
  <2>. SUFFICES ASSUME NEW j \in Live PROVE j \in R
    OBVIOUS
  <2>1. PICK l \in Clients : held[l].jti = j
    BY DEF Devices
  <2>2. l # k
    BY <2>1, SessionAssumption DEF Live, Issues, NoToken
  <2>3. l \in S /\ f[l] = j
    BY <2>1, <2>2
  <2>. QED
    BY <2>3
<1>5. Cardinality(Live) <= Cardinality(R)
  <2>. HIDE DEF R
  <2>. QED
    BY <1>3, <1>4, FS_Subset
<1>6. Cardinality(Live) \in Nat /\ Cardinality(R) \in Nat
  <2>. HIDE DEF R
  <2>. QED
    BY <1>3, LiveIsFinite, FS_CardinalityType
<1>7. Cardinality(Live) < MaxSlots
  <2>. HIDE DEF R, S
  <2>. QED
    BY <1>2, <1>3, <1>5, <1>6, ClientSets, SessionAssumption
<1>. QED
  BY <1>6, <1>7, SessionAssumption DEF NeedsEviction

LEMMA ListDevice ==
  ASSUME TypeOK, Devices, NEW k \in Clients, IssueList(k), Cardinality(Clients) <= MaxSlots
  PROVE  Devices'
<1>0. /\ request \in [Clients -> Requests] /\ request[k].pc = "list"
      /\ UNCHANGED <<slots, clock, held>> /\ SessionStep(k) /\ clock \in Nat
  BY SessionAssumption DEF TypeOK, SessionTypes, IssueList, At, sessionVars, SessionStep
<1>1. held[k] = NoToken /\ Device(k)
  BY <1>0 DEF Devices, Device, SignsIn, SignInPcs
<1>2. request'[k] = [pc |-> "sign", token |-> NoToken]
  BY <1>0, <1>1, RoomToSignIn DEF IssueList, Goto, Sign
<1>3. ~Rotates(k)' /\ Owned(k)' = 0 /\ held[k].jti = 0
  BY <1>0, <1>1, <1>2 DEF Rotates, Owned, NoToken
<1>4. Device(k)'
  BY <1>0, <1>1, <1>2, <1>3 DEF Device, Disturbing, SignInPcs
<1>5. Live' = Live /\ 0 \notin Live
  BY <1>0, SessionAssumption DEF Live, Issues
<1>. QED
  BY <1>0, <1>3, <1>4, <1>5, OthersStay, MyDevice

LEMMA StartDevice ==
  ASSUME TypeOK, Devices, NEW k \in Clients, NEW t \in Token, RefreshStart(k, t),
         workload.honest
  PROVE  Devices'
<1>0. /\ request \in [Clients -> Requests] /\ request[k] = Idle
      /\ UNCHANGED <<slots, clock, held>> /\ SessionStep(k) /\ clock \in Nat
      /\ t = held[k] /\ t # NoToken
  BY SessionAssumption
     DEF TypeOK, SessionTypes, RefreshStart, MayStart, Presentable, sessionVars, SessionStep
<1>1. slots[t.jti].token = t.number /\ Device(k)
  BY <1>0 DEF Devices, Device, Idle
<1>2. request'[k] = [pc |-> "owner", token |-> t]
  BY <1>0, <1>1 DEF RefreshStart, Goto
<1>3. Owned(k)' = t.jti /\ Owned(k) = t.jti /\ t.jti \in Nat
  BY <1>0, <1>2, DeviceTypes DEF Owned, Rotates, RotatePcs, Idle
<1>4. Device(k)'
  BY <1>0, <1>1, <1>2, <1>3 DEF Device, Disturbing, SignsIn, SignInPcs, Rotates
<1>5. Live' = Live
  BY <1>0 DEF Live
<1>6. \A j \in Live' : held'[k].jti = j \/ (j \in Live /\ held[k].jti # j)
  BY <1>0, <1>5
<1>. QED
  BY <1>0, <1>3, <1>4, <1>6, OthersStay, MyDevice

LEMMA RotateDevice ==
  ASSUME TypeOK, Devices, NEW k \in Clients, RefreshOwner(k) \/ IssueDeleteOld(k)
  PROVE  Devices'
<1>. DEFINE t == request[k].token
<1>0. /\ request \in [Clients -> Requests] /\ request[k].pc \in {"owner", "rotate"}
      /\ UNCHANGED <<clock, held>> /\ SessionStep(k) /\ clock \in Nat
      /\ slots \in [Issues -> Slot \union {NoSlot}]
  BY SessionAssumption
     DEF TypeOK, SessionTypes, RefreshOwner, IssueDeleteOld, At, sessionVars, SessionStep
<1>1. Device(k) /\ Rotates(k) /\ t # NoToken /\ Owned(k) = t.jti
  BY <1>0 DEF Devices, Device, Rotates, RotatePcs, Owned
<1>2. request[k] \in [pc : {"sign", "owner", "rotate"}, token : Token \union {NoToken}]
  BY <1>0, RequestFields
<1>3. /\ slots' = [slots EXCEPT ![t.jti] = NoSlot] \/ slots' = slots
      /\ \/ request'[k] = [pc |-> "rotate", token |-> t] /\ slots' = slots
         \/ request'[k] = [pc |-> "sign", token |-> t]
         \/ request'[k] = Idle /\ slots' = slots
  <2>1. CASE RefreshOwner(k)
    <3>1. [request[k] EXCEPT !.pc = "rotate"] = [pc |-> "rotate", token |-> t]
      BY <1>2
    <3>. QED
      BY <1>0, <2>1, <3>1 DEF RefreshOwner, Goto, Done, sessionVars
  <2>2. CASE IssueDeleteOld(k)
    BY <1>0, <2>2 DEF IssueDeleteOld, Goto, Sign
  <2>. QED
    BY <2>1, <2>2
<1>4. held[k] \in {t, NoToken}
  BY <1>1 DEF Device
<1>5. t.jti \in Issues /\ t.jti \in Nat /\ held[k].jti \in {t.jti, 0} /\ held[k].jti <= clock
      /\ t.jti <= clock
  BY <1>1, <1>4, DeviceTypes DEF Device
<1>6. Owned(k)' \in {0, Owned(k)} /\ Owned(k)' \in Nat
  BY <1>0, <1>1, <1>3, <1>5 DEF Owned, Rotates, RotatePcs, Idle
<1>7. Device(k)'
  <2>1. request'[k].pc \notin Disturbing \union SignInPcs
    BY <1>3 DEF Disturbing, SignInPcs, Idle
  <2>2. ~SignsIn(k)' /\ (Rotates(k)' => held'[k] \in {request'[k].token, NoToken})
    <3>1. CASE request'[k] = Idle
      BY <3>1 DEF SignsIn, Rotates, Idle, SignInPcs, RotatePcs
    <3>2. CASE request'[k] \in {[pc |-> "rotate", token |-> t], [pc |-> "sign", token |-> t]}
      <4>1. request'[k].token = t /\ held'[k] = held[k]
        BY <1>0, <3>2
      <4>. HIDE DEF t
      <4>. QED
        BY <1>1, <1>4, <2>1, <4>1 DEF SignsIn
    <3>. QED
      BY <1>3, <3>1, <3>2
  <2>3. request'[k].pc \in {"owner", "rotate"} => request'[k].token # NoToken
    BY <1>1, <1>3 DEF Idle
  <2>4. held'[k] # NoToken /\ request'[k].pc # "sign" =>
          slots'[held'[k].jti].token = held'[k].number
    BY <1>0, <1>1, <1>3 DEF Device
  <2>5. held'[k].jti <= clock' /\ Owned(k)' <= clock'
    BY <1>0, <1>1, <1>5, <1>6
  <2>. QED
    BY <2>1, <2>2, <2>3, <2>4, <2>5 DEF Device
<1>8. ASSUME NEW l \in Clients, l # k, held[l] # NoToken
      PROVE  slots'[held[l].jti].token = slots[held[l].jti].token
  <2>1. held[l].jti = Owned(l) /\ held[l].jti # 0 /\ held[l].jti \in Issues
    BY <1>8, HeldIsOwned, DeviceTypes
  <2>2. held[l].jti # t.jti
    BY <1>1, <1>8, <2>1 DEF Devices
  <2>. QED
    BY <1>0, <1>3, <2>1, <2>2
<1>9. ASSUME NEW j \in Live'
      PROVE  held'[k].jti = j \/ (j \in Live /\ held[k].jti # j)
  <2>1. j \in Live
    BY <1>0, <1>3, <1>9 DEF Live
  <2>. QED
    BY <1>0, <2>1
<1>. QED
  BY <1>0, <1>6, <1>7, <1>8, <1>9, OthersStay, MyDevice

LEMMA SetDevice ==
  ASSUME TypeOK, Devices, NEW k \in Clients, IssueSet(k), workload.honest
  PROVE  Devices'
<1>. DEFINE t == request[k].token
<1>0. /\ request \in [Clients -> Requests] /\ request[k].pc = "sign"
      /\ held \in [Clients -> Token \union {NoToken}]
      /\ SessionStep(k) /\ clock \in Nat /\ slots \in [Issues -> Slot \union {NoSlot}]
      /\ request'[k] = Idle /\ clock' = clock + 1
  <2>1. /\ request \in [Clients -> Requests] /\ held \in [Clients -> Token \union {NoToken}]
        /\ clock \in Nat /\ slots \in [Issues -> Slot \union {NoSlot}]
    BY SessionAssumption DEF TypeOK, SessionTypes
  <2>2. request[k].pc = "sign" /\ Done(k) /\ clock' = clock + 1
    BY DEF IssueSet, At
  <2>. QED
    BY <2>1, <2>2 DEF Done, Goto, SessionStep
<1>1. PICK new \in NewTokens(t) :
        /\ slots' = [slots EXCEPT ![new.jti] = [token |-> new.number, at |-> clock']]
        /\ held' = [held EXCEPT ![k] = new]
  BY DEF IssueSet
<1>2. held'[k] = new /\ new \in Token /\ new.jti \in Issues /\ new.jti \in Nat
  <2>1. held'[k] = new /\ held'[k] \in Token \union {NoToken}
    BY <1>0, <1>1, IssueTypes DEF SessionTypes
  <2>2. new # NoToken
    BY <1>0, <1>1, SessionAssumption DEF NewTokens, NoToken
  <2>. QED
    BY <2>1, <2>2, SessionAssumption DEF Token, Issues
<1>3. Owned(k)' = new.jti
  BY <1>0, <1>2 DEF Owned, Rotates, RotatePcs, Idle
<1>4. \/ t = NoToken /\ new.jti = clock + 1 /\ held[k].jti = 0
      \/ t # NoToken /\ new.jti = t.jti /\ Owned(k) = t.jti /\ held[k].jti \in {t.jti, 0}
  <2>1. CASE t = NoToken
    BY <1>0, <1>1, <2>1 DEF NewTokens, Devices, Device, SignsIn, NoToken
  <2>2. CASE t # NoToken
    <3>1. Rotates(k) /\ new.jti = t.jti
      BY <1>0, <1>1, <2>2 DEF Rotates, RotatePcs, NewTokens
    <3>2. held[k] \in {t, NoToken}
      BY <3>1 DEF Devices, Device
    <3>. QED
      BY <2>2, <3>1, <3>2 DEF Owned, NoToken
  <2>. QED
    BY <2>1, <2>2
<1>5. /\ \A l \in Clients : Owned(l) \in Nat /\ Owned(l) <= clock /\ held[l].jti <= clock
      /\ \A l \in Clients : held[l].jti \in Nat
  BY DeviceTypes DEF Devices, Device
<1>6. Owned(k)' = Owned(k) \/ \A l \in Clients : Owned(k)' > Owned(l)
  BY <1>0, <1>3, <1>4, <1>5
<1>7. slots'[new.jti].token = new.number
  BY <1>0, <1>1, <1>2
<1>8. Device(k)'
  <2>1. new.jti <= clock'
    BY <1>0, <1>2, <1>4, <1>5
  <2>. QED
    BY <1>0, <1>2, <1>3, <1>7, <2>1
       DEF Device, Idle, SignsIn, Rotates, RotatePcs, SignInPcs, Disturbing
<1>9. ASSUME NEW l \in Clients, l # k, held[l] # NoToken
      PROVE  slots'[held[l].jti].token = slots[held[l].jti].token
  <2>1. held[l].jti = Owned(l) /\ held[l].jti # 0 /\ held[l].jti \in Issues
    BY <1>9, HeldIsOwned, DeviceTypes
  <2>2. held[l].jti # new.jti
    BY <1>0, <1>4, <1>5, <1>9, <2>1 DEF Devices
  <2>. QED
    BY <1>0, <1>1, <2>1, <2>2
<1>10. ASSUME NEW j \in Live'
       PROVE  held'[k].jti = j \/ (j \in Live /\ held[k].jti # j)
  <2>1. j \in Issues /\ (j = new.jti \/ j \in Live)
    BY <1>0, <1>1, <1>10 DEF Live
  <2>2. j # 0
    BY <2>1, SessionAssumption DEF Issues
  <2>. QED
    BY <1>2, <1>4, <2>1, <2>2
<1>11. \A l \in Clients : l # k => request'[l] = request[l] /\ held'[l] = held[l]
  BY <1>0, <1>1, OthersStay
<1>. QED
  BY <1>0, <1>2, <1>3, <1>6, <1>8, <1>9, <1>10, <1>11, MyDevice

LEMMA AccountDevice ==
  ASSUME TypeOK, Devices, NEW k \in Clients, workload.honest, AccountStep(k) \/ SignupClear(k)
  PROVE  \/ request'[k] = request[k]
         \/ /\ request'[k].pc \notin Disturbing \union RotatePcs
            /\ request'[k].pc \in SignInPcs => held[k] = NoToken
<1>0. request \in [Clients -> Requests] /\ (request[k].pc \in SignInPcs => held[k] = NoToken)
  BY DEF TypeOK, Devices, Device, SignsIn
<1>. USE DEF At, Goto, Done, Idle, Next1, MaySignIn, Disturbing, RotatePcs
<1>1. CASE SignupStart(k) \/ LoginStart(k)
           \/ \E t \in Tickets : ExchangeStart(k, t) \/ ReactivateStart(k, t)
  BY <1>0, <1>1 DEF SignupStart, LoginStart, ExchangeStart, ReactivateStart, SignInPcs
<1>2. CASE \/ SignupFind(k) \/ SignupInsert(k) \/ SignupClear(k) \/ ExchangeOwner(k)
           \/ ReactivateFind(k) \/ Reactivate(k)
  <2>1. held[k] = NoToken
    BY <1>0, <1>2 DEF SignupFind, SignupInsert, SignupClear, ExchangeOwner, ReactivateFind,
                      Reactivate, SignInPcs
  <2>2. request'[k].pc \notin Disturbing \union RotatePcs
    BY <1>0, <1>2 DEF SignupFind, SignupInsert, SignupClear, ExchangeOwner, ReactivateFind,
                      Reactivate
  <2>. QED
    BY <2>1, <2>2
<1>3. CASE OAuthStart(k) \/ OAuthInsert(k) \/ OAuthCode(k) \/ Grant(k)
  BY <1>0, <1>3 DEF OAuthStart, OAuthInsert, OAuthCode, Grant, SignInPcs
<1>4. CASE DeactivateStart(k) \/ Deactivate(k) \/ ProfileStart(k)
  BY <1>0, <1>4 DEF DeactivateStart, Deactivate, ProfileStart, SignInPcs
<1>5. CASE ProfileSave(k)
  <2>1. request'[k] = [pc |-> "idle"]
    BY <1>0, <1>5, Zenon DEF ProfileSave
  <2>. QED
    BY <2>1 DEF SignInPcs
<1>. QED
  BY <1>1, <1>2, <1>3, <1>4, <1>5 DEF AccountStep

LEMMA ExpiredDevices ==
  ASSUME TypeOK, Devices, Expire
  PROVE  Devices'
<1>0. /\ request' = request /\ slots \in [Issues -> Slot \union {NoSlot}]
      /\ held \in [Clients -> Token \union {NoToken}]
  BY DEF Expire, TypeOK, SessionTypes
<1>1. CASE UNCHANGED sessionVars
  BY <1>0, <1>1, DevicesStay DEF sessionVars
<1>2. ASSUME NEW j \in Issues, ExpireSlot(j) PROVE Devices'
  <2>1. /\ clock' = clock /\ slots' = [slots EXCEPT ![j] = NoSlot]
        /\ \A k \in Clients : held'[k] = IF held[k].jti = j THEN NoToken ELSE held[k]
    BY <1>2 DEF ExpireSlot
  <2>2. Live' \subseteq Live \ {j}
    BY <1>0, <2>1 DEF Live
  <2>3. ASSUME NEW k \in Clients
        PROVE  /\ Owned(k)' \in {Owned(k), 0} /\ Device(k)'
               /\ held'[k].jti = IF held[k].jti = j THEN 0 ELSE held[k].jti
    <3>1. Rotates(k)' = Rotates(k) /\ SignsIn(k)' = SignsIn(k)
      BY <1>0, <2>1 DEF Rotates, SignsIn, SignInPcs
    <3>2. Owned(k)' \in {Owned(k), 0}
      BY <1>0, <2>1, <3>1 DEF Owned, NoToken
    <3>3. held'[k].jti \in {held[k].jti, 0}
      BY <2>1 DEF NoToken
    <3>4. held'[k].jti <= clock' /\ Owned(k)' <= clock'
      BY <2>1, <3>2, <3>3, DeviceTypes, SessionAssumption
         DEF Devices, Device, TypeOK, SessionTypes
    <3>5. held'[k] # NoToken =>
            held'[k] = held[k] /\ slots'[held'[k].jti] = slots[held[k].jti]
      BY <1>0, <2>1, DeviceTypes
    <3>6. Device(k)'
      BY <1>0, <2>1, <3>1, <3>4, <3>5 DEF Devices, Device
    <3>. QED
      BY <2>1, <3>2, <3>6 DEF NoToken
  <2>4. ASSUME NEW k \in Clients, NEW l \in Clients, k # l, Owned(k)' # 0
        PROVE  Owned(k)' # Owned(l)'
    BY <2>3, <2>4 DEF Devices
  <2>5. ASSUME NEW i \in Live' PROVE \E k \in Clients : held'[k].jti = i
    <3>1. PICK k \in Clients : held[k].jti = i
      BY <2>2, <2>5 DEF Devices
    <3>. QED
      BY <2>2, <2>3, <2>5, <3>1
  <2>. QED
    BY <2>3, <2>4, <2>5 DEF Devices
<1>. QED
  BY <1>1, <1>2 DEF Expire

LEMMA DeviceInvStep == TypeInv /\ DeviceInv /\ [Next]_vars => DeviceInv'
<1>. SUFFICES ASSUME TypeInv, DeviceInv, [Next]_vars, Enough PROVE Devices'
  <2>1. [Next]_vars => workload' = workload
    BY DEF Next, AccountStep, FlagStep, Abort, Expire, vars
  <2>. QED
    BY <2>1 DEF DeviceInv, Enough, Undisturbed
<1>0. /\ TypeOK /\ request \in [Clients -> Requests] /\ Devices
      /\ workload.honest /\ ~workload.faults /\ "reset" \notin workload.ops
      /\ Cardinality(Clients) <= MaxSlots
      /\ \A k \in Clients : request[k].pc \notin Disturbing
  BY DEF TypeInv, TypeOK, DeviceInv, Enough, Undisturbed, Devices, Device
<1>1. ASSUME NEW k \in Clients, EmailStep(k), UNCHANGED sessionVars PROVE Devices'
  <2>1. request[k].pc \notin RotatePcs
    BY <1>1, EmailStarts DEF PlainPcs, CodePcs, RotatePcs
  <2>2. request'[k] = request[k] \/ request'[k].pc \notin Disturbing \union RotatePcs \union SignInPcs
    BY <1>0, <1>1, EmailGoes DEF PlainPcs, CodePcs, Disturbing, RotatePcs, SignInPcs
  <2>. QED
    BY <1>0, <1>1, <2>1, <2>2, OthersStay, DevicesStay DEF sessionVars
<1>2. ASSUME NEW k \in Clients, SessionStep(k) PROVE Devices'
  <2>1. ~IssueOldest(k) /\ ~IssueEvict(k) /\ \A j \in Issues : ~IssueRead(k, j)
    <3>1. request[k].pc \notin {"read", "evict"}
      BY <1>0 DEF Disturbing
    <3>2. ~IssueOldest(k) /\ ~IssueEvict(k)
      BY <3>1 DEF IssueOldest, IssueEvict, At
    <3>3. ASSUME NEW j \in Issues, IssueRead(k, j) PROVE FALSE
      <4>1. request[k].pc = "read"
        BY <3>3, Zenon DEF IssueRead, At
      <4>. QED
        BY <3>1, <4>1
    <3>. QED
      BY <3>2, <3>3
  <2>2. ~RevokeList(k) /\ ~RevokeDelete(k)
    BY <1>0 DEF RevokeList, RevokeDelete, At, Disturbing
  <2>. QED
    BY <1>0, <1>2, <2>1, <2>2, ListDevice, StartDevice, RotateDevice, SetDevice DEF SessionStep
<1>3. ASSUME NEW k \in Clients, AccountStep(k) \/ FlagStep(k) PROVE Devices'
  <2>1. request[k].pc \notin RotatePcs
    BY <1>3, AccountStarts DEF SessionPcs, RotatePcs
  <2>2. AccountStep(k) \/ SignupClear(k)
    BY <1>0, <1>3 DEF FlagStep, ResetStart, ResetFlag, ResetSave, ResetClear, MayStart, At,
                      Disturbing
  <2>3. UNCHANGED sessionVars
    BY <1>3 DEF AccountStep, FlagStep
  <2>4. \/ request'[k] = request[k]
        \/ /\ request'[k].pc \notin Disturbing \union RotatePcs
           /\ request'[k].pc \in SignInPcs => held[k] = NoToken
    BY <1>0, <2>2, AccountDevice
  <2>. QED
    BY <1>0, <1>3, <2>1, <2>3, <2>4, OthersStay, DevicesStay DEF sessionVars
<1>4. CASE \E k \in Clients : Abort(k)
  BY <1>0, <1>4 DEF Abort
<1>5. CASE Expire
  BY <1>0, <1>5, ExpiredDevices
<1>6. CASE UNCHANGED vars
  BY <1>0, <1>6, DevicesStay DEF vars, sessionVars
<1>. QED
  BY <1>1, <1>2, <1>3, <1>4, <1>5, <1>6 DEF Next

\* Of devices that present only the last token they got, and sign in only without
\* one, none is logged out by the others' logins and refreshes while there are no
\* more of them than slots: issueTokens deletes the oldest slot only when the limit
\* is reached, and a refresh writes the slot it read.
THEOREM DevicesCorrect == Spec => []DevicesStaySignedIn
<1>1. Init => DeviceInv
  <2>. SUFFICES ASSUME Init PROVE Devices
    BY DEF DeviceInv
  <2>1. /\ Live = {} /\ clock = 0 /\ \A k \in Clients : request[k] = Idle /\ held[k] = NoToken
    BY DEF Init, SessionInit, Live
  <2>2. \A k \in Clients : Owned(k) = 0 /\ Device(k)
    BY <2>1 DEF Owned, Device, Rotates, SignsIn, RotatePcs, SignInPcs, Disturbing, Idle, NoToken
  <2>. QED
    BY <2>1, <2>2 DEF Devices
<1>2. TypeInv /\ DeviceInv /\ [Next]_vars => DeviceInv'
  BY DeviceInvStep
<1>3. DeviceInv => DevicesStaySignedIn
  BY DEF DeviceInv, Enough, Devices, Device, DevicesStaySignedIn, Idle
<1>. QED
  BY <1>1, <1>2, <1>3, TypeInvariant, PTL DEF Spec
====
