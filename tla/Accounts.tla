------------------------------ MODULE Accounts ------------------------------
(***************************************************************************)
(* The account of one email address: sign-up and password reset with a     *)
(* mailed code, login, OAuth login through a one-time code, deactivation,  *)
(* reactivation through another one, and the profile; on top of the codes  *)
(* of EmailCodes and the refresh tokens of RefreshSessions.                *)
(***************************************************************************)
EXTENDS EmailCodes, RefreshSessions

CONSTANT MaxTickets   \* bound: one-time codes made

ASSUME TicketAssumption == MaxTickets \in Nat

VARIABLES
  tickets,   \* what is stored in Redis for each one-time code
  made,      \* one-time codes made so far
  redeemed,  \* for the properties only: how often each code was accepted
  resets     \* for the properties only: passwords reset

ticketVars == <<tickets, made, redeemed>>

vars == <<workload, request, user, emailVars, sessionVars, ticketVars, resets>>

Tickets == 1..MaxTickets

Requests ==
  {Idle} \union EmailRequests \union SessionRequests
  \union [pc : {"signupFind", "signupInsert", "signupClear", "oauthInsert", "oauthCode",
                "exchangeOwner", "grant", "reactivateFind", "reactivate",
                "resetClear", "deactivate"}]
  \union [pc : {"resetFlag", "resetSave", "profileSave"}, row : Row]

TypeOK ==
  /\ workload \in Workloads
  /\ request \in [Clients -> Requests]
  /\ user \in Row \union {NoUser}
  /\ EmailTypes
  /\ SessionTypes
  /\ tickets \in [Tickets -> {"none", "oauth", "reactivation"}]
  /\ made \in 0..MaxTickets
  /\ redeemed \in [Tickets -> Nat]
  /\ resets \in Nat

Init ==
  /\ workload \in Workloads
  /\ request = [k \in Clients |-> Idle]
  /\ user = IF workload.provider = "NONE" THEN NoUser ELSE NewUser(workload.provider)
  /\ EmailInit
  /\ SessionInit
  /\ tickets = [t \in Tickets |-> "none"]
  /\ made = 0
  /\ redeemed = [t \in Tickets |-> 0]
  /\ resets = 0

Next1(pc) == [pc |-> pc]

\* An honest client signs in only when it has no token.
MaySignIn(k) == workload.honest => held[k] = NoToken

-----------------------------------------------------------------------------
(* One-time codes: OAuthCodeRepository, createAccountReactivationRequired- *)
(* Exception, GlobalRedisService.getAndDelete                              *)

Make(kind) ==
  /\ made < MaxTickets
  /\ made' = made + 1
  /\ tickets' = [tickets EXCEPT ![made'] = kind]
  /\ UNCHANGED redeemed

\* Mutation: GET instead of the script that gets and deletes.
Redeem_Kept(t, kind) ==
  /\ tickets[t] = kind
  /\ redeemed' = [redeemed EXCEPT ![t] = @ + 1]
  /\ UNCHANGED <<tickets, made>>

\* Anybody may present a code; one that is not stored is refused.
Redeem(t, kind) ==
  /\ tickets[t] = kind
  /\ tickets' = [tickets EXCEPT ![t] = "none"]
  /\ redeemed' = [redeemed EXCEPT ![t] = @ + 1]
  /\ UNCHANGED made

ExpireTicket(t) ==
  /\ tickets[t] # "none"
  /\ tickets' = [tickets EXCEPT ![t] = "none"]
  /\ UNCHANGED <<made, redeemed>>

\* SET of the reactivation token of an account that is not active.
Grant(k) ==
  /\ At(k, "grant")
  /\ Make("reactivation")
  /\ Done(k)
  /\ UNCHANGED user

-----------------------------------------------------------------------------
(* Sign-up, login, OAuth                                                   *)

SignupStart(k) ==
  /\ MayStart(k, "signup") /\ MaySignIn(k)
  /\ "SIGNUP" \in verified
  /\ Goto(k, Next1("signupFind"))
  /\ UNCHANGED <<user, ticketVars>>

SignupFind(k) ==
  /\ At(k, "signupFind")
  /\ IF Exists THEN Done(k) ELSE Goto(k, Next1("signupInsert"))
  /\ UNCHANGED <<user, ticketVars>>

\* email is unique: the INSERT fails if the address has a row by now.
SignupInsert(k) ==
  /\ At(k, "signupInsert")
  /\ IF Exists THEN Done(k) /\ UNCHANGED user
     ELSE Goto(k, Next1("signupClear")) /\ user' = NewUser("LOCAL")
  /\ UNCHANGED ticketVars

\* With the right password.
LoginStart(k) ==
  /\ MayStart(k, "login")
  /\ Exists /\ user.password
  /\ MaySignIn(k)
  /\ Goto(k, Next1(IF user.active THEN "list" ELSE "grant"))
  /\ UNCHANGED <<user, ticketVars>>

\* validateOAuthUser finds the user by the provider's id or by the address, and
\* refuses one of another provider.
OAuthStart(k) ==
  /\ MayStart(k, "oauth")
  /\ user.provider # "LOCAL"
  /\ Goto(k, Next1(IF Exists THEN "oauthCode" ELSE "oauthInsert"))
  /\ UNCHANGED <<user, ticketVars>>

OAuthInsert(k) ==
  /\ At(k, "oauthInsert")
  /\ IF Exists THEN Done(k) /\ UNCHANGED user
     ELSE Goto(k, Next1("oauthCode")) /\ user' = NewUser("OAUTH")
  /\ UNCHANGED ticketVars

OAuthCode(k) ==
  /\ At(k, "oauthCode")
  /\ Make("oauth")
  /\ Done(k)
  /\ UNCHANGED user

ExchangeStart(k, t) ==
  /\ MayStart(k, "exchange") /\ MaySignIn(k)
  /\ Redeem(t, "oauth")
  /\ Goto(k, Next1("exchangeOwner"))
  /\ UNCHANGED user

ExchangeOwner(k) ==
  /\ At(k, "exchangeOwner")
  /\ Goto(k, Next1(IF user.active THEN "list" ELSE "grant"))
  /\ UNCHANGED <<user, ticketVars>>

-----------------------------------------------------------------------------
(* Deactivation, reactivation, profile                                     *)

\* UserAuthGuard lets an active user in.
DeactivateStart(k) ==
  /\ MayStart(k, "deactivate")
  /\ user.active
  /\ Goto(k, Next1("deactivate"))
  /\ UNCHANGED <<user, ticketVars>>

Deactivate(k) ==
  /\ At(k, "deactivate")
  /\ user' = [user EXCEPT !.active = FALSE]
  /\ Done(k)
  /\ UNCHANGED ticketVars

ReactivateStart(k, t) ==
  /\ MayStart(k, "reactivate") /\ MaySignIn(k)
  /\ Redeem(t, "reactivation")
  /\ Goto(k, Next1("reactivateFind"))
  /\ UNCHANGED user

ReactivateFind(k) ==
  /\ At(k, "reactivateFind")
  /\ Goto(k, Next1(IF user.active THEN "list" ELSE "reactivate"))
  /\ UNCHANGED <<user, ticketVars>>

Reactivate(k) ==
  /\ At(k, "reactivate")
  /\ user' = [user EXCEPT !.active = TRUE]
  /\ Goto(k, Next1("list"))
  /\ UNCHANGED ticketVars

\* save(user) writes what differs from the row it reloads, so a column that was
\* not changed here keeps the value of the copy or of a write in between.
SaveUser(row, password) ==
  \E a \in {row.active, user.active} :
    user' = [row EXCEPT !.active = a, !.password = password]

\* The guard's look at the user and findById are one read.
ProfileStart(k) ==
  /\ MayStart(k, "profile")
  /\ user.active
  /\ Goto(k, [pc |-> "profileSave", row |-> user])
  /\ UNCHANGED <<user, ticketVars>>

\* A name, or a password as well.
ProfileSave(k) ==
  /\ At(k, "profileSave")
  /\ \E p \in {request[k].row.password, user.password, TRUE} : SaveUser(request[k].row, p)
  /\ Done(k)
  /\ UNCHANGED ticketVars

AccountStep(k) ==
  /\ \/ Grant(k)
     \/ SignupStart(k) \/ SignupFind(k) \/ SignupInsert(k) \/ LoginStart(k)
     \/ OAuthStart(k) \/ OAuthInsert(k) \/ OAuthCode(k) \/ ExchangeOwner(k)
     \/ DeactivateStart(k) \/ Deactivate(k) \/ ReactivateFind(k) \/ Reactivate(k)
     \/ ProfileStart(k) \/ ProfileSave(k)
     \/ \E t \in Tickets : ExchangeStart(k, t) \/ ReactivateStart(k, t)
  /\ UNCHANGED <<workload, emailVars, sessionVars, resets>>

-----------------------------------------------------------------------------
(* The flags of EmailCodes are used up                                     *)

SignupClear(k) ==
  /\ At(k, "signupClear")
  /\ verified' = verified \ {"SIGNUP"}
  /\ Goto(k, Next1("list"))
  /\ UNCHANGED <<user, otp, cooldown, limit, attempts, mails, history, resets>>

ResetStart(k) ==
  /\ MayStart(k, "reset")
  /\ ResetEligible
  /\ Goto(k, [pc |-> "resetFlag", row |-> user])
  /\ UNCHANGED <<user, emailVars, resets>>

ResetFlag(k) ==
  /\ At(k, "resetFlag")
  /\ IF "PASSWORD_RESET" \in verified THEN Goto(k, [request[k] EXCEPT !.pc = "resetSave"])
     ELSE Done(k)
  /\ UNCHANGED <<user, emailVars, resets>>

ResetSave(k) ==
  /\ At(k, "resetSave")
  /\ SaveUser(request[k].row, TRUE)
  /\ resets' = resets + 1
  /\ Goto(k, Next1("resetClear"))
  /\ UNCHANGED emailVars

\* Mutation: the flag is left for its ten minutes.
ResetClear_Kept(k) ==
  /\ At(k, "resetClear")
  /\ Goto(k, Next1("revokeList"))
  /\ UNCHANGED <<user, emailVars, resets>>

ResetClear(k) ==
  /\ At(k, "resetClear")
  /\ verified' = verified \ {"PASSWORD_RESET"}
  /\ Goto(k, Next1("revokeList"))
  /\ UNCHANGED <<user, otp, cooldown, limit, attempts, mails, history, resets>>

FlagStep(k) ==
  /\ SignupClear(k) \/ ResetStart(k) \/ ResetFlag(k) \/ ResetSave(k) \/ ResetClear(k)
  /\ UNCHANGED <<workload, sessionVars, ticketVars>>

\* A call to Redis, Postgres or the mail server fails, or the process restarts.
Abort(k) ==
  /\ workload.faults
  /\ request[k] # Idle
  /\ Done(k)
  /\ UNCHANGED <<workload, user, emailVars, sessionVars, ticketVars, resets>>

Expire ==
  /\ \/ EmailExpiry /\ UNCHANGED <<sessionVars, ticketVars>>
     \/ (\E j \in Issues : ExpireSlot(j)) /\ UNCHANGED <<emailVars, ticketVars>>
     \/ (\E t \in Tickets : ExpireTicket(t)) /\ UNCHANGED <<emailVars, sessionVars>>
  /\ UNCHANGED <<workload, request, user, resets>>

Next ==
  \/ \E k \in Clients :
       \/ EmailStep(k) /\ UNCHANGED <<workload, user, sessionVars, ticketVars, resets>>
       \/ SessionStep(k) /\ UNCHANGED <<workload, user, emailVars, ticketVars, resets>>
       \/ AccountStep(k) \/ FlagStep(k) \/ Abort(k)
  \/ Expire

Spec == Init /\ [][Next]_vars

-----------------------------------------------------------------------------
(* What holds however requests overlap and fail                            *)

\* Requests in progress at one moment, at most.
Width == IF workload.overlap THEN Cardinality(Clients) ELSE 1

\* The sessions that began (jti is the time of the login) before the last
\* revocation began.
Survivors == {j \in Live : j <= revoked}

\* A revocation, by a password reset or by a refresh with a token that is not the
\* last one of its slot (AuthService.ts:490-497), ends every session begun before
\* it, but for what other requests are refreshing meanwhile.  One whose slot is
\* between its del and its set is not in the list; one that has read its slot sets
\* it again after the deletion; and a client may do the one and then the other.
\* So at most two survive for each other request there may be at a moment, and
\* none if requests come one by one.
RevocationsEndSessions == Cardinality(Survivors) <= 2 * (Width - 1)

\* An OAuth code and a reactivation token are accepted once, however many
\* requests present one at the same time (AuthService.ts:593 and 256).
TicketsAreUsedOnce == \A t \in Tickets : redeemed[t] <= 1

-----------------------------------------------------------------------------
(* What holds unless a call fails                                           *)

\* Wrong codes that are compared with one code: at most MaxAttempts if requests
\* come one by one.  If they overlap every one but the first may slip through,
\* each time the counter starts again.
GuessesAreLimited ==
  ~workload.faults =>
    \A p \in Purposes :
      history[p].wrong <= IF workload.overlap
                          THEN (MaxAttempts + Width - 1) * history[p].budgets
                          ELSE MaxAttempts

\* Codes mailed in one window of the limit; and no address is locked out for
\* good: the counter expires, or a request is about to see to it.
MailsAreLimited ==
  ~workload.faults =>
    \A p \in Purposes :
      /\ history[p].inWindow <= RateMax + Width - 1
      /\ \/ limit[p].count = 0 \/ limit[p].expires
         \/ \E k \in InFlight({"window"}) : request[k].purpose = p

\* A local account comes from a code that was mailed for sign-up, and every code
\* mailed for a reset and entered pays for one reset (for one of each request
\* that was in progress).
CodesAreNeeded ==
  ~workload.faults =>
    /\ workload.provider = "NONE" /\ user.provider = "LOCAL" => history["SIGNUP"].passed > 0
    /\ resets <= history["PASSWORD_RESET"].passed * Width

-----------------------------------------------------------------------------
(* What holds if requests come one by one, failing or not                  *)

\* AdminAuthService.ts:139 (the same code): at most MaxSlots slots.
SlotsAreLimited == ~workload.overlap => Cardinality(Live) <= MaxSlots

-----------------------------------------------------------------------------
(* What holds for devices that present only the last token they got, while *)
(* there are no more of them than slots and no call fails                  *)

\* Nobody is logged out by the others' logins and refreshes, only by a password
\* reset: the token of a device that is not being refreshed is the one in its slot.
Undisturbed == workload.honest /\ ~workload.faults /\ "reset" \notin workload.ops

DevicesStaySignedIn ==
  Undisturbed /\ Cardinality(Clients) <= MaxSlots =>
    \A k \in Clients :
      request[k] = Idle /\ held[k] # NoToken =>
        slots[held[k].jti].token = held[k].number
=============================================================================
