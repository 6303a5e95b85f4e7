-------------------------- MODULE RefreshSessions ---------------------------
(***************************************************************************)
(* Refresh tokens of one user.  Every device that logs in has a slot, the  *)
(* key refresh:user:<user>:<jti>, which holds the hash of the last token   *)
(* issued for it and the time of its issue.  Every step is one call to     *)
(* Redis:                                                                  *)
(*                                                                         *)
(*   issueTokens, new slot   keys, get each, del the oldest, set           *)
(*   issueTokens, same slot  del, set                                      *)
(*   refreshTokens           get, then find the user and issue, or revoke  *)
(*   revokeAllUserTokens     keys, del                                     *)
(*                                                                         *)
(* Issues are numbered; a number stands for the time of the issue, for the *)
(* token it makes and, at a login, for the jti.                            *)
(***************************************************************************)
EXTENDS AccountRequests

CONSTANTS
  MaxSlots,   \* slots of a user: 3
  MaxIssues   \* bound: tokens issued in any workload

ASSUME SessionAssumption ==
  /\ MaxSlots \in Nat \ {0} /\ MaxIssues \in Nat
  /\ \A w \in Workloads : w.issues <= MaxIssues

Issues == 1..MaxIssues

VARIABLES
  slots,    \* the slot of each jti
  clock,    \* issues so far
  issued,   \* tokens that have been issued and whose seven days are not over
  held,     \* the last token each client was given, for honest workloads
  revoked   \* when the last revocation that was completed began

sessionVars == <<slots, clock, issued, held, revoked>>

Token == [jti : Issues, number : Issues]

NoToken == [jti |-> 0, number |-> 0]

\* The number of the token in the slot, and the time of its issue.
Slot == [token : Issues, at : Issues]

NoSlot == [token |-> 0, at |-> 0]

Live == {j \in Issues : slots[j] # NoSlot}

SessionTypes ==
  /\ slots \in [Issues -> Slot \union {NoSlot}]
  /\ clock \in 0..MaxIssues
  /\ issued \in SUBSET Token
  /\ held \in [Clients -> Token \union {NoToken}]
  /\ revoked \in 0..MaxIssues

SessionInit ==
  /\ slots = [j \in Issues |-> NoSlot]
  /\ clock = 0
  /\ issued = {}
  /\ held = [k \in Clients |-> NoToken]
  /\ revoked = 0

SessionRequests ==
  [pc : {"list", "revokeList"}]
  \union [pc : {"read"}, todo : SUBSET Issues, found : SUBSET [jti : Issues, at : Issues]]
  \union [pc : {"evict"}, jti : Issues]
  \union [pc : {"sign", "owner", "rotate"}, token : Token \union {NoToken}]
  \union [pc : {"revoke"}, listed : SUBSET Issues, since : 0..MaxIssues]

-----------------------------------------------------------------------------
(* AuthService.issueTokens                                                 *)

\* Mutation: a fourth slot is let through.
NeedsEviction_OneMore(live) == Cardinality(live) > MaxSlots

NeedsEviction(live) == Cardinality(live) >= MaxSlots

Sign(token) == [pc |-> "sign", token |-> token]

IssueList(k) ==
  /\ At(k, "list")
  /\ Goto(k, IF NeedsEviction(Live) THEN [pc |-> "read", todo |-> Live, found |-> {}]
             ELSE Sign(NoToken))
  /\ UNCHANGED sessionVars

\* A key that is gone by now is passed over.
IssueRead(k, j) ==
  /\ At(k, "read")
  /\ j \in request[k].todo
  /\ Goto(k, [request[k] EXCEPT
       !.todo = @ \ {j},
       !.found = IF j \in Live THEN @ \union {[jti |-> j, at |-> slots[j].at]} ELSE @])
  /\ UNCHANGED sessionVars

IssueOldest(k) ==
  /\ At(k, "read")
  /\ request[k].todo = {}
  /\ IF request[k].found = {} THEN Goto(k, Sign(NoToken))
     ELSE \E s \in request[k].found :
            /\ \A t \in request[k].found : s.at <= t.at
            /\ Goto(k, [pc |-> "evict", jti |-> s.jti])
  /\ UNCHANGED sessionVars

IssueEvict(k) ==
  /\ At(k, "evict")
  /\ slots' = [slots EXCEPT ![request[k].jti] = NoSlot]
  /\ Goto(k, Sign(NoToken))
  /\ UNCHANGED <<clock, issued, held, revoked>>

IssueDeleteOld(k) ==
  LET token == request[k].token
  IN  /\ At(k, "rotate")
      /\ slots' = [slots EXCEPT ![token.jti] = NoSlot]
      /\ Goto(k, Sign(token))
      /\ UNCHANGED <<clock, issued, held, revoked>>

\* A JWT counts seconds: signed in the second of its predecessor, the new token
\* of a slot is the old one.
NewTokens(old) ==
  IF old = NoToken THEN {[jti |-> clock + 1, number |-> clock + 1]}
  ELSE {[jti |-> old.jti, number |-> clock + 1], old}

IssueSet(k) ==
  /\ At(k, "sign")
  /\ clock < workload.issues
  /\ clock' = clock + 1
  /\ \E new \in NewTokens(request[k].token) :
       /\ slots' = [slots EXCEPT ![new.jti] = [token |-> new.number, at |-> clock']]
       /\ issued' = issued \union {new}
       /\ held' = IF workload.honest THEN [held EXCEPT ![k] = new] ELSE held
  /\ Done(k)
  /\ UNCHANGED revoked

-----------------------------------------------------------------------------
(* AuthService.refreshTokens                                               *)

\* Anybody may present any token that was issued; an honest client presents the
\* last one it got.
Presentable(k) == IF workload.honest THEN {held[k]} \ {NoToken} ELSE issued

\* A slot that is gone and one that holds another token are treated alike.
RefreshStart(k, t) ==
  /\ MayStart(k, "refresh")
  /\ t \in Presentable(k)
  /\ Goto(k, IF slots[t.jti].token = t.number THEN [pc |-> "owner", token |-> t]
             ELSE [pc |-> "revokeList"])
  /\ UNCHANGED sessionVars

\* Mutation: the new token gets a slot of its own.
RefreshOwner_NewSlot(k) ==
  /\ At(k, "owner")
  /\ IF Exists /\ user.active THEN Goto(k, [pc |-> "list"]) ELSE Done(k)
  /\ UNCHANGED sessionVars

RefreshOwner(k) ==
  /\ At(k, "owner")
  /\ IF Exists /\ user.active THEN Goto(k, [request[k] EXCEPT !.pc = "rotate"])
     ELSE Done(k)
  /\ UNCHANGED sessionVars

-----------------------------------------------------------------------------
(* AuthService.revokeAllUserTokens: GlobalRedisService.deletePattern       *)

RevokeList(k) ==
  /\ At(k, "revokeList")
  /\ Goto(k, [pc |-> "revoke", listed |-> Live, since |-> clock])
  /\ UNCHANGED sessionVars

\* Mutation: only one of the keys is deleted.
RevokeDelete_First(k) ==
  /\ At(k, "revoke")
  /\ \E j \in Issues :
       /\ request[k].listed = {} \/ j \in request[k].listed
       /\ slots' = [slots EXCEPT ![j] = IF j \in request[k].listed THEN NoSlot ELSE @]
  /\ revoked' = IF request[k].since > revoked THEN request[k].since ELSE revoked
  /\ Done(k)
  /\ UNCHANGED <<clock, issued, held>>

RevokeDelete(k) ==
  /\ At(k, "revoke")
  /\ slots' = [j \in Issues |-> IF j \in request[k].listed THEN NoSlot ELSE slots[j]]
  /\ revoked' = IF request[k].since > revoked THEN request[k].since ELSE revoked
  /\ Done(k)
  /\ UNCHANGED <<clock, issued, held>>

SessionStep(k) ==
  \/ IssueList(k) \/ IssueOldest(k) \/ IssueEvict(k) \/ IssueDeleteOld(k) \/ IssueSet(k)
  \/ \E j \in Issues : IssueRead(k, j)
  \/ \E t \in Token : RefreshStart(k, t)
  \/ RefreshOwner(k) \/ RevokeList(k) \/ RevokeDelete(k)

\* A slot that was not refreshed for seven days goes; its tokens expired before.
ExpireSlot(j) ==
  /\ j \in Live
  /\ slots' = [slots EXCEPT ![j] = NoSlot]
  /\ issued' = {t \in issued : t.jti # j}
  /\ held' = [k \in Clients |-> IF held[k].jti = j THEN NoToken ELSE held[k]]
  /\ UNCHANGED <<clock, revoked>>
=============================================================================
