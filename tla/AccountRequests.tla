-------------------------- MODULE AccountRequests ---------------------------
(***************************************************************************)
(* What the operations on an account have in common: the row of one email  *)
(* address in user_table, and the requests that work on it.  A request is  *)
(* code between two awaits; Redis keys and rows of different addresses are *)
(* disjoint, so one address is enough.                                     *)
(***************************************************************************)
EXTENDS Naturals, FiniteSets

CONSTANTS
  Clients,    \* devices of the user; each waits for one answer at a time
  Workloads   \* the environments of this instance

\* ops: what clients call; overlap: whether the requests of two clients may be
\* in progress at once; faults: whether a Redis or SQL call may fail, or the
\* process restart; honest: whether a client only presents the last token it got, and
\* signs in only when it has none; provider: of the user there is at first; mails,
\* issues: bounds on codes mailed, tokens issued.
Workload == [ops : SUBSET STRING, overlap : BOOLEAN, faults : BOOLEAN,
             honest : BOOLEAN, provider : {"NONE", "LOCAL", "OAUTH"},
             mails : Nat, issues : Nat]

ASSUME WorkloadAssumption == Workloads \subseteq Workload

ASSUME ClientsAssumption == IsFiniteSet(Clients) /\ Clients # {}

VARIABLES
  workload,  \* what clients do and what may go wrong, fixed for a behaviour
  request,   \* what each client's request is about to do
  user       \* the row of the address in user_table

Idle == [pc |-> "idle"]

At(k, pc) == request[k].pc = pc

Goto(k, next) == request' = [request EXCEPT ![k] = next]

Done(k) == Goto(k, Idle)

MayStart(k, op) ==
  /\ op \in workload.ops
  /\ request[k] = Idle
  /\ workload.overlap \/ \A l \in Clients : request[l] = Idle

InFlight(pcs) == {k \in Clients : request[k].pc \in pcs}

-----------------------------------------------------------------------------
(* user_table                                                              *)

\* password: whether password_hash is set; active: is_activate.
Row == [provider : {"LOCAL", "OAUTH"}, password : BOOLEAN, active : BOOLEAN]

NoUser == [provider |-> "NONE", password |-> FALSE, active |-> FALSE]

NewUser(provider) ==
  [provider |-> provider, password |-> provider = "LOCAL", active |-> TRUE]

Exists == user # NoUser

\* Of whom a password may be reset.
ResetEligible == Exists /\ user.active /\ user.provider = "LOCAL" /\ user.password
=============================================================================
