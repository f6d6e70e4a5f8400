------------------------------ MODULE Identity ------------------------------
(***************************************************************************)
(* Accounts: webhooks of the identity provider (identity_webhooks.py), the *)
(* recovery path for late ones (saas_routes.py), the principal of a        *)
(* request (principal_auth.py) and the upsert every authenticated          *)
(* transaction begins with (database.py, persistence.py).                  *)
(*                                                                         *)
(* The provider delivers each event at least once and in any order; tokens *)
(* outlive the account for a while.  Signatures, tokens and the replay     *)
(* window are cryptography and are left out.  An e-mail address stands for *)
(* the metadata an event carries: the version the provider had then.       *)
(***************************************************************************)
EXTENDS Naturals, FiniteSets

CONSTANTS
    Subject,         \* identity subjects
    LocalSubject,    \* those of the local development provider
    AnyRole,         \* role slugs, "candidate" among them
    Request,         \* concurrent requests
    MaxVersion       \* bound on the provider's changes of a user

ASSUME IdentityAssumption == LocalSubject \subseteq Subject /\ "candidate" \in AnyRole

VARIABLES
    provider,   \* the provider's own record: life and version
    sent,       \* the events it sent; it may deliver each at any later time
    seenEvents, \* identity_webhook_events
    account,    \* users and user_roles
    principal   \* the principal each request was authenticated as

identityVars == <<provider, sent, seenEvents, account, principal>>

NoAccount == [status |-> "absent", email |-> 0, roles |-> {}]
NoPrincipal == [subject |-> "none", email |-> 0, roles |-> {}]

IdentityInit ==
    /\ provider = [s \in Subject |-> [life |-> "none", version |-> 0]]
    /\ sent = {} /\ seenEvents = {}
    /\ account = [s \in Subject |-> NoAccount]
    /\ principal = [q \in Request |-> NoPrincipal]

-----------------------------------------------------------------------------
(* The provider.                                                           *)

ProviderEvent(s, type) == [subject |-> s, type |-> type, version |-> provider[s].version + 1]

ProviderChanges(s, type) ==
    /\ s \notin LocalSubject /\ provider[s].version < MaxVersion
    /\ type = "user.created" => provider[s].life = "none"
    /\ type # "user.created" => provider[s].life = "active"
    /\ provider' = [provider EXCEPT ![s] =
          [life |-> IF type = "user.deleted" THEN "deleted" ELSE "active", version |-> @.version + 1]]
    /\ sent' = sent \cup {ProviderEvent(s, type)}
    /\ UNCHANGED <<seenEvents, account, principal>>

-----------------------------------------------------------------------------
(* process_clerk_event.                                                    *)

(* Mutant: the upsert reactivates the account.                          *)
ProvisionedActive(s, email) ==
    [account EXCEPT ![s] = [status |-> "active", email |-> email,
                            roles |-> IF @.roles = {} THEN {"candidate"} ELSE @.roles]]

(* The upsert of a user event, and of reconcile_clerk_identity: metadata   *)
(* is replaced, status is not, a role is given only where there is none.   *)
Provisioned(s, email) ==
    [account EXCEPT ![s] =
        [status |-> IF @ = NoAccount THEN "active" ELSE @.status,
         email |-> email,
         roles |-> IF @.roles = {} THEN {"candidate"} ELSE @.roles]]

(* An event that was seen is answered "duplicate".                         *)
UserEvent(e) ==
    /\ e \in sent \ seenEvents /\ e.type \in {"user.created", "user.updated"}
    /\ seenEvents' = seenEvents \cup {e}
    /\ account' = Provisioned(e.subject, e.version)
    /\ UNCHANGED <<provider, sent, principal>>

(* The UPDATE of user.deleted, which may find no row.                      *)
UserDeletedEvent(e) ==
    /\ e \in sent \ seenEvents /\ e.type = "user.deleted"
    /\ seenEvents' = seenEvents \cup {e}
    /\ account' = [account EXCEPT ![e.subject].status = IF @ = "absent" THEN @ ELSE "deleted"]
    /\ UNCHANGED <<provider, sent, principal>>

(* session.created writes a login event; other types are ignored.          *)
OtherEvent(e) ==
    /\ e \in sent \ seenEvents /\ e.type = "session.created"
    /\ seenEvents' = seenEvents \cup {e}
    /\ UNCHANGED <<provider, sent, account, principal>>

(* reconcile_clerk_identity: the bearer of a token, possibly of an account *)
(* deleted since, with the metadata of that time.                          *)
Reconcile(s, v) ==
    /\ s \notin LocalSubject /\ provider[s].life # "none" /\ v \in 1..provider[s].version
    /\ account' = Provisioned(s, v)
    /\ UNCHANGED <<provider, sent, seenEvents, principal>>

-----------------------------------------------------------------------------
(* Requests: the principal is read in one transaction and used in another. *)

(* _database_principal refuses absent and inactive accounts and those      *)
(* without a role.                                                         *)
Authenticate(q, s) ==
    /\ s \notin LocalSubject /\ principal[q] = NoPrincipal
    /\ account[s].status = "active" /\ account[s].roles # {}
    /\ principal' = [principal EXCEPT ![q] = [subject |-> s, email |-> account[s].email,
                                              roles |-> account[s].roles]]
    /\ UNCHANGED <<provider, sent, seenEvents, account>>

(* principal_transaction: ensure_user's upsert.  Local roles come from the *)
(* token, all others stay.                                                 *)
EnsureUser(q) ==
    LET p == principal[q] IN
    /\ p # NoPrincipal
    /\ account' = [account EXCEPT ![p.subject] =
          [status |-> IF @ = NoAccount THEN "active" ELSE @.status, email |-> p.email,
           roles |-> IF p.subject \in LocalSubject THEN p.roles ELSE @.roles]]
    /\ principal' = [principal EXCEPT ![q] = NoPrincipal]
    /\ UNCHANGED <<provider, sent, seenEvents>>

(* _local_principal: whatever roles the development token names.           *)
AuthenticateLocal(q, s, roles) ==
    /\ s \in LocalSubject /\ principal[q] = NoPrincipal /\ roles # {}
    /\ principal' = [principal EXCEPT ![q] = [subject |-> s, email |-> 1, roles |-> roles]]
    /\ UNCHANGED <<provider, sent, seenEvents, account>>

(* Roles are given and taken in the database by administrators.            *)
GrantRoles(s, roles) ==
    /\ s \notin LocalSubject /\ account[s] # NoAccount /\ roles # account[s].roles
    /\ account' = [account EXCEPT ![s].roles = roles]
    /\ UNCHANGED <<provider, sent, seenEvents, principal>>

ClerkTypes == {"user.created", "user.updated", "user.deleted", "session.created"}
IdentityNext ==
    \/ \E s \in Subject :
         \/ \E t \in ClerkTypes : ProviderChanges(s, t)
         \/ \E v \in 1..MaxVersion : Reconcile(s, v)
         \/ \E roles \in SUBSET AnyRole : GrantRoles(s, roles)
         \/ \E q \in Request : Authenticate(q, s) \/ \E r \in SUBSET AnyRole : AuthenticateLocal(q, s, r)
    \/ \E e \in sent : UserEvent(e) \/ UserDeletedEvent(e) \/ OtherEvent(e)
    \/ \E q \in Request : EnsureUser(q)

IdentitySpec == IdentityInit /\ [][IdentityNext]_identityVars

-----------------------------------------------------------------------------
(* "Existing status and elevated roles remain authoritative"               *)
(* (saas_routes.py:93): neither late, repeated or reordered webhooks, nor  *)
(* a reconciliation or request with a token from before, bring a deleted   *)
(* account back or change the roles an administrator gave.                 *)
DatabaseIsAuthoritative ==
    [][\A s \in Subject \ LocalSubject :
          /\ account[s].status = "deleted" => account'[s].status = "deleted"
          /\ account'[s].roles # account[s].roles =>
                (account[s].roles = {} /\ account'[s].roles = {"candidate"})
                \/ \E roles \in SUBSET AnyRole : GrantRoles(s, roles)]_identityVars
=============================================================================
