------------------------------- MODULE Users -------------------------------
(***************************************************************************)
(* The users of an app and the accounts at OAuth providers linked to them: *)
(* the tables users and oauth_providers with their unique indexes, and     *)
(* UserService.  Every lookup names the app, so one app is modelled.  Rows *)
(* are never deleted, only marked, and keep their e-mail address; a        *)
(* handler that looks a user up before it updates it is therefore one      *)
(* step.                                                                   *)
(***************************************************************************)

CONSTANTS
  Users,       \* ids that rows of users may get
  Addresses,   \* e-mail addresses, in lower case
  Accounts,    \* accounts at providers: provider and provider_user_id
  Provider     \* the provider of an account

NoOne == "none"
ASSUME UsersAssumption ==
  /\ NoOne \notin Users \cup Addresses \cup Accounts
  /\ DOMAIN Provider = Accounts

VARIABLES
  address,     \* the e-mail address of a user; NoOne: no such row yet
  status,
  link         \* the user an account is linked to

usersVars == <<address, status, link>>

Statuses == {"ACTIVE", "SUSPENDED", "DELETED"}

UsersInit ==
  /\ address = [u \in Users |-> NoOne]
  /\ status = [u \in Users |-> "ACTIVE"]
  /\ link = [a \in Accounts |-> NoOne]

Rows == {u \in Users : address[u] # NoOne}

(* findByEmail, whatever the status of the user.                           *)
FindByEmail(e) == {u \in Users : address[u] = e}

(* UserRepository.create; app and address are unique.                      *)
InsertAnyUser(u, e) ==                      \* mutant: no unique index
  /\ u \notin Rows
  /\ address' = [address EXCEPT ![u] = e]
  /\ status' = [status EXCEPT ![u] = "ACTIVE"]
InsertUser(u, e) ==
  /\ u \notin Rows
  /\ FindByEmail(e) = {}
  /\ address' = [address EXCEPT ![u] = e]
  /\ status' = [status EXCEPT ![u] = "ACTIVE"]

SetStatus(u, s) == status' = [status EXCEPT ![u] = s]

(* An account is linked to one user, and a user to one account of a        *)
(* provider.                                                               *)
Linkable(a, u) ==
  /\ link[a] = NoOne
  /\ \A b \in Accounts : link[b] = u => Provider[b] # Provider[a]

InsertLink(a, u) ==
  /\ Linkable(a, u)
  /\ link' = [link EXCEPT ![a] = u]

-----------------------------------------------------------------------------
(* UserService, for the admins of the app                                  *)

Create(u, e) == InsertUser(u, e) /\ UNCHANGED link

Update(u) ==
  /\ u \in Rows
  /\ \E s \in Statuses : SetStatus(u, s)
  /\ UNCHANGED <<address, link>>

Remove(u) ==
  /\ u \in Rows
  /\ SetStatus(u, "DELETED")
  /\ UNCHANGED <<address, link>>
=============================================================================
