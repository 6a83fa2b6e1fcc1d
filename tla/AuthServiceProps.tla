-------------------------- MODULE AuthServiceProps --------------------------
(***************************************************************************)
(* What signing in keeps although nothing runs in a transaction, and what  *)
(* the documents claim of it.                                              *)
(***************************************************************************)
EXTENDS AuthService

Steps == {"idle", "mark", "find", "create", "link", "callback", "issue",
          "delete", "revoke", "suspend", "unsuspend", "over"}

(* Every variable holds a value of its type.                               *)
TypeOK ==
  /\ address \in [Users -> Addresses \cup {NoOne}]
  /\ status \in [Users -> Statuses]
  /\ link \in [Accounts -> Users \cup {NoOne}]
  /\ issued \in [Codes -> Addresses \cup Users \cup {NoOne}]
  /\ used \subseteq Codes /\ expired \subseteq Codes \cup Sessions
  /\ owner \in [Sessions -> Users \cup {NoOne}]
  /\ revoked \cup held \cup access \subseteq Sessions
  /\ pc \in [Calls -> Steps]
  /\ call \in [Calls -> [code : Codes \cup {NoOne},
                         email : Addresses \cup {NoOne},
                         account : Accounts \cup {NoOne},
                         user : Users \cup {NoOne}]]
  /\ from \in [Sessions -> Codes \cup {NoOne}]
  /\ letIn \subseteq Users \X (Addresses \cup Accounts)

(***************************************************************************)
(* A code that has given a session is spent: wherever calls stop, and      *)
(* however they overlap, no session is given out for a code that is not    *)
(* marked as used (auth.service.ts:464-475, :719-736).                     *)
(***************************************************************************)
SessionsSpendTheirCode ==
  \A s \in Sessions : from[s] # NoOne => from[s] \in used

(***************************************************************************)
(* Whoever signs in again is the same user: an e-mail address, and an      *)
(* account at a provider, lead to one user for ever, although first logins *)
(* race to create and to link it, stop halfway, and the provider may       *)
(* report another address later (auth.service.ts:151-190, :623-638).       *)
(***************************************************************************)
IdentityIsStable ==
  \A p, q \in letIn : p[2] = q[2] => p[1] = q[1]

-----------------------------------------------------------------------------
(* The inductive invariant                                                 *)

AddressesUnique ==
  \A u, v \in Users : address[u] = address[v] => u = v \/ address[u] = NoOne

(* What a call relies on at each of its steps: it looks for a user only if *)
(* it has an address and no user; the user it links has that address; an   *)
(* account that it answers for is linked to the user it answers with.      *)
CallsKnowTheirUser ==
  \A c \in Calls : LET d == call[c] IN
    /\ pc[c] = "mark" => /\ d.code # NoOne /\ d.account = NoOne
                         /\ d.email = NoOne <=> d.user # NoOne
    /\ pc[c] \in {"find", "create"} => d.email # NoOne
    /\ pc[c] \in {"link", "issue"} =>
         /\ d.user # NoOne
         /\ d.email # NoOne => address[d.user] = d.email
    /\ pc[c] = "link" => d.account # NoOne
    /\ pc[c] = "callback" =>
         d.user # NoOne /\ d.account # NoOne /\ link[d.account] = d.user
    /\ pc[c] \in {"delete", "revoke"} => d.user # NoOne

(* Only their calls' first step is taken with a code that is not spent.    *)
CallsSpendTheirCode ==
  \A c \in Calls :
    call[c].code # NoOne => pc[c] = "mark" \/ call[c].code \in used

LetInAsKnown ==
  \A p \in letIn : \/ p[2] \in Addresses /\ address[p[1]] = p[2]
                   \/ p[2] \in Accounts /\ link[p[2]] = p[1]

TokensAreOwned == \A s \in held \cup access : owner[s] # NoOne

(***************************************************************************)
(* The above, with the types: what each statement of a login or of a       *)
(* deletion relies on from the statements before it still holds, whatever  *)
(* others did in between (auth.service.ts:151-274, :454-552, :602-737).    *)
(***************************************************************************)
IInv ==
  /\ TypeOK
  /\ AddressesUnique
  /\ CallsKnowTheirUser
  /\ CallsSpendTheirCode
  /\ LetInAsKnown
  /\ TokensAreOwned
  /\ SessionsSpendTheirCode

-----------------------------------------------------------------------------
(* Claims of the documents, compared with the code.                        *)

(***************************************************************************)
(* docs/FUNCTION_REGISTRY.md:168: markAsUsed is `Mark token as used        *)
(* (one-time use)'.  A code gives at most one session.                     *)
(***************************************************************************)
OneSessionPerCode ==
  \A s, t \in Sessions : from[s] # NoOne /\ from[s] = from[t] => s = t
=============================================================================
