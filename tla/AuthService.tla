---------------------------- MODULE AuthService ----------------------------
(***************************************************************************)
(* Signing in and out: magic links, OAuth, the tokens they give, and what  *)
(* deletes or suspends an account, over the tables of Users.               *)
(*                                                                         *)
(* No handler opens a transaction: each statement is a step, what a call   *)
(* has read may be stale when it is used, and a call may stop between any  *)
(* two of its steps (an error, a timeout, a lost process).  A call that is *)
(* refused changes nothing and is left out.                                *)
(***************************************************************************)
EXTENDS Users

CONSTANTS
  Codes,       \* rows of magic_link_tokens: 6-digit codes and OAuth codes
  Sessions,    \* rows of refresh_tokens
  Calls,       \* requests of more than one statement
  Reports,     \* the addresses a provider may report for an account
  Blank        \* the empty e-mail address that OAuth codes are stored with

ASSUME AuthAssumption ==
  /\ Users \cap Addresses = {} /\ Accounts \cap Addresses = {}
  /\ NoOne \notin Codes \cup Sessions \cup Calls
  /\ Blank \in Addresses
  /\ DOMAIN Reports = Accounts
  /\ \A a \in Accounts : Reports[a] \subseteq Addresses \ {Blank}

VARIABLES
  issued,      \* the address a code was sent to, or the user of an OAuth code
  used,        \* codes marked as used
  owner,       \* the user of a session
  revoked,     \* sessions with revoked_at set, which nothing goes by
  expired,     \* codes and sessions past their expires_at
  held,        \* sessions whose refresh token was given to somebody
  access,      \* sessions with an access token that is still accepted
  pc, call,    \* the next step of a call, and what it has read so far
  from,        \* history: the code that gave a session
  letIn        \* history: users let in, with the address or account used

tokens   == <<issued, used, owner, revoked, expired, held, access>>
calls    == <<pc, call>>
history  == <<from, letIn>>
authVars == <<usersVars, tokens, calls, history>>

(* What a call has read: nothing when it starts.                           *)
Nothing == [code |-> NoOne, email |-> NoOne, account |-> NoOne,
            user |-> NoOne]

AuthInit ==
  /\ UsersInit
  /\ issued = [k \in Codes |-> NoOne] /\ used = {}
  /\ owner = [s \in Sessions |-> NoOne] /\ revoked = {}
  /\ expired = {} /\ held = {} /\ access = {}
  /\ pc = [c \in Calls |-> "idle"] /\ call = [c \in Calls |-> Nothing]
  /\ from = [s \in Sessions |-> NoOne] /\ letIn = {}

Ended == {"idle", "over"}

Begin(c, step, read) ==
  /\ pc[c] = "idle"
  /\ pc' = [pc EXCEPT ![c] = step]
  /\ call' = [call EXCEPT ![c] = read]

Goto(c, step) == pc' = [pc EXCEPT ![c] = step] /\ UNCHANGED call

(* The call is over, at its end or before.                                 *)
Leave(c) ==
  /\ pc' = [pc EXCEPT ![c] = "over"]
  /\ call' = [call EXCEPT ![c] = Nothing]

(* The call goes on with user u.                                           *)
GotoWith(c, step, u) ==
  /\ pc' = [pc EXCEPT ![c] = step]
  /\ call' = [call EXCEPT ![c].user = u]

-----------------------------------------------------------------------------
(* Magic links and OAuth codes                                             *)

(* A code in use by any row of the table, however old, is refused by the   *)
(* index; an e-mail that cannot be sent is logged, and the code stays.     *)
RequestMagicLink(k, e) ==
  /\ issued[k] = NoOne /\ e # Blank
  /\ issued' = [issued EXCEPT ![k] = e]
  /\ UNCHANGED <<usersVars, used, owner, revoked, expired, held, access,
                 calls, history>>

Presentable(k) == issued[k] # NoOne /\ k \notin used /\ k \notin expired

(* verifyMagicLinkByToken, for OAuth codes too, which carry no address.    *)
VerifyMagicLink(c, k) ==
  /\ Presentable(k)
  /\ Begin(c, "mark", [Nothing EXCEPT !.code = k,
       !.email = IF issued[k] \in Users THEN Blank ELSE issued[k]])
  /\ UNCHANGED <<usersVars, tokens, history>>

(* verifyToken, with the redirect URI of the code or none.                 *)
VerifyUnmarked(c, k) ==                     \* mutant: never marked as used
  /\ Presentable(k)
  /\ issued[k] \in Users
  /\ Begin(c, "issue", [Nothing EXCEPT !.code = k, !.user = issued[k]])
  /\ UNCHANGED <<usersVars, tokens, history>>
VerifyToken(c, k) ==
  /\ Presentable(k)
  /\ Begin(c, "mark", IF issued[k] \in Users
       THEN [Nothing EXCEPT !.code = k, !.user = issued[k]]
       ELSE [Nothing EXCEPT !.code = k, !.email = issued[k]])
  /\ UNCHANGED <<usersVars, tokens, history>>

(* An UPDATE by id, which does not ask whether the code is still unused.   *)
MarkAsUsed(c) ==
  /\ pc[c] = "mark"
  /\ used' = used \cup {call[c].code}
  /\ Goto(c, IF call[c].user # NoOne THEN "issue" ELSE "find")
  /\ UNCHANGED <<usersVars, issued, owner, revoked, expired, held, access,
                 history>>

(* validateOAuthUser: the user the account is linked to, or ...            *)
ValidateOAuthUser(c, a) ==
  /\ \E e \in Reports[a] :
       IF link[a] # NoOne
       THEN Begin(c, "callback", [Nothing EXCEPT !.email = e, !.account = a,
                                                 !.user = link[a]])
       ELSE Begin(c, "find", [Nothing EXCEPT !.email = e, !.account = a])
  /\ UNCHANGED <<usersVars, tokens, history>>

(* ... the user of the address the provider reports, created if need be.   *)
AfterUserUnlinked(c) == IF call[c].account # NoOne THEN "callback" ELSE "issue" \* mutant
AfterUser(c) == IF call[c].account # NoOne THEN "link" ELSE "issue"

FindUser(c) ==
  /\ pc[c] = "find"
  /\ IF FindByEmail(call[c].email) = {} THEN Goto(c, "create")
     ELSE \E u \in FindByEmail(call[c].email) : GotoWith(c, AfterUser(c), u)
  /\ UNCHANGED <<usersVars, tokens, history>>

CreateUser(c) ==
  /\ pc[c] = "create"
  /\ \E u \in Users : InsertUser(u, call[c].email)
                      /\ GotoWith(c, AfterUser(c), u)
  /\ UNCHANGED <<link, tokens, history>>

LinkOAuthProvider(c) ==
  /\ pc[c] = "link"
  /\ InsertLink(call[c].account, call[c].user)
  /\ Goto(c, "callback")
  /\ UNCHANGED <<address, status, tokens, history>>

(* An insert that a unique index refuses ends the call.                    *)
Refused(c) ==
  /\ \/ pc[c] = "create" /\ FindByEmail(call[c].email) # {}
     \/ pc[c] = "link" /\ ~ Linkable(call[c].account, call[c].user)
  /\ Leave(c)
  /\ UNCHANGED <<usersVars, tokens, history>>

GenerateOAuthCode(c, k) ==
  /\ pc[c] = "callback" /\ issued[k] = NoOne
  /\ issued' = [issued EXCEPT ![k] = call[c].user]
  /\ letIn' = letIn \cup {<<call[c].user, call[c].account>>}
  /\ Leave(c)
  /\ UNCHANGED <<usersVars, used, owner, revoked, expired, held, access,
                 from>>

(* generateTokens; the code of the call, if any, may be gone from the      *)
(* table of valid ones for long.                                           *)
GenerateTokens(c, s) ==
  /\ pc[c] = "issue" /\ owner[s] = NoOne
  /\ owner' = [owner EXCEPT ![s] = call[c].user]
  /\ held' = held \cup {s} /\ access' = access \cup {s}
  /\ from' = [from EXCEPT ![s] = call[c].code]
  /\ letIn' = IF call[c].email = NoOne THEN letIn
              ELSE letIn \cup {<<call[c].user, call[c].email>>}
  /\ Leave(c)
  /\ UNCHANGED <<usersVars, issued, used, revoked, expired>>

(* Without a redirect URI tokens are generated as well, and the controller *)
(* answers 401 all the same: nobody is given them.                         *)
TokensForNobody(c, s) ==
  /\ pc[c] = "callback" /\ owner[s] = NoOne
  /\ owner' = [owner EXCEPT ![s] = call[c].user]
  /\ Leave(c)
  /\ UNCHANGED <<usersVars, issued, used, revoked, expired, held, access,
                 history>>

-----------------------------------------------------------------------------
(* Sessions                                                                *)

(* refreshAccessToken: the refresh token stays as it is.  findValidToken   *)
(* asks for revokedAt: null; the find of TypeORM 0.3 leaves a condition    *)
(* with null out, and so finds revoked tokens as well.                     *)
RefreshAccessToken(s) ==
  /\ s \in held \ expired
  /\ access' = access \cup {s}
  /\ UNCHANGED <<usersVars, issued, used, owner, revoked, expired, held,
                 calls, history>>

Logout(s) ==
  /\ s \in held
  /\ revoked' = revoked \cup {s}
  /\ UNCHANGED <<usersVars, issued, used, owner, expired, held, access,
                 calls, history>>

(* 15 minutes for a link and an access token, 5 for an OAuth code, 30 days *)
(* for a refresh token.                                                    *)
Expire ==
  /\ \/ \E k \in Codes : Presentable(k) /\ expired' = expired \cup {k}
                         /\ UNCHANGED access
     \/ \E s \in held : expired' = expired \cup {s} /\ UNCHANGED access
     \/ \E s \in access : access' = access \ {s} /\ UNCHANGED expired
  /\ UNCHANGED <<usersVars, issued, used, owner, revoked, held, calls,
                 history>>

-----------------------------------------------------------------------------
(* Accounts                                                                *)

(* deleteAccount reads the user, marks it as deleted, and then revokes its *)
(* sessions, or means to: an update where revokedAt: null becomes          *)
(* revoked_at = NULL in TypeORM 0.3, which holds of no row.                *)
DeleteAccount(c, s) ==
  /\ s \in access
  /\ Begin(c, "delete", [Nothing EXCEPT !.user = owner[s]])
  /\ UNCHANGED <<usersVars, tokens, history>>

SoftDelete(c) ==
  /\ pc[c] = "delete"
  /\ SetStatus(call[c].user, "DELETED")
  /\ Goto(c, "revoke")
  /\ UNCHANGED <<address, link, tokens, history>>

RevokeAllForUser(c) ==
  /\ pc[c] = "revoke"
  /\ Leave(c)
  /\ UNCHANGED <<usersVars, tokens, history>>

(* suspendUser and unsuspendUser check the status they have read, and      *)
(* write another over whatever it is by then.                              *)
SuspendUser(c, u) ==
  /\ u \in Rows /\ status[u] # "SUSPENDED"
  /\ Begin(c, "suspend", [Nothing EXCEPT !.user = u])
  /\ UNCHANGED <<usersVars, tokens, history>>

UnsuspendUser(c, u) ==
  /\ u \in Rows /\ status[u] = "SUSPENDED"
  /\ Begin(c, "unsuspend", [Nothing EXCEPT !.user = u])
  /\ UNCHANGED <<usersVars, tokens, history>>

UpdateStatus(c) ==
  /\ \/ pc[c] = "suspend" /\ SetStatus(call[c].user, "SUSPENDED")
     \/ pc[c] = "unsuspend" /\ SetStatus(call[c].user, "ACTIVE")
  /\ Leave(c)
  /\ UNCHANGED <<address, link, tokens, history>>

Admin(u) ==
  /\ (\E e \in Addresses \ {Blank} : Create(u, e)) \/ Update(u) \/ Remove(u)
  /\ UNCHANGED <<tokens, calls, history>>

(* Any call may stop where it is.                                          *)
Stop(c) ==
  /\ pc[c] \notin Ended
  /\ Leave(c)
  /\ UNCHANGED <<usersVars, tokens, history>>

-----------------------------------------------------------------------------
Login(c) ==
  \/ \E k \in Codes : VerifyMagicLink(c, k) \/ VerifyToken(c, k)
                      \/ GenerateOAuthCode(c, k)
  \/ \E a \in Accounts : ValidateOAuthUser(c, a)
  \/ \E s \in Sessions : GenerateTokens(c, s) \/ TokensForNobody(c, s)
  \/ MarkAsUsed(c) \/ FindUser(c) \/ CreateUser(c) \/ LinkOAuthProvider(c)
  \/ Refused(c)

ManageAccount(c) ==
  \/ \E s \in Sessions : DeleteAccount(c, s)
  \/ \E u \in Users : SuspendUser(c, u) \/ UnsuspendUser(c, u)
  \/ SoftDelete(c) \/ RevokeAllForUser(c) \/ UpdateStatus(c)

AuthNext ==
  \/ \E c \in Calls : Login(c) \/ ManageAccount(c) \/ Stop(c)
  \/ \E k \in Codes, e \in Addresses : RequestMagicLink(k, e)
  \/ \E s \in Sessions : RefreshAccessToken(s) \/ Logout(s)
  \/ Expire
  \/ \E u \in Users : Admin(u)

AuthSpec == AuthInit /\ [][AuthNext]_authVars
=============================================================================
