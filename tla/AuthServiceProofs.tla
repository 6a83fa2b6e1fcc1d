------------------------- MODULE AuthServiceProofs -------------------------
(***************************************************************************)
(* Proofs of the invariants of AuthService for any number of users, codes, *)
(* sessions and overlapping calls.                                         *)
(***************************************************************************)
EXTENDS AuthServiceProps, TLAPS

USE UsersAssumption, AuthAssumption DEF NoOne

(* The types of the record a call starts with.                             *)
LEMMA NothingType ==
  Nothing \in [code : Codes \cup {NoOne}, email : Addresses \cup {NoOne},
               account : Accounts \cup {NoOne}, user : Users \cup {NoOne}]
  BY DEF Nothing

LEMMA InitIInv == AuthInit => IInv
  BY NothingType DEF AuthInit, UsersInit, IInv, TypeOK, Statuses, Steps,
     AddressesUnique, CallsKnowTheirUser, CallsSpendTheirCode, LetInAsKnown,
     TokensAreOwned,
     SessionsSpendTheirCode, Nothing

-----------------------------------------------------------------------------
(* Steps that leave the calls alone                                        *)

LEMMA RequestStep ==
  ASSUME IInv, NEW k \in Codes, NEW e \in Addresses, RequestMagicLink(k, e)
  PROVE  IInv'
  BY DEF IInv, RequestMagicLink, usersVars, calls, history, TypeOK,
     AddressesUnique, CallsKnowTheirUser, CallsSpendTheirCode, LetInAsKnown,
     TokensAreOwned,
     SessionsSpendTheirCode

LEMMA SessionStep ==
  ASSUME IInv, NEW s \in Sessions, RefreshAccessToken(s) \/ Logout(s)
  PROVE  IInv'
  BY DEF IInv, RefreshAccessToken, Logout, usersVars, calls, history, TypeOK,
     AddressesUnique, CallsKnowTheirUser, CallsSpendTheirCode, LetInAsKnown,
     TokensAreOwned,
     SessionsSpendTheirCode

LEMMA ExpireStep ==
  ASSUME IInv, Expire
  PROVE  IInv'
  BY DEF IInv, Expire, usersVars, calls, history, TypeOK,
     AddressesUnique, CallsKnowTheirUser, CallsSpendTheirCode, LetInAsKnown,
     TokensAreOwned,
     SessionsSpendTheirCode

(* An address is never taken from a user, nor a link removed.              *)
LEMMA InsertedUser ==
  ASSUME TypeOK, AddressesUnique, NEW u \in Users, NEW e \in Addresses,
         InsertUser(u, e)
  PROVE  /\ address' \in [Users -> Addresses \cup {NoOne}]
         /\ status' \in [Users -> Statuses]
         /\ AddressesUnique'
         /\ address'[u] = e
         /\ \A v \in Users : address[v] # NoOne => address'[v] = address[v]
<1>. USE DEF TypeOK, InsertUser
<1>1. address' \in [Users -> Addresses \cup {NoOne}] /\ address'[u] = e
  OBVIOUS
<1>2. status' \in [Users -> Statuses]
  BY DEF Statuses
<1>3. \A v \in Users : address[v] # NoOne => address'[v] = address[v]
  BY DEF Rows
<1>4. AddressesUnique'
  BY DEF AddressesUnique, FindByEmail
<1>. QED
  BY <1>1, <1>2, <1>3, <1>4

LEMMA AdminStep ==
  ASSUME IInv, NEW u \in Users, Admin(u)
  PROVE  IInv'
<1>. USE DEF IInv
<1>0. UNCHANGED <<issued, used, owner, revoked, expired, held, access, pc,
                  call, from, letIn>>
  BY DEF Admin, tokens, calls, history
<1>1. CASE \E e \in Addresses \ {Blank} : Create(u, e)
  <2>1. PICK e \in Addresses : InsertUser(u, e) /\ UNCHANGED link
    BY <1>1 DEF Create
  <2>2. /\ address' \in [Users -> Addresses \cup {NoOne}]
        /\ status' \in [Users -> Statuses]
        /\ AddressesUnique'
        /\ \A v \in Users : address[v] # NoOne => address'[v] = address[v]
    BY <2>1, InsertedUser
  <2>3. TypeOK'
    BY <1>0, <2>1, <2>2 DEF TypeOK
  <2>4. CallsKnowTheirUser'
    BY <1>0, <2>1, <2>2 DEF CallsKnowTheirUser, TypeOK
  <2>5. LetInAsKnown'
    BY <1>0, <2>1, <2>2 DEF LetInAsKnown, TypeOK
  <2>6. /\ CallsSpendTheirCode' /\ TokensAreOwned'
        /\ SessionsSpendTheirCode'
    BY <1>0 DEF CallsSpendTheirCode, TokensAreOwned,
     SessionsSpendTheirCode
  <2>. QED
    BY <2>2, <2>3, <2>4, <2>5, <2>6
<1>2. CASE Update(u) \/ Remove(u)
  <2>1. UNCHANGED <<address, link>> /\ status' \in [Users -> Statuses]
    BY <1>2 DEF Update, Remove, SetStatus, Statuses, TypeOK
  <2>. QED
    BY <1>0, <2>1 DEF TypeOK, AddressesUnique, CallsKnowTheirUser,
       LetInAsKnown, CallsSpendTheirCode, TokensAreOwned,
     SessionsSpendTheirCode
<1>. QED
  BY <1>1, <1>2 DEF Admin

-----------------------------------------------------------------------------
(* Steps of a call that change no table                                    *)

(* What the record of a call must satisfy at a step, given the tables.     *)
GoodAt(d, step) ==
  /\ d \in [code : Codes \cup {NoOne}, email : Addresses \cup {NoOne},
            account : Accounts \cup {NoOne}, user : Users \cup {NoOne}]
  /\ step \in Steps
  /\ step = "mark" => /\ d.code # NoOne /\ d.account = NoOne
                      /\ d.email = NoOne <=> d.user # NoOne
  /\ step \in {"find", "create"} => d.email # NoOne
  /\ step \in {"link", "issue"} =>
       /\ d.user # NoOne
       /\ d.email # NoOne => address[d.user] = d.email
  /\ step = "link" => d.account # NoOne
  /\ step = "callback" =>
       d.user # NoOne /\ d.account # NoOne /\ link[d.account] = d.user
  /\ d.code # NoOne => step = "mark" \/ d.code \in used
  /\ step \in {"delete", "revoke"} => d.user # NoOne

LEMMA CallsAreGood ==
  ASSUME IInv, NEW c \in Calls
  PROVE  GoodAt(call[c], pc[c])
  BY DEF IInv, TypeOK, GoodAt, CallsKnowTheirUser, CallsSpendTheirCode

(* The other way round, for the state after a step.                        *)
LEMMA GoodCalls ==
  ASSUME pc' \in [Calls -> Steps], call' \in [Calls -> [code : Codes \cup {NoOne},
           email : Addresses \cup {NoOne}, account : Accounts \cup {NoOne},
           user : Users \cup {NoOne}]],
         \A c \in Calls : GoodAt(call[c], pc[c])'
  PROVE  /\ CallsKnowTheirUser' /\ CallsSpendTheirCode'
  BY DEF GoodAt, CallsKnowTheirUser, CallsSpendTheirCode

(* What is known of a row never changes: this keeps all other calls good   *)
(* when one goes on.                                                       *)
LEMMA OthersStayGood ==
  ASSUME IInv, NEW c \in Calls, NEW d, NEW step, TypeOK',
         pc' = [pc EXCEPT ![c] = step], call' = [call EXCEPT ![c] = d],
         GoodAt(call[c], pc[c])',
         \A v \in Users : address[v] # NoOne => address'[v] = address[v],
         \A a \in Accounts : link[a] # NoOne => link'[a] = link[a],
         used \subseteq used'
  PROVE  /\ CallsKnowTheirUser' /\ CallsSpendTheirCode'
<1>1. ASSUME NEW b \in Calls, b # c PROVE GoodAt(call[b], pc[b])'
  <2>1. call'[b] = call[b] /\ pc'[b] = pc[b]
    BY <1>1 DEF IInv, TypeOK
  <2>2. GoodAt(call[b], pc[b])
    BY CallsAreGood
  <2>3. call[b].user # NoOne => call[b].user \in Users
    BY <2>2 DEF GoodAt
  <2>4. call[b].account # NoOne => call[b].account \in Accounts
    BY <2>2 DEF GoodAt
  <2>. QED
    BY <2>1, <2>2, <2>3, <2>4 DEF GoodAt
<1>2. \A b \in Calls : GoodAt(call[b], pc[b])'
  BY <1>1
<1>. QED
  BY <1>2, GoodCalls DEF TypeOK

(* A call may go on to any step that its record is good at.                *)
LEMMA MoveStep ==
  ASSUME IInv, NEW c \in Calls, NEW d, NEW step, GoodAt(d, step),
         pc' = [pc EXCEPT ![c] = step], call' = [call EXCEPT ![c] = d],
         UNCHANGED <<usersVars, tokens, history>>
  PROVE  IInv'
<1>. USE DEF IInv, usersVars, tokens, history
<1>1. TypeOK'
  BY DEF TypeOK, GoodAt
<1>2. call'[c] = d /\ pc'[c] = step
  BY DEF TypeOK
<1>3. GoodAt(call[c], pc[c])'
  BY <1>2 DEF GoodAt
<1>4. /\ CallsKnowTheirUser' /\ CallsSpendTheirCode'
  BY <1>1, <1>3, OthersStayGood
<1>5. AddressesUnique' /\ LetInAsKnown' /\ TokensAreOwned' /\ SessionsSpendTheirCode'
  BY DEF AddressesUnique, LetInAsKnown, TokensAreOwned, SessionsSpendTheirCode
<1>. QED
  BY <1>1, <1>4, <1>5

(* A call may leave wherever it is.                                        *)
LEMMA LeaveStep ==
  ASSUME IInv, NEW c \in Calls, Leave(c), UNCHANGED <<usersVars, tokens, history>>
  PROVE  IInv'
<1>1. GoodAt(Nothing, "over")
  BY NothingType DEF GoodAt, Nothing, Steps
<1>. QED
  BY <1>1, MoveStep DEF Leave

LEMMA ReadCodeStep ==
  ASSUME IInv, NEW c \in Calls, NEW k \in Codes,
         VerifyMagicLink(c, k) \/ VerifyToken(c, k)
  PROVE  IInv'
<1>1. PICK d : /\ Begin(c, "mark", d)
               /\ d \in { [Nothing EXCEPT !.code = k, !.email =
                             IF issued[k] \in Users THEN Blank ELSE issued[k]],
                          IF issued[k] \in Users
                          THEN [Nothing EXCEPT !.code = k, !.user = issued[k]]
                          ELSE [Nothing EXCEPT !.code = k, !.email = issued[k]] }
               /\ Presentable(k)
               /\ UNCHANGED <<usersVars, tokens, history>>
  BY DEF VerifyMagicLink, VerifyToken
<1>2. issued[k] \in Addresses \cup Users
  BY <1>1 DEF Presentable, IInv, TypeOK
<1>3. GoodAt(d, "mark")
  BY <1>1, <1>2 DEF Nothing, GoodAt, Steps
<1>. QED
  BY <1>1, <1>3, MoveStep DEF Begin

LEMMA ValidateOAuthUserStep ==
  ASSUME IInv, NEW c \in Calls, NEW a \in Accounts, ValidateOAuthUser(c, a)
  PROVE  IInv'
<1>1. PICK e \in Reports[a] :
        IF link[a] # NoOne
        THEN Begin(c, "callback", [Nothing EXCEPT !.email = e, !.account = a,
                                                  !.user = link[a]])
        ELSE Begin(c, "find", [Nothing EXCEPT !.email = e, !.account = a])
  BY DEF ValidateOAuthUser
<1>2. e \in Addresses
  OBVIOUS
<1>3. UNCHANGED <<usersVars, tokens, history>>
  BY DEF ValidateOAuthUser
<1>4. CASE link[a] # NoOne
  <2>. DEFINE d == [Nothing EXCEPT !.email = e, !.account = a, !.user = link[a]]
  <2>1. GoodAt(d, "callback")
    BY <1>2, <1>4 DEF Nothing, GoodAt, Steps, IInv, TypeOK
  <2>. QED
    BY <1>1, <1>3, <1>4, <2>1, MoveStep DEF Begin
<1>5. CASE link[a] = NoOne
  <2>. DEFINE d == [Nothing EXCEPT !.email = e, !.account = a]
  <2>1. GoodAt(d, "find")
    BY <1>2 DEF Nothing, GoodAt, Steps
  <2>. QED
    BY <1>1, <1>3, <1>5, <2>1, MoveStep DEF Begin
<1>. QED
  BY <1>4, <1>5

(* The step after a user was found or created.                             *)
LEMMA AfterUserGood ==
  ASSUME IInv, NEW c \in Calls, pc[c] \in {"find", "create"}, NEW u \in Users,
         address[u] = call[c].email
  PROVE  GoodAt([call[c] EXCEPT !.user = u], AfterUser(c))
<1>1. GoodAt(call[c], pc[c])
  BY CallsAreGood
<1>. QED
  BY <1>1 DEF GoodAt, AfterUser, Steps

LEMMA FindUserStep ==
  ASSUME IInv, NEW c \in Calls, FindUser(c)
  PROVE  IInv'
<1>1. pc[c] = "find" /\ UNCHANGED <<usersVars, tokens, history>>
  BY DEF FindUser
<1>2. CASE Goto(c, "create")
  <2>1. GoodAt(call[c], pc[c])
    BY CallsAreGood
  <2>2. GoodAt(call[c], "create")
    BY <1>1, <2>1 DEF GoodAt, Steps
  <2>3. call' = [call EXCEPT ![c] = call[c]]
    BY <1>2 DEF Goto, IInv, TypeOK
  <2>. QED
    BY <1>1, <1>2, <2>2, <2>3, MoveStep DEF Goto
<1>3. CASE \E u \in FindByEmail(call[c].email) : GotoWith(c, AfterUser(c), u)
  <2>1. PICK u \in Users : address[u] = call[c].email /\ GotoWith(c, AfterUser(c), u)
    BY <1>3 DEF FindByEmail
  <2>2. GoodAt([call[c] EXCEPT !.user = u], AfterUser(c))
    BY <1>1, <2>1, AfterUserGood
  <2>3. call' = [call EXCEPT ![c] = [call[c] EXCEPT !.user = u]]
    BY <2>1 DEF GotoWith
  <2>. QED
    BY <1>1, <2>1, <2>2, <2>3, MoveStep DEF GotoWith
<1>. QED
  BY <1>2, <1>3 DEF FindUser

(* The first step of what the owner, or an admin, does to an account.      *)
LEMMA BeginAccountStep ==
  ASSUME IInv, NEW c \in Calls,
         \/ \E s \in Sessions : DeleteAccount(c, s)
         \/ \E u \in Users : SuspendUser(c, u) \/ UnsuspendUser(c, u)
  PROVE  IInv'
<1>1. PICK step \in {"delete", "suspend", "unsuspend"}, u \in Users :
        /\ Begin(c, step, [Nothing EXCEPT !.user = u])
        /\ UNCHANGED <<usersVars, tokens, history>>
  <2>1. ASSUME NEW s \in Sessions, DeleteAccount(c, s) PROVE owner[s] \in Users
    BY <2>1 DEF DeleteAccount, IInv, TypeOK, TokensAreOwned
  <2>. QED
    BY <2>1 DEF DeleteAccount, SuspendUser, UnsuspendUser
<1>2. GoodAt([Nothing EXCEPT !.user = u], step)
  BY <1>1 DEF Nothing, GoodAt, Steps
<1>. QED
  BY <1>1, <1>2, MoveStep DEF Begin

-----------------------------------------------------------------------------
(* Steps of a call that change a table                                     *)

LEMMA MarkAsUsedStep ==
  ASSUME IInv, NEW c \in Calls, MarkAsUsed(c)
  PROVE  IInv'
<1>. USE DEF IInv
<1>. DEFINE step == IF call[c].user # NoOne THEN "issue" ELSE "find"
<1>1. /\ pc[c] = "mark"
      /\ pc' = [pc EXCEPT ![c] = step] /\ call' = call
      /\ used' = used \cup {call[c].code}
      /\ UNCHANGED <<address, status, link, issued, owner, revoked, expired,
                     held, access, from, letIn>>
  BY DEF MarkAsUsed, Goto, usersVars, history
<1>2. GoodAt(call[c], "mark")
  BY <1>1, CallsAreGood
<1>3. call[c].code # NoOne
  BY <1>2 DEF GoodAt
<1>4. TypeOK'
  BY <1>1, <1>2, <1>3 DEF TypeOK, GoodAt, Steps
<1>5. call' = [call EXCEPT ![c] = call[c]] /\ pc'[c] = step
  BY <1>1 DEF TypeOK
<1>6. GoodAt(call[c], pc[c])'
  BY <1>1, <1>2, <1>5 DEF GoodAt, Steps
<1>7. /\ CallsKnowTheirUser' /\ CallsSpendTheirCode'
  BY <1>1, <1>4, <1>5, <1>6, OthersStayGood
<1>8. AddressesUnique' /\ LetInAsKnown' /\ TokensAreOwned' /\ SessionsSpendTheirCode'
  BY <1>1 DEF AddressesUnique, LetInAsKnown, TokensAreOwned, SessionsSpendTheirCode
<1>. QED
  BY <1>4, <1>7, <1>8

LEMMA CreateUserStep ==
  ASSUME IInv, NEW c \in Calls, CreateUser(c)
  PROVE  IInv'
<1>. USE DEF IInv
<1>1. PICK u \in Users : InsertUser(u, call[c].email) /\ GotoWith(c, AfterUser(c), u)
  BY DEF CreateUser
<1>2. /\ pc[c] = "create"
      /\ UNCHANGED <<link, issued, used, owner, revoked, expired, held, access,
                     from, letIn>>
  BY DEF CreateUser, tokens, history
<1>. DEFINE d == [call[c] EXCEPT !.user = u]
<1>3. GoodAt(call[c], "create")
  BY <1>2, CallsAreGood
<1>4. call[c].email \in Addresses
  BY <1>3 DEF GoodAt
<1>5. /\ address' \in [Users -> Addresses \cup {NoOne}]
      /\ status' \in [Users -> Statuses]
      /\ AddressesUnique'
      /\ address'[u] = call[c].email
      /\ \A v \in Users : address[v] # NoOne => address'[v] = address[v]
  BY <1>1, <1>4, InsertedUser
<1>6. pc' = [pc EXCEPT ![c] = AfterUser(c)] /\ call' = [call EXCEPT ![c] = d]
  BY <1>1 DEF GotoWith
<1>7. AfterUser(c) \in {"link", "issue"} /\ (AfterUser(c) = "link" => call[c].account # NoOne)
  BY DEF AfterUser
<1>8. TypeOK'
  <2>1. pc' \in [Calls -> Steps]
    BY <1>6, <1>7 DEF TypeOK, Steps
  <2>2. call' \in [Calls -> [code : Codes \cup {NoOne}, email : Addresses \cup {NoOne},
            account : Accounts \cup {NoOne}, user : Users \cup {NoOne}]]
    BY <1>3, <1>6 DEF TypeOK, GoodAt
  <2>. QED
    BY <2>1, <2>2, <1>2, <1>5 DEF TypeOK
<1>9. call'[c] = d /\ pc'[c] = AfterUser(c)
  BY <1>6 DEF TypeOK
<1>10. GoodAt(call[c], pc[c])'
  BY <1>2, <1>3, <1>5, <1>7, <1>9 DEF GoodAt, Steps
<1>11. /\ CallsKnowTheirUser' /\ CallsSpendTheirCode'
  BY <1>2, <1>5, <1>6, <1>8, <1>10, OthersStayGood
<1>12. LetInAsKnown'
  BY <1>2, <1>5 DEF LetInAsKnown, TypeOK
<1>13. TokensAreOwned' /\ SessionsSpendTheirCode'
  BY <1>2 DEF TokensAreOwned, SessionsSpendTheirCode
<1>. QED
  BY <1>5, <1>8, <1>11, <1>12, <1>13

LEMMA LinkStep ==
  ASSUME IInv, NEW c \in Calls, LinkOAuthProvider(c)
  PROVE  IInv'
<1>. USE DEF IInv
<1>. DEFINE a == call[c].account
<1>1. /\ pc[c] = "link" /\ Linkable(a, call[c].user)
      /\ link' = [link EXCEPT ![a] = call[c].user]
      /\ pc' = [pc EXCEPT ![c] = "callback"] /\ call' = call
      /\ UNCHANGED <<address, status, issued, used, owner, revoked, expired,
                     held, access, from, letIn>>
  BY DEF LinkOAuthProvider, InsertLink, Goto, tokens, history
<1>2. GoodAt(call[c], "link")
  BY <1>1, CallsAreGood
<1>3. a \in Accounts /\ call[c].user \in Users
  BY <1>2 DEF GoodAt
<1>4. /\ link' \in [Accounts -> Users \cup {NoOne}] /\ link'[a] = call[c].user
      /\ \A b \in Accounts : link[b] # NoOne => link'[b] = link[b]
  BY <1>1, <1>3 DEF TypeOK, Linkable
<1>5. TypeOK'
  BY <1>1, <1>4 DEF TypeOK, Steps
<1>6. call' = [call EXCEPT ![c] = call[c]] /\ pc'[c] = "callback"
  BY <1>1 DEF TypeOK
<1>7. GoodAt(call[c], pc[c])'
  BY <1>1, <1>2, <1>4, <1>6 DEF GoodAt, Steps
<1>8. /\ CallsKnowTheirUser' /\ CallsSpendTheirCode'
  BY <1>1, <1>4, <1>5, <1>6, <1>7, OthersStayGood
<1>9. LetInAsKnown'
  BY <1>1, <1>4 DEF LetInAsKnown, TypeOK
<1>10. AddressesUnique' /\ TokensAreOwned' /\ SessionsSpendTheirCode'
  BY <1>1 DEF AddressesUnique, TokensAreOwned, SessionsSpendTheirCode
<1>. QED
  BY <1>5, <1>8, <1>9, <1>10

(* The end of a login: a code, tokens, or tokens that nobody is given.     *)
LEMMA LoginEndStep ==
  ASSUME IInv, NEW c \in Calls, Leave(c),
         \/ \E k \in Codes : GenerateOAuthCode(c, k)
         \/ \E s \in Sessions : GenerateTokens(c, s) \/ TokensForNobody(c, s)
  PROVE  IInv'
<1>. USE DEF IInv
<1>1. /\ pc' = [pc EXCEPT ![c] = "over"] /\ call' = [call EXCEPT ![c] = Nothing]
      /\ UNCHANGED <<address, status, link, used, revoked, expired>>
  BY DEF Leave, GenerateOAuthCode, GenerateTokens, TokensForNobody, usersVars
<1>2. GoodAt(call[c], pc[c]) /\ pc[c] \in {"callback", "issue"}
  BY CallsAreGood DEF GenerateOAuthCode, GenerateTokens, TokensForNobody
<1>. DEFINE u == call[c].user
<1>3. u \in Users
  BY <1>2 DEF GoodAt
<1>4. /\ issued' \in [Codes -> Addresses \cup Users \cup {NoOne}]
      /\ owner' \in [Sessions -> Users \cup {NoOne}]
      /\ held' \cup access' \subseteq Sessions
      /\ from' \in [Sessions -> Codes \cup {NoOne}]
      /\ \A s \in Sessions : owner[s] # NoOne => owner'[s] = owner[s]
      /\ TokensAreOwned'
  <2>1. CASE \E k \in Codes : GenerateOAuthCode(c, k)
    BY <2>1, <1>3 DEF GenerateOAuthCode, TypeOK, TokensAreOwned
  <2>2. CASE \E s \in Sessions : GenerateTokens(c, s)
    <3>1. PICK s \in Sessions : GenerateTokens(c, s)
      BY <2>2
    <3>2. call[c].code \in Codes \cup {NoOne}
      BY <1>2 DEF GoodAt
    <3>3. /\ owner' = [owner EXCEPT ![s] = u] /\ owner[s] = NoOne
          /\ held' = held \cup {s} /\ access' = access \cup {s}
          /\ from' = [from EXCEPT ![s] = call[c].code] /\ issued' = issued
      BY <3>1 DEF GenerateTokens
    <3>. QED
      BY <3>2, <3>3, <1>3 DEF TypeOK, TokensAreOwned
  <2>3. CASE \E s \in Sessions : TokensForNobody(c, s)
    BY <2>3, <1>3 DEF TokensForNobody, TypeOK, TokensAreOwned, history
  <2>. QED
    BY <2>1, <2>2, <2>3
<1>5. letIn' \subseteq Users \X (Addresses \cup Accounts) /\ LetInAsKnown'
  <2>1. CASE letIn' = letIn
    BY <2>1, <1>1 DEF LetInAsKnown, TypeOK
  <2>2. CASE letIn' = letIn \cup {<<u, call[c].account>>} /\ pc[c] = "callback"
    <3>1. call[c].account \in Accounts /\ link[call[c].account] = u
      BY <2>2, <1>2 DEF GoodAt
    <3>. QED
      BY <3>1, <2>2, <1>1, <1>3 DEF LetInAsKnown, TypeOK
  <2>3. CASE /\ letIn' = letIn \cup {<<u, call[c].email>>} /\ pc[c] = "issue"
             /\ call[c].email # NoOne
    <3>1. call[c].email \in Addresses /\ address[u] = call[c].email
      BY <2>3, <1>2 DEF GoodAt
    <3>. QED
      BY <3>1, <2>3, <1>1, <1>3 DEF LetInAsKnown, TypeOK
  <2>. QED
    BY <2>1, <2>2, <2>3 DEF GenerateOAuthCode, GenerateTokens, TokensForNobody,
       history
<1>6. TypeOK'
  <2>1. /\ pc' \in [Calls -> Steps]
        /\ call' \in [Calls -> [code : Codes \cup {NoOne},
              email : Addresses \cup {NoOne}, account : Accounts \cup {NoOne},
              user : Users \cup {NoOne}]]
    BY <1>1, NothingType DEF TypeOK, Steps
  <2>. QED
    BY <2>1, <1>1, <1>4, <1>5 DEF TypeOK
<1>7. call'[c] = Nothing /\ pc'[c] = "over"
  BY <1>1 DEF TypeOK
<1>8. GoodAt(call[c], pc[c])'
  BY <1>7, NothingType DEF GoodAt, Nothing, Steps
<1>9. /\ CallsKnowTheirUser' /\ CallsSpendTheirCode'
  BY <1>1, <1>4, <1>6, <1>8, OthersStayGood
<1>10. SessionsSpendTheirCode'
  <2>1. CASE from' = from
    BY <2>1, <1>1 DEF SessionsSpendTheirCode
  <2>2. CASE \E s \in Sessions : from' = [from EXCEPT ![s] = call[c].code]
    <3>1. call[c].code # NoOne => call[c].code \in used
      BY <1>2 DEF GoodAt
    <3>. QED
      BY <3>1, <2>2, <1>1 DEF SessionsSpendTheirCode, TypeOK
  <2>. QED
    BY <2>1, <2>2 DEF GenerateOAuthCode, GenerateTokens, TokensForNobody, history
<1>11. AddressesUnique'
  BY <1>1 DEF AddressesUnique
<1>. QED
  BY <1>4, <1>5, <1>6, <1>9, <1>10, <1>11

(* The statements that change the status of an account.                    *)
LEMMA AccountStep ==
  ASSUME IInv, NEW c \in Calls,
         SoftDelete(c) \/ RevokeAllForUser(c) \/ UpdateStatus(c)
  PROVE  IInv'
<1>. USE DEF IInv
<1>1. /\ UNCHANGED <<address, link, issued, used, owner, revoked, expired, held,
                     access, from, letIn>>
      /\ status' \in [Users -> Statuses]
  BY DEF SoftDelete, RevokeAllForUser, UpdateStatus, SetStatus, Statuses,
     tokens, history, usersVars, TypeOK
<1>2. GoodAt(call[c], pc[c])
  BY CallsAreGood
<1>3. PICK d, step :
        /\ pc' = [pc EXCEPT ![c] = step] /\ call' = [call EXCEPT ![c] = d]
        /\ GoodAt(d, step) /\ step \in {"revoke", "over"}
  <2>1. CASE SoftDelete(c)
    <3>1. /\ pc[c] = "delete" /\ pc' = [pc EXCEPT ![c] = "revoke"]
          /\ call' = [call EXCEPT ![c] = call[c]]
      BY <2>1 DEF SoftDelete, Goto, TypeOK
    <3>2. GoodAt(call[c], "revoke")
      BY <1>2, <3>1 DEF GoodAt, Steps
    <3>. QED
      BY <3>1, <3>2
  <2>2. CASE RevokeAllForUser(c) \/ UpdateStatus(c)
    <3>1. GoodAt(Nothing, "over")
      BY NothingType DEF GoodAt, Nothing, Steps
    <3>. QED
      BY <2>2, <3>1 DEF RevokeAllForUser, UpdateStatus, Leave
  <2>. QED
    BY <2>1, <2>2
<1>4. TypeOK'
  BY <1>1, <1>3 DEF TypeOK, GoodAt
<1>5. call'[c] = d /\ pc'[c] = step
  BY <1>3 DEF TypeOK
<1>6. GoodAt(call[c], pc[c])'
  BY <1>1, <1>3, <1>5 DEF GoodAt
<1>7. CallsKnowTheirUser' /\ CallsSpendTheirCode'
  BY <1>1, <1>3, <1>4, <1>6, OthersStayGood
<1>8. AddressesUnique' /\ LetInAsKnown' /\ TokensAreOwned' /\ SessionsSpendTheirCode'
  BY <1>1 DEF AddressesUnique, LetInAsKnown, TokensAreOwned, SessionsSpendTheirCode
<1>. QED
  BY <1>4, <1>7, <1>8

-----------------------------------------------------------------------------
(* The specification                                                       *)

LEMMA NextIInv ==
  ASSUME IInv, [AuthNext]_authVars
  PROVE  IInv'
<1>1. CASE \E c \in Calls : Login(c)
  <2>1. PICK c \in Calls : Login(c)
    BY <1>1
  <2>2. CASE \E k \in Codes : VerifyMagicLink(c, k) \/ VerifyToken(c, k)
    BY <2>2, ReadCodeStep
  <2>3. CASE \/ \E k \in Codes : GenerateOAuthCode(c, k)
             \/ \E s \in Sessions : GenerateTokens(c, s) \/ TokensForNobody(c, s)
    <3>1. Leave(c)
      BY <2>3 DEF GenerateOAuthCode, GenerateTokens, TokensForNobody
    <3>. QED
      BY <3>1, <2>3, LoginEndStep
  <2>4. CASE \E a \in Accounts : ValidateOAuthUser(c, a)
    BY <2>4, ValidateOAuthUserStep
  <2>5. CASE Refused(c)
    BY <2>5, LeaveStep DEF Refused
  <2>6. CASE MarkAsUsed(c) \/ FindUser(c) \/ CreateUser(c) \/ LinkOAuthProvider(c)
    BY <2>6, MarkAsUsedStep, FindUserStep, CreateUserStep, LinkStep
  <2>. QED
    BY <2>1, <2>2, <2>3, <2>4, <2>5, <2>6 DEF Login
<1>2. CASE \E c \in Calls : ManageAccount(c)
  BY <1>2, BeginAccountStep, AccountStep DEF ManageAccount
<1>3. CASE \E c \in Calls : Stop(c)
  BY <1>3, LeaveStep DEF Stop
<1>4. CASE \E k \in Codes, e \in Addresses : RequestMagicLink(k, e)
  BY <1>4, RequestStep
<1>5. CASE \E s \in Sessions : RefreshAccessToken(s) \/ Logout(s)
  BY <1>5, SessionStep
<1>6. CASE Expire
  BY <1>6, ExpireStep
<1>7. CASE \E u \in Users : Admin(u)
  BY <1>7, AdminStep
<1>8. CASE UNCHANGED authVars
  BY <1>8 DEF authVars, usersVars, tokens, calls, history, IInv, TypeOK,
     AddressesUnique, CallsKnowTheirUser, CallsSpendTheirCode, LetInAsKnown,
     TokensAreOwned,
     SessionsSpendTheirCode
<1>. QED
  BY <1>1, <1>2, <1>3, <1>4, <1>5, <1>6, <1>7, <1>8 DEF AuthNext

(* The inductive invariant holds, whatever number of calls overlap.        *)
THEOREM IInvHolds == AuthSpec => []IInv
<1>1. AuthInit => IInv
  BY InitIInv
<1>2. IInv /\ [AuthNext]_authVars => IInv'
  BY NextIInv
<1>. QED
  BY <1>1, <1>2, PTL DEF AuthSpec

(* Every variable of signing in holds a value of its type.                 *)
THEOREM TypesHold == AuthSpec => []TypeOK
<1>1. IInv => TypeOK
  BY DEF IInv
<1>. QED
  BY <1>1, IInvHolds, PTL

(* A code that has given a session is marked as used.                      *)
THEOREM CodesAreSpent == AuthSpec => []SessionsSpendTheirCode
<1>1. IInv => SessionsSpendTheirCode
  BY DEF IInv
<1>. QED
  BY <1>1, IInvHolds, PTL

(* An address, or an account at a provider, lets one user in for ever.     *)
THEOREM IdentityHolds == AuthSpec => []IdentityIsStable
<1>1. IInv => IdentityIsStable
  <2>1. ASSUME IInv, NEW p \in letIn, NEW q \in letIn, p[2] = q[2]
        PROVE  p[1] = q[1]
    <3>1. p \in Users \X (Addresses \cup Accounts) /\ q \in Users \X (Addresses \cup Accounts)
      BY <2>1 DEF IInv, TypeOK
    <3>2. CASE p[2] \in Addresses
      <4>1. address[p[1]] = p[2] /\ address[q[1]] = q[2]
        BY <3>2, <2>1 DEF IInv, LetInAsKnown
      <4>2. address[p[1]] # NoOne
        BY <4>1, <3>2
      <4>. QED
        BY <4>1, <4>2, <3>1, <2>1 DEF IInv, AddressesUnique
    <3>3. CASE p[2] \in Accounts
      BY <3>3, <2>1 DEF IInv, LetInAsKnown
    <3>. QED
      BY <3>1, <3>2, <3>3
  <2>. QED
    BY <2>1 DEF IdentityIsStable
<1>. QED
  BY <1>1, IInvHolds, PTL
=============================================================================
