# TLA+ model of common-api

`common-api` is a NestJS service that several apps share: user accounts and
sign-in, point wallets, orders paid with points, and background jobs. It runs
as a long-lived process or as a Lambda function, keeps its state in PostgreSQL
(READ COMMITTED, through TypeORM) and talks to SQS and EventBridge. This
directory holds TLA+ models of its transactional core, the TLC configurations
that check them on small instances, and TLAPS proofs of what matters most for
every instance. Paths below are relative to the repository; `src/src/` is
where its TypeScript lives.

## Inventory

| Component | State it keeps | Operations that change it | Interacts with | What is hard | What makes it correct |
|---|---|---|---|---|---|
| Point engine (`modules/point`) | `wallet_lots`, `wallet_ledger`, `idempotency_keys` | `creditWallet`, `debitWallet` | wallet API, orders, admin | concurrent debits on stale balances, lock order, idempotency by check-then-insert, rollback | points conserved, debits exact and oldest first, a key takes effect once, every call ends |
| Wallet API (`modules/wallet`) | none | credit, debit | point engine | retries by callers | that of the point engine |
| Orders (`modules/billing`, order part) | `orders` | `createOrder`, `refundOrder` | point engine, products, pool | two transactions per call, crash between them, concurrent and retried refunds | PAID only if debited, REFUNDED only if credited, credited once, no point taken but for an order that is there, under way or lost after the wallet's commit |
| Connection pool (`core/database`) | the connections lent | every transaction and query | all | calls that hold a connection and need another one | nothing leaks, calls do not stall |
| Jobs table (`modules/job`) | `jobs` | `createCallbackJob`, `runDueJobs`, `runDueDbJobs`, `retryJob`, `deadletterJob` | EventBridge schedules, admin, outside endpoints | overlapping runners, rollback of a batch whose calls were made, two kinds of rows in one table | one runner per job, retries bounded and really used, every job settles |
| Unified jobs over SQS (`modules/job`) | `jobs-main.fifo`, `jobs` | `createUnifiedJob`, `pollAndProcessSqs`, `processScheduledMessage` | SQS, jobs table | at-least-once delivery, dual write, visibility timeout, failing deletes and saves | no message lost, order in a group |
| Message executors | none | one call out | Lambda, HTTP endpoints | only the outcome matters | - |
| Source queue bridge (`multi-queue-polling.service.ts`) | crypto and ox queues | `pollQueue` | SQS, jobs table | forward, delete and save fail independently, pollers overlap, fresh deduplication ids | nothing leaves a queue unforwarded, a key makes one job for a group in a deduplication window, other duplicates only come of failures |
| Authentication (`modules/auth`) | `users`, `refresh_tokens`, `magic_link_tokens`, `oauth_providers` | magic links, OAuth login and linking, refresh, logout, account deletion | e-mail, OAuth providers | single use by check-then-act, login races, deletion in two steps | a code that gave a session is spent, an address or account is one user for ever |
| Users (`modules/user`), admin (`modules/admin`) | `users.status` | create, update, suspend, unsuspend, adjust wallet, retry or kill a job | point engine, jobs | check-then-act on the status | one user per address; nothing is promised of the status |
| Products (`modules/billing`, product part) | `products` | create, update, deactivate | orders | price read once | an order is paid at a price that was valid |
| Platform apps (`modules/platform`) | `apps` | create, update, rotate the secret | callbacks | a stored callback keeps the signature it was created with | callbacks verify |
| Guards, filters, configuration, mail, AWS clients, health | none | - | - | pure input and output | - |

`PROJECT.json` lists the components with their status, the hazards at the line
where they bite, and the source lines each definition stands for.

## Modules

| Module | Models | Built on |
|---|---|---|
| `WalletRequests` | what a wallet call carries, and what `hashRequest` tells apart | |
| `Wallet` | the abstract wallet: each call takes effect at one instant or not at all | `WalletRequests` |
| `PointService` | `creditWallet` and `debitWallet`, one action per SQL statement or early return | `WalletRequests` |
| `PointServiceProps` | its properties, its inductive invariant, the refinement to `Wallet` | `PointService`, INSTANCE `Wallet` |
| `SumTheorems` | what `SumFunctionOnSet` of the community modules does on finite sets, proved | `Functions` |
| `PointServiceProofs` | TLAPS proofs | `PointServiceProps`, `SumTheorems` |
| `OrderService`, `OrderServiceProps`, `OrderServiceProofs` | `createOrder` and `refundOrder`; the wallet underneath is the abstract one | INSTANCE `Wallet`, `SumTheorems` |
| `DbPool`, `DbPoolProps`, `DbPoolProofs` | the connections that wallet calls, orders and refunds hold and wait for | |
| `JobTable`, `JobTableProps`, `JobTableProofs` | the jobs table, its runners and the admin operations | |
| `JobQueue`, `JobQueueProps`, `JobQueueProofs` | creation in three modes, SQS, pollers, scheduled messages | EXTENDS `JobTable` |
| `SourceQueue`, `SourceQueueProps`, `SourceQueueProofs` | the bridge from a source queue to the main queue | |
| `Users` | users and linked accounts with their unique indexes, and `UserService` | |
| `AuthService`, `AuthServiceProps`, `AuthServiceProofs` | signing in and out, one action per SQL statement, and what deletes or suspends an account | EXTENDS `Users` |
| `MCPoint`, `MCJobTable`, `MCJobQueue`, `MCDbPool`, `MCSourceQueue`, `MCAuth` | constants and symmetry for TLC | |

Definitions named `...Without...`, `...Unchecked`, `...Forgotten` and the like
carry a comment `mutant:`. They are plausible faults of the definition that
follows them; substituting one must break the property it is listed with in
`PROJECT.json`. No specification uses them.

### PointService

State: `pc` and the local variables of each call (`balance`, `todo`, `held`,
`seen`, `left`, `taken` are `currentBalance`, the rows of the SELECT still to
be locked and already locked, `remaining_amount` as read, `remaining`, and the
ledger entries not yet committed) and the database (`lots`, `remaining`,
`spent`, `createdAt`, `lotLock`, `keyRow`, `keyLock`, `snapshot`). A lot is
named by the credit that inserts it.

Actions, in the order of the code: `Call`; `RejectAmount`; `ReplayCached`,
`KeyReused` (`checkIdempotency`, read on the pool before the transaction);
`StartTransaction`; `GetUserBalance` (on another connection, without a lock);
`CreateLot`, or `InsufficientBalance`, `SelectLots`, `LockLot`, `ConsumeLot`,
`FullyDebited`, `NotFullyDebited`; `SaveIdempotency` or `DuplicateKey`;
`Commit`; and `Crash` anywhere. Writes are visible to others from `Commit` on.
`FOR UPDATE` under READ COMMITTED is modelled as PostgreSQL does it: the set of
rows is fixed by the statement's snapshot, the locks are then taken one by one
in the order of `created_at`, and each row is read again when its lock is
granted, and dropped if nothing remains of it. `created_at` is the start of
the transaction and not its end, so a lot that commits late may be older than
one already consumed; `FifoConsumption` is therefore stated over the lots a
debit has locked.

Left out: texts, the row contents of a replayed answer (only that it is one),
and the expiry date, which is stored and which no debit reads
(see the divergences below).

### OrderService

A call is `begun` (transaction open, order inserted or refund checked), then
`wallet` (the await on the point service), then `done`, `failed` (refused, or
rolled back and told so), or `unsure` (the caller got no answer, or an error
after the commit). The wallet commits by itself, on its own connection.
`RollbackOrder` is the `catch` of both handlers: it follows an error of the
wallet, and also a failure of `updateStatus` or of the order's own COMMIT when
the wallet has committed already; `Crash` may fall there too. The calls for
which the wallet had committed when the order's transaction ended without a
commit are kept in the history variable `lost`. What the wallet took of a user
is then one of three things (`Taken`): the price of an order others can see
(`Charged`), of one whose call still waits to commit (`UnderWay`), or stranded,
for an order that was rolled back (`Stranded`). Since `PENDING` is overwritten
before the only commit, others never see it; `orders` holds the committed
status. `WalletKey` derives the wallet's key from the order's id only if the
caller sent a key.

### DbPool

`Plan(kind)` is the number of connections a call holds from one await to the
next: 1 for the transaction, 1 more for `getUserBalance`, which goes through
the pool and not through the transaction's manager, and for an order 1 more
around all that. `TimeOut` is `connectionTimeoutMillis`: it strikes only a call
that waits while the pool is empty, and its `finally` blocks give everything
back.

### JobTable and JobQueue

A row is `PENDING` or `RETRYING` (active), or settled. `SelectDue` is the
`SELECT ... FOR UPDATE NOWAIT` with its limit; `SelectFails` the error when it
meets a locked row; `Execute` one turn of the loop (the call out, whose effect
cannot be undone, counted in `attempts`); `CommitBatch` the end of the
transaction; `Crash` its loss. Both runners take from all rows: a legacy runner
throws on a unified row and skips it, a unified runner fails to convert a
callback row and counts a failure. Delays are reduced to `due`. `attempts` and
`first` are history variables.

`JobQueue` adds what goes through SQS. The queue itself is external: messages
of a group in order, none of a group while one is in flight, visibility timeout
at any time, receipts void after it. `queue` is the set of messages it holds
and `place` the order in which they were sent; `work` is what is left of a
poller's batch, from which it takes the first message of a group (`First`). For
each it does `Process`, then `DeleteMessage` or `DeleteFails`, then
`SaveFailed` or `SaveFailedFails`; `current` and `stage` say where it is.
`SendInTransaction`, `CommitBoth` and `LoseTransaction` are mode BOTH. `origin`
tells which message a row was made from; it, `tried` and `succeeded` are
history. A message comes from `createUnifiedJob`, which sets its retry count to
0, from a bridge (`ForwardFromBridge`) or from EventBridge (`RunScheduled`),
which keep the `metadata.retryCount` it brings (`Brought`, `RetryCount`); the
row of a call that failed is inserted with that count. Actions of `JobTable`
(inserts, runners, crashes, admin) are used as they are, so that `JobQueue` is
to implement `JobTable`: that is `TableSpec`. Bounds: `Jobs` bounds the rows
that can be inserted, `Fault` counts lost transactions and crashes of pollers,
`Disrupted` crashes of runners and admin operations.

### SourceQueue

The two queues are external, as in `JobQueue`; the source queue gives out
messages of a group in order, and the main queue drops a deduplication id that
it remembers (`window`). It remembers one for each message group apart, since
`terraform/sqs.tf:8` sets the deduplication scope to the group: messages are
one job (`Job`) when they bring one key and go to one group (`Target`: the
`messageGroupId` a message brings, or else the name of its source queue). A
poller takes its batch one message after the other:
`ForwardToMainQueue` or `ForwardFails`, then `DeleteMessage` or `DeleteFails`,
then `SaveFailedMessage` when one of them threw. A call that throws may have
taken effect all the same, an answer of `ReceiveMessages` may be lost
(`Crash`), and a receipt is void after `VisibilityTimeout`. `BodyOf` is what
`parseAndValidateMessage`, `transformMessage` and `resolveBody` make of a body:
the body of a malformed message becomes `{}`, since the substitute's `body: {}`
goes before its `rawBody`. `IdempotencyKey` is the key a message brings; one
without gets a new one each time it is transformed. `tried`, `copies`, `ended`
and `troubled` are history variables. What the main queue's messages then do
is `JobQueue`; the rows saved are a set here, since each is a new job with a
fresh id. Bounds: `MaxCopies` bounds how often one job is accepted,
`MaxWindows` the deduplication intervals that end.

### Users and AuthService

No handler of `AuthService` opens a transaction, so each statement is a step:
`VerifyMagicLink` or `VerifyToken` (the SELECT of an unused code), `MarkAsUsed`
(an UPDATE by id), `FindUser`, `CreateUser`, `GenerateTokens`; for OAuth
`ValidateOAuthUser` (the SELECT of the link, and of the user it leads to),
`FindUser`, `CreateUser`, `LinkOAuthProvider`, `GenerateOAuthCode`. `Refused`
is an insert the unique index refuses, `Stop` an error or a lost process
between two statements. `DeleteAccount`, `SoftDelete`, `RevokeAllForUser`, and
`SuspendUser` or `UnsuspendUser` with `UpdateStatus`, are the calls that
change an account; `Admin` stands for `UserService`. `RequestMagicLink`,
`RefreshAccessToken`, `Logout` are one step, since they write once or not at
all. `Expire` is the clock. `from` and `letIn` are history variables: the code
that gave a session, and who was let in with which address or account.

A row of users is never deleted and keeps its address, so `findById` always
finds what was found once. Every lookup names the app, so one app is modelled.
`Reports` is what a provider may report as the address of an account (a Kakao
account without one gets an address made of its id), and it may change from one
login to the next. `Blank` is the empty address that `createOAuthCode` stores:
`v1/auth/magic-link/verify` accepts an OAuth code too, and signs in, or
creates, the user of that address.

The two queries with `revokedAt: null` are modelled by what TypeORM 0.3.28,
which `package-lock.json:12405` pins, makes of them. The `find` of
`findValidToken` leaves the condition out, so that a revoked token refreshes as
any other (`RefreshAccessToken`). The `update` of `revokeAllForUser` becomes
`revoked_at = NULL`, which is true of no row, so that a deletion revokes
nothing (`RevokeAllForUser` changes no token). `Logout` revokes by the token
itself. No property is stated of sessions after a logout or a deletion: as the
code is, there is none to keep. Roles,
profiles, texts of e-mails and `verifyMagicLinkByCode`, which has no route, are
left out.

## Runs

All runs set `CHECK_DEADLOCK FALSE`: calls are finite in number and the model
stops when all have ended, or, for jobs, when all rows have settled.

| Run | Instance | Shows |
|---|---|---|
| `point_safety` | 3 calls by any of the arguments, 2 lots of 1 or 2 points, 1 user, 1 key | all safety of the point engine, IInv itself, and the refinement of `Wallet` |
| `point_live` | 2 calls, 2 lots, 2 users, amounts 0 and 1, 1 key | `Wallet` with its fairness: each call is answered |
| `orders` | 3 order or refund calls, totals 0, 1, 2, a key on each | both transactions consistent; every point taken is charged, under way or stranded |
| `pool` | 2 calls of either kind, pools of 2 to 5 | connections accounted for, stalls and timeouts; no timeout parts a wallet's commit from its order's |
| `jobs` | 2 rows, 2 unified runners and 1 legacy, 2 retries, limit 2, 2 disruptions | runners exclude each other, retries exact, every job settles |
| `queue_safety` | 2 messages of a group with retry counts 0 or 1, 2 pollers, 1 row, 1 runner, 1 disruption, 1 fault | nothing lost, first tries in order, QInv itself, every step one of `JobTable` or none of the table |
| `bridge` | 3 messages of 2 groups, 2 with one key and target and 1 malformed with another, 2 pollers, 2 copies, 1 window | nothing leaves unforwarded, a key makes one job for a group in a window, order of first tries |
| `auth` | 3 calls, 2 users, 2 addresses and the empty one, 1 account that may report either, 2 codes, 1 session | identities, spent codes |
| `order_refund_twice`, `order_stranded`, `jobs_callback_untried`, `auth_code_twice` | small | the first four divergences below |

Why these bounds are enough. The hazards of the wallet are between two calls
that share lots or a key; the third call lets one of them be a credit that adds
a lot, or a retry that finds a key committed. Two lots and two amounts make a
debit that spans lots, one that leaves part of a lot, and one that finds a lot
emptied while it waited. An order, its refund, and a second refund are three
calls. A pool of 5 is the first that is ample for two calls. Two rows of either
kind, which need not be due together, make batches of one row and of both, so
that a runner may meet the other's lock with part of its batch; `MaxRetries` of
2 (10 in the code) gives a retry that is not the last one, and `FirstCounts` of
3 a message that came with more retries than allowed. With two messages of a
group an order can be broken, with two pollers a receipt can be void; the third
message of `bridge` lets the malformed one wait behind one with a key, and the
second of that key be of another source group. That messages with one key and
two targets are two jobs is checked by no run, since both cases together take a
fourth message, which is too many for TLC; `KeysMakeOneJob` is proved for any
keys and targets. `MaxCopies` of 2 is one duplicate, and one window that ends
makes a second copy of a key legal and a third not. For `auth`, two first
logins race for one address or account while a third call deletes, suspends, or
uses the account with the other address; one session is enough for it to be
given, logged out and refreshed, and `auth_code_twice` has two. The seed
credits and the calls, the rows, the runners of a kind, the messages and the
pollers are interchangeable: symmetry is used for safety only, in the runs
without liveness; `orders`, `jobs`, `pool` and `point_live` have none. Amounts
in the database are `bigint` and computed with `BigInt`, so no width is
modelled.

Fairness. `WF` of each call's own steps: the event loop goes on with a promise
that is resolved, and PostgreSQL grants a lock that stays free. Nothing is
assumed about callers, crashes, refusals or failures. For jobs: the clock goes
on, EventBridge keeps starting `runDueDbJobs`, and starts that find their rows
free come again and again (`SF` of one unified runner or another selecting); a
started runner ends, as each call out has a timeout. Nothing is assumed of the
legacy runner: it may run or not. A callback row therefore settles at the
latest when unified runners have counted its retries up without a call, which
is a divergence of its own (below). `JobQueue` states no fairness and no
liveness: a queue whose messages always fail is redelivered until SQS drops it.

## Divergences between documents and code

The first four are runs whose property TLC violates; the text of each claim is
quoted in `PROJECT.json`.

1. Financial calls do not require an idempotency key, and without one two
   refunds both credit (`README.md:109`; run `order_refund_twice`).
2. The debit of an order is not in the order's transaction, although
   `order.service.ts:135` says so in a comment (also `:17`, `:68`,
   `docs/DATABASE_SCHEMA.md:274`, `docs/architecture.md:60`): points may be
   taken for an order that is rolled back (run `order_stranded`). The theorem
   `OneTransactionUnlessLost` says that this is the only way.
3. Callback jobs run into FAILED without a call when the runner of unified jobs
   gets to them first (`README.md:123`; run `jobs_callback_untried`).
4. A code can give two sessions: it is checked and marked as used in two
   statements (`docs/FUNCTION_REGISTRY.md:168`; run `auth_code_twice`).

In the next three a passing run shows that the code keeps something else than
a document says.

5. Points are consumed in the order of `created_at`, as
   `docs/DATABASE_SCHEMA.md:187` says, and not by earliest expiry, as
   `README.md:119` and `:13` say (`FifoConsumption` in `point_safety`;
   `wallet-lot.repository.ts:54`).
6. FAILED is the status of a job whose retries are used up, and DEAD is written
   by an administrator only (`RetriesUsedUp` in `jobs`; `job.service.ts:487`,
   `:313`). The comments of `job-status.enum.ts:15` and `:18`, and
   `docs/JOB_API_INTEGRATION_GUIDE.md:1744` (also `:1467`, `:1488`, `:1875`),
   have the two the other way round.
7. A key makes one job for one message group in 5 minutes (`KeyedOnce` in
   `bridge`; `terraform/sqs.tf:8`), while
   `docs/JOB_API_INTEGRATION_GUIDE.md:1747` promises "No duplicate jobs".

The others were met while reading, and are told by a single step of the model
or by the code alone:

- `balance_snapshot` is computed from a balance read before any lock, so it is
  not the balance after the transaction when another call commits in between
  (`wallet-ledger.entity.ts:87`, `point.service.ts:206`); mode BOTH sends
  inside a database transaction and is not transactional
  (`docs/ARCHITECTURE_DECISIONS.md:224`, `job.service.ts:361`).
- The jobs table is read with NOWAIT and not with SKIP LOCKED
  (`README.md:125`); the hash of a request leaves out the operation; the same
  key on two `createOrder` calls gives two orders, since the wallet's key is
  derived from the new order's id (`README.md:111`).
- The bridge saves a message whose delete failed after it was forwarded to the
  table as well, so that it runs twice although it has a key; it forwards the
  body `{}` for a malformed message although it means to keep the raw one
  (`multi-queue-polling.service.ts:227`, "with raw body"); a row needs an
  appId, so a message without one that cannot be forwarded is not saved.
- A revoked refresh token refreshes all the same, where `docs/apis.md:217` has
  a 401, and `revokeAllForUser` revokes none, where
  `docs/FUNCTION_REGISTRY.md:158` has "Revoke all user's tokens"
  (`refresh-token.repository.ts:52`, `:73`, under the pinned TypeORM).
- No step of signing in, refreshing or checking an access token reads the
  user's status, so that suspended and deleted users go on; suspending writes
  over a deletion that happens in between; `redirect_uri` of an OAuth code is
  compared only if the caller sends one (`auth.service.ts:677` says
  "Required"); the OAuth callback without one generates a session and answers
  401; a stop right after `markAsUsed` costs the user the code; rows of codes
  are never deleted, as `deleteExpired` has no caller.

And one consequence that no document speaks of: with `PLATFORM=lambda` the pool
has two connections, and no order can be paid or refunded (`OrdersNeedThree`,
proved).

## Proofs

`PointServiceProofs`, `OrderServiceProofs`, `JobTableProofs`, `JobQueueProofs`,
`DbPoolProofs`, `SourceQueueProofs`, `AuthServiceProofs` and the lemmas of
`SumTheorems` are checked by TLAPS to the last leaf, from the assumptions named
in the modules (`WalletAssumption`, `NoOneAssumption`, `OrderAssumption`,
`JobAssumption`, `PoolAssumption`, `BridgeAssumption`, `UsersAssumption`,
`AuthAssumption`) and the theorems on finite sets of the library. Each has an
inductive invariant `IInv`, one lemma per action that it is kept, and the
theorems that follow from it; but for DbPool's, which is small, `IInv` is also
an invariant of a run.

SumTheorems. Balances and debits are sums over sets, which the community
modules compute by a recursive function over subsets. That such a function
exists and is unique on a finite set is shown once (`SumsExist`, `SumsAgree`),
with a smallest counterexample in place of an induction, and from it what the
other proofs cite: a sum is that of its parts (`SumAdd`, `SumRemove`,
`SumUnion`), of equal terms (`SumEqual`), of two functions (`SumPlus`), of the
terms that are not 0 (`SumOnSubset`), and of terms renamed one to one
(`SumRename`).

PointService. `IInv` has three parts, each proved from those before it.

- `LotsInv`. `LotsBalance` is not inductive: `Commit` writes `seen - taken`,
  which is right only if what was read is still what is there. Added are that
  what was read under a lock stays true while the lock is held
  (`ReadsStayTrue`, from `HeldSinceSelect` and `LocksOfOpenCalls`), that only
  committed lots are locked (`LotsCommitted`), that no more is taken than was
  seen (`TakenWithinSeen`), that lots not committed have no entries
  (`NothingSpentOfNewLots`), that older lots are used up first (`OlderUsedUp`),
  and that a key row and a committed call go together (`KeyOwners`).
- `SumsInv`. `DebitsExact` needs that what a debit has taken and has left to
  take is its amount (`TakenSoFar`), that it takes from lots of its own user
  only (`OwnLots`), and that no transaction is opened for an amount of 0
  (`OpenIsPositive`). `LotsMatchLedger` says that a user's lots hold what was
  credited to the user and not debited; a commit changes both sides by the
  amount of the call (`CommitBalance`).
- `SnapshotsInv`. The `balance_snapshot` a debit writes is what it read less
  what it has taken (`SnapshotsTell`), so that it is not negative although the
  balance it goes by may be stale.

From it, for any set of calls, users, lots, amounts and keys: `TypeCorrect`,
`PointsConserved`, `DebitsAreExact`, `BalanceIsTheLedger`, `KeyOnce`,
`OldestFirst`, `LotsShrink`, `NoLockLeaks`.

`WalletImplemented` is the refinement of `Wallet`, without its fairness. The
abstract balance is the sum over the lots; a call is applied when it commits,
answered by `ReplayCached` or by a failure, and every other step of it changes
nothing the abstract wallet has. A debit's `Commit` must be one of
`ApplyDebit`: the balance covers it at that instant, although it was checked
long before, since the lots it holds locked contain the amount. `KeyUnused`
comes from `KeyOwners`. `WalletArgs` and `WalletSum` say that the operators the
two modules have each a copy of are the same.

OrderService, over the abstract wallet. `IInv` has two parts.

- `OrdersInv`. `RefundedMeansCredited` and `RefundOnce` are not inductive: a
  refund may succeed by the replay of another one's credit. Added are that a
  wallet call carries what its request says and is made once
  (`WalletCalledOnce`), that a refund asks for what its order was about
  (`RequestsMatchOrders`), that orders are visible from their commit on
  (`OrdersOfCommitted`), that a call which ended without its order's commit has
  moved points only if it is in `lost`, and then has no visible order
  (`LostAfterWallet`), and that a wallet key takes effect once and a
  replay has the key of an applied call (`WalletKeysOnce`). Keys derived from
  order ids then tell which call was applied (`KeysTell`, `SuccessIsApplied`).
- `WalletAddsUp`: the wallet's balances are what was credited less what was
  debited.

`NoPointsMade` compares two sums over different sets. The debits of a user are
the orders charged, under way or stranded, and the orders credited back
(`DebitsAre`); the credits are
deposits and refunds (`CreditsAre`). A refund that took effect is of an order
that was debited the same total (`RefundIsOfDebit`), and with keys there is one
for each order (`OneRefund`): the two sums that remain are renamed into each
other (`RefundsBalance`). It and `RefundedOnce` assume that callers always send
a key; the run `order_refund_twice` shows what happens when they do not.
`NothingTaken` holds without keys too: then refunds may give back more than was
charged, never less (`RefundsCover`). `OneTransactionUnlessLost` is what remains
of the documents' single transaction: while no order's transaction has failed
after the wallet's commit, whoever is told of an end, and whose points were
taken, has an order.

`WalletUsed` says that every step of OrderService, a crash included, is a step
of `Wallet` or leaves it alone. It meets `WalletImplemented` from the other
side: what is proved of orders rests on nothing of the wallet that PointService
does not keep.

JobTable. `RetriesUsedUp` needs to know of calls that were made and whose batch
has not committed: `RetriesWereMade` says that the retries counted in a row,
and the one its runner is about to count, were made. `LockedIsActive`,
`OncePerBatch` and `IdleHasNothing` tie the locks, the batches and the status
together; from them also `SettledJobsStayPut`.

DbPool. `IInv` is `TypeOK`, `ConnectionsAccounted`, that an idle call is at the
start of its plan, and that on a pool of two no order gets past its second
connection. `PlanShape` says what the two plans have in common (they start and
end with nothing and move by one). `AmplePoolNeverStalls` sums the connections
held by the calls: two each at most while they wait. `TimeoutsAreClean` is an
induction of its own: a call fails only from a place of its plan where it wants
one more connection than it holds, and an order has none of those from the
wallet's commit to its own.

JobQueue. `NoMessageLost` needs `PollersKnow`: what a poller is about to delete
has succeeded. `FirstTriesInOrder` needs `NothingPassedOver`: whatever comes
before a message of a batch was tried, or is in the same batch, also when the
visibility timeout has given the same messages to another poller.
`RowsTellOfCalls` is a part of `QInv` as well: a row of a message that went
through SQS alone tells of a call that was made, and counts the retries the
message brought and no more; `OriginsCreated` ties a row's count to its
message. `ImplementsTable` shows that
every step is a step of `JobTable` or leaves the table alone, from which
`TableKeepsItsWord` carries the invariants of the table over to rows that come
from the queue. The proofs hold for any `MaxFaults` and any number of rows.

SourceQueue. `OnceUnlessTroubled` needs to know whose a message is that nothing
has failed: `UntroubledIsHeld` says that the one poller that has it in its
batch, or is about to delete it, holds its receipt, so that no other can
receive it. `NothingLost` needs `PollersKnow` (what is about to be deleted was
forwarded); with keys the forwarding may have been that of another message,
which `RememberedIsForwarded` keeps. `KeyedOnce` follows from `WindowsCounted`,
both for each key and group (`Ids`). `FirstTriesInOrder` needs
`NothingPassedOver`: whatever comes before a message of a batch was tried, or
is in the same batch. The proofs do not use the bounds, and hold for any
groups, keys and number of pollers.

AuthService. `IdentityIsStable` follows from `LetInAsKnown` (whoever was let in
by an address has it, by an account is linked to it) and the unique indexes
(`AddressesUnique`); `CallsKnowTheirUser` says what each statement still has to
go by of the statements before it. It is here that the unique indexes and the
order find, link, answer matter: without the link an account that reports
another address is let in as another user. `SessionsSpendTheirCode` needs
`CallsSpendTheirCode`.

Only model-checked: liveness (`WalletAnswers`, `CallsEnd` of orders and of the
pool, `JobsSettle`), which needs `ENABLED` and fairness. Every invariant and
action property that a passing run checks is stated by a theorem. The
conclusions that assume keys (`RefundedOnce`, `NoPointsMade`) say so in their
hypotheses, and `OneTransactionUnlessLost` has its own; no other theorem has
any.

## Not modelled

- Creation, update and deactivation of products, and of platform apps with
  their secrets: each is one statement of an administrator on one row. An order
  reads its product once (a total of `Totals`); a callback is signed when its
  job is created and sent to the URL the app has later, and what a receiver
  makes of an old signature is not part of the code.
- The order in which due rows are selected, so that the starvation of callback
  rows by 100 unified ones is out of reach of `JobTable`.
- The retention periods of SQS and of idempotency keys, e-mail, the transport
  of the executors, role checks, tenants, HTTP, texts, logging, configuration;
  queries that change nothing.
- Liveness of the queues and of signing in: a queue whose messages always fail
  is redelivered until SQS drops it, and a login that stops is the user's to
  start again. No fairness is stated there.

## Plan

Done: wallet, orders, pool, jobs table, queue, bridge, users and signing in, and
proofs of all of them.

The refinement of `Wallet` is proved and orders are tied to it. What is left is
a bound from above for the calls made for a job (its counted retries and the
batches that were rolled back; `attempts` stops at `MaxRetries` now), and the
same for the rows that redeliveries of one message add. New models are not
planned: the components left out have no step that another can disturb.
