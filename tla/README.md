# Minefolio in TLA+

Minefolio is a personal asset manager: a C backend (`src/backend`, on the
csilk HTTP framework with SQLite or PostgreSQL), a Vue frontend with an offline
store (`src/frontend`) and an AI assistant inside the backend. This directory
holds formal models of the parts where correctness depends on the order of
steps, on failure in the middle of a request, or on several records agreeing,
together with what TLC checks on small instances and what TLAPS proves for
every instance. `B/` below stands for `src/backend/src/`, `F/` for
`src/frontend/src/`.

## 1. The system

| Component | State it keeps | Operations | Module |
|---|---|---|---|
| Ledger engine, cash side: `B/core/ledger/ledger_engine.c`, `B/common/balance.c`, `tx_types.c`, `ledger_utils.c` | `assets.current_value`, `asset_balance_logs` | apply and reverse a transaction, an expense, a transfer; rebuild an account or all | `Ledger` |
| Ledger engine, positions: same files, `transaction_lot_repo_impl.c`, `core/financial/price.c` | `assets.quantity, cost_basis, net_value, current_value`, `transaction_lots` | buy, sell (average cost or FIFO), reverse, rebuild, quote | `Positions` |
| Use cases on money: `B/application/transaction`, `transfer`, `daily_expense`, `cashflow` | `transactions`, `transfers`, `daily_expenses` | create, update, delete; confirm an income | `Ledger` |
| Scopes on the one connection: `B/common/db.h`, `B/main.c` | the connection's transaction and savepoints | begin, commit or release, roll back | `SharedConnection`, `Ledger` |
| Exchange rates: `B/services/market/exchange_rate_service.c` | cached rates | convert, refresh | `Ledger` |
| Dollar-cost averaging: `B/application/dca/usecases.c` | plans, executions | generate, confirm, skip | `Dca` |
| Market scheduler: `B/services/market/market_scheduler.c` | thread, mutex, settings | rounds of jobs, reconfigure, shut down | `MarketScheduler` |
| AI runtime: `B/services/ai/runtime/`, `tools/dispatcher.c`, `policy/policy.c` | budgets, the conversation, seen calls | turns, tool calls serial and parallel, verdict | `AiLoop` |
| AI confirmation: `B/services/ai/policy/confirmation.c` | ring of consumed nonces, `ai_consumed_nonces` | issue, verify and consume | `Confirmation` |
| AI summaries: `B/services/ai/memory/summary.c` | queue, in-flight ring, staged results, two threads | enqueue, summarise, flush, shut down | `SummaryPool` |
| AI workflows: `B/services/ai/workflow/executor.c` | results of the steps | run, retry, compensate | `Workflow` |
| AI settings: `B/services/ai_service.c`, `B/application/ai/usecases.c`, `B/common/ai_config.c` | row, file, counted snapshots | acquire, release, save, reload | `AiSettings` |
| AI chat: `F/stores/chat.ts` with `B/services/ai_service.c`, `ai_session_repo_impl.c` | messages shown; messages stored | send, edit, regenerate, stop, select, page, delete | `Chat` |
| MCP clients and their pool: `B/services/ai/tools/mcp/` | child processes, table, pipes | acquire, call, release, evict | `McpPool`, `McpClient` |
| Authentication: `B/application/auth`, `B/middlewares/jwt_middleware.c` | token versions and their cache | log in, change password, authenticate | `Sessions` |
| Rate limit: `B/middlewares/rate_limit.c` | ring of requests | admit | `RateLimit` |
| Ledger membership: `B/application/ledger/usecases.c`, `ledger_repo_impl.c` | ledgers, members, roles | create, invite, join, change role, leave, delete | `Membership` |
| Decimals: `B/core/financial/decimal.c` | - | sum, product, quotient, rounding, comparison | `Decimal` |
| Offline store: `F/stores/sync.ts`, `F/utils/offline-http.ts`, `F/db/local.ts` | local rows, queued changes | write, push, pull, rename ids | `OfflineSync` |
| Reports, import and export, categories, tags, files, controllers, views | - | formatting, aggregation, plain row edits | - |

How they interact: controllers and AI tools call the use cases; a use case opens
a transaction scope and calls the ledger engine, which writes rows, balances and
audit logs. The market scheduler generates the executions of plans, whose
confirmation is a transaction again. A chat request runs the loop, the loop its
tools (through policy and confirmation, some of them over an MCP client of the
pool), and a long conversation a summary task. Saving the AI settings shuts
down the summary threads, the MCP pool and the installed configuration while
requests use them.

**Transactions and scopes.** The server's two workers share one connection, and
a scope belongs to the connection: a second `db_tx_scope_begin` inside an open
scope is a savepoint in the first one's transaction (`B/common/db.h:92`), and
whoever commits or rolls back takes everybody's statements along
(`docs/codebase-analysis-2026-11-04.md:153`). Two modules share this subject.
`Ledger` takes a scope apart statement by statement and lets it fail at each, for
requests that come in any order but do not meet on the connection; it records the
meeting (`mixed`) and stops there. `SharedConnection` has the requests that do
meet: savepoints, and a posting in its four statements. The scope functions
themselves are in the external csilk library. Other modules, which use a scope as
a whole, have it as one action; `Confirmation` has another thread's scope around
it, which may take its row back.

## 2. The modules

    AuditedAccounts      what the cash ledger promises from outside
         ^ refines
    Ledger               cash, liabilities, rows, use cases, scopes
      ^
    LedgerFacts          what balances and rows owe each other
      ^                  <- LedgerProofs                   (TLAPS)
    MCLedger --- LedgerForms      forms and requests of the instances
      ^  ^
      |  MCEngine --- Decimal; it also extends Chat, Positions, PositionForms,
      |    SharedConnection
    MCSuite, which also extends Confirmation, Dca, Sessions, Membership,
      AiSettings, AiLoop, McpPool, McpClient, Workflow, OfflineSync, RateLimit
    Positions, PositionForms <- MCPositions

    SummaryPool, MarketScheduler <- MCLiveness --- AiLoop

    Chat <- MCChat

    Sums <- SumsProofs (TLAPS); LedgerFacts and Positions extend the one,
      LedgerProofs and InvestmentProofs the other

    SummaryPool                       <- SummaryProofs     (TLAPS)
    Confirmation, Sessions, Membership, RateLimit <- AccessProofs (TLAPS)
    AiLoop, AiSettings, Workflow      <- AssistantProofs   (TLAPS)
    Dca, Positions                    <- InvestmentProofs  (TLAPS)
    McpPool, McpClient                <- McpProofs         (TLAPS)
    OfflineSync, Chat                 <- SyncProofs        (TLAPS)

(`A <- B`: B extends A; `---`: instantiates.) Every module begins with a comment
that says what it leaves out; `PROJECT.json` maps every definition to its lines.

### Ledger, LedgerFacts, AuditedAccounts

The tables are one record (`cur` = `current_value`, `log` =
`asset_balance_logs`, `rows` = `transactions`, `xfers` = `transfers`, `exps` =
`daily_expenses`, and the next ids). `db` is the committed copy, `work` the copy
the open scope sees. A use case is `Open` (the `db_tx_scope_begin`), then one
action per group of statements, then `Commit`. `Rollback` is enabled at every
point of an open scope: each statement that the code checks may fail there. What
the code does not check is in `Lapse`: fee rows that cannot be read or deleted
(`FeesUnread`, `FeesKept`) or inserted (`FeeRowLost`), the other half of a transfer
that cannot be looked up (`TwinUnread`) or deleted (`ErasedInPart`), the UPDATE of a
rebuild (`StoreLost`). The request then goes on and commits, and `lapsed` remembers
it. `Meet` is a statement of one worker inside the scope of another (`Overlap`), or a
COMMIT whose failure nobody sees (`LeftOpen`). `scope.pc` names the next statement:

| Use case | Statements |
|---|---|
| `tx_usecase_create` | `row`, `fee`, `target`, `linked`, `stamp` |
| `tx_usecase_update` | `ReadTx` before the scope; `revfee` per fee child, `revtarget`, `revlinked`, then as create |
| `tx_usecase_delete` | `revfee`, `revtarget`, `revlinked`, `erase` |
| `transfer_usecase_create` | `pair`, `send`, `receive` |
| `cashflow_usecase_confirm_income` | `row`, `target` |
| `daily_expense_usecase_*` | `ReadBill` before the scope; `unpay`, `bill`, `pay` |
| `ledger_rebuild_account`, `_portfolio` | `rebuild`, `replay` per log row |

What a worker read before its scope is `seen`; everybody else may commit
between that read and the scope. The exchange rate may change at any moment
(`SetRate`). Amounts are integers and `Convert` rounds half up. The balance of
an investment account is not in this module: its postings come from the
position (`Post` leaves it alone).

`LedgerFacts` computes from the surviving rows and bills what every account
should hold, and states the invariants that compare the two. `AuditedAccounts`
is the abstract specification: accounts with a balance and a log, and one step,
*settle*, that extends logs and moves balances accordingly. `ImplementsAudit`
says that `Ledger`, seen through the committed balances and logs, is such a
system; a rollback, a rate change or a rebuild must then be a stutter.

### SharedConnection

`stack` is the transaction of the connection and the savepoints in it, with the
tables as they were at each (`before`) and whether somebody else has written since
(`shared`). A use case (`OpenCase`) begins a scope, makes its postings, each in a scope
of its own with its `Look`, `AddDelta`, `ReadBack` and `LogRow`
(`balance_apply_delta_m`), and commits; a rebuild reads, sums and stores. Any statement
may fail, and the posting and the use case then roll back what they take for
theirs. `Targets` says what a RELEASE or ROLLBACK TO may hit: csilk may or may not make the
names of savepoints unique, so either the worker's own savepoint or the latest one of
that name. `met` records that a worker used the connection inside another's
scope, `spoilt` that a rollback undid others' statements or not its own, or that a
rebuild wrote after a meeting.

### Positions

One investment account under either cost method. A use case is one action
here, since it runs in one scope and `Ledger` has looked inside one. `Apply` is
`apply_position_fc` with the fee row and the posting `ledger_apply_tx` makes of
it, `ReverseTrade` is what `ledger_reverse_tx` does (a FIFO account is rebuilt
without the row, an average-cost one runs `rollback_position_fc`), `Rebuilt` is
`ledger_rebuild_position_ex`. Rounding is the code's: half up, `PriceUnit` = 100
(prices have four decimals, money two), and a ratio is rounded to `RatioUnit`
before it multiplies (10^12 in the code, 10^5 in the runs, to stay inside TLC's
integers). Lots are kept in the order of `tx_lots_get_open`, and totals over them
are `Sums!Total`. `client` is chosen at the start, between clients who trade
freely and clients who keep the order of dates and edit nothing.

### SummaryPool

A critical section is one action, and between two of them any thread may run.
`req` holds the request threads (`ai_summary_maybe_trigger`: flush, write, take
a slot, build, queue or give up), `thread` the pool threads (look for a task or
wait, call the model, stage, release), `slots` the in-flight ring, `staged` the
summaries that wait for the next request of their session, `stored` the
database; `rival` is a mark for `SummaryOrder`. The condition variable is explicit: a signal wakes one waiting thread
or nobody, a broadcast all, and a wait may return by itself.
`ai_usecase_settings_update` calls `ai_shutdown` and `ai_init` on a request
thread while others go on; the threads of every start are different, and
`pthread_join` is a read of `s_pool.workers` followed by a wait. To join a
thread that is gone or already has a joiner is undefined in C; the model lets
the call return with an error, which is what glibc does. A call of the model may
never return (`Hang`).

### The assistant

* `AiLoop`: one run. `pc` walks through turns (`PreTurn`, `ChatAsks`,
  `ChatAnswers`, `ChatFails`, `RetryChat`), through the calls of an answer one by
  one (`SerialGate`, `SerialRun`) or on threads (`ParallelGate`, `Worker`,
  `Gather`), and to the closing call and the verdict (`WrapUp`, `Finish`). The
  client may disconnect at any moment (`Cancel`), other sessions of the user use
  up the frequency of the policy (`Elsewhere`). The model streams its text piece by
  piece (`Stream`), so that the client may leave in the middle, or never comes back
  (`Hang`). An id of a call is longer than 63 bytes or not: the parallel branch
  answers with what fits (`Cut`).
* `Confirmation`: a request that consumes a nonce takes the steps of
  `consume_nonce_atomic`: `LookInRing`, `LookInTable`, `Backfill`, `InsertNonce`,
  `Clean`, `Accept`; the lock of the ring is free in between. The environment
  opens a scope on the shared connection and commits it or rolls it back,
  restarts the process, and lets time pass.
* `Workflow`: conditions, retries, cancellation, and compensation in reverse.
* `McpPool`: acquisition in its phases (a ready entry, a placeholder and a
  handshake outside the lock, a short-lived client), release, eviction and
  shutdown, over a table compacted by moving its last entry. A handshake that fails
  when a shutdown has emptied the table takes the unsigned count below zero
  (`wrapped`); a search then runs past the table (`AcquireStray`).
* `McpClient`: one child process behind two pipes. A line is read in blocks that
  end anywhere; the child answers late, speaks unasked, or exits; a call times
  out.
* `AiSettings`: who holds which snapshot (`holds`), its count, and the request
  that saves (`Load`, `MergeNamed`, `AskSnapshot`, `GiveBack`, `CopyKey`, `StoreRow`,
  `StoreFile`, then `ai_shutdown` and `ai_init` as `Withdraw`, `DropOld`,
  `Reload`, `Install`).
* `Chat`: both ends of a conversation. The page has one thread, so an action of
  it is what runs between two awaits; a statement on the rows is a step of the
  server (`Cut`, `Ask`, `Answer`). The rows are a set; their order is that of the ids,
  which is their order in time but for rows of the same second. Events on their way are `stream[k].wire`,
  requests for history `load`. The user sends, edits, regenerates, stages a
  workflow, stops, selects another chat, pages back and deletes at any moment.

### The rest

* `Dca`: the scheduler lists the active plans once a day and generates an
  execution for each that is due; a confirmation reads the execution
  (`ReadPending`), and buys and marks it in a scope later (`BuyAndMark`); skips,
  deletions of plans and of what was bought fall in between.
* `MarketScheduler`: the thread decides on each of five jobs while it holds the
  mutex and runs it without; settings and shutdown arrive meanwhile.
* `Sessions`: a request looks its user's token version up in the cache, queries
  the database, and stores the answer, in three steps; log-ins, registrations
  and changes of password go on.
* `Membership`: a use case first reads roles and then writes, and the two are
  separate statements; a deletion is eight of them, a creation two.
* `RateLimit`: a request reads the clock before it takes the lock.
* `OfflineSync`: the user writes while the queue is pushed row by row. A write is
  first `awaited`, with the ids it was sent with; when its request fails it is stored
  and queued (`Kept`), by when a push may have renamed what it names. `round` are
  the items that a push has listed, `flight` the one request under way with what
  it carries; an answer may be lost after the server has acted. A row made
  offline has a negative id (`Placeholder`) until the server names it, and is then
  renamed in the rows and in queued work. Every table is pulled. An authentication
  error, of a write, of the push or of a pull, logs the user out, and the logout deletes
  the local database with its queue (`Reset`). The database is opened when the app is
  started (`main-mobile.ts:35`) and not at the next log-in: the module is one run of the
  app, up to a logout and what is still under way then.
* `Decimal`: mantissas of `Bits` bits and a scale. The routines that put double
  words together (`u128_mul_u128`, `u256_div_rem`) are modelled limb by limb and
  step by step, the six rounding modes on magnitude and sign.

## 3. What the runs check

| Run | Question | Result |
|---|---|---|
| `engine` | The ledger. Two workers, a foreign account under a moving rate, halves of transfers edited by hand, statements that fail unnoticed: does the log lead to the balance (`AuditChain`), does a rebuild change nothing (`RebuildKeepsBalances`), is every use case one audited step (`ImplementsAudit`), until requests meet on the connection? And is no posting lost when they do (`PostingsAddUp`)? Three components beside it, below | holds, 1.05 million states |
| `liveness` | Does every summary task end (`TaskEnds`), a save of the settings return (`SaveEnds`), the shutdown of the scheduler (`StopReturns`), a run of the assistant (`RunEnds`), where calls of the model may hang? No slot without a task (`SlotHeld`), no session summarised twice before the ring has gone round (`OneTaskUntilWrap`). Until then no older summary over a newer one unless a request came between (`SummaryOrder`) | holds, 100 thousand states |
| `suite` | The ledger with one worker and one currency, any checked statement failing, and every other component, below | holds, 1.3 million states |
| `summary_save` | Two requests save the settings at once | **violates** `SaveEnds` |
| `stale_bill` | Two overlapping updates of one daily expense | **violates** `NothingLeftBehind` |
| `income` | Confirm an income, delete its row | **violates** `NothingLeftBehind` |
| `average_delete` | Average cost: buy, sell all, delete the sale | **violates** `RebuildAgrees` |
| `owner_stays` | The owner sets himself to editor and leaves | **violates** `OwnerStays` |
| `own_answer` | A tool call after one that timed out | **violates** `OwnAnswer` |
| `right_server` | Two handshakes, the first of which fails | **violates** `RightServer` |
| `foreign_cut` | A message is edited while the next chat loads | **violates** `CutsOwnChat` |
| `first_save` | Settings are saved while no snapshot is installed | **violates** `LookupSafe` |

The parts of `suite`, and those of `engine`, share no variable, so the first state
picks one and the run explores each by itself:

| Part | Properties |
|---|---|
| Ledger (`suite`) | `Reconciled`: balances are what the rows and bills explain; `PairsIntact`: the halves of a transfer and its record live and die together; `FeeRowsMatch`: fee rows are those of their parents; all three until a statement fails that nobody checks |
| SharedConnection (`engine`) | `PostingsAddUp`: however the statements of two workers interleave, a balance is its opening value, what is logged and what is about to be, until a rollback or a rebuild spoils it |
| Positions (`engine`) | `LotsCovered`: nothing negative, and the lots, one per buy row, hold exactly the quantity and, up to rounding, the cost; for orderly clients `OrderlyOldestFirst`: the oldest lots are used up first, `OrderlyRebuildAgrees`: stored = rebuilt |
| Confirmation | `SingleUse`: a confirmation is accepted twice only if its row was rolled back *and* the ring lost the nonce or two requests for it ran at once |
| Dca | `ConfirmedHasBuy`: a confirmed execution names a buy of its own that still exists; `BuysAccounted`: no other buy, but for races and failed marks |
| McpPool | `SoundUntilMoved`, `OfferedIsAlive`: what the table offers is alive and of its key, until an entry was moved under a handshake, or the count went below zero |
| McpClient | `AnswersInStep`: until a call has timed out or the child has spoken unasked, an answer is the one to the last request |
| AiLoop | `EveryCallAnswered`: each call of an answer has one tool message, in its place, with its id or, of a long one among several, its head; `NoDoubleRun`: no call runs twice until the table of seen calls is full; `BudgetsHold`; `OneVerdict`: the client hears one verdict, the session keeps what it was shown in the last call, also when it left in the middle, and forgets nothing of it |
| Workflow | `SagaComplete`: a run that failed has compensated each step that had succeeded, the latest first; one that did not fail, none |
| Sessions | `RevokedWithinTtl`: a revoked token is refused to every request that begins a cache lifetime later |
| OfflineSync | `NothingLost`: until a logout, a write has reached the server, is awaited or queued; `NamesKept`: no request of the queue carries a placeholder that the server has named, unless a write awaited meanwhile brought it back |
| Membership | `RolesSound`: only the user a ledger belongs to holds the role of owner; a deleted ledger has no members |
| RateLimit | `LimitHolds`: in no window, less the time a request waits for the lock, are more requests admitted than the limit, until the ring gives up an entry |
| Chat (`engine`) | `OneChatShown`: messages of one chat only, once its history is there; `PageAgrees`: with nothing on its way, page and table have the same questions and answers under the same ids, in the same order |
| AiSettings | `SnapshotsSound`: a snapshot is freed exactly with its last reference; `SavesSound`: with no save under way, requests get the settings last reported as saved, keys carried over included |
| Decimal (`engine`) | `ArithmeticRight`: every operation equals its definition on integers, or reports overflow |

Every property of a passing run has a mutant: an operator beside the one it
replaces, introduced by the word "slip", with which TLC finds the property
violated.

**Bounds.** In the ledger, one bank, one card and one investment account give
every combination of target and linked leg that the type registry knows. Four
row ids hold a trade with its fee row and a transfer, two trades with fee rows,
or a transfer and a transfer that looks like it, which is what the attribute
fallback of a delete can confuse; `engine` has three, for a transfer and a look-alike
half or a trade with its fee row. Three commits hold create, edit and delete, or
delete and rebuild, of one row or two; the runs of findings have four. On the shared
connection two workers make three requests of one posting each or a rebuild, on two
accounts: a third request comes into what the first two have left. Four position rows are two
lots, a sale across both and a trade to delete or edit; amounts leave remainders
(10.05 over 3 units, a ratio of one third). `MaxOps` and the ids only bound the
runs: the proofs hold for any.

`SummaryPool` keeps the proportion of the code, at least as many slots as tasks
can be under way (`SummaryAssumption`: 256 against 64 + 2 + 2; five against
1 + 1 + 2 in `liveness`). Two tasks fill a queue of one, two starts are one save; what
holds when the ring goes round is left to the proofs, which are for any number of tasks.

In `suite` two threads and two keys, users, tokens or nonces are what a race
needs. A confirmation has a ring of one (the second nonce overwrites the first),
a token lives one second, its row is kept one more and then
cleaned away within the three seconds of the run, and there is one rollback. The pool has two processes, two servers,
three more children than that for failed handshakes, one reload. A client reads
blocks of three pieces, so that a line of two or four ends inside one, and a frame
may hold two pieces beyond. The loop has two tools, one of them parallel, answers
of two calls and one piece, one remembered call (so that the table overflows), one
call a minute. Workflows have
three nodes. The offline store has three writes and two lost answers. The limit
is two in a window of two, in a ring of three. Membership has two people, two ledgers and
four requests. A chat (in `engine`) is two exchanges stored in
two pages, two answers asked for, two histories and three clicks; `foreign_cut` adds
a second stored chat and a third new one. Settings have two savers and two users
of a snapshot. Decimals (in `engine`) are 8 bits wide with half words of 4, on mantissas
at the ends of the range, at halves and at ties: every carry of the wide routines
happens at this width.

**Symmetry.** `suite` permutes the threads, and the data values, of all parts
alike. No property of it is a liveness property.

**Deadlock.** The runs of safety say `CHECK_DEADLOCK FALSE`: when the bounded
requests have been made nothing more happens, by the bound and not by the code.
`liveness` checks deadlock; the end of the server and of a run are steps of it.

**Fairness.** None where only safety is stated: a request the server drops half
way is rolled back, so nothing has to happen. In `SummaryPool` and
`MarketScheduler` every thread that can take its next step takes it eventually
(weak fairness per thread, of the round and of the join): the operating system
schedules it and mutexes are held for a few instructions only. In `AiLoop` the steps
of the run are fair together; tools that wait have timeouts of their own
(`web_search_tool.c:217`, `mcp_client.c:211`, `:693`). Calls of the model do not always:
`MINEFOLIO_AI_HTTP_TIMEOUT_MS` may be 0, and the ollama driver ignores `timeout_ms`
(`loop.c:100-104`; `summary.c:228` and `:498` call it too). So any call may hang, in
`SummaryPool` and in `AiLoop`, by an action without fairness that disables the others
(`Hang`), and the properties say whom a call that hangs holds up (`HeldUp`, `hung`).
Visiting a session, saving the settings, the arrival of a new day, cancelling, and a
spurious wake-up have no fairness.

### Where the properties stop

*Ledger.*
* `Reconciled` is checked and proved at a fixed rate. A foreign leg is converted at the
  rate of the moment both when posted and when reversed (`balance.c`), and the
  rate stamped on the row is never read, so a moving rate leaves a residue. The
  audit properties hold nevertheless, and are checked with moving rates.
* `Reconciled`, `PairsIntact` and `FeeRowsMatch` assume that the halves of a transfer
  are not written or edited by hand (`WholeTransfers`), which `tx_usecase_create`
  and `tx_usecase_update` would allow.
* `Reconciled` and `NothingLeftBehind` assume one worker and no confirmed income
  (`PlainBooks`): `stale_bill` and `income` show what each of the two does to them.
* Some statements are not checked by the code, or their failure is taken for an
  empty answer (`Lapse`). A lost fee row is never refunded; a transfer deleted while
  its partner cannot be read or deleted leaves a half behind. `Reconciled`,
  `NothingLeftBehind`, `PairsIntact` and `FeeRowsMatch` are about books in which none
  has failed (`lapsed`); the audit properties hold all the same.
* All properties of `Ledger` end when two requests meet on the connection (`mixed`).
  What a meeting may do is known from `SharedConnection`: audit rows out of order,
  statements of one request undone by the rollback of another, a rebuild that
  writes the balance of before. No posting is lost otherwise. How requests in the
  same transaction may disturb each other's rows, beyond balances and logs, is not
  modelled, nor is a ROLLBACK that fails.
* `OrderlyRebuildAgrees` and `OrderlyOldestFirst` need trades in date order, no
  edits and, under average cost, no deletions. An edit of a FIFO trade rebuilds
  without the row and then applies it last, whatever its date.
* The theorem of `LotsCovered` is for trades whose amount is price times quantity
  (`PricedTrades`, as in the runs). A client may send another amount: a lot is
  then worth the amount (`ledger_engine.c:1091`), but a rebuild, which a FIFO delete
  runs, takes price times quantity as the cost of the position (`:1089`).
* Noted without a property: a rebuild of a position opened with a quantity forgets
  it (`ledger_engine.c:1141`) and writes the last buy's price over a newer quote
  (`:1165`). A manual edit of a balance runs outside a scope
  (`asset_repo_impl.c:208`, `application/asset/usecases.c:377`) and overwrites a
  posting made between its statements.

*Components that record when they leave what they promise.* Each has a history
variable that names the case, and the property holds outside it.
* `Dca`: the status is checked before the scope (`raced`), and the result of
  marking is ignored (`unmarked`); both buy twice. A biweekly plan, which the
  schema allows (`migration.sql:256`), never comes due (`market_scheduler.c:97`).
* `Confirmation`: with the row rolled back (`undone`), a lost ring entry
  (`forgotten`) or two requests at once (`overlapped`) do accept a token twice.
* `McpPool`: once an entry was `moved` under a handshake, entries and clients no
  longer belong together. A shutdown frees clients in use. A handshake that fails after
  a shutdown decrements the count from 0 (`mcp_stdio_pool.c:147`, `:157`): then
  (`wrapped`) the pool may offer whatever lies behind the table.
* `McpClient`: once `behind`, every answer is one too early. A client whose child
  has exited is not replaced until the pool drops it.
* `OfflineSync`: a write whose answer was lost is sent again; it is applied at
  least once, not at most once. A write that is awaited while the account it names gets
  its id from the server is queued with the placeholder (`late`), and sent with it.
  An authentication error deletes what is queued, and so does every logout
  (`NothingLost` ends at `login`). The modules that the reset is in may never be imported;
  the user is then out with the database still there, which the model allows. A write
  that is awaited while the app is killed is gone; this is not modelled.
* `AiLoop`: `NoDoubleRun` ends when the table of seen calls is full. A long id of a
  parallel call comes back cut (`loop.c:672`, `:771`), which a provider may refuse.
* `RateLimit`: `LimitHolds` ends when a full ring has `overwrote` an entry.
* `Chat`: `parted` when an answer was broken off or its ids never told. Seen while
  modelling: `isStreaming` is false during part of an ordinary stream, an old
  stream's `finally` drops the controller of the newer one, and a workflow card
  staged while an answer streams is given the answer's id.
* `AiSettings`: `blurred` when saves overlapped or one stored its settings in the
  file only. The list of models never gives its reference back, so that not every
  snapshot is freed.

*Summaries.* `OneTaskUntilWrap` ends with the first round of the ring: the next
slot is taken whether or not it is free, so a slow task loses its slot to a second
one and later frees that. A flush writes after the lock: of two requests of a
session the older text may be written last. `SummaryOrder` therefore speaks of
writes that no other request of the session came between (`rival` records it), and
also ends with the first round of the ring. `SaveEnds` holds for one
saving request at a time, unless the call of the thread it joins hangs; it then waits
for ever, and with it every queued task.

*Settings and membership.* A save looks up the provider it names and each one it
lists, in the snapshot asked for anew each time or in the one it has given back. The
DELETE of the members of a ledger is not checked; that of its row is, and the rest is
then gone already (`ledger_repo_impl.c:308`).

## 4. Where code and documents part

Each is a run that TLC stops with a counterexample; `PROJECT.json` quotes the
sentences they contradict.

1. `stale_bill`: `daily_expense_usecase_update` and `_delete` read the old amount
   and account before their scope and reverse that snapshot inside it. The later
   of two overlapping requests reverses what the earlier one already replaced.
2. `income`: `cashflow_usecase_confirm_income` stores a row with a linked account
   and posts one leg; deleting the row reverses both.
3. `average_delete`: deleting the sale that closed a position restores the cost
   from the sale price and not from what the sale took off.
4. `summary_save`: `ai_summary_pool_shutdown` is written to be idempotent, but
   clears `initialized` only after both joins and reads `s_pool.workers` without
   the lock. Of two overlapping saves the later one joins the threads that the
   earlier one has just started, and never returns.
5. `owner_stays`: the owner of a ledger may change the role of his own row, and
   as an editor he may leave, which the rules forbid to an owner.
6. `own_answer`: a call that times out leaves its answer in the pipe; ids of
   answers are not compared, and the next call takes it for its own.
7. `right_server`: a handshake remembers its placeholder by index; a removal
   meanwhile moves entries, and the client lands in the entry of another server.
8. `foreign_cut`: `selectSession` changes the chat at once and the messages later.
   An edit in between cuts the selected chat from a row id of the other.
9. `first_save`: the snapshot is looked up without asking whether there is one.

## 5. What is proved

Each theorem holds for every value of the constants that satisfies the named
assumptions of its module; TLC evaluates them in every run that extends it. A
theorem of the form `H => (Spec => ...)` has a hypothesis on the constants: TLC
evaluates `PlainBooks`, which implies `WholeTransfers`, on `suite` and `PricedTrades` on `engine`.

* `LedgerProofs!TypeCorrect`: `Spec => []TypeOK`. `TypeOK` is not inductive: a
  statement reads the arguments in `scope`, and whether they are a form, a row or
  a bill depends on the operation and the program counter. The inductive
  invariant `TypeInv` adds `ScopeOK` (what each program counter may rely on) and
  `SeenOK` (a pre-read transaction carries a form, a pre-read bill its snapshot).
  There is one lemma per group of actions; `TypesStay` is `Spec => []TypeInv`.
  Assumed: `AccountsAssumption` (disjoint categories, a currency per account),
  `InputsAssumption` (requests have the shape the handlers validated, rates are
  positive), `BoundsAssumption`; the same for all of the ledger's.
* `LedgerProofs!AuditChainHolds`: `Spec => []AuditChain`. The invariant `AuditInv`
  says that the committed logs chain, that the tables of the open scope differ
  from the committed ones by appended entries that chain, and that during a
  replay the running sum equals the `after` of the entry just replayed. Statements
  that fail unnoticed keep it; it ends where requests meet, as do all that follow.
* `LedgerProofs!RebuildIsExact`: `Spec => []RebuildKeepsBalances`, from the same
  invariant: at the end of a replay the sum is the balance.
* `LedgerProofs!LedgerImplementsAudit`: `Spec => ImplementsAudit`. Only `Commit`
  changes what is visible, and by `AuditInv` it is a *settle* step.
* `LedgerProofs!PairsAlways`, `FeeRowsAlways`: `WholeTransfers => (Spec => [](...))`,
  of `ShapeInv`. `Families` says how deep rows go: one with a parent is a fee row or an
  in half, and its parent has none. The tables of the scope have the same shape as the
  committed ones at every statement, since the row a scope works on, what it
  still has of the form and which children it has deleted are known (`OldKnown`,
  `NewKnown`), and what a request read before its scope cannot have become a half
  (`SeenKnown`). Any number of workers and currencies. It is kept until `lapsed` or `mixed`.
* `LedgerProofs!ReconciledAlways`, `NothingLeftAlways`: `PlainBooks => (Spec => [](...))`, of
  `FactsInv`, which adds `MoneyInv` to the invariants above. What an account is `Short` of
  is a function of the next statement: the legs not posted yet of a row already
  written, the legs already reversed of a row not erased yet, the refund of a bill
  already taken. Every statement changes the balance, the rows and `Short` by amounts
  that add up to nothing (`Owing`), and at a commit nothing is short. A sum over the
  rows is a recursive function on `1 .. n`; that it changes by the difference of the
  one row written (`TotalMoves`) is proved with sets of numbers in place of the
  induction rule: the least number outside such a set is a contradiction.
* `SummaryProofs!SummaryTypes`: `Spec => []TypeOK` of the pool. The inductive
  invariant `PoolInv` adds what each program counter of a request or pool thread
  says of its session and task, that threads are started in pairs, and that the
  queue is empty while the pool is stopped (so a restart drops no task). Assumed:
  `SummaryAssumption` (positive sizes, finitely many requests, a slot for every
  task that can be under way).
* `SummaryProofs!SummarySlots`: `Spec => []SlotHeld`, inductive together with
  `PoolInv`. Only `Acquire` takes a slot, for a task then under way, and the one
  step that ends a task (`GiveUp`, `Release`, or `Drain` for the queue) clears its
  slot; every other step keeps the tasks under way, if in another place.
* `SummaryProofs!OneTaskAlways`: `Spec => []OneTaskUntilWrap`. A task is at one
  place (with a request, in the queue, with a thread). `RingInv` says that no task
  is at two places (`Once`), that its number gives its slot (`Numbered`), and that
  until the ring has gone round this slot is its session's (`Owned`): a second task
  of the session would have found the slot taken. `Owned` is what fails with the
  first wrap, and why the property stops there.
* `SummaryProofs!SummariesInOrder`: `Spec => SummaryOrder`. `OrderInv` follows the
  summaries of a session on their way from a task under way to the staging area,
  to the request that took it, and to the table: a later place never holds a newer
  one (`StagedBefore`, `HeldBefore`, `StoredBefore`), as only one is staged
  (`StagedOnce`) and `OneTaskUntilWrap` orders the tasks. What a request holds may be
  older than what is stored only if it has had a rival (`Alone`, `WrittenNext`).
* `AccessProofs!ConfirmationUsedOnce`: `ConfSpec => []SingleUse`. The
  invariant `ConfInv` has seven parts: types; `Timely`, that a request lives no
  longer than the grace of a row, on a token that had not expired; `RowKept`, that
  a used nonce keeps its row until no request can be about it, unless undone;
  `OneUse`, that only one request then gets to use it; `Together`, that two
  requests about one nonce are recorded as such; `RingKept`, that a used nonce is
  in the ring unless forgotten; `Excused`, that who is past the ring with a used
  nonce, or has used it twice, has its excuse. Assumed: `ConfAssumption` (sizes are numbers).
* `AccessProofs!RevokedTokensAge`: `SessSpec => []RevokedWithinTtl`. `SessInv`
  adds that the current version has not ended (`CurrentNotEnded`), that what a
  request read had not ended when it began (`InTime`), and that an entry of the
  cache vouches for a version no longer than a lifetime after its end (`Vouches`).
  Assumed: `SessionsAssumption`.
* `AccessProofs!RolesStaySound`: `MemberSpec => []RolesSound`. `MemberInv` adds what
  each request relies on when it writes (`PlanSound`). No assumption.
* `AccessProofs!LimitAlways`: `LimitSpec => []LimitHolds`. `LimitInv` adds that a
  request waits no longer than `MaxDelay` (`OnTime`) and, until an entry is given up,
  that the ring and the requests let through end alike (`Aligned`): counted from the
  end, each request that still counts has its entry in the ring, of its key and not
  much older, so the number of matches is never below the number counted, and what
  eviction drops does not count any more. Assumed: `LimitAssumption` (bounds are
  numbers, the ring has room for an entry).
* `InvestmentProofs!ConfirmedIsBought`, `EveryBuyAccounted`: by `DcaInv`, which adds to
  the types what the status of an execution says of the buy it names (`Named`) and
  that a buy it does not name comes of a race, a failed mark or a deleted plan
  (`Accounted`). Assumed: `DcaAssumption`.
* `InvestmentProofs!LotsCoveredAlways`, `OldestFirstAlways`, `RebuildAgreesAlways`:
  `PricedTrades => (PositionSpec => [](...))`, all of `PositionInv`. For a FIFO account
  `FifoGood` says what lots, rows and position owe each other; for orderly clients
  `Agrees` says that a replay of the rows has the holdings of the account. A buy puts
  its lot behind those of its day (`PlaceFound`, `InsertKeeps`), which adds its share to each
  sum over the lots (`TotalWith`); a sale takes from each lot what those before it leave
  (`DrawnHeld`), and each lot's worth drifts from its cost by what rounding may do
  (`HeldRounds`). A replay is a recursive function on sets of rows: that it exists and
  takes the last row last (`ReplayUnfolds`) is again shown with sets of numbers in place of
  the induction rule (`RowByRow`), and row by row it keeps `FifoGood`, which gives the FIFO delete,
  an edit and the rebuild. A row added last in the order of dates is what the replay does
  last (`ReplayAddsLast`); and a replay without a row is what a FIFO delete
  stores, so `Agrees` stays. Assumed: `PositionConstants` (trades and clients have their types,
  units are positive); `PricedTrades` is evaluated by TLC on `engine`.
* `AssistantProofs!EveryCallAnsweredAlways`, `NoDoubleRunAlways`, `BudgetsHoldAlways`,
  `OneVerdictAlways`: of one invariant `LoopInv`. `Conversation` says of the messages
  that all are complete but for the last answer, whose calls are answered up to the
  one under way; `OnceEach` that what has run is in the table of seen calls, once,
  and what is about to run is in the table and has not run; `WithinBudgets` what
  each program counter still has left of every budget (a batch is cut before it
  starts, a call is counted only after it); `Verdict` that what is saved is the
  text of the end. Assumed: `LoopAssumption` (limits are numbers).
* `AssistantProofs!SnapshotsSoundAlways`: `SettingsSpec => []SnapshotsSound`.
  `SettingsInv` adds that a count is the number of those who hold (`Counted`) and
  who holds what at each step of a save (`Holding`). Assumed: `SettingsAssumption`
  (finitely many requests).
* `AssistantProofs!SavesSoundAlways`: `SettingsSpec => []SavesSound`. `SavesInv` adds
  to that `Drafted` (a draft names a model, so it is told from no settings) and,
  while nothing is blurred, `Agreeing`: at most one save is under way, and what is
  stored, installed and reported is known at each of its steps (`Goes`). That the
  key carried over is the right one rests on the snapshot asked for being
  the one installed until `CopyKey`.
* `AssistantProofs!SagaCompleteAlways`: `WfSpec => []SagaComplete`. `WfInv` says that
  steps succeed in the order of the graph, each before the one the run is at
  (`InTurn`, `Past`), and that what has been compensated is at every moment what of
  the successes behind `undoAt` can be (`Undone`). Assumed: `WorkflowAssumption`.
* `McpProofs!AnswersInStepAlways`: `ClientSpec => AnswersInStep`. `ClientInv` is about
  one sequence, `Stream`: the line being put together, then the buffer, the pipe and
  what the child has still to write. To take a line is to cut a beginning off it, to
  read a block is to change nothing of it. A piece of an answer is of a later request than the
  answers returned and than every line that ended before it, and requests that wait
  are later still (`Ahead`); in step, all of it is about the last request (`Alone`).
  Assumed: `ClientAssumption` (a line has a piece at least, bounds are numbers).
* `McpProofs!SoundUntilMovedAlways`, `OfferedIsAliveAlways`: of `PoolInv`. Whatever
  happens no process is in two entries and those in entries run (`Sound`). Until an
  entry is moved (`Steady`) each handshake has a placeholder of its own at the
  index it remembers, the other entries have the process of their key, and who
  uses a process is alone with it. That `First` finds an entry at all is the well-foundedness of
  the numbers. Assumed: `PoolAssumption` (the sentinel is no key and no process).
* `SyncProofs!NothingLostAlways`, `NamesKeptAlways`: of `SyncInv`, which holds up to the
  logout and after it. A write is in one place, awaited or one item (`WritesApart`). Items,
  rows and awaited writes name accounts that have an id or whose creation is queued before them
  (`QueueKnows`, `RowsKnow`, `AwaitedKnow`), so that no item before the creation of an
  account can name it, and renaming the rows and the items behind leaves none with the
  placeholder but what an awaited write brings back later (`AllFresh`, `late`). What is sent is an
  item that waits (`RoundWaits`), and names nobody by a placeholder of before
  (`SentFresh`). Assumed: `SyncAssumption` (bounds are numbers).
* `SyncProofs!OneChatAlways`: `ChatSpec => []OneChatShown`. `ShowsInv` says that of the
  histories on their way at most one is for each selection, that while it is to come
  the page knows it waits (`awaiting`), and that a served page has messages of the chat it
  was asked for (`LoadsApart`). That a page of older messages comes from the selection
  that is still current rests on the sequence number, even when the same chat was left and
  selected again. Assumed: `ChatConstants` (bounds are numbers, pages have room for a row).
* `SyncProofs!PageAgreesAlways`: `ChatSpec => []PageAgrees`. `PageAgrees` speaks of the moment at
  rest; `AgreeInv` says how things stand before it. While nothing parted the two, at most
  one answer is received, and only for it the server works (`AnswersAlone`). While
  it is, all but the last two messages agree with rows, and of the last two it is known how far
  the server is (`Stage`: before the cut, before the question is stored, after) and which
  of their ids are still on the wire (`OnItsWay`); an id that is read goes to the last message
  of its role, which is the one meant (`AdoptLast`). A cut by the server leaves the rows of what the
  page kept (`LastAnswerGone`, `TailGone`), since those have older ids than what is cut.
  A history that was asked for with nothing under way agrees when it comes (`FetchFits`),
  the chat being no longer than a page: that a list in the order of the ids of all its rows
  agrees is `WholeChat`. Assumed: `ChatConstants`.

Only model-checked, and why:
* `ArithmeticRight`: the wide routines go limb by limb through recursion over
  digits, whose value for every number needs induction over data.
* All liveness, and everything with `ENABLED`: out of the prover's reach.

## 6. Not modelled

* Manual edits of a balance (`asset_update_basic`): they bypass the engine whose
  audit chain `Ledger` is about; see above for what they break.
* Foreign-currency trades, realized profit, and the ledger snapshots, which no code
  outside the tests saves.
* Fetching of rates and quotes, their fallbacks and history; web search; prompts
  and the context of the assistant: network access and text.
* `batch_tool.c`: after its token is consumed (which is `Confirmation`), expense and
  transfer rows and their postings through the ledger engine, in one scope. Read
  and noted: it ignores the result of the commit (`:835`), and its transfers get
  no pair of transactions (`ai_repo_impl.c:217`) through which a transfer could be
  deleted again.
* Accounts, categories, tags, files, cash-flow schedules: rows edited by
  themselves. Portfolio, reports: they only read. Import and export: parsing
  around the transaction and expense use cases.
* Second factors, external log-ins, signatures and hashes: cryptography.
* HTTP clients of MCP, which keep nothing between calls; HTTP controllers and
  views: formatting.
* The scope functions and the database itself, which are outside the repository:
  what `SharedConnection` says of savepoints is SQLite's documented behaviour, as
  `common/db.h` describes it.

## 7. Running it

    tlc -workers 2 -config MCEngine.cfg MCEngine
    tlc -workers 2 -config MCSuite.cfg MCSuite
    tlapm LedgerProofs.tla

`PROJECT.json` names the module and the configuration of every run.
