# Specifications of DH-Leverage

This directory holds TLA+ specifications of DH-Leverage: the leverage engine, the
parts of the lending sources it relies on, the caches in front of them, the transactions
a user signs, and the Strike proxy. Each specification is written from the Go source; `PROJECT.json` names, for every
definition, the lines it stands for. TLC checks the specifications on small
instances, TLAPS proves the theorems for every value of the constants.

## 1. The system

DH-Leverage is one Go process. Its API lets a user open a leveraged long or short
position in a Cardano token. For every position the *engine* makes a temporary
wallet; the user funds it, and a goroutine loops: it lends what the wallet holds at
Surf, borrows against it, trades the proceeds on DexHunter, and lends again. To
close the position another sequence repays out of the collateral, cancels what is
unfilled, sells, and sweeps everything to the user. Everything that happens to a
position is recorded in its *job*, a document in Mongo (or in memory).

| part | source | state | operations |
|---|---|---|---|
| engine: lifecycle | `common/engine/engine.go` | `e.cancels` (job id to cancel function) under `e.mu`; a private copy of the job in every goroutine | `Open`, `Start`, `Reverse`, `Retry`, `Sweep`, `RecoverInflight`, `waitFundingThenRun`, `run`, `unwind` |
| engine: build loop | `engine.go` | recorded steps of the job | `run`, `openLeg`, `tradeAll`, `pickBorrowMarket` |
| engine: unwind | `engine.go` | local books of `closeOpenOrders` | `unwindWith`, `closeOpenOrders`, `submitTrackedRepay`, `submitCancel`, `sweepAll` |
| sizing and risk | `engine/math.go`, `Quote`, `borrowAmount` | the plan | `BuildPlan`, `Quote`, `LiquidationPrice`, `HealthFactor` |
| health monitor | `engine/health.go` | none of its own | `pollHealth`, `RefreshHealth` |
| job store | `engine/store.go` | the job documents | `Save`, `Get`, `ListByOwner`, `ListByStatus` (Mongo, memory) |
| temp wallet | `engine/tempwallet.go` | a sealed key in the job | `NewTempWallet`, `Open`, `SignTx`, `WitnessSetHex`, `PaymentWitness` |
| chain access | `engine/chain.go` | none | balances, funding and sweep transactions, `SubmitRaw`, `WaitConfirmed` |
| cached source | `common/sources/cache.go`, `memory_cache.go`, `persister.go`, `database/redis`, `database/mongo` | cache entries, the pending fetch, mirrored markets | `FetchMarkets`, `FetchOrders` |
| Surf client | `common/sources/surf/client.go` | none (Surf's server has the orders and positions) | `FetchMarkets`, `FetchOrders`, `BuildBorrow`, `BuildClose`, `SubmitTracked`, `Assemble`, `Submit`, `SubmitTx` |
| Liqwid client | `common/sources/liqwid` | none (Liqwid's server has the loans) | listings, `Build*`, `BuildClose`, `Submit` |
| DexHunter SDK | `common/dexhunter-sdk` | none | HTTP calls |
| wallet balances | `common/wallet/client.go` | balance cache | `FetchBalance` |
| Strike proxy | `common/strike`, `common/api/strike.go` | pending key pairs, credentials, deposit and withdrawal history | connect (challenge, verify), orders, deposits, withdrawals, settle |
| user transactions | `common/api/server.go`, the clients above | none: a build and its submission are separate requests | `handleTxBuild`, `handleTxClose`, `handleTxSubmit`, `handleTxSubmitRaw` |
| HTTP API, wiring | `common/api`, `main.go`, `common/config` | none | handlers, start-up selection of Redis/Mongo/memory |

**Interaction.** A handler calls the engine on its own goroutine; the engine starts
lifecycle goroutines that outlive the request. They share the job document (every
save writes a whole private copy), `e.cancels`, and the temp address on the chain.
`Reverse` stops a goroutine by cancelling its context. The health monitor is a
further goroutine that lists open jobs and writes them back. At start-up
`RecoverInflight` puts goroutines behind the jobs that were in flight. Both the API
and the engine ask the lending sources through the cached source; the batchers of
Surf and of the DEXs act on their own time.

**What is hard here.** Last-writer-wins saves of whole documents by several
goroutines; ownership of a job by a check and a registration that are not always one
step; checks of a cancelled context that are stale when acted on; restarts that find
whatever status was saved last; every save's error thrown away; orders that fill
between a listing and its use; submissions whose answer is lost; a loop bound on the
closing rounds; shared fetches that fail or are cancelled; reads answered from a cache
while somebody refreshes it; a settlement that is only inferred from polls of a balance;
builds, signatures and submissions that are separate requests about outputs that others
move; rounding and minimum amounts in the plan; credentials that
live in memory only, and a history that is written on a best-effort basis. `PROJECT.json` lists these hazards one by one, with their lines
and the properties aimed at them.

**What makes each part correct.**

* Lifecycle: at most one goroutine works on a temp address, and a reversal has it to
  itself; a reversal that is accepted ends in `reversed`; no registration outlives its
  goroutine; a restart adopts every job in flight; `open` means every leg is there; no
  background writer undoes a status.
* Build loop: no leg is ordered twice and none is passed over, whatever fails and
  however often it is resumed; `open` means built.
* Sizing: every leg can be executed; the plan stays at its target; what is built does not
  go beyond the plan; an alarm about a position's health is true.
* Unwind: everything open is closed, nothing of the unwind's own is undone, and one
  sweep takes everything home.
* User transactions: a hash is only told for a transaction that some node has, a copy of a
  submission is not a failure, and a close spends what the user asked to have closed.
* Market cache: one upstream call at a time, everybody waiting is answered, errors
  are not cached, mirrored data never goes back.
* Order and balance cache: answers have a bounded age, and a refresh shows what is new.
* Strike: the key in use is one that Strike has linked, and to this user's account; the
  history tells what Strike accepted, and what is settled stays so.
* Job store: a `Get` returns what the last `Save` wrote, on either backend.

## 2. Modules

| module | what it models | checked by | proved in |
|---|---|---|---|
| `Lifecycle` | ownership, statuses and recovery of one job | `MCLifecycle`, `Lifecycle*.cfg` | `LifecycleProofs` |
| `BuildLoop` | the loop between its transactions, and its resumption | `BuildLoop*.cfg` | `BuildLoopProofs` |
| `Sizing` | quote, plan, the position really built, reported health | `MCSizing`, `Sizing.cfg` | `SizingProofs` |
| `CloseOrders` | the closing rounds of an unwind against Surf | `MCCloseOrders`, `CloseOrdersSamePool.cfg` | `UnwindProofs` |
| `Unwind` | extends `CloseOrders` to the whole reversal: waits, sale, sweep | `MCUnwind`, `Unwind.cfg` | `UnwindProofs` |
| `MarketReads` | abstract: what `FetchMarkets` promises its callers | as a property of `MarketCache` | `MarketCacheProofs` |
| `MarketCache` | `FetchMarkets` through the cache and the persister | `MarketCache.cfg` | `MarketCacheProofs` |
| `ReadCache` | `FetchOrders` and `FetchBalance` through their caches | `MCReadCache`, `ReadCache.cfg` | `ReadCacheProofs` |
| `UserTx` | building and submitting what a user signs, at Surf, Liqwid and the nodes | `MCUserTx`, `UserTx.cfg` | `UserTxProofs` |
| `Strike` | connects, deposits, withdrawals and their history | `MCStrike`, `Strike.cfg` | `StrikeProofs` |

`Lifecycle`, `BuildLoop`, `Sizing` and `Unwind` look at the same code from four
sides: who works on a job, what the loop's transactions do, how big they are, and how
a reversal gets everything back. Each abstracts what another has: `Lifecycle` has one
action for a leg and one for a reversal's closes, `BuildLoop` has no second goroutine, and
none but `Sizing` has amounts. `Unwind` composes the closing rounds with what follows
them: its steps are steps of `CloseOrders` or leave its variables alone.

Definitions whose comment begins with "Mutated form" are not part of a
specification: each is a plausible bug in the operation next to it, and is used to
make sure that the property it is paired with in `PROJECT.json` can fail.

### 2.1 Lifecycle

One job, a fixed set of goroutine slots, and everything that acts on the job. The
variables are the stored document (`NoJob` before `Open`), the registration
`e.cancels[job.ID]`, and for each slot its program point, its private copy of the job
and whether its context is cancelled; the chain is reduced to where the capital is
(at the temp address or not, lent or not); a submission that failed may have changed it. A program point lies between two
steps another goroutine can see: every save, every critical section of `e.mu`, every
read of the chain or of the cancelled context is an action of its own, and an action
does everything the code does up to the next such point. Each handler is a slot that
loads its private copy (`Start`, `Reverse`, `Retry`, `Sweep`), may find it refused,
and turns into the goroutine it spawns.

`Save` either replaces the stored document by the private copy or, where `StoreFails`
allows it, loses the write, since `e.save` throws the error away. `Crash` clears
everything but the store and the chain. `RecoverInflight` then takes up the listed
statuses in the code's order. The health monitor lists open jobs, and writes its copy
back at any later time.

Bounds: the slots (`Goroutine`) bound the operations that are under way at the same
time, `Legs` is 1 or 2 (a resumed and a new leg), at most two crashes, at most the listed
kinds of calls (`Calls`). Two slots suffice for every race of two operations; three
allow another call beside an owner and a handler.

| run | question |
|---|---|
| `lifecycle_full` | with everything switched on: types, `Registry` (what is registered is alive, uncancelled, and will be dropped), `OpenComplete`, and `AtMostOneBuilder`: until a `Reverse` is accepted never two loops, over restarts |
| `lifecycle_one_reversal` | `UnwindExclusive`: one reversal and clients that wait for their calls, over lost writes, two crashes and a changed secret: the unwind, also a recovered one, has the address to itself |
| `lifecycle_live` | `CancelHonoured`, `RegistrationReleased`, `RestartFinishesReversal`: a cancelled owner brings the job to `reversed`, no registration is held for ever, and an unwind that a crash cut off is finished |
| `two_reversals` | violated: with two reversals `UnwindExclusive` fails (section 4) |

Fairness (`lifecycle_live`): weak fairness of every step of a
goroutine that has begun. Go runs every runnable goroutine, and each of the steps
ends: HTTP clients have timeouts, waits have deadlines (`fundingWaitTimeout`,
`confirmTimeout`, `batchTimeout`, `settleMaxWait`). Strong fairness of the watcher's
expiry says that one of its polls comes after its deadline. Nothing is assumed about users,
funding, prices, crashes or the health monitor. That the code throws a
save's error away is switched off in the liveness run: a lost status write is lost for good.

### 2.2 BuildLoop

One loop goroutine at a time (`Lifecycle` shows that there is one), and one variable,
`capital`, for where the working capital is: at the temp address in the borrowed asset
or in the collateral, in a transaction a node has accepted, or in a batcher's order on
chain. `lent` counts what the lender holds, `sent` the borrow orders that a node has
accepted. `Run` is the start of `run` with its catch-up trade, `Trade`, `RecordTrade` and `Batch`
are `tradeAll`, `OpenLeg`, `RecordBorrow`, `Confirm` and `Proceeds` are `openLeg` with
`signSubmitConfirm`; between any two of them the batchers act and the process may
stop. The balance before a wait (`beforeRaw`, `beforeBorrow`) is read and used as in
the code: `Snapshot` may fail, and its error counts as a balance of 0.

Calls fail (`MaxFaults`), a submission is accepted but its reply lost (`MaxReplies`), a
write of the job is lost (`MaxSaves`), the process stops (`MaxCrashes`), and an
accepted transaction may be dropped. `Retry` and the recovery build the goroutine's
copy anew from the stored job.

Bounds: three legs, a first, a middle and a last one; three failing calls, so that each
of two resumptions can fail again; one of each other kind.

| run | question |
|---|---|
| `build_loop` | `OrdersBounded`: over any resumptions at most one borrow per leg and per unrecorded submission; `RecordsTrue`: what resumption skips was ordered; `FirstRunOpensBuilt`: a loop that never failed opens what it built; `LongOpens`: a retried long ends up open |

Fairness (`build_loop`): the loop runs on, since its waits are bounded; accepted transactions that
are not dropped get into a block and batchers fill; a user retries a failed job, which is an
assumption about the user and the content of `LongOpens`.

### 2.3 Sizing

Amounts are integers: `Unit` of them make an ADA, and the target is counted in units worth one
of ADA's at the price that `Open` probes (`EntryPrice`). `Quote` starts a plan,
`AddLeg` is one round of `BuildPlan`'s loop, `PlanDone` is the rest of `Quote`:
quotation or rejection. `Fund`, `Trade` (`tradeAll`), `OpenLeg` and `Finish` build the position
the way the engine does: each leg supplies everything the wallet holds and borrows the plan's
`LegLTV` of it. So `plan` (what was promised) and `built` (what is there) are separate
variables, and the interesting properties relate the two.

There are two prices: `price`, at which DexHunter trades and the monitor values, and
`oracle`, the quotient of the lender's two prices. Either moves at any time from
the quote on (`PriceMoves`): before the funding, between a trade and the leg that supplies what it
bought, while a failed job waits for its retry, under an open position. `borrowAmount` counts the
supply at the lender's prices or, if the market carries none, on DexHunter's estimate, which
slips; both are alternatives of `OpenLeg`. Since every leg picks its market anew, every
leg of `built` has a price and a threshold of its own, next to the price its supply
had been bought at.

| property of `sizing` | what it says |
|---|---|
| `PlanExecutable` | no planned leg is below the minimum or above its LTV share |
| `PlanWithinTarget` | the plan's exposure is at most the clamped target, its debt the exposure beyond the capital |
| `BuiltWithinPlan` | as long as no leg was counted at a better price than its supply had been bought at, each leg borrows at most what was planned for it, the last, which `openLeg` does not taper, at most the LTV of its planned supply |
| `AlarmsTrue` | when `RefreshHealth` reports at most 1, the lender may liquidate every leg that was counted for at least its worth at entry, in a market with no higher a threshold, unless the lender's own price is the better one |

The conditions of the last two are the content of what the code gets right: drop one of them, and TLC finds a
leg beyond the plan, or a false alarm. An alarm may for instance be false of a leg that
was supplied after the price had moved, because the monitor measures from the
price at `Open`.

Bounds: the sampled capital, leverages, LTVs, minimum supplies, thresholds, losses
and prices of `MCSizing`, at `Unit = 1`; two moves of the prices (`MaxMoves`: one before a leg and one after the end, or
one of each price) and plans of up to two legs are built (`MaxBuilt`: a leg that is followed by
one, and a last one); plans of any length are made. They include the boundaries: leverage
below 1 and above the cap, a market without an LTV or threshold, a minimum just met and just missed, a
tapered last leg, a plan cut off at eight legs. The theorems hold for all values.

### 2.4 CloseOrders and Unwind

In `CloseOrders`, Surf's side is one record per position: its state (borrow pending, active, repay
pending, cancel pending, closed) and a number that tells its successive orders apart. The
engine's side is `closeOpenOrders`: its three maps, the round, the listing it works
through. A listing is two queries, `FetchPositions` and `FetchPending`, of which either
may fail unnoticed, and between which the batcher acts. Then one action treats one listed
entry, from the look-up to the answer of the submission; the batcher acts between any
two. Builds and submissions may fail, an accepted one may look failed, a borrow may fill
under way, and repays of an earlier unwind, stuck or not, may be pending at the start.

`Unwind` is `unwindWith`. `stage` is where it is: the closing rounds, the wait for the
first release (`WaitReturn`), the sale of the collateral that has come (`Trade`), the
wait for its proceeds (`WaitFill`), `waitBalanceStable` (`Poll`, `PollFails`), and `sweepAll`
(`Sweep`), after which the job is `reversed` whatever the sweep did. What closes and
sales release is a set of items that arrive one by one, at any time after Surf has closed
the position or the DEX was given the order: `Release` and `Pays`. The balance is the
number of items that are there. The engine sees nothing but its polls; `last`, `stable`
and `polls` are the locals of the wait.

Two history variables give the properties their meaning. `smooth` is true until the first
failed query or submission, lost reply, late fill or order that a listing overlooks.
`quiet` counts the polls since something arrived, and `late` records that an arrival came
after more than `settleStableN` of them: the engine takes three equal polls for
"settled", so that a longer gap is beyond what it waits for.

| property of `unwind` | what it says |
|---|---|
| `OwnRepayKept` | no repayment that this unwind knows to have submitted is cancelled by it (one whose reply was lost is: section 4) |
| `AllClosed` | as long as all goes smoothly, positions in pools of their own are all closed |
| `SweepComplete` | after an acknowledged sweep nothing is left that came in gaps of at most three polls, unless the wait ran out |
| `FundsReturn` | in the end the position's value is home, or one of the causes the code gives up for has occurred: six rounds used up, a fault, a shared pool, a late settlement, the wait's end, a failed sweep |

Bounds: two positions, in one pool or in two; six rounds are the code's own bound;
`settleMaxPolls` is 7 where the code has 16 (`settleMaxWait` by `settlePollWait`): two arrivals, each followed
by less than three equal polls, and then three equal ones fit into it, and
so does a wait that runs out. `close_same_pool` has two positions in one pool, and the
statement that everything is closed, which is violated (section 4).

Fairness (`unwind`): the reversal's goroutine runs on, since each of its calls and waits
has a deadline; Surf's batcher eventually serves every order it can, a closed position's
collateral and a sale's proceeds arrive in the end. That is the assumption the code's rounds and
waits rest on; stuck orders are not served, and nothing is assumed about when.

### 2.5 MarketCache

Callers run `FetchMarkets` of one cached source: cache look-up, first critical
section (join or lead), upstream call with write-through, second critical section,
close, cache write, each a step. A flight's number stands for its markets, so "newer"
can be said. Upstream calls may fail, contexts may end at any time, Redis may fail,
entries expire at any time. Three callers and three flights: a leader, a
waiter, and one that comes in between.

`MarketReads` says what the comments of `CachedSource` promise, without cache, lock or
channel: the upstream is asked by one caller at a time and only when somebody
wants an answer; markets come from an upstream call that ended well; an error is told only to callers
that had asked before the failed call ended, so that no error is ever cached; anybody may
give up when its context ends. `ServesReads` is `MarketReads!Spec` under the refinement mapping at
the end of `MarketCache`: the open call is the pending flight until its leader clears it, the
calls begun are the flights started, their outcomes the flights' results; `asked`, the first flight
that ends after a caller has asked, and `told`, its last answer, are history variables of
the same name. Every step of the cache is a step of the abstract system or
leaves it alone; that is checked and proved. `CallsReturn` is the liveness half: every call
ends.

Fairness (`market_cache`): every step of a call; the upstream clients have
timeouts. New calls, expiries and cancellations are not fair.

### 2.6 ReadCache

`FetchOrders` of a cached source and `FetchBalance` of the wallet client have one shape:
look at the cache, else run two queries, write the result, return it; concurrent calls
are not joined. The variable `kind` tells them apart where they differ: a listing runs its
queries one after the other and is usable if one of them succeeded, a balance runs them
at the same time and needs both; only a listing has `q.Refresh`. A value is the pair of
times at which its queries were answered, so that its age can be spoken of.

Bounds: two callers, a clock up to 5, a TTL of 2 and calls of at most 1: enough for an
entry to be written, hit, expire and be overwritten by a call that began before it. All
expiries are stamped when the entry is written (`cache.go:140`, `wallet/client.go`), so
`BoundedStaleness` is TTL *plus* the length of a call. `RefreshSticks` holds but for
calls that were fetching when the refresh was written (`late`).

### 2.7 UserTx

What the user signs is built by one request and submitted by another, and the backend
remembers nothing in between. A transaction is therefore what it spends. A borrow has a
sequence of outputs: at Surf an unfilled order, then the position, then what rebatching makes
of it; at Liqwid the loan. `TxOf` says which transaction has made an output, since one may have
made several. `Move` takes a borrow one on, or ends it, `listed` are all outputs there have
been, since the listing that a user closes from may be of any age. `AskPayment` and `AskClose`
are the build handlers, `FreshOutRef` (Surf) and `FindLoan` (Liqwid) their look-ups at the
lender: the first finds any position of the pool, the second any loan of the listed transaction,
since neither compares the output. `BuildDone` is the lender's answer. `SubmitTx` and `SubmitRaw` post to the first endpoint of the
route; `Answer` is what the client makes of the reply: a hash, `already-on-chain`
(`isAlreadySubmittedError`), the next endpoint, or an error. A request or a reply may be lost
(`Lost`), after which what was posted may arrive later; `Deliver` is the node, which knows its
own mempool only, so that competing transactions may both be accepted, and which may be behind:
it says of an output in `New` what it says of a spent one. `Land` is a
block.

| property of `user_tx` | what it says |
|---|---|
| `SuccessTrue` | a hash is reported only for a transaction that some node has taken; `already-on-chain` only for one that was taken, whose inputs somebody else has, or one of whose inputs is new |
| `DuplicateSucceeds` | when a node has the transaction, what it says of a copy is not reported as a failure by Surf's client |
| `ClosesAsked` | a cancel spends the order that was listed; a repay spends no order, and a position of the same lender: the listed one in its present output or, since the look-ups do not tell them apart, another one of its pool (Surf) or of its transaction (Liqwid) |

Bounds: a Surf borrow that is filled and rebatched, a second one in its pool that is filled,
two Liqwid loans of one transaction; the output that the filling has made is new; one coin, for which two transactions compete; one request at a time. What a
request that was given up has posted stays on its way beside the next one, so that copies of a
transaction and competing ones still meet at the nodes; the theorems are for any number of requests.
No fairness is assumed: nothing here is promised to happen.

### 2.8 Strike

A challenge stands for its nonce and its key pair. The challenge request names an address
(`wallet`), which Strike takes for its account; the verify request names one again, or
none, and the credential is kept under the latter. The handler does not compare them:
`strayed` are the challenges for which they differ. `RequestSignature` and `PutPending` are the two halves of the
challenge handler around its call of Strike, `TakePending`, `Links` and `PutCredential`
those of the verify handler and Strike's act between them. For each deposit and withdrawal `Owner` is the
address its requests name, `step` is
how far the browser has come and `confirm` are the confirm handlers, of which a second
may be started while the first has not answered. `Record` is best-effort as in the code: the entry is
written, or not, or written by Mongo after the handler gave up (`WriteLands`).
`SettleWithdraw` updates every entry of the withdrawal in the history in use. The handler would do
so for any status, at any time, without a credential; the model has the request as the page,
its only caller, sends it: once, with "sent", after the settlement was submitted (`index.html:2850-2882`).
The properties of the history rest on that order. `Restart`
forgets key pairs, credentials and handlers, and chooses the history store again.

Bounds: two addresses, two challenges and two verify handlers (two tabs, two wallets, or one signature sent twice), a
deposit and a withdrawal with two confirms each, one restart.

| property | what it says |
|---|---|
| `NonceOnce` | a signed challenge is put to Strike at most once |
| `CredentialLinked` | the key in use is one that Strike has linked; it is in use under one address only, and under that of its challenge unless the verify request named another |
| `HistoryTrue`, `SettledStaysSent` | entries tell what Strike accepted; what a settlement found stays "sent" |

## 3. What is proved

Every theorem is proved for all values of the constants, from the named assumptions
on them in the modules: types of the constants, and that a plan has finitely many legs. One
theorem, `OneReversalUnwindsAlone`, has hypotheses of its own, in its
statement and below. But for `SeparatePoolsAreClosed`, a theorem of the list says of every
instance what a run checks on one.

* `LifecycleProofs`. `TypeCorrect` needs one more conjunct, `LegsLeft`: a goroutine
  at work on a leg has a leg left, otherwise recording a borrow could exceed the plan.
  `RegistrySound`: `Registry` is inductive over the types: a registration is set only by a
  goroutine that turns into the owner, and cleared only in the critical sections that drop
  it. `OpenIsComplete`: the invariant speaks of every copy that may be saved, not only
  of the stored document, which makes it inductive. `OneBuilder`: as long as no `Reverse`
  has been accepted, `OwnersRegistered` says that a goroutine that builds is the registered
  one and no other owner exists.
  `OneReversalUnwindsAlone` is `UnwindExclusive` under the hypotheses of its run: one reversal
  (`MaxReversals = 1`), no other call but `Open`, and a client that waits for each call; each of
  them is needed: with two reversals (`two_reversals`), with overlapping calls, or with any of `Start`,
  `Retry` and `Sweep` besides, TLC finds two goroutines at the address. `HandedOver` says
  which of three modes the job is in: *NotReversing*, where being at work means being
  registered and no copy of the job says `reversing`; *Asked*, where the handler of the Reverse
  is still there, so that nobody can be on the way to a registration; and *Alone*, where one
  goroutine, the cancelled owner or the handler, is all that is left but for goroutines about to
  save `open`. Signalling clears the registration, which is why *Asked* leads to *Alone* and not to two
  goroutines. A crash leads back to *NotReversing*, unless `reversing` is in the store; then recovery
  finds nothing else, and the unwind it starts is *Alone*. `Documents` (no copy of a job that is
  worked on is empty; the monitor's is open) keeps `Open` from beginning the job anew.
* `BuildLoopProofs`. `IInv` joins the types and four parts. `LegInv` bounds the loop
  variable against the recorded borrows and gives the types of the records.
  `RecordsInv` says by how much each copy of the job may miss what was sent: by the
  submission that is about to be recorded and by the lost replies, writes and processes;
  `BuildOrdersBounded` and `BuildRecordsTrue` follow. `FirstInv` says where a loop that was
  never resumed has its capital at each point, from which `BuildFirstRunOpens` follows.
* `SizingProofs`. `SizingTypeCorrect`; `PlansAreExecutable` and `PlansStayWithinTarget`
  from `PlanInv`, which ties the plan's running totals to its legs and bounds the next
  leg's supply. `BuildsWithinPlan`: `ChainInv` says that each planned leg supplies what the one before
  borrowed, `BuiltInv` that what waits to be supplied, at any price no better than it was bought at, is worth at
  most what was last borrowed (`Budget`, `Worth`); its core is `RoundTrip`, that buying
  and then valuing, each rounded down, brings nothing, for a long and for a short. `AlarmsAreTrue`: `MarginInv` says that the plan borrows its LTV of all it
  holds but the proceeds of its last leg, so that no leg, whose debt is that LTV of its worth, is
  safer than the plan; the rounding of its debt costs at most one unit, which `Liquidatable` allows for.
* `MarketCacheProofs`. `IInv` joins the types, a budget on flight numbers (counted over
  the finite set of undecided callers), the leader of the pending flight, the order of the
  flights, the published answers, and what a caller that asks may still be told; each lemma carries
  one part over a step from the parts it needs. `CacheServesReads` is the
  refinement: with the invariant, the initial states map to initial states of
  `MarketReads` and every step of the cache to one of its steps or to a stutter, the
  invariant is needed because an abstract error is only allowed to a caller that asked before
  the failed flight ended, which `asked` and the order of the flights tell.
* `ReadCacheProofs`. `BoundedStaleness` and `RefreshSticks` speak of what is cached or returned
  now, so they need to know how it got there: `IInv` adds that no call is older than
  `Timeout`, that what a call has read it read after it began, that an entry expires at most
  `TTL + Timeout` after what is in it was read, and that calls which are not `late` have read after the last
  refresh began. `AnswersAreRecent` and `RefreshesStick` follow.
* `UserTxProofs`. `SuccessTrue` strengthened by three facts: what is on its way or reported was
  built, a request waits for the submission that names it, and each reply is true of
  its transaction at the time it is read (`RepliesTrue`), which stays so because spent outputs
  and accepted transactions stay that (`Beaten` is stable). `ClosesWhatIsAsked` carries what the
  look-ups find through the build; `CopiesSucceed` is an action property.
* `UnwindProofs`, of `CloseOrders` and of `Unwind`, for any finite plan, any pools and polls.
  `SweepTakesEverything`: `CountTrue` says that while the balance equals the
  last one polled, at least as many polls have gone by without an arrival; so after the wait
  either nothing came for more than three polls, or the wait ran out (`WaitOver`), and whatever
  comes from then on is late. `CloseInv` is the invariant of the closing rounds: the orders of a position are
  numbered by its repays, a listed order tells a borrow from a repay by its number, the pool of a
  repay of this unwind is in `closedMarkets`, and a round repays a position at most once, since
  it treats positions before orders. `NeverUndoesItsRepay` follows step by step, and with `Places` and
  `Counts`, on where the funds and the wait are, `UnwindTypes`. `SeparatePoolsAreClosed` has no
  fairness: it says that, with positions in pools of their own and nothing going wrong, the
  rounds do not stop too early (`ClosesSeparate`). Its invariant, `SeparateInv`, follows a position
  from a listing to the round that treats it: what a complete listing shows and nobody has treated is in
  `todo` or owed a repay in a later round (`Listed`, `RevertsOwed`); it is the reason why the round that
  cancels a repay is never the last. With a shared pool the statement is false, which is the
  run `close_same_pool`. `AllClosed`, its liveness counterpart, is checked by `unwind`.
* `StrikeProofs`. The invariant has two halves, of which every step but a restart changes
  one. `NonceOnce` needs that a stashed key pair has not been asked about; `CredentialLinked`
  that a handler with Strike's yes holds a linked key, that each key pair is in one place only (in the stash, with
  one handler, or in use: popping it is what keeps a key from two addresses), and that a handler with
  another address than that of its challenge has a strayed key pair; `HistoryTrue` and `SettledStaysSent` that a
  confirm request records its entry last and once, so that none found by a settlement is
  recorded again.

Only model-checked: liveness (`CancelHonoured`, `RegistrationReleased`, `RestartFinishesReversal`,
`AllClosed`, `FundsReturn`, `CallsReturn`, `LongOpens`), since fairness is out of the prover's reach, and the
statements that do not hold. Every safety property that a run checks is proved.

## 4. Where the code and its documentation disagree

Two disagreements are runs that TLC finds violated, listed with their source lines
under "findings".

| run | the statement | what happens |
|---|---|---|
| `two_reversals` | two unwinds never run at once (`engine.go:474`) | a record() of the loop hides `reversing`, a second Reverse spawns a second unwind |
| `close_same_pool` | everything open is closed (`engine.go:937`) | positions are told apart by pool, and the legs of a job share one |

Further disagreements are behaviours of the models that no run singles out:

* Lifecycle. A process that stops while the loop goroutine unwinds leaves `running` in the
  store, and recovery rebuilds the position (`engine.go:345-348`). `failed` may be saved over
  `reversing`, because the check of the context and the save are two steps. A Reverse whose
  owner has made its last check leaves `reversing` with nobody to unwind. The health
  monitor writes back the whole document, statuses included. A running job whose capital is
  deployed is not "funded" and is not resumed. A cancelled watcher assumes that the loop never
  began, but `Start` accepts failed jobs. `Sweep`'s check and its sweep are not one step.
* BuildLoop. A borrow is recorded before it is confirmed (`engine.go:1251`), and a resumed loop
  goes past it: it may report OPEN with a last borrow that was dropped or never filled, where
  `engine.go:621-624` promises that in-flight work is re-driven from live balances. A short that fails after its borrow is recorded can never go on: its capital is
  in the borrowed asset, only a long trades it again, and each Retry fails with "no
  collateral held". A long whose first trade was accepted but answered with an error fails
  every Retry with "nothing to trade", although the doc of Retry (`engine.go:560-564`) promises
  resumption. An unread balance before a swap counts as 0, so that a short takes the ADA fee
  reserve for its proceeds.
* Sizing. `openLeg` borrows the leg's LTV of the whole balance and not the plan's tapered
  amount, so that the last leg builds past `MaxLeverage` (`math.go:8`). The health reported is
  the plan's: the last borrow's proceeds count as collateral, so that a position which the
  lender may liquidate is reported as healthy (`health.go:91`). Conversely an alarm may be false of legs
  that were lent after the price had moved, or in a market that `openLeg` picked anew and
  whose threshold is higher than the quoted one's (`engine.go:666`).
* CloseOrders. A borrow that fills after it was listed, half a listing that passes for a
  whole one, and an order that becomes active between the two queries of a listing each end
  the unwind with a position open. A repay whose reply was lost is not known as the unwind's
  own, and is cancelled.
* Unwind. What settles after three equal polls, or after `settleMaxWait`, stays at the temp address,
  although one sweep is said to recover everything (`engine.go:1185-1188`). `unwindWith` marks
  the job reversed even if the sweep failed. `tradeAll` sells only the collateral that has come
  so far ("SELL any returned collateral"); what comes later is swept as tokens, and the wait
  for the proceeds may be ended by another release.
* MarketCache. The cache is not looked at again under the lock: a caller that missed it
  before a flight landed starts another (`cache.go:27-28`); there is still one at a time. A
  leader whose context ends fails everybody who waits for its flight. A slow write of an older
  flight may replace a newer entry.
* ReadCache. A slower, older `FetchOrders` overwrites what a refresh has written. Half a
  listing is cached for the whole TTL.
* UserTx. `already-on-chain` may be reported for a transaction that can never land: its
  outRef was rebatched under it, which the node words as `BadInputsUTxO`; or for one that has not been
  taken and could be later: the node that refuses it is behind and does not know an input yet. The code says
  "already landed on chain on a previous attempt" (`surf/client.go:994-998`, `frontend-spec.md:172`). `freshOutRef` takes the first position of the pool, which need not be
  the listed one. Liqwid's `BuildClose` ignores the output index: it closes the first loan of the
  transaction hash (`liqwid/client.go:942-946`).
* Job store. Mongo's `$set` never clears an omitted `error`, so that a job that was resumed
  keeps its old message; the memory store's copies share the array behind `Steps`.
* Strike. The address kept with a key pair is discarded (`strike.go:91`) and the credential stored under
  that of the verify request (`strike.go:106`): a user who switches wallets between the two requests has
  the second wallet's deposits signed with the first one's key. A verification or a confirm that Strike accepted but whose answer was lost is an
  error to the user, and a withdrawal so accepted is in no history and is never settled by the
  page. A confirm that is sent again may record a second entry; one recorded, or written by
  Mongo, after the settlement stays "pending". A settlement that finds no entry answers
  `ok`. `handleStrikeWithdrawBatcher` does not ask for a credential, though its comment says
  it does (`strike.go:242-243`). A key pair older than ten minutes stays valid until the next challenge.

## 5. Not modelled

* Wallets created before sealing was authenticated (`isLegacyWallet`): they are refused
  at the same points a failed load is.
* The Liqwid branch of `openLeg`: `engineSource` excludes it.
* The two job stores as such. `Lifecycle` has one document that is replaced as a whole; the
  differences named above change no status.
* A job whose entry price could not be probed: the log promises that "health tracking will start
  once a price is available" (`engine.go:256-257`), but `EntryPrice` is set in `Open` only, and the monitor
  skips the job for good (`health.go:93`). `Sizing` has jobs whose probe succeeded.
* The wording of answers, some of which matters: the leverage a rejection advises is rounded to two
  digits (`engine.go:179-183`) and may be rejected again; `frontend-spec.md` has clients pass `witnesses` and
  `trackedOrder` back, for which the submit parameters have no fields.
* Limits of the market that a leg picks: a borrow beyond them is a leg that fails, as in `Lifecycle` and `BuildLoop`.
* Amounts outside `Sizing`: conversions between an underlying asset and its receipt token
  (Surf's rate, Liqwid's qTokens), minimum outputs and fees.
* The merge of witness sets (`tx_finalize.go`), sealing and signing of temp wallets: a pure
  function on CBOR and cryptography, without state.
* Cryptography, number formatting, HTTP encoding, logging, the decoding of listings, the
  DexHunter client, start-up selection of backends, deployment, the web page.
* A mirror write (`BulkWrite`) that lands after its context has ended: nothing reads the mirror.
* Floating-point error: `Sizing` counts in integers rounded down.

## 6. Plan

Ownership of the temp address, the most important behaviour, came first, then the loop, the
caches and the Strike proxy, then the whole reversal, the promise of the market cache and the
user's transactions. What is left:

1. What is left of `OneReversalUnwindsAlone` with `Start` and `Retry` calls that return before the
   Reverse is made.
2. A bound for `SeparatePoolsAreClosed` on the rounds that a smooth unwind needs.
3. `JobStore`: an abstract store of documents, and the Mongo and the memory store as its
   implementations; `TxWitness`: the union of witness sets, as operators.
