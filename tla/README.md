# A TLA+ development of pump-swap-sdk

The SDK is a Rust library: a client that quotes and sends trades to the
pump-amm program, pays out creator fees, and posts Jito bundles through a pool
of block-engine clients. It keeps little state of its own. What is hard about
it is that everything it decides rests on reads of a chain that moves on, that
its pool is shared by concurrent tasks, and that its arithmetic has to repeat
the program's to the last unit. The modules here model those three things, TLC
checks them on small instances, and TLAPS proves the core for all parameters.

Paths below are relative to the repository (`src/util.rs` and so on); line
numbers in the modules name the file without its directory.

## Inventory

| Component | State | Operations | Interacts with | Hard part |
|---|---|---|---|---|
| JitoPool (`src/util.rs` 25-85) | atomic counter `rr`, deadlines `last` under a mutex | `new`, `next_client` | tokio mutex and timers | tasks racing for a slot, sleeping outside the lock, cancellation |
| Bundle submission (`src/util.rs` 260-310) | attempt counter | `send_jito_bundle`, `send_bundle_with_retry` | JitoPool, block engines | lost answers, duplicates, attempt budget, rotation of retries |
| Swap pricing (`src/math.rs`) | none | quotes for sell, exact-in and exact-out buy, slippage, market cap | fee schedules | rounding, saturation, drained reserves, f64 |
| Fees and ladder (`src/state.rs` 400-584) | `FeeConfig` read from chain | choice of a schedule | pricing | thresholds, empty ladder, per-component rounding |
| Quoting and trading (`src/client.rs` 203-325, 337-361, 672-770, 1016-1044, 1251-1645) | what it read | snapshot, fees, quote, build, send | pump-amm, fee program, other traders | every await is a chance for the pool to move |
| Creator-fee routing (`src/client.rs` 845-907, 1057-1231; `src/instruction.rs` 608-636, 853-1192; `src/util.rs` 209-230, 322-441) | what it read | payout v1 and v2, sweeps, collect, migrate, backfill | pump.fun, pump-amm, the coin's other users | decisions on outdated reads, one atomic transaction, size limit, vaults that differ in a letter of a seed |
| Account decoding (`src/state.rs` 8-21, 91-400, 447-521, 586-640, 670-938; `src/util.rs` 97-139) | `PoolInfo` and other records | `from_account_data`, `Reader`, optional fetches | all readers | short and over-long accounts, shrunk lists, foreign and missing accounts |
| Volume accumulators (`src/state.rs` 655-837; `src/client.rs` 773-831, 915-931; `src/instruction.rs` 450-598) | window and daily arrays, a user's counters | `day_index`, `is_active_at`, `empty`, init, sync, close, two claims | token incentives, cashback | window boundaries, signed overflow, an account that may be missing |
| Swap transactions (`src/client.rs` 672-739, 1016-1044, 1233-1645; `src/instruction.rs` 237-395) | instruction list | five builders, `maybe_extend_pool_ix` | token program, other transactions of the wallet | WSOL funding on either orientation, rent, stale pool length, closing accounts |
| Pooled amounts, simulations (`src/client.rs` 368-490, 745-770) | back-off delay | retry loop over two reads; simulated buy, sell, exact buy | RPC | torn reads, back-off, a simulation that differs from the trade |
| WSOL pools (`src/client.rs` 492-663, 930-1007; `src/instruction.rs` 397-441, 716-828) | instruction list | create, deposit, withdraw | token program | the wallet's own WSOL account, a share of an outdated balance, token programs |
| Encoding, constants (`src/instruction.rs`, `src/constants.rs`) | none | layouts of arguments, choice of fee recipients | all builders | settled by the repository's byte-level tests |

What makes each component correct:

- **JitoPool**: one reservation per region and cooldown; equal turns; each call
  takes one reservation and returns.
- **Bundles**: a fixed number of attempts; a duplicate only after a lost answer;
  a retry turns to another region; every call ends.
- **Pricing and fees**: the quote is the program's own fill; limits never exceed
  it; no free round trip; the right rung at and between thresholds.
- **Trading**: an order built from state that still holds is never rejected by
  the swap; the SDK prices against the reserve the program prices against.
- **Swap and pool transactions**: a transaction that the wallet can afford never
  fails in the SDK's own instructions; it moves what the caller meant, on either
  orientation; no SOL stays behind in an account.
- **Creator fees**: a payout never fails for a fee left on the curve and leaves
  none behind; a rejected size has a way out; every route passes the programs'
  account checks and touches the vaults of its own coin only.
- **Reads**: what is decoded is what was written, at every age and length of an
  account; a missing account means what an empty one does; the day and the fee
  schedule picked from it are the right ones.
- **Pooled amounts**: a pair is read within one attempt, an error means an
  outage, and every call returns.
- **Simulations**: they show what the real transaction would do.

## Modules

| Module | Models |
|---|---|
| `RateLimiter` | abstract specification: a region is reserved only when its last reservations are old enough |
| `JitoPool` | `JitoPool::new`, `next_client`; refines `RateLimiter` |
| `BundleRetry` | `send_bundle_with_retry` by several tasks, on top of `JitoPool` |
| `SwapMath` | the arithmetic of `math.rs` and `Fees`, as operators |
| `FeeLadder` | `FeeConfig`'s choice of a schedule, as operators |
| `SwapLaws` | walks through all quote requests of a small width and states what the operators must satisfy |
| `PumpAmm` | external: a pool, its traders, sweeps and admin |
| `SwapFlow` | the client's trades against `PumpAmm` |
| `Wallet` | external: a wallet's accounts, the token programs and pump-amm, instruction by instruction |
| `TxClient` | what all transactions of the client share: built, sent, landed or lost, and the extension of old pools |
| `SwapTx` | the five swap builders, `buy`, `buy_exact_quote_in`, `sell` and the three simulations on `Wallet` |
| `LiquidityTx` | creating, filling and leaving a WSOL pool on `Wallet` |
| `CreatorChain` | external: one coin's creator fees on chain |
| `CreatorFees` | the payout, sweep and collect operations against `CreatorChain` |
| `Addresses` | the derivations of `util.rs`, as terms |
| `FeeInstructions` | the builders of fee, cashback and incentive instructions, with their account lists |
| `FeePrograms` | external: the programs that check those lists and act on them |
| `FeeRoutes` | all these transactions over several coins; implements `CreatorChain`'s ledger for each of them |
| `PooledAmounts` | `fetch_pool_reserves`, `fetch_ui_pooled_amounts` |
| `AccountData` | `Reader` and the decoders of `state.rs`, on the real layouts |
| `VolumeDays` | `is_active_at`, `day_index` |
| `AccountReads` | an account over its life, and what the SDK reads from it |
| `MC*` | instances for TLC |
| `*Proofs` | theorems |

### JitoPool

`rr` and `last` are the struct's fields; `pc`, `slot`, `wait` and `wakeAt` are
the locals of each call. `Reserve` is the `fetch_add`. The mutex is held across
no await, so one pass through the critical section is one step: `Grant` (stamp
and break) or `Defer` (compute the remaining time). `Sleep` starts the timer in
a later step, when time may have passed, and `Wake` goes back to the loop head.
`Cancel` drops the future at an await. `Release` ends the caller's use of its
client. The mutex's queue is not modelled: any task at the loop head may be
next, which is more than the code allows. `grants`, `reserved`, `napFor`,
`calls` and `wraps` are history.

### BundleRetry

`stage` is the position in the loop, `attempt` and `resumeAt` are locals.
`Acquire` composes with `Reserve` of the pool and `InPool` with its other steps.
`Post` chooses whether the engine accepted the bundle; `AnswerOk` and `OnError`
are the two arms of the match, so an accepted bundle may still come back as an
error. `OnError` increments, compares and backs off as one step, as there is no
await between.

### SwapMath, FeeLadder and SwapLaws

Products are exact, as u128 is in the code, and results saturate at `U64Max`
where the code saturates. The width of a u64, the 10,000 basis points and the 53
bits of an f64 are constants, so that a small instance meets the same
boundaries. A slippage is a fraction with a power of two as denominator, which
an f64 holds exactly; `F64` rounds to nearest even. `None` of
`constant_product_in` is `~ Priceable`.

`SwapLaws` has a state per quote request: its steps only enumerate. The laws of
the ladder are checked in `AccountReads`, on decoded configurations: the rung of each
interval, and the dearest below the first.

### SwapFlow over PumpAmm

`PumpAmm` states the program's arithmetic by what it guarantees (the largest
output that keeps the product, the smallest whole fee that covers a rate), not
by the SDK's formulas, so `SwapFlow` compares two different definitions. Its
`waiting` fees sit in the quote vault and are cancelled by `virtual`, as v2
trades and sweeps do.

A client's trade is `Snapshot` (pool and vaults in one RPC), `PriceAndSend`
(the fee configuration in a second RPC, then quote and order without a further
await) or `Refuse`, and `Land`, which executes or rejects against the pool as it
is then. `Fail` is an RPC error or a dropped transaction at any point. `buy` and
`sell` use the instruction of their name; the token-oriented trades choose it by
the pool's orientation.

An order is the swap instruction alone; what surrounds it in the transaction is
`SwapTx`'s.

### SwapTx and LiquidityTx over Wallet

`Wallet` runs a transaction the way the runtime does: `Submit` saves the chain,
`Execute` runs one instruction per step, `Commit` ends it, `Fail` and `Reject`
restore what was saved. Nothing else steps in between. `Effects` is the set of
states an instruction may leave, empty where it fails; where pump-amm chooses the
price it has one for every fill within the caller's limits. `Reject` is pump-amm
refusing for reasons of its own: a price beyond the limits, or the extension of
a pool that is long enough by now (what the program does then is not known here,
so it may accept or refuse). `into` adds up what left the wallet.

`TxClient` has the tasks of one wallet: `Place` stores a finished instruction list,
`Send` submits it, `Drop` loses it, `LoadPool` refreshes the `PoolInfo` they share.
A list is a sequence of records, built by concatenation in the order of the
code; the account list of a swap is reduced to which user account is at the base
and which at the quote position. `create_account_with_seed` and
`initialize_account` keep lamports and WSOL amount apart, as do the transfer and
`sync_native` of the liquidity operations. The random seed is modelled as an
account name no other transaction uses. A simulation is the list that the
operation would submit with another flag (`Simulated`): it changes nothing, so it
is no action, and `SimulationForetells` compares the outcomes of both lists in
every state. `PlusRent` wraps as a release build does;
in a debug build the addition panics and nothing is sent.

`SwapTx` states what an order means (`GivesSol`, `Lacking`) from the names of the
operations, without the builders. `LiquidityTx` uses the wallet's own WSOL
account, which may hold SOL before and into which the owner wraps more, and reads
the LP balance when it builds a withdrawal. Its `Share` is the f64 product of the
code, by `SwapMath`'s `F64`. Withdrawing does not extend a short pool and the
model lets it pass, since the repository does not say otherwise.

### CreatorFees over CreatorChain

`CreatorChain` keeps the coin's fees as a ledger (curve, pool, two vaults of
pump-amm, pump.fun's vault, paid) and applies instructions to it. `CreatorFees`
has the reads (`ReadConfig`, then `BuildPayout` with the second read), the
stand-alone sweeps (`BuildSweeps`), the collect from a held `PoolInfo`
(`LoadPool`, `BuildCollect`), and `Land`, which executes a plan atomically only
if nothing about it is wrong. `Wrong` lists every rejection: size, vault, config
status, shareholders, unswept curve, minimum payout. The fees of a coin without
a sharing config are not modelled on the curve, because no SDK operation sweeps
them there.

Transaction sizes are abstracted to `BothSweepsFit`, the number of shareholders
up to which a payout with both sweeps fits; with one sweep every split fits. The
`_v2` payout has the same control flow and is the same actions; its flag that
creates shareholders' token accounts is in `FeeRoutes`.

### FeeRoutes over FeePrograms

`CreatorFees` asks when a transaction lands; `FeeRoutes` asks whether its
addresses are right. An address is a term, program and seed word and seeds, so
two derivations are equal exactly when they agree in all of it. `Addresses` and
`FeeInstructions` are the SDK's side. `FeePrograms` is the other side: it reads
accounts by position and derives what it expects from its own seeds, so an error
on one side is not repeated on the other. Its rules are those the docs of the
builders give: what is refused, created, skipped, paid. Where the docs are silent
it is lenient: a swap creates the vault it pays into, a closed accumulator may
hold anything, a cashback sale by a user without accumulator earns nothing.

`chain` holds the accounts that exist by address; a transaction (`Swap`, `Payout`,
`Sweep`, `Collection` and so on, `Offered` when the accounts call for it) is
`Executed` instruction by instruction (`After`), and is built and executed in one
step (`Send`), since the races between the two are `CreatorFees`' subject. The coins are one
paired with SOL, one paired with a Token-2022 mint whose trades earn cashback,
and a pool that never was on a curve; a graduated pool may name the config, the
wallet from before the split, or nobody (`set_coin_creator` backfills it).

`LedgersImplemented` maps the accounts of each coin to the ledger of
`CreatorChain` (an instance per coin) and says that every step is, for every
coin, one of the ledger's moves or a stutter: a payout is all of sweep,
transfer and distribution or nothing, and no transaction of one coin moves
another's fees. So the ledger that `CreatorFees` reasons about is the one that
the instructions implement.

### PooledAmounts

`failures` and `delay` are the loop counter and the local of
`fetch_ui_pooled_amounts`; `stage` is the await it is in. Every successive state
of the pool has a number and a balance is the number of the state it was read in,
so a torn pair shows. `Fault` is any error of a request or an unusable answer.
`Wake` is the end of a back-off, also of the one after the last attempt.

### AccountReads over AccountData

An account is a discriminator, an allocation and the cells written into it; a
cell is a run of bytes with one value. The layouts have the real widths, offsets
and allocations. Reading bytes that are not exactly a cell gives `Junk`, bytes
never written are zero, bytes beyond the end are `Cut`. The owning program writes
a value over the front and leaves what is behind it, so a shrunk list leaves old
entries; a list that the account has no room for makes the program fail (`Fits`).
`DecodeTyped` reads field after field as `Reader` does and fails with the first
that fails; `DecodePool` and `DecodeCurve` read at absolute offsets,
and their later fields are zero where the account ends before them.
`from_account_data` of `Pool` checks the length and no discriminator, as in the
code. `View` is a caller that substitutes `empty` for `None`.

`VolumeDays` has i64 arithmetic with the width as a constant: subtraction wraps
as in a release build (a debug build panics), division rounds towards zero.

## Runs

| Run | Shows |
|---|---|
| `pool_safety` | three tasks, two regions, a counter that wraps after 3 and so in mid-round: cooldown spacing, naps cover the deadline they were for, rotation, one stamp per call, refinement of `RateLimiter` |
| `retry` | two tasks, `max_retries` 4, so up to three attempts: budget, duplicates, regions of retries, every bundle settles, every call of the pool returns |
| `swap_laws` | all reserves and amounts up to 22, four schedules, three slippages: the laws of pricing |
| `swap_f64` | finding: with amounts beyond the mantissa the floor exceeds the fill |
| `swap_flow` | three kinds of pool, two configurations, two market moves between any two steps of a trade |
| `swap_tx` | two tasks, one wallet of nine lamports, pools of three lengths on both sides of the threshold, caps up to u64::MAX: funding, orientation, WSOL coming home, simulations |
| `liquidity_tx` | two tasks on one pool that exists or not, a WSOL account open or not, shares of a half, all and six times the balance |
| `liquidity_tx_mixed` | finding: no withdrawal from a pool of a Token-2022 token |
| `creator_fees` | one caller, two operations, six steps of others: sweeps, size, fresh transactions, nothing left behind |
| `pooled_amounts` | two calls with the code's six attempts and delays, over a pool that moves four times: torn pairs, errors, every call returns |
| `accounts` | every kind of account, real layouts and allocations, two rewrites, lists of up to two entries, cut at every length; every schedule of a small i64; every ladder of two rungs on four market caps |
| `fee_routes` | three coins from sixteen starting points with fees waiting or not, any three steps: every offered transaction lands, every step is one of the ledger's |

**Bounds.** `MaxCalls` and `IdleHorizon` bound the pool's history: six calls of
three tasks meet each region three times and the counter wraps twice. A real
usize counting bundles never wraps; the model lets a small one wrap because
`fetch_add` does, so that rotation needs no assumption about the width;
`IdleHorizon` only bounds idle time, a running timer always reaches its
deadline. `U64Max = 22` with ten basis points in a whole makes every saturation
reachable (a product of 22 by 22, a sum of reserves above the width), and
`Mantissa = 12` is more than any product needs, so that the laws are checked
without rounding of the f64; `swap_f64` sets it to 3. In `SwapFlow` fee rates are
large against the trades, so that roundings of one unit change results, and two
market moves are enough for a v2 trade and a sweep, or a trade and a change of
configuration, on either side of the fee read. `SwapTx` and
`LiquidityTx` allow two transactions, so that one can land between building and
landing of the other, and two moves of others; amounts of one and two lamports
against rents of two and three cover orders that are just affordable, just not,
and whose peak is reached before anything comes back. `CreatorFees` needs six moves for
trade, graduation, trade, migration and status change around one payout.
`retry` has `IdleHorizon = 0`: time passes only while a timer runs, which is all
that its properties depend on. In `accounts`, `MaxWrites = 2` with
`MaxEntries = 2` gives a list that shrinks over old entries and one that grows
back; `I64Max = 3` and `Days = 2` put the window, the width and the last bucket
within reach of each other. In `fee_routes` three steps reach a migration or
backfill followed by a trade and a payout, and a payout of one coin after one of
another; fees that wait from the start stand for the trades before.
More than one client would add nothing to `SwapFlow` and `CreatorFees`: clients
meet only through the chain, where `Market` and `Others` already do all that
another client can.

**Fairness.** `FairSpec` assumes that the clock does not stop and that a task at
a point where it can run is eventually polled. The tokio runtime and its fair
mutex give this. It does not assume that a sleeper wakes in time; liveness holds
because the tasks make finitely many calls. `RetrySpec` adds that a posted
request is answered or fails, which the HTTP client's timeout gives. In
`PooledAmounts`, `WF_pooledVars(Step)` says the same of the two requests and that timers
fire; the loop then ends because the attempts are counted. The other
specifications have no fairness.

**Deadlock** checking is off: all systems stop when their bounded work is done.

## Proofs

All theorems hold for every value of the constants that satisfies the named
assumptions of the modules: one client at least, a natural cooldown, a positive
counter width; a positive number of basis points that fits a u64; for a pool, one
side that trades, amounts that fit a u64, rates below a whole and a ladder whose
first threshold is zero (`PoolAssumption`, `ConfigAssumption`: what pump-amm's
configuration account holds); positive rents and a pool size up to
`POOL_ACCOUNT_NEW_SIZE`; one attempt at least and a first delay up to the cap; one
bucket at least; coins with a mint and a sharing config of their own, and a wallet
that is no config's address (`CoinsAssumption`); a power of two as the unit in
which slippages and shares are counted (`UnitAssumption`, `LiquidityTxAssumption`: the models keep a fraction as
a number of such units, exact in a double). Where a theorem needs more, its
statement says so. Two such hypotheses recur. `PowersOfTwo` says
`2 ^ (e + 1) = 2 * 2 ^ e` for every e; it is the one law of `^` used, and
is cited because the provers know none. And bounds by the mantissa (`Double`, `WithinDoubles`,
`LandedExact`, or `U64Max <= 2 ^ Mantissa`) mark where the code's doubles are
exact: the run `swap_f64` shows that the statements fail beyond them.

**JitoProofs: the pool.** `CooldownSafe` needs more than the property says: a new grant
is only compared with the slot's deadline. `DeadlineInv` says the deadline is
beyond the cooldown of all earlier grants, and with `TypeOK` that is inductive.
`ImplementsLimiter` uses the same invariant as the guard of the abstract
`Grant`. `NapSafe` follows the waiting time from the computed duration to the
timer to the clock (`NapInv`). `RoundRobinHolds` writes the counter as full
rounds plus a remainder on top of what earlier laps handed out (`LapInv`);
`SlotOfRound` is its arithmetic. `OneStamp` counts: the stamps of a region and the
calls still waiting for it are never more than the calls it was drawn for
(`StampInv`, on cardinalities). The steps are stated for any module whose pool steps
are these (`PoolMove`), so they serve `BundleRetry` too.

**JitoProofs: the retry loop.** `BudgetHolds` ties `sent` to `attempt` in each stage;
`DuplicatesExplained` is inductive with the types of its counters.
`PoolSafeUnderRetry` carries all of the pool's invariants over to the composition:
every step of `RetryNext` is a step of the pool or leaves it alone.
`RetriesMoveOn` says a retry returns to a region only after all others, which
rests on the counter and on nothing the retry loop stores.

**CreatorFeesProofs.** `UnsweptNever` needs that a plan without a curve sweep was
built on a graduated coin with an empty curve, and that neither changes again:
graduation is permanent and the curve then takes no trades. `SecondTry` adds that
`prepared` implies the same state. `FreshLands` relates each plan to the reads it
was built from, and those to the facts of the coin that never change back.
`NothingLeft` is an action property: the ledger after a payout, whichever sweeps
it carries. `TypeCorrect` includes that a pool's creator is set once the pool exists.

**PricingProofs.** The arithmetic that the next two modules share: floor and
ceiling division, saturation, fees that are rounded up one by one (`FeeOnCovers`
and its like), and the largest or smallest number with a property, found with the
least-number principle on a set instead of an induction over a predicate.
`RungsApply` and `BelowTheLadder` are about every ascending ladder of any length:
the largest reached position is the rung whose interval contains the cap, and
below the first threshold the first rung is at least as dear as all.
The rounding of a double, `F64`, is a search for the exponent whose unit fits the
number: `UlpIs` and `F64Is` characterise its result, `F64Mono` says it never
reverses an order, a number of at most `Mantissa` bits is its own rounding, and
`FloorIs` and `CapIs` bound `min_receive` and `max_cost` by it.
`DayIndexIsRight` is about every width, window and timestamp: an active timestamp
is not below the start, so for a programme after 1970 the subtraction does not
wrap; with an earlier start it may wrap and the index still stays inside the arrays.

**SwapProofs.** The laws first: `BuyFits`, `RoundTrip` and `SellNearly` are arithmetic: for all
u64 requests, a quoted exact-in buy can be bought as an exact output, nothing
comes back from a round trip, and one unit more sold costs at most two of output
(three components, each of which may round up). `LimitsBracketWithinDoubles`: where
the quoted amounts fit the mantissa, a floor is never above the fill and a cap never
below the cost, because rounding is monotone and leaves the amount itself as it is.
The temporal part only carries the type of the request.

For `SwapFlow`, two independent definitions agree: `SellAgrees` and
`BuyAgrees` say that the formulas of `math.rs` are the program's fill, which
`PumpAmm` states as the largest output that keeps the product and the smallest
fees that cover their rates, wherever the program can execute at all, and
`ExactOutFits` that a floor at or below a quote costs no more than the input. Then
the races. `FlowInv` says of the pool that its effective reserve is the vault less
what waits in it, and of each client what it knows at its stage: the view is of
one state of the pool, and an order was computed from what `seen` records. It gives
`SnapshotsHold`; and with `CurrentRate` (the SDK picks the program's schedule
whenever it knows the ladder applies) and the agreement of the formulas, an
undisturbed order is never rejected and a limit at zero slippage is the fill. These two go
through a double. What they need of it is `FloorsUpTo(n)`: up to n, applying a
slippage of zero changes nothing and applying another never raises an amount;
with the lemmas on `F64` it is a consequence of `PowersOfTwo` for every n up to
2^Mantissa, the boundary of the first finding. `FreshLandsUpTo` and
`ExactLimitsUpTo` are about the trades whose amounts
stay within 2^Mantissa; `FreshQuotesLand` and `ZeroSlippageExact` are the checked
properties themselves where that is the whole width, and `MCSwapFlow` assumes exactly
that of its instance, so TLC evaluates the hypothesis there.

**SwapTxProofs.** The property at the end of a transaction rests on what its rest
still has to do, so the invariant has to speak of both. `BuildIs` shows that the
five builders, which concatenate from the left and differ in flags and funding,
write one script; `InScript` says at each place of it what the wallet holds
compared with the wallet before: the opened account and the lamports it took, the
token account, what was paid. `ScriptSteps` and `ScriptEnds` follow it instruction
by instruction, for both orientations of the pool. `WalletInv` adds what holds
between transactions (`Home`: no WSOL account, every lamport accounted for) and that a
plan or a held `PoolInfo` may be old but the pool has only grown since, which is
why a plan without an extension is right. `SolComesHomeAlways` and
`TradesAsMeantAlways` follow. `EquippedNeverFailsIfFit` goes through the places where an
instruction can fail and finds what was lacking (`WhyFailed`). Its hypothesis
`LamportsFit` is that the runtime keeps the wallet's lamports in a u64: funding
that wraps is then more than any wallet could pay, and so a case of `Lacking`.
Without the bound on lamports that argument fails, with it the wrapped addition is
harmless. `SimulationForetellsAlways` compares two instruction lists run to their end
on the same wallet, an induction over the list; it is done with `Outcomes` as a recursive function on
the places of the list. That such a function exists and unfolds from its head is shown by a
least-number argument (`StatesExist`, `StatesAreUnrolled`, `OutcomesFrom`), since the library's
induction theorems cannot be instantiated. `Foretold` then says of the rest of two lists what
the property says of the whole, and is carried from the end of the script to its
front, instruction by instruction; the lists differ in one, the opening of the
token account of a simulated buy.

**LiquidityTxProofs.** The same argument for the three builders that use the wallet's own
WSOL account. It may hold SOL that came from elsewhere, so `Home` accounts for what is
wrapped instead of excluding it; each place of a script
states the wallet relative to the one before, and `Landed` keeps
what was moved. `SolComesHomeAlways`, `MovesAsMeantAlways` and
`TakesItsShareIfExact` follow from `WalletInv`. `EquippedNeverFailsIfQuotedInSol` goes
through the instructions that can fail and is about pools quoted in SOL, which is all that
`create_wsol_pool_with_options` makes and the other two assume.

**ReadsProofs.** Two components. For `AccountReads` the theorems are about every content
a program can write, any number of rewrites and every list length the accounts have room
for. `ReadsInv` says what the bytes of an account are: the cells of what was last written,
as far as there was room (`room`), and behind its end whatever older writes left; no two
cells overlap, and the account was allocated by its program (`AccountIs`, `Holds`). A
write replaces exactly the cells in front of its end, so it keeps this (`WriteHolds`,
`Overwrites`), extending an account adds no cell, and a new account is blank. Where the
fields start is a recursive function of the layout, for the Reader even of the bytes; that
it exists and is unique is shown with a least-number argument (`WalkExists`,
`WalkUnique`), so that a field that is read where it was written is what was written
(`FieldReads`), hence the Reader stands where the next one was written (`SameStarts`), up
to the first field that is not all there, where it fails (`FieldFails`, `DecodeShort`).
The offsets of `Pool` and `BondingCurve` are those of the layout (`OffsetsAre`). With that
`Decode` is a function of what was written and of `room` alone (`DecodesTo`), which is
`ReadsReturnTheWrite` and `CreateAndExtendKeepReads`; `CutsAreSeen` applies the same
lemmas to the cut account. `FetchedDaysAreRight` and `FetchedLadderIsRight` carry
`DayIndexIsRight`, `RungsApply` and `BelowTheLadder` over to the decoded values.

For `PooledAmounts`, `PairsAreReadInOneAttempt` is inductive with the stages at
which each half of a pair is there (`AttemptInv`): a new attempt begins with
nothing read. `ErrorsMeanAnOutage` ties the faults of a call to the iterations
that are over (`FaultInv`). `PatienceIsBounded` needs that the delay never exceeds
the cap, and adds (with `PatienceBounded`) that a call sleeps at most the attempts
times the cap.

**FeeRoutesProofs.** `RoutesAlwaysLand` is `RoutesLand` for any coins, lists of
shareholders, wallets and amounts: nothing in it counts steps, so it covers payouts
and migrations at the end of any history. Its invariant is `Sound`, which says of each
coin what its accounts are: the pool and the curve, if they are there, carry the
coin's own mints and token program, the pool's creator is the config, the wallet or
nobody, the curve's is the config, the config lists the coin's shareholders, no wallet
is a config, and the global incentive account exists. `RoutesLand` alone is not
inductive, since it says nothing about the state that a transaction leaves behind.
`SameSeeds` shows that each derivation of the SDK is the program's, `SeedsOf` and
`PoolIsItsCoins` that different seeds are different accounts. Then there is one lemma per
instruction (`SweepPoolRuns` to `CloseRuns`): in a sound state its account list passes
every check, and what it writes, so that the state stays sound. The instructions in a transaction
run on the states of those before them, so `ExecutedRun` and `Appended` unfold
`Executed` along the list, and one lemma per route puts the steps together
(`SwapLands` to `ClosingLands`). The payouts are the long one: which sweeps there are
depends on the pool and the curve (`SweepsAre`), each adds to the vaults of the coin and
nothing else (`PoolSweptIs`, `CurveSweptIs`, `SweepsRun`), so what the payout finds
in pump.fun's vault is `Due` (`DueIs`), and it is refused only when that is below the minimum
(`PayoutEndsWell`). `NextKeeps` and `InitIsSound` close the induction.

**Types.** The three theorems of type correctness are for modules whose other
proofs rest on them; `JitoPool`'s is also checked by `pool_safety`, where the
counter's width is the point. The other modules state no type invariant.

**Only model-checked.** Liveness (`EveryCallReturns`, `EveryBundleSettles`,
`EveryFetchReturns`): fairness is beyond the prover used. `LedgersImplemented` of
`FeeRoutes`: that every account list is right is proved, that each step then is one of
`CreatorChain`'s needs in addition that the accounts of shareholders are not shared
between coins in ways that make one coin's payout another's receipt, and the sums of
`FoldLeft` over a list of any length, an induction over data. Beyond the hypotheses
of their theorems, `EquippedNeverFails` of `LiquidityTx` (pools not quoted in SOL) and
`TakesItsShare` (balances that do not fit the mantissa) are not proved.
`LimitsBracketTheFill` is false there: see the first finding.

**What the properties exempt.** `EquippedNeverFails` speaks of wallets that have what
the order needs (`Lacking`, `LeavesTokens`). So it does not count as a failure that a
partial sale cannot close the token account, that rent plus an amount beyond u64
wraps, that another task's sale closed the account a buy relies on, or that an LP
balance fell below the share built from it; `TakesItsShare` promises an empty balance
only if the balance is still the one that was read. `SnapshotPrices` cannot see a pool
and vaults read at two moments, since `fetch_pool_snapshot` reads them in one RPC; two
separate reads are `PooledAmounts`'.

## Findings

Shown by runs:

1. Slippage in f64: above 2^53 base units a zero-slippage floor can exceed the
   fill and a cap can fall below the cost (`src/math.rs` 58 and 179).
2. `withdraw_from_wsol_pool` assumes SPL Token, so a pool of a Token-2022 token can
   be opened and filled but not left (`src/client.rs` 613-620,
   `src/instruction.rs` 781-828).

Noticed while modelling and visible in the definitions, with no run of their own:
`PumpSwapClient::sell` always closes the token account, so a partial sale fails,
and on a SOL-base pool, where the account receives the tokens, every sale does
(`ClientOrder` of `SwapTx`; `EquippedNeverFails` allows it as `LeavesTokens`;
`src/client.rs` 1036, 1472); `fetch_ui_pooled_amounts` backs off for nine seconds
where its doc says about six, because it also sleeps after its last attempt
(`Wake` of `PooledAmounts`, `src/client.rs` 380-382 and 409);
`send_bundle_with_retry` makes `max_retries - 1` attempts and reports
`max_retries` retries (`Budget` of `BundleRetry`, `src/util.rs` 298-303); for an
empty ladder `fees_for_pool` returns the flat schedule, its doc says it does not
(`LadderFees` of `FeeLadder`, `src/state.rs` 554-557 and 575). `simulate_buy` and
`simulate_buy_exact_quote_in` create the token account that `buy` and
`buy_exact_quote_in` rely on, so they can show a trade that would fail, and all
three simulations return `Ok` when the simulated transaction failed
(`Simulated`, `src/client.rs` 445, 486, 764). `claim_cashback` needs the user's own
quote account; for WSOL no trade of the SDK opens it, since the builders use a
throw-away account (`Claims`, `src/client.rs` 773). `day_index` wraps, or
panics in a debug build, for a window that starts far before 1970 (`WrapI64`,
`src/state.rs` 832). The pool decoder accepts any account that is long enough
(`DecodePool`, `src/state.rs` 179).

## Plan

All modules of the plan are written. The laws of the ladder moved from a run of
their own into `accounts`, the pool's liveness into `retry`. Left, in this order:

1. Proofs: `LedgersImplemented`, on top of the lemmas per instruction of
   `FeeRoutesProofs`.
2. `fetch_fee_state` and the accessors of `client.rs` that combine reads already
   modelled.
3. Clients with a stale `PoolInfo` in `FeeRoutes`, beyond the one coin that
   `CreatorFees` races.

## Not modelled

The bytes of instruction data and discriminators and the random choice of a fee
recipient (stateless, tested against bytes); logging; the fee-less
`calc_amount_out`; `load_pool`'s detection of a mint's token program, taken as
right; `fetch_fee_state`, two reads of `AccountReads` in one; the examples. The
programs themselves are external: what they do is taken from the docs of the
builders, and nothing is claimed about them. A transaction lands at most once and
a blockhash's expiry is one of the ways it is dropped.
